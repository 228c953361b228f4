--------------------------- MODULE SessionRegistry ---------------------------
(***************************************************************************)
(* What the auth component promises about the login sessions of an         *)
(* account: a login opens a session, refreshing keeps it, and once a       *)
(* session has ended (logout, password change, ban) nothing brings it      *)
(* back, not even an unban.  A session is named by its first refresh       *)
(* token.  Module Sessions implements this.                                *)
(***************************************************************************)
CONSTANT Tokens

VARIABLE session   \* the state of every session

RegistryInit == session = [s \in Tokens |-> "none"]

Open(s) == session[s] = "none" /\ session' = [session EXCEPT ![s] = "live"]
End(s) == session[s] = "live" /\ session' = [session EXCEPT ![s] = "ended"]

RegistryNext == \E s \in Tokens : Open(s) \/ End(s)

RegistrySpec == RegistryInit /\ [][RegistryNext]_session
=============================================================================

----------------------------- MODULE Backoffice -----------------------------
(***************************************************************************)
(* What users and admins do to their own side of the program: accounts,    *)
(* reports, figures and notifications.  The parts share no row; they are   *)
(* put side by side.                                                       *)
(***************************************************************************)
EXTENDS Accounts, Reports, Analytics, Inbox

vars == <<accountVars, reportVars, analyticsVars, inboxVars>>

Init == AccountsInit /\ ReportsInit /\ AnalyticsInit /\ InboxInit

Next ==
  \/ AccountsNext /\ UNCHANGED <<reportVars, analyticsVars, inboxVars>>
  \/ ReportsNext /\ UNCHANGED <<accountVars, analyticsVars, inboxVars>>
  \/ AnalyticsNext /\ UNCHANGED <<accountVars, reportVars, inboxVars>>
  \/ InboxNext /\ UNCHANGED <<accountVars, reportVars, analyticsVars>>

Spec == Init /\ [][Next]_vars
=============================================================================

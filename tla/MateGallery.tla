---------------------------- MODULE MateGallery ----------------------------
(***************************************************************************)
(* The gallery of the mate (mate-gallery.service.ts) and the object store  *)
(* behind it (minio-mate-storage.provider.ts), over the profile.           *)
(*                                                                         *)
(* Nothing here is a transaction.  addPhoto reads the profile and the      *)
(* photos, stores the object, inserts the row, and removes the object      *)
(* again if the insert fails.  removePhoto removes the object first and    *)
(* then the row, so that a removal that fails can be tried again.  The key *)
(* of an object is named by the row that it is meant for.                  *)
(***************************************************************************)
EXTENDS MateProfile

CONSTANTS PhotoIds,         \* ids of rows; the sequence never gives one out twice
          MaxGallery        \* MAX_GALLERY_SIZE

ASSUME MaxGalleryAssumption == MaxGallery \in Nat \ {0}

VARIABLES photo,            \* the MatePhoto table of the mate
          objects,          \* the objects in the store
          leaked,           \* history: objects that a failed upload has left
          broken            \* history: rows whose object a failed request has removed

galleryVars == <<photo, objects, leaked, broken>>
vars == <<mate, links, job, raced, photo, objects, leaked, broken>>

Unused == [state |-> "unused"]
Erased == [state |-> "erased"]
Photos == [slot : 0..MaxGallery, stored : BOOLEAN]

ListJob == [pc : {"list"}, upload : BOOLEAN]
StoreJob == [pc : {"store"}, slot : 0..MaxGallery]
InsertUrlJob == [pc : {"insertUrl"}, slot : 0..MaxGallery]
InsertJob == [pc : {"insert"}, slot : 0..MaxGallery, id : PhotoIds]
\* Compensation of an upload, the two halves of a removal.
OnPhotoJob == [pc : {"undo", "unstore", "erase"}, id : PhotoIds]
GalleryJobs == ListJob \cup StoreJob \cup InsertUrlJob \cup InsertJob \cup OnPhotoJob

Shown == {id \in PhotoIds : photo[id] \notin {Unused, Erased}}
On(w, id) == job[w].pc \in {"insert", "undo", "unstore", "erase"} /\ job[w].id = id
\* An id, or the key of an object, that nobody has or has had.
Fresh(id) == photo[id] = Unused /\ id \notin objects /\ \A w \in Workers : ~On(w, id)
SlotTaken(slot) == \E id \in Shown : photo[id].slot = slot
FirstFree == CHOOSE s \in 0..MaxGallery : ~SlotTaken(s) /\ \A r \in 0..s - 1 : SlotTaken(r)

Init ==
  /\ ProfileInit
  /\ photo = [id \in PhotoIds |-> Unused]
  /\ objects = {}
  /\ leaked = {}
  /\ broken = {}

(***************************************************************************)
(* addPhoto                                                                *)
(***************************************************************************)

AddRead(w, upload) ==
  /\ job[w] = Idle
  /\ Active
  /\ Begin(w, [pc |-> "list", upload |-> upload])
  /\ UNCHANGED <<profileVars, galleryVars>>

\* Mutant of AddList: the size of the gallery is not looked at.
AddListAnySize(w) ==
  /\ At(w, "list")
  /\ Begin(w, [pc |-> IF job[w].upload THEN "store" ELSE "insertUrl", slot |-> FirstFree])
  /\ UNCHANGED <<profileVars, galleryVars>>

AddList(w) ==
  /\ At(w, "list")
  /\ IF Cardinality(Shown) >= MaxGallery THEN Leave(w)
     ELSE Begin(w, [pc |-> IF job[w].upload THEN "store" ELSE "insertUrl", slot |-> FirstFree])
  /\ UNCHANGED <<profileVars, galleryVars>>

\* The store answers, or fails although it has the object: nobody removes it then.
Store(w, id) ==
  /\ At(w, "store")
  /\ Fresh(id)
  /\ objects' = objects \cup {id}
  /\ \/ /\ Begin(w, [pc |-> "insert", slot |-> job[w].slot, id |-> id])
        /\ UNCHANGED leaked
     \/ /\ Leave(w)
        /\ leaked' = leaked \cup {id}
  /\ UNCHANGED <<profileVars, photo, broken>>

InsertUrl(w, id) ==
  /\ At(w, "insertUrl")
  /\ Leave(w)
  /\ \/ /\ ~SlotTaken(job[w].slot)
        /\ Fresh(id)
        /\ photo' = [photo EXCEPT ![id] = [slot |-> job[w].slot, stored |-> FALSE]]
     \/ /\ SlotTaken(job[w].slot)
        /\ UNCHANGED photo
  /\ UNCHANGED <<profileVars, objects, leaked, broken>>

Insert(w) ==
  /\ At(w, "insert")
  /\ ~SlotTaken(job[w].slot)
  /\ photo' = [photo EXCEPT ![job[w].id] = [slot |-> job[w].slot, stored |-> TRUE]]
  /\ Leave(w)
  /\ UNCHANGED <<profileVars, objects, leaked, broken>>

\* The slot was taken in the meantime, or the database failed, or only its answer
\* was lost, so that the object of a photo that is there will be removed.
InsertFails(w) ==
  /\ At(w, "insert")
  /\ \/ UNCHANGED <<photo, broken>>
     \/ /\ ~SlotTaken(job[w].slot)
        /\ photo' = [photo EXCEPT ![job[w].id] = [slot |-> job[w].slot, stored |-> TRUE]]
        /\ broken' = broken \cup {job[w].id}
  /\ Begin(w, [pc |-> "undo", id |-> job[w].id])
  /\ UNCHANGED <<profileVars, objects, leaked>>

\* The compensation.
Undo(w) ==
  /\ At(w, "undo")
  /\ objects' = objects \ {job[w].id}
  /\ Leave(w)
  /\ UNCHANGED <<profileVars, photo, leaked, broken>>

(***************************************************************************)
(* removePhoto                                                             *)
(***************************************************************************)

\* Mutant of RemoveRead: the row is erased before the object.
RemoveReadErases(w, id) ==
  /\ job[w] = Idle
  /\ id \in Shown
  /\ photo' = [photo EXCEPT ![id] = Erased]
  /\ broken' = broken \ {id}
  /\ Begin(w, [pc |-> IF photo[id].stored THEN "unstore" ELSE "erase", id |-> id])
  /\ UNCHANGED <<profileVars, objects, leaked>>

RemoveRead(w, id) ==
  /\ job[w] = Idle
  /\ id \in Shown
  /\ Begin(w, [pc |-> IF photo[id].stored THEN "unstore" ELSE "erase", id |-> id])
  /\ UNCHANGED <<profileVars, galleryVars>>

\* Mutant of RemoveObject: the request ends here.
RemoveObjectOnly(w) ==
  /\ At(w, "unstore")
  /\ objects' = objects \ {job[w].id}
  /\ Leave(w)
  /\ UNCHANGED <<profileVars, photo, leaked, broken>>

RemoveObject(w) ==
  /\ At(w, "unstore")
  /\ objects' = objects \ {job[w].id}
  /\ Begin(w, [pc |-> "erase", id |-> job[w].id])
  /\ UNCHANGED <<profileVars, photo, leaked, broken>>

EraseRow(w) ==
  /\ At(w, "erase")
  /\ photo' = [photo EXCEPT ![job[w].id] = Erased]
  /\ broken' = broken \ {job[w].id}
  /\ Leave(w)
  /\ UNCHANGED <<profileVars, objects, leaked>>

\* A request ends with an exception or a crash: what it has stored is left behind
\* (a compensation that fails is swallowed), what it has removed is missing.
GalleryFail(w) ==
  /\ job[w] \in GalleryJobs
  /\ leaked' = IF (At(w, "insert") \/ At(w, "undo")) /\ job[w].id \notin Shown
               THEN leaked \cup {job[w].id} ELSE leaked
  /\ broken' = IF At(w, "erase") /\ job[w].id \in Shown /\ photo[job[w].id].stored
               THEN broken \cup {job[w].id} ELSE broken
  /\ Leave(w)
  /\ UNCHANGED <<profileVars, photo, objects>>

GalleryNext == \E w \in Workers :
  \/ \E upload \in BOOLEAN : AddRead(w, upload)
  \/ AddList(w) \/ Insert(w) \/ InsertFails(w) \/ Undo(w)
  \/ \E id \in PhotoIds : Store(w, id) \/ InsertUrl(w, id) \/ RemoveRead(w, id)
  \/ RemoveObject(w) \/ EraseRow(w) \/ GalleryFail(w)

Next ==
  \/ ProfileNext /\ UNCHANGED galleryVars
  \/ GalleryNext

Spec == Init /\ [][Next]_vars

(***************************************************************************)
(* Properties                                                              *)
(***************************************************************************)

\* The types of the tables and the jobs; a row that is broken is there, and an
\* inactive profile has the date of its deactivation.
TypeOK ==
  /\ mate \in {NoMate} \cup [province : Provinces, district : Districts,
                             active : BOOLEAN, dated : BOOLEAN]
  /\ links \subseteq Activities
  /\ raced \in BOOLEAN
  /\ job \in [Workers -> ProfileJobs \cup GalleryJobs]
  /\ photo \in [PhotoIds -> {Unused, Erased} \cup Photos]
  /\ objects \subseteq PhotoIds
  /\ leaked \subseteq PhotoIds
  /\ broken \subseteq Shown
  /\ Exists => mate.active \/ mate.dated

\* A gallery has no more than its maximum of photos, at slots of their own below it,
\* however many uploads have counted them at the same time (PHOTO-05, PHOTO-13).
GalleryIsBounded ==
  /\ Cardinality(Shown) <= MaxGallery
  /\ \A id \in Shown : photo[id].slot < MaxGallery
  /\ \A x, y \in Shown : x # y => photo[x].slot # photo[y].slot

\* The object of an uploaded photo is in the store, unless a request in flight has
\* removed it or one that failed has.
PhotosHaveObjects ==
  \A id \in Shown : photo[id].stored /\ id \notin objects =>
    id \in broken \/ \E w \in Workers : At(w, "erase") /\ job[w].id = id

\* An object has a row unless its upload is in flight or has failed; a removal,
\* finished or failed, never leaves one behind (PHOTO-10, PHOTO-11).
ObjectsHavePhotos ==
  \A id \in objects : id \in Shown \cup leaked
    \/ \E w \in Workers : job[w].pc \in {"insert", "undo"} /\ job[w].id = id
===============================================================================

---------------------------- MODULE PhotoGallery ----------------------------
(***************************************************************************)
(* The photos of one user: the rows of photos with their is_primary flag,  *)
(* and profiles.profile_photo_key, the copy of the primary photo's key     *)
(* that the grid and discover read.                                        *)
(*                                                                         *)
(* create_photo is three statements, delete_photo and set_primary_photo a  *)
(* read followed by a transaction.  A transaction locks the rows it writes *)
(* until it commits: DeleteSelect and DeleteCommit are the two ends of     *)
(* one, and another delete or set_primary_photo waits in between.  A photo *)
(* stands for its id and for its key; positions are left out, so "lowest   *)
(* position" is any other photo.                                           *)
(***************************************************************************)
EXTENDS Naturals, FiniteSets

CONSTANTS
  Photos,     \* photo ids; bounds how many are ever inserted
  Reqs,       \* slots of requests being served at the same time
  NoPhoto     \* NULL

ASSUME NullIsNew == NoPhoto \notin Photos

VARIABLES
  row,        \* photo |-> "none", the kind its key was uploaded as, or "gone"
  primary,    \* rows with is_primary
  key,        \* profiles.profile_photo_key
  pc, rq,     \* where each request stands, and what it has read
  calm        \* history: no write since set_primary_photo relied on an old read

vars == <<row, primary, key, pc, rq, calm>>

Kinds == {"profile", "other"}
Steps == {"idle", "insert", "sync", "delete", "promote", "set"}
Locals == [photo : Photos \cup {NoPhoto}, first : BOOLEAN, next : Photos \cup {NoPhoto}]
Local(p, b, q) == [photo |-> p, first |-> b, next |-> q]
Blank == Local(NoPhoto, FALSE, NoPhoto)

Stored == {p \in Photos : row[p] \in Kinds}
Locked(p) == p \in Stored /\ \E r \in Reqs : pc[r] = "promote" /\ rq[r].photo = p

TypeOK ==
  /\ row \in [Photos -> Kinds \cup {"none", "gone"}]
  /\ primary \subseteq Stored
  /\ key \in Photos \cup {NoPhoto}
  /\ pc \in [Reqs -> Steps]
  /\ rq \in [Reqs -> Locals]
  /\ \A r \in Reqs : pc[r] \in {"sync", "delete", "promote", "set"} => rq[r].photo \in Photos
  /\ \A r \in Reqs : pc[r] = "promote" => rq[r].next # rq[r].photo
  /\ calm \in BOOLEAN

Init ==
  /\ row = [p \in Photos |-> "none"]
  /\ primary = {} /\ key = NoPhoto
  /\ pc = [r \in Reqs |-> "idle"]
  /\ rq = [r \in Reqs |-> Blank]
  /\ calm = TRUE

-----------------------------------------------------------------------------
Begin(r, step, locals) ==
  /\ pc[r] = "idle"
  /\ pc' = [pc EXCEPT ![r] = step]
  /\ rq' = [rq EXCEPT ![r] = locals]
Finish(r) ==
  /\ pc' = [pc EXCEPT ![r] = "idle"]
  /\ rq' = [rq EXCEPT ![r] = Blank]

-----------------------------------------------------------------------------
(* create_photo of kind "profile": the count is of all the user's rows,    *)
(* whatever they were uploaded for.                                        *)
CreateCount(r) ==
  /\ Begin(r, "insert", Local(NoPhoto, Stored = {}, NoPhoto))
  /\ UNCHANGED <<row, primary, key, calm>>

CreateInsert(r) ==
  /\ pc[r] = "insert"
  /\ \E p \in Photos :
       /\ row[p] = "none"
       /\ row' = [row EXCEPT ![p] = "profile"]
       /\ IF rq[r].first
          THEN /\ primary' = primary \cup {p}
               /\ pc' = [pc EXCEPT ![r] = "sync"]
               /\ rq' = [rq EXCEPT ![r] = Local(p, TRUE, NoPhoto)]
          ELSE UNCHANGED primary /\ Finish(r)
  /\ calm' = (calm /\ (rq[r].first => Stored = {}))
  /\ UNCHANGED key

CreateSync(r) ==
  /\ pc[r] = "sync"
  /\ key' = rq[r].photo
  /\ calm' = (calm /\ primary = {rq[r].photo})
  /\ Finish(r)
  /\ UNCHANGED <<row, primary>>

(* The inserts that leave is_primary at its default: create_photo of the   *)
(* other kinds, the photos of an album, the onboarding card.               *)
InsertPlain(p) ==
  /\ row[p] = "none"
  /\ row' = [row EXCEPT ![p] = "other"]
  /\ UNCHANGED <<primary, key, pc, rq, calm>>

-----------------------------------------------------------------------------
(* delete_photo: is_primary is read before the transaction.                *)
DeleteRead(r, p) ==
  /\ p \in Stored
  /\ Begin(r, "delete", Local(p, p \in primary, NoPhoto))
  /\ UNCHANGED <<row, primary, key, calm>>

Remove(p) == row' = [row EXCEPT ![p] = "gone"]

(* It was not primary: the DELETE is the whole transaction.                *)
DeletePlainFlagged(r) ==          \* faulty: leaves the flag behind
  LET p == rq[r].photo IN
  /\ pc[r] = "delete" /\ ~rq[r].first
  /\ ~Locked(p)
  /\ Remove(p)
  /\ calm' = (calm /\ p \notin primary)
  /\ Finish(r)
  /\ UNCHANGED <<primary, key>>
DeletePlain(r) ==
  LET p == rq[r].photo IN
  /\ pc[r] = "delete" /\ ~rq[r].first
  /\ ~Locked(p)
  /\ Remove(p)
  /\ primary' = primary \ {p}
  /\ calm' = (calm /\ p \notin primary)
  /\ Finish(r)
  /\ UNCHANGED key

(* It was: DELETE, and the SELECT of the next photo, which may have been   *)
(* deleted by a transaction that has not committed.                        *)
DeleteSelect(r) ==
  LET p == rq[r].photo
      rest == Stored \ {p}
  IN
  /\ pc[r] = "delete" /\ rq[r].first
  /\ ~Locked(p)
  /\ pc' = [pc EXCEPT ![r] = "promote"]
  /\ \E q \in IF rest = {} THEN {NoPhoto} ELSE rest :
       rq' = [rq EXCEPT ![r].next = q]
  /\ UNCHANGED <<row, primary, key, calm>>

Fresh(p, q) == IF q = NoPhoto THEN Stored \subseteq {p} ELSE q \in Stored

(* Promote it, if it is still there, and copy its key, whether it is or    *)
(* not; commit.                                                            *)
DeleteForgets(r) ==               \* faulty: copies the key and promotes nobody
  LET p == rq[r].photo
      q == rq[r].next
  IN
  /\ pc[r] = "promote"
  /\ Remove(p)
  /\ primary' = primary \ {p}
  /\ key' = q
  /\ calm' = (calm /\ primary \ {p} \subseteq {q} /\ Fresh(p, q))
  /\ Finish(r)
DeleteCommit(r) ==
  LET p == rq[r].photo
      q == rq[r].next
  IN
  /\ pc[r] = "promote"
  /\ q # NoPhoto => ~Locked(q)
  /\ Remove(p)
  /\ primary' = (primary \ {p}) \cup ({q} \cap Stored)
  /\ key' = q
  /\ calm' = (calm /\ primary \ {p} \subseteq {q} /\ Fresh(p, q))
  /\ Finish(r)

-----------------------------------------------------------------------------
(* set_primary_photo: the key is read before the transaction, whose first  *)
(* statement writes every row of the user and waits for those being        *)
(* deleted.  The chosen photo may be gone by then.                         *)
SetRead(r, p) ==
  /\ p \in Stored
  /\ Begin(r, "set", Local(p, FALSE, NoPhoto))
  /\ UNCHANGED <<row, primary, key, calm>>

SetKeepsOthers(r) ==              \* faulty: does not clear the flags
  LET p == rq[r].photo IN
  /\ pc[r] = "set"
  /\ \A q \in Photos : ~Locked(q)
  /\ primary' = primary \cup ({p} \cap Stored)
  /\ key' = p
  /\ calm' = (p \in Stored)
  /\ Finish(r)
  /\ UNCHANGED row
SetWrite(r) ==
  LET p == rq[r].photo IN
  /\ pc[r] = "set"
  /\ \A q \in Photos : ~Locked(q)
  /\ primary' = {p} \cap Stored
  /\ key' = p
  /\ calm' = (p \in Stored)
  /\ Finish(r)
  /\ UNCHANGED row

-----------------------------------------------------------------------------
(* The PATCH of the profile writes the key it is given.                    *)
EditKey(p) ==
  /\ key' = p
  /\ calm' = (calm /\ primary = {p})
  /\ UNCHANGED <<row, primary, pc, rq>>

(* anonymize_user clears the key and leaves the photos.                    *)
Anonymize ==
  /\ key' = NoPhoto
  /\ calm' = (calm /\ primary = {})
  /\ UNCHANGED <<row, primary, pc, rq>>

(* A request ends between two statements; an open transaction rolls back.  *)
Abort(r) ==
  /\ pc[r] # "idle"
  /\ Finish(r)
  /\ calm' = (calm /\ pc[r] # "sync")
  /\ UNCHANGED <<row, primary, key>>

Next ==
  \/ \E r \in Reqs : \/ CreateCount(r) \/ CreateInsert(r) \/ CreateSync(r)
                     \/ \E p \in Photos : DeleteRead(r, p) \/ SetRead(r, p)
                     \/ DeletePlain(r) \/ DeleteSelect(r) \/ DeleteCommit(r)
                     \/ SetWrite(r) \/ Abort(r)
  \/ \E p \in Photos : InsertPlain(p) \/ EditKey(p)
  \/ Anonymize

Spec == Init /\ [][Next]_vars

-----------------------------------------------------------------------------
Syncing == \E r \in Reqs : pc[r] = "sync"

(* However uploads, deletions and choices of a primary photo overlap, one  *)
(* photo at most is primary and profile_photo_key names it (and nothing    *)
(* when there is none), unless a write relied on a read that was no longer *)
(* true or the key was written by itself; a set_primary_photo of a photo   *)
(* that is there repairs both (db/src/photos.rs, create_photo).            *)
GalleryAgrees ==
  calm => /\ \A p, q \in primary : p = q
          /\ ~Syncing => {key} \ {NoPhoto} = primary

(* Deleting the primary photo of a gallery makes another one primary: a    *)
(* gallery loses its primary photo only with its last photo, or to a write *)
(* that relied on an old read (delete_photo's promotion).                  *)
PrimaryIsKept ==
  [][calm' /\ primary # {} /\ Stored' # {} => primary' # {}]_vars
=============================================================================

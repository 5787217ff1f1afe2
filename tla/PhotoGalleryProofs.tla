------------------------- MODULE PhotoGalleryProofs -------------------------
(***************************************************************************)
(* Proofs about PhotoGallery, for any number of photos and of requests     *)
(* that overlap.  TypeOK is inductive and GalleryAgrees is inductive       *)
(* beside it: what makes a write dangerous is that it relies on an old     *)
(* read, and calm remembers that one has.                                  *)
(***************************************************************************)
EXTENDS PhotoGallery, TLAPS

Inv == TypeOK /\ GalleryAgrees

LEMMA LocalType ==
  ASSUME NEW p \in Photos \cup {NoPhoto}, NEW b \in BOOLEAN, NEW q \in Photos \cup {NoPhoto}
  PROVE  /\ Local(p, b, q) \in Locals
         /\ Local(p, b, q).photo = p /\ Local(p, b, q).first = b /\ Local(p, b, q).next = q
BY DEF Local, Locals

(* Of a request: where it stands and what it holds fit together.           *)
RequestOK(step, q) ==
  /\ step \in Steps /\ q \in Locals
  /\ step \in {"sync", "delete", "promote", "set"} => q.photo \in Photos
  /\ step = "promote" => q.next # q.photo

LEMMA LocalOK ==
  ASSUME NEW p \in Photos, NEW b \in BOOLEAN, NEW s \in Steps \ {"promote"}
  PROVE  RequestOK(s, Local(p, b, NoPhoto))
<1>1. p \in Photos \cup {NoPhoto} /\ NoPhoto \in Photos \cup {NoPhoto}
  OBVIOUS
<1>2. Local(p, b, NoPhoto) \in Locals /\ Local(p, b, NoPhoto).photo = p
  BY <1>1, LocalType
<1> QED BY <1>2 DEF RequestOK

LEMMA RequestMoves ==
  ASSUME TypeOK, NEW r \in Reqs, NEW s, NEW q, RequestOK(s, q),
         pc' = [pc EXCEPT ![r] = s], rq' = [rq EXCEPT ![r] = q]
  PROVE  /\ pc' \in [Reqs -> Steps] /\ rq' \in [Reqs -> Locals]
         /\ \A o \in Reqs : /\ pc'[o] \in {"sync", "delete", "promote", "set"} => rq'[o].photo \in Photos
                            /\ pc'[o] = "promote" => rq'[o].next # rq'[o].photo
BY DEF TypeOK, RequestOK

LEMMA RequestEnds ==
  ASSUME TypeOK, NEW r \in Reqs, Finish(r)
  PROVE  /\ pc' \in [Reqs -> Steps] /\ rq' \in [Reqs -> Locals]
         /\ \A o \in Reqs : /\ pc'[o] \in {"sync", "delete", "promote", "set"} => rq'[o].photo \in Photos
                            /\ pc'[o] = "promote" => rq'[o].next # rq'[o].photo
<1>1. RequestOK("idle", Blank)
  BY LocalType DEF RequestOK, Blank, Steps
<1> QED BY <1>1, RequestMoves DEF Finish

(* A photo that is inserted was not stored, one removed no longer is.      *)
LEMMA RowInserted ==
  ASSUME TypeOK, NEW p \in Photos, NEW k \in Kinds, row[p] = "none", row' = [row EXCEPT ![p] = k]
  PROVE  row' \in [Photos -> Kinds \cup {"none", "gone"}] /\ Stored' = Stored \cup {p} /\ p \notin Stored
BY DEF TypeOK, Stored, Kinds

LEMMA RowRemoved ==
  ASSUME TypeOK, NEW p \in Photos, Remove(p)
  PROVE  row' \in [Photos -> Kinds \cup {"none", "gone"}] /\ Stored' = Stored \ {p}
BY DEF TypeOK, Stored, Kinds, Remove

LEMMA RowsStay ==
  ASSUME row' = row
  PROVE  Stored' = Stored
BY DEF Stored

(* A request that is not at its sync does not end the last sync by moving. *)
LEMMA SyncStays ==
  ASSUME TypeOK, NEW r \in Reqs, pc[r] # "sync", NEW s, pc' = [pc EXCEPT ![r] = s], Syncing
  PROVE  Syncing'
<1>1. PICK o \in Reqs : pc[o] = "sync"
  BY DEF Syncing
<1>2. pc'[o] = "sync"
  BY <1>1 DEF TypeOK
<1> QED BY <1>2 DEF Syncing

(* What a step from a consistent gallery leaves.                           *)
Goal == Inv' /\ (calm' /\ primary # {} /\ Stored' # {} => primary' # {})

(* The steps that read, and the ones that end without writing.             *)
LEMMA Reading ==
  ASSUME Inv, NEW r \in Reqs, NEW s \in Steps \ {"sync"}, NEW q, RequestOK(s, q),
         pc' = [pc EXCEPT ![r] = s], rq' = [rq EXCEPT ![r] = q], pc[r] # "sync",
         UNCHANGED <<row, primary, key, calm>>
  PROVE  Goal
<1>1. TypeOK'
  BY RequestMoves, RowsStay DEF Inv, TypeOK
<1>2. GalleryAgrees'
  BY SyncStays DEF Inv, GalleryAgrees
<1> QED BY <1>1, <1>2 DEF Goal, Inv

LEMMA ReadSteps ==
  ASSUME Inv, NEW r \in Reqs,
         CreateCount(r) \/ DeleteSelect(r) \/ \E p \in Photos : DeleteRead(r, p) \/ SetRead(r, p)
  PROVE  Goal
<1>1. CASE CreateCount(r)
  <2>1. RequestOK("insert", Local(NoPhoto, Stored = {}, NoPhoto))
    BY LocalType DEF RequestOK, Steps
  <2> QED BY <1>1, <2>1, Reading DEF CreateCount, Begin, Steps
<1>2. ASSUME NEW p \in Photos, DeleteRead(r, p) PROVE Goal
  <2>1. ASSUME NEW b \in BOOLEAN PROVE RequestOK("delete", Local(p, b, NoPhoto))
    BY LocalOK DEF Steps
  <2>2. (p \in primary) \in BOOLEAN
    OBVIOUS
  <2>3. RequestOK("delete", Local(p, p \in primary, NoPhoto))
    BY <2>1, <2>2, Zenon
  <2> QED BY <1>2, <2>3, Reading DEF DeleteRead, Begin, Steps
<1>3. ASSUME NEW p \in Photos, SetRead(r, p) PROVE Goal
  <2>1. RequestOK("set", Local(p, FALSE, NoPhoto))
    BY LocalOK DEF Steps
  <2> QED BY <1>3, <2>1, Reading DEF SetRead, Begin, Steps
<1>4. CASE DeleteSelect(r)
  <2>1. PICK q : /\ q \in (IF Stored \ {rq[r].photo} = {} THEN {NoPhoto} ELSE Stored \ {rq[r].photo})
                 /\ rq' = [rq EXCEPT ![r].next = q]
    BY <1>4 DEF DeleteSelect
  <2>2. rq[r] \in Locals /\ rq[r].photo \in Photos /\ pc[r] = "delete"
    BY <1>4 DEF Inv, TypeOK, DeleteSelect
  <2>3. q \in Photos \cup {NoPhoto} /\ q # rq[r].photo
    BY <2>1, <2>2, NullIsNew DEF Stored
  <2>4. rq' = [rq EXCEPT ![r] = [rq[r] EXCEPT !.next = q]]
    BY <2>1
  <2>5. RequestOK("promote", [rq[r] EXCEPT !.next = q])
    BY <2>2, <2>3 DEF RequestOK, Steps, Locals
  <2> QED BY <1>4, <2>2, <2>4, <2>5, Reading DEF DeleteSelect, Steps
<1> QED BY <1>1, <1>2, <1>3, <1>4

LEMMA AbortStep ==
  ASSUME Inv, NEW r \in Reqs, Abort(r)
  PROVE  Goal
<1>1. TypeOK'
  BY RequestEnds, RowsStay DEF Inv, TypeOK, Abort
<1>2. GalleryAgrees'
  <2>1. CASE pc[r] = "sync"
    BY <2>1 DEF Abort, GalleryAgrees
  <2>2. CASE pc[r] # "sync"
    BY <2>2, SyncStays DEF Inv, Abort, Finish, GalleryAgrees
  <2> QED BY <2>1, <2>2
<1> QED BY <1>1, <1>2 DEF Goal, Inv, Abort

LEMMA CreateInsertStep ==
  ASSUME Inv, NEW r \in Reqs, CreateInsert(r)
  PROVE  Goal
<1>1. PICK p \in Photos : CreateInsert(r)!2!(p)
  BY DEF CreateInsert
<1>2. /\ row' \in [Photos -> Kinds \cup {"none", "gone"}]
      /\ Stored' = Stored \cup {p} /\ p \notin Stored
  BY <1>1, RowInserted DEF Inv, Kinds
<1>3. CASE rq[r].first
  <2>1. RequestOK("sync", Local(p, TRUE, NoPhoto))
    BY LocalOK DEF Steps
  <2>2. /\ pc' = [pc EXCEPT ![r] = "sync"]
        /\ rq' = [rq EXCEPT ![r] = Local(p, TRUE, NoPhoto)]
        /\ primary' = primary \cup {p}
    BY <1>1, <1>3
  <2>3. /\ pc' \in [Reqs -> Steps] /\ rq' \in [Reqs -> Locals]
        /\ \A o \in Reqs : /\ pc'[o] \in {"sync", "delete", "promote", "set"} => rq'[o].photo \in Photos
                           /\ pc'[o] = "promote" => rq'[o].next # rq'[o].photo
    BY <2>1, <2>2, RequestMoves DEF Inv
  <2>4. primary' \subseteq Stored' /\ key' \in Photos \cup {NoPhoto} /\ calm' \in BOOLEAN
    BY <1>2, <2>2 DEF Inv, TypeOK, CreateInsert
  <2>5. TypeOK'
    BY <1>2, <2>3, <2>4 DEF TypeOK
  <2>6. GalleryAgrees'
    <3>1. Syncing'
      BY <2>2 DEF Inv, TypeOK, Syncing
    <3>2. ASSUME calm' PROVE primary' = {p}
      BY <1>3, <2>2, <3>2 DEF CreateInsert, Inv, TypeOK
    <3> QED BY <3>1, <3>2 DEF GalleryAgrees
  <2> QED BY <2>2, <2>5, <2>6 DEF Goal, Inv
<1>4. CASE ~rq[r].first
  <2>1. Finish(r) /\ UNCHANGED primary
    BY <1>1, <1>4
  <2>2. TypeOK'
    BY <1>2, <2>1, RequestEnds DEF Inv, TypeOK, CreateInsert
  <2>3. GalleryAgrees'
    BY <2>1, SyncStays DEF Inv, CreateInsert, Finish, GalleryAgrees
  <2> QED BY <2>1, <2>2, <2>3 DEF Goal, Inv
<1> QED BY <1>3, <1>4

LEMMA CreateSyncStep ==
  ASSUME Inv, NEW r \in Reqs, CreateSync(r)
  PROVE  Goal
<1>1. TypeOK'
  BY RequestEnds, RowsStay DEF Inv, TypeOK, CreateSync
<1>2. GalleryAgrees'
  BY NullIsNew DEF Inv, TypeOK, CreateSync, GalleryAgrees
<1> QED BY <1>1, <1>2 DEF Goal, Inv, CreateSync

LEMMA DeletePlainStep ==
  ASSUME Inv, NEW r \in Reqs, DeletePlain(r)
  PROVE  Goal
<1> DEFINE p == rq[r].photo
<1>1. p \in Photos /\ pc[r] = "delete" /\ Finish(r) /\ Remove(p)
  BY DEF Inv, TypeOK, DeletePlain
<1>2. row' \in [Photos -> Kinds \cup {"none", "gone"}] /\ Stored' = Stored \ {p}
  BY <1>1, RowRemoved DEF Inv
<1>3. TypeOK'
  BY <1>1, <1>2, RequestEnds DEF Inv, TypeOK, DeletePlain
<1>4. calm' => primary' = primary
  BY DEF DeletePlain
<1>5. GalleryAgrees'
  BY <1>1, <1>4, SyncStays DEF Inv, DeletePlain, Finish, GalleryAgrees
<1> QED BY <1>3, <1>4, <1>5 DEF Goal, Inv

LEMMA DeleteCommitStep ==
  ASSUME Inv, NEW r \in Reqs, DeleteCommit(r)
  PROVE  Goal
<1> DEFINE p == rq[r].photo
           q == rq[r].next
<1>1. /\ p \in Photos /\ q \in Photos \cup {NoPhoto} /\ q # p
      /\ pc[r] = "promote" /\ Finish(r) /\ Remove(p)
  BY DEF Inv, TypeOK, Locals, DeleteCommit
<1>2. row' \in [Photos -> Kinds \cup {"none", "gone"}] /\ Stored' = Stored \ {p}
  BY <1>1, RowRemoved DEF Inv
<1>3. key' = q /\ primary' = (primary \ {p}) \cup ({q} \cap Stored)
  BY DEF DeleteCommit
<1>4. TypeOK'
  <2>1. primary' \subseteq Stored'
    BY <1>1, <1>2, <1>3 DEF Inv, TypeOK
  <2>2. calm' \in BOOLEAN
    BY DEF Inv, TypeOK, DeleteCommit
  <2> QED BY <1>1, <1>2, <1>3, <2>1, <2>2, RequestEnds DEF Inv, TypeOK
<1>5. ASSUME calm' PROVE {q} \ {NoPhoto} = primary' /\ (Stored' # {} => primary' # {})
  <2>1. primary \ {p} \subseteq {q} /\ Fresh(p, q)
    BY <1>5 DEF DeleteCommit
  <2>2. CASE q = NoPhoto
    <3>1. q \notin Stored /\ Stored \subseteq {p} /\ primary \subseteq Stored
      BY <2>1, <2>2, NullIsNew DEF Fresh, Stored, Inv, TypeOK
    <3> QED BY <1>2, <1>3, <2>1, <2>2, <3>1
  <2>3. CASE q # NoPhoto
    BY <1>3, <2>1, <2>3 DEF Fresh
  <2> QED BY <2>2, <2>3
<1>6. GalleryAgrees'
  BY <1>3, <1>5 DEF GalleryAgrees
<1> QED BY <1>4, <1>5, <1>6 DEF Goal, Inv

LEMMA SetWriteStep ==
  ASSUME Inv, NEW r \in Reqs, SetWrite(r)
  PROVE  Goal
<1> DEFINE p == rq[r].photo
<1>1. p \in Photos
  BY DEF Inv, TypeOK, SetWrite
<1>2. TypeOK'
  <2>1. primary' \subseteq Stored' /\ calm' \in BOOLEAN
    BY RowsStay DEF SetWrite
  <2> QED BY <1>1, <2>1, RequestEnds DEF Inv, TypeOK, SetWrite
<1>3. calm' => primary' = {p} /\ key' = p
  BY DEF SetWrite
<1>4. GalleryAgrees'
  BY <1>1, <1>3, NullIsNew DEF GalleryAgrees
<1> QED BY <1>2, <1>3, <1>4 DEF Goal, Inv

(* The steps of no request.                                                *)
LEMMA OtherSteps ==
  ASSUME Inv, Anonymize \/ (\E p \in Photos : InsertPlain(p) \/ EditKey(p)) \/ UNCHANGED vars
  PROVE  Goal
<1>1. CASE Anonymize
  BY <1>1, RowsStay DEF Anonymize, Inv, TypeOK, GalleryAgrees, Syncing, Goal
<1>2. ASSUME NEW p \in Photos, InsertPlain(p) PROVE Goal
  <2>1. row' \in [Photos -> Kinds \cup {"none", "gone"}] /\ Stored' = Stored \cup {p}
    BY <1>2, RowInserted DEF Inv, InsertPlain, Kinds
  <2> QED BY <1>2, <2>1 DEF InsertPlain, Inv, TypeOK, GalleryAgrees, Syncing, Goal
<1>3. ASSUME NEW p \in Photos, EditKey(p) PROVE Goal
  BY <1>3, RowsStay, NullIsNew DEF EditKey, Inv, TypeOK, GalleryAgrees, Syncing, Goal
<1>4. CASE UNCHANGED vars
  BY <1>4, RowsStay DEF vars, Inv, TypeOK, GalleryAgrees, Syncing, Goal
<1> QED BY <1>1, <1>2, <1>3, <1>4

LEMMA StepKeepsGallery ==
  ASSUME Inv, [Next]_vars
  PROVE  Goal
<1>1. ASSUME NEW r \in Reqs, CreateInsert(r) \/ CreateSync(r) \/ DeletePlain(r)
                             \/ DeleteCommit(r) \/ SetWrite(r) \/ Abort(r)
      PROVE  Goal
  BY <1>1, CreateInsertStep, CreateSyncStep, DeletePlainStep, DeleteCommitStep,
     SetWriteStep, AbortStep
<1> QED BY <1>1, ReadSteps, OtherSteps DEF Next

LEMMA InitGallery == Init => Inv
<1> SUFFICES ASSUME Init PROVE Inv
  OBVIOUS
<1>1. TypeOK
  BY LocalType DEF Init, TypeOK, Blank, Steps, Kinds
<1>2. GalleryAgrees
  BY DEF Init, GalleryAgrees
<1> QED BY <1>1, <1>2 DEF Inv

LEMMA GalleryInvariant == Spec => []Inv
<1>1. Inv /\ [Next]_vars => Inv'
  BY StepKeepsGallery DEF Goal
<1> QED BY InitGallery, <1>1, PTL DEF Spec

-----------------------------------------------------------------------------
(* Every reachable state is well typed, and only stored photos are         *)
(* primary.                                                                *)
THEOREM TypeCorrect == Spec => []TypeOK
<1>1. Inv => TypeOK
  BY DEF Inv
<1> QED BY GalleryInvariant, <1>1, PTL

(* At most one photo is primary and the profile names it, however the      *)
(* requests of create_photo, delete_photo and set_primary_photo overlap,   *)
(* until a write relies on an old read, and again after set_primary_photo. *)
THEOREM Agrees == Spec => []GalleryAgrees
<1>1. Inv => GalleryAgrees
  BY DEF Inv
<1> QED BY GalleryInvariant, <1>1, PTL

(* Deletions keep a primary photo as long as photos remain.                *)
THEOREM PrimaryKept == Spec => PrimaryIsKept
<1>1. Inv /\ [Next]_vars => [calm' /\ primary # {} /\ Stored' # {} => primary' # {}]_vars
  BY StepKeepsGallery DEF Goal
<1> QED BY GalleryInvariant, <1>1, PTL DEF Spec, PrimaryIsKept
=============================================================================

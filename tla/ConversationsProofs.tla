------------------------ MODULE ConversationsProofs ------------------------
(***************************************************************************)
(* Proofs about Conversations, for any number of users, conversations,     *)
(* blocks and concurrent requests.                                         *)
(***************************************************************************)
EXTENDS Conversations, FiniteSetTheorems, TLAPS

(* What a request that has begun knows of its arguments.                   *)
ArgsOK(step, q) ==
  /\ step # "idle" => q.user \in Users
  /\ step \in {"create", "block_delete", "add", "remove"} => q.peer \in Users
  /\ step \in {"create", "block_delete"} => q.user # q.peer
  /\ step \in {"send", "ws_send", "delete", "add", "remove"} => q.conv \in Convs

RequestsOK ==
  /\ pc \in [Reqs -> Steps]
  /\ rq \in [Reqs -> Locals]
  /\ \A r \in Reqs : ArgsOK(pc[r], rq[r])

TablesOK ==
  /\ exists \subseteq Convs
  /\ group \subseteq exists
  /\ creator \in [Convs -> Users \cup {NoUser}]
  /\ members \in [Convs -> SUBSET Users]
  /\ wrote \in [Convs -> SUBSET Users]
  /\ \A c \in Convs \ exists : members[c] = {} /\ wrote[c] = {} /\ creator[c] = NoUser

HistoryOK ==
  /\ blocks \subseteq Users \X Users
  /\ overtaken \subseteq Reqs /\ slipped \subseteq Convs
  /\ torn \subseteq SUBSET Users

TypeInv == RequestsOK /\ TablesOK /\ HistoryOK

OthersStay(r) == \A q \in Reqs \ {r} : pc'[q] = pc[q] /\ rq'[q] = rq[q]

LEMMA LocalType ==
  ASSUME NEW u \in Users \cup {NoUser}, NEW v \in Users \cup {NoUser},
         NEW c \in Convs \cup {NoConv}
  PROVE  /\ Local(u, v, c) \in Locals
         /\ Local(u, v, c).user = u /\ Local(u, v, c).peer = v /\ Local(u, v, c).conv = c
BY DEF Local, Locals

LEMMA BlankType == Blank \in Locals /\ Blank.conv = NoConv
BY LocalType DEF Blank

LEMMA RequestBegins ==
  ASSUME RequestsOK, NEW r \in Reqs, NEW s \in Steps, NEW q \in Locals,
         ArgsOK(s, q), Begin(r, s, q)
  PROVE  RequestsOK' /\ OthersStay(r) /\ pc'[r] = s /\ rq'[r] = q
<1>1. pc' \in [Reqs -> Steps] /\ rq' \in [Reqs -> Locals]
  BY DEF RequestsOK, Begin
<1>2. OthersStay(r) /\ pc'[r] = s /\ rq'[r] = q
  BY DEF RequestsOK, Begin, OthersStay
<1>3. ASSUME NEW o \in Reqs PROVE ArgsOK(pc'[o], rq'[o])
  BY <1>2 DEF RequestsOK, OthersStay
<1>4. ASSUME NEW o \in Reqs PROVE ArgsOK(pc[o], rq[o])'
  BY <1>3 DEF ArgsOK
<1> QED BY <1>1, <1>2, <1>4 DEF RequestsOK

LEMMA RequestEnds ==
  ASSUME RequestsOK, NEW r \in Reqs, Finish(r)
  PROVE  RequestsOK' /\ OthersStay(r) /\ pc'[r] = "idle" /\ rq'[r] = Blank
<1>1. pc' \in [Reqs -> Steps] /\ rq' \in [Reqs -> Locals]
  BY BlankType DEF RequestsOK, Finish, Steps
<1>2. OthersStay(r) /\ pc'[r] = "idle" /\ rq'[r] = Blank
  BY DEF RequestsOK, Finish, OthersStay
<1>3. ASSUME NEW o \in Reqs PROVE ArgsOK(pc[o], rq[o])'
  BY <1>2 DEF RequestsOK, OthersStay, ArgsOK
<1> QED BY <1>1, <1>2, <1>3 DEF RequestsOK

(* The steps that only begin a request: a check, or block_user's insert.   *)
Checks(r, u, c, v) ==
  \/ CreateCheck(r, u, v)
  \/ BlockInsert(r, u, v)
  \/ c \in Convs /\ \/ SendCheck(r, u, c) \/ WsSendCheck(r, u, c) \/ DeleteCheck(r, u, c)
                    \/ AddCheck(r, u, c, v) \/ RemoveCheck(r, u, c, v)

(* What the request then is.                                               *)
Begun(r, u, c, v) ==
  \/ CreateCheck(r, u, v) /\ pc'[r] = "create" /\ rq'[r] = Local(u, v, NoConv)
  \/ BlockInsert(r, u, v) /\ pc'[r] = "block_delete" /\ rq'[r] = Local(u, v, NoConv)
  \/ c \in Convs /\ SendCheck(r, u, c) /\ pc'[r] = "send" /\ rq'[r] = Local(u, NoUser, c)
  \/ c \in Convs /\ WsSendCheck(r, u, c) /\ pc'[r] = "ws_send" /\ rq'[r] = Local(u, NoUser, c)
  \/ c \in Convs /\ DeleteCheck(r, u, c) /\ pc'[r] = "delete" /\ rq'[r] = Local(u, NoUser, c)
  \/ c \in Convs /\ AddCheck(r, u, c, v) /\ pc'[r] = "add" /\ rq'[r] = Local(u, v, c)
  \/ c \in Convs /\ RemoveCheck(r, u, c, v) /\ pc'[r] = "remove" /\ rq'[r] = Local(u, v, c)

LEMMA CheckBegins ==
  ASSUME RequestsOK, NEW r \in Reqs, NEW u \in Users, NEW c, NEW v \in Users,
         Checks(r, u, c, v)
  PROVE  RequestsOK' /\ OthersStay(r) /\ UNCHANGED convs /\ Begun(r, u, c, v)
<1>1. CASE CreateCheck(r, u, v)
  <2>1. ArgsOK("create", Local(u, v, NoConv)) /\ Local(u, v, NoConv) \in Locals
    BY <1>1, LocalType DEF CreateCheck, ArgsOK
  <2> QED BY <1>1, <2>1, RequestBegins DEF CreateCheck, Steps, Begun
<1>2. CASE BlockInsert(r, u, v)
  <2>1. ArgsOK("block_delete", Local(u, v, NoConv)) /\ Local(u, v, NoConv) \in Locals
    BY <1>2, LocalType DEF BlockInsert, ArgsOK
  <2> QED BY <1>2, <2>1, RequestBegins DEF BlockInsert, Steps, Begun
<1>3. CASE c \in Convs /\ (SendCheck(r, u, c) \/ WsSendCheck(r, u, c) \/ DeleteCheck(r, u, c))
  <2>1. ASSUME NEW s \in {"send", "ws_send", "delete"} PROVE ArgsOK(s, Local(u, NoUser, c))
    BY <1>3, LocalType DEF ArgsOK
  <2>2. Local(u, NoUser, c) \in Locals
    BY <1>3, LocalType
  <2> QED BY <1>3, <2>1, <2>2, RequestBegins DEF SendCheck, WsSendCheck, DeleteCheck, Steps, Begun
<1>4. CASE c \in Convs /\ (AddCheck(r, u, c, v) \/ RemoveCheck(r, u, c, v))
  <2>1. ASSUME NEW s \in {"add", "remove"} PROVE ArgsOK(s, Local(u, v, c))
    BY <1>4, LocalType DEF ArgsOK
  <2>2. Local(u, v, c) \in Locals
    BY <1>4, LocalType
  <2> QED BY <1>4, <2>1, <2>2, RequestBegins DEF AddCheck, RemoveCheck, Steps, Begun
<1> QED BY <1>1, <1>2, <1>3, <1>4 DEF Checks

(* The steps that end a request.                                           *)
Acts(r) ==
  \/ \E c \in Convs : CreateInsert(r, c)
  \/ InsertMessage(r) \/ DeleteConversation(r) \/ BlockDelete(r)
  \/ AddGroupMember(r) \/ RemoveGroupMember(r) \/ Abort(r)

LEMMA ActEnds ==
  ASSUME RequestsOK, NEW r \in Reqs, Acts(r)
  PROVE  RequestsOK' /\ OthersStay(r) /\ pc'[r] = "idle" /\ rq'[r] = Blank
         /\ overtaken' = overtaken \ {r}
<1>1. Finish(r)
  BY DEF Acts, CreateInsert, InsertMessage, DeleteConversation, BlockDelete,
         AddGroupMember, RemoveGroupMember, Abort
<1> QED BY <1>1, RequestEnds DEF Finish

(* Every step is one of these.                                             *)
LEMMA StepKinds ==
  ASSUME [Next]_vars
  PROVE  \/ \E r \in Reqs, u, v \in Users : \E c : Checks(r, u, c, v)
         \/ \E r \in Reqs : Acts(r)
         \/ \E u, v \in Users : UnblockUser(u, v)
         \/ \E u \in Users, c \in Convs, others \in SUBSET Users : CreateGroup(u, c, others)
         \/ UNCHANGED vars
<1>1. ASSUME NEW r \in Reqs, TalkStep(r) \/ BlockStep(r) \/ GroupStep(r) \/ Abort(r)
      PROVE  (\E u, v \in Users : \E c : Checks(r, u, c, v)) \/ Acts(r)
  BY <1>1 DEF TalkStep, BlockStep, GroupStep, Checks, Acts
<1> QED BY <1>1 DEF Next

-----------------------------------------------------------------------------
LEMMA DropTypes ==
  ASSUME TablesOK, NEW gone, Drop(gone)
  PROVE  TablesOK'
BY DEF TablesOK, Drop

LEMMA ActTypes ==
  ASSUME TypeInv, NEW r \in Reqs, Acts(r)
  PROVE  TypeInv'
<1> DEFINE me == rq[r]
<1>0. RequestsOK' /\ overtaken' \subseteq Reqs
  BY ActEnds DEF TypeInv, HistoryOK
<1>a. ArgsOK(pc[r], me)
  BY DEF TypeInv, RequestsOK
<1>1. ASSUME NEW c \in Convs, CreateInsert(r, c) PROVE TypeInv'
  <2>1. {me.user, me.peer} \in SUBSET Users
    BY <1>1, <1>a DEF CreateInsert, ArgsOK
  <2>2. TablesOK'
    BY <1>1, <2>1 DEF CreateInsert, Insert, TypeInv, TablesOK
  <2> QED BY <1>0, <1>1, <2>2 DEF CreateInsert, TypeInv, HistoryOK
<1>2. CASE InsertMessage(r)
  <2>1. me.user \in Users /\ me.conv \in Convs
    BY <1>2, <1>a DEF InsertMessage, ArgsOK
  <2>2. TablesOK'
    BY <1>2, <2>1 DEF InsertMessage, TypeInv, TablesOK
  <2> QED BY <1>0, <1>2, <2>2 DEF InsertMessage, TypeInv, HistoryOK
<1>3. CASE DeleteConversation(r)
  BY <1>0, <1>3, DropTypes DEF DeleteConversation, TypeInv, HistoryOK
<1>4. CASE BlockDelete(r)
  <2>1. TablesOK'
    BY <1>4, DropTypes DEF BlockDelete, TypeInv
  <2> QED BY <1>0, <1>4, <2>1 DEF BlockDelete, TypeInv, HistoryOK
<1>5. CASE AddGroupMember(r)
  <2>1. me.peer \in Users /\ me.conv \in Convs
    BY <1>5, <1>a DEF AddGroupMember, ArgsOK
  <2>2. TablesOK'
    BY <1>5, <2>1 DEF AddGroupMember, TypeInv, TablesOK
  <2> QED BY <1>0, <1>5, <2>2 DEF AddGroupMember, TypeInv, HistoryOK
<1>6. CASE RemoveGroupMember(r)
  <2>1. me.conv \in Convs
    BY <1>6, <1>a DEF RemoveGroupMember, ArgsOK
  <2>2. TablesOK'
    BY <1>6, <2>1 DEF RemoveGroupMember, TypeInv, TablesOK
  <2> QED BY <1>0, <1>6, <2>2 DEF RemoveGroupMember, TypeInv, HistoryOK
<1>7. CASE Abort(r)
  <2>1. pc[r] = "block_delete" => {me.user, me.peer} \in SUBSET Users
    BY <1>a DEF ArgsOK
  <2>2. torn' \subseteq SUBSET Users
    BY <1>7, <2>1 DEF Abort, TypeInv, HistoryOK
  <2> QED BY <1>0, <1>7, <2>2 DEF Abort, convs, TypeInv, TablesOK, HistoryOK
<1> QED BY <1>1, <1>2, <1>3, <1>4, <1>5, <1>6, <1>7 DEF Acts

LEMMA CheckTypes ==
  ASSUME TypeInv, NEW r \in Reqs, NEW u \in Users, NEW c, NEW v \in Users,
         Checks(r, u, c, v)
  PROVE  TypeInv'
<1>1. RequestsOK' /\ UNCHANGED convs /\ Begun(r, u, c, v)
  BY CheckBegins DEF TypeInv
<1>2. TablesOK'
  BY <1>1 DEF TypeInv, TablesOK, convs
<1>3. HistoryOK'
  <2>1. CASE BlockInsert(r, u, v)
    BY <2>1 DEF BlockInsert, Relying, TypeInv, HistoryOK
  <2>2. CASE ~BlockInsert(r, u, v)
    <3>1. UNCHANGED <<blocks, history>>
      BY <2>2 DEF Checks, CreateCheck, SendCheck, WsSendCheck, DeleteCheck, AddCheck, RemoveCheck
    <3> QED BY <3>1 DEF TypeInv, HistoryOK, history
  <2> QED BY <2>1, <2>2
<1> QED BY <1>1, <1>2, <1>3 DEF TypeInv

LEMMA TypesHold == Spec => []TypeInv
<1>1. Init => TypeInv
  <2>1. ASSUME Init PROVE RequestsOK
    BY <2>1, BlankType DEF Init, RequestsOK, Steps, ArgsOK
  <2>2. ASSUME Init PROVE TablesOK /\ HistoryOK
    BY <2>2 DEF Init, TablesOK, HistoryOK
  <2> QED BY <2>1, <2>2 DEF TypeInv
<1>2. TypeInv /\ [Next]_vars => TypeInv'
  <2> SUFFICES ASSUME TypeInv, [Next]_vars PROVE TypeInv'
    OBVIOUS
  <2>1. ASSUME NEW u \in Users, NEW v \in Users, UnblockUser(u, v) PROVE TypeInv'
    BY <2>1 DEF UnblockUser, convs, TypeInv, RequestsOK, ArgsOK, TablesOK, HistoryOK
  <2>2. ASSUME NEW u \in Users, NEW c \in Convs, NEW others \in SUBSET Users,
               CreateGroup(u, c, others)
        PROVE  TypeInv'
    <3>1. TablesOK'
      BY <2>2 DEF CreateGroup, Insert, TypeInv, TablesOK
    <3>2. RequestsOK'
      BY <2>2 DEF CreateGroup, TypeInv, RequestsOK, ArgsOK
    <3> QED BY <2>2, <3>1, <3>2 DEF CreateGroup, TypeInv, HistoryOK
  <2>3. CASE UNCHANGED vars
    BY <2>3 DEF vars, TypeInv, RequestsOK, ArgsOK, TablesOK, HistoryOK
  <2> QED BY <2>1, <2>2, <2>3, StepKinds, CheckTypes, ActTypes
<1> QED BY <1>1, <1>2, PTL DEF Spec

(* Type correctness: what is stored belongs to conversations that exist.   *)
THEOREM TypeCorrect == Spec => []TypeOK
<1>1. TypeInv => TypeOK
  BY DEF TypeInv, RequestsOK, TablesOK, HistoryOK, TypeOK
<1> QED BY <1>1, TypesHold, PTL

-----------------------------------------------------------------------------
(* No request aims at a one-to-one conversation what may change who is in  *)
(* it, and whoever is about to write in one is one of its two.             *)
PairInv ==
  /\ PairStaysPair
  /\ \A r \in Reqs :
       /\ pc[r] \in {"add", "remove"} => rq[r].conv \notin Pairs
       /\ pc[r] \in {"send", "ws_send"} /\ rq[r].conv \in Pairs
            => rq[r].user \in members[rq[r].conv]

LEMMA PairTables ==
  ASSUME NEW r \in Reqs, NEW u, NEW c, NEW v, Checks(r, u, c, v)
  PROVE  UNCHANGED convs
BY DEF Checks, CreateCheck, BlockInsert, SendCheck, WsSendCheck, DeleteCheck, AddCheck, RemoveCheck

(* A one-to-one conversation is as it was, but for a message of a member,  *)
(* or it is one that a request has just made.                              *)
PairsFixed ==
  \A c \in Pairs' :
    \/ /\ c \in Pairs /\ members'[c] = members[c]
       /\ wrote'[c] = wrote[c]
            \/ \E u \in members[c] : wrote'[c] = wrote[c] \cup {u}
    \/ \E r \in Reqs : CreateInsert(r, c)

LEMMA DropFixed ==
  ASSUME TypeInv, NEW gone, Drop(gone)
  PROVE  PairsFixed
BY DEF TypeInv, TablesOK, Drop, Pairs, PairsFixed

LEMMA PairsStay ==
  ASSUME TypeInv, PairInv, [Next]_vars
  PROVE  PairsFixed
<1>0. \A c \in Pairs : c \in Convs
  BY DEF Pairs, TypeInv, TablesOK
<1>1. ASSUME UNCHANGED convs PROVE PairsFixed
  BY <1>1 DEF convs, PairsFixed, Pairs
<1>2. ASSUME NEW r \in Reqs, NEW c \in Convs, CreateInsert(r, c) PROVE PairsFixed
  BY <1>0, <1>2 DEF CreateInsert, Insert, PairsFixed, Pairs, TypeInv, TablesOK
<1>3. ASSUME NEW r \in Reqs, InsertMessage(r) PROVE PairsFixed
  <2>1. rq[r].conv \in Pairs => rq[r].user \in members[rq[r].conv]
    BY <1>3 DEF InsertMessage, PairInv
  <2>2. Pairs' = Pairs /\ members' = members
    BY <1>3 DEF InsertMessage, Pairs
  <2>3. ASSUME NEW c \in Pairs
        PROVE  wrote'[c] = wrote[c] \/ \E u \in members[c] : wrote'[c] = wrote[c] \cup {u}
    BY <1>0, <1>3, <2>1 DEF InsertMessage, TypeInv, TablesOK
  <2> QED BY <2>2, <2>3 DEF PairsFixed
<1>4. ASSUME NEW r \in Reqs, DeleteConversation(r) \/ BlockDelete(r) PROVE PairsFixed
  BY <1>4, DropFixed DEF DeleteConversation, BlockDelete
<1>5. ASSUME NEW r \in Reqs, AddGroupMember(r) \/ RemoveGroupMember(r) PROVE PairsFixed
  <2>1. rq[r].conv \notin Pairs
    BY <1>5 DEF AddGroupMember, RemoveGroupMember, PairInv
  <2>2. \A c \in Convs \ {rq[r].conv} : members'[c] = members[c]
    BY <1>5 DEF AddGroupMember, RemoveGroupMember, TypeInv, TablesOK
  <2>3. Pairs' = Pairs /\ wrote' = wrote
    BY <1>5 DEF AddGroupMember, RemoveGroupMember, Pairs
  <2> QED BY <1>0, <2>1, <2>2, <2>3 DEF PairsFixed
<1>6. ASSUME NEW u \in Users, NEW c \in Convs, NEW others \in SUBSET Users,
             CreateGroup(u, c, others)
      PROVE  PairsFixed
  <2>1. c \notin Pairs /\ Pairs' \subseteq Pairs /\ wrote' = wrote
    BY <1>6 DEF CreateGroup, Insert, Pairs, TypeInv, TablesOK
  <2>2. \A d \in Convs \ {c} : members'[d] = members[d]
    BY <1>6 DEF CreateGroup, Insert, TypeInv, TablesOK
  <2> QED BY <1>0, <2>1, <2>2 DEF PairsFixed
<1>7. CASE \E r \in Reqs : Acts(r)
  <2>1. ASSUME NEW r \in Reqs, Abort(r) PROVE UNCHANGED convs
    BY <2>1 DEF Abort
  <2> QED BY <1>7, <1>1, <1>2, <1>3, <1>4, <1>5, <2>1 DEF Acts
<1>8. CASE (\E r \in Reqs, u, v \in Users : \E c : Checks(r, u, c, v))
           \/ (\E u, v \in Users : UnblockUser(u, v)) \/ UNCHANGED vars
  <2>1. UNCHANGED convs
    BY <1>8, PairTables DEF UnblockUser, vars, convs
  <2> QED BY <1>1, <2>1
<1> QED BY <1>6, <1>7, <1>8, StepKinds

(* A conversation that a request names is not one being made.              *)
LEMMA NamedIsOld ==
  ASSUME PairsFixed, NEW r \in Reqs, rq[r].conv \in Pairs'
  PROVE  rq[r].conv \in Pairs /\ members'[rq[r].conv] = members[rq[r].conv]
BY DEF PairsFixed, CreateInsert, Insert

LEMMA TwoMembers ==
  ASSUME TypeInv, NEW r \in Reqs, NEW c, CreateInsert(r, c), c \in Convs
  PROVE  /\ members'[c] = {rq[r].user, rq[r].peer} /\ wrote'[c] = {}
         /\ Cardinality(members'[c]) = 2
<1>1. rq[r].user # rq[r].peer
  BY DEF CreateInsert, TypeInv, RequestsOK, ArgsOK
<1>2. Cardinality({rq[r].user, rq[r].peer}) = 2
  <2>1. Cardinality({rq[r].user}) = 1 /\ IsFiniteSet({rq[r].user})
    BY FS_Singleton
  <2>2. Cardinality({rq[r].user} \cup {rq[r].peer}) = 1 + 1
    BY <1>1, <2>1, FS_AddElement
  <2>3. {rq[r].user, rq[r].peer} = {rq[r].user} \cup {rq[r].peer}
    OBVIOUS
  <2> QED BY <2>2, <2>3
<1>3. members'[c] = {rq[r].user, rq[r].peer} /\ wrote'[c] = {}
  BY DEF CreateInsert, Insert, TypeInv, TablesOK
<1> QED BY <1>2, <1>3

LEMMA PairInvKept ==
  ASSUME TypeInv, TypeInv', PairInv, [Next]_vars
  PROVE  PairInv'
<1>1. PairsFixed
  BY PairsStay
<1>2. PairStaysPair'
  <2> SUFFICES ASSUME NEW c \in Pairs'
               PROVE  Cardinality(members'[c]) = 2 /\ wrote'[c] \subseteq members'[c]
    BY DEF PairStaysPair
  <2>0. c \in Convs
    BY DEF Pairs, TypeInv, TablesOK
  <2>1. CASE \E r \in Reqs : CreateInsert(r, c)
    BY <2>0, <2>1, TwoMembers
  <2>2. CASE ~\E r \in Reqs : CreateInsert(r, c)
    BY <1>1, <2>2 DEF PairsFixed, PairInv, PairStaysPair
  <2> QED BY <2>1, <2>2
<1>3. ASSUME NEW r \in Reqs,
             \/ pc'[r] = pc[r] /\ rq'[r] = rq[r]
             \/ pc'[r] \notin {"add", "remove", "send", "ws_send"}
             \/ UNCHANGED convs /\ \E u, v \in Users : \E c : Begun(r, u, c, v)
      PROVE  /\ pc'[r] \in {"add", "remove"} => rq'[r].conv \notin Pairs'
             /\ pc'[r] \in {"send", "ws_send"} /\ rq'[r].conv \in Pairs'
                  => rq'[r].user \in members'[rq'[r].conv]
  <2>1. CASE pc'[r] = pc[r] /\ rq'[r] = rq[r]
    BY <1>1, <2>1, NamedIsOld DEF PairInv
  <2>2. ASSUME UNCHANGED convs, NEW u \in Users, NEW v \in Users, NEW c, Begun(r, u, c, v)
        PROVE  /\ pc'[r] \in {"add", "remove"} => rq'[r].conv \notin Pairs'
               /\ pc'[r] \in {"send", "ws_send"} /\ rq'[r].conv \in Pairs'
                    => rq'[r].user \in members'[rq'[r].conv]
    <3>1. CASE pc'[r] \in {"add", "remove"}
      <4>1. c \in Convs /\ rq'[r] = Local(u, v, c) /\ c \in group
        BY <2>2, <3>1 DEF Begun, AddCheck, RemoveCheck
      <4> QED BY <2>2, <3>1, <4>1, LocalType DEF Pairs, convs
    <3>2. CASE pc'[r] \in {"send", "ws_send"}
      <4>1. c \in Convs /\ rq'[r] = Local(u, NoUser, c) /\ u \in members[c]
        BY <2>2, <3>2 DEF Begun, SendCheck, WsSendCheck
      <4> QED BY <2>2, <3>2, <4>1, LocalType DEF convs
    <3> QED BY <3>1, <3>2
  <2> QED BY <1>3, <2>1, <2>2
<1>4. ASSUME NEW r \in Reqs
      PROVE  \/ pc'[r] = pc[r] /\ rq'[r] = rq[r]
             \/ pc'[r] \notin {"add", "remove", "send", "ws_send"}
             \/ UNCHANGED convs /\ \E u, v \in Users : \E c : Begun(r, u, c, v)
  <2>1. ASSUME NEW o \in Reqs, Acts(o)
        PROVE  (pc'[r] = pc[r] /\ rq'[r] = rq[r]) \/ pc'[r] = "idle"
    BY <2>1, ActEnds DEF TypeInv, OthersStay
  <2>2. ASSUME NEW o \in Reqs, NEW u \in Users, NEW v \in Users, NEW c, Checks(o, u, c, v)
        PROVE  \/ pc'[r] = pc[r] /\ rq'[r] = rq[r]
               \/ UNCHANGED convs /\ Begun(r, u, c, v)
    <3>1. OthersStay(o) /\ UNCHANGED convs /\ Begun(o, u, c, v)
      BY <2>2, CheckBegins DEF TypeInv
    <3> QED BY <3>1 DEF OthersStay
  <2>3. CASE \/ \E u, v \in Users : UnblockUser(u, v)
             \/ \E u \in Users, c \in Convs, others \in SUBSET Users : CreateGroup(u, c, others)
             \/ UNCHANGED vars
    BY <2>3 DEF UnblockUser, CreateGroup, vars
  <2> QED BY <2>1, <2>2, <2>3, StepKinds
<1> QED BY <1>2, <1>3, <1>4 DEF PairInv

LEMMA PairsHold == Spec => [](TypeInv /\ PairInv)
<1>1. Init => PairInv
  BY DEF Init, PairInv, PairStaysPair, Pairs
<1>2. TypeInv /\ TypeInv' /\ PairInv /\ [Next]_vars => PairInv'
  BY PairInvKept
<1> QED BY <1>1, <1>2, TypesHold, PTL DEF Spec

(* Whatever the group handlers and a block do concurrently, a one-to-one   *)
(* conversation keeps two members and holds messages of theirs only.       *)
THEOREM PairStays == Spec => []PairStaysPair
<1>1. PairInv => PairStaysPair
  BY DEF PairInv
<1> QED BY <1>1, PairsHold, PTL

-----------------------------------------------------------------------------
(* A request that relies on a pair being unblocked is right, or a block    *)
(* has overtaken its check.                                                *)
Right(r) ==
  /\ pc[r] = "create" => ~Blocked(rq[r].user, rq[r].peer)
  /\ pc[r] = "send" /\ rq[r].conv \in Pairs
       => \A v \in members[rq[r].conv] : ~Blocked(rq[r].user, v)

RelianceInv ==
  /\ \A u \in Users : <<u, u>> \notin blocks
  /\ \A r \in Reqs \ overtaken : Right(r)

BlockInv == BlockSeparates /\ RelianceInv

(* A request that does nothing stays right while no further pair that      *)
(* matters to it is blocked.                                               *)
LEMMA StaysRight ==
  ASSUME PairsFixed, NEW r \in Reqs, Right(r), pc'[r] = pc[r], rq'[r] = rq[r],
         pc[r] = "create" =>
           (Blocked(rq[r].user, rq[r].peer) \/ ~(\/ <<rq[r].user, rq[r].peer>> \in blocks'
                                                 \/ <<rq[r].peer, rq[r].user>> \in blocks')),
         pc[r] = "send" /\ rq[r].conv \in Pairs => \A v \in members[rq[r].conv] :
           (Blocked(rq[r].user, v) \/ ~(\/ <<rq[r].user, v>> \in blocks'
                                        \/ <<v, rq[r].user>> \in blocks'))
  PROVE  Right(r)'
<1>1. rq[r].conv \in Pairs' => rq[r].conv \in Pairs /\ members'[rq[r].conv] = members[rq[r].conv]
  BY NamedIsOld
<1> QED BY <1>1 DEF Right, Blocked

(* Steps after which no more pairs are blocked than before.                *)
LEMMA RelianceKept ==
  ASSUME TypeInv, PairsFixed, RelianceInv, blocks' \subseteq blocks,
         \A r \in Reqs :
           \/ pc'[r] = pc[r] /\ rq'[r] = rq[r] /\ (r \in overtaken => r \in overtaken')
           \/ pc'[r] \notin {"create", "send"}
  PROVE  RelianceInv'
<1>1. ASSUME NEW r \in Reqs \ overtaken' PROVE Right(r)'
  <2>1. CASE pc'[r] \notin {"create", "send"}
    BY <2>1 DEF Right
  <2>2. CASE pc'[r] = pc[r] /\ rq'[r] = rq[r] /\ r \notin overtaken
    <3>1. Right(r)
      BY <2>2 DEF RelianceInv
    <3> QED BY <2>2, <3>1, StaysRight DEF Blocked
  <2> QED BY <1>1, <2>1, <2>2
<1> QED BY <1>1 DEF RelianceInv

LEMMA CheckKeepsReliance ==
  ASSUME TypeInv, PairInv, RelianceInv, NEW r \in Reqs, NEW u \in Users, NEW c, NEW v \in Users,
         Checks(r, u, c, v)
  PROVE  RelianceInv'
<1>0. OthersStay(r) /\ UNCHANGED convs /\ Begun(r, u, c, v) /\ Pairs' = Pairs /\ PairsFixed
  BY CheckBegins DEF TypeInv, convs, Pairs, PairsFixed
<1>1. CASE BlockInsert(r, u, v)
  <2>1. blocks' = blocks \cup {<<u, v>>} /\ u # v /\ pc'[r] = "block_delete"
        /\ overtaken' = overtaken \cup Relying(u, v)
    BY <1>1 DEF BlockInsert, Begin, TypeInv, RequestsOK
  <2>2. \A x \in Users : <<x, x>> \notin blocks'
    BY <2>1 DEF RelianceInv
  <2>3. ASSUME NEW o \in Reqs \ overtaken' PROVE Right(o)'
    <3>1. CASE o = r
      BY <2>1, <3>1 DEF Right
    <3>2. CASE o # r
      <4>1. Right(o) /\ o \notin Relying(u, v) /\ pc'[o] = pc[o] /\ rq'[o] = rq[o]
        BY <1>0, <2>1, <3>2 DEF RelianceInv, OthersStay
      <4>2. pc[o] = "create" => {rq[o].user, rq[o].peer} # {u, v}
        BY <4>1 DEF Relying
      <4>3. ASSUME pc[o] = "send", rq[o].conv \in Pairs, NEW x \in members[rq[o].conv]
            PROVE  {rq[o].user, x} # {u, v}
        <5>1. {rq[o].user, x} \subseteq members[rq[o].conv]
          BY <4>3 DEF PairInv
        <5> QED BY <4>1, <4>3, <5>1 DEF Relying
      <4> QED BY <1>0, <2>1, <4>1, <4>2, <4>3, StaysRight DEF Blocked
    <3> QED BY <3>1, <3>2
  <2> QED BY <2>2, <2>3 DEF RelianceInv
<1>2. CASE ~BlockInsert(r, u, v)
  <2>1. UNCHANGED <<blocks, overtaken>>
    BY <1>2 DEF Checks, CreateCheck, SendCheck, WsSendCheck, DeleteCheck, AddCheck, RemoveCheck,
                history
  <2>2. Right(r)'
    <3>1. ASSUME pc'[r] = "create"
          PROVE  rq'[r].user = u /\ rq'[r].peer = v /\ ~Blocked(u, v)
      BY <1>0, <1>2, <3>1, LocalType DEF Begun, CreateCheck
    <3>2. ASSUME pc'[r] = "send"
          PROVE  /\ rq'[r].user = u /\ rq'[r].conv = c
                 /\ c \in Pairs => \A x \in members[c] : ~Blocked(u, x)
      <4>1. SendCheck(r, u, c) /\ c \in Convs /\ rq'[r] = Local(u, NoUser, c)
        BY <1>0, <1>2, <3>2 DEF Begun
      <4> QED BY <4>1, LocalType DEF SendCheck, RelianceInv, Blocked
    <3> QED BY <1>0, <2>1, <3>1, <3>2 DEF Right, Blocked, convs
  <2>3. ASSUME NEW o \in Reqs \ overtaken', o # r PROVE Right(o)'
    <3>1. Right(o) /\ pc'[o] = pc[o] /\ rq'[o] = rq[o]
      BY <1>0, <2>1, <2>3 DEF RelianceInv, OthersStay
    <3> QED BY <1>0, <2>1, <3>1, StaysRight DEF Blocked
  <2> QED BY <2>1, <2>2, <2>3 DEF RelianceInv
<1> QED BY <1>1, <1>2

LEMMA RelianceInvKept ==
  ASSUME TypeInv, PairInv, RelianceInv, [Next]_vars
  PROVE  RelianceInv'
<1>0. PairsFixed
  BY PairsStay
<1>1. ASSUME NEW r \in Reqs, Acts(r) PROVE RelianceInv'
  <2>1. OthersStay(r) /\ pc'[r] = "idle" /\ overtaken' = overtaken \ {r}
    BY <1>1, ActEnds DEF TypeInv
  <2>2. blocks' = blocks
    BY <1>1 DEF Acts, CreateInsert, InsertMessage, DeleteConversation, BlockDelete,
                AddGroupMember, RemoveGroupMember, Abort
  <2> QED BY <1>0, <2>1, <2>2, RelianceKept DEF OthersStay
<1>2. CASE \/ \E u, v \in Users : UnblockUser(u, v)
           \/ \E u \in Users, c \in Convs, others \in SUBSET Users : CreateGroup(u, c, others)
           \/ UNCHANGED vars
  <2>1. UNCHANGED <<pc, rq, overtaken>> /\ blocks' \subseteq blocks
    BY <1>2 DEF UnblockUser, CreateGroup, vars
  <2> QED BY <1>0, <2>1, RelianceKept
<1> QED BY <1>1, <1>2, StepKinds, CheckKeepsReliance

-----------------------------------------------------------------------------
Excused(u, v) == Deleting(u, v) \/ {u, v} \in torn

LEMMA SeparatesKept ==
  ASSUME TypeInv, TypeInv', PairInv, BlockInv, [Next]_vars
  PROVE  BlockSeparates'
<1> SUFFICES ASSUME NEW c \in (Pairs \ slipped)', NEW u \in members'[c], NEW v \in members'[c],
                    Blocked(u, v)'
             PROVE  Excused(u, v)'
  BY DEF BlockSeparates, Excused
<1>0. PairsFixed
  BY PairsStay
<1>1. ASSUME NEW r \in Reqs, CreateInsert(r, c) PROVE Excused(u, v)'
  (* A new pair whose check was not overtaken is not a blocked one.        *)
  <2>1. r \notin overtaken /\ blocks' = blocks /\ pc[r] = "create"
    BY <1>1 DEF CreateInsert
  <2>2. c \in Convs /\ members'[c] = {rq[r].user, rq[r].peer}
    BY <1>1, TwoMembers DEF Pairs, TypeInv, TablesOK
  <2>3. rq[r].user \in Users /\ rq[r].peer \in Users
    BY <2>1 DEF TypeInv, RequestsOK, ArgsOK
  <2>4. ~Blocked(u, v)
    BY <2>1, <2>2, <2>3 DEF BlockInv, RelianceInv, Right, Blocked
  <2> QED BY <2>1, <2>4 DEF Blocked
<1>2. ASSUME c \in Pairs, members'[c] = members[c], ~\E r \in Reqs : CreateInsert(r, c)
      PROVE  Excused(u, v)'
  <2>0. c \in Convs /\ {u, v} \subseteq members[c]
    BY <1>2 DEF Pairs, TypeInv, TablesOK
  <2>1. ASSUME NEW r \in Reqs, NEW x \in Users, NEW y \in Users, BlockInsert(r, x, y)
        PROVE  Excused(u, v)'
    <3>1. OthersStay(r) /\ pc'[r] = "block_delete" /\ rq'[r] = Local(x, y, NoConv)
          /\ pc[r] = "idle" /\ blocks' = blocks \cup {<<x, y>>} /\ UNCHANGED <<slipped, torn>>
      <4>1. ArgsOK("block_delete", Local(x, y, NoConv)) /\ Local(x, y, NoConv) \in Locals
        BY <2>1, LocalType DEF BlockInsert, ArgsOK
      <4> QED BY <2>1, <4>1, RequestBegins DEF BlockInsert, Begin, TypeInv, Steps
    <3>2. CASE {u, v} = {x, y}
      <4>1. {rq'[r].user, rq'[r].peer} = {u, v}
        BY <3>1, <3>2, LocalType
      <4> QED BY <3>1, <4>1 DEF Excused, Deleting
    <3>3. CASE {u, v} # {x, y}
      <4>1. Blocked(u, v)
        BY <3>1, <3>3 DEF Blocked
      <4>2. Deleting(u, v) \/ {u, v} \in torn
        BY <1>2, <2>0, <3>1, <4>1 DEF BlockInv, BlockSeparates
      <4> QED BY <3>1, <4>2 DEF Excused, Deleting, OthersStay
    <3> QED BY <3>2, <3>3
  <2>2. ASSUME NEW r \in Reqs, BlockDelete(r) PROVE Excused(u, v)'
    <3>1. OthersStay(r) /\ UNCHANGED <<blocks, slipped>>
          /\ torn' = torn \ {{rq[r].user, rq[r].peer}}
      BY <2>2, ActEnds DEF BlockDelete, Acts, TypeInv
    <3>2. {u, v} # {rq[r].user, rq[r].peer}
      BY <2>0, <2>2 DEF BlockDelete, Drop, Pairs
    <3>3. Deleting(u, v) \/ {u, v} \in torn
      BY <1>2, <2>0, <3>1 DEF BlockInv, BlockSeparates, Blocked
    <3> QED BY <3>1, <3>2, <3>3 DEF Excused, Deleting, OthersStay
  <2>3. ASSUME NEW r \in Reqs, Abort(r) PROVE Excused(u, v)'
    <3>1. OthersStay(r) /\ UNCHANGED <<blocks, slipped>>
      BY <2>3, ActEnds DEF Abort, Acts, TypeInv
    <3>2. Blocked(u, v) /\ (Deleting(u, v) \/ {u, v} \in torn)
      BY <1>2, <2>0, <3>1 DEF BlockInv, BlockSeparates, Blocked
    <3>3. CASE pc[r] = "block_delete" /\ {rq[r].user, rq[r].peer} = {u, v}
      <4>1. Blocked(rq[r].user, rq[r].peer)
        BY <3>2, <3>3 DEF Blocked
      <4> QED BY <2>3, <3>3, <4>1 DEF Abort, Excused
    <3>4. CASE ~(pc[r] = "block_delete" /\ {rq[r].user, rq[r].peer} = {u, v})
      <4>1. torn \subseteq torn'
        BY <2>3 DEF Abort
      <4> QED BY <3>1, <3>2, <3>4, <4>1 DEF Excused, Deleting, OthersStay
    <3> QED BY <3>3, <3>4
  <2>4. ASSUME NEW x \in Users, NEW y \in Users, UnblockUser(x, y) PROVE Excused(u, v)'
    <3>1. Blocked(u, v) /\ UNCHANGED <<pc, rq, slipped>>
      BY <2>4 DEF UnblockUser, Blocked
    <3>2. Deleting(u, v) \/ {u, v} \in torn
      BY <1>2, <2>0, <3>1 DEF BlockInv, BlockSeparates
    <3>3. {u, v} \in torn => {u, v} \in torn'
      <4>1. CASE <<y, x>> \in blocks
        BY <2>4, <4>1 DEF UnblockUser
      <4>2. CASE <<y, x>> \notin blocks
        <5>1. <<x, y>> \notin blocks' /\ <<y, x>> \notin blocks'
          BY <2>4, <4>2 DEF UnblockUser
        <5>2. {u, v} # {x, y}
          BY <5>1 DEF Blocked
        <5> QED BY <2>4, <5>2 DEF UnblockUser
      <4> QED BY <4>1, <4>2
    <3> QED BY <3>1, <3>2, <3>3 DEF Excused, Deleting
  (* Every other step leaves blocks and torn alone and no deletion begins  *)
  (* or ends in it.                                                        *)
  <2>5. ASSUME UNCHANGED <<blocks, torn>>, c \notin slipped,
               \A r \in Reqs : pc[r] = "block_delete" => pc'[r] = pc[r] /\ rq'[r] = rq[r]
        PROVE  Excused(u, v)'
    <3>1. Deleting(u, v) \/ {u, v} \in torn
      BY <1>2, <2>0, <2>5 DEF BlockInv, BlockSeparates, Blocked
    <3> QED BY <2>5, <3>1 DEF Excused, Deleting
  <2>6. ASSUME NEW r \in Reqs, NEW x \in Users, NEW y \in Users, NEW d, Checks(r, x, d, y),
               ~BlockInsert(r, x, y)
        PROVE  Excused(u, v)'
    <3>1. OthersStay(r)
      BY <2>6, CheckBegins DEF TypeInv
    <3>2. pc[r] = "idle" /\ UNCHANGED history /\ blocks' = blocks
      BY <2>6 DEF Checks, CreateCheck, SendCheck, WsSendCheck, DeleteCheck, AddCheck,
                  RemoveCheck, Begin
    <3> QED BY <2>5, <3>1, <3>2 DEF OthersStay, history
  <2>7. ASSUME NEW r \in Reqs, Acts(r), ~BlockDelete(r), ~Abort(r) PROVE Excused(u, v)'
    <3>1. OthersStay(r)
      BY <2>7, ActEnds DEF TypeInv
    <3>2. pc[r] # "block_delete" /\ UNCHANGED <<blocks, torn>>
      BY <2>7 DEF Acts, CreateInsert, InsertMessage, DeleteConversation, AddGroupMember,
                  RemoveGroupMember
    <3>3. c \notin slipped
      <4>1. ASSUME NEW d \in Convs, CreateInsert(r, d) PROVE c \notin slipped
        <5>1. d # c
          BY <1>2, <4>1
        <5> QED BY <4>1, <5>1 DEF CreateInsert
      <4> QED BY <2>7, <4>1 DEF Acts, InsertMessage, DeleteConversation, AddGroupMember,
                                RemoveGroupMember
    <3> QED BY <2>5, <3>1, <3>2, <3>3 DEF OthersStay
  <2>8. CASE \/ \E x \in Users, d \in Convs, others \in SUBSET Users : CreateGroup(x, d, others)
             \/ UNCHANGED vars
    BY <2>5, <2>8 DEF CreateGroup, vars
  <2> QED BY <2>1, <2>2, <2>3, <2>4, <2>6, <2>7, <2>8, StepKinds
<1> QED BY <1>0, <1>1, <1>2 DEF PairsFixed

LEMMA BlocksHold == Spec => [](TypeInv /\ PairInv /\ BlockInv)
<1>1. Init => BlockInv
  BY DEF Init, BlockInv, BlockSeparates, RelianceInv, Right, Pairs
<1>2. TypeInv /\ TypeInv' /\ PairInv /\ BlockInv /\ [Next]_vars => BlockInv'
  BY SeparatesKept, RelianceInvKept DEF BlockInv
<1> QED BY <1>1, <1>2, PairsHold, PTL DEF Spec

(* Once block_user has deleted what two users shared, they share nothing   *)
(* again while the block stands, but for a creation checked before it.     *)
THEOREM Separates == Spec => []BlockSeparates
<1>1. BlockInv => BlockSeparates
  BY DEF BlockInv
<1> QED BY <1>1, BlocksHold, PTL

(* send_message's check holds when the message is stored, unless a block   *)
(* was placed in between.                                                  *)
THEOREM RestHonours == Spec => RestHonoursBlocks
<1> DEFINE Honoured ==
      \A r \in Reqs :
        pc[r] = "send" /\ pc'[r] = "idle" /\ r \notin overtaken /\ rq[r].conv \in Pairs
          => \/ wrote' = wrote
             \/ \A v \in members[rq[r].conv] : ~Blocked(rq[r].user, v)
<1>1. TypeInv /\ PairInv /\ BlockInv => Honoured
  BY DEF BlockInv, RelianceInv, Right
<1>2. TypeInv /\ PairInv /\ BlockInv => [Honoured]_vars
  BY <1>1
<1> QED BY <1>2, BlocksHold, PTL DEF RestHonoursBlocks
=============================================================================

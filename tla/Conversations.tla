--------------------------- MODULE Conversations ----------------------------
(***************************************************************************)
(* Conversations, groups and blocks: the tables conversations,             *)
(* conversation_members, messages and blocks, and the handlers of          *)
(* api/src/chat.rs and api/src/social.rs that create, fill and delete      *)
(* conversations.                                                          *)
(*                                                                         *)
(* A handler checks with one statement and acts with a later one; the      *)
(* statements that db/src/chat.rs puts in a transaction are one action.    *)
(* A fact that cannot change while the conversation exists (is_group,      *)
(* created_by, the two members of a one-to-one conversation) is read with  *)
(* the check it accompanies.  Of a message only its conversation and its   *)
(* sender are kept.                                                        *)
(***************************************************************************)
EXTENDS Naturals, FiniteSets

CONSTANTS
  Users,      \* account ids
  Convs,      \* ids of conversations; bounds how many there are at a time
  Reqs,       \* slots of requests being served at the same time
  MaxBlocks,  \* bounds the rows of blocks
  NoUser, NoConv

ASSUME NullsAreNew == NoUser \notin Users /\ NoConv \notin Convs

VARIABLES
  exists,     \* rows of conversations
  group,      \* those with is_group
  creator,    \* conversations.created_by
  members,    \* conversation_members
  wrote,      \* messages: who has messages stored in a conversation
  blocks,     \* blocks, as pairs <<user_id, target_id>>
  pc, rq,     \* where each request stands, and its arguments
  overtaken, slipped, torn    \* history: checks a block has overtaken

convs == <<exists, group, creator, members, wrote>>
history == <<overtaken, slipped, torn>>
vars == <<exists, group, creator, members, wrote, blocks, pc, rq,
          overtaken, slipped, torn>>

Steps == {"idle", "create", "send", "ws_send", "delete", "block_delete", "add", "remove"}
Locals == [user : Users \cup {NoUser}, peer : Users \cup {NoUser},
           conv : Convs \cup {NoConv}]
Local(u, v, c) == [user |-> u, peer |-> v, conv |-> c]
Blank == Local(NoUser, NoUser, NoConv)

Blocked(u, v) == <<u, v>> \in blocks \/ <<v, u>> \in blocks
Pairs == exists \ group

TypeOK ==
  /\ exists \subseteq Convs
  /\ group \subseteq exists
  /\ creator \in [Convs -> Users \cup {NoUser}]
  /\ members \in [Convs -> SUBSET Users]
  /\ wrote \in [Convs -> SUBSET Users]
  /\ \A c \in Convs \ exists : members[c] = {} /\ wrote[c] = {} /\ creator[c] = NoUser
  /\ blocks \subseteq Users \X Users
  /\ pc \in [Reqs -> Steps]
  /\ rq \in [Reqs -> Locals]
  /\ overtaken \subseteq Reqs /\ slipped \subseteq Convs
  /\ torn \subseteq SUBSET Users

Init ==
  /\ exists = {} /\ group = {} /\ blocks = {}
  /\ creator = [c \in Convs |-> NoUser]
  /\ members = [c \in Convs |-> {}]
  /\ wrote = [c \in Convs |-> {}]
  /\ pc = [r \in Reqs |-> "idle"]
  /\ rq = [r \in Reqs |-> Blank]
  /\ overtaken = {} /\ slipped = {} /\ torn = {}

-----------------------------------------------------------------------------
Begin(r, step, locals) ==
  /\ pc[r] = "idle"
  /\ pc' = [pc EXCEPT ![r] = step]
  /\ rq' = [rq EXCEPT ![r] = locals]
Finish(r) ==
  /\ pc' = [pc EXCEPT ![r] = "idle"]
  /\ rq' = [rq EXCEPT ![r] = Blank]
  /\ overtaken' = overtaken \ {r}

(* DELETE FROM conversations, which takes members and messages with it.    *)
Drop(gone) ==
  /\ exists' = exists \ gone
  /\ group' = group \ gone
  /\ members' = [c \in Convs |-> IF c \in gone THEN {} ELSE members[c]]
  /\ wrote' = [c \in Convs |-> IF c \in gone THEN {} ELSE wrote[c]]
  /\ creator' = [c \in Convs |-> IF c \in gone THEN NoUser ELSE creator[c]]

(* INSERT INTO conversations with a random id: one that no row has and no  *)
(* request knows, so that an id of a row long gone may stand for a new one.*)
Insert(c, who) ==
  /\ c \notin exists /\ \A r \in Reqs : rq[r].conv # c
  /\ exists' = exists \cup {c}
  /\ members' = [members EXCEPT ![c] = who]
  /\ UNCHANGED wrote

-----------------------------------------------------------------------------
(* create_conversation                                                     *)
CreateUnchecked(r, u, v) ==       \* faulty: without is_blocked
  /\ u # v
  /\ Begin(r, "create", Local(u, v, NoConv))
  /\ UNCHANGED <<convs, blocks, history>>
CreateCheck(r, u, v) ==
  /\ u # v
  /\ ~Blocked(u, v)
  /\ Begin(r, "create", Local(u, v, NoConv))
  /\ UNCHANGED <<convs, blocks, history>>

CreateInsert(r, c) ==
  /\ pc[r] = "create"
  /\ Insert(c, {rq[r].user, rq[r].peer})
  /\ slipped' = IF r \in overtaken THEN slipped \cup {c} ELSE slipped \ {c}
  /\ Finish(r)
  /\ UNCHANGED <<group, creator, blocks, torn>>

(* send_message: membership, then is_blocked with the other member of a    *)
(* one-to-one conversation.                                                *)
SendMember(r, u, c) ==            \* faulty: checks membership alone
  /\ u \in members[c]
  /\ Begin(r, "send", Local(u, NoUser, c))
  /\ UNCHANGED <<convs, blocks, history>>
SendCheck(r, u, c) ==
  /\ u \in members[c]
  /\ c \in Pairs => \A v \in members[c] \ {u} : ~Blocked(u, v)
  /\ Begin(r, "send", Local(u, NoUser, c))
  /\ UNCHANGED <<convs, blocks, history>>

(* handle_incoming, a "send" frame of the WebSocket: membership alone.     *)
WsSendCheck(r, u, c) ==
  /\ u \in members[c]
  /\ Begin(r, "ws_send", Local(u, NoUser, c))
  /\ UNCHANGED <<convs, blocks, history>>

(* insert_message: the foreign key fails when the conversation is gone.    *)
InsertOrphan(r) ==                \* faulty: stores a row of no conversation
  /\ pc[r] \in {"send", "ws_send"}
  /\ wrote' = [wrote EXCEPT ![rq[r].conv] = @ \cup {rq[r].user}]
  /\ Finish(r)
  /\ UNCHANGED <<exists, group, creator, members, blocks, slipped, torn>>
InsertMessage(r) ==
  LET c == rq[r].conv IN
  /\ pc[r] \in {"send", "ws_send"}
  /\ wrote' = IF c \in exists THEN [wrote EXCEPT ![c] = @ \cup {rq[r].user}] ELSE wrote
  /\ Finish(r)
  /\ UNCHANGED <<exists, group, creator, members, blocks, slipped, torn>>

(* delete_conversation: any member, for everyone.                          *)
DeleteCheck(r, u, c) ==
  /\ u \in members[c]
  /\ Begin(r, "delete", Local(u, NoUser, c))
  /\ UNCHANGED <<convs, blocks, history>>

DeleteConversation(r) ==
  /\ pc[r] = "delete"
  /\ Drop({rq[r].conv})
  /\ Finish(r)
  /\ UNCHANGED <<blocks, slipped, torn>>

-----------------------------------------------------------------------------
(* Requests that have seen u and v unblocked and not yet acted on it.      *)
Relying(u, v) ==
  {r \in Reqs :
     \/ pc[r] = "create" /\ {rq[r].user, rq[r].peer} = {u, v}
     \/ pc[r] = "send" /\ rq[r].conv \in Pairs /\ {u, v} \subseteq members[rq[r].conv]}

(* block_user: the block, then every conversation both are members of,     *)
(* groups included.                                                        *)
BlockInsert(r, u, v) ==
  /\ u # v
  /\ Begin(r, "block_delete", Local(u, v, NoConv))
  /\ blocks' = blocks \cup {<<u, v>>}
  /\ Cardinality(blocks') <= MaxBlocks
  /\ overtaken' = overtaken \cup Relying(u, v)
  /\ UNCHANGED <<convs, slipped, torn>>

BlockDelete(r) ==
  LET u == rq[r].user
      v == rq[r].peer
  IN
  /\ pc[r] = "block_delete"
  /\ Drop({c \in exists : {u, v} \subseteq members[c]})
  /\ torn' = torn \ {{u, v}}
  /\ Finish(r)
  /\ UNCHANGED <<blocks, slipped>>

UnblockUser(u, v) ==
  /\ <<u, v>> \in blocks
  /\ blocks' = blocks \ {<<u, v>>}
  /\ torn' = IF <<v, u>> \in blocks THEN torn ELSE torn \ {{u, v}}
  /\ UNCHANGED <<convs, pc, rq, overtaken, slipped>>

-----------------------------------------------------------------------------
(* create_group: one transaction; blocks are not consulted.                *)
CreateGroup(u, c, others) ==
  /\ others # {}
  /\ Insert(c, others \cup {u})
  /\ group' = group \cup {c}
  /\ creator' = [creator EXCEPT ![c] = u]
  /\ UNCHANGED <<blocks, pc, rq, overtaken, slipped, torn>>

(* add_group_member: any member may add anyone; ON CONFLICT DO NOTHING.    *)
AddAnywhere(r, u, c, v) ==        \* faulty: does not ask whether it is a group
  /\ u \in members[c]
  /\ Begin(r, "add", Local(u, v, c))
  /\ UNCHANGED <<convs, blocks, history>>
AddCheck(r, u, c, v) ==
  /\ u \in members[c] /\ c \in group
  /\ Begin(r, "add", Local(u, v, c))
  /\ UNCHANGED <<convs, blocks, history>>

AddGroupMember(r) ==
  LET c == rq[r].conv IN
  /\ pc[r] = "add"
  /\ members' = IF c \in exists THEN [members EXCEPT ![c] = @ \cup {rq[r].peer}]
                ELSE members
  /\ Finish(r)
  /\ UNCHANGED <<exists, group, creator, wrote, blocks, slipped, torn>>

(* remove_group_member: oneself, or anyone by the creator while a member.  *)
RemoveCheck(r, u, c, v) ==
  /\ u \in members[c] /\ c \in group
  /\ u = v \/ u = creator[c]
  /\ Begin(r, "remove", Local(u, v, c))
  /\ UNCHANGED <<convs, blocks, history>>

RemoveGroupMember(r) ==
  /\ pc[r] = "remove"
  /\ members' = [members EXCEPT ![rq[r].conv] = @ \ {rq[r].peer}]
  /\ Finish(r)
  /\ UNCHANGED <<exists, group, creator, wrote, blocks, slipped, torn>>

(* A handler may end between its check and its act.                        *)
Abort(r) ==
  /\ pc[r] # "idle"
  /\ torn' = IF pc[r] = "block_delete" /\ Blocked(rq[r].user, rq[r].peer)
             THEN torn \cup {{rq[r].user, rq[r].peer}} ELSE torn
  /\ Finish(r)
  /\ UNCHANGED <<convs, blocks, slipped>>

-----------------------------------------------------------------------------
TalkStep(r) ==
  \/ \E u, v \in Users : CreateCheck(r, u, v)
  \/ \E u \in Users, c \in Convs :
       SendCheck(r, u, c) \/ WsSendCheck(r, u, c) \/ DeleteCheck(r, u, c)
  \/ \E c \in Convs : CreateInsert(r, c)
  \/ InsertMessage(r) \/ DeleteConversation(r)

BlockStep(r) ==
  \/ \E u, v \in Users : BlockInsert(r, u, v)
  \/ BlockDelete(r)

GroupStep(r) ==
  \/ \E u, v \in Users, c \in Convs : AddCheck(r, u, c, v) \/ RemoveCheck(r, u, c, v)
  \/ AddGroupMember(r) \/ RemoveGroupMember(r)

Next ==
  \/ \E r \in Reqs : TalkStep(r) \/ BlockStep(r) \/ GroupStep(r) \/ Abort(r)
  \/ \E u, v \in Users : UnblockUser(u, v)
  \/ \E u \in Users, c \in Convs, others \in SUBSET Users : CreateGroup(u, c, others)

Spec == Init /\ [][Next]_vars
-----------------------------------------------------------------------------
Deleting(u, v) == \E r \in Reqs : pc[r] = "block_delete" /\ {rq[r].user, rq[r].peer} = {u, v}

(* A block takes the pair's conversations away and keeps them away: two    *)
(* users of whom one blocks the other share no one-to-one conversation,    *)
(* unless the block's handler has not deleted yet (or ended before it      *)
(* could), or the conversation's own check was made before the block.      *)
BlockSeparates ==
  \A c \in Pairs \ slipped : \A u, v \in members[c] :
    Blocked(u, v) => Deleting(u, v) \/ {u, v} \in torn

(* A one-to-one conversation has two members for as long as it exists,     *)
(* whatever group operations are tried on it, and only they write in it.   *)
PairStaysPair ==
  \A c \in Pairs : Cardinality(members[c]) = 2 /\ wrote[c] \subseteq members[c]

(* Over REST, no message is stored between users of whom one blocks the    *)
(* other, unless its check was made before the block.                      *)
RestHonoursBlocks ==
  [][\A r \in Reqs :
       pc[r] = "send" /\ pc'[r] = "idle" /\ r \notin overtaken /\ rq[r].conv \in Pairs
         => \/ wrote' = wrote
            \/ \A v \in members[rq[r].conv] : ~Blocked(rq[r].user, v)]_vars
=============================================================================

------------------------------ MODULE Messages ------------------------------
(***************************************************************************)
(* The messages of one group: sending, read receipts, view-once photos,    *)
(* reactions, unsending, the pages of the history and the group's name     *)
(* ({api,db}/src/chat.rs).  Conversations models who may come to be in it, *)
(* the blocks of a one-to-one conversation and its removal; ChatFanout     *)
(* what becomes of the frames that each call publishes.                    *)
(*                                                                         *)
(* now() is the start of its transaction: a row gets its created_at, here  *)
(* its place in msgs, with the INSERT, and is visible to others with the   *)
(* COMMIT.  Two rows never have the same created_at.                       *)
(*                                                                         *)
(* History, read by no action: told.                                       *)
(***************************************************************************)
EXTENDS Integers, Sequences, FiniteSets

CONSTANTS
  Users,
  Reqs,      \* requests served at the same time
  Bodies,    \* what a message may come with, subsets of the fields below
  Emojis,
  Limit,     \* messages per page, 1 to 100 after the clamp
  MaxMsgs,   \* bound: rows of messages
  MaxCalls,  \* bound: calls that begin
  MaxFaults, \* bound: statements that fail
  Nobody

VARIABLES
  msgs,       \* rows: [by, kind, shown, read, viewed, unsent]
  lastAt,     \* conversations.last_message_at: the place of a row, or 0
  reactions,  \* rows of message_reactions: <<message, user, emoji>>
  creator,    \* conversations.created_by
  name,       \* conversations.name, as who gave it
  members,
  lastRead,   \* conversation_members.last_read_at: rows begun by then
  pc, rq,
  pager,      \* a client that loads the history, page after page
  told,       \* of each message, the calls told that they did something: <<what, user>>
  calls, faults

group == <<creator, name, members>>
marks == <<reactions, lastRead>>
vars == <<msgs, lastAt, marks, group, pc, rq, pager, told, calls, faults>>

Fields == {"media_key", "ephemeral", "audio", "place", "text"}
Kinds == {"ephemeral_photo", "audio", "photo", "location", "text"}
Blank == [user |-> Nobody, kind |-> "", msg |-> 0, emoji |-> Nobody]
NoPager == [user |-> Nobody, before |-> 0, start |-> {}, got |-> {}, again |-> FALSE, over |-> FALSE]

Rows == 1..Len(msgs)
Shown == {n \in Rows : msgs[n].shown}

TypeOK ==
  /\ msgs \in Seq([by : Users, kind : Kinds, shown : BOOLEAN, read : BOOLEAN,
                   viewed : BOOLEAN, unsent : BOOLEAN])
  /\ lastAt \in Shown \cup {0}
  /\ reactions \subseteq Shown \X Users \X Emojis
  /\ \A a, b \in reactions : a[1] = b[1] /\ a[2] = b[2] => a = b
  /\ members \subseteq Users /\ name = creator /\ lastRead \in [Users -> 0..MaxMsgs]
  /\ \A n \in Rows : msgs[n].viewed => msgs[n].kind = "ephemeral_photo"

Init ==
  /\ msgs = <<>> /\ lastAt = 0 /\ reactions = {}
  /\ creator \in Users /\ name = creator /\ members = Users
  /\ lastRead = [u \in Users |-> 0]
  /\ pc = [r \in Reqs |-> "idle"] /\ rq = [r \in Reqs |-> Blank]
  /\ pager = NoPager
  /\ told = [n \in 1..MaxMsgs |-> <<>>]
  /\ calls = 0 /\ faults = 0

-----------------------------------------------------------------------------
is_member(u) == u \in members

Count == calls < MaxCalls /\ calls' = calls + 1
Begin(r, step, locals) ==
  /\ pc[r] = "idle" /\ Count
  /\ pc' = [pc EXCEPT ![r] = step]
  /\ rq' = [rq EXCEPT ![r] = locals]
Goto(r, step) == pc' = [pc EXCEPT ![r] = step] /\ UNCHANGED <<rq, calls>>
Finish(r) ==
  /\ pc' = [pc EXCEPT ![r] = "idle"]
  /\ rq' = [rq EXCEPT ![r] = Blank]
  /\ UNCHANGED calls

(* A statement fails: 500, and what came before it in the handler stays.   *)
Fail(r) ==
  /\ pc[r] # "idle" /\ faults < MaxFaults /\ faults' = faults + 1
  /\ Finish(r)
  /\ UNCHANGED <<msgs, lastAt, marks, group, pager, told>>

-----------------------------------------------------------------------------
(* Sending.  A location needs a text, which may not be blank.              *)
classify_kind(body) ==
  IF "media_key" \in body
  THEN IF "ephemeral" \in body THEN "ephemeral_photo"
       ELSE IF "audio" \in body THEN "audio" ELSE "photo"
  ELSE IF "place" \in body THEN "location"
  ELSE IF "text" \in body THEN "text" ELSE "none"

SendMessage(r, u, body) ==
  LET kind == classify_kind(body) IN
  /\ is_member(u) /\ kind # "none" /\ (kind = "location" => "text" \in body)
  /\ Begin(r, "insert", [Blank EXCEPT !.user = u, !.kind = kind])
  /\ UNCHANGED <<msgs, lastAt, marks, group, pager, told, faults>>

(* A frame of the socket is a text.  (typing and try_relay write nothing.) *)
HandleIncoming(r, u) ==
  /\ is_member(u)
  /\ Begin(r, "insert", [Blank EXCEPT !.user = u, !.kind = "text"])
  /\ UNCHANGED <<msgs, lastAt, marks, group, pager, told, faults>>

Insert(r) ==
  /\ pc[r] = "insert" /\ Len(msgs) < MaxMsgs
  /\ msgs' = Append(msgs, [by |-> rq[r].user, kind |-> rq[r].kind, shown |-> FALSE,
                           read |-> FALSE, viewed |-> FALSE, unsent |-> FALSE])
  /\ pc' = [pc EXCEPT ![r] = "commit"]
  /\ rq' = [rq EXCEPT ![r].msg = Len(msgs) + 1]
  /\ UNCHANGED <<lastAt, marks, group, pager, told, calls, faults>>

(* UPDATE conversations, with the same now(), and COMMIT: of two that      *)
(* overlap the older may be the later one.                                 *)
Commit(r) ==
  /\ pc[r] = "commit"
  /\ msgs' = [msgs EXCEPT ![rq[r].msg].shown = TRUE]
  /\ lastAt' = rq[r].msg
  /\ Finish(r)
  /\ UNCHANGED <<marks, group, pager, told, faults>>

-----------------------------------------------------------------------------
(* What a call is told it has changed. *)
Tell(what, u, ns) == told' = [n \in DOMAIN told |->
  IF n \in ns THEN Append(told[n], <<what, u>>) ELSE told[n]]

(* mark_read: membership; read_at of the others' messages; last_read_at,   *)
(* which nothing here reads (unread_count of the list of conversations).   *)
MarkReadMember(r, u) ==
  /\ is_member(u)
  /\ Begin(r, "stamp", [Blank EXCEPT !.user = u])
  /\ UNCHANGED <<msgs, lastAt, marks, group, pager, told, faults>>

StampRows(r, Hit(_)) ==
  LET ns == {n \in Shown : msgs[n].by # rq[r].user /\ Hit(n)} IN
  /\ pc[r] = "stamp"
  /\ msgs' = [n \in Rows |-> IF n \in ns THEN [msgs[n] EXCEPT !.read = TRUE] ELSE msgs[n]]
  /\ Tell("read", rq[r].user, ns)
  /\ Goto(r, "lastRead")
  /\ UNCHANGED <<lastAt, marks, group, pager, faults>>
mark_messages_read_all(r) == StampRows(r, LAMBDA n : TRUE)  \* faulty: relies on the COALESCE alone
mark_messages_read(r) == StampRows(r, LAMBDA n : ~msgs[n].read)

mark_read(r) ==
  /\ pc[r] = "lastRead"
  /\ lastRead' = IF rq[r].user \in members THEN [lastRead EXCEPT ![rq[r].user] = Len(msgs)] ELSE lastRead
  /\ Finish(r)
  /\ UNCHANGED <<msgs, lastAt, reactions, group, pager, told, faults>>

(* mark_ephemeral_viewed: one statement, whatever became of the message.   *)
MarkEphemeralViewed(u, n) ==
  /\ n \in Shown /\ msgs[n].kind = "ephemeral_photo" /\ msgs[n].by # u /\ ~msgs[n].viewed
  /\ is_member(u)
  /\ msgs' = [msgs EXCEPT ![n].viewed = TRUE]
  /\ Tell("viewed", u, {n}) /\ Count
  /\ UNCHANGED <<lastAt, marks, group, pc, rq, pager, faults>>

(* unsend_message: one statement too; the row and its text stay.           *)
UnsendMessage(u, n) ==
  /\ n \in Shown /\ msgs[n].by = u /\ ~msgs[n].unsent
  /\ msgs' = [msgs EXCEPT ![n].unsent = TRUE]
  /\ Tell("unsent", u, {n}) /\ Count
  /\ UNCHANGED <<lastAt, marks, group, pc, rq, pager, faults>>

-----------------------------------------------------------------------------
(* Reactions: the message's conversation and the membership, then the row. *)
conversation_id_for_message(n) == n \in Shown
React(r, u, n, step, e) ==
  /\ conversation_id_for_message(n) /\ is_member(u)
  /\ Begin(r, step, [Blank EXCEPT !.user = u, !.msg = n, !.emoji = e])
  /\ UNCHANGED <<msgs, lastAt, marks, group, pager, told, faults>>
PutReaction(r, u, n, e) == React(r, u, n, "react", e)
DeleteReaction(r, u, n) == React(r, u, n, "unreact", Nobody)

Others(r) == {t \in reactions : <<t[1], t[2]>> # <<rq[r].msg, rq[r].user>>}
set_reaction(r) ==
  /\ pc[r] = "react"
  /\ reactions' = Others(r) \cup {<<rq[r].msg, rq[r].user, rq[r].emoji>>}
  /\ Finish(r)
  /\ UNCHANGED <<msgs, lastAt, lastRead, group, pager, told, faults>>
remove_reaction(r) ==
  /\ pc[r] = "unreact"
  /\ reactions' = Others(r)
  /\ Finish(r)
  /\ UNCHANGED <<msgs, lastAt, lastRead, group, pager, told, faults>>

-----------------------------------------------------------------------------
(* The group.  Whoever comes back starts with a new row; the creator may   *)
(* leave, and then nobody can rename it.                                   *)
AddMember(u) ==
  /\ u \notin members /\ members # {} /\ Count
  /\ members' = members \cup {u}
  /\ lastRead' = [lastRead EXCEPT ![u] = 0]
  /\ UNCHANGED <<msgs, lastAt, reactions, creator, name, pc, rq, pager, told, faults>>
RemoveMember(u) ==
  /\ u \in members /\ Count
  /\ members' = members \ {u}
  /\ UNCHANGED <<msgs, lastAt, marks, creator, name, pc, rq, pager, told, faults>>

RenameCheck(r, u) ==
  /\ is_member(u)
  /\ Begin(r, "rename", [Blank EXCEPT !.user = u])
  /\ UNCHANGED <<msgs, lastAt, marks, group, pager, told, faults>>
update_group_name(r) ==
  /\ pc[r] = "rename"
  /\ name' = IF creator = rq[r].user THEN rq[r].user ELSE name
  /\ Finish(r)
  /\ UNCHANGED <<msgs, lastAt, marks, creator, members, pager, told, faults>>

-----------------------------------------------------------------------------
(* Reading.  list_messages: the newest before a given time, then their     *)
(* reactions, which nothing here depends on.                               *)
Earlier(before) == {n \in Shown : before = 0 \/ n < before}
EarlierOrAt(before) == {n \in Shown : before = 0 \/ n <= before}
Newest(ns) == {n \in ns : Cardinality({k \in ns : k > n}) < Limit}
list_messages_from(before) == Newest(EarlierOrAt(before))  \* faulty: <= for <
list_messages(before) == Newest(Earlier(before))

(* A client asks for what is before the oldest message it has.             *)
OpenHistory(u) ==
  /\ pager.user = Nobody /\ is_member(u) /\ Count
  /\ pager' = [NoPager EXCEPT !.user = u, !.start = Shown]
  /\ UNCHANGED <<msgs, lastAt, marks, group, pc, rq, told, faults>>
Page ==
  LET page == list_messages(pager.before) IN
  /\ pager.user # Nobody /\ ~pager.over /\ is_member(pager.user)
  /\ pager' = [pager EXCEPT
       !.got = @ \cup page,
       !.again = @ \/ page \cap pager.got # {},
       !.over = page = {},
       !.before = IF page = {} THEN @ ELSE CHOOSE n \in page : \A k \in page : n <= k]
  /\ UNCHANGED <<msgs, lastAt, marks, group, pc, rq, told, calls, faults>>

Serve(r) ==
  \/ \E u \in Users :
       \/ \E body \in Bodies : SendMessage(r, u, body)
       \/ HandleIncoming(r, u)
       \/ MarkReadMember(r, u)
       \/ RenameCheck(r, u)
       \/ \E n \in Shown : DeleteReaction(r, u, n) \/ \E e \in Emojis : PutReaction(r, u, n, e)
  \/ Insert(r)
  \/ Commit(r)
  \/ mark_messages_read(r)
  \/ mark_read(r)
  \/ set_reaction(r)
  \/ remove_reaction(r)
  \/ update_group_name(r)
  \/ Fail(r)

Next ==
  \/ \E r \in Reqs : Serve(r)
  \/ \E u \in Users :
       \/ AddMember(u)
       \/ RemoveMember(u)
       \/ OpenHistory(u)
       \/ \E n \in Shown : MarkEphemeralViewed(u, n) \/ UnsendMessage(u, n)
  \/ Page

Spec == Init /\ [][Next]_vars

-----------------------------------------------------------------------------
(* What is to be done once is reported once, however calls overlap and     *)
(* whoever leaves and comes back: one call is told that it read a message, *)
(* one that it opened the view-once photo, one that it unsent it; never    *)
(* its sender the first two, nor another the third.                        *)
OnceOnly ==
  \A n \in DOMAIN told : \A i \in DOMAIN told[n] :
    /\ \A j \in DOMAIN told[n] : told[n][i][1] = told[n][j][1] => i = j
    /\ (told[n][i][1] = "unsent") <=> (told[n][i][2] = msgs[n].by)

(* Going back in the history page by page gives no message twice, and ends *)
(* having given all that were there when it began, whatever is sent or     *)
(* committed late meanwhile.                                               *)
HistoryIsComplete ==
  /\ ~pager.again
  /\ pager.over => pager.start \subseteq pager.got
=============================================================================

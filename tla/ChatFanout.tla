----------------------------- MODULE ChatFanout -----------------------------
(***************************************************************************)
(* Real-time delivery of chat frames: the broker of api/src/chat_broker.rs *)
(* and the loop that handle_socket of api/src/chat.rs runs for every       *)
(* WebSocket.                                                              *)
(*                                                                         *)
(* Every frame goes to every connection; a connection forwards those of    *)
(* the conversations its user is a member of, asking the database once per *)
(* conversation and remembering the answer.  The broker is chosen when the *)
(* server starts: a tokio broadcast channel, whose slow receivers lose the *)
(* oldest frames, or Redis, where each publish is a task of its own.       *)
(*                                                                         *)
(* A frame is the number of its publication.  A connection has one user;   *)
(* who publishes (messages, reactions, unsends, typing and relayed frames) *)
(* makes no difference here.                                               *)
(***************************************************************************)
EXTENDS Naturals, Sequences, SequencesExt

CONSTANTS
  Conns,       \* WebSocket connections, of a user each
  Convs,       \* conversations
  MaxFrames,   \* bounds the frames ever published
  Capacity     \* of the broadcast channel

ASSUME CapacityIsPositive == Capacity \in Nat \ {0} /\ MaxFrames \in Nat

VARIABLES
  redis,       \* which broker; never changes
  memberOf,    \* conversation_members of each connection's user
  convOf,      \* the conversation of each frame published
  tasks,       \* spawned Redis publications that have not run
  state,       \* of a connection; deaf when its subscription has ended
  queue,       \* frames a connection has yet to look at
  lagged,      \* its receiver has a Lagged error to return
  yes, no,     \* member_cache
  looking,     \* the frame whose membership query is awaited, or 0
  got,         \* history: frames forwarded, in order
  been,        \* history: conversations its user was in since it opened
  missed,      \* history: frames overwritten in the channel
  skipped      \* history: frames a cached no has kept from a member

link == <<state, queue, lagged, yes, no, looking, got, been, missed, skipped>>
vars == <<redis, memberOf, convOf, tasks, state, queue, lagged, yes, no, looking,
          got, been, missed, skipped>>

Frames == 1..MaxFrames

TypeOK ==
  /\ redis \in BOOLEAN
  /\ memberOf \in [Conns -> SUBSET Convs]
  /\ convOf \in Seq(Convs) /\ Len(convOf) <= MaxFrames
  /\ tasks \subseteq 1..Len(convOf)
  /\ state \in [Conns -> {"closed", "open", "deaf"}]
  /\ \A k \in Conns :
       /\ ToSet(queue[k]) \subseteq 1..Len(convOf)
       /\ ~redis => Len(queue[k]) <= Capacity
       /\ looking[k] \in 0..Len(convOf)
       /\ yes[k] \subseteq Convs /\ no[k] \subseteq Convs /\ yes[k] \cap no[k] = {}
  /\ lagged \in [Conns -> BOOLEAN]

Init ==
  /\ redis \in BOOLEAN
  /\ memberOf = [k \in Conns |-> {}]
  /\ convOf = <<>> /\ tasks = {}
  /\ state = [k \in Conns |-> "closed"]
  /\ queue = [k \in Conns |-> <<>>]
  /\ lagged = [k \in Conns |-> FALSE]
  /\ looking = [k \in Conns |-> 0]
  /\ got = [k \in Conns |-> <<>>]
  /\ yes = [k \in Conns |-> {}] /\ no = yes /\ been = yes /\ missed = yes /\ skipped = yes

-----------------------------------------------------------------------------
Overflows(k) == ~redis /\ Len(queue[k]) = Capacity

(* A frame reaches the subscribers; a full broadcast channel loses the     *)
(* oldest frame of those that are behind.                                  *)
FanOutUnbounded(n) ==          \* faulty: a full channel keeps growing
  /\ queue' = [k \in Conns |-> IF state[k] = "open" THEN Append(queue[k], n) ELSE queue[k]]
  /\ UNCHANGED <<lagged, missed>>
FanOut(n) ==
  /\ queue' = [k \in Conns |->
                 IF state[k] # "open" THEN queue[k]
                 ELSE IF Overflows(k) THEN Append(Tail(queue[k]), n)
                 ELSE Append(queue[k], n)]
  /\ lagged' = [k \in Conns |-> lagged[k] \/ (state[k] = "open" /\ Overflows(k))]
  /\ missed' = [k \in Conns |-> IF state[k] = "open" /\ Overflows(k)
                                THEN missed[k] \cup {Head(queue[k])} ELSE missed[k]]

(* ChatBroker::publish                                                     *)
Publish(c) ==
  LET n == Len(convOf) + 1 IN
  /\ n <= MaxFrames
  /\ convOf' = Append(convOf, c)
  /\ IF redis
     THEN tasks' = tasks \cup {n} /\ UNCHANGED <<queue, lagged, missed>>
     ELSE FanOut(n) /\ UNCHANGED tasks
  /\ UNCHANGED <<redis, memberOf, state, yes, no, looking, got, been, skipped>>

(* The spawned RedisChatBroker::publish; its errors are dropped.           *)
RunTask(n) ==
  /\ n \in tasks
  /\ tasks' = tasks \ {n}
  /\ FanOut(n)
  /\ UNCHANGED <<redis, memberOf, convOf, state, yes, no, looking, got, been, skipped>>

LoseTask(n) ==
  /\ n \in tasks
  /\ tasks' = tasks \ {n}
  /\ UNCHANGED <<redis, memberOf, convOf, link>>

-----------------------------------------------------------------------------
(* handle_socket: a subscription that fails is an empty stream, and the    *)
(* connection stays.                                                       *)
Open(k, subscribed) ==
  /\ state[k] = "closed"
  /\ subscribed \/ redis
  /\ state' = [state EXCEPT ![k] = IF subscribed THEN "open" ELSE "deaf"]
  /\ been' = [been EXCEPT ![k] = memberOf[k]]
  /\ UNCHANGED <<redis, memberOf, convOf, tasks, queue, lagged, yes, no, looking, got,
                 missed, skipped>>

(* Redis goes away: what was received is still looked at.                  *)
BusLost(k) ==
  /\ redis /\ state[k] = "open"
  /\ state' = [state EXCEPT ![k] = "deaf"]
  /\ UNCHANGED <<redis, memberOf, convOf, tasks, queue, lagged, yes, no, looking, got,
                 been, missed, skipped>>

Close(k) ==
  /\ state[k] # "closed"
  /\ state' = [state EXCEPT ![k] = "closed"]
  /\ queue' = [queue EXCEPT ![k] = <<>>]
  /\ lagged' = [lagged EXCEPT ![k] = FALSE]
  /\ looking' = [looking EXCEPT ![k] = 0]
  /\ got' = [got EXCEPT ![k] = <<>>]
  /\ yes' = [yes EXCEPT ![k] = {}] /\ no' = [no EXCEPT ![k] = {}]
  /\ been' = [been EXCEPT ![k] = {}]
  /\ missed' = [missed EXCEPT ![k] = {}] /\ skipped' = [skipped EXCEPT ![k] = {}]
  /\ UNCHANGED <<redis, memberOf, convOf, tasks>>

(* The receiver's Lagged error comes first, as an empty frame that is      *)
(* filtered out.                                                           *)
LagEndsStream(k) ==            \* faulty: takes Lagged for Closed
  /\ lagged[k]
  /\ state' = [state EXCEPT ![k] = "deaf"]
  /\ UNCHANGED <<redis, memberOf, convOf, tasks, queue, lagged, yes, no, looking, got,
                 been, missed, skipped>>
SkipLag(k) ==
  /\ lagged[k] /\ looking[k] = 0
  /\ lagged' = [lagged EXCEPT ![k] = FALSE]
  /\ UNCHANGED <<redis, memberOf, convOf, tasks, state, queue, yes, no, looking, got,
                 been, missed, skipped>>

(* The next frame: forwarded or dropped by the cache, or looked up.        *)
Forward(k, n) == got' = [got EXCEPT ![k] = Append(@, n)]
TakeAhead(k) ==                \* faulty: goes on while a lookup is awaited
  LET n == Head(queue[k])
      c == convOf[n]
  IN
  /\ queue[k] # <<>> /\ ~lagged[k]
  /\ looking[k] = 0 \/ c \in yes[k] \cup no[k]
  /\ queue' = [queue EXCEPT ![k] = Tail(@)]
  /\ IF c \in yes[k] THEN Forward(k, n) ELSE UNCHANGED got
  /\ looking' = [looking EXCEPT ![k] = IF c \in yes[k] \cup no[k] THEN @ ELSE n]
  /\ UNCHANGED <<redis, memberOf, convOf, tasks, state, lagged, yes, no, been, missed, skipped>>
Take(k) ==
  LET n == Head(queue[k])
      c == convOf[n]
  IN
  /\ looking[k] = 0 /\ ~lagged[k] /\ queue[k] # <<>>
  /\ queue' = [queue EXCEPT ![k] = Tail(@)]
  /\ IF c \in yes[k] THEN Forward(k, n) ELSE UNCHANGED got
  /\ looking' = [looking EXCEPT ![k] = IF c \in yes[k] \cup no[k] THEN 0 ELSE n]
  /\ skipped' = [skipped EXCEPT ![k] = IF c \in no[k] \cap memberOf[k] THEN @ \cup {n} ELSE @]
  /\ UNCHANGED <<redis, memberOf, convOf, tasks, state, lagged, yes, no, been, missed>>

(* db::chat::is_member(...).unwrap_or(false): an error is remembered as a  *)
(* no.                                                                     *)
LookupOpen(k, fails) ==        \* faulty: unwrap_or(true)
  LET n == looking[k]
      c == convOf[n]
  IN
  /\ n # 0
  /\ yes' = [yes EXCEPT ![k] = @ \cup {c}]
  /\ Forward(k, n)
  /\ looking' = [looking EXCEPT ![k] = 0]
  /\ UNCHANGED <<redis, memberOf, convOf, tasks, state, queue, lagged, no, been, missed, skipped>>
Lookup(k, fails) ==
  LET n == looking[k]
      c == convOf[n]
      member == c \in memberOf[k] /\ ~fails
  IN
  /\ n # 0
  /\ yes' = [yes EXCEPT ![k] = IF member THEN @ \cup {c} ELSE @]
  /\ no' = [no EXCEPT ![k] = IF member THEN @ ELSE @ \cup {c}]
  /\ IF member THEN Forward(k, n) ELSE UNCHANGED got
  /\ looking' = [looking EXCEPT ![k] = 0]
  /\ UNCHANGED <<redis, memberOf, convOf, tasks, state, queue, lagged, been, missed, skipped>>

(* Group handlers change who is a member; see Conversations.               *)
Join(k, c) ==
  /\ memberOf' = [memberOf EXCEPT ![k] = @ \cup {c}]
  /\ been' = [been EXCEPT ![k] = IF state[k] = "closed" THEN @ ELSE @ \cup {c}]
  /\ UNCHANGED <<redis, convOf, tasks, state, queue, lagged, yes, no, looking, got,
                 missed, skipped>>
Leave(k, c) ==
  /\ memberOf' = [memberOf EXCEPT ![k] = @ \ {c}]
  /\ UNCHANGED <<redis, convOf, tasks, link>>

-----------------------------------------------------------------------------
Pump(k) == SkipLag(k) \/ Take(k) \/ \E fails \in BOOLEAN : Lookup(k, fails)

Next ==
  \/ \E c \in Convs : Publish(c)
  \/ \E n \in tasks : RunTask(n) \/ LoseTask(n)
  \/ \E k \in Conns :
       \/ \E subscribed \in BOOLEAN : Open(k, subscribed)
       \/ BusLost(k) \/ Close(k) \/ Pump(k)
  \/ \E k \in Conns, c \in Convs : Join(k, c) \/ Leave(k, c)

(* The tokio runtime polls a task that can make progress.                  *)
Spec == Init /\ [][Next]_vars /\ \A k \in Conns : WF_vars(Pump(k))
-----------------------------------------------------------------------------
(* A user sees frames only of conversations he has been a member of while  *)
(* the connection was open, whatever the cache holds and however lookups   *)
(* fail.                                                                   *)
ForwardedToMembers ==
  \A k \in Conns : \A n \in ToSet(got[k]) : convOf[n] \in been[k]

(* On one server, a connection forwards frames in the order in which they  *)
(* were published, each once: an unsend never overtakes its message.       *)
(* Redis tasks may run in any order, so there only repetition is excluded. *)
InOrder ==
  \A k \in Conns : \A i, j \in 1..Len(got[k]) :
    i < j => IF redis THEN got[k][i] # got[k][j] ELSE got[k][i] < got[k][j]

(* A frame of a conversation that a connection knows its user to be in is  *)
(* forwarded in the end, if the channel does not overwrite it and the      *)
(* connection lasts: a lag costs the frames it overwrote and no others.    *)
FramesArrive ==
  \A k \in Conns, n \in Frames :
    (n \in ToSet(queue[k]) /\ convOf[n] \in yes[k])
      ~> (n \in ToSet(got[k]) \/ n \in missed[k] \/ state[k] = "closed")

(* What the handlers' comments promise ("so all clients in the             *)
(* conversation can update the UI in real time"): no connection drops,     *)
(* because of what it has cached, a frame its user is a member for.        *)
MembersAreNotCutOff == \A k \in Conns : skipped[k] = {}
=============================================================================

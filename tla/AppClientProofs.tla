-------------------------- MODULE AppClientProofs ---------------------------
(***************************************************************************)
(* The type invariant of AppClient for any number of calls under way and   *)
(* of token pairs, kills between the two writes of a save included.  It is *)
(* inductive: what is kept of a token, in storage, in memory or by a call, *)
(* was issued by the server.                                               *)
(***************************************************************************)
EXTENDS AppClient, TLAPS

(* Of a call: where it stands and what it holds fit together.              *)
TaskOK(step, k, given) ==
  /\ step \in Steps /\ k \in Maybe
  /\ step \in {"refresh_sent", "saving", "login_saving"} => k \in given

LEMMA TaskMoves ==
  ASSUME TypeOK, NEW t \in Tasks, NEW step, NEW k, TaskOK(step, k, issued'), Goto(t, step, k),
         issued \subseteq issued'
  PROVE  /\ pc' \in [Tasks -> Steps] /\ tok' \in [Tasks -> Maybe]
         /\ \A o \in Tasks : pc'[o] \in {"refresh_sent", "saving", "login_saving"} => tok'[o] \in issued'
BY DEF TypeOK, TaskOK, Goto

LEMMA TaskEnds ==
  ASSUME TypeOK, NEW t \in Tasks, Goto(t, "idle", None), issued \subseteq issued'
  PROVE  /\ pc' \in [Tasks -> Steps] /\ tok' \in [Tasks -> Maybe]
         /\ \A o \in Tasks : pc'[o] \in {"refresh_sent", "saving", "login_saving"} => tok'[o] \in issued'
<1>1. TaskOK("idle", None, issued')
  BY DEF TaskOK, Steps, Maybe
<1> QED BY <1>1, TaskMoves

(* The steps of a call that write neither at the server nor in the app.    *)
LEMMA Waiting ==
  ASSUME TypeOK, NEW t \in Tasks,
         \/ Send(t) \/ Answered(t) \/ Refused(t) \/ ReadRefresh(t) \/ RefreshFails(t)
         \/ RetryDone(t) \/ RetryFails(t) \/ UserLogout(t) \/ LogoutFails(t) \/ Login(t)
  PROVE  TypeOK'
<1>1. UNCHANGED <<server, store, memory>>
  BY DEF Send, Answered, Refused, ReadRefresh, RefreshFails, RetryDone, RetryFails, UserLogout,
         LogoutFails, Login
<1>2. \E step, k : TaskOK(step, k, issued') /\ Goto(t, step, k)
  <2>1. access \in Maybe /\ refresh \in Maybe /\ current \in Maybe /\ None \in Maybe
    BY DEF TypeOK, Maybe
  <2>2. CASE Send(t)
    <3>1. TaskOK("sent", access, issued')
      BY <2>1 DEF TaskOK, Steps, Maybe
    <3> QED BY <3>1, <2>2 DEF Send
  <2>3. CASE Answered(t) \/ RetryDone(t)
    <3>1. TaskOK("idle", None, issued')
      BY <2>1 DEF TaskOK, Steps, Maybe
    <3> QED BY <3>1, <2>3 DEF Answered, RetryDone
  <2>4. CASE Refused(t)
    <3>1. TaskOK("refused", None, issued')
      BY <2>1 DEF TaskOK, Steps, Maybe
    <3> QED BY <3>1, <2>4 DEF Refused
  <2>5. CASE ReadRefresh(t)
    <3> DEFINE step == IF refresh = None THEN "clear" ELSE "refresh_sent"
    <3>1. refresh \in issued \cup {None} /\ issued' = issued
      BY <1>1 DEF TypeOK, server
    <3>2. step \in Steps /\ (step = "refresh_sent" => refresh \in issued')
          /\ step \notin {"saving", "login_saving"}
      BY <3>1 DEF Steps
    <3>3. TaskOK(step, refresh, issued')
      BY <3>2, <2>1 DEF TaskOK, Maybe
    <3> QED BY <3>3, <2>5 DEF ReadRefresh
  <2>6. CASE RefreshFails(t) \/ RetryFails(t)
    <3>1. TaskOK("expired", None, issued')
      BY <2>1 DEF TaskOK, Steps, Maybe
    <3> QED BY <3>1, <2>6 DEF RefreshFails, RetryFails
  <2>7. CASE UserLogout(t)
    <3> DEFINE step == IF current = None THEN "logout_clear" ELSE "logout"
    <3>1. TaskOK(step, current, issued')
      BY <2>1 DEF TaskOK, Steps, Maybe
    <3> QED BY <3>1, <2>7 DEF UserLogout
  <2>8. CASE LogoutFails(t)
    <3>1. TaskOK("logout_clear", None, issued')
      BY <2>1 DEF TaskOK, Steps, Maybe
    <3> QED BY <3>1, <2>8 DEF LogoutFails
  <2>9. CASE Login(t)
    <3>1. TaskOK("login_sent", None, issued')
      BY <2>1 DEF TaskOK, Steps, Maybe
    <3> QED BY <3>1, <2>9 DEF Login
  <2> QED BY <2>2, <2>3, <2>4, <2>5, <2>6, <2>7, <2>8, <2>9
<1>3. PICK step, k : TaskOK(step, k, issued') /\ Goto(t, step, k)
  BY <1>2
<1>4. issued' = issued
  BY <1>1 DEF server
<1>5. /\ pc' \in [Tasks -> Steps] /\ tok' \in [Tasks -> Maybe]
      /\ \A o \in Tasks : pc'[o] \in {"refresh_sent", "saving", "login_saving"} => tok'[o] \in issued'
  BY <1>3, <1>4, TaskMoves
<1> QED BY <1>1, <1>5 DEF TypeOK, server, store, memory

(* The steps of a call that write the storage or what the notifier keeps.  *)
LEMMA Storing ==
  ASSUME TypeOK, NEW t \in Tasks,
         ClearAfterError(t) \/ SavePair(t) \/ Expire(t) \/ LogoutClear(t) \/ LoginSaved(t)
  PROVE  TypeOK'
<1>1. UNCHANGED server
  BY DEF ClearAfterError, SavePair, Expire, LogoutClear, LoginSaved
<1>2. issued' = issued
  BY <1>1 DEF server
<1>3. current \in Maybe /\ None \in Maybe
  BY DEF TypeOK, Maybe
<1>4. CASE ClearAfterError(t)
  <2>1. Goto(t, "idle", None) /\ UNCHANGED memory /\ access' = None /\ refresh' = None
    BY <1>4 DEF ClearAfterError, Clear
  <2> QED BY <1>1, <1>2, <2>1, TaskEnds DEF TypeOK, server, memory
<1>5. CASE SavePair(t)
  <2>1. Goto(t, "retry_sent", tok[t]) /\ UNCHANGED memory /\ access' = tok[t] /\ refresh' = tok[t]
    BY <1>5 DEF SavePair, Save
  <2>2. tok[t] \in issued /\ TaskOK("retry_sent", tok[t], issued')
    BY <1>5 DEF SavePair, TypeOK, TaskOK, Steps
  <2> QED BY <1>1, <1>2, <2>1, <2>2, TaskMoves DEF TypeOK, server, memory
<1>6. CASE Expire(t)
  <2> DEFINE step == IF current = None THEN "logout_clear" ELSE "logout"
  <2>1. Goto(t, step, current) /\ UNCHANGED memory /\ access' = None /\ refresh' = None
    BY <1>6 DEF Expire, Clear
  <2>2. TaskOK(step, current, issued')
    BY <1>3 DEF TaskOK, Steps
  <2> QED BY <1>1, <1>2, <2>1, <2>2, TaskMoves DEF TypeOK, server, memory
<1>7. CASE LogoutClear(t)
  <2>1. Goto(t, "idle", None) /\ status' = "out" /\ current' = None /\ access' = None /\ refresh' = None
    BY <1>7 DEF LogoutClear, Clear
  <2> QED BY <1>1, <1>2, <2>1, TaskEnds DEF TypeOK, server
<1>8. CASE LoginSaved(t)
  <2>1. Goto(t, "idle", None) /\ status' = "in" /\ current' = tok[t] /\ access' = tok[t] /\ refresh' = tok[t]
    BY <1>8 DEF LoginSaved, Save
  <2>2. tok[t] \in issued
    BY <1>8 DEF LoginSaved, TypeOK
  <2> QED BY <1>1, <1>2, <2>1, <2>2, TaskEnds DEF TypeOK, server
<1> QED BY <1>4, <1>5, <1>6, <1>7, <1>8

(* The steps that the server takes in a call. *)
LEMMA Serving ==
  ASSUME TypeOK, NEW t \in Tasks,
         \/ \E p \in Pairs, arrives \in BOOLEAN : Exchanged(t, p, arrives)
         \/ RefreshRefused(t) \/ LogoutServed(t)
         \/ \E p \in Pairs : LoginServed(t, p)
  PROVE  TypeOK'
<1>1. CASE \E p \in Pairs, arrives \in BOOLEAN : Exchanged(t, p, arrives)
  <2>1. PICK p \in Pairs, arrives \in BOOLEAN : Exchanged(t, p, arrives)
    BY <1>1
  <2>2. issued' = issued \cup {p} /\ live' \subseteq issued' /\ UNCHANGED <<stale, store, memory>>
    BY <2>1 DEF Exchanged, TypeOK
  <2>3. TaskOK("saving", p, issued') /\ TaskOK("expired", None, issued')
    BY <2>2 DEF TaskOK, Steps, Maybe
  <2>4. Goto(t, "saving", p) \/ Goto(t, "expired", None)
    BY <2>1 DEF Exchanged
  <2>5. /\ pc' \in [Tasks -> Steps] /\ tok' \in [Tasks -> Maybe]
        /\ \A o \in Tasks : pc'[o] \in {"refresh_sent", "saving", "login_saving"} => tok'[o] \in issued'
    BY <2>2, <2>3, <2>4, TaskMoves
  <2> QED BY <2>2, <2>5 DEF TypeOK, store, memory
<1>2. CASE RefreshRefused(t)
  <2>1. live' = {} /\ access' = None /\ refresh' = None /\ UNCHANGED <<issued, stale, memory>>
    BY <1>2 DEF RefreshRefused, Clear
  <2>2. TaskOK("expired", None, issued') /\ Goto(t, "expired", None)
    BY <1>2 DEF RefreshRefused, TaskOK, Steps, Maybe
  <2> QED BY <2>1, <2>2, TaskMoves DEF TypeOK, memory
<1>3. CASE LogoutServed(t)
  <2>1. live' \subseteq live /\ UNCHANGED <<issued, stale, store, memory>>
    BY <1>3 DEF LogoutServed
  <2>2. TaskOK("logout_clear", None, issued') /\ Goto(t, "logout_clear", None)
    BY <1>3 DEF LogoutServed, TaskOK, Steps, Maybe
  <2> QED BY <2>1, <2>2, TaskMoves DEF TypeOK, store, memory
<1>4. CASE \E p \in Pairs : LoginServed(t, p)
  <2>1. PICK p \in Pairs : LoginServed(t, p)
    BY <1>4
  <2>2. issued' = issued \cup {p} /\ live' = live \cup {p} /\ UNCHANGED <<stale, store, memory>>
    BY <2>1 DEF LoginServed
  <2>3. TaskOK("login_saving", p, issued') /\ Goto(t, "login_saving", p)
    BY <2>1, <2>2 DEF LoginServed, TaskOK, Steps, Maybe
  <2> QED BY <2>2, <2>3, TaskMoves DEF TypeOK, store, memory
<1> QED BY <1>1, <1>2, <1>3, <1>4

(* A kill forgets every call; between the two writes of a save it leaves   *)
(* one key of the storage with the new token.                              *)
LEMMA Killing ==
  ASSUME TypeOK, Kill \/ \E t \in Tasks : KillInSave(t)
  PROVE  TypeOK'
<1>1. Restart /\ {access', refresh'} \subseteq issued \cup {None}
  <2>1. CASE Kill
    BY <2>1 DEF Kill, store, TypeOK
  <2>2. CASE \E t \in Tasks : KillInSave(t)
    BY <2>2 DEF KillInSave, TypeOK
  <2> QED BY <2>1, <2>2
<1>2. /\ UNCHANGED server /\ status' = "loading" /\ current' = None
      /\ pc' \in [Tasks -> Steps] /\ tok' \in [Tasks -> Maybe]
      /\ \A t \in Tasks : pc'[t] = "idle"
  BY <1>1 DEF Restart, Steps, Maybe
<1> QED BY <1>1, <1>2 DEF TypeOK, server

(* The start of the app, and what happens at the server without it.        *)
LEMMA Elsewhere ==
  ASSUME TypeOK, Hydrate \/ RevokedElsewhere \/ \E p \in Pairs : AccessExpires(p)
  PROVE  TypeOK'
<1>1. CASE Hydrate
  BY <1>1 DEF TypeOK, Hydrate, HydrateAccess, HydrateRefresh, server, store
<1>2. CASE RevokedElsewhere
  BY <1>2 DEF TypeOK, RevokedElsewhere, store, memory
<1>3. CASE \E p \in Pairs : AccessExpires(p)
  BY <1>3 DEF TypeOK, AccessExpires, store, memory
<1> QED BY <1>1, <1>2, <1>3

LEMMA TypeStep ==
  ASSUME TypeOK, [Next]_vars
  PROVE  TypeOK'
<1>1. CASE UNCHANGED vars
  BY <1>1 DEF TypeOK, vars
<1>2. ASSUME NEW t \in Tasks, Continue(t)
      PROVE  TypeOK'
  BY <1>2, Waiting, Storing, Serving DEF Continue
<1>3. ASSUME NEW t \in Tasks, Send(t) \/ UserLogout(t) \/ Login(t)
      PROVE  TypeOK'
  BY <1>3, Waiting
<1>4. CASE Kill \/ \E t \in Tasks : KillInSave(t)
  BY <1>4, Killing
<1>5. CASE Hydrate \/ RevokedElsewhere \/ \E p \in Pairs : AccessExpires(p)
  BY <1>5, Elsewhere
<1> QED BY <1>1, <1>2, <1>3, <1>4, <1>5 DEF Next

(* Whatever the app holds of a token, the server has issued it: no answer  *)
(* that fails, no kill and no overlapping call leaves it with another.     *)
THEOREM TypeCorrect == Spec => []TypeOK
<1>1. Init => TypeOK
  BY DEF Init, TypeOK, Steps, Maybe
<1>2. TypeOK /\ [Next]_vars => TypeOK'
  BY TypeStep
<1> QED BY <1>1, <1>2, PTL DEF Spec
=============================================================================

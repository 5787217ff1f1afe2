---------------------------- MODULE ConsoleProofs ----------------------------
(***************************************************************************)
(* Proofs about the staff console, for any staff, sessions, rows, calls    *)
(* and failures: StaffAccess, and what is behind that door, the parts of   *)
(* MCConsole.  Each has an inductive invariant of its own, shown of its    *)
(* first states and of each of its actions; ConsoleInv, at the end, puts   *)
(* them together, and the theorems follow from it.                         *)
(***************************************************************************)
EXTENDS MCConsole, FiniteSetTheorems, SequenceTheorems, WellFoundedInduction, TLAPS

(* Of a request: where it stands and what it holds fit together.  A late   *)
(* call names a session that existed, and a session never opens again.     *)
RequestOK(at, q, ids, alive) ==
  /\ at \in Steps /\ q \in Locals
  /\ at \in {"verify", "count", "stamp", "totp", "session"} => q.staff \in Staff
  /\ q.done => at = "audit"
  /\ q.late => /\ q.sid \in Sids /\ ids[q.sid] # NoStaff /\ q.sid \notin alive
               /\ at # "apply" /\ ~q.done

Requests == \A r \in Reqs : RequestOK(pc[r], rq[r], holder, open)

(* Requests past the lock whose password is not judged yet; those judged   *)
(* wrong that have not been counted; those that owe an audit row.          *)
Guessing(p, q, m) == {r \in Reqs : p[r] = "verify" /\ q[r].staff = m}
Counting(p, q, m) == {r \in Reqs : p[r] = "count" /\ q[r].staff = m}
Auditing == {r \in Reqs : rq[r].done /\ rq[r].logged}

(* An open account has been tried as often as was counted, lost or is      *)
(* being counted, and once its counter is there, the next count locks it   *)
(* (a lock that lapses leaves the counter).  A locked one is tried by      *)
(* those that had passed the lock, and no request is past it twice.        *)
LockInv ==
  \A m \in Staff :
    IF m \in locked
    THEN guesses[m] + Cardinality(Guessing(pc, rq, m)) <= LockAfter - 1 + lost[m] + Cardinality(Reqs)
    ELSE guesses[m] <= lost[m] + Cardinality(Counting(pc, rq, m))
                       + (IF failed[m] < LockAfter THEN failed[m] ELSE 0)

Inv == TypeOK /\ Requests /\ LockInv /\ EffectsAreAudited

-----------------------------------------------------------------------------
One(b) == IF b THEN 1 ELSE 0
At(at, s, m, n) == IF at = s /\ m = n THEN 1 ELSE 0
Owes(q) == IF q.done /\ q.logged THEN 1 ELSE 0

(* Sets that differ in one element at most.                                *)
LEMMA OneMoves ==
  ASSUME NEW S, IsFiniteSet(S), NEW T, NEW x, T \ {x} = S \ {x}
  PROVE  /\ IsFiniteSet(T) /\ Cardinality(S) \in Nat /\ Cardinality(T) \in Nat
         /\ Cardinality(T) + One(x \in S) = Cardinality(S) + One(x \in T)
<1>1. IsFiniteSet(S \ {x}) /\ Cardinality(S) = Cardinality(S \ {x}) + One(x \in S)
  <2>1. IsFiniteSet(S \ {x}) /\ Cardinality(S \ {x}) \in Nat
    BY FS_RemoveElement, FS_CardinalityType
  <2>2. x \notin S \ {x}
    OBVIOUS
  <2>3. Cardinality((S \ {x}) \cup {x}) = Cardinality(S \ {x}) + 1
    BY <2>1, <2>2, FS_AddElement
  <2>4. CASE x \in S
    <3>1. (S \ {x}) \cup {x} = S
      BY <2>4
    <3> QED BY <2>1, <2>3, <2>4, <3>1 DEF One
  <2>5. CASE x \notin S
    <3>1. S \ {x} = S
      BY <2>5
    <3>2. Cardinality(S) = Cardinality(S \ {x})
      BY <3>1, Zenon
    <3>3. One(x \in S) = 0
      BY <2>5 DEF One
    <3> QED BY <2>1, <3>2, <3>3
  <2> QED BY <2>4, <2>5
<1>2. IsFiniteSet(T) /\ Cardinality(T) = Cardinality(T \ {x}) + One(x \in T)
  <2>1. Cardinality(T \ {x}) \in Nat /\ IsFiniteSet(T \ {x})
    BY <1>1, FS_CardinalityType
  <2>2. x \notin T \ {x}
    OBVIOUS
  <2>3. IsFiniteSet((T \ {x}) \cup {x}) /\ Cardinality((T \ {x}) \cup {x}) = Cardinality(T \ {x}) + 1
    BY <2>1, <2>2, FS_AddElement
  <2>4. CASE x \in T
    <3>1. (T \ {x}) \cup {x} = T
      BY <2>4
    <3> QED BY <2>1, <2>3, <2>4, <3>1 DEF One
  <2>5. CASE x \notin T
    <3>1. T \ {x} = T
      BY <2>5
    <3>2. Cardinality(T) = Cardinality(T \ {x}) /\ IsFiniteSet(T)
      BY <2>1, <3>1, Zenon
    <3>3. One(x \in T) = 0
      BY <2>5 DEF One
    <3> QED BY <2>1, <3>2, <3>3
  <2> QED BY <2>4, <2>5
<1>3. Cardinality(S \ {x}) \in Nat /\ Cardinality(S) \in Nat /\ Cardinality(T) \in Nat
  BY <1>1, <1>2, FS_CardinalityType
<1> QED BY <1>1, <1>2, <1>3 DEF One

(* A request is in one of the two places at most.                          *)
LEMMA Places ==
  ASSUME Sensible, NEW m
  PROVE  /\ IsFiniteSet(Guessing(pc, rq, m)) /\ IsFiniteSet(Counting(pc, rq, m)) /\ IsFiniteSet(Auditing)
         /\ Cardinality(Guessing(pc, rq, m)) \in Nat /\ Cardinality(Counting(pc, rq, m)) \in Nat
         /\ Cardinality(Auditing) \in Nat /\ Cardinality(Reqs) \in Nat
         /\ Cardinality(Guessing(pc, rq, m)) + Cardinality(Counting(pc, rq, m)) <= Cardinality(Reqs)
<1>1. /\ Guessing(pc, rq, m) \in SUBSET Reqs /\ Counting(pc, rq, m) \in SUBSET Reqs /\ Auditing \in SUBSET Reqs
      /\ Guessing(pc, rq, m) \cup Counting(pc, rq, m) \in SUBSET Reqs
      /\ Guessing(pc, rq, m) \cap Counting(pc, rq, m) = {}
  BY DEF Guessing, Counting, Auditing
<1>2. IsFiniteSet(Guessing(pc, rq, m)) /\ IsFiniteSet(Counting(pc, rq, m)) /\ IsFiniteSet(Auditing)
  BY <1>1, FS_Subset DEF Sensible
<1>3. /\ Cardinality(Guessing(pc, rq, m)) \in Nat /\ Cardinality(Counting(pc, rq, m)) \in Nat
      /\ Cardinality(Auditing) \in Nat /\ Cardinality(Reqs) \in Nat
  BY <1>2, FS_CardinalityType DEF Sensible
<1>4. Cardinality(Guessing(pc, rq, m) \cup Counting(pc, rq, m))
        = Cardinality(Guessing(pc, rq, m)) + Cardinality(Counting(pc, rq, m)) - Cardinality({})
  BY <1>1, <1>2, FS_Union
<1>5. Cardinality(Guessing(pc, rq, m) \cup Counting(pc, rq, m)) <= Cardinality(Reqs)
  BY <1>1, FS_Subset DEF Sensible
<1> QED BY <1>2, <1>3, <1>4, <1>5, FS_EmptySet

(* A request goes on: what becomes of the three numbers.                   *)
Tally(r, at, q, m) ==
  /\ Cardinality(Guessing(pc', rq', m)) \in Nat /\ Cardinality(Counting(pc', rq', m)) \in Nat
  /\ Cardinality(Guessing(pc', rq', m)) + At(pc[r], "verify", rq[r].staff, m)
       = Cardinality(Guessing(pc, rq, m)) + At(at, "verify", q.staff, m)
  /\ Cardinality(Counting(pc', rq', m)) + At(pc[r], "count", rq[r].staff, m)
       = Cardinality(Counting(pc, rq, m)) + At(at, "count", q.staff, m)
  /\ Cardinality(Auditing') \in Nat
  /\ Cardinality(Auditing') + Owes(rq[r]) = Cardinality(Auditing) + Owes(q)

LEMMA Counts ==
  ASSUME Sensible, TypeOK, NEW r \in Reqs, NEW at, NEW q, NEW m,
         pc' = [pc EXCEPT ![r] = at], rq' = [rq EXCEPT ![r] = q]
  PROVE  Tally(r, at, q, m)
<1>1. pc'[r] = at /\ rq'[r] = q /\ \A o \in Reqs \ {r} : pc'[o] = pc[o] /\ rq'[o] = rq[o]
  BY DEF TypeOK
<1>2. /\ Guessing(pc', rq', m) \ {r} = Guessing(pc, rq, m) \ {r}
      /\ r \in Guessing(pc, rq, m) <=> pc[r] = "verify" /\ rq[r].staff = m
      /\ r \in Guessing(pc', rq', m) <=> at = "verify" /\ q.staff = m
  BY <1>1 DEF Guessing
<1>3. /\ Counting(pc', rq', m) \ {r} = Counting(pc, rq, m) \ {r}
      /\ r \in Counting(pc, rq, m) <=> pc[r] = "count" /\ rq[r].staff = m
      /\ r \in Counting(pc', rq', m) <=> at = "count" /\ q.staff = m
  BY <1>1 DEF Counting
<1>4. /\ Auditing' \ {r} = Auditing \ {r}
      /\ r \in Auditing <=> rq[r].done /\ rq[r].logged
      /\ r \in Auditing' <=> q.done /\ q.logged
  BY <1>1 DEF Auditing
<1>5. IsFiniteSet(Guessing(pc, rq, m)) /\ IsFiniteSet(Counting(pc, rq, m)) /\ IsFiniteSet(Auditing)
  BY Places
<1> DEFINE G == Guessing(pc, rq, m)  H == Guessing(pc', rq', m)
           C == Counting(pc, rq, m)  D == Counting(pc', rq', m)
           A == Auditing             B == Auditing'
<1> HIDE DEF G, H, C, D, A, B
<1>6. /\ Cardinality(H) \in Nat
      /\ Cardinality(H) + One(r \in G) = Cardinality(G) + One(r \in H)
  <2>1. IsFiniteSet(G) /\ H \ {r} = G \ {r}
    BY <1>2, <1>5 DEF G, H
  <2> QED BY <2>1, OneMoves
<1>7. /\ Cardinality(D) \in Nat
      /\ Cardinality(D) + One(r \in C) = Cardinality(C) + One(r \in D)
  <2>1. IsFiniteSet(C) /\ D \ {r} = C \ {r}
    BY <1>3, <1>5 DEF C, D
  <2> QED BY <2>1, OneMoves
<1>8. /\ Cardinality(B) \in Nat
      /\ Cardinality(B) + One(r \in A) = Cardinality(A) + One(r \in B)
  <2>1. IsFiniteSet(A) /\ B \ {r} = A \ {r}
    BY <1>4, <1>5 DEF A, B
  <2> QED BY <2>1, OneMoves
<1> QED BY <1>2, <1>3, <1>4, <1>6, <1>7, <1>8 DEF One, At, Owes, Tally, G, H, C, D, A, B

LEMMA Moves ==
  ASSUME TypeOK, Requests, NEW r \in Reqs, NEW at, NEW q,
         pc' = [pc EXCEPT ![r] = at], rq' = [rq EXCEPT ![r] = q],
         RequestOK(at, q, holder', open'),
         \A s \in Sids : holder[s] # NoStaff => holder'[s] # NoStaff /\ (s \notin open => s \notin open')
  PROVE  pc' \in [Reqs -> Steps] /\ rq' \in [Reqs -> Locals] /\ Requests'
<1>1. pc'[r] = at /\ rq'[r] = q /\ \A o \in Reqs \ {r} : pc'[o] = pc[o] /\ rq'[o] = rq[o]
  BY DEF TypeOK
<1>2. pc' \in [Reqs -> Steps] /\ rq' \in [Reqs -> Locals]
  BY DEF TypeOK, RequestOK
<1>3. ASSUME NEW o \in Reqs PROVE RequestOK(pc'[o], rq'[o], holder', open')
  <2>1. CASE o = r
    BY <1>1, <2>1
  <2>2. CASE o # r
    <3>1. RequestOK(pc[o], rq[o], holder, open)
      BY DEF Requests
    <3> QED BY <1>1, <2>2, <3>1 DEF RequestOK
  <2> QED BY <2>1, <2>2
<1> QED BY <1>2, <1>3 DEF Requests

LEMMA BlankOK ==
  ASSUME NEW ids, NEW alive
  PROVE  RequestOK("idle", Blank, ids, alive) /\ ~Blank.done /\ Blank \in Locals
BY DEF RequestOK, Blank, Locals, Steps

-----------------------------------------------------------------------------
(* A request goes on without the counters; its audit row is not made or    *)
(* lost by it.                                                             *)
LEMMA Quiet ==
  ASSUME Sensible, Inv, NEW r \in Reqs, NEW at, NEW q,
         pc' = [pc EXCEPT ![r] = at], rq' = [rq EXCEPT ![r] = q],
         UNCHANGED <<failed, locked, guesses, lost>>,
         pc[r] # "count", at = "verify" => q.staff \notin locked
  PROVE  LockInv'
<1> SUFFICES ASSUME NEW m \in Staff
             PROVE  IF m \in locked'
                    THEN guesses'[m] + Cardinality(Guessing(pc', rq', m))
                           <= LockAfter - 1 + lost'[m] + Cardinality(Reqs)
                    ELSE guesses'[m] <= lost'[m] + Cardinality(Counting(pc', rq', m))
                           + (IF failed'[m] < LockAfter THEN failed'[m] ELSE 0)
  BY DEF LockInv
<1>1. Tally(r, at, q, m)
  BY Counts DEF Inv
<1>2. /\ Cardinality(Guessing(pc, rq, m)) \in Nat /\ Cardinality(Counting(pc, rq, m)) \in Nat
      /\ Cardinality(Reqs) \in Nat /\ LockAfter \in Nat
      /\ guesses[m] \in Nat /\ lost[m] \in Nat /\ failed[m] \in Nat
  BY Places DEF Sensible, Inv, TypeOK
<1>3. m \in locked => Cardinality(Guessing(pc', rq', m)) <= Cardinality(Guessing(pc, rq, m))
  BY <1>1, <1>2 DEF Tally, At, Owes
<1>4. Cardinality(Counting(pc, rq, m)) <= Cardinality(Counting(pc', rq', m))
  BY <1>1, <1>2 DEF Tally, At, Owes
<1> QED BY <1>1, <1>2, <1>3, <1>4 DEF Tally, Inv, LockInv

LEMMA TrailQuiet ==
  ASSUME Sensible, Inv, NEW r \in Reqs, NEW at, NEW q,
         pc' = [pc EXCEPT ![r] = at], rq' = [rq EXCEPT ![r] = q],
         UNCHANGED trail, ~rq[r].done
  PROVE  EffectsAreAudited'
<1>1. Tally(r, at, q, 0)
  BY Counts DEF Inv
<1>2. Cardinality(Auditing) \in Nat
  BY Places
<1>3. Cardinality(Auditing) <= Cardinality(Auditing')
  BY <1>1, <1>2 DEF Tally, At, Owes
<1>4. effects \in Nat /\ rows \in Nat /\ gaps \in Nat /\ effects <= rows + gaps + Cardinality(Auditing)
  BY DEF Inv, TypeOK, EffectsAreAudited, Auditing
<1>5. effects' <= rows' + gaps' + Cardinality(Auditing')
  BY <1>1, <1>2, <1>3, <1>4 DEF Tally, trail
<1> QED BY <1>5 DEF EffectsAreAudited, Auditing

(* The steps that touch neither the counters nor the trail.                *)
LEMMA Plain ==
  ASSUME Sensible, Inv, NEW r \in Reqs, NEW at, NEW q,
         pc' = [pc EXCEPT ![r] = at], rq' = [rq EXCEPT ![r] = q],
         RequestOK(at, q, holder', open'),
         UNCHANGED <<active, failed, locked, guesses, lost, challenge, effects, rows, gaps>>,
         faults' \in Nat, holder' \in [Sids -> Staff \cup {NoStaff}],
         open' \subseteq {s \in Sids : holder'[s] # NoStaff},
         \A s \in Sids : holder[s] # NoStaff => holder'[s] # NoStaff /\ (s \notin open => s \notin open'),
         pc[r] # "count", at = "verify" => q.staff \notin locked, ~rq[r].done
  PROVE  Inv'
<1>1. pc' \in [Reqs -> Steps] /\ rq' \in [Reqs -> Locals] /\ Requests'
  BY Moves DEF Inv
<1>2. LockInv' /\ EffectsAreAudited'
  BY Quiet, TrailQuiet DEF trail
<1>3. TypeOK'
  BY <1>1 DEF Inv, TypeOK
<1> QED BY <1>1, <1>2, <1>3 DEF Inv

(* Those of them that leave the sessions alone.                            *)
LEMMA PlainSame ==
  ASSUME Sensible, Inv, NEW r \in Reqs, NEW at, NEW q,
         pc' = [pc EXCEPT ![r] = at], rq' = [rq EXCEPT ![r] = q],
         RequestOK(at, q, holder, open),
         UNCHANGED <<accounts, challenge, table, trail>>, faults' \in Nat,
         pc[r] # "count", at = "verify" => q.staff \notin locked, ~rq[r].done
  PROVE  Inv'
<1>1. UNCHANGED <<active, failed, locked, guesses, lost, challenge, effects, rows, gaps, holder, open>>
  BY DEF accounts, table, trail
<1>2. /\ RequestOK(at, q, holder', open') /\ holder' \in [Sids -> Staff \cup {NoStaff}]
      /\ open' \subseteq {s \in Sids : holder'[s] # NoStaff}
      /\ \A s \in Sids : holder[s] # NoStaff => holder'[s] # NoStaff /\ (s \notin open => s \notin open')
  BY <1>1 DEF Inv, TypeOK
<1> QED BY <1>1, <1>2, Plain

LEMMA NotDone ==
  ASSUME Inv, NEW r \in Reqs
  PROVE  /\ pc[r] # "audit" => ~rq[r].done
         /\ RequestOK(pc[r], rq[r], holder, open)
         /\ faults \in Nat
BY DEF Inv, Requests, RequestOK, TypeOK
-----------------------------------------------------------------------------
LEMMA InitInv ==
  ASSUME Sensible
  PROVE  Init => Inv
<1> SUFFICES ASSUME Init PROVE Inv
  OBVIOUS
<1>1. TypeOK
  BY BlankOK DEF Init, TypeOK, Steps
<1>2. Requests
  BY BlankOK DEF Init, Requests
<1>3. LockInv
  BY Places DEF Init, LockInv
<1>4. EffectsAreAudited
  <2>1. Cardinality(Auditing) \in Nat
    BY Places
  <2> QED BY <2>1 DEF Init, EffectsAreAudited, Auditing
<1> QED BY <1>1, <1>2, <1>3, <1>4 DEF Inv

(* The steps of a login and of the second factor that leave the counter.   *)
LEMMA LoginSteps ==
  ASSUME Sensible, Inv, NEW r \in Reqs, NEW m \in Staff, NEW right \in BOOLEAN,
         LoginFind(r, m) \/ SecondFactor(r, m) \/ VerifyCode(r, right)
  PROVE  Inv'
<1> DEFINE q == [Blank EXCEPT !.staff = m]
<1>1. q \in Locals /\ q.staff = m /\ ~q.done /\ ~q.late
  BY DEF Blank, Locals
<1>2. RequestOK("verify", q, holder, open) /\ RequestOK("totp", q, holder, open)
  BY <1>1 DEF RequestOK, Steps
<1> HIDE DEF q
<1>3. CASE LoginFind(r, m)
  <2>1. /\ pc' = [pc EXCEPT ![r] = "verify"] /\ rq' = [rq EXCEPT ![r] = q]
        /\ pc[r] = "idle" /\ m \notin locked /\ UNCHANGED <<accounts, challenge, table, trail, faults>>
    BY <1>3 DEF LoginFind, Enter, Begin, q
  <2> QED BY <1>1, <1>2, <2>1, NotDone, PlainSame
<1>4. CASE SecondFactor(r, m)
  <2>1. /\ pc' = [pc EXCEPT ![r] = "totp"] /\ rq' = [rq EXCEPT ![r] = q]
        /\ pc[r] = "idle" /\ UNCHANGED <<accounts, challenge, table, trail, faults>>
    BY <1>4 DEF SecondFactor, Enter, Begin, q
  <2> QED BY <1>2, <2>1, NotDone, PlainSame
<1>5. CASE VerifyCode(r, right) /\ right
  <2>1. /\ pc' = [pc EXCEPT ![r] = "session"] /\ rq' = [rq EXCEPT ![r] = rq[r]]
        /\ pc[r] = "totp" /\ UNCHANGED <<accounts, challenge, table, trail, faults>>
    BY <1>5 DEF VerifyCode, Goto
  <2>2. RequestOK("session", rq[r], holder, open)
    BY <2>1, NotDone DEF RequestOK, Steps
  <2> QED BY <2>1, <2>2, NotDone, PlainSame
<1>6. CASE VerifyCode(r, right) /\ ~right
  <2>1. /\ pc' = [pc EXCEPT ![r] = "idle"] /\ rq' = [rq EXCEPT ![r] = Blank]
        /\ pc[r] = "totp" /\ UNCHANGED <<accounts, challenge, table, trail, faults>>
    BY <1>6 DEF VerifyCode, Finish, Goto
  <2> QED BY <2>1, BlankOK, NotDone, PlainSame
<1> QED BY <1>3, <1>4, <1>5, <1>6

(* The steps that write the counters of one account.  What is to be shown  *)
(* is the bound, for that account and for the others.                      *)
LEMMA Judged ==
  ASSUME Sensible, Inv, NEW r \in Reqs, NEW at, NEW q, NEW m \in Staff,
         pc' = [pc EXCEPT ![r] = at], rq' = [rq EXCEPT ![r] = q],
         RequestOK(at, q, holder, open), rq[r].staff = m, pc[r] # "audit",
         at = "count" => q.staff = m, at # "verify",
         UNCHANGED <<active, table, trail>>, faults' \in Nat,
         failed' \in [Staff -> Nat], guesses' \in [Staff -> Nat], lost' \in [Staff -> Nat],
         locked' \subseteq Staff, challenge' \subseteq Staff,
         \A o \in Staff \ {m} : /\ failed'[o] = failed[o] /\ guesses'[o] = guesses[o]
                                /\ lost'[o] = lost[o] /\ (o \in locked' <=> o \in locked),
         IF m \in locked'
         THEN guesses'[m] + Cardinality(Guessing(pc', rq', m))
                <= LockAfter - 1 + lost'[m] + Cardinality(Reqs)
         ELSE guesses'[m] <= lost'[m] + Cardinality(Counting(pc', rq', m))
                + (IF failed'[m] < LockAfter THEN failed'[m] ELSE 0)
  PROVE  Inv'
<1>1. pc' \in [Reqs -> Steps] /\ rq' \in [Reqs -> Locals] /\ Requests'
  <2>1. holder' = holder /\ open' = open
    BY DEF table
  <2>2. RequestOK(at, q, holder', open')
    BY <2>1
  <2> QED BY <2>1, <2>2, Moves DEF Inv
<1>2. TypeOK'
  BY <1>1 DEF Inv, TypeOK, table, trail
<1>3. EffectsAreAudited'
  BY NotDone, TrailQuiet
<1>4. ASSUME NEW o \in Staff, o # m
      PROVE  IF o \in locked'
             THEN guesses'[o] + Cardinality(Guessing(pc', rq', o))
                    <= LockAfter - 1 + lost'[o] + Cardinality(Reqs)
             ELSE guesses'[o] <= lost'[o] + Cardinality(Counting(pc', rq', o))
                    + (IF failed'[o] < LockAfter THEN failed'[o] ELSE 0)
  <2>1. Tally(r, at, q, o)
    BY Counts DEF Inv
  <2>2. /\ Cardinality(Guessing(pc, rq, o)) \in Nat /\ Cardinality(Counting(pc, rq, o)) \in Nat
    BY Places
  <2>3. /\ Cardinality(Guessing(pc', rq', o)) = Cardinality(Guessing(pc, rq, o))
        /\ Cardinality(Counting(pc', rq', o)) = Cardinality(Counting(pc, rq, o))
    BY <1>4, <2>1, <2>2 DEF Tally, At
  <2> QED BY <1>4, <2>3 DEF Inv, LockInv
<1>5. LockInv'
  BY <1>4 DEF LockInv
<1> QED BY <1>1, <1>2, <1>3, <1>5 DEF Inv

LEMMA LoginVerifyInv ==
  ASSUME Sensible, Inv, NEW r \in Reqs, NEW right \in BOOLEAN, LoginVerify(r, right)
  PROVE  Inv'
<1> DEFINE m == rq[r].staff
           at == IF right THEN "stamp" ELSE "count"
<1>1. /\ pc' = [pc EXCEPT ![r] = at] /\ rq' = [rq EXCEPT ![r] = rq[r]] /\ pc[r] = "verify"
      /\ guesses' = IF right THEN guesses ELSE [guesses EXCEPT ![m] = @ + 1]
      /\ UNCHANGED <<active, failed, locked, lost, challenge, table, trail, faults>>
  BY DEF LoginVerify, Goto
<1>2. m \in Staff /\ RequestOK(at, rq[r], holder, open)
  BY <1>1, NotDone DEF RequestOK, Steps
<1>3. /\ guesses' \in [Staff -> Nat] /\ guesses'[m] = guesses[m] + (IF right THEN 0 ELSE 1)
      /\ \A o \in Staff \ {m} : guesses'[o] = guesses[o]
  BY <1>1, <1>2 DEF Inv, TypeOK
<1>4. Tally(r, at, rq[r], m)
  BY <1>1, Counts DEF Inv
<1>5. /\ Cardinality(Guessing(pc, rq, m)) \in Nat /\ Cardinality(Counting(pc, rq, m)) \in Nat
      /\ Cardinality(Reqs) \in Nat /\ LockAfter \in Nat
      /\ guesses[m] \in Nat /\ lost[m] \in Nat /\ failed[m] \in Nat
  BY <1>2, Places DEF Sensible, Inv, TypeOK
<1>6. /\ Cardinality(Guessing(pc', rq', m)) = Cardinality(Guessing(pc, rq, m)) - 1
      /\ Cardinality(Counting(pc', rq', m))
           = Cardinality(Counting(pc, rq, m)) + (IF right THEN 0 ELSE 1)
  BY <1>1, <1>4, <1>5 DEF Tally, At
<1>7. IF m \in locked
      THEN guesses[m] + Cardinality(Guessing(pc, rq, m)) <= LockAfter - 1 + lost[m] + Cardinality(Reqs)
      ELSE guesses[m] <= lost[m] + Cardinality(Counting(pc, rq, m))
             + (IF failed[m] < LockAfter THEN failed[m] ELSE 0)
  BY <1>2 DEF Inv, LockInv
<1>8. IF m \in locked'
      THEN guesses'[m] + Cardinality(Guessing(pc', rq', m))
             <= LockAfter - 1 + lost'[m] + Cardinality(Reqs)
      ELSE guesses'[m] <= lost'[m] + Cardinality(Counting(pc', rq', m))
             + (IF failed'[m] < LockAfter THEN failed'[m] ELSE 0)
  BY <1>1, <1>3, <1>5, <1>6, <1>7
<1>9. at # "verify" /\ (at = "count" => rq[r].staff = m)
  OBVIOUS
<1> HIDE DEF m, at
<1>10. rq[r].staff = m /\ pc[r] # "audit"
  BY <1>1 DEF m
<1>11. /\ failed' \in [Staff -> Nat] /\ lost' \in [Staff -> Nat] /\ faults' \in Nat
       /\ locked' \subseteq Staff /\ challenge' \subseteq Staff
  BY <1>1 DEF Inv, TypeOK
<1> QED BY <1>1, <1>2, <1>3, <1>8, <1>9, <1>10, <1>11, Judged

LEMMA CountFailureInv ==
  ASSUME Sensible, Inv, NEW r \in Reqs, CountFailure(r)
  PROVE  Inv'
<1> DEFINE m == rq[r].staff
<1>1. /\ pc' = [pc EXCEPT ![r] = "idle"] /\ rq' = [rq EXCEPT ![r] = Blank] /\ pc[r] = "count"
      /\ failed' = [failed EXCEPT ![m] = @ + 1]
      /\ locked' = IF failed[m] + 1 >= LockAfter THEN locked \cup {m} ELSE locked
      /\ UNCHANGED <<active, guesses, lost, challenge, table, trail, faults>>
  BY DEF CountFailure, Count, Finish, Goto
<1>2. m \in Staff /\ RequestOK("idle", Blank, holder, open)
  BY <1>1, NotDone, BlankOK DEF RequestOK
<1>3. /\ failed' \in [Staff -> Nat] /\ failed'[m] = failed[m] + 1
      /\ \A o \in Staff \ {m} : failed'[o] = failed[o] /\ (o \in locked' <=> o \in locked)
      /\ locked' \subseteq Staff
  BY <1>1, <1>2 DEF Inv, TypeOK
<1>4. Tally(r, "idle", Blank, m)
  BY <1>1, Counts DEF Inv
<1>5. /\ Cardinality(Guessing(pc, rq, m)) \in Nat /\ Cardinality(Counting(pc, rq, m)) \in Nat
      /\ Cardinality(Guessing(pc, rq, m)) + Cardinality(Counting(pc, rq, m)) <= Cardinality(Reqs)
      /\ Cardinality(Reqs) \in Nat /\ LockAfter \in Nat \ {0}
      /\ guesses[m] \in Nat /\ lost[m] \in Nat /\ failed[m] \in Nat
  BY <1>2, Places DEF Sensible, Inv, TypeOK
<1>6. /\ Cardinality(Guessing(pc', rq', m)) = Cardinality(Guessing(pc, rq, m))
      /\ Cardinality(Counting(pc', rq', m)) = Cardinality(Counting(pc, rq, m)) - 1
  BY <1>1, <1>4, <1>5 DEF Tally, At
<1>7. IF m \in locked
      THEN guesses[m] + Cardinality(Guessing(pc, rq, m)) <= LockAfter - 1 + lost[m] + Cardinality(Reqs)
      ELSE guesses[m] <= lost[m] + Cardinality(Counting(pc, rq, m))
             + (IF failed[m] < LockAfter THEN failed[m] ELSE 0)
  BY <1>2 DEF Inv, LockInv
<1>8. IF m \in locked'
      THEN guesses'[m] + Cardinality(Guessing(pc', rq', m))
             <= LockAfter - 1 + lost'[m] + Cardinality(Reqs)
      ELSE guesses'[m] <= lost'[m] + Cardinality(Counting(pc', rq', m))
             + (IF failed'[m] < LockAfter THEN failed'[m] ELSE 0)
  <2>1. guesses' = guesses /\ lost' = lost
    BY <1>1
  <2>2. CASE m \in locked
    <3>1. m \in locked'
      BY <1>1, <2>2
    <3> QED BY <1>6, <1>7, <2>1, <2>2, <3>1
  <2>3. CASE m \notin locked /\ failed[m] + 1 < LockAfter
    <3>1. m \notin locked'
      BY <1>1, <1>5, <2>3
    <3> QED BY <1>3, <1>5, <1>6, <1>7, <2>1, <2>3, <3>1
  <2>4. CASE m \notin locked /\ failed[m] + 1 >= LockAfter
    <3>1. m \in locked'
      BY <1>1, <2>4
    <3>2. (IF failed[m] < LockAfter THEN failed[m] ELSE 0) <= LockAfter - 1
      BY <1>5
    <3> QED BY <1>5, <1>6, <1>7, <2>1, <2>4, <3>1, <3>2
  <2> QED BY <1>5, <2>2, <2>3, <2>4
<1> HIDE DEF m
<1>9. rq[r].staff = m /\ pc[r] # "audit"
  BY <1>1 DEF m
<1>10. /\ guesses' \in [Staff -> Nat] /\ lost' \in [Staff -> Nat] /\ faults' \in Nat
       /\ challenge' \subseteq Staff
  BY <1>1 DEF Inv, TypeOK
<1> QED BY <1>1, <1>2, <1>3, <1>8, <1>9, <1>10, Judged

LEMMA CountFailsInv ==
  ASSUME Sensible, Inv, NEW r \in Reqs, CountFails(r)
  PROVE  Inv'
<1> DEFINE m == rq[r].staff
<1>1. /\ pc' = [pc EXCEPT ![r] = "idle"] /\ rq' = [rq EXCEPT ![r] = Blank] /\ pc[r] = "count"
      /\ lost' = [lost EXCEPT ![m] = @ + 1] /\ faults' = faults + 1
      /\ UNCHANGED <<active, failed, locked, guesses, challenge, table, trail>>
  BY DEF CountFails, Finish, Goto, Fault
<1>2. m \in Staff /\ RequestOK("idle", Blank, holder, open)
  BY <1>1, NotDone, BlankOK DEF RequestOK
<1>3. /\ lost' \in [Staff -> Nat] /\ lost'[m] = lost[m] + 1
      /\ \A o \in Staff \ {m} : lost'[o] = lost[o]
  BY <1>1, <1>2 DEF Inv, TypeOK
<1>4. Tally(r, "idle", Blank, m)
  BY <1>1, Counts DEF Inv
<1>5. /\ Cardinality(Guessing(pc, rq, m)) \in Nat /\ Cardinality(Counting(pc, rq, m)) \in Nat
      /\ Cardinality(Reqs) \in Nat /\ LockAfter \in Nat
      /\ guesses[m] \in Nat /\ lost[m] \in Nat /\ failed[m] \in Nat
  BY <1>2, Places DEF Sensible, Inv, TypeOK
<1>6. /\ Cardinality(Guessing(pc', rq', m)) = Cardinality(Guessing(pc, rq, m))
      /\ Cardinality(Counting(pc', rq', m)) = Cardinality(Counting(pc, rq, m)) - 1
  BY <1>1, <1>4, <1>5 DEF Tally, At
<1>7. IF m \in locked
      THEN guesses[m] + Cardinality(Guessing(pc, rq, m)) <= LockAfter - 1 + lost[m] + Cardinality(Reqs)
      ELSE guesses[m] <= lost[m] + Cardinality(Counting(pc, rq, m))
             + (IF failed[m] < LockAfter THEN failed[m] ELSE 0)
  BY <1>2 DEF Inv, LockInv
<1>8. IF m \in locked'
      THEN guesses'[m] + Cardinality(Guessing(pc', rq', m))
             <= LockAfter - 1 + lost'[m] + Cardinality(Reqs)
      ELSE guesses'[m] <= lost'[m] + Cardinality(Counting(pc', rq', m))
             + (IF failed'[m] < LockAfter THEN failed'[m] ELSE 0)
  BY <1>1, <1>3, <1>5, <1>6, <1>7
<1> HIDE DEF m
<1>9. rq[r].staff = m /\ pc[r] # "audit"
  BY <1>1 DEF m
<1>10. /\ guesses' \in [Staff -> Nat] /\ failed' \in [Staff -> Nat] /\ faults' \in Nat
       /\ challenge' \subseteq Staff /\ locked' \subseteq Staff
  BY <1>1 DEF Inv, TypeOK
<1> QED BY <1>1, <1>2, <1>3, <1>8, <1>9, <1>10, Judged

LEMMA StampLoginInv ==
  ASSUME Sensible, Inv, NEW r \in Reqs, StampLogin(r)
  PROVE  Inv'
<1> DEFINE m == rq[r].staff
<1>1. /\ pc' = [pc EXCEPT ![r] = "idle"] /\ rq' = [rq EXCEPT ![r] = Blank] /\ pc[r] = "stamp"
      /\ failed' = [failed EXCEPT ![m] = 0] /\ guesses' = [guesses EXCEPT ![m] = 0]
      /\ lost' = [lost EXCEPT ![m] = 0] /\ challenge' = challenge \cup {m}
      /\ UNCHANGED <<active, locked, table, trail, faults>>
  BY DEF StampLogin, Finish, Goto
<1>2. m \in Staff /\ RequestOK("idle", Blank, holder, open)
  BY <1>1, NotDone, BlankOK DEF RequestOK
<1>3. /\ failed' \in [Staff -> Nat] /\ guesses' \in [Staff -> Nat] /\ lost' \in [Staff -> Nat]
      /\ failed'[m] = 0 /\ guesses'[m] = 0 /\ lost'[m] = 0
      /\ \A o \in Staff \ {m} : /\ failed'[o] = failed[o] /\ guesses'[o] = guesses[o]
                                /\ lost'[o] = lost[o] /\ (o \in locked' <=> o \in locked)
      /\ challenge' \subseteq Staff
  BY <1>1, <1>2 DEF Inv, TypeOK
<1>4. Tally(r, "idle", Blank, m)
  BY <1>1, Counts DEF Inv
<1>5. /\ Cardinality(Guessing(pc, rq, m)) \in Nat /\ Cardinality(Counting(pc, rq, m)) \in Nat
      /\ Cardinality(Guessing(pc, rq, m)) + Cardinality(Counting(pc, rq, m)) <= Cardinality(Reqs)
      /\ Cardinality(Reqs) \in Nat /\ LockAfter \in Nat \ {0}
  BY <1>2, Places DEF Sensible
<1>6. /\ Cardinality(Guessing(pc', rq', m)) = Cardinality(Guessing(pc, rq, m))
      /\ Cardinality(Counting(pc', rq', m)) = Cardinality(Counting(pc, rq, m))
  BY <1>1, <1>4, <1>5 DEF Tally, At
<1>7. IF m \in locked'
      THEN guesses'[m] + Cardinality(Guessing(pc', rq', m))
             <= LockAfter - 1 + lost'[m] + Cardinality(Reqs)
      ELSE guesses'[m] <= lost'[m] + Cardinality(Counting(pc', rq', m))
             + (IF failed'[m] < LockAfter THEN failed'[m] ELSE 0)
  BY <1>3, <1>5, <1>6
<1> HIDE DEF m
<1>8. rq[r].staff = m /\ pc[r] # "audit"
  BY <1>1 DEF m
<1>9. faults' \in Nat /\ locked' \subseteq Staff /\ UNCHANGED <<active, table, trail>>
  BY <1>1 DEF Inv, TypeOK
<1>10. /\ pc' = [pc EXCEPT ![r] = "idle"] /\ rq' = [rq EXCEPT ![r] = Blank]
       /\ "idle" # "count" /\ "idle" # "verify"
  BY <1>1
<1> QED BY <1>2, <1>3, <1>7, <1>8, <1>9, <1>10, Judged

LEMMA CreateSessionInv ==
  ASSUME Sensible, Inv, NEW r \in Reqs, NEW s \in Sids, CreateSession(r, s)
  PROVE  Inv'
<1>1. /\ pc' = [pc EXCEPT ![r] = "idle"] /\ rq' = [rq EXCEPT ![r] = Blank] /\ pc[r] = "session"
      /\ holder[s] = NoStaff /\ holder' = [holder EXCEPT ![s] = rq[r].staff] /\ open' = open \cup {s}
      /\ UNCHANGED <<accounts, challenge, trail, faults>>
  BY DEF CreateSession, StoreSession, Finish, Goto
<1>2. rq[r].staff \in Staff /\ rq[r].staff # NoStaff
  BY <1>1, NotDone DEF RequestOK, Sensible
<1>3. /\ holder' \in [Sids -> Staff \cup {NoStaff}]
      /\ open' \subseteq {x \in Sids : holder'[x] # NoStaff}
      /\ \A x \in Sids : holder[x] # NoStaff => holder'[x] # NoStaff /\ (x \notin open => x \notin open')
  BY <1>1, <1>2 DEF Inv, TypeOK
<1>4. UNCHANGED <<active, failed, locked, guesses, lost, challenge, effects, rows, gaps>> /\ faults' \in Nat
  BY <1>1, NotDone DEF accounts, trail
<1>5. RequestOK("idle", Blank, holder', open') /\ ~rq[r].done
  BY <1>1, BlankOK, NotDone
<1> QED BY <1>1, <1>3, <1>4, <1>5, Plain

(* The beginning of a console call and of a logout.                        *)
LEMMA CallSteps ==
  ASSUME Sensible, Inv, NEW r \in Reqs, NEW s \in Sids, NEW t \in Sids,
         CallBegin(r, s) \/ ExtractFails(r, s) \/ LogoutBegin(r, s, t)
  PROVE  Inv'
<1>1. holder[s] \in Staff \cup {NoStaff} /\ (s \in open => holder[s] # NoStaff)
  BY DEF Inv, TypeOK
<1>2. CASE CallBegin(r, s)
  <2> DEFINE q == [Blank EXCEPT !.staff = holder[s], !.sid = s,
                                !.late = s \notin open, !.logged = s \in open]
  <2>1. /\ pc' = [pc EXCEPT ![r] = "extract"] /\ rq' = [rq EXCEPT ![r] = q] /\ pc[r] = "idle"
        /\ holder[s] # NoStaff /\ UNCHANGED <<accounts, challenge, table, trail, faults>>
    BY <1>2 DEF CallBegin, Begin, Issued
  <2>2. q \in Locals /\ q.sid = s /\ q.late = (s \notin open) /\ q.done = FALSE
    <3>1. CASE s \in open
      <4>1. (s \notin open) = FALSE /\ (s \in open) = TRUE
        BY <3>1
      <4>2. q = [Blank EXCEPT !.staff = holder[s], !.sid = s, !.late = FALSE, !.logged = TRUE]
        BY <4>1, Zenon
      <4> HIDE DEF q
      <4>3. q \in Locals /\ q.sid = s /\ q.late = FALSE /\ q.done = FALSE
        BY <1>1, <4>2 DEF Blank, Locals
      <4> QED BY <3>1, <4>3
    <3>2. CASE s \notin open
      <4>1. (s \notin open) = TRUE /\ (s \in open) = FALSE
        BY <3>2
      <4>2. q = [Blank EXCEPT !.staff = holder[s], !.sid = s, !.late = TRUE, !.logged = FALSE]
        BY <4>1, Zenon
      <4> HIDE DEF q
      <4>3. q \in Locals /\ q.sid = s /\ q.late = TRUE /\ q.done = FALSE
        BY <1>1, <4>2 DEF Blank, Locals
      <4> QED BY <3>2, <4>3
    <3> QED BY <3>1, <3>2
  <2> HIDE DEF q
  <2>3. RequestOK("extract", q, holder, open)
    BY <2>1, <2>2 DEF RequestOK, Steps
  <2> QED BY <2>1, <2>3, NotDone, PlainSame
<1>3. CASE ExtractFails(r, s)
  <2> DEFINE q == [Blank EXCEPT !.staff = holder[s], !.sid = s]
  <2>1. /\ pc' = [pc EXCEPT ![r] = "extract"] /\ rq' = [rq EXCEPT ![r] = q] /\ pc[r] = "idle"
        /\ faults' = faults + 1 /\ UNCHANGED <<accounts, challenge, table, trail>>
    BY <1>3 DEF ExtractFails, Begin, Fault
  <2>2. q \in Locals /\ ~q.late /\ ~q.done
    BY <1>1 DEF Blank, Locals
  <2> HIDE DEF q
  <2>3. RequestOK("extract", q, holder, open) /\ faults' \in Nat
    BY <2>1, <2>2, NotDone DEF RequestOK, Steps
  <2> QED BY <2>1, <2>3, NotDone, PlainSame
<1>4. CASE LogoutBegin(r, s, t)
  <2> DEFINE q == [Blank EXCEPT !.staff = holder[s], !.sid = t]
  <2>1. /\ pc' = [pc EXCEPT ![r] = "revoke"] /\ rq' = [rq EXCEPT ![r] = q] /\ pc[r] = "idle"
        /\ UNCHANGED <<accounts, challenge, table, trail, faults>>
    BY <1>4 DEF LogoutBegin, Begin
  <2>2. q \in Locals /\ ~q.late /\ ~q.done
    BY <1>1 DEF Blank, Locals
  <2> HIDE DEF q
  <2>3. RequestOK("revoke", q, holder, open)
    BY <2>2 DEF RequestOK, Steps
  <2> QED BY <2>1, <2>3, NotDone, PlainSame
<1> QED BY <1>2, <1>3, <1>4

LEMMA ExtractInv ==
  ASSUME Sensible, Inv, NEW r \in Reqs, NEW p, Extract(r, p)
  PROVE  Inv'
<1> DEFINE welcome == rq[r].sid \in open /\ p \in Granted[rq[r].staff]
           at == IF welcome THEN "apply" ELSE "audit"
<1>1. /\ pc' = [pc EXCEPT ![r] = at] /\ rq' = [rq EXCEPT ![r] = rq[r]] /\ pc[r] = "extract"
      /\ UNCHANGED <<accounts, challenge, table, trail, faults>>
  BY DEF Extract, Admit, Goto
<1>2. at \in {"apply", "audit"} /\ (at = "apply" => rq[r].sid \in open)
  OBVIOUS
<1> HIDE DEF at, welcome
<1>3. RequestOK(at, rq[r], holder, open) /\ at # "verify"
  BY <1>1, <1>2, NotDone DEF RequestOK, Steps
<1> QED BY <1>1, <1>3, NotDone, PlainSame

(* The steps that the trail is about: an effect makes its request owe a    *)
(* row, unless the middleware did not know the caller; the row is written, *)
(* or a failure that cost it is on record.                                 *)
LEMMA Trail ==
  ASSUME Sensible, Inv, NEW r \in Reqs, NEW at, NEW q,
         pc' = [pc EXCEPT ![r] = at], rq' = [rq EXCEPT ![r] = q],
         RequestOK(at, q, holder, open), at # "verify", pc[r] # "count",
         UNCHANGED <<accounts, challenge, table>>, faults' \in Nat,
         effects' \in Nat, rows' \in Nat, gaps' \in Nat,
         effects' + rows + gaps + Owes(rq[r]) <= effects + rows' + gaps' + Owes(q)
  PROVE  Inv'
<1>1. UNCHANGED <<active, failed, locked, guesses, lost, challenge, holder, open>>
  BY DEF accounts, table
<1>2. pc' \in [Reqs -> Steps] /\ rq' \in [Reqs -> Locals] /\ Requests'
  <2>1. RequestOK(at, q, holder', open')
    BY <1>1
  <2> QED BY <1>1, <2>1, Moves DEF Inv
<1>3. TypeOK'
  BY <1>1, <1>2 DEF Inv, TypeOK
<1>4. LockInv'
  BY <1>1, Quiet
<1>5. EffectsAreAudited'
  <2>1. Tally(r, at, q, 0)
    BY Counts DEF Inv
  <2>2. /\ effects \in Nat /\ rows \in Nat /\ gaps \in Nat
        /\ effects <= rows + gaps + Cardinality(Auditing)
    BY DEF Inv, TypeOK, EffectsAreAudited, Auditing
  <2>3. Cardinality(Auditing) \in Nat /\ Owes(rq[r]) \in Nat /\ Owes(q) \in Nat
    BY Places DEF Owes
  <2>4. effects' <= rows' + gaps' + Cardinality(Auditing')
    BY <2>1, <2>2, <2>3 DEF Tally
  <2> QED BY <2>4 DEF EffectsAreAudited, Auditing
<1> QED BY <1>2, <1>3, <1>4, <1>5 DEF Inv

LEMMA TrailSteps ==
  ASSUME Sensible, Inv, NEW r \in Reqs,
         Apply(r) \/ Audit(r) \/ AuditFails(r) \/ (Abort(r) /\ pc[r] = "audit")
  PROVE  Inv'
<1>1. /\ pc[r] \in {"apply", "audit"} /\ RequestOK(pc[r], rq[r], holder, open)
      /\ UNCHANGED <<accounts, challenge, table>> /\ faults' \in Nat
  BY NotDone DEF Apply, Audit, AuditWhen, AuditFails, Abort, Fault
<1>2. effects \in Nat /\ rows \in Nat /\ gaps \in Nat
  BY DEF Inv, TypeOK
<1>3. RequestOK("idle", Blank, holder, open) /\ Owes(Blank) = 0
  BY BlankOK DEF Owes
<1>4. CASE Apply(r)
  <2> DEFINE q == [rq[r] EXCEPT !.done = TRUE]
  <2>1. /\ pc' = [pc EXCEPT ![r] = "audit"] /\ rq' = [rq EXCEPT ![r] = q] /\ pc[r] = "apply"
        /\ effects' = effects + 1 /\ gaps' = (IF rq[r].logged THEN gaps ELSE gaps + 1) /\ rows' = rows
    BY <1>4 DEF Apply, Goto
  <2>2. ~rq[r].done /\ ~rq[r].late /\ rq[r] \in Locals
    BY <1>1, <2>1 DEF RequestOK
  <2>3. q \in Locals /\ q.done /\ ~q.late /\ (q.logged <=> rq[r].logged)
    BY <2>2 DEF Locals
  <2> HIDE DEF q
  <2>4. RequestOK("audit", q, holder, open)
    BY <2>3 DEF RequestOK, Steps
  <2>5. Owes(rq[r]) = 0 /\ Owes(q) = IF rq[r].logged THEN 1 ELSE 0
    BY <2>2, <2>3 DEF Owes
  <2>6. /\ effects' + rows + gaps + Owes(rq[r]) <= effects + rows' + gaps' + Owes(q)
        /\ effects' \in Nat /\ rows' \in Nat /\ gaps' \in Nat
    BY <1>2, <2>1, <2>5
  <2> QED BY <1>1, <2>1, <2>4, <2>6, Trail
<1>5. CASE Audit(r)
  <2>1. /\ pc' = [pc EXCEPT ![r] = "idle"] /\ rq' = [rq EXCEPT ![r] = Blank]
        /\ rows' = (IF rq[r].logged /\ rq[r].done THEN rows + 1 ELSE rows)
        /\ effects' = effects /\ gaps' = gaps
    BY <1>5 DEF Audit, AuditWhen, Finish, Goto
  <2>2. effects' + rows + gaps + Owes(rq[r]) <= effects + rows' + gaps' + Owes(Blank)
    BY <1>2, <1>3, <2>1 DEF Owes
  <2>3. effects' \in Nat /\ rows' \in Nat /\ gaps' \in Nat
    BY <1>2, <2>1
  <2> QED BY <1>1, <1>3, <2>1, <2>2, <2>3, Trail
<1>6. CASE AuditFails(r) \/ (Abort(r) /\ pc[r] = "audit")
  <2>1. /\ pc' = [pc EXCEPT ![r] = "idle"] /\ rq' = [rq EXCEPT ![r] = Blank]
        /\ gaps' = (IF rq[r].done /\ rq[r].logged THEN gaps + 1 ELSE gaps)
        /\ effects' = effects /\ rows' = rows
    BY <1>6 DEF AuditFails, Abort, Finish, Goto
  <2>2. effects' + rows + gaps + Owes(rq[r]) <= effects + rows' + gaps' + Owes(Blank)
    BY <1>2, <1>3, <2>1 DEF Owes
  <2>3. effects' \in Nat /\ rows' \in Nat /\ gaps' \in Nat
    BY <1>2, <2>1
  <2> QED BY <1>1, <1>3, <2>1, <2>2, <2>3, Trail
<1> QED BY <1>4, <1>5, <1>6

LEMMA EndSteps ==
  ASSUME Sensible, Inv, NEW r \in Reqs, LogoutRevoke(r) \/ (Abort(r) /\ pc[r] # "audit")
  PROVE  Inv'
<1>1. CASE LogoutRevoke(r)
  <2>1. /\ pc' = [pc EXCEPT ![r] = "idle"] /\ rq' = [rq EXCEPT ![r] = Blank] /\ pc[r] = "revoke"
        /\ open' = open \ {rq[r].sid} /\ UNCHANGED <<accounts, challenge, holder, trail, faults>>
    BY <1>1 DEF LogoutRevoke, Finish, Goto
  <2>2. /\ UNCHANGED <<active, failed, locked, guesses, lost, challenge, effects, rows, gaps>>
        /\ faults' \in Nat
    BY <2>1, NotDone DEF accounts, trail
  <2>3. /\ holder' \in [Sids -> Staff \cup {NoStaff}]
        /\ open' \subseteq {s \in Sids : holder'[s] # NoStaff}
        /\ \A s \in Sids : holder[s] # NoStaff => holder'[s] # NoStaff /\ (s \notin open => s \notin open')
    BY <2>1 DEF Inv, TypeOK
  <2>4. RequestOK("idle", Blank, holder', open') /\ ~rq[r].done
    BY <2>1, BlankOK, NotDone
  <2> QED BY <2>1, <2>2, <2>3, <2>4, Plain
<1>2. CASE Abort(r) /\ pc[r] # "audit"
  <2>1. ~rq[r].done /\ pc[r] # "count"
    BY <1>2, NotDone DEF Abort
  <2>2. /\ pc' = [pc EXCEPT ![r] = "idle"] /\ rq' = [rq EXCEPT ![r] = Blank] /\ gaps' = gaps
        /\ faults' = faults + 1 /\ UNCHANGED <<accounts, challenge, table, effects, rows>>
    BY <1>2, <2>1 DEF Abort, Finish, Goto, Fault
  <2>3. UNCHANGED <<accounts, challenge, table, trail>> /\ faults' \in Nat
    BY <2>2, NotDone DEF trail
  <2>4. RequestOK("idle", Blank, holder, open)
    BY BlankOK
  <2> QED BY <2>1, <2>2, <2>3, <2>4, PlainSame
<1> QED BY <1>1, <1>2

-----------------------------------------------------------------------------
(* The clock and the operator move no request.                             *)
LEMMA WorldInv ==
  ASSUME Sensible, Inv,
         \/ \E m \in Staff : LockExpires(m) \/ ChallengeExpires(m) \/ SuspendStaff(m)
         \/ \E s \in Sids : SessionExpires(s)
         \/ UNCHANGED vars
  PROVE  Inv'
<1>1. /\ UNCHANGED <<pc, rq, holder, effects, rows, gaps, faults, failed>>
      /\ open' \subseteq open /\ active' \subseteq active /\ challenge' \subseteq challenge
  BY DEF LockExpires, ChallengeExpires, SuspendStaff, SessionExpires, vars, accounts, table, trail
<1>2. Requests'
  BY <1>1 DEF Inv, Requests, RequestOK
<1>3. EffectsAreAudited'
  BY <1>1 DEF Inv, EffectsAreAudited
<1>4. /\ guesses' \in [Staff -> Nat] /\ lost' \in [Staff -> Nat] /\ locked' \subseteq Staff
      /\ LockInv'
  <2>1. CASE \E m \in Staff : LockExpires(m)
    <3>1. PICK m \in Staff : LockExpires(m)
      BY <2>1
    <3>2. /\ locked' = locked \ {m} /\ guesses' = [guesses EXCEPT ![m] = 0]
          /\ lost' = [lost EXCEPT ![m] = 0]
      BY <3>1 DEF LockExpires
    <3>3. /\ guesses' \in [Staff -> Nat] /\ lost' \in [Staff -> Nat] /\ locked' \subseteq Staff
          /\ guesses'[m] = 0 /\ lost'[m] = 0
          /\ \A o \in Staff \ {m} : guesses'[o] = guesses[o] /\ lost'[o] = lost[o]
      BY <3>2 DEF Inv, TypeOK
    <3>4. ASSUME NEW o \in Staff
          PROVE  IF o \in locked'
                 THEN guesses'[o] + Cardinality(Guessing(pc', rq', o))
                        <= LockAfter - 1 + lost'[o] + Cardinality(Reqs)
                 ELSE guesses'[o] <= lost'[o] + Cardinality(Counting(pc', rq', o))
                        + (IF failed'[o] < LockAfter THEN failed'[o] ELSE 0)
      <4>1. CASE o = m
        <5>1. /\ Cardinality(Counting(pc, rq, o)) \in Nat /\ failed[o] \in Nat /\ LockAfter \in Nat
          BY Places DEF Inv, TypeOK, Sensible
        <5> QED BY <1>1, <3>2, <3>3, <4>1, <5>1
      <4>2. CASE o # m
        BY <1>1, <3>2, <3>3, <4>2 DEF Inv, LockInv
      <4> QED BY <4>1, <4>2
    <3> QED BY <3>3, <3>4 DEF LockInv
  <2>2. CASE UNCHANGED <<guesses, lost, locked>>
    BY <1>1, <2>2 DEF Inv, TypeOK, LockInv
  <2> QED BY <2>1, <2>2 DEF ChallengeExpires, SuspendStaff, SessionExpires, vars, accounts
<1>5. TypeOK'
  BY <1>1, <1>4 DEF Inv, TypeOK
<1> QED BY <1>2, <1>3, <1>4, <1>5 DEF Inv

LEMMA StepInv ==
  ASSUME Sensible
  PROVE  Inv /\ [Next]_vars => Inv'
<1> SUFFICES ASSUME Inv, [Next]_vars PROVE Inv'
  OBVIOUS
<1>1. CASE \E r \in Reqs : \/ \E m \in Staff : LoginFind(r, m) \/ SecondFactor(r, m)
                           \/ \E right \in BOOLEAN : VerifyCode(r, right)
  <2>1. PICK r \in Reqs : \/ \E m \in Staff : LoginFind(r, m) \/ SecondFactor(r, m)
                          \/ \E right \in BOOLEAN : VerifyCode(r, right)
    BY <1>1
  <2>2. CASE \E m \in Staff : LoginFind(r, m) \/ SecondFactor(r, m)
    BY <2>2, LoginSteps
  <2>3. CASE \E right \in BOOLEAN : VerifyCode(r, right)
    <3>1. PICK right \in BOOLEAN : VerifyCode(r, right)
      BY <2>3
    <3>2. rq[r].staff \in Staff
      BY <3>1, NotDone DEF VerifyCode, RequestOK
    <3> QED BY <3>1, <3>2, LoginSteps
  <2> QED BY <2>1, <2>2, <2>3
<1>2. CASE \E r \in Reqs : \/ \E right \in BOOLEAN : LoginVerify(r, right)
                           \/ CountFailure(r) \/ CountFails(r) \/ StampLogin(r)
  BY <1>2, LoginVerifyInv, CountFailureInv, CountFailsInv, StampLoginInv
<1>3. CASE \E r \in Reqs : \E s \in Sids : CreateSession(r, s) \/ CallBegin(r, s) \/ ExtractFails(r, s)
  BY <1>3, CreateSessionInv, CallSteps
<1>4. CASE \E r \in Reqs : \/ \E p \in Permissions : Extract(r, p)
                           \/ \E s, t \in Sids : LogoutBegin(r, s, t)
  <2>1. PICK r \in Reqs : \/ \E p \in Permissions : Extract(r, p)
                          \/ \E s, t \in Sids : LogoutBegin(r, s, t)
    BY <1>4
  <2>2. CASE \E s, t \in Sids : LogoutBegin(r, s, t)
    BY <2>2, CallSteps
  <2>3. CASE \E p \in Permissions : Extract(r, p)
    BY <2>3, ExtractInv
  <2> QED BY <2>1, <2>2, <2>3
<1>5. CASE \E r \in Reqs : Apply(r) \/ Audit(r) \/ AuditFails(r) \/ LogoutRevoke(r) \/ Abort(r)
  BY <1>5, TrailSteps, EndSteps
<1>6. CASE \/ \E m \in Staff : LockExpires(m) \/ ChallengeExpires(m) \/ SuspendStaff(m)
           \/ \E s \in Sids : SessionExpires(s)
           \/ UNCHANGED vars
  BY <1>6, WorldInv
<1> QED BY <1>1, <1>2, <1>3, <1>4, <1>5, <1>6 DEF Next

LEMMA Invariance == Spec => []Inv
<1>1. Init => Inv
  BY InitInv, SensibleConstants
<1>2. Inv /\ [Next]_vars => Inv'
  BY StepInv, SensibleConstants
<1> QED BY <1>1, <1>2, PTL DEF Spec

-----------------------------------------------------------------------------
(* Types; an open session has an owner.                                    *)
THEOREM TypeCorrect == Spec => []TypeOK
<1>1. Inv => TypeOK
  BY DEF Inv
<1> QED BY <1>1, Invariance, PTL

(* However many logins run at once and however often locks lapse and       *)
(* counts are lost, wrong passwords are bounded as the property says.      *)
THEOREM Bounded == Spec => []GuessesBounded
<1>1. Inv => GuessesBounded
  <2> SUFFICES ASSUME Inv, NEW m \in Staff
               PROVE  guesses[m] <= LockAfter + Cardinality(Reqs) - 1 + lost[m]
    BY DEF GuessesBounded
  <2>1. /\ Cardinality(Guessing(pc, rq, m)) \in Nat /\ Cardinality(Counting(pc, rq, m)) \in Nat
        /\ Cardinality(Guessing(pc, rq, m)) + Cardinality(Counting(pc, rq, m)) <= Cardinality(Reqs)
        /\ Cardinality(Reqs) \in Nat /\ LockAfter \in Nat \ {0}
        /\ guesses[m] \in Nat /\ lost[m] \in Nat /\ failed[m] \in Nat
    BY Places, SensibleConstants DEF Sensible, Inv, TypeOK
  <2>2. IF m \in locked
        THEN guesses[m] + Cardinality(Guessing(pc, rq, m)) <= LockAfter - 1 + lost[m] + Cardinality(Reqs)
        ELSE guesses[m] <= lost[m] + Cardinality(Counting(pc, rq, m))
               + (IF failed[m] < LockAfter THEN failed[m] ELSE 0)
    BY DEF Inv, LockInv
  <2> QED BY <2>1, <2>2
<1> QED BY <1>1, Invariance, PTL

(* Every effect has its row, a request that owes it, or a failure.         *)
THEOREM Audited == Spec => []EffectsAreAudited
<1>1. Inv => EffectsAreAudited
  BY DEF Inv
<1> QED BY <1>1, Invariance, PTL

(* A session that has ended when a call arrives gives it no effect.        *)
THEOREM LateRefused == Spec => []LateCallsAreRefused
<1>1. Inv => LateCallsAreRefused
  BY DEF Inv, Requests, RequestOK, LateCallsAreRefused
<1> QED BY <1>1, Invariance, PTL

-----------------------------------------------------------------------------
PushSteps == {"idle", "targets", "user", "device", "fetch", "post", "clear", "status"}
Campaign == [push : BOOLEAN, segment : SUBSET People, status : Fcm!Statuses]
PushLocals == [campaign : CampaignIds \cup {Nobody}, users : SUBSET People, devices : SUBSET Devices,
               device : Devices \cup {Nobody}]

(* Of a request that stands at s with the locals q: its campaign is there, *)
(* and a device that it owes a push and has not tried is still ahead of    *)
(* it: its user is, it is, or it is at hand.                               *)
Ahead(d, s, q, own) ==
  \/ own[d] \in q.users
  \/ s \in {"device", "fetch", "post", "clear"} /\ d \in q.devices
  \/ s \in {"fetch", "post"} /\ d = q.device
PushFits(s, q, owes, sent, own, cs) ==
  /\ s \in PushSteps /\ q \in PushLocals /\ sent \in SUBSET Devices /\ owes \in SUBSET Devices
  /\ s \in {"targets", "status"} \/ q.campaign # Nobody => q.campaign \in CampaignIds /\ cs[q.campaign] \in Campaign
  /\ s \in {"fetch", "post"} => q.device \in Devices
  /\ s = "idle" => sent = {}
  /\ s \in {"idle", "targets"} => owes = {}
  /\ s = "status" => owes \subseteq sent
  /\ \A d \in owes : own[d] # Nobody /\ (s # "status" /\ d \notin sent => Ahead(d, s, q, own))

PushTables ==
  /\ owner \in [Devices -> People \cup {Nobody}]
  /\ DOMAIN campaigns = CampaignIds
  /\ \A i \in CampaignIds : campaigns[i] = Nobody \/ campaigns[i] \in Campaign
  /\ cache \in {"none", "fresh", "old"}
PushCalls ==
  /\ DOMAIN step = Reqs /\ DOMAIN local = Reqs
  /\ due \in [Reqs -> SUBSET Devices] /\ tried \in [Reqs -> SUBSET Devices]
  /\ \A r \in Reqs : PushFits(step[r], local[r], due[r], tried[r], owner, campaigns)
PushLock == keeper \in Reqs \cup {Nobody} /\ \A r \in Reqs : keeper = r <=> step[r] = "fetch"

PushInv == PushTables /\ PushCalls /\ PushLock

-----------------------------------------------------------------------------
(* What a request relies on outlasts new owners of what it does not owe.   *)
LEMMA FitsStay ==
  ASSUME NEW s, NEW q, NEW owes, NEW sent, NEW own, NEW cs, PushFits(s, q, owes, sent, own, cs),
         NEW less \in SUBSET owes, NEW owned, \A d \in less : owned[d] = own[d],
         NEW more, \A i \in CampaignIds : cs[i] \in Campaign => more[i] \in Campaign
  PROVE  PushFits(s, q, less, sent, owned, more)
BY DEF PushFits, Ahead

(* One request goes on, and what it does to the tables leaves the others   *)
(* what they rely on.                                                      *)
LEMMA PushMoves ==
  ASSUME PushInv, PushTables', NEW r \in Reqs, NEW s, NEW q, NEW sent, Fcm!Goto(r, s, q),
         due' \in [Reqs -> SUBSET Devices], tried' = [tried EXCEPT ![r] = sent],
         \A i \in CampaignIds : campaigns[i] \in Campaign => campaigns'[i] \in Campaign,
         \A x \in Reqs \ {r} : due'[x] \subseteq due[x] /\ \A d \in due'[x] : owner'[d] = owner[d],
         PushFits(s, q, due'[r], sent, owner', campaigns'),
         \/ keeper' = keeper /\ (s = "fetch" <=> step[r] = "fetch")
         \/ keeper = Nobody /\ keeper' = r /\ s = "fetch"
         \/ step[r] = "fetch" /\ keeper' = Nobody /\ s # "fetch"
  PROVE  PushInv'
<1>1. /\ step' = [step EXCEPT ![r] = s] /\ local' = [local EXCEPT ![r] = q]
      /\ DOMAIN step = Reqs /\ DOMAIN local = Reqs
      /\ tried \in [Reqs -> SUBSET Devices] /\ sent \in SUBSET Devices
  BY DEF Fcm!Goto, PushInv, PushCalls, PushFits
<1>2. /\ step'[r] = s /\ local'[r] = q /\ tried'[r] = sent
      /\ DOMAIN step' = Reqs /\ DOMAIN local' = Reqs /\ tried' \in [Reqs -> SUBSET Devices]
      /\ \A x \in Reqs \ {r} : step'[x] = step[x] /\ local'[x] = local[x] /\ tried'[x] = tried[x]
  BY <1>1
<1>3. ASSUME NEW x \in Reqs PROVE PushFits(step'[x], local'[x], due'[x], tried'[x], owner', campaigns')
  <2>1. CASE x = r
    BY <1>2, <2>1
  <2>2. CASE x # r
    <3>1. PushFits(step[x], local[x], due[x], tried[x], owner, campaigns)
      BY DEF PushInv, PushCalls
    <3>2. PushFits(step[x], local[x], due'[x], tried[x], owner', campaigns')
      BY <2>2, <3>1, FitsStay
    <3> QED BY <1>2, <2>2, <3>2
  <2> QED BY <2>1, <2>2
<1>4. PushCalls'
  BY <1>2, <1>3 DEF PushCalls
<1>5. PushLock'
  <2>1. keeper \in Reqs \cup {Nobody} /\ (\A x \in Reqs : keeper = x <=> step[x] = "fetch") /\ Nobody \notin Reqs
    BY NobodyIsNobody DEF PushInv, PushLock
  <2> QED BY <1>2, <2>1 DEF PushLock
<1> QED BY <1>4, <1>5 DEF PushInv

LEMMA PushGoes ==
  ASSUME PushInv, NEW r \in Reqs, NEW s, NEW q, NEW owes, NEW sent,
         Fcm!Goto(r, s, q), due' = [due EXCEPT ![r] = owes], tried' = [tried EXCEPT ![r] = sent],
         UNCHANGED <<owner, campaigns>>, cache' \in {"none", "fresh", "old"},
         PushFits(s, q, owes, sent, owner, campaigns),
         \/ keeper' = keeper /\ (s = "fetch" <=> step[r] = "fetch")
         \/ keeper = Nobody /\ keeper' = r /\ s = "fetch"
         \/ step[r] = "fetch" /\ keeper' = Nobody /\ s # "fetch"
  PROVE  PushInv'
<1>1. PushTables'
  BY DEF PushInv, PushTables
<1>2. /\ due' \in [Reqs -> SUBSET Devices] /\ due'[r] = owes
      /\ \A x \in Reqs \ {r} : due'[x] = due[x]
  <2>1. due \in [Reqs -> SUBSET Devices] /\ owes \in SUBSET Devices
    BY DEF PushInv, PushCalls, PushFits
  <2> QED BY <2>1
<1> QED BY <1>1, <1>2, PushMoves

(* It goes on, owing and having tried what it did.                         *)
LEMMA PushGoesOn ==
  ASSUME PushInv, NEW r \in Reqs, NEW s, NEW q, Fcm!Goto(r, s, q),
         UNCHANGED <<owner, campaigns, due, tried>>, cache' \in {"none", "fresh", "old"},
         PushFits(s, q, due[r], tried[r], owner, campaigns),
         \/ keeper' = keeper /\ (s = "fetch" <=> step[r] = "fetch")
         \/ keeper = Nobody /\ keeper' = r /\ s = "fetch"
         \/ step[r] = "fetch" /\ keeper' = Nobody /\ s # "fetch"
  PROVE  PushInv'
<1> DEFINE owes == due[r]
           sent == tried[r]
<1>1. due' = [due EXCEPT ![r] = owes] /\ tried' = [tried EXCEPT ![r] = sent]
  <2>1. due \in [Reqs -> SUBSET Devices] /\ tried \in [Reqs -> SUBSET Devices]
    BY DEF PushInv, PushCalls
  <2> QED BY <2>1
<1>2. PushFits(s, q, owes, sent, owner, campaigns)
  OBVIOUS
<1> HIDE DEF owes, sent
<1> QED BY <1>1, <1>2, PushGoes

(* The tables change under the requests.                                   *)
LEMMA PushTablesMove ==
  ASSUME PushInv, PushTables', UNCHANGED <<step, local, keeper, tried>>, due' = due,
         \A i \in CampaignIds : campaigns[i] \in Campaign => campaigns'[i] \in Campaign,
         \A r \in Reqs : \A d \in due[r] : owner'[d] = owner[d]
  PROVE  PushInv'
<1>1. \A r \in Reqs : PushFits(step[r], local[r], due[r], tried[r], owner', campaigns')
  BY FitsStay DEF PushInv, PushCalls
<1> QED BY <1>1 DEF PushInv, PushCalls, PushLock

-----------------------------------------------------------------------------
LEMMA PushWorldKeeps ==
  ASSUME PushInv,
         \/ \E d \in Devices, u \in People : Fcm!RegisterDevice(d, u)
         \/ \E i \in CampaignIds, push \in BOOLEAN, segment \in SUBSET People : Fcm!CreateCampaign(i, push, segment)
         \/ Fcm!TokenAges
  PROVE  PushInv'
<1>1. ASSUME NEW d \in Devices, NEW u \in People, Fcm!RegisterDevice(d, u) PROVE PushInv'
  <2>1. owner[d] = Nobody /\ owner' = [owner EXCEPT ![d] = u] /\
            UNCHANGED <<campaigns, cache, keeper, due, tried, step, local>>
    BY <1>1 DEF Fcm!RegisterDevice
  <2>2. PushTables'
    BY <2>1 DEF PushInv, PushTables
  <2>3. \A r \in Reqs : \A e \in due[r] : owner'[e] = owner[e]
    <3>1. \A r \in Reqs : \A e \in due[r] : owner[e] # Nobody
      BY DEF PushInv, PushCalls, PushFits
    <3> QED BY <2>1, <3>1
  <2> QED BY <2>1, <2>2, <2>3, PushTablesMove
<1>2. ASSUME NEW i \in CampaignIds, NEW push \in BOOLEAN, NEW segment \in SUBSET People,
             Fcm!CreateCampaign(i, push, segment)
      PROVE  PushInv'
  <2> DEFINE c == Fcm!create_campaign(push, segment)
  <2>1. campaigns' = [campaigns EXCEPT ![i] = c] /\ UNCHANGED <<owner, cache, keeper, due, tried, step, local>>
    BY <1>2 DEF Fcm!CreateCampaign
  <2>2. c \in Campaign
    BY DEF Fcm!create_campaign, Campaign, Fcm!Statuses
  <2> HIDE DEF c
  <2>3. PushTables' /\ \A j \in CampaignIds : campaigns[j] \in Campaign => campaigns'[j] \in Campaign
    BY <2>1, <2>2 DEF PushInv, PushTables
  <2> QED BY <2>1, <2>3, PushTablesMove
<1>3. ASSUME Fcm!TokenAges PROVE PushInv'
  <2>1. cache' = "old" /\ UNCHANGED <<owner, campaigns, keeper, due, tried, step, local>>
    BY <1>3 DEF Fcm!TokenAges
  <2>2. PushTables'
    BY <2>1 DEF PushInv, PushTables
  <2> QED BY <2>1, <2>2, PushTablesMove
<1> QED BY <1>1, <1>2, <1>3

-----------------------------------------------------------------------------
LEMMA PushHere ==
  ASSUME PushInv, NEW r \in Reqs
  PROVE  /\ PushFits(step[r], local[r], due[r], tried[r], owner, campaigns)
         /\ local[r] \in PushLocals /\ due[r] \in SUBSET Devices /\ tried[r] \in SUBSET Devices
         /\ owner \in [Devices -> People \cup {Nobody}] /\ Nobody \notin People
         /\ due \in [Reqs -> SUBSET Devices] /\ tried \in [Reqs -> SUBSET Devices]
         /\ cache \in {"none", "fresh", "old"}
BY NobodyIsNobody DEF PushInv, PushCalls, PushFits, PushTables

(* A push begins: a campaign is taken up, or its targets or a tap's are    *)
(* read.                                                                   *)
LEMMA PushBeginKeeps ==
  ASSUME PushInv, NEW r \in Reqs,
         (\E i \in CampaignIds : Fcm!SendCampaign(r, i)) \/ (\E u \in People : Fcm!TapPush(r, u))
  PROVE  PushInv'
<1>1. ASSUME NEW i \in CampaignIds, Fcm!SendCampaign(r, i) PROVE PushInv'
  <2> DEFINE s == IF Fcm!get_campaign(i).push THEN "targets" ELSE "status"
             q == [Fcm!Blank EXCEPT !.campaign = i]
  <2>1. /\ step[r] = "idle" /\ campaigns[i] # Nobody /\ Fcm!Goto(r, s, q)
        /\ UNCHANGED <<owner, campaigns, cache, keeper, due, tried>>
    BY <1>1 DEF Fcm!SendCampaign, Fcm!get_campaign, Fcm!pushes
  <2>2. q \in PushLocals /\ q.campaign = i /\ campaigns[i] \in Campaign
    BY <2>1 DEF Fcm!Blank, PushLocals, PushInv, PushTables
  <2>3. s \in {"targets", "status"}
    OBVIOUS
  <2> HIDE DEF s, q
  <2>4. due[r] = {} /\ tried[r] = {}
    BY <2>1, PushHere DEF PushFits
  <2>5. PushFits(s, q, due[r], tried[r], owner, campaigns)
    BY <2>2, <2>3, <2>4 DEF PushFits, PushSteps
  <2>6. (s = "fetch" <=> step[r] = "fetch") /\ cache' \in {"none", "fresh", "old"}
    BY <2>1, <2>3, PushHere
  <2> QED BY <2>1, <2>5, <2>6, PushGoesOn
<1>2. ASSUME NEW u \in People, Fcm!TapPush(r, u) PROVE PushInv'
  <2> DEFINE q == [Fcm!Blank EXCEPT !.users = {u}]
             owes == {d \in Devices : owner[d] = u}
  <2>1. /\ step[r] = "idle" /\ Fcm!Goto(r, "user", q) /\ due' = [due EXCEPT ![r] = owes]
        /\ UNCHANGED <<owner, campaigns, cache, keeper, tried>>
    BY <1>2 DEF Fcm!TapPush
  <2>2. q \in PushLocals /\ q.campaign = Nobody /\ q.users = {u}
    BY DEF Fcm!Blank, PushLocals
  <2> HIDE DEF q
  <2>3. tried[r] \in SUBSET Devices /\ tried' = [tried EXCEPT ![r] = tried[r]]
    BY <2>1, PushHere
  <2>4. PushFits("user", q, owes, tried[r], owner, campaigns)
    BY <2>2, <2>3, PushHere DEF PushFits, PushSteps, Ahead
  <2>5. cache' \in {"none", "fresh", "old"}
    BY <2>1, PushHere
  <2> HIDE DEF owes
  <2> QED BY <2>1, <2>3, <2>4, <2>5, PushGoes
<1> QED BY <1>1, <1>2

LEMMA PushReadKeeps == ASSUME PushInv, NEW r \in Reqs, Fcm!ReadTargets(r) PROVE PushInv'
<1> DEFINE targets == Fcm!get_campaign_target_user_ids(campaigns[local[r].campaign].segment)
           q == [local[r] EXCEPT !.users = targets]
           owes == {d \in Devices : owner[d] \in targets}
<1>0. step[r] = "targets" /\ UNCHANGED <<owner, campaigns, cache, keeper, tried>>
  BY DEF Fcm!ReadTargets
<1>1. /\ local[r] \in PushLocals /\ local[r].campaign \in CampaignIds /\ campaigns[local[r].campaign] \in Campaign
      /\ due[r] = {} /\ tried[r] \in SUBSET Devices /\ tried' = [tried EXCEPT ![r] = tried[r]]
      /\ cache' \in {"none", "fresh", "old"}
  BY <1>0, PushHere DEF PushFits
<1>2. targets \in SUBSET People
  BY <1>1 DEF Fcm!get_campaign_target_user_ids, Campaign
<1> HIDE DEF targets
<1>3. q \in PushLocals /\ q.campaign = local[r].campaign /\ q.users = targets
  BY <1>1, <1>2 DEF PushLocals
<1> HIDE DEF q
<1>4. CASE Configured
  <2>1. Fcm!Goto(r, "user", q) /\ due' = [due EXCEPT ![r] = owes]
    BY <1>4 DEF Fcm!ReadTargets, targets, q
  <2>2. PushFits("user", q, owes, tried[r], owner, campaigns)
    BY <1>1, <1>2, <1>3, PushHere DEF PushFits, PushSteps, Ahead
  <2> HIDE DEF owes
  <2> QED BY <1>0, <1>1, <2>1, <2>2, PushGoes
<1>5. CASE ~Configured
  <2>1. Fcm!Goto(r, "status", local[r]) /\ due' = due
    BY <1>5 DEF Fcm!ReadTargets
  <2>2. PushFits("status", local[r], due[r], tried[r], owner, campaigns)
    BY <1>1 DEF PushFits, PushSteps
  <2> QED BY <1>0, <1>1, <2>1, <2>2, PushGoesOn
<1> QED BY <1>4, <1>5

(* A request that ends owes nothing any more.                              *)
LEMMA PushEnds ==
  ASSUME PushInv, PushTables', NEW r \in Reqs, Fcm!Finish(r), step[r] # "fetch",
         UNCHANGED <<owner, keeper>>, \A i \in CampaignIds : campaigns[i] \in Campaign => campaigns'[i] \in Campaign
  PROVE  PushInv'
<1> DEFINE q == Fcm!Blank
           none == {}
<1>1. Fcm!Goto(r, "idle", q) /\ due' = [due EXCEPT ![r] = none] /\ tried' = [tried EXCEPT ![r] = none]
  BY DEF Fcm!Finish
<1>2. PushFits("idle", q, none, none, owner', campaigns')
  BY DEF PushFits, PushSteps, PushLocals, Fcm!Blank
<1> HIDE DEF q
<1>3. due' \in [Reqs -> SUBSET Devices] /\ due'[r] = none /\ \A x \in Reqs \ {r} : due'[x] = due[x]
  BY <1>1, PushHere
<1> HIDE DEF none
<1> QED BY <1>1, <1>2, <1>3, PushMoves

LEMMA PushEndKeeps ==
  ASSUME PushInv, NEW r \in Reqs, Fcm!MarkSent(r) \/ Fcm!Abort(r) PROVE PushInv'
<1>1. CASE Fcm!Abort(r)
  <2>1. UNCHANGED <<owner, campaigns, cache, keeper>> /\ Fcm!Finish(r) /\ step[r] # "fetch"
    BY <1>1 DEF Fcm!Abort
  <2>2. PushTables'
    BY <2>1 DEF PushInv, PushTables
  <2> QED BY <2>1, <2>2, PushEnds
<1>2. CASE Fcm!MarkSent(r)
  <2> DEFINE i == local[r].campaign
             c == [campaigns[i] EXCEPT !.status = "sent"]
  <2>1. /\ step[r] = "status" /\ campaigns' = [campaigns EXCEPT ![i] = c] /\ Fcm!Finish(r)
        /\ UNCHANGED <<owner, cache, keeper>>
    BY <1>2 DEF Fcm!MarkSent, Fcm!update_campaign_status
  <2>2. i \in CampaignIds /\ campaigns[i] \in Campaign
    BY <2>1, PushHere DEF PushFits
  <2>3. c \in Campaign
    BY <2>2 DEF Campaign, Fcm!Statuses
  <2> HIDE DEF c, i
  <2>4. PushTables' /\ \A j \in CampaignIds : campaigns[j] \in Campaign => campaigns'[j] \in Campaign
    BY <2>1, <2>2, <2>3 DEF PushInv, PushTables
  <2> QED BY <2>1, <2>4, PushEnds
<1> QED BY <1>1, <1>2

-----------------------------------------------------------------------------
LEMMA PushUserKeeps ==
  ASSUME PushInv, NEW r \in Reqs, NEW u \in People, Fcm!NextUser(r, u) \/ Fcm!UserFails(r, u)
  PROVE  PushInv'
<1>0. step[r] = "user" /\ u \in local[r].users /\ UNCHANGED <<owner, campaigns, cache, keeper, tried>>
  BY DEF Fcm!NextUser, Fcm!UserFails, Fcm!pushes
<1>1. /\ local[r] \in PushLocals /\ tried[r] \in SUBSET Devices /\ tried' = [tried EXCEPT ![r] = tried[r]]
      /\ cache' \in {"none", "fresh", "old"}
      /\ \A d \in due[r] : owner[d] # Nobody /\ (d \notin tried[r] => owner[d] \in local[r].users)
  BY <1>0, PushHere DEF PushFits, Ahead
<1>2. CASE Fcm!NextUser(r, u)
  <2> DEFINE q == [local[r] EXCEPT !.users = local[r].users \ {u}, !.devices = Fcm!list_user_devices(u)]
  <2>1. Fcm!Goto(r, "device", q) /\ UNCHANGED due
    BY <1>2 DEF Fcm!NextUser, Fcm!pushes
  <2>2. /\ q \in PushLocals /\ q.campaign = local[r].campaign /\ q.users = local[r].users \ {u}
        /\ q.devices = {d \in Devices : owner[d] = u}
    BY <1>1 DEF PushLocals, Fcm!list_user_devices
  <2> HIDE DEF q
  <2>3. PushFits("device", q, due[r], tried[r], owner, campaigns)
    BY <1>0, <1>1, <2>2, PushHere DEF PushFits, PushSteps, Ahead
  <2> QED BY <1>0, <1>1, <2>1, <2>3, PushGoesOn
<1>3. CASE Fcm!UserFails(r, u)
  <2> DEFINE q == [local[r] EXCEPT !.users = local[r].users \ {u}]
             owes == {d \in due[r] : owner[d] # u}
  <2>1. Fcm!Goto(r, "user", q) /\ due' = [due EXCEPT ![r] = owes]
    BY <1>3, PushHere DEF Fcm!UserFails
  <2>2. q \in PushLocals /\ q.campaign = local[r].campaign /\ q.users = local[r].users \ {u}
    BY <1>1 DEF PushLocals
  <2> HIDE DEF q
  <2>3. PushFits("user", q, owes, tried[r], owner, campaigns)
    BY <1>0, <1>1, <2>2, PushHere DEF PushFits, PushSteps, Ahead
  <2> HIDE DEF owes
  <2> QED BY <1>0, <1>1, <2>1, <2>3, PushGoes
<1> QED BY <1>2, <1>3

LEMMA PushDoneKeeps ==
  ASSUME PushInv, NEW r \in Reqs, Fcm!UsersDone(r) \/ Fcm!DevicesDone(r) PROVE PushInv'
<1>1. CASE Fcm!UsersDone(r)
  <2>0. step[r] = "user" /\ local[r].users = {} /\ UNCHANGED <<owner, campaigns, cache, keeper>>
    BY <1>1 DEF Fcm!UsersDone
  <2>1. PushTables' /\ cache' \in {"none", "fresh", "old"}
    BY <2>0, PushHere DEF PushInv, PushTables
  <2>2. CASE local[r].campaign = Nobody
    <3>1. Fcm!Finish(r)
      BY <1>1, <2>2 DEF Fcm!UsersDone
    <3> QED BY <2>0, <2>1, <3>1, PushEnds
  <2>3. CASE local[r].campaign # Nobody
    <3>1. Fcm!Goto(r, "status", local[r]) /\ UNCHANGED <<due, tried>>
      BY <1>1, <2>3 DEF Fcm!UsersDone
    <3>2. PushFits("status", local[r], due[r], tried[r], owner, campaigns)
      BY <2>0, <2>3, PushHere DEF PushFits, PushSteps, Ahead
    <3> QED BY <2>0, <2>1, <3>1, <3>2, PushGoesOn
  <2> QED BY <2>2, <2>3
<1>2. CASE Fcm!DevicesDone(r)
  <2>0. /\ step[r] = "device" /\ local[r].devices = {} /\ Fcm!Goto(r, "user", local[r])
        /\ UNCHANGED <<owner, campaigns, cache, keeper, due, tried>>
    BY <1>2 DEF Fcm!DevicesDone, Fcm!pushes
  <2>1. PushFits("user", local[r], due[r], tried[r], owner, campaigns) /\ cache' \in {"none", "fresh", "old"}
    BY <2>0, PushHere DEF PushFits, PushSteps, Ahead
  <2> QED BY <2>0, <2>1, PushGoesOn
<1> QED BY <1>1, <1>2

LEMMA PushDeviceKeeps == ASSUME PushInv, NEW r \in Reqs, NEW d \in Devices, Fcm!NextDevice(r, d) PROVE PushInv'
<1> DEFINE s == IF cache = "fresh" THEN "post" ELSE "fetch"
           q == [local[r] EXCEPT !.devices = local[r].devices \ {d}, !.device = d]
<1>1. /\ step[r] = "device" /\ d \in local[r].devices /\ keeper = Nobody /\ Fcm!Goto(r, s, q)
      /\ keeper' = IF cache = "fresh" THEN Nobody ELSE r
      /\ UNCHANGED <<owner, campaigns, cache, due, tried>>
  BY PushHere DEF Fcm!NextDevice
<1>2. /\ q \in PushLocals /\ q.campaign = local[r].campaign /\ q.users = local[r].users
      /\ q.devices = local[r].devices \ {d} /\ q.device = d
  BY PushHere DEF PushLocals
<1>3. (s = "post" /\ keeper' = keeper) \/ (s = "fetch" /\ keeper' = r)
  BY <1>1
<1> HIDE DEF q, s
<1>4. PushFits(s, q, due[r], tried[r], owner, campaigns)
  BY <1>1, <1>2, <1>3, PushHere DEF PushFits, PushSteps, Ahead
<1>5. cache' \in {"none", "fresh", "old"}
  BY <1>1, PushHere
<1> QED BY <1>1, <1>3, <1>4, <1>5, PushGoesOn

LEMMA PushTokenKeeps ==
  ASSUME PushInv, NEW r \in Reqs, Fcm!FetchToken(r) \/ Fcm!FetchFails(r) \/ Fcm!ClearToken(r) PROVE PushInv'
<1>1. CASE Fcm!FetchToken(r)
  <2>1. /\ step[r] = "fetch" /\ cache' = "fresh" /\ keeper' = Nobody /\ Fcm!Goto(r, "post", local[r])
        /\ UNCHANGED <<owner, campaigns, due, tried>>
    BY <1>1 DEF Fcm!FetchToken
  <2>2. PushFits("post", local[r], due[r], tried[r], owner, campaigns)
    BY <2>1, PushHere DEF PushFits, PushSteps, Ahead
  <2> QED BY <2>1, <2>2, PushGoesOn
<1>2. CASE Fcm!FetchFails(r)
  <2> DEFINE q == [local[r] EXCEPT !.device = Nobody]
             owes == due[r] \ {local[r].device}
  <2>1. /\ step[r] = "fetch" /\ keeper' = Nobody /\ Fcm!Goto(r, "device", q) /\ due' = [due EXCEPT ![r] = owes]
        /\ UNCHANGED <<owner, campaigns, cache, tried>>
    BY <1>2 DEF Fcm!FetchFails
  <2>2. /\ q \in PushLocals /\ q.campaign = local[r].campaign /\ q.users = local[r].users
        /\ q.devices = local[r].devices
    BY PushHere DEF PushLocals
  <2>3. tried[r] \in SUBSET Devices /\ tried' = [tried EXCEPT ![r] = tried[r]] /\ cache' \in {"none", "fresh", "old"}
    BY <2>1, PushHere
  <2> HIDE DEF q
  <2>4. PushFits("device", q, owes, tried[r], owner, campaigns)
    BY <2>1, <2>2, PushHere DEF PushFits, PushSteps, Ahead
  <2> HIDE DEF owes
  <2> QED BY <2>1, <2>3, <2>4, PushGoes
<1>3. CASE Fcm!ClearToken(r)
  <2>1. /\ step[r] = "clear" /\ cache' = "none" /\ Fcm!Goto(r, "device", local[r])
        /\ UNCHANGED <<owner, campaigns, keeper, due, tried>>
    BY <1>3 DEF Fcm!ClearToken
  <2>2. PushFits("device", local[r], due[r], tried[r], owner, campaigns)
    BY <2>1, PushHere DEF PushFits, PushSteps, Ahead
  <2> QED BY <2>1, <2>2, PushGoesOn
<1> QED BY <1>1, <1>2, <1>3

(* Whatever FCM says of a device, it has been tried; one that is gone is   *)
(* nobody's any more, and owed to nobody.                                  *)
LEMMA PushPostKeeps ==
  ASSUME PushInv, NEW r \in Reqs, Fcm!Post(r) \/ Fcm!PostUnknown(r) \/ Fcm!PostRefused(r) PROVE PushInv'
<1>1. PICK s \in {"device", "clear"} : \E gone \in {{}, {local[r].device}} : Fcm!Outcome(r, s, gone)
  BY DEF Fcm!Post, Fcm!PostUnknown, Fcm!PostRefused
<1>2. PICK gone \in {{}, {local[r].device}} : Fcm!Outcome(r, s, gone)
  BY <1>1
<1> DEFINE q == [local[r] EXCEPT !.device = Nobody]
           sent == tried[r] \cup {local[r].device}
<1>3. /\ step[r] = "post" /\ tried' = [tried EXCEPT ![r] = sent] /\ Fcm!Goto(r, s, q)
      /\ owner' = [d \in Devices |-> IF d \in gone THEN Nobody ELSE owner[d]]
      /\ due' = [x \in Reqs |-> due[x] \ gone] /\ UNCHANGED <<campaigns, cache, keeper>>
  BY <1>2 DEF Fcm!Outcome
<1>4. /\ q \in PushLocals /\ q.campaign = local[r].campaign /\ q.users = local[r].users
      /\ q.devices = local[r].devices /\ local[r].device \in Devices /\ sent \in SUBSET Devices
  BY <1>3, PushHere DEF PushLocals, PushFits
<1> HIDE DEF q
<1>5. PushTables'
  BY <1>3, PushHere DEF PushInv, PushTables
<1>6. /\ due' \in [Reqs -> SUBSET Devices] /\ due'[r] = due[r] \ gone
      /\ \A x \in Reqs : due'[x] \subseteq due[x] /\ \A d \in due'[x] : d \in Devices /\ owner'[d] = owner[d]
  BY <1>3, PushHere
<1>7. PushFits(s, q, due'[r], sent, owner', campaigns')
  <2>1. \A d \in due'[r] : owner'[d] # Nobody /\ (d \notin sent => Ahead(d, s, q, owner'))
    BY <1>3, <1>4, <1>6, PushHere DEF PushFits, Ahead
  <2>2. due'[r] \in SUBSET Devices /\ (q.campaign # Nobody => q.campaign \in CampaignIds /\
            campaigns'[q.campaign] \in Campaign)
    BY <1>3, <1>4, <1>6, PushHere DEF PushFits
  <2> QED BY <1>1, <1>4, <2>1, <2>2 DEF PushFits, PushSteps
<1> HIDE DEF sent
<1> QED BY <1>1, <1>3, <1>5, <1>6, <1>7, PushMoves

-----------------------------------------------------------------------------
LEMMA PushInitInv == Fcm!Init => PushInv
<1> SUFFICES ASSUME Fcm!Init PROVE PushInv
  OBVIOUS
<1>1. PushTables /\ PushLock
  BY NobodyIsNobody DEF Fcm!Init, PushTables, PushLock
<1>2. PushFits("idle", Fcm!Blank, {}, {}, owner, campaigns)
  BY DEF PushFits, PushSteps, PushLocals, Fcm!Blank
<1>3. PushCalls
  BY <1>2 DEF Fcm!Init, PushCalls
<1> QED BY <1>1, <1>3 DEF PushInv

LEMMA PushStepInv == PushInv /\ Fcm!Next => PushInv'
<1> SUFFICES ASSUME PushInv, Fcm!Next PROVE PushInv'
  OBVIOUS
<1>1. ASSUME NEW r \in Reqs,
             \/ \E i \in CampaignIds : Fcm!SendCampaign(r, i)
             \/ \E u \in People : Fcm!TapPush(r, u) \/ Fcm!NextUser(r, u) \/ Fcm!UserFails(r, u)
             \/ \E d \in Devices : Fcm!NextDevice(r, d)
      PROVE  PushInv'
  BY <1>1, PushBeginKeeps, PushUserKeeps, PushDeviceKeeps
<1>2. ASSUME NEW r \in Reqs,
             \/ Fcm!ReadTargets(r) \/ Fcm!UsersDone(r) \/ Fcm!DevicesDone(r)
             \/ Fcm!FetchToken(r) \/ Fcm!FetchFails(r)
             \/ Fcm!Post(r) \/ Fcm!PostUnknown(r) \/ Fcm!PostRefused(r) \/ Fcm!ClearToken(r) \/ Fcm!MarkSent(r)
             \/ Fcm!Abort(r)
      PROVE  PushInv'
  BY <1>2, PushReadKeeps, PushDoneKeeps, PushTokenKeeps, PushPostKeeps, PushEndKeeps
<1> QED BY <1>1, <1>2, PushWorldKeeps DEF Fcm!Next

LEMMA PushUntouched == PushInv /\ UNCHANGED Fcm!vars => PushInv'
BY DEF Fcm!vars, PushInv, PushTables, PushCalls, PushLock

LEMMA PushInvShows == PushInv => Fcm!TypeOK /\ Fcm!SentMeansAttempted
<1> SUFFICES ASSUME PushInv PROVE Fcm!TypeOK /\ Fcm!SentMeansAttempted
  OBVIOUS
<1>1. \A r \in Reqs : due[r] \cup tried[r] \cup local[r].devices \subseteq Devices
  BY PushHere DEF PushLocals
<1>2. Fcm!TypeOK
  BY <1>1 DEF PushInv, PushTables, PushLock, Campaign, Fcm!TypeOK
<1>3. ASSUME NEW r \in Reqs, step[r] = "status" \/ (step[r] = "user" /\ local[r].users = {})
      PROVE  due[r] \subseteq tried[r]
  BY <1>3, PushHere DEF PushFits, Ahead
<1> QED BY <1>2, <1>3 DEF Fcm!SentMeansAttempted

-----------------------------------------------------------------------------
CfgVersion == [key : RowIds, table : Cat!Restorable, row : Keys, val : Values, spent : BOOLEAN]
Unique(lines) == \A x, y \in lines : x.key = y.key => x = y

(* What holds of the rows of a table, given those of plans.                *)
TableFits(t, lines, plans) ==
  /\ \A x \in lines : "key" \in DOMAIN x
  /\ t \in Cat!Keyed => Unique(lines)
  /\ t \in Cat!ById => \A x \in lines : x.key \in RowIds
  /\ t \in {"plan_features", "plan_prices"} => \A x \in lines : \E p \in plans : p.key = x.key[1]
  /\ t = "config_versions" => lines \subseteq CfgVersion /\ Unique(lines)

(* Rollbacks of version i that stand at a step.                            *)
RollsBack(p, q, s, i) == {c \in Callers : p[c] = s /\ q[c].key = i}

(* Until a version is marked, it was written back by those that are to     *)
(* mark it and those whose mark was lost; when it is, whoever has read it  *)
(* unmarked is a caller that has not written it back yet.                  *)
VersionFits(v, p, q, n, less) ==
  /\ ~v.spent => n <= Cardinality(RollsBack(p, q, "mark", v.key)) + less
  /\ v.spent => n > 0 /\ n + Cardinality(RollsBack(p, q, "restore", v.key)) <= Cardinality(Callers) + less

CatTables == DOMAIN store = Cat!Tables /\ \A t \in Cat!Tables : TableFits(t, store[t], store["plans"])
CatCalls ==
  /\ step \in [Callers -> {"idle", "restore", "mark"}] /\ DOMAIN local = Callers
  /\ \A c \in Callers :
       /\ step[c] = "idle" <=> local[c] = Nothing
       /\ step[c] # "idle" => local[c] \in CfgVersion /\ \E v \in store["config_versions"] : v.key = local[c].key
       /\ step[c] = "mark" => restores[local[c].key] > 0
CatCounts ==
  /\ restores \in [RowIds -> Nat] /\ unmarked \in [RowIds -> Nat]
  /\ \A i \in RowIds : (\A v \in store["config_versions"] : v.key # i) => restores[i] = 0
  /\ \A v \in store["config_versions"] : VersionFits(v, step, local, restores[v.key], unmarked[v.key])

CatInv == CatTables /\ CatCalls /\ CatCounts

-----------------------------------------------------------------------------
LEMMA CatCard == ASSUME NEW S PROVE Cat!Cardinality(S) = Cardinality(S)
BY DEF Cat!Cardinality, Cardinality

LEMMA RollsBackFew ==
  ASSUME NEW p, NEW q, NEW i
  PROVE  /\ \A s : IsFiniteSet(RollsBack(p, q, s, i)) /\ Cardinality(RollsBack(p, q, s, i)) \in Nat
                   /\ Cardinality(RollsBack(p, q, s, i)) <= Cardinality(Callers)
         /\ Cardinality(RollsBack(p, q, "restore", i)) + Cardinality(RollsBack(p, q, "mark", i)) <=
              Cardinality(Callers)
         /\ Cardinality(Callers) \in Nat
<1> DEFINE A == RollsBack(p, q, "restore", i)
           B == RollsBack(p, q, "mark", i)
<1>1. IsFiniteSet(Callers) /\ Cardinality(Callers) \in Nat
  BY CallersAreFew, FS_CardinalityType
<1>2. ASSUME NEW s PROVE /\ IsFiniteSet(RollsBack(p, q, s, i)) /\ Cardinality(RollsBack(p, q, s, i)) \in Nat
                         /\ Cardinality(RollsBack(p, q, s, i)) <= Cardinality(Callers)
  <2>1. RollsBack(p, q, s, i) \subseteq Callers
    BY DEF RollsBack
  <2> QED BY <1>1, <2>1, FS_Subset, FS_CardinalityType
<1>3. A \cap B = {} /\ A \cup B \subseteq Callers
  BY DEF RollsBack
<1>4. IsFiniteSet(A) /\ IsFiniteSet(B) /\ Cardinality(A) \in Nat /\ Cardinality(B) \in Nat
  BY <1>2
<1> HIDE DEF A, B
<1>5. Cardinality(A \cup B) = Cardinality(A) + Cardinality(B)
  <2>1. Cardinality(A \cap B) = 0
    BY <1>3, FS_EmptySet
  <2>2. Cardinality(A \cup B) = Cardinality(A) + Cardinality(B) - Cardinality(A \cap B)
    BY <1>4, FS_Union
  <2> QED BY <1>4, <2>1, <2>2
<1>6. Cardinality(A \cup B) <= Cardinality(Callers)
  BY <1>1, <1>3, FS_Subset
<1>7. Cardinality(A) + Cardinality(B) <= Cardinality(Callers)
  BY <1>5, <1>6
<1> QED BY <1>1, <1>2, <1>7 DEF A, B

(* Statements.                                                             *)
LEMMA SetKeeps ==
  ASSUME NEW t, NEW plans, TableFits(t, store[t], plans), NEW k, NEW col, col # "key", NEW v,
         t # "config_versions"
  PROVE  /\ TableFits(t, Cat!Set(t, k, col, v), plans)
         /\ \A x \in store[t] : \E y \in Cat!Set(t, k, col, v) : y.key = x.key
<1> DEFINE new(x) == IF x.key = k THEN [x EXCEPT ![col] = v] ELSE x
<1>1. ASSUME NEW x \in store[t] PROVE new(x).key = x.key /\ "key" \in DOMAIN new(x)
  <2>1. "key" \in DOMAIN x
    BY DEF TableFits
  <2> QED BY <2>1
<1>2. Cat!Set(t, k, col, v) = {new(x) : x \in store[t]}
  BY DEF Cat!Set
<1> HIDE DEF new
<1>3. ASSUME Unique(store[t]) PROVE Unique(Cat!Set(t, k, col, v))
  BY <1>1, <1>2, <1>3 DEF Unique
<1> QED BY <1>1, <1>2, <1>3 DEF TableFits

LEMMA UpsertKeeps ==
  ASSUME NEW t, NEW plans, TableFits(t, store[t], plans), NEW row, "key" \in DOMAIN row,
         t \notin Cat!ById,
         t \in {"plan_features", "plan_prices"} => \E p \in plans : p.key = row.key[1]
  PROVE  /\ TableFits(t, Cat!Upsert(t, row), plans)
         /\ \A x \in store[t] : \E y \in Cat!Upsert(t, row) : y.key = x.key
<1>1. \A x \in Cat!Upsert(t, row) : x = row \/ (x \in store[t] /\ x.key # row.key)
  BY DEF Cat!Upsert, Cat!Delete
<1>2. Unique(store[t]) => Unique(Cat!Upsert(t, row))
  BY <1>1 DEF Unique
<1>3. t # "config_versions"
  BY DEF Cat!ById
<1>4. TableFits(t, Cat!Upsert(t, row), plans)
  BY <1>1, <1>2, <1>3 DEF TableFits
<1>5. \A x \in store[t] : x \in Cat!Upsert(t, row) \/ (row.key = x.key /\ row \in Cat!Upsert(t, row))
  BY DEF Cat!Upsert, Cat!Delete
<1> QED BY <1>4, <1>5

LEMMA DeleteKeeps ==
  ASSUME NEW t, NEW plans, TableFits(t, store[t], plans), NEW k
  PROVE  TableFits(t, Cat!Delete(t, k), plans)
BY DEF Cat!Delete, TableFits, Unique

LEMMA InsertKeeps ==
  ASSUME NEW t, NEW plans, TableFits(t, store[t], plans), NEW row, "key" \in DOMAIN row, row.key \in RowIds,
         t \in Cat!ById, t # "config_versions"
  PROVE  TableFits(t, Cat!Insert(t, row), plans)
<1>1. t \notin Cat!Keyed /\ t \notin {"plan_features", "plan_prices"}
  BY DEF Cat!ById, Cat!Keyed
<1> QED BY <1>1 DEF Cat!Insert, TableFits

LEMMA CatTablesMove ==
  ASSUME CatTables, NEW t \in Cat!Tables, NEW lines, store' = [store EXCEPT ![t] = lines],
         TableFits(t, lines, store["plans"]),
         t = "plans" => \A x \in store[t] : \E y \in lines : y.key = x.key
  PROVE  CatTables' /\ store'[t] = lines /\ \A u \in Cat!Tables : u # t => store'[u] = store[u]
<1>1. "plans" \in Cat!Tables
  BY DEF Cat!Tables, Cat!Keyed
<1>2. DOMAIN store' = Cat!Tables /\ store'[t] = lines /\ \A u \in Cat!Tables : u # t => store'[u] = store[u]
  BY DEF CatTables
<1>3. \A x \in store["plans"] : \E y \in store'["plans"] : y.key = x.key
  BY <1>1, <1>2
<1>4. ASSUME NEW u \in Cat!Tables PROVE TableFits(u, store'[u], store["plans"])
  BY <1>2 DEF CatTables
<1>5. \A u \in Cat!Tables : TableFits(u, store'[u], store'["plans"])
  BY <1>3, <1>4 DEF TableFits
<1> QED BY <1>2, <1>5 DEF CatTables

-----------------------------------------------------------------------------
(* A call that writes to any table but that of the versions, or to none.   *)
LEMMA CatQuiet ==
  ASSUME CatInv, CatTables', store'["config_versions"] = store["config_versions"],
         UNCHANGED <<step, local, restores, unmarked>>
  PROVE  CatInv'
<1>1. CatCalls'
  BY DEF CatInv, CatCalls
<1>2. CatCounts'
  BY DEF CatInv, CatCounts
<1> QED BY <1>1, <1>2 DEF CatInv

LEMMA CatWriteKeeps ==
  ASSUME CatInv, NEW c, NEW may, NEW t \in Cat!Tables, t # "config_versions", NEW lines, NEW reply,
         Cat!Write(c, may, t, lines, reply), TableFits(t, lines, store["plans"]),
         t = "plans" => \A x \in store[t] : \E y \in lines : y.key = x.key
  PROVE  CatInv'
<1>1. store' = [store EXCEPT ![t] = lines] /\ UNCHANGED <<step, local, restores, unmarked>>
  BY DEF Cat!Write
<1>2. "config_versions" \in Cat!Tables
  BY DEF Cat!Tables, Cat!ById
<1>3. CatTables' /\ store'["config_versions"] = store["config_versions"]
  BY <1>1, <1>2, CatTablesMove DEF CatInv
<1> QED BY <1>1, <1>3, CatQuiet

LEMMA CatReadKeeps == ASSUME CatInv, NEW c, NEW may, NEW lines, Cat!Read(c, may, lines) PROVE CatInv'
<1>1. UNCHANGED <<store, step, local, restores, unmarked>>
  BY DEF Cat!Read
<1>2. CatTables'
  BY <1>1 DEF CatInv, CatTables
<1> QED BY <1>1, <1>2, CatQuiet

LEMMA CatUpsertKeeps ==
  ASSUME CatInv, NEW c, NEW may, NEW t \in Cat!Keyed, NEW row, "key" \in DOMAIN row, NEW reply,
         t \in {"plan_features", "plan_prices"} => Cat!Has("plans", row.key[1]),
         Cat!Write(c, may, t, Cat!Upsert(t, row), reply)
  PROVE  CatInv'
<1>1. t \in Cat!Tables /\ t # "config_versions" /\ t \notin Cat!ById /\ TableFits(t, store[t], store["plans"])
  BY DEF Cat!Tables, Cat!Keyed, Cat!ById, CatInv, CatTables
<1>2. t \in {"plan_features", "plan_prices"} => \E p \in store["plans"] : p.key = row.key[1]
  BY DEF Cat!Has
<1> DEFINE lines == Cat!Upsert(t, row)
<1>3. TableFits(t, lines, store["plans"]) /\ \A x \in store[t] : \E y \in lines : y.key = x.key
  BY <1>1, <1>2, UpsertKeeps
<1>4. Cat!Write(c, may, t, lines, reply)
  OBVIOUS
<1> HIDE DEF lines
<1> QED BY <1>1, <1>3, <1>4, CatWriteKeeps

LEMMA CatDeleteKeeps ==
  ASSUME CatInv, NEW c, NEW may, NEW t \in Cat!Tables, t \notin {"plans", "config_versions"}, NEW k, NEW reply,
         Cat!Write(c, may, t, Cat!Delete(t, k), reply)
  PROVE  CatInv'
<1> DEFINE lines == Cat!Delete(t, k)
<1>1. TableFits(t, lines, store["plans"])
  BY DeleteKeeps DEF CatInv, CatTables
<1>2. Cat!Write(c, may, t, lines, reply)
  OBVIOUS
<1> HIDE DEF lines
<1> QED BY <1>1, <1>2, CatWriteKeeps

LEMMA CatInsertKeeps ==
  ASSUME CatInv, NEW c, NEW may, NEW t \in Cat!ById, t # "config_versions", NEW row, "key" \in DOMAIN row,
         row.key \in RowIds, NEW reply, Cat!Write(c, may, t, Cat!Insert(t, row), reply)
  PROVE  CatInv'
<1> DEFINE lines == Cat!Insert(t, row)
<1>1. t \in Cat!Tables /\ t # "plans"
  BY DEF Cat!Tables, Cat!ById
<1>2. TableFits(t, lines, store["plans"])
  BY <1>1, InsertKeeps DEF CatInv, CatTables
<1>3. Cat!Write(c, may, t, lines, reply)
  OBVIOUS
<1> HIDE DEF lines
<1> QED BY <1>1, <1>2, <1>3, CatWriteKeeps

-----------------------------------------------------------------------------
(* The handlers, group by group.                                           *)
LEMMA SettingsKeep == ASSUME CatInv, NEW c \in Callers, Cat!Settings(c) PROVE CatInv'
<1>1. CASE Cat!ListFlags(c) \/ Cat!ListConfig(c) \/ Cat!ListPlans(c) \/ Cat!ListCountryConfigs(c)
  BY <1>1, CatReadKeeps DEF Cat!ListFlags, Cat!ListConfig, Cat!ListPlans, Cat!ListCountryConfigs
<1>2. ASSUME NEW k \in Keys, Cat!ListPlanFeatures(c, k) \/ Cat!GetCountryConfig(c, k) PROVE CatInv'
  BY <1>2, CatReadKeeps DEF Cat!ListPlanFeatures, Cat!GetCountryConfig
<1>3. ASSUME NEW k \in Keys, Cat!DeleteFlag(c, k) \/ \E p \in Keys : Cat!DeletePlanFeature(c, p, k) PROVE CatInv'
  <2>1. {"feature_flags", "plan_features"} \subseteq Cat!Tables
    BY DEF Cat!Tables, Cat!Keyed
  <2>2. CASE Cat!DeleteFlag(c, k)
    BY <2>1, <2>2, CatDeleteKeeps DEF Cat!DeleteFlag, Cat!delete_feature_flag
  <2>3. ASSUME NEW p \in Keys, Cat!DeletePlanFeature(c, p, k) PROVE CatInv'
    BY <2>1, <2>3, CatDeleteKeeps DEF Cat!DeletePlanFeature, Cat!delete_plan_feature
  <2> QED BY <1>3, <2>2, <2>3
<1>4. {"feature_flags", "app_config", "plans", "plan_features", "plan_prices", "country_config"} \subseteq Cat!Keyed
  BY DEF Cat!Keyed
<1>5. ASSUME NEW k, NEW v PROVE "key" \in DOMAIN Cat!Row(k, v) /\ Cat!Row(k, v).key = k
  BY DEF Cat!Row
<1>6. ASSUME NEW k, NEW v, NEW on PROVE "key" \in DOMAIN Cat!Switch(k, v, on) /\ Cat!Switch(k, v, on).key = k
  BY DEF Cat!Switch
<1>7. ASSUME NEW k \in Keys, NEW v \in Values,
             Cat!UpsertConfig(c, k, v) \/ \E p \in Keys : Cat!UpsertPlanPrice(c, p, k, v)
      PROVE  CatInv'
  <2>1. CASE Cat!UpsertConfig(c, k, v)
    BY <1>4, <1>5, <2>1, CatUpsertKeeps DEF Cat!UpsertConfig, Cat!upsert_app_config
  <2>2. ASSUME NEW p \in Keys, Cat!UpsertPlanPrice(c, p, k, v) PROVE CatInv'
    <3> DEFINE row == Cat!Row(<<p, k>>, v)
    <3>1. "key" \in DOMAIN row /\ row.key[1] = p
      BY <1>5
    <3>2. Cat!Has("plans", p) /\ Cat!Write(c, "plans.write", "plan_prices", Cat!Upsert("plan_prices", row), {row})
      BY <2>2 DEF Cat!UpsertPlanPrice, Cat!upsert_plan_price
    <3> HIDE DEF row
    <3> QED BY <1>4, <3>1, <3>2, CatUpsertKeeps
  <2> QED BY <1>7, <2>1, <2>2
<1>8. ASSUME NEW k \in Keys, NEW v \in Values, NEW on \in BOOLEAN,
             \/ Cat!UpsertFlag(c, k, v, on) \/ Cat!UpsertPlan(c, k, v, on) \/ Cat!UpsertCountryConfig(c, k, v, on)
             \/ \E p \in Keys : Cat!UpsertPlanFeature(c, p, k, v, on)
      PROVE  CatInv'
  <2>1. CASE Cat!UpsertFlag(c, k, v, on)
    BY <1>4, <1>6, <2>1, CatUpsertKeeps DEF Cat!UpsertFlag, Cat!upsert_feature_flag
  <2>2. CASE Cat!UpsertPlan(c, k, v, on)
    <3>1. "key" \in DOMAIN Cat!PlanRow(k, v, on)
      BY DEF Cat!PlanRow
    <3> QED BY <1>4, <3>1, <2>2, CatUpsertKeeps DEF Cat!UpsertPlan, Cat!upsert_plan
  <2>3. CASE Cat!UpsertCountryConfig(c, k, v, on)
    BY <1>4, <1>6, <2>3, CatUpsertKeeps DEF Cat!UpsertCountryConfig, Cat!upsert_country_config
  <2>4. ASSUME NEW p \in Keys, Cat!UpsertPlanFeature(c, p, k, v, on) PROVE CatInv'
    <3> DEFINE row == Cat!Switch(<<p, k>>, v, on)
    <3>1. "key" \in DOMAIN row /\ row.key[1] = p
      BY <1>6
    <3>2. /\ Cat!Has("plans", p)
          /\ \E reply : Cat!Write(c, "plans.write", "plan_features", Cat!Upsert("plan_features", row), reply)
      BY <2>4 DEF Cat!UpsertPlanFeature, Cat!upsert_plan_feature
    <3> HIDE DEF row
    <3> QED BY <1>4, <3>1, <3>2, CatUpsertKeeps
  <2> QED BY <1>8, <2>1, <2>2, <2>3, <2>4
<1> QED BY <1>1, <1>2, <1>3, <1>7, <1>8 DEF Cat!Settings

LEMMA ContentKeep == ASSUME CatInv, NEW c \in Callers, Cat!Content(c) PROVE CatInv'
<1>1. CASE Cat!ListExperiments(c) \/ Cat!ListTemplates(c)
  BY <1>1, CatReadKeeps DEF Cat!ListExperiments, Cat!ListTemplates
<1>2. ASSUME NEW k \in Keys, Cat!ListTranslations(c, k) \/ Cat!ListCmsContent(c, k) PROVE CatInv'
  BY <1>2, CatReadKeeps DEF Cat!ListTranslations, Cat!ListCmsContent
<1>3. ASSUME NEW k \in Keys, Cat!DeleteExperiment(c, k) \/ Cat!DeleteCmsContent(c, k) PROVE CatInv'
  <2>1. {"experiments", "cms_content"} \subseteq Cat!Tables
    BY DEF Cat!Tables, Cat!Keyed
  <2>2. CASE Cat!DeleteExperiment(c, k)
    BY <2>1, <2>2, CatDeleteKeeps DEF Cat!DeleteExperiment, Cat!delete_experiment
  <2>3. CASE Cat!DeleteCmsContent(c, k)
    BY <2>1, <2>3, CatDeleteKeeps DEF Cat!DeleteCmsContent, Cat!delete_cms_content
  <2> QED BY <1>3, <2>2, <2>3
<1>4. {"experiments", "translations", "cms_content", "notification_templates"} \subseteq Cat!Keyed
  BY DEF Cat!Keyed
<1>5. ASSUME NEW k, NEW v, NEW on PROVE "key" \in DOMAIN Cat!Switch(k, v, on)
  BY DEF Cat!Switch
<1>6. ASSUME NEW v \in Values, NEW n \in KeyNames, NEW on \in BOOLEAN, Cat!UpsertExperiment(c, n, v, on) PROVE CatInv'
  BY <1>4, <1>5, <1>6, CatUpsertKeeps DEF Cat!UpsertExperiment, Cat!upsert_experiment
<1>7. ASSUME NEW v \in Values, NEW k \in Keys, NEW l \in Keys,
             Cat!UpsertTranslation(c, l, k, v) \/ Cat!UpsertCmsContent(c, k, v, l)
      PROVE  CatInv'
  <2>1. CASE Cat!UpsertTranslation(c, l, k, v)
    <3>1. "key" \in DOMAIN Cat!Row(<<l, k>>, v)
      BY DEF Cat!Row
    <3> QED BY <1>4, <3>1, <2>1, CatUpsertKeeps DEF Cat!UpsertTranslation, Cat!upsert_translation
  <2>2. CASE Cat!UpsertCmsContent(c, k, v, l)
    <3>1. "key" \in DOMAIN Cat!CmsRow(k, v, l)
      BY DEF Cat!CmsRow
    <3> QED BY <1>4, <3>1, <2>2, CatUpsertKeeps DEF Cat!UpsertCmsContent, Cat!upsert_cms_content
  <2> QED BY <1>7, <2>1, <2>2
<1>8. ASSUME NEW v \in Values, NEW k \in Keys, NEW on \in BOOLEAN, Cat!UpsertTemplate(c, k, v, on) PROVE CatInv'
  BY <1>4, <1>5, <1>8, CatUpsertKeeps DEF Cat!UpsertTemplate, Cat!upsert_notification_template
<1> QED BY <1>1, <1>2, <1>3, <1>6, <1>7, <1>8 DEF Cat!Content

LEMMA IntegrationsKeep == ASSUME CatInv, NEW c \in Callers, Cat!Integrations(c) PROVE CatInv'
<1>1. CASE Cat!ListLegalDocs(c) \/ Cat!ListAbuseRules(c) \/ Cat!ListApiKeys(c) \/ Cat!ListWebhooks(c)
  BY <1>1, CatReadKeeps DEF Cat!ListLegalDocs, Cat!ListAbuseRules, Cat!ListApiKeys, Cat!ListWebhooks
<1>2. {"legal_doc_versions", "abuse_rules", "api_keys", "webhook_subscriptions"} \subseteq Cat!Tables \cap Cat!ById
  BY DEF Cat!Tables, Cat!ById
<1>3. ASSUME NEW i \in RowIds, Cat!DeleteAbuseRule(c, i) \/ Cat!DeleteWebhook(c, i) PROVE CatInv'
  <2>1. CASE Cat!DeleteAbuseRule(c, i)
    BY <1>2, <2>1, CatDeleteKeeps DEF Cat!DeleteAbuseRule, Cat!delete_abuse_rule
  <2>2. CASE Cat!DeleteWebhook(c, i)
    BY <1>2, <2>2, CatDeleteKeeps DEF Cat!DeleteWebhook, Cat!delete_webhook
  <2> QED BY <1>3, <2>1, <2>2
<1>4. ASSUME NEW i \in RowIds, Cat!RevokeApiKey(c, i) PROVE CatInv'
  <2> DEFINE lines == Cat!Set("api_keys", i, "on", FALSE)
  <2>1. TableFits("api_keys", lines, store["plans"])
    BY <1>2, SetKeeps DEF CatInv, CatTables
  <2>2. Cat!Write(c, "apikeys.write", "api_keys", lines, {})
    BY <1>4 DEF Cat!RevokeApiKey, Cat!revoke_api_key
  <2> HIDE DEF lines
  <2> QED BY <1>2, <2>1, <2>2, CatWriteKeeps
<1>5. ASSUME NEW k, NEW v PROVE "key" \in DOMAIN Cat!Row(k, v) /\ Cat!Row(k, v).key = k
  BY DEF Cat!Row
<1>6. ASSUME NEW k, NEW v, NEW on PROVE "key" \in DOMAIN Cat!Switch(k, v, on) /\ Cat!Switch(k, v, on).key = k
  BY DEF Cat!Switch
<1>7. ASSUME NEW k, NEW v PROVE "key" \in DOMAIN Cat!Secret(k, v) /\ Cat!Secret(k, v).key = k
  BY DEF Cat!Secret
<1>8. ASSUME NEW i \in RowIds, NEW v \in Values, Cat!CreateLegalDoc(c, i, v) PROVE CatInv'
  BY <1>2, <1>5, <1>8, CatInsertKeeps DEF Cat!CreateLegalDoc, Cat!create_legal_doc
<1>9. ASSUME NEW i \in RowIds, NEW v \in Values, Cat!CreateApiKey(c, i, v) PROVE CatInv'
  BY <1>2, <1>7, <1>9, CatInsertKeeps DEF Cat!CreateApiKey, Cat!create_api_key
<1>10. ASSUME NEW i \in RowIds, NEW v \in Values, Cat!CreateWebhook(c, i, v) PROVE CatInv'
  BY <1>2, <1>7, <1>10, CatInsertKeeps DEF Cat!CreateWebhook, Cat!create_webhook
<1>11. ASSUME NEW i \in RowIds, NEW v \in Values, NEW on \in BOOLEAN, Cat!UpsertAbuseRule(c, i, v, on) PROVE CatInv'
  BY <1>2, <1>6, <1>11, CatInsertKeeps DEF Cat!UpsertAbuseRule, Cat!upsert_abuse_rule
<1> QED BY <1>1, <1>3, <1>4, <1>8, <1>9, <1>10, <1>11 DEF Cat!Integrations

-----------------------------------------------------------------------------
(* Rolling back.                                                           *)
Stands(p, q, c, s, i) == IF p[c] = s /\ q[c].key = i THEN 1 ELSE 0

LEMMA RollsMove ==
  ASSUME NEW c \in Callers, \A d \in Callers : d # c => step'[d] = step[d] /\ local'[d] = local[d],
         NEW s, NEW i
  PROVE  Cardinality(RollsBack(step', local', s, i)) + Stands(step, local, c, s, i)
           = Cardinality(RollsBack(step, local, s, i)) + Stands(step', local', c, s, i)
<1> DEFINE S == RollsBack(step, local, s, i)
           T == RollsBack(step', local', s, i)
<1>1. IsFiniteSet(S) /\ T \ {c} = S \ {c}
  <2>1. IsFiniteSet(S)
    BY RollsBackFew
  <2>2. ASSUME NEW d, d # c PROVE d \in T <=> d \in S
    BY <2>2 DEF RollsBack
  <2> QED BY <2>1, <2>2, Zenon
<1>2. (c \in S <=> step[c] = s /\ local[c].key = i) /\ (c \in T <=> step'[c] = s /\ local'[c].key = i)
  BY DEF RollsBack
<1> HIDE DEF S, T
<1>3. Cardinality(T) + One(c \in S) = Cardinality(S) + One(c \in T)
  BY <1>1, OneMoves
<1> QED BY <1>2, <1>3 DEF One, Stands, S, T

(* What a caller's step of a rollback of version i leaves of the counts,   *)
(* by the step it leaves and the one it goes to.                           *)
Shifts(p, q, p2, q2, i, s, s2) ==
  /\ \A t \in {"restore", "mark"}, j \in RowIds : j # i =>
       Cardinality(RollsBack(p2, q2, t, j)) = Cardinality(RollsBack(p, q, t, j))
  /\ \A t \in {"restore", "mark"} :
       Cardinality(RollsBack(p2, q2, t, i)) + One(s = t) = Cardinality(RollsBack(p, q, t, i)) + One(s2 = t)

LEMMA CountsMove ==
  ASSUME NEW c \in Callers, NEW i \in RowIds,
         \A d \in Callers : d # c => step'[d] = step[d] /\ local'[d] = local[d],
         step[c] # "idle" => local[c].key = i, step'[c] # "idle" => local'[c].key = i
  PROVE  Shifts(step, local, step', local', i, step[c], step'[c])
<1>2. ASSUME NEW t \in {"restore", "mark"}, NEW j \in RowIds
      PROVE  Cardinality(RollsBack(step', local', t, j)) + Stands(step, local, c, t, j)
               = Cardinality(RollsBack(step, local, t, j)) + Stands(step', local', c, t, j)
  BY RollsMove
<1>3. ASSUME NEW t \in {"restore", "mark"}, NEW j \in RowIds, j # i
      PROVE  Cardinality(RollsBack(step', local', t, j)) = Cardinality(RollsBack(step, local, t, j))
  <2>1. Stands(step, local, c, t, j) = 0 /\ Stands(step', local', c, t, j) = 0
    BY <1>3 DEF Stands
  <2>2. /\ Cardinality(RollsBack(step', local', t, j)) \in Nat
        /\ Cardinality(RollsBack(step, local, t, j)) \in Nat
    BY RollsBackFew
  <2>3. Cardinality(RollsBack(step', local', t, j)) + 0 = Cardinality(RollsBack(step, local, t, j)) + 0
    BY <1>2, <2>1
  <2> QED BY <2>2, <2>3
<1>4. ASSUME NEW t \in {"restore", "mark"}
      PROVE  Cardinality(RollsBack(step', local', t, i)) + One(step[c] = t)
               = Cardinality(RollsBack(step, local, t, i)) + One(step'[c] = t)
  <2>1. Stands(step, local, c, t, i) = One(step[c] = t) /\ Stands(step', local', c, t, i) = One(step'[c] = t)
    BY <1>4 DEF Stands, One
  <2> QED BY <1>2, <2>1
<1> QED BY <1>3, <1>4 DEF Shifts

LEMMA CatOnlyCalls ==
  ASSUME CatInv, UNCHANGED store
  PROVE  CatTables'
BY DEF CatInv, CatTables

LEMMA CreateVersionKeeps ==
  ASSUME CatInv, NEW c \in Callers, NEW i \in RowIds, NEW t \in Cat!Restorable, NEW k \in Keys, NEW v \in Values,
         Cat!create_config_version(c, i, t, k, v)
  PROVE  CatInv'
<1> DEFINE ver == Cat!Version(i, t, k, v, FALSE)
           lines == store["config_versions"] \cup {ver}
<1>1. ver \in CfgVersion /\ ver.key = i /\ ver.spent = FALSE /\ "key" \in DOMAIN ver
  BY DEF Cat!Version, CfgVersion
<1> HIDE DEF ver
<1>2. /\ store' = [store EXCEPT !["config_versions"] = lines] /\ UNCHANGED <<step, local, restores, unmarked>>
      /\ \A w \in store["config_versions"] : w.key # i
  BY DEF Cat!create_config_version, Cat!Write, Cat!Insert, Cat!Fresh, Cat!Has, ver
<1>3. "config_versions" \in Cat!Tables
  BY DEF Cat!Tables, Cat!ById
<1>4. TableFits("config_versions", store["config_versions"], store["plans"])
  BY <1>3 DEF CatInv, CatTables
<1>5. TableFits("config_versions", lines, store["plans"])
  <2>1. "config_versions" \notin Cat!Keyed
    BY DEF Cat!Keyed
  <2>2. Unique(lines)
    BY <1>1, <1>2, <1>4 DEF TableFits, Unique
  <2> QED BY <1>1, <1>4, <2>1, <2>2 DEF TableFits
<1>6. CatTables' /\ store'["config_versions"] = lines
  BY <1>2, <1>3, <1>5, CatTablesMove DEF CatInv
<1>7. CatCalls'
  BY <1>2, <1>6 DEF CatInv, CatCalls
<1>8. VersionFits(ver, step, local, restores[ver.key], unmarked[ver.key])
  <2>1. restores[i] = 0 /\ unmarked[i] \in Nat
    BY <1>2 DEF CatInv, CatCounts
  <2>2. Cardinality(RollsBack(step, local, "mark", i)) \in Nat
    BY RollsBackFew
  <2> QED BY <1>1, <2>1, <2>2 DEF VersionFits
<1>9. CatCounts'
  <2>1. \A w \in lines : VersionFits(w, step, local, restores[w.key], unmarked[w.key])
    BY <1>8 DEF CatInv, CatCounts
  <2>2. \A w \in store["config_versions"] : w \in lines
    OBVIOUS
  <2> HIDE DEF lines
  <2>3. ASSUME NEW j \in RowIds, \A w \in lines : w.key # j PROVE restores[j] = 0
    BY <2>2, <2>3 DEF CatInv, CatCounts
  <2> QED BY <1>2, <1>6, <2>1, <2>3 DEF CatInv, CatCounts
<1> QED BY <1>6, <1>7, <1>9 DEF CatInv

LEMMA ReadKeeps ==
  ASSUME CatInv, NEW c \in Callers, NEW version \in store["config_versions"], Cat!RollbackRead(c, version)
  PROVE  CatInv'
<1>1. /\ step[c] = "idle" /\ ~version.spent
      /\ step' = [step EXCEPT ![c] = "restore"] /\ local' = [local EXCEPT ![c] = version]
      /\ UNCHANGED <<store, restores, unmarked>>
  BY DEF Cat!RollbackRead, Cat!RollbackStart
<1>2. "config_versions" \in Cat!Tables
  BY DEF Cat!Tables, Cat!ById
<1>3. version \in CfgVersion /\ version.key \in RowIds /\ Unique(store["config_versions"])
  BY <1>2 DEF CatInv, CatTables, TableFits, CfgVersion
<1>4. CatTables'
  BY <1>1, CatOnlyCalls
<1>5. version # Nothing
  BY <1>3, CallersAreFew DEF CfgVersion
<1>6. CatCalls'
  <2>1. step' \in [Callers -> {"idle", "restore", "mark"}] /\ DOMAIN local' = Callers
    BY <1>1 DEF CatInv, CatCalls
  <2>2. step'[c] = "restore" /\ local'[c] = version
    BY <1>1 DEF CatInv, CatCalls
  <2>3. \A d \in Callers : d # c => step'[d] = step[d] /\ local'[d] = local[d]
    BY <1>1 DEF CatInv, CatCalls
  <2>4. /\ step'[c] = "idle" <=> local'[c] = Nothing
        /\ local'[c] \in CfgVersion /\ \E v \in store'["config_versions"] : v.key = local'[c].key
        /\ step'[c] # "mark"
    BY <1>1, <1>3, <1>5, <2>2
  <2>5. ASSUME NEW d \in Callers, d # c
        PROVE /\ step'[d] = "idle" <=> local'[d] = Nothing
              /\ step'[d] # "idle" => local'[d] \in CfgVersion /\
                   \E v \in store'["config_versions"] : v.key = local'[d].key
              /\ step'[d] = "mark" => restores'[local'[d].key] > 0
    BY <1>1, <2>3, <2>5 DEF CatInv, CatCalls
  <2> QED BY <2>1, <2>4, <2>5 DEF CatCalls
<1>7. Shifts(step, local, step', local', version.key, "idle", "restore")
  <2>1. /\ step'[c] = "restore" /\ local'[c] = version
        /\ \A d \in Callers : d # c => step'[d] = step[d] /\ local'[d] = local[d]
    BY <1>1 DEF CatInv, CatCalls
  <2> QED BY <1>1, <1>3, <2>1, CountsMove
<1>8. ASSUME NEW v \in store["config_versions"]
      PROVE  VersionFits(v, step', local', restores[v.key], unmarked[v.key])
  <2>1. VersionFits(v, step, local, restores[v.key], unmarked[v.key])
    BY DEF CatInv, CatCounts
  <2>2. v.key \in RowIds
    BY <1>2 DEF CatInv, CatTables, TableFits, CfgVersion
  <2>3. CASE v.key # version.key
    BY <1>7, <2>1, <2>2, <2>3 DEF VersionFits, Shifts
  <2>4. CASE v.key = version.key
    <3>1. v = version /\ ~v.spent
      BY <1>1, <1>3, <2>4 DEF Unique
    <3>2. Cardinality(RollsBack(step', local', "mark", v.key)) = Cardinality(RollsBack(step, local, "mark", v.key))
      BY <1>1, <1>7, <2>4, RollsBackFew DEF One, Shifts
    <3> QED BY <2>1, <3>1, <3>2 DEF VersionFits
  <2> QED BY <2>3, <2>4
<1>9. CatCounts'
  BY <1>1, <1>8 DEF CatInv, CatCounts
<1> QED BY <1>4, <1>6, <1>9 DEF CatInv

(* A caller's step that leaves it idle keeps what holds of the calls.      *)
LEMMA CallsLeave ==
  ASSUME CatInv, NEW c \in Callers, step' = [step EXCEPT ![c] = "idle"], local' = [local EXCEPT ![c] = Nothing],
         UNCHANGED restores,
         \A v \in store["config_versions"] : \E w \in store'["config_versions"] : w.key = v.key
  PROVE  CatCalls'
<1>1. step' \in [Callers -> {"idle", "restore", "mark"}] /\ DOMAIN local' = Callers
  BY DEF CatInv, CatCalls
<1>2. step'[c] = "idle" /\ local'[c] = Nothing
  BY DEF CatInv, CatCalls
<1>3. \A d \in Callers : d # c => step'[d] = step[d] /\ local'[d] = local[d]
  BY DEF CatInv, CatCalls
<1>4. ASSUME NEW d \in Callers, d # c
      PROVE /\ step'[d] = "idle" <=> local'[d] = Nothing
            /\ step'[d] # "idle" => local'[d] \in CfgVersion /\
                 \E v \in store'["config_versions"] : v.key = local'[d].key
            /\ step'[d] = "mark" => restores'[local'[d].key] > 0
  BY <1>3, <1>4 DEF CatInv, CatCalls
<1> QED BY <1>1, <1>2, <1>4 DEF CatCalls

LEMMA RestoreKeeps == ASSUME CatInv, NEW c \in Callers, Cat!RollbackRestore(c) PROVE CatInv'
<1> DEFINE v == local[c]
           col == IF v.table = "plans" THEN "description" ELSE "val"
           lines == Cat!Set(v.table, v.row, col, v.val)
           i == v.key
<1>1. step[c] = "restore" /\ UNCHANGED unmarked
  BY DEF Cat!RollbackRestore
<1>2. v \in CfgVersion /\ i \in RowIds /\ v.table \in Cat!Restorable /\ v.table \in Cat!Tables /\
          v.table # "config_versions"
  BY <1>1 DEF CatInv, CatCalls, CfgVersion, Cat!Restorable, Cat!Tables, Cat!Keyed
<1>3. "config_versions" \in Cat!Tables
  BY DEF Cat!Tables, Cat!ById
<1>4. CASE ~Cat!Has(v.table, v.row)
  <2>1. /\ step' = [step EXCEPT ![c] = "idle"] /\ local' = [local EXCEPT ![c] = Nothing]
        /\ UNCHANGED <<store, restores>>
    BY <1>4 DEF Cat!RollbackRestore
  <2>2. CatTables'
    BY <2>1, CatOnlyCalls
  <2>3. CatCalls'
    BY <2>1, CallsLeave
  <2> HIDE DEF v, i
  <2>4. Shifts(step, local, step', local', i, "restore", "idle")
    <3>1. /\ step'[c] = "idle" /\ (step'[c] # "idle" => local'[c].key = i) /\ local[c].key = i
          /\ \A d \in Callers : d # c => step'[d] = step[d] /\ local'[d] = local[d]
      BY <1>2, <2>1 DEF CatInv, CatCalls, v, i
    <3> QED BY <1>1, <1>2, <3>1, CountsMove
  <2>5. ASSUME NEW w \in store["config_versions"]
        PROVE  VersionFits(w, step', local', restores[w.key], unmarked[w.key])
    <3>1. VersionFits(w, step, local, restores[w.key], unmarked[w.key])
      BY DEF CatInv, CatCounts
    <3>2. w.key \in RowIds
      BY <1>3 DEF CatInv, CatTables, TableFits, CfgVersion
    <3>3. CASE w.key # i
      BY <2>4, <3>1, <3>2, <3>3 DEF VersionFits, Shifts
    <3>4. CASE w.key = i
      <4>1. /\ Cardinality(RollsBack(step', local', "mark", i)) \in Nat
            /\ Cardinality(RollsBack(step, local, "mark", i)) \in Nat
            /\ Cardinality(RollsBack(step', local', "restore", i)) \in Nat
            /\ Cardinality(RollsBack(step, local, "restore", i)) \in Nat
            /\ Cardinality(Callers) \in Nat
        BY RollsBackFew
      <4>2. One("restore" = "mark") = 0 /\ One("restore" = "restore") = 1 /\ One("idle" = "mark") = 0 /\
                One("idle" = "restore") = 0
        BY DEF One
      <4>3. /\ Cardinality(RollsBack(step', local', "mark", i)) + 0 =
                Cardinality(RollsBack(step, local, "mark", i)) + 0
            /\ Cardinality(RollsBack(step', local', "restore", i)) + 1 =
                 Cardinality(RollsBack(step, local, "restore", i)) + 0
        BY <2>4, <4>2 DEF Shifts
      <4>4. restores[i] \in Nat /\ unmarked[i] \in Nat
        BY <1>2 DEF CatInv, CatCounts
      <4> QED BY <3>1, <3>4, <4>1, <4>3, <4>4 DEF VersionFits
    <3> QED BY <3>3, <3>4
  <2>6. CatCounts'
    BY <1>1, <2>1, <2>5 DEF CatInv, CatCounts
  <2> QED BY <2>2, <2>3, <2>6 DEF CatInv
<1>5. CASE Cat!Has(v.table, v.row)
  <2>1. /\ store' = [store EXCEPT ![v.table] = lines]
        /\ restores' = [restores EXCEPT ![i] = @ + 1]
        /\ step' = [step EXCEPT ![c] = "mark"] /\ local' = local
    BY <1>5 DEF Cat!RollbackRestore
  <2>2. TableFits(v.table, lines, store["plans"]) /\ \A x \in store[v.table] : \E y \in lines : y.key = x.key
    <3>1. col # "key" /\ TableFits(v.table, store[v.table], store["plans"])
      BY <1>2 DEF CatInv, CatTables
    <3>2. ASSUME NEW u \in Cat!Tables, u # "config_versions", NEW k, NEW a, a # "key", NEW b,
                 TableFits(u, store[u], store["plans"])
          PROVE  /\ TableFits(u, Cat!Set(u, k, a, b), store["plans"])
                 /\ \A x \in store[u] : \E y \in Cat!Set(u, k, a, b) : y.key = x.key
      BY <3>2, SetKeeps
    <3> QED BY <1>2, <3>1, <3>2
  <2> HIDE DEF lines
  <2>3. CatTables' /\ store'["config_versions"] = store["config_versions"]
    BY <1>2, <1>3, <2>1, <2>2, CatTablesMove DEF CatInv
  <2>4. /\ restores' \in [RowIds -> Nat] /\ restores[i] \in Nat /\ restores'[i] = restores[i] + 1
        /\ \A j \in RowIds : j # i => restores'[j] = restores[j]
    BY <1>2, <2>1 DEF CatInv, CatCounts
  <2>5. CatCalls'
    <3>1. /\ step' \in [Callers -> {"idle", "restore", "mark"}] /\ DOMAIN local' = Callers
          /\ step'[c] = "mark" /\ \A d \in Callers : d # c => step'[d] = step[d]
      BY <2>1 DEF CatInv, CatCalls
    <3>2. ASSUME NEW d \in Callers
          PROVE /\ step'[d] = "idle" <=> local'[d] = Nothing
                /\ step'[d] # "idle" => local'[d] \in CfgVersion /\
                     \E x \in store'["config_versions"] : x.key = local'[d].key
      BY <1>1, <2>1, <2>3, <3>1 DEF CatInv, CatCalls
    <3>3. ASSUME NEW d \in Callers, step'[d] = "mark" PROVE restores'[local'[d].key] > 0
      <4>1. local'[d].key \in RowIds
        BY <3>2, <3>3 DEF CfgVersion
      <4>2. CASE local'[d].key = i
        BY <2>4, <4>2 DEF Shifts
      <4>3. CASE local'[d].key # i
        BY <2>1, <2>4, <3>1, <3>3, <4>1, <4>3 DEF CatInv, CatCalls
      <4> QED BY <4>2, <4>3
    <3> QED BY <3>1, <3>2, <3>3 DEF CatCalls
  <2> HIDE DEF v, i
  <2>7. Shifts(step, local, step', local', i, "restore", "mark")
    <3>1. /\ step'[c] = "mark" /\ (step'[c] # "idle" => local'[c].key = i) /\ local[c].key = i
          /\ \A d \in Callers : d # c => step'[d] = step[d] /\ local'[d] = local[d]
      BY <1>2, <2>1 DEF CatInv, CatCalls, v, i
    <3> QED BY <1>1, <1>2, <3>1, CountsMove
  <2>8. ASSUME NEW w \in store["config_versions"]
        PROVE  VersionFits(w, step', local', restores'[w.key], unmarked[w.key])
    <3>1. VersionFits(w, step, local, restores[w.key], unmarked[w.key])
      BY DEF CatInv, CatCounts
    <3>2. w.key \in RowIds
      BY <1>3 DEF CatInv, CatTables, TableFits, CfgVersion
    <3>3. CASE w.key # i
      BY <2>4, <2>7, <3>1, <3>2, <3>3 DEF VersionFits, Shifts
    <3>4. CASE w.key = i
      <4>1. /\ Cardinality(RollsBack(step', local', "mark", i)) \in Nat
            /\ Cardinality(RollsBack(step, local, "mark", i)) \in Nat
            /\ Cardinality(RollsBack(step', local', "restore", i)) \in Nat
            /\ Cardinality(RollsBack(step, local, "restore", i)) \in Nat
            /\ Cardinality(Callers) \in Nat
        BY RollsBackFew
      <4>2. One("restore" = "mark") = 0 /\ One("restore" = "restore") = 1 /\ One("mark" = "mark") = 1 /\
                One("mark" = "restore") = 0
        BY DEF One
      <4>3. /\ Cardinality(RollsBack(step', local', "mark", i)) + 0 =
                Cardinality(RollsBack(step, local, "mark", i)) + 1
            /\ Cardinality(RollsBack(step', local', "restore", i)) + 1 =
                 Cardinality(RollsBack(step, local, "restore", i)) + 0
        BY <2>7, <4>2 DEF Shifts
      <4>4. unmarked[i] \in Nat
        BY <1>2 DEF CatInv, CatCounts
      <4> QED BY <2>4, <3>1, <3>4, <4>1, <4>3, <4>4 DEF VersionFits
    <3> QED BY <3>3, <3>4
  <2>9. \A j \in RowIds : (\A w \in store["config_versions"] : w.key # j) => restores'[j] = 0
    <3>1. \E w \in store["config_versions"] : w.key = i
      BY <1>1 DEF CatInv, CatCalls, v, i
    <3> QED BY <2>4, <3>1 DEF CatInv, CatCounts
  <2>10. CatCounts'
    BY <1>1, <2>3, <2>4, <2>8, <2>9 DEF CatInv, CatCounts
  <2> QED BY <2>3, <2>5, <2>10 DEF CatInv
<1> QED BY <1>4, <1>5

LEMMA MarkKeeps == ASSUME CatInv, NEW c \in Callers, Cat!RollbackMark(c) PROVE CatInv'
<1> DEFINE old == store["config_versions"]
           i == local[c].key
           new(w) == IF w.key = i THEN [w EXCEPT !["spent"] = TRUE] ELSE w
           lines == Cat!Set("config_versions", i, "spent", TRUE)
<1>1. /\ step[c] = "mark" /\ UNCHANGED <<restores, unmarked>>
      /\ store' = [store EXCEPT !["config_versions"] = lines]
      /\ step' = [step EXCEPT ![c] = "idle"] /\ local' = [local EXCEPT ![c] = Nothing]
  BY DEF Cat!RollbackMark
<1>2. "config_versions" \in Cat!Tables /\ "config_versions" \notin Cat!Keyed
  BY DEF Cat!Tables, Cat!ById, Cat!Keyed
<1>3. old \subseteq CfgVersion /\ Unique(old) /\ TableFits("config_versions", old, store["plans"])
  BY <1>2 DEF CatInv, CatTables, TableFits
<1>4. i \in RowIds /\ restores[i] > 0
  BY <1>1 DEF CatInv, CatCalls, CfgVersion
<1>5. lines = {new(w) : w \in old}
  BY DEF Cat!Set
<1> HIDE DEF lines
<1>6. ASSUME NEW w \in old
      PROVE  new(w) \in CfgVersion /\ new(w).key = w.key /\ (w.key = i => new(w).spent = TRUE) /\
                (w.key # i => new(w) = w)
  <2>1. w \in CfgVersion
    BY <1>3
  <2> QED BY <2>1 DEF CfgVersion
<1> HIDE DEF i, old, new
<1>7. TableFits("config_versions", lines, store["plans"])
  <2>1. lines \subseteq CfgVersion
    BY <1>5, <1>6
  <2>2. Unique(lines)
    <3>1. ASSUME NEW x \in lines, NEW y \in lines, x.key = y.key PROVE x = y
      <4>1. PICK a \in old : x = new(a)
        BY <1>5
      <4>2. PICK b \in old : y = new(b)
        BY <1>5
      <4>3. a.key = b.key
        BY <1>6, <3>1, <4>1, <4>2
      <4>4. a = b
        BY <1>3, <4>3 DEF Unique
      <4> QED BY <4>1, <4>2, <4>4
    <3> QED BY <3>1 DEF Unique
  <2>3. \A x \in lines : "key" \in DOMAIN x /\ x.key \in RowIds
    BY <2>1 DEF CfgVersion
  <2> QED BY <1>2, <2>1, <2>2, <2>3 DEF TableFits
<1>8. CatTables' /\ store'["config_versions"] = lines
  BY <1>1, <1>2, <1>7, CatTablesMove DEF CatInv
<1>9. \A w \in old : new(w) \in lines /\ new(w).key = w.key
  BY <1>5, <1>6
<1>10. CatCalls'
  BY <1>1, <1>8, <1>9, CallsLeave DEF old
<1>11. Shifts(step, local, step', local', i, "mark", "idle")
  <2>1. /\ step'[c] = "idle" /\ local[c].key = i
        /\ \A d \in Callers : d # c => step'[d] = step[d] /\ local'[d] = local[d]
    BY <1>1 DEF CatInv, CatCalls, i
  <2> QED BY <1>1, <1>4, <2>1, CountsMove
<1>12. ASSUME NEW w \in old
       PROVE  VersionFits(new(w), step', local', restores[w.key], unmarked[w.key])
  <2>1. VersionFits(w, step, local, restores[w.key], unmarked[w.key]) /\ w.key \in RowIds
    BY <1>3 DEF CatInv, CatCounts, old, CfgVersion
  <2>2. CASE w.key # i
    BY <1>6, <1>11, <2>1, <2>2 DEF VersionFits, Shifts
  <2>3. CASE w.key = i
    <3>1. /\ Cardinality(RollsBack(step, local, "mark", i)) \in Nat
          /\ Cardinality(RollsBack(step', local', "restore", i)) \in Nat
          /\ Cardinality(RollsBack(step, local, "restore", i)) \in Nat
          /\ Cardinality(Callers) \in Nat
          /\ Cardinality(RollsBack(step, local, "restore", i))
               + Cardinality(RollsBack(step, local, "mark", i)) <= Cardinality(Callers)
      BY RollsBackFew
    <3>2. One("mark" = "restore") = 0 /\ One("idle" = "restore") = 0
      BY DEF One
    <3>3. Cardinality(RollsBack(step', local', "restore", i)) + 0 =
              Cardinality(RollsBack(step, local, "restore", i)) + 0
      BY <1>11, <3>2 DEF Shifts
    <3>4. restores[i] \in Nat /\ unmarked[i] \in Nat
      BY <1>4 DEF CatInv, CatCounts
    <3>5. new(w).key = i /\ new(w).spent = TRUE
      BY <1>6, <2>3
    <3> QED BY <1>4, <2>1, <2>3, <3>1, <3>3, <3>4, <3>5 DEF VersionFits
  <2> QED BY <2>2, <2>3
<1>13. CatCounts'
  <2>1. \A x \in lines : VersionFits(x, step', local', restores[x.key], unmarked[x.key])
    BY <1>5, <1>6, <1>12
  <2>2. \A j \in RowIds : (\A x \in lines : x.key # j) => restores[j] = 0
    BY <1>9 DEF CatInv, CatCounts, old
  <2> QED BY <1>1, <1>8, <2>1, <2>2 DEF CatInv, CatCounts
<1> QED BY <1>8, <1>10, <1>13 DEF CatInv

LEMMA FailsKeeps == ASSUME CatInv, NEW c \in Callers, Cat!RollbackFails(c) PROVE CatInv'
<1> DEFINE i == local[c].key
           s == step[c]
<1>1. /\ s # "idle" /\ UNCHANGED <<store, restores>>
      /\ unmarked' = [unmarked EXCEPT ![i] = IF s = "mark" THEN @ + 1 ELSE @]
      /\ step' = [step EXCEPT ![c] = "idle"] /\ local' = [local EXCEPT ![c] = Nothing]
  BY DEF Cat!RollbackFails
<1>2. s \in {"restore", "mark"} /\ i \in RowIds
  BY <1>1 DEF CatInv, CatCalls, CfgVersion
<1>3. CatTables'
  BY <1>1, CatOnlyCalls
<1>4. CatCalls'
  BY <1>1, CallsLeave
<1>5. /\ unmarked' \in [RowIds -> Nat] /\ \A j \in RowIds : j # i => unmarked'[j] = unmarked[j]
      /\ unmarked'[i] = unmarked[i] + One(s = "mark") /\ unmarked[i] \in Nat
  BY <1>1, <1>2 DEF CatInv, CatCounts, One
<1>6. Shifts(step, local, step', local', i, s, "idle")
  <2>1. /\ step'[c] = "idle"
        /\ \A d \in Callers : d # c => step'[d] = step[d] /\ local'[d] = local[d]
    BY <1>1 DEF CatInv, CatCalls
  <2> QED BY <1>2, <2>1, CountsMove
<1> HIDE DEF i, s
<1>7. ASSUME NEW w \in store["config_versions"]
      PROVE  VersionFits(w, step', local', restores[w.key], unmarked'[w.key])
  <2>1. VersionFits(w, step, local, restores[w.key], unmarked[w.key])
    BY DEF CatInv, CatCounts
  <2>2. w.key \in RowIds
    BY DEF CatInv, CatTables, TableFits, CfgVersion, Cat!Tables, Cat!ById
  <2>3. CASE w.key # i
    BY <1>5, <1>6, <2>1, <2>2, <2>3 DEF VersionFits, Shifts
  <2>4. CASE w.key = i
    <3>1. /\ Cardinality(RollsBack(step, local, "mark", i)) \in Nat
          /\ Cardinality(RollsBack(step', local', "mark", i)) \in Nat
          /\ Cardinality(RollsBack(step', local', "restore", i)) \in Nat
          /\ Cardinality(RollsBack(step, local, "restore", i)) \in Nat
          /\ Cardinality(Callers) \in Nat
      BY RollsBackFew
    <3>2. One("idle" = "restore") = 0 /\ One("idle" = "mark") = 0 /\ One(s = "mark") \in Nat /\
              One(s = "restore") \in Nat
      BY DEF One
    <3>3. /\ Cardinality(RollsBack(step', local', "restore", i)) + One(s = "restore") =
              Cardinality(RollsBack(step, local, "restore", i)) + 0
          /\ Cardinality(RollsBack(step', local', "mark", i)) + One(s = "mark") =
               Cardinality(RollsBack(step, local, "mark", i)) + 0
      BY <1>6, <3>2 DEF Shifts
    <3>4. restores[i] \in Nat
      BY <1>2 DEF CatInv, CatCounts
    <3> QED BY <1>5, <2>1, <2>4, <3>1, <3>2, <3>3, <3>4 DEF VersionFits
  <2> QED BY <2>3, <2>4
<1>8. CatCounts'
  BY <1>1, <1>5, <1>7 DEF CatInv, CatCounts
<1> QED BY <1>3, <1>4, <1>8 DEF CatInv

-----------------------------------------------------------------------------
LEMMA CatInitInv == Cat!Init => CatInv
<1> SUFFICES ASSUME Cat!Init PROVE CatInv
  OBVIOUS
<1>1. \A t \in Cat!Tables : store[t] = {}
  BY DEF Cat!Init
<1>2. "config_versions" \in Cat!Tables
  BY DEF Cat!Tables, Cat!ById
<1>3. CatTables
  BY <1>1 DEF CatTables, TableFits, Unique, Cat!Init
<1>4. CatCalls
  BY DEF CatCalls, Cat!Init
<1>5. CatCounts
  BY <1>1, <1>2 DEF CatCounts, Cat!Init
<1> QED BY <1>3, <1>4, <1>5 DEF CatInv

LEMMA CatStepInv == ASSUME CatInv, Cat!Next PROVE CatInv'
<1>1. PICK c \in Callers : Cat!Settings(c) \/ Cat!Content(c) \/ Cat!Integrations(c) \/ Cat!History(c)
  BY DEF Cat!Next
<1>2. CASE Cat!History(c)
  <2>1. CASE Cat!ListConfigVersions(c)
    BY <2>1, CatReadKeeps DEF Cat!ListConfigVersions
  <2> QED BY <1>2, <2>1, CreateVersionKeeps, ReadKeeps, RestoreKeeps, MarkKeeps, FailsKeeps DEF Cat!History
<1> QED BY <1>1, <1>2, SettingsKeep, ContentKeep, IntegrationsKeep

LEMMA CatUntouched == CatInv /\ UNCHANGED Cat!vars => CatInv'
BY DEF CatInv, CatTables, CatCalls, CatCounts, Cat!vars

LEMMA CatInvShows == CatInv => Cat!TypeOK /\ Cat!RollbackIsHonest
<1> SUFFICES ASSUME CatInv PROVE Cat!TypeOK /\ Cat!RollbackIsHonest
  OBVIOUS
<1>1. Cat!TypeOK
  <2>1. \A t \in Cat!Keyed : \A r, q \in store[t] : r.key = q.key => r = q
    BY DEF CatInv, CatTables, TableFits, Unique, Cat!Tables
  <2>2. \A t \in Cat!ById : {r.key : r \in store[t]} \subseteq RowIds
    BY DEF CatInv, CatTables, TableFits, Cat!Tables
  <2>3. \A t \in {"plan_features", "plan_prices"} : t \in Cat!Tables
    BY DEF Cat!Tables, Cat!Keyed
  <2>4. \A t \in {"plan_features", "plan_prices"} : \A r \in store[t] : \E p \in store["plans"] : p.key = r.key[1]
    BY <2>3 DEF CatInv, CatTables, TableFits
  <2> QED BY <2>1, <2>2, <2>4 DEF Cat!TypeOK, CatInv, CatCalls, CatCounts
<1>2. ASSUME NEW v \in store["config_versions"]
      PROVE  (v.spent => restores[v.key] > 0) /\ restores[v.key] <= Cardinality(Callers) + unmarked[v.key]
  <2>1. VersionFits(v, step, local, restores[v.key], unmarked[v.key])
    BY DEF CatInv, CatCounts
  <2>2. v.key \in RowIds
    BY DEF CatInv, CatTables, TableFits, CfgVersion, Cat!Tables, Cat!ById
  <2>3. restores[v.key] \in Nat /\ unmarked[v.key] \in Nat
    BY <2>2 DEF CatInv, CatCounts
  <2>4. /\ Cardinality(RollsBack(step, local, "mark", v.key)) \in Nat
        /\ Cardinality(RollsBack(step, local, "mark", v.key)) <= Cardinality(Callers)
        /\ Cardinality(RollsBack(step, local, "restore", v.key)) \in Nat
        /\ Cardinality(Callers) \in Nat
    BY RollsBackFew
  <2> QED BY <2>1, <2>3, <2>4 DEF VersionFits
<1>3. Cat!Cardinality(Callers) = Cardinality(Callers)
  BY CatCard
<1> QED BY <1>1, <1>2, <1>3 DEF Cat!RollbackIsHonest

(* Numbers have a least, and up to a bound a greatest.                     *)
LEMMA Least == ASSUME NEW S \in SUBSET Nat, S # {} PROVE \E m \in S : \A k \in S : m <= k
<1> DEFINE R == OpToRel(<, Nat)
<1>1. IsWellFoundedOn(R, Nat)
  BY NatLessThanWellFounded
<1>2. PICK m \in S : \A k \in S : ~(<<k, m>> \in R)
  <2> HIDE DEF R
  <2> QED BY <1>1, WFMin
<1>3. \A k \in S : k \in Nat /\ m \in Nat /\ ~(k < m)
  BY <1>2 DEF OpToRel
<1> QED BY <1>3

-----------------------------------------------------------------------------
(* Lists: Sorted puts at place i the row that has i - 1 before it.         *)
LEMMA WorkCard == ASSUME NEW S PROVE Work!Cardinality(S) = Cardinality(S)
BY DEF Work!Cardinality, Cardinality

Rows(N, S) == S \subseteq 1..N
Below(S, n) == {k \in S : k < n}
Above(S, n) == {k \in S : k > n}
UpTo(S, n) == {k \in S : k <= n}
Before(S, n, up) == {k \in S : IF up THEN k < n ELSE k > n}

LEMMA FewRows ==
  ASSUME NEW N \in Nat, NEW S, Rows(N, S), NEW T \in SUBSET S
  PROVE  IsFiniteSet(T) /\ Cardinality(T) \in Nat /\ Cardinality(T) <= Cardinality(S)
<1>1. IsFiniteSet(1..N)
  BY FS_Interval
<1>2. IsFiniteSet(S)
  BY <1>1, FS_Subset DEF Rows
<1> QED BY <1>2, FS_Subset, FS_CardinalityType

LEMMA RankSets ==
  ASSUME NEW S, \A k \in S : k \in Nat, NEW n \in Nat
  PROVE  /\ n \in S => UpTo(S, n) = Below(S, n) \cup {n}
         /\ n \notin S => UpTo(S, n) = Below(S, n)
         /\ (\A k \in S : k > n) => UpTo(S, n) = {}
         /\ S = UpTo(S, n) \cup Above(S, n) /\ UpTo(S, n) \cap Above(S, n) = {} /\ n \notin Below(S, n)
<1>1. ASSUME NEW k PROVE k \in UpTo(S, n) <=> k \in Below(S, n) \/ (k = n /\ n \in S)
  BY DEF UpTo, Below
<1>2. ASSUME NEW k PROVE /\ k \in S <=> k \in UpTo(S, n) \/ k \in Above(S, n)
                        /\ ~(k \in UpTo(S, n) /\ k \in Above(S, n))
  BY DEF UpTo, Above
<1>3. (\A k \in S : k > n) => \A k : k \notin UpTo(S, n)
  BY DEF UpTo
<1>4. n \notin Below(S, n)
  BY DEF Below
<1> QED BY <1>1, <1>2, <1>3, <1>4, Zenon

LEMMA OneMore ==
  ASSUME NEW N \in Nat, NEW S, Rows(N, S), NEW n \in S
  PROVE  /\ Cardinality(UpTo(S, n)) = Cardinality(Below(S, n)) + 1
         /\ Cardinality(S) = Cardinality(UpTo(S, n)) + Cardinality(Above(S, n))
<1> DEFINE U == UpTo(S, n)
           B == Below(S, n)
           A == Above(S, n)
<1>1. n \in Nat /\ \A k \in S : k \in Nat
  BY DEF Rows
<1>2. U = B \cup {n} /\ n \notin B /\ U \cap A = {} /\ S = U \cup A
  BY <1>1, RankSets
<1>4. IsFiniteSet(U) /\ IsFiniteSet(A) /\ IsFiniteSet(B) /\ Cardinality(U) \in Nat /\ Cardinality(A) \in Nat
  BY FewRows DEF UpTo, Above, Below
<1> HIDE DEF U, A, B
<1>5. Cardinality(U) = Cardinality(B) + 1
  BY <1>2, <1>4, FS_AddElement
<1>6. Cardinality(U \cap A) = 0
  BY <1>2, FS_EmptySet
<1>7. Cardinality(U \cup A) = Cardinality(U) + Cardinality(A) - Cardinality(U \cap A)
  BY <1>4, FS_Union
<1>8. Cardinality(S) = Cardinality(U) + Cardinality(A)
  BY <1>2, <1>4, <1>6, <1>7
<1> QED BY <1>5, <1>8 DEF U, A, B

LEMMA Ranked ==
  ASSUME NEW N \in Nat, NEW S, Rows(N, S), NEW i \in 1..Cardinality(S)
  PROVE  \E n \in S : Cardinality(Below(S, n)) = i - 1
<1> DEFINE R == {n \in 0..N : Cardinality(UpTo(S, n)) >= i}
<1>0. \A k \in S : k \in Nat /\ k > 0 /\ k <= N
  BY DEF Rows
<1>1. N \in R
  <2>1. UpTo(S, N) = S
    <3>1. ASSUME NEW k PROVE k \in UpTo(S, N) <=> k \in S
      BY <1>0 DEF UpTo
    <3> QED BY <3>1, Zenon
  <2>2. Cardinality(S) \in Nat
    BY FewRows
  <2> QED BY <2>1, <2>2
<1>2. PICK n \in R : \A k \in R : n <= k
  <2>1. R \in SUBSET Nat /\ R # {}
    BY <1>1
  <2> HIDE DEF R
  <2> QED BY <2>1, Least
<1>3. n > 0
  <2>1. UpTo(S, 0) = {}
    BY <1>0, RankSets
  <2>2. Cardinality(UpTo(S, 0)) = 0
    BY <2>1, FS_EmptySet
  <2> QED BY <1>2, <2>2
<1>4. n - 1 \in 0..N /\ n - 1 \notin R
  BY <1>2, <1>3
<1>5. UpTo(S, n - 1) = Below(S, n)
  <2>1. n \in Nat
    OBVIOUS
  <2>2. ASSUME NEW k PROVE k \in UpTo(S, n - 1) <=> k \in Below(S, n)
    BY <1>0, <1>3, <2>1 DEF UpTo, Below
  <2> QED BY <2>2, Zenon
<1>6. Cardinality(Below(S, n)) \in Nat /\ Cardinality(UpTo(S, n)) \in Nat
  BY FewRows DEF Below, UpTo
<1>7. Cardinality(Below(S, n)) < i /\ Cardinality(UpTo(S, n)) >= i
  BY <1>4, <1>5, <1>6
<1>8. n \in S
  <2>1. ASSUME n \notin S PROVE UpTo(S, n) = Below(S, n)
    <3>1. \A k \in S : k \in Nat
      BY <1>0
    <3>2. n \in Nat
      BY <1>4
    <3>3. n \notin S => UpTo(S, n) = Below(S, n)
      BY <3>1, <3>2, RankSets, Zenon
    <3> QED BY <2>1, <3>3
  <2> QED BY <1>6, <1>7, <2>1
<1>9. Cardinality(UpTo(S, n)) = Cardinality(Below(S, n)) + 1
  BY <1>8, OneMore
<1> QED BY <1>6, <1>7, <1>8, <1>9

LEMMA SortedRows ==
  ASSUME NEW N \in Nat, NEW S, Rows(N, S), NEW up \in BOOLEAN
  PROVE  /\ Work!Sorted(S, up) \in Seq(S) /\ Len(Work!Sorted(S, up)) = Cardinality(S)
         /\ \A i \in 1..Cardinality(S) : Cardinality(Before(S, Work!Sorted(S, up)[i], up)) = i - 1
<1> DEFINE C == Cardinality(S)
           s == Work!Sorted(S, up)
           Sits(n, i) == Work!Cardinality({k \in S : IF up THEN k < n ELSE k > n}) = i - 1
<1>1. C \in Nat
  BY FewRows
<1>0. ASSUME NEW n, NEW i
      PROVE  /\ up => (Sits(n, i) <=> Cardinality(Below(S, n)) = i - 1)
             /\ ~up => (Sits(n, i) <=> Cardinality(Above(S, n)) = i - 1)
  <2>1. Sits(n, i) <=> Cardinality({k \in S : IF up THEN k < n ELSE k > n}) = i - 1
    BY WorkCard
  <2>2. (up => {k \in S : IF up THEN k < n ELSE k > n} = Below(S, n)) /\
            (~up => {k \in S : IF up THEN k < n ELSE k > n} = Above(S, n))
    BY DEF Below, Above
  <2> HIDE DEF Sits
  <2> QED BY <2>1, <2>2
<1>2. ASSUME NEW i \in 1..C PROVE \E n \in S : Sits(n, i)
  <2>1. CASE up
    <3>1. PICK n \in S : Cardinality(Below(S, n)) = i - 1
      BY Ranked
    <3>2. Sits(n, i)
      BY <1>0, <2>1, <3>1
    <3> QED BY <3>2
  <2>2. CASE ~up
    <3>1. C + 1 - i \in 1..C
      BY <1>1
    <3>2. PICK n \in S : Cardinality(Below(S, n)) = (C + 1 - i) - 1
      BY <3>1, Ranked
    <3>3. C = Cardinality(Below(S, n)) + 1 + Cardinality(Above(S, n)) /\ Cardinality(Above(S, n)) \in Nat
      BY <3>2, OneMore, FewRows DEF Above
    <3>4. Sits(n, i)
      <4>1. Cardinality(Above(S, n)) = i - 1
        BY <1>1, <3>2, <3>3
      <4> QED BY <1>0, <2>2, <4>1
    <3> QED BY <3>4
  <2> QED BY <2>1, <2>2
<1>3. s = [i \in 1..C |-> CHOOSE n \in S : Sits(n, i)]
  <2>1. s = [i \in 1..Work!Cardinality(S) |-> CHOOSE n \in S : Sits(n, i)]
    BY DEF Work!Sorted
  <2> HIDE DEF Sits, s
  <2> QED BY <2>1, WorkCard
<1>4. ASSUME NEW i \in 1..C PROVE s[i] \in S /\ Sits(s[i], i)
  <2>1. s[i] = CHOOSE n \in S : Sits(n, i)
    BY <1>3
  <2> HIDE DEF Sits
  <2> QED BY <1>2, <2>1
<1>5. s \in Seq(S) /\ Len(s) = C
  <2>1. s \in [1..C -> S]
    <3> HIDE DEF Sits
    <3> QED BY <1>2, <1>3
  <2> HIDE DEF s, C
  <2> QED BY <1>1, <2>1, SeqDef
<1>6. ASSUME NEW i \in 1..C PROVE Cardinality(Before(S, s[i], up)) = i - 1
  <2>1. \A n : Sits(n, i) <=> Cardinality(Before(S, n, up)) = i - 1
    BY WorkCard DEF Before
  <2> HIDE DEF Sits
  <2> QED BY <1>4, <2>1
<1> QED BY <1>5, <1>6

LEMMA SortedUp ==
  ASSUME NEW N \in Nat, NEW S, Rows(N, S)
  PROVE  /\ Work!Sorted(S, TRUE) \in Seq(S) /\ Len(Work!Sorted(S, TRUE)) = Cardinality(S)
         /\ \A i \in 1..Cardinality(S) : Cardinality(UpTo(S, Work!Sorted(S, TRUE)[i])) = i
<1> DEFINE s == Work!Sorted(S, TRUE)
<1>1. /\ s \in Seq(S) /\ Len(s) = Cardinality(S)
      /\ \A i \in 1..Cardinality(S) : Cardinality(Before(S, s[i], TRUE)) = i - 1
  BY SortedRows
<1> HIDE DEF s
<1>2. \A n : Before(S, n, TRUE) = Below(S, n)
  BY DEF Before, Below
<1>3. \A i \in 1..Cardinality(S) : Cardinality(Below(S, s[i])) = i - 1
  BY <1>1, <1>2, Zenon
<1>4. Cardinality(S) \in Nat
  BY FewRows
<1>5. ASSUME NEW i \in 1..Cardinality(S) PROVE Cardinality(UpTo(S, s[i])) = i
  <2>1. s[i] \in S
    BY <1>1, <1>4
  <2>2. Cardinality(UpTo(S, s[i])) = Cardinality(Below(S, s[i])) + 1
    BY <2>1, OneMore
  <2>3. i \in Nat /\ Cardinality(Below(S, s[i])) = i - 1
    BY <1>3, <1>4
  <2> QED BY <2>2, <2>3
<1> QED BY <1>1, <1>5 DEF s

(* The rows of a whole table, newest first.                                *)
LEMMA SortedAll ==
  ASSUME NEW N \in Nat, NEW i \in 1..N
  PROVE  Work!Sorted(1..N, FALSE)[i] = N + 1 - i
<1> DEFINE n == Work!Sorted(1..N, FALSE)[i]
<1>1. Cardinality(1..N) = N /\ Rows(N, 1..N)
  BY FS_Interval DEF Rows
<1>2. Work!Sorted(1..N, FALSE) \in Seq(1..N) /\ Len(Work!Sorted(1..N, FALSE)) = N /\
          Cardinality(Above(1..N, n)) = i - 1
  <2>1. /\ Work!Sorted(1..N, FALSE) \in Seq(1..N) /\ Len(Work!Sorted(1..N, FALSE)) = N
        /\ Cardinality(Before(1..N, n, FALSE)) = i - 1
    BY <1>1, SortedRows
  <2>2. Before(1..N, n, FALSE) = Above(1..N, n)
    BY DEF Before, Above
  <2> HIDE DEF n
  <2> QED BY <2>1, <2>2
<1>3. n \in 1..N
  <2> DEFINE s == Work!Sorted(1..N, FALSE)
  <2>1. s \in Seq(1..N) /\ i \in 1..Len(s)
    BY <1>2
  <2> HIDE DEF s
  <2>2. s[i] \in 1..N
    BY <2>1
  <2> QED BY <2>2 DEF s
<1> HIDE DEF n
<1>4. Above(1..N, n) = (n + 1)..N
  BY <1>3 DEF Above
<1>5. Cardinality((n + 1)..N) = IF n + 1 > N THEN 0 ELSE N - (n + 1) + 1
  BY <1>3, FS_Interval
<1>6. n = N + 1 - i
  BY <1>2, <1>3, <1>4, <1>5
<1> QED BY <1>6 DEF n

-----------------------------------------------------------------------------
(* The tables.  Adds and Edits say what a statement does to one of them,   *)
(* Grows what all of them have in common.                                  *)
CaseRow == [user : Nat, status : CaseStatuses, stamped : BOOLEAN]
Verbs == {"warn", "suspend", "ban", "clear"}
RowsFit(tb) ==
  /\ tb \in [Work!Names -> Seq(CaseRow)]
  /\ \A t \in Work!Names : Len(tb[t]) <= MaxRows
       /\ \A n \in 1..Len(tb[t]) : tb[t][n].user <= Len(tb["users"])

Adds(t, row) ==
  /\ \A u \in Work!Names : u # t => tables'[u] = tables[u]
  /\ Len(tables'[t]) = Len(tables[t]) + 1 /\ tables'[t][Len(tables[t]) + 1] = row
  /\ \A n \in 1..Len(tables[t]) : tables'[t][n] = tables[t][n]

Edits(t, n, s) ==
  /\ \A u \in Work!Names : u # t => tables'[u] = tables[u]
  /\ Len(tables'[t]) = Len(tables[t])
  /\ \A k \in 1..Len(tables[t]) : k # n => tables'[t][k] = tables[t][k]
  /\ n \in 1..Len(tables[t]) => tables'[t][n].status = s /\ tables'[t][n].user = tables[t][n].user

Grows ==
  /\ RowsFit(tables')
  /\ \A t \in Work!Names : Len(tables[t]) \in Nat /\ Len(tables'[t]) \in Nat /\ Len(tables[t]) <= Len(tables'[t])
       /\ \A n \in 1..Len(tables[t]) : tables'[t][n].user = tables[t][n].user
  /\ \A n \in 1..Len(tables["moderation_actions"]) :
       tables'["moderation_actions"][n] = tables["moderation_actions"][n]

LEMMA NamesAre ==
  /\ \A t \in {"users", "reports", "moderation_actions", "photos", "csam_hits",
               "data_requests", "legal_holds", "audit_log"} : t \in Work!Names
BY DEF Work!Names

LEMMA RowsAre ==
  ASSUME RowsFit(tables), NEW t \in Work!Names
  PROVE  /\ tables[t] \in Seq(CaseRow) /\ Len(tables[t]) \in Nat /\ Len(tables[t]) <= MaxRows
         /\ tables[t] \in [1..Len(tables[t]) -> CaseRow]
         /\ \A n \in 1..Len(tables[t]) : tables[t][n] \in CaseRow /\ tables[t][n].user \in 0..Len(tables["users"])
<1>1. tables[t] \in Seq(CaseRow)
  BY DEF RowsFit
<1>2. Len(tables[t]) \in Nat /\ tables[t] \in [1..Len(tables[t]) -> CaseRow]
  BY <1>1, LenProperties
<1>3. "users" \in Work!Names
  BY NamesAre
<1>4. Len(tables["users"]) \in Nat
  BY <1>3, LenProperties DEF RowsFit
<1>5. ASSUME NEW n \in 1..Len(tables[t]) PROVE tables[t][n] \in CaseRow /\
          tables[t][n].user \in 0..Len(tables["users"])
  <2>1. tables[t][n] \in CaseRow
    BY <1>2
  <2>2. tables[t][n].user \in Nat /\ tables[t][n].user <= Len(tables["users"])
    BY <2>1 DEF CaseRow, RowsFit
  <2> QED BY <1>4, <2>1, <2>2
<1> QED BY <1>1, <1>2, <1>5 DEF RowsFit

LEMMA AddsGrow ==
  ASSUME RowsFit(tables), NEW t \in Work!Names, NEW row \in CaseRow, row.user <= Len(tables["users"]),
         Work!Room(t), tables' = Work!Insert(t, row)
  PROVE  Grows /\ Adds(t, row)
<1> DEFINE new == Append(tables[t], row)
           N == Len(tables[t])
<1>1. tables[t] \in Seq(CaseRow) /\ N \in Nat /\ N < MaxRows /\ N <= MaxRows
  BY RowsAre DEF Work!Room
<1>2. new \in Seq(CaseRow) /\ Len(new) = N + 1 /\ new[N + 1] = row /\ \A n \in 1..N : new[n] = tables[t][n]
  BY <1>1
<1>3. tables' = [tables EXCEPT ![t] = new]
  BY DEF Work!Insert
<1> HIDE DEF new
<1>4. /\ tables' \in [Work!Names -> Seq(CaseRow)] /\ tables'[t] = new
      /\ \A u \in Work!Names : u # t => tables'[u] = tables[u]
  BY <1>2, <1>3 DEF RowsFit
<1>5. Adds(t, row)
  BY <1>2, <1>4 DEF Adds
<1>6. Len(tables'["users"]) \in Nat /\ Len(tables["users"]) \in Nat /\ Len(tables["users"]) <= Len(tables'["users"])
  <2>1. "users" \in Work!Names
    BY NamesAre
  <2>2. Len(tables["users"]) \in Nat
    BY <2>1, RowsAre
  <2> QED BY <1>1, <1>2, <1>4, <2>1, <2>2
<1>7. ASSUME NEW u \in Work!Names
      PROVE  /\ Len(tables'[u]) <= MaxRows
             /\ \A n \in 1..Len(tables'[u]) : tables'[u][n].user <= Len(tables'["users"])
             /\ Len(tables[u]) \in Nat /\ Len(tables'[u]) \in Nat /\ Len(tables[u]) <= Len(tables'[u])
             /\ \A n \in 1..Len(tables[u]) : tables'[u][n] = tables[u][n]
  <2>1. /\ Len(tables[u]) \in Nat /\ Len(tables[u]) <= MaxRows
        /\ \A n \in 1..Len(tables[u]) : tables[u][n].user \in 0..Len(tables["users"])
    BY RowsAre
  <2>2. \A n \in 1..Len(tables[u]) : tables[u][n].user <= Len(tables'["users"])
    BY <1>6, <2>1
  <2>3. CASE u # t
    BY <1>4, <2>1, <2>2, <2>3
  <2>4. CASE u = t
    <3>1. row.user <= Len(tables'["users"])
      BY <1>6 DEF CaseRow
    <3>2. MaxRows \in Nat
      BY TablesFit
    <3>3. N + 1 <= MaxRows
      BY <1>1, <3>2
    <3>4. ASSUME NEW n \in 1..(N + 1) PROVE new[n].user <= Len(tables'["users"])
      BY <1>1, <1>2, <2>2, <2>4, <3>1
    <3> QED BY <1>1, <1>2, <1>4, <2>4, <3>3, <3>4
  <2> QED BY <2>3, <2>4
<1>8. Grows
  <2>1. "moderation_actions" \in Work!Names
    BY NamesAre
  <2> QED BY <1>4, <1>7, <2>1 DEF Grows, RowsFit
<1> QED BY <1>5, <1>8

(* A row whose status, or status and stamp, a statement sets.              *)
LEMMA EditsGrow ==
  ASSUME RowsFit(tables), NEW t \in Work!Names, t # "moderation_actions", NEW n, NEW s \in CaseStatuses,
         \/ tables' = Work!SetStatus(t, n, s)
         \/ tables' = Work!Stamp(t, n, s)
  PROVE  Grows /\ Edits(t, n, s)
<1> DEFINE old == tables[t]
           N == Len(old)
           new == tables'[t]
<1>1. old \in Seq(CaseRow) /\ N \in Nat /\ old \in [1..N -> CaseRow]
  BY RowsAre
<1>2. /\ \A u \in Work!Names : u # t => tables'[u] = tables[u]
      /\ DOMAIN tables' = Work!Names /\ tables' = [u \in Work!Names |-> tables'[u]]
      /\ \/ new = [old EXCEPT ![n] = [old[n] EXCEPT !.status = s]]
         \/ new = [old EXCEPT ![n] = [old[n] EXCEPT !.status = s, !.stamped = TRUE]]
  BY DEF RowsFit, Work!SetStatus, Work!Stamp
<1>3. /\ DOMAIN new = 1..N /\ new = [k \in 1..N |-> new[k]]
      /\ \A k \in 1..N : k # n => new[k] = old[k]
      /\ n \in 1..N => \/ new[n] = [old[n] EXCEPT !.status = s]
                      \/ new[n] = [old[n] EXCEPT !.status = s, !.stamped = TRUE]
  <2> HIDE DEF old, new, N
  <2>1. CASE new = [old EXCEPT ![n] = [old[n] EXCEPT !.status = s]]
    BY <1>1, <2>1
  <2>2. CASE new = [old EXCEPT ![n] = [old[n] EXCEPT !.status = s, !.stamped = TRUE]]
    BY <1>1, <2>2
  <2> QED BY <1>2, <2>1, <2>2
<1> HIDE DEF old, new, N
<1>4. ASSUME n \in 1..N PROVE new[n] \in CaseRow /\ new[n].status = s /\ new[n].user = old[n].user
  <2>1. old[n] \in CaseRow
    BY <1>1, <1>4
  <2> QED BY <1>3, <1>4, <2>1 DEF CaseRow
<1>5. new \in [1..N -> CaseRow] /\ new \in Seq(CaseRow) /\ Len(new) = N
  <2>1. ASSUME NEW k \in 1..N PROVE new[k] \in CaseRow
    BY <1>1, <1>3, <1>4
  <2>2. new \in [1..N -> CaseRow]
    BY <1>3, <2>1
  <2> QED BY <1>1, <2>2, SeqDef
<1>6. Edits(t, n, s)
  BY <1>2, <1>3, <1>4, <1>5 DEF Edits, old, new, N
<1>7. tables' \in [Work!Names -> Seq(CaseRow)]
  BY <1>2, <1>5 DEF RowsFit, new
<1>8. ASSUME NEW u \in Work!Names
      PROVE  /\ Len(tables'[u]) = Len(tables[u]) /\ Len(tables[u]) \in Nat /\ Len(tables[u]) <= MaxRows
             /\ \A k \in 1..Len(tables[u]) : tables'[u][k].user = tables[u][k].user
             /\ \A k \in 1..Len(tables[u]) : tables[u][k].user <= Len(tables["users"])
             /\ u = "moderation_actions" => tables'[u] = tables[u]
  <2>1. Len(tables[u]) \in Nat /\ Len(tables[u]) <= MaxRows
    BY RowsAre
  <2>2. \A k \in 1..Len(tables[u]) : tables[u][k].user <= Len(tables["users"])
    BY DEF RowsFit
  <2>3. CASE u # t
    BY <1>2, <2>1, <2>2, <2>3
  <2>4. CASE u = t
    BY <1>3, <1>4, <1>5, <2>1, <2>2, <2>4 DEF old, new, N
  <2> QED BY <2>3, <2>4
<1>9. Grows
  <2>1. "moderation_actions" \in Work!Names /\ "users" \in Work!Names
    BY NamesAre
  <2>2. RowsFit(tables')
    BY <1>7, <1>8, <2>1 DEF RowsFit
  <2> QED BY <1>8, <2>1, <2>2 DEF Grows
<1> QED BY <1>6, <1>9

-----------------------------------------------------------------------------
(* What is on record about a user, and what it has to cover: a report that *)
(* is closed with an action, a status that a report gave, and a resolution *)
(* that has come past its record.                                          *)
Told(tb, u, verbs) ==
  \E n \in 1..Len(tb["moderation_actions"]) :
    tb["moderation_actions"][n].user = u /\ tb["moderation_actions"][n].status \in verbs
ReportTold(tb, row) == row.status = "actioned" => Told(tb, row.user, Verbs)
UserTold(tb, u, s) == \E verb \in {"suspend", "ban"} : s = Work!StatusOf(verb) /\ Told(tb, u, {verb})

Resolves(tb, s, r) ==
  /\ r.report \in 1..Len(tb["reports"]) /\ r.verb \in Verbs /\ r.verdict \in {"actioned", "dismissed"}
  /\ s \in {"action", "status"} => r.verdict = "actioned"
  /\ s = "status" => r.verb \in {"suspend", "ban"} /\ Told(tb, tb["reports"][r.report].user, {r.verb})
  /\ s = "close" /\ r.verdict = "actioned" => Told(tb, tb["reports"][r.report].user, Verbs)

WorkCalls ==
  /\ step \in [Agents -> {"idle", "action", "status", "close", "log"}] /\ DOMAIN local = Agents
  /\ \A c \in Agents :
       /\ step[c] \in {"action", "status", "close"} => Resolves(tables, step[c], local[c])
       /\ step[c] = "log" => local[c].report \in 1..Len(tables["users"])
WorkRights == entitled \subseteq known /\ known \subseteq (1..Len(tables["users"])) \X Features
WorkSanctions ==
  /\ \A n \in 1..Len(tables["reports"]) : ReportTold(tables, tables["reports"][n])
  /\ cause \in [1..MaxRows -> {"report", "other"}]
  /\ \A u \in 1..MaxRows : cause[u] = "report" =>
       u \in 1..Len(tables["users"]) /\ UserTold(tables, u, tables["users"][u].status)

(* Paging: of a whole table newest first, all rows that were there and are *)
(* past the offset have been seen; of the photos to moderate, oldest first,*)
(* none that was seen is past it.                                          *)
SweepRec == [list : Work!Names \X {"all", "open", "pending"}, offset : Nat, start : Nat, got : SUBSET Nat,
      again : BOOLEAN, over : BOOLEAN]
Pending(tb) == {n \in 1..Len(tb["photos"]) : tb["photos"][n].status = "pending"}
SeenAll(N, w) == (\A n \in 1..w.start : n > N - w.offset => n \in w.got) /\ (w.over => 1..w.start \subseteq w.got)
SeenOnce(P, w) == ~w.again /\ \A n \in w.got : Cardinality(UpTo(P, n)) <= w.offset
WorkSweep ==
  /\ sweep \in SweepRec
  /\ sweep.start <= Len(tables[sweep.list[1]]) /\ sweep.got \subseteq 1..Len(tables[sweep.list[1]])
  /\ sweep.list[2] = "all" => SeenAll(Len(tables[sweep.list[1]]), sweep)
  /\ sweep.list = <<"photos", "pending">> => SeenOnce(Pending(tables), sweep)

WorkInv == RowsFit(tables) /\ WorkRights /\ WorkCalls /\ WorkSanctions /\ WorkSweep

-----------------------------------------------------------------------------
LEMMA ToldStays ==
  ASSUME Grows, NEW u, NEW verbs, Told(tables, u, verbs)
  PROVE  Told(tables', u, verbs)
<1>1. PICK n \in 1..Len(tables["moderation_actions"]) :
        tables["moderation_actions"][n].user = u /\ tables["moderation_actions"][n].status \in verbs
  BY DEF Told
<1>2. n \in 1..Len(tables'["moderation_actions"])
  BY NamesAre DEF Grows
<1>3. tables'["moderation_actions"][n] = tables["moderation_actions"][n]
  BY DEF Grows
<1> QED BY <1>1, <1>2, <1>3 DEF Told

LEMMA LongerTables ==
  ASSUME Grows, NEW t \in Work!Names
  PROVE  1..Len(tables[t]) \subseteq 1..Len(tables'[t]) /\
            \A n \in 1..Len(tables[t]) : tables'[t][n].user = tables[t][n].user
BY DEF Grows

LEMMA ResolvesStays ==
  ASSUME Grows, NEW s, NEW r, Resolves(tables, s, r)
  PROVE  Resolves(tables', s, r)
<1>1. r.report \in 1..Len(tables'["reports"]) /\ tables'["reports"][r.report].user = tables["reports"][r.report].user
  BY NamesAre, LongerTables DEF Resolves
<1>2. \A verbs : Told(tables, tables["reports"][r.report].user, verbs)
                  => Told(tables', tables'["reports"][r.report].user, verbs)
  BY <1>1, ToldStays
<1> QED BY <1>1, <1>2 DEF Resolves

LEMMA CallsStay == ASSUME WorkInv, Grows, UNCHANGED <<step, local>> PROVE WorkCalls'
<1>1. 1..Len(tables["users"]) \subseteq 1..Len(tables'["users"])
  BY NamesAre, LongerTables
<1> QED BY <1>1, ResolvesStays DEF WorkInv, WorkCalls

LEMMA RightsStay == ASSUME WorkInv, Grows, UNCHANGED <<entitled, known>> PROVE WorkRights'
<1>1. 1..Len(tables["users"]) \subseteq 1..Len(tables'["users"])
  BY NamesAre, LongerTables
<1> QED BY <1>1 DEF WorkInv, WorkRights

LEMMA ReportsStay ==
  ASSUME WorkInv, Grows,
         \A n \in 1..Len(tables'["reports"]) : tables'["reports"][n].status = "actioned" =>
           n \in 1..Len(tables["reports"]) /\ tables["reports"][n].status = "actioned"
  PROVE  \A n \in 1..Len(tables'["reports"]) : ReportTold(tables', tables'["reports"][n])
<1> SUFFICES ASSUME NEW n \in 1..Len(tables'["reports"]), tables'["reports"][n].status = "actioned"
             PROVE  Told(tables', tables'["reports"][n].user, Verbs)
  BY DEF ReportTold
<1>1. n \in 1..Len(tables["reports"]) /\ tables["reports"][n].status = "actioned"
  OBVIOUS
<1>2. tables'["reports"][n].user = tables["reports"][n].user
  BY <1>1, NamesAre, LongerTables
<1>3. Told(tables, tables["reports"][n].user, Verbs)
  BY <1>1 DEF WorkInv, WorkSanctions, ReportTold
<1> QED BY <1>2, <1>3, ToldStays

LEMMA UsersStay ==
  ASSUME WorkInv, Grows, NEW u \in 1..MaxRows, cause[u] = "report",
         u \in 1..Len(tables["users"]) => tables'["users"][u].status = tables["users"][u].status
  PROVE  u \in 1..Len(tables'["users"]) /\ UserTold(tables', u, tables'["users"][u].status)
<1>1. u \in 1..Len(tables["users"]) /\ UserTold(tables, u, tables["users"][u].status)
  BY DEF WorkInv, WorkSanctions
<1>2. u \in 1..Len(tables'["users"])
  BY <1>1, NamesAre, LongerTables
<1>3. PICK verb \in {"suspend", "ban"} : tables["users"][u].status = Work!StatusOf(verb) /\ Told(tables, u, {verb})
  BY <1>1 DEF UserTold
<1>4. Told(tables', u, {verb})
  BY <1>3, ToldStays
<1> QED BY <1>1, <1>2, <1>3, <1>4 DEF UserTold

LEMMA SweepStays ==
  ASSUME WorkInv, Grows, UNCHANGED sweep,
         \A n \in 1..Len(tables["photos"]) : tables'["photos"][n].status = "pending" =>
               tables["photos"][n].status = "pending"
  PROVE  WorkSweep'
<1> DEFINE t == sweep.list[1]
           N == Len(tables[t])
           M == Len(tables'[t])
<1>1. t \in Work!Names /\ sweep \in SweepRec /\ sweep.start \in Nat /\ sweep.offset \in Nat /\
          sweep.got \subseteq 1..N
  BY DEF WorkInv, WorkSweep, SweepRec
<1>2. N \in Nat /\ M \in Nat /\ N <= M
  BY <1>1 DEF Grows
<1>3. sweep.start <= M /\ sweep.got \subseteq 1..M
  BY <1>1, <1>2 DEF WorkInv, WorkSweep
<1>4. ASSUME sweep.list[2] = "all" PROVE SeenAll(M, sweep)
  <2>1. SeenAll(N, sweep)
    BY <1>4 DEF WorkInv, WorkSweep
  <2> HIDE DEF N, M
  <2> QED BY <1>1, <1>2, <2>1 DEF SeenAll
<1>5. ASSUME sweep.list = <<"photos", "pending">> PROVE SeenOnce(Pending(tables'), sweep)
  <2>1. SeenOnce(Pending(tables), sweep) /\ t = "photos"
    BY <1>5 DEF WorkInv, WorkSweep
  <2>2. Rows(N, Pending(tables))
    BY <2>1 DEF Pending, Rows
  <2>3. ASSUME NEW n \in sweep.got PROVE Cardinality(UpTo(Pending(tables'), n)) <= sweep.offset
    <3>1. n \in 1..N
      BY <1>1
    <3>2. ASSUME NEW k \in UpTo(Pending(tables'), n) PROVE k \in UpTo(Pending(tables), n)
      <4>1. k \in 1..M /\ k <= n /\ tables'["photos"][k].status = "pending"
        BY <2>1 DEF UpTo, Pending
      <4>2. k \in 1..N
        BY <1>2, <3>1, <4>1
      <4> QED BY <2>1, <4>1, <4>2 DEF UpTo, Pending
    <3>3. UpTo(Pending(tables'), n) \subseteq UpTo(Pending(tables), n)
      BY <3>2
    <3>4. UpTo(Pending(tables), n) \subseteq Pending(tables)
      BY DEF UpTo
    <3> DEFINE A == UpTo(Pending(tables'), n)
               B == UpTo(Pending(tables), n)
    <3>5. IsFiniteSet(B) /\ Cardinality(B) \in Nat
      BY <1>2, <2>2, <3>4, FewRows
    <3>6. IsFiniteSet(A) /\ Cardinality(A) <= Cardinality(B)
      BY <3>3, <3>5, FS_Subset
    <3>7. Cardinality(A) \in Nat
      BY <3>6, FS_CardinalityType
    <3>8. Cardinality(B) <= sweep.offset
      BY <2>1 DEF SeenOnce
    <3> HIDE DEF A, B
    <3>9. Cardinality(A) <= sweep.offset
      BY <1>1, <3>5, <3>6, <3>7, <3>8
    <3> QED BY <3>9 DEF A
  <2> QED BY <2>1, <2>3 DEF SeenOnce
<1> QED BY <1>1, <1>3, <1>4, <1>5 DEF WorkSweep

(* A statement that leaves every user's status as it is, closes no report  *)
(* and puts no photo back.                                                 *)
LEMMA WorkQuiet ==
  ASSUME WorkInv, Grows, UNCHANGED <<entitled, known, step, local, sweep, cause>>,
         \A n \in 1..Len(tables["users"]) : tables'["users"][n].status = tables["users"][n].status,
         \A n \in 1..Len(tables'["reports"]) : tables'["reports"][n].status = "actioned" =>
           n \in 1..Len(tables["reports"]) /\ tables["reports"][n].status = "actioned",
         \A n \in 1..Len(tables["photos"]) : tables'["photos"][n].status = "pending" =>
               tables["photos"][n].status = "pending"
  PROVE  WorkInv'
<1>1. WorkSanctions'
  BY ReportsStay, UsersStay DEF WorkInv, WorkSanctions
<1>2. RowsFit(tables')
  BY DEF Grows
<1> QED BY <1>1, <1>2, CallsStay, RightsStay, SweepStays DEF WorkInv

-----------------------------------------------------------------------------
(* Statements that a handler runs on its own.                              *)
LEMMA AddsQuiet ==
  ASSUME WorkInv, NEW t \in Work!Names, NEW u \in 0..Len(tables["users"]), NEW s \in CaseStatuses, s # "actioned",
         Work!Room(t), tables' = Work!Insert(t, Work!Row(u, s)),
         UNCHANGED <<entitled, known, step, local, sweep, cause>>
  PROVE  WorkInv'
<1> DEFINE row == Work!Row(u, s)
<1>1. Len(tables["users"]) \in Nat /\ RowsFit(tables)
  BY NamesAre, RowsAre DEF WorkInv
<1>2. row \in CaseRow /\ row.user <= Len(tables["users"]) /\ row.status = s
  BY <1>1 DEF Work!Row, CaseRow
<1>3. tables' = Work!Insert(t, row)
  OBVIOUS
<1> HIDE DEF row
<1>4. Grows /\ Adds(t, row)
  BY <1>1, <1>2, <1>3, AddsGrow
<1>5. ASSUME NEW x \in Work!Names, NEW n \in 1..Len(tables'[x])
      PROVE  \/ n \in 1..Len(tables[x]) /\ tables'[x][n] = tables[x][n]
             \/ tables'[x][n].status = s
  <2>1. Len(tables[x]) \in Nat
    BY <1>1, RowsAre
  <2>2. CASE x # t
    BY <1>4, <2>2 DEF Adds
  <2>3. CASE x = t
    BY <1>2, <1>4, <2>1, <2>3 DEF Adds
  <2> QED BY <2>2, <2>3
<1>6. ASSUME NEW x \in Work!Names, NEW n \in 1..Len(tables[x]) PROVE tables'[x][n] = tables[x][n]
  BY <1>4 DEF Adds
<1>7. \A n \in 1..Len(tables'["reports"]) : tables'["reports"][n].status = "actioned" =>
        n \in 1..Len(tables["reports"]) /\ tables["reports"][n].status = "actioned"
  BY <1>5, NamesAre
<1>8. /\ \A n \in 1..Len(tables["users"]) : tables'["users"][n].status = tables["users"][n].status
      /\ \A n \in 1..Len(tables["photos"]) : tables'["photos"][n].status = "pending" =>
           tables["photos"][n].status = "pending"
  BY <1>6, NamesAre
<1> QED BY <1>4, <1>7, <1>8, WorkQuiet

LEMMA EditsQuiet ==
  ASSUME WorkInv, NEW t \in Work!Names, t \notin {"moderation_actions", "users"}, NEW n, NEW s \in CaseStatuses,
         t = "reports" => s # "actioned", t = "photos" => s # "pending",
         tables' = Work!SetStatus(t, n, s) \/ tables' = Work!Stamp(t, n, s),
         UNCHANGED <<entitled, known, step, local, sweep, cause>>
  PROVE  WorkInv'
<1>1. Grows /\ Edits(t, n, s)
  BY EditsGrow DEF WorkInv
<1>2. ASSUME NEW x \in Work!Names, NEW k \in 1..Len(tables[x])
      PROVE  tables'[x][k] = tables[x][k] \/ (x = t /\ tables'[x][k].status = s)
  <2>1. CASE x = t /\ k = n
    BY <1>1, <2>1 DEF Edits
  <2>2. CASE x # t \/ k # n
    BY <1>1, <2>2 DEF Edits
  <2> QED BY <2>1, <2>2
<1>3. Len(tables'["reports"]) = Len(tables["reports"])
  <2>1. "reports" \in Work!Names
    BY NamesAre
  <2> QED BY <1>1, <2>1 DEF Edits
<1>4. \A k \in 1..Len(tables'["reports"]) : tables'["reports"][k].status = "actioned" =>
        k \in 1..Len(tables["reports"]) /\ tables["reports"][k].status = "actioned"
  BY <1>2, <1>3, NamesAre
<1>5. /\ \A k \in 1..Len(tables["users"]) : tables'["users"][k].status = tables["users"][k].status
      /\ \A k \in 1..Len(tables["photos"]) : tables'["photos"][k].status = "pending" =>
           tables["photos"][k].status = "pending"
  BY <1>2, NamesAre
<1> QED BY <1>1, <1>4, <1>5, WorkQuiet

LEMMA StillGrows == ASSUME RowsFit(tables), UNCHANGED tables PROVE Grows
BY RowsAre DEF Grows

LEMMA StatusKeeps ==
  ASSUME WorkInv, NEW u, NEW s \in CaseStatuses, tables' = Work!SetStatus("users", u, s),
         cause' = [cause EXCEPT ![u] = "other"], UNCHANGED <<entitled, known, step, local, sweep>>
  PROVE  WorkInv'
<1>1. "users" \in Work!Names /\ "reports" \in Work!Names /\ "photos" \in Work!Names
  BY NamesAre
<1>2. Grows /\ Edits("users", u, s)
  BY <1>1, EditsGrow DEF WorkInv
<1>3. tables'["reports"] = tables["reports"] /\ tables'["photos"] = tables["photos"]
  BY <1>1, <1>2 DEF Edits
<1>4. cause' \in [1..MaxRows -> {"report", "other"}]
  BY DEF WorkInv, WorkSanctions
<1>5. ASSUME NEW v \in 1..MaxRows, cause'[v] = "report"
      PROVE  v \in 1..Len(tables'["users"]) /\ UserTold(tables', v, tables'["users"][v].status)
  <2>1. v # u /\ cause[v] = "report"
    BY <1>5 DEF WorkInv, WorkSanctions
  <2>2. v \in 1..Len(tables["users"]) => tables'["users"][v].status = tables["users"][v].status
    BY <1>2, <2>1 DEF Edits
  <2> QED BY <1>2, <2>1, <2>2, UsersStay
<1>6. WorkSanctions'
  BY <1>2, <1>3, <1>4, <1>5, ReportsStay DEF WorkSanctions
<1>7. RowsFit(tables')
  BY <1>2 DEF Grows
<1> QED BY <1>2, <1>3, <1>6, <1>7, CallsStay, RightsStay, SweepStays DEF WorkInv

-----------------------------------------------------------------------------
(* Statements of a request that takes several.                             *)
LEMMA GotoKeeps ==
  ASSUME WorkInv, Grows, NEW c \in Agents, NEW s \in {"idle", "action", "status", "close", "log"}, NEW r,
         Work!Goto(c, s, r), s \in {"action", "status", "close"} => Resolves(tables', s, r),
         s = "log" => r.report \in 1..Len(tables'["users"])
  PROVE  WorkCalls'
<1>1. step' \in [Agents -> {"idle", "action", "status", "close", "log"}] /\ DOMAIN local' = Agents
  BY DEF WorkInv, WorkCalls, Work!Goto
<1>2. step'[c] = s /\ local'[c] = r /\ \A d \in Agents : d # c => step'[d] = step[d] /\ local'[d] = local[d]
  BY DEF WorkInv, WorkCalls, Work!Goto
<1>3. 1..Len(tables["users"]) \subseteq 1..Len(tables'["users"])
  BY NamesAre, LongerTables
<1>4. ASSUME NEW d \in Agents
      PROVE  /\ step'[d] \in {"action", "status", "close"} => Resolves(tables', step'[d], local'[d])
             /\ step'[d] = "log" => local'[d].report \in 1..Len(tables'["users"])
  <2>1. CASE d = c
    BY <1>2, <2>1
  <2>2. CASE d # c
    BY <1>2, <1>3, <2>2, ResolvesStays DEF WorkInv, WorkCalls
  <2> QED BY <2>1, <2>2
<1> QED BY <1>1, <1>4 DEF WorkCalls

(* A step of a request that leaves the tables as they are.                 *)
LEMMA NoTableKeeps ==
  ASSUME WorkInv, NEW c \in Agents, NEW s \in {"idle", "action", "status", "close", "log"}, NEW r,
         Work!Goto(c, s, r), s \in {"action", "status", "close"} => Resolves(tables, s, r),
         s = "log" => r.report \in 1..Len(tables["users"]),
         UNCHANGED <<tables, entitled, known, sweep, cause>>
  PROVE  WorkInv'
<1>1. Grows
  BY StillGrows DEF WorkInv
<1>2. WorkCalls'
  BY <1>1, GotoKeeps
<1> QED BY <1>1, <1>2 DEF WorkInv, WorkRights, WorkSanctions, WorkSweep, Grows

LEMMA ResolveKeeps ==
  ASSUME WorkInv, NEW c \in Agents, NEW n \in 1..Len(tables["reports"]), NEW verdict \in {"actioned", "dismissed"},
         NEW verb \in Verbs, Work!ResolveReport(c, n, verdict, verb)
  PROVE  WorkInv'
<1> DEFINE r == [Work!NoReq EXCEPT !.report = n, !.verdict = verdict, !.verb = verb]
           s == IF verdict = "actioned" THEN "action" ELSE "close"
<1>1. Work!Goto(c, s, r) /\ UNCHANGED <<tables, entitled, known, sweep, cause>>
  BY DEF Work!ResolveReport, Work!Resolve, Work!rights
<1>2. r.report = n /\ r.verdict = verdict /\ r.verb = verb
  BY DEF Work!NoReq
<1> HIDE DEF r
<1>3. s \in {"action", "close"} /\ (s = "close" => verdict # "actioned") /\ (s = "action" => verdict = "actioned")
  OBVIOUS
<1> HIDE DEF s
<1>4. Resolves(tables, s, r)
  BY <1>2, <1>3 DEF Resolves
<1> QED BY <1>1, <1>3, <1>4, NoTableKeeps

LEMMA ExportKeeps ==
  ASSUME WorkInv, NEW c \in Agents, NEW u \in 1..Len(tables["users"]), Work!LegalExport(c, u)
  PROVE  WorkInv'
<1> DEFINE r == [Work!NoReq EXCEPT !.report = u, !.dossier = Work!build_legal_dossier(u)]
<1>1. Work!Goto(c, "log", r) /\ UNCHANGED <<tables, entitled, known, sweep, cause>>
  BY DEF Work!LegalExport, Work!rights
<1>2. r.report = u
  BY DEF Work!NoReq
<1> HIDE DEF r
<1> QED BY <1>1, <1>2, NoTableKeeps

LEMMA LeaveKeeps == ASSUME WorkInv, NEW c \in Agents, Work!LogFails(c) \/ Work!Abort(c) PROVE WorkInv'
<1>1. Work!Goto(c, "idle", Work!NoReq) /\ UNCHANGED <<tables, entitled, known, sweep, cause>>
  BY DEF Work!LogFails, Work!Abort, Work!rights
<1> QED BY <1>1, NoTableKeeps

LEMMA LogKeeps == ASSUME WorkInv, NEW c \in Agents, Work!LogExport(c) PROVE WorkInv'
<1> DEFINE row == Work!Row(local[c].report, "export")
<1>1. /\ step[c] = "log" /\ Work!Room("audit_log") /\ tables' = Work!Insert("audit_log", row)
      /\ Work!Goto(c, "idle", Work!NoReq) /\ UNCHANGED <<entitled, known, sweep, cause>>
  BY DEF Work!LogExport, Work!rights
<1>2. /\ "audit_log" \in Work!Names /\ "users" \in Work!Names /\ "reports" \in Work!Names /\ "photos" \in Work!Names
      /\ RowsFit(tables) /\ Len(tables["users"]) \in Nat
  BY NamesAre, RowsAre DEF WorkInv
<1>3. local[c].report \in 1..Len(tables["users"])
  BY <1>1 DEF WorkInv, WorkCalls
<1>4. row \in CaseRow /\ row.user <= Len(tables["users"])
  <2>1. ASSUME NEW N \in Nat, NEW u \in 1..N PROVE Work!Row(u, "export") \in CaseRow /\
            Work!Row(u, "export").user <= N
    BY DEF Work!Row, CaseRow, CaseStatuses
  <2> QED BY <1>2, <1>3, <2>1
<1> HIDE DEF row
<1>5. Grows /\ Adds("audit_log", row)
  BY <1>1, <1>2, <1>4, AddsGrow
<1>6. /\ tables'["users"] = tables["users"] /\ tables'["reports"] = tables["reports"]
      /\ tables'["photos"] = tables["photos"]
  BY <1>2, <1>5 DEF Adds
<1>7. WorkCalls'
  BY <1>1, <1>5, GotoKeeps
<1>8. WorkSanctions'
  BY <1>1, <1>5, <1>6, ReportsStay, UsersStay DEF WorkInv, WorkSanctions
<1>9. RowsFit(tables')
  BY <1>5 DEF Grows
<1> QED BY <1>1, <1>5, <1>6, <1>7, <1>8, <1>9, RightsStay, SweepStays DEF WorkInv

LEMMA RecordKeeps == ASSUME WorkInv, NEW c \in Agents, Work!RecordAction(c) PROVE WorkInv'
<1> DEFINE r == local[c]
           u == tables["reports"][r.report].user
           row == Work!Row(u, r.verb)
           s == IF r.verb \in {"suspend", "ban"} THEN "status" ELSE "close"
           MA == "moderation_actions"
           N == Len(tables[MA])
<1>1. /\ step[c] = "action" /\ Work!Room(MA) /\ tables' = Work!Insert(MA, row)
      /\ Work!Goto(c, s, r) /\ UNCHANGED <<entitled, known, sweep, cause>>
  BY DEF Work!RecordAction, Work!rights, Work!create_moderation_action
<1>2. /\ MA \in Work!Names /\ "users" \in Work!Names /\ "reports" \in Work!Names /\ "photos" \in Work!Names
      /\ RowsFit(tables) /\ Len(tables["users"]) \in Nat /\ N \in Nat
  BY NamesAre, RowsAre DEF WorkInv
<1>3. Resolves(tables, "action", r)
  BY <1>1 DEF WorkInv, WorkCalls
<1>4. r.report \in 1..Len(tables["reports"]) /\ r.verb \in Verbs /\ r.verdict = "actioned"
  BY <1>3 DEF Resolves, CaseStatuses
<1>5. u \in 0..Len(tables["users"])
  BY <1>2, <1>4, RowsAre
<1> HIDE DEF u
<1>6. row \in CaseRow /\ row.user <= Len(tables["users"]) /\ row.user = u /\ row.status = r.verb
  BY <1>2, <1>4, <1>5 DEF Work!Row, CaseRow, Verbs, CaseStatuses
<1> HIDE DEF row, r
<1>7. Grows /\ Adds(MA, row)
  BY <1>1, <1>2, <1>6, AddsGrow
<1>8. /\ tables'["users"] = tables["users"] /\ tables'["reports"] = tables["reports"]
      /\ tables'["photos"] = tables["photos"]
  BY <1>2, <1>7 DEF Adds
<1>9. ASSUME NEW verbs, r.verb \in verbs PROVE Told(tables', u, verbs)
  <2>1. N + 1 \in 1..Len(tables'[MA]) /\ tables'[MA][N + 1] = row
    BY <1>2, <1>7 DEF Adds
  <2> QED BY <1>6, <1>9, <2>1 DEF Told
<1>10. s \in {"status", "close"} /\ (s = "status" => r.verb \in {"suspend", "ban"})
  OBVIOUS
<1>11. u = tables'["reports"][r.report].user
  BY <1>8 DEF u, r
<1> HIDE DEF s
<1>12. Resolves(tables', s, r)
  <2>1. Told(tables', u, Verbs) /\ Told(tables', u, {r.verb})
    BY <1>4, <1>9
  <2> QED BY <1>4, <1>8, <1>10, <1>11, <2>1 DEF Resolves
<1>13. WorkCalls'
  BY <1>1, <1>7, <1>10, <1>12, GotoKeeps
<1>14. WorkSanctions'
  BY <1>1, <1>7, <1>8, ReportsStay, UsersStay DEF WorkInv, WorkSanctions
<1>15. RowsFit(tables')
  BY <1>7 DEF Grows
<1> QED BY <1>1, <1>7, <1>8, <1>13, <1>14, <1>15, RightsStay, SweepStays DEF WorkInv

LEMMA ApplyKeeps == ASSUME WorkInv, NEW c \in Agents, Work!ApplySanction(c) PROVE WorkInv'
<1> DEFINE r == local[c]
           u == tables["reports"][r.report].user
           s == Work!StatusOf(r.verb)
<1>1. /\ step[c] = "status" /\ tables' = Work!SetStatus("users", u, s)
      /\ cause' = [cause EXCEPT ![u] = "report"]
      /\ Work!Goto(c, "close", r) /\ UNCHANGED <<entitled, known, sweep>>
  BY DEF Work!ApplySanction, Work!rights, Work!update_user_status
<1>2. /\ "users" \in Work!Names /\ "reports" \in Work!Names /\ "photos" \in Work!Names
      /\ RowsFit(tables) /\ Len(tables["users"]) \in Nat
  BY NamesAre, RowsAre DEF WorkInv
<1>3. Resolves(tables, "status", r)
  BY <1>1 DEF WorkInv, WorkCalls
<1>4. /\ r.report \in 1..Len(tables["reports"]) /\ r.verb \in {"suspend", "ban"} /\ r.verb \in Verbs
      /\ r.verdict = "actioned" /\ Told(tables, u, {r.verb})
  BY <1>3 DEF Resolves, Verbs
<1>5. u \in 0..Len(tables["users"])
  BY <1>2, <1>4, RowsAre
<1>6. s \in CaseStatuses
  BY DEF Work!StatusOf, CaseStatuses
<1> HIDE DEF u, r, s
<1>7. Grows /\ Edits("users", u, s)
  BY <1>1, <1>2, <1>6, EditsGrow
<1>8. tables'["reports"] = tables["reports"] /\ tables'["photos"] = tables["photos"]
  BY <1>2, <1>7 DEF Edits
<1>9. Told(tables', u, {r.verb})
  BY <1>4, <1>7, ToldStays
<1>10. Told(tables', u, Verbs)
  BY <1>4, <1>9 DEF Told
<1>11. u = tables'["reports"][r.report].user
  BY <1>8 DEF u, r
<1>12. Resolves(tables', "close", r)
  BY <1>4, <1>8, <1>10, <1>11 DEF Resolves
<1>13. WorkCalls'
  BY <1>1, <1>7, <1>12, GotoKeeps
<1>14. ASSUME NEW v \in 1..MaxRows, cause'[v] = "report"
       PROVE  v \in 1..Len(tables'["users"]) /\ UserTold(tables', v, tables'["users"][v].status)
  <2>1. CASE v = u
    <3>1. v \in 1..Len(tables["users"])
      BY <1>2, <1>5, <2>1
    <3>2. tables'["users"][v].status = s /\ v \in 1..Len(tables'["users"])
      BY <1>7, <2>1, <3>1 DEF Edits
    <3> QED BY <1>4, <1>9, <2>1, <3>2 DEF UserTold, s
  <2>2. CASE v # u
    <3>1. cause[v] = "report"
      BY <1>1, <1>14, <2>2 DEF WorkInv, WorkSanctions
    <3>2. v \in 1..Len(tables["users"]) => tables'["users"][v].status = tables["users"][v].status
      BY <1>7, <2>2 DEF Edits
    <3> QED BY <1>7, <3>1, <3>2, UsersStay
  <2> QED BY <2>1, <2>2
<1>15. cause' \in [1..MaxRows -> {"report", "other"}]
  BY <1>1 DEF WorkInv, WorkSanctions
<1>16. WorkSanctions'
  BY <1>7, <1>8, <1>14, <1>15, ReportsStay DEF WorkSanctions
<1>17. RowsFit(tables')
  BY <1>7 DEF Grows
<1> QED BY <1>1, <1>7, <1>8, <1>13, <1>16, <1>17, RightsStay, SweepStays DEF WorkInv

LEMMA CloseKeeps == ASSUME WorkInv, NEW c \in Agents, Work!CloseReport(c) PROVE WorkInv'
<1> DEFINE r == local[c]
           n == r.report
           u == tables["reports"][n].user
<1>1. /\ step[c] = "close" /\ tables' = Work!Stamp("reports", n, r.verdict)
      /\ Work!Goto(c, "idle", Work!NoReq) /\ UNCHANGED <<entitled, known, sweep, cause>>
  BY DEF Work!CloseReport, Work!rights, Work!resolve_report
<1>2. "users" \in Work!Names /\ "reports" \in Work!Names /\ "photos" \in Work!Names
  BY NamesAre
<1>3. Resolves(tables, "close", r)
  BY <1>1 DEF WorkInv, WorkCalls
<1>4. n \in 1..Len(tables["reports"]) /\ r.verdict \in CaseStatuses /\
          (r.verdict = "actioned" => Told(tables, u, Verbs))
  BY <1>3 DEF Resolves, CaseStatuses
<1> HIDE DEF r
<1>5. Grows /\ Edits("reports", n, r.verdict)
  BY <1>1, <1>2, <1>4, EditsGrow DEF WorkInv
<1>6. tables'["users"] = tables["users"] /\ tables'["photos"] = tables["photos"]
  BY <1>2, <1>5 DEF Edits
<1>7. ASSUME NEW k \in 1..Len(tables'["reports"]) PROVE ReportTold(tables', tables'["reports"][k])
  <2>1. k \in 1..Len(tables["reports"])
    BY <1>5 DEF Edits
  <2>2. CASE k = n
    <3>1. tables'["reports"][k].status = r.verdict /\ tables'["reports"][k].user = u
      BY <1>4, <1>5, <2>2 DEF Edits
    <3> QED BY <1>4, <1>5, <3>1, ToldStays DEF ReportTold
  <2>3. CASE k # n
    <3>1. tables'["reports"][k] = tables["reports"][k]
      BY <1>5, <2>1, <2>3 DEF Edits
    <3>2. ReportTold(tables, tables["reports"][k])
      BY <2>1 DEF WorkInv, WorkSanctions
    <3> QED BY <1>5, <3>1, <3>2, ToldStays DEF ReportTold
  <2> QED BY <2>2, <2>3
<1>8. WorkSanctions'
  BY <1>1, <1>5, <1>6, <1>7, UsersStay DEF WorkInv, WorkSanctions
<1>9. WorkCalls'
  BY <1>1, <1>5, GotoKeeps
<1>10. RowsFit(tables')
  BY <1>5 DEF Grows
<1> QED BY <1>1, <1>5, <1>6, <1>8, <1>9, <1>10, RightsStay, SweepStays DEF WorkInv

-----------------------------------------------------------------------------
(* A page of a list: the rows at the places after the offset.              *)
LEMMA PageHolds ==
  ASSUME NEW S, NEW lines \in Seq(S), NEW o \in Nat
  PROVE  /\ \A n \in Work!Page(lines, o) : \E i \in 1..Len(lines) : n = lines[i] /\ o < i /\ i <= o + Limit
         /\ \A i \in 1..Len(lines) : o < i /\ i <= o + Limit => lines[i] \in Work!Page(lines, o)
         /\ Work!Page(lines, o) \subseteq S
         /\ Work!Page(lines, o) = {} => Len(lines) <= o
<1> DEFINE last == IF o + Limit < Len(lines) THEN o + Limit ELSE Len(lines)
<1>1. Len(lines) \in Nat /\ Limit \in Nat /\ Limit > 0 /\ \A i \in 1..Len(lines) : lines[i] \in S
  BY TablesFit
<1>2. Work!Page(lines, o) = {lines[i] : i \in (o + 1)..last}
  BY DEF Work!Page
<1>3. last \in Nat /\ last <= Len(lines) /\ last <= o + Limit /\ (last = Len(lines) \/ last = o + Limit)
  BY <1>1
<1> HIDE DEF last
<1>4. ASSUME NEW n \in Work!Page(lines, o) PROVE \E i \in 1..Len(lines) : n = lines[i] /\ o < i /\ i <= o + Limit
  <2>1. PICK i \in (o + 1)..last : n = lines[i]
    BY <1>2
  <2>2. i \in 1..Len(lines) /\ o < i /\ i <= o + Limit
    BY <1>1, <1>3
  <2> QED BY <2>1, <2>2
<1>5. ASSUME NEW i \in 1..Len(lines), o < i, i <= o + Limit PROVE lines[i] \in Work!Page(lines, o)
  <2>1. i \in (o + 1)..last
    BY <1>1, <1>3, <1>5
  <2> QED BY <1>2, <2>1
<1>6. ASSUME Work!Page(lines, o) = {} PROVE Len(lines) <= o
  <2>1. ASSUME Len(lines) > o PROVE FALSE
    <3>1. o + 1 \in 1..Len(lines) /\ o < o + 1 /\ o + 1 <= o + Limit
      BY <1>1, <2>1
    <3> QED BY <1>5, <1>6, <3>1
  <2> QED BY <1>1, <2>1
<1>7. Work!Page(lines, o) \subseteq S
  BY <1>1, <1>4
<1> QED BY <1>4, <1>5, <1>6, <1>7

LEMMA TurnKeeps ==
  ASSUME WorkInv, NEW t \in Work!Names, NEW s \in {"all", "open", "pending"},
         NEW lines \in Seq(1..Len(tables[t])), Work!Turn(<<t, s>>, lines),
         s = "all" => /\ Len(lines) = Len(tables[t])
                      /\ \A i \in 1..Len(lines) : lines[i] = Len(tables[t]) + 1 - i,
         t = "photos" /\ s = "pending" => \A i \in 1..Len(lines) : Cardinality(UpTo(Pending(tables), lines[i])) = i
  PROVE  WorkInv'
<1> DEFINE N == Len(tables[t])
           P == Pending(tables)
           first == [Work!NoSweep EXCEPT !.list = <<t, s>>, !.start = N]
           cur == IF sweep.list = <<t, s>> /\ ~sweep.over THEN sweep ELSE first
           o == cur.offset
           page == Work!Page(lines, o)
           over == page = {}
           again == cur.again \/ page \cap cur.got # {}
           next == [cur EXCEPT !.offset = @ + Limit, !.got = @ \cup page, !.over = over, !.again = again]
<1>0. N \in Nat /\ RowsFit(tables) /\ Limit \in Nat /\ Limit > 0
  BY RowsAre, TablesFit DEF WorkInv
<1>1. /\ cur \in SweepRec /\ cur.list = <<t, s>> /\ cur.start <= N /\ cur.got \subseteq 1..N
      /\ s = "all" => \A n \in 1..cur.start : n > N - cur.offset => n \in cur.got
      /\ t = "photos" /\ s = "pending" => SeenOnce(P, cur)
  <2>1. CASE sweep.list = <<t, s>> /\ ~sweep.over
    <3>1. cur = sweep
      BY <2>1
    <3>2. sweep \in SweepRec /\ sweep.start <= N /\ sweep.got \subseteq 1..N
      BY <2>1 DEF WorkInv, WorkSweep
    <3>3. s = "all" => SeenAll(N, sweep)
      BY <2>1 DEF WorkInv, WorkSweep
    <3>4. t = "photos" /\ s = "pending" => SeenOnce(P, sweep)
      BY <2>1 DEF WorkInv, WorkSweep
    <3> HIDE DEF cur
    <3> QED BY <2>1, <3>1, <3>2, <3>3, <3>4 DEF SeenAll
  <2>2. CASE ~(sweep.list = <<t, s>> /\ ~sweep.over)
    <3>1. cur = first
      BY <2>2
    <3>2. /\ first.list = <<t, s>> /\ first.start = N /\ first.offset = 0 /\ first.got = {}
          /\ first.again = FALSE /\ first \in SweepRec
      BY <1>0 DEF Work!NoSweep, SweepRec
    <3> HIDE DEF cur, first
    <3>3. first.start <= N /\ first.got \subseteq 1..N
      BY <1>0, <3>2
    <3>4. \A n \in 1..first.start : ~(n > N - first.offset)
      BY <1>0, <3>2
    <3>5. SeenOnce(P, first)
      BY <3>2 DEF SeenOnce
    <3> QED BY <3>1, <3>2, <3>3, <3>4, <3>5
  <2> QED BY <2>1, <2>2
<1>2. sweep' = next /\ UNCHANGED <<tables, entitled, known, step, local, cause>>
  BY DEF Work!Turn, Work!rights
<1> HIDE DEF cur, first
<1>3. o \in Nat /\ cur.got \in SUBSET Nat /\ cur.start \in Nat /\ cur.again \in BOOLEAN
  BY <1>1 DEF SweepRec
<1> HIDE DEF o
<1>4. /\ \A n \in page : \E i \in 1..Len(lines) : n = lines[i] /\ o < i /\ i <= o + Limit
      /\ \A i \in 1..Len(lines) : o < i /\ i <= o + Limit => lines[i] \in page
      /\ page \subseteq 1..N /\ (page = {} => Len(lines) <= o)
  BY <1>3, PageHolds
<1>5. over \in BOOLEAN /\ again \in BOOLEAN /\ (over <=> page = {}) /\ (again <=> cur.again \/ page \cap cur.got # {})
  OBVIOUS
<1> HIDE DEF page, over, again
<1>6. /\ next \in SweepRec /\ next.list = <<t, s>> /\ next.start = cur.start /\ next.offset = o + Limit
      /\ next.got = cur.got \cup page /\ next.over = over /\ next.again = again
  <2>1. page \in SUBSET Nat
    BY <1>4
  <2> DEFINE off == o + Limit
             got == cur.got \cup page
  <2>2. got \in SUBSET Nat
    BY <1>3, <2>1, Zenon
  <2>3. off \in Nat
    BY <1>0, <1>3
  <2>4. next = [cur EXCEPT !.offset = off, !.got = got, !.over = over, !.again = again]
    BY DEF o
  <2>5. cur \in SweepRec /\ over \in BOOLEAN /\ again \in BOOLEAN
    BY <1>1, <1>5
  <2> HIDE DEF next, off, got
  <2>6. /\ next \in SweepRec /\ next.list = cur.list /\ next.start = cur.start /\ next.offset = off
        /\ next.got = got /\ next.over = over /\ next.again = again
    <3>1. PICK d \in BOOLEAN : d = over
      BY <2>5
    <3>2. PICK e \in BOOLEAN : e = again
      BY <2>5
    <3>3. next = [cur EXCEPT !.offset = off, !.got = got, !.over = d, !.again = e]
      BY <2>4, <3>1, <3>2
    <3>4. /\ next \in SweepRec /\ next.list = cur.list /\ next.start = cur.start /\ next.offset = off
          /\ next.got = got /\ next.over = d /\ next.again = e
      <4>1. next \in SweepRec
        BY <2>2, <2>3, <2>5, <3>3 DEF SweepRec
      <4>2. next.list = cur.list /\ next.start = cur.start
        BY <2>2, <2>3, <2>5, <3>3 DEF SweepRec
      <4>3. next.offset = off /\ next.got = got
        BY <2>2, <2>3, <2>5, <3>3 DEF SweepRec
      <4>4. next.over = d
        BY <2>2, <2>3, <2>5, <3>3 DEF SweepRec
      <4>5. next.again = e
        BY <2>2, <2>3, <2>5, <3>3 DEF SweepRec
      <4> QED BY <4>1, <4>2, <4>3, <4>4, <4>5
    <3> QED BY <3>1, <3>2, <3>4
  <2> QED BY <1>1, <2>6 DEF off, got
<1> HIDE DEF next
<1>7. next.got \subseteq 1..N /\ next.start <= N
  BY <1>1, <1>4, <1>6
<1>8. ASSUME s = "all" PROVE SeenAll(N, next)
  <2>1. Len(lines) = N /\ \A i \in 1..N : lines[i] = N + 1 - i
    BY <1>8
  <2>2. \A n \in 1..cur.start : n > N - o => n \in cur.got
    BY <1>1, <1>8 DEF o
  <2>3. ASSUME NEW n \in 1..cur.start, n > N - (o + Limit) PROVE n \in next.got
    <3>1. CASE n > N - o
      BY <1>6, <2>2, <3>1
    <3>2. CASE ~(n > N - o)
      <4>1. n \in 1..N
        BY <1>0, <1>1, <1>3
      <4>2. N + 1 - n \in 1..N /\ o < N + 1 - n /\ N + 1 - n <= o + Limit
        BY <1>0, <1>3, <2>3, <3>2, <4>1
      <4>3. lines[N + 1 - n] = N + 1 - (N + 1 - n)
        BY <2>1, <4>2
      <4>4. lines[N + 1 - n] = n
        BY <1>0, <4>1, <4>3
      <4> QED BY <1>4, <1>6, <2>1, <4>2, <4>4
    <3> QED BY <3>1, <3>2
  <2>4. ASSUME over PROVE 1..cur.start \subseteq next.got
    <3>1. N <= o
      BY <1>4, <1>5, <2>1, <2>4
    <3>2. \A n \in 1..cur.start : n > N - o
      BY <1>0, <1>3, <3>1
    <3> QED BY <1>6, <2>2, <3>2
  <2> QED BY <1>6, <2>3, <2>4 DEF SeenAll
<1>9. ASSUME t = "photos", s = "pending" PROVE SeenOnce(P, next)
  <2>1. \A i \in 1..Len(lines) : Cardinality(UpTo(P, lines[i])) = i
    BY <1>9
  <2>2. SeenOnce(P, cur)
    BY <1>1, <1>9
  <2> HIDE DEF P
  <2>3. ~cur.again /\ \A n \in cur.got : Cardinality(UpTo(P, n)) <= o
    BY <2>2 DEF SeenOnce, o
  <2>4. ASSUME NEW n \in page PROVE \E i \in Nat : Cardinality(UpTo(P, n)) = i /\ o < i /\ i <= o + Limit
    <3>1. PICK i \in 1..Len(lines) : n = lines[i] /\ o < i /\ i <= o + Limit
      BY <1>4
    <3>2. Cardinality(UpTo(P, n)) = i
      BY <2>1, <3>1
    <3>3. i \in Nat
      OBVIOUS
    <3> QED BY <3>1, <3>2, <3>3
  <2>5. page \cap cur.got = {}
    BY <1>3, <2>3, <2>4
  <2>6. ~next.again
    BY <1>5, <1>6, <2>3, <2>5
  <2>7. ASSUME NEW n \in next.got PROVE Cardinality(UpTo(P, n)) <= o + Limit
    <3>1. CASE n \in page
      BY <2>4, <3>1
    <3>2. CASE n \in cur.got
      <4>1. Cardinality(UpTo(P, n)) <= o
        BY <2>3, <3>2
      <4>2. Cardinality(UpTo(P, n)) \in Nat
        <5>1. Rows(N, P)
          BY <1>9 DEF Rows, P, Pending
        <5>2. UpTo(P, n) \subseteq P
          BY DEF UpTo
        <5> QED BY <1>0, <5>1, <5>2, FewRows
      <4> QED BY <1>0, <1>3, <4>1, <4>2
    <3> QED BY <1>6, <2>7, <3>1, <3>2
  <2> QED BY <1>6, <2>6, <2>7 DEF SeenOnce
<1>10. WorkSweep'
  <2>1. next.list[1] = t /\ next.list[2] = s
    BY <1>6
  <2>2. next.list = <<"photos", "pending">> => t = "photos" /\ s = "pending"
    BY <2>1
  <2> HIDE DEF P
  <2>3. tables' = tables /\ sweep' = next
    BY <1>2
  <2> QED BY <1>6, <1>7, <1>8, <1>9, <2>1, <2>2, <2>3 DEF WorkSweep, P
<1>11. RowsFit(tables') /\ WorkRights' /\ WorkCalls' /\ WorkSanctions'
  BY <1>2 DEF WorkInv, WorkRights, WorkCalls, WorkSanctions
<1> QED BY <1>10, <1>11 DEF WorkInv

LEMMA NewestKeeps ==
  ASSUME WorkInv, NEW t \in Work!Names, NEW s \in {"all", "open", "pending"}, t # "photos",
         Work!Turn(<<t, s>>, Work!Newest(t, s))
  PROVE  WorkInv'
<1> DEFINE N == Len(tables[t])
           S == {n \in 1..N : s = "all" \/ tables[t][n].status = s}
           lines == Work!Sorted(S, FALSE)
<1>1. N \in Nat /\ Rows(N, S)
  BY RowsAre DEF WorkInv, Rows
<1>2. Work!Newest(t, s) = lines
  BY DEF Work!Newest, Work!Select, Work!Ids
<1>3. s = "all" => S = 1..N
  OBVIOUS
<1> HIDE DEF S
<1>4. lines \in Seq(S) /\ Len(lines) = Cardinality(S)
  BY <1>1, SortedRows
<1>5. ASSUME s = "all" PROVE Len(lines) = N /\ \A i \in 1..Len(lines) : lines[i] = N + 1 - i
  <2>1. Cardinality(S) = N
    <3>1. Cardinality(1..N) = N
      BY <1>1, FS_Interval
    <3> QED BY <1>3, <1>5, <3>1
  <2> QED BY <1>1, <1>3, <1>4, <1>5, <2>1, SortedAll
<1> HIDE DEF lines
<1>6. lines \in Seq(1..N)
  BY <1>1, <1>4, SeqMonotonic DEF Rows
<1> QED BY <1>2, <1>5, <1>6, TurnKeeps

LEMMA PendingKeeps == ASSUME WorkInv, Work!ListPendingPhotos PROVE WorkInv'
<1> DEFINE N == Len(tables["photos"])
           lines == Work!Sorted(Pending(tables), TRUE)
<1>1. "photos" \in Work!Names
  BY NamesAre
<1>2. N \in Nat /\ Rows(N, Pending(tables))
  BY <1>1, RowsAre DEF WorkInv, Rows, Pending
<1>3. Work!Turn(<<"photos", "pending">>, lines)
  BY DEF Work!ListPendingPhotos, Work!list_pending_photos, Work!Select, Work!Ids, Pending
<1>4. /\ lines \in Seq(Pending(tables)) /\ Len(lines) = Cardinality(Pending(tables))
      /\ \A i \in 1..Len(lines) : Cardinality(UpTo(Pending(tables), lines[i])) = i
  BY <1>2, SortedUp
<1> HIDE DEF lines
<1>5. lines \in Seq(1..N)
  BY <1>2, <1>4, SeqMonotonic DEF Rows
<1> QED BY <1>1, <1>3, <1>4, <1>5, TurnKeeps

-----------------------------------------------------------------------------
LEMMA ListKeeps ==
  ASSUME WorkInv,
         \/ \E s \in {"all", "open"} : Work!ListReports(s)
         \/ \E s \in {"all", "pending"} : Work!ListCsamHits(s) \/ Work!ListDataRequests(s)
         \/ Work!ListPendingPhotos \/ Work!ListAudit \/ Work!ListUsers
  PROVE  WorkInv'
<1>1. /\ \A t \in {"users", "reports", "csam_hits", "data_requests", "audit_log"} : t \in Work!Names /\ t # "photos"
      /\ \A s \in {"all", "open"} : s \in {"all", "open", "pending"}
      /\ \A s \in {"all", "pending"} : s \in {"all", "open", "pending"}
  BY NamesAre
<1>2. ASSUME NEW s \in {"all", "open"}, Work!ListReports(s) PROVE WorkInv'
  <2>1. Work!Turn(<<"reports", s>>, Work!Newest("reports", s))
    BY <1>2 DEF Work!ListReports, Work!list_reports
  <2> QED BY <1>1, <2>1, NewestKeeps
<1>3. ASSUME NEW s \in {"all", "pending"}, Work!ListCsamHits(s) PROVE WorkInv'
  <2>1. Work!Turn(<<"csam_hits", s>>, Work!Newest("csam_hits", s))
    BY <1>3 DEF Work!ListCsamHits, Work!list_csam_hits
  <2> QED BY <1>1, <2>1, NewestKeeps
<1>4. ASSUME NEW s \in {"all", "pending"}, Work!ListDataRequests(s) PROVE WorkInv'
  <2>1. Work!Turn(<<"data_requests", s>>, Work!Newest("data_requests", s))
    BY <1>4 DEF Work!ListDataRequests, Work!list_data_requests
  <2> QED BY <1>1, <2>1, NewestKeeps
<1>5. ASSUME Work!ListAudit PROVE WorkInv'
  <2>1. Work!Turn(<<"audit_log", "all">>, Work!Newest("audit_log", "all"))
    BY <1>5 DEF Work!ListAudit, Work!search_audit_log
  <2> QED BY <1>1, <2>1, NewestKeeps
<1>6. ASSUME Work!ListUsers PROVE WorkInv'
  <2>1. Work!Turn(<<"users", "all">>, Work!Newest("users", "all"))
    BY <1>6 DEF Work!ListUsers, Work!search_users
  <2> QED BY <1>1, <2>1, NewestKeeps
<1> QED BY <1>2, <1>3, <1>4, <1>5, <1>6, PendingKeeps

(* The rows that others add, and the statements about one user.            *)
LEMMA UserRowsKeep ==
  ASSUME WorkInv,
         \/ Work!Register
         \/ \E u \in 1..Len(tables["users"]) :
              \/ Work!Upload(u) \/ Work!PlaceLegalHold(u)
              \/ \E by \in 1..Len(tables["users"]) : Work!CreateReport(by, u)
              \/ \E t \in {"csam_hits", "data_requests"} : Work!Arrive(t, u)
  PROVE  WorkInv'
<1>1. Len(tables["users"]) \in Nat
  BY NamesAre, RowsAre DEF WorkInv
<1>2. ASSUME NEW t \in Work!Names, NEW u \in 0..Len(tables["users"]), NEW s \in {"active", "open", "pending", "held"},
             Work!Room(t), Work!Change(Work!Insert(t, Work!Row(u, s)))
      PROVE  WorkInv'
  <2>1. s \in CaseStatuses /\ s # "actioned"
    BY <1>2 DEF CaseStatuses
  <2>2. /\ tables' = Work!Insert(t, Work!Row(u, s))
        /\ UNCHANGED <<entitled, known, step, local, sweep, cause>>
    BY <1>2 DEF Work!Change, Work!Store, Work!rights
  <2> QED BY <1>2, <2>1, <2>2, AddsQuiet
<1>3. CASE Work!Register
  <2>1. Work!Room("users") /\ Work!Change(Work!Insert("users", Work!Row(0, "active")))
    BY <1>3 DEF Work!Register
  <2> QED BY <1>1, <1>2, <2>1, NamesAre
<1>4. ASSUME NEW u \in 1..Len(tables["users"]), Work!Upload(u) PROVE WorkInv'
  <2>1. Work!Room("photos") /\ Work!Change(Work!Insert("photos", Work!Row(u, "pending")))
    BY <1>4 DEF Work!Upload
  <2> QED BY <1>1, <1>2, <2>1, NamesAre
<1>5. ASSUME NEW u \in 1..Len(tables["users"]), Work!PlaceLegalHold(u) PROVE WorkInv'
  <2>1. Work!Room("legal_holds") /\ Work!Change(Work!Insert("legal_holds", Work!Row(u, "held")))
    BY <1>5 DEF Work!PlaceLegalHold, Work!place_legal_hold
  <2> QED BY <1>1, <1>2, <2>1, NamesAre
<1>6. ASSUME NEW u \in 1..Len(tables["users"]), NEW by \in 1..Len(tables["users"]), Work!CreateReport(by, u)
      PROVE  WorkInv'
  <2>1. Work!Room("reports") /\ Work!Change(Work!Insert("reports", Work!Row(u, "open")))
    BY <1>6 DEF Work!CreateReport, Work!create_report
  <2> QED BY <1>1, <1>2, <2>1, NamesAre
<1>7. ASSUME NEW u \in 1..Len(tables["users"]), NEW t \in {"csam_hits", "data_requests"}, Work!Arrive(t, u)
      PROVE  WorkInv'
  <2>1. Work!Room(t) /\ Work!Change(Work!Insert(t, Work!Row(u, "pending"))) /\ t \in Work!Names
    BY <1>7, NamesAre DEF Work!Arrive
  <2> QED BY <1>1, <1>2, <2>1
<1> QED BY <1>3, <1>4, <1>5, <1>6, <1>7

LEMMA RowStatusKeeps ==
  ASSUME WorkInv,
         \/ \E n \in 1..Len(tables["reports"]) : Work!ReviewReport(n)
         \/ \E n \in 1..Len(tables["photos"]) : Work!ApprovePhoto(n) \/ Work!RejectPhoto(n)
         \/ \E n \in 1..Len(tables["csam_hits"]) : Work!ReportCsamHit(n)
         \/ \E n \in 1..Len(tables["data_requests"]), s \in {"processing", "completed", "rejected"} :
              Work!ProcessDataRequest(n, s)
         \/ \E n \in 1..Len(tables["legal_holds"]) : Work!ReleaseLegalHold(n)
  PROVE  WorkInv'
<1>1. ASSUME NEW t \in Work!Names, t \notin {"moderation_actions", "users"}, NEW n,
             NEW s \in {"reviewing", "approved", "rejected", "reported", "processing", "completed", "released"},
             Work!Change(Work!SetStatus(t, n, s)) \/ Work!Change(Work!Stamp(t, n, s))
      PROVE  WorkInv'
  <2>1. s \in CaseStatuses /\ s # "actioned" /\ s # "pending"
    BY <1>1 DEF CaseStatuses
  <2>2. /\ tables' = Work!SetStatus(t, n, s) \/ tables' = Work!Stamp(t, n, s)
        /\ UNCHANGED <<entitled, known, step, local, sweep, cause>>
    BY <1>1 DEF Work!Change, Work!Store, Work!rights
  <2> QED BY <1>1, <2>1, <2>2, EditsQuiet
<1>2. \A t \in {"reports", "photos", "csam_hits", "data_requests", "legal_holds"} :
        t \in Work!Names /\ t \notin {"moderation_actions", "users"}
  BY NamesAre
<1>3. ASSUME NEW n, Work!ReviewReport(n) PROVE WorkInv'
  <2>1. Work!Change(Work!SetStatus("reports", n, "reviewing"))
    BY <1>3 DEF Work!ReviewReport, Work!update_report_status
  <2> QED BY <1>1, <1>2, <2>1
<1>4. ASSUME NEW n, Work!ApprovePhoto(n) \/ Work!RejectPhoto(n) PROVE WorkInv'
  <2>1. Work!Change(Work!SetStatus("photos", n, "approved")) \/ Work!Change(Work!SetStatus("photos", n, "rejected"))
    BY <1>4 DEF Work!ApprovePhoto, Work!RejectPhoto, Work!update_photo_moderation
  <2> QED BY <1>1, <1>2, <2>1
<1>5. ASSUME NEW n, Work!ReportCsamHit(n) PROVE WorkInv'
  <2>1. Work!Change(Work!Stamp("csam_hits", n, "reported"))
    BY <1>5 DEF Work!ReportCsamHit, Work!report_csam_hit
  <2> QED BY <1>1, <1>2, <2>1
<1>6. ASSUME NEW n, NEW s \in {"processing", "completed", "rejected"}, Work!ProcessDataRequest(n, s) PROVE WorkInv'
  <2>1. Work!Change(Work!SetStatus("data_requests", n, s)) \/ Work!Change(Work!Stamp("data_requests", n, s))
    BY <1>6 DEF Work!ProcessDataRequest, Work!update_data_request
  <2> QED BY <1>1, <1>2, <1>6, <2>1
<1>7. ASSUME NEW n, Work!ReleaseLegalHold(n) PROVE WorkInv'
  <2>1. CASE tables["legal_holds"][n].stamped
    <3>1. UNCHANGED <<tables, entitled, known, step, local, sweep, cause>>
      BY <1>7, <2>1 DEF Work!ReleaseLegalHold, Work!release_legal_hold, Work!Change, Work!Store, Work!rights
    <3> QED BY <3>1 DEF WorkInv, WorkRights, WorkCalls, WorkSanctions, WorkSweep
  <2>2. CASE ~tables["legal_holds"][n].stamped
    <3>1. Work!Change(Work!Stamp("legal_holds", n, "released"))
      BY <1>7, <2>2 DEF Work!ReleaseLegalHold, Work!release_legal_hold
    <3> QED BY <1>1, <1>2, <3>1
  <2> QED BY <2>1, <2>2
<1> QED BY <1>3, <1>4, <1>5, <1>6, <1>7

LEMMA UserStatusKeeps ==
  ASSUME WorkInv, NEW u \in 1..Len(tables["users"]),
         \/ Work!DeleteAccount(u) \/ Work!BanUser(u) \/ Work!SuspendUser(u) \/ Work!ActivateUser(u)
  PROVE  WorkInv'
<1>1. PICK s \in {"deleted", "banned", "suspended", "active"} :
        Work!Store(Work!SetStatus("users", u, s)) /\ cause' = [cause EXCEPT ![u] = "other"]
  BY DEF Work!DeleteAccount, Work!BanUser, Work!SuspendUser, Work!ActivateUser, Work!SetUserStatus,
        Work!update_user_status
<1>2. s \in CaseStatuses
  BY DEF CaseStatuses
<1>3. tables' = Work!SetStatus("users", u, s) /\ UNCHANGED <<entitled, known, step, local, sweep>>
  BY <1>1 DEF Work!Store, Work!rights
<1> QED BY <1>1, <1>2, <1>3, StatusKeeps

LEMMA EntitlementKeeps ==
  ASSUME WorkInv, NEW u \in 1..Len(tables["users"]), NEW f \in Features, NEW grant \in BOOLEAN,
         Work!ManageEntitlement(u, f, grant)
  PROVE  WorkInv'
<1>1. UNCHANGED <<tables, step, local, sweep, cause>>
  BY DEF Work!ManageEntitlement
<1>2. WorkRights'
  BY <1>1 DEF WorkInv, WorkRights, Work!ManageEntitlement, Work!grant_entitlement, Work!revoke_entitlement
<1> QED BY <1>1, <1>2 DEF WorkInv, WorkCalls, WorkSanctions, WorkSweep

-----------------------------------------------------------------------------
LEMMA WorkInitInv == Work!Init => WorkInv
<1> SUFFICES ASSUME Work!Init PROVE WorkInv
  OBVIOUS
<1>1. /\ tables = Cases /\ entitled = {} /\ known = {} /\ step = [c \in Agents |-> "idle"] /\ DOMAIN local = Agents
      /\ sweep = Work!NoSweep /\ cause = [n \in 1..MaxRows |-> "other"]
  BY DEF Work!Init
<1>2. RowsFit(tables)
  <2>1. Cases \in [Work!Names -> Seq(CaseRow)]
    BY TablesFit DEF CaseRow
  <2>2. "users" \in Work!Names /\ Len(Cases["users"]) \in Nat
    BY <2>1, NamesAre, LenProperties
  <2>3. ASSUME NEW t \in Work!Names
        PROVE  Len(Cases[t]) <= MaxRows /\ \A n \in 1..Len(Cases[t]) : Cases[t][n].user <= Len(Cases["users"])
    BY <2>2, TablesFit
  <2> QED BY <1>1, <2>1, <2>3 DEF RowsFit
<1>3. WorkRights /\ WorkCalls
  BY <1>1 DEF WorkRights, WorkCalls
<1>4. WorkSanctions
  <2>1. ASSUME NEW n \in 1..Len(Cases["reports"]), Cases["reports"][n].status = "actioned"
        PROVE  Told(Cases, Cases["reports"][n].user, Verbs)
    BY <2>1, TablesFit DEF Told, Verbs
  <2> QED BY <1>1, <2>1 DEF WorkSanctions, ReportTold
<1>5. WorkSweep
  <2>1. /\ sweep.list = <<"users", "all">> /\ sweep.offset = 0 /\ sweep.start = 0 /\ sweep.got = {}
        /\ sweep.again = FALSE /\ sweep.over = FALSE /\ sweep \in SweepRec
    BY <1>1, NamesAre DEF Work!NoSweep, SweepRec
  <2>2. Len(tables["users"]) \in Nat
    BY <1>2, NamesAre, RowsAre
  <2>3. SeenAll(Len(tables["users"]), sweep)
    BY <2>1 DEF SeenAll
  <2> QED BY <2>1, <2>2, <2>3 DEF WorkSweep
<1> QED BY <1>2, <1>3, <1>4, <1>5 DEF WorkInv

LEMMA WorkStepInv == ASSUME WorkInv, Work!Next PROVE WorkInv'
<1>1. Work!Users = 1..Len(tables["users"]) /\ \A t : Work!Ids(t) = 1..Len(tables[t])
  BY DEF Work!Users, Work!Ids
<1>2. {"warn", "suspend", "ban", "clear"} = Verbs
  BY DEF Verbs
<1>3. ASSUME NEW c \in Agents,
             \/ Work!RecordAction(c) \/ Work!ApplySanction(c) \/ Work!CloseReport(c)
             \/ Work!LogExport(c) \/ Work!LogFails(c) \/ Work!Abort(c)
      PROVE  WorkInv'
  BY <1>3, RecordKeeps, ApplyKeeps, CloseKeeps, LogKeeps, LeaveKeeps
<1> QED BY <1>1, <1>2, <1>3, UserRowsKeep, RowStatusKeeps, UserStatusKeeps, EntitlementKeeps, ListKeeps,
           ResolveKeeps, ExportKeeps DEF Work!Next

LEMMA WorkUntouched == WorkInv /\ UNCHANGED Work!vars => WorkInv'
BY DEF WorkInv, WorkRights, WorkCalls, WorkSanctions, WorkSweep, Work!vars, Work!rights

LEMMA WorkInvShows == WorkInv => Work!TypeOK /\ Work!SanctionsAreRecorded /\ Work!PagingIsSound
<1> SUFFICES ASSUME WorkInv PROVE Work!TypeOK /\ Work!SanctionsAreRecorded /\ Work!PagingIsSound
  OBVIOUS
<1>1. \A t : Work!Ids(t) = 1..Len(tables[t])
  BY DEF Work!Ids
<1>2. Work!TypeOK
  <2>1. DOMAIN tables = Work!Names
    BY DEF WorkInv, RowsFit
  <2>2. Len(tables["users"]) \in Nat
    BY NamesAre, RowsAre DEF WorkInv
  <2>3. ASSUME NEW t \in Work!Names, NEW n \in Work!Ids(t)
        PROVE  tables[t][n].user \in Work!Ids("users") \cup {0}
    <3>1. tables[t][n].user \in 0..Len(tables["users"])
      BY <1>1, RowsAre DEF WorkInv
    <3> QED BY <1>1, <2>2, <3>1
  <2>4. entitled \subseteq known /\ known \subseteq Work!Ids("users") \X Features
    BY <1>1 DEF WorkInv, WorkRights
  <2>5. \A c \in Agents : step[c] \in {"action", "status", "close"} => local[c].report \in Work!Ids("reports")
    BY <1>1 DEF WorkInv, WorkCalls, Resolves
  <2>6. sweep.got \subseteq Work!Ids(sweep.list[1]) /\ sweep.offset \in Nat
    BY <1>1 DEF WorkInv, WorkSweep, SweepRec
  <2> QED BY <2>1, <2>3, <2>4, <2>5, <2>6 DEF Work!TypeOK
<1>3. ASSUME NEW u, NEW verbs, Told(tables, u, verbs) PROVE Work!Recorded(u, verbs)
  BY <1>1, <1>3 DEF Told, Work!Recorded
<1>4. ASSUME NEW n \in Work!Ids("reports"), tables["reports"][n].status = "actioned"
      PROVE  Work!Recorded(tables["reports"][n].user, {"warn", "suspend", "ban", "clear"})
  <2>1. Told(tables, tables["reports"][n].user, Verbs)
    BY <1>1, <1>4 DEF WorkInv, WorkSanctions, ReportTold
  <2> QED BY <1>3, <2>1 DEF Verbs
<1>5. ASSUME NEW u \in Work!Users, cause[u] = "report"
      PROVE  \E verb \in {"suspend", "ban"} :
               tables["users"][u].status = Work!StatusOf(verb) /\ Work!Recorded(u, {verb})
  <2>1. u \in 1..MaxRows
    <3>1. u \in 1..Len(tables["users"])
      BY <1>1 DEF Work!Users
    <3>2. Len(tables["users"]) \in Nat /\ Len(tables["users"]) <= MaxRows /\ MaxRows \in Nat
      BY NamesAre, RowsAre, TablesFit DEF WorkInv
    <3> QED BY <3>1, <3>2
  <2>2. UserTold(tables, u, tables["users"][u].status)
    BY <1>5, <2>1 DEF WorkInv, WorkSanctions
  <2> QED BY <1>3, <2>2 DEF UserTold
<1>6. Work!SanctionsAreRecorded
  BY <1>4, <1>5 DEF Work!SanctionsAreRecorded
<1>7. Work!PagingIsSound
  BY DEF Work!PagingIsSound, WorkInv, WorkSweep, SeenAll, SeenOnce
<1> QED BY <1>2, <1>6, <1>7

-----------------------------------------------------------------------------
(* Whatever the part, the door keeps its invariant: the other parts leave  *)
(* its tables alone.  That of a part holds while the behaviour is of it.   *)
ConsoleInv ==
  /\ Inv
  /\ part = "cases" => WorkInv
  /\ part = "catalog" => CatInv
  /\ part = "push" => PushInv

LEMMA ConsoleInitInv == ConsoleInit => ConsoleInv
<1> SUFFICES ASSUME ConsoleInit PROVE ConsoleInv
  OBVIOUS
<1>1. Init
  BY DEF ConsoleInit
<1>2. Inv
  BY <1>1, InitInv, SensibleConstants
<1>3. /\ part = "cases" => Work!Init
      /\ part = "catalog" => Cat!Init
      /\ part = "push" => Fcm!Init
  BY DEF ConsoleInit
<1> QED BY <1>2, <1>3, WorkInitInv, CatInitInv, PushInitInv DEF ConsoleInv

LEMMA ConsoleStepInv == ConsoleInv /\ [ConsoleNext]_consoleVars => ConsoleInv'
<1> SUFFICES ASSUME ConsoleInv, [ConsoleNext]_consoleVars PROVE ConsoleInv'
  OBVIOUS
<1>1. CASE ConsoleNext
  <2>1. UNCHANGED part
    BY <1>1 DEF ConsoleNext
  <2>2. [Next]_vars
    BY <1>1 DEF ConsoleNext
  <2>3. Inv'
    BY <2>2, StepInv, SensibleConstants DEF ConsoleInv
  <2>4. /\ part = "cases" => Work!Next
        /\ part = "catalog" => Cat!Next
        /\ part = "push" => Fcm!Next
    BY <1>1 DEF ConsoleNext
  <2> QED BY <2>1, <2>3, <2>4, WorkStepInv, CatStepInv, PushStepInv DEF ConsoleInv
<1>2. CASE UNCHANGED consoleVars
  <2>1. UNCHANGED <<part, vars, partVars, workVars, catVars, fcmVars>>
    BY <1>2 DEF consoleVars
  <2>2. UNCHANGED Work!vars /\ UNCHANGED Cat!vars /\ UNCHANGED Fcm!vars
    BY <2>1 DEF partVars, workVars, catVars, fcmVars, Work!vars, Work!rights, Cat!vars, Fcm!vars
  <2>3. Inv'
    BY <2>1, StepInv, SensibleConstants DEF ConsoleInv
  <2> QED BY <2>1, <2>2, <2>3, WorkUntouched, CatUntouched, PushUntouched DEF ConsoleInv
<1> QED BY <1>1, <1>2

LEMMA ConsoleInvariance == ConsoleSpec => []ConsoleInv
BY ConsoleInitInv, ConsoleStepInv, PTL DEF ConsoleSpec

(* Every part is well typed for any staff, rows, people and calls: among   *)
(* else, a key that the catalogue's tables declare unique is, a feature or *)
(* price names a plan that is there (db/src/plans.rs), and whoever holds   *)
(* the lock on the access token is fetching one (fcm.rs).                  *)
THEOREM PartsAreTyped == ConsoleSpec => []PartsTypeOK
<1>1. ConsoleInv => PartsTypeOK
  BY WorkInvShows, CatInvShows, PushInvShows DEF ConsoleInv, PartsTypeOK, Inv
<1> QED BY <1>1, ConsoleInvariance, PTL

(* However resolutions of reports overlap or fail, a report closed as      *)
(* actioned has a moderation_actions row on its target, and a user whose   *)
(* account a report last suspended or banned has one with that verb        *)
(* (resolve_report of the admin handlers).                                 *)
THEOREM SanctionsHaveRows == ConsoleSpec => []SanctionsAreRecorded
<1>1. ConsoleInv => SanctionsAreRecorded
  BY WorkInvShows DEF ConsoleInv, SanctionsAreRecorded
<1> QED BY <1>1, ConsoleInvariance, PTL

(* For any size of page, and whatever is reported, decided or deleted      *)
(* meanwhile, paging by offset through rows newest first shows all those   *)
(* that were there at the start, and through photos to moderate, oldest    *)
(* first, none of them twice.                                              *)
THEOREM PagesAreSound == ConsoleSpec => []PagingIsSound
<1>1. ConsoleInv => PagingIsSound
  BY WorkInvShows DEF ConsoleInv, PagingIsSound
<1> QED BY <1>1, ConsoleInvariance, PTL

(* For any number of callers and failures, a version marked as rolled back *)
(* has been written back, and it is written back no more often than there  *)
(* are callers and marks lost (rollback_config_version).                   *)
THEOREM RollbacksAreHonest == ConsoleSpec => []RollbackIsHonest
<1>1. ConsoleInv => RollbackIsHonest
  BY CatInvShows DEF ConsoleInv, RollbackIsHonest
<1> QED BY <1>1, ConsoleInvariance, PTL

(* For any people, devices, campaigns and failures, a campaign is marked   *)
(* as sent, and a tap's push is over, only when each device still owed its *)
(* message has been tried (send_campaign, send_to_user).                   *)
THEOREM SentHasTried == ConsoleSpec => []SentMeansAttempted
<1>1. ConsoleInv => SentMeansAttempted
  BY PushInvShows DEF ConsoleInv, SentMeansAttempted
<1> QED BY <1>1, ConsoleInvariance, PTL
=============================================================================

---------------------------- MODULE BillingProofs ---------------------------
(***************************************************************************)
(* Proofs about Billing, for any number of events, rows and concurrent     *)
(* requests.                                                               *)
(***************************************************************************)
EXTENDS Billing, TLAPS

LEMMA FirstStepType ==
  ASSUME NEW t \in Types
  PROVE  t # "ignored" => FirstStep[t] \in {"grant_expire", "revoke", "mark"}
BY DEF Types, FirstStep

LEMMA LocalsOf ==
  ASSUME NEW e \in Terms, NEW p \in Plans
  PROVE  /\ [event |-> e, plan |-> p, tier |-> "free"] \in Locals
         /\ Blank \in Locals /\ [Blank EXCEPT !.plan = p] \in Locals
BY DEF Locals, Blank, Terms, Tiers, Plans

LEMMA ReadTierType ==
  ASSUME NEW q \in Locals, NEW t \in Tiers
  PROVE  /\ [q EXCEPT !.tier = t] \in Locals
         /\ [q EXCEPT !.tier = t].event = q.event
         /\ [q EXCEPT !.tier = t].plan = q.plan
         /\ [q EXCEPT !.tier = t].tier = t
BY DEF Locals

LEMMA BestTierType == BestTier \in Tiers
BY DEF BestTier, Tiers

RequestsOK ==
  /\ pc \in [Reqs -> Steps]
  /\ rq \in [Reqs -> Locals]
  /\ \A r \in Reqs : pc[r] \notin {"idle", "sim_insert"} => rq[r].event \in Events

LEMMA RequestsMove ==
  ASSUME RequestsOK, NEW r \in Reqs, NEW s \in Steps, NEW q \in Locals,
         s \notin {"idle", "sim_insert"} => q.event \in Events, Goto(r, s, q)
  PROVE  RequestsOK'
BY DEF RequestsOK, Goto

LEMMA RequestEnds ==
  ASSUME RequestsOK, NEW r \in Reqs, Finish(r)
  PROVE  RequestsOK'
<1>1. Blank \in Locals /\ "idle" \in Steps
  BY DEF Blank, Locals, Terms, Plans, Tiers, Steps
<1> QED BY <1>1, RequestsMove DEF Finish

LEMMA WebhookTypes ==
  ASSUME TypeOK, NEW r \in Reqs, WebhookStep(r)
  PROVE  TypeOK'
<1> DEFINE me == rq[r]
<1>0. RequestsOK /\ me \in Locals /\ me.event \in Terms /\ me.plan \in Plans /\ me.tier \in Tiers
  BY DEF TypeOK, RequestsOK, Locals
<1>1. ASSUME NEW e \in Events, NEW found \in BOOLEAN, Deliver(r, e, found) PROVE TypeOK'
  <2>1. CASE found \/ kind[e].type = "ignored"
    BY <1>1, <2>1 DEF Deliver, TypeOK, subscriptions, overlaps
  <2>2. CASE ~(found \/ kind[e].type = "ignored")
    <3> DEFINE s == FirstStep[kind[e].type]
               q == [event |-> e, plan |-> kind[e].plan, tier |-> "free"]
    <3>1. s \in Steps
      BY <2>2, FirstStepType DEF TypeOK, Steps
    <3>2. q \in Locals /\ q.event \in Events
      BY LocalsOf DEF TypeOK, Terms
    <3>3. Goto(r, s, q)
      BY <1>1, <2>2 DEF Deliver
    <3>4. RequestsOK'
      BY <1>0, <3>1, <3>2, <3>3, RequestsMove
    <3> QED BY <1>1, <3>4 DEF Deliver, TypeOK, RequestsOK, subscriptions, overlaps
  <2> QED BY <2>1, <2>2
<1>2. CASE GrantExpire(r)
  <2>1. RequestsOK'
    BY <1>0, <1>2, RequestsMove DEF GrantExpire, Steps, TypeOK
  <2> QED BY <1>0, <1>2, <2>1 DEF GrantExpire, TypeOK, RequestsOK, SetActive, NoteRace, Paid
<1>3. CASE Revoke(r)
  <2>1. RequestsOK' /\ me.event \in Events
    BY <1>0, <1>3, RequestsMove DEF Revoke, Steps, TypeOK
  <2> QED BY <1>0, <1>3, <2>1 DEF Revoke, TypeOK, RequestsOK, SetActive, NoteRace, Paid, Run
<1>4. ASSUME NEW s \in Rows, GrantInsert(r, s) PROVE TypeOK'
  <2>1. RequestsOK' /\ me.event \in Events
    BY <1>0, <1>4, RequestsMove DEF GrantInsert, Steps, TypeOK
  <2> QED BY <1>0, <1>4, <2>1 DEF GrantInsert, TypeOK, RequestsOK, SetActive, Run
<1>5. CASE ResolveRead(r)
  <2>1. me.event \in Events /\ [me EXCEPT !.tier = BestTier] \in Locals
        /\ [me EXCEPT !.tier = BestTier].event = me.event
    BY <1>0, <1>5, BestTierType, ReadTierType DEF ResolveRead, TypeOK
  <2>2. RequestsOK'
    BY <1>0, <1>5, <2>1, RequestsMove DEF ResolveRead, Steps
  <2> QED BY <1>5, <2>2 DEF ResolveRead, TypeOK, RequestsOK, subscriptions
<1>6. CASE ResolveWrite(r)
  <2>1. RequestsOK'
    BY <1>0, <1>6, RequestsMove DEF ResolveWrite, Steps, TypeOK
  <2> QED BY <1>0, <1>6, <2>1 DEF ResolveWrite, TypeOK, RequestsOK, subscriptions
<1>7. CASE ResolveFails(r)
  <2>1. RequestsOK'
    BY <1>0, <1>7, RequestsMove DEF ResolveFails, Steps, TypeOK
  <2> QED BY <1>7, <2>1 DEF ResolveFails, TypeOK, RequestsOK, subscriptions
<1>8. ASSUME NEW recorded \in BOOLEAN, Mark(r, recorded) PROVE TypeOK'
  <2>1. RequestsOK' /\ me.event \in Events
    BY <1>0, <1>8, RequestEnds DEF Mark, TypeOK
  <2> QED BY <1>8, <2>1 DEF Mark, TypeOK, RequestsOK, subscriptions, overlaps
<1> QED BY <1>1, <1>2, <1>3, <1>4, <1>5, <1>6, <1>7, <1>8 DEF WebhookStep

(* Type correctness: active rows exist, and a request that serves an event *)
(* names one.                                                              *)
THEOREM TypeCorrect == Spec => []TypeOK
<1>1. Init => TypeOK
  <2>1. Blank \in Locals /\ "vibra_plus" \in Plans /\ Simulated \in Terms
        /\ "free" \in Tiers /\ "idle" \in Steps
    BY LocalsOf DEF Plans, Terms, Tiers, Steps
  <2>2. SUFFICES ASSUME Init PROVE TypeOK
    OBVIOUS
  <2>3. pc \in [Reqs -> Steps] /\ rq \in [Reqs -> Locals]
        /\ of \in [Rows -> Terms] /\ plan \in [Rows -> Plans]
    BY <2>1, <2>2 DEF Init
  <2>4. \A r \in Reqs : pc[r] = "idle"
    BY <2>2 DEF Init
  <2> QED BY <2>1, <2>2, <2>3, <2>4 DEF Init, TypeOK
<1>2. TypeOK /\ [Next]_vars => TypeOK'
  <2> SUFFICES ASSUME TypeOK, [Next]_vars PROVE TypeOK'
    OBVIOUS
  <2>0. RequestsOK
    BY DEF TypeOK, RequestsOK
  <2>1. ASSUME NEW r \in Reqs, NEW p \in Plans, SimulateCheck(r, p) PROVE TypeOK'
    <3>1. [Blank EXCEPT !.plan = p] \in Locals
      BY LocalsOf DEF Terms
    <3>2. RequestsOK'
      BY <2>0, <2>1, <3>1, RequestsMove DEF SimulateCheck, Begin, Steps
    <3> QED BY <2>1, <3>2 DEF SimulateCheck, TypeOK, RequestsOK, subscriptions, overlaps
  <2>2. ASSUME NEW r \in Reqs, NEW s \in Rows, SimulateInsert(r, s) PROVE TypeOK'
    <3>1. RequestsOK' /\ rq[r].plan \in Plans
      BY <2>0, <2>2, RequestEnds DEF SimulateInsert, RequestsOK, Locals
    <3> QED BY <2>2, <3>1 DEF SimulateInsert, TypeOK, RequestsOK, SetActive, Terms
  <2>3. ASSUME NEW r \in Reqs, Fail(r) PROVE TypeOK'
    <3>1. RequestsOK'
      BY <2>0, <2>3, RequestEnds DEF Fail
    <3> QED BY <2>3, <3>1 DEF Fail, TypeOK, RequestsOK, subscriptions
  <2>4. ASSUME NEW e \in Terms, Lapse(e) PROVE TypeOK'
    BY <2>4 DEF Lapse, TypeOK, subscriptions
  <2>5. CASE UNCHANGED vars
    BY <2>5 DEF vars, TypeOK
  <2> QED BY <2>1, <2>2, <2>3, <2>4, <2>5, WebhookTypes DEF Next, SimulateStep
<1> QED BY <1>1, <1>2, PTL DEF Spec

-----------------------------------------------------------------------------
(* Every event recorded, and every event whose handler is past its rows,   *)
(* has been applied.                                                       *)
Effect(e) == kind[e].type \in {"grant", "expiration"}

AppliedInv ==
  /\ \A e \in processed : Effect(e) => e \in applied
  /\ \A r \in Reqs :
       /\ pc[r] \in {"resolve_read", "resolve_write"} => rq[r].event \in applied
       /\ pc[r] = "mark" /\ Effect(rq[r].event) => rq[r].event \in applied

OthersStay(r) == \A q \in Reqs \ {r} : pc'[q] = pc[q] /\ rq'[q] = rq[q]

LEMMA MovesLeaveOthers ==
  ASSUME TypeOK, NEW r \in Reqs, NEW s, NEW q, Goto(r, s, q)
  PROVE  OthersStay(r) /\ pc'[r] = s /\ rq'[r] = q
BY DEF TypeOK, Goto, OthersStay

(* A step of r that records nothing, forgets nothing, and leaves r either  *)
(* before its rows or with its event applied.                              *)
LEMMA AppliedKept ==
  ASSUME TypeOK, AppliedInv, NEW r \in Reqs, OthersStay(r), kind' = kind,
         applied \subseteq applied',
         processed' \subseteq processed \cup applied \cup {e \in Events : ~Effect(e)},
         \/ pc'[r] \notin {"resolve_read", "resolve_write", "mark"}
         \/ rq'[r].event \in applied'
         \/ pc'[r] = "mark" /\ ~Effect(rq'[r].event)
  PROVE  AppliedInv'
BY DEF AppliedInv, OthersStay, Effect

LEMMA WebhookApplies ==
  ASSUME TypeOK, AppliedInv, NEW r \in Reqs, WebhookStep(r)
  PROVE  AppliedInv'
<1> DEFINE me == rq[r]
<1>1. ASSUME NEW e \in Events, NEW found \in BOOLEAN, Deliver(r, e, found) PROVE AppliedInv'
  <2>1. CASE found \/ kind[e].type = "ignored"
    BY <1>1, <2>1 DEF Deliver, AppliedInv, Effect
  <2>2. CASE ~(found \/ kind[e].type = "ignored")
    <3> DEFINE s == FirstStep[kind[e].type]
               q == [event |-> e, plan |-> kind[e].plan, tier |-> "free"]
    <3>1. OthersStay(r) /\ pc'[r] = s /\ rq'[r] = q
      BY <1>1, <2>2, MovesLeaveOthers DEF Deliver
    <3>2. s \notin {"resolve_read", "resolve_write"} /\ (s = "mark" => ~Effect(e))
      BY <2>2 DEF FirstStep, Effect, TypeOK, Types
    <3> QED BY <1>1, <3>1, <3>2, AppliedKept DEF Deliver
  <2> QED BY <2>1, <2>2
<1>2. CASE GrantExpire(r)
  BY <1>2, MovesLeaveOthers, AppliedKept DEF GrantExpire
<1>3. CASE Revoke(r)
  <2>1. OthersStay(r) /\ rq'[r] = me
    BY <1>3, MovesLeaveOthers DEF Revoke
  <2> QED BY <1>3, <2>1, AppliedKept DEF Revoke, Run
<1>4. ASSUME NEW s \in Rows, GrantInsert(r, s) PROVE AppliedInv'
  <2>1. OthersStay(r) /\ rq'[r] = me
    BY <1>4, MovesLeaveOthers DEF GrantInsert
  <2> QED BY <1>4, <2>1, AppliedKept DEF GrantInsert, Run
<1>5. CASE ResolveRead(r)
  <2>1. OthersStay(r) /\ rq'[r] = [me EXCEPT !.tier = BestTier]
    BY <1>5, MovesLeaveOthers DEF ResolveRead
  <2>2. rq'[r].event = me.event /\ me.event \in applied
    BY <1>5, <2>1, ReadTierType, BestTierType DEF TypeOK, AppliedInv, ResolveRead
  <2> QED BY <1>5, <2>1, <2>2, AppliedKept DEF ResolveRead
<1>6. CASE ResolveWrite(r) \/ ResolveFails(r)
  <2>1. OthersStay(r) /\ rq'[r] = me /\ me.event \in applied
    BY <1>6, MovesLeaveOthers DEF ResolveWrite, ResolveFails, AppliedInv
  <2> QED BY <1>6, <2>1, AppliedKept DEF ResolveWrite, ResolveFails
<1>7. ASSUME NEW recorded \in BOOLEAN, Mark(r, recorded) PROVE AppliedInv'
  <2>1. OthersStay(r) /\ pc'[r] = "idle"
    BY <1>7, MovesLeaveOthers DEF Mark, Finish
  <2>2. me.event \in Events /\ (Effect(me.event) => me.event \in applied)
    BY <1>7 DEF Mark, AppliedInv, TypeOK
  <2> QED BY <1>7, <2>1, <2>2, AppliedKept DEF Mark
<1> QED BY <1>1, <1>2, <1>3, <1>4, <1>5, <1>6, <1>7 DEF WebhookStep

(* No event is lost, however often deliveries fail, repeat or overlap.     *)
THEOREM NoEventLost == Spec => []AcknowledgedMeansApplied
<1>1. Init => AppliedInv
  BY DEF Init, AppliedInv
<1>2. TypeOK /\ AppliedInv /\ [Next]_vars => AppliedInv'
  <2> SUFFICES ASSUME TypeOK, AppliedInv, [Next]_vars PROVE AppliedInv'
    OBVIOUS
  <2>1. ASSUME NEW r \in Reqs, WebhookStep(r) PROVE AppliedInv'
    BY <2>1, WebhookApplies
  <2>2. ASSUME NEW r \in Reqs, SimulateStep(r) \/ Fail(r) PROVE AppliedInv'
    <3>1. OthersStay(r) /\ pc'[r] \in {"idle", "sim_insert"}
      BY <2>2, MovesLeaveOthers DEF SimulateStep, SimulateCheck, SimulateInsert, Fail,
                                    Begin, Finish
    <3>2. UNCHANGED <<kind, applied, processed>>
      BY <2>2 DEF SimulateStep, SimulateCheck, SimulateInsert, Fail
    <3> QED BY <3>1, <3>2, AppliedKept
  <2>3. CASE (\E e \in Terms : Lapse(e)) \/ UNCHANGED vars
    <3>1. UNCHANGED <<kind, applied, processed, pc, rq>>
      BY <2>3 DEF Lapse, vars
    <3> QED BY <3>1 DEF AppliedInv, Effect
  <2> QED BY <2>1, <2>2, <2>3 DEF Next
<1>3. AppliedInv => AcknowledgedMeansApplied
  BY DEF AppliedInv, AcknowledgedMeansApplied, Acknowledged, Effect
<1> QED BY <1>1, <1>2, <1>3, TypeCorrect, PTL DEF Spec

-----------------------------------------------------------------------------
(* While no grants of a plan overlap, the one about to insert found no     *)
(* active row left.                                                        *)
SingleInv ==
  \A p \in Plans \ raced :
    /\ \A s, t \in Paid(p) : s = t
    /\ \A q, r \in Inserting(p) : q = r
    /\ Inserting(p) # {} => Paid(p) = {}

(* Steps that start no grant and activate no paid row.                     *)
LEMMA SingleKept ==
  ASSUME SingleInv, raced' = raced,
         \A p \in Plans : Paid(p)' \subseteq Paid(p) /\ Inserting(p)' \subseteq Inserting(p)
  PROVE  SingleInv'
BY DEF SingleInv

LEMMA ClearKeepsSingle ==
  ASSUME TypeOK, SingleInv, NEW r \in Reqs, GrantExpire(r) \/ Revoke(r)
  PROVE  SingleInv'
<1> DEFINE mine == rq[r].plan
<1>1. OthersStay(r) /\ rq'[r] = rq[r] /\ pc'[r] \in {"grant_insert", "resolve_read"}
      /\ pc[r] \in {"grant_expire", "revoke"}
  BY MovesLeaveOthers DEF GrantExpire, Revoke
<1>2. active' = active \ Paid(mine) /\ UNCHANGED <<of, plan>>
      /\ raced' = IF Inserting(mine) \ {r} # {} THEN raced \cup {mine} ELSE raced \ {mine}
  BY DEF GrantExpire, Revoke, SetActive, NoteRace
<1>3. ASSUME NEW p \in Plans \ raced'
      PROVE  /\ \A s, t \in Paid(p)' : s = t
             /\ \A q, o \in Inserting(p)' : q = o
             /\ Inserting(p)' # {} => Paid(p)' = {}
  <2>1. CASE p = mine
    <3>1. Paid(p)' = {}
      BY <1>2, <2>1 DEF Paid
    <3>2. Inserting(p)' \subseteq {r}
      BY <1>1, <1>2, <2>1 DEF Inserting, OthersStay
    <3> QED BY <3>1, <3>2
  <2>2. CASE p # mine
    <3>1. p \notin raced
      BY <1>2, <1>3, <2>2
    <3>2. Paid(p)' = Paid(p)
      BY <1>2, <2>2 DEF Paid
    <3>3. Inserting(p)' = Inserting(p)
      BY <1>1, <2>2 DEF Inserting, OthersStay
    <3> QED BY <3>1, <3>2, <3>3 DEF SingleInv
  <2> QED BY <2>1, <2>2
<1> QED BY <1>3 DEF SingleInv

LEMMA InsertKeepsSingle ==
  ASSUME TypeOK, SingleInv, NEW r \in Reqs, NEW s \in Rows, GrantInsert(r, s)
  PROVE  SingleInv'
<1> DEFINE mine == rq[r].plan
<1>1. OthersStay(r) /\ pc[r] = "grant_insert" /\ pc'[r] = "resolve_read" /\ rq'[r] = rq[r]
  BY MovesLeaveOthers DEF GrantInsert
<1>2. s \notin active /\ active' = active \cup {s} /\ raced' = raced
  BY DEF GrantInsert, SetActive, TypeOK
<1>3. \A t \in active : t # s /\ of'[t] = of[t] /\ plan'[t] = plan[t]
  BY <1>2 DEF GrantInsert, TypeOK
<1>4. plan'[s] = mine
  BY DEF GrantInsert, TypeOK
<1>5. ASSUME NEW p \in Plans \ raced
      PROVE  /\ \A t, u \in Paid(p)' : t = u
             /\ \A q, o \in Inserting(p)' : q = o
             /\ Inserting(p)' # {} => Paid(p)' = {}
  <2>1. CASE p = mine
    <3>1. r \in Inserting(p)
      BY <1>1, <2>1 DEF Inserting
    <3>2. Paid(p) = {} /\ \A q \in Inserting(p) : q = r
      BY <3>1 DEF SingleInv
    <3>3. Paid(p)' \subseteq {s}
      BY <1>2, <1>3, <3>2 DEF Paid
    <3>4. Inserting(p)' = {}
      BY <1>1, <3>2 DEF Inserting, OthersStay
    <3> QED BY <3>3, <3>4
  <2>2. CASE p # mine
    <3>1. Paid(p)' = Paid(p)
      BY <1>2, <1>3, <1>4, <2>2 DEF Paid
    <3>2. Inserting(p)' = Inserting(p)
      BY <1>1, <2>2 DEF Inserting, OthersStay
    <3> QED BY <3>1, <3>2 DEF SingleInv
  <2> QED BY <2>1, <2>2
<1> QED BY <1>2, <1>5 DEF SingleInv

(* A renewal does not stack rows unless grants of the plan overlap.        *)
THEOREM SingleRow == Spec => []SingleActiveRow
<1>1. Init => SingleInv
  BY DEF Init, SingleInv, Paid, Inserting
<1>2. TypeOK /\ SingleInv /\ [Next]_vars => SingleInv'
  <2> SUFFICES ASSUME TypeOK, SingleInv, [Next]_vars PROVE SingleInv'
    OBVIOUS
  <2>1. ASSUME NEW r \in Reqs, GrantExpire(r) \/ Revoke(r) PROVE SingleInv'
    BY <2>1, ClearKeepsSingle
  <2>2. ASSUME NEW r \in Reqs, NEW s \in Rows, GrantInsert(r, s) PROVE SingleInv'
    BY <2>2, InsertKeepsSingle
  <2>3. ASSUME NEW r \in Reqs, UNCHANGED subscriptions, raced' = raced,
               OthersStay(r) \/ UNCHANGED <<pc, rq>>, pc'[r] # "grant_insert"
        PROVE  SingleInv'
    <3>1. \A p \in Plans : Paid(p)' = Paid(p)
      BY <2>3 DEF Paid, subscriptions
    <3>2. \A p \in Plans : Inserting(p)' \subseteq Inserting(p)
      BY <2>3 DEF Inserting, OthersStay
    <3> QED BY <2>3, <3>1, <3>2, SingleKept
  <2>4. ASSUME NEW r \in Reqs, NEW e \in Events, NEW found \in BOOLEAN, Deliver(r, e, found)
        PROVE  SingleInv'
    <3>1. CASE found \/ kind[e].type = "ignored"
      <4>1. UNCHANGED <<pc, rq, active, of, plan, raced>>
        BY <2>4, <3>1 DEF Deliver, subscriptions, overlaps
      <4> QED BY <4>1 DEF SingleInv, Paid, Inserting
    <3>2. CASE ~(found \/ kind[e].type = "ignored")
      <4>1. OthersStay(r) /\ pc'[r] = FirstStep[kind[e].type]
        BY <2>4, <3>2, MovesLeaveOthers DEF Deliver
      <4>2. pc'[r] # "grant_insert"
        BY <3>2, <4>1 DEF FirstStep, TypeOK, Types
      <4> QED BY <2>3, <2>4, <4>1, <4>2 DEF Deliver, overlaps
    <3> QED BY <3>1, <3>2
  <2>5. ASSUME NEW r \in Reqs,
               \/ ResolveRead(r) \/ ResolveWrite(r) \/ ResolveFails(r)
               \/ \E recorded \in BOOLEAN : Mark(r, recorded)
               \/ \E p \in Plans : SimulateCheck(r, p)
               \/ Fail(r)
        PROVE  SingleInv'
    <3>1. OthersStay(r) /\ pc'[r] # "grant_insert"
      <4>1. CASE ResolveRead(r)
        BY <4>1, MovesLeaveOthers DEF ResolveRead
      <4>2. CASE ResolveWrite(r) \/ ResolveFails(r)
        BY <4>2, MovesLeaveOthers DEF ResolveWrite, ResolveFails
      <4>3. CASE (\E recorded \in BOOLEAN : Mark(r, recorded)) \/ Fail(r)
        BY <4>3, MovesLeaveOthers DEF Mark, Fail, Finish
      <4>4. ASSUME NEW p \in Plans, SimulateCheck(r, p)
            PROVE  OthersStay(r) /\ pc'[r] # "grant_insert"
        BY <4>4, MovesLeaveOthers DEF SimulateCheck, Begin
      <4> QED BY <2>5, <4>1, <4>2, <4>3, <4>4
    <3>2. UNCHANGED subscriptions /\ raced' = raced
      BY <2>5 DEF ResolveRead, ResolveWrite, ResolveFails, Mark, SimulateCheck, Fail, overlaps
    <3> QED BY <2>3, <3>1, <3>2
  <2>6. ASSUME NEW r \in Reqs, NEW s \in Rows, SimulateInsert(r, s) PROVE SingleInv'
    <3>1. OthersStay(r) /\ pc'[r] = "idle"
      BY <2>6, MovesLeaveOthers DEF SimulateInsert, Finish
    <3>2. s \notin active /\ active' = active \cup {s} /\ raced' = raced /\ of'[s] = Simulated
          /\ \A t \in active : t # s /\ of'[t] = of[t] /\ plan'[t] = plan[t]
      BY <2>6 DEF SimulateInsert, SetActive, TypeOK
    <3>3. \A p \in Plans : Paid(p)' = Paid(p)
      BY <3>2 DEF Paid
    <3>4. \A p \in Plans : Inserting(p)' \subseteq Inserting(p)
      BY <3>1 DEF Inserting, OthersStay
    <3> QED BY <3>2, <3>3, <3>4, SingleKept
  <2>7. CASE (\E e \in Terms : Lapse(e)) \/ UNCHANGED vars
    <3>1. UNCHANGED <<pc, rq, active, of, plan, raced>>
      BY <2>7 DEF Lapse, vars, subscriptions
    <3> QED BY <3>1 DEF SingleInv, Paid, Inserting
  <2> QED BY <2>1, <2>2, <2>4, <2>5, <2>6, <2>7 DEF Next, WebhookStep, SimulateStep
<1>3. SingleInv => SingleActiveRow
  BY DEF SingleInv, SingleActiveRow
<1> QED BY <1>1, <1>2, <1>3, TypeCorrect, PTL DEF Spec
-----------------------------------------------------------------------------
(* A read of the rows counts as fresh only while its request waits to      *)
(* write it and it still is what the rows say.                             *)
TierInv ==
  /\ tier = BestTier \/ stale \/ Unresolved # {}
  /\ \A r \in fresh : pc[r] = "resolve_write" /\ rq[r].tier = BestTier

Between == {"grant_insert", "resolve_read", "resolve_write"}

LEMMA SameRowsSameTier ==
  ASSUME UNCHANGED <<active, of, plan, lapsed>>
  PROVE  BestTier' = BestTier
BY DEF BestTier, Current

(* A step of r after which r has the tier still to write, or the tier      *)
(* counts as stale, or the rows, the tier and r's part in them are as      *)
(* before.                                                                 *)
LEMMA TierKept ==
  ASSUME TypeOK, TierInv, NEW r \in Reqs, OthersStay(r),
         fresh' \subseteq fresh \ {r},
         fresh' = {} \/ BestTier' = BestTier,
         \/ pc'[r] \in Between
         \/ stale'
         \/ pc[r] \notin Between /\ tier' = tier /\ BestTier' = BestTier /\ stale' = stale
  PROVE  TierInv'
<1>1. \A q \in Reqs \ {r} : pc'[q] = pc[q] /\ rq'[q] = rq[q]
  BY DEF OthersStay
<1>2. \A q \in fresh' : pc'[q] = "resolve_write" /\ rq'[q].tier = BestTier'
  BY <1>1 DEF TierInv, TypeOK
<1>3. tier' = BestTier' \/ stale' \/ Unresolved' # {}
  <2>1. CASE pc'[r] \in Between
    BY <2>1 DEF Unresolved, Between
  <2>2. CASE pc[r] \notin Between /\ tier' = tier /\ BestTier' = BestTier /\ stale' = stale
    <3>1. \A q \in Unresolved : q # r /\ q \in Reqs /\ pc'[q] = pc[q]
      BY <1>1, <2>2 DEF Unresolved, Between
    <3>2. Unresolved \subseteq Unresolved'
      BY <3>1 DEF Unresolved
    <3> QED BY <2>2, <3>2 DEF TierInv
  <2> QED BY <2>1, <2>2
<1> QED BY <1>2, <1>3 DEF TierInv

(* UPDATE or INSERT of rows: what was read before is no longer fresh.      *)
LEMMA RowsChangeTier ==
  ASSUME TypeOK, TierInv, NEW r \in Reqs, NEW rows, SetActive(rows),
         pc[r] \in {"grant_expire", "revoke", "grant_insert", "sim_insert"},
         rows = active => UNCHANGED <<of, plan>>, lapsed' = lapsed
  PROVE  fresh' \subseteq fresh \ {r} /\ (fresh' = {} \/ BestTier' = BestTier)
<1>1. r \notin fresh
  BY DEF TierInv
<1>2. CASE rows = active
  BY <1>1, <1>2, SameRowsSameTier DEF SetActive
<1>3. CASE rows # active
  BY <1>3 DEF SetActive
<1> QED BY <1>2, <1>3

LEMMA WebhookKeepsTier ==
  ASSUME TypeOK, TierInv, NEW r \in Reqs, WebhookStep(r)
  PROVE  TierInv'
<1> DEFINE me == rq[r]
<1>1. ASSUME NEW e \in Events, NEW found \in BOOLEAN, Deliver(r, e, found) PROVE TierInv'
  <2>1. BestTier' = BestTier /\ fresh \subseteq fresh \ {r}
    BY <1>1, SameRowsSameTier DEF Deliver, subscriptions, TierInv
  <2>2. OthersStay(r) /\ UNCHANGED <<tier, stale, fresh>> /\ pc[r] \notin Between
    <3>1. CASE found \/ kind[e].type = "ignored"
      BY <1>1, <3>1 DEF Deliver, OthersStay, overlaps, Between
    <3>2. CASE ~(found \/ kind[e].type = "ignored")
      BY <1>1, <3>2, MovesLeaveOthers DEF Deliver, overlaps, Between
    <3> QED BY <3>1, <3>2
  <2> QED BY <2>1, <2>2, TierKept
<1>2. CASE GrantExpire(r)
  <2>1. OthersStay(r) /\ pc'[r] \in Between
    BY <1>2, MovesLeaveOthers DEF GrantExpire, Between
  <2>2. fresh' \subseteq fresh \ {r} /\ (fresh' = {} \/ BestTier' = BestTier)
    BY <1>2, RowsChangeTier DEF GrantExpire
  <2> QED BY <2>1, <2>2, TierKept
<1>3. CASE Revoke(r)
  <2>1. OthersStay(r) /\ pc'[r] \in Between
    BY <1>3, MovesLeaveOthers DEF Revoke, Between
  <2>2. fresh' \subseteq fresh \ {r} /\ (fresh' = {} \/ BestTier' = BestTier)
    BY <1>3, RowsChangeTier DEF Revoke
  <2> QED BY <2>1, <2>2, TierKept
<1>4. ASSUME NEW s \in Rows, GrantInsert(r, s) PROVE TierInv'
  <2>1. OthersStay(r) /\ pc'[r] \in Between
    BY <1>4, MovesLeaveOthers DEF GrantInsert, Between
  <2>2. active \cup {s} # active
    BY <1>4 DEF GrantInsert, TypeOK
  <2>3. fresh' \subseteq fresh \ {r} /\ (fresh' = {} \/ BestTier' = BestTier)
    BY <1>4, <2>2, RowsChangeTier DEF GrantInsert
  <2> QED BY <2>1, <2>3, TierKept
<1>5. CASE ResolveRead(r)
  <2>1. OthersStay(r) /\ pc'[r] = "resolve_write" /\ rq'[r] = [me EXCEPT !.tier = BestTier]
    BY <1>5, MovesLeaveOthers DEF ResolveRead
  <2>2. rq'[r].tier = BestTier
    BY <2>1, ReadTierType, BestTierType DEF TypeOK
  <2>3. BestTier' = BestTier
    BY <1>5, SameRowsSameTier DEF ResolveRead, subscriptions
  <2>4. Unresolved' # {}
    BY <2>1 DEF Unresolved
  <2>5. \A q \in fresh \ {r} : pc'[q] = "resolve_write" /\ rq'[q].tier = BestTier
    BY <2>1 DEF TierInv, OthersStay, TypeOK
  <2>6. fresh' = fresh \cup {r}
    BY <1>5 DEF ResolveRead
  <2>7. \A q \in fresh' : pc'[q] = "resolve_write" /\ rq'[q].tier = BestTier'
    BY <2>1, <2>2, <2>3, <2>5, <2>6
  <2> QED BY <2>4, <2>7 DEF TierInv
<1>6. CASE ResolveWrite(r)
  <2>1. OthersStay(r) /\ BestTier' = BestTier
    BY <1>6, MovesLeaveOthers, SameRowsSameTier DEF ResolveWrite, subscriptions
  <2>2. CASE r \notin fresh
    BY <1>6, <2>1, <2>2, TierKept DEF ResolveWrite
  <2>3. CASE r \in fresh
    <3>1. tier' = BestTier'
      BY <1>6, <2>1, <2>3 DEF ResolveWrite, TierInv
    <3>2. fresh' = fresh \ {r}
      BY <1>6 DEF ResolveWrite
    <3>3. \A q \in fresh' : pc'[q] = "resolve_write" /\ rq'[q].tier = BestTier'
      BY <2>1, <3>2 DEF OthersStay, TierInv, TypeOK
    <3> QED BY <3>1, <3>3 DEF TierInv
  <2> QED BY <2>2, <2>3
<1>7. CASE ResolveFails(r)
  <2>1. OthersStay(r) /\ BestTier' = BestTier
    BY <1>7, MovesLeaveOthers, SameRowsSameTier DEF ResolveFails, subscriptions
  <2> QED BY <1>7, <2>1, TierKept DEF ResolveFails
<1>8. ASSUME NEW recorded \in BOOLEAN, Mark(r, recorded) PROVE TierInv'
  <2>1. OthersStay(r) /\ BestTier' = BestTier
    BY <1>8, MovesLeaveOthers, SameRowsSameTier DEF Mark, Finish, subscriptions
  <2>2. r \notin fresh /\ pc[r] \notin Between
    BY <1>8 DEF Mark, TierInv, Between
  <2> QED BY <1>8, <2>1, <2>2, TierKept DEF Mark, overlaps
<1> QED BY <1>1, <1>2, <1>3, <1>4, <1>5, <1>6, <1>7, <1>8 DEF WebhookStep

(* The stored tier is the best of the current rows whenever no handler is  *)
(* between its rows and its tier and nothing left it stale.                *)
THEOREM TierCorrect == Spec => []TierFollowsRows
<1>1. Init => TierInv
  BY DEF Init, TierInv, BestTier, Current
<1>2. TypeOK /\ TierInv /\ [Next]_vars => TierInv'
  <2> SUFFICES ASSUME TypeOK, TierInv, [Next]_vars PROVE TierInv'
    OBVIOUS
  <2>1. ASSUME NEW r \in Reqs, WebhookStep(r) PROVE TierInv'
    BY <2>1, WebhookKeepsTier
  <2>2. ASSUME NEW r \in Reqs, NEW p \in Plans, SimulateCheck(r, p) PROVE TierInv'
    <3>1. OthersStay(r) /\ BestTier' = BestTier
      BY <2>2, MovesLeaveOthers, SameRowsSameTier DEF SimulateCheck, Begin, subscriptions
    <3>2. r \notin fresh /\ pc[r] \notin Between
      BY <2>2 DEF SimulateCheck, Begin, TierInv, Between
    <3> QED BY <2>2, <3>1, <3>2, TierKept DEF SimulateCheck, overlaps
  <2>3. ASSUME NEW r \in Reqs, NEW s \in Rows, SimulateInsert(r, s) PROVE TierInv'
    <3>1. OthersStay(r)
      BY <2>3, MovesLeaveOthers DEF SimulateInsert, Finish
    <3>2. active \cup {s} # active
      BY <2>3 DEF SimulateInsert, TypeOK
    <3>3. fresh' \subseteq fresh \ {r} /\ (fresh' = {} \/ BestTier' = BestTier)
      BY <2>3, <3>2, RowsChangeTier DEF SimulateInsert
    <3> QED BY <2>3, <3>1, <3>3, TierKept DEF SimulateInsert
  <2>4. ASSUME NEW r \in Reqs, Fail(r) PROVE TierInv'
    <3>1. OthersStay(r) /\ BestTier' = BestTier
      BY <2>4, MovesLeaveOthers, SameRowsSameTier DEF Fail, Finish, subscriptions
    <3>2. fresh' \subseteq fresh \ {r} /\ tier' = tier
      BY <2>4 DEF Fail
    <3>3. stale' \/ (pc[r] \notin Between /\ stale' = stale)
      BY <2>4 DEF Fail, Between, TypeOK
    <3> QED BY <3>1, <3>2, <3>3, TierKept
  <2>5. CASE \E e \in Terms : Lapse(e)
    BY <2>5 DEF Lapse, TierInv
  <2>6. CASE UNCHANGED vars
    <3>1. BestTier' = BestTier
      BY <2>6, SameRowsSameTier DEF vars
    <3>2. Unresolved' = Unresolved
      BY <2>6 DEF vars, Unresolved
    <3> QED BY <2>6, <3>1, <3>2 DEF vars, TierInv
  <2> QED BY <2>1, <2>2, <2>3, <2>4, <2>5, <2>6 DEF Next, SimulateStep
<1>3. TierInv => TierFollowsRows
  BY DEF TierInv, TierFollowsRows
<1> QED BY <1>1, <1>2, <1>3, TypeCorrect, PTL DEF Spec
=============================================================================

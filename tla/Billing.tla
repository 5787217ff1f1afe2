------------------------------- MODULE Billing ------------------------------
(***************************************************************************)
(* Subscriptions of one user: the RevenueCat webhook, the simulated        *)
(* purchase of development builds, and the tier derived from them          *)
(* (api/src/billing/webhook.rs, subscriptions.rs, simulate.rs and          *)
(* resolve_subscription_tier of api/src/premium.rs).                       *)
(*                                                                         *)
(* RevenueCat may deliver an event any number of times, in any order, and  *)
(* again while an earlier delivery is still being served.  As in Sessions, *)
(* a statement is an action and nothing holds a handler's statements       *)
(* together.  A grant stands for the five event types of GRANT_EVENTS, a   *)
(* cancellation also for the types the handler only acknowledges.          *)
(***************************************************************************)
EXTENDS FiniteSets

CONSTANTS
  Events,      \* RevenueCat event ids
  Rows,        \* ids of subscriptions rows; bounds the rows ever inserted
  Reqs,        \* slots of requests being served at the same time
  Simulated    \* the term of a simulated purchase, which no event pays for

ASSUME SimulatedIsNoEvent == Simulated \notin Events

VARIABLES
  kind,        \* what each event says: its type and plan; never changes
  processed,   \* event ids in processed_webhook_events
  active,      \* rows with status active
  stored,      \* rows inserted so far
  of,          \* the event a row's expires_at comes from
  plan,        \* subscriptions.plan_code
  lapsed,      \* events whose expiration_at_ms has passed
  tier,        \* users.subscription_tier
  pc, rq,      \* where each request stands; its event, plan and read tier
  applied,     \* history: events a handler has written the rows for
  raced, fresh, stale            \* history: overlaps of handlers

subscriptions == <<active, stored, of, plan>>
overlaps == <<raced, fresh, stale>>
vars == <<kind, processed, active, stored, of, plan, lapsed, tier, pc, rq,
          applied, raced, fresh, stale>>

Plans == {"vibra_plus", "unlimited"}
Tiers == {"free", "xtra", "unlimited"}
Types == {"grant", "expiration", "cancellation", "ignored"}
Terms == Events \cup {Simulated}
Steps == {"idle", "grant_expire", "grant_insert", "revoke", "resolve_read",
          "resolve_write", "mark", "sim_insert"}
Locals == [event : Terms, plan : Plans, tier : Tiers]
Blank == [event |-> Simulated, plan |-> "vibra_plus", tier |-> "free"]

TypeOK ==
  /\ kind \in [Events -> [type : Types, plan : Plans]]
  /\ processed \subseteq Events
  /\ stored \subseteq Rows
  /\ active \subseteq stored
  /\ of \in [Rows -> Terms]
  /\ plan \in [Rows -> Plans]
  /\ lapsed \subseteq Terms
  /\ tier \in Tiers
  /\ pc \in [Reqs -> Steps]
  /\ rq \in [Reqs -> Locals]
  /\ \A r \in Reqs : pc[r] \notin {"idle", "sim_insert"} => rq[r].event \in Events
  /\ applied \subseteq Events
  /\ raced \subseteq Plans /\ fresh \subseteq Reqs /\ stale \in BOOLEAN

Init ==
  /\ kind \in [Events -> [type : Types, plan : Plans]]
  /\ processed = {} /\ active = {} /\ stored = {} /\ lapsed = {}
  /\ of = [s \in Rows |-> Simulated]
  /\ plan = [s \in Rows |-> "vibra_plus"]
  /\ tier = "free"
  /\ pc = [r \in Reqs |-> "idle"]
  /\ rq = [r \in Reqs |-> Blank]
  /\ applied = {} /\ raced = {} /\ fresh = {} /\ stale = FALSE

-----------------------------------------------------------------------------
Goto(r, step, locals) ==
  /\ pc' = [pc EXCEPT ![r] = step]
  /\ rq' = [rq EXCEPT ![r] = locals]
Begin(r, step, locals) == pc[r] = "idle" /\ Goto(r, step, locals)
Finish(r) == Goto(r, "idle", Blank)

(* status = 'active' AND expires_at > now()                                *)
Current == {s \in active : of[s] \notin lapsed}
(* Active rows that RevenueCat pays for.                                   *)
Paid(p) == {s \in active : plan[s] = p /\ of[s] # Simulated}

BestTier ==
  IF \E s \in Current : plan[s] = "unlimited" THEN "unlimited"
  ELSE IF Current # {} THEN "xtra"
  ELSE "free"

(* UPDATE subscriptions: a read of the rows made before is out of date.    *)
SetActive(rows) ==
  /\ active' = rows
  /\ fresh' = IF rows = active THEN fresh ELSE {}

Inserting(p) == {r \in Reqs : pc[r] = "grant_insert" /\ rq[r].plan = p}
NoteRace(r, p) ==
  raced' = IF Inserting(p) \ {r} # {} THEN raced \cup {p} ELSE raced \ {p}
Run(e) == applied' = applied \cup {e}

(* revenuecat_webhook up to its first write.  A failed dedup query counts  *)
(* as "not processed"; TEST events, unknown users and unmappable plans are *)
(* acknowledged and not recorded.                                          *)
FirstStep == [grant |-> "grant_expire", expiration |-> "revoke", cancellation |-> "mark"]
DeliverMarksFirst(r, e, found) ==    \* faulty: records the event before handling it
  /\ found => e \in processed
  /\ pc[r] = "idle"
  /\ IF found \/ kind[e].type = "ignored"
     THEN UNCHANGED <<pc, rq, processed>>
     ELSE /\ Goto(r, FirstStep[kind[e].type],
                  [event |-> e, plan |-> kind[e].plan, tier |-> "free"])
          /\ processed' = processed \cup {e}
  /\ UNCHANGED <<kind, subscriptions, lapsed, tier, applied, overlaps>>
Deliver(r, e, found) ==
  /\ found => e \in processed
  /\ pc[r] = "idle"
  /\ IF found \/ kind[e].type = "ignored"
     THEN UNCHANGED <<pc, rq>>
     ELSE Goto(r, FirstStep[kind[e].type],
               [event |-> e, plan |-> kind[e].plan, tier |-> "free"])
  /\ UNCHANGED <<kind, processed, subscriptions, lapsed, tier, applied, overlaps>>

(* grant_revenuecat_subscription: two statements.                          *)
GrantStacks(r) ==                    \* faulty: leaves the earlier rows active
  /\ pc[r] = "grant_expire"
  /\ NoteRace(r, rq[r].plan)
  /\ Goto(r, "grant_insert", rq[r])
  /\ UNCHANGED <<kind, processed, subscriptions, lapsed, tier, applied, fresh, stale>>
GrantExpire(r) ==
  LET p == rq[r].plan IN
  /\ pc[r] = "grant_expire"
  /\ SetActive(active \ Paid(p))
  /\ NoteRace(r, p)
  /\ Goto(r, "grant_insert", rq[r])
  /\ UNCHANGED <<kind, processed, stored, of, plan, lapsed, tier, applied, stale>>

GrantInsertUnstored(r, s) ==         \* faulty: activates a row that is not there
  /\ pc[r] = "grant_insert"
  /\ s \notin stored
  /\ SetActive(active \cup {s})
  /\ Goto(r, "resolve_read", rq[r])
  /\ UNCHANGED <<kind, processed, stored, of, plan, lapsed, tier, applied, raced, stale>>
GrantInsert(r, s) ==
  /\ pc[r] = "grant_insert"
  /\ s \notin stored
  /\ stored' = stored \cup {s}
  /\ of' = [of EXCEPT ![s] = rq[r].event]
  /\ plan' = [plan EXCEPT ![s] = rq[r].plan]
  /\ SetActive(active \cup {s})
  /\ Run(rq[r].event)
  /\ Goto(r, "resolve_read", rq[r])
  /\ UNCHANGED <<kind, processed, lapsed, tier, raced, stale>>

(* revoke_revenuecat_subscription, for EXPIRATION                          *)
Revoke(r) ==
  LET p == rq[r].plan IN
  /\ pc[r] = "revoke"
  /\ SetActive(active \ Paid(p))
  /\ NoteRace(r, p)
  /\ Run(rq[r].event)
  /\ Goto(r, "resolve_read", rq[r])
  /\ UNCHANGED <<kind, processed, stored, of, plan, lapsed, tier, stale>>

(* resolve_subscription_tier: a SELECT and an UPDATE.  Its errors are only *)
(* logged, and the handler goes on.                                        *)
ResolveEvent(r) ==                   \* faulty: trusts the plan of the event
  /\ pc[r] = "resolve_read"
  /\ Goto(r, "resolve_write",
          [rq[r] EXCEPT !.tier = IF rq[r].plan = "unlimited" THEN "unlimited" ELSE "xtra"])
  /\ fresh' = fresh \cup {r}
  /\ UNCHANGED <<kind, processed, subscriptions, lapsed, tier, applied, raced, stale>>
ResolveRead(r) ==
  /\ pc[r] = "resolve_read"
  /\ Goto(r, "resolve_write", [rq[r] EXCEPT !.tier = BestTier])
  /\ fresh' = fresh \cup {r}
  /\ UNCHANGED <<kind, processed, subscriptions, lapsed, tier, applied, raced, stale>>

ResolveWrite(r) ==
  /\ pc[r] = "resolve_write"
  /\ tier' = rq[r].tier
  /\ stale' = (r \notin fresh)
  /\ fresh' = fresh \ {r}
  /\ Goto(r, "mark", rq[r])
  /\ UNCHANGED <<kind, processed, subscriptions, lapsed, applied, raced>>

ResolveFails(r) ==
  /\ pc[r] \in {"resolve_read", "resolve_write"}
  /\ stale' = TRUE
  /\ fresh' = fresh \ {r}
  /\ Goto(r, "mark", rq[r])
  /\ UNCHANGED <<kind, processed, subscriptions, lapsed, tier, applied, raced>>

(* The event is recorded last, an error again only logged: 200 either way. *)
Mark(r, recorded) ==
  LET e == rq[r].event IN
  /\ pc[r] = "mark"
  /\ processed' = IF recorded THEN processed \cup {e} ELSE processed
  /\ Finish(r)
  /\ UNCHANGED <<kind, subscriptions, lapsed, tier, applied, overlaps>>

(* simulate_purchase: a COUNT of current rows of the plan, then an INSERT; *)
(* the tier is not resolved.                                               *)
SimulateCheck(r, p) ==
  /\ \A s \in Current : plan[s] # p
  /\ Begin(r, "sim_insert", [Blank EXCEPT !.plan = p])
  /\ UNCHANGED <<kind, processed, subscriptions, lapsed, tier, applied, overlaps>>

SimulateInsert(r, s) ==
  /\ pc[r] = "sim_insert"
  /\ s \notin stored
  /\ stored' = stored \cup {s}
  /\ of' = [of EXCEPT ![s] = Simulated]
  /\ plan' = [plan EXCEPT ![s] = rq[r].plan]
  /\ SetActive(active \cup {s})
  /\ stale' = TRUE
  /\ Finish(r)
  /\ UNCHANGED <<kind, processed, lapsed, tier, applied, raced>>

(* A request ends early: a database error answered 500, or a dead process. *)
Fail(r) ==
  /\ pc[r] # "idle"
  /\ stale' = (stale \/ pc[r] \in {"grant_insert", "resolve_read", "resolve_write"})
  /\ fresh' = fresh \ {r}
  /\ Finish(r)
  /\ UNCHANGED <<kind, processed, subscriptions, lapsed, tier, applied, raced>>

(* Time passes: the term of an event, or of simulated purchases, ends.     *)
Lapse(e) ==
  /\ e \notin lapsed
  /\ lapsed' = lapsed \cup {e}
  /\ fresh' = {} /\ stale' = TRUE
  /\ UNCHANGED <<kind, processed, subscriptions, tier, pc, rq, applied, raced>>

WebhookStep(r) ==
  \/ \E e \in Events, found \in BOOLEAN : Deliver(r, e, found)
  \/ GrantExpire(r) \/ Revoke(r)
  \/ \E s \in Rows : GrantInsert(r, s)
  \/ ResolveRead(r) \/ ResolveWrite(r) \/ ResolveFails(r)
  \/ \E recorded \in BOOLEAN : Mark(r, recorded)

SimulateStep(r) ==
  \/ \E p \in Plans : SimulateCheck(r, p)
  \/ \E s \in Rows : SimulateInsert(r, s)

Next ==
  \/ \E r \in Reqs : WebhookStep(r) \/ SimulateStep(r) \/ Fail(r)
  \/ \E e \in Terms : Lapse(e)

Spec == Init /\ [][Next]_vars
-----------------------------------------------------------------------------
(* Events that are answered 200, or will be unless the handler fails.      *)
Acknowledged == processed \cup {rq[r].event : r \in {q \in Reqs : pc[q] = "mark"}}

(* No event is lost: when RevenueCat is answered 200, and so stops         *)
(* retrying, the rows have been written for the event.  This is why it is  *)
(* recorded after it is handled and a failed delivery answers 500.         *)
AcknowledgedMeansApplied ==
  \A e \in Acknowledged : kind[e].type \in {"grant", "expiration"} => e \in applied

(* A renewal does not stack rows: of the rows that RevenueCat pays for at  *)
(* most one per plan is active, unless two grants of that plan overlapped  *)
(* and none has run alone since.                                           *)
SingleActiveRow ==
  \A p \in Plans \ raced : \A s, t \in Paid(p) : s = t

(* Requests that have written the rows and not yet the tier.               *)
Unresolved == {r \in Reqs : pc[r] \in {"grant_insert", "resolve_read", "resolve_write"}}

(* The tier is the best of the current rows once nobody is between writing *)
(* the rows and the tier, unless the last word on it was stale: a failure  *)
(* in between, a read overtaken by another handler's rows, a term that     *)
(* ended, or a simulated purchase.                                         *)
TierFollowsRows ==
  Unresolved = {} /\ ~stale => tier = BestTier

(* What migration 0045 promises: "dedup by its event id so grant/revoke    *)
(* side effects run exactly once".  The check and the record are two       *)
(* statements with the effects between them.                               *)
ExactlyOnce ==
  [][\A r \in Reqs : pc[r] \in {"grant_insert", "revoke"} /\ pc'[r] = "resolve_read"
                       => rq[r].event \notin applied]_vars
=============================================================================

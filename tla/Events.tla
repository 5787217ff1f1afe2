------------------------------- MODULE Events -------------------------------
(***************************************************************************)
(* Events with a limited number of places, who attends them and who is     *)
(* shown them ({api,db}/src/events.rs).  attend reads the event, counts    *)
(* those who come, and stores its row in three statements.                 *)
(*                                                                         *)
(* An event's times and its place are what the list asks of them; nobody   *)
(* checks that an event ends after it starts.  Deleting takes the          *)
(* attendees along.                                                        *)
(***************************************************************************)
EXTENDS Integers, FiniteSets

CONSTANTS
  Users, EventIds,
  Reqs,      \* requests served at the same time
  Sizes,     \* what max_attendees may be; 0 is no limit
  MaxCalls,  \* bound: calls that begin
  Nobody

VARIABLES
  event,  \* rows: [by, size, near, ends, over, old], or Nobody
  rsvp,   \* event_attendees.status: "none" (no row), "going" or "maybe"
  pc, rq, calls

vars == <<event, rsvp, pc, rq, calls>>

Blank == [event |-> Nobody, user |-> Nobody, status |-> "none"]
Exists(e) == event[e] # Nobody
Coming(e) == {u \in Users : rsvp[<<e, u>>] \in {"going", "maybe"}}
Going(e) == {u \in Users : rsvp[<<e, u>>] = "going"}

(* near: within the radius of where one asks; ends: ends_at is given;      *)
(* over: it has passed; old: starts_at is more than a day ago.             *)
Event == [by : Users, size : Sizes, near : BOOLEAN, ends : BOOLEAN, over : BOOLEAN, old : BOOLEAN]

TypeOK ==
  /\ \A e \in EventIds : Exists(e) => event[e] \in Event /\ (event[e].over => event[e].ends)
  /\ \A e \in EventIds : ~Exists(e) => Coming(e) = {}
  /\ \A r \in Reqs : pc[r] = "idle" <=> rq[r] = Blank

Init ==
  /\ event = [e \in EventIds |-> Nobody]
  /\ rsvp = [x \in EventIds \X Users |-> "none"]
  /\ pc = [r \in Reqs |-> "idle"] /\ rq = [r \in Reqs |-> Blank]
  /\ calls = 0

-----------------------------------------------------------------------------
Count == calls < MaxCalls /\ calls' = calls + 1
Goto(r, step, locals) ==
  /\ pc' = [pc EXCEPT ![r] = step]
  /\ rq' = [rq EXCEPT ![r] = locals]
Finish(r) == Goto(r, "idle", Blank)

create_event(e, row) ==
  /\ ~Exists(e) /\ \A r \in Reqs : rq[r].event # e
  /\ row.over => row.ends
  /\ Count
  /\ event' = [event EXCEPT ![e] = row]
  /\ UNCHANGED <<rsvp, pc, rq>>

delete_event(e, u) ==
  /\ Exists(e) /\ event[e].by = u /\ Count
  /\ event' = [event EXCEPT ![e] = Nobody]
  /\ rsvp' = [x \in DOMAIN rsvp |-> IF x[1] = e THEN "none" ELSE rsvp[x]]
  /\ UNCHANGED <<pc, rq>>

(* Time passes. *)
Ends(e) ==
  /\ Exists(e) /\ event[e].ends /\ ~event[e].over
  /\ event' = [event EXCEPT ![e].over = TRUE]
  /\ UNCHANGED <<rsvp, pc, rq, calls>>
Ages(e) ==
  /\ Exists(e) /\ ~event[e].old
  /\ event' = [event EXCEPT ![e].old = TRUE]
  /\ UNCHANGED <<rsvp, pc, rq, calls>>

-----------------------------------------------------------------------------
(* attend: "maybe" takes a place and asks for none; nobody can withdraw.   *)
Attend(r, e, u, status) ==
  /\ pc[r] = "idle" /\ Exists(e) /\ Count
  /\ Goto(r, IF status = "going" THEN "full" ELSE "upsert",
          [event |-> e, user |-> u, status |-> status])
  /\ UNCHANGED <<event, rsvp>>

Full(e, Reaches(_, _)) ==
  Exists(e) /\ event[e].size > 0 /\ Reaches(Cardinality(Coming(e)), event[e].size)
is_event_over_full(e) == Full(e, LAMBDA n, size : n > size)  \* faulty: > for >=
is_event_full(e) == Full(e, LAMBDA n, size : n >= size)

CheckCapacity(r) ==
  /\ pc[r] = "full"
  /\ IF is_event_full(rq[r].event) THEN Finish(r) ELSE Goto(r, "upsert", rq[r])
  /\ UNCHANGED <<event, rsvp, calls>>

(* The row, or the foreign key's refusal when the event is gone.           *)
upsert_attendee(r) ==
  /\ pc[r] = "upsert"
  /\ rsvp' = IF Exists(rq[r].event)
             THEN [rsvp EXCEPT ![<<rq[r].event, rq[r].user>>] = rq[r].status] ELSE rsvp
  /\ Finish(r)
  /\ UNCHANGED <<event, calls>>

-----------------------------------------------------------------------------
(* What a caller is shown, with its own answer.  AND binds tighter than OR *)
(* in the WHERE of the query.                                              *)
find_nearby_events ==
  {e \in EventIds : Exists(e) /\
     (~event[e].ends \/ (~event[e].over /\ ~event[e].old /\ event[e].near))}
get_attendee_status(e, u) == rsvp[<<e, u>>]
list_nearby(u) == {<<e, get_attendee_status(e, u)>> : e \in find_nearby_events}

Next ==
  \/ \E e \in EventIds :
       \/ \E row \in Event : create_event(e, row)
       \/ \E u \in Users :
            \/ delete_event(e, u)
            \/ \E r \in Reqs, status \in {"going", "maybe"} : Attend(r, e, u, status)
       \/ Ends(e)
       \/ Ages(e)
  \/ \E r \in Reqs : CheckCapacity(r) \/ upsert_attendee(r)

Spec == Init /\ [][Next]_vars

-----------------------------------------------------------------------------
(* Who says "going" is counted against the places, in a statement before   *)
(* the row is stored: a limited event has no more of them than its places, *)
(* and one more for each other request that had counted as well.           *)
GoingBounded ==
  \A e \in EventIds : Exists(e) /\ event[e].size > 0 =>
    Cardinality(Going(e)) <= event[e].size + Cardinality(Reqs) - 1

(* "Find events near a location, ordered by distance": no event that is    *)
(* far away is listed.                                                     *)
ListedAreNear ==
  \A u \in Users : \A x \in list_nearby(u) : event[x[1]].near
=============================================================================

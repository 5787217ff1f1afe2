----------------------------- MODULE CaseWork ------------------------------
(***************************************************************************)
(* What staff do about users: reports and their resolution, photo and CSAM *)
(* queues, bans, entitlements, data requests, legal holds and exports, and *)
(* the paged lists all of it is read through (api/src/admin/handlers.rs    *)
(* over db/src/{moderation,support,users,staff}.rs; create_report of       *)
(* social.rs and delete_account of me.rs are the users' side).             *)
(*                                                                         *)
(* A table is the sequence of its rows in the order of created_at, and a   *)
(* row is known by its place: nothing here removes one.  As in the code,   *)
(* statements of db are operators and handlers are actions.  Permissions   *)
(* are StaffAccess's; the COUNT behind each list is left out.              *)
(*                                                                         *)
(* History, read by no action: cause, unlogged.                            *)
(***************************************************************************)
EXTENDS Integers, Sequences, FiniteSets

CONSTANTS
  Callers,    \* members of staff, one request each
  Features,   \* what an entitlement may be for
  Limit,      \* rows per page, 1 to 100 after the clamp
  Start,      \* the tables when the behaviour starts, in any state they can reach
  MaxRows,    \* bound: rows of a table
  MaxWrites,  \* bound: calls that write
  MaxFaults   \* bound: requests and statements that fail

VARIABLES
  table,     \* the rows: [user, status, stamped]
  entitled,  \* entitlements with enabled = true, as <<user, feature>>
  known,     \* those that have a row
  pc, rq,    \* the request of each caller
  sweep,     \* the list that is being paged through
  cause,     \* who set a user's status last: "report" or "other"
  unlogged,  \* exports whose audit row was lost
  writes, faults

rights == <<entitled, known>>
vars == <<table, rights, pc, rq, sweep, cause, unlogged, writes, faults>>

Names == {"users", "reports", "moderation_actions", "photos", "csam_hits",
          "data_requests", "legal_holds", "audit_log"}
Row(u, s) == [user |-> u, status |-> s, stamped |-> FALSE]
NoSweep == [list |-> <<"users", "all">>, offset |-> 0, start |-> 0, got |-> {}, again |-> FALSE, over |-> FALSE]
NoReq == [report |-> 0, verdict |-> "", verb |-> "", dossier |-> {}]
Ids(t) == 1..Len(table[t])

TypeOK ==
  /\ DOMAIN table = Names
  /\ \A t \in Names : \A n \in Ids(t) : table[t][n].user \in Ids("users") \cup {0}
  /\ entitled \subseteq known /\ known \subseteq Ids("users") \X Features
  /\ \A c \in Callers : pc[c] \in {"action", "status", "close"} => rq[c].report \in Ids("reports")
  /\ sweep.got \subseteq Ids(sweep.list[1]) /\ sweep.offset \in Nat

Init ==
  /\ table = Start
  /\ entitled = {} /\ known = {}
  /\ pc = [c \in Callers |-> "idle"] /\ rq = [c \in Callers |-> NoReq]
  /\ sweep = NoSweep
  /\ cause = [n \in 1..MaxRows |-> "other"]
  /\ unlogged = 0 /\ writes = 0 /\ faults = 0

-----------------------------------------------------------------------------
(* SQL *)
Room(t) == Len(table[t]) < MaxRows
Insert(t, row) == [table EXCEPT ![t] = Append(@, row)]
SetStatus(t, n, s) == [table EXCEPT ![t][n].status = s]
Stamp(t, n, s) == [table EXCEPT ![t][n] = [@ EXCEPT !.status = s, !.stamped = TRUE]]
Select(t, Test(_)) == {n \in Ids(t) : Test(table[t][n])}

create_report(u) == Insert("reports", Row(u, "open"))
update_report_status(n, s) == SetStatus("reports", n, s)
resolve_report(n, s) == Stamp("reports", n, s)
create_moderation_action(u, verb) == Insert("moderation_actions", Row(u, verb))
update_photo_moderation(n, s) == SetStatus("photos", n, s)
report_csam_hit(n) == Stamp("csam_hits", n, "reported")
update_user_status(u, s) == SetStatus("users", u, s)
update_data_request(n, s) ==
  IF s = "processing" THEN SetStatus("data_requests", n, s) ELSE Stamp("data_requests", n, s)
place_legal_hold(u) == Insert("legal_holds", Row(u, "held"))
release_legal_hold(n) ==
  IF table["legal_holds"][n].stamped THEN table ELSE Stamp("legal_holds", n, "released")

Store(t) ==
  /\ writes < MaxWrites /\ writes' = writes + 1
  /\ table' = t
  /\ UNCHANGED <<rights, pc, rq, sweep, unlogged, faults>>
Change(t) == Store(t) /\ UNCHANGED cause

-----------------------------------------------------------------------------
(* The rows that others add: users register, report each other (never      *)
(* themselves) and upload photos.  CSAM hits and data requests have no     *)
(* INSERT in the code; their rows come from outside it.                    *)
Register == Room("users") /\ Change(Insert("users", Row(0, "active")))
CreateReport(by, u) == by # u /\ Room("reports") /\ Change(create_report(u))
Upload(u) == Room("photos") /\ Change(Insert("photos", Row(u, "pending")))
Arrive(t, u) == Room(t) /\ Change(Insert(t, Row(u, "pending")))

(* delete_account anonymizes the row; legal_holds is never consulted.      *)
DeleteAccount(u) ==
  /\ table["users"][u].status # "deleted"
  /\ Store(update_user_status(u, "deleted"))
  /\ cause' = [cause EXCEPT ![u] = "other"]

-----------------------------------------------------------------------------
(* One-statement handlers *)
ReviewReport(n) == Change(update_report_status(n, "reviewing"))
ApprovePhoto(n) == Change(update_photo_moderation(n, "approved"))
RejectPhoto(n) == Change(update_photo_moderation(n, "rejected"))
ReportCsamHit(n) == Change(report_csam_hit(n))
ProcessDataRequest(n, s) == Change(update_data_request(n, s))
PlaceLegalHold(u) == Room("legal_holds") /\ Change(place_legal_hold(u))
ReleaseLegalHold(n) == Change(release_legal_hold(n))

SetUserStatus(u, s) ==
  /\ Store(update_user_status(u, s))
  /\ cause' = [cause EXCEPT ![u] = "other"]
BanUser(u) == SetUserStatus(u, "banned")
SuspendUser(u) == SetUserStatus(u, "suspended")
ActivateUser(u) == SetUserStatus(u, "active")

(* A revocation updates the row there is, or none.                         *)
grant_entitlement(u, f) == entitled \cup {<<u, f>>}
revoke_entitlement(u, f) == entitled \ {<<u, f>>}
ManageEntitlement(u, f, grant) ==
  /\ entitled' = IF grant THEN grant_entitlement(u, f) ELSE revoke_entitlement(u, f)
  /\ known' = IF grant THEN known \cup {<<u, f>>} ELSE known
  /\ writes < MaxWrites /\ writes' = writes + 1
  /\ UNCHANGED <<table, pc, rq, sweep, cause, unlogged, faults>>

-----------------------------------------------------------------------------
(* resolve_report: the action's row, the user's status, the report, three  *)
(* statements of which a failure keeps the earlier ones.                   *)
Goto(c, step, r) ==
  /\ pc' = [pc EXCEPT ![c] = step]
  /\ rq' = [rq EXCEPT ![c] = r]

Resolve(c, n, verdict, verb, first) ==
  /\ pc[c] = "idle" /\ writes < MaxWrites /\ writes' = writes + 1
  /\ Goto(c, IF verdict = "actioned" THEN first ELSE "close",
          [NoReq EXCEPT !.report = n, !.verdict = verdict, !.verb = verb])
  /\ UNCHANGED <<table, rights, sweep, cause, unlogged, faults>>
ResolveSanctionFirst(c, n, verdict, verb) ==  \* faulty: the status before the record
  Resolve(c, n, verdict, verb, IF verb \in {"suspend", "ban"} THEN "status" ELSE "action")
ResolveReport(c, n, verdict, verb) == Resolve(c, n, verdict, verb, "action")

RecordAction(c) ==
  /\ pc[c] = "action" /\ Room("moderation_actions")
  /\ table' = create_moderation_action(table["reports"][rq[c].report].user, rq[c].verb)
  /\ Goto(c, IF rq[c].verb \in {"suspend", "ban"} THEN "status" ELSE "close", rq[c])
  /\ UNCHANGED <<rights, sweep, cause, unlogged, writes, faults>>

StatusOf(verb) == IF verb = "ban" THEN "banned" ELSE "suspended"
ApplySanction(c) ==
  LET u == table["reports"][rq[c].report].user IN
  /\ pc[c] = "status"
  /\ table' = update_user_status(u, StatusOf(rq[c].verb))
  /\ cause' = [cause EXCEPT ![u] = "report"]
  /\ Goto(c, "close", rq[c])
  /\ UNCHANGED <<rights, sweep, unlogged, writes, faults>>

CloseReport(c) ==
  /\ pc[c] = "close"
  /\ table' = resolve_report(rq[c].report, rq[c].verdict)
  /\ Goto(c, "idle", NoReq)
  /\ UNCHANGED <<rights, sweep, cause, unlogged, writes, faults>>

(* legal_export: the dossier's reads, then its audit row, whose failure is *)
(* dropped: the dossier is returned all the same.                          *)
build_legal_dossier(u) ==
  UNION {{t} \X Select(t, LAMBDA r : r.user = u) : t \in {"reports", "photos", "legal_holds"}}
LegalExport(c, u) ==
  /\ pc[c] = "idle" /\ writes < MaxWrites /\ writes' = writes + 1
  /\ Goto(c, "log", [NoReq EXCEPT !.report = u, !.dossier = build_legal_dossier(u)])
  /\ UNCHANGED <<table, rights, sweep, cause, unlogged, faults>>
LogExport(c) ==
  /\ pc[c] = "log" /\ Room("audit_log")
  /\ table' = Insert("audit_log", Row(rq[c].report, "export"))
  /\ Goto(c, "idle", NoReq)
  /\ UNCHANGED <<rights, sweep, cause, unlogged, writes, faults>>
LogFails(c) ==
  /\ pc[c] = "log" /\ faults < MaxFaults /\ faults' = faults + 1
  /\ unlogged' = unlogged + 1
  /\ Goto(c, "idle", NoReq)
  /\ UNCHANGED <<table, rights, sweep, cause, writes>>

Abort(c) ==
  /\ pc[c] \in {"action", "status", "close"} /\ faults < MaxFaults
  /\ faults' = faults + 1
  /\ Goto(c, "idle", NoReq)
  /\ UNCHANGED <<table, rights, sweep, cause, unlogged, writes>>

-----------------------------------------------------------------------------
(* Lists.  A page is Limit rows from an offset, in the order of created_at *)
(* or against it; staff ask for the next until one comes back empty.       *)
Sorted(S, up) ==
  [i \in 1..Cardinality(S) |->
     CHOOSE n \in S : Cardinality({k \in S : IF up THEN k < n ELSE k > n}) = i - 1]
Page(s, offset) == {s[i] : i \in (offset + 1)..(IF offset + Limit < Len(s) THEN offset + Limit ELSE Len(s))}

Turn(list, rows) ==
  LET cur == IF sweep.list = list /\ ~sweep.over
             THEN sweep ELSE [NoSweep EXCEPT !.list = list, !.start = Len(table[list[1]])]
      page == Page(rows, cur.offset)
  IN
  /\ sweep' = [cur EXCEPT !.offset = @ + Limit, !.got = @ \cup page, !.over = page = {},
                          !.again = @ \/ page \cap cur.got # {}]
  /\ UNCHANGED <<table, rights, pc, rq, cause, unlogged, writes, faults>>

(* ORDER BY created_at DESC, with `$1 IS NULL OR status = $1`.             *)
NewestByStatus(t, s) ==  \* faulty: ORDER BY status before created_at
  Sorted({n \in Ids(t) : table[t][n].status # "open"}, FALSE) \o
  Sorted({n \in Ids(t) : table[t][n].status = "open"}, FALSE)
Newest(t, s) == Sorted(Select(t, LAMBDA r : s = "all" \/ r.status = s), FALSE)
list_reports(s) == Newest("reports", s)
list_pending_photos == Sorted(Select("photos", LAMBDA r : r.status = "pending"), TRUE)
list_csam_hits(s) == Newest("csam_hits", s)
list_data_requests(s) == Newest("data_requests", s)
search_audit_log == Newest("audit_log", "all")
search_users == Newest("users", "all")

ListReports(s) == Turn(<<"reports", s>>, list_reports(s))
ListPendingPhotos == Turn(<<"photos", "pending">>, list_pending_photos)
ListCsamHits(s) == Turn(<<"csam_hits", s>>, list_csam_hits(s))
ListDataRequests(s) == Turn(<<"data_requests", s>>, list_data_requests(s))
ListAudit == Turn(<<"audit_log", "all">>, search_audit_log)
ListUsers == Turn(<<"users", "all">>, search_users)

Users == Ids("users")
Next ==
  \/ Register
  \/ \E u \in Users :
       \/ Upload(u) \/ DeleteAccount(u) \/ PlaceLegalHold(u)
       \/ BanUser(u) \/ SuspendUser(u) \/ ActivateUser(u)
       \/ \E by \in Users : CreateReport(by, u)
       \/ \E t \in {"csam_hits", "data_requests"} : Arrive(t, u)
       \/ \E f \in Features, grant \in BOOLEAN : ManageEntitlement(u, f, grant)
  \/ \E n \in Ids("reports") : ReviewReport(n)
  \/ \E n \in Ids("photos") : ApprovePhoto(n) \/ RejectPhoto(n)
  \/ \E n \in Ids("csam_hits") : ReportCsamHit(n)
  \/ \E n \in Ids("data_requests"), s \in {"processing", "completed", "rejected"} :
       ProcessDataRequest(n, s)
  \/ \E n \in Ids("legal_holds") : ReleaseLegalHold(n)
  \/ \E c \in Callers :
       \/ \E n \in Ids("reports"), verdict \in {"actioned", "dismissed"},
             verb \in {"warn", "suspend", "ban", "clear"} : ResolveReport(c, n, verdict, verb)
       \/ RecordAction(c) \/ ApplySanction(c) \/ CloseReport(c)
       \/ \E u \in Users : LegalExport(c, u)
       \/ LogExport(c) \/ LogFails(c) \/ Abort(c)
  \/ \E s \in {"all", "open"} : ListReports(s)
  \/ \E s \in {"all", "pending"} : ListCsamHits(s) \/ ListDataRequests(s)
  \/ ListPendingPhotos \/ ListAudit \/ ListUsers

Spec == Init /\ [][Next]_vars

-----------------------------------------------------------------------------
(* A report closed as actioned has a moderation_actions row on its target, *)
(* and a user whom a report suspended or banned has one with that verb:    *)
(* however resolutions overlap or fail, no sanction is left unexplained.   *)
Recorded(u, verbs) ==
  \E n \in Ids("moderation_actions") : LET a == table["moderation_actions"][n] IN
    a.user = u /\ a.status \in verbs
SanctionsAreRecorded ==
  /\ \A n \in Ids("reports") : LET r == table["reports"][n] IN
       r.status = "actioned" => Recorded(r.user, {"warn", "suspend", "ban", "clear"})
  /\ \A u \in Users : cause[u] = "report" =>
       \E verb \in {"suspend", "ban"} :
         table["users"][u].status = StatusOf(verb) /\ Recorded(u, {verb})

(* Rows arrive, are decided and change while staff page by offset.  Newest *)
(* first and unfiltered, every row that was there at the start is shown;   *)
(* oldest first, no photo to moderate is shown twice.                      *)
PagingIsSound ==
  /\ sweep.over /\ sweep.list[2] = "all" => 1..sweep.start \subseteq sweep.got
  /\ sweep.list = <<"photos", "pending">> => ~sweep.again
=============================================================================

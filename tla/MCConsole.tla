----------------------------- MODULE MCConsole ------------------------------
(***************************************************************************)
(* A small instance of StaffAccess for TLC, and small instances of what is *)
(* behind that door: CaseWork, Catalog and Push.  They share no table, so  *)
(* one run takes them one at a time: its first state says which.  What is  *)
(* not of that part keeps the value it starts with.                        *)
(***************************************************************************)
EXTENDS StaffAccess, Sequences, TLC
CONSTANTS
  Agents, Features, Limit, Cases, MaxRows, MaxWrites,     \* CaseWork
  Callers, CallersMay, Keys, KeyNames, KeyFor, Values, RowIds, Nothing, \* Catalog
  People, Devices, CampaignIds, Configured, Nobody,       \* Push
  m1, k1, n1, n2, c1, c2
VARIABLES
  part,
  step, local, failures,                                  \* pc, rq, faults
  tables, entitled, known, sweep, cause, unlogged, writes, \* CaseWork
  store, answer, calls, restores, unmarked,               \* Catalog
  owner, campaigns, cache, keeper, due, tried             \* Push

Work == INSTANCE CaseWork WITH
  Callers <- Agents, Start <- Cases, table <- tables,
  pc <- step, rq <- local, faults <- failures
Cat == INSTANCE Catalog WITH
  Names <- KeyNames, Ids <- RowIds, Granted <- CallersMay, KeyOf <- KeyFor,
  pc <- step, rq <- local, faults <- failures
Fcm == INSTANCE Push WITH
  Users <- People, holder <- keeper, pc <- step, rq <- local, faults <- failures

(* What the status and verb columns of the tables hold.                    *)
CaseStatuses ==
  {"active", "suspended", "banned", "deleted",                 \* users
   "open", "reviewing", "actioned", "dismissed",               \* reports
   "warn", "suspend", "ban", "clear",                          \* moderation_actions
   "pending", "approved", "rejected", "reported",              \* photos, csam_hits
   "processing", "completed", "held", "released", "export"}    \* the others

(* Pages hold a row at least; the tables start with rows of users that     *)
(* there are, and with an action for each report that is closed with one;  *)
(* callers are few, and an id or a row is no NULL.                         *)
ASSUME TablesFit ==
  /\ Limit \in Nat \ {0} /\ MaxRows \in Nat
  /\ Cases \in [Work!Names -> Seq([user : Nat, status : CaseStatuses, stamped : BOOLEAN])]
  /\ \A t \in Work!Names : Len(Cases[t]) <= MaxRows
       /\ \A n \in 1..Len(Cases[t]) : Cases[t][n].user \in 0..Len(Cases["users"])
  /\ \A n \in 1..Len(Cases["reports"]) : Cases["reports"][n].status = "actioned" =>
       \E m \in 1..Len(Cases["moderation_actions"]) :
         /\ Cases["moderation_actions"][m].user = Cases["reports"][n].user
         /\ Cases["moderation_actions"][m].status \in {"warn", "suspend", "ban", "clear"}
ASSUME CallersAreFew ==
  /\ IsFiniteSet(Callers)
  /\ Nothing \notin [key : RowIds, table : Cat!Restorable, row : Keys, val : Values, spent : BOOLEAN]
ASSUME NobodyIsNobody == Nobody \notin People \cup Reqs

(* One member of staff, with one of the two permissions that calls ask for.*)
StaffGrants == m1 :> {k1}

(* Two users, two reports and two photos are there from the start. *)
Case(u, s) == [user |-> u, status |-> s, stamped |-> FALSE]
SomeCases ==
  [t \in {"users", "reports", "moderation_actions", "photos", "csam_hits",
          "data_requests", "legal_holds", "audit_log"} |->
     CASE t = "users" -> <<Case(0, "active"), Case(0, "active")>>
       [] t = "reports" -> <<Case(1, "open"), Case(1, "open")>>
       [] t = "photos" -> <<Case(1, "pending"), Case(2, "pending")>>
       [] OTHER -> <<>>]

(* Both names of experiments make one key; c2 has no say but in settings. *)
SomeKeys == n1 :> k1 @@ n2 :> k1
Settled == {"flags.read", "flags.write", "config.read", "config.write"}
SomeGrants == c1 :> Settled \cup {"plans.read", "plans.write", "countries.read", "countries.write",
    "experiments.read", "experiments.write", "cms.read", "cms.write", "templates.read", "templates.write",
    "abuse.read", "abuse.write", "apikeys.read", "apikeys.write", "webhooks.read", "webhooks.write"}
  @@ c2 :> Settled

partVars == <<step, local, failures>>
workVars == <<tables, entitled, known, sweep, cause, unlogged, writes>>
catVars == <<store, answer, calls, restores, unmarked>>
fcmVars == <<owner, campaigns, cache, keeper, due, tried>>

NoParts == step = Nothing /\ local = Nothing /\ failures = Nothing
NoWork == tables = Nothing /\ entitled = Nothing /\ known = Nothing /\ sweep = Nothing
  /\ cause = Nothing /\ unlogged = Nothing /\ writes = Nothing
NoCat == store = Nothing /\ answer = Nothing /\ calls = Nothing /\ restores = Nothing /\ unmarked = Nothing
NoFcm == owner = Nothing /\ campaigns = Nothing /\ cache = Nothing /\ keeper = Nothing
  /\ due = Nothing /\ tried = Nothing

ConsoleInit ==
  /\ Init
  /\ \/ part = "staff" /\ NoParts /\ NoWork /\ NoCat /\ NoFcm
     \/ part = "cases" /\ Work!Init /\ NoCat /\ NoFcm
     \/ part = "catalog" /\ Cat!Init /\ NoWork /\ NoFcm
     \/ part = "push" /\ Fcm!Init /\ NoWork /\ NoCat

ConsoleNext ==
  /\ UNCHANGED part
  /\ \/ part = "staff" /\ Next /\ UNCHANGED <<partVars, workVars, catVars, fcmVars>>
     \/ part = "cases" /\ Work!Next /\ UNCHANGED <<vars, catVars, fcmVars>>
     \/ part = "catalog" /\ Cat!Next /\ UNCHANGED <<vars, workVars, fcmVars>>
     \/ part = "push" /\ Fcm!Next /\ UNCHANGED <<vars, workVars, catVars>>

consoleVars == <<part, vars, partVars, workVars, catVars, fcmVars>>
ConsoleSpec == ConsoleInit /\ [][ConsoleNext]_consoleVars

(* Agents and Reqs, Values and People, and RowIds, Sids and Devices have   *)
(* the same members.                                                       *)
Interchangeable == Permutations(Reqs) \cup Permutations(People) \cup Permutations(Devices)

-----------------------------------------------------------------------------
(* The types of each part. *)
PartsTypeOK ==
  /\ TypeOK
  /\ part = "cases" => Work!TypeOK
  /\ part = "catalog" => Cat!TypeOK
  /\ part = "push" => Fcm!TypeOK

(* No sanction is left unexplained, however resolutions overlap or fail.   *)
SanctionsAreRecorded == part = "cases" => Work!SanctionsAreRecorded

(* Paging by offset misses no row newest first, repeats none oldest first. *)
PagingIsSound == part = "cases" => Work!PagingIsSound

(* A version marked as rolled back was written back, and not too often.    *)
RollbackIsHonest == part = "catalog" => Cat!RollbackIsHonest

(* No device's failure costs another its message.                          *)
SentMeansAttempted == part = "push" => Fcm!SentMeansAttempted
=============================================================================

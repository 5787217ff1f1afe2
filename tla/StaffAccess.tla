---------------------------- MODULE StaffAccess ----------------------------
(***************************************************************************)
(* The door of the staff console: password and TOTP login with its lock,   *)
(* the staff_sessions table, the StaffAuth extractor that every console    *)
(* handler runs first, and the audit_mutation middleware around those that *)
(* write (api/src/admin/{handlers,extractors,rbac,audit}.rs,               *)
(* db/src/staff.rs, auth_admin).                                           *)
(*                                                                         *)
(* What a console call does to its tables is CaseWork and Catalog; here it *)
(* is one step that takes effect or not.  Codes, hashes and signatures are *)
(* their verdict, an input of the step that asks for it.                   *)
(*                                                                         *)
(* History, read by no action: guesses, lost, effects, rows, gaps.         *)
(***************************************************************************)
EXTENDS Naturals, FiniteSets

CONSTANTS
  Staff,          \* rows of table staff
  Sids,           \* ids that INSERT INTO staff_sessions may generate
  Reqs,           \* slots of requests being served at the same time
  Permissions,    \* permissions the endpoints ask for
  Granted,        \* role_permissions, joined with staff.role
  LockAfter,      \* failed logins that lock an account (5 in the code)
  MaxFailed,      \* bound: no lock lapses once failed_login_count is there
  MaxCalls,       \* bound: calls of console endpoints in a behaviour
  MaxFaults,      \* bound: statements that fail
  NoStaff, NoSid

(* Finitely many requests at once, a limit of at least one wrong password, *)
(* a NULL that is nobody's id.                                             *)
Sensible == IsFiniteSet(Reqs) /\ LockAfter \in Nat \ {0} /\ NoStaff \notin Staff
ASSUME SensibleConstants == Sensible

VARIABLES
  active,     \* staff with status 'active'
  failed,     \* staff.failed_login_count
  locked,     \* staff whose locked_until is ahead
  challenge,  \* staff with an mfa_token that has not expired
  holder,     \* staff_sessions.staff_id; NoStaff: no such row
  open,       \* sessions neither revoked nor expired
  pc, rq,     \* where each request stands, and its local variables
  guesses,    \* wrong passwords tried since the account was last unlocked
  lost,       \* failed increments of failed_login_count, per account
  effects, rows, gaps,  \* calls that took effect; the audit rows of those; failures
  faults      \* statements failed so far

accounts == <<active, failed, locked, guesses, lost>>
table == <<holder, open>>
trail == <<effects, rows, gaps>>
vars == <<active, failed, locked, guesses, lost, challenge, holder, open,
          effects, rows, gaps, faults, pc, rq>>

Steps == {"idle", "verify", "count", "stamp", "totp", "session",
          "extract", "apply", "revoke", "audit"}
Locals == [staff : Staff \cup {NoStaff}, sid : Sids \cup {NoSid}, late : BOOLEAN,
           logged : BOOLEAN, done : BOOLEAN]
Blank == [staff |-> NoStaff, sid |-> NoSid, late |-> FALSE, logged |-> FALSE, done |-> FALSE]

TypeOK ==
  /\ active \subseteq Staff /\ locked \subseteq Staff /\ challenge \subseteq Staff
  /\ failed \in [Staff -> Nat] /\ guesses \in [Staff -> Nat] /\ lost \in [Staff -> Nat]
  /\ holder \in [Sids -> Staff \cup {NoStaff}]
  /\ open \subseteq {s \in Sids : holder[s] # NoStaff}
  /\ pc \in [Reqs -> Steps] /\ rq \in [Reqs -> Locals]
  /\ effects \in Nat /\ rows \in Nat /\ gaps \in Nat /\ faults \in Nat

Init ==
  /\ active = Staff /\ locked = {} /\ challenge = {}
  /\ failed = [m \in Staff |-> 0] /\ guesses = [m \in Staff |-> 0]
  /\ lost = [m \in Staff |-> 0]
  /\ holder = [s \in Sids |-> NoStaff] /\ open = {}
  /\ effects = 0 /\ rows = 0 /\ gaps = 0 /\ faults = 0
  /\ pc = [r \in Reqs |-> "idle"] /\ rq = [r \in Reqs |-> Blank]

-----------------------------------------------------------------------------
Begin(r, step, locals) ==
  /\ pc[r] = "idle"
  /\ pc' = [pc EXCEPT ![r] = step]
  /\ rq' = [rq EXCEPT ![r] = locals]
Goto(r, step, locals) ==
  /\ pc' = [pc EXCEPT ![r] = step]
  /\ rq' = [rq EXCEPT ![r] = locals]
Finish(r) == Goto(r, "idle", Blank)
Fault == faults < MaxFaults /\ faults' = faults + 1

-----------------------------------------------------------------------------
(* login: the row is read once; status and lock are tested on that copy.   *)
Enter(r, step, m) ==
  /\ Begin(r, step, [Blank EXCEPT !.staff = m])
  /\ UNCHANGED <<accounts, challenge, table, trail, faults>>

LoginFind(r, m) == m \in active /\ m \notin locked /\ Enter(r, "verify", m)

LoginVerify(r, right) ==
  LET m == rq[r].staff IN
  /\ pc[r] = "verify"
  /\ Goto(r, IF right THEN "stamp" ELSE "count", rq[r])
  /\ guesses' = IF right THEN guesses ELSE [guesses EXCEPT ![m] = @ + 1]
  /\ UNCHANGED <<active, failed, locked, lost, challenge, table, trail, faults>>

(* increment_failed_login: counter and lock in one UPDATE.  Its error is   *)
(* dropped (`let _ =`): the caller answers 401 all the same.               *)
Count(r, locks) ==
  LET m == rq[r].staff IN
  /\ pc[r] = "count"
  /\ failed' = [failed EXCEPT ![m] = @ + 1]
  /\ locked' = IF locks THEN locked \cup {m} ELSE locked
  /\ Finish(r)
  /\ UNCHANGED <<active, guesses, lost, challenge, table, trail, faults>>

CountFailureExact(r) == Count(r, failed[rq[r].staff] + 1 = LockAfter)  \* faulty: = for >=
CountFailure(r) == Count(r, failed[rq[r].staff] + 1 >= LockAfter)

CountFails(r) ==
  /\ pc[r] = "count" /\ Fault
  /\ lost' = [lost EXCEPT ![rq[r].staff] = @ + 1]
  /\ Finish(r)
  /\ UNCHANGED <<active, failed, locked, guesses, challenge, table, trail>>

(* update_last_login resets the counter, leaves locked_until alone, and    *)
(* the mfa_token is signed: no row remembers it.                           *)
StampLogin(r) ==
  LET m == rq[r].staff IN
  /\ pc[r] = "stamp"
  /\ failed' = [failed EXCEPT ![m] = 0]
  /\ guesses' = [guesses EXCEPT ![m] = 0]
  /\ lost' = [lost EXCEPT ![m] = 0]
  /\ challenge' = challenge \cup {m}
  /\ Finish(r)
  /\ UNCHANGED <<active, locked, table, trail, faults>>

-----------------------------------------------------------------------------
(* two_factor: the token names the account, whose row is read again; after *)
(* the TOTP verdict the session is stored, and the JWT issued for its id.  *)
SecondFactor(r, m) == m \in challenge /\ m \in active /\ Enter(r, "totp", m)

VerifyCode(r, right) ==
  /\ pc[r] = "totp"
  /\ IF right THEN Goto(r, "session", rq[r]) ELSE Finish(r)
  /\ UNCHANGED <<accounts, challenge, table, trail, faults>>

StoreSession(r, s, m) ==
  /\ pc[r] = "session" /\ holder[s] = NoStaff
  /\ holder' = [holder EXCEPT ![s] = m]
  /\ open' = open \cup {s}
  /\ Finish(r)
  /\ UNCHANGED <<accounts, challenge, trail, faults>>

CreateSessionUnowned(r, s) == StoreSession(r, s, NoStaff)  \* faulty: staff_id not bound
CreateSession(r, s) == StoreSession(r, s, rq[r].staff)

-----------------------------------------------------------------------------
(* A console call presents the JWT of session s.  On an audited route the  *)
(* middleware extracts StaffAuth first and, where that fails for whatever  *)
(* reason, goes on without an identity; the handler extracts it again.     *)
Issued == {s \in Sids : holder[s] # NoStaff}
CallBegin(r, s) ==
  /\ s \in Issued /\ effects + gaps < MaxCalls
  /\ Begin(r, "extract", [Blank EXCEPT !.staff = holder[s], !.sid = s,
                          !.late = s \notin open, !.logged = s \in open])
  /\ UNCHANGED <<accounts, challenge, table, trail, faults>>

ExtractFails(r, s) ==
  /\ s \in open /\ effects + gaps < MaxCalls /\ Fault
  /\ Begin(r, "extract", [Blank EXCEPT !.staff = holder[s], !.sid = s])
  /\ UNCHANGED <<accounts, challenge, table, trail>>

(* StaffAuth in the handler, then the permission among those of the token. *)
Admit(r, welcome) ==
  /\ pc[r] = "extract"
  /\ Goto(r, IF welcome THEN "apply" ELSE "audit", rq[r])
  /\ UNCHANGED <<accounts, challenge, table, trail, faults>>

ExtractByToken(r, p) == Admit(r, p \in Granted[rq[r].staff])  \* faulty: no session row
Extract(r, p) == Admit(r, rq[r].sid \in open /\ p \in Granted[rq[r].staff])

Apply(r) ==
  /\ pc[r] = "apply"
  /\ effects' = effects + 1
  /\ gaps' = IF rq[r].logged THEN gaps ELSE gaps + 1
  /\ Goto(r, "audit", [rq[r] EXCEPT !.done = TRUE])
  /\ UNCHANGED <<accounts, challenge, table, rows, faults>>

(* After the response: the INSERT when the middleware had an identity.     *)
AuditWhen(r, known) ==
  /\ pc[r] = "audit"
  /\ rows' = IF known /\ rq[r].done THEN rows + 1 ELSE rows
  /\ Finish(r)
  /\ UNCHANGED <<accounts, challenge, table, effects, gaps, faults>>

AuditIfStillOpen(r) == AuditWhen(r, rq[r].sid \in open)  \* faulty: identity taken after the handler
Audit(r) == AuditWhen(r, rq[r].logged)

AuditFails(r) ==
  /\ pc[r] = "audit" /\ rq[r].logged /\ rq[r].done /\ Fault
  /\ gaps' = gaps + 1
  /\ Finish(r)
  /\ UNCHANGED <<accounts, challenge, table, effects, rows>>

-----------------------------------------------------------------------------
(* logout: StaffAuth, then the UPDATE of the session the body names.  The  *)
(* route is not audited.                                                   *)
LogoutBegin(r, s, target) ==
  /\ s \in open
  /\ Begin(r, "revoke", [Blank EXCEPT !.staff = holder[s], !.sid = target])
  /\ UNCHANGED <<accounts, challenge, table, trail, faults>>

LogoutRevoke(r) ==
  /\ pc[r] = "revoke"
  /\ open' = open \ {rq[r].sid}
  /\ Finish(r)
  /\ UNCHANGED <<accounts, challenge, holder, trail, faults>>

-----------------------------------------------------------------------------
(* The clock, and the operator who suspends staff in the database: no      *)
(* endpoint writes staff.status.                                           *)
LockExpires(m) ==
  /\ m \in locked /\ failed[m] < MaxFailed
  /\ locked' = locked \ {m}
  /\ guesses' = [guesses EXCEPT ![m] = 0]
  /\ lost' = [lost EXCEPT ![m] = 0]
  /\ UNCHANGED <<active, failed, challenge, table, trail, faults, pc, rq>>

ChallengeExpires(m) ==
  /\ m \in challenge /\ challenge' = challenge \ {m}
  /\ UNCHANGED <<accounts, table, trail, faults, pc, rq>>

SessionExpires(s) ==
  /\ s \in open /\ open' = open \ {s}
  /\ UNCHANGED <<accounts, challenge, holder, trail, faults, pc, rq>>

SuspendStaff(m) ==
  /\ m \in active /\ active' = active \ {m}
  /\ UNCHANGED <<failed, locked, guesses, lost, challenge, table, trail, faults, pc, rq>>

(* A statement that fails or a client that leaves ends the request; once   *)
(* the mutation is made, its audit row is gone with it.                    *)
Abort(r) ==
  /\ pc[r] \in {"verify", "stamp", "totp", "session", "extract", "apply", "revoke", "audit"}
  /\ Fault
  /\ gaps' = IF rq[r].done /\ rq[r].logged THEN gaps + 1 ELSE gaps
  /\ Finish(r)
  /\ UNCHANGED <<accounts, challenge, table, effects, rows>>

Next ==
  \/ \E r \in Reqs :
       \/ \E m \in Staff : LoginFind(r, m) \/ SecondFactor(r, m)
       \/ \E right \in BOOLEAN : LoginVerify(r, right) \/ VerifyCode(r, right)
       \/ CountFailure(r) \/ CountFails(r) \/ StampLogin(r)
       \/ \E s \in Sids : CreateSession(r, s) \/ CallBegin(r, s) \/ ExtractFails(r, s)
       \/ \E p \in Permissions : Extract(r, p)
       \/ Apply(r) \/ Audit(r) \/ AuditFails(r)
       \/ \E s, t \in Sids : LogoutBegin(r, s, t)
       \/ LogoutRevoke(r) \/ Abort(r)
  \/ \E m \in Staff : LockExpires(m) \/ ChallengeExpires(m) \/ SuspendStaff(m)
  \/ \E s \in Sids : SessionExpires(s)

Spec == Init /\ [][Next]_vars

-----------------------------------------------------------------------------
(* Overlapping logins read the lock before any of them has been counted.   *)
(* However they interleave, between two unlockings an account answers at   *)
(* most LockAfter wrong passwords and one more for each other request that *)
(* was already past the lock, plus those whose counting failed.            *)
GuessesBounded ==
  \A m \in Staff : guesses[m] <= LockAfter + Cardinality(Reqs) - 1 + lost[m]

(* A mutation made through the console has its audit row, or the request   *)
(* is about to write it, or a failure is on record that cost it: the       *)
(* session ending while the handler runs does not.                         *)
EffectsAreAudited ==
  effects <= rows + gaps + Cardinality({r \in Reqs : rq[r].done /\ rq[r].logged})

(* A call that arrives when its session is revoked or expired never takes  *)
(* effect, whatever else is under way.                                     *)
LateCallsAreRefused ==
  \A r \in Reqs : rq[r].late => pc[r] # "apply" /\ ~rq[r].done
=============================================================================

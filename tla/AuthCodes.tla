----------------------------- MODULE AuthCodes ------------------------------
(***************************************************************************)
(* The six-digit codes of one user: by mail to verify an address, by text  *)
(* message to verify a phone, by mail to reset a password (issue_auth_code *)
(* and consume_auth_code of db/src/users.rs, their handlers in             *)
(* api/src/auth/handlers.rs, auth/src/code.rs).                            *)
(*                                                                         *)
(* consume_auth_code is two statements.  The first picks the row in a      *)
(* subquery and marks the row with that id: of two that overlap, the       *)
(* second waits for the row and then finds the same id again, so Pick and  *)
(* Mark are two steps, Mark asks nothing more of the row, and one code may *)
(* let in two calls that overlap.                                          *)
(*                                                                         *)
(* History, read by no action: tries.                                      *)
(***************************************************************************)
EXTENDS Integers, Sequences, FiniteSets

CONSTANTS
  Digits,    \* the codes there are
  Reqs,      \* requests served at the same time
  MaxCodes,  \* bound: rows of auth_codes
  MaxCalls,  \* bound: codes that are handed in
  MaxFaults  \* bound: statements and processes that fail

ASSUME FinitelyMany == IsFiniteSet(Reqs) /\ MaxCodes \in Nat

VARIABLES
  codes,     \* the rows of auth_codes: [kind, digits, used, expired]
  verified,  \* of email_verified and phone_verified, those that are true
  resets,    \* passwords set
  pc, rq,
  tries,     \* for each row, calls that fitted nothing while it was good
  calls, faults

vars == <<codes, verified, resets, pc, rq, tries, calls, faults>>

Kinds == {"email_verify", "phone_verify", "password_reset"}
Rows == 1..Len(codes)
Good(n) == ~codes[n].used /\ ~codes[n].expired
GoodOf(kind) == {n \in Rows : codes[n].kind = kind /\ Good(n)}
Blank == [kind |-> "", row |-> 0]

TypeOK ==
  /\ codes \in Seq([kind : Kinds, digits : Digits, used : BOOLEAN, expired : BOOLEAN])
  /\ verified \subseteq {"email_verify", "phone_verify"}
  /\ \A r \in Reqs : pc[r] \in {"mark", "effect"} => rq[r].row \in Rows /\ codes[rq[r].row].kind = rq[r].kind
  /\ \A r \in Reqs : pc[r] = "effect" => codes[rq[r].row].used
  /\ \A kind \in verified : \E n \in Rows : codes[n].kind = kind /\ codes[n].used

Init ==
  /\ codes = <<>> /\ verified = {} /\ resets = 0
  /\ pc = [r \in Reqs |-> "idle"] /\ rq = [r \in Reqs |-> Blank]
  /\ tries = [n \in 1..MaxCodes |-> 0]
  /\ calls = 0 /\ faults = 0

-----------------------------------------------------------------------------
(* generate_code draws without looking at what is there; the notifier may  *)
(* fail, which nobody learns.  An earlier code stays good.                 *)
issue_auth_code(kind, digits) ==
  /\ Len(codes) < MaxCodes
  /\ codes' = Append(codes, [kind |-> kind, digits |-> digits, used |-> FALSE, expired |-> FALSE])
  /\ UNCHANGED <<verified, resets, pc, rq, tries, calls, faults>>

ResendEmail(digits) == issue_auth_code("email_verify", digits)
SendPhoneCode(digits) == issue_auth_code("phone_verify", digits)
ResetRequest(digits) == issue_auth_code("password_reset", digits)

(* 10 or 30 minutes pass. *)
Expire(n) ==
  /\ Good(n)
  /\ codes' = [codes EXCEPT ![n].expired = TRUE]
  /\ UNCHANGED <<verified, resets, pc, rq, tries, calls, faults>>

-----------------------------------------------------------------------------
Goto(r, step, kind, n) ==
  /\ pc' = [pc EXCEPT ![r] = step]
  /\ rq' = [rq EXCEPT ![r] = [kind |-> kind, row |-> n]]
Finish(r) == Goto(r, "idle", "", 0)

(* verify_email, verify_phone, reset_password with digits handed in: the   *)
(* subquery of the first UPDATE takes the newest row that they fit.        *)
Pick(r, kind, digits) ==
  LET fits == {n \in GoodOf(kind) : codes[n].digits = digits} IN
  /\ pc[r] = "idle" /\ calls < MaxCalls /\ calls' = calls + 1
  /\ \/ fits = {} /\ Goto(r, "void", kind, 0)
     \/ \E n \in fits : (\A k \in fits : k <= n) /\ Goto(r, "mark", kind, n)
  /\ tries' = [n \in DOMAIN tries |-> IF fits = {} /\ n \in GoodOf(kind) THEN tries[n] + 1 ELSE tries[n]]
  /\ UNCHANGED <<codes, verified, resets, faults>>

VerifyEmail(r, digits) == Pick(r, "email_verify", digits)
VerifyPhone(r, digits) == Pick(r, "phone_verify", digits)
ResetPassword(r, digits) == Pick(r, "password_reset", digits)

Mark(r) ==
  LET n == rq[r].row IN
  /\ pc[r] = "mark"
  /\ codes' = [codes EXCEPT ![n].used = TRUE]
  /\ Goto(r, "effect", rq[r].kind, n)
  /\ UNCHANGED <<verified, resets, tries, calls, faults>>

(* Nothing fitted: 400, and what was good of that kind is used up.         *)
VoidRows(r, ns) ==
  /\ pc[r] = "void"
  /\ codes' = [n \in Rows |-> IF n \in ns THEN [codes[n] EXCEPT !.used = TRUE] ELSE codes[n]]
  /\ Finish(r)
  /\ UNCHANGED <<verified, resets, tries, calls, faults>>
VoidNewest(r) ==                  \* faulty: the latest code alone
  VoidRows(r, {n \in GoodOf(rq[r].kind) : \A k \in GoodOf(rq[r].kind) : k <= n})
Void(r) == VoidRows(r, GoodOf(rq[r].kind))

(* set_email_verified, set_phone_verified, update_password.  (What a reset *)
(* does to the logins is Sessions's.)                                      *)
Effect(r) ==
  /\ pc[r] = "effect"
  /\ verified' = IF rq[r].kind = "password_reset" THEN verified ELSE verified \cup {rq[r].kind}
  /\ resets' = IF rq[r].kind = "password_reset" THEN resets + 1 ELSE resets
  /\ Finish(r)
  /\ UNCHANGED <<codes, tries, calls, faults>>

(* A statement fails or the process dies: no retry, no undoing.            *)
Fail(r) ==
  /\ pc[r] # "idle" /\ faults < MaxFaults /\ faults' = faults + 1
  /\ Finish(r)
  /\ UNCHANGED <<codes, verified, resets, tries, calls>>

Next ==
  \/ \E d \in Digits : ResendEmail(d) \/ SendPhoneCode(d) \/ ResetRequest(d)
  \/ \E n \in Rows : Expire(n)
  \/ \E r \in Reqs :
       \/ \E d \in Digits : VerifyEmail(r, d) \/ VerifyPhone(r, d) \/ ResetPassword(r, d)
       \/ Mark(r)
       \/ Void(r)
       \/ Effect(r)
       \/ Fail(r)

Spec == Init /\ [][Next]_vars

-----------------------------------------------------------------------------
(* However many codes a user has and however often digits are handed in,   *)
(* a code outlives as many wrong tries as are served at the same time: the *)
(* first of them to end ends it, unless that very statement fails.         *)
TriesBounded == \A n \in DOMAIN tries : tries[n] <= Cardinality(Reqs) + faults
=============================================================================

------------------------------ MODULE Sessions ------------------------------
(***************************************************************************)
(* Login sessions of the HTTP API: the users and refresh_tokens tables and *)
(* the handlers of api/src/auth/handlers.rs, api/src/me.rs and             *)
(* api/src/admin/handlers.rs that write them.                              *)
(*                                                                         *)
(* A handler is an async function that awaits one SQL statement after      *)
(* another on a connection pool, with no transaction around them.  Each    *)
(* statement is one action here; between two of them any other request may *)
(* run, and the handler may end early (a database error answered 500, a    *)
(* client that hangs up, a process that dies): see Abort.                  *)
(*                                                                         *)
(* Three variables are history, read by no action: family (the login a     *)
(* token descends from), cred (the password that login was checked with)   *)
(* and overtaken/torn (what a revocation has been through).                *)
(***************************************************************************)
EXTENDS Naturals, FiniteSets

CONSTANTS
  Users,          \* account ids
  Tokens,         \* refresh tokens that generate_refresh() may return
  Reqs,           \* slots of requests being served at the same time
  Passwords,      \* passwords
  StaffStatus,    \* values that staff write into users.status
  NoUser, NoToken, NoPassword

ASSUME NullsAreNew ==
  /\ NoUser \notin Users
  /\ NoToken \notin Tokens
  /\ NoPassword \notin Passwords
ASSUME StaffWriteRowStatus == StaffStatus \subseteq {"active", "suspended", "banned"}

VARIABLES
  status,     \* users.status; "absent" when there is no row
  hash,       \* users.password_hash; NoPassword is NULL
  erased,     \* users whose email anonymize_user has replaced
  linked,     \* users with a row in auth_identities
  issued,     \* token hashes present in refresh_tokens
  owner,      \* refresh_tokens.user_id
  revoked,    \* rows with revoked_at set
  pc, rq,     \* where each request stands, and its local variables
  family, cred, overtaken, torn

accounts == <<status, hash, erased, linked>>
table == <<issued, owner, revoked, family, cred>>
history == <<overtaken, torn>>
vars == <<status, hash, erased, linked, issued, owner, revoked,
          pc, rq, family, cred, overtaken, torn>>

RowStatus == {"active", "suspended", "banned", "deleted"}
Steps == {"idle", "login_verify", "status", "issue", "reuse_revoke",
          "reset_consume", "reset_update", "reset_revoke",
          "delete_revoke", "delete_anonymize", "delete_unlink",
          "oauth_create", "oauth_link"}

Locals == [user : Users \cup {NoUser}, root : Tokens \cup {NoToken},
           cred : Passwords \cup {NoPassword}, seen : RowStatus \cup {"absent"}]
Local(u, f, c, s) == [user |-> u, root |-> f, cred |-> c, seen |-> s]
Blank == Local(NoUser, NoToken, NoPassword, "absent")

Live == issued \ revoked
Of(u) == {t \in issued : owner[t] = u}

TypeOK ==
  /\ status \in [Users -> RowStatus \cup {"absent"}]
  /\ hash \in [Users -> Passwords \cup {NoPassword}]
  /\ erased \subseteq Users
  /\ linked \subseteq Users
  /\ issued \subseteq Tokens
  /\ owner \in [Tokens -> Users \cup {NoUser}]
  /\ revoked \subseteq issued
  /\ pc \in [Reqs -> Steps]
  /\ rq \in [Reqs -> Locals]
  /\ \A r \in Reqs : pc[r] # "idle" => rq[r].user \in Users
  /\ \A t \in issued : owner[t] \in Users
  /\ family \in [Tokens -> Tokens]
  /\ cred \in [Tokens -> Passwords \cup {NoPassword}]
  /\ overtaken \subseteq Tokens
  /\ torn \subseteq Users

Init ==
  /\ status = [u \in Users |-> "absent"]
  /\ hash = [u \in Users |-> NoPassword]
  /\ erased = {} /\ linked = {}
  /\ issued = {} /\ revoked = {}
  /\ owner = [t \in Tokens |-> NoUser]
  /\ pc = [r \in Reqs |-> "idle"]
  /\ rq = [r \in Reqs |-> Blank]
  /\ family = [t \in Tokens |-> t]
  /\ cred = [t \in Tokens |-> NoPassword]
  /\ overtaken = {} /\ torn = {}

-----------------------------------------------------------------------------
(* Control of a request: Begin takes a free slot, Goto moves on, Finish    *)
(* answers.                                                                *)
Begin(r, step, locals) ==
  /\ pc[r] = "idle"
  /\ pc' = [pc EXCEPT ![r] = step]
  /\ rq' = [rq EXCEPT ![r] = locals]
Goto(r, step, locals) ==
  /\ pc' = [pc EXCEPT ![r] = step]
  /\ rq' = [rq EXCEPT ![r] = locals]
Finish(r) == Goto(r, "idle", Blank)

(* revoke_all_refresh: UPDATE ... WHERE user_id = $1 AND revoked_at IS NULL *)
RevokeAll(u) ==
  /\ revoked' = revoked \cup Of(u)
  /\ overtaken' = overtaken \cup {family[t] : t \in Of(u)}
  /\ torn' = torn \ {u}
  /\ UNCHANGED <<issued, owner, family, cred>>

-----------------------------------------------------------------------------
(* login: the row found by email is read first, its status with it; the    *)
(* password hash is a second query, and the status then tested is the one  *)
(* of the first.  An erased user's email no longer finds the row.          *)
LoginFind(r, u) ==
  /\ status[u] # "absent" /\ u \notin erased
  /\ Begin(r, "login_verify", Local(u, NoToken, NoPassword, status[u]))
  /\ UNCHANGED <<accounts, table, history>>

LoginVerify(r, p) ==
  LET u == rq[r].user IN
  /\ pc[r] = "login_verify"
  /\ IF hash[u] = p /\ rq[r].seen = "active"
     THEN Goto(r, "issue", [rq[r] EXCEPT !.cred = p])
     ELSE Finish(r)
  /\ UNCHANGED <<accounts, table, history>>

(* register: the new row has status active by default; its pair is issued  *)
(* without another look at it.                                             *)
Register(r, u, p) ==
  /\ status[u] = "absent"
  /\ Begin(r, "issue", Local(u, NoToken, p, "active"))
  /\ status' = [status EXCEPT ![u] = "active"]
  /\ hash' = [hash EXCEPT ![u] = p]
  /\ UNCHANGED <<erased, linked, table, history>>

(* oauth, find or create: an identity found leads to the status check; no  *)
(* identity to INSERT users (unique violation: 409), then INSERT           *)
(* auth_identities.                                                        *)
OAuthFind(r, u) ==
  /\ u \in erased => u \in linked
  /\ Begin(r, IF u \in linked THEN "status" ELSE "oauth_create",
           Local(u, NoToken, NoPassword, "absent"))
  /\ UNCHANGED <<accounts, table, history>>

OAuthCreate(r) ==
  LET u == rq[r].user IN
  /\ pc[r] = "oauth_create"
  /\ IF status[u] = "absent"
     THEN /\ status' = [status EXCEPT ![u] = "active"]
          /\ Goto(r, "oauth_link", [rq[r] EXCEPT !.seen = "active"])
     ELSE /\ Finish(r)
          /\ UNCHANGED status
  /\ UNCHANGED <<hash, erased, linked, table, history>>

OAuthLink(r) ==
  /\ pc[r] = "oauth_link"
  /\ linked' = linked \cup {rq[r].user}
  /\ Goto(r, "issue", rq[r])
  /\ UNCHANGED <<status, hash, erased, table, history>>

-----------------------------------------------------------------------------
(* refresh: revoke_and_claim_refresh is one UPDATE ... WHERE revoked_at IS *)
(* NULL RETURNING.  When it matches no row, a SELECT tells a revoked token *)
(* from an unknown one; rows are never deleted and never un-revoked, so    *)
(* the two statements are one step.  An unknown token changes nothing.     *)
(* expires_at is compared with now() by this statement alone, which also   *)
(* revokes the row: whether its time had passed is an input of the step.   *)
RefreshReadsOnly(r, t, expired) ==      \* faulty: looks the token up, revokes it later
  /\ t \in Live
  /\ Begin(r, "status", Local(owner[t], family[t], cred[t], "absent"))
  /\ UNCHANGED <<accounts, table, history>>
RefreshAnyToken(r, t, expired) ==       \* faulty: without AND revoked_at IS NULL
  /\ t \in issued
  /\ revoked' = revoked \cup {t}
  /\ Begin(r, "status", Local(owner[t], family[t], cred[t], "absent"))
  /\ UNCHANGED <<accounts, issued, owner, family, cred, history>>
RefreshClaim(r, t, expired) ==
  /\ t \in Live
  /\ revoked' = revoked \cup {t}
  /\ IF expired
     THEN pc[r] = "idle" /\ UNCHANGED <<pc, rq>>
     ELSE Begin(r, "status", Local(owner[t], family[t], cred[t], "absent"))
  /\ UNCHANGED <<accounts, issued, owner, family, cred, history>>

RefreshReuse(r, t) ==
  /\ t \in revoked
  /\ Begin(r, "reuse_revoke", Local(owner[t], NoToken, NoPassword, "absent"))
  /\ UNCHANGED <<accounts, table, history>>

ReuseRevokeAll(r) ==
  /\ pc[r] = "reuse_revoke"
  /\ RevokeAll(rq[r].user)
  /\ Finish(r)
  /\ UNCHANGED accounts

(* The status query of refresh and of oauth (an existing identity).        *)
StatusUnchecked(r) ==     \* faulty: renews whatever the account's status
  /\ pc[r] = "status"
  /\ Goto(r, "issue", [rq[r] EXCEPT !.seen = status[rq[r].user]])
  /\ UNCHANGED <<accounts, table, history>>
StatusCheck(r) ==
  LET now == status[rq[r].user] IN
  /\ pc[r] = "status"
  /\ IF now = "active"
     THEN Goto(r, "issue", [rq[r] EXCEPT !.seen = now])
     ELSE Finish(r)
  /\ UNCHANGED <<accounts, table, history>>

(* issue_pair: INSERT INTO refresh_tokens a token never used before.  A    *)
(* login opens a family of its own; a rotation continues the claimed one.  *)
IssuePair(r, t) ==
  LET q == rq[r]
      opens == q.root = NoToken
  IN
  /\ pc[r] = "issue"
  /\ t \notin issued
  /\ issued' = issued \cup {t}
  /\ owner' = [owner EXCEPT ![t] = q.user]
  /\ family' = [family EXCEPT ![t] = IF opens THEN t ELSE q.root]
  /\ cred' = [cred EXCEPT ![t] = q.cred]
  /\ overtaken' = IF opens /\ q.cred \notin {NoPassword, hash[q.user]}
                        /\ q.user \notin erased
                  THEN overtaken \cup {t} ELSE overtaken
  /\ Finish(r)
  /\ UNCHANGED <<accounts, revoked, torn>>

(* logout, DELETE /me/sessions/:id (whose status check was an earlier      *)
(* statement, and may no longer hold) and admin force-logout: one UPDATE.  *)
LogoutUnchecked(t) ==     \* faulty: logs out a token the table does not hold
  /\ revoked' = revoked \cup {t}
  /\ UNCHANGED <<accounts, issued, owner, family, cred, pc, rq, history>>
Logout(t) ==
  /\ t \in issued
  /\ revoked' = revoked \cup {t}
  /\ UNCHANGED <<accounts, issued, owner, family, cred, pc, rq, history>>

ForceLogout(u) ==
  /\ RevokeAll(u)
  /\ UNCHANGED <<accounts, pc, rq>>

-----------------------------------------------------------------------------
(* reset_password: find by email, consume the code (AuthCodes says when it *)
(* is accepted), write the hash, revoke every token; four statements.      *)
ResetFind(r, u) ==
  /\ status[u] # "absent" /\ u \notin erased
  /\ Begin(r, "reset_consume", Local(u, NoToken, NoPassword, "absent"))
  /\ UNCHANGED <<accounts, table, history>>

ResetConsume(r, accepted) ==
  /\ pc[r] = "reset_consume"
  /\ IF accepted THEN Goto(r, "reset_update", rq[r]) ELSE Finish(r)
  /\ UNCHANGED <<accounts, table, history>>

ResetUpdate(r, p) ==
  /\ pc[r] = "reset_update"
  /\ hash' = [hash EXCEPT ![rq[r].user] = p]
  /\ Goto(r, "reset_revoke", rq[r])
  /\ UNCHANGED <<status, erased, linked, table, history>>

ResetKeepsTokens(r) ==    \* faulty: answers without revoke_all_refresh
  /\ pc[r] = "reset_revoke"
  /\ Finish(r)
  /\ UNCHANGED <<accounts, table, history>>
ResetRevokeAll(r) ==
  /\ pc[r] = "reset_revoke"
  /\ RevokeAll(rq[r].user)
  /\ Finish(r)
  /\ UNCHANGED accounts

(* delete_account: AuthUser admits an active account; then every token is  *)
(* revoked, the row anonymized, the identities deleted; three statements.  *)
DeleteBegin(r, u) ==
  /\ status[u] = "active"
  /\ Begin(r, "delete_revoke", Local(u, NoToken, NoPassword, "absent"))
  /\ UNCHANGED <<accounts, table, history>>

DeleteRevokeAll(r) ==
  /\ pc[r] = "delete_revoke"
  /\ RevokeAll(rq[r].user)
  /\ Goto(r, "delete_anonymize", rq[r])
  /\ UNCHANGED accounts

DeleteAnonymize(r) ==
  LET u == rq[r].user IN
  /\ pc[r] = "delete_anonymize"
  /\ status' = [status EXCEPT ![u] = "deleted"]
  /\ hash' = [hash EXCEPT ![u] = NoPassword]
  /\ erased' = erased \cup {u}
  /\ Goto(r, "delete_unlink", rq[r])
  /\ UNCHANGED <<linked, table, history>>

DeleteUnlink(r) ==
  /\ pc[r] = "delete_unlink"
  /\ linked' = linked \ {rq[r].user}
  /\ Finish(r)
  /\ UNCHANGED <<status, hash, erased, table, history>>

(* ban_user, suspend_user, activate_user, and resolve_report's ban or      *)
(* suspend: update_user_status writes whatever the row's status was.       *)
SetStatus(u, s) ==
  /\ status[u] # "absent"
  /\ status' = [status EXCEPT ![u] = s]
  /\ UNCHANGED <<hash, erased, linked, table, pc, rq, history>>

(* A handler may end between any two of its statements.                    *)
Abort(r) ==
  /\ pc[r] # "idle"
  /\ torn' = IF pc[r] = "reset_revoke" THEN torn \cup {rq[r].user} ELSE torn
  /\ Finish(r)
  /\ UNCHANGED <<accounts, table, overtaken>>

-----------------------------------------------------------------------------
SignInStep(r) ==
  \/ \E u \in Users : LoginFind(r, u) \/ OAuthFind(r, u)
  \/ \E u \in Users, p \in Passwords : Register(r, u, p)
  \/ \E p \in Passwords : LoginVerify(r, p)
  \/ OAuthCreate(r) \/ OAuthLink(r)

RotationStep(r) ==
  \/ \E t \in Tokens, expired \in BOOLEAN : RefreshClaim(r, t, expired)
  \/ \E t \in Tokens : RefreshReuse(r, t)
  \/ StatusCheck(r) \/ ReuseRevokeAll(r)
  \/ \E t \in Tokens : IssuePair(r, t)

ResetStep(r) ==
  \/ \E u \in Users : ResetFind(r, u)
  \/ \E accepted \in BOOLEAN : ResetConsume(r, accepted)
  \/ \E p \in Passwords : ResetUpdate(r, p)
  \/ ResetRevokeAll(r)

DeleteStep(r) ==
  \/ \E u \in Users : DeleteBegin(r, u)
  \/ DeleteRevokeAll(r) \/ DeleteAnonymize(r) \/ DeleteUnlink(r)

StaffStep ==
  \E u \in Users : ForceLogout(u)
                   \/ \E s \in StaffStatus : SetStatus(u, s)

Next ==
  \/ \E r \in Reqs : SignInStep(r) \/ RotationStep(r) \/ ResetStep(r)
                     \/ DeleteStep(r) \/ Abort(r)
  \/ \E t \in Tokens : Logout(t)
  \/ StaffStep

Spec == Init /\ [][Next]_vars
-----------------------------------------------------------------------------
(* A request that has claimed a token of family f and not yet answered.    *)
Rotates(r, f) == pc[r] \in {"status", "issue"} /\ rq[r].root = f

(* At most one bearer per login: of all the tokens that descend from one   *)
(* login by rotation, at most one is live, and none is while a request     *)
(* holds the family between claim and issue.  This is what the atomic      *)
(* UPDATE of revoke_and_claim_refresh is for: two requests with the same   *)
(* token never both get a pair.                                            *)
OneBearerPerLogin ==
  /\ \A s, t \in Live : family[s] = family[t] => s = t
  /\ \A r \in Reqs, t \in Live : ~Rotates(r, family[t])
  /\ \A q, r \in Reqs, f \in Tokens : Rotates(q, f) /\ Rotates(r, f) => q = r

ResetPending(u) ==
  \/ u \in torn
  \/ \E r \in Reqs : pc[r] = "reset_revoke" /\ rq[r].user = u

(* A password reset cuts off the sessions of the old password: a live      *)
(* session that a password opened was opened with the present one, unless  *)
(* the reset has not revoked yet (or ended between its two writes), or the *)
(* session had a request in flight that the revocation overtook.           *)
OldPasswordCutOff ==
  \A t \in Live :
    \/ cred[t] \in {NoPassword, hash[owner[t]]}
    \/ owner[t] \in erased
    \/ ResetPending(owner[t])
    \/ family[t] \in overtaken

(* A request that has read status active and not yet acted on it.          *)
PassedStatus(r, u) == rq[r].user = u /\ rq[r].seen = "active"

(* A suspended, banned or deleted account opens and renews no session: its *)
(* set of live tokens only shrinks, once the requests that read its status *)
(* while it was active have drained.                                       *)
InactiveOnlyShrinks ==
  [][\A u \in Users :
        \/ status[u] = "active"
        \/ \E r \in Reqs : PassedStatus(r, u)
        \/ Live' \cap {t \in Tokens : owner'[t] = u} \subseteq Live]_vars

(* The rotation protocol the table implements, a family at a time.         *)
Bearers == [f \in Tokens |-> {t \in Live : family[t] = f}]
Rotating == {f \in Tokens : \E r \in Reqs : Rotates(r, f)}
Rotation == INSTANCE RotatingSessions WITH
  bearers <- Bearers, rotating <- Rotating, minted <- issued
ImplementsRotation == Rotation!Spec
=============================================================================

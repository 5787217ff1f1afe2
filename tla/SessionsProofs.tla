--------------------------- MODULE SessionsProofs ---------------------------
(***************************************************************************)
(* Proofs about Sessions, for any number of users, tokens, requests and    *)
(* passwords.                                                              *)
(***************************************************************************)
EXTENDS Sessions, TLAPS

(* The part of TypeOK about requests, and the part about tables.           *)
RequestsOK ==
  /\ pc \in [Reqs -> Steps]
  /\ rq \in [Reqs -> Locals]
  /\ \A r \in Reqs : pc[r] # "idle" => rq[r].user \in Users

TablesOK ==
  /\ status \in [Users -> RowStatus \cup {"absent"}]
  /\ hash \in [Users -> Passwords \cup {NoPassword}]
  /\ erased \subseteq Users
  /\ linked \subseteq Users
  /\ issued \subseteq Tokens
  /\ owner \in [Tokens -> Users \cup {NoUser}]
  /\ \A t \in issued : owner[t] \in Users
  /\ revoked \subseteq issued
  /\ family \in [Tokens -> Tokens]
  /\ cred \in [Tokens -> Passwords \cup {NoPassword}]
  /\ overtaken \subseteq Tokens
  /\ torn \subseteq Users

LEMMA TypeParts ==
  /\ TypeOK <=> RequestsOK /\ TablesOK
  /\ TypeOK' <=> RequestsOK' /\ TablesOK'
BY DEF TypeOK, RequestsOK, TablesOK

LEMMA LocalType ==
  ASSUME NEW u \in Users, NEW f \in Tokens \cup {NoToken},
         NEW c \in Passwords \cup {NoPassword}, NEW s \in RowStatus \cup {"absent"}
  PROVE  /\ Local(u, f, c, s) \in Locals
         /\ Local(u, f, c, s).user = u
BY DEF Local, Locals

LEMMA LocalsAtStart ==
  ASSUME NEW u \in Users, NEW p \in Passwords \cup {NoPassword}
  PROVE  /\ Local(u, NoToken, NoPassword, "absent") \in Locals
         /\ Local(u, NoToken, NoPassword, "absent").user = u
         /\ Local(u, NoToken, p, "active") \in Locals
         /\ Local(u, NoToken, p, "active").user = u
BY LocalType DEF RowStatus

LEMMA LocalWrites ==
  ASSUME NEW q \in Locals
  PROVE  /\ \A c \in Passwords \cup {NoPassword} :
              [q EXCEPT !.cred = c] \in Locals /\ [q EXCEPT !.cred = c].user = q.user
         /\ \A s \in RowStatus \cup {"absent"} :
              [q EXCEPT !.seen = s] \in Locals /\ [q EXCEPT !.seen = s].user = q.user
BY DEF Locals

LEMMA RequestsMove ==
  ASSUME RequestsOK, NEW r \in Reqs, NEW s \in Steps, NEW q \in Locals,
         q.user \in Users, Begin(r, s, q) \/ Goto(r, s, q)
  PROVE  RequestsOK'
BY DEF RequestsOK, Begin, Goto

LEMMA RequestEnds ==
  ASSUME RequestsOK, NEW r \in Reqs, Finish(r)
  PROVE  RequestsOK'
<1>1. Blank \in Locals
  BY DEF Blank, Local, Locals
<1>2. "idle" \in Steps
  BY DEF Steps
<1> QED BY <1>1, <1>2 DEF RequestsOK, Finish, Goto

LEMMA RequestsStay ==
  ASSUME RequestsOK, UNCHANGED <<pc, rq>>
  PROVE  RequestsOK'
BY DEF RequestsOK

LEMMA TablesStay ==
  ASSUME TablesOK, UNCHANGED <<accounts, table, history>>
  PROVE  TablesOK'
BY DEF TablesOK, accounts, table, history

LEMMA RevokeAllTables ==
  ASSUME TablesOK, NEW u, RevokeAll(u), UNCHANGED accounts
  PROVE  TablesOK'
BY DEF TablesOK, RevokeAll, Of, accounts

LEMMA SignInTypes ==
  ASSUME TypeOK, NEW r \in Reqs, SignInStep(r)
  PROVE  TypeOK'
<1> USE TypeParts
<1> DEFINE me == rq[r]
<1>0. me \in Locals /\ (pc[r] # "idle" => me.user \in Users)
  BY DEF RequestsOK
<1>w. /\ \A c \in Passwords \cup {NoPassword} :
           [me EXCEPT !.cred = c] \in Locals /\ [me EXCEPT !.cred = c].user = me.user
      /\ \A s \in RowStatus \cup {"absent"} :
           [me EXCEPT !.seen = s] \in Locals /\ [me EXCEPT !.seen = s].user = me.user
  BY <1>0, LocalWrites
<1>1. ASSUME NEW u \in Users, LoginFind(r, u) PROVE TypeOK'
  <2>1. status[u] \in RowStatus \cup {"absent"}
    BY DEF TablesOK
  <2>2. /\ Local(u, NoToken, NoPassword, status[u]) \in Locals
        /\ Local(u, NoToken, NoPassword, status[u]).user = u
    BY <2>1, LocalType
  <2>3. RequestsOK'
    BY <1>1, <2>2, RequestsMove DEF LoginFind, Steps
  <2> QED BY <1>1, <2>3, TablesStay DEF LoginFind
<1>2. ASSUME NEW u \in Users, OAuthFind(r, u) PROVE TypeOK'
  <2>1. RequestsOK'
    BY <1>2, RequestsMove, LocalsAtStart DEF OAuthFind, Steps
  <2> QED BY <1>2, <2>1, TablesStay DEF OAuthFind
<1>3. ASSUME NEW u \in Users, NEW p \in Passwords, Register(r, u, p) PROVE TypeOK'
  <2>1. RequestsOK'
    BY <1>3, RequestsMove, LocalsAtStart DEF Register, Steps
  <2>2. TablesOK'
    BY <1>3 DEF Register, TablesOK, RowStatus, table, history
  <2> QED BY <2>1, <2>2
<1>4. ASSUME NEW p \in Passwords, LoginVerify(r, p) PROVE TypeOK'
  <2>1. RequestsOK'
    <3>1. CASE Goto(r, "issue", [me EXCEPT !.cred = p])
      BY <1>0, <1>w, <1>4, <3>1, RequestsMove DEF LoginVerify, Steps
    <3> QED BY <1>4, <3>1, RequestEnds DEF LoginVerify
  <2> QED BY <1>4, <2>1, TablesStay DEF LoginVerify
<1>5. CASE OAuthCreate(r)
  <2>1. RequestsOK'
    <3>1. "active" \in RowStatus
      BY DEF RowStatus
    <3>2. CASE Goto(r, "oauth_link", [me EXCEPT !.seen = "active"])
      BY <1>0, <1>w, <1>5, <3>1, <3>2, RequestsMove DEF OAuthCreate, Steps
    <3> QED BY <1>5, <3>2, RequestEnds DEF OAuthCreate
  <2>2. TablesOK'
    BY <1>5 DEF OAuthCreate, TablesOK, RowStatus, table, history
  <2> QED BY <2>1, <2>2
<1>6. CASE OAuthLink(r)
  <2>1. RequestsOK'
    BY <1>0, <1>6, RequestsMove DEF OAuthLink, Steps
  <2>2. TablesOK'
    BY <1>0, <1>6 DEF OAuthLink, TablesOK, table, history
  <2> QED BY <2>1, <2>2
<1> QED BY <1>1, <1>2, <1>3, <1>4, <1>5, <1>6 DEF SignInStep

LEMMA RotationTypes ==
  ASSUME TypeOK, NEW r \in Reqs, RotationStep(r)
  PROVE  TypeOK'
<1> USE TypeParts
<1> DEFINE me == rq[r]
<1>0. me \in Locals /\ (pc[r] # "idle" => me.user \in Users)
  BY DEF RequestsOK
<1>w. /\ \A c \in Passwords \cup {NoPassword} :
           [me EXCEPT !.cred = c] \in Locals /\ [me EXCEPT !.cred = c].user = me.user
      /\ \A s \in RowStatus \cup {"absent"} :
           [me EXCEPT !.seen = s] \in Locals /\ [me EXCEPT !.seen = s].user = me.user
  BY <1>0, LocalWrites
<1>1. ASSUME NEW t \in Tokens, NEW expired \in BOOLEAN, RefreshClaim(r, t, expired)
      PROVE  TypeOK'
  <2>1. t \in issued /\ owner[t] \in Users /\ family[t] \in Tokens
        /\ cred[t] \in Passwords \cup {NoPassword}
    BY <1>1 DEF RefreshClaim, Live, TablesOK
  <2>2. RequestsOK'
    <3>1. CASE expired
      BY <1>1, <3>1, RequestsStay DEF RefreshClaim
    <3>2. CASE ~expired
      <4>1. /\ Local(owner[t], family[t], cred[t], "absent") \in Locals
            /\ Local(owner[t], family[t], cred[t], "absent").user = owner[t]
        BY <2>1, LocalType
      <4> QED BY <1>1, <2>1, <3>2, <4>1, RequestsMove DEF RefreshClaim, Steps
    <3> QED BY <3>1, <3>2
  <2>3. TablesOK'
    BY <1>1, <2>1 DEF RefreshClaim, TablesOK, accounts, history
  <2> QED BY <2>2, <2>3
<1>2. ASSUME NEW t \in Tokens, RefreshReuse(r, t) PROVE TypeOK'
  <2>1. owner[t] \in Users
    BY <1>2 DEF RefreshReuse, TablesOK
  <2>2. RequestsOK'
    BY <1>2, <2>1, RequestsMove, LocalsAtStart DEF RefreshReuse, Steps
  <2> QED BY <1>2, <2>2, TablesStay DEF RefreshReuse
<1>3. CASE StatusCheck(r)
  <2>1. status[me.user] \in RowStatus \cup {"absent"}
    BY <1>0, <1>3 DEF StatusCheck, TablesOK
  <2>2. RequestsOK'
    <3>1. CASE Goto(r, "issue", [me EXCEPT !.seen = status[me.user]])
      BY <1>0, <1>w, <1>3, <2>1, <3>1, RequestsMove DEF StatusCheck, Steps
    <3> QED BY <1>3, <3>1, RequestEnds DEF StatusCheck
  <2> QED BY <1>3, <2>2, TablesStay DEF StatusCheck
<1>4. CASE ReuseRevokeAll(r)
  BY <1>4, RequestEnds, RevokeAllTables DEF ReuseRevokeAll
<1>5. ASSUME NEW t \in Tokens, IssuePair(r, t) PROVE TypeOK'
  <2>1. RequestsOK'
    BY <1>5, RequestEnds DEF IssuePair
  <2>2. me.user \in Users /\ me.root \in Tokens \cup {NoToken}
        /\ me.cred \in Passwords \cup {NoPassword}
    BY <1>0, <1>5 DEF IssuePair, Locals
  <2>3. TablesOK'
    BY <1>5, <2>2 DEF IssuePair, TablesOK, accounts
  <2> QED BY <2>1, <2>3
<1> QED BY <1>1, <1>2, <1>3, <1>4, <1>5 DEF RotationStep

LEMMA EndingTypes ==
  ASSUME TypeOK, NEW r \in Reqs, ResetStep(r) \/ DeleteStep(r) \/ Abort(r)
  PROVE  TypeOK'
<1> USE TypeParts
<1> DEFINE me == rq[r]
<1>0. me \in Locals /\ (pc[r] # "idle" => me.user \in Users)
  BY DEF RequestsOK
<1>w. /\ \A c \in Passwords \cup {NoPassword} :
           [me EXCEPT !.cred = c] \in Locals /\ [me EXCEPT !.cred = c].user = me.user
      /\ \A s \in RowStatus \cup {"absent"} :
           [me EXCEPT !.seen = s] \in Locals /\ [me EXCEPT !.seen = s].user = me.user
  BY <1>0, LocalWrites
<1>1. ASSUME NEW u \in Users, ResetFind(r, u) PROVE TypeOK'
  <2>1. RequestsOK'
    BY <1>1, RequestsMove, LocalsAtStart DEF ResetFind, Steps
  <2> QED BY <1>1, <2>1, TablesStay DEF ResetFind
<1>2. ASSUME NEW accepted \in BOOLEAN, ResetConsume(r, accepted) PROVE TypeOK'
  <2>1. RequestsOK'
    BY <1>0, <1>2, RequestsMove, RequestEnds DEF ResetConsume, Steps
  <2> QED BY <1>2, <2>1, TablesStay DEF ResetConsume
<1>3. ASSUME NEW p \in Passwords, ResetUpdate(r, p) PROVE TypeOK'
  <2>1. RequestsOK'
    BY <1>0, <1>3, RequestsMove DEF ResetUpdate, Steps
  <2>2. TablesOK'
    BY <1>3 DEF ResetUpdate, TablesOK, table, history
  <2> QED BY <2>1, <2>2
<1>4. CASE ResetRevokeAll(r)
  BY <1>4, RequestEnds, RevokeAllTables DEF ResetRevokeAll
<1>5. ASSUME NEW u \in Users, DeleteBegin(r, u) PROVE TypeOK'
  <2>1. RequestsOK'
    BY <1>5, RequestsMove, LocalsAtStart DEF DeleteBegin, Steps
  <2> QED BY <1>5, <2>1, TablesStay DEF DeleteBegin
<1>6. CASE DeleteRevokeAll(r)
  <2>1. RequestsOK'
    BY <1>0, <1>6, RequestsMove DEF DeleteRevokeAll, Steps
  <2> QED BY <1>6, <2>1, RevokeAllTables DEF DeleteRevokeAll
<1>7. CASE DeleteAnonymize(r)
  <2>1. RequestsOK'
    BY <1>0, <1>7, RequestsMove DEF DeleteAnonymize, Steps
  <2>2. TablesOK'
    BY <1>0, <1>7 DEF DeleteAnonymize, TablesOK, table, history, RowStatus
  <2> QED BY <2>1, <2>2
<1>8. CASE DeleteUnlink(r)
  <2>1. TablesOK'
    BY <1>8 DEF DeleteUnlink, TablesOK, table, history
  <2> QED BY <1>8, <2>1, RequestEnds DEF DeleteUnlink
<1>9. CASE Abort(r)
  <2>1. TablesOK'
    BY <1>0, <1>9 DEF Abort, TablesOK, accounts, table
  <2> QED BY <1>9, <2>1, RequestEnds DEF Abort
<1> QED BY <1>1, <1>2, <1>3, <1>4, <1>5, <1>6, <1>7, <1>8, <1>9 DEF ResetStep, DeleteStep

(* Type correctness: in every reachable state the tables and the requests  *)
(* have their types, revoked rows exist, and a request being served and a  *)
(* stored token belong to a user.                                          *)
THEOREM TypeCorrect == Spec => []TypeOK
<1>1. Init => TypeOK
  BY DEF Init, TypeOK, Steps, RowStatus, Locals, Blank, Local
<1>2. TypeOK /\ [Next]_vars => TypeOK'
  <2> SUFFICES ASSUME TypeOK, [Next]_vars PROVE TypeOK'
    OBVIOUS
  <2>1. ASSUME NEW t \in Tokens, Logout(t) PROVE TypeOK'
    BY <2>1 DEF Logout, TypeOK, accounts, history
  <2>2. ASSUME NEW u \in Users, ForceLogout(u) PROVE TypeOK'
    BY <2>2, TypeParts, RequestsStay, RevokeAllTables DEF ForceLogout
  <2>3. ASSUME NEW u \in Users, NEW s \in StaffStatus, SetStatus(u, s) PROVE TypeOK'
    <3>1. TablesOK'
      BY <2>3, TypeParts, StaffWriteRowStatus
         DEF SetStatus, TablesOK, table, history, RowStatus
    <3> QED BY <2>3, <3>1, TypeParts, RequestsStay DEF SetStatus
  <2>4. CASE UNCHANGED vars
    BY <2>4 DEF vars, TypeOK
  <2> QED BY <2>1, <2>2, <2>3, <2>4, SignInTypes, RotationTypes, EndingTypes
          DEF Next, StaffStep
<1> QED BY <1>1, <1>2, PTL DEF Spec

-----------------------------------------------------------------------------
(* The inductive invariant behind OneBearerPerLogin.  A stored token names *)
(* a stored family of the same user, so that a new token starts one; a     *)
(* request holds a family only from its claim to its answer, and the       *)
(* family it holds is stored.                                              *)
RootsOK ==
  \A r \in Reqs : pc[r] \notin {"status", "issue"} => rq[r].root = NoToken

FamiliesOK ==
  /\ \A t \in issued : /\ family[t] \in issued
                       /\ owner[family[t]] = owner[t]
                       /\ family[family[t]] = family[t]
  /\ \A r \in Reqs, f \in Tokens :
       Rotates(r, f) => f \in issued /\ owner[f] = rq[r].user /\ family[f] = f

FamilyInv == RootsOK /\ FamiliesOK /\ OneBearerPerLogin

(* Requests that rotate after a step already did before it, for the same   *)
(* user on the same credentials.                                           *)
NoNewRotation ==
  \A q \in Reqs, f \in Tokens :
    Rotates(q, f)' => Rotates(q, f) /\ rq'[q].user = rq[q].user
                                    /\ rq'[q].cred = rq[q].cred

(* Every step keeps a family except a claim, which moves its bearer into   *)
(* the request, and an issue, which moves it back.                         *)
KeepsFamilies ==
  /\ RootsOK'
  /\ NoNewRotation
  /\ issued' = issued /\ owner' = owner /\ family' = family /\ cred' = cred
  /\ revoked \subseteq revoked'

LEMMA FamiliesKept ==
  ASSUME TypeOK, FamilyInv, KeepsFamilies
  PROVE  FamilyInv'
<1>1. FamiliesOK'
  BY DEF FamilyInv, FamiliesOK, KeepsFamilies, NoNewRotation
<1>2. OneBearerPerLogin'
  <2>1. Live' \subseteq Live
    BY DEF KeepsFamilies, Live
  <2> QED BY <2>1, TypeParts DEF FamilyInv, OneBearerPerLogin, KeepsFamilies, NoNewRotation,
             TablesOK, Live
<1> QED BY <1>1, <1>2 DEF FamilyInv, KeepsFamilies

(* A request moves without taking a family: it has none, or it goes from   *)
(* the status check to the issue of the one it has.                        *)
LEMMA MovesKeepRotations ==
  ASSUME RequestsOK, RootsOK, NEW r \in Reqs, NEW s \in Steps, NEW q \in Locals,
         Begin(r, s, q) \/ Goto(r, s, q),
         \/ q.root = NoToken
         \/ /\ pc[r] = "status" /\ s = "issue"
            /\ q.root = rq[r].root /\ q.user = rq[r].user /\ q.cred = rq[r].cred
  PROVE  RootsOK' /\ NoNewRotation
<1>1. \A p \in Reqs : p # r => pc'[p] = pc[p] /\ rq'[p] = rq[p]
  BY DEF RequestsOK, Begin, Goto
<1>2. pc'[r] = s /\ rq'[r] = q
  BY DEF RequestsOK, Begin, Goto
<1>3. RootsOK'
  BY <1>1, <1>2 DEF RootsOK
<1>4. NoNewRotation
  BY <1>1, <1>2, NullsAreNew DEF NoNewRotation, Rotates
<1> QED BY <1>3, <1>4

LEMMA EndsKeepRotations ==
  ASSUME RequestsOK, RootsOK, NEW r \in Reqs, Finish(r)
  PROVE  RootsOK' /\ NoNewRotation
<1>1. Blank \in Locals /\ Blank.root = NoToken /\ "idle" \in Steps
  BY DEF Blank, Local, Locals, Steps
<1> QED BY <1>1, MovesKeepRotations DEF Finish

LEMMA StartsKeepRotations ==
  ASSUME RequestsOK, RootsOK, NEW r \in Reqs, NEW s \in Steps, NEW u \in Users,
         NEW c \in Passwords \cup {NoPassword}, NEW x \in RowStatus \cup {"absent"},
         Begin(r, s, Local(u, NoToken, c, x))
  PROVE  RootsOK' /\ NoNewRotation
<1>1. Local(u, NoToken, c, x) \in Locals
  BY LocalType
<1>2. Local(u, NoToken, c, x).root = NoToken
  BY DEF Local
<1> QED BY <1>1, <1>2, MovesKeepRotations

LEMMA WaitsKeepRotations ==
  ASSUME RootsOK, UNCHANGED <<pc, rq>>
  PROVE  RootsOK' /\ NoNewRotation
BY DEF RootsOK, NoNewRotation, Rotates

LEMMA SignInKeepsFamilies ==
  ASSUME TypeOK, FamilyInv, NEW r \in Reqs, SignInStep(r)
  PROVE  KeepsFamilies
<1> USE TypeParts DEF FamilyInv
<1> DEFINE me == rq[r]
<1>0. me \in Locals /\ (pc[r] \notin {"status", "issue"} => me.root = NoToken)
  BY DEF RequestsOK, RootsOK
<1>a. {"active", "absent"} \subseteq RowStatus \cup {"absent"}
  BY DEF RowStatus
<1>t. UNCHANGED table => /\ issued' = issued /\ owner' = owner /\ family' = family
                         /\ cred' = cred /\ revoked \subseteq revoked'
  BY DEF table
<1>1. ASSUME NEW u \in Users, LoginFind(r, u) PROVE KeepsFamilies
  <2>1. status[u] \in RowStatus \cup {"absent"}
    BY DEF TablesOK
  <2> QED BY <1>1, <1>t, <2>1, StartsKeepRotations DEF LoginFind, KeepsFamilies, Steps
<1>2. ASSUME NEW u \in Users, OAuthFind(r, u) PROVE KeepsFamilies
  BY <1>2, <1>a, <1>t, StartsKeepRotations DEF OAuthFind, KeepsFamilies, Steps
<1>3. ASSUME NEW u \in Users, NEW p \in Passwords, Register(r, u, p) PROVE KeepsFamilies
  BY <1>3, <1>a, <1>t, StartsKeepRotations DEF Register, KeepsFamilies, Steps
<1>4. ASSUME NEW p \in Passwords, LoginVerify(r, p) PROVE KeepsFamilies
  <2>1. CASE Goto(r, "issue", [me EXCEPT !.cred = p])
    <3>1. [me EXCEPT !.cred = p] \in Locals
      BY <1>0, LocalWrites
    <3>2. [me EXCEPT !.cred = p].root = NoToken
      BY <1>0, <1>4 DEF LoginVerify, Locals
    <3> QED BY <1>4, <1>t, <2>1, <3>1, <3>2, MovesKeepRotations
            DEF LoginVerify, KeepsFamilies, Steps
  <2> QED BY <1>4, <1>t, <2>1, EndsKeepRotations DEF LoginVerify, KeepsFamilies
<1>5. CASE OAuthCreate(r)
  <2>1. CASE Goto(r, "oauth_link", [me EXCEPT !.seen = "active"])
    <3>1. [me EXCEPT !.seen = "active"] \in Locals
      BY <1>0, <1>a, LocalWrites
    <3>2. [me EXCEPT !.seen = "active"].root = NoToken
      BY <1>0, <1>5 DEF OAuthCreate, Locals
    <3> QED BY <1>5, <1>t, <2>1, <3>1, <3>2, MovesKeepRotations
            DEF OAuthCreate, KeepsFamilies, Steps
  <2> QED BY <1>5, <1>t, <2>1, EndsKeepRotations DEF OAuthCreate, KeepsFamilies
<1>6. CASE OAuthLink(r)
  BY <1>0, <1>6, <1>t, MovesKeepRotations DEF OAuthLink, KeepsFamilies, Steps
<1> QED BY <1>1, <1>2, <1>3, <1>4, <1>5, <1>6 DEF SignInStep

LEMMA ClaimKeepsInvariant ==
  ASSUME TypeOK, FamilyInv, NEW r \in Reqs, NEW t \in Tokens,
         RefreshClaim(r, t, FALSE)
  PROVE  FamilyInv'
<1> USE TypeParts DEF FamilyInv
<1>1. /\ t \in Live /\ t \in issued /\ family[t] \in Tokens
      /\ pc[r] = "idle"
      /\ Live' = Live \ {t}
      /\ issued' = issued /\ owner' = owner /\ family' = family
  BY DEF RefreshClaim, Live, Begin, TablesOK
<1>2. \A q \in Reqs : q # r => pc'[q] = pc[q] /\ rq'[q] = rq[q]
  BY DEF RefreshClaim, Begin, RequestsOK
<1>3. pc'[r] = "status" /\ rq'[r].root = family[t] /\ rq'[r].user = owner[t]
  BY DEF RefreshClaim, Begin, RequestsOK, Local
<1>4. \A f \in Tokens : Rotates(r, f)' => f = family[t]
  BY <1>3 DEF Rotates
<1>5. \A q \in Reqs, f \in Tokens : Rotates(q, f)' => q = r \/ Rotates(q, f)
  BY <1>2 DEF Rotates
<1>6. RootsOK'
  BY <1>2, <1>3 DEF RootsOK
<1>7. FamiliesOK'
  BY <1>1, <1>2, <1>3, <1>4, <1>5 DEF FamiliesOK
<1>8. OneBearerPerLogin'
  <2>1. \A s, x \in Live' : family'[s] = family'[x] => s = x
    BY <1>1 DEF OneBearerPerLogin
  <2>2. ASSUME NEW q \in Reqs, NEW x \in Live' PROVE ~Rotates(q, family[x])'
    <3>1. x \in Live /\ x # t /\ family[x] \in Tokens /\ family'[x] = family[x]
      BY <1>1 DEF Live, TablesOK
    <3>2. family[x] # family[t]
      BY <1>1, <3>1 DEF OneBearerPerLogin
    <3>3. ~Rotates(q, family[x])
      BY <3>1 DEF OneBearerPerLogin
    <3> QED BY <1>4, <1>5, <3>1, <3>2, <3>3
  <2>3. ASSUME NEW q \in Reqs, NEW p \in Reqs, NEW f \in Tokens,
               Rotates(q, f)', Rotates(p, f)'
        PROVE  q = p
    <3>1. \A o \in Reqs : ~Rotates(o, family[t])
      BY <1>1 DEF OneBearerPerLogin
    <3> QED BY <1>4, <1>5, <2>3, <3>1 DEF OneBearerPerLogin
  <2> QED BY <1>1, <2>1, <2>2, <2>3 DEF OneBearerPerLogin
<1> QED BY <1>6, <1>7, <1>8

LEMMA IssueKeepsInvariant ==
  ASSUME TypeOK, FamilyInv, NEW r \in Reqs, NEW t \in Tokens, IssuePair(r, t)
  PROVE  FamilyInv'
<1> USE TypeParts DEF FamilyInv
<1> DEFINE me == rq[r]
           home == IF me.root = NoToken THEN t ELSE me.root
<1>1. /\ pc[r] = "issue" /\ t \notin issued /\ t \notin revoked
      /\ me.root \in Tokens \cup {NoToken}
      /\ issued' = issued \cup {t} /\ Live' = Live \cup {t}
      /\ owner'[t] = me.user /\ family'[t] = home
      /\ \A s \in issued : owner'[s] = owner[s] /\ family'[s] = family[s]
  BY DEF IssuePair, Live, TablesOK, RequestsOK, Locals
<1>2. \A q \in Reqs : q # r => pc'[q] = pc[q] /\ rq'[q] = rq[q]
  BY DEF IssuePair, Finish, Goto, RequestsOK
<1>3. pc'[r] = "idle" /\ rq'[r].root = NoToken
  BY DEF IssuePair, Finish, Goto, RequestsOK, Blank, Local
<1>4. \A q \in Reqs, f \in Tokens :
        Rotates(q, f)' => /\ q # r /\ Rotates(q, f) /\ f # t
                          /\ f \in issued /\ owner[f] = rq[q].user /\ family[f] = f
  BY <1>1, <1>2, <1>3 DEF Rotates, FamiliesOK
<1>5. \/ me.root = NoToken /\ home = t
      \/ /\ me.root # NoToken /\ home = me.root /\ home \in Tokens /\ Rotates(r, home)
         /\ home \in issued /\ owner[home] = me.user /\ family[home] = home
  BY <1>1 DEF Rotates, FamiliesOK
<1>6. RootsOK'
  BY <1>2, <1>3 DEF RootsOK
<1>7. FamiliesOK'
  <2>1. ASSUME NEW s \in issued'
        PROVE  /\ family'[s] \in issued'
               /\ owner'[family'[s]] = owner'[s]
               /\ family'[family'[s]] = family'[s]
    <3>1. CASE s \in issued
      BY <1>1, <3>1 DEF FamiliesOK
    <3>2. CASE s = t
      BY <1>1, <1>5, <3>2
    <3> QED BY <1>1, <3>1, <3>2
  <2>2. ASSUME NEW q \in Reqs, NEW f \in Tokens, Rotates(q, f)'
        PROVE  f \in issued' /\ owner'[f] = rq'[q].user /\ family'[f] = f
    BY <1>1, <1>2, <1>4, <2>2
  <2> QED BY <2>1, <2>2 DEF FamiliesOK
<1>8. OneBearerPerLogin'
  <2>1. \A s \in Live : /\ s \in issued /\ family[s] \in issued /\ s # t
                         /\ family'[s] = family[s] /\ family[s] # home
    BY <1>1, <1>5 DEF Live, FamiliesOK, OneBearerPerLogin
  <2>2. \A s, x \in Live' : family'[s] = family'[x] => s = x
    BY <1>1, <2>1 DEF OneBearerPerLogin
  <2>3. ASSUME NEW q \in Reqs, NEW x \in Live' PROVE ~Rotates(q, family[x])'
    <3>1. family'[x] \in Tokens
      BY <1>1, <1>5, <2>1 DEF TablesOK
    <3>2. SUFFICES ASSUME Rotates(q, family[x])' PROVE FALSE
      OBVIOUS
    <3>3. q # r /\ Rotates(q, family'[x]) /\ family'[x] # t
      BY <1>4, <3>1, <3>2 DEF Rotates
    <3>4. CASE x \in Live
      BY <2>1, <3>3, <3>4 DEF OneBearerPerLogin
    <3>5. CASE x = t
      BY <1>1, <1>5, <3>3, <3>5 DEF OneBearerPerLogin
    <3> QED BY <1>1, <3>4, <3>5
  <2>4. \A q, p \in Reqs, f \in Tokens : Rotates(q, f)' /\ Rotates(p, f)' => q = p
    BY <1>4 DEF OneBearerPerLogin
  <2> QED BY <2>2, <2>3, <2>4 DEF OneBearerPerLogin
<1> QED BY <1>6, <1>7, <1>8

LEMMA RotationKeepsInvariant ==
  ASSUME TypeOK, FamilyInv, NEW r \in Reqs, RotationStep(r)
  PROVE  FamilyInv'
<1> USE TypeParts
<1> DEFINE me == rq[r]
<1>0. RequestsOK /\ RootsOK /\ TablesOK /\ me \in Locals
      /\ (pc[r] # "idle" => me.user \in Users)
  BY DEF RequestsOK, FamilyInv
<1>t. UNCHANGED table => /\ issued' = issued /\ owner' = owner /\ family' = family
                         /\ cred' = cred /\ revoked \subseteq revoked'
  BY DEF table
<1>1. ASSUME NEW t \in Tokens, NEW expired \in BOOLEAN, RefreshClaim(r, t, expired)
      PROVE  FamilyInv'
  <2>1. CASE expired
    <3>1. KeepsFamilies
      BY <1>0, <1>1, <2>1, WaitsKeepRotations DEF RefreshClaim, KeepsFamilies
    <3> QED BY <3>1, FamiliesKept
  <2>2. CASE ~expired
    <3>1. RefreshClaim(r, t, FALSE)
      BY <1>1, <2>2 DEF RefreshClaim
    <3> QED BY <3>1, ClaimKeepsInvariant
  <2> QED BY <2>1, <2>2
<1>2. ASSUME NEW t \in Tokens, RefreshReuse(r, t) PROVE FamilyInv'
  <2>1. owner[t] \in Users /\ "absent" \in RowStatus \cup {"absent"}
        /\ "reuse_revoke" \in Steps
    BY <1>0, <1>2 DEF RefreshReuse, TablesOK, Steps
  <2>2. Begin(r, "reuse_revoke", Local(owner[t], NoToken, NoPassword, "absent"))
    BY <1>2 DEF RefreshReuse
  <2>3. RootsOK' /\ NoNewRotation
    BY <1>0, <2>1, <2>2, StartsKeepRotations
  <2>4. KeepsFamilies
    BY <1>2, <1>t, <2>3 DEF RefreshReuse, KeepsFamilies
  <2> QED BY <2>4, FamiliesKept
<1>3. CASE StatusCheck(r)
  <2> DEFINE next == [me EXCEPT !.seen = status[me.user]]
  <2>1. CASE Goto(r, "issue", next)
    <3>1. status[me.user] \in RowStatus \cup {"absent"}
      BY <1>0, <1>3 DEF StatusCheck, TablesOK
    <3>2. next \in Locals
      BY <1>0, <3>1, LocalWrites
    <3>3. next.root = me.root /\ next.user = me.user /\ next.cred = me.cred
      BY <1>0 DEF Locals
    <3>4. pc[r] = "status" /\ "issue" \in Steps
      BY <1>3 DEF StatusCheck, Steps
    <3>5. RootsOK' /\ NoNewRotation
      BY <1>0, <2>1, <3>2, <3>3, <3>4, MovesKeepRotations
    <3>6. KeepsFamilies
      BY <1>3, <1>t, <3>5 DEF StatusCheck, KeepsFamilies
    <3> QED BY <3>6, FamiliesKept
  <2>2. CASE Finish(r)
    <3>1. KeepsFamilies
      BY <1>0, <1>3, <1>t, <2>2, EndsKeepRotations DEF StatusCheck, KeepsFamilies
    <3> QED BY <3>1, FamiliesKept
  <2> QED BY <1>3, <2>1, <2>2 DEF StatusCheck
<1>4. CASE ReuseRevokeAll(r)
  <2>1. KeepsFamilies
    BY <1>0, <1>4, EndsKeepRotations DEF ReuseRevokeAll, RevokeAll, KeepsFamilies
  <2> QED BY <2>1, FamiliesKept
<1>5. ASSUME NEW t \in Tokens, IssuePair(r, t) PROVE FamilyInv'
  BY <1>5, IssueKeepsInvariant
<1> QED BY <1>1, <1>2, <1>3, <1>4, <1>5 DEF RotationStep

LEMMA EndingKeepsFamilies ==
  ASSUME TypeOK, FamilyInv, NEW r \in Reqs, ResetStep(r) \/ DeleteStep(r) \/ Abort(r)
  PROVE  KeepsFamilies
<1> USE TypeParts
<1> DEFINE me == rq[r]
<1>0. /\ RequestsOK /\ RootsOK /\ TablesOK /\ me \in Locals
      /\ pc[r] \notin {"status", "issue"} => me.root = NoToken
  BY DEF RequestsOK, FamilyInv, RootsOK
<1>a. "absent" \in RowStatus \cup {"absent"}
  OBVIOUS
<1>t. UNCHANGED table => /\ issued' = issued /\ owner' = owner /\ family' = family
                         /\ cred' = cred /\ revoked \subseteq revoked'
  BY DEF table
<1>1. ASSUME NEW u \in Users, ResetFind(r, u) PROVE KeepsFamilies
  BY <1>0, <1>1, <1>a, <1>t, StartsKeepRotations DEF ResetFind, KeepsFamilies, Steps
<1>2. ASSUME NEW accepted \in BOOLEAN, ResetConsume(r, accepted) PROVE KeepsFamilies
  BY <1>0, <1>2, <1>t, MovesKeepRotations, EndsKeepRotations
     DEF ResetConsume, KeepsFamilies, Steps
<1>3. ASSUME NEW p \in Passwords, ResetUpdate(r, p) PROVE KeepsFamilies
  BY <1>0, <1>3, <1>t, MovesKeepRotations DEF ResetUpdate, KeepsFamilies, Steps
<1>4. CASE ResetRevokeAll(r)
  BY <1>0, <1>4, EndsKeepRotations DEF ResetRevokeAll, RevokeAll, KeepsFamilies
<1>5. ASSUME NEW u \in Users, DeleteBegin(r, u) PROVE KeepsFamilies
  BY <1>0, <1>5, <1>a, <1>t, StartsKeepRotations DEF DeleteBegin, KeepsFamilies, Steps
<1>6. CASE DeleteRevokeAll(r)
  BY <1>0, <1>6, MovesKeepRotations DEF DeleteRevokeAll, RevokeAll, KeepsFamilies, Steps
<1>7. CASE DeleteAnonymize(r)
  BY <1>0, <1>7, <1>t, MovesKeepRotations DEF DeleteAnonymize, KeepsFamilies, Steps
<1>8. CASE DeleteUnlink(r)
  BY <1>0, <1>8, <1>t, EndsKeepRotations DEF DeleteUnlink, KeepsFamilies
<1>9. CASE Abort(r)
  BY <1>0, <1>9, <1>t, EndsKeepRotations DEF Abort, KeepsFamilies
<1> QED BY <1>1, <1>2, <1>3, <1>4, <1>5, <1>6, <1>7, <1>8, <1>9 DEF ResetStep, DeleteStep

(* The invariant that carries it: families are closed and held once.       *)
THEOREM FamilyInvariant == Spec => []FamilyInv
<1>1. Init => FamilyInv
  BY DEF Init, FamilyInv, RootsOK, FamiliesOK, OneBearerPerLogin, Rotates, Live, Blank, Local
<1>2. TypeOK /\ FamilyInv /\ [Next]_vars => FamilyInv'
  <2> SUFFICES ASSUME TypeOK, FamilyInv, [Next]_vars PROVE FamilyInv'
    OBVIOUS
  <2>1. ASSUME NEW r \in Reqs, SignInStep(r) PROVE FamilyInv'
    BY <2>1, SignInKeepsFamilies, FamiliesKept
  <2>2. ASSUME NEW r \in Reqs, RotationStep(r) PROVE FamilyInv'
    BY <2>2, RotationKeepsInvariant
  <2>3. ASSUME NEW r \in Reqs, ResetStep(r) \/ DeleteStep(r) \/ Abort(r) PROVE FamilyInv'
    BY <2>3, EndingKeepsFamilies, FamiliesKept
  <2>4. CASE \/ \E t \in Tokens : Logout(t)
             \/ StaffStep
             \/ UNCHANGED vars
    <3>1. UNCHANGED <<pc, rq>> /\ RootsOK
      BY <2>4 DEF Logout, StaffStep, ForceLogout, SetStatus, vars, FamilyInv
    <3>2. /\ issued' = issued /\ owner' = owner /\ family' = family /\ cred' = cred
          /\ revoked \subseteq revoked'
      BY <2>4 DEF Logout, StaffStep, ForceLogout, RevokeAll, SetStatus, vars, table
    <3>3. KeepsFamilies
      BY <3>1, <3>2, WaitsKeepRotations DEF KeepsFamilies
    <3> QED BY <3>3, FamiliesKept
  <2> QED BY <2>1, <2>2, <2>3, <2>4 DEF Next
<1> QED BY <1>1, <1>2, TypeCorrect, PTL DEF Spec

(* At most one bearer per login, for any number of concurrent requests.    *)
THEOREM OneBearer == Spec => []OneBearerPerLogin
<1>1. FamilyInv => OneBearerPerLogin
  BY DEF FamilyInv
<1> QED BY <1>1, FamilyInvariant, PTL

-----------------------------------------------------------------------------
(* The inductive invariant behind OldPasswordCutOff: neither a live token  *)
(* nor a request that will replace one carries an outdated password.       *)
Outdated(u, c, f) ==
  /\ c \notin {NoPassword, hash[u]}
  /\ u \notin erased
  /\ ~ResetPending(u)
  /\ f \notin overtaken

PasswordInv ==
  /\ \A t \in Live : ~Outdated(owner[t], cred[t], family[t])
  /\ \A r \in Reqs, f \in Tokens :
       Rotates(r, f) => ~Outdated(rq[r].user, rq[r].cred, f)

(* What is outdated after a step already was before it.                    *)
NothingOutdates(u) ==
  \A c \in Passwords \cup {NoPassword}, f \in Tokens :
    Outdated(u, c, f)' => Outdated(u, c, f)

(* An account that does not exist has no password, and nobody resets it:   *)
(* registering one never outdates anything.                                *)
AbsentOK ==
  /\ \A u \in Users : status[u] = "absent" => hash[u] = NoPassword
  /\ \A r \in Reqs : pc[r] \in {"reset_consume", "reset_update"}
                      => status[rq[r].user] # "absent"

OthersStay(r) == \A q \in Reqs \ {r} : pc'[q] = pc[q] /\ rq'[q] = rq[q]

LEMMA MovesLeaveOthers ==
  ASSUME RequestsOK, NEW r \in Reqs, NEW s, NEW q,
         Begin(r, s, q) \/ Goto(r, s, q) \/ Finish(r)
  PROVE  OthersStay(r)
BY DEF RequestsOK, Begin, Goto, Finish, OthersStay

LEMMA PendingStays ==
  ASSUME NEW r \in Reqs, OthersStay(r), pc[r] # "reset_revoke",
         torn \subseteq torn', NEW u, ResetPending(u)
  PROVE  ResetPending(u)'
BY DEF OthersStay, ResetPending

LEMMA FreshnessKept ==
  ASSUME TypeOK, FamilyInv, PasswordInv, KeepsFamilies,
         \A u \in Users : NothingOutdates(u)
  PROVE  PasswordInv'
<1> USE TypeParts
<1>1. ASSUME NEW t \in Live' PROVE ~Outdated(owner[t], cred[t], family[t])'
  <2>1. /\ t \in Live /\ owner[t] \in Users /\ family[t] \in Tokens
        /\ cred[t] \in Passwords \cup {NoPassword}
        /\ owner'[t] = owner[t] /\ cred'[t] = cred[t] /\ family'[t] = family[t]
    BY DEF Live, KeepsFamilies, TablesOK
  <2>2. ~Outdated(owner[t], cred[t], family[t])
    BY <2>1 DEF PasswordInv
  <2> QED BY <2>1, <2>2 DEF NothingOutdates, Outdated
<1>2. ASSUME NEW r \in Reqs, NEW f \in Tokens, Rotates(r, f)'
      PROVE  ~Outdated(rq[r].user, rq[r].cred, f)'
  <2>1. Rotates(r, f) /\ rq'[r].user = rq[r].user /\ rq'[r].cred = rq[r].cred
    BY <1>2 DEF KeepsFamilies, NoNewRotation
  <2>2. rq[r].user \in Users /\ rq[r].cred \in Passwords \cup {NoPassword}
    BY <2>1 DEF Rotates, RequestsOK, Locals
  <2>3. ~Outdated(rq[r].user, rq[r].cred, f)
    BY <2>1 DEF PasswordInv
  <2> QED BY <2>1, <2>2, <2>3 DEF NothingOutdates, Outdated
<1> QED BY <1>1, <1>2 DEF PasswordInv

(* revoke_all_refresh ends a reset: the tokens of its user are not live,   *)
(* and the families that its user's requests hold are overtaken.           *)
LEMMA RevokeAllKeepsFreshness ==
  ASSUME TypeOK, FamilyInv, PasswordInv, KeepsFamilies, NEW v \in Users,
         RevokeAll(v), UNCHANGED accounts,
         \A u \in Users \ {v} : ResetPending(u) => ResetPending(u)'
  PROVE  PasswordInv'
<1> USE TypeParts
<1>1. \A u \in Users \ {v}, c \in Passwords \cup {NoPassword}, f \in Tokens :
        Outdated(u, c, f)' => Outdated(u, c, f)
  BY DEF Outdated, RevokeAll, accounts
<1>2. ASSUME NEW t \in Live' PROVE ~Outdated(owner[t], cred[t], family[t])'
  <2>1. /\ t \in Live /\ owner[t] \in Users /\ family[t] \in Tokens
        /\ cred[t] \in Passwords \cup {NoPassword} /\ owner[t] # v
        /\ owner'[t] = owner[t] /\ cred'[t] = cred[t] /\ family'[t] = family[t]
    BY DEF Live, KeepsFamilies, TablesOK, RevokeAll, Of
  <2>2. ~Outdated(owner[t], cred[t], family[t])
    BY <2>1 DEF PasswordInv
  <2> QED BY <1>1, <2>1, <2>2 DEF Outdated
<1>3. ASSUME NEW r \in Reqs, NEW f \in Tokens, Rotates(r, f)'
      PROVE  ~Outdated(rq[r].user, rq[r].cred, f)'
  <2>1. Rotates(r, f) /\ rq'[r].user = rq[r].user /\ rq'[r].cred = rq[r].cred
    BY <1>3 DEF KeepsFamilies, NoNewRotation
  <2>2. rq[r].user \in Users /\ rq[r].cred \in Passwords \cup {NoPassword}
    BY <2>1 DEF Rotates, RequestsOK, Locals
  <2>3. ~Outdated(rq[r].user, rq[r].cred, f)
    BY <2>1 DEF PasswordInv
  <2>4. CASE rq[r].user = v
    <3>1. f \in issued /\ owner[f] = v /\ family[f] = f
      BY <2>1, <2>4 DEF FamilyInv, FamiliesOK
    <3>2. f \in overtaken'
      BY <3>1 DEF RevokeAll, Of
    <3> QED BY <3>2 DEF Outdated
  <2>5. CASE rq[r].user # v
    BY <1>1, <2>1, <2>2, <2>3, <2>5 DEF Outdated
  <2> QED BY <2>4, <2>5
<1> QED BY <1>2, <1>3 DEF PasswordInv

LEMMA ClaimKeepsFreshness ==
  ASSUME TypeOK, FamilyInv, PasswordInv, NEW r \in Reqs, NEW t \in Tokens,
         RefreshClaim(r, t, FALSE)
  PROVE  PasswordInv'
<1> USE TypeParts
<1>1. /\ t \in Live /\ pc[r] = "idle" /\ Live' \subseteq Live
      /\ UNCHANGED <<issued, owner, family, cred, accounts, history>>
  BY DEF RefreshClaim, Live, Begin
<1>2. OthersStay(r)
  BY MovesLeaveOthers DEF RefreshClaim
<1>3. /\ pc'[r] = "status" /\ rq'[r].root = family[t]
      /\ rq'[r].user = owner[t] /\ rq'[r].cred = cred[t]
  BY DEF RefreshClaim, Begin, RequestsOK, Local
<1>4. \A u : ResetPending(u) => ResetPending(u)'
  BY <1>1, <1>2, PendingStays DEF history
<1>5. \A u \in Users, c \in Passwords \cup {NoPassword}, f \in Tokens :
        Outdated(u, c, f)' => Outdated(u, c, f)
  BY <1>1, <1>4 DEF Outdated, accounts, history
<1>6. \A x \in Live : /\ owner[x] \in Users /\ cred[x] \in Passwords \cup {NoPassword}
                       /\ family[x] \in Tokens /\ ~Outdated(owner[x], cred[x], family[x])
  BY DEF Live, TablesOK, PasswordInv
<1>7. ASSUME NEW x \in Live' PROVE ~Outdated(owner[x], cred[x], family[x])'
  <2>1. x \in Live
    BY <1>1
  <2>2. ~Outdated(owner[x], cred[x], family[x])
    BY <1>6, <2>1
  <2>3. owner'[x] = owner[x] /\ cred'[x] = cred[x] /\ family'[x] = family[x]
    BY <1>1
  <2> QED BY <1>5, <1>6, <2>1, <2>2, <2>3 DEF Outdated
<1>8. ASSUME NEW q \in Reqs, NEW f \in Tokens, Rotates(q, f)'
      PROVE  ~Outdated(rq[q].user, rq[q].cred, f)'
  <2>1. CASE q = r
    <3>1. f = family[t]
      BY <1>3, <1>8, <2>1 DEF Rotates
    <3>2. ~Outdated(owner[t], cred[t], f)
      BY <1>1, <1>6, <3>1
    <3> QED BY <1>1, <1>3, <1>5, <1>6, <2>1, <3>2 DEF Outdated
  <2>2. CASE q # r
    <3>1. Rotates(q, f) /\ rq'[q] = rq[q]
      BY <1>2, <1>8, <2>2 DEF OthersStay, Rotates
    <3>2. rq[q].user \in Users /\ rq[q].cred \in Passwords \cup {NoPassword}
      BY <3>1 DEF Rotates, RequestsOK, Locals
    <3>3. ~Outdated(rq[q].user, rq[q].cred, f)
      BY <3>1 DEF PasswordInv
    <3> QED BY <1>5, <3>1, <3>2, <3>3 DEF Outdated
  <2> QED BY <2>1, <2>2
<1> QED BY <1>1, <1>7, <1>8 DEF PasswordInv

LEMMA IssueKeepsFreshness ==
  ASSUME TypeOK, FamilyInv, PasswordInv, NEW r \in Reqs, NEW t \in Tokens, IssuePair(r, t)
  PROVE  PasswordInv'
<1> USE TypeParts
<1> DEFINE me == rq[r]
           home == IF me.root = NoToken THEN t ELSE me.root
<1>1. /\ pc[r] = "issue" /\ t \notin issued /\ Live' = Live \cup {t}
      /\ me.user \in Users /\ me.cred \in Passwords \cup {NoPassword}
      /\ me.root \in Tokens \cup {NoToken} /\ home \in Tokens
      /\ UNCHANGED accounts /\ torn' = torn /\ overtaken \subseteq overtaken'
  BY DEF IssuePair, Live, TablesOK, RequestsOK, Locals
<1>2. /\ owner'[t] = me.user /\ cred'[t] = me.cred /\ family'[t] = home
      /\ \A s \in Live : /\ owner'[s] = owner[s] /\ cred'[s] = cred[s]
                          /\ family'[s] = family[s] /\ s \in issued
  BY <1>1 DEF IssuePair, TablesOK, Live
<1>3. OthersStay(r)
  BY MovesLeaveOthers DEF IssuePair
<1>4. \A u : ResetPending(u) => ResetPending(u)'
  BY <1>1, <1>3, PendingStays
<1>5. \A u \in Users, c \in Passwords \cup {NoPassword}, f \in Tokens :
        Outdated(u, c, f)' => Outdated(u, c, f)
  BY <1>1, <1>4 DEF Outdated, accounts
<1>6. ASSUME NEW u \in Users, NEW c \in Passwords \cup {NoPassword}, NEW f \in Tokens,
             u = me.user, c = me.cred, f = home
      PROVE  ~Outdated(u, c, f)'
  <2>1. CASE me.root = NoToken
    BY <1>1, <1>6, <2>1 DEF IssuePair, Outdated, accounts
  <2>2. CASE me.root # NoToken
    <3>1. Rotates(r, home)
      BY <1>1, <2>2 DEF Rotates
    <3>2. ~Outdated(u, c, f)
      BY <1>1, <1>6, <3>1 DEF PasswordInv
    <3> QED BY <1>5, <3>2
  <2> QED BY <2>1, <2>2
<1>7. ASSUME NEW x \in Live' PROVE ~Outdated(owner[x], cred[x], family[x])'
  <2>1. CASE x = t
    BY <1>1, <1>2, <1>6, <2>1 DEF Outdated
  <2>2. CASE x \in Live
    <3>1. /\ owner[x] \in Users /\ family[x] \in Tokens
          /\ cred[x] \in Passwords \cup {NoPassword}
          /\ ~Outdated(owner[x], cred[x], family[x])
      BY <2>2 DEF Live, TablesOK, PasswordInv
    <3> QED BY <1>2, <1>5, <2>2, <3>1 DEF Outdated
  <2> QED BY <1>1, <2>1, <2>2
<1>8. ASSUME NEW q \in Reqs, NEW f \in Tokens, Rotates(q, f)'
      PROVE  ~Outdated(rq[q].user, rq[q].cred, f)'
  <2>1. q # r
    BY <1>8, NullsAreNew DEF IssuePair, Finish, Goto, Rotates, RequestsOK, Blank, Local
  <2>2. Rotates(q, f) /\ rq'[q] = rq[q]
    BY <1>3, <1>8, <2>1 DEF OthersStay, Rotates
  <2>3. rq[q].user \in Users /\ rq[q].cred \in Passwords \cup {NoPassword}
    BY <2>2 DEF Rotates, RequestsOK, Locals
  <2>4. ~Outdated(rq[q].user, rq[q].cred, f)
    BY <2>2 DEF PasswordInv
  <2> QED BY <1>5, <2>2, <2>3, <2>4 DEF Outdated
<1> QED BY <1>1, <1>7, <1>8 DEF PasswordInv

(* Steps that leave passwords and revocations alone.                       *)
LEMMA QuietKeepsFreshness ==
  ASSUME TypeOK, FamilyInv, PasswordInv, KeepsFamilies,
         UNCHANGED <<hash, erased, overtaken>>,
         \A u \in Users : ResetPending(u) => ResetPending(u)'
  PROVE  PasswordInv'
<1>1. \A u \in Users : NothingOutdates(u)
  BY DEF NothingOutdates, Outdated
<1> QED BY <1>1, FreshnessKept

LEMMA SignInKeepsFreshness ==
  ASSUME TypeOK, FamilyInv, AbsentOK, PasswordInv, NEW r \in Reqs, SignInStep(r)
  PROVE  PasswordInv'
<1> USE TypeParts
<1>1. KeepsFamilies
  BY SignInKeepsFamilies
<1>2. OthersStay(r)
  BY MovesLeaveOthers DEF SignInStep, LoginFind, OAuthFind, Register, LoginVerify,
                          OAuthCreate, OAuthLink
<1>3. pc[r] # "reset_revoke" /\ torn' = torn /\ overtaken' = overtaken /\ erased' = erased
  BY DEF SignInStep, LoginFind, OAuthFind, Register, LoginVerify,
         OAuthCreate, OAuthLink, Begin, accounts, history
<1>4. \A u : ResetPending(u) => ResetPending(u)'
  BY <1>2, <1>3, PendingStays
<1>5. ASSUME NEW u \in Users, NEW p \in Passwords, Register(r, u, p) PROVE PasswordInv'
  <2>2. hash[u] = NoPassword /\ \A v \in Users : v # u => hash'[v] = hash[v]
    BY <1>5 DEF Register, AbsentOK, TablesOK
  <2>3. \A v \in Users : NothingOutdates(v)
    <3>1. ASSUME NEW v \in Users, NEW c \in Passwords \cup {NoPassword}, NEW f \in Tokens,
                 Outdated(v, c, f)'
          PROVE  Outdated(v, c, f)
      BY <1>3, <1>4, <2>2, <3>1 DEF Outdated
    <3> QED BY <3>1 DEF NothingOutdates
  <2> QED BY <1>1, <2>3, FreshnessKept
<1>6. CASE hash' = hash
  BY <1>1, <1>3, <1>4, <1>6, QuietKeepsFreshness
<1> QED BY <1>5, <1>6 DEF SignInStep, LoginFind, OAuthFind, LoginVerify, OAuthCreate,
                          OAuthLink, accounts

LEMMA RotationKeepsFreshness ==
  ASSUME TypeOK, FamilyInv, PasswordInv, NEW r \in Reqs, RotationStep(r)
  PROVE  PasswordInv'
<1> USE TypeParts
<1>0. FamilyInv'
  BY RotationKeepsInvariant
<1>1. ASSUME NEW t \in Tokens, NEW expired \in BOOLEAN, RefreshClaim(r, t, expired)
      PROVE  PasswordInv'
  <2>1. CASE expired
    <3>1. /\ UNCHANGED <<pc, rq, status, hash, erased, issued, owner, family, cred,
                        overtaken, torn>>
          /\ Live' \subseteq Live
      BY <1>1, <2>1 DEF RefreshClaim, accounts, history, Live
    <3> QED BY <3>1 DEF PasswordInv, Outdated, ResetPending, Rotates
  <2>2. CASE ~expired
    <3>1. RefreshClaim(r, t, FALSE)
      BY <1>1, <2>2 DEF RefreshClaim
    <3> QED BY <3>1, ClaimKeepsFreshness
  <2> QED BY <2>1, <2>2
<1>2. ASSUME UNCHANGED <<accounts, table, history>>, OthersStay(r), pc[r] # "reset_revoke",
             \A f \in Tokens : Rotates(r, f)' => /\ Rotates(r, f)
                                                /\ rq'[r].user = rq[r].user
                                                /\ rq'[r].cred = rq[r].cred
      PROVE  PasswordInv'
  <2>1. /\ UNCHANGED <<status, hash, erased, issued, revoked, owner, family, cred,
                      overtaken, torn>>
        /\ Live' = Live
    BY <1>2 DEF accounts, table, history, Live
  <2>2. \A u : ResetPending(u) => ResetPending(u)'
    BY <1>2, <2>1, PendingStays
  <2>3. \A u, c, f : Outdated(u, c, f)' => Outdated(u, c, f)
    BY <2>1, <2>2 DEF Outdated
  <2>4. \A t \in Live' : ~Outdated(owner[t], cred[t], family[t])'
    BY <2>1, <2>3 DEF PasswordInv, Outdated
  <2>5. ASSUME NEW q \in Reqs, NEW f \in Tokens, Rotates(q, f)'
        PROVE  ~Outdated(rq[q].user, rq[q].cred, f)'
    <3>1. Rotates(q, f) /\ rq'[q].user = rq[q].user /\ rq'[q].cred = rq[q].cred
      BY <1>2, <2>5 DEF OthersStay, Rotates
    <3>2. ~Outdated(rq[q].user, rq[q].cred, f)
      BY <3>1 DEF PasswordInv
    <3> QED BY <2>3, <3>1, <3>2 DEF Outdated
  <2> QED BY <2>1, <2>4, <2>5 DEF PasswordInv
<1>3. ASSUME NEW t \in Tokens, RefreshReuse(r, t) PROVE PasswordInv'
  <2>1. OthersStay(r) /\ pc[r] # "reset_revoke"
    BY <1>3, MovesLeaveOthers DEF RefreshReuse, Begin
  <2>2. \A f \in Tokens : ~Rotates(r, f)'
    BY <1>3, NullsAreNew DEF RefreshReuse, Begin, Rotates, RequestsOK, Local
  <2> QED BY <1>2, <1>3, <2>1, <2>2 DEF RefreshReuse
<1>4. CASE StatusCheck(r)
  <2>1. OthersStay(r) /\ pc[r] = "status"
    BY <1>4, MovesLeaveOthers DEF StatusCheck
  <2>2. CASE Finish(r)
    <3>1. \A f \in Tokens : ~Rotates(r, f)'
      BY <2>2, NullsAreNew DEF Finish, Goto, Rotates, RequestsOK, Blank, Local
    <3> QED BY <1>2, <1>4, <2>1, <3>1 DEF StatusCheck
  <2>3. CASE Goto(r, "issue", [rq[r] EXCEPT !.seen = status[rq[r].user]])
    <3>1. rq'[r] = [rq[r] EXCEPT !.seen = status[rq[r].user]] /\ rq[r] \in Locals
      BY <2>3 DEF Goto, RequestsOK
    <3>2. rq'[r].root = rq[r].root /\ rq'[r].user = rq[r].user /\ rq'[r].cred = rq[r].cred
      BY <3>1 DEF Locals
    <3>3. \A f \in Tokens : Rotates(r, f)' => Rotates(r, f)
      BY <2>1, <3>2 DEF Rotates
    <3> QED BY <1>2, <1>4, <2>1, <3>2, <3>3 DEF StatusCheck
  <2> QED BY <1>4, <2>2, <2>3 DEF StatusCheck
<1>5. CASE ReuseRevokeAll(r)
  <2>1. OthersStay(r) /\ pc[r] = "reuse_revoke" /\ rq[r].user \in Users
    BY <1>5, MovesLeaveOthers DEF ReuseRevokeAll, RequestsOK
  <2>2. \A u \in Users \ {rq[r].user} : ResetPending(u) => ResetPending(u)'
    BY <1>5, <2>1 DEF ReuseRevokeAll, RevokeAll, ResetPending, OthersStay
  <2>3. KeepsFamilies
    BY <1>5, EndsKeepRotations DEF FamilyInv, ReuseRevokeAll, RevokeAll, KeepsFamilies
  <2> QED BY <1>5, <2>1, <2>2, <2>3, RevokeAllKeepsFreshness DEF ReuseRevokeAll
<1>6. ASSUME NEW t \in Tokens, IssuePair(r, t) PROVE PasswordInv'
  BY <1>6, IssueKeepsFreshness
<1> QED BY <1>1, <1>3, <1>4, <1>5, <1>6 DEF RotationStep

LEMMA EndingKeepsFreshness ==
  ASSUME TypeOK, FamilyInv, PasswordInv, NEW r \in Reqs,
         ResetStep(r) \/ DeleteStep(r) \/ Abort(r)
  PROVE  PasswordInv'
<1> USE TypeParts
<1> DEFINE me == rq[r]
<1>0. KeepsFamilies
  BY EndingKeepsFamilies
<1>a. OthersStay(r)
  BY MovesLeaveOthers DEF ResetStep, ResetFind, ResetConsume, ResetUpdate, ResetRevokeAll,
     DeleteStep, DeleteBegin, DeleteRevokeAll, DeleteAnonymize, DeleteUnlink, Abort
<1>b. pc[r] # "idle" => me.user \in Users
  BY DEF RequestsOK
<1>1. CASE \/ \E u \in Users : ResetFind(r, u)
           \/ \E accepted \in BOOLEAN : ResetConsume(r, accepted)
           \/ \E u \in Users : DeleteBegin(r, u)
           \/ DeleteUnlink(r)
  <2>1. /\ pc[r] # "reset_revoke" /\ torn' = torn
        /\ UNCHANGED <<hash, erased, overtaken>>
    BY <1>1 DEF ResetFind, ResetConsume, DeleteBegin, DeleteUnlink, Begin, accounts, history
  <2>2. \A u : ResetPending(u) => ResetPending(u)'
    BY <1>a, <2>1, PendingStays
  <2> QED BY <1>0, <2>1, <2>2, QuietKeepsFreshness
<1>2. ASSUME NEW p \in Passwords, ResetUpdate(r, p) PROVE PasswordInv'
  <2>1. /\ pc[r] = "reset_update" /\ pc'[r] = "reset_revoke" /\ rq'[r] = me
        /\ torn' = torn /\ UNCHANGED <<erased, overtaken>>
        /\ \A u \in Users : u # me.user => hash'[u] = hash[u]
    BY <1>2 DEF ResetUpdate, Goto, RequestsOK, TablesOK, history
  <2>2. \A u : ResetPending(u) => ResetPending(u)'
    BY <1>a, <2>1, PendingStays
  <2>3. \A u : u = me.user => ResetPending(u)'
    BY <2>1 DEF ResetPending
  <2>4. \A u \in Users : NothingOutdates(u)
    BY <2>1, <2>2, <2>3 DEF NothingOutdates, Outdated
  <2> QED BY <1>0, <2>4, FreshnessKept
<1>3. CASE ResetRevokeAll(r) \/ DeleteRevokeAll(r)
  <2>1. /\ RevokeAll(me.user) /\ UNCHANGED accounts /\ me.user \in Users
    BY <1>3, <1>b DEF ResetRevokeAll, DeleteRevokeAll
  <2>2. \A u \in Users \ {me.user} : ResetPending(u) => ResetPending(u)'
    BY <1>a, <2>1 DEF RevokeAll, ResetPending, OthersStay
  <2> QED BY <1>0, <2>1, <2>2, RevokeAllKeepsFreshness
<1>4. CASE DeleteAnonymize(r)
  <2>1. /\ pc[r] # "reset_revoke" /\ torn' = torn /\ overtaken' = overtaken
        /\ erased' = erased \cup {me.user}
        /\ \A u \in Users : u # me.user => hash'[u] = hash[u]
    BY <1>4 DEF DeleteAnonymize, TablesOK, history
  <2>2. \A u : ResetPending(u) => ResetPending(u)'
    BY <1>a, <2>1, PendingStays
  <2>3. \A u \in Users : NothingOutdates(u)
    BY <2>1, <2>2 DEF NothingOutdates, Outdated
  <2> QED BY <1>0, <2>3, FreshnessKept
<1>5. CASE Abort(r)
  <2>1. UNCHANGED <<hash, erased, overtaken>> /\ torn \subseteq torn'
    BY <1>5 DEF Abort, accounts
  <2>2. \A u \in Users : ResetPending(u) => ResetPending(u)'
    BY <1>5, <1>a, <2>1 DEF Abort, ResetPending, OthersStay
  <2> QED BY <1>0, <2>1, <2>2, QuietKeepsFreshness
<1> QED BY <1>1, <1>2, <1>3, <1>4, <1>5 DEF ResetStep, DeleteStep

LEMMA AbsentKept ==
  ASSUME TypeOK, AbsentOK, [Next]_vars
  PROVE  AbsentOK'
<1> USE TypeParts
<1> DEFINE NoneVanishes == \A u \in Users : status'[u] = "absent" => status[u] = "absent"
           NoneGetsPassword == \A u \in Users : \/ hash'[u] \in {hash[u], NoPassword}
                                               \/ status'[u] # "absent"
<1>1. NoneVanishes
  <2>1. ASSUME NEW r \in Reqs, SignInStep(r) PROVE NoneVanishes
    BY <2>1 DEF SignInStep, LoginFind, OAuthFind, Register, LoginVerify, OAuthCreate,
                OAuthLink, TablesOK, accounts
  <2>2. ASSUME NEW r \in Reqs, RotationStep(r) \/ ResetStep(r) \/ Abort(r) PROVE NoneVanishes
    BY <2>2 DEF RotationStep, RefreshClaim, RefreshReuse, StatusCheck, ReuseRevokeAll,
                IssuePair, ResetStep, ResetFind, ResetConsume, ResetUpdate, ResetRevokeAll,
                Abort, accounts
  <2>3. ASSUME NEW r \in Reqs, DeleteStep(r) PROVE NoneVanishes
    BY <2>3 DEF DeleteStep, DeleteBegin, DeleteRevokeAll, DeleteAnonymize, DeleteUnlink,
                TablesOK, accounts
  <2>4. CASE \/ \E t \in Tokens : Logout(t)
             \/ UNCHANGED vars
             \/ StaffStep
    BY <2>4, StaffWriteRowStatus DEF Logout, StaffStep, ForceLogout, SetStatus, vars,
                                     accounts, TablesOK
  <2> QED BY <2>1, <2>2, <2>3, <2>4 DEF Next
<1>2. NoneGetsPassword
  <2>1. ASSUME NEW r \in Reqs, SignInStep(r) \/ RotationStep(r) \/ Abort(r) PROVE NoneGetsPassword
    BY <2>1 DEF SignInStep, LoginFind, OAuthFind, Register, LoginVerify, OAuthCreate,
                OAuthLink, RotationStep, RefreshClaim, RefreshReuse, StatusCheck,
                ReuseRevokeAll, IssuePair, Abort, TablesOK, accounts
  <2>2. ASSUME NEW r \in Reqs, ResetStep(r) PROVE NoneGetsPassword
    BY <2>2 DEF ResetStep, ResetFind, ResetConsume, ResetUpdate, ResetRevokeAll,
                AbsentOK, TablesOK, accounts
  <2>3. ASSUME NEW r \in Reqs, DeleteStep(r) PROVE NoneGetsPassword
    BY <2>3 DEF DeleteStep, DeleteBegin, DeleteRevokeAll, DeleteAnonymize, DeleteUnlink,
                TablesOK, accounts
  <2>4. CASE \/ \E t \in Tokens : Logout(t)
             \/ UNCHANGED vars
             \/ StaffStep
    BY <2>4 DEF Logout, StaffStep, ForceLogout, SetStatus, vars, accounts
  <2> QED BY <2>1, <2>2, <2>3, <2>4 DEF Next
<1>3. ASSUME NEW q \in Reqs, pc'[q] \in {"reset_consume", "reset_update"}
      PROVE  status[rq'[q].user] # "absent" /\ rq'[q].user \in Users
  <2>1. CASE pc'[q] = pc[q] /\ rq'[q] = rq[q]
    BY <1>3, <2>1 DEF AbsentOK, RequestsOK
  <2>2. CASE ~(pc'[q] = pc[q] /\ rq'[q] = rq[q])
    <3>1. SignInStep(q) \/ RotationStep(q) \/ ResetStep(q) \/ DeleteStep(q) \/ Abort(q)
      <4>1. ASSUME NEW r \in Reqs, SignInStep(r) PROVE OthersStay(r)
        BY <4>1, MovesLeaveOthers DEF SignInStep, LoginFind, OAuthFind, Register,
                                      LoginVerify, OAuthCreate, OAuthLink
      <4>2. ASSUME NEW r \in Reqs, RotationStep(r) PROVE OthersStay(r) \/ UNCHANGED <<pc, rq>>
        BY <4>2, MovesLeaveOthers DEF RotationStep, RefreshClaim, RefreshReuse, StatusCheck,
                                      ReuseRevokeAll, IssuePair
      <4>3. ASSUME NEW r \in Reqs, ResetStep(r) \/ DeleteStep(r) \/ Abort(r)
            PROVE  OthersStay(r)
        BY <4>3, MovesLeaveOthers DEF ResetStep, ResetFind, ResetConsume, ResetUpdate,
           ResetRevokeAll, DeleteStep, DeleteBegin, DeleteRevokeAll, DeleteAnonymize,
           DeleteUnlink, Abort
      <4>4. (\E t \in Tokens : Logout(t)) \/ UNCHANGED vars \/ StaffStep => UNCHANGED <<pc, rq>>
        BY DEF Logout, StaffStep, ForceLogout, SetStatus, vars
      <4> QED BY <2>2, <4>1, <4>2, <4>3, <4>4 DEF Next, OthersStay
    <3>2. CASE SignInStep(q) \/ RotationStep(q) \/ DeleteStep(q) \/ Abort(q)
      <4>1. pc'[q] \notin {"reset_consume", "reset_update"}
        BY <2>2, <3>2 DEF SignInStep, LoginFind, OAuthFind, Register, LoginVerify,
           OAuthCreate, OAuthLink, RotationStep, RefreshClaim, RefreshReuse, StatusCheck,
           ReuseRevokeAll, IssuePair, DeleteStep, DeleteBegin, DeleteRevokeAll,
           DeleteAnonymize, DeleteUnlink, Abort, Begin, Goto, Finish, RequestsOK
      <4> QED BY <1>3, <4>1
    <3>3. ASSUME NEW u \in Users, ResetFind(q, u) PROVE status[u] # "absent" /\ rq'[q].user = u
      BY <3>3 DEF ResetFind, Begin, RequestsOK, Local
    <3>4. ASSUME NEW accepted \in BOOLEAN, ResetConsume(q, accepted)
          PROVE  status[rq'[q].user] # "absent" /\ rq'[q].user \in Users
      BY <1>3, <3>4 DEF ResetConsume, Goto, Finish, RequestsOK, AbsentOK
    <3>5. CASE (\E p \in Passwords : ResetUpdate(q, p)) \/ ResetRevokeAll(q)
      <4>1. pc'[q] \notin {"reset_consume", "reset_update"}
        BY <3>5 DEF ResetUpdate, ResetRevokeAll, Goto, Finish, RequestsOK
      <4> QED BY <1>3, <4>1
    <3> QED BY <3>1, <3>2, <3>3, <3>4, <3>5 DEF ResetStep
  <2> QED BY <2>1, <2>2
<1> QED BY <1>1, <1>2, <1>3 DEF AbsentOK

(* A password reset cuts off the sessions of the old password, for any     *)
(* interleaving of resets, logins, rotations, revocations and aborts.      *)
THEOREM PasswordCutOff == Spec => []OldPasswordCutOff
<1>1. Init => AbsentOK /\ PasswordInv
  BY DEF Init, AbsentOK, PasswordInv, Rotates, Live
<1>2. TypeOK /\ FamilyInv /\ AbsentOK /\ PasswordInv /\ [Next]_vars => PasswordInv'
  <2> SUFFICES ASSUME TypeOK, FamilyInv, AbsentOK, PasswordInv, [Next]_vars
               PROVE  PasswordInv'
    OBVIOUS
  <2>1. ASSUME NEW r \in Reqs, SignInStep(r) PROVE PasswordInv'
    BY <2>1, SignInKeepsFreshness
  <2>2. ASSUME NEW r \in Reqs, RotationStep(r) PROVE PasswordInv'
    BY <2>2, RotationKeepsFreshness
  <2>3. ASSUME NEW r \in Reqs, ResetStep(r) \/ DeleteStep(r) \/ Abort(r) PROVE PasswordInv'
    BY <2>3, EndingKeepsFreshness
  <2>4. ASSUME NEW u \in Users, ForceLogout(u) PROVE PasswordInv'
    <3>1. KeepsFamilies
      BY <2>4, TypeParts, WaitsKeepRotations DEF ForceLogout, RevokeAll, KeepsFamilies, FamilyInv
    <3>2. \A v \in Users \ {u} : ResetPending(v) => ResetPending(v)'
      BY <2>4 DEF ForceLogout, RevokeAll, ResetPending
    <3> QED BY <2>4, <3>1, <3>2, RevokeAllKeepsFreshness DEF ForceLogout
  <2>5. CASE \/ \E t \in Tokens : Logout(t)
             \/ \E u \in Users, s \in StaffStatus : SetStatus(u, s)
             \/ UNCHANGED vars
    <3>1. /\ UNCHANGED <<pc, rq, hash, erased, issued, owner, family, cred, overtaken, torn>>
          /\ Live' \subseteq Live
      BY <2>5 DEF Logout, SetStatus, vars, accounts, table, history, Live
    <3> QED BY <3>1 DEF PasswordInv, Outdated, ResetPending, Rotates
  <2> QED BY <2>1, <2>2, <2>3, <2>4, <2>5 DEF Next, StaffStep
<1>3. PasswordInv => OldPasswordCutOff
  BY DEF PasswordInv, OldPasswordCutOff, Outdated
<1>4. Spec => []FamilyInv
  BY FamilyInvariant
<1> QED BY <1>1, <1>2, <1>3, <1>4, AbsentKept, TypeCorrect, PTL DEF Spec

-----------------------------------------------------------------------------
(* The inductive invariant behind InactiveOnlyShrinks: a request about to  *)
(* store a pair has read, or has itself written, status active.            *)
Knows(step, q) == step \in {"oauth_link", "issue"} => q.seen = "active"
Knowing == \A r \in Reqs : Knows(pc[r], rq[r])

LEMMA MovesKnow ==
  ASSUME TypeOK, Knowing, NEW r \in Reqs, NEW step, NEW q, Knows(step, q),
         Begin(r, step, q) \/ Goto(r, step, q)
  PROVE  Knowing'
BY DEF TypeOK, Knowing, Begin, Goto

LEMMA SignInKnows ==
  ASSUME TypeOK, Knowing, NEW r \in Reqs, SignInStep(r)
  PROVE  Knowing'
<1>1. ASSUME NEW u \in Users, LoginFind(r, u) PROVE Knowing'
  BY <1>1, MovesKnow DEF LoginFind, Knows
<1>2. ASSUME NEW u \in Users, OAuthFind(r, u) PROVE Knowing'
  <2> DEFINE step == IF u \in linked THEN "status" ELSE "oauth_create"
  <2>1. Knows(step, Local(u, NoToken, NoPassword, "absent"))
    BY DEF Knows
  <2> QED BY <1>2, <2>1, MovesKnow DEF OAuthFind
<1>3. ASSUME NEW u \in Users, NEW p \in Passwords, Register(r, u, p) PROVE Knowing'
  <2>1. Knows("issue", Local(u, NoToken, p, "active"))
    BY DEF Knows, Local
  <2> QED BY <1>3, <2>1, MovesKnow DEF Register
<1>4. ASSUME NEW p \in Passwords, LoginVerify(r, p) PROVE Knowing'
  <2>1. CASE Goto(r, "issue", [rq[r] EXCEPT !.cred = p]) /\ rq[r].seen = "active"
    <3>1. Knows("issue", [rq[r] EXCEPT !.cred = p])
      BY <2>1 DEF Knows, TypeOK, Locals
    <3> QED BY <2>1, <3>1, MovesKnow
  <2>2. CASE Finish(r)
    BY <2>2, MovesKnow DEF Finish, Knows
  <2> QED BY <1>4, <2>1, <2>2 DEF LoginVerify
<1>5. CASE OAuthCreate(r)
  <2>1. CASE Goto(r, "oauth_link", [rq[r] EXCEPT !.seen = "active"])
    <3>1. Knows("oauth_link", [rq[r] EXCEPT !.seen = "active"])
      BY DEF Knows, TypeOK, Locals
    <3> QED BY <2>1, <3>1, MovesKnow
  <2>2. CASE Finish(r)
    BY <2>2, MovesKnow DEF Finish, Knows
  <2> QED BY <1>5, <2>1, <2>2 DEF OAuthCreate
<1>6. CASE OAuthLink(r)
  <2>1. Knows("issue", rq[r])
    BY <1>6 DEF OAuthLink, Knowing, Knows
  <2> QED BY <1>6, <2>1, MovesKnow DEF OAuthLink
<1> QED BY <1>1, <1>2, <1>3, <1>4, <1>5, <1>6 DEF SignInStep

LEMMA RotationKnows ==
  ASSUME TypeOK, Knowing, NEW r \in Reqs, RotationStep(r)
  PROVE  Knowing'
<1>1. CASE \E t \in Tokens, expired \in BOOLEAN : RefreshClaim(r, t, expired)
  BY <1>1, MovesKnow DEF RefreshClaim, Knows, Knowing
<1>2. CASE \E t \in Tokens : RefreshReuse(r, t)
  BY <1>2, MovesKnow DEF RefreshReuse, Knows
<1>3. CASE StatusCheck(r)
  <2>1. CASE Goto(r, "issue", [rq[r] EXCEPT !.seen = "active"])
    <3>1. Knows("issue", [rq[r] EXCEPT !.seen = "active"])
      BY DEF Knows, TypeOK, Locals
    <3> QED BY <2>1, <3>1, MovesKnow
  <2>2. CASE Finish(r)
    BY <2>2, MovesKnow DEF Finish, Knows
  <2> QED BY <1>3, <2>1, <2>2 DEF StatusCheck
<1>4. CASE ReuseRevokeAll(r) \/ \E t \in Tokens : IssuePair(r, t)
  BY <1>4, MovesKnow DEF ReuseRevokeAll, IssuePair, Finish, Knows
<1> QED BY <1>1, <1>2, <1>3, <1>4 DEF RotationStep

LEMMA EndingKnows ==
  ASSUME TypeOK, Knowing, NEW r \in Reqs, ResetStep(r) \/ DeleteStep(r) \/ Abort(r)
  PROVE  Knowing'
<1>1. CASE ResetStep(r)
  BY <1>1, MovesKnow
     DEF ResetStep, ResetFind, ResetConsume, ResetUpdate, ResetRevokeAll, Finish, Knows
<1>2. CASE DeleteStep(r) \/ Abort(r)
  BY <1>2, MovesKnow
     DEF DeleteStep, DeleteBegin, DeleteRevokeAll, DeleteAnonymize, DeleteUnlink,
         Abort, Finish, Knows
<1> QED BY <1>1, <1>2

(* Storing a pair is the only step that adds a live token.                 *)
LEMMA OnlyIssueAdds ==
  ASSUME [Next]_vars
  PROVE  \/ \E r \in Reqs, t \in Tokens : IssuePair(r, t)
         \/ Live' \subseteq Live
<1>1. CASE \E r \in Reqs : SignInStep(r)
  BY <1>1 DEF SignInStep, LoginFind, OAuthFind, Register, LoginVerify, OAuthCreate,
              OAuthLink, table, Live
<1>2. CASE \E r \in Reqs : RotationStep(r)
  BY <1>2 DEF RotationStep, RefreshClaim, RefreshReuse, StatusCheck, ReuseRevokeAll,
              RevokeAll, table, Live
<1>3. CASE \E r \in Reqs : ResetStep(r)
  BY <1>3 DEF ResetStep, ResetFind, ResetConsume, ResetUpdate, ResetRevokeAll,
              RevokeAll, table, Live
<1>4. CASE \E r \in Reqs : DeleteStep(r) \/ Abort(r)
  BY <1>4 DEF DeleteStep, DeleteBegin, DeleteRevokeAll, DeleteAnonymize, DeleteUnlink,
              Abort, RevokeAll, table, Live
<1>5. CASE (\E t \in Tokens : Logout(t)) \/ StaffStep \/ UNCHANGED vars
  BY <1>5 DEF Logout, StaffStep, ForceLogout, SetStatus, RevokeAll, vars, table, Live
<1> QED BY <1>1, <1>2, <1>3, <1>4, <1>5 DEF Next

(* Whoever is suspended, banned or deleted gains no session, whatever      *)
(* sign-ins, rotations and staff writes overlap: a pair is stored only by  *)
(* a request that read the account while it was active.                    *)
THEOREM InactiveShrinks == Spec => InactiveOnlyShrinks
<1>1. Init => Knowing
  BY DEF Init, Knowing, Knows
<1>2. TypeOK /\ Knowing /\ [Next]_vars => Knowing'
  <2> SUFFICES ASSUME TypeOK, Knowing, [Next]_vars PROVE Knowing'
    OBVIOUS
  <2>1. CASE (\E t \in Tokens : Logout(t)) \/ StaffStep \/ UNCHANGED vars
    <3>1. UNCHANGED <<pc, rq>>
      BY <2>1 DEF Logout, StaffStep, ForceLogout, SetStatus, vars
    <3> QED BY <3>1 DEF Knowing
  <2> QED BY <2>1, SignInKnows, RotationKnows, EndingKnows DEF Next
<1>3. TypeOK /\ Knowing /\ [Next]_vars
      => [\A u \in Users :
            \/ status[u] = "active"
            \/ \E r \in Reqs : PassedStatus(r, u)
            \/ Live' \cap {t \in Tokens : owner'[t] = u} \subseteq Live]_vars
  <2> SUFFICES ASSUME TypeOK, Knowing, [Next]_vars, NEW u \in Users,
                      ~\E r \in Reqs : PassedStatus(r, u)
               PROVE  Live' \cap {t \in Tokens : owner'[t] = u} \subseteq Live
    OBVIOUS
  <2>1. ASSUME NEW r \in Reqs, NEW t \in Tokens, IssuePair(r, t)
        PROVE  Live' \cap {x \in Tokens : owner'[x] = u} \subseteq Live
    <3>1. rq[r].seen = "active" /\ rq[r].user # u
      BY <2>1 DEF IssuePair, Knowing, Knows, PassedStatus
    <3>2. issued' = issued \cup {t} /\ revoked' = revoked /\ owner'[t] = rq[r].user
      BY <2>1 DEF IssuePair, TypeOK
    <3> QED BY <3>1, <3>2 DEF Live
  <2> QED BY <2>1, OnlyIssueAdds
<1> QED BY <1>1, <1>2, <1>3, TypeCorrect, PTL DEF Spec, InactiveOnlyShrinks

-----------------------------------------------------------------------------
(* Sessions implements RotatingSessions. *)


LEMMA RotatingKept ==
  ASSUME NEW r \in Reqs, NoNewRotation, OthersStay(r), \A f \in Tokens : ~Rotates(r, f)
  PROVE  Rotating' = Rotating
BY DEF Rotating, NoNewRotation, OthersStay, Rotates

(* A request that answers lets go of the family it held, and nobody else   *)
(* holds it.                                                               *)
LEMMA FinishDrops ==
  ASSUME TypeOK, FamilyInv, NEW r \in Reqs, Finish(r)
  PROVE  Rotating' = Rotating \ {rq[r].root}
<1> USE TypeParts
<1>1. OthersStay(r)
  BY MovesLeaveOthers
<1>2. \A f \in Tokens : ~Rotates(r, f)'
  BY NullsAreNew DEF Finish, Goto, Rotates, RequestsOK, Blank, Local
<1>3. ASSUME NEW f \in Tokens PROVE f \in Rotating' <=> f \in Rotating /\ f # rq[r].root
  <2>1. ASSUME NEW q \in Reqs, Rotates(q, f)' PROVE Rotates(q, f) /\ f # rq[r].root
    <3>1. q # r /\ Rotates(q, f)
      BY <1>1, <1>2, <2>1 DEF OthersStay, Rotates
    <3>2. f = rq[r].root => Rotates(r, f)
      BY NullsAreNew DEF Rotates, FamilyInv, RootsOK
    <3> QED BY <3>1, <3>2 DEF FamilyInv, OneBearerPerLogin
  <2>2. ASSUME NEW q \in Reqs, Rotates(q, f), f # rq[r].root PROVE Rotates(q, f)'
    BY <1>1, <2>2 DEF OthersStay, Rotates
  <2> QED BY <2>1, <2>2 DEF Rotating
<1> QED BY <1>3 DEF Rotating

(* Revoking a user's tokens ends the bearers of whole families, because a  *)
(* family has one owner.                                                   *)
LEMMA RevokeAllCloses ==
  ASSUME TypeOK, FamilyInv, NEW u \in Users, RevokeAll(u), Rotating' = Rotating
  PROVE  \E ended \in SUBSET Tokens : Rotation!Close(ended)
<1> USE TypeParts
<1> DEFINE ended == {f \in issued : owner[f] = u}
<1>1. \A t \in Live : family[t] \in issued /\ owner[family[t]] = owner[t]
  BY DEF FamilyInv, FamiliesOK, Live
<1>2. issued' = issued /\ family' = family /\ Live' = {t \in Live : owner[t] # u}
  BY DEF RevokeAll, Live, Of
<1>3. Bearers' = [f \in Tokens |-> IF f \in ended THEN {} ELSE Bearers[f]]
  BY <1>1, <1>2 DEF Bearers
<1>4. ended \in SUBSET Tokens
  BY DEF TablesOK
<1> QED BY <1>2, <1>3, <1>4 DEF Rotation!Close

LEMMA QuietStutters ==
  ASSUME UNCHANGED table, Rotating' = Rotating
  PROVE  UNCHANGED Rotation!vars
BY DEF Rotation!vars, table, Bearers, Live

LEMMA SignInStutters ==
  ASSUME TypeOK, FamilyInv, NEW r \in Reqs, SignInStep(r)
  PROVE  UNCHANGED Rotation!vars
<1>1. NoNewRotation
  BY SignInKeepsFamilies DEF KeepsFamilies
<1>2. OthersStay(r)
  BY TypeParts, MovesLeaveOthers DEF SignInStep, LoginFind, OAuthFind, Register, LoginVerify,
                                     OAuthCreate, OAuthLink
<1>3. pc[r] \notin {"status", "issue"}
  BY DEF SignInStep, LoginFind, OAuthFind, Register, LoginVerify, OAuthCreate, OAuthLink, Begin
<1>4. UNCHANGED table
  BY DEF SignInStep, LoginFind, OAuthFind, Register, LoginVerify, OAuthCreate, OAuthLink
<1> QED BY <1>1, <1>2, <1>3, <1>4, RotatingKept, QuietStutters DEF Rotates

LEMMA ClaimImplements ==
  ASSUME TypeOK, FamilyInv, NEW r \in Reqs, NEW t \in Tokens, RefreshClaim(r, t, FALSE)
  PROVE  Rotation!Claim(family[t], t)
<1> USE TypeParts
<1> DEFINE f == family[t]
<1>1. /\ t \in Live /\ f \in Tokens /\ issued' = issued /\ family' = family
      /\ Live' = Live \ {t}
  BY DEF RefreshClaim, Live, TablesOK
<1>2. /\ pc[r] = "idle" /\ pc'[r] = "status" /\ rq'[r].root = f /\ OthersStay(r)
  BY MovesLeaveOthers DEF RefreshClaim, Begin, RequestsOK, Local
<1>3. \A s \in Live : family[s] = f => s = t
  BY <1>1 DEF FamilyInv, OneBearerPerLogin
<1>4. Bearers[f] = {t} /\ Bearers' = [Bearers EXCEPT ![f] = {}]
  BY <1>1, <1>3 DEF Bearers
<1>5. f \notin Rotating
  BY <1>1 DEF Rotating, FamilyInv, OneBearerPerLogin
<1>6. Rotating' = Rotating \cup {f}
  <2>1. \A g \in Tokens : Rotates(r, g)' <=> g = f
    BY <1>2 DEF Rotates
  <2>2. \A g \in Tokens : ~Rotates(r, g)
    BY <1>2 DEF Rotates
  <2>3. \A q \in Reqs \ {r}, g \in Tokens : Rotates(q, g)' <=> Rotates(q, g)
    BY <1>2 DEF Rotates, OthersStay
  <2> QED BY <1>1, <2>1, <2>2, <2>3 DEF Rotating
<1> QED BY <1>1, <1>4, <1>5, <1>6 DEF Rotation!Claim

LEMMA IssueImplements ==
  ASSUME TypeOK, FamilyInv, NEW r \in Reqs, NEW t \in Tokens, IssuePair(r, t)
  PROVE  Rotation!Open(t) \/ Rotation!Replace(rq[r].root, t)
<1> USE TypeParts
<1> DEFINE root == rq[r].root
           home == IF root = NoToken THEN t ELSE root
<1>1. /\ pc[r] = "issue" /\ t \notin issued /\ t \notin revoked
      /\ root \in Tokens \cup {NoToken}
      /\ issued' = issued \cup {t} /\ Live' = Live \cup {t}
      /\ family'[t] = home
      /\ \A s \in issued : family'[s] = family[s]
  BY DEF IssuePair, Live, TablesOK, RequestsOK, Locals
<1>2. \A s \in Live : s \in issued /\ s # t /\ family[s] \in issued
  BY <1>1 DEF Live, FamilyInv, FamiliesOK
<1>3. Rotating' = Rotating \ {root}
  BY FinishDrops DEF IssuePair
<1>4. Rotating \subseteq issued
  BY DEF Rotating, FamilyInv, FamiliesOK
<1>5. CASE root = NoToken
  <2>1. Bearers' = [Bearers EXCEPT ![t] = {t}]
    <3>1. {s \in Live' : family'[s] = t} = {t}
      BY <1>1, <1>2, <1>5
    <3>2. \A f \in Tokens : f # t => {s \in Live' : family'[s] = f} = {s \in Live : family[s] = f}
      BY <1>1, <1>2, <1>5
    <3> QED BY <3>1, <3>2 DEF Bearers
  <2>2. Rotating' = Rotating
    BY <1>3, <1>5, NullsAreNew DEF Rotating
  <2> QED BY <1>1, <1>4, <2>1, <2>2 DEF Rotation!Open
<1>6. CASE root # NoToken
  <2>1. root \in Tokens /\ Rotates(r, root)
    BY <1>1, <1>6 DEF Rotates
  <2>2. root \in Rotating
    BY <2>1 DEF Rotating
  <2>3. \A s \in Live : family[s] # root
    BY <2>1 DEF FamilyInv, OneBearerPerLogin
  <2>4. Bearers[root] = {}
    BY <2>1, <2>3 DEF Bearers
  <2>5. Bearers' = [Bearers EXCEPT ![root] = {t}]
    BY <1>1, <1>2, <1>6, <2>1, <2>3 DEF Bearers
  <2> QED BY <1>1, <1>3, <2>2, <2>4, <2>5 DEF Rotation!Replace
<1> QED BY <1>5, <1>6

LEMMA RotationImplements ==
  ASSUME TypeOK, FamilyInv, NEW r \in Reqs, RotationStep(r)
  PROVE  [Rotation!Next]_(Rotation!vars)
<1> USE TypeParts
<1>0. RequestsOK /\ RootsOK /\ TablesOK
  BY DEF FamilyInv
<1>1. ASSUME NEW t \in Tokens, NEW expired \in BOOLEAN, RefreshClaim(r, t, expired)
      PROVE  Rotation!Next
  <2> DEFINE f == family[t]
  <2>1. f \in Tokens /\ t \in Live
    BY <1>0, <1>1 DEF RefreshClaim, Live, TablesOK
  <2>2. CASE expired
    <3>1. /\ Live' = Live \ {t} /\ issued' = issued /\ family' = family
          /\ Rotating' = Rotating
      BY <1>1, <2>2 DEF RefreshClaim, Live, Rotating, Rotates
    <3>2. \A s \in Live : family[s] = f => s = t
      BY <2>1 DEF FamilyInv, OneBearerPerLogin
    <3>3. Bearers' = [g \in Tokens |-> IF g \in {f} THEN {} ELSE Bearers[g]]
      BY <2>1, <3>1, <3>2 DEF Bearers
    <3>4. Rotation!Close({f})
      BY <3>1, <3>3 DEF Rotation!Close
    <3> QED BY <2>1, <3>4 DEF Rotation!Next
  <2>3. CASE ~expired
    <3>1. RefreshClaim(r, t, FALSE)
      BY <1>1, <2>3 DEF RefreshClaim
    <3>2. Rotation!Claim(f, t)
      BY <3>1, ClaimImplements
    <3> QED BY <2>1, <3>2 DEF Rotation!Next
  <2> QED BY <2>2, <2>3
<1>2. ASSUME NEW t \in Tokens, RefreshReuse(r, t) PROVE UNCHANGED Rotation!vars
  <2>1. OthersStay(r) /\ UNCHANGED table
    BY <1>2, MovesLeaveOthers DEF RefreshReuse
  <2>2. \A f \in Tokens : ~Rotates(r, f) /\ ~Rotates(r, f)'
    BY <1>2 DEF RefreshReuse, Begin, Rotates, RequestsOK
  <2>3. Rotating' = Rotating
    BY <2>1, <2>2 DEF Rotating, OthersStay, Rotates
  <2> QED BY <2>1, <2>3, QuietStutters
<1>3. CASE StatusCheck(r)
  <2>1. OthersStay(r) /\ UNCHANGED table /\ pc[r] = "status"
    BY <1>3, MovesLeaveOthers DEF StatusCheck
  <2>2. CASE Finish(r)
    <3>1. Rotating' = Rotating \ {rq[r].root} /\ UNCHANGED <<Bearers, issued>>
      BY <2>1, <2>2, FinishDrops DEF table, Bearers, Live
    <3>2. CASE rq[r].root \in Tokens
      BY <3>1, <3>2 DEF Rotation!Next, Rotation!Drop
    <3>3. CASE rq[r].root \notin Tokens
      BY <3>1, <3>3 DEF Rotating, Rotation!vars
    <3> QED BY <3>2, <3>3
  <2>3. CASE Goto(r, "issue", [rq[r] EXCEPT !.seen = status[rq[r].user]])
    <3>1. /\ rq'[r] = [rq[r] EXCEPT !.seen = status[rq[r].user]] /\ rq[r] \in Locals
          /\ pc'[r] = "issue"
      BY <2>3 DEF Goto, RequestsOK
    <3>2. rq'[r].root = rq[r].root
      BY <3>1 DEF Locals
    <3>3. \A f \in Tokens : Rotates(r, f)' <=> Rotates(r, f)
      BY <2>1, <3>1, <3>2 DEF Rotates
    <3>4. Rotating' = Rotating
      BY <2>1, <3>3 DEF Rotating, OthersStay, Rotates
    <3> QED BY <2>1, <3>4, QuietStutters
  <2> QED BY <1>3, <2>2, <2>3 DEF StatusCheck
<1>4. CASE ReuseRevokeAll(r)
  <2>1. RevokeAll(rq[r].user) /\ rq[r].user \in Users /\ rq[r].root = NoToken
    BY <1>4 DEF ReuseRevokeAll, RequestsOK, RootsOK, FamilyInv
  <2>2. Rotating' = Rotating
    BY <1>4, <2>1, FinishDrops, NullsAreNew DEF ReuseRevokeAll, Rotating
  <2> QED BY <2>1, <2>2, RevokeAllCloses DEF Rotation!Next
<1>5. ASSUME NEW t \in Tokens, IssuePair(r, t) PROVE [Rotation!Next]_(Rotation!vars)
  <2>1. rq[r].root \in Tokens \cup {NoToken}
    BY <1>0 DEF RequestsOK, Locals
  <2>2. CASE Rotation!Open(t)
    BY <2>2 DEF Rotation!Next
  <2>3. CASE Rotation!Replace(rq[r].root, t)
    <3>1. rq[r].root \in Tokens
      BY <2>3 DEF Rotation!Replace, Rotating
    <3> QED BY <2>3, <3>1 DEF Rotation!Next
  <2> QED BY <1>5, <2>2, <2>3, IssueImplements
<1> QED BY <1>1, <1>2, <1>3, <1>4, <1>5 DEF RotationStep

LEMMA EndingImplements ==
  ASSUME TypeOK, FamilyInv, NEW r \in Reqs, ResetStep(r) \/ DeleteStep(r) \/ Abort(r)
  PROVE  [Rotation!Next]_(Rotation!vars)
<1> USE TypeParts
<1>1. NoNewRotation
  BY EndingKeepsFamilies DEF KeepsFamilies
<1>2. OthersStay(r)
  BY MovesLeaveOthers DEF ResetStep, ResetFind, ResetConsume, ResetUpdate, ResetRevokeAll,
     DeleteStep, DeleteBegin, DeleteRevokeAll, DeleteAnonymize, DeleteUnlink, Abort
<1>3. CASE Abort(r)
  <2>1. Rotating' = Rotating \ {rq[r].root} /\ UNCHANGED <<Bearers, issued>>
    BY <1>3, FinishDrops DEF Abort, table, Bearers, Live
  <2>2. CASE rq[r].root \in Tokens
    BY <2>1, <2>2 DEF Rotation!Next, Rotation!Drop
  <2>3. CASE rq[r].root \notin Tokens
    BY <2>1, <2>3 DEF Rotating, Rotation!vars
  <2> QED BY <2>2, <2>3
<1>4. CASE ResetStep(r) \/ DeleteStep(r)
  <2>1. pc[r] \notin {"status", "issue"}
    BY <1>4 DEF ResetStep, ResetFind, ResetConsume, ResetUpdate, ResetRevokeAll,
       DeleteStep, DeleteBegin, DeleteRevokeAll, DeleteAnonymize, DeleteUnlink, Begin
  <2>2. Rotating' = Rotating
    BY <1>1, <1>2, <2>1, RotatingKept DEF Rotates
  <2>3. CASE ResetRevokeAll(r) \/ DeleteRevokeAll(r)
    <3>1. RevokeAll(rq[r].user) /\ rq[r].user \in Users
      BY <2>3 DEF ResetRevokeAll, DeleteRevokeAll, RequestsOK
    <3> QED BY <2>2, <3>1, RevokeAllCloses DEF Rotation!Next
  <2>4. CASE ~(ResetRevokeAll(r) \/ DeleteRevokeAll(r))
    <3>1. UNCHANGED table
      BY <1>4, <2>4 DEF ResetStep, ResetFind, ResetConsume, ResetUpdate,
         DeleteStep, DeleteBegin, DeleteAnonymize, DeleteUnlink
    <3> QED BY <2>2, <3>1, QuietStutters
  <2> QED BY <2>3, <2>4
<1> QED BY <1>3, <1>4

(* The refresh_tokens table and its handlers implement rotating tokens:    *)
(* each step of Sessions is one of RotatingSessions or changes nothing     *)
(* that it speaks of.                                                      *)
THEOREM RotationRefinement == Spec => ImplementsRotation
<1>1. Init => Rotation!Init
  BY DEF Init, Rotation!Init, Bearers, Rotating, Rotates, Live
<1>2. TypeOK /\ FamilyInv /\ [Next]_vars => [Rotation!Next]_(Rotation!vars)
  <2> SUFFICES ASSUME TypeOK, FamilyInv, [Next]_vars
               PROVE  [Rotation!Next]_(Rotation!vars)
    OBVIOUS
  <2>1. ASSUME NEW r \in Reqs, SignInStep(r) PROVE UNCHANGED Rotation!vars
    BY <2>1, SignInStutters
  <2>2. ASSUME NEW t \in Tokens, Logout(t) PROVE Rotation!Next
    <3> DEFINE ended == IF t \in Live THEN {family[t]} ELSE {}
    <3>1. /\ Live' = Live \ {t} /\ issued' = issued /\ family' = family
          /\ Rotating' = Rotating
      BY <2>2 DEF Logout, Live, Rotating, Rotates
    <3>2. \A s \in Live : family[s] \in ended => s = t
      BY DEF FamilyInv, OneBearerPerLogin
    <3>3. \A f \in Tokens : {s \in Live' : family'[s] = f}
                            = IF f \in ended THEN {} ELSE {s \in Live : family[s] = f}
      BY <3>1, <3>2
    <3>4. Bearers' = [f \in Tokens |-> IF f \in ended THEN {} ELSE Bearers[f]]
      BY <3>3 DEF Bearers
    <3>5. ended \in SUBSET Tokens
      BY TypeParts DEF TablesOK
    <3> QED BY <3>1, <3>4, <3>5 DEF Rotation!Next, Rotation!Close
  <2>3. ASSUME NEW u \in Users, ForceLogout(u) PROVE Rotation!Next
    <3>1. RevokeAll(u) /\ Rotating' = Rotating
      BY <2>3 DEF ForceLogout, Rotating, Rotates
    <3> QED BY <3>1, RevokeAllCloses DEF Rotation!Next
  <2>4. CASE (\E u \in Users, s \in StaffStatus : SetStatus(u, s)) \/ UNCHANGED vars
    <3>1. UNCHANGED table /\ Rotating' = Rotating
      BY <2>4 DEF SetStatus, vars, table, Rotating, Rotates
    <3> QED BY <3>1, QuietStutters
  <2> QED BY <2>1, <2>2, <2>3, <2>4, RotationImplements, EndingImplements DEF Next, StaffStep
<1> QED BY <1>1, <1>2, TypeCorrect, FamilyInvariant, PTL
        DEF Spec, ImplementsRotation, Rotation!Spec
=============================================================================

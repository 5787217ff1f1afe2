---------------------------- MODULE MembersProofs ----------------------------
(***************************************************************************)
(* Proofs about what members use, for any users, requests, rows and calls: *)
(* AuthCodes, and each of the parts of MCMembers.  Every part has an       *)
(* inductive invariant of its own, shown of its first states and of each   *)
(* of its actions; PartsInv, at the end, puts them together, and the       *)
(* theorems follow from it.                                                *)
(***************************************************************************)
EXTENDS MCMembers, FiniteSetTheorems, SequenceTheorems, WellFoundedInduction, TLAPS

(* A finite set that a step changes at one place.                          *)
LEMMA OneMoves ==
  ASSUME NEW S, NEW T, NEW x, IsFiniteSet(S), S \ {x} = T \ {x}
  PROVE  /\ IsFiniteSet(T) /\ Cardinality(S) \in Nat /\ Cardinality(T) \in Nat
         /\ (x \in S <=> x \in T) => T = S
         /\ x \in S /\ x \notin T => Cardinality(T) = Cardinality(S) - 1
         /\ x \notin S /\ x \in T => Cardinality(T) = Cardinality(S) + 1
         /\ x \in S => Cardinality(S) >= 1
<1>1. CASE x \in S /\ x \in T
  <2>1. T = S
    BY <1>1
  <2>2. Cardinality(S) \in Nat /\ Cardinality(S \ {x}) = Cardinality(S) - 1 /\ Cardinality(S \ {x}) \in Nat
    BY <1>1, FS_CardinalityType, FS_RemoveElement
  <2> QED BY <1>1, <2>1, <2>2
<1>2. CASE x \in S /\ x \notin T
  <2>1. T = S \ {x}
    BY <1>2
  <2>2. IsFiniteSet(T) /\ Cardinality(T) = Cardinality(S) - 1
    BY <1>2, <2>1, FS_RemoveElement
  <2>3. Cardinality(S) \in Nat /\ Cardinality(T) \in Nat
    BY <2>2, FS_CardinalityType
  <2> QED BY <1>2, <2>2, <2>3
<1>3. CASE x \notin S /\ x \in T
  <2>1. T = S \cup {x}
    BY <1>3
  <2>2. IsFiniteSet(T) /\ Cardinality(T) = Cardinality(S) + 1
    BY <1>3, <2>1, FS_AddElement
  <2>3. Cardinality(S) \in Nat /\ Cardinality(T) \in Nat
    BY <2>2, FS_CardinalityType
  <2> QED BY <1>3, <2>2, <2>3
<1>4. CASE x \notin S /\ x \notin T
  <2>1. T = S
    BY <1>4
  <2> QED BY <1>4, <2>1, FS_CardinalityType
<1> QED BY <1>1, <1>2, <1>3, <1>4

(* Numbers have a least, and up to a bound a greatest.                     *)
LEMMA Least == ASSUME NEW S \in SUBSET Nat, S # {} PROVE \E m \in S : \A k \in S : m <= k
<1> DEFINE R == OpToRel(<, Nat)
<1>1. IsWellFoundedOn(R, Nat)
  BY NatLessThanWellFounded
<1>2. PICK m \in S : \A k \in S : ~(<<k, m>> \in R)
  <2> HIDE DEF R
  <2> QED BY <1>1, WFMin
<1>3. \A k \in S : k \in Nat /\ m \in Nat /\ ~(k < m)
  BY <1>2 DEF OpToRel
<1> QED BY <1>3

LEMMA Greatest == ASSUME NEW N \in Nat, NEW S \in SUBSET (1..N), S # {} PROVE \E m \in S : \A k \in S : k <= m
<1> DEFINE T == {N - k : k \in S}
<1>1. T \in SUBSET Nat /\ T # {}
  <2>1. \A k \in S : N - k \in Nat
    OBVIOUS
  <2>2. PICK k \in S : TRUE
    OBVIOUS
  <2> QED BY <2>1, <2>2
<1>2. PICK t \in T : \A k \in T : t <= k
  BY <1>1, Least
<1>3. PICK m \in S : t = N - m
  OBVIOUS
<1>4. \A k \in S : N - m <= N - k
  BY <1>2, <1>3
<1> QED BY <1>4

-----------------------------------------------------------------------------
(***************************************************************************)
(* Codes.  A wrong try is paid for by a request that voids, or a failure.  *)
(***************************************************************************)

CodeTags == Kinds \cup {""}
CodeSteps == {"idle", "mark", "void", "effect"}
Code == [kind : Kinds, digits : Digits, used : BOOLEAN, expired : BOOLEAN]

CodeTypes ==
  /\ TypeOK
  /\ pc \in [Reqs -> CodeSteps]
  /\ rq \in [Reqs -> [kind : CodeTags, row : Nat]]
  /\ tries \in [1..MaxCodes -> Nat] /\ faults \in Nat
  /\ Len(codes) <= MaxCodes

(* Calls that fitted nothing and have yet to void what is good.            *)
Voiding(p, q, k) == {r \in Reqs : p[r] = "void" /\ q[r].kind = k}

(* While a code is good, whoever tried it and fitted nothing is still to   *)
(* void it, or has failed; once it is not, nobody tries it.                *)
TriesInv ==
  \A n \in 1..MaxCodes :
    /\ n > Len(codes) => tries[n] = 0
    /\ n <= Len(codes) /\ ~codes[n].used /\ ~codes[n].expired
         => tries[n] <= Cardinality(Voiding(pc, rq, codes[n].kind)) + faults
    /\ tries[n] <= Cardinality(Reqs) + faults

CodeInv == CodeTypes /\ TriesInv

-----------------------------------------------------------------------------
LEMMA VoidingBounded ==
  ASSUME NEW p, NEW q, NEW k
  PROVE  /\ IsFiniteSet(Voiding(p, q, k))
         /\ Cardinality(Voiding(p, q, k)) \in Nat /\ Cardinality(Reqs) \in Nat
         /\ Cardinality(Voiding(p, q, k)) <= Cardinality(Reqs)
<1>1. Voiding(p, q, k) \subseteq Reqs
  BY DEF Voiding
<1> QED BY <1>1, FinitelyMany, FS_Subset, FS_CardinalityType

(* What a step of one request makes of them.                               *)
LEMMA VoidingMoves ==
  ASSUME CodeTypes, NEW r \in Reqs, NEW step, NEW kind, NEW n, Goto(r, step, kind, n), NEW k
  PROVE  /\ ~(step = "void" /\ kind = k) /\ ~(pc[r] = "void" /\ rq[r].kind = k)
              => Voiding(pc', rq', k) = Voiding(pc, rq, k)
         /\ step = "void" /\ kind = k /\ pc[r] # "void"
              => Cardinality(Voiding(pc', rq', k)) = Cardinality(Voiding(pc, rq, k)) + 1
         /\ Cardinality(Voiding(pc, rq, k)) <= Cardinality(Voiding(pc', rq', k)) + 1
<1> DEFINE V == Voiding(pc, rq, k)
           W == Voiding(pc', rq', k)
<1>1. V \ {r} = W \ {r}
  BY DEF Voiding, Goto, CodeTypes
<1>2. (r \in W <=> step = "void" /\ kind = k) /\ (r \in V <=> pc[r] = "void" /\ rq[r].kind = k)
  BY DEF Voiding, Goto, CodeTypes
<1>3. IsFiniteSet(V) /\ IsFiniteSet(W) /\ Cardinality(V) \in Nat /\ Cardinality(W) \in Nat
  BY VoidingBounded
<1> HIDE DEF V, W
<1>4. ASSUME r \notin V, r \in W PROVE Cardinality(W) = Cardinality(V) + 1
  <2>1. W = V \cup {r}
    BY <1>1, <1>4
  <2> QED BY <2>1, <1>3, <1>4, FS_AddElement
<1>5. ASSUME r \in V, r \notin W PROVE Cardinality(V) = Cardinality(W) + 1
  <2>1. V = W \cup {r}
    BY <1>1, <1>5
  <2> QED BY <2>1, <1>3, <1>5, FS_AddElement
<1>6. (r \in V <=> r \in W) => V = W
  BY <1>1
<1>7. V = W => Cardinality(V) = Cardinality(W)
  OBVIOUS
<1>8. r \in V /\ step = "void" /\ kind = k => r \in W
  BY <1>2
<1> QED BY <1>2, <1>3, <1>4, <1>5, <1>6, <1>7 DEF V, W

(* Who ends leaves them.                                                   *)
LEMMA VoidingLeft ==
  ASSUME CodeTypes, NEW r \in Reqs, Goto(r, "idle", "", 0), NEW k
  PROVE  /\ ~(pc[r] = "void" /\ rq[r].kind = k) => Voiding(pc', rq', k) = Voiding(pc, rq, k)
         /\ Cardinality(Voiding(pc, rq, k)) <= Cardinality(Voiding(pc', rq', k)) + 1
<1>1. "idle" # "void"
  OBVIOUS
<1> DEFINE step == "idle"
           kind == ""
<1>2. Goto(r, step, kind, 0) /\ step # "void"
  BY <1>1
<1> HIDE DEF step, kind
<1> QED BY <1>2, VoidingMoves

-----------------------------------------------------------------------------
LEMMA RequestsMove ==
  ASSUME CodeTypes, NEW r \in Reqs, NEW step \in CodeSteps, NEW kind \in CodeTags, NEW n \in Nat,
         Goto(r, step, kind, n)
  PROVE  pc' \in [Reqs -> CodeSteps] /\ rq' \in [Reqs -> [kind : CodeTags, row : Nat]]
BY DEF CodeTypes, Goto

(* A row keeps its kind, and is good only if it was.                       *)
Outlives(n) ==
  /\ codes'[n].kind = codes[n].kind
  /\ codes[n].used => codes'[n].used
  /\ codes[n].expired => codes'[n].expired

RowsKept ==
  /\ codes' \in Seq(Code) /\ Len(codes') = Len(codes)
  /\ \A n \in 1..Len(codes) : Outlives(n)

LEMMA RowsRewritten ==
  ASSUME codes \in Seq(Code), codes' \in [1..Len(codes) -> Code],
         \A n \in 1..Len(codes) : Outlives(n)
  PROVE  RowsKept
<1>1. Len(codes) \in Nat
  BY LenProperties
<1>2. codes' \in Seq(Code)
  BY <1>1, SeqDef
<1>3. DOMAIN codes' = 1..Len(codes) /\ DOMAIN codes' = 1..Len(codes') /\ Len(codes') \in Nat
  BY <1>1, <1>2, LenProperties
<1>4. Len(codes') = Len(codes)
  BY <1>1, <1>3
<1> QED BY <1>2, <1>4 DEF RowsKept

LEMMA RowsSame ==
  ASSUME codes \in Seq(Code), UNCHANGED codes
  PROVE  RowsKept
BY DEF RowsKept, Outlives

(* Of a request: it marks, and then acts on, a row of its kind.            *)
RequestOK(step, kind, n, rows) ==
  /\ step \in CodeSteps /\ kind \in CodeTags /\ n \in Nat
  /\ step \in {"mark", "effect"} => n \in 1..Len(rows) /\ rows[n].kind = kind
  /\ step = "effect" => rows[n].used

LEMMA StepTypes ==
  ASSUME CodeTypes, RowsKept, NEW r \in Reqs, NEW step, NEW kind, NEW n, Goto(r, step, kind, n),
         RequestOK(step, kind, n, codes'),
         \A k \in verified' \ verified :
           k # "password_reset" /\ \E m \in 1..Len(codes) : codes[m].kind = k /\ codes[m].used,
         tries' \in [1..MaxCodes -> Nat], faults' \in Nat
  PROVE  CodeTypes'
<1>1. pc' \in [Reqs -> CodeSteps] /\ rq' \in [Reqs -> [kind : CodeTags, row : Nat]]
  BY RequestsMove DEF RequestOK
<1>2. codes \in Seq(Code) /\ Len(codes) \in Nat /\ Rows = 1..Len(codes) /\ Rows' = 1..Len(codes)
  BY LenProperties DEF CodeTypes, TypeOK, Code, Rows, RowsKept, Outlives
<1>3. \A q \in Reqs : /\ pc'[q] \in {"mark", "effect"} =>
                           rq'[q].row \in 1..Len(codes) /\ codes'[rq'[q].row].kind = rq'[q].kind
                      /\ pc'[q] = "effect" => codes'[rq'[q].row].used
  <2> SUFFICES ASSUME NEW q \in Reqs, pc'[q] \in {"mark", "effect"}
               PROVE  /\ rq'[q].row \in 1..Len(codes) /\ codes'[rq'[q].row].kind = rq'[q].kind
                      /\ pc'[q] = "effect" => codes'[rq'[q].row].used
    OBVIOUS
  <2>1. CASE q = r
    BY <2>1 DEF RequestOK, Goto, CodeTypes, RowsKept, Outlives
  <2>2. CASE q # r
    <3>1. pc'[q] = pc[q] /\ rq'[q] = rq[q]
      BY <2>2 DEF Goto, CodeTypes
    <3>2. rq[q].row \in 1..Len(codes) /\ codes[rq[q].row].kind = rq[q].kind
      BY <1>2, <3>1 DEF CodeTypes, TypeOK
    <3>3. pc[q] = "effect" => codes[rq[q].row].used
      BY DEF CodeTypes, TypeOK
    <3> QED BY <3>1, <3>2, <3>3 DEF RowsKept, Outlives
  <2> QED BY <2>1, <2>2
<1>4. ASSUME NEW k \in verified'
      PROVE  k # "password_reset" /\ \E m \in 1..Len(codes) : codes[m].kind = k /\ codes[m].used
  <2>1. CASE k \in verified
    <3>1. verified \subseteq {"email_verify", "phone_verify"}
      BY DEF CodeTypes, TypeOK
    <3>2. \E m \in Rows : codes[m].kind = k /\ codes[m].used
      BY <2>1 DEF CodeTypes, TypeOK
    <3> QED BY <1>2, <2>1, <3>1, <3>2
  <2>2. CASE k \in verified' \ verified
    BY <2>2
  <2> QED BY <2>1, <2>2
<1>5. verified' \subseteq {"email_verify", "phone_verify"}
  <2>1. \A m \in 1..Len(codes) : codes[m] \in Code
    BY <1>2, ElementOfSeq
  <2>2. \A m \in 1..Len(codes) : codes[m].kind \in Kinds
    BY <2>1 DEF Code
  <2> QED BY <1>4, <2>2 DEF Kinds
<1>6. \A k \in verified' : \E m \in 1..Len(codes) : codes'[m].kind = k /\ codes'[m].used
  BY <1>4 DEF RowsKept, Outlives
<1>7. codes' \in Seq(Code)
  BY DEF RowsKept, Outlives
<1> QED BY <1>1, <1>2, <1>3, <1>5, <1>6, <1>7 DEF CodeTypes, TypeOK, Code, RowsKept, Outlives

-----------------------------------------------------------------------------
(* Steps that try nothing: those in Voiding stay, or leave with a failure. *)
LEMMA QuietTries ==
  ASSUME CodeInv, RowsKept, UNCHANGED tries, faults' \in Nat, faults <= faults',
         \A n \in 1..Len(codes) : ~codes'[n].used /\ ~codes'[n].expired =>
           Cardinality(Voiding(pc, rq, codes[n].kind)) + faults
             <= Cardinality(Voiding(pc', rq', codes[n].kind)) + faults'
  PROVE  TriesInv'
<1> SUFFICES ASSUME NEW n \in 1..MaxCodes
             PROVE  /\ n > Len(codes) => tries[n] = 0
                    /\ n <= Len(codes) /\ ~codes'[n].used /\ ~codes'[n].expired
                         => tries[n] <= Cardinality(Voiding(pc', rq', codes'[n].kind)) + faults'
                    /\ tries[n] <= Cardinality(Reqs) + faults'
  BY DEF TriesInv, RowsKept, Outlives
<1>1. Len(codes) \in Nat /\ MaxCodes \in Nat /\ Cardinality(Reqs) \in Nat
  BY VoidingBounded, FinitelyMany, LenProperties DEF CodeInv, CodeTypes, TypeOK
<1>2. tries[n] \in Nat /\ faults \in Nat
  BY DEF CodeInv, CodeTypes
<1>3. n > Len(codes) => tries[n] = 0
  BY DEF CodeInv, TriesInv
<1>4. tries[n] <= Cardinality(Reqs) + faults'
  BY <1>1, <1>2 DEF CodeInv, TriesInv
<1>5. ASSUME n <= Len(codes), ~codes'[n].used, ~codes'[n].expired
      PROVE  tries[n] <= Cardinality(Voiding(pc', rq', codes'[n].kind)) + faults'
  <2>1. n \in 1..Len(codes)
    BY <1>1, <1>5
  <2>2. codes'[n].kind = codes[n].kind /\ ~codes[n].used /\ ~codes[n].expired
    BY <1>5, <2>1 DEF RowsKept, Outlives
  <2>3. tries[n] <= Cardinality(Voiding(pc, rq, codes[n].kind)) + faults
    BY <1>5, <2>2 DEF CodeInv, TriesInv
  <2>4. /\ Cardinality(Voiding(pc, rq, codes[n].kind)) \in Nat
        /\ Cardinality(Voiding(pc', rq', codes[n].kind)) \in Nat
    BY VoidingBounded
  <2>5. Cardinality(Voiding(pc, rq, codes[n].kind)) + faults
          <= Cardinality(Voiding(pc', rq', codes[n].kind)) + faults'
    BY <1>5, <2>1
  <2> QED BY <1>2, <2>2, <2>3, <2>4, <2>5
<1> QED BY <1>3, <1>4, <1>5

LEMMA UndisturbedTries ==
  ASSUME CodeInv, RowsKept, UNCHANGED <<tries, faults>>,
         \A n \in 1..Len(codes) : ~codes'[n].used /\ ~codes'[n].expired =>
           Voiding(pc', rq', codes[n].kind) = Voiding(pc, rq, codes[n].kind)
  PROVE  TriesInv'
<1>1. faults \in Nat /\ faults' = faults /\ tries' = tries
  BY DEF CodeInv, CodeTypes
<1>2. ASSUME NEW n \in 1..Len(codes), ~codes'[n].used /\ ~codes'[n].expired
      PROVE  Cardinality(Voiding(pc, rq, codes[n].kind)) + faults
               <= Cardinality(Voiding(pc', rq', codes[n].kind)) + faults'
  <2>1. Voiding(pc', rq', codes[n].kind) = Voiding(pc, rq, codes[n].kind)
    BY <1>2
  <2>2. Cardinality(Voiding(pc, rq, codes[n].kind)) \in Nat
    BY VoidingBounded
  <2> QED BY <1>1, <2>1, <2>2
<1>3. faults' \in Nat /\ faults <= faults'
  BY <1>1
<1> QED BY <1>1, <1>2, <1>3, QuietTries

-----------------------------------------------------------------------------
LEMMA CodeFacts ==
  ASSUME CodeTypes
  PROVE  /\ codes \in Seq(Code) /\ Len(codes) \in Nat /\ Rows = 1..Len(codes)
         /\ codes \in [1..Len(codes) -> Code]
         /\ tries \in [1..MaxCodes -> Nat] /\ faults \in Nat /\ MaxCodes \in Nat
         /\ Kinds \subseteq CodeTags
<1>1. codes \in Seq(Code)
  BY DEF CodeTypes, TypeOK, Code
<1>2. codes \in [1..Len(codes) -> Code]
  BY <1>1, LenProperties, ElementOfSeq
<1>3. Len(codes) \in Nat
  BY <1>1, LenProperties
<1>4. /\ tries \in [1..MaxCodes -> Nat] /\ faults \in Nat /\ MaxCodes \in Nat
      /\ Kinds \subseteq CodeTags
  BY FinitelyMany DEF CodeTypes, CodeTags
<1> QED BY <1>1, <1>2, <1>3, <1>4 DEF Rows

(* A new row has been tried by nobody.                                     *)
LEMMA IssueKeeps ==
  ASSUME CodeInv, NEW kind \in Kinds, NEW digits \in Digits, issue_auth_code(kind, digits)
  PROVE  CodeInv'
<1> DEFINE row == [kind |-> kind, digits |-> digits, used |-> FALSE, expired |-> FALSE]
<1>1. /\ codes \in Seq(Code) /\ Len(codes) \in Nat /\ Rows = 1..Len(codes) /\ MaxCodes \in Nat
      /\ row \in Code /\ codes' = Append(codes, row)
  BY CodeFacts DEF CodeInv, issue_auth_code, Code
<1> HIDE DEF row
<1>2. /\ codes' \in Seq(Code) /\ Len(codes') = Len(codes) + 1
      /\ \A n \in 1..Len(codes) : codes'[n] = codes[n]
  BY <1>1, AppendProperties
<1>3. Rows' = 1..(Len(codes) + 1) /\ Rows \subseteq Rows' /\ \A n \in Rows : codes'[n] = codes[n]
  BY <1>1, <1>2 DEF Rows
<1>4. TypeOK'
  <2>1. codes' \in Seq([kind : Kinds, digits : Digits, used : BOOLEAN, expired : BOOLEAN])
    BY <1>2 DEF Code
  <2>2. UNCHANGED <<verified, pc, rq>>
    BY DEF issue_auth_code
  <2>3. TypeOK
    BY DEF CodeInv, CodeTypes
  <2>4. \A r \in Reqs : pc[r] \in {"mark", "effect"} =>
          rq[r].row \in Rows' /\ codes'[rq[r].row].kind = rq[r].kind
    BY <1>3, <2>3 DEF TypeOK
  <2>5. \A r \in Reqs : pc[r] = "effect" => codes'[rq[r].row].used
    BY <1>3, <2>3 DEF TypeOK
  <2>6. \A k \in verified : \E n \in Rows' : codes'[n].kind = k /\ codes'[n].used
    BY <1>3, <2>3 DEF TypeOK
  <2> QED BY <2>1, <2>2, <2>3, <2>4, <2>5, <2>6 DEF TypeOK
<1>5. CodeTypes'
  BY <1>1, <1>2, <1>4 DEF CodeInv, CodeTypes, issue_auth_code
<1>6. TriesInv'
  <2> SUFFICES ASSUME NEW n \in 1..MaxCodes
               PROVE  /\ n > Len(codes) + 1 => tries[n] = 0
                      /\ n <= Len(codes) + 1 /\ ~codes'[n].used /\ ~codes'[n].expired
                           => tries[n] <= Cardinality(Voiding(pc, rq, codes'[n].kind)) + faults
                      /\ tries[n] <= Cardinality(Reqs) + faults
    BY <1>2 DEF TriesInv, issue_auth_code, Voiding
  <2>1. n > Len(codes) => tries[n] = 0
    BY DEF CodeInv, TriesInv
  <2>2. tries[n] <= Cardinality(Reqs) + faults
    BY DEF CodeInv, TriesInv
  <2>3. n <= Len(codes) => n \in 1..Len(codes)
    BY <1>1
  <2>4. ASSUME n <= Len(codes), ~codes'[n].used, ~codes'[n].expired
        PROVE  tries[n] <= Cardinality(Voiding(pc, rq, codes'[n].kind)) + faults
    BY <1>2, <2>3, <2>4 DEF CodeInv, TriesInv
  <2>5. Cardinality(Voiding(pc, rq, codes'[n].kind)) \in Nat /\ faults \in Nat
    BY VoidingBounded DEF CodeInv, CodeTypes
  <2>6. n > Len(codes) => tries[n] <= Cardinality(Voiding(pc, rq, codes'[n].kind)) + faults
    BY <2>1, <2>5
  <2> QED BY <1>1, <2>1, <2>2, <2>4, <2>6
<1> QED BY <1>5, <1>6 DEF CodeInv

LEMMA ExpireKeeps ==
  ASSUME CodeInv, NEW n \in Rows, Expire(n)
  PROVE  CodeInv'
<1>0. /\ CodeTypes /\ TriesInv
      /\ codes \in Seq(Code) /\ Len(codes) \in Nat /\ Rows = 1..Len(codes)
      /\ codes \in [1..Len(codes) -> Code]
      /\ tries \in [1..MaxCodes -> Nat] /\ faults \in Nat /\ MaxCodes \in Nat
      /\ Kinds \subseteq CodeTags
  BY CodeFacts DEF CodeInv
<1>1. RowsKept
  <2>1. codes' \in [1..Len(codes) -> Code]
    BY <1>0 DEF CodeInv, Expire, Code
  <2>2. \A m \in 1..Len(codes) : Outlives(m)
    BY <1>0 DEF CodeInv, Expire, Code, Outlives
  <2> QED BY <1>0, <2>1, <2>2, RowsRewritten
<1>2. CodeTypes'
  <2>1. Rows = 1..Len(codes) /\ Rows' = 1..Len(codes)
    BY <1>1 DEF Rows, RowsKept, Outlives
  <2> QED BY <1>1, <2>1 DEF CodeInv, CodeTypes, TypeOK, RowsKept, Outlives, Code, Expire
<1>3. TriesInv'
  BY <1>1, UndisturbedTries DEF Expire, Voiding
<1> QED BY <1>2, <1>3 DEF CodeInv

(* A call that fits nothing is counted, and becomes one that voids.        *)
LEMMA PickKeeps ==
  ASSUME CodeInv, NEW r \in Reqs, NEW kind \in Kinds, NEW digits, Pick(r, kind, digits)
  PROVE  CodeInv'
<1> DEFINE fits == {n \in GoodOf(kind) : codes[n].digits = digits}
<1>0. /\ codes \in Seq(Code) /\ Len(codes) \in Nat /\ Rows = 1..Len(codes) /\ MaxCodes \in Nat
      /\ tries \in [1..MaxCodes -> Nat] /\ faults \in Nat /\ kind \in CodeTags
  BY CodeFacts DEF CodeInv
<1>1. /\ pc[r] = "idle" /\ UNCHANGED <<codes, verified, resets, faults>>
      /\ tries' = [n \in 1..MaxCodes |->
                     IF fits = {} /\ n \in GoodOf(kind) THEN tries[n] + 1 ELSE tries[n]]
      /\ \/ fits = {} /\ Goto(r, "void", kind, 0)
         \/ \E n \in fits : Goto(r, "mark", kind, n)
  BY <1>0 DEF Pick
<1>2. RowsKept
  BY <1>0, <1>1, RowsSame
<1>3. tries' \in [1..MaxCodes -> Nat] /\ faults' \in Nat
  BY <1>0, <1>1
<1>4. ASSUME fits = {}, Goto(r, "void", kind, 0) PROVE CodeInv'
  <2>1. RequestOK("void", kind, 0, codes')
    BY <1>0 DEF RequestOK, CodeSteps, CodeTags
  <2>2. CodeTypes'
    BY <1>1, <1>2, <1>3, <1>4, <2>1, StepTypes DEF CodeInv
  <2>3. ASSUME NEW n \in 1..MaxCodes
        PROVE  /\ n > Len(codes) => tries'[n] = 0
               /\ n <= Len(codes) /\ ~codes[n].used /\ ~codes[n].expired
                    => tries'[n] <= Cardinality(Voiding(pc', rq', codes[n].kind)) + faults
               /\ tries'[n] <= Cardinality(Reqs) + faults
    <3>1. /\ n > Len(codes) => tries[n] = 0
          /\ n <= Len(codes) /\ ~codes[n].used /\ ~codes[n].expired
               => tries[n] <= Cardinality(Voiding(pc, rq, codes[n].kind)) + faults
          /\ tries[n] <= Cardinality(Reqs) + faults
          /\ tries[n] \in Nat
      BY <1>0 DEF CodeInv, TriesInv
    <3>2. /\ Cardinality(Voiding(pc, rq, codes[n].kind)) \in Nat
          /\ Cardinality(Voiding(pc', rq', codes[n].kind)) \in Nat
          /\ Cardinality(Voiding(pc', rq', codes[n].kind)) <= Cardinality(Reqs)
          /\ Cardinality(Reqs) \in Nat
      BY VoidingBounded
    <3>3. CASE n \in GoodOf(kind)
      <4>1. n <= Len(codes) /\ codes[n].kind = kind /\ ~codes[n].used /\ ~codes[n].expired
        BY <1>0, <3>3 DEF GoodOf, Good
      <4>2. Cardinality(Voiding(pc', rq', codes[n].kind))
              = Cardinality(Voiding(pc, rq, codes[n].kind)) + 1
        BY <1>1, <1>4, <4>1, VoidingMoves DEF CodeInv
      <4>3. tries'[n] = tries[n] + 1
        BY <1>1, <1>4, <3>3
      <4> QED BY <1>0, <3>1, <3>2, <4>1, <4>2, <4>3
    <3>4. CASE n \notin GoodOf(kind)
      <4>1. tries'[n] = tries[n]
        BY <1>1, <3>4
      <4>2. ASSUME n <= Len(codes), ~codes[n].used, ~codes[n].expired
            PROVE  Cardinality(Voiding(pc', rq', codes[n].kind))
                     = Cardinality(Voiding(pc, rq, codes[n].kind))
        <5>1. codes[n].kind # kind
          BY <1>0, <3>4, <4>2 DEF GoodOf, Good
        <5> QED BY <1>1, <1>4, <5>1, VoidingMoves DEF CodeInv
      <4> QED BY <1>0, <3>1, <4>1, <4>2
    <3> QED BY <3>3, <3>4
  <2>4. TriesInv'
    BY <1>1, <2>3 DEF TriesInv
  <2> QED BY <2>2, <2>4 DEF CodeInv
<1>5. ASSUME NEW n \in fits, Goto(r, "mark", kind, n) PROVE CodeInv'
  <2>1. n \in 1..Len(codes) /\ codes[n].kind = kind
    BY <1>0 DEF GoodOf
  <2>2. RequestOK("mark", kind, n, codes')
    <3>1. "mark" \in CodeSteps /\ kind \in CodeTags /\ n \in Nat
      BY <1>0, <2>1 DEF CodeSteps
    <3>2. codes' = codes
      BY <1>1
    <3>3. n \in 1..Len(codes') /\ codes'[n].kind = kind
      BY <2>1, <3>2
    <3>4. "mark" # "effect"
      OBVIOUS
    <3> QED BY <3>1, <3>3, <3>4 DEF RequestOK
  <2>3. CodeTypes'
    BY <1>1, <1>2, <1>3, <1>5, <2>2, StepTypes DEF CodeInv
  <2>4. tries' = tries
    BY <1>0, <1>1
  <2>5. \A k : Voiding(pc', rq', k) = Voiding(pc, rq, k)
    BY <1>1, <1>5, VoidingMoves DEF CodeInv
  <2>6. TriesInv'
    BY <1>1, <1>2, <2>4, <2>5, UndisturbedTries
  <2> QED BY <2>3, <2>6 DEF CodeInv
<1> QED BY <1>1, <1>4, <1>5

-----------------------------------------------------------------------------
LEMMA MarkKeeps ==
  ASSUME CodeInv, NEW r \in Reqs, Mark(r)
  PROVE  CodeInv'
<1>0. /\ CodeTypes /\ TriesInv
      /\ codes \in Seq(Code) /\ Len(codes) \in Nat /\ Rows = 1..Len(codes)
      /\ codes \in [1..Len(codes) -> Code]
      /\ tries \in [1..MaxCodes -> Nat] /\ faults \in Nat /\ MaxCodes \in Nat
      /\ Kinds \subseteq CodeTags
  BY CodeFacts DEF CodeInv
<1> DEFINE n == rq[r].row
<1>1. /\ pc[r] = "mark" /\ n \in 1..Len(codes) /\ codes[n].kind = rq[r].kind
      /\ rq[r].kind \in CodeTags /\ n \in Nat
      /\ codes' = [codes EXCEPT ![n].used = TRUE] /\ Goto(r, "effect", rq[r].kind, n)
      /\ UNCHANGED <<verified, resets, tries, calls, faults>>
  BY <1>0 DEF CodeInv, CodeTypes, TypeOK, Mark
<1> HIDE DEF n
<1>2. RowsKept /\ codes'[n].used
  <2>1. codes' \in [1..Len(codes) -> Code] /\ codes'[n].used
    BY <1>0, <1>1 DEF CodeInv, Code
  <2>2. \A m \in 1..Len(codes) : Outlives(m)
    BY <1>0, <1>1 DEF CodeInv, Code, Outlives
  <2> QED BY <1>0, <2>1, <2>2, RowsRewritten
<1>3. RequestOK("effect", rq[r].kind, n, codes')
  BY <1>1, <1>2 DEF RequestOK, CodeSteps, RowsKept, Outlives
<1>4. CodeTypes'
  BY <1>0, <1>1, <1>2, <1>3, StepTypes DEF CodeInv
<1>5. \A k : Voiding(pc', rq', k) = Voiding(pc, rq, k)
  BY <1>1, VoidingMoves DEF CodeInv
<1>6. TriesInv'
  BY <1>1, <1>2, <1>5, UndisturbedTries
<1> QED BY <1>4, <1>6 DEF CodeInv

(* It voids its kind: what is still good is of another.                    *)
LEMMA VoidKeeps ==
  ASSUME CodeInv, NEW r \in Reqs, Void(r)
  PROVE  CodeInv'
<1>0. /\ CodeTypes /\ TriesInv
      /\ codes \in Seq(Code) /\ Len(codes) \in Nat /\ Rows = 1..Len(codes)
      /\ codes \in [1..Len(codes) -> Code]
      /\ tries \in [1..MaxCodes -> Nat] /\ faults \in Nat /\ MaxCodes \in Nat
      /\ Kinds \subseteq CodeTags
  BY CodeFacts DEF CodeInv
<1> DEFINE kind == rq[r].kind
<1>1. /\ pc[r] = "void" /\ Goto(r, "idle", "", 0)
      /\ codes' = [n \in 1..Len(codes) |-> IF n \in GoodOf(kind) THEN [codes[n] EXCEPT !.used = TRUE]
                                                                ELSE codes[n]]
      /\ UNCHANGED <<verified, resets, tries, calls, faults>>
  BY <1>0 DEF CodeInv, Void, VoidRows, Finish
<1> HIDE DEF kind
<1>2. RowsKept
  <2>1. codes' \in [1..Len(codes) -> Code]
    BY <1>0, <1>1 DEF CodeInv, Code
  <2>2. \A m \in 1..Len(codes) : Outlives(m)
    BY <1>0, <1>1 DEF CodeInv, Code, Outlives
  <2> QED BY <1>0, <2>1, <2>2, RowsRewritten
<1>3. RequestOK("idle", "", 0, codes')
  BY DEF RequestOK, CodeSteps, CodeTags
<1>4. CodeTypes'
  BY <1>0, <1>1, <1>2, <1>3, StepTypes DEF CodeInv
<1>5. ASSUME NEW m \in 1..Len(codes), ~codes'[m].used, ~codes'[m].expired
      PROVE  Voiding(pc', rq', codes[m].kind) = Voiding(pc, rq, codes[m].kind)
  <2>1. m \notin GoodOf(kind)
    BY <1>0, <1>1, <1>5 DEF CodeInv, Code
  <2>2. ~codes[m].used /\ ~codes[m].expired
    BY <1>2, <1>5 DEF RowsKept, Outlives
  <2>3. codes[m].kind # rq[r].kind
    BY <1>0, <2>1, <2>2 DEF GoodOf, Good, CodeInv, kind
  <2> QED BY <1>1, <2>3, VoidingLeft DEF CodeInv
<1>6. TriesInv'
  BY <1>1, <1>2, <1>5, UndisturbedTries
<1> QED BY <1>4, <1>6 DEF CodeInv

LEMMA EffectKeeps ==
  ASSUME CodeInv, NEW r \in Reqs, Effect(r)
  PROVE  CodeInv'
<1>0. /\ CodeTypes /\ TriesInv
      /\ codes \in Seq(Code) /\ Len(codes) \in Nat /\ Rows = 1..Len(codes)
      /\ codes \in [1..Len(codes) -> Code]
      /\ tries \in [1..MaxCodes -> Nat] /\ faults \in Nat /\ MaxCodes \in Nat
      /\ Kinds \subseteq CodeTags
  BY CodeFacts DEF CodeInv
<1>1. /\ pc[r] = "effect" /\ Goto(r, "idle", "", 0)
      /\ verified' = IF rq[r].kind = "password_reset" THEN verified ELSE verified \cup {rq[r].kind}
      /\ UNCHANGED <<codes, tries, calls, faults>>
  BY DEF Effect, Finish
<1>2. RowsKept
  BY <1>0, <1>1, RowsSame DEF CodeInv
<1>3. \A k \in verified' \ verified :
        k # "password_reset" /\ \E m \in 1..Len(codes) : codes[m].kind = k /\ codes[m].used
  <2>1. rq[r].row \in 1..Len(codes) /\ codes[rq[r].row].kind = rq[r].kind /\ codes[rq[r].row].used
    BY <1>0, <1>1 DEF CodeInv, CodeTypes, TypeOK
  <2> QED BY <1>1, <2>1
<1>4. RequestOK("idle", "", 0, codes')
  BY DEF RequestOK, CodeSteps, CodeTags
<1>5. CodeTypes'
  BY <1>0, <1>1, <1>2, <1>3, <1>4, StepTypes DEF CodeInv
<1>6. \A k : Voiding(pc', rq', k) = Voiding(pc, rq, k)
  BY <1>1, VoidingLeft DEF CodeInv
<1>7. TriesInv'
  BY <1>1, <1>2, <1>6, UndisturbedTries
<1> QED BY <1>5, <1>7 DEF CodeInv

(* Who fails voids nothing, and is counted among the failures instead.     *)
LEMMA FailKeeps ==
  ASSUME CodeInv, NEW r \in Reqs, Fail(r)
  PROVE  CodeInv'
<1>0. /\ CodeTypes /\ TriesInv
      /\ codes \in Seq(Code) /\ Len(codes) \in Nat /\ Rows = 1..Len(codes)
      /\ codes \in [1..Len(codes) -> Code]
      /\ tries \in [1..MaxCodes -> Nat] /\ faults \in Nat /\ MaxCodes \in Nat
      /\ Kinds \subseteq CodeTags
  BY CodeFacts DEF CodeInv
<1>1. /\ Goto(r, "idle", "", 0) /\ faults' = faults + 1
      /\ UNCHANGED <<codes, verified, resets, tries, calls>>
  BY DEF Fail, Finish
<1>2. RowsKept
  BY <1>0, <1>1, RowsSame DEF CodeInv
<1>3. RequestOK("idle", "", 0, codes')
  BY DEF RequestOK, CodeSteps, CodeTags
<1>4. /\ tries' \in [1..MaxCodes -> Nat] /\ faults' \in Nat /\ faults <= faults'
      /\ \A k \in verified' \ verified : FALSE
  <2>1. faults \in Nat /\ faults' = faults + 1
    BY <1>0, <1>1
  <2>2. faults' \in Nat /\ faults <= faults'
    BY <2>1
  <2>3. tries' = tries /\ verified' = verified
    BY <1>1
  <2>4. tries' \in [1..MaxCodes -> Nat]
    BY <1>0, <2>3
  <2>5. \A k \in verified' \ verified : FALSE
    BY <2>3
  <2> QED BY <2>2, <2>4, <2>5
<1>5. CodeTypes'
  BY <1>1, <1>2, <1>3, <1>4, StepTypes DEF CodeInv
<1>6. \A k : Cardinality(Voiding(pc, rq, k)) <= Cardinality(Voiding(pc', rq', k)) + 1
  BY <1>1, VoidingLeft DEF CodeInv
<1>7. \A m \in 1..Len(codes) :
        Cardinality(Voiding(pc, rq, codes[m].kind)) + faults
          <= Cardinality(Voiding(pc', rq', codes[m].kind)) + faults'
  <2> SUFFICES ASSUME NEW k PROVE Cardinality(Voiding(pc, rq, k)) + faults
                                    <= Cardinality(Voiding(pc', rq', k)) + faults'
    OBVIOUS
  <2>1. Cardinality(Voiding(pc, rq, k)) \in Nat /\ Cardinality(Voiding(pc', rq', k)) \in Nat
    BY VoidingBounded
  <2>2. faults \in Nat /\ faults' = faults + 1
    BY <1>0, <1>1
  <2>3. Cardinality(Voiding(pc, rq, k)) <= Cardinality(Voiding(pc', rq', k)) + 1
    BY <1>6
  <2> QED BY <2>1, <2>2, <2>3
<1>8. TriesInv'
  BY <1>1, <1>2, <1>4, <1>7, QuietTries
<1> QED BY <1>5, <1>8 DEF CodeInv

-----------------------------------------------------------------------------
LEMMA CodeInitInv == Init => CodeInv
<1> SUFFICES ASSUME Init PROVE CodeInv
  OBVIOUS
<1>1. codes \in Seq(Code) /\ Len(codes) = 0
  BY EmptySeq DEF Init
<1>2. MaxCodes \in Nat /\ Cardinality(Reqs) \in Nat /\ \A k : Cardinality(Voiding(pc, rq, k)) \in Nat
  BY FinitelyMany, VoidingBounded
<1>3. CodeTypes
  <2>1. \A r \in Reqs : pc[r] = "idle"
    BY DEF Init
  <2>2. TypeOK
    BY <1>1, <2>1 DEF Init, TypeOK, Code
  <2>3. pc \in [Reqs -> CodeSteps] /\ rq \in [Reqs -> [kind : CodeTags, row : Nat]]
    BY DEF Init, CodeSteps, CodeTags, Blank
  <2> QED BY <1>1, <1>2, <2>2, <2>3 DEF Init, CodeTypes
<1>4. TriesInv
  BY <1>1, <1>2 DEF Init, TriesInv
<1> QED BY <1>3, <1>4 DEF CodeInv

LEMMA CodeStepInv == CodeInv /\ [Next]_vars => CodeInv'
<1> SUFFICES ASSUME CodeInv, [Next]_vars PROVE CodeInv'
  OBVIOUS
<1>1. ASSUME NEW d \in Digits, ResendEmail(d) \/ SendPhoneCode(d) \/ ResetRequest(d) PROVE CodeInv'
  BY <1>1, IssueKeeps DEF ResendEmail, SendPhoneCode, ResetRequest, Kinds
<1>2. ASSUME NEW n \in Rows, Expire(n) PROVE CodeInv'
  BY <1>2, ExpireKeeps
<1>3. ASSUME NEW r \in Reqs, NEW d \in Digits,
             VerifyEmail(r, d) \/ VerifyPhone(r, d) \/ ResetPassword(r, d)
      PROVE  CodeInv'
  BY <1>3, PickKeeps DEF VerifyEmail, VerifyPhone, ResetPassword, Kinds
<1>4. ASSUME NEW r \in Reqs, Mark(r) \/ Void(r) \/ Effect(r) \/ Fail(r) PROVE CodeInv'
  BY <1>4, MarkKeeps, VoidKeeps, EffectKeeps, FailKeeps
<1>5. CASE UNCHANGED vars
  BY <1>5 DEF vars, CodeInv, CodeTypes, TypeOK, TriesInv, Rows, Voiding
<1> QED BY <1>1, <1>2, <1>3, <1>4, <1>5 DEF Next

LEMMA CodeInvariance == Spec => []CodeInv
BY CodeInitInv, CodeStepInv, PTL DEF Spec

(* A request acts on a row of its kind that it has used up, and a user has *)
(* an address or phone verified only if a code for it was.                 *)
THEOREM CodesAreTyped == Spec => []TypeOK
<1>1. CodeInv => TypeOK
  BY DEF CodeInv, CodeTypes
<1> QED BY <1>1, CodeInvariance, PTL

(* Whatever number of codes and calls: a code outlives as many wrong tries *)
(* as are served at once, and one more for each failure (consume_auth_code *)
(* of db/src/users.rs).                                                    *)
THEOREM WrongTriesAreBounded == Spec => []TriesBounded
<1>1. CodeInv => TriesBounded
  BY DEF CodeInv, CodeTypes, TriesInv, TriesBounded
<1> QED BY <1>1, CodeInvariance, PTL

-----------------------------------------------------------------------------
(***************************************************************************)
(* The limiters.  A count is of a call, and the bucket's tokens are what   *)
(* has not passed.                                                         *)
(***************************************************************************)

(* Requests that are to send INCR, and connections that are held.          *)
AtIncr(p) == {r \in Reqs : p[r] = "incr"}
Held(p) == {r \in Reqs : p[r] = "trapped"}

(* Each count is of a call, as is each request that is to count; only the  *)
(* requests of the bucket let anything pass when it is in use.             *)
LimTypes ==
  /\ Lim!TypeOK
  /\ rq \in [Reqs -> Nat] /\ \A r \in Reqs : rq[r] <= now
  /\ calls \in 0..LimitCalls
  /\ count + Cardinality(AtIncr(pc)) <= calls
  /\ passed \in Nat /\ back \in Nat /\ lost \in Nat
  /\ backend = "memory" => AtIncr(pc) = {}

LimInv == LimTypes /\ Lim!NoKeyForever /\ Lim!BucketHolds

LEMMA LimCard == ASSUME NEW S PROVE Lim!Cardinality(S) = Cardinality(S)
BY DEF Lim!Cardinality, Cardinality

LEMMA LimNumbers ==
  ASSUME LimTypes
  PROVE  /\ count \in Nat /\ tokens \in Nat /\ tokens <= Max /\ stamp \in Nat /\ stamp <= now
         /\ now \in Nat /\ calls \in Nat /\ Max \in Nat /\ Refill \in Nat /\ Permits \in Nat /\ LimitCalls \in Nat
         /\ IsFiniteSet(AtIncr(pc)) /\ Cardinality(AtIncr(pc)) \in Nat
         /\ IsFiniteSet(Held(pc)) /\ Cardinality(Held(pc)) \in Nat
         /\ free = Permits - Cardinality(Held(pc))
         /\ pc \in [Reqs -> Lim!Steps]
<1>1. AtIncr(pc) \subseteq Reqs /\ Held(pc) \subseteq Reqs
  BY DEF AtIncr, Held
<1>2. IsFiniteSet(AtIncr(pc)) /\ IsFiniteSet(Held(pc))
  BY <1>1, FinitelyMany, FS_Subset
<1>3. Cardinality(AtIncr(pc)) \in Nat /\ Cardinality(Held(pc)) \in Nat
  BY <1>2, FS_CardinalityType
<1>4. free = Permits - Cardinality(Held(pc)) /\ pc \in [Reqs -> Lim!Steps]
  BY LimCard DEF LimTypes, Lim!TypeOK, Lim!Trapped, Held
<1>5. count \in 0..LimitCalls /\ tokens \in 0..Max /\ now \in 0..MaxTime /\ stamp \in 0..now
  BY DEF LimTypes, Lim!TypeOK
<1> QED BY <1>2, <1>3, <1>4, <1>5, LimitsAreUnsigned DEF LimTypes

(* What a step of one request makes of them.                               *)
LEMMA LimGoto ==
  ASSUME LimTypes, NEW r \in Reqs, NEW step \in Lim!Steps, NEW t \in Nat, t <= now, Lim!Goto(r, step, t)
  PROVE  /\ pc' \in [Reqs -> Lim!Steps] /\ rq' \in [Reqs -> Nat] /\ \A q \in Reqs : rq'[q] <= now
         /\ pc'[r] = step /\ \A q \in Reqs \ {r} : pc'[q] = pc[q]
         /\ Cardinality(AtIncr(pc')) \in Nat /\ Cardinality(Held(pc')) \in Nat
         /\ (step = "incr" <=> pc[r] = "incr") => AtIncr(pc') = AtIncr(pc)
         /\ step = "incr" /\ pc[r] # "incr" => Cardinality(AtIncr(pc')) = Cardinality(AtIncr(pc)) + 1
         /\ step # "incr" /\ pc[r] = "incr" => Cardinality(AtIncr(pc')) = Cardinality(AtIncr(pc)) - 1
         /\ (step = "trapped" <=> pc[r] = "trapped") => Held(pc') = Held(pc)
         /\ step = "trapped" /\ pc[r] # "trapped" => Cardinality(Held(pc')) = Cardinality(Held(pc)) + 1
         /\ step # "trapped" /\ pc[r] = "trapped" => Cardinality(Held(pc')) = Cardinality(Held(pc)) - 1
<1>1. pc \in [Reqs -> Lim!Steps] /\ rq \in [Reqs -> Nat] /\ \A q \in Reqs : rq[q] <= now
  BY LimNumbers DEF LimTypes
<1>2. pc' \in [Reqs -> Lim!Steps] /\ pc'[r] = step /\ \A q \in Reqs \ {r} : pc'[q] = pc[q]
  BY <1>1 DEF Lim!Goto
<1>3. rq' \in [Reqs -> Nat] /\ \A q \in Reqs : rq'[q] <= now
  BY <1>1 DEF Lim!Goto
<1>4. /\ AtIncr(pc) \ {r} = AtIncr(pc') \ {r} /\ Held(pc) \ {r} = Held(pc') \ {r}
      /\ (r \in AtIncr(pc) <=> pc[r] = "incr") /\ (r \in AtIncr(pc') <=> step = "incr")
      /\ (r \in Held(pc) <=> pc[r] = "trapped") /\ (r \in Held(pc') <=> step = "trapped")
  BY <1>2 DEF AtIncr, Held
<1>5. IsFiniteSet(AtIncr(pc)) /\ IsFiniteSet(Held(pc))
  BY LimNumbers
<1>6. /\ Cardinality(AtIncr(pc')) \in Nat
      /\ (r \in AtIncr(pc) <=> r \in AtIncr(pc')) => AtIncr(pc') = AtIncr(pc)
      /\ r \in AtIncr(pc) /\ r \notin AtIncr(pc') => Cardinality(AtIncr(pc')) = Cardinality(AtIncr(pc)) - 1
      /\ r \notin AtIncr(pc) /\ r \in AtIncr(pc') => Cardinality(AtIncr(pc')) = Cardinality(AtIncr(pc)) + 1
  BY <1>4, <1>5, OneMoves
<1>7. /\ Cardinality(Held(pc')) \in Nat
      /\ (r \in Held(pc) <=> r \in Held(pc')) => Held(pc') = Held(pc)
      /\ r \in Held(pc) /\ r \notin Held(pc') => Cardinality(Held(pc')) = Cardinality(Held(pc)) - 1
      /\ r \notin Held(pc) /\ r \in Held(pc') => Cardinality(Held(pc')) = Cardinality(Held(pc)) + 1
  BY <1>4, <1>5, OneMoves
<1> QED BY <1>2, <1>3, <1>4, <1>6, <1>7

-----------------------------------------------------------------------------
LEMMA LimArriveKeeps == ASSUME LimInv, NEW r \in Reqs, Lim!Arrive(r) PROVE LimInv'
<1> DEFINE step == IF backend = "redis" THEN "incr" ELSE "bucket"
           t == IF backend = "redis" THEN 0 ELSE now
<1>0. LimTypes /\ pc[r] = "idle" /\ calls < LimitCalls /\ calls' = calls + 1
  BY DEF LimInv, Lim!Arrive
<1>1. UNCHANGED <<backend, count, ttl, lost, tokens, stamp, passed, back, now, free>>
  BY DEF Lim!Arrive, Lim!redis, Lim!bucket
<1>2. step \in Lim!Steps /\ t \in Nat /\ t <= now /\ Lim!Goto(r, step, t) /\ step # "trapped"
  BY <1>0, LimNumbers DEF Lim!Arrive, Lim!Steps
<1>3. Lim!TypeOK'
  <2>1. pc' \in [Reqs -> Lim!Steps]
    BY <1>0, <1>2, LimGoto
  <2>2. Held(pc') = Held(pc)
    <3>1. step # "trapped" /\ pc[r] # "trapped"
      BY <1>0, <1>2
    <3> HIDE DEF step, t
    <3> QED BY <3>1, <1>0, <1>2, LimGoto
  <2> QED BY <1>0, <1>1, <2>1, <2>2, LimCard DEF LimTypes, Lim!TypeOK, Lim!Trapped, Held
<1>4. LimTypes'
  <2>1. rq' \in [Reqs -> Nat] /\ \A q \in Reqs : rq'[q] <= now
    BY <1>0, <1>2, LimGoto
  <2>2. count + Cardinality(AtIncr(pc')) <= calls' /\ calls' \in 0..LimitCalls
    BY <1>0, <1>2, LimGoto, LimNumbers DEF LimTypes
  <2>3. backend = "memory" => AtIncr(pc') = AtIncr(pc)
    <3> SUFFICES ASSUME backend = "memory" PROVE AtIncr(pc') = AtIncr(pc)
      OBVIOUS
    <3>1. step # "incr"
      OBVIOUS
    <3> HIDE DEF step, t
    <3> QED BY <3>1, <1>0, <1>2, LimGoto
  <2> QED BY <1>0, <1>1, <1>3, <2>1, <2>2, <2>3 DEF LimTypes
<1>5. \A q \in Reqs : pc[q] = "expire" => pc'[q] = "expire"
  BY <1>0, <1>2, LimGoto
<1> QED BY <1>1, <1>4, <1>5 DEF LimInv, Lim!NoKeyForever, Lim!BucketHolds

LEMMA LimIncrKeeps == ASSUME LimInv, NEW r \in Reqs, Lim!Incr(r) PROVE LimInv'
<1> DEFINE step == IF count = 0 THEN "expire" ELSE "idle"
<1>0. LimTypes /\ pc[r] = "incr" /\ count' = count + 1
  BY DEF LimInv, Lim!Incr, Lim!IncrThen
<1>1. UNCHANGED <<backend, ttl, lost, tokens, stamp, back, now, free, calls>>
  BY DEF Lim!Incr, Lim!IncrThen, Lim!Finish
<1>2. step \in Lim!Steps /\ 0 <= now /\ Lim!Goto(r, step, 0) /\ step # "trapped" /\ step # "incr"
  BY <1>0, LimNumbers DEF Lim!Incr, Lim!IncrThen, Lim!Finish, Lim!Steps
<1>3. passed' \in Nat
  BY <1>0 DEF LimTypes, Lim!Incr, Lim!IncrThen
<1>4. r \in AtIncr(pc) /\ backend # "memory"
  BY <1>0 DEF AtIncr, LimTypes
<1>5. count' + Cardinality(AtIncr(pc')) <= calls /\ Cardinality(AtIncr(pc')) \in Nat
  BY <1>0, <1>2, LimGoto, LimNumbers DEF LimTypes
<1>6. count' \in 0..LimitCalls
  BY <1>0, <1>5, LimNumbers DEF LimTypes
<1>7. Lim!TypeOK'
  <2>1. pc' \in [Reqs -> Lim!Steps]
    BY <1>0, <1>2, LimGoto
  <2>2. Held(pc') = Held(pc)
    <3>1. step # "trapped" /\ pc[r] # "trapped"
      BY <1>0, <1>2
    <3> HIDE DEF step
    <3> QED BY <3>1, <1>0, <1>2, LimGoto
  <2>3. count' > 0
    BY <1>0, LimNumbers
  <2> QED BY <1>0, <1>1, <1>6, <2>1, <2>2, <2>3, LimCard DEF LimTypes, Lim!TypeOK, Lim!Trapped, Held
<1>8. LimTypes'
  <2>1. rq' \in [Reqs -> Nat] /\ \A q \in Reqs : rq'[q] <= now
    BY <1>0, <1>2, LimGoto
  <2> QED BY <1>0, <1>1, <1>3, <1>4, <1>5, <1>7, <2>1 DEF LimTypes
<1>9. Lim!NoKeyForever'
  <2>1. CASE count = 0
    BY <1>0, <1>2, <2>1, LimGoto DEF Lim!NoKeyForever
  <2>2. CASE count # 0
    <3>1. count > 0
      BY <2>2, <1>0, LimNumbers
    <3>2. \A q \in Reqs : pc[q] = "expire" => q # r /\ pc'[q] = "expire"
      BY <1>0, <1>2, LimGoto
    <3> QED BY <1>1, <3>1, <3>2 DEF LimInv, Lim!NoKeyForever
  <2> QED BY <2>1, <2>2
<1> QED BY <1>1, <1>4, <1>8, <1>9 DEF LimInv, Lim!BucketHolds

(* A request that only ends, from the Redis branch.                        *)
LEMMA LimEnds ==
  ASSUME LimInv, NEW r \in Reqs, pc[r] \in {"incr", "expire", "bucket"}, Lim!Finish(r), now' = now
  PROVE  /\ pc' \in [Reqs -> Lim!Steps] /\ rq' \in [Reqs -> Nat] /\ \A q \in Reqs : rq'[q] <= now
         /\ pc'[r] = "idle" /\ \A q \in Reqs \ {r} : pc'[q] = pc[q]
         /\ Held(pc') = Held(pc) /\ calls' = calls
         /\ count + Cardinality(AtIncr(pc')) <= calls /\ Cardinality(AtIncr(pc')) \in Nat
         /\ backend = "memory" => AtIncr(pc') = {}
<1>0. LimTypes /\ calls' = calls
  BY DEF LimInv, Lim!Finish
<1>1. "idle" \in Lim!Steps /\ 0 \in Nat /\ 0 <= now /\ Lim!Goto(r, "idle", 0)
  BY <1>0, LimNumbers DEF Lim!Finish, Lim!Steps
<1>2. /\ pc' \in [Reqs -> Lim!Steps] /\ rq' \in [Reqs -> Nat] /\ \A q \in Reqs : rq'[q] <= now
      /\ pc'[r] = "idle" /\ \A q \in Reqs \ {r} : pc'[q] = pc[q]
      /\ Held(pc') = Held(pc)
  BY <1>0, <1>1, LimGoto
<1>3. count + Cardinality(AtIncr(pc')) <= calls /\ Cardinality(AtIncr(pc')) \in Nat
  <2>1. \/ AtIncr(pc') = AtIncr(pc)
        \/ Cardinality(AtIncr(pc')) = Cardinality(AtIncr(pc)) - 1
    BY <1>0, <1>1, LimGoto
  <2>2. Cardinality(AtIncr(pc')) \in Nat
    BY <1>0, <1>1, LimGoto
  <2> QED BY <1>0, <2>1, <2>2, LimNumbers DEF LimTypes
<1>4. AtIncr(pc') \subseteq AtIncr(pc)
  BY <1>2 DEF AtIncr
<1> QED BY <1>0, <1>2, <1>3, <1>4 DEF LimTypes

LEMMA LimIncrFailsKeeps == ASSUME LimInv, NEW r \in Reqs, Lim!IncrFails(r) PROVE LimInv'
<1>0. LimTypes /\ pc[r] = "incr" /\ Lim!Finish(r) /\ passed' = passed + 1
  BY DEF LimInv, Lim!IncrFails
<1>1. UNCHANGED <<backend, count, ttl, lost, tokens, stamp, back, now, free>>
  BY DEF Lim!IncrFails, Lim!redis
<1>2. r \in AtIncr(pc) /\ backend # "memory"
  BY <1>0 DEF AtIncr, LimTypes
<1>3. Lim!TypeOK'
  BY <1>0, <1>1, LimEnds, LimNumbers, LimCard DEF LimTypes, Lim!TypeOK, Lim!Trapped, Held
<1>4. LimTypes'
  BY <1>0, <1>1, <1>3, LimEnds DEF LimTypes
<1>5. \A q \in Reqs : pc[q] = "expire" => pc'[q] = "expire"
  BY <1>0, <1>1, LimEnds
<1> QED BY <1>1, <1>2, <1>4, <1>5 DEF LimInv, Lim!NoKeyForever, Lim!BucketHolds

LEMMA LimExpireKeeps == ASSUME LimInv, NEW r \in Reqs, Lim!Expire(r) PROVE LimInv'
<1>0. LimTypes /\ pc[r] = "expire" /\ Lim!Finish(r) /\ ttl' = (count > 0)
  BY DEF LimInv, Lim!Expire
<1>1. UNCHANGED <<backend, count, lost, tokens, stamp, passed, back, now, free>>
  BY DEF Lim!Expire, Lim!bucket
<1>2. Lim!TypeOK'
  <2>1. pc' \in [Reqs -> Lim!Steps] /\ Held(pc') = Held(pc)
    BY <1>0, <1>1, LimEnds
  <2>2. ttl' \in BOOLEAN /\ (ttl' => count > 0)
    <3> DEFINE c == count > 0
    <3>1. c \in BOOLEAN
      BY SMT
    <3>2. ttl' = c /\ (c => count > 0)
      BY <1>0
    <3> HIDE DEF c
    <3> QED BY <3>1, <3>2
  <2> QED BY <1>0, <1>1, <2>1, <2>2, LimCard DEF LimTypes, Lim!TypeOK, Lim!Trapped, Held
<1>3. LimTypes'
  BY <1>0, <1>1, <1>2, LimEnds DEF LimTypes
<1> QED BY <1>0, <1>1, <1>3 DEF LimInv, Lim!NoKeyForever, Lim!BucketHolds

LEMMA LimExpireFailsKeeps == ASSUME LimInv, NEW r \in Reqs, Lim!ExpireFails(r) PROVE LimInv'
<1>0. LimTypes /\ pc[r] = "expire" /\ Lim!Finish(r) /\ lost' = lost + 1
  BY DEF LimInv, Lim!ExpireFails
<1>1. UNCHANGED <<backend, count, ttl, tokens, stamp, passed, back, now, free>>
  BY DEF Lim!ExpireFails, Lim!bucket
<1>2. lost' \in Nat /\ lost' # 0
  BY <1>0 DEF LimTypes
<1>3. Lim!TypeOK'
  BY <1>0, <1>1, LimEnds, LimNumbers, LimCard DEF LimTypes, Lim!TypeOK, Lim!Trapped, Held
<1>4. LimTypes'
  BY <1>0, <1>1, <1>2, <1>3, LimEnds DEF LimTypes
<1> QED BY <1>1, <1>2, <1>4 DEF LimInv, Lim!NoKeyForever, Lim!BucketHolds

(* Time fills a bucket in proportion.                                      *)
LEMMA Proportion ==
  ASSUME NEW a \in Nat, NEW b \in Nat, NEW k \in Nat
  PROVE  k * (a + b) = k * a + k * b /\ k * a \in Nat /\ a * k = k * a
OBVIOUS

LEMMA LimTakeKeeps == ASSUME LimInv, NEW r \in Reqs, Lim!Take(r) PROVE LimInv'
<1> DEFINE L == Lim!Level(r)
<1>0. LimTypes /\ pc[r] = "bucket" /\ Lim!Finish(r) /\ stamp' = rq[r]
  BY DEF LimInv, Lim!Take, Lim!TakeFrom
<1>1. UNCHANGED <<backend, count, ttl, lost, now, free>>
  BY DEF Lim!Take, Lim!TakeFrom, Lim!redis
<1>2. /\ tokens' = IF L >= 1 THEN L - 1 ELSE L
      /\ passed' = IF L >= 1 THEN passed + 1 ELSE passed
      /\ back' = IF rq[r] < stamp THEN back + stamp - rq[r] ELSE back
  BY DEF Lim!Take, Lim!TakeFrom
<1>3. rq[r] \in Nat /\ rq[r] <= now /\ passed \in Nat /\ back \in Nat
  BY <1>0 DEF LimTypes
<1>4. /\ L \in Nat /\ L <= Max
      /\ rq[r] < stamp => L = tokens
      /\ ~(rq[r] < stamp) => L <= tokens + Refill * (rq[r] - stamp) /\ rq[r] - stamp \in Nat
  <2>1. CASE rq[r] < stamp
    BY <2>1, <1>0, <1>3, LimNumbers DEF Lim!Level
  <2>2. CASE ~(rq[r] < stamp)
    <3>1. rq[r] - stamp \in Nat
      BY <2>2, <1>0, <1>3, LimNumbers
    <3> DEFINE fill == (rq[r] - stamp) * Refill
    <3>2. fill \in Nat /\ fill = Refill * (rq[r] - stamp)
      BY <3>1, <1>0, LimNumbers, Proportion
    <3>3. L = IF tokens + fill < Max THEN tokens + fill ELSE Max
      BY <2>2 DEF Lim!Level, Lim!least
    <3> HIDE DEF fill, L
    <3> QED BY <2>2, <3>1, <3>2, <3>3, <1>0, LimNumbers
  <2> QED BY <2>1, <2>2
<1> HIDE DEF L
<1>5. tokens' \in 0..Max /\ passed' \in Nat /\ back' \in Nat /\ passed' + tokens' = passed + L
  <2>1. Max \in Nat /\ stamp \in Nat
    BY <1>0, LimNumbers
  <2>2. CASE L >= 1
    BY <2>1, <2>2, <1>2, <1>3, <1>4
  <2>3. CASE ~(L >= 1)
    BY <2>1, <2>3, <1>2, <1>3, <1>4
  <2> QED BY <2>2, <2>3
<1>6. Lim!TypeOK'
  <2>1. pc' \in [Reqs -> Lim!Steps] /\ Held(pc') = Held(pc)
    BY <1>0, <1>1, LimEnds
  <2>2. stamp' \in 0..now
    BY <1>0, <1>3, LimNumbers
  <2> QED BY <1>0, <1>1, <1>5, <2>1, <2>2, LimCard DEF LimTypes, Lim!TypeOK, Lim!Trapped, Held
<1>7. LimTypes'
  BY <1>0, <1>1, <1>5, <1>6, LimEnds DEF LimTypes
<1>8. \A q \in Reqs : pc[q] = "expire" => pc'[q] = "expire"
  BY <1>0, <1>1, LimEnds
<1>9. Lim!BucketHolds'
  <2> SUFFICES ASSUME backend = "memory" PROVE passed + L <= Max + Refill * (stamp' + back')
    BY <1>1, <1>5 DEF Lim!BucketHolds
  <2>1. passed + tokens <= Max + Refill * (stamp + back)
    BY DEF LimInv, Lim!BucketHolds
  <2>2. CASE rq[r] < stamp
    <3>1. stamp' + back' = stamp + back
      BY <2>2, <1>0, <1>2, <1>3, LimNumbers
    <3> QED BY <2>1, <2>2, <3>1, <1>4
  <2>3. CASE ~(rq[r] < stamp)
    <3> DEFINE d == rq[r] - stamp
               s == stamp + back
    <3>1. stamp' + back' = s + d /\ s \in Nat /\ d \in Nat
      BY <2>3, <1>0, <1>2, <1>3, <1>4, LimNumbers
    <3>2. L <= tokens + Refill * d /\ passed + tokens <= Max + Refill * s
      BY <2>1, <2>3, <1>4
    <3> HIDE DEF d, s
    <3>3. Refill * (s + d) = Refill * s + Refill * d /\ Refill * s \in Nat /\ Refill * d \in Nat
      BY <3>1, <1>0, LimNumbers, Proportion
    <3> DEFINE x == Refill * s
               y == Refill * d
    <3>4. L <= tokens + y /\ passed + tokens <= Max + x /\ Refill * (stamp' + back') = x + y /\ x \in Nat /\ y \in Nat
      BY <3>1, <3>2, <3>3
    <3> HIDE DEF x, y
    <3> QED BY <3>4, <1>0, <1>3, <1>4, LimNumbers
  <2> QED BY <2>2, <2>3
<1> QED BY <1>1, <1>7, <1>8, <1>9 DEF LimInv, Lim!NoKeyForever

LEMMA LimTrapKeeps == ASSUME LimInv, NEW r \in Reqs, Lim!try_trap(r) PROVE LimInv'
<1>0. LimTypes /\ pc[r] = "idle" /\ calls < LimitCalls /\ calls' = calls + 1
  BY DEF LimInv, Lim!try_trap
<1>1. UNCHANGED <<backend, count, ttl, lost, tokens, stamp, passed, back, now>>
  BY DEF Lim!try_trap, Lim!redis, Lim!bucket
<1>2. CASE Enabled /\ free > 0
  <2>1. Lim!Goto(r, "trapped", 0) /\ free' = free - 1 /\ "trapped" \in Lim!Steps /\ 0 \in Nat /\ 0 <= now
    BY <1>0, <1>2, LimNumbers DEF Lim!try_trap, Lim!Steps
  <2>2. AtIncr(pc') = AtIncr(pc) /\ \A q \in Reqs : pc[q] = "expire" => pc'[q] = "expire"
    BY <1>0, <2>1, LimGoto
  <2>3. free' = Permits - Cardinality(Held(pc'))
    BY <1>0, <2>1, LimGoto, LimNumbers
  <2>4. Lim!TypeOK'
    BY <1>0, <1>1, <2>1, <2>3, LimGoto, LimNumbers, LimCard DEF LimTypes, Lim!TypeOK, Lim!Trapped, Held
  <2>5. rq' \in [Reqs -> Nat] /\ \A q \in Reqs : rq'[q] <= now
    BY <1>0, <2>1, LimGoto
  <2>6. count + Cardinality(AtIncr(pc)) <= calls' /\ calls' \in 0..LimitCalls
    BY <1>0, LimNumbers DEF LimTypes
  <2>7. LimTypes'
    BY <1>0, <1>1, <2>2, <2>4, <2>5, <2>6 DEF LimTypes
  <2> QED BY <1>1, <2>2, <2>7 DEF LimInv, Lim!NoKeyForever, Lim!BucketHolds
<1>3. CASE ~(Enabled /\ free > 0)
  <2>1. UNCHANGED <<pc, rq, free>>
    BY <1>3 DEF Lim!try_trap
  <2>2. count + Cardinality(AtIncr(pc)) <= calls' /\ calls' \in 0..LimitCalls
    BY <1>0, LimNumbers DEF LimTypes
  <2>3. LimTypes'
    BY <1>0, <1>1, <2>1, <2>2, LimCard DEF LimTypes, Lim!TypeOK, Lim!Trapped
  <2> QED BY <1>1, <2>1, <2>3 DEF LimInv, Lim!NoKeyForever, Lim!BucketHolds
<1> QED BY <1>2, <1>3

LEMMA LimReleaseKeeps == ASSUME LimInv, NEW r \in Reqs, Lim!Release(r) PROVE LimInv'
<1>0. LimTypes /\ pc[r] = "trapped" /\ free' = free + 1 /\ calls' = calls
  BY DEF LimInv, Lim!Release, Lim!Leave, Lim!Finish
<1>1. UNCHANGED <<backend, count, ttl, lost, tokens, stamp, passed, back, now>>
  BY DEF Lim!Release, Lim!Leave, Lim!redis, Lim!bucket
<1>2. Lim!Goto(r, "idle", 0) /\ "idle" \in Lim!Steps /\ 0 \in Nat /\ 0 <= now
  BY <1>0, LimNumbers DEF Lim!Release, Lim!Leave, Lim!Finish, Lim!Steps
<1>3. AtIncr(pc') = AtIncr(pc) /\ \A q \in Reqs : pc[q] = "expire" => pc'[q] = "expire"
  BY <1>0, <1>2, LimGoto
<1>4. free' = Permits - Cardinality(Held(pc'))
  BY <1>0, <1>2, LimGoto, LimNumbers
<1>5. Lim!TypeOK'
  BY <1>0, <1>1, <1>2, <1>4, LimGoto, LimNumbers, LimCard DEF LimTypes, Lim!TypeOK, Lim!Trapped, Held
<1>6. rq' \in [Reqs -> Nat] /\ \A q \in Reqs : rq'[q] <= now
  BY <1>0, <1>2, LimGoto
<1>7. LimTypes'
  BY <1>0, <1>1, <1>3, <1>5, <1>6 DEF LimTypes
<1> QED BY <1>1, <1>3, <1>7 DEF LimInv, Lim!NoKeyForever, Lim!BucketHolds

LEMMA LimClockKeeps == ASSUME LimInv, Lim!Tick \/ Lim!Evict PROVE LimInv'
<1>0. LimTypes
  BY DEF LimInv
<1>1. CASE Lim!Tick
  <2>1. UNCHANGED <<backend, count, ttl, lost, tokens, stamp, passed, back, free, pc, rq, calls>>
    BY <1>1 DEF Lim!Tick, Lim!redis, Lim!bucket
  <2>2. now' \in 0..MaxTime /\ now' >= now
    BY <1>0, <1>1, LimNumbers, LimitsAreUnsigned DEF Lim!Tick
  <2>3. stamp \in 0..now' /\ \A r \in Reqs : rq[r] <= now'
    BY <1>0, <2>2, LimNumbers DEF LimTypes
  <2>4. Lim!TypeOK'
    BY <1>0, <2>1, <2>2, <2>3, LimCard DEF LimTypes, Lim!TypeOK, Lim!Trapped
  <2>5. LimTypes'
    BY <1>0, <2>1, <2>3, <2>4 DEF LimTypes
  <2> QED BY <2>1, <2>5 DEF LimInv, Lim!NoKeyForever, Lim!BucketHolds
<1>2. CASE Lim!Evict
  <2>1. UNCHANGED <<backend, tokens, stamp, passed, back, now, free, pc, rq, calls>> /\ count' = 0 /\ ttl' = FALSE /\ lost' = 0
    BY <1>2 DEF Lim!Evict, Lim!bucket
  <2>2. count' + Cardinality(AtIncr(pc)) <= calls
    BY <1>0, <2>1, LimNumbers DEF LimTypes
  <2>3. Lim!TypeOK'
    <3>1. count' \in 0..LimitCalls /\ ttl' = FALSE
      BY <2>1, LimitsAreUnsigned
    <3> QED BY <1>0, <2>1, <3>1 DEF LimTypes, Lim!TypeOK, Lim!Trapped
  <2>4. LimTypes'
    BY <1>0, <2>1, <2>2, <2>3 DEF LimTypes
  <2> QED BY <2>1, <2>4 DEF LimInv, Lim!NoKeyForever, Lim!BucketHolds
<1> QED BY <1>1, <1>2

LEMMA LimInitInv == Lim!Init => LimInv
<1> SUFFICES ASSUME Lim!Init PROVE LimInv
  OBVIOUS
<1>1. AtIncr(pc) = {} /\ Held(pc) = {} /\ \A r \in Reqs : rq[r] = 0
  BY DEF Lim!Init, AtIncr, Held
<1>2. Cardinality(AtIncr(pc)) = 0 /\ Cardinality(Held(pc)) = 0
  BY <1>1, FS_EmptySet
<1>3. Lim!TypeOK
  <2>1. pc \in [Reqs -> Lim!Steps]
    BY DEF Lim!Init, Lim!Steps
  <2>2. free = Permits - Lim!Cardinality(Lim!Trapped)
    BY <1>2, LimitsAreUnsigned, LimCard DEF Lim!Init, Lim!Trapped, Held
  <2>3. backend \in {"redis", "memory"} /\ 0 \in 0..LimitCalls /\ Max \in 0..Max /\ 0 \in 0..0 /\ 0 \in 0..MaxTime
    BY LimitsAreUnsigned DEF Lim!Init
  <2> QED BY <2>1, <2>2, <2>3 DEF Lim!Init, Lim!TypeOK
<1>4. LimTypes
  BY <1>1, <1>2, <1>3, LimitsAreUnsigned DEF Lim!Init, LimTypes
<1>5. Refill * 0 = 0 /\ Max \in Nat
  BY LimitsAreUnsigned
<1> QED BY <1>4, <1>5 DEF LimInv, Lim!Init, Lim!NoKeyForever, Lim!BucketHolds

LEMMA LimStepInv == LimInv /\ Lim!Next => LimInv'
<1> SUFFICES ASSUME LimInv, Lim!Next PROVE LimInv'
  OBVIOUS
<1>1. ASSUME NEW r \in Reqs, Lim!Serve(r) PROVE LimInv'
  BY <1>1, LimArriveKeeps, LimIncrKeeps, LimIncrFailsKeeps, LimExpireKeeps, LimExpireFailsKeeps,
     LimTakeKeeps, LimTrapKeeps, LimReleaseKeeps DEF Lim!Serve
<1> QED BY <1>1, LimClockKeeps DEF Lim!Next

-----------------------------------------------------------------------------
(***************************************************************************)
(* Events.  The requests that have counted are counted with the guests.    *)
(***************************************************************************)

(* Requests that have counted and are to store "going" for an event.       *)
Late(p, q, e) == {r \in Reqs : p[r] = "upsert" /\ q[r].event = e /\ q[r].status = "going"}
Going(v, e) == {u \in Guests : v[<<e, u>>] = "going"}

EvtTypes ==
  /\ Evt!TypeOK
  /\ event \in [EventIds -> Evt!Event \cup {Nobody}]
  /\ rsvp \in [EventIds \X Guests -> {"none", "going", "maybe"}]
  /\ pc \in [Reqs -> {"idle", "full", "upsert"}] /\ DOMAIN rq = Reqs
  /\ \A r \in Reqs : pc[r] # "idle" =>
       rq[r] \in [event : EventIds, user : Guests, status : {"going", "maybe"}]

(* Whoever has counted found a place: with them an event is full, and no   *)
(* more than the requests served at once minus that place beyond it.       *)
EvtCounted ==
  \A e \in EventIds : event[e] # Nobody /\ event[e].size > 0 =>
    Cardinality(Going(rsvp, e)) + Cardinality(Late(pc, rq, e)) <= event[e].size - 1 + Cardinality(Reqs)

EvtInv == EvtTypes /\ EvtCounted

LEMMA EvtCard == ASSUME NEW S PROVE Evt!Cardinality(S) = Cardinality(S)
BY DEF Evt!Cardinality, Cardinality

LEMMA EvtNumbers ==
  ASSUME NEW v, NEW p, NEW q, NEW e
  PROVE  /\ IsFiniteSet(Going(v, e)) /\ Cardinality(Going(v, e)) \in Nat
         /\ IsFiniteSet(Late(p, q, e)) /\ Cardinality(Late(p, q, e)) \in Nat
         /\ Cardinality(Reqs) \in Nat /\ Cardinality(Late(p, q, e)) <= Cardinality(Reqs)
<1>1. Going(v, e) \subseteq Guests /\ Late(p, q, e) \subseteq Reqs
  BY DEF Going, Late
<1> QED BY <1>1, FinitelyMany, NobodyIsNoEvent, FS_Subset, FS_CardinalityType

(* What a step of one request makes of those that have counted.            *)
LEMMA EvtGoto ==
  ASSUME EvtTypes, NEW r \in Reqs, NEW step, NEW locals, Evt!Goto(r, step, locals), NEW e
  PROVE  /\ ~(step = "upsert" /\ locals.event = e /\ locals.status = "going") =>
              Cardinality(Late(pc', rq', e)) <= Cardinality(Late(pc, rq, e))
         /\ ~(step = "upsert" /\ locals.event = e /\ locals.status = "going") /\ r \in Late(pc, rq, e) =>
              Cardinality(Late(pc', rq', e)) = Cardinality(Late(pc, rq, e)) - 1
         /\ pc'[r] = step /\ rq'[r] = locals
         /\ \A q \in Reqs \ {r} : pc'[q] = pc[q] /\ rq'[q] = rq[q]
         /\ DOMAIN rq' = Reqs
<1>1. /\ pc'[r] = step /\ rq'[r] = locals
      /\ \A q \in Reqs \ {r} : pc'[q] = pc[q] /\ rq'[q] = rq[q]
      /\ DOMAIN rq' = Reqs
  BY DEF Evt!Goto, EvtTypes
<1> DEFINE S == Late(pc, rq, e)
           T == Late(pc', rq', e)
<1>2. S \ {r} = T \ {r} /\ (r \in T <=> step = "upsert" /\ locals.event = e /\ locals.status = "going")
  BY <1>1 DEF Late
<1>3. IsFiniteSet(S) /\ Cardinality(S) \in Nat /\ Cardinality(T) \in Nat
  BY EvtNumbers
<1> HIDE DEF S, T
<1>4. /\ (r \in S <=> r \in T) => T = S
      /\ r \in S /\ r \notin T => Cardinality(T) = Cardinality(S) - 1
  BY <1>2, <1>3, OneMoves
<1>5. r \notin T => Cardinality(T) <= Cardinality(S)
  BY <1>3, <1>4
<1> QED BY <1>1, <1>2, <1>4, <1>5 DEF S, T

(* The requests' types survive such a step.                                *)
LEMMA EvtGotoTypes ==
  ASSUME EvtTypes, NEW r \in Reqs, NEW step \in {"idle", "full", "upsert"}, NEW locals,
         Evt!Goto(r, step, locals),
         \/ step = "idle" /\ locals = Evt!Blank
         \/ step # "idle" /\ locals \in [event : EventIds, user : Guests, status : {"going", "maybe"}]
  PROVE  /\ pc' \in [Reqs -> {"idle", "full", "upsert"}] /\ DOMAIN rq' = Reqs
         /\ \A q \in Reqs : pc'[q] # "idle" =>
              rq'[q] \in [event : EventIds, user : Guests, status : {"going", "maybe"}]
         /\ \A q \in Reqs : pc'[q] = "idle" <=> rq'[q] = Evt!Blank
<1>1. /\ pc'[r] = step /\ rq'[r] = locals
      /\ \A q \in Reqs \ {r} : pc'[q] = pc[q] /\ rq'[q] = rq[q]
      /\ DOMAIN rq' = Reqs
  BY EvtGoto
<1>2. pc' \in [Reqs -> {"idle", "full", "upsert"}]
  BY DEF EvtTypes, Evt!Goto
<1>3. step # "idle" => locals # Evt!Blank
  <2>1. "none" \notin {"going", "maybe"} /\ Evt!Blank.status = "none"
    BY DEF Evt!Blank
  <2> QED BY <2>1
<1>4. \A q \in Reqs : pc[q] = "idle" <=> rq[q] = Evt!Blank
  BY DEF EvtTypes, Evt!TypeOK
<1>5. \A q \in Reqs : pc'[q] = "idle" <=> rq'[q] = Evt!Blank
  BY <1>1, <1>3, <1>4
<1> QED BY <1>1, <1>2, <1>5 DEF EvtTypes

-----------------------------------------------------------------------------
LEMMA EvtCreateKeeps ==
  ASSUME EvtInv, NEW e \in EventIds, NEW row \in Evt!Event, Evt!create_event(e, row) PROVE EvtInv'
<1>0. EvtTypes /\ event[e] = Nobody /\ (\A r \in Reqs : rq[r].event # e) /\ UNCHANGED <<rsvp, pc, rq>>
      /\ (row.over => row.ends)
  BY DEF EvtInv, Evt!create_event, Evt!Exists
<1>1. event' = [event EXCEPT ![e] = row] /\ event \in [EventIds -> Evt!Event \cup {Nobody}]
  BY <1>0 DEF Evt!create_event, EvtTypes
<1>2. /\ event' \in [EventIds -> Evt!Event \cup {Nobody}] /\ event'[e] = row
      /\ \A f \in EventIds \ {e} : event'[f] = event[f]
  BY <1>1
<1>3. EvtTypes'
  <2>1. \A f \in EventIds : event'[f] # Nobody => event'[f] \in Evt!Event /\ (event'[f].over => event'[f].ends)
    BY <1>0, <1>2 DEF EvtTypes, Evt!TypeOK, Evt!Exists
  <2>2. \A f \in EventIds : event'[f] = Nobody => event[f] = Nobody
    BY <1>0, <1>2
  <2>3. Evt!TypeOK'
    BY <1>0, <2>1, <2>2 DEF EvtTypes, Evt!TypeOK, Evt!Exists, Evt!Coming
  <2> QED BY <1>0, <1>2, <2>3 DEF EvtTypes
<1>4. EvtCounted'
  <2> SUFFICES ASSUME NEW f \in EventIds, event'[f] # Nobody, event'[f].size > 0
               PROVE  Cardinality(Going(rsvp, f)) + Cardinality(Late(pc, rq, f)) <= event'[f].size - 1 + Cardinality(Reqs)
    BY <1>0 DEF EvtCounted
  <2>1. CASE f = e
    <3>1. Going(rsvp, e) = {}
      BY <1>0 DEF EvtTypes, Evt!TypeOK, Evt!Exists, Evt!Coming, Going
    <3>2. Late(pc, rq, e) = {}
      BY <1>0 DEF Late
    <3>3. row.size \in Nat /\ row.size > 0
      BY <2>1, <1>2, NobodyIsNoEvent DEF Evt!Event
    <3>4. Cardinality(Reqs) \in Nat
      BY EvtNumbers
    <3>5. Cardinality(Going(rsvp, e)) = 0 /\ Cardinality(Late(pc, rq, e)) = 0
      BY <3>1, <3>2, FS_EmptySet
    <3> QED BY <2>1, <1>2, <3>3, <3>4, <3>5
  <2>2. CASE f # e
    BY <2>2, <1>2 DEF EvtInv, EvtCounted
  <2> QED BY <2>1, <2>2
<1> QED BY <1>3, <1>4 DEF EvtInv

LEMMA EvtDeleteKeeps ==
  ASSUME EvtInv, NEW e \in EventIds, NEW u \in Guests, Evt!delete_event(e, u) PROVE EvtInv'
<1>0. EvtTypes /\ UNCHANGED <<pc, rq>> /\ event' = [event EXCEPT ![e] = Nobody]
  BY DEF EvtInv, Evt!delete_event
<1>1. /\ event' \in [EventIds -> Evt!Event \cup {Nobody}] /\ event'[e] = Nobody
      /\ \A f \in EventIds \ {e} : event'[f] = event[f]
  BY <1>0 DEF EvtTypes
<1>2. rsvp' = [x \in EventIds \X Guests |-> IF x[1] = e THEN "none" ELSE rsvp[x]]
  BY <1>0 DEF EvtTypes, Evt!delete_event
<1>3. rsvp' \in [EventIds \X Guests -> {"none", "going", "maybe"}]
  BY <1>0, <1>2 DEF EvtTypes
<1>4. \A f \in EventIds, v \in Guests : rsvp'[<<f, v>>] = IF f = e THEN "none" ELSE rsvp[<<f, v>>]
  BY <1>2
<1>5. EvtTypes'
  <2>1. Evt!Coming(e)' = {}
    BY <1>4 DEF Evt!Coming
  <2>2. \A f \in EventIds \ {e} : Evt!Coming(f)' = Evt!Coming(f)
    BY <1>4 DEF Evt!Coming
  <2>3. Evt!TypeOK'
    BY <1>0, <1>1, <2>1, <2>2 DEF EvtTypes, Evt!TypeOK, Evt!Exists
  <2> QED BY <1>0, <1>1, <1>3, <2>3 DEF EvtTypes
<1>6. EvtCounted'
  <2> SUFFICES ASSUME NEW f \in EventIds, event'[f] # Nobody, event'[f].size > 0
               PROVE  Cardinality(Going(rsvp', f)) + Cardinality(Late(pc, rq, f)) <= event'[f].size - 1 + Cardinality(Reqs)
    BY <1>0 DEF EvtCounted
  <2>1. f # e /\ event'[f] = event[f]
    BY <1>1
  <2>2. Going(rsvp', f) = Going(rsvp, f)
    BY <1>4, <2>1 DEF Going
  <2> QED BY <2>1, <2>2 DEF EvtInv, EvtCounted
<1> QED BY <1>5, <1>6 DEF EvtInv

(* Time passes; nothing that is counted changes.                           *)
LEMMA EvtTimeKeeps == ASSUME EvtInv, NEW e \in EventIds, Evt!Ends(e) \/ Evt!Ages(e) PROVE EvtInv'
<1>0. EvtTypes /\ event[e] # Nobody /\ UNCHANGED <<rsvp, pc, rq>>
  BY DEF EvtInv, Evt!Ends, Evt!Ages, Evt!Exists
<1>1. event \in [EventIds -> Evt!Event \cup {Nobody}] /\ event[e] \in Evt!Event /\ (event[e].over => event[e].ends)
  BY <1>0 DEF EvtTypes, Evt!TypeOK, Evt!Exists
<1> DEFINE row == event'[e]
<1>2. row \in Evt!Event /\ row.size = event[e].size /\ (row.over => row.ends)
  <2>1. CASE Evt!Ends(e)
    <3>1. row = [event[e] EXCEPT !.over = TRUE] /\ event[e].ends
      BY <2>1, <1>1 DEF Evt!Ends
    <3> HIDE DEF row
    <3> QED BY <3>1, <1>1 DEF Evt!Event
  <2>2. CASE Evt!Ages(e)
    <3>1. row = [event[e] EXCEPT !.old = TRUE]
      BY <2>2, <1>1 DEF Evt!Ages
    <3> HIDE DEF row
    <3> QED BY <3>1, <1>1 DEF Evt!Event
  <2> QED BY <2>1, <2>2
<1>3. (\A f \in EventIds \ {e} : event'[f] = event[f]) /\ event' \in [EventIds -> Evt!Event \cup {Nobody}]
  <2>1. event' = [event EXCEPT ![e] = row]
    BY <1>1 DEF Evt!Ends, Evt!Ages
  <2> HIDE DEF row
  <2> QED BY <2>1, <1>1, <1>2
<1>4. row # Nobody
  BY <1>2, NobodyIsNoEvent
<1> HIDE DEF row
<1>5. \A f \in EventIds : (event'[f] = Nobody <=> event[f] = Nobody) /\ (event[f] # Nobody => event'[f].size = event[f].size)
  BY <1>0, <1>2, <1>3, <1>4 DEF row
<1>6. \A f \in EventIds : event'[f] # Nobody => event'[f] \in Evt!Event /\ (event'[f].over => event'[f].ends)
  BY <1>0, <1>2, <1>3 DEF row, EvtTypes, Evt!TypeOK, Evt!Exists
<1>7. Evt!TypeOK'
  BY <1>0, <1>5, <1>6 DEF EvtTypes, Evt!TypeOK, Evt!Exists, Evt!Coming
<1>8. EvtTypes'
  BY <1>0, <1>3, <1>7 DEF EvtTypes
<1>9. EvtCounted'
  BY <1>0, <1>5 DEF EvtInv, EvtCounted
<1> QED BY <1>8, <1>9 DEF EvtInv

-----------------------------------------------------------------------------
(* Fewer that have counted, and the same answers.                          *)
LEMMA EvtFewer ==
  ASSUME EvtInv, UNCHANGED <<event, rsvp>>,
         \A f : Cardinality(Late(pc', rq', f)) <= Cardinality(Late(pc, rq, f))
  PROVE  EvtCounted'
<1> SUFFICES ASSUME NEW f \in EventIds, event[f] # Nobody, event[f].size > 0
             PROVE  Cardinality(Going(rsvp, f)) + Cardinality(Late(pc', rq', f)) <= event[f].size - 1 + Cardinality(Reqs)
  BY DEF EvtCounted
<1>1. event[f].size \in Nat
  BY NobodyIsNoEvent DEF EvtInv, EvtTypes, Evt!Event
<1>2. Cardinality(Going(rsvp, f)) + Cardinality(Late(pc, rq, f)) <= event[f].size - 1 + Cardinality(Reqs)
  BY DEF EvtInv, EvtCounted
<1>3. /\ Cardinality(Late(pc', rq', f)) \in Nat /\ Cardinality(Late(pc, rq, f)) \in Nat
      /\ Cardinality(Reqs) \in Nat /\ Cardinality(Going(rsvp, f)) \in Nat
  BY EvtNumbers
<1>4. Cardinality(Late(pc', rq', f)) <= Cardinality(Late(pc, rq, f))
  OBVIOUS
<1> QED BY <1>1, <1>2, <1>3, <1>4

LEMMA EvtAttendKeeps ==
  ASSUME EvtInv, NEW r \in Reqs, NEW e \in EventIds, NEW u \in Guests, NEW status \in {"going", "maybe"},
         Evt!Attend(r, e, u, status)
  PROVE  EvtInv'
<1> DEFINE step == IF status = "going" THEN "full" ELSE "upsert"
           locals == [event |-> e, user |-> u, status |-> status]
<1>0. EvtTypes /\ UNCHANGED <<event, rsvp>> /\ Evt!Goto(r, step, locals)
  BY DEF EvtInv, Evt!Attend
<1>1. /\ step \in {"idle", "full", "upsert"} /\ step # "idle"
      /\ locals \in [event : EventIds, user : Guests, status : {"going", "maybe"}]
      /\ ~(step = "upsert" /\ locals.status = "going")
  OBVIOUS
<1> HIDE DEF step, locals
<1>2. /\ pc' \in [Reqs -> {"idle", "full", "upsert"}] /\ DOMAIN rq' = Reqs
      /\ \A q \in Reqs : pc'[q] # "idle" =>
           rq'[q] \in [event : EventIds, user : Guests, status : {"going", "maybe"}]
      /\ \A q \in Reqs : pc'[q] = "idle" <=> rq'[q] = Evt!Blank
  BY <1>0, <1>1, EvtGotoTypes
<1>3. Evt!TypeOK'
  BY <1>0, <1>2 DEF EvtTypes, Evt!TypeOK, Evt!Exists, Evt!Coming
<1>4. EvtTypes'
  BY <1>0, <1>2, <1>3 DEF EvtTypes
<1>5. \A f : Cardinality(Late(pc', rq', f)) <= Cardinality(Late(pc, rq, f))
  BY <1>0, <1>1, EvtGoto
<1> QED BY <1>0, <1>4, <1>5, EvtFewer DEF EvtInv

LEMMA EvtCheckKeeps == ASSUME EvtInv, NEW r \in Reqs, Evt!CheckCapacity(r) PROVE EvtInv'
<1>0. EvtTypes /\ UNCHANGED <<event, rsvp>> /\ pc[r] = "full"
  BY DEF EvtInv, Evt!CheckCapacity
<1> DEFINE e == rq[r].event
<1>1. rq[r] \in [event : EventIds, user : Guests, status : {"going", "maybe"}] /\ e \in EventIds
  BY <1>0 DEF EvtTypes
<1>2. CASE Evt!is_event_full(e)
  <2>1. Evt!Goto(r, "idle", Evt!Blank)
    BY <1>0, <1>2 DEF Evt!CheckCapacity, Evt!Finish
  <2>2. EvtTypes'
    <3>1. /\ pc' \in [Reqs -> {"idle", "full", "upsert"}] /\ DOMAIN rq' = Reqs
          /\ \A q \in Reqs : pc'[q] # "idle" =>
               rq'[q] \in [event : EventIds, user : Guests, status : {"going", "maybe"}]
          /\ \A q \in Reqs : pc'[q] = "idle" <=> rq'[q] = Evt!Blank
      BY <1>0, <2>1, EvtGotoTypes
    <3>2. Evt!TypeOK'
      BY <1>0, <3>1 DEF EvtTypes, Evt!TypeOK, Evt!Exists, Evt!Coming
    <3> QED BY <1>0, <3>1, <3>2 DEF EvtTypes
  <2>3. \A f : Cardinality(Late(pc', rq', f)) <= Cardinality(Late(pc, rq, f))
    BY <1>0, <2>1, EvtGoto
  <2> QED BY <1>0, <2>2, <2>3, EvtFewer DEF EvtInv
<1>3. CASE ~Evt!is_event_full(e)
  <2>1. Evt!Goto(r, "upsert", rq[r])
    BY <1>0, <1>3 DEF Evt!CheckCapacity
  <2>2. EvtTypes'
    <3>1. /\ pc' \in [Reqs -> {"idle", "full", "upsert"}] /\ DOMAIN rq' = Reqs
          /\ \A q \in Reqs : pc'[q] # "idle" =>
               rq'[q] \in [event : EventIds, user : Guests, status : {"going", "maybe"}]
          /\ \A q \in Reqs : pc'[q] = "idle" <=> rq'[q] = Evt!Blank
      BY <1>0, <1>1, <2>1, EvtGotoTypes
    <3>2. Evt!TypeOK'
      BY <1>0, <3>1 DEF EvtTypes, Evt!TypeOK, Evt!Exists, Evt!Coming
    <3> QED BY <1>0, <3>1, <3>2 DEF EvtTypes
  <2>3. ASSUME NEW f \in EventIds, event[f] # Nobody, event[f].size > 0
        PROVE  Cardinality(Going(rsvp, f)) + Cardinality(Late(pc', rq', f)) <= event[f].size - 1 + Cardinality(Reqs)
    <3>1. event[f].size \in Nat
      BY <1>0, <2>3, NobodyIsNoEvent DEF EvtTypes, Evt!Event
    <3>2. CASE f = e
      <4>1. Cardinality(Evt!Coming(f)) < event[f].size
        <5>1. ~(Cardinality(Evt!Coming(f)) >= event[f].size)
          BY <1>3, <2>3, <3>2, EvtCard DEF Evt!is_event_full, Evt!Full, Evt!Exists
        <5>2. Cardinality(Evt!Coming(f)) \in Nat
          <6>1. Evt!Coming(f) \subseteq Guests
            BY DEF Evt!Coming
          <6> QED BY <6>1, NobodyIsNoEvent, FS_Subset, FS_CardinalityType
        <5> QED BY <5>1, <5>2, <3>1
      <4>2. Cardinality(Going(rsvp, f)) <= Cardinality(Evt!Coming(f)) /\ Cardinality(Evt!Coming(f)) \in Nat
        <5>1. Evt!Coming(f) \subseteq Guests /\ Going(rsvp, f) \subseteq Evt!Coming(f)
          BY DEF Evt!Coming, Going
        <5> QED BY <5>1, NobodyIsNoEvent, FS_Subset, FS_CardinalityType
      <4>3. /\ Cardinality(Late(pc', rq', f)) <= Cardinality(Reqs) /\ Cardinality(Late(pc', rq', f)) \in Nat
            /\ Cardinality(Reqs) \in Nat /\ Cardinality(Going(rsvp, f)) \in Nat
        BY EvtNumbers
      <4> QED BY <3>1, <4>1, <4>2, <4>3
    <3>3. CASE f # e
      <4>1. Cardinality(Late(pc', rq', f)) <= Cardinality(Late(pc, rq, f))
        BY <1>0, <2>1, <3>3, EvtGoto
      <4>2. Cardinality(Going(rsvp, f)) + Cardinality(Late(pc, rq, f)) <= event[f].size - 1 + Cardinality(Reqs)
        BY <2>3 DEF EvtInv, EvtCounted
      <4>3. /\ Cardinality(Late(pc', rq', f)) \in Nat /\ Cardinality(Late(pc, rq, f)) \in Nat
            /\ Cardinality(Reqs) \in Nat /\ Cardinality(Going(rsvp, f)) \in Nat
        BY EvtNumbers
      <4> QED BY <3>1, <4>1, <4>2, <4>3
    <3> QED BY <3>2, <3>3
  <2> QED BY <1>0, <2>2, <2>3 DEF EvtInv, EvtCounted
<1> QED BY <1>2, <1>3

LEMMA EvtUpsertKeeps == ASSUME EvtInv, NEW r \in Reqs, Evt!upsert_attendee(r) PROVE EvtInv'
<1> DEFINE e == rq[r].event
           u == rq[r].user
           s == rq[r].status
<1>0. EvtTypes /\ UNCHANGED event /\ pc[r] = "upsert" /\ Evt!Goto(r, "idle", Evt!Blank)
  BY DEF EvtInv, Evt!upsert_attendee, Evt!Finish
<1>1. e \in EventIds /\ u \in Guests /\ s \in {"going", "maybe"}
  BY <1>0 DEF EvtTypes
<1>2. /\ pc' \in [Reqs -> {"idle", "full", "upsert"}] /\ DOMAIN rq' = Reqs
      /\ \A q \in Reqs : pc'[q] # "idle" =>
           rq'[q] \in [event : EventIds, user : Guests, status : {"going", "maybe"}]
      /\ \A q \in Reqs : pc'[q] = "idle" <=> rq'[q] = Evt!Blank
  BY <1>0, EvtGotoTypes
<1>3. \A f : Cardinality(Late(pc', rq', f)) <= Cardinality(Late(pc, rq, f))
  BY <1>0, EvtGoto
<1>4. CASE event[e] = Nobody
  <2>1. UNCHANGED rsvp
    BY <1>4 DEF Evt!upsert_attendee, Evt!Exists
  <2>2. Evt!TypeOK'
    BY <1>0, <1>2, <2>1 DEF EvtTypes, Evt!TypeOK, Evt!Exists, Evt!Coming
  <2>3. EvtTypes'
    BY <1>0, <1>2, <2>1, <2>2 DEF EvtTypes
  <2> QED BY <1>0, <1>3, <2>1, <2>3, EvtFewer DEF EvtInv
<1>5. CASE event[e] # Nobody
  <2>1. rsvp' = [rsvp EXCEPT ![<<e, u>>] = s] /\ rsvp \in [EventIds \X Guests -> {"none", "going", "maybe"}]
    BY <1>0, <1>5 DEF Evt!upsert_attendee, Evt!Exists, EvtTypes
  <2>2. /\ rsvp' \in [EventIds \X Guests -> {"none", "going", "maybe"}] /\ rsvp'[<<e, u>>] = s
        /\ \A f \in EventIds, v \in Guests : <<f, v>> # <<e, u>> => rsvp'[<<f, v>>] = rsvp[<<f, v>>]
    BY <1>1, <2>1
  <2>3. \A f \in EventIds \ {e} : Evt!Coming(f)' = Evt!Coming(f) /\ Going(rsvp', f) = Going(rsvp, f)
    BY <2>2 DEF Evt!Coming, Going
  <2>4. Evt!TypeOK'
    BY <1>0, <1>2, <1>5, <2>3 DEF EvtTypes, Evt!TypeOK, Evt!Exists
  <2>5. EvtTypes'
    BY <1>0, <1>2, <2>2, <2>4 DEF EvtTypes
  <2>6. ASSUME NEW f \in EventIds, event[f] # Nobody, event[f].size > 0
        PROVE  Cardinality(Going(rsvp', f)) + Cardinality(Late(pc', rq', f)) <= event[f].size - 1 + Cardinality(Reqs)
    <3> DEFINE G == Going(rsvp, f)
               H == Going(rsvp', f)
               A == Late(pc, rq, f)
               B == Late(pc', rq', f)
    <3> SUFFICES Cardinality(H) + Cardinality(B) <= event[f].size - 1 + Cardinality(Reqs)
      OBVIOUS
    <3>1. event[f].size \in Nat
      BY <1>0, <2>6, NobodyIsNoEvent DEF EvtTypes, Evt!Event
    <3>2. Cardinality(G) + Cardinality(A) <= event[f].size - 1 + Cardinality(Reqs)
      BY <2>6 DEF EvtInv, EvtCounted
    <3>3. /\ IsFiniteSet(G) /\ Cardinality(G) \in Nat /\ Cardinality(H) \in Nat
          /\ Cardinality(A) \in Nat /\ Cardinality(B) \in Nat /\ Cardinality(Reqs) \in Nat
      BY EvtNumbers
    <3>4. Cardinality(B) <= Cardinality(A)
      BY <1>3
    <3>5. CASE f # e
      BY <3>1, <3>2, <3>3, <3>4, <3>5, <2>3
    <3>6. CASE f = e
      <4>1. G \ {u} = H \ {u} /\ (u \in H <=> s = "going")
        BY <3>6, <1>1, <2>2 DEF Going
      <4>2. s = "going" => Cardinality(B) = Cardinality(A) - 1
        <5>1. s = "going" => r \in A
          BY <3>6, <1>0 DEF Late
        <5> QED BY <5>1, <1>0, EvtGoto
      <4> HIDE DEF G, H, A, B
      <4>3. /\ (u \in G <=> u \in H) => H = G
            /\ u \in G /\ u \notin H => Cardinality(H) = Cardinality(G) - 1
            /\ u \notin G /\ u \in H => Cardinality(H) = Cardinality(G) + 1
        BY <3>3, <4>1, OneMoves
      <4>4. CASE s = "going"
        BY <3>1, <3>2, <3>3, <4>1, <4>2, <4>3, <4>4
      <4>5. CASE s # "going"
        BY <3>1, <3>2, <3>3, <3>4, <4>1, <4>3, <4>5
      <4> QED BY <4>4, <4>5
    <3> QED BY <3>5, <3>6
  <2> QED BY <1>0, <2>5, <2>6 DEF EvtInv, EvtCounted
<1> QED BY <1>4, <1>5

LEMMA EvtInitInv == Evt!Init => EvtInv
<1> SUFFICES ASSUME Evt!Init PROVE EvtInv
  OBVIOUS
<1>1. event = [e \in EventIds |-> Nobody] /\ rsvp = [x \in EventIds \X Guests |-> "none"]
      /\ pc = [r \in Reqs |-> "idle"] /\ rq = [r \in Reqs |-> Evt!Blank]
  BY DEF Evt!Init
<1>2. \A e \in EventIds : Evt!Coming(e) = {}
  BY <1>1 DEF Evt!Coming
<1>3. Evt!TypeOK
  BY <1>1, <1>2 DEF Evt!TypeOK, Evt!Exists
<1> QED BY <1>1, <1>3 DEF EvtInv, EvtTypes, EvtCounted

LEMMA EvtStepInv == EvtInv /\ Evt!Next => EvtInv'
BY EvtCreateKeeps, EvtDeleteKeeps, EvtTimeKeeps, EvtAttendKeeps, EvtCheckKeeps, EvtUpsertKeeps DEF Evt!Next

LEMMA EvtInvShows == EvtInv => Evt!GoingBounded
<1> SUFFICES ASSUME EvtInv, NEW e \in EventIds, event[e] # Nobody, event[e].size > 0
             PROVE  Cardinality(Going(rsvp, e)) <= event[e].size + Cardinality(Reqs) - 1
  BY EvtCard DEF Evt!GoingBounded, Evt!Exists, Evt!Going, Going
<1>1. Cardinality(Going(rsvp, e)) + Cardinality(Late(pc, rq, e)) <= event[e].size - 1 + Cardinality(Reqs)
  BY DEF EvtInv, EvtCounted
<1>2. Cardinality(Going(rsvp, e)) \in Nat /\ Cardinality(Late(pc, rq, e)) \in Nat /\ Cardinality(Reqs) \in Nat
  BY EvtNumbers
<1>3. event[e].size \in Nat
  BY NobodyIsNoEvent DEF EvtInv, EvtTypes, Evt!Event
<1> QED BY <1>1, <1>2, <1>3

-----------------------------------------------------------------------------
(***************************************************************************)
(* Onboarding.  Whoever stores the last card is still to ask whether it    *)
(* was the last.                                                           *)
(***************************************************************************)

CardSteps == {"idle", "card", "try", "upsert", "lists", "meta"}
Asking(p) == \E r \in Reqs : p[r] = "try"

CardTypes == Card!TypeOK /\ pc \in [Reqs -> CardSteps] /\ DOMAIN rq = Reqs

(* Once all is there, by a card, its call is still to ask or has done so.  *)
CardAsks == Card!AllDone /\ ~elsewhere /\ ~completed => Asking(pc)

CardInv == CardTypes /\ CardAsks

LEMMA CardGoto ==
  ASSUME CardTypes, NEW r \in Reqs, NEW step \in CardSteps, NEW q, Card!Goto(r, step, q),
         step = "idle" => q = Card!Blank
  PROVE  /\ pc' \in [Reqs -> CardSteps] /\ DOMAIN rq' = Reqs
         /\ \A x \in Reqs : pc'[x] = "idle" => rq'[x] = Card!Blank
         /\ pc'[r] = step /\ (step = "try" => Asking(pc'))
         /\ pc[r] # "try" => (Asking(pc) => Asking(pc'))
<1>1. /\ pc'[r] = step /\ rq'[r] = q /\ DOMAIN rq' = Reqs
      /\ \A x \in Reqs \ {r} : pc'[x] = pc[x] /\ rq'[x] = rq[x]
  BY DEF Card!Goto, CardTypes
<1>2. pc' \in [Reqs -> CardSteps]
  BY DEF Card!Goto, CardTypes
<1>3. \A x \in Reqs : pc[x] = "idle" => rq[x] = Card!Blank
  BY DEF CardTypes, Card!TypeOK
<1>4. \A x \in Reqs : pc'[x] = "idle" => rq'[x] = Card!Blank
  BY <1>1, <1>3
<1>5. (step = "try" => Asking(pc')) /\ (pc[r] # "try" => (Asking(pc) => Asking(pc')))
  BY <1>1 DEF Asking
<1> QED BY <1>1, <1>2, <1>4, <1>5

(* Only a card, whose call is to ask, may be the last piece.               *)
LEMMA CardWrite ==
  ASSUME CardInv, NEW add, NEW del, NEW byCard \in BOOLEAN, Card!Write(add, del, byCard)
  PROVE  /\ filled' \subseteq Card!Named \cup Card!Optional
         /\ photos' \in 0..MaxPhotos /\ elsewhere' \in BOOLEAN
         /\ Card!AllDone' /\ ~elsewhere' => byCard \/ (Card!AllDone /\ ~elsewhere)
<1>0. /\ filled \subseteq Card!Named \cup Card!Optional /\ photos \in 0..MaxPhotos /\ elsewhere \in BOOLEAN
      /\ MaxPhotos \in Nat
  BY CardsDiffer DEF CardInv, CardTypes, Card!TypeOK
<1>1. filled' \subseteq Card!Named \cup Card!Optional
  BY <1>0 DEF Card!Write
<1>2. photos' \in 0..MaxPhotos
  BY <1>0 DEF Card!Write
<1> DEFINE b == Card!AllDone' /\ (elsewhere \/ (~Card!AllDone /\ ~byCard))
<1>3. elsewhere' = b
  BY DEF Card!Write
<1>4. b \in BOOLEAN
  OBVIOUS
<1>5. Card!AllDone' /\ ~b => byCard \/ (Card!AllDone /\ ~elsewhere)
  OBVIOUS
<1> HIDE DEF b
<1> QED BY <1>1, <1>2, <1>3, <1>4, <1>5

(* A step that leaves the rest as it is, and does not stop asking.         *)
LEMMA CardRest ==
  ASSUME CardInv, UNCHANGED <<completed, skipped, incognito>>,
         filled' \subseteq Card!Named \cup Card!Optional, photos' \in 0..MaxPhotos, elsewhere' \in BOOLEAN,
         pc' \in [Reqs -> CardSteps], DOMAIN rq' = Reqs,
         \A x \in Reqs : pc'[x] = "idle" => rq'[x] = Card!Blank,
         Card!AllDone' /\ ~elsewhere' => Asking(pc') \/ (Card!AllDone /\ ~elsewhere),
         Asking(pc) => Asking(pc')
  PROVE  CardInv'
<1>1. Card!TypeOK'
  BY DEF CardInv, CardTypes, Card!TypeOK
<1>2. CardTypes'
  BY <1>1 DEF CardTypes
<1>3. CardAsks'
  BY DEF CardInv, CardAsks
<1> QED BY <1>2, <1>3 DEF CardInv

-----------------------------------------------------------------------------
LEMMA CardCallKeeps ==
  ASSUME CardInv, NEW r \in Reqs,
         \/ \E card, empty : Card!CompleteCard(r, card, empty)
         \/ \E edit : Card!UpdateOwn(r, edit)
  PROVE  CardInv'
<1>0. CardTypes /\ pc[r] = "idle" /\ UNCHANGED <<filled, photos, completed, skipped, incognito, elsewhere>>
  BY DEF CardInv, Card!CompleteCard, Card!UpdateOwn, Card!row
<1>1. PICK step \in {"card", "upsert"} : \E q : Card!Goto(r, step, q)
  BY DEF Card!CompleteCard, Card!UpdateOwn
<1>2. PICK q : Card!Goto(r, step, q)
  BY <1>1
<1>3. /\ pc' \in [Reqs -> CardSteps] /\ DOMAIN rq' = Reqs /\ (Asking(pc) => Asking(pc'))
      /\ \A x \in Reqs : pc'[x] = "idle" => rq'[x] = Card!Blank
  <2>1. step \in CardSteps /\ step # "idle" /\ pc[r] # "try"
    BY <1>0 DEF CardSteps
  <2> QED BY <1>0, <1>2, <2>1, CardGoto
<1>4. Card!TypeOK'
  BY <1>0, <1>3 DEF CardTypes, Card!TypeOK
<1>5. CardAsks'
  BY <1>0, <1>3 DEF CardInv, CardAsks, Card!AllDone
<1> QED BY <1>3, <1>4, <1>5 DEF CardInv, CardTypes

LEMMA CardSetKeeps == ASSUME CardInv, NEW r \in Reqs, Card!SetCard(r) PROVE CardInv'
<1>0. /\ CardTypes /\ pc[r] = "card" /\ UNCHANGED <<completed, skipped, incognito>>
      /\ Card!Write(rq[r].add, rq[r].del, TRUE) /\ Card!Goto(r, "try", Card!Blank)
  BY DEF CardInv, Card!SetCard, Card!StoreCard
<1>1. "try" \in CardSteps
  BY DEF CardSteps
<1>2. /\ pc' \in [Reqs -> CardSteps] /\ DOMAIN rq' = Reqs /\ Asking(pc')
      /\ \A x \in Reqs : pc'[x] = "idle" => rq'[x] = Card!Blank
  BY <1>0, <1>1, CardGoto
<1>3. filled' \subseteq Card!Named \cup Card!Optional /\ photos' \in 0..MaxPhotos /\ elsewhere' \in BOOLEAN
  BY <1>0, CardWrite
<1> QED BY <1>0, <1>2, <1>3, CardRest

LEMMA CardTryKeeps == ASSUME CardInv, NEW r \in Reqs, Card!try_complete_onboarding(r) PROVE CardInv'
<1> DEFINE b == completed \/ Card!AllDone
<1>0. /\ CardTypes /\ UNCHANGED <<filled, photos, skipped, incognito, elsewhere>>
      /\ completed' = b /\ Card!Goto(r, "idle", Card!Blank)
  BY DEF CardInv, Card!try_complete_onboarding, Card!Finish, Card!row
<1>1. "idle" \in CardSteps
  BY DEF CardSteps
<1>2. /\ pc' \in [Reqs -> CardSteps] /\ DOMAIN rq' = Reqs
      /\ \A x \in Reqs : pc'[x] = "idle" => rq'[x] = Card!Blank
  BY <1>0, <1>1, CardGoto
<1>3. b \in BOOLEAN /\ (Card!AllDone => b) /\ (Card!AllDone' => Card!AllDone)
  BY <1>0 DEF Card!AllDone
<1> HIDE DEF b
<1>4. Card!TypeOK'
  BY <1>0, <1>2, <1>3 DEF CardTypes, Card!TypeOK
<1>5. CardAsks'
  BY <1>0, <1>3 DEF CardAsks
<1> QED BY <1>2, <1>4, <1>5 DEF CardInv, CardTypes

LEMMA CardFailKeeps == ASSUME CardInv, NEW r \in Reqs, Card!Fail(r) PROVE CardInv'
<1> DEFINE b == elsewhere \/ (pc[r] = "try" /\ Card!AllDone)
<1>0. /\ CardTypes /\ UNCHANGED <<filled, photos, completed, skipped, incognito>>
      /\ elsewhere' = b /\ Card!Goto(r, "idle", Card!Blank)
  BY DEF CardInv, Card!Fail, Card!Finish, Card!row
<1>1. "idle" \in CardSteps
  BY DEF CardSteps
<1>2. /\ pc' \in [Reqs -> CardSteps] /\ DOMAIN rq' = Reqs
      /\ \A x \in Reqs : pc'[x] = "idle" => rq'[x] = Card!Blank
      /\ pc[r] # "try" => (Asking(pc) => Asking(pc'))
  BY <1>0, <1>1, CardGoto
<1>3. /\ b \in BOOLEAN /\ (~b => ~elsewhere) /\ (Card!AllDone /\ ~b => pc[r] # "try")
      /\ (Card!AllDone' => Card!AllDone)
  BY <1>0 DEF Card!AllDone
<1> HIDE DEF b
<1>4. Card!TypeOK'
  BY <1>0, <1>2, <1>3 DEF CardTypes, Card!TypeOK
<1>5. CardAsks'
  BY <1>0, <1>2, <1>3 DEF CardInv, CardAsks
<1> QED BY <1>2, <1>4, <1>5 DEF CardInv, CardTypes

LEMMA CardOneKeeps ==
  ASSUME CardInv,
         \/ \E cards : Card!skip_cards(cards)
         \/ \E hide \in BOOLEAN : Card!update_preferences(hide)
         \/ Card!force_complete \/ Card!CreatePhoto \/ Card!DeletePhoto
  PROVE  CardInv'
<1>0. CardTypes /\ UNCHANGED <<pc, rq>>
  BY DEF CardInv, Card!skip_cards, Card!update_preferences, Card!force_complete, Card!CreatePhoto,
         Card!DeletePhoto, Card!One
<1>1. /\ pc' \in [Reqs -> CardSteps] /\ DOMAIN rq' = Reqs /\ (Asking(pc) => Asking(pc'))
      /\ \A x \in Reqs : pc'[x] = "idle" => rq'[x] = Card!Blank
  BY <1>0 DEF CardTypes, Card!TypeOK
<1>2. CASE \E cards : Card!skip_cards(cards)
  <2>1. UNCHANGED <<filled, photos, incognito, completed, elsewhere>> /\ skipped' \subseteq Card!Optional
    BY <1>0, <1>2 DEF Card!skip_cards, Card!row, CardTypes, Card!TypeOK
  <2>2. Card!TypeOK' /\ (Card!AllDone' <=> Card!AllDone)
    BY <1>0, <1>1, <2>1 DEF CardTypes, Card!TypeOK, Card!AllDone
  <2> QED BY <1>0, <1>1, <2>1, <2>2 DEF CardInv, CardTypes, CardAsks
<1>3. CASE \E hide \in BOOLEAN : Card!update_preferences(hide)
  <2>1. UNCHANGED <<filled, photos, skipped, completed, elsewhere>> /\ incognito' \in BOOLEAN
    BY <1>3 DEF Card!update_preferences
  <2>2. Card!TypeOK' /\ (Card!AllDone' <=> Card!AllDone)
    BY <1>0, <1>1, <2>1 DEF CardTypes, Card!TypeOK, Card!AllDone
  <2> QED BY <1>0, <1>1, <2>1, <2>2 DEF CardInv, CardTypes, CardAsks
<1>4. CASE Card!force_complete
  <2>1. UNCHANGED <<filled, photos, skipped, incognito, elsewhere>> /\ completed' = TRUE
    BY <1>4 DEF Card!force_complete, Card!row
  <2>2. Card!TypeOK'
    BY <1>0, <1>1, <2>1 DEF CardTypes, Card!TypeOK
  <2> QED BY <1>0, <1>1, <2>1, <2>2 DEF CardInv, CardTypes, CardAsks
<1>5. CASE Card!CreatePhoto
  <2>1. Card!Write({"photo"}, {}, FALSE) /\ UNCHANGED <<completed, skipped, incognito>>
    BY <1>5 DEF Card!CreatePhoto
  <2>2. /\ filled' \subseteq Card!Named \cup Card!Optional
        /\ photos' \in 0..MaxPhotos /\ elsewhere' \in BOOLEAN
        /\ Card!AllDone' /\ ~elsewhere' => Card!AllDone /\ ~elsewhere
    BY <2>1, CardWrite
  <2> QED BY <1>1, <2>1, <2>2, CardRest
<1>6. CASE Card!DeletePhoto
  <2> DEFINE b == elsewhere /\ photos > 1
  <2>1. UNCHANGED <<filled, completed, skipped, incognito>> /\ photos > 0 /\ photos' = photos - 1 /\ elsewhere' = b
    BY <1>6 DEF Card!DeletePhoto
  <2>2. /\ filled \subseteq Card!Named \cup Card!Optional /\ photos \in 0..MaxPhotos /\ elsewhere \in BOOLEAN
        /\ MaxPhotos \in Nat
    BY CardsDiffer DEF CardInv, CardTypes, Card!TypeOK
  <2>3. photos' \in 0..MaxPhotos /\ (photos' > 0 => photos > 1 /\ photos > 0)
    BY <2>1, <2>2
  <2>4. b \in BOOLEAN
    BY <2>2
  <2>5. Card!AllDone' /\ ~b => Card!AllDone /\ ~elsewhere
    BY <2>1, <2>3 DEF Card!AllDone
  <2> HIDE DEF b
  <2> QED BY <1>1, <2>1, <2>2, <2>3, <2>4, <2>5, CardRest
<1> QED BY <1>2, <1>3, <1>4, <1>5, <1>6

(* The statements of an edit of the profile.                               *)
LEMMA CardPut ==
  ASSUME CardInv, NEW r \in Reqs, pc[r] # "try", NEW step \in CardSteps, NEW q, Card!Goto(r, step, q),
         step = "idle" => q = Card!Blank,
         UNCHANGED <<completed, skipped, incognito>>,
         \/ \E add, del : Card!Write(add, del, FALSE)
         \/ UNCHANGED <<filled, photos, elsewhere>>
  PROVE  CardInv'
<1>0. CardTypes
  BY DEF CardInv
<1>1. /\ pc' \in [Reqs -> CardSteps] /\ DOMAIN rq' = Reqs /\ (Asking(pc) => Asking(pc'))
      /\ \A x \in Reqs : pc'[x] = "idle" => rq'[x] = Card!Blank
  BY <1>0, CardGoto
<1>2. /\ filled' \subseteq Card!Named \cup Card!Optional
      /\ photos' \in 0..MaxPhotos /\ elsewhere' \in BOOLEAN
      /\ Card!AllDone' /\ ~elsewhere' => Card!AllDone /\ ~elsewhere
  <2>1. CASE \E add, del : Card!Write(add, del, FALSE)
    BY <2>1, CardWrite
  <2>2. CASE UNCHANGED <<filled, photos, elsewhere>>
    BY <1>0, <2>2 DEF CardTypes, Card!TypeOK, Card!AllDone
  <2> QED BY <2>1, <2>2
<1> QED BY <1>1, <1>2, CardRest

LEMMA CardEditKeeps ==
  ASSUME CardInv, NEW r \in Reqs,
         Card!upsert_profile(r) \/ (\E l : Card!replace_list(r, l)) \/ Card!patch_profile_meta(r)
  PROVE  CardInv'
<1>1. UNCHANGED <<completed, skipped, incognito>> /\ pc[r] # "try"
  BY DEF Card!upsert_profile, Card!replace_list, Card!patch_profile_meta
<1>2. \/ \E add, del : Card!Write(add, del, FALSE)
      \/ UNCHANGED <<filled, photos, elsewhere>>
  BY DEF Card!upsert_profile, Card!replace_list, Card!patch_profile_meta, Card!Put
<1>3. \/ \E q : Card!Goto(r, "meta", q) \/ Card!Goto(r, "lists", q)
      \/ Card!Goto(r, "idle", Card!Blank)
  BY DEF Card!upsert_profile, Card!replace_list, Card!patch_profile_meta, Card!ToLists, Card!Finish
<1>4. PICK step \in {"meta", "lists", "idle"} : \E q : Card!Goto(r, step, q) /\ (step = "idle" => q = Card!Blank)
  BY <1>3
<1>6. PICK q : Card!Goto(r, step, q) /\ (step = "idle" => q = Card!Blank)
  BY <1>4
<1>5. step \in CardSteps
  BY DEF CardSteps
<1> QED BY <1>1, <1>2, <1>5, <1>6, CardPut

LEMMA CardInitInv == Card!Init => CardInv
<1> SUFFICES ASSUME Card!Init PROVE CardInv
  OBVIOUS
<1>0. photos = 0 /\ photos \in 0..MaxPhotos /\ ~(photos > 0)
  BY CardsDiffer DEF Card!Init
<1>1. Card!TypeOK /\ ~Card!AllDone
  <2>1. filled \subseteq Card!Named \cup Card!Optional
    BY DEF Card!Init, Card!Named
  <2>2. \A r \in Reqs : pc[r] = "idle" => rq[r] = Card!Blank
    BY DEF Card!Init
  <2> QED BY <1>0, <2>1, <2>2 DEF Card!Init, Card!TypeOK, Card!AllDone
<1>2. pc \in [Reqs -> CardSteps] /\ DOMAIN rq = Reqs
  BY DEF Card!Init, CardSteps
<1> QED BY <1>1, <1>2 DEF CardInv, CardTypes, CardAsks

LEMMA CardStepInv == CardInv /\ Card!Next => CardInv'
BY CardCallKeeps, CardSetKeeps, CardTryKeeps, CardFailKeeps, CardOneKeeps, CardEditKeeps DEF Card!Next

LEMMA CardInvShows == CardInv => Card!ShownWhenDone
<1> SUFFICES ASSUME CardInv, \A card \in Card!Required : Card!card_completed(card),
                    ~elsewhere, ~incognito, \A r \in Reqs : pc[r] # "try"
             PROVE  completed
  BY DEF Card!ShownWhenDone, Card!find_nearby_users
<1>1. {"profile_photo", "display_name", "age", "gender_position"} \cap Card!Optional = {}
  BY CardsDiffer DEF Card!Required
<1>2. photos > 0
  BY DEF Card!Required, Card!card_completed
<1>3. Card!card_completed("display_name") /\ Card!card_completed("age") /\ Card!card_completed("gender_position")
  BY DEF Card!Required
<1>4. Card!ColumnsOf("display_name") = {"display_name"}
  BY <1>1 DEF Card!ColumnsOf
<1>5. Card!ColumnsOf("age") = {"dob"}
  BY <1>1 DEF Card!ColumnsOf
<1>6. Card!ColumnsOf("gender_position") = {"gender_identity", "position"}
  BY <1>1 DEF Card!ColumnsOf
<1>7. Card!Named \subseteq filled
  BY <1>3, <1>4, <1>5, <1>6 DEF Card!card_completed, Card!Named
<1>8. ~Asking(pc)
  BY DEF Asking
<1> QED BY <1>2, <1>7, <1>8 DEF CardInv, CardAsks, Card!AllDone

-----------------------------------------------------------------------------
(***************************************************************************)
(* Albums.  A request that goes on is its album's owner's; a photo that an *)
(* album shows is its owner's.                                             *)
(***************************************************************************)

AlbumSteps == {"idle", "add", "remove", "share", "unshare"}
Picture == [by : Users, status : Alb!Statuses, album : AlbumIds \cup {Nobody}]
Given == [revoked : BOOLEAN, ends : Alb!Ends]

(* A photo that an album shows is its owner's.                             *)
PhotoFits(v, q, o) == v = q \/ (v \in Picture /\ (v.album # q => v.by = o[v.album]))

(* What a request is about; its user still owns the album, if it is there. *)
RequestFits(s, q, o) ==
  /\ s # "idle" => q.album \in AlbumIds
  /\ s \in {"add", "share", "unshare"} => q.user \in Users
  /\ s = "add" => o[q.album] \in {q.user, Nobody}
  /\ s = "share" => q.ends \in Alb!Ends

AlbInv ==
  /\ owner \in [AlbumIds -> Users \cup {Nobody}] /\ \A a \in private : owner[a] # Nobody
  /\ DOMAIN photo = Photos /\ \A p \in Photos : PhotoFits(photo[p], Nobody, owner)
  /\ DOMAIN share = AlbumIds \X Users
  /\ \A a \in AlbumIds, u \in Users : share[<<a, u>>] # Nobody => owner[a] # Nobody /\ share[<<a, u>>] \in Given
  /\ now \in Alb!Times
  /\ pc \in [Reqs -> AlbumSteps] /\ DOMAIN rq = Reqs
  /\ \A r \in Reqs : RequestFits(pc[r], rq[r], owner)
  /\ \A r \in Reqs : pc[r] = "idle" => rq[r] = Alb!Blank

LEMMA AlbInvTypes == AlbInv => Alb!TypeOK
<1> SUFFICES ASSUME AlbInv PROVE Alb!TypeOK
  OBVIOUS
<1>1. \A p \in Photos : photo[p] = Nobody \/
        /\ photo[p].by \in Users /\ photo[p].status \in Alb!Statuses
        /\ photo[p].album = Nobody \/ photo[p].by = owner[photo[p].album]
  BY DEF AlbInv, PhotoFits, Picture
<1>2. \A a \in AlbumIds, u \in Users : share[<<a, u>>] = Nobody \/
        /\ owner[a] # Nobody
        /\ share[<<a, u>>] \in [revoked : BOOLEAN, ends : Alb!Ends]
  BY DEF AlbInv, Given
<1> QED BY <1>1, <1>2 DEF AlbInv, Alb!TypeOK

(* The rows stay as they are; one request goes on or ends.                 *)
LEMMA AlbGoto ==
  ASSUME AlbInv, NEW r \in Reqs, NEW step \in AlbumSteps, NEW q,
         pc' = [pc EXCEPT ![r] = step], rq' = [rq EXCEPT ![r] = q],
         RequestFits(step, q, owner), step = "idle" => q = Alb!Blank
  PROVE  /\ pc' \in [Reqs -> AlbumSteps] /\ DOMAIN rq' = Reqs
         /\ \A x \in Reqs : RequestFits(pc'[x], rq'[x], owner)
         /\ \A x \in Reqs : pc'[x] = "idle" => rq'[x] = Alb!Blank
<1>1. pc \in [Reqs -> AlbumSteps] /\ DOMAIN rq = Reqs
  BY DEF AlbInv
<1>2. /\ pc'[r] = step /\ rq'[r] = q /\ DOMAIN rq' = Reqs /\ pc' \in [Reqs -> AlbumSteps]
      /\ \A x \in Reqs \ {r} : pc'[x] = pc[x] /\ rq'[x] = rq[x]
  BY <1>1
<1>3. ASSUME NEW x \in Reqs PROVE RequestFits(pc'[x], rq'[x], owner) /\ (pc'[x] = "idle" => rq'[x] = Alb!Blank)
  <2>1. CASE x = r
    BY <1>2, <2>1
  <2>2. CASE x # r
    BY <1>2, <2>2 DEF AlbInv
  <2> QED BY <2>1, <2>2
<1> QED BY <1>2, <1>3

LEMMA AlbFinish ==
  ASSUME AlbInv, NEW r \in Reqs, Alb!Finish(r)
  PROVE  /\ pc' \in [Reqs -> AlbumSteps] /\ DOMAIN rq' = Reqs /\ now' = now
         /\ \A x \in Reqs : RequestFits(pc'[x], rq'[x], owner)
         /\ \A x \in Reqs : pc'[x] = "idle" => rq'[x] = Alb!Blank
<1>1. "idle" \in AlbumSteps /\ RequestFits("idle", Alb!Blank, owner)
  BY DEF AlbumSteps, RequestFits
<1>2. pc' = [pc EXCEPT ![r] = "idle"] /\ rq' = [rq EXCEPT ![r] = Alb!Blank] /\ now' = now
  BY DEF Alb!Finish
<1> QED BY <1>1, <1>2, AlbGoto

-----------------------------------------------------------------------------
LEMMA AlbCreateKeeps ==
  ASSUME AlbInv, NEW a \in AlbumIds, NEW u \in Users, NEW hidden, Alb!CreateAlbum(a, u, hidden) PROVE AlbInv'
<1>1. /\ UNCHANGED <<photo, share, now, pc, rq>> /\ owner[a] = Nobody /\ \A r \in Reqs : rq[r].album # a
      /\ owner' = [owner EXCEPT ![a] = u] /\ private' \subseteq private \cup {a}
  BY DEF Alb!CreateAlbum
<1>2. /\ owner' \in [AlbumIds -> Users \cup {Nobody}] /\ owner'[a] = u /\ u # Nobody
      /\ \A b \in AlbumIds \ {a} : owner'[b] = owner[b]
  BY <1>1, NobodyHasAlbums DEF AlbInv
<1>3. \A b \in private' : owner'[b] # Nobody
  <2> SUFFICES ASSUME NEW b \in private' PROVE owner'[b] # Nobody
    OBVIOUS
  <2>1. CASE b = a
    BY <1>2, <2>1
  <2>2. CASE b # a
    <3>1. b \in private /\ owner'[b] = owner[b]
      BY <1>1, <2>2 DEF AlbInv
    <3> QED BY <3>1 DEF AlbInv
  <2> QED BY <2>1, <2>2
<1>4. ASSUME NEW p \in Photos PROVE PhotoFits(photo[p], Nobody, owner')
  <2>1. PhotoFits(photo[p], Nobody, owner)
    BY DEF AlbInv
  <2>2. CASE photo[p] # Nobody
    <3>1. photo[p] \in Picture /\ (photo[p].album # Nobody => photo[p].by = owner[photo[p].album])
      BY <2>1, <2>2 DEF PhotoFits
    <3>2. photo[p].by \in Users /\ photo[p].album \in AlbumIds \cup {Nobody}
      BY <3>1 DEF Picture
    <3>3. photo[p].album # a
      BY <3>1, <3>2, <1>1, NobodyHasAlbums
    <3> QED BY <3>1, <3>2, <3>3, <1>2 DEF PhotoFits
  <2> QED BY <2>2 DEF PhotoFits
<1>5. ASSUME NEW r \in Reqs PROVE RequestFits(pc[r], rq[r], owner')
  BY <1>1, <1>2 DEF AlbInv, RequestFits
<1>6. \A b \in AlbumIds, v \in Users : share[<<b, v>>] # Nobody => owner'[b] # Nobody
  BY <1>2 DEF AlbInv
<1> QED BY <1>1, <1>2, <1>3, <1>4, <1>5, <1>6 DEF AlbInv

LEMMA AlbUpdateKeeps ==
  ASSUME AlbInv, NEW a \in AlbumIds, NEW u \in Users, NEW hidden, Alb!update_album(a, u, hidden) PROVE AlbInv'
<1>1. UNCHANGED <<owner, photo, share, now, pc, rq>> /\ owner[a] # Nobody /\ private' \subseteq private \cup {a}
  BY DEF Alb!update_album
<1> QED BY <1>1 DEF AlbInv

LEMMA AlbDeleteKeeps ==
  ASSUME AlbInv, NEW a \in AlbumIds, NEW u \in Users, Alb!delete_album(a, u) PROVE AlbInv'
<1>1. /\ UNCHANGED <<now, pc, rq>> /\ private' = private \ {a} /\ owner' = [owner EXCEPT ![a] = Nobody]
  BY DEF Alb!delete_album
<1>2. /\ owner' \in [AlbumIds -> Users \cup {Nobody}] /\ owner'[a] = Nobody
      /\ \A b \in AlbumIds \ {a} : owner'[b] = owner[b]
  BY <1>1 DEF AlbInv
<1>3. \A b \in private' : owner'[b] # Nobody
  <2> SUFFICES ASSUME NEW b \in private' PROVE owner'[b] # Nobody
    OBVIOUS
  <2>1. b \in private /\ b # a /\ owner[b] # Nobody
    BY <1>1 DEF AlbInv
  <2>2. owner'[b] = owner[b]
    BY <1>1, <2>1 DEF AlbInv
  <2> QED BY <2>1, <2>2
<1>4. DOMAIN photo' = Photos /\ \A p \in Photos : photo'[p] =
        IF photo[p] # Nobody /\ photo[p].album = a THEN [photo[p] EXCEPT !.album = Nobody] ELSE photo[p]
  BY DEF Alb!delete_album
<1>5. ASSUME NEW p \in Photos PROVE PhotoFits(photo'[p], Nobody, owner')
  <2>1. PhotoFits(photo[p], Nobody, owner)
    BY DEF AlbInv
  <2>2. CASE photo[p] # Nobody /\ photo[p].album = a
    <3>1. photo[p] \in Picture
      BY <2>1, <2>2 DEF PhotoFits
    <3>2. [photo[p] EXCEPT !.album = Nobody] \in Picture /\ [photo[p] EXCEPT !.album = Nobody].album = Nobody
      BY <3>1 DEF Picture
    <3> QED BY <1>4, <2>2, <3>2 DEF PhotoFits
  <2>3. CASE photo[p] # Nobody /\ photo[p].album # a
    <3>1. photo[p] \in Picture /\ (photo[p].album # Nobody => photo[p].by = owner[photo[p].album])
      BY <2>1, <2>3 DEF PhotoFits
    <3>2. photo[p].album # Nobody => owner'[photo[p].album] = owner[photo[p].album]
      BY <1>2, <2>3, <3>1 DEF Picture
    <3> QED BY <1>4, <2>3, <3>1, <3>2 DEF PhotoFits
  <2>4. CASE photo[p] = Nobody
    BY <1>4, <2>4 DEF PhotoFits
  <2> QED BY <2>2, <2>3, <2>4
<1>6. /\ DOMAIN share' = AlbumIds \X Users
      /\ \A b \in AlbumIds, v \in Users : share'[<<b, v>>] = IF b = a THEN Nobody ELSE share[<<b, v>>]
  BY DEF AlbInv, Alb!delete_album
<1>7. \A b \in AlbumIds, v \in Users : share'[<<b, v>>] # Nobody => owner'[b] # Nobody /\ share'[<<b, v>>] \in Given
  BY <1>2, <1>6 DEF AlbInv
<1>8. ASSUME NEW r \in Reqs PROVE RequestFits(pc[r], rq[r], owner')
  BY <1>2 DEF AlbInv, RequestFits
<1> QED BY <1>1, <1>2, <1>3, <1>4, <1>5, <1>6, <1>7, <1>8 DEF AlbInv

(* The owner's calls begin.                                                *)
LEMMA AlbAsOwner ==
  ASSUME AlbInv, NEW r \in Reqs, NEW a \in AlbumIds, NEW u \in Users, NEW step \in AlbumSteps \ {"idle"}, NEW q,
         Alb!AsOwner(r, a, u, step, q),
         owner[a] = u => RequestFits(step, [q EXCEPT !.album = a], owner)
  PROVE  AlbInv'
<1> DEFINE l == [q EXCEPT !.album = a]
<1>1. /\ UNCHANGED <<owner, private, photo, share, now>> /\ owner[a] = u
      /\ pc' = [pc EXCEPT ![r] = step] /\ rq' = [rq EXCEPT ![r] = l]
  BY DEF Alb!AsOwner, Alb!get_album, Alb!rows
<1>2. RequestFits(step, l, owner)
  BY <1>1
<1> HIDE DEF l
<1>3. /\ pc' \in [Reqs -> AlbumSteps] /\ DOMAIN rq' = Reqs
      /\ \A x \in Reqs : RequestFits(pc'[x], rq'[x], owner)
      /\ \A x \in Reqs : pc'[x] = "idle" => rq'[x] = Alb!Blank
  BY <1>1, <1>2, AlbGoto
<1> QED BY <1>1, <1>3 DEF AlbInv

LEMMA AlbAskKeeps ==
  ASSUME AlbInv, NEW r \in Reqs, NEW a \in AlbumIds, NEW u \in Users,
         \/ \E ps : Alb!AddPhotos(r, a, u, ps)
         \/ \E p : Alb!RemovePhoto(r, a, u, p)
         \/ \E v \in Users : Alb!Unshare(r, a, u, v) \/ \E e \in Alb!Ends : Alb!Share(r, a, u, v, e)
  PROVE  AlbInv'
<1>1. ASSUME NEW ps, Alb!AddPhotos(r, a, u, ps) PROVE AlbInv'
  <2> DEFINE q == [Alb!Blank EXCEPT !.user = u, !.photos = ps]
             l == [q EXCEPT !.album = a]
  <2>1. Alb!AsOwner(r, a, u, "add", q)
    BY <1>1 DEF Alb!AddPhotos
  <2>2. l.album = a /\ l.user = u
    BY DEF Alb!Blank, Alb!Ends
  <2>3. "add" \in AlbumSteps \ {"idle"} /\ (owner[a] = u => RequestFits("add", l, owner))
    BY <2>2 DEF AlbumSteps, RequestFits
  <2> HIDE DEF q
  <2> QED BY <2>1, <2>3, AlbAsOwner
<1>2. ASSUME NEW p, Alb!RemovePhoto(r, a, u, p) PROVE AlbInv'
  <2> DEFINE q == [Alb!Blank EXCEPT !.photos = {p}]
             l == [q EXCEPT !.album = a]
  <2>1. Alb!AsOwner(r, a, u, "remove", q)
    BY <1>2 DEF Alb!RemovePhoto
  <2>2. l.album = a
    BY DEF Alb!Blank, Alb!Ends
  <2>3. "remove" \in AlbumSteps \ {"idle"} /\ (owner[a] = u => RequestFits("remove", l, owner))
    BY <2>2 DEF AlbumSteps, RequestFits
  <2> HIDE DEF q
  <2> QED BY <2>1, <2>3, AlbAsOwner
<1>3. ASSUME NEW v \in Users, Alb!Unshare(r, a, u, v) PROVE AlbInv'
  <2> DEFINE q == [Alb!Blank EXCEPT !.user = v]
             l == [q EXCEPT !.album = a]
  <2>1. Alb!AsOwner(r, a, u, "unshare", q)
    BY <1>3 DEF Alb!Unshare
  <2>2. l.album = a /\ l.user = v
    BY DEF Alb!Blank, Alb!Ends
  <2>3. "unshare" \in AlbumSteps \ {"idle"} /\ (owner[a] = u => RequestFits("unshare", l, owner))
    BY <2>2 DEF AlbumSteps, RequestFits
  <2> HIDE DEF q
  <2> QED BY <2>1, <2>3, AlbAsOwner
<1>4. ASSUME NEW v \in Users, NEW e \in Alb!Ends, Alb!Share(r, a, u, v, e) PROVE AlbInv'
  <2> DEFINE q == [Alb!Blank EXCEPT !.user = v, !.ends = e]
             l == [q EXCEPT !.album = a]
  <2>1. Alb!AsOwner(r, a, u, "share", q)
    BY <1>4 DEF Alb!Share
  <2>2. l.album = a /\ l.user = v /\ l.ends = e
    BY DEF Alb!Blank, Alb!Ends
  <2>3. "share" \in AlbumSteps \ {"idle"} /\ (owner[a] = u => RequestFits("share", l, owner))
    BY <2>2 DEF AlbumSteps, RequestFits
  <2> HIDE DEF q
  <2> QED BY <2>1, <2>3, AlbAsOwner
<1> QED BY <1>1, <1>2, <1>3, <1>4

LEMMA AlbAddKeeps == ASSUME AlbInv, NEW r \in Reqs, Alb!add_photos_to_album(r) PROVE AlbInv'
<1>1. /\ UNCHANGED <<owner, private, share>> /\ pc[r] = "add" /\ owner[rq[r].album] # Nobody /\ Alb!Finish(r)
      /\ DOMAIN photo' = Photos
      /\ \A p \in Photos : photo'[p] = IF p \in rq[r].photos
           THEN [by |-> rq[r].user, status |-> "pending", album |-> rq[r].album] ELSE photo[p]
  BY DEF Alb!add_photos_to_album, Alb!Lives
<1>2. rq[r].user \in Users /\ rq[r].album \in AlbumIds /\ owner[rq[r].album] = rq[r].user
  BY <1>1 DEF AlbInv, RequestFits
<1>3. PhotoFits([by |-> rq[r].user, status |-> "pending", album |-> rq[r].album], Nobody, owner)
  BY <1>2 DEF PhotoFits, Picture, Alb!Statuses
<1>4. \A p \in Photos : PhotoFits(photo'[p], Nobody, owner)
  BY <1>1, <1>3 DEF AlbInv
<1> QED BY <1>1, <1>4, AlbFinish DEF AlbInv

LEMMA AlbRemoveKeeps == ASSUME AlbInv, NEW r \in Reqs, Alb!remove_photo_from_album(r) PROVE AlbInv'
<1>1. /\ UNCHANGED <<owner, private, share>> /\ Alb!Finish(r) /\ DOMAIN photo' = Photos
      /\ \A p \in Photos : photo'[p] =
           IF p \in rq[r].photos /\ photo[p] # Nobody /\ photo[p].album = rq[r].album
           THEN [photo[p] EXCEPT !.album = Nobody] ELSE photo[p]
  BY DEF Alb!remove_photo_from_album
<1>2. ASSUME NEW p \in Photos PROVE PhotoFits(photo'[p], Nobody, owner)
  <2>1. PhotoFits(photo[p], Nobody, owner)
    BY DEF AlbInv
  <2>2. CASE photo'[p] = photo[p]
    BY <2>1, <2>2
  <2>3. CASE photo[p] # Nobody /\ photo'[p] = [photo[p] EXCEPT !.album = Nobody]
    <3>1. photo[p] \in Picture
      BY <2>1, <2>3 DEF PhotoFits
    <3>2. [photo[p] EXCEPT !.album = Nobody] \in Picture /\ [photo[p] EXCEPT !.album = Nobody].album = Nobody
      BY <3>1 DEF Picture
    <3> QED BY <2>3, <3>2 DEF PhotoFits
  <2> QED BY <1>1, <2>2, <2>3
<1> QED BY <1>1, <1>2, AlbFinish DEF AlbInv

LEMMA AlbShareKeeps == ASSUME AlbInv, NEW r \in Reqs, Alb!share_album(r) PROVE AlbInv'
<1> DEFINE a == rq[r].album
           v == rq[r].user
           ends == IF rq[r].ends = Never /\ share[<<a, v>>] # Nobody THEN share[<<a, v>>].ends ELSE rq[r].ends
           given == [revoked |-> FALSE, ends |-> ends]
<1>1. /\ UNCHANGED <<owner, private, photo>> /\ pc[r] = "share" /\ owner[a] # Nobody /\ Alb!Finish(r)
      /\ share' = [share EXCEPT ![<<a, v>>] = given]
  BY DEF Alb!share_album, Alb!Lives
<1>2. a \in AlbumIds /\ v \in Users /\ rq[r].ends \in Alb!Ends
  BY <1>1 DEF AlbInv, RequestFits
<1>3. ends \in Alb!Ends
  BY <1>2 DEF AlbInv, Given
<1>4. given \in Given
  BY <1>3 DEF Given
<1> HIDE DEF given, ends
<1>5. /\ DOMAIN share' = AlbumIds \X Users /\ share'[<<a, v>>] = given
      /\ \A b \in AlbumIds, u \in Users : <<b, u>> # <<a, v>> => share'[<<b, u>>] = share[<<b, u>>]
  BY <1>1, <1>2 DEF AlbInv
<1>6. \A b \in AlbumIds, u \in Users : share'[<<b, u>>] # Nobody => owner[b] # Nobody /\ share'[<<b, u>>] \in Given
  BY <1>1, <1>4, <1>5 DEF AlbInv
<1> QED BY <1>1, <1>5, <1>6, AlbFinish DEF AlbInv

LEMMA AlbUnshareKeeps == ASSUME AlbInv, NEW r \in Reqs, Alb!unshare_album(r) PROVE AlbInv'
<1> DEFINE a == rq[r].album
           v == rq[r].user
<1>1. UNCHANGED <<owner, private, photo>> /\ pc[r] = "unshare" /\ Alb!Finish(r)
  BY DEF Alb!unshare_album
<1>2. a \in AlbumIds /\ v \in Users
  BY <1>1 DEF AlbInv, RequestFits
<1>3. CASE share[<<a, v>>] = Nobody
  <2>1. UNCHANGED share
    BY <1>3 DEF Alb!unshare_album
  <2> QED BY <1>1, <2>1, AlbFinish DEF AlbInv
<1>4. CASE share[<<a, v>>] # Nobody
  <2> DEFINE given == [share[<<a, v>>] EXCEPT !.revoked = TRUE]
  <2>1. share' = [share EXCEPT ![<<a, v>>] = given]
    BY <1>4 DEF Alb!unshare_album
  <2>2. share[<<a, v>>] \in Given /\ owner[a] # Nobody
    BY <1>2, <1>4 DEF AlbInv
  <2>3. given \in Given
    BY <2>2 DEF Given
  <2> HIDE DEF given
  <2>4. /\ DOMAIN share' = AlbumIds \X Users /\ share'[<<a, v>>] = given
        /\ \A b \in AlbumIds, u \in Users : <<b, u>> # <<a, v>> => share'[<<b, u>>] = share[<<b, u>>]
    BY <1>2, <2>1 DEF AlbInv
  <2>5. \A b \in AlbumIds, u \in Users : share'[<<b, u>>] # Nobody => owner[b] # Nobody /\ share'[<<b, u>>] \in Given
    BY <2>2, <2>3, <2>4 DEF AlbInv
  <2> QED BY <1>1, <2>4, <2>5, AlbFinish DEF AlbInv
<1> QED BY <1>3, <1>4

LEMMA AlbRefusedKeeps == ASSUME AlbInv, NEW r \in Reqs, Alb!Refused(r) PROVE AlbInv'
<1>1. UNCHANGED <<owner, private, photo, share>> /\ Alb!Finish(r)
  BY DEF Alb!Refused, Alb!rows
<1> QED BY <1>1, AlbFinish DEF AlbInv

(* Staff, owners and time.                                                 *)
LEMMA AlbWorldKeeps ==
  ASSUME AlbInv,
         \/ \E p \in Photos : Alb!DeletePhoto(p) \/ \E s \in Alb!Statuses : Alb!Moderate(p, s)
         \/ Alb!Tick
  PROVE  AlbInv'
<1>1. CASE Alb!Tick
  <2>1. UNCHANGED <<owner, private, photo, share, pc, rq>> /\ now' \in Alb!Times
    BY <1>1, NobodyHasAlbums DEF AlbInv, Alb!Tick, Alb!rows, Alb!Times
  <2> QED BY <2>1 DEF AlbInv
<1>2. ASSUME NEW p \in Photos, NEW s \in Alb!Statuses, Alb!Moderate(p, s) PROVE AlbInv'
  <2> DEFINE v == [photo[p] EXCEPT !.status = s]
  <2>1. UNCHANGED <<owner, private, share, now, pc, rq>> /\ photo[p] # Nobody /\ photo' = [photo EXCEPT ![p] = v]
    BY <1>2 DEF Alb!Moderate
  <2>2. photo[p] \in Picture /\ (photo[p].album # Nobody => photo[p].by = owner[photo[p].album])
    BY <2>1 DEF AlbInv, PhotoFits
  <2>3. v \in Picture /\ v.album = photo[p].album /\ v.by = photo[p].by
    BY <2>2 DEF Picture
  <2>4. PhotoFits(v, Nobody, owner)
    BY <2>2, <2>3 DEF PhotoFits
  <2> HIDE DEF v
  <2>5. DOMAIN photo' = Photos /\ \A x \in Photos : PhotoFits(photo'[x], Nobody, owner)
    BY <2>1, <2>4 DEF AlbInv
  <2> QED BY <2>1, <2>5 DEF AlbInv
<1>3. ASSUME NEW p \in Photos, Alb!DeletePhoto(p) PROVE AlbInv'
  <2>1. UNCHANGED <<owner, private, share, now, pc, rq>> /\ photo' = [photo EXCEPT ![p] = Nobody]
    BY <1>3 DEF Alb!DeletePhoto
  <2>2. DOMAIN photo' = Photos /\ \A x \in Photos : photo'[x] = photo[x] \/ photo'[x] = Nobody
    BY <2>1 DEF AlbInv
  <2>3. \A x \in Photos : PhotoFits(photo'[x], Nobody, owner)
    BY <2>2 DEF AlbInv, PhotoFits
  <2> QED BY <2>1, <2>2, <2>3 DEF AlbInv
<1> QED BY <1>1, <1>2, <1>3

LEMMA AlbInitInv == Alb!Init => AlbInv
<1> SUFFICES ASSUME Alb!Init PROVE AlbInv
  OBVIOUS
<1>1. /\ owner = [a \in AlbumIds |-> Nobody] /\ private = {} /\ photo = [p \in Photos |-> Nobody]
      /\ share = [x \in AlbumIds \X Users |-> Nobody] /\ now = 0
      /\ pc = [r \in Reqs |-> "idle"] /\ rq = [r \in Reqs |-> Alb!Blank]
  BY DEF Alb!Init
<1>2. \A p \in Photos : PhotoFits(photo[p], Nobody, owner)
  BY <1>1 DEF PhotoFits
<1>3. \A r \in Reqs : RequestFits(pc[r], rq[r], owner)
  BY <1>1 DEF RequestFits
<1>4. now \in Alb!Times
  BY <1>1, NobodyHasAlbums DEF Alb!Times
<1> QED BY <1>1, <1>2, <1>3, <1>4 DEF AlbInv, AlbumSteps

LEMMA AlbStepInv == AlbInv /\ Alb!Next => AlbInv'
<1> SUFFICES ASSUME AlbInv, Alb!Next PROVE AlbInv'
  OBVIOUS
<1>1. ASSUME NEW r \in Reqs, Alb!Serve(r) PROVE AlbInv'
  BY <1>1, AlbAskKeeps, AlbAddKeeps, AlbRemoveKeeps, AlbShareKeeps, AlbUnshareKeeps, AlbRefusedKeeps DEF Alb!Serve
<1> QED BY <1>1, AlbCreateKeeps, AlbUpdateKeeps, AlbDeleteKeeps, AlbWorldKeeps DEF Alb!Next

-----------------------------------------------------------------------------
(* Three queries, one answer.                                              *)
LEMMA AlbInvShows == AlbInv => Alb!AccessRulesAgree
<1> SUFFICES ASSUME AlbInv, NEW u \in Users
             PROVE  LET visible == UNION {Alb!get(a, u) : a \in Alb!list_albums(u) \cup Alb!list_shared_albums(u)} IN
                    /\ \A a \in Alb!list_shared_albums(u) : Alb!has_album_access(a, u)
                    /\ \A a \in AlbumIds : Alb!get(a, u) \subseteq visible
                    /\ {p \in Photos : Alb!get_url(p, u) /\ photo[p].by # u} \subseteq visible
                    /\ \A p \in visible : Alb!get_url(p, u)
  BY DEF Alb!AccessRulesAgree
<1> DEFINE visible == UNION {Alb!get(a, u) : a \in Alb!list_albums(u) \cup Alb!list_shared_albums(u)}
<1>1. \A a \in Alb!list_shared_albums(u) : Alb!has_album_access(a, u)
  BY DEF Alb!list_shared_albums, Alb!has_album_access
<1>2. \A a \in AlbumIds : Alb!get(a, u) \subseteq visible
  <2> SUFFICES ASSUME NEW a \in AlbumIds, NEW p \in Alb!get(a, u) PROVE p \in visible
    OBVIOUS
  <2>1. owner[a] = u \/ Alb!Shared(a, u)
    BY DEF Alb!get, Alb!has_album_access
  <2>2. a \in Alb!list_albums(u) \cup Alb!list_shared_albums(u)
    BY <2>1 DEF Alb!list_albums, Alb!list_shared_albums
  <2> QED BY <2>2
<1>3. ASSUME NEW p \in Photos, Alb!get_url(p, u), photo[p].by # u PROVE p \in visible
  <2> DEFINE a == photo[p].album
  <2>1. photo[p] # Nobody /\ photo[p].status = "approved" /\ a # Nobody /\ Alb!Shared(a, u)
    BY <1>3 DEF Alb!get_url
  <2>2. photo[p] \in Picture
    BY <2>1 DEF AlbInv, PhotoFits
  <2>3. a \in AlbumIds
    BY <2>1, <2>2 DEF Picture
  <2>4. owner[a] # Nobody
    BY <2>1, <2>3 DEF AlbInv, Alb!Shared, Alb!Open
  <2>5. p \in Alb!get(a, u)
    BY <2>1, <2>4 DEF Alb!get, Alb!has_album_access, Alb!get_album_photos
  <2> QED BY <1>2, <2>3, <2>5
<1>4. ASSUME NEW p \in visible PROVE Alb!get_url(p, u)
  <2>1. PICK a \in AlbumIds : p \in Alb!get(a, u)
    BY <1>4 DEF Alb!list_albums, Alb!list_shared_albums
  <2>2. /\ p \in Photos /\ photo[p] # Nobody /\ photo[p].album = a
        /\ owner[a] = u \/ (Alb!Shared(a, u) /\ photo[p].status = "approved")
    BY <2>1 DEF Alb!get, Alb!has_album_access, Alb!get_album_photos
  <2>3. a # Nobody
    BY NobodyHasAlbums
  <2>4. photo[p].by = owner[a]
    BY <2>2, <2>3 DEF AlbInv, PhotoFits
  <2> QED BY <2>2, <2>3, <2>4 DEF Alb!get_url
<1> QED BY <1>1, <1>2, <1>3, <1>4

-----------------------------------------------------------------------------
(***************************************************************************)
(* Messages.  What a call is told of a message has happened to it and      *)
(* cannot happen again; what a client has paged over, it has.              *)
(***************************************************************************)

Message == [by : Users, kind : Msg!Kinds, shown : BOOLEAN, read : BOOLEAN, viewed : BOOLEAN, unsent : BOOLEAN]
MsgSteps == {"idle", "insert", "commit", "stamp", "lastRead", "react", "unreact", "rename"}
Whats == {"read", "viewed", "unsent"}
Flag(m, what) ==
  (what = "read" /\ m.read) \/ (what = "viewed" /\ m.viewed) \/ (what = "unsent" /\ m.unsent)

(* What a request that goes on relies on.                                  *)
CallFits(s, q, ms) ==
  /\ s = "insert" => q.user \in Users /\ q.kind \in Msg!Kinds
  /\ s = "stamp" => q.user \in Users
  /\ s = "commit" => q.msg \in 1..Len(ms)
  /\ s = "react" => q.msg \in 1..Len(ms) /\ ms[q.msg].shown /\ q.user \in Users /\ q.emoji \in Emojis

(* Whatever a call was told of a message has happened to it, once, and by  *)
(* whoever may.                                                            *)
ToldOf(t, m) ==
  /\ t \in Seq(Whats \X Users)
  /\ \A i \in 1..Len(t) : Flag(m, t[i][1]) /\ (t[i][1] = "unsent" <=> t[i][2] = m.by)
  /\ \A i, j \in 1..Len(t) : t[i][1] = t[j][1] => i = j

MsgRows ==
  /\ msgs \in Seq(Message) /\ Len(msgs) <= MaxMsgs
  /\ \A n \in 1..Len(msgs) : msgs[n].viewed => msgs[n].kind = "ephemeral_photo"
MsgTold ==
  /\ DOMAIN told = 1..MaxMsgs
  /\ \A n \in 1..MaxMsgs : IF n <= Len(msgs) THEN ToldOf(told[n], msgs[n]) ELSE told[n] = <<>>
MsgMarks ==
  /\ lastAt \in Msg!Shown \cup {0}
  /\ reactions \subseteq Msg!Shown \X Users \X Emojis
  /\ \A a, b \in reactions : a[1] = b[1] /\ a[2] = b[2] => a = b
  /\ members \subseteq Users /\ name = creator /\ lastRead \in [Users -> 0..MaxMsgs]
MsgCalls ==
  /\ pc \in [Reqs -> MsgSteps] /\ DOMAIN rq = Reqs
  /\ \A r \in Reqs : CallFits(pc[r], rq[r], msgs)

(* What was there and is not older than the oldest message a client has,   *)
(* the client has.                                                         *)
PagerFits(p, shown) ==
  /\ p \in [user : Users \cup {Nobody}, before : Nat, start : SUBSET shown, got : SUBSET shown,
            again : {FALSE}, over : BOOLEAN]
  /\ \A n \in p.got : p.before # 0 /\ p.before <= n
  /\ \A n \in p.start : p.before # 0 /\ p.before <= n => n \in p.got
  /\ p.over => p.start \subseteq p.got

MsgInv == MsgRows /\ MsgTold /\ MsgMarks /\ MsgCalls /\ PagerFits(pager, Msg!Shown)

-----------------------------------------------------------------------------
LEMMA MsgCard == ASSUME NEW S PROVE Msg!Cardinality(S) = Cardinality(S)
BY DEF Msg!Cardinality, Cardinality

LEMMA MsgTyped ==
  ASSUME MsgRows
  PROVE  /\ Len(msgs) \in Nat /\ MaxMsgs \in Nat /\ msgs \in [1..Len(msgs) -> Message]
         /\ \A n \in 1..Len(msgs) : msgs[n] \in Message
         /\ Msg!Rows = 1..Len(msgs) /\ Msg!Shown = {n \in 1..Len(msgs) : msgs[n].shown}
<1>1. msgs \in Seq(Message)
  BY DEF MsgRows
<1>2. Len(msgs) \in Nat /\ msgs \in [1..Len(msgs) -> Message]
  BY <1>1, LenProperties
<1>3. Msg!Rows = 1..Len(msgs)
  BY DEF Msg!Rows
<1> QED BY <1>2, <1>3, PagesHoldSome DEF Msg!Shown

(* A message that stays what it is, but for what has happened to it.       *)
After(m, w) ==
  /\ w \in Message /\ w.by = m.by /\ w.kind = m.kind
  /\ (m.shown => w.shown) /\ (m.read => w.read) /\ (m.viewed => w.viewed) /\ (m.unsent => w.unsent)
Grows == Len(msgs') \in Nat /\ Len(msgs) <= Len(msgs') /\ \A n \in 1..Len(msgs) : After(msgs[n], msgs'[n])

LEMMA GrowsStays == ASSUME MsgRows, UNCHANGED msgs PROVE Grows
<1>1. \A n \in 1..Len(msgs) : msgs[n] \in Message
  BY MsgTyped
<1> QED BY <1>1, MsgTyped DEF Grows, After

LEMMA ToldStays == ASSUME NEW t, NEW m, NEW w, ToldOf(t, m), After(m, w) PROVE ToldOf(t, w)
BY DEF ToldOf, After, Flag

(* One more call is told of what has just happened.                        *)
LEMMA ToldOnce ==
  ASSUME NEW t, NEW m, NEW w, ToldOf(t, m), After(m, w), NEW what \in Whats, NEW u \in Users,
         ~Flag(m, what), Flag(w, what), what = "unsent" <=> u = m.by
  PROVE  ToldOf(Append(t, <<what, u>>), w)
<1> DEFINE s == Append(t, <<what, u>>)
<1>1. t \in Seq(Whats \X Users) /\ <<what, u>> \in Whats \X Users
  BY DEF ToldOf
<1>2. /\ s \in Seq(Whats \X Users) /\ Len(s) = Len(t) + 1 /\ Len(t) \in Nat
      /\ \A i \in 1..Len(t) : s[i] = t[i]
      /\ s[Len(t) + 1] = <<what, u>>
  BY <1>1, AppendProperties, LenProperties
<1> HIDE DEF s
<1>3. \A i \in 1..Len(t) : Flag(m, t[i][1]) /\ Flag(w, t[i][1]) /\ (t[i][1] = "unsent" <=> t[i][2] = w.by)
  BY DEF ToldOf, After, Flag
<1>4. \A i \in 1..Len(t) : t[i][1] # what
  BY <1>3
<1>5. \A i \in 1..Len(s) : i \in 1..Len(t) \/ i = Len(t) + 1
  BY <1>2
<1>6. ASSUME NEW i \in 1..Len(s) PROVE Flag(w, s[i][1]) /\ (s[i][1] = "unsent" <=> s[i][2] = w.by)
  <2>1. CASE i \in 1..Len(t)
    BY <2>1, <1>2, <1>3
  <2>2. CASE i = Len(t) + 1
    BY <2>2, <1>2 DEF After
  <2> QED BY <2>1, <2>2, <1>5
<1>7. ASSUME NEW i \in 1..Len(s), NEW j \in 1..Len(s), s[i][1] = s[j][1] PROVE i = j
  <2>1. CASE i \in 1..Len(t) /\ j \in 1..Len(t)
    BY <1>7, <2>1, <1>2 DEF ToldOf
  <2>2. CASE i \in 1..Len(t) /\ j = Len(t) + 1
    BY <1>7, <2>2, <1>2, <1>4
  <2>3. CASE i = Len(t) + 1 /\ j \in 1..Len(t)
    BY <1>7, <2>3, <1>2, <1>4
  <2> QED BY <2>1, <2>2, <2>3, <1>5
<1> QED BY <1>2, <1>6, <1>7 DEF ToldOf, s

(* Rows that grow leave marks, calls and the client's pages right.         *)
LEMMA ShownGrows == ASSUME MsgRows, MsgRows', Grows PROVE Msg!Shown \subseteq Msg!Shown'
<1>1. Msg!Shown = {n \in 1..Len(msgs) : msgs[n].shown} /\ Msg!Shown' = {n \in 1..Len(msgs') : msgs'[n].shown}
  BY MsgTyped DEF Msg!Shown, Msg!Rows
<1>2. Len(msgs) \in Nat /\ Len(msgs') \in Nat /\ Len(msgs) <= Len(msgs')
  BY MsgTyped DEF Grows
<1> QED BY <1>1, <1>2 DEF Grows, After

LEMMA CallsStay ==
  ASSUME MsgRows, Grows, NEW s, NEW q, CallFits(s, q, msgs) PROVE CallFits(s, q, msgs')
<1>1. Len(msgs) \in Nat /\ Len(msgs') \in Nat /\ Len(msgs) <= Len(msgs')
  BY MsgTyped DEF Grows
<1> QED BY <1>1 DEF CallFits, Grows, After

LEMMA PagerStays ==
  ASSUME NEW p, NEW shown, NEW more, PagerFits(p, shown), shown \subseteq more PROVE PagerFits(p, more)
<1>1. /\ p \in [user : Users \cup {Nobody}, before : Nat, start : SUBSET shown, got : SUBSET shown,
                again : {FALSE}, over : BOOLEAN]
  BY DEF PagerFits
<1>2. p \in [user : Users \cup {Nobody}, before : Nat, start : SUBSET more, got : SUBSET more,
             again : {FALSE}, over : BOOLEAN]
  BY <1>1
<1> QED BY <1>2 DEF PagerFits

(* One request goes on or ends.                                            *)
LEMMA MsgGoto ==
  ASSUME MsgInv, Grows, NEW r \in Reqs, NEW step \in MsgSteps, NEW q,
         pc' = [pc EXCEPT ![r] = step], rq' = [rq EXCEPT ![r] = q], CallFits(step, q, msgs')
  PROVE  MsgCalls'
<1>1. pc \in [Reqs -> MsgSteps] /\ DOMAIN rq = Reqs /\ MsgRows
  BY DEF MsgInv, MsgCalls
<1>2. /\ pc'[r] = step /\ rq'[r] = q /\ DOMAIN rq' = Reqs /\ pc' \in [Reqs -> MsgSteps]
      /\ \A x \in Reqs \ {r} : pc'[x] = pc[x] /\ rq'[x] = rq[x]
  BY <1>1
<1>3. ASSUME NEW x \in Reqs PROVE CallFits(pc'[x], rq'[x], msgs')
  <2>1. CASE x = r
    BY <1>2, <2>1
  <2>2. CASE x # r
    <3>1. CallFits(pc[x], rq[x], msgs)
      BY DEF MsgInv, MsgCalls
    <3>2. pc'[x] = pc[x] /\ rq'[x] = rq[x]
      BY <1>2, <2>2
    <3> QED BY <1>1, <3>1, <3>2, CallsStay
  <2> QED BY <2>1, <2>2
<1> QED BY <1>2, <1>3 DEF MsgCalls

LEMMA MsgFinish == ASSUME MsgInv, Grows, NEW r \in Reqs, Msg!Finish(r) PROVE MsgCalls'
<1>1. "idle" \in MsgSteps /\ CallFits("idle", Msg!Blank, msgs')
  BY DEF MsgSteps, CallFits
<1> QED BY <1>1, MsgGoto DEF Msg!Finish

(* A step that writes no row and tells nobody anything.                    *)
LEMMA MsgQuiet ==
  ASSUME MsgInv, UNCHANGED <<msgs, told>>, MsgCalls', MsgMarks', PagerFits(pager', Msg!Shown) PROVE MsgInv'
<1>1. MsgRows' /\ MsgTold'
  BY DEF MsgInv, MsgRows, MsgTold
<1>2. Msg!Shown' = Msg!Shown
  BY DEF Msg!Shown, Msg!Rows
<1> QED BY <1>1, <1>2 DEF MsgInv

LEMMA MarksStay ==
  ASSUME MsgInv, MsgRows', Grows, UNCHANGED <<lastAt, reactions, creator, name, members, lastRead>> PROVE MsgMarks'
<1>1. Msg!Shown \subseteq Msg!Shown'
  BY ShownGrows DEF MsgInv
<1> QED BY <1>1 DEF MsgInv, MsgMarks

-----------------------------------------------------------------------------
LEMMA MsgBeginKeeps ==
  ASSUME MsgInv, NEW r \in Reqs, NEW step \in MsgSteps, NEW q, Msg!Begin(r, step, q), CallFits(step, q, msgs),
         UNCHANGED <<msgs, lastAt, reactions, lastRead, creator, name, members, pager, told>>
  PROVE  MsgInv'
<1>1. MsgRows /\ MsgRows' /\ Grows
  BY GrowsStays DEF MsgInv, MsgRows
<1>2. MsgCalls'
  <2>1. pc' = [pc EXCEPT ![r] = step] /\ rq' = [rq EXCEPT ![r] = q] /\ CallFits(step, q, msgs')
    BY DEF Msg!Begin
  <2> QED BY <1>1, <2>1, MsgGoto
<1>3. MsgMarks' /\ PagerFits(pager', Msg!Shown)
  BY <1>1, MarksStay DEF MsgInv
<1> QED BY <1>2, <1>3, MsgQuiet

LEMMA MsgAskKeeps ==
  ASSUME MsgInv, NEW r \in Reqs, NEW u \in Users,
         \/ \E body : Msg!SendMessage(r, u, body)
         \/ Msg!HandleIncoming(r, u) \/ Msg!MarkReadMember(r, u) \/ Msg!RenameCheck(r, u)
         \/ \E n \in Msg!Shown : Msg!DeleteReaction(r, u, n) \/ \E e \in Emojis : Msg!PutReaction(r, u, n, e)
  PROVE  MsgInv'
<1>0. \A q : /\ "unreact" \in MsgSteps /\ CallFits("unreact", q, msgs)
            /\ "rename" \in MsgSteps /\ CallFits("rename", q, msgs)
            /\ "stamp" \in MsgSteps /\ (q.user \in Users => CallFits("stamp", q, msgs))
  BY DEF MsgSteps, CallFits
<1>1. ASSUME NEW body, Msg!SendMessage(r, u, body) PROVE MsgInv'
  <2> DEFINE q == [Msg!Blank EXCEPT !.user = u, !.kind = Msg!classify_kind(body)]
  <2>1. /\ Msg!Begin(r, "insert", q) /\ Msg!classify_kind(body) # "none"
        /\ UNCHANGED <<msgs, lastAt, reactions, lastRead, creator, name, members, pager, told>>
    BY <1>1 DEF Msg!SendMessage, Msg!marks, Msg!group
  <2>2. Msg!classify_kind(body) \in Msg!Kinds
    BY <2>1 DEF Msg!classify_kind, Msg!Kinds
  <2>3. q.user = u /\ q.kind = Msg!classify_kind(body)
    BY DEF Msg!Blank
  <2> HIDE DEF q
  <2>4. "insert" \in MsgSteps /\ CallFits("insert", q, msgs)
    BY <2>2, <2>3 DEF MsgSteps, CallFits
  <2> QED BY <2>1, <2>4, MsgBeginKeeps
<1>2. ASSUME Msg!HandleIncoming(r, u) PROVE MsgInv'
  <2> DEFINE q == [Msg!Blank EXCEPT !.user = u, !.kind = "text"]
  <2>1. /\ Msg!Begin(r, "insert", q)
        /\ UNCHANGED <<msgs, lastAt, reactions, lastRead, creator, name, members, pager, told>>
    BY <1>2 DEF Msg!HandleIncoming, Msg!marks, Msg!group
  <2>2. q.user = u /\ q.kind = "text"
    BY DEF Msg!Blank
  <2> HIDE DEF q
  <2>3. "insert" \in MsgSteps /\ CallFits("insert", q, msgs)
    BY <2>2 DEF MsgSteps, CallFits, Msg!Kinds
  <2> QED BY <2>1, <2>3, MsgBeginKeeps
<1>3. ASSUME Msg!MarkReadMember(r, u) \/ Msg!RenameCheck(r, u) PROVE MsgInv'
  <2> DEFINE q == [Msg!Blank EXCEPT !.user = u]
  <2>1. /\ Msg!Begin(r, "stamp", q) \/ Msg!Begin(r, "rename", q)
        /\ UNCHANGED <<msgs, lastAt, reactions, lastRead, creator, name, members, pager, told>>
    BY <1>3 DEF Msg!MarkReadMember, Msg!RenameCheck, Msg!marks, Msg!group
  <2>2. q.user = u
    BY DEF Msg!Blank
  <2> HIDE DEF q
  <2> QED BY <1>0, <2>1, <2>2, MsgBeginKeeps
<1>4. ASSUME NEW n \in Msg!Shown, Msg!DeleteReaction(r, u, n) PROVE MsgInv'
  <2> DEFINE q == [Msg!Blank EXCEPT !.user = u, !.msg = n, !.emoji = Nobody]
  <2>1. /\ Msg!Begin(r, "unreact", q)
        /\ UNCHANGED <<msgs, lastAt, reactions, lastRead, creator, name, members, pager, told>>
    BY <1>4 DEF Msg!DeleteReaction, Msg!React, Msg!marks, Msg!group
  <2> HIDE DEF q
  <2> QED BY <1>0, <2>1, MsgBeginKeeps
<1>5. ASSUME NEW n \in Msg!Shown, NEW e \in Emojis, Msg!PutReaction(r, u, n, e) PROVE MsgInv'
  <2> DEFINE q == [Msg!Blank EXCEPT !.user = u, !.msg = n, !.emoji = e]
  <2>1. /\ Msg!Begin(r, "react", q)
        /\ UNCHANGED <<msgs, lastAt, reactions, lastRead, creator, name, members, pager, told>>
    BY <1>5 DEF Msg!PutReaction, Msg!React, Msg!marks, Msg!group
  <2>2. q.user = u /\ q.msg = n /\ q.emoji = e
    BY DEF Msg!Blank
  <2>3. n \in 1..Len(msgs) /\ msgs[n].shown
    BY MsgTyped DEF MsgInv
  <2> HIDE DEF q
  <2>4. "react" \in MsgSteps /\ CallFits("react", q, msgs)
    BY <2>2, <2>3 DEF MsgSteps, CallFits
  <2> QED BY <2>1, <2>4, MsgBeginKeeps
<1> QED BY <1>1, <1>2, <1>3, <1>4, <1>5

LEMMA MsgInsertKeeps == ASSUME MsgInv, NEW r \in Reqs, Msg!Insert(r) PROVE MsgInv'
<1> DEFINE m == [by |-> rq[r].user, kind |-> rq[r].kind, shown |-> FALSE, read |-> FALSE, viewed |-> FALSE, unsent |-> FALSE]
           N == Len(msgs)
<1>1. /\ pc[r] = "insert" /\ N < MaxMsgs /\ msgs' = Append(msgs, m)
      /\ pc' = [pc EXCEPT ![r] = "commit"] /\ rq' = [rq EXCEPT ![r].msg = N + 1]
      /\ UNCHANGED <<lastAt, reactions, lastRead, creator, name, members, pager, told>>
  BY DEF Msg!Insert, Msg!marks, Msg!group
<1>2. MsgRows /\ N \in Nat /\ MaxMsgs \in Nat /\ msgs \in Seq(Message) /\ \A n \in 1..N : msgs[n] \in Message
  BY MsgTyped DEF MsgInv, MsgRows
<1>3. m \in Message /\ ~m.viewed
  BY <1>1 DEF MsgInv, MsgCalls, CallFits, Message
<1> HIDE DEF m
<1>4. /\ msgs' \in Seq(Message) /\ Len(msgs') = N + 1 /\ msgs'[N + 1] = m
      /\ \A n \in 1..N : msgs'[n] = msgs[n]
  BY <1>1, <1>2, <1>3, AppendProperties
<1>5. Grows
  BY <1>2, <1>4 DEF Grows, After
<1>6. MsgRows'
  <2>1. \A n \in 1..(N + 1) : n \in 1..N \/ n = N + 1
    BY <1>2
  <2> QED BY <1>1, <1>2, <1>3, <1>4, <2>1 DEF MsgRows
<1>7. MsgTold'
  <2>1. DOMAIN told = 1..MaxMsgs
    BY DEF MsgInv, MsgTold
  <2>2. ASSUME NEW n \in 1..MaxMsgs PROVE IF n <= Len(msgs') THEN ToldOf(told[n], msgs'[n]) ELSE told[n] = <<>>
    <3>1. IF n <= N THEN ToldOf(told[n], msgs[n]) ELSE told[n] = <<>>
      BY DEF MsgInv, MsgTold
    <3>2. CASE n <= N
      BY <3>1, <3>2, <1>2, <1>4
    <3>3. CASE n = N + 1
      <4>1. told[n] = <<>>
        BY <3>1, <3>3, <1>2
      <4>2. <<>> \in Seq(Whats \X Users) /\ Len(<<>>) = 0
        BY EmptySeq
      <4>3. ToldOf(<<>>, msgs'[n])
        BY <4>2 DEF ToldOf
      <4> QED BY <3>3, <4>1, <4>3, <1>4
    <3>4. CASE n > N + 1
      BY <3>1, <3>4, <1>2, <1>4
    <3> QED BY <3>2, <3>3, <3>4, <1>2
  <2> QED BY <2>1, <2>2, <1>1 DEF MsgTold
<1>8. MsgCalls'
  <2> DEFINE q == [rq[r] EXCEPT !.msg = N + 1]
  <2>1. rq' = [rq EXCEPT ![r] = q]
    BY <1>1
  <2>2. "commit" \in MsgSteps /\ CallFits("commit", q, msgs')
    <3>1. \/ q.msg = N + 1 \/ "msg" \notin DOMAIN rq[r]
      OBVIOUS
    <3> QED BY <3>1, <1>2, <1>4 DEF MsgSteps, CallFits
  <2> HIDE DEF q
  <2> QED BY <1>1, <1>5, <2>1, <2>2, MsgGoto
<1>9. MsgMarks'
  BY <1>1, <1>5, <1>6, MarksStay
<1>10. PagerFits(pager', Msg!Shown')
  BY <1>1, <1>2, <1>5, <1>6, ShownGrows, PagerStays DEF MsgInv
<1> QED BY <1>6, <1>7, <1>8, <1>9, <1>10 DEF MsgInv

(* One row changes, in what has happened to it.                            *)
LEMMA MsgRowKeeps ==
  ASSUME MsgInv, NEW n \in 1..Len(msgs), NEW w, msgs' = [msgs EXCEPT ![n] = w], After(msgs[n], w),
         w.viewed => w.kind = "ephemeral_photo"
  PROVE  /\ MsgRows' /\ Grows /\ Len(msgs') = Len(msgs) /\ msgs'[n] = w
         /\ \A k \in 1..Len(msgs) : k # n => msgs'[k] = msgs[k]
<1>1. MsgRows /\ msgs \in [1..Len(msgs) -> Message] /\ Len(msgs) \in Nat /\ w \in Message
  BY MsgTyped DEF MsgInv, After
<1>2. /\ msgs' \in [1..Len(msgs) -> Message] /\ msgs'[n] = w
      /\ \A k \in 1..Len(msgs) : k # n => msgs'[k] = msgs[k]
  BY <1>1
<1>3. msgs' \in Seq(Message) /\ Len(msgs') = Len(msgs)
  BY <1>1, <1>2, IsASeq, LenProperties
<1>4. MsgRows'
  BY <1>1, <1>2, <1>3 DEF MsgRows
<1>5. \A k \in 1..Len(msgs) : After(msgs[k], msgs'[k])
  BY <1>1, <1>2 DEF After
<1> QED BY <1>1, <1>2, <1>3, <1>4, <1>5 DEF Grows

LEMMA MsgToldStays ==
  ASSUME MsgInv, MsgRows', Grows, Len(msgs') = Len(msgs), UNCHANGED told PROVE MsgTold'
<1>1. Len(msgs) \in Nat /\ MaxMsgs \in Nat /\ DOMAIN told = 1..MaxMsgs
  BY MsgTyped DEF MsgInv, MsgTold
<1>2. ASSUME NEW n \in 1..MaxMsgs PROVE IF n <= Len(msgs') THEN ToldOf(told[n], msgs'[n]) ELSE told[n] = <<>>
  <2>1. IF n <= Len(msgs) THEN ToldOf(told[n], msgs[n]) ELSE told[n] = <<>>
    BY DEF MsgInv, MsgTold
  <2>2. n <= Len(msgs) => After(msgs[n], msgs'[n])
    BY <1>1 DEF Grows
  <2> QED BY <2>1, <2>2, ToldStays
<1> QED BY <1>1, <1>2 DEF MsgTold

LEMMA MsgCommitKeeps == ASSUME MsgInv, NEW r \in Reqs, Msg!Commit(r) PROVE MsgInv'
<1> DEFINE n == rq[r].msg
           w == [msgs[n] EXCEPT !.shown = TRUE]
<1>1. /\ pc[r] = "commit" /\ msgs' = [msgs EXCEPT ![n] = w] /\ lastAt' = n /\ Msg!Finish(r)
      /\ UNCHANGED <<reactions, lastRead, creator, name, members, pager, told>>
  BY DEF Msg!Commit, Msg!marks, Msg!group
<1>2. n \in 1..Len(msgs)
  BY <1>1 DEF MsgInv, MsgCalls, CallFits
<1>3. MsgRows /\ msgs[n] \in Message /\ Len(msgs) \in Nat /\ (msgs[n].viewed => msgs[n].kind = "ephemeral_photo")
  BY <1>2, MsgTyped DEF MsgInv, MsgRows
<1>4. After(msgs[n], w) /\ w.shown /\ (w.viewed => w.kind = "ephemeral_photo")
  BY <1>3 DEF After, Message
<1> HIDE DEF w
<1>5. /\ MsgRows' /\ Grows /\ Len(msgs') = Len(msgs) /\ msgs'[n] = w
      /\ \A k \in 1..Len(msgs) : k # n => msgs'[k] = msgs[k]
  BY <1>1, <1>2, <1>4, MsgRowKeeps
<1>6. MsgTold'
  BY <1>1, <1>5, MsgToldStays
<1>7. MsgCalls'
  BY <1>1, <1>5, MsgFinish
<1>8. Msg!Shown \subseteq Msg!Shown' /\ n \in Msg!Shown'
  BY <1>2, <1>3, <1>4, <1>5, ShownGrows, MsgTyped DEF Msg!Shown, Msg!Rows
<1>9. MsgMarks'
  BY <1>1, <1>8 DEF MsgInv, MsgMarks
<1>10. PagerFits(pager', Msg!Shown')
  BY <1>1, <1>8, PagerStays DEF MsgInv
<1> QED BY <1>5, <1>6, <1>7, <1>9, <1>10 DEF MsgInv

-----------------------------------------------------------------------------
(* What has not happened yet to some messages happens, and one call is     *)
(* told so.                                                                *)
LEMMA MsgTellKeeps ==
  ASSUME MsgInv, NEW what \in Whats, NEW u \in Users, NEW ns \in SUBSET (1..Len(msgs)), Msg!Tell(what, u, ns),
         MsgRows', Grows, Len(msgs') = Len(msgs),
         \A n \in ns : ~Flag(msgs[n], what) /\ Flag(msgs'[n], what) /\ (what = "unsent" <=> u = msgs[n].by)
  PROVE  MsgTold'
<1>1. Len(msgs) \in Nat /\ MaxMsgs \in Nat /\ DOMAIN told = 1..MaxMsgs /\ Len(msgs) <= MaxMsgs
  BY MsgTyped DEF MsgInv, MsgTold, MsgRows
<1>2. /\ DOMAIN told' = 1..MaxMsgs
      /\ \A n \in 1..MaxMsgs : told'[n] = IF n \in ns THEN Append(told[n], <<what, u>>) ELSE told[n]
  BY <1>1 DEF Msg!Tell
<1>3. ASSUME NEW n \in 1..MaxMsgs PROVE IF n <= Len(msgs') THEN ToldOf(told'[n], msgs'[n]) ELSE told'[n] = <<>>
  <2>1. IF n <= Len(msgs) THEN ToldOf(told[n], msgs[n]) ELSE told[n] = <<>>
    BY DEF MsgInv, MsgTold
  <2>2. n <= Len(msgs) => After(msgs[n], msgs'[n])
    BY <1>1 DEF Grows
  <2>3. CASE n \in ns
    <3>1. n <= Len(msgs)
      BY <2>3, <1>1
    <3>2. ToldOf(Append(told[n], <<what, u>>), msgs'[n])
      BY <2>1, <2>2, <2>3, <3>1, ToldOnce
    <3> QED BY <1>2, <2>3, <3>1, <3>2
  <2>4. CASE n \notin ns
    BY <1>2, <2>1, <2>2, <2>4, ToldStays
  <2> QED BY <2>3, <2>4
<1> QED BY <1>2, <1>3 DEF MsgTold

LEMMA MsgStampKeeps == ASSUME MsgInv, NEW r \in Reqs, Msg!mark_messages_read(r) PROVE MsgInv'
<1> DEFINE u == rq[r].user
           ns == {n \in Msg!Shown : msgs[n].by # u /\ ~msgs[n].read}
<1>1. /\ pc[r] = "stamp" /\ Msg!Tell("read", u, ns)
      /\ msgs' = [n \in Msg!Rows |-> IF n \in ns THEN [msgs[n] EXCEPT !.read = TRUE] ELSE msgs[n]]
      /\ pc' = [pc EXCEPT ![r] = "lastRead"] /\ rq' = rq
      /\ UNCHANGED <<lastAt, reactions, lastRead, creator, name, members, pager>>
  BY DEF Msg!mark_messages_read, Msg!StampRows, Msg!Goto, Msg!marks, Msg!group
<1>2. MsgRows /\ Len(msgs) \in Nat /\ (\A n \in 1..Len(msgs) : msgs[n] \in Message) /\ Msg!Rows = 1..Len(msgs)
  BY MsgTyped DEF MsgInv
<1> u \in Users
  BY <1>1 DEF MsgInv, MsgCalls, CallFits
<1> HIDE DEF u
<1>3. ns \in SUBSET (1..Len(msgs)) /\ \A n \in ns : msgs[n].by # u /\ ~msgs[n].read
  BY <1>2 DEF Msg!Shown
<1> HIDE DEF ns
<1>4. \A n \in 1..Len(msgs) : msgs'[n] = IF n \in ns THEN [msgs[n] EXCEPT !.read = TRUE] ELSE msgs[n]
  BY <1>1, <1>2
<1>5. \A n \in 1..Len(msgs) : After(msgs[n], msgs'[n]) /\ msgs'[n].viewed = msgs[n].viewed /\ (n \in ns => msgs'[n].read)
  BY <1>2, <1>4 DEF After, Message
<1>6. msgs' \in Seq(Message) /\ Len(msgs') = Len(msgs)
  <2>1. msgs' \in [1..Len(msgs) -> Message]
    <3>1. \A n \in 1..Len(msgs) : (IF n \in ns THEN [msgs[n] EXCEPT !.read = TRUE] ELSE msgs[n]) \in Message
      BY <1>4, <1>5 DEF After
    <3> QED BY <1>1, <1>2, <3>1
  <2> QED BY <1>2, <2>1, IsASeq, LenProperties
<1>7. MsgRows' /\ Grows
  <2>1. \A n \in 1..Len(msgs) : msgs'[n].viewed => msgs'[n].kind = "ephemeral_photo"
    BY <1>2, <1>5 DEF After, MsgRows
  <2> QED BY <1>2, <1>5, <1>6, <2>1 DEF MsgRows, Grows
<1>8. MsgTold'
  <2>1. "read" \in Whats /\ \A n \in ns : /\ ~Flag(msgs[n], "read") /\ Flag(msgs'[n], "read")
                                          /\ ("read" = "unsent" <=> u = msgs[n].by)
    BY <1>3, <1>5 DEF Whats, Flag
  <2>2. Msg!Tell("read", u, ns)
    BY <1>1
  <2>3. Len(msgs') = Len(msgs)
    BY <1>6
  <2>4. u \in Users
    OBVIOUS
  <2> QED BY <1>3, <1>7, <2>1, <2>2, <2>3, <2>4, MsgTellKeeps
<1>9. MsgCalls'
  <2>1. "lastRead" \in MsgSteps /\ CallFits("lastRead", rq[r], msgs')
    BY DEF MsgSteps, CallFits
  <2>2. pc' \in [Reqs -> MsgSteps] /\ pc'[r] = "lastRead" /\ \A x \in Reqs \ {r} : pc'[x] = pc[x]
    BY <1>1, <2>1 DEF MsgInv, MsgCalls
  <2>3. \A x \in Reqs : CallFits(pc[x], rq[x], msgs')
    BY <1>2, <1>7, CallsStay DEF MsgInv, MsgCalls
  <2> QED BY <1>1, <2>1, <2>2, <2>3 DEF MsgInv, MsgCalls
<1>10. MsgMarks' /\ PagerFits(pager', Msg!Shown')
  BY <1>1, <1>2, <1>7, MarksStay, ShownGrows, PagerStays DEF MsgInv
<1> QED BY <1>7, <1>8, <1>9, <1>10 DEF MsgInv

(* One call opens a view-once photo, or takes a message back.              *)
LEMMA MsgOnceKeeps ==
  ASSUME MsgInv, NEW n \in Msg!Shown, NEW u \in Users,
         Msg!MarkEphemeralViewed(u, n) \/ Msg!UnsendMessage(u, n)
  PROVE  MsgInv'
<1>0. MsgRows /\ n \in 1..Len(msgs) /\ msgs[n] \in Message /\ msgs[n].shown
      /\ (msgs[n].viewed => msgs[n].kind = "ephemeral_photo")
  BY MsgTyped DEF MsgInv, MsgRows
<1>1. UNCHANGED <<lastAt, reactions, lastRead, creator, name, members, pc, rq, pager>>
  BY DEF Msg!MarkEphemeralViewed, Msg!UnsendMessage, Msg!marks, Msg!group
<1>2. ASSUME NEW w, NEW what \in Whats, msgs' = [msgs EXCEPT ![n] = w], After(msgs[n], w),
             w.viewed => w.kind = "ephemeral_photo", Msg!Tell(what, u, {n}),
             ~Flag(msgs[n], what), Flag(w, what), what = "unsent" <=> u = msgs[n].by
      PROVE  MsgInv'
  <2>1. MsgRows' /\ Grows /\ Len(msgs') = Len(msgs) /\ msgs'[n] = w
    BY <1>0, <1>2, MsgRowKeeps
  <2>2. MsgTold'
    BY <1>0, <1>2, <2>1, MsgTellKeeps
  <2>3. MsgCalls'
    BY <1>0, <1>1, <2>1, CallsStay DEF MsgInv, MsgCalls
  <2>4. MsgMarks' /\ PagerFits(pager', Msg!Shown')
    BY <1>0, <1>1, <2>1, MarksStay, ShownGrows, PagerStays DEF MsgInv
  <2> QED BY <2>1, <2>2, <2>3, <2>4 DEF MsgInv
<1>3. CASE Msg!MarkEphemeralViewed(u, n)
  <2> DEFINE w == [msgs[n] EXCEPT !.viewed = TRUE]
  <2>1. /\ msgs' = [msgs EXCEPT ![n] = w] /\ Msg!Tell("viewed", u, {n})
        /\ msgs[n].kind = "ephemeral_photo" /\ msgs[n].by # u /\ ~msgs[n].viewed
    BY <1>3 DEF Msg!MarkEphemeralViewed
  <2>2. After(msgs[n], w) /\ w.viewed /\ w.kind = msgs[n].kind
    BY <1>0 DEF After, Message
  <2>3. /\ "viewed" \in Whats /\ ~Flag(msgs[n], "viewed") /\ Flag(w, "viewed")
        /\ ("viewed" = "unsent" <=> u = msgs[n].by)
    BY <2>1, <2>2 DEF Whats, Flag
  <2> HIDE DEF w
  <2> QED BY <1>2, <2>1, <2>2, <2>3
<1>4. CASE Msg!UnsendMessage(u, n)
  <2> DEFINE w == [msgs[n] EXCEPT !.unsent = TRUE]
  <2>1. /\ msgs' = [msgs EXCEPT ![n] = w] /\ Msg!Tell("unsent", u, {n})
        /\ msgs[n].by = u /\ ~msgs[n].unsent
    BY <1>4 DEF Msg!UnsendMessage
  <2>2. After(msgs[n], w) /\ w.unsent /\ (w.viewed => w.kind = "ephemeral_photo")
    BY <1>0 DEF After, Message
  <2>3. /\ "unsent" \in Whats /\ ~Flag(msgs[n], "unsent") /\ Flag(w, "unsent")
        /\ ("unsent" = "unsent" <=> u = msgs[n].by)
    BY <2>1, <2>2 DEF Whats, Flag
  <2> HIDE DEF w
  <2> QED BY <1>2, <2>1, <2>2, <2>3
<1> QED BY <1>3, <1>4

(* Requests that end without writing a row.                                *)
LEMMA MsgEndKeeps ==
  ASSUME MsgInv, NEW r \in Reqs,
         Msg!mark_read(r) \/ Msg!set_reaction(r) \/ Msg!remove_reaction(r) \/ Msg!update_group_name(r) \/ Msg!Fail(r)
  PROVE  MsgInv'
<1>1. UNCHANGED <<msgs, lastAt, creator, members, pager, told>> /\ Msg!Finish(r)
  BY DEF Msg!mark_read, Msg!set_reaction, Msg!remove_reaction, Msg!update_group_name, Msg!Fail, Msg!marks, Msg!group
<1>2. MsgRows /\ Grows /\ Msg!Shown' = Msg!Shown
  BY <1>1, GrowsStays DEF MsgInv, Msg!Shown, Msg!Rows
<1>3. MsgCalls'
  BY <1>1, <1>2, MsgFinish
<1>4. MsgMarks'
  <2>1. CASE Msg!mark_read(r)
    <3>1. /\ lastRead' = IF rq[r].user \in members THEN [lastRead EXCEPT ![rq[r].user] = Len(msgs)] ELSE lastRead
          /\ UNCHANGED <<reactions, name>>
      BY <2>1 DEF Msg!mark_read, Msg!group
    <3>2. Len(msgs) \in 0..MaxMsgs
      BY <1>2, MsgTyped DEF MsgRows
    <3>3. lastRead' \in [Users -> 0..MaxMsgs]
      BY <3>1, <3>2 DEF MsgInv, MsgMarks
    <3> QED BY <1>1, <1>2, <3>1, <3>3 DEF MsgInv, MsgMarks
  <2>2. CASE Msg!set_reaction(r)
    <3> DEFINE t == <<rq[r].msg, rq[r].user, rq[r].emoji>>
    <3>1. /\ reactions' = Msg!Others(r) \cup {t} /\ pc[r] = "react" /\ UNCHANGED <<lastRead, name>>
      BY <2>2 DEF Msg!set_reaction, Msg!group
    <3>2. rq[r].msg \in Msg!Shown /\ rq[r].user \in Users /\ rq[r].emoji \in Emojis
      BY <1>2, <3>1, MsgTyped DEF MsgInv, MsgCalls, CallFits
    <3>3. reactions \subseteq Msg!Shown \X Users \X Emojis /\ \A a, b \in reactions : a[1] = b[1] /\ a[2] = b[2] => a = b
      BY DEF MsgInv, MsgMarks
    <3>4. \A a \in Msg!Others(r) : a \in reactions /\ ~(a[1] = rq[r].msg /\ a[2] = rq[r].user)
      BY DEF Msg!Others
    <3>5. reactions' \subseteq Msg!Shown \X Users \X Emojis
      BY <3>1, <3>2, <3>3, <3>4
    <3>6. \A a, b \in reactions' : a[1] = b[1] /\ a[2] = b[2] => a = b
      <4> SUFFICES ASSUME NEW a \in reactions', NEW b \in reactions', a[1] = b[1] /\ a[2] = b[2] PROVE a = b
        OBVIOUS
      <4>1. (a = t \/ a \in Msg!Others(r)) /\ (b = t \/ b \in Msg!Others(r)) /\ t[1] = rq[r].msg /\ t[2] = rq[r].user
        BY <3>1
      <4> HIDE DEF t
      <4> QED BY <4>1, <3>3, <3>4
    <3> QED BY <1>1, <1>2, <3>1, <3>5, <3>6 DEF MsgInv, MsgMarks
  <2>3. CASE Msg!remove_reaction(r)
    <3>1. reactions' \subseteq reactions /\ UNCHANGED <<lastRead, name>>
      BY <2>3 DEF Msg!remove_reaction, Msg!Others, Msg!group
    <3> QED BY <1>1, <1>2, <3>1 DEF MsgInv, MsgMarks
  <2>4. CASE Msg!update_group_name(r)
    <3>1. (name' = name \/ name' = creator) /\ UNCHANGED <<reactions, lastRead>>
      BY <2>4 DEF Msg!update_group_name, Msg!marks
    <3> QED BY <1>1, <1>2, <3>1 DEF MsgInv, MsgMarks
  <2>5. CASE Msg!Fail(r)
    <3>1. UNCHANGED <<reactions, lastRead, name>>
      BY <2>5 DEF Msg!Fail, Msg!marks, Msg!group
    <3> QED BY <1>1, <1>2, <3>1 DEF MsgInv, MsgMarks
  <2> QED BY <2>1, <2>2, <2>3, <2>4, <2>5
<1>5. PagerFits(pager', Msg!Shown)
  BY <1>1 DEF MsgInv
<1> QED BY <1>1, <1>3, <1>4, <1>5, MsgQuiet

LEMMA MsgMemberKeeps == ASSUME MsgInv, NEW u \in Users, Msg!AddMember(u) \/ Msg!RemoveMember(u) PROVE MsgInv'
<1>1. UNCHANGED <<msgs, lastAt, reactions, creator, name, pc, rq, pager, told>> /\ members' \subseteq Users
      /\ (lastRead' = lastRead \/ lastRead' = [lastRead EXCEPT ![u] = 0])
  BY DEF Msg!AddMember, Msg!RemoveMember, Msg!marks, MsgInv, MsgMarks
<1>2. lastRead' \in [Users -> 0..MaxMsgs]
  <2>1. 0 \in 0..MaxMsgs
    BY PagesHoldSome
  <2> QED BY <1>1, <2>1 DEF MsgInv, MsgMarks
<1>3. Msg!Shown' = Msg!Shown
  BY <1>1 DEF Msg!Shown, Msg!Rows
<1>4. MsgMarks' /\ MsgCalls'
  BY <1>1, <1>2, <1>3 DEF MsgInv, MsgMarks, MsgCalls
<1>5. PagerFits(pager', Msg!Shown)
  BY <1>1 DEF MsgInv
<1> QED BY <1>1, <1>4, <1>5, MsgQuiet

-----------------------------------------------------------------------------
(* A page holds what comes after anything it holds, and something if there *)
(* is anything.                                                            *)
LEMMA NewestIsUpward ==
  ASSUME NEW N \in Nat, NEW ns \in SUBSET (1..N), NEW m \in Msg!Newest(ns), NEW n \in ns, m <= n
  PROVE  n \in Msg!Newest(ns)
<1> DEFINE A == {k \in ns : k > m}
           B == {k \in ns : k > n}
<1>1. IsFiniteSet(A) /\ B \subseteq A
  <2>1. IsFiniteSet(1..N)
    BY FS_Interval
  <2>2. A \subseteq 1..N
    OBVIOUS
  <2>3. \A k \in ns : k > n => k > m
    BY DEF Msg!Newest
  <2> QED BY <2>1, <2>2, <2>3, FS_Subset
<1>2. Cardinality(A) < Limit
  BY MsgCard DEF Msg!Newest
<1>3. Cardinality(B) <= Cardinality(A) /\ Cardinality(A) \in Nat /\ Cardinality(B) \in Nat
  BY <1>1, FS_Subset, FS_CardinalityType
<1>4. Cardinality(B) < Limit
  BY <1>2, <1>3, PagesHoldSome
<1> QED BY <1>4, MsgCard DEF Msg!Newest

LEMMA NewestIsSome ==
  ASSUME NEW N \in Nat, NEW ns \in SUBSET (1..N), ns # {} PROVE Msg!Newest(ns) # {}
<1>1. PICK m \in ns : \A k \in ns : k <= m
  BY Greatest
<1>2. ASSUME NEW k \in ns PROVE ~(k > m)
  <2>1. k \in Nat /\ m \in Nat /\ k <= m
    BY <1>1
  <2> QED BY <2>1
<1>3. Cardinality({k \in ns : k > m}) = 0
  <2>1. {k \in ns : k > m} = {}
    BY <1>2
  <2> QED BY <2>1, FS_EmptySet
<1>4. m \in Msg!Newest(ns)
  BY <1>3, MsgCard, PagesHoldSome DEF Msg!Newest
<1> QED BY <1>4

LEMMA MsgOpenKeeps == ASSUME MsgInv, NEW u \in Users, Msg!OpenHistory(u) PROVE MsgInv'
<1> DEFINE p == [Msg!NoPager EXCEPT !.user = u, !.start = Msg!Shown]
<1>1. UNCHANGED <<msgs, lastAt, reactions, lastRead, creator, name, members, pc, rq, told>> /\ pager' = p
  BY DEF Msg!OpenHistory, Msg!marks, Msg!group
<1>2. PagerFits(p, Msg!Shown)
  BY DEF PagerFits, Msg!NoPager
<1> HIDE DEF p
<1>3. Msg!Shown' = Msg!Shown
  BY <1>1 DEF Msg!Shown, Msg!Rows
<1>4. MsgMarks' /\ MsgCalls'
  BY <1>1, <1>3 DEF MsgInv, MsgMarks, MsgCalls
<1> QED BY <1>1, <1>2, <1>4, MsgQuiet

LEMMA MsgPageKeeps == ASSUME MsgInv, Msg!Page PROVE MsgInv'
<1> DEFINE page == Msg!list_messages(pager.before)
           ns == Msg!Earlier(pager.before)
           first == CHOOSE n \in page : \A k \in page : n <= k
           p == [pager EXCEPT !.got = @ \cup page, !.again = @ \/ page \cap pager.got # {},
                              !.over = page = {}, !.before = IF page = {} THEN @ ELSE first]
<1>1. UNCHANGED <<msgs, lastAt, reactions, lastRead, creator, name, members, pc, rq, told>> /\ pager' = p
  BY DEF Msg!Page, Msg!marks, Msg!group
<1>2. /\ pager \in [user : Users \cup {Nobody}, before : Nat, start : SUBSET Msg!Shown, got : SUBSET Msg!Shown,
                    again : {FALSE}, over : BOOLEAN]
      /\ \A n \in pager.got : pager.before # 0 /\ pager.before <= n
      /\ \A n \in pager.start : pager.before # 0 /\ pager.before <= n => n \in pager.got
  BY DEF MsgInv, PagerFits
<1>3. Len(msgs) \in Nat /\ Msg!Shown \subseteq 1..Len(msgs)
  BY MsgTyped DEF MsgInv
<1>4. ns \in SUBSET (1..Len(msgs)) /\ ns \subseteq Msg!Shown /\ page = Msg!Newest(ns) /\ page \subseteq ns
  BY <1>3 DEF Msg!Earlier, Msg!list_messages, Msg!Newest
<1>5. page \cap pager.got = {}
  BY <1>2, <1>3, <1>4 DEF Msg!Earlier
<1>6. \A n \in pager.start : n \in pager.got \/ n \in ns
  BY <1>2, <1>3 DEF Msg!Earlier
<1>7. page # {} => first \in page /\ first \in Nat /\ first # 0 /\ \A k \in page : first <= k
  <2> SUFFICES ASSUME page # {} PROVE first \in page /\ first \in Nat /\ first # 0 /\ \A k \in page : first <= k
    OBVIOUS
  <2>1. page \in SUBSET Nat /\ 0 \notin page
    BY <1>4
  <2>2. \E n \in page : \A k \in page : n <= k
    BY <2>1, Least
  <2> HIDE DEF page
  <2>3. first \in page /\ \A k \in page : first <= k
    BY <2>2
  <2> QED BY <2>1, <2>3
<1> DEFINE before == IF page = {} THEN pager.before ELSE first
           over == page = {}
<1>8. PagerFits(p, Msg!Shown)
  <2> DEFINE again == pager.again \/ page \cap pager.got # {}
  <2>1. over \in BOOLEAN /\ again = FALSE
    BY <1>2, <1>5
  <2>2. /\ p = [user |-> pager.user, before |-> before, start |-> pager.start, got |-> pager.got \cup page,
                again |-> FALSE, over |-> over]
    <3>1. p = [pager EXCEPT !.got = pager.got \cup page, !.again = again, !.over = over, !.before = before]
      BY <1>2
    <3> HIDE DEF p, again, over, before, page
    <3> QED BY <1>2, <2>1, <3>1
  <2> HIDE DEF p, over
  <2>3. p \in [user : Users \cup {Nobody}, before : Nat, start : SUBSET Msg!Shown, got : SUBSET Msg!Shown,
               again : {FALSE}, over : BOOLEAN]
    BY <1>2, <1>4, <1>7, <2>1, <2>2
  <2>4. ASSUME NEW n \in pager.got \cup page PROVE before # 0 /\ before <= n
    <3>1. CASE page = {}
      BY <3>1, <1>2, <2>4
    <3>2. CASE page # {}
      <4>1. before = first /\ before \in page /\ before \in Nat /\ before # 0 /\ \A k \in page : before <= k
        BY <3>2, <1>7
      <4>2. n \in pager.got => pager.before # 0 /\ pager.before <= n /\ n \in Nat /\ before < pager.before
        BY <1>2, <1>3, <1>4, <4>1 DEF Msg!Earlier
      <4> HIDE DEF before
      <4> QED BY <1>2, <4>1, <4>2
    <3> QED BY <3>1, <3>2
  <2>5. ASSUME NEW n \in pager.start, before # 0 /\ before <= n PROVE n \in pager.got \cup page
    <3>1. CASE page = {}
      BY <3>1, <1>2, <2>5
    <3>2. CASE page # {}
      <4>1. first \in page /\ first <= n
        BY <3>2, <1>7, <2>5
      <4>2. n \in ns => n \in page
        BY <1>3, <1>4, <4>1, NewestIsUpward
      <4> QED BY <1>6, <4>2
    <3> QED BY <3>1, <3>2
  <2>6. ASSUME page = {} PROVE pager.start \subseteq pager.got
    <3>1. ns = {}
      BY <1>3, <1>4, <2>6, NewestIsSome
    <3> QED BY <1>6, <3>1
  <2>7. p.got = pager.got \cup page /\ p.start = pager.start /\ p.before = before /\ (p.over => page = {})
    BY <2>2 DEF over
  <2> HIDE DEF before
  <2> QED BY <2>3, <2>4, <2>5, <2>6, <2>7 DEF PagerFits
<1> HIDE DEF p
<1>9. Msg!Shown' = Msg!Shown
  BY <1>1 DEF Msg!Shown, Msg!Rows
<1>10. MsgMarks' /\ MsgCalls'
  BY <1>1, <1>9 DEF MsgInv, MsgMarks, MsgCalls
<1> QED BY <1>1, <1>8, <1>10, MsgQuiet

-----------------------------------------------------------------------------
LEMMA MsgInitInv == Msg!Init => MsgInv
<1> SUFFICES ASSUME Msg!Init PROVE MsgInv
  OBVIOUS
<1>1. /\ msgs = <<>> /\ lastAt = 0 /\ reactions = {} /\ name = creator /\ members = Users
      /\ lastRead = [u \in Users |-> 0] /\ pc = [r \in Reqs |-> "idle"] /\ rq = [r \in Reqs |-> Msg!Blank]
      /\ pager = Msg!NoPager /\ told = [n \in 1..MaxMsgs |-> <<>>]
  BY DEF Msg!Init
<1>2. msgs \in Seq(Message) /\ Len(msgs) = 0 /\ MaxMsgs \in Nat
  BY <1>1, EmptySeq, PagesHoldSome
<1>3. MsgRows /\ MsgTold
  BY <1>1, <1>2 DEF MsgRows, MsgTold
<1>4. MsgMarks
  BY <1>1, <1>2 DEF MsgMarks
<1>5. MsgCalls
  BY <1>1 DEF MsgCalls, MsgSteps, CallFits
<1>6. PagerFits(pager, Msg!Shown)
  BY <1>1 DEF PagerFits, Msg!NoPager
<1> QED BY <1>3, <1>4, <1>5, <1>6 DEF MsgInv

LEMMA MsgStepInv == MsgInv /\ Msg!Next => MsgInv'
<1> SUFFICES ASSUME MsgInv, Msg!Next PROVE MsgInv'
  OBVIOUS
<1>1. ASSUME NEW r \in Reqs, Msg!Serve(r) PROVE MsgInv'
  <2>1. CASE Msg!mark_messages_read(r)
    BY <2>1, MsgStampKeeps
  <2> QED BY <1>1, <2>1, MsgAskKeeps, MsgInsertKeeps, MsgCommitKeeps, MsgEndKeeps DEF Msg!Serve
<1> QED BY <1>1, MsgOnceKeeps, MsgMemberKeeps, MsgOpenKeeps, MsgPageKeeps DEF Msg!Next

LEMMA MsgInvShows == MsgInv => Msg!TypeOK /\ Msg!OnceOnly /\ Msg!HistoryIsComplete
<1> SUFFICES ASSUME MsgInv PROVE Msg!TypeOK /\ Msg!OnceOnly /\ Msg!HistoryIsComplete
  OBVIOUS
<1>1. Msg!TypeOK
  <2>1. msgs \in Seq([by : Users, kind : Msg!Kinds, shown : BOOLEAN, read : BOOLEAN,
                      viewed : BOOLEAN, unsent : BOOLEAN])
    BY DEF MsgInv, MsgRows, Message
  <2>2. \A n \in Msg!Rows : msgs[n].viewed => msgs[n].kind = "ephemeral_photo"
    BY DEF MsgInv, MsgRows, Msg!Rows
  <2> QED BY <2>1, <2>2 DEF MsgInv, MsgMarks, Msg!TypeOK
<1>2. Msg!OnceOnly
  <2> SUFFICES ASSUME NEW n \in DOMAIN told, NEW i \in DOMAIN told[n]
               PROVE  /\ \A j \in DOMAIN told[n] : told[n][i][1] = told[n][j][1] => i = j
                      /\ (told[n][i][1] = "unsent") <=> (told[n][i][2] = msgs[n].by)
    BY DEF Msg!OnceOnly
  <2>1. n \in 1..MaxMsgs /\ IF n <= Len(msgs) THEN ToldOf(told[n], msgs[n]) ELSE told[n] = <<>>
    BY DEF MsgInv, MsgTold
  <2>2. CASE told[n] = <<>>
    BY <2>2
  <2>3. CASE ToldOf(told[n], msgs[n])
    <3>1. told[n] \in Seq(Whats \X Users)
      BY <2>3 DEF ToldOf
    <3>2. DOMAIN told[n] = 1..Len(told[n])
      BY <3>1, LenProperties
    <3> QED BY <2>3, <3>2 DEF ToldOf
  <2> QED BY <2>1, <2>2, <2>3
<1>3. Msg!HistoryIsComplete
  BY DEF MsgInv, PagerFits, Msg!HistoryIsComplete
<1> QED BY <1>1, <1>2, <1>3

-----------------------------------------------------------------------------
(***************************************************************************)
(* The parts together.                                                     *)
(***************************************************************************)

(* What each part relies on does not depend on anything but its state.     *)
LEMMA MsgUntouched == MsgInv /\ UNCHANGED Msg!vars => MsgInv'
<1> SUFFICES ASSUME MsgInv, UNCHANGED Msg!vars PROVE MsgInv'
  OBVIOUS
<1>1. UNCHANGED <<msgs, lastAt, reactions, lastRead, creator, name, members, pc, rq, pager, told>>
  BY DEF Msg!vars, Msg!marks, Msg!group
<1>2. Msg!Shown' = Msg!Shown
  BY <1>1 DEF Msg!Shown, Msg!Rows
<1>3. MsgMarks' /\ MsgCalls'
  BY <1>1, <1>2 DEF MsgInv, MsgMarks, MsgCalls
<1>4. PagerFits(pager', Msg!Shown)
  BY <1>1 DEF MsgInv
<1> QED BY <1>1, <1>3, <1>4, MsgQuiet

LEMMA AlbUntouched == AlbInv /\ UNCHANGED Alb!vars => AlbInv'
BY DEF AlbInv, Alb!vars, Alb!rows

LEMMA LimUntouched == LimInv /\ UNCHANGED Lim!vars => LimInv'
<1> SUFFICES ASSUME LimInv, UNCHANGED Lim!vars PROVE LimInv'
  OBVIOUS
<1>1. /\ backend' = backend /\ count' = count /\ ttl' = ttl /\ lost' = lost /\ tokens' = tokens /\ stamp' = stamp
      /\ passed' = passed /\ back' = back /\ now' = now /\ free' = free /\ pc' = pc /\ rq' = rq /\ calls' = calls
  BY DEF Lim!vars, Lim!redis, Lim!bucket
<1>2. Lim!Trapped' = Lim!Trapped
  BY <1>1 DEF Lim!Trapped
<1>3. Lim!TypeOK'
  BY <1>1, <1>2 DEF LimInv, LimTypes, Lim!TypeOK
<1>4. LimTypes'
  BY <1>1, <1>3 DEF LimInv, LimTypes
<1>5. Lim!NoKeyForever' /\ Lim!BucketHolds'
  BY <1>1 DEF LimInv, Lim!NoKeyForever, Lim!BucketHolds
<1> QED BY <1>4, <1>5 DEF LimInv

LEMMA EvtUntouched == EvtInv /\ UNCHANGED Evt!vars => EvtInv'
<1> SUFFICES ASSUME EvtInv, UNCHANGED Evt!vars PROVE EvtInv'
  OBVIOUS
<1>1. event' = event /\ rsvp' = rsvp /\ pc' = pc /\ rq' = rq
  BY DEF Evt!vars
<1>2. \A e \in EventIds : Evt!Coming(e)' = Evt!Coming(e) /\ (Evt!Exists(e)' <=> Evt!Exists(e))
  BY <1>1 DEF Evt!Coming, Evt!Exists
<1>3. Evt!TypeOK'
  BY <1>1, <1>2 DEF EvtInv, EvtTypes, Evt!TypeOK
<1>4. EvtTypes'
  BY <1>1, <1>3 DEF EvtInv, EvtTypes
<1>5. EvtCounted'
  BY <1>1 DEF EvtInv, EvtCounted
<1> QED BY <1>4, <1>5 DEF EvtInv

LEMMA CardUntouched == CardInv /\ UNCHANGED Card!vars => CardInv'
BY DEF CardInv, CardTypes, CardAsks, Card!vars, Card!row, Card!TypeOK, Card!AllDone, Asking

-----------------------------------------------------------------------------
(* Whichever part a behaviour is of, its invariant holds.                  *)
PartsInv ==
  /\ part = "messages" => MsgInv
  /\ part = "albums" => AlbInv
  /\ part = "codes" => CodeInv
  /\ part = "limits" => LimInv
  /\ part = "events" => EvtInv
  /\ part = "cards" => CardInv

LEMMA PartsInitInv == MembersInit => PartsInv
BY MsgInitInv, AlbInitInv, CodeInitInv, LimInitInv, EvtInitInv, CardInitInv DEF MembersInit, PartsInv

LEMMA PartsStepInv == PartsInv /\ [MembersNext]_memberVars => PartsInv'
<1> SUFFICES ASSUME PartsInv, [MembersNext]_memberVars PROVE PartsInv'
  OBVIOUS
<1>1. CASE MembersNext
  <2>1. UNCHANGED part
    BY <1>1 DEF MembersNext
  <2>2. /\ part = "messages" => Msg!Next
        /\ part = "albums" => Alb!Next
        /\ part = "codes" => Next
        /\ part = "limits" => Lim!Next
        /\ part = "events" => Evt!Next
        /\ part = "cards" => Card!Next
    BY <1>1 DEF MembersNext
  <2>3. Next => [Next]_vars
    OBVIOUS
  <2> QED BY <2>1, <2>2, <2>3, MsgStepInv, AlbStepInv, CodeStepInv, LimStepInv, EvtStepInv, CardStepInv DEF PartsInv
<1>2. CASE UNCHANGED memberVars
  <2>1. UNCHANGED <<part, pc, rq, calls, faults, now, msgVars, albumVars, codeVars, limitVars, eventVars, cardVars>>
    BY <1>2 DEF memberVars
  <2>2. /\ UNCHANGED Msg!vars /\ UNCHANGED Alb!vars /\ UNCHANGED vars
        /\ UNCHANGED Lim!vars /\ UNCHANGED Evt!vars /\ UNCHANGED Card!vars
    BY <2>1 DEF msgVars, albumVars, codeVars, limitVars, eventVars, cardVars, vars, Msg!vars, Msg!marks, Msg!group,
                Alb!vars, Alb!rows, Lim!vars, Lim!redis, Lim!bucket, Evt!vars, Card!vars, Card!row
  <2>3. CodeInv => CodeInv'
    <3>1. [Next]_vars
      BY <2>2
    <3> QED BY <3>1, CodeStepInv
  <2> QED BY <2>1, <2>2, <2>3, MsgUntouched, AlbUntouched, LimUntouched, EvtUntouched, CardUntouched DEF PartsInv
<1> QED BY <1>1, <1>2

LEMMA PartsInvariance == MembersSpec => []PartsInv
BY PartsInitInv, PartsStepInv, PTL DEF MembersSpec

(* Every part is well typed for any number of users, requests, rows and    *)
(* calls: among else, only view-once photos are ever viewed (messages of   *)
(* api/src/chat.rs), an album shows its owner's photos (db/src/albums.rs)  *)
(* and the tarpit's permits are those its connections lack (limits.rs).    *)
THEOREM TypeCorrect == MembersSpec => []PartsTypeOK
<1>1. PartsInv => PartsTypeOK
  BY MsgInvShows, AlbInvTypes DEF PartsInv, PartsTypeOK, CodeInv, CodeTypes, LimInv, LimTypes, EvtInv, EvtTypes,
                                  CardInv, CardTypes
<1> QED BY <1>1, PartsInvariance, PTL

(* Of any number of overlapping calls one is told that it read a message,  *)
(* one that it opened the view-once photo and one that it unsent it; the   *)
(* last is its author's, the others never are.                             *)
THEOREM CallsAreToldOnce == MembersSpec => []OnceOnly
<1>1. PartsInv => OnceOnly
  BY MsgInvShows DEF PartsInv, OnceOnly
<1> QED BY <1>1, PartsInvariance, PTL

(* Whatever the size of a page and whatever is sent meanwhile, a client    *)
(* that pages back to the end has all that was there when it began, and    *)
(* nothing twice (list_messages).                                          *)
THEOREM PagesGiveEverything == MembersSpec => []HistoryIsComplete
<1>1. PartsInv => HistoryIsComplete
  BY MsgInvShows DEF PartsInv, HistoryIsComplete
<1> QED BY <1>1, PartsInvariance, PTL

(* Lists, albums and links to photos agree on who may see what, for any    *)
(* albums, photos, users and overlapping changes (db/src/albums.rs).       *)
THEOREM AlbumRulesAgree == MembersSpec => []AccessRulesAgree
<1>1. PartsInv => AccessRulesAgree
  BY AlbInvShows DEF PartsInv, AccessRulesAgree
<1> QED BY <1>1, PartsInvariance, PTL

(* A counter without a time to live has a request that is about to give it *)
(* one, unless a command was lost (INCR and EXPIRE of the rate limiter).   *)
THEOREM CountersExpire == MembersSpec => []NoKeyForever
<1>1. PartsInv => NoKeyForever
  BY DEF PartsInv, LimInv, NoKeyForever
<1> QED BY <1>1, PartsInvariance, PTL

(* For any capacity and rate the bucket lets through what it held and what *)
(* time has filled in, and the stamp's steps back at most (Bucket::take).  *)
THEOREM BucketIsHonest == MembersSpec => []BucketHolds
<1>1. PartsInv => BucketHolds
  BY DEF PartsInv, LimInv, BucketHolds
<1> QED BY <1>1, PartsInvariance, PTL

(* For any sizes, guests and overlapping answers, an event has fewer       *)
(* guests too many than requests are served at once (attend).              *)
THEOREM PlacesAreBounded == MembersSpec => []GoingBounded
<1>1. PartsInv => GoingBounded
  BY EvtInvShows DEF PartsInv, GoingBounded
<1> QED BY <1>1, PartsInvariance, PTL

(* Whatever cards there are and however their handlers overlap, nobody who *)
(* has done the required ones stays hidden without a request that is still *)
(* to show them (try_complete_onboarding).                                 *)
THEOREM DoneIsShown == MembersSpec => []ShownWhenDone
<1>1. PartsInv => ShownWhenDone
  BY CardInvShows DEF PartsInv, ShownWhenDone
<1> QED BY <1>1, PartsInvariance, PTL
=============================================================================

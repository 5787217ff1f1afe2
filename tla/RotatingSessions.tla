-------------------------- MODULE RotatingSessions --------------------------
(***************************************************************************)
(* What rotating refresh tokens promise, whatever tables and handlers keep *)
(* them: a login is a family of tokens, passed from each token to the next *)
(* by one exchange, so that a family has one bearer at a time.             *)
(***************************************************************************)
CONSTANTS Tokens

VARIABLES
  bearers,    \* the tokens of a family that can be exchanged now
  rotating,   \* families whose bearer was handed in and not yet replaced
  minted      \* tokens ever given out

vars == <<bearers, rotating, minted>>

Init ==
  /\ bearers = [f \in Tokens |-> {}]
  /\ rotating = {}
  /\ minted = {}

(* A login mints the first token of a family, which gives it its name.     *)
Open(f) ==
  /\ f \notin minted \cup rotating
  /\ minted' = minted \cup {f}
  /\ bearers' = [bearers EXCEPT ![f] = {f}]
  /\ UNCHANGED rotating

(* Handing a token in ends it; only its family's single bearer can be.     *)
Claim(f, t) ==
  /\ bearers[f] = {t}
  /\ f \notin rotating
  /\ bearers' = [bearers EXCEPT ![f] = {}]
  /\ rotating' = rotating \cup {f}
  /\ UNCHANGED minted

Replace(f, t) ==
  /\ f \in rotating
  /\ bearers[f] = {}
  /\ t \notin minted
  /\ bearers' = [bearers EXCEPT ![f] = {t}]
  /\ minted' = minted \cup {t}
  /\ rotating' = rotating \ {f}

(* An exchange that is not completed ends the family.                      *)
Drop(f) ==
  /\ rotating' = rotating \ {f}
  /\ UNCHANGED <<bearers, minted>>

(* A revocation ends any number of bearers at once.                        *)
Close(ended) ==
  /\ bearers' = [f \in Tokens |-> IF f \in ended THEN {} ELSE bearers[f]]
  /\ UNCHANGED <<rotating, minted>>

Next ==
  \/ \E f \in Tokens : Open(f) \/ Drop(f)
  \/ \E f, t \in Tokens : Claim(f, t) \/ Replace(f, t)
  \/ \E ended \in SUBSET Tokens : Close(ended)

Spec == Init /\ [][Next]_vars
=============================================================================

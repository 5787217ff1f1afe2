----------------------------- MODULE Onboarding -----------------------------
(***************************************************************************)
(* How a new user comes to be shown to others: the onboarding cards, the   *)
(* profile that PUT /profile edits, the flag that complete_card sets once  *)
(* the four required cards are done, and the two lists that ask for it     *)
(* (api/src/{onboarding,profile,privacy,discover}.rs, db/src/{profiles,    *)
(* geo}.rs).                                                               *)
(*                                                                         *)
(* One user.  Of a column, and of a list in a table of its own, only       *)
(* whether it holds something; photos are counted, PhotoGallery has their  *)
(* details.  Status, place, blocks and a row of profiles are conditions of *)
(* the lists too; whose required cards are done has such a row.            *)
(*                                                                         *)
(* History, read by no action: elsewhere.                                  *)
(***************************************************************************)
EXTENDS Integers

CONSTANTS
  Reqs,       \* requests served at the same time
  Nested,     \* optional cards kept inside profiles.details
  Columns,    \* optional cards with a column of profiles
  Lists,      \* optional cards with a table of their own
  Edits,      \* what a PUT may give and empty: records [add, del]
  MaxPhotos,  \* bound: rows of photos
  MaxCalls,   \* bound: calls but for cards
  MaxFaults   \* bound: statements that fail

VARIABLES
  filled,     \* columns, nested keys and lists that hold something
  photos,     \* rows of photos
  completed,  \* onboarding_completed_at is set
  skipped,    \* cards in onboarding_skipped_cards
  incognito,
  pc, rq,     \* where each request stands, and what it is to write
  elsewhere,  \* the last piece came by another way than a card, or a call failed
  calls, faults

row == <<filled, photos, incognito>>
vars == <<row, completed, skipped, pc, rq, elsewhere, calls, faults>>

Optional == Nested \cup Columns \cup Lists
(* The columns of the required cards.  dob is one of users, and another    *)
(* than the birthdate that PUT /profile sets.                              *)
Named == {"display_name", "dob", "gender_identity", "position"}
Required == {"profile_photo", "display_name", "age", "gender_position"}
Blank == [add |-> {}, del |-> {}]

TypeOK ==
  /\ filled \subseteq Named \cup Optional
  /\ photos \in 0..MaxPhotos /\ completed \in BOOLEAN /\ incognito \in BOOLEAN
  /\ skipped \subseteq Optional /\ elsewhere \in BOOLEAN
  /\ \A r \in Reqs : pc[r] = "idle" => rq[r] = Blank

(* Registration asks for the date of birth, sign-in with a provider not.   *)
Init ==
  /\ filled \in {{}, {"dob"}}
  /\ photos = 0 /\ completed = FALSE /\ skipped = {} /\ incognito = FALSE
  /\ pc = [r \in Reqs |-> "idle"] /\ rq = [r \in Reqs |-> Blank]
  /\ elsewhere = FALSE
  /\ calls = 0 /\ faults = 0

-----------------------------------------------------------------------------
(* get_state's view of a card, from columns read into a snapshot.          *)
ColumnsOf(card) ==
  CASE card = "display_name" -> {"display_name"}
    [] card = "age" -> {"dob"}
    [] card = "gender_position" -> {"gender_identity", "position"}
    [] card \in Optional -> {card}
    [] OTHER -> {}
card_completed(card) ==
  IF card = "profile_photo" THEN photos > 0 ELSE ColumnsOf(card) \subseteq filled
get_state ==
  [cards |-> Required \cup (Optional \ skipped), onboarding_completed |-> completed]

(* The condition that try_complete_onboarding writes out again.            *)
AllDone == photos > 0 /\ Named \subseteq filled

Count == calls < MaxCalls /\ calls' = calls + 1
Goto(r, step, q) ==
  /\ pc' = [pc EXCEPT ![r] = step]
  /\ rq' = [rq EXCEPT ![r] = q]
Finish(r) == Goto(r, "idle", Blank)

(* A statement changes what is there.  byCard: try_complete is to follow.  *)
Write(add, del, byCard) ==
  /\ filled' = (filled \ del) \cup (add \cap (Named \cup Optional))
  /\ photos' = IF "photo" \in add THEN photos + 1 ELSE photos
  /\ photos' <= MaxPhotos
  /\ elsewhere' = (AllDone' /\ (elsewhere \/ (~AllDone /\ ~byCard)))

-----------------------------------------------------------------------------
(* complete_card: one statement for the card, then try_complete_onboarding.*)
(* A name, an age out of range and an empty list are refused; what is kept *)
(* in details or as a text may be emptied.                                 *)
CompleteCard(r, card, empty) ==
  /\ pc[r] = "idle"
  /\ card \in Required \cup Lists => ~empty
  /\ LET what == IF card = "profile_photo" THEN {"photo"} ELSE ColumnsOf(card) IN
     Goto(r, "card", IF empty THEN [add |-> {}, del |-> what] ELSE [add |-> what, del |-> {}])
  /\ UNCHANGED <<row, completed, skipped, elsewhere, calls, faults>>

StoreCard(r, next) ==
  /\ pc[r] = "card"
  /\ Write(rq[r].add, rq[r].del, TRUE)
  /\ Goto(r, next, Blank)
  /\ UNCHANGED <<completed, skipped, incognito, calls, faults>>
SetCardInOrder(r) ==              \* faulty: asks after the fourth card alone
  StoreCard(r, IF "gender_identity" \in rq[r].add THEN "try" ELSE "idle")
SetCard(r) == StoreCard(r, "try")

try_complete_onboarding(r) ==
  /\ pc[r] = "try"
  /\ completed' = (completed \/ AllDone)
  /\ Finish(r)
  /\ UNCHANGED <<row, skipped, elsewhere, calls, faults>>

(* A statement fails.  After the card's, nobody asks any more.             *)
Fail(r) ==
  /\ pc[r] # "idle" /\ faults < MaxFaults /\ faults' = faults + 1
  /\ elsewhere' = (elsewhere \/ (pc[r] = "try" /\ AllDone))
  /\ Finish(r)
  /\ UNCHANGED <<row, completed, skipped, calls>>

(* One-statement handlers.  force_complete looks at no card.               *)
One == Count /\ UNCHANGED <<pc, rq, faults>>
skip_cards(cards) ==
  /\ cards \subseteq Optional /\ One
  /\ skipped' = skipped \cup cards
  /\ UNCHANGED <<row, completed, elsewhere>>
force_complete ==
  /\ One
  /\ completed' = TRUE
  /\ UNCHANGED <<row, skipped, elsewhere>>
update_preferences(hide) ==
  /\ One
  /\ incognito' = hide
  /\ UNCHANGED <<filled, photos, completed, skipped, elsewhere>>

(* create_photo and delete_photo of the gallery.                           *)
CreatePhoto ==
  /\ One /\ Write({"photo"}, {}, FALSE)
  /\ UNCHANGED <<completed, skipped, incognito>>
DeletePhoto ==
  /\ photos > 0 /\ One
  /\ photos' = photos - 1
  /\ elsewhere' = (elsewhere /\ photos > 1)
  /\ UNCHANGED <<filled, completed, skipped, incognito>>

-----------------------------------------------------------------------------
(* update_own: the columns; each list that is given, in transactions of    *)
(* their own and in any order; details as a whole.  None of them asks      *)
(* whether the cards are done.  What is emptied is a name, a text or a     *)
(* list; gender and date of birth have no field here.                      *)
UpdateOwn(r, edit) ==
  /\ pc[r] = "idle" /\ Count
  /\ Goto(r, "upsert", edit)
  /\ UNCHANGED <<row, completed, skipped, elsewhere, faults>>

Put(r, what) == Write(rq[r].add \cap what, rq[r].del \cap what, FALSE)
Given(r) == (rq[r].add \cup rq[r].del) \cap Lists
ToLists(r, q) ==
  Goto(r, IF (q.add \cup q.del) \cap Lists = {} THEN "meta" ELSE "lists", q)

upsert_profile(r) ==
  /\ pc[r] = "upsert"
  /\ Put(r, {"display_name", "position"} \cup Columns)
  /\ ToLists(r, rq[r])
  /\ UNCHANGED <<completed, skipped, incognito, calls, faults>>
replace_list(r, l) ==
  /\ pc[r] = "lists" /\ l \in Given(r)
  /\ Put(r, {l})
  /\ ToLists(r, [add |-> rq[r].add \ {l}, del |-> rq[r].del \ {l}])
  /\ UNCHANGED <<completed, skipped, incognito, calls, faults>>
patch_profile_meta(r) ==
  /\ pc[r] = "meta"
  /\ IF "details" \in rq[r].add THEN Write(rq[r].add \cap Nested, Nested, FALSE)
     ELSE UNCHANGED <<filled, photos, elsewhere>>
  /\ Finish(r)
  /\ UNCHANGED <<completed, skipped, incognito, calls, faults>>

(* find_nearby_users and discover, of this user.                           *)
find_nearby_users == completed /\ ~incognito

Next ==
  \/ \E r \in Reqs :
       \/ \E card \in Required \cup Optional, empty \in BOOLEAN : CompleteCard(r, card, empty)
       \/ \E edit \in Edits : UpdateOwn(r, edit)
       \/ SetCard(r)
       \/ try_complete_onboarding(r)
       \/ upsert_profile(r)
       \/ \E l \in Lists : replace_list(r, l)
       \/ patch_profile_meta(r)
       \/ Fail(r)
  \/ \E cards \in SUBSET Optional : skip_cards(cards)
  \/ \E hide \in BOOLEAN : update_preferences(hide)
  \/ force_complete
  \/ CreatePhoto
  \/ DeletePhoto

Spec == Init /\ [][Next]_vars

-----------------------------------------------------------------------------
(* In whatever order the cards are completed, and however they overlap     *)
(* with edits of the profile and of the gallery, a user to whom all the    *)
(* required cards show as done is shown to others, or is about to be: the  *)
(* call that stored the last card is still to ask.  Only where that call   *)
(* failed, or the last piece came from the editor or the gallery, does the *)
(* user stay hidden until the next card.                                   *)
ShownWhenDone ==
  /\ \A card \in Required : card \in get_state.cards /\ card_completed(card)
  /\ ~elsewhere /\ ~incognito /\ \A r \in Reqs : pc[r] # "try"
  => find_nearby_users
=============================================================================

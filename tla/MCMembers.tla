----------------------------- MODULE MCMembers ------------------------------
(***************************************************************************)
(* A small instance of AuthCodes for TLC, and small instances of Messages, *)
(* Albums, Limits, Events and Onboarding.  They share no table, so one run *)
(* takes them one at a time: its first state says which.  What is not of   *)
(* that part keeps the value it starts with.                               *)
(***************************************************************************)
EXTENDS AuthCodes, TLC
CONSTANTS
  Users, Bodies, Emojis, Limit, MaxMsgs,                                    \* Messages
  AlbumIds, Photos, Never, AlbumTime, AlbumCalls,                           \* Albums
  Max, Permits, Refill, Backends, Enabled, MaxTime, LimitCalls,             \* Limits
  Guests, EventIds, Sizes, EventCalls,                                      \* Events
  Nested, Columns, Lists, Edits, MaxPhotos, CardCalls,                      \* Onboarding
  Nobody, Nothing
VARIABLES
  part, now,
  msgs, lastAt, reactions, creator, name, members, lastRead, pager, told,   \* Messages
  owner, private, photo, share,                                             \* Albums
  backend, count, ttl, tokens, stamp, free, lost, passed, back,             \* Limits
  event, rsvp,                                                              \* Events
  filled, photos, completed, skipped, incognito, elsewhere                  \* Onboarding

Msg == INSTANCE Messages
Alb == INSTANCE Albums WITH MaxTime <- AlbumTime, MaxCalls <- AlbumCalls
Lim == INSTANCE Limits WITH at <- rq, MaxCalls <- LimitCalls
Evt == INSTANCE Events WITH Users <- Guests, MaxCalls <- EventCalls
Card == INSTANCE Onboarding WITH MaxCalls <- CardCalls

(* Pages hold a message at least, the limiter's settings are unsigned,     *)
(* guests are finitely many and no card is both required and optional.     *)
ASSUME PagesHoldSome == Limit \in Nat \ {0} /\ MaxMsgs \in Nat
ASSUME NobodyHasAlbums == Nobody \notin AlbumIds \cup Users /\ AlbumTime \in Nat
ASSUME LimitsAreUnsigned ==
  /\ Max \in Nat /\ Permits \in Nat /\ Refill \in Nat /\ MaxTime \in Nat /\ LimitCalls \in Nat
  /\ Backends \subseteq {"redis", "memory"}
ASSUME NobodyIsNoEvent == IsFiniteSet(Guests) /\ Sizes \subseteq Nat /\ Nobody \notin Evt!Event
ASSUME CardsDiffer == Card!Optional \cap (Card!Required \cup Card!Named) = {} /\ MaxPhotos \in Nat

(* Values for TLC.  A history of two pages takes four calls, a share that  *)
(* ends and is given again five; that many requests are needed to overtake *)
(* each other at the bucket and to fill an event.                          *)
SomeBodies == {{"text"}, {"place"}, {"media_key", "ephemeral"}, {}}
SomeEdits == {[add |-> {"display_name", "position"}, del |-> {}],
              [add |-> {"details", "n1"}, del |-> {"display_name", "l1"}],
              [add |-> {"details", "l1"}, del |-> {}]}

msgVars == <<msgs, lastAt, reactions, creator, name, members, lastRead, pager, told>>
albumVars == <<owner, private, photo, share>>
codeVars == <<codes, verified, resets, tries>>
limitVars == <<backend, count, ttl, tokens, stamp, free, lost, passed, back>>
eventVars == <<event, rsvp>>
cardVars == <<filled, photos, completed, skipped, incognito, elsewhere>>
memberVars == <<part, pc, rq, calls, faults, now,
                msgVars, albumVars, codeVars, limitVars, eventVars, cardVars>>

NoMessages == msgs = Nothing /\ lastAt = Nothing /\ reactions = Nothing /\ creator = Nothing /\ name = Nothing
  /\ members = Nothing /\ lastRead = Nothing /\ pager = Nothing /\ told = Nothing
NoAlbums == owner = Nothing /\ private = Nothing /\ photo = Nothing /\ share = Nothing
NoCodes == codes = <<>> /\ verified = {} /\ resets = 0 /\ tries = [n \in 1..MaxCodes |-> 0]
NoLimits == backend = Nothing /\ count = Nothing /\ ttl = Nothing /\ tokens = Nothing /\ stamp = Nothing
  /\ free = Nothing /\ lost = Nothing /\ passed = Nothing /\ back = Nothing
NoEvents == event = Nothing /\ rsvp = Nothing
NoCards == filled = Nothing /\ photos = Nothing /\ completed = Nothing /\ skipped = Nothing
  /\ incognito = Nothing /\ elsewhere = Nothing
NoFaults == faults = 0
NoClock == now = 0

MembersInit ==
  \/ part = "messages" /\ Msg!Init /\ NoClock /\ NoAlbums /\ NoCodes /\ NoLimits /\ NoEvents /\ NoCards
  \/ part = "albums" /\ Alb!Init /\ NoFaults /\ NoMessages /\ NoCodes /\ NoLimits /\ NoEvents /\ NoCards
  \/ part = "codes" /\ Init /\ NoClock /\ NoMessages /\ NoAlbums /\ NoLimits /\ NoEvents /\ NoCards
  \/ part = "limits" /\ Lim!Init /\ NoMessages /\ NoAlbums /\ NoCodes /\ NoEvents /\ NoCards
  \/ part = "events" /\ Evt!Init /\ NoFaults /\ NoClock /\ NoMessages /\ NoAlbums /\ NoCodes /\ NoLimits /\ NoCards
  \/ part = "cards" /\ Card!Init /\ NoClock /\ NoMessages /\ NoAlbums /\ NoCodes /\ NoLimits /\ NoEvents

MembersNext ==
  /\ UNCHANGED part
  /\ \/ part = "messages" /\ Msg!Next /\ UNCHANGED <<now, albumVars, codeVars, limitVars, eventVars, cardVars>>
     \/ part = "albums" /\ Alb!Next /\ UNCHANGED <<faults, msgVars, codeVars, limitVars, eventVars, cardVars>>
     \/ part = "codes" /\ Next /\ UNCHANGED <<now, msgVars, albumVars, limitVars, eventVars, cardVars>>
     \/ part = "limits" /\ Lim!Next /\ UNCHANGED <<msgVars, albumVars, codeVars, eventVars, cardVars>>
     \/ part = "events" /\ Evt!Next /\ UNCHANGED <<faults, now, msgVars, albumVars, codeVars, limitVars, cardVars>>
     \/ part = "cards" /\ Card!Next /\ UNCHANGED <<now, msgVars, albumVars, codeVars, limitVars, eventVars>>

MembersSpec == MembersInit /\ [][MembersNext]_memberVars

(* Digits are of Photos.  Two of the three guests are the users. *)
Interchangeable == Permutations(Users) \cup Permutations(Reqs) \cup Permutations(Photos)

-----------------------------------------------------------------------------
(* The types of each part. *)
PartsTypeOK ==
  /\ part = "messages" => Msg!TypeOK
  /\ part = "albums" => Alb!TypeOK
  /\ part = "codes" => TypeOK
  /\ part = "limits" => Lim!TypeOK
  /\ part = "events" => Evt!TypeOK
  /\ part = "cards" => Card!TypeOK

(* Of overlapping calls one is told that it read, opened or unsent.        *)
OnceOnly == part = "messages" => Msg!OnceOnly

(* The pages of the history give every message, once.                      *)
HistoryIsComplete == part = "messages" => Msg!HistoryIsComplete

(* The list of shared albums, the album and the links to photos agree.     *)
AccessRulesAgree == part = "albums" => Alb!AccessRulesAgree

(* Without a failure no counter in Redis lacks its time to live.           *)
NoKeyForever == part = "limits" => Lim!NoKeyForever

(* The bucket lets no more pass than it holds and time has filled in.      *)
BucketHolds == part = "limits" => Lim!BucketHolds

(* Overlapping answers pass an event's places by one each at most.         *)
GoingBounded == part = "events" => Evt!GoingBounded

(* A user whose required cards are done is shown, or is about to be.       *)
ShownWhenDone == part = "cards" => Card!ShownWhenDone
=============================================================================

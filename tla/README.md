# Verification of the dating platform: TLA+ models, TLC runs and TLAPS proofs

This directory holds TLA+ modules translated from the repository's code, the TLC
configurations that check them on small instances, and TLAPS proofs of their main
properties for every value of the constants. The system is a Rust HTTP/WebSocket API
(`backend/crates`: `api`, `auth`, `db`, over PostgreSQL and optionally Redis), a Flutter
app (`apps/app`), a staff console (`apps/admin`) and marketing pages.

`PROJECT.json` is the index: components, runs, mutants, the lines each definition stands
for, findings, hazards and theorems. The tools are run from this directory:

    tlasany M.tla
    tlc -workers 2 -config MCSessions.cfg MCSessions
    tlapm SessionsProofs.tla

## 1. The system

### Components, their state and their operations

| component | state | operations | modelled by |
|---|---|---|---|
| login sessions (`api/src/auth/handlers.rs`, `me.rs`, `db/src/users.rs`) | `users.status/password_hash/email`, `auth_identities`, `refresh_tokens` | register, login, OAuth, refresh, logout, password reset, account deletion; ban, suspend, activate, force-logout from the console | `Sessions`, `RotatingSessions` |
| billing (`api/src/billing/*`, `premium.rs`) | `subscriptions`, `processed_webhook_events`, `users.subscription_tier` | RevenueCat webhook, grant, revoke, tier resolution, simulated purchase | `Billing` |
| conversations, groups, blocks (`api/src/chat.rs`, `social.rs`, `db/src/chat.rs`, `social.rs`) | `conversations`, `conversation_members`, `messages`, `blocks` | create, send (REST and WebSocket), delete, block, unblock, group create/add/remove | `Conversations` |
| fan-out (`api/src/chat_broker.rs`, `handle_socket`) | broadcast channel or Redis, per-connection cache | publish, subscribe, filter, forward | `ChatFanout` |
| app session (`apps/app/lib/src/auth`) | stored token pair, `AuthNotifier` | interceptor: 401, refresh, retry, give up; login, logout, start | `AppClient` |
| photo gallery (`api/src/media.rs`, `db/src/photos.rs`) | `photos`, `profiles.profile_photo_key` | upload, delete, set primary | `PhotoGallery` |
| verification codes (`auth/handlers.rs`, `db/src/users.rs`) | `auth_codes`, `email_verified`, `phone_verified` | issue, consume (two statements), void | `AuthCodes` |
| messages (`chat.rs`) | `messages` with `read_at`, `viewed_at`, `unsent_at`; `message_reactions`, `conversation_members.last_read_at`, `conversations.last_message_at` | send, mark read, view once, unsend, react, rename, page through the history | `Messages` |
| albums (`api/src/albums.rs`, `db/src/albums.rs`) | `albums`, `album_photos`, `album_shares` | create, update, delete, add and remove photos, share, unshare; three queries of access | `Albums` |
| rate limiter, tarpit (`ratelimit.rs`, `tarpit.rs`) | bucket or Redis counter; semaphore | admit, refuse, trap, release | `Limits` |
| staff door (`api/src/admin/{handlers,extractors,rbac,audit}.rs`, `db/src/staff.rs`) | `staff`, `staff_sessions`, `audit_log` | password, lock, second factor, session, logout; the audited call | `StaffAccess` |
| staff casework (`admin/handlers.rs`, `db/src/{moderation,support,users}.rs`) | `reports`, `moderation_actions`, `photos.moderation_status`, `csam_hits`, `data_requests`, `legal_holds`, `entitlements` | report, resolve, sanction, moderate, hold, export, entitle; paged lists | `CaseWork` |
| console catalogue (`admin/{handlers,handlers_enterprise}.rs`, `db/src/{config,plans,enterprise}.rs`) | fifteen tables of settings and content | upsert, delete, list; rollback of a version | `Catalog` |
| push and campaigns (`fcm.rs`, `notifications.rs`) | `devices`, `campaigns`, the cached access token | register, send to a user, send a campaign | `Push` |
| events (`api/src/events.rs`, `db/src/events.rs`) | `events`, `event_attendees` | create, delete, attend, list near a place | `Events` |
| onboarding and profile editor (`onboarding.rs`, `profile.rs`, `privacy.rs`) | columns and lists of `profiles`, `users.onboarding_completed_at` | complete and skip cards, force, `PUT /profile`, incognito | `Onboarding` |
| taps, favorites, reports | single rows | insert, delete | report in `CaseWork`, a tap's push in `Push` |
| stories, discover, grid, travel | single rows, queries | one or two statements each | not modelled |
| token signing, password hashing, OAuth verification (`crates/auth`) | none | pure or calls to providers | verdicts, inputs of the steps |
| screens, calls and chat connection of the app; console and marketing front ends; vendored crates | - | - | not modelled |

### How they interact

* All handlers share one PostgreSQL pool. With few exceptions (creating conversations
  and groups, storing a message, deleting a conversation, deleting or choosing a photo, album
  uploads), which are transactions, a handler runs its statements with
  no transaction around them, so any two requests interleave between statements and a
  handler that fails or is dropped leaves what it has already written.
* The app talks to the API over HTTP with a short-lived access token and a rotating refresh
  token. The `AppClient` server is an abstraction of `Sessions`: a live token is
  exchanged once, a spent one ends every session.
* Chat handlers store in PostgreSQL, then publish a frame. Every WebSocket connection
  receives every frame and filters by membership.
* RevenueCat calls the webhook at least once per event, in any order, and retries on
  anything but 2xx.
* The console writes `users.status` and revokes tokens under the handlers' feet. Its own
  calls pass `StaffAccess` first; what they then do is `CaseWork`, `Catalog` and `Push`.
* A verified reset code lets `Sessions` set a password; photos of albums and of onboarding
  are rows of the gallery's table; a completed onboarding makes a user visible to the grid.
  Each of these is an input, or an action of the world, of the module that receives it.

### What is hard here

Check-then-act across statements; partial failure between statements; at-least-once
delivery; caches filled from earlier answers; state kept twice (token in storage and in
memory, primary flag and profile key, rows and tier); process kills between two writes.
`PROJECT.json` lists each hazard at its line.

### What makes each component correct

* Sessions: a login has one usable token at a time; revocation ends what it should; an
  inactive account gains no session.
* Billing: an acknowledged event is never lost; renewals do not stack; the tier follows the
  rows.
* Conversations: a block separates two people and stays effective; a one-to-one
  conversation stays one.
* Fan-out: frames go only to members, in order, and a slow reader loses only what was
  overwritten.
* App: every call ends, and a lost session leads to the login screen.
* Photos: at most one primary, the profile names it, deletion promotes a successor.
* Codes: a wrong guess ends the code. Messages: what is done once is reported once, and the
  history is complete. Albums: three queries agree on who sees what.
* Limits: a counter has its expiry, the bucket its rate, the tarpit its permits back.
* Staff door: guesses are bounded, effects are audited, a closed session is closed.
* Casework and catalogue: no sanction without its row, pages that miss nothing in their
  direction, a version marked as rolled back was. Push: one device's failure is its own.
* Events: places are overfilled by no more than the requests that counted together.
  Onboarding: whoever has done the required cards is shown.

## 2. Modelling conventions

* **One SQL statement, or one transaction, is one action.** PostgreSQL's default isolation
  (READ COMMITTED) makes a statement see one committed state and makes row writes atomic.
  `UPDATE ... RETURNING` is therefore a test and a write in one action. Where a transaction
  reads and then writes with something observable in between (`delete_photo`), it is two
  actions, and the row locks are guards of the actions that must wait.
* **`pc[r]` and `rq[r]`** are the program counter and the locals of the request in slot `r`.
  What was read in one statement and used in a later one is in `rq`; the later action uses
  that copy and never reads the table again.
* **`Abort(r)`** (`Fail` in `Billing`) ends a request at any await: an error answered 500, a
  client that hangs up (axum drops the future), a server that dies.
* **Early returns** (404, 403, 400, 401) are disabled actions when they change nothing.
* **History variables** are read by no guard. They record which token descends from which
  login, which password opened a session, or which check has been overtaken by a later
  write, so that a property can name its exceptions exactly.
* Operators marked `faulty` are not part of `Next`; they are plausible mistakes in the code
  that the properties must notice.
* Time is nondeterministic: a term lapses, an access token expires, a call times out at any
  moment.

## 3. Modules

### `Sessions`, `RotatingSessions`

`issued`, `owner`, `revoked` are `refresh_tokens`; `Live` is the `WHERE revoked_at IS NULL`
of `revoke_and_claim_refresh`. `RefreshClaim`, `StatusCheck`, `IssuePair` are the three
statements of `refresh`; `RefreshReuse`, `ReuseRevokeAll` its reuse branch. `ResetFind` ...
`ResetRevokeAll` is `reset_password`; `Delete*` is `delete_account` with `anonymize_user`;
`Register`, `LoginFind`, `LoginVerify`, `OAuth*` open sessions; `SetStatus` and `ForceLogout`
are the console's. Expiry of a refresh token needs no clock: any claim may find its token
expired, in which case the code has revoked it and answers 401 (`RefreshClaim` with
`expired`). The verdict of a reset code is an input.

`RotatingSessions` is the abstract protocol: a login is a family of tokens with one bearer;
an exchange claims it and replaces it, or drops the family. `Sessions` implements it with
`bearers` = live tokens by family, `rotating` = families held between claim and issue,
`minted` = issued.

Properties: `OneBearerPerLogin` (two refreshes with one token never both succeed),
`OldPasswordCutOff` (after a reset no live session was opened with an older password, with
the named exceptions), `InactiveOnlyShrinks` (a banned or deleted account's live tokens only
shrink once requests that read "active" have drained), `ImplementsRotation`.

### `Billing`

One user. `kind` fixes what each event says; `Deliver` is the webhook up to its branch (the
secret and field checks, the dedup `SELECT`); `GrantExpire`/`GrantInsert` are the two
statements of a grant; `Revoke`; `ResolveRead`/`ResolveWrite` the tier; `ResolveFails` the
error that is only logged; `Mark` the insert of the event id. `Fail` answers 500 and leaves
the rows as they are. `Lapse` is a term ending by the clock.

Properties: `AcknowledgedMeansApplied`, `SingleActiveRow`, `TierFollowsRows`.
`grant_revenuecat_subscription`'s comment (subscriptions.rs:81-83) promises one active row
rather than stacked ones; overlapping grants of one plan are the exception the property
names (`raced`), and the next grant that runs alone repairs it.

### `Conversations`

`CreateCheck`/`CreateInsert`, `SendCheck`/`WsSendCheck`/`InsertMessage`,
`DeleteCheck`/`DeleteConversation`, `BlockInsert`/`BlockDelete`, `AddCheck`/`AddGroupMember`,
`RemoveCheck`/`RemoveGroupMember` are the checks and the writes of the handlers. Messages
are reduced to who has written in a conversation. Ids may be used again once no row and no
request holds them, so a bounded set of ids gives unbounded histories.

Properties: `BlockSeparates`, `PairStaysPair`, `RestHonoursBlocks`.
Seen in the code and in the model, claimed by no text: a block deletes groups both people
are in (`delete_conversation_between` does not look at `is_group`), and a group's creator
may leave it, after which nobody can remove members.

### `ChatFanout`

`redis` chooses the broker. `Publish` reaches the queues at once (broadcast) or spawns a
task (`RunTask`, `LoseTask`). A full broadcast queue drops its oldest frame and sets
`lagged`, which `SkipLag` turns into the empty frame that is filtered out. `Take` forwards or
drops by the cache or starts a membership query; `Lookup` ends it, with an error counted as
"no". `deaf` is a connection whose subscription failed or ended: `handle_socket` keeps it
open. `Close` stands for the end of either half of the socket.

Properties: `ForwardedToMembers` (its user was a member at some time while the connection
was open: a cached "yes" outlives removal from a group), `InOrder`, and the liveness
`FramesArrive`.

### `AppClient`

A task is one call with everything the interceptor does for it. `access`/`refresh` survive a
kill, `status`/`current` do not. `KillInSave` is a kill between the two writes of
`saveTokens`; in the running app the two are one step, since no other callback reads the
storage between them in a way the properties can tell. Login, register and Google sign-in
change the state alike and are one.

Properties: `EveryCallEnds`, `ExpiredSignsOut`. Seen on the way: the interceptor's `catch`
also covers the retried call, so a network failure of the retry alone signs the user out;
the path without a refresh token clears the storage and does not report the session as
expired; a refresh answered after a logout stores its pair again.

### `PhotoGallery`

One user's rows. `CreateCount`/`CreateInsert`/`CreateSync` are the three statements of
`create_photo`; `DeleteRead` is the read before the transaction of `delete_photo`, and
`DeleteSelect`/`DeleteCommit` its two ends; `SetRead`/`SetWrite` are `set_primary_photo`,
whose first statement writes every row of the user and so waits for `Locked` ones.
`InsertPlain` is every other insert (album, onboarding, verification, story). A deadlock of
two deletions, which PostgreSQL resolves by failing one, is an `Abort`. Positions are left
out: "the lowest position" is any remaining photo, which only adds behaviours.

Properties: `GalleryAgrees`, `PrimaryIsKept`. Both hold until a write relies on an old read
(`calm` remembers): two first uploads that both counted zero, a deletion that read
`is_primary` before `set_primary_photo` changed it, a `set_primary_photo` whose photo was
deleted. A later `set_primary_photo` repairs all of them.

### `AuthCodes`

The codes of one user. `issue_auth_code` appends a row and leaves earlier ones good.
`consume_auth_code` is two statements: the first (`Pick`, `Mark`) chooses the newest good row
the digits fit in a subquery and marks that id, which an overlapping call that waited for the
row does again; the second (`Void`) uses up every good code of the kind when nothing fitted.
`Effect` is what the code was for. `Fail` ends a call at any point, with nothing undone.

Property: `TriesBounded`: a code survives as many wrong guesses as there are calls at the same
time, and those whose voiding failed. Seen on the way: the same code may let in two overlapping
calls, where `docs/superpowers/specs/2026-06-26-f0.3-auth-design.md:29` says single use; no
text promises it of overlapping calls, and the effect is the same account's.

### `Messages`

One group. `Insert` and `Commit` are the two ends of `insert_message`'s transaction: a row has
its place (`created_at` is the start of the transaction) before others see it.
`MarkReadMember`, `mark_messages_read`, `mark_read` are the three statements of the receipt;
`MarkEphemeralViewed` and `UnsendMessage` single conditional updates; `PutReaction`,
`DeleteReaction` and `RenameCheck` check membership in an earlier statement than they write.
`OpenHistory`/`Page` is a client that pages back through `list_messages`. `Conversations` says
how membership changes and `ChatFanout` what becomes of the frames.

Properties: `OnceOnly` (each message is reported as read once, a view-once photo as opened
once, an unsend once and to its sender, across departures and returns) and `HistoryIsComplete`.
Seen on the way: `last_message_at` goes back when an older transaction commits last; a
message committed while `mark_read` runs counts as read by `last_read_at` with `read_at` NULL;
an unsent message keeps its body in the history and the preview; a group's creator who leaves
takes the right to rename it along.

### `Albums`

`AsOwner` is `get_album` with the comparison of the owner; `add_photos_to_album`,
`remove_photo_from_album`, `share_album`, `unshare_album` are the later statements and find
the album gone (`Refused`) where it was deleted in between. `list_shared_albums`,
`has_album_access` and `get_url` are the three queries that spell out when a share is open.

Property: `AccessRulesAgree`: at every moment the three agree, whatever was revoked, ended,
moderated or deleted before. Seen on the way: an upsert keeps an `expires_at` in the past, so
sharing again after an expiry answers 201 and gives no access; `is_private` is read by
nothing; album photos are uploaded to `bucket_private` (media.rs:380) while the album's links
are presigned for `bucket_media` (albums.rs:126,273,448); a link outlives the share it came
from until it expires. `get` reads access and photos in separate statements, which the model
takes as one moment.

### `Limits`

One client address. `Incr`, `Expire` and their failures are `RedisRateLimiter::check`, whose
first answer to a failure is to let pass; `Take` is the bucket under its mutex, with `at` the
time read before it; `try_trap`/`Release` the tarpit's permit, which lives in the body stream.

Properties: `NoKeyForever`, `BucketHolds` (a time read early and used late takes the stamp
back and refills that much twice, no more), and in `TypeOK` the permits.

### `StaffAccess`

`LoginFind` reads the row with its status and lock; `LoginVerify` is the password verdict;
`CountFailure`/`CountFails` the `UPDATE` that counts and locks, and its dropped error;
`StampLogin` the reset with the `mfa_token`; `SecondFactor`, `VerifyCode`, `CreateSession` the
second step. `CallBegin` is a console call with the middleware's own extraction of the caller,
`Extract` the handler's, `Apply` what the handler changes (`CaseWork`, `Catalog`, `Push` say
what that is), `Audit` the row after the response. `Abort` is a dropped future: after the
change was made, its row is gone with it.

Properties: `GuessesBounded`, `EffectsAreAudited`, `LateCallsAreRefused`. Seen on the way:
`requires_justification` of a permission is enforced nowhere, and recovery codes are never
asked for.

### `CaseWork`

A table is the sequence of its rows. `ResolveReport` begins the three statements
`RecordAction`, `ApplySanction`, `CloseReport`; the other handlers are one statement.
`LegalExport` reads and `LogExport` writes the audit row. `List*` begin or continue a sweep by
`LIMIT`/`OFFSET`.

Properties: `SanctionsAreRecorded`; `PagingIsSound`: a list ordered newest first and
unfiltered never misses a row that was there, a queue ordered oldest first never repeats one;
the opposite of either fails, as rows arrive at one end and leave the filter. Seen on the way:
`delete_account` asks for no legal hold.

### `Catalog`

Fifteen tables as sets of rows; a statement of `db` is an operator, a handler an action that
asks for its permission. `RollbackRead`, `RollbackRestore`, `RollbackMark` are
`rollback_config_version`.

Property: `RollbackIsHonest`. Seen on the way: no handler calls `create_config_version`, so a
version exists only where something else inserts it; the rollback of a plan restores its
description alone; names of experiments that differ in case or in blanks share a key and
overwrite each other; `cms_content` is keyed by key alone, so a translation replaces the
original; `upsert_abuse_rule` always inserts.

### `Push`

`NextUser`, `NextDevice`, `FetchToken`, `Post*`, `ClearToken` are `send_to_user` with the
cached token behind its mutex; a campaign does it for every target and is then marked.

Property: `SentMeansAttempted`. Seen on the way: `send_campaign` looks at no status, so a sent
campaign is sent again; signing out removes no device.

### `Events`

`Attend` reads the event, `CheckCapacity` counts, `upsert_attendee` stores.
`find_nearby_events` is the query with its precedence of `AND` over `OR`.

Property: `GoingBounded`; the run `events_nearby` shows that the query lists far events.
Seen on the way: "maybe" takes a place and asks for none, answering again while the event is
full is refused (410), and the handler rejects `not_going`, so nobody can withdraw.

### `Onboarding`

One user, cards by the kind of place they are stored in. `CompleteCard`/`SetCard` stores a
card, `try_complete_onboarding` is the second statement; `UpdateOwn` and its parts are
`PUT /profile`, which never asks whether the cards are done. `get_state` and the condition of
the SQL are written separately, as in the code.

Property: `ShownWhenDone`. Seen on the way: `force_complete` needs no card; a user who
completes the last card by the profile editor stays hidden until another card is stored; the
onboarding photo is not primary, so that discover shows the user without a photo.

## 4. Runs

| run | bounds | shows |
|---|---|---|
| `sessions` | 1 user, 3 tokens, 2 overlapping requests, 2 passwords | the four session properties and the refinement |
| `billing` | 2 events, 2 rows, 2 requests, both plans, all event types | nothing lost, no stacking, tier follows |
| `chat` | 3 users, 1 conversation id, 2 requests, 2 blocks | blocks separate, pairs stay pairs, REST honours blocks |
| `fanout` | 1 connection, 2 conversations, 4 frames, capacity 2, both brokers | membership, order, arrival |
| `app` | 2 tasks, 2 pairs | every call ends, a given-up session is signed out |
| `photos` | 4 photos, 3 requests | one primary, named by the profile, kept by deletions |
| `console` | `StaffAccess`, `CaseWork`, `Catalog`, `Push`, one at a time: 2 requests or agents, 2 sessions, devices, callers and keys, 3 rows per table, 2 calls that write, a lock after 2 guesses, 1 failure | guesses, audit, closed sessions, sanctions, paging, rollback, campaigns |
| `members` | `Messages`, `Albums`, `AuthCodes`, `Limits`, `Events`, `Onboarding`, one at a time: 2 requests, 1 failure; 2 messages in pages of one and 4 calls; 1 album, 2 photos, 2 times, 5 calls; 2 codes of 2 and 4 calls; limit 2, 1 permit, 4 times, 5 calls, both backends; 3 guests, sizes 0 and 1, 5 calls; 1 nested and 1 listed card, 1 photo, 2 calls besides cards | receipts, history, access, tries, limits, places, visibility |
| `billing_exactly_once` | as `billing` | `ExactlyOnce` fails: effects run again after a failure before the record, or when deliveries overlap |
| `fanout_cut_off` | as `fanout` | `MembersAreNotCutOff` fails: a cached "no" outlives the joining of a group |
| `app_logout` | 1 task, 2 pairs | `LogoutRevokes` fails: logout sends the token of the login, not the rotated one |
| `events_nearby` | 2 users, 1 event, 1 request, 2 calls | `ListedAreNear` fails: an event without an end is listed wherever it is |

`console` and `members` take their modules one at a time because these share no table and no
lock: the first state chooses the module, the others' variables stay as they are, and the
state space is the sum of theirs. What the parts do share is named in the modules (a photo's
moderation, a member's departure) as an action of the world.

Why the bounds are enough to be interesting. Two request slots give every interleaving of
two handlers, and a slot is reused, so sequences of any length run through them; the photo
gallery has three because a third request is needed to overtake one of two that wait for
each other. Three tokens are a login, its rotation and the rotation of that (or two logins
and a rotation). Two passwords are the old and the new. Two events with two rows give a
renewal, a cancellation of an earlier one and a duplicate delivery. Three users are a pair
and an outsider. Four frames with a capacity of two overflow the channel twice. Two token
pairs are a login and its rotation, with two tasks racing for it. Four photos leave one
after three deletions. Two messages in pages of one make a history of two pages, with a
message committed late between them. Two codes are an old and a new one, of the same kind or
not. A limit of two with four times lets two requests overtake each other at the bucket after
it has been empty. One place and three guests overfill an event by one and refuse the next. A
lock after two guesses with two requests is passed by one more. Three rows let one arrive
while a list of two is paged.

Where a count bounds a behaviour (`MaxCalls`, `MaxWrites`, `MaxFaults`, `MaxTime`), it is in a
guard and named in the module that has it; no property mentions it.

Symmetry is used for the interchangeable model values, in runs of safety properties only;
`fanout` and `app` check liveness and use none. (`sessions`, `chat` and `photos` use it with
action properties, which speak of one step and are the same for every permutation.) Every
configuration sets `CHECK_DEADLOCK FALSE`: the models stop when a bounded supply (tokens,
frames, rows, photos, calls) is used up, and the systems modelled are free to be idle.

Every property of a passing run has a mutant: one mapped definition replaced by its
`faulty` form, with which TLC finds that property violated.

## 5. Fairness

Only two specifications state fairness, and only for what a scheduler owes a ready task.

* `ChatFanout`: `WF(Pump(k))`. The stream of a connection runs in a tokio task, which is
  polled as long as it is ready; a membership query answers or fails (pool timeout). Nothing
  is assumed of publishers, Redis or closing.
* `AppClient`: `WF(Continue(t))` and `WF(Hydrate)`. Dart's event loop runs every ready
  callback, and Dio's `connectTimeout` and `receiveTimeout` (15 s, 30 s) end every call with
  an answer or an error. Which answer comes is open, so no successful exchange is assumed.

The other modules state no fairness: a request may stop anywhere, and their properties are
safety properties.

## 6. Proofs

All theorems are for every value of the constants: any number of users, tokens, requests,
events, conversations, photos, albums, messages, rows, connections, frames, calls, failures.
They rest only on the named assumptions on constants, which TLC evaluates in the run of their
module:

* NULL values, and ids chosen to mean "none", are no members of the sets they stand beside
  (`NullsAreNew`, `SimulatedIsNoEvent`, `NullIsNew`, `NoneIsNoPair`, `NobodyHasAlbums`,
  `NobodyIsNoEvent`, `NobodyIsNobody`, and of `CallersAreFew` the part on `Nothing`);
* numbers that the code keeps unsigned, or that are lengths and bounds, are natural, and a page
  (`LIMIT` is clamped to at least one) or a channel holds something (`CapacityIsPositive`,
  `PagesHoldSome`, `LimitsAreUnsigned`, `TablesFit`, and parts of `FinitelyMany` and
  `SensibleConstants`, whose lock takes at least one guess);
* what is counted is finite: requests (`SensibleConstants`, `FinitelyMany`), guests
  (`NobodyIsNoEvent`), callers (`CallersAreFew`);
* staff write no other status than active, suspended and banned (`StaffWriteRowStatus`, the three
  handlers of the console); no card is both required and optional (`CardsDiffer`, the two lists
  of `onboarding.rs`); the tables of the console start within their bound, with rows of users
  that there are and an action for each report closed with one (`TablesFit`: an empty database
  will do).

* `SessionsProofs`: `TypeCorrect`; `OneBearer`, which is not inductive alone: `FamilyInv` adds
  `FamiliesOK` (an issued token's family is an issued token of the same owner and its own
  family, and so is the family a request holds between claim and issue) and `RootsOK` (no
  other request holds one), so that a new token joins a family only in the place of the one
  claimed. `PasswordCutOff` strengthens the property to `PasswordInv`: not only live tokens
  but also the families held by rotations in flight are not outdated; `AbsentOK` adds that a
  user id without a row has no password and no reset under way. `InactiveShrinks`, the action
  property, from `Knowing`: a request about to store a pair has read status active, or has
  written it itself, and storing a pair is the only step that adds a live token.
  `RotationRefinement`: every step of `Sessions` is a step of `RotatingSessions` or a
  stutter, from `FamilyInv`.
* `BillingProofs`: `TypeCorrect`; `NoEventLost` from `AppliedInv`, which ties a handler past
  its rows to an event already applied; `SingleRow` from `SingleInv`: while no grants of a
  plan overlap, at most one is between its two statements and it has left no active row;
  `TierCorrect` from `TierInv`: a read counts as fresh only while it is what the rows say.
* `ConversationsProofs`: `TypeCorrect` from `TypeInv`; `PairStays` from `PairInv`, which adds
  that group handlers that passed their check hold a group, and that a sender who passed is
  a member for as long as the pair exists; `Separates` and `RestHonours` from `BlockInv`,
  which adds that a request no block has overtaken is still right about what it checked.
* `PhotoGalleryProofs`: `TypeCorrect`, `Agrees` and `PrimaryKept` from `TypeOK` and
  `GalleryAgrees` together, which are inductive: a synchronisation in flight is the only
  excuse for the key, and a step that relied on an old read gives up `calm`.
* `AppClientProofs`: `TypeCorrect`, which is inductive: what storage, memory or a call holds of
  a token was issued by the server, also after a kill between the two writes of a save.
* `ChatFanoutProofs`: `TypeCorrect`, `ForwardedOnlyToMembers`, `KeepsOrder`. The frames a
  connection has forwarded, the one it looks up and those that wait form a line (`Line`): each
  before the next for the in-memory broker, all different for Redis, where moreover none of
  them is still to be published. Every step moves a frame along the line, takes one out, or
  adds one at the end that was never in it. `SeesOwn` adds what the cache may know.
* `MembersProofs`, about `AuthCodes` and about the six parts of `MCMembers`. Each part has its own
  inductive invariant; `PartsInv` says that the part a behaviour is of has its, and the theorems
  on `MembersSpec` follow.
  * `WrongTriesAreBounded` (with `CodesAreTyped`), by counting: `TriesInv` says that while a code
    is good, whoever tried it in vain is still to void its kind or has failed, so the tries are
    at most the requests in `Voiding` and the failures; once it is not good nobody tries it, and
    what it had then is bounded by the number of requests.
  * `CallsAreToldOnce` and `PagesGiveEverything`, from `MsgInv`: what calls were told of a message
    is a list without repetitions of things that have happened to it (`ToldOf`), and things that
    have happened stay (`After`); of what was there at the start, a client has all that is not
    older than its oldest message (`PagerFits`), because a page takes the newest of what is older
    than that, and a message that appears late was not there at the start.
  * `AlbumRulesAgree`, from `AlbInv`: the three queries differ in what they join, so the proof
    needs that a share names an album that there is, that a photo an album shows is its owner's,
    and that whoever passed the check of the owner still owns the album or finds it gone
    (`RequestFits`).
  * `CountersExpire` and `BucketIsHonest`, from `LimInv`: a count and the requests about to send
    `INCR` are together no more than the calls, so a counter is made by the one request that is
    to give it its expiry; the time of a request is never ahead of the clock, and each of the two
    ways the bucket is written (stamp forward, stamp back) keeps its balance.
  * `PlacesAreBounded`, from `EvtCounted`: guests who go and requests that found a place and are
    to store it are together less than the places and the requests. An answer that finds a place
    has at most the other requests before it; one that stores it moves from one count to the other.
  * `DoneIsShown`, from `CardAsks`: once all required cards are stored by cards, some request is
    still to ask, or the user is complete.
  * `TypeCorrect`: the types of all parts.
* `ConsoleProofs`, about `StaffAccess` and about the parts of `MCConsole`; `ConsoleInv` puts them
  together, and the door's invariant holds whichever part a behaviour is of.
  * `TypeCorrect`, `Bounded`, `Audited`, `LateRefused` on `StaffAccess` alone. `LockInv` counts: the
    guesses at an open account are at most those counted below the limit, those being counted
    and those whose counting was lost; once it is locked, the guesses and the requests still
    past the lock together are at most the limit less one, the lost ones and one for each
    request. `RequestOK` says that a late call holds a session which existed and is closed, and
    no session opens again.
  * `SanctionsHaveRows`, from `WorkSanctions` and `WorkCalls`: a resolution that is to sanction, or
    to close as actioned, already has its row (`Resolves`), and actions are only added (`Grows`),
    so that what is told once stays told, whoever else writes the user or the report meanwhile.
  * `PagesAreSound`, from `WorkSweep`, by rank. `Work!Sorted` is shown to put at place `i` the row
    that has `i - 1` before it (`SortedUp`, `SortedAll`), for any set of rows. Newest first over
    a whole table, the rows past the offset are those numbered above its length less the offset,
    and the length only grows (`SeenAll`). Oldest first over the photos to moderate, the rank of
    a photo among those pending only falls, so one that was seen is never past the offset
    (`SeenOnce`).
  * `RollbacksAreHonest`, from `CatCounts`: until a version is marked, it was written back by
    callers who are about to mark it or whose mark was lost; once it is, the callers who hold it
    unmarked are not among those who wrote it back (`VersionFits`).
  * `SentHasTried`, from `PushFits`: a device that a request owes its message and has not tried is
    still ahead of it (`Ahead`): its user is in the rest of the segment, or it is in the rest of
    the user's devices, or it is at hand. A failure takes only the device at hand away.
  * `PartsAreTyped`: the types of all parts, among them that declared keys are unique
    (`TableFits`) and that the mutex of the access token is held by whoever fetches it (`PushLock`).

Every safety and action property of a passing run, and the refinement, is therefore proved for
every value of the constants. Only model-checked are the liveness properties `FramesArrive`,
`EveryCallEnds` and `ExpiredSignsOut`, which need fairness and ENABLED and are outside what TLAPS
proves. Outside as well: induction over data (no recursive definition is needed here; where an
argument goes by the least row or the rank of one, it cites that numbers are well founded and
that finite sets have a cardinality) and `RECURSIVE` operators (none is used). TLAPS cannot show
that a literal is in `STRING`, so where the type of a column matters it is the set of the values
the code writes (`CaseStatuses`).

## 7. Disagreements between the texts and the code

Four runs end in a violation; each states what a comment or a document says.

1. Migration 0045: webhook effects "run exactly once": they run at least once
   (`billing_exactly_once`). The grant is built so that running twice is harmless.
2. Frames reach "all clients in the conversation": the membership cache keeps an old "no",
   and an error of the query is one (`fanout_cut_off`).
3. Logout "revokes the refresh token": after a silent refresh the app sends the spent one
   (`app_logout`).
4. `find_nearby_events` is to "find events near a location": `AND` binds tighter than `OR`, so
   an event without `ends_at` passes wherever it is and however old (`events_nearby`).

Others are seen in the models without a run of their own:

* `revoke_all_refresh` "revokes the whole family" and deletion "forcibly logs out": a rotation
  between its claim (handlers.rs:150) and its issue (handlers.rs:165) stores a live token
  afterwards. It is the exception that `OldPasswordCutOff` and `InactiveOnlyShrinks` name.
* Messages across a block are refused by REST; the WebSocket path does not ask.
* `count_user_photos` counts all rows, so the first profile photo after any other photo, the
  onboarding card's included, is not made primary.
* `mark_read` and the read receipts of messages: see `Messages`. Sharing an album again after
  its share ran out: see `Albums`. A code accepted by two overlapping calls: see `AuthCodes`.

## 8. Not modelled, and what is left

Not modelled, and why:

* Cryptography and provider calls (`crates/auth`, FCM, Google, RevenueCat, SMS and mail): no
  state of the system; their verdicts are inputs, every one of them possible.
* Stories, discover, grid, travel, favorites, preferences, locations, views: queries, and rows
  that one statement of one request writes. `Onboarding` has the flag the lists share.
* Queries that change nothing: lists of conversations, members, blocks, sessions and
  notifications, the dashboard and the dossier's contents.
* Of the sessions, profile and consent rows; of push, the preferences.
* Screens, call signalling and the chat connection of the app: thin wrappers over the API and
  over a peer-connection library. Console and marketing front ends: presentation.
* Generated code (`frb_generated`) and vendored crates.

Worth adding: a composition of `AppClient` with `Sessions` in place of the abstract server, and
of `ChatFanout` with `Messages` for membership; a refinement of an abstract ledger by `Billing`;
the app's call signalling, if it grows state.

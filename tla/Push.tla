-------------------------------- MODULE Push --------------------------------
(***************************************************************************)
(* Push notifications: the devices users register, the campaigns staff     *)
(* send, and the FCM client with its cached access token (api/src/fcm.rs,  *)
(* {api,db}/src/notifications.rs, and the campaigns of                     *)
(* admin/handlers_enterprise.rs and db/src/enterprise.rs).                 *)
(* FCM and Google's token endpoint are the verdict they return.            *)
(*                                                                         *)
(* History, read by no action: due, tried.                                 *)
(***************************************************************************)
EXTENDS Naturals, FiniteSets

CONSTANTS
  Users,
  Devices,     \* ids of rows of table devices
  CampaignIds,
  Reqs,        \* requests served at the same time
  Configured,  \* whether state.fcm is there
  MaxFaults,   \* bound: calls and statements that fail
  Nobody

VARIABLES
  owner,      \* devices.user_id; Nobody: no such row
  campaigns,  \* those created: [push, segment, status] or Nobody
  cache,      \* the cached access token: "none", "fresh", "old"
  holder,     \* the request that holds the cache's mutex
  pc, rq,
  due,        \* devices a request owes a push: registered when it read its
              \* targets, and ever since
  tried,      \* devices it has sent to
  faults

pushes == <<owner, campaigns, cache, holder, due, tried>>
vars == <<owner, campaigns, cache, holder, due, tried, faults, pc, rq>>

Statuses == {"draft", "sent"}
Blank == [campaign |-> Nobody, users |-> {}, devices |-> {}, device |-> Nobody]

TypeOK ==
  /\ owner \in [Devices -> Users \cup {Nobody}]
  /\ \A i \in CampaignIds : campaigns[i] = Nobody \/
       campaigns[i] \in [push : BOOLEAN, segment : SUBSET Users, status : Statuses]
  /\ cache \in {"none", "fresh", "old"}
  /\ \A r \in Reqs : holder = r <=> pc[r] = "fetch"
  /\ \A r \in Reqs : due[r] \cup tried[r] \cup rq[r].devices \subseteq Devices

Init ==
  /\ owner = [d \in Devices |-> Nobody]
  /\ campaigns = [i \in CampaignIds |-> Nobody]
  /\ cache = "none" /\ holder = Nobody
  /\ pc = [r \in Reqs |-> "idle"] /\ rq = [r \in Reqs |-> Blank]
  /\ due = [r \in Reqs |-> {}] /\ tried = [r \in Reqs |-> {}]
  /\ faults = 0

Goto(r, step, locals) ==
  /\ pc' = [pc EXCEPT ![r] = step]
  /\ rq' = [rq EXCEPT ![r] = locals]
Finish(r) ==
  /\ Goto(r, "idle", Blank)
  /\ due' = [due EXCEPT ![r] = {}] /\ tried' = [tried EXCEPT ![r] = {}]
Fault == faults < MaxFaults /\ faults' = faults + 1

-----------------------------------------------------------------------------
(* An INSERT that a second registration of the same token turns into an    *)
(* update of the same row.                                                 *)
RegisterDevice(d, u) ==
  /\ owner[d] = Nobody
  /\ owner' = [owner EXCEPT ![d] = u]
  /\ UNCHANGED <<campaigns, cache, holder, due, tried, faults, pc, rq>>

create_campaign(push, segment) == [push |-> push, segment |-> segment, status |-> "draft"]
CreateCampaign(i, push, segment) ==
  /\ campaigns[i] = Nobody
  /\ campaigns' = [campaigns EXCEPT ![i] = create_campaign(push, segment)]
  /\ UNCHANGED <<owner, cache, holder, due, tried, faults, pc, rq>>

(* send_campaign looks at the type and never at the status.                *)
get_campaign(i) == campaigns[i]
SendCampaign(r, i) ==
  /\ pc[r] = "idle" /\ get_campaign(i) # Nobody
  /\ Goto(r, IF get_campaign(i).push THEN "targets" ELSE "status", [Blank EXCEPT !.campaign = i])
  /\ UNCHANGED <<pushes, faults>>

(* No user ids in the segment means every user.                            *)
get_campaign_target_user_ids(ids) == IF ids = {} THEN Users ELSE ids
ReadTargets(r) ==
  LET targets == get_campaign_target_user_ids(campaigns[rq[r].campaign].segment) IN
  /\ pc[r] = "targets"
  /\ IF Configured
     THEN /\ Goto(r, "user", [rq[r] EXCEPT !.users = targets])
          /\ due' = [due EXCEPT ![r] = {d \in Devices : owner[d] \in targets}]
     ELSE Goto(r, "status", rq[r]) /\ UNCHANGED due
  /\ UNCHANGED <<owner, campaigns, cache, holder, tried, faults>>

(* create_tap pushes to one user the same way.                             *)
TapPush(r, u) ==
  /\ Configured /\ pc[r] = "idle"
  /\ Goto(r, "user", [Blank EXCEPT !.users = {u}])
  /\ due' = [due EXCEPT ![r] = {d \in Devices : owner[d] = u}]
  /\ UNCHANGED <<owner, campaigns, cache, holder, tried, faults>>

-----------------------------------------------------------------------------
(* send_to_user, one user and one device after the other; an error of      *)
(* either is logged and the loop goes on.                                  *)
list_user_devices(u) == {d \in Devices : owner[d] = u}
NextUser(r, u) ==
  /\ pc[r] = "user" /\ u \in rq[r].users
  /\ Goto(r, "device", [rq[r] EXCEPT !.users = @ \ {u}, !.devices = list_user_devices(u)])
  /\ UNCHANGED <<pushes, faults>>

(* A failed query costs the user's devices this push.                      *)
UserFails(r, u) ==
  /\ pc[r] = "user" /\ u \in rq[r].users /\ Fault
  /\ Goto(r, "user", [rq[r] EXCEPT !.users = @ \ {u}])
  /\ due' = [due EXCEPT ![r] = {d \in @ : owner[d] # u}]
  /\ UNCHANGED <<owner, campaigns, cache, holder, tried>>

UsersDone(r) ==
  /\ pc[r] = "user" /\ rq[r].users = {}
  /\ IF rq[r].campaign = Nobody
     THEN Finish(r)
     ELSE Goto(r, "status", rq[r]) /\ UNCHANGED <<due, tried>>
  /\ UNCHANGED <<owner, campaigns, cache, holder, faults>>

(* get_access_token: the mutex is held over the fetch, so that others wait *)
(* for the new token instead of fetching theirs.                           *)
NextDevice(r, d) ==
  /\ pc[r] = "device" /\ d \in rq[r].devices /\ holder = Nobody
  /\ Goto(r, IF cache = "fresh" THEN "post" ELSE "fetch",
          [rq[r] EXCEPT !.devices = @ \ {d}, !.device = d])
  /\ holder' = IF cache = "fresh" THEN Nobody ELSE r
  /\ UNCHANGED <<owner, campaigns, cache, due, tried, faults>>

DevicesDone(r) ==
  /\ pc[r] = "device" /\ rq[r].devices = {}
  /\ Goto(r, "user", rq[r])
  /\ UNCHANGED <<pushes, faults>>

FetchToken(r) ==
  /\ pc[r] = "fetch"
  /\ cache' = "fresh" /\ holder' = Nobody
  /\ Goto(r, "post", rq[r])
  /\ UNCHANGED <<owner, campaigns, due, tried, faults>>

FetchFails(r) ==
  /\ pc[r] = "fetch" /\ Fault
  /\ holder' = Nobody /\ due' = [due EXCEPT ![r] = @ \ {rq[r].device}]
  /\ Goto(r, "device", [rq[r] EXCEPT !.device = Nobody])
  /\ UNCHANGED <<owner, campaigns, cache, tried>>

(* FCM takes the message, refuses the access token (401, 403), does not    *)
(* know the device any more (404), or fails in another way.                *)
Outcome(r, after, gone) ==
  /\ pc[r] = "post"
  /\ tried' = [tried EXCEPT ![r] = @ \cup {rq[r].device}]
  /\ owner' = [d \in Devices |-> IF d \in gone THEN Nobody ELSE owner[d]]
  /\ due' = [q \in Reqs |-> due[q] \ gone]
  /\ Goto(r, after, [rq[r] EXCEPT !.device = Nobody])
  /\ UNCHANGED <<campaigns, cache, holder>>

PostEndsBatch(r) == Outcome(r, "user", {}) /\ UNCHANGED faults  \* faulty: leaves the loop
Post(r) == Outcome(r, "device", {}) /\ UNCHANGED faults
PostUnknown(r) == Outcome(r, "device", {rq[r].device}) /\ UNCHANGED faults
PostRefused(r) == Outcome(r, "clear", {}) /\ Fault
ClearToken(r) ==
  /\ pc[r] = "clear" /\ holder = Nobody
  /\ cache' = "none"
  /\ Goto(r, "device", rq[r])
  /\ UNCHANGED <<owner, campaigns, holder, due, tried, faults>>

update_campaign_status(i) == [campaigns EXCEPT ![i].status = "sent"]
MarkSent(r) ==
  /\ pc[r] = "status"
  /\ campaigns' = update_campaign_status(rq[r].campaign)
  /\ Finish(r)
  /\ UNCHANGED <<owner, cache, holder, faults>>

TokenAges ==
  /\ cache = "fresh" /\ holder = Nobody /\ cache' = "old"
  /\ UNCHANGED <<owner, campaigns, holder, due, tried, faults, pc, rq>>

(* A request that ends early does not mark its campaign.                   *)
Abort(r) ==
  /\ pc[r] \in {"targets", "status"} /\ Fault /\ Finish(r)
  /\ UNCHANGED <<owner, campaigns, cache, holder>>

Next ==
  \/ \E d \in Devices, u \in Users : RegisterDevice(d, u)
  \/ \E i \in CampaignIds, push \in BOOLEAN, segment \in SUBSET Users :
       CreateCampaign(i, push, segment)
  \/ TokenAges
  \/ \E r \in Reqs :
       \/ \E i \in CampaignIds : SendCampaign(r, i)
       \/ \E u \in Users : TapPush(r, u) \/ NextUser(r, u) \/ UserFails(r, u)
       \/ \E d \in Devices : NextDevice(r, d)
       \/ ReadTargets(r) \/ UsersDone(r) \/ DevicesDone(r)
       \/ FetchToken(r) \/ FetchFails(r)
       \/ Post(r) \/ PostUnknown(r) \/ PostRefused(r) \/ ClearToken(r) \/ MarkSent(r)
       \/ Abort(r)

Spec == Init /\ [][Next]_vars

-----------------------------------------------------------------------------
(* A push campaign is marked as sent, and a tap's push over, only when     *)
(* every device that was registered to its targets when they were read,    *)
(* and still is, has been sent to, or the failure that cost it its turn is *)
(* its own: no device's failure costs another its message.                 *)
SentMeansAttempted ==
  \A r \in Reqs : pc[r] = "status" \/ (pc[r] = "user" /\ rq[r].users = {})
                    => due[r] \subseteq tried[r]
=============================================================================

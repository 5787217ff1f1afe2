------------------------------- MODULE Limits -------------------------------
(***************************************************************************)
(* What keeps the sign-in routes from being flooded: the two rate limiters *)
(* of api/src/ratelimit.rs, for one client address, and the tarpit of      *)
(* api/src/tarpit.rs.  The counter lives in Redis, where each command is   *)
(* one step; the bucket lives in the process, behind a mutex, and a        *)
(* request reads the clock before it takes that.                           *)
(*                                                                         *)
(* History, read by no action: lost, passed, back.                         *)
(***************************************************************************)
EXTENDS Integers, FiniteSets

CONSTANTS
  Reqs,      \* requests and connections served at the same time
  Max,       \* max_requests, and the capacity of the bucket
  Permits,   \* max_concurrent
  Refill,    \* refill_per_sec
  Backends,  \* of "redis" and "memory", which the process may find at its start
  Enabled,   \* TARPIT_ENABLED
  MaxTime,   \* bound: the clock
  MaxCalls,  \* bound: requests
  MaxFaults  \* bound: commands that fail

VARIABLES
  backend,
  count, ttl,     \* the key in Redis, 0 and FALSE if there is none
  tokens, stamp,  \* the bucket, and the time it was last filled up to
  now,
  free,           \* permits of the semaphore
  pc, at,         \* where each request stands, and the time it has read
  lost,           \* EXPIREs that failed while this key was there
  passed, back,   \* requests let pass, and how far stamp went back
  calls, faults

redis == <<count, ttl, lost>>
bucket == <<tokens, stamp, passed, back>>
vars == <<backend, redis, bucket, now, free, pc, at, calls, faults>>

Steps == {"idle", "incr", "expire", "bucket", "trapped"}
Trapped == {r \in Reqs : pc[r] = "trapped"}
least(a, b) == IF a < b THEN a ELSE b

TypeOK ==
  /\ backend \in {"redis", "memory"}
  /\ count \in 0..MaxCalls /\ ttl \in BOOLEAN /\ (ttl => count > 0)
  /\ tokens \in 0..Max /\ stamp \in 0..now /\ now \in 0..MaxTime
  /\ pc \in [Reqs -> Steps]
  /\ free = Permits - Cardinality(Trapped)

Init ==
  /\ backend \in Backends
  /\ count = 0 /\ ttl = FALSE /\ lost = 0
  /\ tokens = Max /\ stamp = 0 /\ now = 0 /\ passed = 0 /\ back = 0
  /\ free = Permits
  /\ pc = [r \in Reqs |-> "idle"] /\ at = [r \in Reqs |-> 0]
  /\ calls = 0 /\ faults = 0

-----------------------------------------------------------------------------
Goto(r, step, t) ==
  /\ pc' = [pc EXCEPT ![r] = step]
  /\ at' = [at EXCEPT ![r] = t]
Finish(r) == Goto(r, "idle", 0) /\ UNCHANGED calls
Fault == faults < MaxFaults /\ faults' = faults + 1

Tick ==
  /\ now < MaxTime /\ now' = now + 1
  /\ UNCHANGED <<backend, redis, bucket, free, pc, at, calls, faults>>

(* auth_limiter and Limiter::check *)
Arrive(r) ==
  /\ pc[r] = "idle" /\ calls < MaxCalls /\ calls' = calls + 1
  /\ IF backend = "redis" THEN Goto(r, "incr", 0) ELSE Goto(r, "bucket", now)
  /\ UNCHANGED <<backend, redis, bucket, now, free, faults>>

-----------------------------------------------------------------------------
(* RedisRateLimiter::check: a connection or an INCR that fails lets the    *)
(* request pass, and what becomes of EXPIRE is not looked at.              *)
IncrThen(r, First) ==
  /\ pc[r] = "incr"
  /\ count' = count + 1
  /\ passed' = IF count + 1 <= Max THEN passed + 1 ELSE passed
  /\ IF First THEN Goto(r, "expire", 0) /\ UNCHANGED calls ELSE Finish(r)
  /\ UNCHANGED <<backend, ttl, lost, tokens, stamp, back, now, free, faults>>
IncrOnFull(r) == IncrThen(r, count + 1 = Max)  \* faulty: EXPIRE once the limit is reached
Incr(r) == IncrThen(r, count = 0)

IncrFails(r) ==
  /\ pc[r] = "incr" /\ Fault
  /\ passed' = passed + 1
  /\ Finish(r)
  /\ UNCHANGED <<backend, redis, tokens, stamp, back, now, free>>

Expire(r) ==
  /\ pc[r] = "expire"
  /\ ttl' = (count > 0)
  /\ Finish(r)
  /\ UNCHANGED <<backend, count, lost, bucket, now, free, faults>>

ExpireFails(r) ==
  /\ pc[r] = "expire" /\ Fault
  /\ lost' = lost + 1
  /\ Finish(r)
  /\ UNCHANGED <<backend, count, ttl, bucket, now, free>>

(* Redis, external: the key goes when its time is over. *)
Evict ==
  /\ ttl
  /\ count' = 0 /\ ttl' = FALSE /\ lost' = 0
  /\ UNCHANGED <<backend, bucket, now, free, pc, at, calls, faults>>

-----------------------------------------------------------------------------
(* InMemoryRateLimiter::check, under the mutex.  A time read before that   *)
(* of an earlier caller fills nothing and takes the stamp back.            *)
TakeFrom(r, level, mark) ==
  /\ pc[r] = "bucket"
  /\ tokens' = IF level >= 1 THEN level - 1 ELSE level
  /\ passed' = IF level >= 1 THEN passed + 1 ELSE passed
  /\ stamp' = mark
  /\ back' = IF at[r] < stamp THEN back + stamp - at[r] ELSE back
  /\ Finish(r)
  /\ UNCHANGED <<backend, redis, now, free, faults>>
Level(r) == IF at[r] < stamp THEN tokens ELSE least(tokens + (at[r] - stamp) * Refill, Max)
TakeUnstamped(r) ==               \* faulty: a refused request leaves the old stamp
  TakeFrom(r, Level(r), IF Level(r) >= 1 THEN stamp ELSE at[r])
Take(r) == TakeFrom(r, Level(r), at[r])

-----------------------------------------------------------------------------
(* The tarpit: the permit lives as long as the stream, which ends after    *)
(* max_bytes or is dropped when the client hangs up.                       *)
try_trap(r) ==
  /\ pc[r] = "idle" /\ calls < MaxCalls /\ calls' = calls + 1
  /\ IF Enabled /\ free > 0
     THEN Goto(r, "trapped", 0) /\ free' = free - 1
     ELSE UNCHANGED <<pc, at, free>>
  /\ UNCHANGED <<backend, redis, bucket, now, faults>>
Leave(r, permits) ==
  /\ pc[r] = "trapped"
  /\ free' = permits
  /\ Finish(r)
  /\ UNCHANGED <<backend, redis, bucket, now, faults>>
ReleaseForgotten(r) == Leave(r, free)  \* faulty: forgets the permit
Release(r) == Leave(r, free + 1)

Serve(r) ==
  \/ Arrive(r)
  \/ Incr(r)
  \/ IncrFails(r)
  \/ Expire(r)
  \/ ExpireFails(r)
  \/ Take(r)
  \/ try_trap(r)
  \/ Release(r)

Next == (\E r \in Reqs : Serve(r)) \/ Tick \/ Evict

Spec == Init /\ [][Next]_vars

-----------------------------------------------------------------------------
(* A counter that does not run out refuses the client for good.  It can    *)
(* come to that only by a failure: otherwise the key has its time to live, *)
(* or the request that made it is about to set it.                         *)
NoKeyForever ==
  count > 0 /\ ~ttl /\ lost = 0 => \E r \in Reqs : pc[r] = "expire"

(* The bucket lets no more pass than its capacity and what time has filled *)
(* in; requests that overtake each other between the clock and the mutex   *)
(* can add to it what they take the stamp back, and no more.               *)
BucketHolds == backend = "memory" => passed + tokens <= Max + Refill * (stamp + back)
=============================================================================

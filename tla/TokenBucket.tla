----------------------------- MODULE TokenBucket -----------------------------
(***************************************************************************)
(* The token buckets of the local extension bridge                         *)
(* (services/local_extension_pairing.py): one per client and a global one  *)
(* in front of pair, one per pairing in front of uploads.                  *)
(*                                                                         *)
(* A token is Minute units, so that a bucket refilled at n per minute      *)
(* gains n units per tick.  The code's clock is a float: a tick is as      *)
(* small a part of a second as one likes, and the clock moves on by any of *)
(* the Steps between two calls.                                            *)
(*                                                                         *)
(* consume_upload_token reads the clock before it takes the lock.  With    *)
(* OneLoop, as the API is run, uploads do this one after the other;        *)
(* without it they overlap, as requests with event loops of their own.     *)
(* pair reads the clock under the lock.                                    *)
(*                                                                         *)
(* since and count are history: a window opened at any time on any one     *)
(* bucket, and what the bucket has admitted since to calls that read the   *)
(* clock in it; promised is when the last refusal said that the bucket     *)
(* would admit again.                                                      *)
(***************************************************************************)
EXTENDS Integers

CONSTANTS
  Clients,           \* client keys of pair
  Uploaders,         \* pairings that upload
  Global,            \* the key "global"
  Uploads,           \* uploads in flight at once
  Never,
  Minute,            \* ticks in a minute (60 seconds in the code)
  Second,            \* ticks in a second
  Steps,             \* by how many ticks the clock may move on
  ClientPerMinute,   \* PAIR_ATTEMPTS_PER_CLIENT_PER_MINUTE
  GlobalPerMinute,   \* GLOBAL_PAIR_ATTEMPTS_PER_MINUTE
  UploadCapacity,    \* UPLOAD_RATE_LIMIT_CAPACITY
  UploadPerMinute,   \* UPLOAD_RATE_LIMIT_REFILL_PER_MINUTE
  OneLoop,           \* do all uploads share one event loop?
  MaxTicks           \* bound: the clock stops here

ASSUME TokenBucketAssumption ==
  /\ Minute \in Nat \ {0}
  /\ Second \in Nat \ {0}
  /\ Steps \subseteq Nat \ {0}
  /\ ClientPerMinute \in Nat \ {0}
  /\ GlobalPerMinute \in Nat \ {0}
  /\ UploadCapacity \in Nat \ {0}
  /\ UploadPerMinute \in Nat \ {0}
  /\ OneLoop \in BOOLEAN
  /\ MaxTicks \in Nat
  /\ Global \notin Clients \cup Uploaders
  /\ Clients \cap Uploaders = {}
  /\ Never \notin Nat

Keys == Clients \cup {Global} \cup Uploaders

VARIABLES
  clock,     \* time.monotonic()
  level,     \* the units in each bucket
  updated,   \* updated_at of each bucket, Never before it is made
  read,      \* the time each upload in flight has read, by pairing and call
  since,     \* history: when the window on a bucket opened
  count,     \* history: what it admitted since
  promised   \* history: the last refusal's time plus its retry_after

bucketVars == <<clock, level, updated, read, since, count, promised>>

Capacity(k) ==
  IF k \in Clients THEN ClientPerMinute
  ELSE IF k = Global THEN GlobalPerMinute ELSE UploadCapacity

Rate(k) ==
  IF k \in Clients THEN ClientPerMinute
  ELSE IF k = Global THEN GlobalPerMinute ELSE UploadPerMinute

Flights == Uploaders \X Uploads

BucketsInit ==
  /\ clock = 0
  /\ level = [k \in Keys |-> Capacity(k) * Minute]
  /\ updated = [k \in Keys |-> Never]
  /\ read = [f \in Flights |-> Never]
  /\ since = [k \in Keys |-> Never]
  /\ count = [k \in Keys |-> 0]
  /\ promised = [k \in Keys |-> Never]

-----------------------------------------------------------------------------
(* TokenBucket.consume *)

Least(a, b) == IF a <= b THEN a ELSE b
Greatest(a, b) == IF a >= b THEN a ELSE b

(* Time since the bucket was updated, none if it is new or ahead. *)
Elapsed(k, t) ==
  IF updated[k] = Never THEN 0 ELSE Greatest(0, t - updated[k])

(* Wrong: an idle bucket overflows. *)
RefilledUncapped(k, t) == level[k] + Elapsed(k, t) * Rate(k)

(* The units in the bucket once it is refilled. *)
Refilled(k, t) ==
  Least(Capacity(k) * Minute, level[k] + Elapsed(k, t) * Rate(k))

Admits(k, t) == Refilled(k, t) >= Minute

(* Wrong: the wait is rounded down. *)
RetryRoundedDown(k, t) ==
  Greatest(1, (Minute - Refilled(k, t)) \div (Rate(k) * Second))

(* int(missing / refill_per_second + 0.999), at least 1: seconds *)
RetryAfter(k, t) ==
  LET perSecond == Rate(k) * Second
  IN  Greatest(1, (1000 * (Minute - Refilled(k, t)) + 999 * perSecond)
                    \div (1000 * perSecond))

(* What consume leaves in the bucket. *)
Left(k, t) ==
  IF Admits(k, t) THEN Refilled(k, t) - Minute ELSE Refilled(k, t)

InWindow(k, t) == since[k] # Never /\ t >= since[k]

(* consume on the buckets ks, at time t. *)
Consume(ks, t) ==
  /\ level' = [k \in Keys |-> IF k \in ks THEN Left(k, t) ELSE level[k]]
  /\ updated' = [k \in Keys |-> IF k \in ks THEN t ELSE updated[k]]
  /\ count' = [k \in Keys |-> IF k \in ks /\ Admits(k, t) /\ InWindow(k, t)
                             THEN count[k] + 1 ELSE count[k]]
  /\ promised' = [k \in Keys |-> IF k \notin ks THEN promised[k]
                                ELSE IF Admits(k, t) THEN Never
                                ELSE t + RetryAfter(k, t) * Second]

-----------------------------------------------------------------------------
(* Actions *)

ClockTick ==
  /\ \E d \in Steps : clock' = clock + d
  /\ clock' <= MaxTicks
  /\ UNCHANGED <<level, updated, read, since, count, promised>>

OpenWindow(k) ==
  /\ \A j \in Keys : since[j] = Never
  /\ since' = [since EXCEPT ![k] = clock]
  /\ UNCHANGED <<clock, level, updated, read, count, promised>>

(* pair consumes the client's bucket and, if that admits, the global one;  *)
(* a refusal by the global bucket does not give the client's token back.   *)
PairAttempt(c) ==
  /\ Consume(IF Admits(c, clock) THEN {c, Global} ELSE {c}, clock)
  /\ UNCHANGED <<clock, read, since>>

(* consume_upload_token reads the clock ... *)
UploadReads(f) ==
  /\ read[f] = Never
  /\ OneLoop => \A g \in Flights : read[g] = Never
  /\ read' = [read EXCEPT ![f] = clock]
  /\ UNCHANGED <<clock, level, updated, since, count, promised>>

(* ... and consumes the pairing's bucket. *)
UploadAttempt(f) ==
  /\ read[f] # Never
  /\ Consume({f[1]}, read[f])
  /\ read' = [read EXCEPT ![f] = Never]
  /\ UNCHANGED <<clock, since>>

BucketsNext ==
  \/ ClockTick
  \/ \E k \in Keys : OpenWindow(k)
  \/ \E c \in Clients : PairAttempt(c)
  \/ \E f \in Flights : UploadReads(f) \/ UploadAttempt(f)

BucketsSpec == BucketsInit /\ [][BucketsNext]_bucketVars

-----------------------------------------------------------------------------
(* Properties *)

BucketsTypeOK ==
  /\ clock \in Nat
  /\ level \in [Keys -> Nat]
  /\ updated \in [Keys -> Nat \cup {Never}]
  /\ read \in [Flights -> Nat \cup {Never}]
  /\ since \in [Keys -> Nat \cup {Never}]
  /\ count \in [Keys -> Nat]

(* In any window a bucket admits no more than its capacity and what it     *)
(* gains in that time, as long as uploads read the clock in turn.          *)
WindowBounded ==
  \A k \in Keys :
    since[k] # Never =>
      count[k] * Minute <= Capacity(k) * Minute + (clock - since[k]) * Rate(k)

(* retry_after_seconds is short by less than a thousandth of a second:     *)
(* whoever waits that much longer is admitted, unless the bucket has       *)
(* admitted someone else in between (TokenBucket.consume).                 *)
RetrySuffices ==
  \A k \in Keys :
    promised[k] # Never /\ 1000 * (clock - promised[k]) >= Second => Admits(k, clock)

(* It is not always enough as it is: 0.999 in place of 1 rounds a wait     *)
(* down whose part of a second is below 0.001.                             *)
RetryIsEnough ==
  \A k \in Keys :
    promised[k] # Never /\ clock >= promised[k] => Admits(k, clock)
=============================================================================

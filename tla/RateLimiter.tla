---------------------------- MODULE RateLimiter ----------------------------
(***************************************************************************)
(* The fixed-window limiters of infrastructure/rate_limit.py, for one      *)
(* scope and subject, as enforce_limit of the routes calls them: a request *)
(* reads the clock, and later counts itself, in one Redis transaction or   *)
(* under the lock of its process.  Other requests and time come between.   *)
(*                                                                         *)
(* Time is in ticks of one second, the int(time.time()) of the code.  How  *)
(* long a request may take between the two steps is Slack: Redis keeps a   *)
(* counter for one second more than its window, which is what it covers.   *)
(***************************************************************************)
EXTENDS Naturals, FiniteSets

CONSTANTS
  Requests,       \* requests of one subject in one scope
  Limit,          \* auth_rate_limit and its like
  WindowSeconds,  \* rate_limit_window_seconds
  Slack,          \* ticks a request may take from the clock to the counter
  Horizon         \* bound on the clock

ASSUME LimiterAssumption ==
  /\ IsFiniteSet(Requests)
  /\ Limit \in Nat \ {0}
  /\ WindowSeconds \in Nat \ {0}
  /\ Slack \in {0, 1}
  /\ Horizon \in Nat

VARIABLES
  store,      \* settings.rate_limit_provider
  clock,      \* the time
  stamp,      \* the time each request has read
  verdict,    \* how far each request is, and what it was told
  late,       \* requests that counted themselves after their window had ended
  counter,    \* Redis: the counter of each window; 0 when there is none
  deadline,   \* Redis: when each counter is forgotten
  local       \* memory: the window counted last and its count

limiterVars == <<store, clock, stamp, verdict, late, counter, deadline, local>>

-----------------------------------------------------------------------------

\* A bucket by its number; none lies beyond the clock.
Buckets == 0 .. Horizon

\* b is the bucket of time t: now // window_seconds.
InBucket(t, b) == b * WindowSeconds <= t /\ t < b * WindowSeconds + WindowSeconds

Waiting == {r \in Requests : verdict[r] = "waiting"}

Admitted(b) == {r \in Requests : verdict[r] = "allowed" /\ InBucket(stamp[r], b)}

\* Mutant of KeptUntil: the counter ends with its window.
KeptForWindow(t) == t + WindowSeconds

\* EXPIRE of the pipeline: one second more than the window.
KeptUntil(t) == t + WindowSeconds + 1

\* nx: the first count of a window sets the time to live, no other does.
DeadlineAfter(b) == IF counter[b] = 0 THEN KeptUntil(clock) ELSE deadline[b]

LimiterTypeOK ==
  /\ store \in {"redis", "memory"}
  /\ clock \in 0 .. Horizon
  /\ stamp \in [Requests -> 0 .. Horizon]
  /\ verdict \in [Requests -> {"idle", "waiting", "allowed", "refused", "unavailable"}]
  /\ late \subseteq Requests
  /\ counter \in [Buckets -> Nat]
  /\ deadline \in [Buckets -> Nat]
  /\ local \in [bucket : Buckets, count : Nat]

LimiterInit ==
  /\ store \in {"redis", "memory"}
  /\ clock = 0
  /\ stamp = [r \in Requests |-> 0]
  /\ verdict = [r \in Requests |-> "idle"]
  /\ late = {}
  /\ counter = [b \in Buckets |-> 0]
  /\ deadline = [b \in Buckets |-> 0]
  /\ local = [bucket |-> 0, count |-> 0]

\* check begins: the clock is read, and the bucket follows from it.
ReadClock(r) ==
  /\ verdict[r] = "idle"
  /\ verdict' = [verdict EXCEPT ![r] = "waiting"]
  /\ stamp' = [stamp EXCEPT ![r] = clock]
  /\ UNCHANGED <<store, clock, late, counter, deadline, local>>

\* A request of bucket b counts itself.
Counting(r, b) == verdict[r] = "waiting" /\ InBucket(stamp[r], b)

Decide(r, b, count) ==
  /\ verdict' = [verdict EXCEPT ![r] = IF count <= Limit THEN "allowed" ELSE "refused"]
  /\ late' = IF InBucket(clock, b) THEN late ELSE late \cup {r}

\* RedisRateLimiter: INCR and EXPIRE nx of the key of the bucket, at once.
CountInRedis(r, b) ==
  /\ store = "redis"
  /\ Counting(r, b)
  /\ counter' = [counter EXCEPT ![b] = counter[b] + 1]
  /\ deadline' = [deadline EXCEPT ![b] = DeadlineAfter(b)]
  /\ Decide(r, b, counter[b] + 1)
  /\ UNCHANGED <<store, clock, stamp, local>>

\* Redis does not answer: enforce_limit refuses with 503, and the request
\* may have been counted.
RedisFails(r, b) ==
  /\ store = "redis"
  /\ Counting(r, b)
  /\ verdict' = [verdict EXCEPT ![r] = "unavailable"]
  /\ \/ UNCHANGED <<counter, deadline>>
     \/ /\ counter' = [counter EXCEPT ![b] = counter[b] + 1]
        /\ deadline' = [deadline EXCEPT ![b] = DeadlineAfter(b)]
  /\ UNCHANGED <<store, clock, stamp, late, local>>

\* InMemoryRateLimiter: one counter per subject, started again whenever the
\* bucket differs from the one counted last, be it newer or older.
LocalCount(b) == IF local.bucket = b THEN local.count + 1 ELSE 1

CountInMemory(r, b) ==
  /\ store = "memory"
  /\ Counting(r, b)
  /\ local' = [bucket |-> b, count |-> LocalCount(b)]
  /\ Decide(r, b, LocalCount(b))
  /\ UNCHANGED <<store, clock, stamp, counter, deadline>>

\* A second passes, unless a request has taken all the time it may; Redis
\* forgets the counters that are due.
Second ==
  /\ clock < Horizon
  /\ \A r \in Waiting : clock < stamp[r] + Slack
  /\ clock' = clock + 1
  /\ counter' = [b \in Buckets |-> IF deadline[b] <= clock + 1 THEN 0 ELSE counter[b]]
  /\ UNCHANGED <<store, stamp, verdict, late, deadline, local>>

LimiterNext ==
  \/ \E r \in Requests : ReadClock(r)
  \/ \E r \in Requests, b \in Buckets :
       CountInRedis(r, b) \/ RedisFails(r, b) \/ CountInMemory(r, b)
  \/ Second

LimiterSpec == LimiterInit /\ [][LimiterNext]_limiterVars

-----------------------------------------------------------------------------
(* Properties *)

\* Of the requests whose clock fell in one window, at most Limit are let
\* through.  With Redis that holds also of those that count themselves after
\* the window has ended: the counter must outlive the window by what a request
\* may take.  In memory only the last bucket is kept, so that a late request
\* resets the count of the window after it: each such request may let Limit
\* more through, and nothing else does.
WindowLimit ==
  \A b \in Buckets :
    Cardinality(Admitted(b)) <=
      Limit * (IF store = "redis" THEN 1 ELSE 1 + Cardinality(late))
=============================================================================

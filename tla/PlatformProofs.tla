--------------------------- MODULE PlatformProofs ---------------------------
(***************************************************************************)
(* Proofs about three small parts of the platform that share nothing: what *)
(* a process started with accepted settings is built of (Startup), how     *)
(* many requests a limiter lets through (RateLimiter), and what becomes of *)
(* the jobs it accepts (JobQueue).                                         *)
(***************************************************************************)
EXTENDS Startup, RateLimiter, JobQueue, FiniteSetTheorems, TLAPS

-----------------------------------------------------------------------------
(* Startup *)

StartInv ==
  /\ settings \in StartSettings
  /\ phase \in {"settings", "accepted", "refused", "running", "failed"}
  /\ phase \in {"accepted", "running", "failed"} => Accepted(settings)
  /\ phase = "running" => Builds(settings) /\ built = Components(settings)
  /\ phase = "failed" => ~Builds(settings)

\* Settings that pass the checks of a deployment build shared adapters.
LEMMA AcceptedIsShared ==
  ASSUME NEW s \in Settings, Accepted(s), ~SafeLocal(s)
  PROVE  Components(s) \in Shared
<1>1. /\ s.auth_provider = "oidc"
      /\ s.object_storage_provider \in {"s3_compatible", "aws_s3"}
      /\ s.queue_provider = "redis"
      /\ s.model_provider = "bedrock"
      /\ s.rate_limit_provider = "redis"
  BY DEF Accepted, DeployedChecks, Settings
<1> QED
  BY <1>1 DEF Components, Shared

\* Settings that pass the checks build, but for a queue nobody has written.
LEMMA AcceptedBuilds ==
  ASSUME NEW s \in Settings, Accepted(s), ~Builds(s)
  PROVE  SafeLocal(s) /\ s.queue_provider = "sqs"
BY DEF Accepted, CommonChecks, DeployedChecks, Builds

LEMMA StartStep == StartInv /\ [StartNext]_startVars => StartInv'
<1> SUFFICES ASSUME StartInv, [StartNext]_startVars PROVE StartInv'
  OBVIOUS
<1> USE DEF StartInv
<1>1. CASE Validate
  BY <1>1 DEF Validate
<1>2. CASE Build
  BY <1>2 DEF Build
<1>3. CASE UNCHANGED startVars
  BY <1>3 DEF startVars
<1> QED
  BY <1>1, <1>2, <1>3 DEF StartNext

\* Outside local and test a process runs on adapters that all processes share,
\* for every set of settings it may be started with; it fails to build only in
\* local and test, and only over its queue.
THEOREM DeploymentsAreShared == StartSpec => []DeployedIsShared
<1>1. StartInit => StartInv
  BY DEF StartInit, StartInv
<1>2. StartInv => DeployedIsShared
  <2> SUFFICES ASSUME StartInv PROVE DeployedIsShared
    OBVIOUS
  <2>1. settings \in Settings
    BY StartAssumption DEF StartInv
  <2>2. phase = "running" /\ ~SafeLocal(settings) => built \in Shared
    BY <2>1, AcceptedIsShared DEF StartInv
  <2>3. phase = "failed" => SafeLocal(settings) /\ settings.queue_provider = "sqs"
    BY <2>1, AcceptedBuilds DEF StartInv
  <2> QED
    BY <2>2, <2>3 DEF DeployedIsShared
<1> QED
  BY <1>1, <1>2, StartStep, PTL DEF StartSpec

-----------------------------------------------------------------------------
(* RateLimiter *)

\* A time lies in one window only, and not before a later one.
LEMMA WindowsApart ==
  ASSUME NEW b \in Nat, NEW d \in Nat, b < d
  PROVE  b * WindowSeconds + WindowSeconds <= d * WindowSeconds
<1>1. WindowSeconds \in Nat
  BY LimiterAssumption
<1>2. PICK k \in Nat : d = b + 1 + k
  <2>1. d - b - 1 \in Nat /\ d = b + 1 + (d - b - 1)
    OBVIOUS
  <2> QED
    BY <2>1
<1>3. d * WindowSeconds = b * WindowSeconds + WindowSeconds + k * WindowSeconds
  BY <1>1, <1>2
<1>4. k * WindowSeconds \in Nat /\ b * WindowSeconds \in Nat
  BY <1>1
<1> QED
  BY <1>1, <1>3, <1>4

LEMMA OneWindow ==
  ASSUME NEW t \in Nat, NEW b \in Nat, NEW d \in Nat, InBucket(t, b), InBucket(t, d)
  PROVE  b = d
<1> /\ WindowSeconds \in Nat /\ b * WindowSeconds \in Nat /\ d * WindowSeconds \in Nat
  BY LimiterAssumption
<1>1. CASE b < d
  BY <1>1, WindowsApart DEF InBucket
<1>2. CASE d < b
  BY <1>2, WindowsApart DEF InBucket
<1> QED
  BY <1>1, <1>2

\* Products of the memory limiter's bound.
LEMMA OneMoreLate ==
  ASSUME NEW n \in Nat
  PROVE  /\ Limit * n \in Nat
         /\ Limit * (1 + n) = Limit * n + Limit
         /\ Limit * (n + 1) = Limit * n + Limit
BY LimiterAssumption

\* The clock a request has read is not ahead, and Slack behind at most; late
\* requests have counted themselves; the last bucket in memory has begun.
Timely ==
  /\ \A r \in Waiting : stamp[r] <= clock /\ clock <= stamp[r] + Slack
  /\ \A r \in late : verdict[r] \in {"allowed", "refused"}
  /\ local.bucket * WindowSeconds <= clock
  /\ local.count = 0 => local.bucket = 0

\* With Redis, a window admits no more than its counter while requests of it
\* may come, and the counter is kept until none can.
RedisInv ==
  store = "redis" =>
    \A b \in Buckets :
      /\ Cardinality(Admitted(b)) <= Limit
      /\ \/ Cardinality(Admitted(b)) <= counter[b]
         \/ clock >= b * WindowSeconds + WindowSeconds + 1
      /\ counter[b] > 0 => deadline[b] >= b * WindowSeconds + WindowSeconds + 1

\* In memory, a window that is counted has admitted what is counted and Limit
\* for each late request; one that comes after the bucket in memory only the
\* latter, and one before it Limit more.
MemoryInv ==
  store = "memory" =>
    \A b \in Buckets :
      LET admitted == Cardinality(Admitted(b))
          spoiled == Limit * Cardinality(late)
      IN /\ local.bucket = b => admitted <= spoiled + local.count
         /\ local.bucket < b => admitted <= spoiled
         /\ admitted <= spoiled + Limit

LimiterInv == LimiterTypeOK /\ Timely /\ RedisInv /\ MemoryInv

LEMMA LimiterFinite ==
  ASSUME LimiterTypeOK
  PROVE  /\ \A b : IsFiniteSet(Admitted(b)) /\ Cardinality(Admitted(b)) \in Nat
         /\ IsFiniteSet(late) /\ Cardinality(late) \in Nat
<1>1. IsFiniteSet(late)
  BY LimiterAssumption, FS_Subset DEF LimiterTypeOK
<1>2. \A b : IsFiniteSet(Admitted(b))
  BY LimiterAssumption, FS_Subset DEF Admitted
<1> QED
  BY <1>1, <1>2, FS_CardinalityType

LEMMA LimiterStarts == LimiterInit => LimiterInv
<1> SUFFICES ASSUME LimiterInit PROVE LimiterInv
  OBVIOUS
<1>1. LimiterTypeOK
  BY LimiterAssumption DEF LimiterInit, LimiterTypeOK, Buckets
<1>2. Timely
  BY LimiterAssumption DEF LimiterInit, Timely, Waiting
<1>3. /\ \A b : Cardinality(Admitted(b)) = 0
      /\ Cardinality(late) = 0
  BY FS_EmptySet DEF LimiterInit, Admitted
<1>4. RedisInv
  BY <1>3, LimiterAssumption DEF RedisInv, LimiterInit, Buckets
<1>5. MemoryInv
  BY <1>3, LimiterAssumption, OneMoreLate DEF MemoryInv, LimiterInit, Buckets
<1> QED
  BY <1>1, <1>2, <1>4, <1>5 DEF LimiterInv

LEMMA LimiterTypes ==
  LimiterTypeOK /\ [LimiterNext]_limiterVars => LimiterTypeOK'
<1> SUFFICES ASSUME LimiterTypeOK, [LimiterNext]_limiterVars PROVE LimiterTypeOK'
  OBVIOUS
<1> USE LimiterAssumption DEF LimiterTypeOK, Buckets
<1>1. ASSUME NEW r \in Requests, ReadClock(r) PROVE LimiterTypeOK'
  BY <1>1 DEF ReadClock
<1>a. ASSUME NEW r \in Requests, NEW b \in Buckets, NEW n \in Nat, Decide(r, b, n)
      PROVE  /\ verdict' \in [Requests -> {"idle", "waiting", "allowed", "refused", "unavailable"}]
             /\ late' \subseteq Requests
  <2>1. verdict' \in [Requests -> {"idle", "waiting", "allowed", "refused", "unavailable"}]
    <3>1. CASE n <= Limit
      BY <1>a, <3>1 DEF Decide
    <3>2. CASE ~(n <= Limit)
      BY <1>a, <3>2 DEF Decide
    <3> QED
      BY <3>1, <3>2
  <2>2. late' \subseteq Requests
    BY <1>a DEF Decide
  <2> QED
    BY <2>1, <2>2
<1>b. ASSUME NEW b \in Buckets
      PROVE  /\ [counter EXCEPT ![b] = counter[b] + 1] \in [Buckets -> Nat]
             /\ [deadline EXCEPT ![b] = DeadlineAfter(b)] \in [Buckets -> Nat]
  <2>1. DeadlineAfter(b) \in Nat
    BY DEF DeadlineAfter, KeptUntil
  <2> QED
    BY <2>1
<1>2. ASSUME NEW r \in Requests, NEW b \in Buckets, CountInRedis(r, b) PROVE LimiterTypeOK'
  <2>1. counter[b] + 1 \in Nat
    OBVIOUS
  <2> QED
    BY <1>2, <1>a, <1>b, <2>1 DEF CountInRedis
<1>3. ASSUME NEW r \in Requests, NEW b \in Buckets, RedisFails(r, b) PROVE LimiterTypeOK'
  <2>1. /\ counter' \in [Buckets -> Nat]
        /\ deadline' \in [Buckets -> Nat]
    BY <1>3, <1>b DEF RedisFails
  <2> QED
    BY <1>3, <2>1 DEF RedisFails
<1>4. ASSUME NEW r \in Requests, NEW b \in Buckets, CountInMemory(r, b) PROVE LimiterTypeOK'
  <2>1. LocalCount(b) \in Nat
    BY DEF LocalCount
  <2> QED
    BY <1>4, <1>a, <2>1 DEF CountInMemory
<1>5. CASE Second
  BY <1>5 DEF Second
<1>6. CASE UNCHANGED limiterVars
  BY <1>6 DEF limiterVars
<1> QED
  BY <1>1, <1>2, <1>3, <1>4, <1>5, <1>6 DEF LimiterNext

LEMMA StaysTimely ==
  LimiterTypeOK /\ Timely /\ [LimiterNext]_limiterVars => Timely'
<1> SUFFICES ASSUME LimiterTypeOK, Timely, [LimiterNext]_limiterVars PROVE Timely'
  OBVIOUS
<1> USE LimiterAssumption DEF Timely, LimiterTypeOK, Buckets, Waiting
<1>1. ASSUME NEW r \in Requests, ReadClock(r) PROVE Timely'
  BY <1>1 DEF ReadClock
<1>2. ASSUME NEW r \in Requests, NEW b \in Buckets, CountInRedis(r, b) PROVE Timely'
  BY <1>2 DEF CountInRedis, Decide, Counting
<1>3. ASSUME NEW r \in Requests, NEW b \in Buckets, RedisFails(r, b) PROVE Timely'
  BY <1>3 DEF RedisFails, Counting
<1>4. ASSUME NEW r \in Requests, NEW b \in Buckets, CountInMemory(r, b) PROVE Timely'
  <2>1. b * WindowSeconds <= clock
    BY <1>4 DEF CountInMemory, Counting, InBucket
  <2>2. local' = [bucket |-> b, count |-> LocalCount(b)] /\ LocalCount(b) # 0
    BY <1>4 DEF CountInMemory, LocalCount
  <2>3. /\ verdict[r] = "waiting"
        /\ \A q \in Requests \ {r} : verdict'[q] = verdict[q]
        /\ verdict'[r] \in {"allowed", "refused"}
        /\ late' \subseteq late \cup {r}
        /\ stamp' = stamp /\ clock' = clock
    BY <1>4 DEF CountInMemory, Decide, Counting
  <2>4. \A q \in Waiting' : stamp'[q] <= clock' /\ clock' <= stamp'[q] + Slack
    BY <2>3
  <2>5. \A q \in late' : verdict'[q] \in {"allowed", "refused"}
    BY <2>3
  <2> QED
    BY <2>1, <2>2, <2>3, <2>4, <2>5
<1>5. CASE Second
  <2>1. /\ \A r \in Waiting : clock < stamp[r] + Slack
        /\ clock' = clock + 1
        /\ UNCHANGED <<stamp, verdict, late, local>>
    BY <1>5 DEF Second
  <2>2. \A r \in Waiting' : stamp'[r] <= clock' /\ clock' <= stamp'[r] + Slack
    BY <2>1
  <2>3. local.bucket * WindowSeconds \in Nat
    OBVIOUS
  <2>4. local'.bucket * WindowSeconds <= clock'
    BY <2>1, <2>3
  <2> QED
    BY <2>1, <2>2, <2>4
<1>6. CASE UNCHANGED limiterVars
  BY <1>6 DEF limiterVars
<1> QED
  BY <1>1, <1>2, <1>3, <1>4, <1>5, <1>6 DEF LimiterNext

\* What a count does to the admitted requests of every window: it adds at
\* most the request itself, to its own.
LEMMA OneAdmitted ==
  ASSUME LimiterTypeOK, NEW r \in Requests, NEW b \in Buckets, NEW n \in Nat,
         Counting(r, b), Decide(r, b, n), stamp' = stamp
  PROVE  /\ \A d \in Buckets \ {b} : Admitted(d)' = Admitted(d)
         /\ n <= Limit => Cardinality(Admitted(b)') = Cardinality(Admitted(b)) + 1
         /\ ~(n <= Limit) => Admitted(b)' = Admitted(b)
<1>1. /\ verdict[r] = "waiting" /\ InBucket(stamp[r], b) /\ stamp[r] \in Nat
      /\ verdict \in [Requests -> {"idle", "waiting", "allowed", "refused", "unavailable"}]
      /\ Buckets \subseteq Nat
  BY LimiterAssumption DEF Counting, LimiterTypeOK, Buckets
<1>2. \A q \in Requests : q # r => verdict'[q] = verdict[q]
  BY <1>1 DEF Decide
<1>3. ASSUME NEW d \in Buckets \ {b} PROVE Admitted(d)' = Admitted(d)
  <2>1. ~InBucket(stamp[r], d)
    BY <1>1, OneWindow
  <2> QED
    BY <1>1, <1>2, <2>1 DEF Admitted, InBucket
<1>4. ASSUME n <= Limit PROVE Cardinality(Admitted(b)') = Cardinality(Admitted(b)) + 1
  <2>1. verdict'[r] = "allowed"
    BY <1>1, <1>4 DEF Decide
  <2>2. Admitted(b)' = Admitted(b) \cup {r} /\ r \notin Admitted(b)
    BY <1>1, <1>2, <2>1 DEF Admitted, InBucket
  <2> QED
    BY <2>2, LimiterFinite, FS_AddElement
<1>5. ASSUME ~(n <= Limit) PROVE Admitted(b)' = Admitted(b)
  <2>1. verdict'[r] = "refused"
    BY <1>1, <1>5 DEF Decide
  <2> QED
    BY <1>1, <1>2, <2>1 DEF Admitted, InBucket
<1> QED
  BY <1>3, <1>4, <1>5

\* Every other step leaves the admitted requests of all windows alone.
LEMMA NoneAdmitted ==
  ASSUME LimiterTypeOK,
         \/ \E r \in Requests : ReadClock(r)
         \/ \E r \in Requests, b \in Buckets : RedisFails(r, b)
         \/ Second
         \/ UNCHANGED limiterVars
  PROVE  (\A d : Admitted(d)' = Admitted(d)) /\ late' = late
<1>1. ASSUME NEW r \in Requests, ReadClock(r) PROVE (\A d : Admitted(d)' = Admitted(d)) /\ late' = late
  BY <1>1 DEF ReadClock, Admitted, InBucket, LimiterTypeOK
<1>2. ASSUME NEW r \in Requests, NEW b \in Buckets, RedisFails(r, b)
      PROVE  (\A d : Admitted(d)' = Admitted(d)) /\ late' = late
  BY <1>2 DEF RedisFails, Counting, Admitted, InBucket, LimiterTypeOK
<1>3. CASE Second
  BY <1>3 DEF Second, Admitted, InBucket
<1>4. CASE UNCHANGED limiterVars
  BY <1>4 DEF limiterVars, Admitted, InBucket
<1> QED
  BY <1>1, <1>2, <1>3, <1>4

\* The counter of a window outlives the requests that may still count in it.
LEMMA RedisKeeps ==
  LimiterInv /\ [LimiterNext]_limiterVars => RedisInv'
<1> SUFFICES ASSUME LimiterInv, [LimiterNext]_limiterVars, store' = "redis",
                    NEW d \in Buckets
             PROVE  /\ Cardinality(Admitted(d)') <= Limit
                    /\ \/ Cardinality(Admitted(d)') <= counter'[d]
                       \/ clock' >= d * WindowSeconds + WindowSeconds + 1
                    /\ counter'[d] > 0 => deadline'[d] >= d * WindowSeconds + WindowSeconds + 1
  BY DEF RedisInv, Buckets
<1> DEFINE Until == d * WindowSeconds + WindowSeconds + 1
<1>1. /\ LimiterTypeOK /\ Timely /\ RedisInv
      /\ d \in Buckets /\ d \in Nat /\ Buckets \subseteq Nat
      /\ Limit \in Nat /\ WindowSeconds \in Nat /\ d * WindowSeconds \in Nat
      /\ clock \in Nat /\ counter \in [Buckets -> Nat] /\ deadline \in [Buckets -> Nat]
      /\ clock' \in Nat /\ counter' \in [Buckets -> Nat] /\ deadline' \in [Buckets -> Nat]
  <2>1. LimiterTypeOK /\ Timely /\ RedisInv /\ LimiterTypeOK'
    BY LimiterTypes DEF LimiterInv
  <2>2. /\ d \in Buckets /\ d \in Nat /\ Buckets \subseteq Nat
        /\ Limit \in Nat /\ WindowSeconds \in Nat
    BY LimiterAssumption DEF Buckets
  <2>3. d * WindowSeconds \in Nat
    BY <2>2
  <2>4. clock \in Nat /\ counter \in [Buckets -> Nat] /\ deadline \in [Buckets -> Nat]
    BY <2>1, LimiterAssumption DEF LimiterTypeOK
  <2>5. clock' \in Nat /\ counter' \in [Buckets -> Nat] /\ deadline' \in [Buckets -> Nat]
    <3>1. clock' \in 0 .. Horizon /\ counter' \in [Buckets' -> Nat] /\ deadline' \in [Buckets' -> Nat]
      BY <2>1 DEF LimiterTypeOK
    <3>2. Buckets' = Buckets
      BY DEF Buckets
    <3> QED
      BY <3>1, <3>2, LimiterAssumption
  <2> QED
    BY <2>1, <2>2, <2>3, <2>4, <2>5
<1>2. store = "redis"
  <2>1. store' = store
    BY DEF LimiterNext, ReadClock, CountInRedis, RedisFails, CountInMemory, Second, limiterVars
  <2> QED
    BY <2>1
<1>3. /\ Cardinality(Admitted(d)) \in Nat
      /\ Cardinality(Admitted(d)) <= Limit
      /\ Cardinality(Admitted(d)) <= counter[d] \/ clock >= Until
      /\ counter[d] > 0 => deadline[d] >= Until
  BY <1>1, <1>2, LimiterFinite DEF RedisInv
<1> HIDE DEF Until
<1>4. Until \in Nat /\ Until = d * WindowSeconds + WindowSeconds + 1
  BY <1>1 DEF Until
\* A request of the window comes before its counter is forgotten, and the
\* time to live it sets is long enough.
<1>5. ASSUME NEW r \in Requests, Counting(r, d)
      PROVE  clock < Until /\ DeadlineAfter(d) \in Nat
             /\ DeadlineAfter(d) >= Until
  <2>1. /\ stamp[r] <= clock /\ clock <= stamp[r] + Slack /\ stamp[r] \in Nat
        /\ d * WindowSeconds <= stamp[r] /\ stamp[r] < d * WindowSeconds + WindowSeconds
    BY <1>1, <1>5 DEF Timely, Waiting, Counting, InBucket, LimiterTypeOK
  <2>2. clock < Until
    BY <1>1, <1>4, <2>1, LimiterAssumption
  <2>3. clock + WindowSeconds + 1 >= Until
    BY <1>1, <1>4, <2>1
  <2> QED
    BY <1>1, <1>3, <1>4, <2>2, <2>3 DEF DeadlineAfter, KeptUntil
<1>6. ASSUME NEW r \in Requests, NEW b \in Buckets, CountInRedis(r, b)
      PROVE  /\ Cardinality(Admitted(d)') <= Limit
             /\ Cardinality(Admitted(d)') <= counter'[d] \/ clock' >= Until
             /\ counter'[d] > 0 => deadline'[d] >= Until
  <2>1. /\ Counting(r, b) /\ Decide(r, b, counter[b] + 1) /\ counter[b] + 1 \in Nat
        /\ stamp' = stamp /\ clock' = clock
        /\ counter' = [counter EXCEPT ![b] = counter[b] + 1]
        /\ deadline' = [deadline EXCEPT ![b] = DeadlineAfter(b)]
    BY <1>1, <1>6 DEF CountInRedis
  <2>2. CASE b = d
    <3>1. clock < Until /\ DeadlineAfter(d) >= Until /\ Cardinality(Admitted(d)) <= counter[d]
      BY <1>1, <1>3, <1>4, <1>5, <2>1, <2>2
    <3>2. counter'[d] = counter[d] + 1 /\ deadline'[d] = DeadlineAfter(d)
      BY <1>1, <2>1, <2>2
    <3>3. CASE counter[d] + 1 <= Limit
      BY <1>1, <1>3, <2>1, <2>2, <3>1, <3>2, <3>3, OneAdmitted
    <3>4. CASE ~(counter[d] + 1 <= Limit)
      <4>1. Admitted(d)' = Admitted(d)
        BY <1>1, <2>1, <2>2, <3>4, OneAdmitted
      <4> QED
        BY <1>1, <1>3, <3>1, <3>2, <4>1
    <3> QED
      BY <3>3, <3>4
  <2>3. CASE b # d
    <3>1. Admitted(d)' = Admitted(d)
      BY <1>1, <2>1, <2>3, OneAdmitted
    <3>2. counter'[d] = counter[d] /\ deadline'[d] = deadline[d]
      BY <1>1, <2>1, <2>3
    <3> QED
      BY <1>3, <2>1, <3>1, <3>2
  <2> QED
    BY <2>2, <2>3
<1>7. ASSUME NEW r \in Requests, NEW b \in Buckets, RedisFails(r, b)
      PROVE  /\ Cardinality(Admitted(d)') <= Limit
             /\ Cardinality(Admitted(d)') <= counter'[d] \/ clock' >= Until
             /\ counter'[d] > 0 => deadline'[d] >= Until
  <2>1. Admitted(d)' = Admitted(d)
    BY <1>1, <1>7, NoneAdmitted
  <2>2. /\ Counting(r, b) /\ clock' = clock
        /\ \/ counter' = counter /\ deadline' = deadline
           \/ /\ counter' = [counter EXCEPT ![b] = counter[b] + 1]
              /\ deadline' = [deadline EXCEPT ![b] = DeadlineAfter(b)]
    BY <1>7 DEF RedisFails
  <2>3. CASE counter' = counter /\ deadline' = deadline
    BY <1>3, <2>1, <2>2, <2>3
  <2>4. CASE b = d /\ counter'[d] = counter[d] + 1 /\ deadline'[d] = DeadlineAfter(d)
    BY <1>1, <1>3, <1>4, <1>5, <2>1, <2>2, <2>4
  <2>5. CASE counter'[d] = counter[d] /\ deadline'[d] = deadline[d]
    BY <1>3, <2>1, <2>2, <2>5
  <2> QED
    BY <1>1, <2>2, <2>3, <2>4, <2>5
<1>8. CASE Second
  <2>1. Admitted(d)' = Admitted(d)
    BY <1>1, <1>8, NoneAdmitted
  <2>2. /\ clock' = clock + 1 /\ deadline' = deadline
        /\ counter'[d] = IF deadline[d] <= clock + 1 THEN 0 ELSE counter[d]
    BY <1>1, <1>8 DEF Second
  <2>3. CASE deadline[d] <= clock + 1 /\ counter[d] > 0
    <3>1. clock' >= Until /\ counter'[d] = 0
      BY <1>1, <1>3, <1>4, <2>2, <2>3
    <3> QED
      BY <1>1, <1>3, <1>4, <2>1, <3>1
  <2>4. CASE counter'[d] = counter[d]
    BY <1>1, <1>3, <1>4, <2>1, <2>2, <2>4
  <2> QED
    BY <1>1, <1>3, <2>2, <2>3, <2>4
<1>9. CASE (\E r \in Requests : ReadClock(r)) \/ UNCHANGED limiterVars
  <2>1. Admitted(d)' = Admitted(d)
    BY <1>1, <1>9, NoneAdmitted
  <2>2. clock' = clock /\ counter' = counter /\ deadline' = deadline
    BY <1>9 DEF ReadClock, limiterVars
  <2> QED
    BY <1>1, <1>3, <1>4, <2>1, <2>2
<1>10. ASSUME NEW r \in Requests, NEW b \in Buckets, CountInMemory(r, b) PROVE FALSE
  BY <1>2, <1>10 DEF CountInMemory
<1> QED
  BY <1>4, <1>6, <1>7, <1>8, <1>9, <1>10 DEF LimiterNext

\* Only requests that are late make the memory limiter count a window again.
LEMMA MemoryKeeps ==
  LimiterInv /\ [LimiterNext]_limiterVars => MemoryInv'
<1> SUFFICES ASSUME LimiterInv, [LimiterNext]_limiterVars, store' = "memory",
                    NEW d \in Buckets
             PROVE  /\ local'.bucket = d =>
                         Cardinality(Admitted(d)') <= Limit * Cardinality(late') + local'.count
                    /\ local'.bucket < d => Cardinality(Admitted(d)') <= Limit * Cardinality(late')
                    /\ Cardinality(Admitted(d)') <= Limit * Cardinality(late') + Limit
  BY DEF MemoryInv, Buckets
<1>1. /\ LimiterTypeOK /\ Timely /\ MemoryInv
      /\ d \in Buckets /\ d \in Nat /\ Buckets \subseteq Nat
      /\ Limit \in Nat \ {0} /\ WindowSeconds \in Nat
  BY LimiterAssumption DEF LimiterInv, Buckets
<1>2. clock \in Nat /\ local.bucket \in Nat /\ local.count \in Nat
  BY <1>1, LimiterAssumption DEF LimiterTypeOK, Buckets
<1>3. store = "memory"
  <2>1. store' = store
    BY DEF LimiterNext, ReadClock, CountInRedis, RedisFails, CountInMemory, Second, limiterVars
  <2> QED
    BY <2>1
<1> DEFINE admitted == Cardinality(Admitted(d))
           spoiled == Limit * Cardinality(late)
<1>4. /\ admitted \in Nat /\ spoiled \in Nat
      /\ Limit * (Cardinality(late) + 1) = spoiled + Limit
  BY <1>1, LimiterFinite, OneMoreLate
<1>5. /\ local.bucket = d => admitted <= spoiled + local.count
      /\ local.bucket < d => admitted <= spoiled
      /\ admitted <= spoiled + Limit
  BY <1>1, <1>3 DEF MemoryInv
<1> HIDE DEF admitted, spoiled
<1>6. ASSUME NEW r \in Requests, NEW b \in Buckets, CountInMemory(r, b)
      PROVE  /\ local'.bucket = d =>
                   Cardinality(Admitted(d)') <= Limit * Cardinality(late') + local'.count
             /\ local'.bucket < d => Cardinality(Admitted(d)') <= Limit * Cardinality(late')
             /\ Cardinality(Admitted(d)') <= Limit * Cardinality(late') + Limit
  <2>1. /\ Counting(r, b) /\ Decide(r, b, LocalCount(b)) /\ stamp' = stamp
        /\ local'.bucket = b /\ local'.count = LocalCount(b)
        /\ b \in Nat /\ LocalCount(b) \in Nat
    BY <1>1, <1>2, <1>6 DEF CountInMemory, LocalCount
\* A request that comes when a later bucket is in memory is late.
  <2>2. ASSUME b < local.bucket PROVE ~InBucket(clock, b)
    <3>1. b * WindowSeconds + WindowSeconds <= local.bucket * WindowSeconds
      BY <1>2, <2>1, <2>2, WindowsApart
    <3>2. local.bucket * WindowSeconds <= clock
      BY <1>1 DEF Timely
    <3>3. b * WindowSeconds \in Nat /\ local.bucket * WindowSeconds \in Nat
      BY <1>1, <1>2, <2>1
    <3> QED
      BY <1>1, <1>2, <3>1, <3>2, <3>3 DEF InBucket
  <2>3. r \notin late
    BY <1>1, <2>1 DEF Timely, Counting
  <2>4. /\ InBucket(clock, b) => Limit * Cardinality(late') = spoiled
        /\ ~InBucket(clock, b) => Limit * Cardinality(late') = spoiled + Limit
    <3>1. CASE InBucket(clock, b)
      BY <2>1, <3>1 DEF Decide, spoiled
    <3>2. CASE ~InBucket(clock, b)
      <4>1. late' = late \cup {r}
        BY <2>1, <3>2 DEF Decide
      <4>2. Cardinality(late') = Cardinality(late) + 1
        BY <1>1, <2>3, <4>1, LimiterFinite, FS_AddElement
      <4> QED
        BY <1>4, <3>2, <4>2
    <3> QED
      BY <3>1, <3>2
  <2>5. CASE b = d
    <3>1. \/ LocalCount(b) <= Limit /\ Cardinality(Admitted(d)') = admitted + 1
          \/ ~(LocalCount(b) <= Limit) /\ Cardinality(Admitted(d)') = admitted
      BY <1>1, <2>1, <2>5, OneAdmitted DEF admitted
    <3>2. CASE local.bucket = d
      <4>1. LocalCount(b) = local.count + 1
        BY <2>5, <3>2 DEF LocalCount
      <4> QED
        BY <1>1, <1>2, <1>4, <1>5, <2>1, <2>4, <2>5, <3>1, <3>2, <4>1
    <3>3. CASE local.bucket # d
      <4>1. LocalCount(b) = 1
        BY <2>5, <3>3 DEF LocalCount
      <4>2. admitted <= Limit * Cardinality(late')
        BY <1>1, <1>2, <1>4, <1>5, <2>1, <2>2, <2>4, <2>5, <3>3
      <4>3. Limit * Cardinality(late') \in Nat
        BY <1>1, <1>4, <2>4
      <4> QED
        BY <1>1, <1>4, <2>1, <2>5, <3>1, <4>1, <4>2, <4>3
    <3> QED
      BY <3>2, <3>3
  <2>6. CASE b # d
    <3>1. Cardinality(Admitted(d)') = admitted
      BY <1>1, <2>1, <2>6, OneAdmitted DEF admitted
    <3>2. CASE b < d
      <4>1. admitted <= Limit * Cardinality(late')
        <5>1. CASE local.bucket < d
          BY <1>1, <1>4, <1>5, <2>4, <5>1
        <5>2. CASE b < local.bucket
          BY <1>1, <1>4, <1>5, <2>2, <2>4, <5>2
        <5> QED
          BY <1>1, <1>2, <2>1, <3>2, <5>1, <5>2
      <4>2. Limit * Cardinality(late') \in Nat
        BY <1>1, <1>4, <2>4
      <4> QED
        BY <1>1, <1>4, <2>1, <3>1, <3>2, <4>1, <4>2
    <3>3. CASE d < b
      BY <1>1, <1>4, <1>5, <2>1, <2>4, <3>1, <3>3
    <3> QED
      BY <1>1, <2>1, <2>6, <3>2, <3>3
  <2> QED
    BY <2>5, <2>6
<1>7. CASE \/ \E r \in Requests : ReadClock(r)
           \/ Second
           \/ UNCHANGED limiterVars
  <2>1. Admitted(d)' = Admitted(d) /\ late' = late
    BY <1>1, <1>7, NoneAdmitted
  <2>2. local' = local
    BY <1>7 DEF ReadClock, Second, limiterVars
  <2> QED
    BY <1>5, <2>1, <2>2 DEF admitted, spoiled
<1>8. ASSUME NEW r \in Requests, NEW b \in Buckets, CountInRedis(r, b) \/ RedisFails(r, b)
      PROVE  FALSE
  BY <1>3, <1>8 DEF CountInRedis, RedisFails
<1> QED
  BY <1>6, <1>7, <1>8 DEF LimiterNext

\* For any number of requests, any limit and any window: a window lets Limit
\* requests through with Redis, and in memory Limit more for each late one.
THEOREM WindowsAreLimited == LimiterSpec => []WindowLimit
<1>1. LimiterInv /\ [LimiterNext]_limiterVars => LimiterInv'
  BY LimiterTypes, StaysTimely, RedisKeeps, MemoryKeeps DEF LimiterInv
<1>2. LimiterInv => WindowLimit
  <2> SUFFICES ASSUME LimiterInv, NEW b \in Buckets
               PROVE  Cardinality(Admitted(b)) <=
                        Limit * (IF store = "redis" THEN 1 ELSE 1 + Cardinality(late))
    BY DEF WindowLimit
  <2>1. LimiterTypeOK /\ Limit \in Nat /\ RedisInv /\ MemoryInv
    BY LimiterAssumption DEF LimiterInv
  <2>2. Limit * (1 + Cardinality(late)) = Limit * Cardinality(late) + Limit
    BY <2>1, LimiterFinite, OneMoreLate
  <2>3. CASE store = "redis"
    BY <2>1, <2>3 DEF RedisInv
  <2>4. CASE store = "memory"
    BY <2>1, <2>2, <2>4 DEF MemoryInv
  <2> QED
    BY <2>1, <2>3, <2>4 DEF LimiterTypeOK
<1> QED
  BY LimiterStarts, <1>1, <1>2, PTL DEF LimiterSpec

-----------------------------------------------------------------------------
(* JobQueue: all jobs wait in one list, that of the API.  Every step is one
of four kinds: it leaves the jobs where they are, offers one to the list,
takes the first one out, or a worker lets go of what it holds. *)

\* The list of the API, the jobs in a list, and those that are done with.
List == queue[Place("api")]
Elements(q) == {q[i] : i \in 1 .. Len(q)}
Gone == handled \cup ignored \cup lost

LEMMA Appended ==
  ASSUME NEW S, NEW q \in Seq(S), NEW x \in S
  PROVE  /\ Append(q, x) \in Seq(S)
         /\ Len(Append(q, x)) = Len(q) + 1
         /\ \A i \in 1 .. Len(q) : Append(q, x)[i] = q[i]
         /\ Append(q, x)[Len(q) + 1] = x
         /\ Elements(Append(q, x)) = Elements(q) \cup {x}
<1>1. /\ Append(q, x) \in Seq(S)
      /\ Len(Append(q, x)) = Len(q) + 1
      /\ \A i \in 1 .. Len(q) : Append(q, x)[i] = q[i]
      /\ Append(q, x)[Len(q) + 1] = x
      /\ Len(q) \in Nat
  OBVIOUS
<1>2. 1 .. Len(q) + 1 = (1 .. Len(q)) \cup {Len(q) + 1}
  BY <1>1
<1> QED
  BY <1>1, <1>2 DEF Elements

LEMMA Popped ==
  ASSUME NEW S, NEW q \in Seq(S), q # <<>>
  PROVE  /\ Tail(q) \in Seq(S)
         /\ Len(q) \in Nat \ {0} /\ Len(Tail(q)) = Len(q) - 1
         /\ \A i \in 1 .. Len(Tail(q)) : Tail(q)[i] = q[i + 1]
         /\ Head(q) = q[1] /\ Head(q) \in S
         /\ Elements(q) = Elements(Tail(q)) \cup {Head(q)}
<1>1. /\ Tail(q) \in Seq(S)
      /\ Len(q) \in Nat \ {0} /\ Len(Tail(q)) = Len(q) - 1
      /\ \A i \in 1 .. Len(Tail(q)) : Tail(q)[i] = q[i + 1]
      /\ Head(q) = q[1] /\ Head(q) \in S
  OBVIOUS
<1>2. Elements(q) \subseteq Elements(Tail(q)) \cup {Head(q)}
  <2> SUFFICES ASSUME NEW i \in 1 .. Len(q) PROVE q[i] \in Elements(Tail(q)) \cup {Head(q)}
    BY DEF Elements
  <2>1. CASE i = 1
    BY <1>1, <2>1
  <2>2. CASE i # 1
    <3>1. i - 1 \in 1 .. Len(Tail(q)) /\ Tail(q)[i - 1] = q[i]
      BY <1>1, <2>2
    <3> QED
      BY <3>1 DEF Elements
  <2> QED
    BY <2>1, <2>2
<1>3. Elements(Tail(q)) \cup {Head(q)} \subseteq Elements(q)
  <2>1. Head(q) \in Elements(q)
    BY <1>1 DEF Elements
  <2>2. ASSUME NEW i \in 1 .. Len(Tail(q)) PROVE Tail(q)[i] \in Elements(q)
    <3>1. i + 1 \in 1 .. Len(q) /\ Tail(q)[i] = q[i + 1]
      BY <1>1
    <3> QED
      BY <3>1 DEF Elements
  <2> QED
    BY <2>1, <2>2 DEF Elements
<1> QED
  BY <1>1, <1>2, <1>3

-----------------------------------------------------------------------------
(* Types, and where jobs are *)

\* Jobs wait in the list of the API only, and a worker holds one only while it
\* processes it.
Placed ==
  /\ \A p \in Places : p # Place("api") => queue[p] = <<>>
  /\ \A w \in Workers : held[w] # {} => workerPc[w] = "process"

LEMMA PlacesAre ==
  /\ \A p \in Processes : Place(p) \in Places
  /\ Place("api") \notin Workers
  /\ Workers \subseteq Processes /\ "api" \in Processes /\ "redis" \in Places
  /\ \A w \in Workers : /\ w \in Places
                        /\ backend = "redis" => Place(w) = Place("api")
                        /\ backend # "redis" => Place(w) = w
BY QueueAssumption DEF Place, Places, Processes

\* The two kinds of steps that change the list.
Offered(j) ==
  /\ told[j] = "nothing"
  /\ \E answer \in {"queued", "error"} :
       /\ told' = [told EXCEPT ![j] = answer]
       /\ answer = "queued" => List' = Append(List, j)
  /\ List' \in {List, Append(List, j)}
  /\ UNCHANGED <<held, workerPc>> /\ Gone' = Gone

Taken(w) ==
  /\ List # <<>>
  /\ List' = Tail(List)
  /\ held[w] = {}
  /\ \/ held' = [held EXCEPT ![w] = {Head(List)}] /\ Gone' = Gone
     \/ held' = held /\ Gone' = Gone \cup {Head(List)}
  /\ told' = told

\* A worker lets go of its job, or has none.
LetGo(w) ==
  /\ List' = List
  /\ held' = [held EXCEPT ![w] = {}]
  /\ Gone' = Gone \cup held[w]
  /\ told' = told

Quiet ==
  /\ List' = List
  /\ held' = held
  /\ Gone' = Gone
  /\ told' = told

QueueStepKind ==
  \/ Quiet
  \/ \E j \in Jobs : Offered(j)
  \/ \E w \in Workers : Taken(w) \/ LetGo(w)

QueueBase == QueueTypeOK /\ Placed

LEMMA BaseStarts == QueueInit => QueueBase
BY QueueAssumption DEF QueueInit, QueueBase, QueueTypeOK, Placed, Places, Processes

\* Each action keeps the types and places, and is of one of the kinds.
LEMMA QueueSteps ==
  ASSUME QueueBase, [QueueNext]_queueVars
  PROVE  QueueBase' /\ QueueStepKind
<1> USE DEF QueueBase
<1>0. /\ List \in Seq(Jobs) /\ Place("api") \in Places
      /\ held \in [Workers -> SUBSET Jobs] /\ queue \in [Places -> Seq(Jobs)]
      /\ results \in [Places -> SUBSET Jobs] /\ faults \in 0 .. MaxFaults /\ MaxFaults \in Nat
  BY PlacesAre, QueueAssumption DEF QueueTypeOK, List
<1>f. Fault => faults' \in 0 .. MaxFaults
  BY <1>0 DEF Fault
<1>1. ASSUME NEW j \in Jobs, Enqueue(j) PROVE QueueBase' /\ QueueStepKind
  <2>1. Append(List, j) \in Seq(Jobs) /\ queue' = [queue EXCEPT ![Place("api")] = Append(List, j)]
    BY <1>0, <1>1, Appended DEF Enqueue, List
  <2>2. Place("api")' = Place("api") /\ List' = Append(List, j)
    BY <1>0, <1>1, <2>1 DEF Enqueue, Place, List
  <2>3. QueueTypeOK'
    BY <1>0, <1>1, <2>1 DEF Enqueue, QueueTypeOK
  <2>4. Placed'
    BY <1>0, <1>1, <2>1, <2>2 DEF Enqueue, Placed
  <2>5. Offered(j)
    BY <1>1, <2>2 DEF Enqueue, Offered, Gone
  <2> QED
    BY <2>3, <2>4, <2>5 DEF QueueStepKind
<1>2. ASSUME NEW j \in Jobs, EnqueueFails(j) PROVE QueueBase' /\ QueueStepKind
  <2>1. /\ Append(List, j) \in Seq(Jobs)
        /\ queue' \in {queue, [queue EXCEPT ![Place("api")] = Append(List, j)]}
    BY <1>0, <1>2, Appended DEF EnqueueFails, List
  <2>2. Place("api")' = Place("api") /\ List' \in {List, Append(List, j)}
    BY <1>0, <1>2, <2>1 DEF EnqueueFails, Place, List
  <2>3. QueueTypeOK'
    BY <1>0, <1>f, <1>2, <2>1 DEF EnqueueFails, QueueTypeOK
  <2>4. Placed'
    BY <1>0, <1>2, <2>1, <2>2 DEF EnqueueFails, Placed
  <2>5. Offered(j)
    BY <1>2, <2>2 DEF EnqueueFails, Offered, Gone
  <2> QED
    BY <2>3, <2>4, <2>5 DEF QueueStepKind
<1>3. ASSUME NEW w \in Workers, Loop(w) \/ DequeueTimesOut(w) \/ Restart(w)
      PROVE  QueueBase' /\ QueueStepKind
  <2>1. QueueTypeOK'
    BY <1>3 DEF Loop, DequeueTimesOut, Restart, QueueTypeOK
  <2>2. Placed'
    BY <1>3 DEF Loop, DequeueTimesOut, Restart, Placed, Place, QueueTypeOK
  <2>3. Quiet
    BY <1>3 DEF Loop, DequeueTimesOut, Restart, Quiet, List, Place, Gone
  <2> QED
    BY <2>1, <2>2, <2>3 DEF QueueStepKind
<1>4. ASSUME NEW w \in Workers, Stop(w) PROVE QueueBase' /\ QueueStepKind
  <2>1. QueueTypeOK'
    BY <1>4, <1>f DEF Stop, QueueTypeOK
  <2>2. Placed'
    BY <1>4 DEF Stop, StopsAt, Placed, Place, QueueTypeOK
  <2>3. Quiet
    BY <1>4 DEF Stop, Quiet, List, Place, Gone
  <2> QED
    BY <2>1, <2>2, <2>3 DEF QueueStepKind
<1>t. ASSUME NEW w \in Workers, queue[Place(w)] # <<>>
      PROVE  /\ Place(w) = Place("api") /\ List # <<>> /\ Remaining(Place(w)) = Tail(List)
             /\ Head(queue[Place(w)]) = Head(List)
             /\ Tail(List) \in Seq(Jobs) /\ Head(List) \in Jobs
  <2>1. Place(w) \in Places
    BY PlacesAre
  <2>2. Place(w) = Place("api")
    BY <1>t, <2>1 DEF Placed
  <2> QED
    BY <1>0, <1>t, <2>2, Popped DEF List, Remaining
<1>5. ASSUME NEW w \in Workers, Dequeue(w) PROVE QueueBase' /\ QueueStepKind
  <2>1. /\ workerPc[w] = "dequeue" /\ Place(w) = Place("api") /\ List # <<>>
        /\ Tail(List) \in Seq(Jobs) /\ Head(List) \in Jobs
        /\ queue' = [queue EXCEPT ![Place("api")] = Tail(List)]
        /\ held' = [held EXCEPT ![w] = {Head(List)}]
        /\ workerPc' = [workerPc EXCEPT ![w] = "process"]
        /\ UNCHANGED <<backend, results, told, handled, ignored, lost, faults>>
    BY <1>5, <1>t DEF Dequeue
  <2>2. Place("api")' = Place("api") /\ List' = Tail(List)
    BY <1>0, <2>1 DEF Place, List
  <2>3. QueueTypeOK'
    BY <1>0, <2>1 DEF QueueTypeOK
  <2>4. Placed'
    BY <1>0, <2>1, <2>2 DEF Placed, QueueTypeOK
  <2>5. Taken(w)
    BY <2>1, <2>2 DEF Taken, Gone, Placed
  <2> QED
    BY <2>3, <2>4, <2>5 DEF QueueStepKind
<1>6. ASSUME NEW w \in Workers, DequeueFails(w) PROVE QueueBase' /\ QueueStepKind
  <2>1. CASE UNCHANGED <<queue, lost>>
    <3>1. QueueTypeOK'
      BY <1>6, <1>f, <2>1 DEF DequeueFails, QueueTypeOK
    <3>2. Placed'
      BY <1>6, <2>1 DEF DequeueFails, Placed, Place, QueueTypeOK
    <3>3. Quiet
      BY <1>6, <2>1 DEF DequeueFails, Quiet, List, Place, Gone
    <3> QED
      BY <3>1, <3>2, <3>3 DEF QueueStepKind
  <2>2. CASE /\ queue[Place(w)] # <<>>
             /\ queue' = [queue EXCEPT ![Place(w)] = Remaining(Place(w))]
             /\ lost' = lost \cup {Head(queue[Place(w)])}
    <3>1. /\ workerPc[w] = "dequeue" /\ List # <<>>
          /\ Tail(List) \in Seq(Jobs) /\ Head(List) \in Jobs
          /\ queue' = [queue EXCEPT ![Place("api")] = Tail(List)]
          /\ lost' = lost \cup {Head(List)}
          /\ workerPc' = [workerPc EXCEPT ![w] = "loop"]
          /\ UNCHANGED <<backend, results, told, held, handled, ignored>>
      BY <1>6, <1>t, <2>2 DEF DequeueFails
    <3>2. Place("api")' = Place("api") /\ List' = Tail(List)
      BY <1>0, <3>1 DEF Place, List
    <3>3. QueueTypeOK'
      BY <1>0, <1>6, <1>f, <3>1 DEF DequeueFails, QueueTypeOK
    <3>4. Placed'
      BY <1>0, <3>1, <3>2 DEF Placed, QueueTypeOK
    <3>5. Taken(w)
      BY <3>1, <3>2 DEF Taken, Gone, Placed
    <3> QED
      BY <3>3, <3>4, <3>5 DEF QueueStepKind
  <2> QED
    BY <1>6, <2>1, <2>2 DEF DequeueFails
<1>7. ASSUME NEW w \in Workers, Complete(w) \/ Ignore(w) \/ CompleteFails(w)
      PROVE  QueueBase' /\ QueueStepKind
  <2>1. /\ held' = [held EXCEPT ![w] = {}]
        /\ workerPc' = [workerPc EXCEPT ![w] = "loop"]
        /\ UNCHANGED <<backend, queue, told>>
        /\ Gone' = Gone \cup held[w]
    BY <1>7 DEF Complete, Ignore, CompleteFails, Gone
  <2>2. held[w] \subseteq Jobs /\ Place(w) \in Places
    BY <1>0, PlacesAre
  <2>3. QueueTypeOK'
    BY <1>0, <1>7, <1>f, <2>1, <2>2 DEF Complete, Ignore, CompleteFails, QueueTypeOK
  <2>4. Placed'
    BY <1>0, <2>1 DEF Placed, Place, QueueTypeOK
  <2>5. LetGo(w)
    BY <2>1 DEF LetGo, List, Place
  <2> QED
    BY <2>3, <2>4, <2>5 DEF QueueStepKind
<1>8. ASSUME NEW w \in Workers, Die(w) PROVE QueueBase' /\ QueueStepKind
  <2>1. /\ held' = [held EXCEPT ![w] = {}]
        /\ workerPc' = [workerPc EXCEPT ![w] = "stopped"]
        /\ queue' = [queue EXCEPT ![w] = <<>>]
        /\ results' = [results EXCEPT ![w] = {}]
        /\ lost' = lost \cup held[w]
        /\ UNCHANGED <<backend, told, handled, ignored>>
    BY <1>8 DEF Die
  <2>2. held[w] \subseteq Jobs /\ w \in Places /\ w # Place("api") /\ <<>> \in Seq(Jobs)
    BY <1>0, PlacesAre
  <2>3. QueueTypeOK'
    BY <1>0, <1>8, <1>f, <2>1, <2>2 DEF Die, QueueTypeOK
  <2>4. Place("api")' = Place("api") /\ List' = List
    BY <1>0, <2>1, <2>2 DEF Place, List
  <2>5. Placed'
    BY <1>0, <2>1, <2>2, <2>4 DEF Placed, QueueTypeOK
  <2>6. LetGo(w)
    BY <2>1, <2>4 DEF LetGo, Gone
  <2> QED
    BY <2>3, <2>5, <2>6 DEF QueueStepKind
<1>9. ASSUME NEW j \in Jobs, ResultExpires(j) PROVE QueueBase' /\ QueueStepKind
  <2>1. QueueTypeOK'
    BY <1>0, <1>9, PlacesAre DEF ResultExpires, QueueTypeOK
  <2>2. Placed'
    BY <1>9 DEF ResultExpires, Placed, Place
  <2>3. Quiet
    BY <1>9 DEF ResultExpires, Quiet, List, Place, Gone
  <2> QED
    BY <2>1, <2>2, <2>3 DEF QueueStepKind
<1>10. CASE UNCHANGED queueVars
  BY <1>10 DEF queueVars, QueueTypeOK, Placed, Place, QueueStepKind, Quiet, List, Gone
<1> QED
  BY <1>1, <1>2, <1>3, <1>4, <1>5, <1>6, <1>7, <1>8, <1>9, <1>10 DEF QueueNext, Work

-----------------------------------------------------------------------------
(* The theorems about JobQueue *)

\* Every job the API accepted is somewhere.
Kept ==
  \A j \in Jobs :
    told[j] = "queued" => j \in Elements(List) \cup Gone \/ \E w \in Workers : j \in held[w]

\* A job is in the list once, and then nowhere else; before it was offered it
\* is nowhere; workers hold different jobs.
Apart ==
  /\ \A i, k \in 1 .. Len(List) : List[i] = List[k] => i = k
  /\ \A j \in Jobs : told[j] = "nothing" \/ j \in Elements(List) =>
       j \notin Gone /\ \A w \in Workers : j \notin held[w]
  /\ \A j \in Jobs : told[j] = "nothing" => j \notin Elements(List)
  /\ \A v, w \in Workers : v # w => held[v] \cap held[w] = {}

LEMMA KeptStep ==
  ASSUME QueueBase, Kept, QueueStepKind
  PROVE  Kept'
<1>0. List \in Seq(Jobs) /\ told \in [Jobs -> {"nothing", "queued", "error"}]
      /\ held \in [Workers -> SUBSET Jobs]
  BY PlacesAre, QueueAssumption DEF QueueBase, QueueTypeOK, List
<1>1. CASE Quiet
  BY <1>1 DEF Quiet, Kept
<1>2. ASSUME NEW j \in Jobs, Offered(j) PROVE Kept'
  <2>1. /\ Elements(List) \subseteq Elements(List')
        /\ told'[j] = "queued" => j \in Elements(List')
        /\ \A i \in Jobs : i # j => told'[i] = told[i]
    <3>1. PICK answer \in {"queued", "error"} :
            /\ told' = [told EXCEPT ![j] = answer]
            /\ answer = "queued" => List' = Append(List, j)
      BY <1>2 DEF Offered
    <3>2. Elements(Append(List, j)) = Elements(List) \cup {j}
      BY <1>0, Appended
    <3>3. List' = List \/ List' = Append(List, j)
      BY <1>2 DEF Offered
    <3>4. told'[j] = answer /\ \A i \in Jobs : i # j => told'[i] = told[i]
      BY <1>0, <3>1
    <3> QED
      BY <3>1, <3>2, <3>3, <3>4
  <2>2. Elements(List)' = Elements(List')
    BY DEF Elements
  <2>3. held' = held /\ Gone' = Gone
    BY <1>2 DEF Offered
  <2> QED
    BY <2>1, <2>2, <2>3 DEF Kept
<1>3. ASSUME NEW w \in Workers, Taken(w) PROVE Kept'
  <2>1. Elements(List) = Elements(List') \cup {Head(List)} /\ told' = told
    BY <1>0, <1>3, Popped DEF Taken
  <2>2. /\ Gone \subseteq Gone'
        /\ \A v \in Workers : held[v] \subseteq held'[v]
        /\ Head(List) \in Gone' \/ Head(List) \in held'[w]
    BY <1>0, <1>3 DEF Taken
  <2> QED
    BY <2>1, <2>2 DEF Kept, Elements
<1>4. ASSUME NEW w \in Workers, LetGo(w) PROVE Kept'
  <2>1. /\ List' = List /\ told' = told /\ Gone' = Gone \cup held[w]
        /\ \A v \in Workers : v # w => held'[v] = held[v]
    BY <1>0, <1>4 DEF LetGo
  <2> QED
    BY <2>1 DEF Kept, Elements
<1> QED
  BY <1>1, <1>2, <1>3, <1>4 DEF QueueStepKind

LEMMA ApartStep ==
  ASSUME QueueBase, Apart, QueueStepKind
  PROVE  Apart'
<1>0. List \in Seq(Jobs) /\ told \in [Jobs -> {"nothing", "queued", "error"}]
      /\ held \in [Workers -> SUBSET Jobs] /\ Len(List) \in Nat
  BY PlacesAre, QueueAssumption DEF QueueBase, QueueTypeOK, List
<1>1. CASE Quiet
  BY <1>1 DEF Quiet, Apart
<1>2. ASSUME NEW j \in Jobs, Offered(j) PROVE Apart'
  <2>1. /\ told[j] = "nothing" /\ told'[j] # "nothing"
        /\ \A i \in Jobs : i # j => told'[i] = told[i]
        /\ held' = held /\ Gone' = Gone
    BY <1>0, <1>2 DEF Offered
  <2>2. CASE List' = List
    BY <2>1, <2>2 DEF Apart, Elements
  <2>3. CASE List' = Append(List, j)
    <3>1. /\ Len(List') = Len(List) + 1
          /\ \A i \in 1 .. Len(List) : List'[i] = List[i]
          /\ List'[Len(List) + 1] = j
          /\ Elements(List') = Elements(List) \cup {j}
      BY <1>0, <2>3, Appended
    <3>2. j \notin Elements(List)
      BY <2>1 DEF Apart
    <3>3. \A i, k \in 1 .. Len(List') : List'[i] = List'[k] => i = k
      <4> SUFFICES ASSUME NEW i \in 1 .. Len(List'), NEW k \in 1 .. Len(List'), List'[i] = List'[k]
                   PROVE  i = k
        OBVIOUS
      <4>1. CASE i <= Len(List) /\ k <= Len(List)
        BY <1>0, <3>1, <4>1 DEF Apart
      <4>2. CASE i = Len(List) + 1 /\ k <= Len(List)
        BY <1>0, <3>1, <3>2, <4>2 DEF Elements
      <4>3. CASE i <= Len(List) /\ k = Len(List) + 1
        BY <1>0, <3>1, <3>2, <4>3 DEF Elements
      <4>4. CASE i = Len(List) + 1 /\ k = Len(List) + 1
        BY <4>4
      <4> QED
        BY <1>0, <3>1, <4>1, <4>2, <4>3, <4>4
    <3>4. \A i \in Jobs : told'[i] = "nothing" \/ i \in Elements(List') =>
            i \notin Gone /\ \A w \in Workers : i \notin held[w]
      BY <2>1, <3>1 DEF Apart
    <3>5. \A i \in Jobs : told'[i] = "nothing" => i \notin Elements(List')
      BY <2>1, <3>1 DEF Apart
    <3> QED
      BY <2>1, <3>3, <3>4, <3>5 DEF Apart, Elements
  <2> QED
    BY <1>2, <2>2, <2>3 DEF Offered
<1>3. ASSUME NEW w \in Workers, Taken(w) PROVE Apart'
  <2>1. /\ Len(List) \in Nat \ {0} /\ Len(List') = Len(List) - 1
        /\ \A i \in 1 .. Len(List') : List'[i] = List[i + 1]
        /\ Head(List) = List[1] /\ Head(List) \in Jobs
        /\ Elements(List) = Elements(List') \cup {Head(List)}
        /\ told' = told
    BY <1>0, <1>3, Popped DEF Taken
  <2>2. \A i, k \in 1 .. Len(List') : List'[i] = List'[k] => i = k
    <3> SUFFICES ASSUME NEW i \in 1 .. Len(List'), NEW k \in 1 .. Len(List'), List'[i] = List'[k]
                 PROVE  i = k
      OBVIOUS
    <3>1. /\ i + 1 \in 1 .. Len(List) /\ k + 1 \in 1 .. Len(List)
          /\ List[i + 1] = List[k + 1]
      BY <2>1
    <3>2. i + 1 = k + 1
      BY <3>1 DEF Apart
    <3> QED
      BY <2>1, <3>2
  <2>3. Head(List) \notin Elements(List')
    <3> SUFFICES ASSUME NEW i \in 1 .. Len(List'), List'[i] = Head(List) PROVE FALSE
      BY DEF Elements
    <3>1. i + 1 \in 1 .. Len(List) /\ 1 \in 1 .. Len(List) /\ List[i + 1] = List[1]
      BY <2>1
    <3>2. i + 1 = 1
      BY <3>1 DEF Apart
    <3> QED
      BY <2>1, <3>2
  <2>4. /\ Head(List) \notin Gone /\ told[Head(List)] # "nothing"
        /\ \A v \in Workers : Head(List) \notin held[v]
    BY <2>1 DEF Apart
  <2>5. /\ Gone' \subseteq Gone \cup {Head(List)}
        /\ \A v \in Workers : held'[v] \subseteq held[v] \cup {Head(List)}
        /\ \A v \in Workers : v # w => held'[v] = held[v]
    BY <1>0, <1>3 DEF Taken
  <2>6. \A j \in Jobs : told'[j] = "nothing" \/ j \in Elements(List') =>
          j \notin Gone' /\ \A v \in Workers : j \notin held'[v]
    BY <2>1, <2>3, <2>4, <2>5 DEF Apart
  <2>7. \A j \in Jobs : told'[j] = "nothing" => j \notin Elements(List')
    BY <2>1 DEF Apart
  <2>8. \A u, v \in Workers : u # v => held'[u] \cap held'[v] = {}
    BY <2>4, <2>5 DEF Apart
  <2> QED
    BY <2>2, <2>6, <2>7, <2>8 DEF Apart, Elements
<1>4. ASSUME NEW w \in Workers, LetGo(w) PROVE Apart'
  <2>1. /\ List' = List /\ told' = told /\ Gone' = Gone \cup held[w]
        /\ \A v \in Workers : held'[v] \subseteq held[v]
    BY <1>0, <1>4 DEF LetGo
  <2> QED
    BY <2>1 DEF Apart, Elements
<1> QED
  BY <1>1, <1>2, <1>3, <1>4 DEF QueueStepKind

QueueInv == QueueBase /\ Kept /\ Apart

LEMMA QueueStarts == QueueInit => QueueInv
<1> SUFFICES ASSUME QueueInit PROVE QueueInv
  OBVIOUS
<1>1. List = <<>> /\ Len(List) = 0 /\ Elements(List) = {}
  <2>1. List = <<>>
    BY PlacesAre DEF QueueInit, List, Place, Places, Processes
  <2> QED
    BY <2>1 DEF Elements
<1>2. Kept
  BY DEF QueueInit, Kept
<1>3. Apart
  BY <1>1 DEF QueueInit, Apart, Gone
<1> QED
  BY BaseStarts, <1>2, <1>3 DEF QueueInv

LEMMA QueueKeeps == QueueInv /\ [QueueNext]_queueVars => QueueInv'
BY QueueSteps, KeptStep, ApartStep DEF QueueInv

\* Waiting means waiting in the list of the API.
LEMMA WaitsInList ==
  ASSUME QueueBase, NEW j
  PROVE  Waits(j) <=> j \in Elements(List)
<1>1. Place("api") \in Places
  BY PlacesAre
<1>2. \A p \in Places : p # Place("api") => queue[p] = <<>> /\ Len(queue[p]) = 0
  BY DEF QueueBase, Placed
<1> QED
  BY <1>1, <1>2 DEF Waits, Elements, List

\* The variables of the queue keep their types.
THEOREM QueueTypes == QueueSpec => []QueueTypeOK
<1>1. QueueInv => QueueTypeOK
  BY DEF QueueInv, QueueBase
<1> QED
  BY QueueStarts, QueueKeeps, <1>1, PTL DEF QueueSpec

\* For any jobs, workers and faults: a job the API has accepted waits, is held
\* by a worker that processes it, or was handled, ignored or lost to a fault.
THEOREM JobsAreKept == QueueSpec => []NoJobVanishes
<1>1. QueueInv => NoJobVanishes
  <2> SUFFICES ASSUME QueueInv, NEW j \in Jobs, told[j] = "queued", ~Waits(j), j \notin Gone
               PROVE  \E w \in Workers : j \in held[w] /\ workerPc[w] = "process"
    BY DEF NoJobVanishes, Gone
  <2>1. PICK w \in Workers : j \in held[w]
    BY WaitsInList DEF QueueInv, Kept
  <2> QED
    BY <2>1 DEF QueueInv, QueueBase, Placed
<1> QED
  BY QueueStarts, QueueKeeps, <1>1, PTL DEF QueueSpec

\* No job is delivered twice: one that waits is with nobody and not done with,
\* and no two workers hold one job.
THEOREM JobsAreTakenOnce == QueueSpec => []TakenOnce
<1>1. QueueInv => TakenOnce
  <2> SUFFICES ASSUME QueueInv PROVE TakenOnce
    OBVIOUS
  <2>1. \A j \in Jobs : Waits(j) => j \in Elements(List)
    BY WaitsInList DEF QueueInv
  <2> QED
    BY <2>1 DEF QueueInv, Apart, TakenOnce, Gone
<1> QED
  BY QueueStarts, QueueKeeps, <1>1, PTL DEF QueueSpec
=============================================================================

----------------------------- MODULE MCPlatform -----------------------------
(***************************************************************************)
(* The small parts of the platform in one run.  They share no state, so    *)
(* that a behaviour of one is the same whatever the others do: "part" says *)
(* which one moves, and the others stay in an initial state.               *)
(***************************************************************************)
EXTENDS RateLimiter, JobQueue, Startup, PageIndexing, SearchRanking, ClaimViews, TLC

CONSTANTS r1, r2, r3, j1, j2, j3, w1, w2, a1, a2, a3, k1, k2

VARIABLE part

ThreeRequests == {r1, r2, r3}

ThreeJobs == {j1, j2, j3}
TwoSupported == {j1, j2}
TwoWorkers == {w1, w2}

ThreeAccounts == {a1, a2, a3}
TwoClaims == {k1, k2}
TwoTenants == {"north", "south"}
TwoOfNorth ==
  (a1 :> "north") @@ (a2 :> "north") @@ (a3 :> "south") @@ (k1 :> "north") @@ (k2 :> "south")
OneOfEach == (a1 :> {"supervisor"}) @@ (a2 :> {"claims_adjuster"}) @@ (a3 :> {"admin"})
OneAssigned == {<<a1, k1>>}

\* Settings that start a process on a developer's machine, and deployed.
LocalSettings ==
  [app_env |-> "local", cors_explicit |-> TRUE, hosts_explicit |-> TRUE,
   auth_provider |-> "local", dev_auth_secret |-> "long", oidc_settings |-> "missing",
   object_storage_provider |-> "filesystem", storage_endpoint |-> FALSE,
   storage_keys |-> FALSE, queue_provider |-> "memory", model_provider |-> "deterministic",
   bedrock_settings |-> FALSE, rate_limit_provider |-> "memory", public_base_url |-> "http",
   database_url |-> "sqlite", redis_url |-> "redis", api_docs_enabled |-> TRUE]

DeployedSettings ==
  [app_env |-> "production", cors_explicit |-> TRUE, hosts_explicit |-> TRUE,
   auth_provider |-> "oidc", dev_auth_secret |-> "short", oidc_settings |-> "https",
   object_storage_provider |-> "aws_s3", storage_endpoint |-> FALSE,
   storage_keys |-> FALSE, queue_provider |-> "redis", model_provider |-> "bedrock",
   bedrock_settings |-> TRUE, rate_limit_provider |-> "redis", public_base_url |-> "https",
   database_url |-> "postgresql", redis_url |-> "rediss", api_docs_enabled |-> FALSE]

\* What each setting may be set to.
Choices ==
  [app_env |-> Environment, cors_explicit |-> BOOLEAN, hosts_explicit |-> BOOLEAN,
   auth_provider |-> {"local", "oidc"}, dev_auth_secret |-> {"short", "long"},
   oidc_settings |-> {"missing", "http", "https"},
   object_storage_provider |-> {"memory", "filesystem", "s3_compatible", "aws_s3"},
   storage_endpoint |-> BOOLEAN, storage_keys |-> BOOLEAN,
   queue_provider |-> {"memory", "redis", "sqs"},
   model_provider |-> {"deterministic", "bedrock"}, bedrock_settings |-> BOOLEAN,
   rate_limit_provider |-> {"memory", "redis"}, public_base_url |-> {"http", "https"},
   database_url |-> {"sqlite", "postgresql"}, redis_url |-> {"redis", "rediss"},
   api_docs_enabled |-> BOOLEAN]

OneChanged(s) ==
  UNION {{[s EXCEPT ![f] = v] : v \in Choices[f]} : f \in DOMAIN s}

\* All settings that differ from one of the two in at most two fields.
NearSettings ==
  UNION {UNION {OneChanged(s) : s \in OneChanged(b)} : b \in {LocalSettings, DeployedSettings}}

Parts == {"limiter", "queue", "startup", "indexing", "search", "views"}

\* A part that does not move is in one of its initial states.
Rest(p) ==
  /\ p # "limiter" => store = "redis"
  /\ p # "queue" => backend = "redis"
  /\ p # "startup" => settings = LocalSettings
  /\ p # "search" => governing = FALSE /\ landscaping = FALSE /\ unread = {}
  /\ p # "views" => desk.reader = a1

PlatformInit ==
  /\ part \in Parts
  /\ LimiterInit /\ QueueInit /\ StartInit /\ Indexing /\ SearchInit /\ ViewInit
  /\ Rest(part)

PlatformNext ==
  \/ /\ part = "limiter" /\ LimiterNext
     /\ UNCHANGED <<part, queueVars, startVars, indexVars, searchVars, viewVars>>
  \/ /\ part = "queue" /\ QueueNext
     /\ UNCHANGED <<part, limiterVars, startVars, indexVars, searchVars, viewVars>>
  \/ /\ part = "startup" /\ StartNext
     /\ UNCHANGED <<part, limiterVars, queueVars, indexVars, searchVars, viewVars>>
  \/ /\ part = "indexing" /\ IndexNext
     /\ UNCHANGED <<part, limiterVars, queueVars, startVars, searchVars, viewVars>>
  \/ /\ part = "search" /\ SearchNext
     /\ UNCHANGED <<part, limiterVars, queueVars, startVars, indexVars, viewVars>>
  \/ /\ part = "views" /\ ViewNext
     /\ UNCHANGED <<part, limiterVars, queueVars, startVars, indexVars, searchVars>>

PlatformSpec ==
  /\ PlatformInit
  /\ [][PlatformNext]_<<part, limiterVars, queueVars, startVars, indexVars, searchVars, viewVars>>
  /\ part = "queue" => QueueFairness
=============================================================================

------------------------------ MODULE Startup ------------------------------
(***************************************************************************)
(* How a process of the platform starts: the settings it reads, the checks *)
(* of config.py on them, and the adapters delivery/components.py builds.   *)
(* The API and every worker start like this, with the same settings.       *)
(*                                                                         *)
(* A text is what the checks ask of it: whether it is set, which scheme it *)
(* has, whether it is long enough.                                         *)
(***************************************************************************)
EXTENDS FiniteSets

CONSTANT StartSettings   \* the settings a process may be started with

Environment == {"local", "test", "development", "staging", "production"}

\* The fields of Settings that validate_environment_safety or
\* build_components look at.
Settings ==
  [app_env : Environment,
   cors_explicit : BOOLEAN, hosts_explicit : BOOLEAN,
   auth_provider : {"local", "oidc"}, dev_auth_secret : {"short", "long"},
   oidc_settings : {"missing", "http", "https"},
   object_storage_provider : {"memory", "filesystem", "s3_compatible", "aws_s3"},
   storage_endpoint : BOOLEAN, storage_keys : BOOLEAN,
   queue_provider : {"memory", "redis", "sqs"},
   model_provider : {"deterministic", "bedrock"}, bedrock_settings : BOOLEAN,
   rate_limit_provider : {"memory", "redis"},
   public_base_url : {"http", "https"}, database_url : {"sqlite", "postgresql"},
   redis_url : {"redis", "rediss"}, api_docs_enabled : BOOLEAN]

ASSUME StartAssumption == StartSettings \subseteq Settings

VARIABLES
  settings,    \* what the process was started with
  phase,       \* how far it is
  built        \* the adapters of its Components

startVars == <<settings, phase, built>>

SafeLocal(s) == s.app_env \in {"local", "test"}

\* What is asked of the settings wherever the process runs.
CommonChecks(s) ==
  /\ s.cors_explicit
  /\ s.hosts_explicit
  /\ s.model_provider = "bedrock" => s.bedrock_settings
  /\ s.auth_provider = "local" => s.dev_auth_secret = "long"
  /\ s.auth_provider = "oidc" => s.oidc_settings # "missing"
  /\ s.object_storage_provider = "s3_compatible" => s.storage_endpoint /\ s.storage_keys

\* Mutant of DeployedChecks: no word on the rate limiter.
DeployedWithoutLimiter(s) ==
  /\ s.auth_provider # "local"
  /\ s.object_storage_provider \notin {"memory", "filesystem"}
  /\ s.queue_provider = "redis"
  /\ s.model_provider # "deterministic"
  /\ s.auth_provider = "oidc" => s.oidc_settings = "https"
  /\ s.object_storage_provider = "aws_s3" => ~s.storage_keys
  /\ s.public_base_url = "https"
  /\ s.database_url = "postgresql"
  /\ s.redis_url = "rediss"
  /\ ~s.api_docs_enabled

\* What is asked of them anywhere but in local and test.
DeployedChecks(s) ==
  /\ s.auth_provider # "local"
  /\ s.object_storage_provider \notin {"memory", "filesystem"}
  /\ s.queue_provider # "memory"
  /\ s.model_provider # "deterministic"
  /\ s.auth_provider = "oidc" => s.oidc_settings = "https"
  /\ s.object_storage_provider = "aws_s3" => ~s.storage_keys
  /\ s.public_base_url = "https"
  /\ s.database_url = "postgresql"
  /\ s.queue_provider = "redis"
  /\ s.redis_url = "rediss"
  /\ s.rate_limit_provider = "redis"
  /\ ~s.api_docs_enabled

\* validate_environment_safety
Accepted(s) == CommonChecks(s) /\ (~SafeLocal(s) => DeployedChecks(s))

\* build_components gets to its end: no assertion fails, and the queue is
\* one that is implemented.
Builds(s) ==
  /\ s.auth_provider = "oidc" => s.oidc_settings # "missing"
  /\ s.queue_provider # "sqs"
  /\ s.model_provider = "bedrock" => s.bedrock_settings

\* The adapters it builds.
Components(s) ==
  [identity |-> IF s.auth_provider = "local" THEN "LocalIdentityProvider"
                ELSE "OIDCIdentityProvider",
   storage |-> CASE s.object_storage_provider = "memory" -> "InMemoryObjectStorage"
                 [] s.object_storage_provider = "filesystem" -> "FileSystemObjectStorage"
                 [] OTHER -> "S3ObjectStorage",
   queue |-> IF s.queue_provider = "memory" THEN "InMemoryJobQueue" ELSE "RedisJobQueue",
   model |-> IF s.model_provider = "deterministic" THEN "DeterministicBriefProvider"
             ELSE "BedrockConverseProvider",
   limiter |-> IF s.rate_limit_provider = "memory" THEN "InMemoryRateLimiter"
               ELSE "RedisRateLimiter"]

NotBuilt ==
  [identity |-> "none", storage |-> "none", queue |-> "none", model |-> "none",
   limiter |-> "none"]

\* Adapters whose state is not that of one process.
Shared ==
  [identity : {"OIDCIdentityProvider"}, storage : {"S3ObjectStorage"},
   queue : {"RedisJobQueue"}, model : {"BedrockConverseProvider"},
   limiter : {"RedisRateLimiter"}]

StartInit ==
  /\ settings \in StartSettings
  /\ phase = "settings"
  /\ built = NotBuilt

\* get_settings: the process starts to build, or ends.
Validate ==
  /\ phase = "settings"
  /\ phase' = IF Accepted(settings) THEN "accepted" ELSE "refused"
  /\ UNCHANGED <<settings, built>>

\* build_components, which raises on a queue nobody has written.
Build ==
  /\ phase = "accepted"
  /\ \/ /\ Builds(settings)
        /\ built' = Components(settings)
        /\ phase' = "running"
     \/ /\ ~Builds(settings)
        /\ built' = built
        /\ phase' = "failed"
  /\ UNCHANGED settings

StartNext == Validate \/ Build

StartSpec == StartInit /\ [][StartNext]_startVars

-----------------------------------------------------------------------------
(* Properties *)

\* Outside local and test, settings that pass the checks build, and build
\* adapters that all processes share: the checks of config.py and the
\* branches of components.py were written apart and must agree.  The only
\* accepted settings that fail are a local queue of a kind not implemented.
DeployedIsShared ==
  /\ phase = "running" /\ ~SafeLocal(settings) => built \in Shared
  /\ phase = "failed" => SafeLocal(settings) /\ settings.queue_provider = "sqs"
=============================================================================

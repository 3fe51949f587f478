----------------------------- MODULE ClaimViews -----------------------------
(***************************************************************************)
(* What an account sees of its tenant: the dashboard, the claims, a claim  *)
(* workspace and the review queue, read by requests of their own while     *)
(* workflows open and finish review tasks (ControlledWorkflow has how).    *)
(*                                                                         *)
(* Each request is authorized by the roles of security/authorization.py    *)
(* and answered by application/services.py from the queries of             *)
(* infrastructure/repositories.py, which were written one by one.          *)
(***************************************************************************)
EXTENDS Naturals, Sequences, FiniteSets, Functions

CONSTANTS
  Accounts,     \* active accounts
  Claims,       \* claims
  Assigned,     \* claim_assignments rows, which the seed writes
  MaxTasks,     \* bound on the review tasks, and on the instants they are dated with
  MaxMoves,     \* bound on the shifts of the queue under one reader
  Tenants,      \* tenants
  TenantOf,     \* the tenant of every account and claim
  RolesOf,      \* the roles of every account
  PageSize      \* the limit a reader of the queue asks for

Role == {"claims_adjuster", "supervisor", "compliance_reviewer", "admin"}

ASSUME ViewAssumption ==
  /\ TenantOf \in [Accounts \cup Claims -> Tenants]
  /\ RolesOf \in [Accounts -> SUBSET Role]
  /\ Assigned \subseteq {row \in Accounts \X Claims : TenantOf[row[1]] = TenantOf[row[2]]}
  /\ Claims # {} /\ IsFiniteSet(Claims)
  /\ MaxTasks \in Nat /\ MaxMoves \in Nat
  /\ PageSize \in Nat \ {0}

VARIABLES
  tasks,       \* human_review_tasks rows, in the order they were committed
  desk         \* what the reader has in hand

viewVars == <<tasks, desk>>

Tasks == 1 .. MaxTasks

-----------------------------------------------------------------------------
(* Authorization *)

AllActions ==
  {"dashboard:read", "claim:read", "document:read", "document:upload", "retrieval:query",
   "review_queue:read", "operations:read", "system_job:create", "workflow:start",
   "workflow:read", "workflow:review", "workflow:retry", "workflow:cancel",
   "brief:create", "brief:read"}

AdjusterActions ==
  {"dashboard:read", "claim:read", "document:read", "document:upload", "retrieval:query",
   "workflow:start", "workflow:read", "workflow:cancel", "brief:create", "brief:read"}

\* ROLE_PERMISSIONS
Permissions ==
  [claims_adjuster |-> AdjusterActions,
   supervisor |-> AdjusterActions \cup {"review_queue:read", "workflow:review", "workflow:retry"},
   compliance_reviewer |->
     {"dashboard:read", "claim:read", "document:read", "retrieval:query", "operations:read",
      "workflow:read", "brief:read"},
   admin |-> AllActions]

Authorized(a, action) == \E r \in RolesOf[a] : action \in Permissions[r]

IsAdmin(a) == "admin" \in RolesOf[a]
CanReview(a) == RolesOf[a] \cap {"supervisor", "admin"} # {}

-----------------------------------------------------------------------------
(* The queries *)

\* list_for_actor, count_for_actor and get_for_actor: a claim of the tenant
\* that is assigned to the account, or any for an administrator.
ListForActor(a) ==
  {c \in Claims : TenantOf[c] = TenantOf[a] /\ (~IsAdmin(a) => <<a, c>> \in Assigned)}

CountForActor(a) ==
  LET ofTenant == {c \in Claims : TenantOf[c] = TenantOf[a]}
  IN IF IsAdmin(a) THEN Cardinality(ofTenant)
     ELSE Cardinality({row \in Assigned : row[1] = a /\ row[2] \in ofTenant})

GetForActor(c, a) == TenantOf[c] = TenantOf[a] /\ (IsAdmin(a) \/ <<a, c>> \in Assigned)

\* A row of human_review_tasks; "closed" is completed or cancelled.  An
\* evaluation run of the workflow opens tasks as any other run does.
TaskRow ==
  [status : {"none", "open", "assigned", "closed"}, claim : Claims,
   created_at : Nat, evaluation : BOOLEAN]

TaskTenant(t) == TenantOf[tasks[t].claim]

Open(a) ==
  {t \in Tasks : tasks[t].status \in {"open", "assigned"} /\ TaskTenant(t) = TenantOf[a]}

\* Mutant of CountOpen: the dashboard counts what the queue shows.
CountShown(a) == Cardinality({t \in Open(a) : ~tasks[t].evaluation})

\* count_open
CountOpen(a) == Cardinality(Open(a))

\* list_open orders by created_at; rows of one instant come in any order, and
\* not the same in every query.
Listings(a) ==
  {s \in Bijection(1 .. Cardinality(Open(a)), Open(a)) :
     \A i, j \in DOMAIN s : i < j => tasks[s[i]].created_at <= tasks[s[j]].created_at}

\* LIMIT and OFFSET.
PageOf(s, offset) == {s[i] : i \in {k \in DOMAIN s : offset < k /\ k <= offset + PageSize}}

\* review_queue leaves the tasks of evaluation runs out of the page.
Shown(page) == {t \in page : ~tasks[t].evaluation}

-----------------------------------------------------------------------------
(* State *)

\* The reader: the account, the numbers of its dashboard, how far it is in
\* the queue and what it was shown.  Two fields are history: "waiting" is the
\* open tasks of its tenant when it began that were open ever since, "moves"
\* how often the rows of its queue shifted while it paged.
Desk ==
  [reader : Accounts, phase : {"closed", "claims", "queue", "workspace", "read", "refused"},
   claimTotal : Nat, openReviews : Nat, offset : Nat, seen : SUBSET Tasks,
   waiting : SUBSET Tasks, moves : Nat, claim : SUBSET Claims]

ClosedDesk(a) ==
  [reader |-> a, phase |-> "closed", claimTotal |-> 0, openReviews |-> 0, offset |-> 0,
   seen |-> {}, waiting |-> {}, moves |-> 0, claim |-> {}]

ViewTypeOK ==
  /\ tasks \in [Tasks -> TaskRow]
  /\ desk \in Desk

ViewInit ==
  /\ tasks = [t \in Tasks |-> [status |-> "none", claim |-> CHOOSE c \in Claims : TRUE,
                               created_at |-> 0, evaluation |-> FALSE]]
  /\ \E a \in Accounts : desk = ClosedDesk(a)

-----------------------------------------------------------------------------
(* The workflows *)

\* The reader has its dashboard, and has yet to reach the end of the queue.
Paging == desk.phase \in {"claims", "queue"}

\* A row that is in the queue as of now goes ahead of one that waits.
GoesAhead(row) ==
  /\ TenantOf[row.claim] = TenantOf[desk.reader]
  /\ \E w \in desk.waiting : row.created_at < tasks[w].created_at

EnterQueue(t, row) ==
  /\ tasks' = [tasks EXCEPT ![t] = row]
  /\ desk' = [desk EXCEPT !.moves = IF Paging /\ GoesAhead(row) THEN @ + 1 ELSE @]
  /\ desk'.moves <= MaxMoves

\* A run comes to wait for a human.  The process that runs it dates the task
\* before it commits, by a clock of its own: a task may come into the queue
\* with an earlier instant than those that are there.
OpenTask(t, c, evaluation) ==
  /\ tasks[t].status = "none"
  /\ \A u \in 1 .. t - 1 : tasks[u].status # "none"
  /\ \E at \in 1 .. MaxTasks :
       EnterQueue(t, [status |-> "open", claim |-> c, created_at |-> at,
                      evaluation |-> evaluation])

\* A review that sends its run back opens the task again, as old as it was.
ReopenTask(t) ==
  /\ tasks[t].status = "closed"
  /\ EnterQueue(t, [tasks[t] EXCEPT !.status = "open"])

\* A reviewer decides, or the run is cancelled.
FinishTask(t) ==
  /\ tasks[t].status = "open"
  /\ tasks' = [tasks EXCEPT ![t] = [tasks[t] EXCEPT !.status = "closed"]]
  /\ desk' = [desk EXCEPT !.waiting = @ \ {t},
                          !.moves = IF Paging /\ TaskTenant(t) = TenantOf[desk.reader]
                                    THEN @ + 1 ELSE @]
  /\ desk'.moves <= MaxMoves

-----------------------------------------------------------------------------
(* The reader *)

Refuse == desk' = [desk EXCEPT !.phase = "refused"]

\* GET /dashboard
ReadDashboard ==
  LET a == desk.reader IN
  /\ desk.phase = "closed"
  /\ IF Authorized(a, "dashboard:read")
     THEN desk' = [ClosedDesk(a) EXCEPT
                     !.phase = "claims",
                     !.claimTotal = CountForActor(a),
                     !.openReviews = IF CanReview(a) THEN CountOpen(a) ELSE 0,
                     !.waiting = Open(a)]
     ELSE Refuse
  /\ UNCHANGED tasks

\* GET /claims; the reader opens one of them, or goes on to the queue.
ReadClaims ==
  LET a == desk.reader IN
  /\ desk.phase = "claims"
  /\ IF Authorized(a, "claim:read")
     THEN \/ \E c \in ListForActor(a) : desk' = [desk EXCEPT !.phase = "workspace", !.claim = {c}]
          \/ desk' = [desk EXCEPT !.phase = IF CanReview(a) THEN "queue" ELSE "read"]
     ELSE Refuse
  /\ UNCHANGED tasks

\* GET /claims/{id}: found, or not; the audit event of the read is left out.
ReadWorkspace ==
  LET a == desk.reader IN
  /\ desk.phase = "workspace"
  /\ IF Authorized(a, "claim:read") /\ \A c \in desk.claim : GetForActor(c, a)
     THEN desk' = [desk EXCEPT !.phase = "read"]
     ELSE Refuse
  /\ UNCHANGED tasks

\* GET /review-tasks, page after page, until the reader has asked for as many
\* as its dashboard counted.
ReadQueue ==
  LET a == desk.reader IN
  /\ desk.phase = "queue"
  /\ IF ~Authorized(a, "review_queue:read")
     THEN Refuse
     ELSE IF desk.offset >= desk.openReviews
     THEN desk' = [desk EXCEPT !.phase = "read"]
     ELSE \E s \in Listings(a) :
            desk' = [desk EXCEPT !.seen = @ \cup Shown(PageOf(s, desk.offset)),
                                 !.offset = @ + PageSize]
  /\ UNCHANGED tasks

\* The reader leaves.
Leave ==
  /\ desk.phase \in {"read", "refused"}
  /\ \E a \in Accounts : desk' = ClosedDesk(a)
  /\ UNCHANGED tasks

ViewNext ==
  \/ \E t \in Tasks, c \in Claims, e \in BOOLEAN : OpenTask(t, c, e)
  \/ \E t \in Tasks : ReopenTask(t) \/ FinishTask(t)
  \/ ReadDashboard \/ ReadClaims \/ ReadWorkspace \/ ReadQueue \/ Leave

ViewSpec == ViewInit /\ [][ViewNext]_viewVars

-----------------------------------------------------------------------------
(* Properties *)

\* No two tasks of the reader's queue were created at one instant.
NoTies ==
  \A t, u \in {v \in Tasks : tasks[v].status # "none" /\ TaskTenant(v) = TenantOf[desk.reader]} :
    t # u => tasks[t].created_at # tasks[u].created_at

\* What the reader should have been shown and was not.
Missed == {t \in desk.waiting : ~tasks[t].evaluation} \ desk.seen

\* What the views say of one another.  A claim that is listed opens, and the
\* dashboard counts those that are listed.  An account whose dashboard counts
\* reviews may read the queue.  The count and the pages are of the same rows:
\* a reader who pages as far as the dashboard counted is shown every task that
\* was open all the while, but those of evaluation runs, and but one for every
\* shift of the queue under it, which is a task of the tenant finished, or one
\* that came into the queue ahead of those that waited, dated late or opened
\* again.  Only two tasks of one instant could hide more.
ViewsAgree ==
  /\ desk.phase \in {"claims", "workspace", "queue"} =>
       /\ desk.claimTotal = Cardinality(ListForActor(desk.reader))
       /\ \A c \in desk.claim : GetForActor(c, desk.reader)
       /\ desk.openReviews > 0 => Authorized(desk.reader, "review_queue:read")
  /\ desk.phase = "read" /\ desk.claim = {} /\ CanReview(desk.reader) /\ NoTies =>
       Cardinality(Missed) <= desk.moves
=============================================================================

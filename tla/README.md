# Verification of the Arceus mission runtime

Arceus compiles a mission into a graph of tasks and executes it: a dispatcher
and a scheduler in the backend hand tasks to workers, desktop applications and
headless workers execute them under leases, an operator commands the mission,
workers of an outbox carry out what takes long. Beside it, background jobs
serve the interactive agent. This directory specifies that runtime in TLA+,
model-checks it with TLC on small instances and proves its central safety
properties with TLAPS for all of them.

Paths below are relative to `src/backend/services/` unless they start with
`desktop/`.

## 1. Inventory

### The mission runtime

| component | source | state | operations |
|---|---|---|---|
| Dispatcher | `agent/task_runtime/dispatcher.py` | task, lease and mission rows, the event stream | expire leases, block or release dependents, verdict on the mission, append events |
| Scheduler | `agent/task_runtime/scheduler.py` | assignments, path reservations, runtime workers, owners of tasks | release what ended tasks hold, expire overdue assignments, assign ready tasks within limits and paths |
| Path policy | `agent/task_runtime/path_policy.py` | none | normalise patterns, decide overlap |
| Assignment endpoints | `agent/task_runtime/routes.py` | the same rows | dispatch, schedule, state, accept, heartbeat, release, complete, fail, report recovery |
| Desktop task leases | `agent/desktop_task_runtime.py` | sessions, leases, attempts | register and heartbeat a session, claim, renew, upload events, complete |
| Task commands | `agent/arceus_runtime/tasks/routes.py`, `application/unit_of_work.py` | task rows | retry, skip |
| Mission commands | `agent/arceus_runtime/missions/` | mission row, event stream | create, compile, start, pause, resume, cancel |
| Planning, approvals | `agent/arceus_runtime/planning/`, `approvals/` | workflow, tasks, dependencies, owners; votes | plan, vote |
| Missions of the desktop chat | `agent/cognitive_execution.py` | the same rows | create with a plan, approve, reject |
| Mission compiler | `agent/arceus_runtime/compiler/`, `workers/compiler.py` | compiled records, the mission row | compile |
| Outbox | `application/unit_of_work.py`, `workers/outbox.py` | messages | claim a batch, carry out, mark sent, failed or dead |
| Execution runtime | `agent/arceus_runtime/execution/`, `workers/runtime.py` | the same tasks and leases | schedule, run next, lease, heartbeat, complete, fail |
| Runtime kernel | `agent/arceus_runtime/runtime_kernel/` | the same tasks and leases, checkpoints | create, lease, checkpoint, cancel, pause, resume |
| Desktop worker coordinator | `desktop/runtime/worker-coordinator.js` | slots, timers | poll, accept, claim, execute, report, heartbeat, stop |
| Desktop recovery | `desktop/runtime/recovery/` | the execution journal on disk | write, reconcile with backend and repository, decide |
| Background jobs | `agent/agent_jobs.py`, `agent/worker.py`, `backend/worker/` | job rows, the Celery queue | create, claim, execute, cancel, pause, resume, retry, sweep |
| Idempotency keys, budgets, usage | `application/unit_of_work.py`, `billing/`, `usage/` | stored responses, usage rows | record, look up, check |

The other packages (model gateways, knowledge and memory, governance and
identity, collaboration, deployment, telemetry, the chat agent, the frontend)
create, rank and read records. `PROJECT.json` lists them with the reason why
they are left out.

### How the components interact

Everything shared is in database rows. One HTTP request is one transaction
(`shared/database.py`); there are no row locks. The scheduler calls the
dispatcher at the start of each run. The endpoints that complete or fail an
assignment call the scheduler, completing a task under its lease calls the
dispatcher. No background process runs either of them: they run when a request
asks for it. Commands that ask for work that takes long (compile, start,
resume) leave a message in the outbox, which workers of the outbox carry out in
transactions of their own. The desktop coordinator polls for its assignments, accepts one,
claims the task's lease separately, renews both, and reports the result twice,
once on the lease and once on the assignment. Headless workers lease the same
tasks through the execution runtime, which runs its own idea of expiry and of
released dependents, and the kernel is a third way to lease, cancel and pause.

### What is hard

- Three records say who works on a task: its status, its lease and its
  assignment. Each has its own expiry and its own endpoints, and any of them
  may end first.
- A worker and a set of paths are taken with an assignment and have to be given
  back on each of the ways on which it can end.
- Expiry is noticed late, so heartbeats, late accepts, retries and new claims
  race the sweeps.
- The rows are constrained by uniqueness (`(task, status)` of assignments,
  `(aggregate, number)` of events), so a step that is right by itself may be
  refused at the commit.
- Two numberings of the mission's events drift apart.
- A desktop may crash between any two requests, lose the answer to one that
  was executed, and share its assignments with another desktop.
- Three interfaces lease the same tasks, with three ideas of what excludes a
  lease and what ends one.
- Outbox workers claim without locks, so two of them compile the same mission
  at once and mark each other's messages; one may die over a message, or a
  compilation raise as often as it is tried.
- The kernel makes, pauses and resumes missions whatever their status, without
  an approval and under a compilation; approvals of earlier plans stay pending.
- A background job is written by its executor, its user and two sweeps, each
  of which looks at the status or does not, some long before they write, and
  comes again after a death.
- The answer of a poll is acted on whatever happened since it was asked for.

What makes each part correct:

- *Dispatcher*: what it starts has its dependencies completed, what it puts back
  had a reason, nothing that could run stays pending, no overdue lease stays.
- *Scheduler*: one active assignment per task, one per worker, reservations
  that do not overlap and last as long as the assignment, limits, authority,
  no worker lost.
- *Leases*: at most one that can complete a task; a running task has one.
- *Commands*: what the mission's status allows, commits; completed tasks stay
  completed.
- *Event stream*: the numbers are in the order of the events.
- *Coordinator and journal*: whatever was accepted is in some journal until the
  backend no longer waits for it; every assignment ends and every ready task is
  decided, however often the desktop crashes.
- *Worker interfaces*: one unfinished lease per task across the interfaces, and
  only of a running task; what is completed gets no second result.
- *Lifecycle*: nothing runs without an approval since its latest plan, unless
  the kernel made it run; a compilation ends only what it began and comes to an
  end; a request for one is kept until its attempts are used up.
- *Jobs*: the status tells of the execution until one breaks off; a job is given
  up only when its retries are used up, stays ended once nobody is about to
  write it, and ends unless it is claimed again and again.

## 2. Modules

| module | contents |
|---|---|
| `MissionCommands` | states of a mission, and the operator's commands on it |
| `PathPolicy` | patterns of paths, and whether two of them overlap |
| `TaskRuntime` | extends both: dispatcher, scheduler, assignment endpoints, desktop leases, commands: one mission, all its tasks |
| `ExclusiveGrants` | abstract: grants that clash are never current together, and never come back |
| `Desktop` | extends `TaskRuntime`: the desktops that make a worker's requests, with journal, crash and recovery |
| `WorkerInterfaces` | extends `TaskRuntime`: the execution runtime and the kernel on the same rows |
| `EventStream` | the numbering of a mission's events |
| `MissionLifecycle` | extends `EventStream`: a mission from its creation, with planning, approval, the outbox and its workers |
| `AgentJobs` | one background job and its executors |
| `MCTaskRuntime`, `MCDesktop`, `MCWorkerInterfaces` | instances for TLC |
| `TaskRuntimeProofs`, `GrantsProofs`, `RequeueProofs` | theorems about `TaskRuntime`, each module on top of the one before |
| `DesktopProofs`, `EventStreamProofs`, `LifecycleProofs`, `AgentJobsProofs` | theorems about the modules they are named after |
| `InterfacesProofs` | theorems about `WorkerInterfaces`, on top of `RequeueProofs` |

### TaskRuntime and the code

A step is one request run to its commit. A request that is refused, or rolled
back by a constraint, changes nothing and is no step. Inside a request the code
makes several passes over the rows; here a pass is an operator from rows to
rows, and a request is a composition of passes handed to `Commit`:

    dispatch_mission             Dispatched = MissionUpdated . DependenciesReleased . LeasesExpired
    schedule_ready_tasks         ScheduleFrom = Dispatched, TerminalReleased, StaleExpired, Granting
    complete/fail_assignment     Ended, then ScheduleFrom
    complete_mission_task        the task and its lease, then Dispatched
    accept, release, claim       one rewrite of a few rows

| variable | in the database |
|---|---|
| `mission`, `task` | `ArceusMission.status`, `ArceusTask.status` |
| `owner` | `ArceusTask.owner_member_id`, named by the worker that stands for the member |
| `status`, `assignee` | the rows of `ArceusMissionTaskAssignment`; a row is a pair of its task and a number |
| `lapsed` | active assignments whose `lease_expires_at` has passed |
| `held` | assignments whose `ArceusMissionPathReservation` rows are active |
| `worker` | `ArceusAgentRuntimeWorker.status` |
| `lease` | `ArceusWorkerLease`; `lapsed` is a row that is still active but has expired |

Abstractions:

- *Time* is reduced to whether an expiry has passed (`LapseAssignment`,
  `LapseLease`), which may happen whenever it is not refreshed. Renewing a
  lease only prevents `LapseLease`, so it is no action.
- *Scores* of workers become the set of those that may be chosen
  (`BestWorker`), with the odd case kept that a worker who is not the owner
  scores better than one without authority.
- *Paths* are patterns: sequences of components, as they are after trimming,
  unifying separators and folding case. Whether a component holds a wildcard is
  a constant (`Wild`), and `PatternsOverlap` decides as the code does, by the
  components in front of the first wildcard. What a wildcard matches is no part
  of the code; `Covers` says what a pattern covers at most, for the theorem that
  the decision is never too narrow. Only write-sensitive tasks reserve paths.
- *The loop* of the scheduler is `IsPlan`: the grants it makes are exactly the
  candidates, in order, for which capacity, paths and a worker are left after
  the grants before. The order is that of the task numbers. It matches the
  program's `(created_at, id)`.
- *Optimistic versions* of assignments and tasks (`expected_..._version`) only
  refuse requests and are left out: the model admits more requests.
- *Organizations*: with one (`Staffed`), a schedule makes the worker's member
  the owner of the task; without one, tasks have no owners.
- *Free text*: the `task_status` a completion carries is a free string of which
  the desktop only ever sends `completed`, and so does the model.
- *Missing rows*: an assignment refers to a task and a worker that exist.

`LateRelease` says whether clients release assignments that ended already. The
endpoint allows it, the desktop does not do it, and `WorkerSerial` needs that it
is not done. The proofs hold for both values.

The operators commented as *Slip* are variants of a definition with a plausible
mistake. They show that the properties notice it and take part in no run
otherwise.

### Desktop and the code

`Desktop` keeps the backend of `TaskRuntime` and replaces its free worker
requests by those a desktop makes: a *run* of a slot is a sequence of phases, one
step from one `await` to the next.

| variable | in `desktop/runtime/` |
|---|---|
| `mode` | the coordinator: not running, reconciling, polling, without a timer (`stranded`), stopping |
| `offered` | the assignments in the answer of each poll that are not handled yet |
| `run` | what `runAssignment` of the slot for the assignment is at, by the poll that started it |
| `token` | the lease whose token the run holds |
| `halted` | the runs whose slot is `stopping`: they go on, and count against no limit until they have claimed |
| `journal` | the `stage` of the assignment's entry on disk |
| `todo` | entries `recoverUnfinishedExecutions` has not come to yet |
| `patched` | whether the executor's patch is in the repository |

A request is executed in one step with the backend's action. It may be refused
(`Denied`, for the reasons its endpoint has), and where `Lossy`, it or its answer
may get lost (`Answered`): either way the run is in its `catch` block
(`failing`) and reports a failure that is not retryable. A claim may always be
refused, as versions of tasks are left out.

A poll is two steps. `PollAssignments` is the backend's answer; `Discover`
handles one assignment of it, later, without looking again whether the
assignment is still to be had or the desktop was told to stop: the code tests
`running` only before the `await` (`worker-coordinator.js:189`). Since a slot
that was told to stop is not active (`:152`), a stale answer may start a second
run of the same assignment. `Poll` are the polls of one desktop that may
overlap. The limit on the length of an answer and its order are left out.
`Recovered` is the end of `start()`: its first poll may fail, and then the timer
is never set (`stranded`); and a desktop told to stop while it reconciled polls
once all the same.

`ProcessEnds` drops answers, runs, tokens and snapshots and keeps `journal` and
`patched`; it is a crash (`Crash`) or the end of a stop that waited for the runs
(`Drained`). A process that ends with runs under way, those that a stale answer
started after the stop included, is a crash. A coordinator that is started again
in the same process while such runs go on is not modelled. `Recover` is the
decision table of `recoveryDecision` on the classes of repositories that an
entry can meet; most decisions only annotate the entry, which is why entries
that are not settled are reconciled again at every start.

### WorkerInterfaces and the code

The two other interfaces write `task`, `lease` and `mission` and know nothing of
assignments. `byWorker` are the leases they gave out (their workers report with
an identity instead of a token). `RunNext` leases, executes and reports within
one transaction, so its lease is never seen; what remains of it is the attempt
(`attempts`, against the budget of the retry policy) and the result. The reports
of desktops (`DesktopReport`) record attempts, too, which the expiry below
counts; those of headless workers record none.
`LeasesExpiredInBudget` is the execution runtime's own expiry. The kernel's
leases are kept and reported through the execution runtime. `Named` are the
dependencies in a task's input contract, the only ones the kernel looks at when
it resumes a mission. `Worker` is empty in the run: assignments belong to the
desktops, and `CompletedStays` does not hold beside them (section 5, `Undone`).

### EventStream, MissionLifecycle and the code

The task runtime numbers an event by the highest number of the stream plus one
(`dispatcher.next_event_sequence`), the commands by the mission's
`version_number` after advancing it (`missions/handlers.py`). A claim
advances the version and appends to another stream. The verdict of the
dispatcher does both. The uniqueness constraint on the number is a guard of
`TransitionMission`: the request that breaks it is rolled back. `Created` is
the version of a mission that was created, compiled, planned and approved, with
one event for each. Other packages that append to the mission's stream
(evidence, tools) number like the task runtime and are covered by
`RuntimeEvents`.

The kernel pauses and resumes by setting the mission's row, with a stream of its
own for its events: `KernelSets` moves the version and appends nothing here.

`MissionLifecycle` begins with the creation, in the three ways missions are
created (as a draft, with a plan that waits for approval, or by the kernel with
tasks that are ready), and adds clarifications, planning, votes, approval and
rejection at once, the kernel, and the outbox. A message is named by the number of its event; only those
whose topic makes a worker act are kept. A worker selects messages, claims what
it selected (two steps, as nothing locks them), and takes one after the other in
transactions of their own. A compilation is two steps: it reads the mission, and
writes a status and a version computed from what it read. `BatchLost` is a
worker that dies, or whose session is unusable after the database refused its
compilation, so that marking the message fails, too: what it claimed stays
`processing`. Whatever else raises while a message is carried out, in the
compilation itself too, is `Fail`: the message is tried again, or given up after
`MAX_OUTBOX_ATTEMPTS`, and the mission stays as it is.

| variable | in the database or the worker |
|---|---|
| `reviews` | approval rows of the mission's plans that are pending; each plan adds one, a vote decides one, and nothing withdraws any |
| `planned` | whether there are tasks |
| `basis` | a ghost: on what ground the mission may be carried out since its latest plan: an approval, or a request of the kernel |
| `moves`, `interrupted` | ghosts: how often the kernel paused or resumed the mission, and whether ever under a compilation |
| `message` | `ArceusOutboxMessage`: topic, status, attempts |
| `step`, `batch`, `base` | what each worker is at, the messages it selected with the attempts it saw, the version its compilation began with |

The request that completes a schedule, and those of operators, are
atomic. Reconnecting the two halves, `Runtime` admits reports of tasks from the
plan on, since a mission that is compiled anew still has its old tasks.

### AgentJobs and the code

One job, and the processes that may execute it. `celery` says which of the two
set-ups: local processes poll the table and claim without a lock (`Pick`,
`ClaimPicked`); the broker's deliveries claim under one (`ClaimDelivery`).
`at` is where `_execute_job` is with the job in each process: it looks at the
status before and after planning (`Heeds`) and nowhere else. To cancel or to
pause is two steps, as the request calls the broker between its look at the job
and its write: `asked` holds what each of the requests under way (`Request`) saw
and will write, the old metadata with its count and heartbeat included (`Writes`).
Where only computation lies between look and write, in resume, retry, the sweeps
and the claims of a delivery, which locks the row, the request is one step; nor
is it modelled that a process writes back the metadata it read before planning
or patching. `lost` says that an execution broke off without a word since the
last claim: its process died (`Die`), was terminated by a cancel, or, in local
processes, raised in its own error handler, which the loop only logs
(`Escapes`). `deliveries` are
those that wait in the broker: `acks_late` and `reject_on_worker_lost` bring
one back when a process dies. The two times the sweeps look at are reduced to
whether they lie within ten minutes (`young`, `heard`). A job that its process
never told the end of is ended by `Sweep` or, in local processes, by `TimeOut`.

What the code does here and no property forbids, since it is as written: a pause
or cancel during patching is overwritten by the result, and the result by a
pause or cancel that looked before it (`EndedStays` speaks of jobs that no such
request is about to write; TLC refutes it otherwise); resuming or retrying a
job while it is executed makes a second process execute it; resuming a completed
job while the broker is out of reach marks it failed; a job that kills its worker
is delivered and claimed again for ever (the exception in `JobEnds`); a job given up cannot be retried; each sweep of an
old job that waits counts as a retry.

## 3. Runs

| run | instance | shows |
|---|---|---|
| `Writers` | two writers (one of all Python files of a directory, one of a file there), two workers (symmetric), two assignments and one lease each, together at most three and one | type, one active assignment per task and per worker, reservations disjoint and held as long as needed, no worker lost; assignments and reservations implement `ExclusiveGrants` |
| `Chain` | a writer that depends on a reader, one assignment and two leases each, all commands | leases unique and never lost; no requeue without a reason; nothing pending starts early; leases implement `ExclusiveGrants` |
| `Trio` | two readers and a writer, three workers of which one may write (the others symmetric), total limit 2 | limits and workers in one schedule of several grants; writers to authorized workers |
| `Desktop` | one writer, one desktop with two slots, one poll at a time, two assignments and two leases, pause and resume, losses, stops and any number of crashes | the journal covers accepted work and is given up only for what has ended; every assignment ends; a ready task is decided |
| `Headless` | the chain, two leases each and two of both together, budget of two, all three interfaces, cancel, retry, skip | one unfinished lease per task, of a running task (implements `ExclusiveGrants`); completed stays; nothing pending starts early, supplied tasks are released, overdue leases end |
| `Lifecycle` | all ways of creation, two outbox workers, two messages of two attempts each, one request of the kernel, numbers up to 7, up to two events a request | nothing unapproved runs but through the kernel; unless it interrupts a compilation, order of the events, and compilations end what they began; compilations end; requests are kept until given up |
| `Jobs` | both set-ups, two processes, one cancel or pause under way at a time, two retries, two waiting deliveries, any number of deaths | the status tells of the execution until one breaks off; given up only when exhausted; ended stays; jobs end or are claimed for ever |
| `Wedge`, `Undone`, `Refused`, `Rejection`, `Swept` | smallest instances | the disagreements of section 5, as counterexamples |

Bounds. `MaxAttempt` and `MaxLease` bound the assignments and leases a task ever
gets; a request that needs one more is not taken. Two of a kind suffice for what
the properties relate: an old assignment or lease and a new one, or two that
would have to exclude each other. `Writers` also
bounds what all tasks use together (`ThreeAssignments`, `OneLease`): that admits
one assignment of each task plus a second of one, and a lease that ends a task
under its assignment; leases against each other are the matter of `Chain`.
`Headless` is bounded alike (`TwoLeases`, `ThreeAttempts`): two leases of one task
against each other, or one of each task across the dependency, and the budget of
one task used up with an attempt of the other.
`Commands` chooses the commands an instance looks at; in `Writers` there are
none because a mission's status does not influence assignments except by
stopping the dispatcher, which the run reaches through requests that are not
made. `Desktop` has one desktop and one task: journals are per desktop and
assignment, so a second one adds nothing to what the properties relate except
for competition for an assignment, which is what `Undone` shows. Crashes are not
bounded. One poll at a time is answered, kept while the desktop is told to stop
or the assignment ends, and handled late. A second run of the same assignment
needs a second poll; `DesktopTypeOK`, `JournalCoversWork`, `DiscardOnlyEnded` and
`AcceptedByOne` are proved for any number of them. In `Lifecycle`, numbers up to 7 let the version fall behind the stream
and catch up with it, two messages let a request be left behind while the next
is at work, two workers are enough to claim and mark each other's messages, and
one request of the kernel may come at any point, under a compilation too. The
limit of attempts is a constant, two instead of three, which still has a failure
that is tried again and one that is not. Two approvals pending at once need
more numbers than that and are covered by the proof of `OnlyApprovedRuns`.
In `Jobs`, `MaxRetries` is two instead of three, so that every count below, at and above
the limit is met within `MaxCount`; deaths are not bounded, and requests under
way are, by the one in `Request`, for liveness alone. Safety does not depend on the bounds for the
properties proved below.

Fairness. The dispatcher and the scheduler run only on request, and nothing in
the repository requests them periodically: mission control reads observability,
and the verification scripts drive the endpoints themselves. The fair
specifications therefore assume weak fairness of the requests of a client that
watches the mission: schedule and state in `FairDesktopSpec`, dispatch in
`FairInterfacesSpec`. For an unattended mission the liveness properties do not
hold, which is listed as a hazard. `FairDesktopSpec` further assumes that a
desktop that is down is started again, and one that is up goes on with each of
what its program does by turns (`Starting`: it reconciles and stops; `Polling`:
its timer polls, and answers are handled; `Runs`: its promises are pending), and
that time passes, so that what nobody refreshes becomes overdue; nothing is assumed of
crashes, losses and operators. Within `FairDesktopSpec` heartbeats are optional
and may go on as long as the executor does, which always ends.
`FairLifecycleSpec` assumes that an outbox worker that has something to do goes
on, and polls; that it dies is allowed. `FairSpec` of `AgentJobs` assumes the
periodic sweep (Celery's beat every five minutes, or the user's listing of the
jobs) and time, and nothing of the processes that execute or of requests under
way.

The liveness properties name what may stand in the way: `Wedged`, no schedule
of the mission can commit (section 5); `Stopped`, the mission is paused or over;
`Leaked`, an assignment accepted too late keeps its reservations
(`routes.py:522`), so that nobody is assigned these paths, the same task
included, until the task ends; `Orphaned`, a message whose worker died;
`GivenUp`, one that failed as often as it may. `JobEnds` allows for a job that is claimed
again and again: each delivery after a death renews both times the sweeps look
at (`worker/tasks.py:38`), so nothing but the process that survives can end it.

Deadlock is not checked for the lifecycle and the jobs, whose counters are
bounded.

## 4. Proofs

`TaskRuntimeProofs` proves for every task graph, every organization, all limits
and all bounds, from the named assumptions on the constants:

    TypeCorrect             Spec => []TypeOK
    AssignmentsUnique       Spec => []OneActiveAssignment
    ReservationsNeverOverlap Spec => []ReservationsDisjoint
    WritersKeepPaths        Spec => []WritersHoldPaths
    NoWorkerIsLost          Spec => []NoWorkerLeak
    LiveLeaseUnique         Spec => []OneLiveLease
    RunningIsLeased         Spec => []RunningHasLease
    LimitsHold              Spec => []WithinLimits
    WorkersAreSerial        Spec => []WorkerSerial           (with ~LateRelease)
    WritersAreAble          Spec => []WritersMayImplement    (with ~Staffed)

    OverlapIsFound          patterns that cover a common file are found to overlap
    LiteralOverlapIsExact   without wildcards, only such patterns are

The last two are about `PathPolicy` and any pattern: the decision by literal
prefixes is sound for whatever the wildcards match, because a file's components
in front of a pattern's first wildcard are the pattern's; so
`ReservationsNeverOverlap` is about files and not only about patterns.

The inductive invariant is `Inv == Sound(TRUE)`, where
`Sound(alone) == TypeOK /\ Good(Rows, assignee, alone)` and `Good` states the
six properties of rows instead of states; what it says of leases is claimed
where desktops alone give them out (`alone`). Stating them of rows
is what makes the argument compositional: lemmas `DispatchedGood`,
`TerminalReleasedGood` and `StaleExpiredGood` say that each pass keeps `Good`,
`GrantedGood` says it of the grants of the loop, `EndedRows` of a report, and
each action is then a composition. The properties need each other less than one
would expect: only `RunningHasLease` with its leases, and the disjointness of
reservations, which holds although leftovers of ended assignments stay in
`held`, because the loop compares with all of `held` and not with the active
assignments. `GrantedGood` uses that the tasks are numbers: two grants of one
schedule are compared in the order of the loop.

Limits, workers and authority rest on a second invariant, `Engaged(Rows, assignee)`, of the
same form: that no two active assignments are one worker's, that writers are
able, that the limits hold. Every pass only ends assignments (`EndedEngaged`);
the loop grants idle workers it did not grant before (`PlanWorkers`) and counts,
before each grant, those before it, so that what was counted at the last grant
of a class bounds all of them (`LastTask`, `CountedGrants`). The assumptions are
needed: with a late release a worker becomes idle who may have gone on to
another task, and an organization lets an owner score above authority
(section 5).

`GrantsProofs` proves that the task runtime implements `ExclusiveGrants` three
times:

    LeasesKeepPromise       Spec => LeasesAreExclusive
    AssignmentsKeepPromise  Spec => AssignmentsAreExclusive
    PathsKeepPromise        Spec => ReservationsAreExclusive

That clashing grants are not current together is `Inv`. The rest is a relation
between the rows before and after a request, `Onward`: what exists stays, what is
new is in its first state, what is over stays over. Each pass is in it, and
begins nothing (`Pass`), so that passes compose; only the grants at the end of a
schedule, and a claim, begin something.

`RequeueProofs` does the same with another relation, `Moves`, which says why a
task may leave the status it has:

    PendingTasksWait        Spec => PendingWaits
    RequeuesHaveReasons     Spec => NoSpuriousRequeue

Besides the type it needs `NoneWhilePending`: a pending task has no assignment.
Without it, a failure that is worth retrying would make a pending task ready.

`DesktopProofs` proves, for any number of desktops, slots and tasks, with and
without losses:

    DesktopTypeCorrect      DesktopSpec => []DesktopTypeOK
    DesktopImplementsRuntime DesktopSpec => Spec
    JournalsCoverWork       DesktopSpec => []JournalCoversWork
    DiscardsAreSafe         DesktopSpec => DiscardOnlyEnded
    WorkedOnByOne           DesktopSpec => []AcceptedByOne
    CompletionsAreFinal     DesktopSpec /\ []Calm => CompletedIsFinal
    DependenciesFirst       DesktopSpec /\ []Calm => []RunsAfterDependencies

Its invariant `DesktopInv` says that a run has a journal entry, that a desktop
that is down or reconciles has no runs and no answers of polls, that a run past
accepting is of an assignment somebody accepted, and that it holds the token of a
lease where it uses one. The second theorem carries all others about `Spec` over to
`DesktopSpec`. `AcceptedByOne` needs two desktops, or two polls, to mean anything
and is in no run; TLC agrees with it on a reader and two desktops (43,738 states)
and on a desktop with two overlapping polls (6,420 states).

The last two are the converse of a disagreement: section 5 shows how a completed
task is undone (`Undone`), and here is proved what has to come together for it.
With one desktop (two of them in `Undone`), requests that are answered (`~Lossy`)
and `Calm`, a completed task stays completed however often the desktop crashes,
expiries strike and tasks are retried; and if nobody retries a task
(`"retry" \notin Operator`), none runs before its dependencies. `Calm` says that
schedules commit (`~Wedged`), that no run was told to stop while it was under way
(`halted = {}`), and that no answer of a poll is acted on that was overtaken
(`Overtaken`: the desktop has a slot for an assignment the answer offers, which is
no longer assigned or whose task is no longer ready).
The invariant, `Undisturbed`, says that a task has one run in progress, is
completed exactly when that run has reported so, and that a run which is going to
report a failure of an assignment that still counts is of a task nobody is at
work on. The remaining gap was the refusal of a completion by the uniqueness of
`(task, status)`, which sends the run into its error handler: `ReportCommits`
shows that the sweeps end the assignment of a completed task just as the report
does, so that a refusal means that no schedule of the mission commits either.
Each of the hypotheses is needed: TLC refutes the theorems without any one of
them (two desktops: `Undone`; losses: one reader; retries after a skip: a chain of
two readers; a run told to stop: one reader and two polls, the second of which
starts a run beside the first, whose accept is refused; an answer overtaken: one
reader with two assignments; schedules that do not commit: two independent readers
and two workers, where the wedge of one task makes the report of the other fail
and passes with a retry). It confirms them on the chain with one desktop
(130,013 states).

`InterfacesProofs` proves the safety of `WorkerInterfaces` in two parts. For
missions without assignments (`Headless`, an assumption of these four theorems;
with assignments, one that expires puts back a task whose lease goes on):

    LeasesAreOfRunningTasks InterfacesSpec => []LeaseMeansRunning
    WorkersKeepPromise      InterfacesSpec => WorkersAreExclusive
    CompletionsStand        InterfacesSpec => CompletedStays
    WaitingAcrossInterfaces InterfacesSpec => PendingWaits      (with Named = Deps)

Its invariant, `Fits`, is that a lease which is not over is the only one of a
running task. It is why the kernel, which looks for no other lease, makes no
second one: a task with a lease is not "ready". `Inv` does not hold here, as a
pause of the kernel leaves running tasks without a lease.

For every mission, that is with assignments beside headless workers and the
kernel, what the scheduler promises of its own records stands:

    AssignmentsSurviveInterfaces  OneActiveAssignment, ReservationsDisjoint,
                                  WritersHoldPaths, NoWorkerLeak
    WorkersSurviveInterfaces      WithinLimits; WorkerSerial, WritersMayImplement
                                  under the assumptions they need in TaskRuntime
    GrantsSurviveInterfaces       AssignmentsAreExclusive, ReservationsAreExclusive

The argument is that a step of the other interfaces is `Aside`: it leaves
assignments, reservations, workers and owners alone, so that `Sound(FALSE)` and
`Engaged` come through it, and the steps of the task runtime keep both without
anything being known of leases. These properties are in no run of
`WorkerInterfaces`, whose run is headless; TLC agrees with them on two writers
of overlapping paths, two workers and a lease (1,201,629 states).

`EventStreamProofs` proves `NoGapAhead` (`Spec => []GapsAreBehind`) and
`EventsInOrder` (`Spec => AppendedInOrder`). The invariant explains why two
counters that drift apart never append behind what is there: all numbers
between the mission's version and an event are taken, so a command either gets
a number beyond the stream or is refused.

`LifecycleProofs` proves the same from the creation on, with any number of
outbox workers, messages, pending approvals, attempts and requests of the kernel,
and the safety of the lifecycle:

    LifecycleTypeCorrect    LifecycleSpec => []LifecycleTypeOK
    LifecycleHasNoGapAhead  LifecycleSpec => []GapsStayBehind
    OnlyApprovedRuns        LifecycleSpec => []NothingRunsUnapproved
    RequestNeverLost        LifecycleSpec => []RequestIsThere
    LifecycleInOrder        LifecycleSpec => EventsKeepOrder
    CompilationsEndTheirOwn LifecycleSpec => CompilationEndsItsOwn

    LifecycleInv == Types /\ NothingRunsUnapproved /\ AttemptsLeft /\ RequestsAreKept
                    /\ (~interrupted => StreamIsFull /\ BaseIsFresh)

What a worker remembers is in it: the base of a compilation whose number is still
free is the present version of a mission that still compiles (`BaseIsFresh`); the
request of the compilation at hand is the message named by the
present version (`RequestIsVersion`), which no worker can have been done with
while the mission still compiles (`DoneIsPast`); an attempt seen is below the limit, and
a message given up is at it (`AttemptsLeft`). That stale compilations are refused
thus rests on the uniqueness of event numbers alone: the check of
`started_version` that the compiler has is never used, as the outbox passes none.
The kernel is the one who moves a mission without using a number of its stream:
if it does so under a compilation (`interrupted`), the compilation is not refused,
overwrites the kernel's status and sets the version back. From there on
`GapsAreBehind`, the order of the events and `CompilationEndsItsOwn` fail (TLC
refutes each without the condition, the first where the kernel moves the mission
twice), and the conditions say no more than that. `RequestNeverLost` and
`OnlyApprovedRuns` have no such condition. The latter names the kernel as
the other ground on which a mission may run, and holds although any number of
approvals of earlier plans stay pending:
a vote on one of them is a vote since the latest plan, if not on it.

`AgentJobsProofs` proves the type, `RunningIsExecuted`, `GivesUpExhausted`
and `EndedStays` for any number of processes, of cancels and pauses under way,
retries and deliveries. A claim forgets earlier executions that broke off
(`lost`), so that `RunningIsExecuted` speaks again of the next one. That a job is
given up only at the limit is said of the step that gives it up: a stale pause
may write an old count into a job afterwards.

Every safety property of a passing run is thus proved. Model-checked only are
the liveness properties, which rest on fairness and `ENABLED` and are out of the
prover's reach.

## 5. Disagreements found

Each is the counterexample of one run; `PROJECT.json` quotes the line of the
repository that says otherwise.

1. `Wedge`: an assignment that has to end in a status an earlier one of its task
   has (a second expiry, failure or completion) violates the uniqueness of
   `(task, status)`; every later schedule and state request of the mission
   fails.
2. `Undone`: two desktops discover the same assignment; the one whose accept is
   refused reports a failure, which ends the other one's assignment and turns
   the task it completed into a failed one (`worker-coordinator.js:317`,
   `task_runtime/routes.py:723`).
3. `Refused`: after any runtime event, pause, resume, start and cancel are
   refused by the uniqueness of event numbers until the version has caught up.
   A mission that was created with its plan has three events at version 1 and
   refuses commands from the start.
4. `Rejection`: a vote that does not approve numbers its event with the
   mission's present version, which the event of the plan has, so a plan cannot
   be rejected (`approvals/routes.py:123`).
5. `Swept`: a job that was started more than ten minutes ago is failed for want
   of progress although it reports progress (`agent_jobs.py:183`).

More that were met and have no run: an assignment accepted too late keeps
its reservations (`Leaked` above); a retried task, or one leased through the
kernel, may run before its dependencies are complete; with an organization, a
write-sensitive task whose owner is busy goes to a worker without
implementation authority (`scheduler.py:344`); the kernel makes missions ready
without an approval (`runtime_kernel/routes.py:638`), and its pause is
overwritten by a compilation under way; an approval of an earlier plan approves
a newer one (`planning/service.py:520`); a compilation that fails as often as it
is tried leaves its mission compiling (`workers/outbox.py:66`); a cancel that
looked before it overwrites a job's result (`agent_jobs.py:279`); a desktop told
to stop may start a second run of an assignment from a stale answer
(`worker-coordinator.js:195`).

## 6. Not modelled, and the plan

Planned, in this order:

1. `ScheduleRace`: two schedule, claim or outbox requests as transactions that
   read and write step by step, on two tasks. Their races (two claims that both
   insert a lease, a schedule that overwrites a cancel) are listed as hazards
   without a property.

Left out for good. Most of the repository is not a protocol: of the 91 thousand
lines, the larger part creates, ranks and reads records (knowledge, memory,
governance, identity, deployment, telemetry, collaboration), turns text into
plans by heuristics (compiler, planning scores, intelligence), calls models and
providers, or draws the user interface. Their functions have no state that
outlives a request other than the row they write, and no second actor whose
step could come between; a specification would restate their assignments. Also
left out are the trimming and refusing of malformed paths (`Pattern` is what they
let through), idempotency keys and budgets (one lookup and one insert in one transaction),
and the files, processes and repositories on the user's machine beyond what the
executor's stages say of them.

----------------------------- MODULE TaskRuntime -----------------------------
(***************************************************************************)
(* The task runtime of one mission: the dispatcher that releases tasks as  *)
(* their dependencies complete, the scheduler that assigns ready tasks to  *)
(* workers and reserves the repository paths they write, the assignment    *)
(* endpoints a worker calls, the desktop leases under which a task is      *)
(* executed, and the operator's commands on tasks and on the mission.      *)
(*                                                                         *)
(* A step is one HTTP request, that is one database transaction, run to    *)
(* its commit.  A request that is refused, or whose commit the database    *)
(* refuses, changes nothing and is not a step.                             *)
(*                                                                         *)
(* Time is abstracted to the one thing the code asks of it: whether the    *)
(* expires_at of an assignment or of a lease has passed.  It may pass at   *)
(* any moment at which it is not refreshed.                                *)
(***************************************************************************)
EXTENDS Integers, FiniteSets, MissionCommands, PathPolicy

CONSTANTS
  Task,          \* the tasks; their numbers are the order (created_at, id)
  Deps,          \* the tasks each task depends on
  Class,         \* the execution class of each task
  Paths,         \* the path patterns each task's contract names
  Worker,        \* the mission's runtime workers
  CanImplement,  \* the workers with implementation authority
  Staffed,       \* the workers stand for members of an organization
  Limit,         \* the scheduler limits: "total" and one per class
  MaxAttempt,    \* bound: assignments of one task
  MaxLease,      \* bound: leases of one task
  Commands,      \* bound: the commands the operator gives on the mission
  LateRelease,   \* a client releases assignments that are no longer active
  NoWorker

ExecutionClass ==
  {"read_only", "write_sensitive", "verification", "integration", "review"}

ASSUME TaskAssumption == Task \subseteq Nat /\ IsFiniteSet(Task)
ASSUME DepsAssumption == Deps \in [Task -> SUBSET Task]
ASSUME ClassAssumption == Class \in [Task -> ExecutionClass]
\* A task with a path that normalisation refuses is never assigned, and left out.
ASSUME PathsAssumption == Paths \in [Task -> SUBSET Pattern]
ASSUME WorkerAssumption == NoWorker \notin Worker /\ CanImplement \subseteq Worker
ASSUME FlagAssumption == Staffed \in BOOLEAN /\ LateRelease \in BOOLEAN
ASSUME LimitAssumption == Limit \in [ExecutionClass \cup {"total"} -> Nat]
ASSUME BoundAssumption ==
  /\ MaxAttempt \in Nat /\ MaxLease \in Nat
  /\ Commands \subseteq DOMAIN Transition \ {"compile"}  \* which leads to other tasks

Assignment == Task \X (1 .. MaxAttempt)   \* the rows a task's assignments take
Lease == Task \X (1 .. MaxLease)          \* the rows its leases take

TaskStatus ==
  {"pending", "ready", "running", "blocked", "completed", "failed", "cancelled"}
AssignmentStatus ==
  {"absent", "assigned", "accepted", "released", "completed", "failed", "expired"}
WorkerStatus == {"idle", "reserved", "busy"}
LeaseStatus == {"absent", "live", "lapsed", "released", "expired"}

Active == {"assigned", "accepted"}                \* "running" is never written
Terminal == {"completed", "failed", "cancelled"}  \* of tasks

VARIABLES
  mission,   \* the status of the mission
  task,      \* the status of each task
  owner,     \* the member each task belongs to, named by its worker
  status,    \* the status of each assignment; "absent": no such row yet
  assignee,  \* the worker of each assignment
  lapsed,    \* the active assignments whose lease_expires_at has passed
  held,      \* the assignments whose path reservations are active
  worker,    \* the status of each worker
  lease      \* the leases; "lapsed": still "active" in its row, but expired

vars == <<mission, task, owner, status, assignee, lapsed, held, worker, lease>>

\* The paths the scheduler reserves for a task: only write-sensitive ones do.
Reserved(t) == IF Class[t] = "write_sensitive" THEN Paths[t] ELSE {}

\* Two tasks whose write reservations overlap.
Overlapping ==
  {e \in Task \X Task :
    \E p \in Reserved(e[1]), q \in Reserved(e[2]) : PatternsOverlap(p, q)}
Conflict(t, u) == <<t, u>> \in Overlapping

-----------------------------------------------------------------------------
(***************************************************************************)
(* Inside a transaction.  Rows are the rows a request reads and rewrites   *)
(* several times before it commits; an operator that ends in ...ed is one  *)
(* pass over them.                                                         *)
(***************************************************************************)
Rows == [mission |-> mission, task |-> task, status |-> status,
         held |-> held, worker |-> worker, lease |-> lease]

ActiveOf(s) == {a \in Assignment : s.status[a] \in Active}

\* uq_arceus_mission_task_assignment_task_status: one row per task and status.
UniqueTaskStatus(s) ==
  \A t \in Task : \A j, k \in 1 .. MaxAttempt :
    j < k /\ s.status[<<t, j>>] # "absent" => s.status[<<t, j>>] # s.status[<<t, k>>]

\* The transaction commits, or breaks the constraint and is rolled back.
Commit(s) ==
  /\ UniqueTaskStatus(s)
  /\ mission' = s.mission
  /\ task' = s.task
  /\ status' = s.status
  /\ lapsed' = lapsed \cap ActiveOf(s)
  /\ held' = s.held
  /\ worker' = s.worker
  /\ lease' = s.lease

\* Slip: only workers that have not started yet are freed.
IdledIfReserved(s, ended) ==
  [w \in Worker |-> IF s.worker[w] = "reserved" /\ \E a \in ended : assignee[a] = w
                    THEN "idle" ELSE s.worker[w]]

\* The workers of the given assignments become idle.
Idled(s, ended) ==
  [w \in Worker |-> IF \E a \in ended : assignee[a] = w
                    THEN "idle" ELSE s.worker[w]]

\* Slip: the task of an overdue lease is not put back.
LeasesExpiredAlone(s) ==
  [s EXCEPT !.lease = [l \in Lease |->
    IF s.lease[l] = "lapsed" THEN "expired" ELSE s.lease[l]]]

\* Overdue leases end, and their tasks, if running, wait to be run again.
LeasesExpired(s) ==
  [s EXCEPT
    !.task = [t \in Task |->
      IF s.task[t] = "running" /\ \E l \in Lease : l[1] = t /\ s.lease[l] = "lapsed"
      THEN "ready" ELSE s.task[t]],
    !.lease = [l \in Lease |->
      IF s.lease[l] = "lapsed" THEN "expired" ELSE s.lease[l]]]

\* What a task waits for decides whether it is blocked or may start.
Doomed(s, t) == \E d \in Deps[t] : s.task[d] \in {"failed", "cancelled"}

\* Slip: a dependency that is still running counts.
SuppliedSoon(s, t) == \A d \in Deps[t] : s.task[d] \in {"completed", "running"}

Supplied(s, t) == \A d \in Deps[t] : s.task[d] = "completed"

\* Slip: only blocked tasks are released.
BlockedReleased(s) ==
  [s EXCEPT !.task = [t \in Task |->
    IF Doomed(s, t) /\ s.task[t] \in {"pending", "ready", "blocked"} THEN "blocked"
    ELSE IF Supplied(s, t) /\ s.task[t] = "blocked" THEN "ready"
    ELSE s.task[t]]]

DependenciesReleased(s) ==
  [s EXCEPT !.task = [t \in Task |->
    IF Doomed(s, t) /\ s.task[t] \in {"pending", "ready", "blocked"} THEN "blocked"
    ELSE IF Supplied(s, t) /\ s.task[t] \in {"pending", "blocked"} THEN "ready"
    ELSE s.task[t]]]

\* The verdict on the mission, from the statuses of its tasks.
MissionUpdated(s) ==
  LET all == {s.task[t] : t \in Task} IN
  [s EXCEPT !.mission =
    CASE "failed" \in all -> "failed"
      [] Task # {} /\ all \subseteq {"completed", "cancelled"} -> "completed"
      [] "blocked" \in all /\ all \subseteq Terminal \cup {"blocked"} -> "blocked"
      [] OTHER -> s.mission]

\* Slip: only a mission that runs is looked at.
DispatchedIfRunning(s) ==
  IF s.mission # "running" THEN s
  ELSE MissionUpdated(DependenciesReleased(LeasesExpired(s)))

Dispatched(s) ==
  IF s.mission \in {"paused", "cancelled"} THEN s
  ELSE MissionUpdated(DependenciesReleased(LeasesExpired(s)))

\* Slip: whatever does not run gives back its paths.
IdlePathsReleased(s) ==
  LET ended == {a \in ActiveOf(s) : s.task[a[1]] \in Terminal} IN
  [s EXCEPT
    !.status = [a \in Assignment |->
      IF a \notin ended THEN s.status[a]
      ELSE IF s.task[a[1]] = "completed" THEN "completed" ELSE "failed"],
    !.worker = Idled(s, ended),
    !.held = {a \in s.held : s.task[a[1]] = "running"}]

\* Tasks that ended give back their assignment, its worker and its paths.
TerminalReleased(s) ==
  LET ended == {a \in ActiveOf(s) : s.task[a[1]] \in Terminal} IN
  [s EXCEPT
    !.status = [a \in Assignment |->
      IF a \notin ended THEN s.status[a]
      ELSE IF s.task[a[1]] = "completed" THEN "completed" ELSE "failed"],
    !.worker = Idled(s, ended),
    !.held = {a \in s.held : s.task[a[1]] \notin Terminal}]

\* Slip: an assignment that was accepted is never overdue.
UnacceptedExpired(s) ==
  LET stale == {a \in lapsed : s.status[a] = "assigned"} IN
  [s EXCEPT
    !.status = [a \in Assignment |-> IF a \in stale THEN "expired" ELSE s.status[a]],
    !.worker = Idled(s, stale),
    !.held = s.held \ stale]

\* Slip: the expiry is not compared with the time.
AllExpired(s) ==
  LET stale == ActiveOf(s) IN
  [s EXCEPT
    !.status = [a \in Assignment |-> IF a \in stale THEN "expired" ELSE s.status[a]],
    !.task = [t \in Task |->
      IF s.task[t] = "running" /\ \E a \in stale : a[1] = t THEN "ready" ELSE s.task[t]],
    !.worker = Idled(s, stale),
    !.held = s.held \ stale]

\* Overdue assignments expire; their tasks, if running, wait to be run again.
StaleExpired(s) ==
  LET stale == ActiveOf(s) \cap lapsed IN
  [s EXCEPT
    !.status = [a \in Assignment |-> IF a \in stale THEN "expired" ELSE s.status[a]],
    !.task = [t \in Task |->
      IF s.task[t] = "running" /\ \E a \in stale : a[1] = t THEN "ready" ELSE s.task[t]],
    !.worker = Idled(s, stale),
    !.held = s.held \ stale]

Swept(s) == StaleExpired(TerminalReleased(Dispatched(s)))

-----------------------------------------------------------------------------
(***************************************************************************)
(* The scheduling loop.  It goes through the ready tasks in order and      *)
(* grants each what is still free after the grants before it.              *)
(***************************************************************************)
Candidate(s) ==
  {t \in Task : /\ s.task[t] = "ready"
                /\ \A l \in Lease : l[1] = t => s.lease[l] # "live"
                /\ \A a \in ActiveOf(s) : a[1] # t}

\* Slip: what the loop grants does not use up capacity.
CapacityAtStart(s, granted, t) ==
  LET used(T) == Cardinality({a \in ActiveOf(s) : a[1] \in T})
  IN /\ used(Task) < Limit["total"]
     /\ used({u \in Task : Class[u] = Class[t]}) < Limit[Class[t]]

\* granted: the tasks the loop has already granted something.
CapacityAllows(s, granted, t) ==
  LET used(T) == Cardinality({a \in ActiveOf(s) : a[1] \in T})
                   + Cardinality(granted \cap T)
  IN /\ used(Task) < Limit["total"]
     /\ used({u \in Task : Class[u] = Class[t]}) < Limit[Class[t]]

\* Slip: reservations of ended assignments do not count.
PathsFreeOfActive(s, granted, t) ==
  /\ \A a \in s.held \cap ActiveOf(s) : ~ Conflict(a[1], t)
  /\ \A u \in granted : ~ Conflict(u, t)

PathsFree(s, granted, t) ==
  /\ \A a \in s.held : ~ Conflict(a[1], t)
  /\ \A u \in granted : ~ Conflict(u, t)

\* Slip: authority is not asked for.
AnyWorker(idle, t) ==
  LET mine == {w \in idle : owner[t] \in {NoWorker, w}}
  IN IF mine # {} THEN mine ELSE idle \ mine

\* The best of the idle workers.  A worker that may take the task scores above
\* zero; one that is not the task's owner scores -100, whatever its authority,
\* and is still chosen when nobody scores better.
BestWorker(idle, t) ==
  LET mine  == {w \in idle : owner[t] \in {NoWorker, w}}
      fit   == {w \in mine : Class[t] = "write_sensitive" => w \in CanImplement}
  IN IF fit # {} THEN fit ELSE idle \ mine

\* Slip: a worker stays in the loop's list as idle after it got a task.
IsPlanOfStaleWorkers(s, max, G, who) ==
  LET Earlier(t) == {g \in G : g < t}
      Idle == {w \in Worker : s.worker[w] = "idle"}
  IN /\ \A t \in Candidate(s) :
          t \in G <=> /\ Cardinality(Earlier(t)) < max
                      /\ CapacityAllows(s, Earlier(t), t)
                      /\ PathsFree(s, Earlier(t), t)
                      /\ BestWorker(Idle, t) # {}
     /\ \A t \in G : who[t] \in BestWorker(Idle, t)

\* The grants G, each to worker who[t], are what the loop makes of the rows s.
IsPlan(s, max, G, who) ==
  LET Earlier(t) == {g \in G : g < t}
      Idle(t) == {w \in Worker : s.worker[w] = "idle"} \ {who[g] : g \in Earlier(t)}
  IN /\ \A t \in Candidate(s) :
          t \in G <=> /\ Cardinality(Earlier(t)) < max
                      /\ CapacityAllows(s, Earlier(t), t)
                      /\ PathsFree(s, Earlier(t), t)
                      /\ BestWorker(Idle(t), t) # {}
     /\ \A t \in G : who[t] \in BestWorker(Idle(t), t)

HasRow(s, t) == \E k \in 1 .. MaxAttempt : s.status[<<t, k>>] = "absent"
NewRow(s, t) == <<t, CHOOSE k \in 1 .. MaxAttempt : s.status[<<t, k>>] = "absent">>

\* The rows s with the assignments of G added.
Granted(s, G, who) ==
  LET new == {NewRow(s, t) : t \in G} IN
  [s EXCEPT
    !.status = [a \in Assignment |-> IF a \in new THEN "assigned" ELSE s.status[a]],
    !.held = s.held \cup {a \in new : Reserved(a[1]) # {}},
    !.worker = [w \in Worker |-> IF \E t \in G : who[t] = w
                                 THEN "reserved" ELSE s.worker[w]]]

\* The loop runs on the rows s and the transaction commits.
Granting(s, max) ==
  \E G \in SUBSET Candidate(s) : \E who \in [G -> Worker] :
    /\ IsPlan(s, max, G, who)
    /\ \A t \in G : HasRow(s, t)
    /\ Commit(Granted(s, G, who))
    /\ assignee' = [a \in Assignment |->
                      IF a \in {NewRow(s, t) : t \in G} THEN who[a[1]] ELSE assignee[a]]
    /\ owner' = [t \in Task |-> IF Staffed /\ t \in G THEN who[t] ELSE owner[t]]

\* The scheduler runs on the rows s: first the passes of Swept, one value after
\* the other, then the loop.
ScheduleFrom(s, max) ==
  \E s1 \in {Dispatched(s)} : \E s2 \in {TerminalReleased(s1)} :
    \E s3 \in {StaleExpired(s2)} : Granting(s3, max)

-----------------------------------------------------------------------------
\* A planned mission that was approved: what depends on nothing is ready, and
\* with an organization every task has an owner.
Init ==
  /\ mission \in {"ready", "running"}
  /\ task = [t \in Task |-> IF Deps[t] = {} THEN "ready" ELSE "pending"]
  /\ owner \in [Task -> IF Staffed THEN Worker ELSE {NoWorker}]
  /\ status = [a \in Assignment |-> "absent"]
  /\ assignee = [a \in Assignment |-> NoWorker]
  /\ lapsed = {}
  /\ held = {}
  /\ worker = [w \in Worker |-> "idle"]
  /\ lease = [l \in Lease |-> "absent"]

(***************************************************************************)
(* Requests that run the dispatcher or the scheduler.                      *)
(***************************************************************************)
Dispatch ==
  /\ Commit(Dispatched(Rows))
  /\ UNCHANGED <<owner, assignee>>

\* POST schedule assigns up to four tasks, GET state runs the same code for none.
Schedule == ScheduleFrom(Rows, 4)
GetState == ScheduleFrom(Rows, 0)

(***************************************************************************)
(* What a worker reports on an assignment.                                 *)
(***************************************************************************)
\* Slip: the status is not checked.
AcceptAgain(a) ==
  /\ status[a] # "absent"
  /\ a \notin lapsed
  /\ Commit([Rows EXCEPT !.status[a] = "accepted", !.worker[assignee[a]] = "busy"])
  /\ UNCHANGED <<owner, assignee>>

Accept(a) ==
  /\ status[a] = "assigned"
  /\ a \notin lapsed
  /\ Commit([Rows EXCEPT !.status[a] = "accepted", !.worker[assignee[a]] = "busy"])
  /\ UNCHANGED <<owner, assignee>>

\* Accepting too late ends the assignment; its reservations stay as they are.
AcceptLate(a) ==
  /\ status[a] = "assigned"
  /\ a \in lapsed
  /\ Commit([Rows EXCEPT !.status[a] = "expired", !.worker[assignee[a]] = "idle"])
  /\ UNCHANGED <<owner, assignee>>

\* A heartbeat moves the expiry, also one that has already passed.
Heartbeat(a) ==
  /\ status[a] \in Active
  /\ lapsed' = lapsed \ {a}
  /\ UNCHANGED <<mission, task, owner, status, assignee, held, worker, lease>>

\* The rows once assignment a has ended in the status st.
Ended(a, st) ==
  [Rows EXCEPT !.status[a] = st, !.worker[assignee[a]] = "idle", !.held = held \ {a}]

\* The handler looks neither at whether the assignment is active nor at what
\* its worker does by now.
Release(a, st) ==
  /\ status[a] \notin {"absent", st}
  /\ LateRelease \/ status[a] \in Active
  /\ Commit(Ended(a, st))
  /\ UNCHANGED <<owner, assignee>>

\* The task status a completion carries is "completed"; the desktop sends no other.
CompleteAssignment(a) ==
  /\ status[a] \in Active
  /\ ScheduleFrom([Ended(a, "completed") EXCEPT
                     !.task[a[1]] = IF @ = "running" THEN "completed" ELSE @], 4)

\* Whatever the task's status is, a failed assignment overwrites it.
FailAssignment(a, retryable) ==
  /\ status[a] \in Active
  /\ ScheduleFrom([Ended(a, "failed") EXCEPT
                     !.task[a[1]] = IF retryable THEN "ready" ELSE "failed"], 4)

(***************************************************************************)
(* What a desktop session does with a task.                                *)
(***************************************************************************)
\* Slip: a lease that is still live does not prevent another.
ClaimBeside(l) ==
  /\ mission \in {"ready", "running"}
  /\ task[l[1]] = "ready"
  /\ lease[l] = "absent"
  /\ \A m \in Lease : m[1] = l[1] /\ m[2] < l[2] => lease[m] # "absent"
  /\ Commit([Rows EXCEPT !.lease[l] = "live", !.task[l[1]] = "running",
                         !.mission = "running"])
  /\ UNCHANGED <<owner, assignee>>

\* The claim asks for no assignment.
Claim(l) ==
  /\ mission \in {"ready", "running"}
  /\ task[l[1]] = "ready"
  /\ \A m \in Lease : m[1] = l[1] => lease[m] # "live"
  /\ lease[l] = "absent"
  /\ \A m \in Lease : m[1] = l[1] /\ m[2] < l[2] => lease[m] # "absent"
  /\ Commit([Rows EXCEPT !.lease[l] = "live", !.task[l[1]] = "running",
                         !.mission = "running"])
  /\ UNCHANGED <<owner, assignee>>

\* Renewing needs a lease that has not expired, and only moves its expiry: it
\* is no step of its own, it is what keeps LapseLease from being taken.

CompleteTask(l, result) ==
  /\ lease[l] = "live"
  /\ task[l[1]] = "running"
  /\ Commit(Dispatched([Rows EXCEPT !.task[l[1]] = result, !.lease[l] = "released"]))
  /\ UNCHANGED <<owner, assignee>>

(***************************************************************************)
(* The operator's commands.                                                *)
(***************************************************************************)
Retry(t) ==
  /\ task[t] \in {"failed", "blocked", "cancelled"}
  /\ task' = [task EXCEPT ![t] = "ready"]
  /\ UNCHANGED <<mission, owner, status, assignee, lapsed, held, worker, lease>>

\* Slip: a status of its own for skipped tasks.
SkipAsSkipped(t) ==
  /\ task[t] \notin {"running", "completed"}
  /\ task' = [task EXCEPT ![t] = "skipped"]
  /\ UNCHANGED <<mission, owner, status, assignee, lapsed, held, worker, lease>>

Skip(t) ==
  /\ task[t] \notin {"running", "completed"}
  /\ task' = [task EXCEPT ![t] = "cancelled"]
  /\ UNCHANGED <<mission, owner, status, assignee, lapsed, held, worker, lease>>

\* The command changes the mission alone: its tasks, leases and assignments
\* are left to whoever looks at the mission's status next.
TransitionMission(command) ==
  /\ mission \in Transition[command].from
  /\ mission' = Transition[command].to
  /\ UNCHANGED <<task, owner, status, assignee, lapsed, held, worker, lease>>

(***************************************************************************)
(* Time.                                                                   *)
(***************************************************************************)
LapseAssignment(a) ==
  /\ status[a] \in Active
  /\ lapsed' = lapsed \cup {a}
  /\ UNCHANGED <<mission, task, owner, status, assignee, held, worker, lease>>

LapseLease(l) ==
  /\ lease[l] = "live"
  /\ lease' = [lease EXCEPT ![l] = "lapsed"]
  /\ UNCHANGED <<mission, task, owner, status, assignee, lapsed, held, worker>>

-----------------------------------------------------------------------------
Next ==
  \/ Dispatch
  \/ Schedule
  \/ GetState
  \/ \E a \in Assignment :
       \/ Accept(a)
       \/ AcceptLate(a)
       \/ Heartbeat(a)
       \/ \E st \in {"released", "completed", "failed"} : Release(a, st)
       \/ CompleteAssignment(a)
       \/ \E retryable \in BOOLEAN : FailAssignment(a, retryable)
       \/ LapseAssignment(a)
  \/ \E l \in Lease :
       \/ Claim(l)
       \/ \E result \in {"completed", "failed"} : CompleteTask(l, result)
       \/ LapseLease(l)
  \/ \E t \in Task : Retry(t) \/ Skip(t)
  \/ \E command \in Commands : TransitionMission(command)

Spec == Init /\ [][Next]_vars

\* Nothing in the program runs the dispatcher or the scheduler by itself: they
\* run when a request asks for them.  FairSpec is for a mission that is watched,
\* whose watcher keeps requesting its dispatch and its state.
FairSpec == Spec /\ WF_vars(Dispatch) /\ WF_vars(GetState)

-----------------------------------------------------------------------------
(***************************************************************************)
(* What makes it correct.                                                  *)
(***************************************************************************)
\* Every variable has its type.
TypeOK ==
  /\ mission \in MissionStatus
  /\ task \in [Task -> TaskStatus]
  /\ owner \in [Task -> Worker \cup {NoWorker}]
  /\ status \in [Assignment -> AssignmentStatus]
  /\ assignee \in [Assignment -> Worker \cup {NoWorker}]
  /\ lapsed \subseteq Assignment
  /\ held \subseteq Assignment
  /\ worker \in [Worker -> WorkerStatus]
  /\ lease \in [Lease -> LeaseStatus]

\* A task is never assigned twice at a time, however schedules, late reports,
\* expiries and retries follow each other.
OneActiveAssignment ==
  \A a, b \in Assignment :
    status[a] \in Active /\ status[b] \in Active /\ a[1] = b[1] => a = b

\* No file of the repository lies within two active reservations, leftovers of
\* ended assignments included, however their patterns are written and whatever
\* their wildcards match.
ReservationsDisjoint ==
  LET covers(a, f) == \E p \in Reserved(a[1]) : Covers(p, f)
  IN \A a, b \in held, f \in File : covers(a, f) /\ covers(b, f) => a = b

\* An active assignment still holds every path it may write: nothing that
\* happens to its task, its worker or its mission takes them away before it
\* ends.
WritersHoldPaths ==
  \A a \in Assignment :
    status[a] \in Active /\ Reserved(a[1]) # {} => a \in held

\* A task has at most one lease that can still complete it.
OneLiveLease ==
  \A l, m \in Lease : lease[l] = "live" /\ lease[m] = "live" /\ l[1] = m[1] => l = m

\* A running task has a lease the dispatcher will still find, live or overdue:
\* no order of completions, expiries and retries strands it in "running".
RunningHasLease ==
  \A t \in Task : task[t] = "running" =>
    \E l \in Lease : l[1] = t /\ lease[l] \in {"live", "lapsed"}

\* A worker that is not idle has an active assignment that will free it.
NoWorkerLeak ==
  \A w \in Worker : worker[w] # "idle" =>
    \E a \in Assignment : status[a] \in Active /\ assignee[a] = w

\* A worker has one assignment at a time, and is not idle while it has one.
WorkerSerial ==
  /\ \A a, b \in Assignment :
       status[a] \in Active /\ status[b] \in Active /\ assignee[a] = assignee[b] => a = b
  /\ \A a \in Assignment : status[a] \in Active => worker[assignee[a]] # "idle"

\* The scheduler's limits hold, in all and for each execution class.
WithinLimits ==
  LET active(T) == Cardinality({a \in Assignment : status[a] \in Active /\ a[1] \in T})
  IN /\ active(Task) <= Limit["total"]
     /\ \A c \in ExecutionClass : active({t \in Task : Class[t] = c}) <= Limit[c]

\* A running task goes back to "ready" for a reason: a lease or an assignment
\* of it was overdue, or its worker reported a failure.
NoSpuriousRequeue ==
  [][\A t \in Task : task[t] = "running" /\ task'[t] = "ready" =>
       \/ \E l \in Lease : l[1] = t /\ lease[l] = "lapsed"
       \/ \E a \in Assignment : a[1] = t /\ (a \in lapsed \/ status'[a] = "failed")]_vars

\* The dispatcher and the scheduler start nothing too early: a task that was
\* pending becomes ready only once everything it depends on is completed.
PendingWaits ==
  [][\A t \in Task : task[t] = "pending" /\ task'[t] = "ready" =>
       \A d \in Deps[t] : task'[d] = "completed"]_vars

-----------------------------------------------------------------------------
(***************************************************************************)
(* The promise of exclusive grants, kept for three kinds of grants.        *)
(***************************************************************************)
SameTask(S) == {p \in S \X S : p[1][1] = p[2][1]}

\* The leases of a task that are live.
LiveLeases == INSTANCE ExclusiveGrants WITH
  Grant <- Lease, Clash <- SameTask(Lease),
  current <- {l \in Lease : lease[l] = "live"},
  past <- {l \in Lease : lease[l] \notin {"absent", "live"}}

\* The assignments of a task that are active.
ActiveAssignments == INSTANCE ExclusiveGrants WITH
  Grant <- Assignment, Clash <- SameTask(Assignment),
  current <- {a \in Assignment : status[a] \in Active},
  past <- {a \in Assignment : status[a] \notin Active \cup {"absent"}}

\* The reservations of the write-sensitive assignments.
Writing == {a \in Assignment : Reserved(a[1]) # {}}
HeldPaths == INSTANCE ExclusiveGrants WITH
  Grant <- Writing, Clash <- {p \in Writing \X Writing : Conflict(p[1][1], p[2][1])},
  current <- held,
  past <- {a \in Writing : status[a] # "absent" /\ a \notin held}

\* A lease that is over, by its result or by time, never again admits a result,
\* and no second one is live beside the one that does.
LeasesAreExclusive == LiveLeases!Spec

\* An assignment that ended stays ended, and none is made beside an active one.
AssignmentsAreExclusive == ActiveAssignments!Spec

\* Reservations are taken whole, by new assignments, from what nobody holds.
ReservationsAreExclusive == HeldPaths!Spec

-----------------------------------------------------------------------------
(***************************************************************************)
(* What must eventually happen, while the mission is watched.              *)
(***************************************************************************)
Stopped == mission \in {"paused", "cancelled"}

\* The state in which no schedule can commit: an overdue or ended assignment
\* would take a status that an earlier one of its task already has.
Wedged == ~ UniqueTaskStatus(Swept(Rows))

\* An overdue lease ends, unless the mission is stopped meanwhile.
OverdueLeaseEnds ==
  \A l \in Lease : lease[l] = "lapsed" ~> (lease[l] # "lapsed" \/ Stopped)

\* A task whose dependencies are completed does not stay pending, unless the
\* mission is stopped meanwhile or one of them is failed after the fact.
SuppliedTaskIsReleased ==
  \A t \in Task :
    (task[t] = "pending" /\ Supplied(Rows, t))
      ~> (task[t] # "pending" \/ Stopped \/ ~ Supplied(Rows, t))

-----------------------------------------------------------------------------
(***************************************************************************)
(* What the repository says of the program and the code does not do, or    *)
(* does only where nothing is lost, shared or retried.  Runs that check    *)
(* the first end in a counterexample; the proofs say what the others need. *)
(***************************************************************************)
\* Only active assignments hold paths.
PathsReleasedWithAssignment == \A a \in held : status[a] \in Active

\* An overdue assignment of a watched mission is recovered.
OverdueAssignmentRecovered == \A a \in Assignment : a \in lapsed ~> a \notin lapsed

\* A completed task is not started over: it can be neither retried nor skipped.
CompletedIsFinal ==
  [][\A t \in Task : task[t] = "completed" => task'[t] = "completed"]_vars

\* A task runs only after everything it depends on is completed.
RunsAfterDependencies ==
  \A t \in Task : task[t] = "running" => \A d \in Deps[t] : task[d] = "completed"

\* Write-sensitive tasks go to workers with implementation authority.
WritersMayImplement ==
  \A a \in Assignment :
    status[a] \in Active /\ Class[a[1]] = "write_sensitive" => assignee[a] \in CanImplement
=============================================================================

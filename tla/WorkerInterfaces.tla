-------------------------- MODULE WorkerInterfaces --------------------------
(***************************************************************************)
(* Three interfaces hand the same tasks to workers and write the same      *)
(* rows: the desktop leases of TaskRuntime, the execution runtime for      *)
(* headless workers, and the runtime kernel.  Each has its own idea of     *)
(* when a task may be leased, and of what ends a lease.                    *)
(*                                                                         *)
(* The execution runtime runs a task within one request (RunNext), or      *)
(* gives a worker a lease that it keeps alive and reports under.  A lease  *)
(* of the kernel is kept and reported through the execution runtime too:   *)
(* the kernel itself only records checkpoints under it.                    *)
(***************************************************************************)
EXTENDS TaskRuntime

CONSTANTS
  Budget,  \* max_attempts of the retry policy
  Named    \* the dependencies that a task's input contract names

ASSUME BudgetAssumption == Budget \in Nat

\* A mission that the kernel made names them all, one that was planned none.
ASSUME NamedAssumption == Named \in [Task -> SUBSET Task] /\ \A t \in Task : Named[t] \subseteq Deps[t]

VARIABLES
  byWorker,  \* the leases given out by the execution runtime and the kernel
  attempts   \* attempts of each task, counted up to the budget

interfaces == <<byWorker, attempts>>

\* A lease whose row says "active"; its expiry may have passed.
Unfinished == {l \in Lease : lease[l] \in {"live", "lapsed"}}

-----------------------------------------------------------------------------
(***************************************************************************)
(* The execution runtime.                                                  *)
(***************************************************************************)
\* Overdue leases end; a task that runs is put back while its budget lasts.
LeasesExpiredInBudget(s) ==
  [LeasesExpired(s) EXCEPT !.task =
    [t \in Task |-> IF @[t] # s.task[t] /\ attempts[t] >= Budget THEN "failed" ELSE @[t]]]

MissionCompleted(s) ==
  [s EXCEPT !.mission =
    IF Task # {} /\ \A t \in Task : s.task[t] = "completed" THEN "completed" ELSE @]

Scheduled(s) == MissionCompleted(LeasesExpiredInBudget(s))

ScheduleMission ==
  /\ mission = "running"
  /\ Commit(Scheduled(Rows))
  /\ UNCHANGED <<owner, assignee, byWorker, attempts>>

IsNewLease(l) ==
  /\ lease[l] = "absent"
  /\ \A m \in Lease : m[1] = l[1] /\ m[2] < l[2] => lease[m] # "absent"

LeaseGiven(l) ==
  /\ Commit([Rows EXCEPT !.lease[l] = "live", !.task[l[1]] = "running",
                         !.mission = "running"])
  /\ byWorker' = byWorker \cup {l}
  /\ UNCHANGED <<owner, assignee, attempts>>

Acquire(l) ==
  /\ mission = "running"
  /\ task[l[1]] = "ready" /\ Supplied(Rows, l[1])
  /\ \A m \in Lease : m[1] = l[1] => lease[m] # "live"
  /\ IsNewLease(l)
  /\ LeaseGiven(l)

\* Also a lease whose expiry has passed is kept, as long as nobody ended it.
KeepLease(l) ==
  /\ l \in byWorker \cap Unfinished
  /\ lease' = [lease EXCEPT ![l] = "live"]
  /\ UNCHANGED <<mission, task, owner, status, assignee, lapsed, held, worker, interfaces>>

\* Slip: a lease that is over still admits a report.
ReportLate(l, result) ==
  /\ l \in byWorker /\ lease[l] # "absent"
  /\ Commit([Rows EXCEPT !.task[l[1]] = result, !.lease[l] = "released"])
  /\ UNCHANGED <<owner, assignee, interfaces>>

\* The task takes the result whatever its status is, and nobody dispatches.
Report(l, result) ==
  /\ l \in byWorker \cap Unfinished
  /\ Commit([Rows EXCEPT !.task[l[1]] = result, !.lease[l] = "released"])
  /\ UNCHANGED <<owner, assignee, interfaces>>

Dependents(t) == {u \in Task : t \in Deps[u]}

\* The rows after task t got its result, and its dependents what follows from it.
Concluded(s, t, result) ==
  [s EXCEPT !.task = [u \in Task |->
    CASE u = t -> result
      [] /\ u \in Dependents(t) \ {t} /\ result = "completed"
         /\ s.task[u] \in {"pending", "blocked"}
         /\ \A d \in Deps[u] \ {t} : s.task[d] = "completed" -> "ready"
      [] /\ u \in Dependents(t) \ {t} /\ result = "failed"
         /\ s.task[u] \in {"pending", "ready"} -> "blocked"
      [] OTHER -> s.task[u]]]

\* An attempt is recorded by the request that runs a task, and by the report of a
\* desktop; a worker's lease leaves none.
Tried(t) == IF attempts[t] < Budget THEN attempts[t] + 1 ELSE Budget

\* A ready task is leased, executed and reported within one transaction; its
\* lease is over before anybody sees it.  A failure worth retrying is put back
\* while the budget lasts, the attempt just made included.
RunNext(t, result) ==
  LET again == result = "retryable" /\ Tried(t) < Budget
      final == IF result = "retryable" THEN "failed" ELSE result
  IN /\ mission = "running"
     /\ \E s \in {Scheduled(Rows)} :
          /\ s.mission = "running"
          /\ s.task[t] = "ready" /\ Supplied(s, t)
          /\ \A l \in Lease : l[1] = t => s.lease[l] \notin {"live", "lapsed"}
          /\ Commit(IF again THEN s ELSE Concluded(s, t, final))
     /\ attempts' = [attempts EXCEPT ![t] = Tried(t)]
     /\ UNCHANGED <<owner, assignee, byWorker>>

-----------------------------------------------------------------------------
(***************************************************************************)
(* The runtime kernel.                                                     *)
(***************************************************************************)
\* Slip: a task that runs may be leased again.
KernelLeaseOfRunning(l) ==
  /\ mission \in {"ready", "running"}
  /\ task[l[1]] \in {"ready", "running"}
  /\ IsNewLease(l)
  /\ LeaseGiven(l)

\* Neither the dependencies nor other leases of the task are looked at.
KernelLease(l) ==
  /\ mission \in {"ready", "running"}
  /\ task[l[1]] = "ready"
  /\ IsNewLease(l)
  /\ LeaseGiven(l)

LeasesReleased(s, T) ==
  [s EXCEPT !.lease = [l \in Lease |->
    IF l[1] \in T /\ s.lease[l] \in {"live", "lapsed"} THEN "released" ELSE s.lease[l]]]

\* Slip: the leases are left alone.
KernelCancelTaskAlone(t) ==
  /\ Commit([Rows EXCEPT !.task[t] = "cancelled"])
  /\ UNCHANGED <<owner, assignee, interfaces>>

\* Whatever the task's status is.
KernelCancel(t) ==
  /\ Commit(LeasesReleased([Rows EXCEPT !.task[t] = "cancelled"], {t}))
  /\ UNCHANGED <<owner, assignee, interfaces>>

\* Whatever the mission's status is; its tasks stay as they are.
KernelPause ==
  /\ Commit(LeasesReleased([Rows EXCEPT !.mission = "paused"], Task))
  /\ UNCHANGED <<owner, assignee, interfaces>>

\* Slip: only tasks that wait are looked at, and a dependency that runs counts.
RefreshedSoon(s) ==
  [s EXCEPT !.task = [t \in Task |->
    IF s.task[t] = "pending" /\ \A d \in Named[t] : s.task[d] \in {"completed", "running"}
    THEN "ready" ELSE s.task[t]]]

\* Tasks wait or are ready, by the dependencies their contracts name.
Refreshed(s) ==
  [s EXCEPT !.task = [t \in Task |->
    CASE s.task[t] = "pending" /\ \A d \in Named[t] : s.task[d] = "completed" -> "ready"
      [] s.task[t] = "ready" /\ \E d \in Named[t] : s.task[d] # "completed" -> "pending"
      [] OTHER -> s.task[t]]]

\* Whatever the mission's status is.
KernelResume ==
  /\ Commit(Refreshed([Rows EXCEPT !.mission = "ready"]))
  /\ UNCHANGED <<owner, assignee, interfaces>>

-----------------------------------------------------------------------------
InterfacesInit ==
  /\ Init
  /\ byWorker = {}
  /\ attempts = [t \in Task |-> 0]

DesktopReport(l, result) ==
  /\ l \notin byWorker
  /\ CompleteTask(l, result)
  /\ attempts' = [attempts EXCEPT ![l[1]] = Tried(l[1])]
  /\ UNCHANGED byWorker

\* The desktop interface, the schedulers, the operators and time.
Desktops ==
  \/ \E l \in Lease, result \in {"completed", "failed"} : DesktopReport(l, result)
  \/ /\ UNCHANGED interfaces
     /\ \/ Dispatch
        \/ Schedule
        \/ GetState
        \/ \E a \in Assignment :
             \/ Accept(a)
             \/ AcceptLate(a)
             \/ Heartbeat(a)
             \/ \E st \in {"released", "completed", "failed"} : Release(a, st)
             \/ CompleteAssignment(a)
             \/ \E retryable \in BOOLEAN : FailAssignment(a, retryable)
             \/ LapseAssignment(a)
        \/ \E l \in Lease : Claim(l) \/ LapseLease(l)
        \/ \E t \in Task : Retry(t) \/ Skip(t)
        \/ \E command \in Commands : TransitionMission(command)

InterfacesNext ==
  \/ Desktops
  \/ ScheduleMission
  \/ \E l \in Lease :
       \/ Acquire(l)
       \/ KeepLease(l)
       \/ \E result \in {"completed", "failed"} : Report(l, result)
       \/ KernelLease(l)
  \/ \E t \in Task :
       \/ \E result \in {"completed", "failed", "retryable"} : RunNext(t, result)
       \/ KernelCancel(t)
  \/ KernelPause
  \/ KernelResume

InterfacesSpec == InterfacesInit /\ [][InterfacesNext]_<<vars, interfaces>>

\* The mission is watched: somebody keeps asking for its dispatch.
FairInterfacesSpec ==
  InterfacesSpec /\ WF_<<vars, interfaces>>(Dispatch /\ UNCHANGED interfaces)

-----------------------------------------------------------------------------
(***************************************************************************)
(* What holds across the interfaces in a mission that is not scheduled on  *)
(* desktops, so that no assignment ends under a lease.                     *)
(***************************************************************************)
\* A lease that is not over is that of a running task: whichever interface gave
\* it out, and whatever ends the task, no worker is left with a lease under
\* which it could report on a task that went on without it.
LeaseMeansRunning == \A l \in Unfinished : task[l[1]] = "running"

ActiveLeases == INSTANCE ExclusiveGrants WITH
  Grant <- Lease, Clash <- SameTask(Lease),
  current <- Unfinished,
  past <- {l \in Lease : lease[l] \in {"released", "expired"}}

\* Although the three interfaces look for other leases in three ways, or not at
\* all, and an overdue lease may be revived, a task has one lease at a time, and
\* one that is over stays over.
WorkersAreExclusive == ActiveLeases!Spec

\* What is completed stays completed, unless it is cancelled through the kernel:
\* no second result ever arrives.
CompletedStays ==
  [][\A t \in Task : task[t] = "completed" => task'[t] \in {"completed", "cancelled"}]_vars

=============================================================================

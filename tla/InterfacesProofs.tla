-------------------------- MODULE InterfacesProofs --------------------------
(***************************************************************************)
(* Leases across the three worker interfaces, for every mission that is    *)
(* not scheduled on desktops, every budget and any number of leases.       *)
(***************************************************************************)
EXTENDS WorkerInterfaces, RequeueProofs

\* No assignments are made: MaxAttempt is zero, or there are no tasks.
Headless == Assignment = {}

UnfinishedOf(s) == {l \in Lease : s.lease[l] \in {"live", "lapsed"}}

\* The leases of the rows s fit its tasks.
Fit(s) ==
  /\ \A l \in UnfinishedOf(s) : s.task[l[1]] = "running"
  /\ \A l, m \in UnfinishedOf(s) : l[1] = m[1] => l = m

\* From s to r, leases may end and none begins, and what is completed or
\* cancelled stays so.
Ends(s, r) ==
  /\ \A l \in Lease :
       /\ s.lease[l] = "absent" <=> r.lease[l] = "absent"
       /\ r.lease[l] \in {"live", "lapsed"} => s.lease[l] \in {"live", "lapsed"}
  /\ \A t \in Task : s.task[t] \in {"completed", "cancelled"} => r.task[t] = s.task[t]

\* From s to r, leases go on as they may, and so do completed tasks.
After(s, r) ==
  /\ \A l \in Lease :
       /\ s.lease[l] = "absent" => r.lease[l] \in {"absent", "live"}
       /\ s.lease[l] # "absent" => r.lease[l] # "absent"
       /\ r.lease[l] \in {"live", "lapsed"} => s.lease[l] \in {"absent", "live", "lapsed"}
  /\ \A t \in Task : s.task[t] = "completed" => r.task[t] \in {"completed", "cancelled"}

\* Ending is going on, and ends compose.
LEMMA EndsAfter ==
  ASSUME NEW s, NEW r, NEW q, Ends(s, r)
  PROVE  After(s, r) /\ (Ends(r, q) => Ends(s, q))
BY DEF Ends, After

-----------------------------------------------------------------------------
(***************************************************************************)
(* The passes.                                                             *)
(***************************************************************************)
\* Dispatching ends overdue leases together with the run of their tasks.
LEMMA DispatchedFit ==
  ASSUME Headless, NEW s \in RowSet, Fit(s)
  PROVE  Dispatched(s) \in RowSet /\ Fit(Dispatched(s)) /\ Ends(s, Dispatched(s))
<1> DEFINE s1 == LeasesExpired(s)
           s2 == DependenciesReleased(s1)
           s3 == MissionUpdated(s2)
           r == Dispatched(s)
<1>1. r \in RowSet /\ Moves(s, r) /\ Pass(s, r)
  BY DispatchedType, DispatchedMoves, DispatchedPass
<1>2. r = s \/ \A l \in Lease : r.lease[l] # "lapsed"
  <2>1. s1.lease = [l \in Lease |-> IF s.lease[l] = "lapsed" THEN "expired" ELSE s.lease[l]]
        /\ s1 \in RowSet
    BY DEF LeasesExpired, RowSet, TaskStatus, LeaseStatus
  <2> HIDE DEF s1
  <2>2. s2.lease = s1.lease /\ s2 \in RowSet
    BY <2>1 DEF DependenciesReleased, RowSet, TaskStatus
  <2> HIDE DEF s2
  <2>3. s3.lease = s2.lease
    BY <2>2 DEF MissionUpdated, RowSet
  <2> HIDE DEF s3
  <2>4. \A l \in Lease : s3.lease[l] # "lapsed" BY <2>1, <2>2, <2>3
  <2>5. QED BY <2>4 DEF Dispatched, s1, s2, s3
<1>3. Ends(s, r)
  <2>1. \A l \in Lease : s.lease[l] \in LeaseStatus /\ r.lease[l] \in LeaseStatus
    BY <1>1 DEF RowSet
  <2> HIDE DEF r
  <2>2. \A l \in Lease :
          /\ s.lease[l] = "absent" <=> r.lease[l] = "absent"
          /\ r.lease[l] \in {"live", "lapsed"} => s.lease[l] \in {"live", "lapsed"}
    BY <1>1, <2>1 DEF Moves, Pass, Step, Onward, BeginsNone, Gone, LeaseStatus
  <2>3. QED BY <1>1, <2>2 DEF Ends, Moves, TaskMoves, Terminal
<1>4. Fit(r)
  <2> HIDE DEF r
  <2>1. UnfinishedOf(r) \subseteq UnfinishedOf(s)
    BY <1>3 DEF Ends, UnfinishedOf
  <2>2. ASSUME NEW l \in UnfinishedOf(r), r # s
        PROVE  r.task[l[1]] = "running"
    <3>1. l \in UnfinishedOf(s) /\ l \in Lease /\ l[1] \in Task
      BY <2>1 DEF UnfinishedOf, Lease
    <3>2. s.task[l[1]] = "running" BY <3>1 DEF Fit
    <3>3. s.lease[l] # "lapsed"
      <4>1. r.lease[l] = "live" BY <1>2, <2>2, <3>1 DEF UnfinishedOf
      <4>2. s.lease[l] \notin Gone
        BY <1>1, <3>1, <4>1 DEF Pass, Step, Onward, Gone
      <4>3. QED BY <4>2 DEF Gone
    <3>4. \A m \in Lease : m[1] = l[1] => s.lease[m] # "lapsed"
      BY <3>1, <3>3 DEF Fit, UnfinishedOf
    <3>5. QED BY <1>1, <3>1, <3>2, <3>4 DEF Moves, TaskMoves, Headless
  <2>3. CASE r = s BY <2>3
  <2>4. CASE r # s BY <2>1, <2>2, <2>4 DEF Fit
  <2>5. QED BY <2>3, <2>4
<1>5. QED BY <1>1, <1>3, <1>4

\* Where there are no assignments, the scheduler does what the dispatcher does.
LEMMA ScheduleFromFit ==
  ASSUME Headless, NEW s0 \in RowSet, Fit(s0), NEW max, ScheduleFrom(s0, max)
  PROVE  Rows' \in RowSet /\ Fit(Rows') /\ Ends(s0, Rows')
<1> DEFINE s1 == Dispatched(s0)
           s2 == TerminalReleased(s1)
           s  == StaleExpired(s2)
<1>1. s1 \in RowSet /\ Fit(s1) /\ Ends(s0, s1) BY DispatchedFit
<1> HIDE DEF s1
<1>2. s2 \in RowSet /\ s2.task = s1.task /\ s2.lease = s1.lease
  BY <1>1, TerminalReleasedType DEF TerminalReleased, RowSet
<1> HIDE DEF s2
<1>3. s \in RowSet /\ s.lease = s2.lease
  BY <1>2, StaleExpiredType DEF StaleExpired, RowSet
<1>4. s.task = s2.task
  <2>1. s.task = [t \in Task |-> s2.task[t]]
    BY <1>2 DEF StaleExpired, RowSet, Headless, ActiveOf
  <2>2. QED BY <1>2, <2>1 DEF RowSet
<1> HIDE DEF s
<1>5. PICK G \in SUBSET Candidate(s) : \E who \in [G -> Worker] :
        (\A t \in G : HasRow(s, t)) /\ Commit(Granted(s, G, who))
  <2>1. Granting(s, max) BY DEF ScheduleFrom, s, s2, s1
  <2>2. QED BY <2>1 DEF Granting
<1>6. PICK who \in [G -> Worker] :
        (\A t \in G : HasRow(s, t)) /\ Commit(Granted(s, G, who))
  BY <1>5
<1>7. G \in SUBSET Task BY DEF Candidate
<1>8. Granted(s, G, who) \in RowSet
  BY <1>3, <1>6, <1>7, GrantedType
<1>9. Granted(s, G, who).lease = s.lease /\ Granted(s, G, who).task = s.task
  BY <1>3 DEF Granted, RowSet
<1>10. Rows' = Granted(s, G, who) BY <1>6, <1>8, CommitRows
<1>11. Rows'.lease = s1.lease /\ Rows'.task = s1.task /\ Rows' \in RowSet
  BY <1>2, <1>3, <1>4, <1>8, <1>9, <1>10
<1>12. Fit(Rows') /\ Ends(s0, Rows')
  BY <1>1, <1>11 DEF Fit, UnfinishedOf, Ends
<1>13. QED BY <1>11, <1>12

\* The scheduler of the execution runtime ends overdue leases, and fails what
\* has used up its budget.
LEMMA ScheduledFit ==
  ASSUME NEW s \in RowSet, Fit(s)
  PROVE  Scheduled(s) \in RowSet /\ Fit(Scheduled(s)) /\ Ends(s, Scheduled(s))
<1> DEFINE s0 == LeasesExpired(s)
           s1 == LeasesExpiredInBudget(s)
           r == MissionCompleted(s1)
<1>1. /\ s0 \in RowSet
      /\ s0.lease = [l \in Lease |-> IF s.lease[l] = "lapsed" THEN "expired" ELSE s.lease[l]]
      /\ \A t \in Task : \/ s0.task[t] = s.task[t]
                         \/ s.task[t] = "running" /\ \E l \in Lease : l[1] = t /\ s.lease[l] = "lapsed"
  BY DEF LeasesExpired, RowSet, TaskStatus, LeaseStatus
<1>2. s1 = [s0 EXCEPT !.task = [t \in Task |->
              IF s0.task[t] # s.task[t] /\ attempts[t] >= Budget THEN "failed" ELSE s0.task[t]]]
  BY <1>1 DEF LeasesExpiredInBudget, RowSet
<1> HIDE DEF s0, s1
<1>3. /\ s1 \in RowSet /\ s1.lease = s0.lease
      /\ \A t \in Task : s1.task[t] = s.task[t] \/ s0.task[t] # s.task[t]
  BY <1>1, <1>2 DEF RowSet, TaskStatus
<1>4. r \in RowSet /\ r.lease = s1.lease /\ r.task = s1.task
  BY <1>3 DEF MissionCompleted, RowSet, MissionStatus, ExecutionStatus, PreparationStatus
<1> HIDE DEF r
<1>5. \A t \in Task : \/ r.task[t] = s.task[t]
                      \/ s.task[t] = "running" /\ \E l \in Lease : l[1] = t /\ s.lease[l] = "lapsed"
  BY <1>1, <1>3, <1>4
<1>6. \A l \in Lease : r.lease[l] = IF s.lease[l] = "lapsed" THEN "expired" ELSE s.lease[l]
  BY <1>1, <1>3, <1>4
<1>7. Ends(s, r) BY <1>5, <1>6 DEF Ends
<1>8. \A l \in UnfinishedOf(r) : l \in UnfinishedOf(s) /\ s.lease[l] = "live" /\ l[1] \in Task
  BY <1>6 DEF UnfinishedOf, Lease
<1>9. ASSUME NEW l \in UnfinishedOf(r)
      PROVE  r.task[l[1]] = "running"
  <2>1. s.task[l[1]] = "running" /\ \A m \in Lease : m[1] = l[1] => s.lease[m] # "lapsed"
    BY <1>8 DEF Fit, UnfinishedOf
  <2>2. QED BY <1>5, <1>8, <2>1
<1>10. Fit(r) BY <1>8, <1>9 DEF Fit
<1>11. QED BY <1>4, <1>7, <1>10 DEF Scheduled, r, s1

-----------------------------------------------------------------------------
(***************************************************************************)
(* The actions.  The rows fit, and a step takes them to rows that fit and  *)
(* in which leases and completed tasks went on as they may.                *)
(***************************************************************************)
Fits == Rows \in RowSet /\ Fit(Rows)
Proceeds == Fits' /\ After(Rows, Rows')

\* Doing nothing proceeds.
LEMMA FitProceeds ==
  ASSUME Fits, UNCHANGED vars
  PROVE  Proceeds
<1>1. Rows' = Rows BY DEF vars, Rows
<1>2. QED BY <1>1 DEF Proceeds, Fits, After, RowSet, LeaseStatus

\* So does committing rows in which leases only ended.
LEMMA CommitProceeds ==
  ASSUME NEW r \in RowSet, Fit(r), Ends(Rows, r), Commit(r)
  PROVE  Proceeds
<1>1. Rows' = r BY CommitRows
<1>2. QED BY <1>1, EndsAfter DEF Proceeds, Fits

\* A lease of a ready task is its only one.
LEMMA GivenProceeds ==
  ASSUME Fits, NEW l \in Lease, Rows.task[l[1]] = "ready", Rows.lease[l] = "absent",
         Commit([Rows EXCEPT !.lease[l] = "live", !.task[l[1]] = "running",
                             !.mission = "running"])
  PROVE  Proceeds
<1> DEFINE r == [Rows EXCEPT !.lease[l] = "live", !.task[l[1]] = "running",
                             !.mission = "running"]
<1>1. Rows \in RowSet /\ Fit(Rows) /\ l[1] \in Task BY DEF Fits, Lease
<1>2. /\ r.lease = [Rows.lease EXCEPT ![l] = "live"]
      /\ r.task = [Rows.task EXCEPT ![l[1]] = "running"]
  BY <1>1 DEF RowSet
<1>3. r \in RowSet
  <2>1. [Rows.lease EXCEPT ![l] = "live"] \in [Lease -> LeaseStatus]
    BY <1>1 DEF RowSet, LeaseStatus
  <2>2. [Rows.task EXCEPT ![l[1]] = "running"] \in [Task -> TaskStatus]
    BY <1>1 DEF RowSet, TaskStatus
  <2>3. QED BY <1>1, <2>1, <2>2 DEF RowSet, MissionStatus, ExecutionStatus, PreparationStatus
<1>4. Rows' = r BY <1>3, CommitRows
<1> HIDE DEF r
<1>5. /\ \A m \in Lease : r.lease[m] = IF m = l THEN "live" ELSE Rows.lease[m]
      /\ \A t \in Task : r.task[t] = IF t = l[1] THEN "running" ELSE Rows.task[t]
  BY <1>1, <1>2 DEF RowSet
<1>6. \A m \in UnfinishedOf(Rows) : m \in Lease /\ m[1] \in Task /\ m[1] # l[1]
  BY <1>1 DEF Fit, UnfinishedOf, Lease
<1>7. \A m \in UnfinishedOf(r) : m = l \/ m \in UnfinishedOf(Rows)
  BY <1>5 DEF UnfinishedOf
<1>8. Fit(r) BY <1>1, <1>5, <1>6, <1>7 DEF Fit
<1>9. After(Rows, r) BY <1>1, <1>5 DEF After, RowSet, LeaseStatus
<1>10. QED BY <1>3, <1>4, <1>8, <1>9 DEF Proceeds, Fits

\* The result of a lease ends it together with the run of its task, whether or
\* not the mission is dispatched on it.
LEMMA ResultFit ==
  ASSUME Fits, NEW l \in UnfinishedOf(Rows), NEW result \in {"completed", "failed"}
  PROVE  LET r == [Rows EXCEPT !.task[l[1]] = result, !.lease[l] = "released"]
         IN  r \in RowSet /\ Fit(r) /\ Ends(Rows, r)
<1> DEFINE r == [Rows EXCEPT !.task[l[1]] = result, !.lease[l] = "released"]
<1>1. Rows \in RowSet /\ Fit(Rows) /\ l \in Lease /\ l[1] \in Task
  BY DEF Fits, Lease, UnfinishedOf
<1>2. /\ r.lease = [Rows.lease EXCEPT ![l] = "released"]
      /\ r.task = [Rows.task EXCEPT ![l[1]] = result]
  BY <1>1 DEF RowSet
<1>3. r \in RowSet
  <2>1. [Rows.lease EXCEPT ![l] = "released"] \in [Lease -> LeaseStatus]
    BY <1>1 DEF RowSet, LeaseStatus
  <2>2. [Rows.task EXCEPT ![l[1]] = result] \in [Task -> TaskStatus]
    BY <1>1 DEF RowSet, TaskStatus
  <2>3. QED BY <1>1, <2>1, <2>2 DEF RowSet
<1> HIDE DEF r
<1>4. /\ \A m \in Lease : r.lease[m] = IF m = l THEN "released" ELSE Rows.lease[m]
      /\ \A t \in Task : r.task[t] = IF t = l[1] THEN result ELSE Rows.task[t]
  BY <1>1, <1>2 DEF RowSet
<1>5. Rows.task[l[1]] = "running" /\ Rows.lease[l] \in {"live", "lapsed"}
  BY <1>1 DEF Fit, UnfinishedOf
<1>6. \A m \in UnfinishedOf(r) : m \in UnfinishedOf(Rows) /\ m[1] \in Task /\ m[1] # l[1]
  BY <1>1, <1>4 DEF Fit, UnfinishedOf, Lease
<1>7. Fit(r) BY <1>1, <1>4, <1>6 DEF Fit
<1>8. Ends(Rows, r) BY <1>4, <1>5 DEF Ends
<1>9. QED BY <1>3, <1>7, <1>8 DEF r

\* A request that rewrites tasks which neither run nor are completed leaves the
\* leases fitting.
LEMMA TasksProceed ==
  ASSUME NEW s \in RowSet, NEW r \in RowSet, Fit(s), Ends(Rows, s),
         r.lease = s.lease,
         \A t \in Task : r.task[t] = s.task[t] \/ s.task[t] \notin {"running", "completed"},
         Rows' = r
  PROVE  Proceeds
<1>1. \A l \in UnfinishedOf(r) : l \in UnfinishedOf(s) /\ l[1] \in Task
  BY DEF UnfinishedOf, Lease
<1>2. Fit(r) BY <1>1 DEF Fit
<1>3. After(Rows, r) BY DEF Ends, After
<1>4. QED BY <1>2, <1>3 DEF Proceeds, Fits

\* Rows that fit follow themselves.
LEMMA EndsItself ==
  ASSUME NEW s
  PROVE  Ends(s, s)
BY DEF Ends

\* The requests of desktops, schedulers and operators; there is no assignment to
\* report on.
LEMMA DesktopsProceed ==
  ASSUME Headless, Fits, Desktops
  PROVE  Proceeds
<1>1. Rows \in RowSet /\ Fit(Rows) BY DEF Fits
<1>2. /\ Rows.task = task /\ Rows.lease = lease /\ Rows.mission = mission
      /\ Rows.status = status /\ Rows.held = held /\ Rows.worker = worker
  BY DEF Rows
<1>3. CASE Dispatch
  <2>1. Commit(Dispatched(Rows)) BY <1>3 DEF Dispatch
  <2>2. QED BY <1>1, <2>1, DispatchedFit, CommitProceeds
<1>4. CASE Schedule \/ GetState
  <2>1. \E max : ScheduleFrom(Rows, max) BY <1>4 DEF Schedule, GetState
  <2>2. QED BY <1>1, <2>1, ScheduleFromFit, EndsAfter DEF Proceeds, Fits
<1>5. ASSUME NEW l \in Lease, Claim(l)
      PROVE  Proceeds
  <2>1. Rows.task[l[1]] = "ready" /\ Rows.lease[l] = "absent"
    BY <1>2, <1>5 DEF Claim
  <2>2. Commit([Rows EXCEPT !.lease[l] = "live", !.task[l[1]] = "running",
                            !.mission = "running"])
    BY <1>5 DEF Claim
  <2>3. QED BY <2>1, <2>2, GivenProceeds
<1>6. ASSUME NEW l \in Lease, NEW result \in {"completed", "failed"}, CompleteTask(l, result)
      PROVE  Proceeds
  <2> DEFINE r == [Rows EXCEPT !.task[l[1]] = result, !.lease[l] = "released"]
  <2>1. l \in UnfinishedOf(Rows) /\ Commit(Dispatched(r))
    BY <1>2, <1>6 DEF CompleteTask, UnfinishedOf
  <2>2. r \in RowSet /\ Fit(r) /\ Ends(Rows, r) BY <2>1, ResultFit
  <2> HIDE DEF r
  <2>3. Dispatched(r) \in RowSet /\ Fit(Dispatched(r)) /\ Ends(Rows, Dispatched(r))
    BY <2>2, DispatchedFit, EndsAfter
  <2>4. QED BY <2>1, <2>3, CommitProceeds
<1>7. ASSUME NEW l \in Lease, LapseLease(l)
      PROVE  Proceeds
  <2>1. /\ lease[l] = "live" /\ lease' = [lease EXCEPT ![l] = "lapsed"]
        /\ UNCHANGED <<mission, task, status, held, worker>>
    BY <1>7 DEF LapseLease
  <2>2. Rows' \in RowSet BY <1>1, <2>1 DEF Rows, RowSet, LeaseStatus
  <2>3. UnfinishedOf(Rows') = UnfinishedOf(Rows)
    BY <1>1, <1>2, <2>1 DEF UnfinishedOf, Rows, RowSet
  <2>4. Fit(Rows') BY <1>1, <2>1, <2>3 DEF Fit, Rows
  <2>5. After(Rows, Rows') BY <1>1, <1>2, <2>1 DEF After, Rows, RowSet
  <2>6. QED BY <2>2, <2>4, <2>5 DEF Proceeds, Fits
<1>8. ASSUME NEW t \in Task, Retry(t) \/ Skip(t)
      PROVE  Proceeds
  <2>1. /\ task[t] \notin {"running", "completed"}
        /\ \E v \in TaskStatus : task' = [task EXCEPT ![t] = v]
        /\ UNCHANGED <<mission, status, held, worker, lease>>
    BY <1>8 DEF Retry, Skip, TaskStatus
  <2>2. Rows' \in RowSet BY <1>1, <2>1 DEF Rows, RowSet
  <2>3. Rows'.lease = Rows.lease BY <2>1 DEF Rows
  <2>4. \A u \in Task : Rows'.task[u] = Rows.task[u] \/ Rows.task[u] \notin {"running", "completed"}
    BY <1>1, <1>2, <2>1 DEF Rows, RowSet
  <2>5. QED BY <1>1, <2>2, <2>3, <2>4, EndsItself, TasksProceed
<1>9. ASSUME NEW command \in Commands, TransitionMission(command)
      PROVE  Proceeds
  <2>1. Transition[command].to \in MissionStatus
    BY BoundAssumption DEF Transition, MissionStatus, ExecutionStatus, PreparationStatus
  <2>2. mission' \in MissionStatus /\ UNCHANGED <<task, status, held, worker, lease>>
    BY <1>9, <2>1 DEF TransitionMission
  <2>3. Rows' \in RowSet BY <1>1, <2>2 DEF Rows, RowSet
  <2>4. Rows'.lease = Rows.lease /\ Rows'.task = Rows.task BY <2>2 DEF Rows
  <2>5. QED BY <1>1, <2>3, <2>4, EndsItself, TasksProceed
<1>10. QED BY <1>3, <1>4, <1>5, <1>6, <1>7, <1>8, <1>9 DEF Desktops, DesktopReport, Headless

\* A worker of the execution runtime keeps its lease, or reports under it.
LEMMA WorkerProceeds ==
  ASSUME Fits, NEW l \in Lease,
         KeepLease(l) \/ \E result \in {"completed", "failed"} : Report(l, result)
  PROVE  Proceeds
<1>1. Rows \in RowSet /\ Fit(Rows) /\ Rows.lease = lease /\ Rows.task = task
  BY DEF Fits, Rows
<1>2. l \in UnfinishedOf(Rows)
  BY <1>1 DEF KeepLease, Report, Unfinished, UnfinishedOf
<1>3. CASE KeepLease(l)
  <2>1. /\ lease' = [lease EXCEPT ![l] = "live"]
        /\ UNCHANGED <<mission, task, status, held, worker>>
    BY <1>3 DEF KeepLease
  <2>2. Rows' \in RowSet BY <1>1, <2>1 DEF Rows, RowSet, LeaseStatus
  <2>3. UnfinishedOf(Rows') = UnfinishedOf(Rows)
    BY <1>1, <1>2, <2>1 DEF UnfinishedOf, Rows, RowSet
  <2>4. Fit(Rows') BY <1>1, <2>1, <2>3 DEF Fit, Rows
  <2>5. After(Rows, Rows') BY <1>1, <1>2, <2>1 DEF After, Rows, RowSet, UnfinishedOf
  <2>6. QED BY <2>2, <2>4, <2>5 DEF Proceeds, Fits
<1>4. ASSUME NEW result \in {"completed", "failed"}, Report(l, result)
      PROVE  Proceeds
  <2> DEFINE r == [Rows EXCEPT !.task[l[1]] = result, !.lease[l] = "released"]
  <2>1. Commit(r) BY <1>4 DEF Report
  <2>2. r \in RowSet /\ Fit(r) /\ Ends(Rows, r) BY <1>2, ResultFit
  <2> HIDE DEF r
  <2>3. QED BY <2>1, <2>2, CommitProceeds
<1>5. QED BY <1>3, <1>4

\* What follows from a result changes the task it is of, which is ready, and
\* tasks that wait or are ready.
LEMMA ConcludedType ==
  ASSUME NEW s \in RowSet, NEW t \in Task, s.task[t] = "ready",
         NEW result \in {"completed", "failed"}
  PROVE  /\ Concluded(s, t, result) \in RowSet
         /\ Concluded(s, t, result).lease = s.lease
         /\ \A u \in Task : \/ Concluded(s, t, result).task[u] = s.task[u]
                            \/ s.task[u] \notin {"running", "completed"}
<1> DEFINE r == Concluded(s, t, result)
           f == [u \in Task |->
             CASE u = t -> result
               [] /\ u \in Dependents(t) \ {t} /\ result = "completed"
                  /\ s.task[u] \in {"pending", "blocked"}
                  /\ \A d \in Deps[u] \ {t} : s.task[d] = "completed" -> "ready"
               [] /\ u \in Dependents(t) \ {t} /\ result = "failed"
                  /\ s.task[u] \in {"pending", "ready"} -> "blocked"
               [] OTHER -> s.task[u]]
<1>1. r.task = f /\ r.lease = s.lease
  BY DEF Concluded, RowSet
<1>2. \A u \in Task : f[u] \in TaskStatus /\ (f[u] = s.task[u] \/ s.task[u] \notin {"running", "completed"})
  <2> SUFFICES ASSUME NEW u \in Task
               PROVE  f[u] \in TaskStatus /\ (f[u] = s.task[u] \/ s.task[u] \notin {"running", "completed"})
    OBVIOUS
  <2>1. s.task[u] \in TaskStatus BY DEF RowSet
  <2>2. \/ f[u] = s.task[u]
        \/ u = t /\ f[u] = result
        \/ s.task[u] \in {"pending", "blocked"} /\ f[u] = "ready"
        \/ s.task[u] \in {"pending", "ready"} /\ f[u] = "blocked"
    OBVIOUS
  <2> HIDE DEF f
  <2>3. QED BY <2>1, <2>2 DEF TaskStatus
<1>3. r = [s EXCEPT !.task = f] BY DEF Concluded
<1> HIDE DEF f
<1>4. r \in RowSet
  <2>1. f \in [Task -> TaskStatus]
    <3>1. f = [u \in Task |-> f[u]] BY DEF f
    <3>2. QED BY <1>2, <3>1
  <2>2. QED BY <1>3, <2>1 DEF RowSet
<1>5. QED BY <1>1, <1>2, <1>4

\* The execution runtime's own scheduling, and a task run within one request.
LEMMA RuntimeProceeds ==
  ASSUME Fits,
         \/ ScheduleMission
         \/ \E t \in Task : \E result \in {"completed", "failed", "retryable"} :
              RunNext(t, result)
  PROVE  Proceeds
<1> DEFINE s == Scheduled(Rows)
<1>1. s \in RowSet /\ Fit(s) /\ Ends(Rows, s) BY ScheduledFit DEF Fits
<1>2. CASE ScheduleMission
  BY <1>1, <1>2, CommitProceeds DEF ScheduleMission
<1>3. ASSUME NEW t \in Task, NEW result \in {"completed", "failed", "retryable"},
             RunNext(t, result)
      PROVE  Proceeds
  <2>1. PICK again \in BOOLEAN, final \in {"completed", "failed"} :
          /\ s.task[t] = "ready"
          /\ Commit(IF again THEN s ELSE Concluded(s, t, final))
    <3> DEFINE more == result = "retryable" /\ Tried(t) < Budget
               last == IF result = "retryable" THEN "failed" ELSE result
    <3>1. s.task[t] = "ready" /\ Commit(IF more THEN s ELSE Concluded(s, t, last))
      BY <1>3 DEF RunNext
    <3>2. more \in BOOLEAN /\ last \in {"completed", "failed"} OBVIOUS
    <3> HIDE DEF s, more, last
    <3>3. QED BY <3>1, <3>2
  <2> HIDE DEF s
  <2>2. CASE again
    BY <1>1, <2>1, <2>2, CommitProceeds
  <2>3. CASE ~ again
    <3> DEFINE r == Concluded(s, t, final)
    <3>1. /\ r \in RowSet /\ r.lease = s.lease
          /\ \A u \in Task : r.task[u] = s.task[u] \/ s.task[u] \notin {"running", "completed"}
      BY <1>1, <2>1, ConcludedType
    <3>2. Commit(r) BY <2>1, <2>3
    <3> HIDE DEF r
    <3>3. Rows' = r BY <3>1, <3>2, CommitRows
    <3>4. QED BY <1>1, <3>1, <3>3, TasksProceed
  <2>4. QED BY <2>2, <2>3
<1>4. QED BY <1>2, <1>3

\* A lease of the execution runtime or of the kernel goes to a ready task.
LEMMA LeasingProceeds ==
  ASSUME Fits, NEW l \in Lease, Acquire(l) \/ KernelLease(l)
  PROVE  Proceeds
<1>1. Rows.task[l[1]] = "ready" /\ Rows.lease[l] = "absent"
  BY DEF Acquire, KernelLease, IsNewLease, Rows
<1>2. Commit([Rows EXCEPT !.lease[l] = "live", !.task[l[1]] = "running",
                          !.mission = "running"])
  BY DEF Acquire, KernelLease, LeaseGiven
<1>3. QED BY <1>1, <1>2, GivenProceeds

\* The kernel ends the leases of what it cancels, and all of them when it
\* pauses; when it resumes it moves what waits and what is ready.
LEMMA KernelProceeds ==
  ASSUME Fits, KernelPause \/ KernelResume \/ \E t \in Task : KernelCancel(t)
  PROVE  Proceeds
<1>1. Rows \in RowSet /\ Fit(Rows) BY DEF Fits
<1>2. ASSUME NEW T \in SUBSET Task, NEW s \in RowSet, s.lease = Rows.lease,
             \A t \in Task : s.task[t] = Rows.task[t] \/ (t \in T /\ s.task[t] = "cancelled"),
             Commit(LeasesReleased(s, T))
      PROVE  Proceeds
  <2> DEFINE r == LeasesReleased(s, T)
  <2>1. /\ r \in RowSet /\ r.task = s.task
        /\ \A l \in Lease : r.lease[l] = IF l[1] \in T /\ s.lease[l] \in {"live", "lapsed"}
                                         THEN "released" ELSE s.lease[l]
    BY DEF LeasesReleased, RowSet, LeaseStatus
  <2> HIDE DEF r
  <2>2. \A l \in UnfinishedOf(r) : l \in UnfinishedOf(Rows) /\ l[1] \in Task \ T
    BY <1>2, <2>1 DEF UnfinishedOf, Lease
  <2>3. Fit(r) BY <1>1, <1>2, <2>1, <2>2 DEF Fit
  <2>4. After(Rows, r) BY <1>2, <2>1 DEF After
  <2>5. Rows' = r BY <1>2, <2>1, CommitRows DEF r
  <2>6. QED BY <2>1, <2>3, <2>4, <2>5 DEF Proceeds, Fits
<1>3. CASE KernelPause
  <2> DEFINE s == [Rows EXCEPT !.mission = "paused"]
  <2>1. s \in RowSet /\ s.lease = Rows.lease /\ s.task = Rows.task
    BY <1>1 DEF RowSet, MissionStatus, ExecutionStatus, PreparationStatus
  <2>2. Commit(LeasesReleased(s, Task)) BY <1>3 DEF KernelPause
  <2> HIDE DEF s
  <2>3. QED BY <1>2, <2>1, <2>2
<1>4. ASSUME NEW t \in Task, KernelCancel(t)
      PROVE  Proceeds
  <2> DEFINE s == [Rows EXCEPT !.task[t] = "cancelled"]
  <2>1. [Rows.task EXCEPT ![t] = "cancelled"] \in [Task -> TaskStatus]
    BY <1>1 DEF RowSet, TaskStatus
  <2>2. s \in RowSet /\ s.lease = Rows.lease
        /\ \A u \in Task : s.task[u] = Rows.task[u] \/ (u \in {t} /\ s.task[u] = "cancelled")
    BY <1>1, <2>1 DEF RowSet
  <2>3. Commit(LeasesReleased(s, {t})) BY <1>4 DEF KernelCancel
  <2> HIDE DEF s
  <2>4. QED BY <1>2, <2>2, <2>3
<1>5. CASE KernelResume
  <2> DEFINE s == [Rows EXCEPT !.mission = "ready"]
             r == Refreshed(s)
  <2>1. s \in RowSet /\ s.lease = Rows.lease /\ s.task = Rows.task
    BY <1>1 DEF RowSet, MissionStatus, ExecutionStatus, PreparationStatus
  <2>2. Commit(r) BY <1>5 DEF KernelResume
  <2> HIDE DEF s
  <2>3. /\ r \in RowSet /\ r.lease = s.lease
        /\ \A t \in Task : r.task[t] = s.task[t] \/ s.task[t] \notin {"running", "completed"}
    BY <2>1 DEF Refreshed, RowSet, TaskStatus
  <2> HIDE DEF r
  <2>4. Rows' = r BY <2>2, <2>3, CommitRows
  <2>5. QED BY <1>1, <2>1, <2>3, <2>4, EndsItself, TasksProceed
<1>6. QED BY <1>3, <1>4, <1>5

\* Every step of the three interfaces proceeds.
LEMMA InterfacesProceed ==
  ASSUME Headless, Fits, [InterfacesNext]_<<vars, interfaces>>
  PROVE  Proceeds
<1>1. CASE UNCHANGED <<vars, interfaces>>
  <2>1. UNCHANGED vars BY <1>1
  <2>2. QED BY <2>1, FitProceeds
<1>2. CASE Desktops
  BY <1>2, DesktopsProceed
<1>3. CASE \/ ScheduleMission
           \/ \E t \in Task : \E result \in {"completed", "failed", "retryable"} :
                RunNext(t, result)
  BY <1>3, RuntimeProceeds
<1>4. ASSUME NEW l \in Lease, Acquire(l) \/ KernelLease(l)
      PROVE  Proceeds
  BY <1>4, LeasingProceeds
<1>5. ASSUME NEW l \in Lease,
             KeepLease(l) \/ \E result \in {"completed", "failed"} : Report(l, result)
      PROVE  Proceeds
  BY <1>5, WorkerProceeds
<1>6. CASE KernelPause \/ KernelResume \/ \E t \in Task : KernelCancel(t)
  BY <1>6, KernelProceeds
<1>7. QED BY <1>1, <1>2, <1>3, <1>4, <1>5, <1>6 DEF InterfacesNext

-----------------------------------------------------------------------------
(***************************************************************************)
(* Tasks that wait.                                                        *)
(***************************************************************************)
\* What PendingWaits says of a step.
Waits ==
  \A t \in Task : task[t] = "pending" /\ task'[t] = "ready" =>
    \A d \in Deps[t] : task'[d] = "completed"

\* The dispatcher, alone or within the scheduler, lets tasks wait.
LEMMA DesktopsWait ==
  ASSUME Headless, Fits, Desktops
  PROVE  Waits
<1>1. Rows \in RowSet /\ Rows.task = task /\ Rows.lease = lease /\ Rows'.task = task'
  BY DEF Fits, Rows
<1>2. ASSUME NEW s, Moves(s, Rows'),
             \A t \in Task : task[t] = "pending" => s.task[t] = "pending"
      PROVE  Waits
  BY <1>1, <1>2 DEF Moves, TaskMoves, Waits
<1>3. CASE Dispatch \/ Schedule \/ GetState
  <2>1. CASE Dispatch
    <3>1. Rows' = Dispatched(Rows)
      BY <1>1, <2>1, DispatchedType, CommitRows DEF Dispatch
    <3>2. QED BY <1>1, <1>2, <3>1, DispatchedMoves
  <2>2. CASE Schedule \/ GetState
    <3>1. \E max : ScheduleFrom(Rows, max) BY <2>2 DEF Schedule, GetState
    <3>2. QED BY <1>1, <1>2, <3>1, ScheduleFromMoves
  <2>3. QED BY <1>3, <2>1, <2>2
<1>4. ASSUME NEW l \in Lease, NEW result \in {"completed", "failed"}, CompleteTask(l, result)
      PROVE  Waits
  <2> DEFINE r == [Rows EXCEPT !.task[l[1]] = result, !.lease[l] = "released"]
  <2>1. l \in UnfinishedOf(Rows) /\ task[l[1]] = "running" /\ Commit(Dispatched(r))
    BY <1>1, <1>4 DEF CompleteTask, UnfinishedOf
  <2>2. r \in RowSet BY <2>1, ResultFit
  <2>3. \A t \in Task : task[t] = "pending" => r.task[t] = "pending"
    BY <1>1, <2>1 DEF RowSet
  <2> HIDE DEF r
  <2>4. Rows' = Dispatched(r) BY <2>1, <2>2, DispatchedType, CommitRows
  <2>5. QED BY <1>2, <2>2, <2>3, <2>4, DispatchedMoves
<1>5. ASSUME \/ \E l \in Lease : Claim(l) \/ LapseLease(l)
             \/ \E t \in Task : Retry(t) \/ Skip(t)
             \/ \E command \in Commands : TransitionMission(command)
      PROVE  Waits
  <2>1. \A t \in Task : task[t] = "pending" => task'[t] # "ready"
    <3>1. ASSUME NEW l \in Lease, Claim(l)
          PROVE  task' = [task EXCEPT ![l[1]] = "running"]
      BY <1>1, <3>1 DEF Claim, Commit, RowSet
    <3>2. CASE \/ \E l \in Lease : LapseLease(l)
               \/ \E command \in Commands : TransitionMission(command)
      BY <3>2 DEF LapseLease, TransitionMission
    <3>3. CASE \E t \in Task : Retry(t) \/ Skip(t)
      BY <1>1, <3>3 DEF Retry, Skip, RowSet
    <3>4. QED BY <1>1, <1>5, <3>1, <3>2, <3>3 DEF RowSet
  <2>2. QED BY <2>1 DEF Waits
<1>6. QED BY <1>3, <1>4, <1>5 DEF Desktops, DesktopReport, Headless

\* So do the execution runtime, which looks at all dependencies of a dependent,
\* and the kernel, as far as the contracts name them.
LEMMA RuntimesWait ==
  ASSUME Fits, Named = Deps,
         \/ ScheduleMission
         \/ \E l \in Lease :
              \/ Acquire(l) \/ KeepLease(l) \/ KernelLease(l)
              \/ \E result \in {"completed", "failed"} : Report(l, result)
         \/ \E t \in Task : \/ \E result \in {"completed", "failed", "retryable"} :
                                 RunNext(t, result)
                            \/ KernelCancel(t)
         \/ KernelPause \/ KernelResume
  PROVE  Waits
<1>1. Rows \in RowSet /\ Rows.task = task /\ Rows'.task = task'
  BY DEF Fits, Rows
<1>2. \A t \in Task : Deps[t] \subseteq Task BY DepsAssumption
<1> DEFINE s == Scheduled(Rows)
<1>3. s \in RowSet /\ \A t \in Task : task[t] = "pending" => s.task[t] = "pending"
  <2>1. s \in RowSet BY ScheduledFit DEF Fits
  <2>2. LeasesExpired(Rows).task = [t \in Task |->
          IF task[t] = "running" /\ \E l \in Lease : l[1] = t /\ Rows.lease[l] = "lapsed"
          THEN "ready" ELSE task[t]]
    BY <1>1 DEF LeasesExpired, RowSet
  <2>3. s.task = [t \in Task |->
          IF LeasesExpired(Rows).task[t] # task[t] /\ attempts[t] >= Budget
          THEN "failed" ELSE LeasesExpired(Rows).task[t]]
    BY <1>1 DEF Scheduled, MissionCompleted, LeasesExpiredInBudget, LeasesExpired, RowSet
  <2>4. QED BY <2>1, <2>2, <2>3
<1>4. CASE ScheduleMission
  <2>1. task' = s.task BY <1>4 DEF ScheduleMission, Commit
  <2>2. QED BY <1>3, <2>1 DEF Waits
<1>5. ASSUME NEW t \in Task, NEW result \in {"completed", "failed", "retryable"},
             RunNext(t, result)
      PROVE  Waits
  <2> DEFINE final == IF result = "retryable" THEN "failed" ELSE result
  <2>1. /\ s.task[t] = "ready"
        /\ task' = s.task \/ task' = Concluded(s, t, final).task
    BY <1>5 DEF RunNext, Commit
  <2> HIDE DEF s
  <2>2. Concluded(s, t, final).task = [u \in Task |->
          CASE u = t -> final
            [] /\ u \in Dependents(t) \ {t} /\ final = "completed"
               /\ s.task[u] \in {"pending", "blocked"}
               /\ \A d \in Deps[u] \ {t} : s.task[d] = "completed" -> "ready"
            [] /\ u \in Dependents(t) \ {t} /\ final = "failed"
               /\ s.task[u] \in {"pending", "ready"} -> "blocked"
            [] OTHER -> s.task[u]]
    BY <1>3 DEF Concluded, RowSet
  <2>3. ASSUME NEW u \in Task, task[u] = "pending", task'[u] = "ready",
               NEW d \in Deps[u], task' = Concluded(s, t, final).task
        PROVE  task'[d] = "completed"
    <3>1. s.task[u] = "pending" /\ u # t BY <1>3, <2>1, <2>3
    <3>2. final = "completed" /\ \A c \in Deps[u] \ {t} : s.task[c] = "completed"
      BY <2>2, <2>3, <3>1
    <3>3. CASE d = t BY <2>2, <2>3, <3>2, <3>3
    <3>4. CASE d # t
      <4>1. d \in Task /\ s.task[d] = "completed" BY <1>2, <3>2, <3>4
      <4>2. QED BY <2>2, <2>3, <3>4, <4>1
    <3>5. QED BY <3>3, <3>4
  <2>4. CASE task' = s.task BY <1>3, <2>4 DEF Waits
  <2>5. QED BY <2>1, <2>3, <2>4 DEF Waits
<1>6. CASE KernelResume
  <2> DEFINE r == [Rows EXCEPT !.mission = "ready"]
  <2>1. r.task = task /\ r \in RowSet
    BY <1>1 DEF RowSet, MissionStatus, ExecutionStatus, PreparationStatus
  <2>2. task' = Refreshed(r).task BY <1>6 DEF KernelResume, Commit
  <2> HIDE DEF r
  <2>3. Refreshed(r).task = [t \in Task |->
          CASE r.task[t] = "pending" /\ \A d \in Named[t] : r.task[d] = "completed" -> "ready"
            [] r.task[t] = "ready" /\ \E d \in Named[t] : r.task[d] # "completed" -> "pending"
            [] OTHER -> r.task[t]]
    BY <2>1 DEF Refreshed, RowSet
  <2>4. ASSUME NEW t \in Task, task[t] = "pending", task'[t] = "ready", NEW d \in Deps[t]
        PROVE  task'[d] = "completed"
    <3>1. task[d] = "completed" BY <2>1, <2>2, <2>3, <2>4
    <3>2. QED BY <1>2, <2>1, <2>2, <2>3, <3>1
  <2>5. QED BY <2>4 DEF Waits
<1>7. ASSUME \/ \E l \in Lease :
                  \/ Acquire(l) \/ KeepLease(l) \/ KernelLease(l)
                  \/ \E result \in {"completed", "failed"} : Report(l, result)
             \/ \E t \in Task : KernelCancel(t)
             \/ KernelPause
      PROVE  Waits
  <2>1. \/ task' = task
        \/ \E t \in Task : \E v \in TaskStatus \ {"ready"} : task' = [task EXCEPT ![t] = v]
    <3>1. ASSUME NEW l \in Lease, Acquire(l) \/ KernelLease(l)
          PROVE  task' = [task EXCEPT ![l[1]] = "running"]
      BY <1>1, <3>1 DEF Acquire, KernelLease, LeaseGiven, Commit, RowSet
    <3>2. ASSUME NEW l \in Lease, NEW result \in {"completed", "failed"}, Report(l, result)
          PROVE  task' = [task EXCEPT ![l[1]] = result]
      BY <1>1, <3>2 DEF Report, Commit, RowSet
    <3>3. ASSUME NEW t \in Task, KernelCancel(t)
          PROVE  task' = [task EXCEPT ![t] = "cancelled"]
      BY <1>1, <3>3 DEF KernelCancel, LeasesReleased, Commit, RowSet
    <3>4. CASE KernelPause
      BY <1>1, <3>4 DEF KernelPause, LeasesReleased, Commit, RowSet
    <3>5. ASSUME NEW l \in Lease, KeepLease(l)
          PROVE  task' = task
      BY <3>5 DEF KeepLease
    <3>6. \A l \in Lease : l[1] \in Task BY DEF Lease
    <3>7. QED BY <1>7, <3>1, <3>2, <3>3, <3>4, <3>5, <3>6 DEF TaskStatus
  <2>2. QED BY <1>1, <2>1 DEF Waits, RowSet
<1>8. QED BY <1>4, <1>5, <1>6, <1>7

-----------------------------------------------------------------------------
(***************************************************************************)
(* The theorems, of missions without assignments.                          *)
(***************************************************************************)
\* The rows fit at first, when there are no leases, and stay so.
LEMMA FitsInvariance ==
  ASSUME Headless
  PROVE  InterfacesSpec => []Fits
<1>1. InterfacesInit => Fits
  <2> SUFFICES ASSUME Init PROVE Fits BY DEF InterfacesInit
  <2>1. Rows \in RowSet BY InitInv, RowsType DEF Inv, Sound
  <2>2. UnfinishedOf(Rows) = {} BY DEF Init, Rows, UnfinishedOf
  <2>3. QED BY <2>1, <2>2 DEF Fits, Fit
<1>2. Fits /\ [InterfacesNext]_<<vars, interfaces>> => Fits'
  BY InterfacesProceed DEF Proceeds
<1>3. QED BY <1>1, <1>2, PTL DEF InterfacesSpec

\* Whichever interface gave a lease out, and whatever ended its task, the lease
\* is over when the task does not run.
THEOREM LeasesAreOfRunningTasks ==
  ASSUME Headless
  PROVE  InterfacesSpec => []LeaseMeansRunning
<1>1. Fits => LeaseMeansRunning
  BY DEF Fits, Fit, LeaseMeansRunning, Unfinished, UnfinishedOf, Rows
<1>2. QED BY <1>1, FitsInvariance, PTL

\* A completed task is completed for good unless the kernel cancels it.
THEOREM CompletionsStand ==
  ASSUME Headless
  PROVE  InterfacesSpec => CompletedStays
<1>1. Fits /\ [InterfacesNext]_<<vars, interfaces>> =>
        [\A t \in Task : task[t] = "completed" => task'[t] \in {"completed", "cancelled"}]_vars
  BY InterfacesProceed DEF Proceeds, After, Rows
<1>2. QED BY <1>1, FitsInvariance, PTL DEF InterfacesSpec, CompletedStays

\* The three interfaces together keep the promise of exclusive grants: a task
\* has one lease at a time, and one that is over stays over.
THEOREM WorkersKeepPromise ==
  ASSUME Headless
  PROVE  InterfacesSpec => WorkersAreExclusive
<1>1. InterfacesInit => ActiveLeases!Init
  BY DEF InterfacesInit, Init, ActiveLeases!Init, Unfinished
<1>2. Fits /\ [InterfacesNext]_<<vars, interfaces>> => [ActiveLeases!Next]_ActiveLeases!vars
  <2> SUFFICES ASSUME Fits, [InterfacesNext]_<<vars, interfaces>> PROVE ActiveLeases!Next
    BY DEF ActiveLeases!Next
  <2>1. Fits' /\ After(Rows, Rows') BY InterfacesProceed DEF Proceeds
  <2>2. lease \in [Lease -> LeaseStatus] /\ lease' \in [Lease -> LeaseStatus]
    BY <2>1 DEF Fits, RowSet, Rows
  <2>3. \A l \in Lease :
          /\ lease[l] = "absent" => lease'[l] \in {"absent", "live"}
          /\ lease[l] # "absent" => lease'[l] # "absent"
          /\ lease'[l] \in {"live", "lapsed"} => lease[l] \in {"absent", "live", "lapsed"}
    BY <2>1 DEF After, Rows
  <2> DEFINE cur == {l \in Lease : lease[l] \in {"live", "lapsed"}}
             old == {l \in Lease : lease[l] \in {"released", "expired"}}
  <2>4. \A l, m \in cur' : l[1] = m[1] => l = m
    BY <2>1 DEF Fits, Fit, UnfinishedOf, Rows
  <2>5. cur' \ cur \subseteq Lease \ old
    BY <2>2, <2>3 DEF LeaseStatus
  <2>6. old' = old \cup (cur \ cur')
    BY <2>2, <2>3 DEF LeaseStatus
  <2>7. \A a, b \in cur' : <<a, b>> \in SameTask(Lease) => a = b
    BY <2>4 DEF SameTask
  <2>8. QED
    BY <2>5, <2>6, <2>7 DEF ActiveLeases!Next, ActiveLeases!Exclusive, Unfinished
<1>3. QED
  BY <1>1, <1>2, FitsInvariance, PTL
  DEF InterfacesSpec, WorkersAreExclusive, ActiveLeases!Spec

\* Where the contracts name all dependencies, no interface starts a pending task
\* before they are completed.
THEOREM WaitingAcrossInterfaces ==
  ASSUME Headless, Named = Deps
  PROVE  InterfacesSpec => PendingWaits
<1>1. Fits /\ [InterfacesNext]_<<vars, interfaces>> =>
        [\A t \in Task : task[t] = "pending" /\ task'[t] = "ready" =>
           \A d \in Deps[t] : task'[d] = "completed"]_vars
  <2> SUFFICES ASSUME Fits, [InterfacesNext]_<<vars, interfaces>>, ~ UNCHANGED vars
               PROVE  Waits
    BY DEF Waits
  <2>1. InterfacesNext OBVIOUS
  <2>2. QED BY <2>1, DesktopsWait, RuntimesWait DEF InterfacesNext
<1>2. QED BY <1>1, FitsInvariance, PTL DEF InterfacesSpec, PendingWaits
-----------------------------------------------------------------------------
(***************************************************************************)
(* Assignments, in missions whose tasks are also assigned to desktops.     *)
(* What the other interfaces do to tasks and leases is then enough to      *)
(* break the promises about leases, but they never look at assignments,    *)
(* workers or paths, so those are kept as they are by the desktops alone.  *)
(***************************************************************************)
\* A step that changes the mission, tasks and leases only.
Aside ==
  /\ Rows' \in RowSet /\ lapsed' \subseteq Assignment
  /\ UNCHANGED <<status, held, worker, owner, assignee>>

\* From s to r, the mission, tasks and leases may change.
Beside(s, r) == r.status = s.status /\ r.held = s.held /\ r.worker = s.worker

\* Committing such rows.
LEMMA CommitAside ==
  ASSUME NEW r \in RowSet, Beside(Rows, r), Commit(r), UNCHANGED <<owner, assignee>>
  PROVE  Aside
<1>1. Rows' = r /\ lapsed' \subseteq Assignment BY CommitRows
<1>2. r.status = status /\ r.held = held /\ r.worker = worker
  BY DEF Beside, Rows
<1>3. Rows'.status = status' /\ Rows'.held = held' /\ Rows'.worker = worker'
  BY DEF Rows
<1>4. QED BY <1>1, <1>2, <1>3 DEF Aside

\* The execution runtime's scheduling, whether or not the leases fit.
LEMMA ScheduledBeside ==
  ASSUME NEW s \in RowSet
  PROVE  Scheduled(s) \in RowSet /\ Beside(s, Scheduled(s))
<1> DEFINE s0 == LeasesExpired(s)
           s1 == LeasesExpiredInBudget(s)
           r == MissionCompleted(s1)
<1>1. s0 \in RowSet /\ s0.status = s.status /\ s0.held = s.held /\ s0.worker = s.worker
  BY DEF LeasesExpired, RowSet, TaskStatus, LeaseStatus
<1>2. s1 = [s0 EXCEPT !.task = [t \in Task |->
              IF s0.task[t] # s.task[t] /\ attempts[t] >= Budget THEN "failed" ELSE s0.task[t]]]
  BY <1>1 DEF LeasesExpiredInBudget, RowSet
<1> HIDE DEF s0, s1
<1>3. /\ s1 \in RowSet
      /\ s1.status = s0.status /\ s1.held = s0.held /\ s1.worker = s0.worker
  BY <1>1, <1>2 DEF RowSet, TaskStatus
<1>4. r \in RowSet /\ r.status = s1.status /\ r.held = s1.held /\ r.worker = s1.worker
  BY <1>3 DEF MissionCompleted, RowSet, MissionStatus, ExecutionStatus, PreparationStatus
<1>5. QED BY <1>1, <1>3, <1>4 DEF Scheduled, Beside, s1

\* Running a task within one request.
LEMMA RunNextAside ==
  ASSUME TypeOK, NEW t \in Task, NEW result \in {"completed", "failed", "retryable"},
         RunNext(t, result)
  PROVE  Aside
<1> DEFINE s == Scheduled(Rows)
<1>1. s \in RowSet /\ Beside(Rows, s) BY RowsType, ScheduledBeside
<1>2. PICK again \in BOOLEAN, final \in {"completed", "failed"} :
        /\ s.task[t] = "ready"
        /\ Commit(IF again THEN s ELSE Concluded(s, t, final))
        /\ UNCHANGED <<owner, assignee>>
  <2> DEFINE more == result = "retryable" /\ Tried(t) < Budget
             last == IF result = "retryable" THEN "failed" ELSE result
  <2>1. /\ s.task[t] = "ready" /\ Commit(IF more THEN s ELSE Concluded(s, t, last))
        /\ UNCHANGED <<owner, assignee>>
    BY DEF RunNext
  <2>2. more \in BOOLEAN /\ last \in {"completed", "failed"} OBVIOUS
  <2> HIDE DEF s, more, last
  <2>3. QED BY <2>1, <2>2
<1> HIDE DEF s
<1>3. CASE again
  BY <1>1, <1>2, <1>3, CommitAside
<1>4. CASE ~ again
  <2> DEFINE r == Concluded(s, t, final)
  <2>1. r \in RowSet BY <1>1, <1>2, ConcludedType
  <2>2. Beside(s, r) BY <1>1 DEF Concluded, Beside, RowSet
  <2>3. Commit(r) BY <1>2, <1>4
  <2> HIDE DEF r
  <2>4. Beside(Rows, r) BY <1>1, <2>2 DEF Beside
  <2>5. QED BY <1>2, <2>1, <2>3, <2>4, CommitAside
<1>5. QED BY <1>3, <1>4

\* Leases that are given out, kept and reported under.
LEMMA LeaseAside ==
  ASSUME TypeOK, NEW l \in Lease,
         \/ Acquire(l) \/ KeepLease(l) \/ KernelLease(l)
         \/ \E result \in {"completed", "failed"} : Report(l, result)
  PROVE  Aside
<1>1. Rows \in RowSet /\ l[1] \in Task /\ l \in Lease BY RowsType DEF Lease
<1>2. CASE Acquire(l) \/ KernelLease(l)
  <2> DEFINE r == [Rows EXCEPT !.lease[l] = "live", !.task[l[1]] = "running",
                               !.mission = "running"]
  <2>1. [Rows.lease EXCEPT ![l] = "live"] \in [Lease -> LeaseStatus]
    BY <1>1 DEF RowSet, LeaseStatus
  <2>2. [Rows.task EXCEPT ![l[1]] = "running"] \in [Task -> TaskStatus]
    BY <1>1 DEF RowSet, TaskStatus
  <2>3. r \in RowSet /\ Beside(Rows, r)
    BY <1>1, <2>1, <2>2
    DEF RowSet, Beside, MissionStatus, ExecutionStatus, PreparationStatus
  <2>4. Commit(r) /\ UNCHANGED <<owner, assignee>>
    BY <1>2 DEF Acquire, KernelLease, LeaseGiven
  <2> HIDE DEF r
  <2>5. QED BY <2>3, <2>4, CommitAside
<1>3. CASE KeepLease(l)
  <2>1. /\ lease' = [lease EXCEPT ![l] = "live"]
        /\ UNCHANGED <<mission, task, status, held, worker, lapsed, owner, assignee>>
    BY <1>3 DEF KeepLease
  <2>2. Rows' \in RowSet BY <1>1, <2>1 DEF Rows, RowSet, LeaseStatus
  <2>3. QED BY <2>1, <2>2 DEF Aside, TypeOK
<1>4. ASSUME NEW result \in {"completed", "failed"}, Report(l, result)
      PROVE  Aside
  <2> DEFINE r == [Rows EXCEPT !.task[l[1]] = result, !.lease[l] = "released"]
  <2>1. [Rows.lease EXCEPT ![l] = "released"] \in [Lease -> LeaseStatus]
    BY <1>1 DEF RowSet, LeaseStatus
  <2>2. [Rows.task EXCEPT ![l[1]] = result] \in [Task -> TaskStatus]
    BY <1>1 DEF RowSet, TaskStatus
  <2>3. r \in RowSet /\ Beside(Rows, r) BY <1>1, <2>1, <2>2 DEF RowSet, Beside
  <2>4. Commit(r) /\ UNCHANGED <<owner, assignee>> BY <1>4 DEF Report
  <2> HIDE DEF r
  <2>5. QED BY <2>3, <2>4, CommitAside
<1>5. QED BY <1>2, <1>3, <1>4

\* Pausing, cancelling and resuming through the kernel.
LEMMA KernelAside ==
  ASSUME TypeOK, KernelPause \/ KernelResume \/ \E t \in Task : KernelCancel(t)
  PROVE  Aside
<1>1. Rows \in RowSet BY RowsType
<1>2. ASSUME NEW T \in SUBSET Task, NEW s \in RowSet, Beside(Rows, s),
             Commit(LeasesReleased(s, T)), UNCHANGED <<owner, assignee>>
      PROVE  Aside
  <2>1. LeasesReleased(s, T) \in RowSet /\ Beside(s, LeasesReleased(s, T))
    BY DEF LeasesReleased, Beside, RowSet, LeaseStatus
  <2>2. Beside(Rows, LeasesReleased(s, T)) BY <1>2, <2>1 DEF Beside
  <2>3. QED BY <1>2, <2>1, <2>2, CommitAside
<1>3. CASE KernelPause
  <2> DEFINE s == [Rows EXCEPT !.mission = "paused"]
  <2>1. s \in RowSet /\ Beside(Rows, s)
    BY <1>1 DEF RowSet, Beside, MissionStatus, ExecutionStatus, PreparationStatus
  <2>2. Commit(LeasesReleased(s, Task)) /\ UNCHANGED <<owner, assignee>>
    BY <1>3 DEF KernelPause
  <2> HIDE DEF s
  <2>3. QED BY <1>2, <2>1, <2>2
<1>4. ASSUME NEW t \in Task, KernelCancel(t)
      PROVE  Aside
  <2> DEFINE s == [Rows EXCEPT !.task[t] = "cancelled"]
  <2>1. [Rows.task EXCEPT ![t] = "cancelled"] \in [Task -> TaskStatus]
    BY <1>1 DEF RowSet, TaskStatus
  <2>2. s \in RowSet /\ Beside(Rows, s) BY <1>1, <2>1 DEF RowSet, Beside
  <2>3. Commit(LeasesReleased(s, {t})) /\ UNCHANGED <<owner, assignee>>
    BY <1>4 DEF KernelCancel
  <2> HIDE DEF s
  <2>4. QED BY <1>2, <2>2, <2>3
<1>5. CASE KernelResume
  <2> DEFINE s == [Rows EXCEPT !.mission = "ready"]
             r == Refreshed(s)
  <2>1. s \in RowSet /\ Beside(Rows, s)
    BY <1>1 DEF RowSet, Beside, MissionStatus, ExecutionStatus, PreparationStatus
  <2>2. Commit(r) /\ UNCHANGED <<owner, assignee>> BY <1>5 DEF KernelResume
  <2> HIDE DEF s
  <2>3. r \in RowSet /\ Beside(s, r) BY <2>1 DEF Refreshed, Beside, RowSet, TaskStatus
  <2> HIDE DEF r
  <2>4. Beside(Rows, r) BY <2>1, <2>3 DEF Beside
  <2>5. QED BY <2>2, <2>3, <2>4, CommitAside
<1>6. QED BY <1>3, <1>4, <1>5

\* A step of the three interfaces is one of the desktops, or goes on beside them.
LEMMA InterfacesAside ==
  ASSUME TypeOK, [InterfacesNext]_<<vars, interfaces>>
  PROVE  [Next]_vars \/ Aside
<1>1. CASE UNCHANGED <<vars, interfaces>> BY <1>1
<1>2. CASE Desktops BY <1>2, Zenon DEF Desktops, DesktopReport, Next
<1>3. CASE ScheduleMission
  <2>1. Scheduled(Rows) \in RowSet /\ Beside(Rows, Scheduled(Rows))
    BY RowsType, ScheduledBeside
  <2>2. QED BY <1>3, <2>1, CommitAside DEF ScheduleMission
<1>4. ASSUME NEW l \in Lease,
             \/ Acquire(l) \/ KeepLease(l) \/ KernelLease(l)
             \/ \E result \in {"completed", "failed"} : Report(l, result)
      PROVE  Aside
  BY <1>4, LeaseAside
<1>5. ASSUME NEW t \in Task, NEW result \in {"completed", "failed", "retryable"},
             RunNext(t, result)
      PROVE  Aside
  BY <1>5, RunNextAside
<1>6. CASE KernelPause \/ KernelResume \/ \E t \in Task : KernelCancel(t)
  BY <1>6, KernelAside
<1>7. QED BY <1>1, <1>2, <1>3, <1>4, <1>5, <1>6 DEF InterfacesNext

\* What is kept of assignments, workers and paths, whoever gives out leases.
Shared == Sound(FALSE) /\ Unowned /\ Engaged(Rows, assignee) /\ HoldersWrite

\* What goes on beside the desktops leaves it alone.
LEMMA AsideShared ==
  ASSUME Shared, Aside
  PROVE  Shared' /\ Assigns(Rows, Rows')
<1>1. TypeOK' BY DEF Shared, Sound, TypeOK, Aside, RowSet, Rows
<1>2. /\ Rows'.status = Rows.status /\ Rows'.held = Rows.held /\ Rows'.worker = Rows.worker
      /\ assignee' = assignee
  BY DEF Aside, Rows
<1>3. Good(Rows', assignee', FALSE)
  BY <1>2 DEF Shared, Sound, Good, OneActive, Apart, PathsKept, Freed
<1>4. Sound(FALSE)' BY <1>1, <1>3 DEF Sound
<1>5. Engaged(Rows, assignee)' BY UnassigningEngaged DEF Shared, Aside
<1>6. Unowned' BY DEF Shared, Unowned, Aside
<1>7. Assigns(Rows, Rows') BY <1>2 DEF Assigns
<1>8. HoldersWrite' BY DEF Shared, HoldersWrite, Aside
<1>9. QED BY <1>4, <1>5, <1>6, <1>7, <1>8 DEF Shared

\* So does every step, and it moves assignments onward.
LEMMA SharedNext ==
  ASSUME Shared, [InterfacesNext]_<<vars, interfaces>>
  PROVE  Shared' /\ Assigns(Rows, Rows')
<1>1. TypeOK BY DEF Shared, Sound
<1>2. CASE Aside BY <1>2, AsideShared
<1>3. CASE [Next]_vars
  <2>1. Sound(FALSE)' BY <1>3, NextSound DEF Shared
  <2>2. Assigns(Rows, Rows') BY <1>1, <1>3, NextOnward DEF Onward
  <2>3. Engaged(Rows, assignee)' BY <1>1, <1>3, NextEngaged DEF Shared
  <2>4. Unowned' BY <1>3, NextUnowned DEF Shared
  <2>5. TypeOK' BY <2>1 DEF Sound
  <2>6. HoldersWrite' BY <1>1, <2>2, <2>5, HoldersStep DEF Shared
  <2>7. QED BY <2>1, <2>2, <2>3, <2>4, <2>6 DEF Shared
<1>4. QED BY <1>1, <1>2, <1>3, InterfacesAside

\* It holds throughout.
LEMMA SharedInvariance == InterfacesSpec => []Shared
<1>1. InterfacesInit => Shared
  <2> SUFFICES ASSUME Init PROVE Shared BY DEF InterfacesInit
  <2>1. Sound(FALSE) BY InitInv DEF Inv, Sound, Good
  <2>2. Unowned /\ Engaged(Rows, assignee) BY InitEngaged
  <2>3. HoldersWrite BY DEF Init, HoldersWrite
  <2>4. QED BY <2>1, <2>2, <2>3 DEF Shared
<1>2. Shared /\ [InterfacesNext]_<<vars, interfaces>> => Shared'
  BY SharedNext
<1>3. QED BY <1>1, <1>2, PTL DEF InterfacesSpec

\* Whatever the execution runtime and the kernel do to its tasks and leases, a
\* mission assigns no task twice at a time, reserves no file twice, keeps the
\* paths of what is assigned, and leaves no worker occupied for nothing.
THEOREM AssignmentsSurviveInterfaces ==
  InterfacesSpec => /\ []TypeOK
                    /\ []OneActiveAssignment
                    /\ []ReservationsDisjoint
                    /\ []WritersHoldPaths
                    /\ []NoWorkerLeak
<1>1. Shared => TypeOK BY DEF Shared, Sound
<1>2. Shared => OneActiveAssignment
  BY DEF Shared, Sound, Good, OneActive, Rows, OneActiveAssignment
<1>3. Shared => ReservationsDisjoint
  BY ApartDisjoint DEF Shared, Sound, Good
<1>4. Shared => WritersHoldPaths
  BY DEF Shared, Sound, Good, PathsKept, Rows, WritersHoldPaths
<1>5. Shared => NoWorkerLeak
  BY DEF Shared, Sound, Good, Freed, Rows, NoWorkerLeak
<1>6. QED BY <1>1, <1>2, <1>3, <1>4, <1>5, SharedInvariance, PTL

\* Nor do they let the scheduler exceed a limit, assign a worker twice or hand
\* work that writes to one that may not implement.
THEOREM WorkersSurviveInterfaces ==
  InterfacesSpec => /\ []WithinLimits
                    /\ ~ LateRelease => []WorkerSerial
                    /\ ~ Staffed => []WritersMayImplement
<1>1. Shared => WithinLimits BY EngagedWithin DEF Shared
<1>2. ~ LateRelease => (Shared => WorkerSerial)
  BY DEF Shared, Engaged, Serial, ActiveOf, Rows, WorkerSerial
<1>3. ~ Staffed => (Shared => WritersMayImplement)
  BY DEF Shared, Engaged, Able, ActiveOf, Rows, WritersMayImplement
<1>4. ~ LateRelease => (InterfacesSpec => []WorkerSerial)
  <2>1. CASE LateRelease BY <2>1
  <2>2. CASE ~ LateRelease
    <3>1. Shared => WorkerSerial BY <1>2, <2>2
    <3>2. InterfacesSpec => []WorkerSerial BY <3>1, SharedInvariance, PTL
    <3>3. QED BY <3>2
  <2>3. QED BY <2>1, <2>2
<1>5. ~ Staffed => (InterfacesSpec => []WritersMayImplement)
  <2>1. CASE Staffed BY <2>1
  <2>2. CASE ~ Staffed
    <3>1. Shared => WritersMayImplement BY <1>3, <2>2
    <3>2. InterfacesSpec => []WritersMayImplement BY <3>1, SharedInvariance, PTL
    <3>3. QED BY <3>2
  <2>3. QED BY <2>1, <2>2
<1>6. QED BY <1>1, <1>4, <1>5, SharedInvariance, PTL

\* Of assignments and of paths, the desktops' schedulers keep the promise of
\* exclusive grants also beside the other interfaces.
THEOREM GrantsSurviveInterfaces ==
  InterfacesSpec => AssignmentsAreExclusive /\ ReservationsAreExclusive
<1>1. InterfacesInit => ActiveAssignments!Init
  BY DEF InterfacesInit, Init, ActiveAssignments!Init, Active
<1>2. InterfacesInit => HeldPaths!Init
  BY DEF InterfacesInit, Init, HeldPaths!Init, Writing
<1>3. Shared /\ [InterfacesNext]_<<vars, interfaces>> => ActiveAssignments!Next
  <2> SUFFICES ASSUME Shared, [InterfacesNext]_<<vars, interfaces>>
               PROVE  ActiveAssignments!Next
    OBVIOUS
  <2>1. Shared' /\ Assigns(Rows, Rows') BY SharedNext
  <2>2. TypeOK /\ TypeOK' /\ OneActive(Rows')
    BY <2>1 DEF Shared, Sound, Good
  <2>3. QED BY <2>1, <2>2, AssignmentsGranted
<1>4. Shared /\ [InterfacesNext]_<<vars, interfaces>> => HeldPaths!Next
  <2> SUFFICES ASSUME Shared, [InterfacesNext]_<<vars, interfaces>>
               PROVE  HeldPaths!Next
    OBVIOUS
  <2>1. Shared' /\ Assigns(Rows, Rows') BY SharedNext
  <2>2. /\ TypeOK /\ TypeOK' /\ Apart(Rows') /\ PathsKept(Rows')
        /\ HoldersWrite /\ HoldersWrite'
    BY <2>1 DEF Shared, Sound, Good
  <2>3. QED BY <2>1, <2>2, PathsGranted
<1>5. QED
  BY <1>1, <1>2, <1>3, <1>4, SharedInvariance, PTL
  DEF InterfacesSpec, AssignmentsAreExclusive, ActiveAssignments!Spec,
      ReservationsAreExclusive, HeldPaths!Spec
=============================================================================

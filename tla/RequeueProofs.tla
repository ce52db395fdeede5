---------------------------- MODULE RequeueProofs ----------------------------
(***************************************************************************)
(* Tasks do not start too early and are not put back without a reason, for *)
(* every mission.  The argument is again about rows, pass by pass.         *)
(***************************************************************************)
EXTENDS GrantsProofs

\* What is known of a task that moves: one that waits starts once its
\* dependencies are completed, one that runs stops because something of it was
\* overdue, one that ended stays as it is, and none ends.
TaskMoves(s, r) ==
  \A t \in Task :
    /\ s.task[t] \in Terminal \/ r.task[t] \in Terminal => r.task[t] = s.task[t]
    /\ s.task[t] = "ready" => r.task[t] \in {"ready", "blocked"}
    /\ s.task[t] \in {"pending", "blocked"} =>
         \/ r.task[t] \in {"pending", "blocked"}
         \/ r.task[t] = "ready" /\ \A d \in Deps[t] : r.task[d] = "completed"
    /\ r.task[t] = "pending" => s.task[t] = "pending"
    /\ s.task[t] = "running" /\ r.task[t] # "running" =>
         \/ \E l \in Lease : l[1] = t /\ s.lease[l] = "lapsed"
         \/ \E a \in Assignment : a[1] = t /\ a \in lapsed

Moves(s, r) ==
  /\ TaskMoves(s, r)
  /\ \A l \in Lease : r.lease[l] = "lapsed" => s.lease[l] = "lapsed"
  /\ \A a \in Assignment :
       /\ s.status[a] \in Over => r.status[a] = s.status[a]
       /\ s.status[a] = "absent" /\ r.status[a] # "absent" => r.task[a[1]] # "pending"

\* Such passes compose.
LEMMA MovesTransitive ==
  ASSUME NEW s, NEW r, NEW q, Moves(s, r), Moves(r, q)
  PROVE  Moves(s, q)
<1>1. \A t \in Task : Deps[t] \subseteq Task BY DepsAssumption
<1>2. ASSUME NEW t \in Task
      PROVE  /\ s.task[t] \in Terminal \/ q.task[t] \in Terminal => q.task[t] = s.task[t]
             /\ s.task[t] = "ready" => q.task[t] \in {"ready", "blocked"}
             /\ q.task[t] = "pending" => s.task[t] = "pending"
  BY DEF Moves, TaskMoves, Terminal
<1>3. ASSUME NEW t \in Task, s.task[t] \in {"pending", "blocked"}
      PROVE  \/ q.task[t] \in {"pending", "blocked"}
             \/ q.task[t] = "ready" /\ \A d \in Deps[t] : q.task[d] = "completed"
  <2>1. CASE r.task[t] \in {"pending", "blocked"}
    BY <2>1 DEF Moves, TaskMoves
  <2>2. CASE r.task[t] = "ready" /\ \A d \in Deps[t] : r.task[d] = "completed"
    <3>1. \A d \in Deps[t] : q.task[d] = "completed"
      BY <1>1, <2>2 DEF Moves, TaskMoves, Terminal
    <3>2. QED BY <2>2, <3>1 DEF Moves, TaskMoves
  <2>3. QED BY <1>3, <2>1, <2>2 DEF Moves, TaskMoves
<1>4. ASSUME NEW t \in Task, s.task[t] = "running", q.task[t] # "running"
      PROVE  \/ \E l \in Lease : l[1] = t /\ s.lease[l] = "lapsed"
             \/ \E a \in Assignment : a[1] = t /\ a \in lapsed
  BY <1>4 DEF Moves, TaskMoves
<1>5. TaskMoves(s, q) BY <1>2, <1>3, <1>4 DEF TaskMoves
<1>6. \A a \in Assignment : s.status[a] = "absent" /\ q.status[a] # "absent" =>
                            q.task[a[1]] # "pending"
  BY DEF Moves, TaskMoves, Assignment
<1>7. QED BY <1>5, <1>6 DEF Moves

-----------------------------------------------------------------------------
(***************************************************************************)
(* The passes.                                                             *)
(***************************************************************************)
\* Dispatching moves tasks on overdue leases and on completed dependencies.
LEMMA DispatchedMoves ==
  ASSUME NEW s \in RowSet
  PROVE  Moves(s, Dispatched(s))
<1> DEFINE s1 == LeasesExpired(s)
           s2 == DependenciesReleased(s1)
           s3 == MissionUpdated(s2)
<1>1. /\ s1.status = s.status
      /\ s1.lease = [l \in Lease |->
                       IF s.lease[l] = "lapsed" THEN "expired" ELSE s.lease[l]]
      /\ s1.task = [t \in Task |->
            IF s.task[t] = "running" /\ \E l \in Lease : l[1] = t /\ s.lease[l] = "lapsed"
            THEN "ready" ELSE s.task[t]]
  BY DEF LeasesExpired, RowSet
<1>2. s1 \in RowSet
  BY DEF LeasesExpired, RowSet, TaskStatus, LeaseStatus
<1> HIDE DEF s1
<1>3. /\ s2.status = s1.status /\ s2.lease = s1.lease /\ s2 \in RowSet
      /\ s2.task = [t \in Task |->
            IF Doomed(s1, t) /\ s1.task[t] \in {"pending", "ready", "blocked"} THEN "blocked"
            ELSE IF Supplied(s1, t) /\ s1.task[t] \in {"pending", "blocked"} THEN "ready"
            ELSE s1.task[t]]
  BY <1>2 DEF DependenciesReleased, RowSet, TaskStatus
<1> HIDE DEF s2
<1>4. s3.status = s2.status /\ s3.lease = s2.lease /\ s3.task = s2.task
  BY <1>3 DEF MissionUpdated, RowSet
<1> HIDE DEF s3
<1>5. \A t \in Task : Deps[t] \subseteq Task BY DepsAssumption
<1>6. Moves(s, s1)
  BY <1>1 DEF Moves, TaskMoves, Terminal, Over
<1>7. Moves(s1, s2)
  <2>1. ASSUME NEW t \in Task, s1.task[t] \in {"pending", "blocked"}
        PROVE  \/ s2.task[t] \in {"pending", "blocked"}
               \/ s2.task[t] = "ready" /\ \A d \in Deps[t] : s2.task[d] = "completed"
    <3>1. CASE ~ Doomed(s1, t) /\ Supplied(s1, t)
      <4>1. \A d \in Deps[t] : s2.task[d] = "completed"
        BY <1>3, <1>5, <3>1 DEF Supplied
      <4>2. QED BY <1>3, <2>1, <3>1, <4>1
    <3>2. CASE Doomed(s1, t) \/ ~ Supplied(s1, t)
      BY <1>3, <2>1, <3>2
    <3>3. QED BY <3>1, <3>2
  <2>2. TaskMoves(s1, s2)
    BY <1>3, <2>1 DEF TaskMoves, Terminal
  <2>3. QED BY <1>3, <2>2 DEF Moves
<1>8. Moves(s2, s3) BY <1>4 DEF Moves, TaskMoves
<1>9. Moves(s, s) BY DEF Moves, TaskMoves
<1>10. Moves(s1, s3) BY <1>7, <1>8, MovesTransitive
<1>11. Moves(s, s3) BY <1>6, <1>10, MovesTransitive
<1>12. QED BY <1>9, <1>11 DEF Dispatched, s1, s2, s3

\* The sweeps: the first leaves tasks alone, the second puts back what runs
\* under an overdue assignment.
LEMMA SweepsMove ==
  ASSUME NEW s \in RowSet
  PROVE  Moves(s, TerminalReleased(s)) /\ Moves(s, StaleExpired(s))
<1>1. Moves(s, TerminalReleased(s))
  <2> DEFINE r == TerminalReleased(s)
  <2>1. /\ \A a \in Assignment : r.status[a] = s.status[a] \/ s.status[a] \in Active
        /\ r.lease = s.lease /\ r.task = s.task
    BY DEF TerminalReleased, RowSet, ActiveOf
  <2> HIDE DEF r
  <2>2. Moves(s, r)
    BY <2>1 DEF Moves, TaskMoves, Over, Active
  <2>3. QED BY <2>2 DEF r
<1>2. Moves(s, StaleExpired(s))
  <2> DEFINE r == StaleExpired(s)
             stale == ActiveOf(s) \cap lapsed
  <2>1. /\ \A a \in Assignment : r.status[a] = s.status[a] \/ s.status[a] \in Active
        /\ r.lease = s.lease
        /\ r.task = [t \in Task |->
              IF s.task[t] = "running" /\ \E a \in stale : a[1] = t
              THEN "ready" ELSE s.task[t]]
    BY DEF StaleExpired, RowSet, ActiveOf
  <2>2. stale \subseteq Assignment /\ stale \subseteq lapsed BY DEF ActiveOf
  <2> HIDE DEF r, stale
  <2>3. Moves(s, r)
    BY <2>1, <2>2 DEF Moves, TaskMoves, Over, Active, Terminal
  <2>4. QED BY <2>3 DEF r
<1>3. QED BY <1>1, <1>2

\* Granting leaves tasks alone, and gives nothing to tasks that wait.
LEMMA GrantedMoves ==
  ASSUME NEW s \in RowSet, NEW G \in SUBSET Candidate(s), NEW who \in [G -> Worker],
         \A t \in G : HasRow(s, t)
  PROVE  Moves(s, Granted(s, G, who))
<1> DEFINE new == {NewRow(s, t) : t \in G}
           r == Granted(s, G, who)
<1>1. \A t \in G : t \in Task /\ s.task[t] = "ready" BY DEF Candidate
<1>2. \A a \in new : s.status[a] = "absent" /\ a[1] \in G
  BY <1>1, GrantedType
<1>3. /\ \A a \in Assignment : r.status[a] = IF a \in new THEN "assigned" ELSE s.status[a]
      /\ r.lease = s.lease /\ r.task = s.task
  BY DEF Granted, RowSet
<1> HIDE DEF new, r
<1>4. Moves(s, r)
  BY <1>1, <1>2, <1>3 DEF Moves, TaskMoves, Over
<1>5. QED BY <1>4 DEF r

\* A request that ends with the scheduler.
LEMMA ScheduleFromMoves ==
  ASSUME NEW s0 \in RowSet, NEW max, ScheduleFrom(s0, max)
  PROVE  Moves(s0, Rows')
<1> DEFINE s1 == Dispatched(s0)
           s2 == TerminalReleased(s1)
           s  == StaleExpired(s2)
<1>1. s1 \in RowSet /\ Moves(s0, s1) BY DispatchedType, DispatchedMoves
<1> HIDE DEF s1
<1>2. s2 \in RowSet /\ Moves(s1, s2) BY <1>1, TerminalReleasedType, SweepsMove
<1> HIDE DEF s2
<1>3. s \in RowSet /\ Moves(s2, s) BY <1>2, StaleExpiredType, SweepsMove
<1> HIDE DEF s
<1>4. PICK G \in SUBSET Candidate(s) : \E who \in [G -> Worker] :
        (\A t \in G : HasRow(s, t)) /\ Commit(Granted(s, G, who))
  <2>1. Granting(s, max) BY DEF ScheduleFrom, s, s2, s1
  <2>2. QED BY <2>1 DEF Granting
<1>5. PICK who \in [G -> Worker] :
        (\A t \in G : HasRow(s, t)) /\ Commit(Granted(s, G, who))
  BY <1>4
<1>6. G \in SUBSET Task BY DEF Candidate
<1>7. Granted(s, G, who) \in RowSet /\ Moves(s, Granted(s, G, who))
  BY <1>3, <1>5, <1>6, GrantedType, GrantedMoves
<1>8. Rows' = Granted(s, G, who)
  BY <1>5, <1>7, CommitRows
<1>9. Moves(s0, s2) BY <1>1, <1>2, MovesTransitive
<1>10. Moves(s0, s) BY <1>3, <1>9, MovesTransitive
<1>11. QED BY <1>7, <1>8, <1>10, MovesTransitive

-----------------------------------------------------------------------------
(***************************************************************************)
(* The actions.                                                            *)
(***************************************************************************)
\* A task that is pending was never assigned: what is assigned was ready, and
\* nothing becomes pending again.
NoneWhilePending ==
  \A a \in Assignment : task[a[1]] = "pending" => status[a] = "absent"

\* What PendingWaits and NoSpuriousRequeue say of a step.
Careful ==
  \A t \in Task :
    /\ task[t] = "pending" /\ task'[t] = "ready" =>
         \A d \in Deps[t] : task'[d] = "completed"
    /\ task[t] = "running" /\ task'[t] = "ready" =>
         \/ \E l \in Lease : l[1] = t /\ lease[l] = "lapsed"
         \/ \E a \in Assignment : a[1] = t /\ (a \in lapsed \/ status'[a] = "failed")

\* Every request rewrites a few rows, to s0, and leaves the rest to passes.
Rewrites(s0) ==
  /\ Moves(s0, Rows')
  /\ \A t \in Task :
       /\ s0.task[t] = "pending" => task[t] = "pending"
       /\ task[t] = "pending" => s0.task[t] \in {"pending"} \cup Terminal
       /\ task[t] = "running" =>
            \/ s0.task[t] \in {"running"} \cup Terminal
            \/ \E a \in Assignment : a[1] = t /\ s0.status[a] = "failed"
  /\ \A l \in Lease : s0.lease[l] = "lapsed" => lease[l] = "lapsed"
  /\ \A a \in Assignment : s0.status[a] = "absent" <=> status[a] = "absent"

\* A request that rewrites no more than that is careful.
LEMMA RewritesCareful ==
  ASSUME NoneWhilePending, NEW s0, Rewrites(s0)
  PROVE  Careful /\ NoneWhilePending'
<1>1. Rows'.task = task' /\ Rows'.status = status' /\ Rows'.lease = lease' BY DEF Rows
<1>2. ASSUME NEW t \in Task, task[t] = "pending", task'[t] = "ready"
      PROVE  \A d \in Deps[t] : task'[d] = "completed"
  BY <1>1, <1>2 DEF Rewrites, Moves, TaskMoves, Terminal
<1>3. ASSUME NEW t \in Task, task[t] = "running", task'[t] = "ready"
      PROVE  \/ \E l \in Lease : l[1] = t /\ lease[l] = "lapsed"
             \/ \E a \in Assignment : a[1] = t /\ (a \in lapsed \/ status'[a] = "failed")
  <2>1. CASE s0.task[t] \in Terminal
    BY <1>1, <1>3, <2>1 DEF Rewrites, Moves, TaskMoves, Terminal
  <2>2. CASE s0.task[t] = "running"
    BY <1>1, <1>3, <2>2 DEF Rewrites, Moves, TaskMoves
  <2>3. CASE \E a \in Assignment : a[1] = t /\ s0.status[a] = "failed"
    BY <1>1, <2>3 DEF Rewrites, Moves, Over
  <2>4. QED BY <1>3, <2>1, <2>2, <2>3 DEF Rewrites
<1>4. NoneWhilePending'
  <2> SUFFICES ASSUME NEW a \in Assignment, task'[a[1]] = "pending"
               PROVE  status'[a] = "absent"
    BY DEF NoneWhilePending
  <2>1. a[1] \in Task BY DEF Assignment
  <2>2. s0.task[a[1]] = "pending" BY <1>1, <2>1 DEF Rewrites, Moves, TaskMoves
  <2>3. task[a[1]] = "pending" BY <2>1, <2>2 DEF Rewrites
  <2>4. s0.status[a] = "absent" BY <2>3 DEF Rewrites, NoneWhilePending
  <2>5. QED BY <1>1, <2>4 DEF Rewrites, Moves
<1>5. QED BY <1>2, <1>3, <1>4 DEF Careful

\* Time, heartbeats and commands on the mission leave tasks and assignments.
LEMMA IdleCareful ==
  ASSUME NoneWhilePending,
         \/ UNCHANGED vars
         \/ \E a \in Assignment : Heartbeat(a) \/ LapseAssignment(a)
         \/ \E l \in Lease : LapseLease(l)
         \/ \E command \in Commands : TransitionMission(command)
  PROVE  Careful /\ NoneWhilePending'
<1>1. task' = task /\ status' = status
  BY DEF vars, Heartbeat, LapseAssignment, LapseLease, TransitionMission
<1>2. QED BY <1>1 DEF Careful, NoneWhilePending

\* Requests without passes.
LEMMA PlainCareful ==
  ASSUME TypeOK, NoneWhilePending,
         \/ \E a \in Assignment :
              \/ Accept(a) \/ AcceptLate(a)
              \/ \E st \in {"released", "completed", "failed"} : Release(a, st)
         \/ \E l \in Lease : Claim(l)
         \/ \E t \in Task : Retry(t) \/ Skip(t)
  PROVE  Careful /\ NoneWhilePending'
<1>1. /\ task \in [Task -> TaskStatus] /\ status \in [Assignment -> AssignmentStatus]
      /\ lease \in [Lease -> LeaseStatus] /\ Rows \in RowSet
      /\ Rows.task = task /\ Rows.status = status /\ Rows.lease = lease
  BY RowsType DEF TypeOK, Rows
<1>2. Moves(Rows', Rows') BY DEF Moves, TaskMoves
<1>3. /\ \A t \in Task : \/ task'[t] = task[t]
                        \/ /\ task[t] # "running" /\ task'[t] # "pending"
                           /\ task[t] = "pending" => task'[t] \in Terminal
      /\ \A a \in Assignment : status'[a] = "absent" <=> status[a] = "absent"
      /\ \A l \in Lease : lease'[l] = "lapsed" => lease[l] = "lapsed"
  <2>1. ASSUME NEW a \in Assignment, Accept(a) \/ AcceptLate(a)
        PROVE  /\ task' = task /\ lease' = lease
               /\ \A b \in Assignment : status'[b] = "absent" <=> status[b] = "absent"
    BY <1>1, <2>1 DEF Accept, AcceptLate, Commit, RowSet
  <2>2. ASSUME NEW a \in Assignment, NEW st \in {"released", "completed", "failed"},
               Release(a, st)
        PROVE  /\ task' = task /\ lease' = lease
               /\ \A b \in Assignment : status'[b] = "absent" <=> status[b] = "absent"
    BY <1>1, <2>2 DEF Release, Ended, Commit, RowSet
  <2>3. ASSUME NEW l \in Lease, Claim(l)
        PROVE  /\ task[l[1]] = "ready" /\ task' = [task EXCEPT ![l[1]] = "running"]
               /\ status' = status /\ lease' = [lease EXCEPT ![l] = "live"]
    BY <1>1, <2>3 DEF Claim, Commit, RowSet
  <2>4. ASSUME NEW t \in Task, Retry(t) \/ Skip(t)
        PROVE  /\ \A u \in Task : \/ task'[u] = task[u]
                               \/ /\ task[u] # "running" /\ task'[u] # "pending"
                                  /\ task[u] = "pending" => task'[u] \in Terminal
               /\ status' = status /\ lease' = lease
    BY <1>1, <2>4 DEF Retry, Skip, Terminal
  <2>5. QED BY <1>1, <2>1, <2>2, <2>3, <2>4
<1>4. Rows'.task = task' /\ Rows'.status = status' /\ Rows'.lease = lease' BY DEF Rows
<1>5. Rewrites(Rows')
  BY <1>2, <1>3, <1>4 DEF Rewrites
<1>6. QED BY <1>5, RewritesCareful

\* A result under a lease ends the task and the lease, and the rest is passes.
LEMMA CompleteTaskMoves ==
  ASSUME TypeOK, NEW l \in Lease, NEW result \in {"completed", "failed"},
         CompleteTask(l, result)
  PROVE  \E r \in RowSet :
           /\ r.task = [task EXCEPT ![l[1]] = result] /\ r.status = status
           /\ r.lease = [lease EXCEPT ![l] = "released"]
           /\ Moves(r, Rows')
<1> DEFINE r == [Rows EXCEPT !.task[l[1]] = result, !.lease[l] = "released"]
<1>1. /\ Rows \in RowSet
      /\ Rows.task = task /\ Rows.status = status /\ Rows.lease = lease
  BY RowsType DEF Rows
<1>2. /\ r.task = [task EXCEPT ![l[1]] = result] /\ r.status = status
      /\ r.lease = [lease EXCEPT ![l] = "released"]
  BY <1>1 DEF RowSet
<1>3. r \in RowSet
  <2>1. [Rows.lease EXCEPT ![l] = "released"] \in [Lease -> LeaseStatus]
    BY <1>1 DEF RowSet, LeaseStatus
  <2>2. [Rows.task EXCEPT ![l[1]] = result] \in [Task -> TaskStatus]
    BY <1>1 DEF RowSet, TaskStatus
  <2>3. QED BY <1>1, <2>1, <2>2 DEF RowSet
<1>4. Commit(Dispatched(r)) BY DEF CompleteTask
<1> HIDE DEF r
<1>5. Rows' = Dispatched(r) BY <1>3, <1>4, DispatchedType, CommitRows
<1>6. Moves(r, Rows') BY <1>3, <1>5, DispatchedMoves
<1>7. QED BY <1>2, <1>3, <1>6

\* A report on an assignment ends it and says what its task becomes; the rest is
\* passes.
Reported(a, st, v) ==
  LET r == EndedWith(a, st, v) IN
  /\ r.task = [task EXCEPT ![a[1]] = v]
  /\ r.status = [status EXCEPT ![a] = st]
  /\ r.lease = lease
  /\ Moves(r, Rows')

LEMMA ReportMoves ==
  ASSUME TypeOK, NEW a \in Assignment, NEW st \in {"completed", "failed"},
         NEW v \in TaskStatus, ScheduleFrom(EndedWith(a, st, v), 4)
  PROVE  Reported(a, st, v)
<1> DEFINE r == EndedWith(a, st, v)
<1>1. /\ Rows \in RowSet
      /\ Rows.task = task /\ Rows.status = status /\ Rows.lease = lease
  BY RowsType DEF Rows
<1>2. r \in RowSet BY EndedType
<1>3. /\ r.task = [task EXCEPT ![a[1]] = v] /\ r.status = [status EXCEPT ![a] = st]
      /\ r.lease = lease
  BY <1>1 DEF Ended, EndedWith, RowSet
<1> HIDE DEF r
<1>4. Moves(r, Rows') BY <1>2, ScheduleFromMoves DEF r
<1>5. QED BY <1>3, <1>4 DEF Reported, r

\* What a completion makes of the task.
LEMMA CompletionReports ==
  ASSUME TypeOK, NEW a \in Assignment, CompleteAssignment(a)
  PROVE  \E v \in TaskStatus :
           /\ v = IF task[a[1]] = "running" THEN "completed" ELSE task[a[1]]
           /\ ScheduleFrom(EndedWith(a, "completed", v), 4)
<1> DEFINE v == IF task[a[1]] = "running" THEN "completed" ELSE task[a[1]]
<1>1. v \in TaskStatus BY DEF TypeOK, Assignment, TaskStatus
<1>2. Ended(a, "completed").task = task
  BY RowsType DEF Ended, Rows
<1>3. [Ended(a, "completed") EXCEPT
         !.task[a[1]] = IF @ = "running" THEN "completed" ELSE @]
        = EndedWith(a, "completed", v)
  BY <1>2 DEF EndedWith
<1>4. QED BY <1>1, <1>3 DEF CompleteAssignment

\* Requests that run the dispatcher or the scheduler on the rows as they are, or
\* after a result.
LEMMA PassesCareful ==
  ASSUME TypeOK, NoneWhilePending,
         \/ Dispatch \/ Schedule \/ GetState
         \/ \E l \in Lease : \E result \in {"completed", "failed"} : CompleteTask(l, result)
  PROVE  Careful /\ NoneWhilePending'
<1>1. /\ Rows \in RowSet
      /\ Rows.task = task /\ Rows.status = status /\ Rows.lease = lease
  BY RowsType DEF Rows
<1>2. CASE Dispatch \/ Schedule \/ GetState
  <2>1. Moves(Rows, Rows')
    <3>1. CASE Dispatch
      <4>1. Rows' = Dispatched(Rows)
        BY <1>1, <3>1, DispatchedType, CommitRows DEF Dispatch
      <4>2. QED BY <1>1, <4>1, DispatchedMoves
    <3>2. CASE Schedule
      BY <1>1, <3>2, ScheduleFromMoves DEF Schedule
    <3>3. CASE GetState
      BY <1>1, <3>3, ScheduleFromMoves DEF GetState
    <3>4. QED BY <1>2, <3>1, <3>2, <3>3
  <2>2. Rewrites(Rows) BY <1>1, <2>1 DEF Rewrites
  <2>3. QED BY <2>2, RewritesCareful
<1>3. ASSUME NEW l \in Lease, NEW result \in {"completed", "failed"}, CompleteTask(l, result)
      PROVE  Careful /\ NoneWhilePending'
  <2>1. l[1] \in Task /\ task[l[1]] = "running"
    BY <1>3 DEF Lease, CompleteTask
  <2>2. PICK r \in RowSet :
          /\ r.task = [task EXCEPT ![l[1]] = result] /\ r.status = status
          /\ r.lease = [lease EXCEPT ![l] = "released"]
          /\ Moves(r, Rows')
    BY <1>3, CompleteTaskMoves
  <2>3. Rewrites(r)
    BY <1>1, <2>1, <2>2 DEF Rewrites, Terminal, RowSet
  <2>4. QED BY <2>3, RewritesCareful
<1>4. QED BY <1>2, <1>3

\* Reports on an assignment, which only a task that is not pending has.
LEMMA ReportCareful ==
  ASSUME TypeOK, NoneWhilePending, NEW a \in Assignment,
         CompleteAssignment(a) \/ \E retryable \in BOOLEAN : FailAssignment(a, retryable)
  PROVE  Careful /\ NoneWhilePending'
<1>1. /\ Rows \in RowSet
      /\ Rows.task = task /\ Rows.status = status /\ Rows.lease = lease
  BY RowsType DEF Rows
<1>2. a[1] \in Task /\ task[a[1]] \in TaskStatus BY DEF Assignment, TypeOK
<1>3. status[a] \in Active
  BY DEF CompleteAssignment, FailAssignment
<1>4. task[a[1]] # "pending"
  BY <1>3 DEF NoneWhilePending, Active
<1>5. ASSUME NEW st \in {"completed", "failed"}, NEW v \in TaskStatus \ {"pending"},
             v = "running" => task[a[1]] = "running",
             st = "completed" => v = task[a[1]] \/ v \in Terminal,
             ScheduleFrom(EndedWith(a, st, v), 4)
      PROVE  Careful /\ NoneWhilePending'
  <2> DEFINE r == EndedWith(a, st, v)
  <2>1. Reported(a, st, v) BY <1>5, ReportMoves
  <2>2. /\ r.task = [task EXCEPT ![a[1]] = v] /\ r.status = [status EXCEPT ![a] = st]
        /\ r.lease = lease /\ Moves(r, Rows')
    BY <2>1 DEF Reported
  <2> HIDE DEF r
  <2>3. /\ \A t \in Task : t # a[1] => r.task[t] = task[t]
        /\ r.task[a[1]] = v /\ r.status[a] = st
        /\ \A b \in Assignment : r.status[b] = "absent" <=> status[b] = "absent"
    BY <1>1, <1>2, <1>3, <2>2 DEF RowSet, Active
  <2>4. Rewrites(r)
    BY <1>2, <1>4, <1>5, <2>2, <2>3 DEF Rewrites
  <2>5. QED BY <2>4, RewritesCareful
<1>6. CASE CompleteAssignment(a)
  <2>1. PICK v \in TaskStatus :
          /\ v = IF task[a[1]] = "running" THEN "completed" ELSE task[a[1]]
          /\ ScheduleFrom(EndedWith(a, "completed", v), 4)
    BY <1>6, CompletionReports
  <2>2. /\ v # "pending" /\ (v = "running" => task[a[1]] = "running")
        /\ v = task[a[1]] \/ v \in Terminal
    BY <1>4, <2>1 DEF Terminal
  <2>3. QED BY <1>5, <2>1, <2>2
<1>7. ASSUME NEW retryable \in BOOLEAN, FailAssignment(a, retryable)
      PROVE  Careful /\ NoneWhilePending'
  <2> DEFINE v == IF retryable THEN "ready" ELSE "failed"
  <2>1. v \in TaskStatus \ {"pending"} /\ v # "running" BY DEF TaskStatus
  <2>2. ScheduleFrom(EndedWith(a, "failed", v), 4)
    BY <1>7 DEF FailAssignment, EndedWith
  <2> HIDE DEF v
  <2>3. QED BY <1>5, <2>1, <2>2
<1>8. QED BY <1>6, <1>7

\* Every step is careful.
LEMMA NextCareful ==
  ASSUME TypeOK, NoneWhilePending, [Next]_vars
  PROVE  Careful /\ NoneWhilePending'
<1>1. ASSUME NEW a \in Assignment,
             \/ Accept(a)
             \/ AcceptLate(a)
             \/ Heartbeat(a)
             \/ \E st \in {"released", "completed", "failed"} : Release(a, st)
             \/ CompleteAssignment(a)
             \/ \E retryable \in BOOLEAN : FailAssignment(a, retryable)
             \/ LapseAssignment(a)
      PROVE  Careful /\ NoneWhilePending'
  BY <1>1, IdleCareful, PlainCareful, ReportCareful
<1>2. ASSUME NEW l \in Lease,
             \/ Claim(l)
             \/ \E result \in {"completed", "failed"} : CompleteTask(l, result)
             \/ LapseLease(l)
      PROVE  Careful /\ NoneWhilePending'
  BY <1>2, IdleCareful, PlainCareful, PassesCareful
<1>3. CASE \/ Dispatch \/ Schedule \/ GetState
           \/ \E t \in Task : Retry(t) \/ Skip(t)
           \/ \E command \in Commands : TransitionMission(command)
           \/ UNCHANGED vars
  BY <1>3, IdleCareful, PlainCareful, PassesCareful
<1>4. QED BY <1>1, <1>2, <1>3 DEF Next

-----------------------------------------------------------------------------
(***************************************************************************)
(* The theorems.                                                           *)
(***************************************************************************)
\* A pending task never has an assignment.
LEMMA PendingInvariance == Spec => []NoneWhilePending
<1>1. Init => NoneWhilePending
  BY DEF Init, NoneWhilePending
<1>2. TypeOK /\ NoneWhilePending /\ [Next]_vars => NoneWhilePending'
  BY NextCareful
<1>3. QED BY <1>1, <1>2, TypeCorrect, PTL DEF Spec

\* A pending task becomes ready only with its dependencies completed, in every
\* graph of dependencies and with every operator.
THEOREM PendingTasksWait == Spec => PendingWaits
<1>1. TypeOK /\ NoneWhilePending /\ [Next]_vars =>
        [\A t \in Task : task[t] = "pending" /\ task'[t] = "ready" =>
           \A d \in Deps[t] : task'[d] = "completed"]_vars
  BY NextCareful DEF Careful
<1>2. QED
  BY <1>1, TypeCorrect, PendingInvariance, PTL DEF Spec, PendingWaits

\* A running task is put back only for a lease or an assignment that was overdue
\* or a failure that was reported.
THEOREM RequeuesHaveReasons == Spec => NoSpuriousRequeue
<1>1. TypeOK /\ NoneWhilePending /\ [Next]_vars =>
        [\A t \in Task : task[t] = "running" /\ task'[t] = "ready" =>
           \/ \E l \in Lease : l[1] = t /\ lease[l] = "lapsed"
           \/ \E a \in Assignment : a[1] = t /\ (a \in lapsed \/ status'[a] = "failed")]_vars
  BY NextCareful DEF Careful
<1>2. QED
  BY <1>1, TypeCorrect, PendingInvariance, PTL DEF Spec, NoSpuriousRequeue
=============================================================================

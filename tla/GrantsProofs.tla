---------------------------- MODULE GrantsProofs ----------------------------
(***************************************************************************)
(* The task runtime keeps the promise of ExclusiveGrants, for every        *)
(* mission: of its leases, of its assignments and of its reserved paths.   *)
(*                                                                         *)
(* That two grants do not clash is the invariant of TaskRuntimeProofs.     *)
(* What is left is that no request takes a grant back in its life, and     *)
(* that is again shown of rows, pass by pass.                              *)
(***************************************************************************)
EXTENDS TaskRuntimeProofs

Over == {"released", "completed", "failed", "expired"}  \* of assignments
Gone == {"lapsed", "released", "expired"}               \* of leases

\* The assignments of the rows r may follow those of the rows s: what exists
\* stays, what is new is assigned, what is accepted is not assigned again, what is
\* over stays so, and paths are reserved for new assignments alone.
Assigns(s, r) ==
  \A a \in Assignment :
    /\ s.status[a] # "absent" => r.status[a] # "absent"
    /\ s.status[a] = "absent" => r.status[a] \in {"absent", "assigned"}
    /\ s.status[a] \in {"accepted"} \cup Over => r.status[a] \in {"accepted"} \cup Over
    /\ s.status[a] \in Over => r.status[a] \in Over
    /\ a \in r.held \ s.held => s.status[a] = "absent" /\ r.status[a] # "absent"
                                /\ Reserved(a[1]) # {}

\* And so may their leases.
Onward(s, r) ==
  /\ Assigns(s, r)
  /\ \A l \in Lease :
       /\ s.lease[l] # "absent" => r.lease[l] # "absent"
       /\ s.lease[l] = "absent" => r.lease[l] \in {"absent", "live"}
       /\ s.lease[l] \in Gone => r.lease[l] \in Gone

\* Nothing is accepted on the way from s to r.
AcceptsNone(s, r) ==
  \A a \in Assignment : r.status[a] = "accepted" => s.status[a] = "accepted"

\* Nothing begins on the way from s to r.
BeginsNone(s, r) ==
  /\ \A a \in Assignment : s.status[a] = "absent" => r.status[a] = "absent"
  /\ \A l \in Lease : s.lease[l] = "absent" => r.lease[l] = "absent"

Step(s, r) == Onward(s, r) /\ AcceptsNone(s, r)
Pass(s, r) == Step(s, r) /\ BeginsNone(s, r)

\* Passes compose, and the last of them may begin something.
LEMMA PassThenStep ==
  ASSUME NEW s, NEW r, NEW q, Pass(s, r), Step(r, q)
  PROVE  Step(s, q)
<1>1. Onward(s, q)
  BY DEF Pass, Step, Onward, Assigns, BeginsNone
<1>2. AcceptsNone(s, q)
  BY DEF Pass, Step, AcceptsNone
<1>3. QED BY <1>1, <1>2 DEF Step

\* A pass after a pass is one.
LEMMA PassTransitive ==
  ASSUME NEW s, NEW r, NEW q, Pass(s, r), Pass(r, q)
  PROVE  Pass(s, q)
<1>1. BeginsNone(s, q)
  BY DEF Pass, BeginsNone
<1>2. QED BY <1>1, PassThenStep DEF Pass

-----------------------------------------------------------------------------
(***************************************************************************)
(* The passes.                                                             *)
(***************************************************************************)
\* Dispatching ends overdue leases and touches no assignment.
LEMMA DispatchedPass ==
  ASSUME NEW s \in RowSet
  PROVE  Pass(s, Dispatched(s))
<1> DEFINE s1 == LeasesExpired(s)
           s2 == DependenciesReleased(s1)
           s3 == MissionUpdated(s2)
<1>1. /\ s1.status = s.status /\ s1.held = s.held
      /\ s1.lease = [l \in Lease |->
                       IF s.lease[l] = "lapsed" THEN "expired" ELSE s.lease[l]]
  BY DEF LeasesExpired, RowSet
<1>2. s1 \in RowSet
  BY DEF LeasesExpired, RowSet, TaskStatus, LeaseStatus
<1> HIDE DEF s1
<1>3. s2.status = s1.status /\ s2.held = s1.held /\ s2.lease = s1.lease /\ s2 \in RowSet
  BY <1>2 DEF DependenciesReleased, RowSet, TaskStatus
<1> HIDE DEF s2
<1>4. s3.status = s2.status /\ s3.held = s2.held /\ s3.lease = s2.lease
  BY <1>3 DEF MissionUpdated, RowSet
<1> HIDE DEF s3
<1>5. Pass(s, s3)
  BY <1>1, <1>3, <1>4 DEF Pass, Step, BeginsNone, Onward, Assigns, AcceptsNone, Gone
<1>6. Pass(s, s)
  BY DEF Pass, Step, BeginsNone, Onward, Assigns, AcceptsNone
<1>7. QED BY <1>5, <1>6 DEF Dispatched, s1, s2, s3

\* The two sweeps end assignments and give back paths.
LEMMA SweepsPass ==
  ASSUME NEW s \in RowSet
  PROVE  Pass(s, TerminalReleased(s)) /\ Pass(s, StaleExpired(s))
<1>1. Pass(s, TerminalReleased(s))
  <2> DEFINE r == TerminalReleased(s)
  <2>1. /\ \A a \in Assignment :
             \/ r.status[a] = s.status[a]
             \/ s.status[a] \in Active /\ r.status[a] \in {"completed", "failed"}
        /\ r.held \subseteq s.held
        /\ r.lease = s.lease
    BY DEF TerminalReleased, RowSet, ActiveOf
  <2> HIDE DEF r
  <2>2. Pass(s, r)
    BY <2>1 DEF Pass, Step, BeginsNone, Onward, Assigns, AcceptsNone, Over, Active
  <2>3. QED BY <2>2 DEF r
<1>2. Pass(s, StaleExpired(s))
  <2> DEFINE r == StaleExpired(s)
  <2>1. /\ \A a \in Assignment :
             \/ r.status[a] = s.status[a]
             \/ s.status[a] \in Active /\ r.status[a] = "expired"
        /\ r.held \subseteq s.held
        /\ r.lease = s.lease
    BY DEF StaleExpired, RowSet, ActiveOf
  <2> HIDE DEF r
  <2>2. Pass(s, r)
    BY <2>1 DEF Pass, Step, BeginsNone, Onward, Assigns, AcceptsNone, Over, Active
  <2>3. QED BY <2>2 DEF r
<1>3. QED BY <1>1, <1>2

\* Granting takes rows that were not in use, and paths for them.
LEMMA GrantedStep ==
  ASSUME NEW s \in RowSet, NEW G \in SUBSET Task, NEW who \in [G -> Worker],
         \A t \in G : HasRow(s, t)
  PROVE  Step(s, Granted(s, G, who))
<1> DEFINE new == {NewRow(s, t) : t \in G}
           r == Granted(s, G, who)
<1>1. \A a \in new : s.status[a] = "absent"
  BY GrantedType
<1>2. /\ \A a \in Assignment : r.status[a] = IF a \in new THEN "assigned" ELSE s.status[a]
      /\ r.held = s.held \cup {a \in new : Reserved(a[1]) # {}}
      /\ r.lease = s.lease
  BY DEF Granted, RowSet
<1> HIDE DEF new, r
<1>3. Step(s, r)
  BY <1>1, <1>2 DEF Step, Onward, Assigns, AcceptsNone, Over
<1>4. QED BY <1>3 DEF r

\* A request that ends with the scheduler.
LEMMA ScheduleFromStep ==
  ASSUME NEW s0 \in RowSet, NEW max, ScheduleFrom(s0, max)
  PROVE  Step(s0, Rows') /\ Rows' \in RowSet
<1> DEFINE s1 == Dispatched(s0)
           s2 == TerminalReleased(s1)
           s  == StaleExpired(s2)
<1>1. s1 \in RowSet /\ Pass(s0, s1) BY DispatchedType, DispatchedPass
<1> HIDE DEF s1
<1>2. s2 \in RowSet /\ Pass(s1, s2) BY <1>1, TerminalReleasedType, SweepsPass
<1> HIDE DEF s2
<1>3. s \in RowSet /\ Pass(s2, s) BY <1>2, StaleExpiredType, SweepsPass
<1> HIDE DEF s
<1>4. PICK G \in SUBSET Candidate(s) : \E who \in [G -> Worker] :
        (\A t \in G : HasRow(s, t)) /\ Commit(Granted(s, G, who))
  <2>1. Granting(s, max) BY DEF ScheduleFrom, s, s2, s1
  <2>2. QED BY <2>1 DEF Granting
<1>5. PICK who \in [G -> Worker] :
        (\A t \in G : HasRow(s, t)) /\ Commit(Granted(s, G, who))
  BY <1>4
<1>6. G \in SUBSET Task BY DEF Candidate
<1>7. Granted(s, G, who) \in RowSet /\ Step(s, Granted(s, G, who))
  BY <1>3, <1>5, <1>6, GrantedType, GrantedStep
<1>8. Rows' = Granted(s, G, who)
  BY <1>5, <1>7, CommitRows
<1>9. Pass(s0, s2) BY <1>1, <1>2, PassTransitive
<1>10. Pass(s0, s) BY <1>3, <1>9, PassTransitive
<1>11. QED BY <1>7, <1>8, <1>10, PassThenStep

-----------------------------------------------------------------------------
(***************************************************************************)
(* The actions.                                                            *)
(***************************************************************************)
\* Where an assignment is ended by a report, before the scheduler runs.
LEMMA EndedPass ==
  ASSUME TypeOK, NEW a \in Assignment, status[a] # "absent",
         NEW st \in {"released", "completed", "failed"},
         NEW v \in TaskStatus, v = "running" => task[a[1]] = "running"
  PROVE  LET r == [Ended(a, st) EXCEPT !.task[a[1]] = v]
         IN  r \in RowSet /\ Pass(Rows, r)
<1> DEFINE r == [Ended(a, st) EXCEPT !.task[a[1]] = v]
<1>1. Rows \in RowSet BY RowsType
<1>2. r \in RowSet BY EndedType DEF EndedWith
<1>3. /\ r.status = [Rows.status EXCEPT ![a] = st]
      /\ r.held = Rows.held \ {a} /\ r.lease = Rows.lease
  BY <1>1 DEF Ended, RowSet, Rows
<1>4. Rows.status[a] # "absent" BY DEF Rows
<1> HIDE DEF r
<1>5. Pass(Rows, r)
  BY <1>1, <1>3, <1>4 DEF Pass, Step, BeginsNone, Onward, Assigns, AcceptsNone, Over, RowSet
<1>6. QED BY <1>2, <1>5 DEF r

\* A report on an assignment ends it.
LEMMA ReportStep ==
  ASSUME TypeOK, NEW a \in Assignment,
         \/ \E st \in {"released", "completed", "failed"} : Release(a, st)
         \/ CompleteAssignment(a)
         \/ \E retryable \in BOOLEAN : FailAssignment(a, retryable)
  PROVE  Step(Rows, Rows') /\ status'[a] \in Over
<1>1. a[1] \in Task BY DEF Assignment
<1>2. Rows \in RowSet BY RowsType
<1>3. task[a[1]] \in TaskStatus BY <1>1 DEF TypeOK
<1>4. ASSUME NEW st \in {"released", "completed", "failed"}, Release(a, st)
      PROVE  Step(Rows, Rows') /\ status'[a] \in Over
  <2>1. Ended(a, st) = [Ended(a, st) EXCEPT !.task[a[1]] = task[a[1]]]
    <3>1. Ended(a, st).task = Rows.task /\ Rows.task = task BY <1>2 DEF Ended, Rows
    <3>2. QED BY <1>1, <1>2, <3>1 DEF Ended, RowSet
  <2>2. status[a] # "absent" /\ Commit(Ended(a, st)) BY <1>4 DEF Release
  <2>3. Ended(a, st) \in RowSet /\ Pass(Rows, Ended(a, st))
    BY <1>3, <2>1, <2>2, EndedPass
  <2>4. Ended(a, st).status[a] = st BY <1>2 DEF Ended, RowSet
  <2>5. status' = Ended(a, st).status BY <2>2 DEF Commit
  <2>6. QED BY <2>2, <2>3, <2>4, <2>5, CommitRows DEF Pass, Over
<1>5. CASE CompleteAssignment(a)
  <2> DEFINE v == IF task[a[1]] = "running" THEN "completed" ELSE task[a[1]]
             r == [Ended(a, "completed") EXCEPT !.task[a[1]] = v]
  <2>1. v \in TaskStatus /\ (v = "running" => task[a[1]] = "running")
    BY <1>3 DEF TaskStatus
  <2>2. status[a] # "absent" BY <1>5 DEF CompleteAssignment, Active
  <2>3. r \in RowSet /\ Pass(Rows, r)
    <3> HIDE DEF v
    <3>1. QED BY <2>1, <2>2, EndedPass
  <2>4. ScheduleFrom(r, 4)
    <3>1. Ended(a, "completed").task = task BY <1>2 DEF Ended, Rows
    <3>2. [Ended(a, "completed") EXCEPT
             !.task[a[1]] = IF @ = "running" THEN "completed" ELSE @] = r
      BY <3>1
    <3>3. QED BY <1>5, <3>2 DEF CompleteAssignment
  <2>5. r.status[a] \in Over BY <1>2 DEF Ended, Over, RowSet
  <2> HIDE DEF r
  <2>6. Step(Rows, Rows') /\ Step(r, Rows')
    BY <2>3, <2>4, ScheduleFromStep, PassThenStep
  <2>7. status'[a] \in Over BY <2>5, <2>6 DEF Step, Onward, Assigns, Rows
  <2>8. QED BY <2>6, <2>7
<1>6. ASSUME NEW retryable \in BOOLEAN, FailAssignment(a, retryable)
      PROVE  Step(Rows, Rows') /\ status'[a] \in Over
  <2> DEFINE v == IF retryable THEN "ready" ELSE "failed"
             r == [Ended(a, "failed") EXCEPT !.task[a[1]] = v]
  <2>1. v \in TaskStatus /\ v # "running" BY DEF TaskStatus
  <2>2. status[a] # "absent" BY <1>6 DEF FailAssignment, Active
  <2>3. r \in RowSet /\ Pass(Rows, r)
    <3> HIDE DEF v
    <3>1. QED BY <2>1, <2>2, EndedPass
  <2>4. ScheduleFrom(r, 4) BY <1>6 DEF FailAssignment
  <2>5. r.status[a] \in Over BY <1>2 DEF Ended, Over, RowSet
  <2> HIDE DEF r
  <2>6. Step(Rows, Rows') /\ Step(r, Rows')
    BY <2>3, <2>4, ScheduleFromStep, PassThenStep
  <2>7. status'[a] \in Over BY <2>5, <2>6 DEF Step, Onward, Assigns, Rows
  <2>8. QED BY <2>6, <2>7
<1>7. QED BY <1>4, <1>5, <1>6

\* Claiming and completing under a lease.
LEMMA LeaseStep ==
  ASSUME TypeOK, NEW l \in Lease,
         \/ Claim(l)
         \/ \E result \in {"completed", "failed"} : CompleteTask(l, result)
         \/ LapseLease(l)
  PROVE  Step(Rows, Rows')
<1>1. Rows \in RowSet BY RowsType
<1>2. l[1] \in Task BY DEF Lease
<1>3. CASE Claim(l)
  <2> DEFINE r == [Rows EXCEPT !.lease[l] = "live", !.task[l[1]] = "running",
                               !.mission = "running"]
  <2>1. /\ r.status = Rows.status /\ r.held = Rows.held
        /\ r.lease = [Rows.lease EXCEPT ![l] = "live"]
    BY <1>1 DEF RowSet
  <2>2. r \in RowSet
    <3>1. [Rows.lease EXCEPT ![l] = "live"] \in [Lease -> LeaseStatus]
      BY <1>1 DEF RowSet, LeaseStatus
    <3>2. [Rows.task EXCEPT ![l[1]] = "running"] \in [Task -> TaskStatus]
      BY <1>1 DEF RowSet, TaskStatus
    <3>3. QED BY <1>1, <3>1, <3>2 DEF RowSet, MissionStatus, ExecutionStatus, PreparationStatus
  <2>3. Commit(r) /\ Rows.lease[l] = "absent" BY <1>3 DEF Claim, Rows
  <2> HIDE DEF r
  <2>4. Step(Rows, r)
    BY <1>1, <2>1, <2>3 DEF Step, Onward, Assigns, AcceptsNone, Gone, RowSet
  <2>5. QED BY <2>2, <2>3, <2>4, CommitRows
<1>4. ASSUME NEW result \in {"completed", "failed"}, CompleteTask(l, result)
      PROVE  Step(Rows, Rows')
  <2> DEFINE r == [Rows EXCEPT !.task[l[1]] = result, !.lease[l] = "released"]
  <2>1. /\ r.status = Rows.status /\ r.held = Rows.held
        /\ r.lease = [Rows.lease EXCEPT ![l] = "released"]
    BY <1>1 DEF RowSet
  <2>2. r \in RowSet
    <3>1. [Rows.lease EXCEPT ![l] = "released"] \in [Lease -> LeaseStatus]
      BY <1>1 DEF RowSet, LeaseStatus
    <3>2. [Rows.task EXCEPT ![l[1]] = result] \in [Task -> TaskStatus]
      BY <1>1 DEF RowSet, TaskStatus
    <3>3. QED BY <1>1, <3>1, <3>2 DEF RowSet
  <2>3. Commit(Dispatched(r)) /\ Rows.lease[l] = "live"
    BY <1>4 DEF CompleteTask, Rows
  <2> HIDE DEF r
  <2>4. Pass(Rows, r)
    BY <1>1, <2>1, <2>3 DEF Pass, Step, BeginsNone, Onward, Assigns, AcceptsNone, Gone, RowSet
  <2>5. Dispatched(r) \in RowSet /\ Pass(Rows, Dispatched(r))
    BY <2>2, <2>4, DispatchedType, DispatchedPass, PassTransitive
  <2>6. QED BY <2>3, <2>5, CommitRows DEF Pass
<1>5. CASE LapseLease(l)
  BY <1>1, <1>5 DEF LapseLease, Step, Onward, Assigns, AcceptsNone, Gone, Rows, RowSet
<1>6. QED BY <1>3, <1>4, <1>5

\* The requests that are not about one assignment or lease, and time.
LEMMA OtherStep ==
  ASSUME TypeOK,
         \/ Dispatch \/ Schedule \/ GetState
         \/ \E a \in Assignment : Heartbeat(a) \/ LapseAssignment(a)
         \/ \E t \in Task : Retry(t) \/ Skip(t)
         \/ \E command \in Commands : TransitionMission(command)
  PROVE  Step(Rows, Rows')
<1>1. Rows \in RowSet BY RowsType
<1>2. CASE Dispatch
  <2>1. Dispatched(Rows) \in RowSet /\ Pass(Rows, Dispatched(Rows))
    BY <1>1, DispatchedType, DispatchedPass
  <2>2. Rows' = Dispatched(Rows)
    BY <1>2, <2>1, CommitRows DEF Dispatch
  <2>3. QED BY <2>1, <2>2 DEF Pass
<1>3. CASE Schedule
  BY <1>1, <1>3, ScheduleFromStep DEF Schedule
<1>4. CASE GetState
  BY <1>1, <1>4, ScheduleFromStep DEF GetState
<1>5. ASSUME \/ \E a \in Assignment : Heartbeat(a) \/ LapseAssignment(a)
             \/ \E t \in Task : Retry(t) \/ Skip(t)
             \/ \E command \in Commands : TransitionMission(command)
      PROVE  Step(Rows, Rows')
  <2>1. UNCHANGED <<status, held, lease>>
    BY <1>5 DEF Heartbeat, LapseAssignment, Retry, Skip, TransitionMission
  <2>2. QED BY <2>1 DEF Rows, Step, Onward, Assigns, AcceptsNone
<1>6. QED BY <1>2, <1>3, <1>4, <1>5

\* Accepting late ends the assignment.
LEMMA AcceptLateStep ==
  ASSUME TypeOK, NEW a \in Assignment, AcceptLate(a)
  PROVE  Step(Rows, Rows')
<1>1. Rows \in RowSet BY RowsType
<1>2. /\ status[a] = "assigned" /\ status' = [status EXCEPT ![a] = "expired"]
      /\ held' = held /\ lease' = lease
  BY <1>1 DEF AcceptLate, Commit, Rows, RowSet
<1>3. status \in [Assignment -> AssignmentStatus] BY DEF TypeOK
<1>4. QED BY <1>2, <1>3 DEF Step, Onward, Assigns, AcceptsNone, Over, Rows

\* Accepting in time accepts this assignment and no other.
LEMMA AcceptOnward ==
  ASSUME TypeOK, NEW a \in Assignment, Accept(a)
  PROVE  /\ Onward(Rows, Rows')
         /\ status' = [status EXCEPT ![a] = "accepted"]
<1>1. Rows \in RowSet BY RowsType
<1>2. /\ status[a] = "assigned" /\ status' = [status EXCEPT ![a] = "accepted"]
      /\ held' = held /\ lease' = lease
  BY <1>1 DEF Accept, Commit, Rows, RowSet
<1>3. status \in [Assignment -> AssignmentStatus] BY DEF TypeOK
<1>4. QED BY <1>2, <1>3 DEF Onward, Assigns, Over, Rows

\* Every request and every passing of time moves the rows onward.
LEMMA NextOnward ==
  ASSUME TypeOK, [Next]_vars
  PROVE  Onward(Rows, Rows')
<1>1. CASE UNCHANGED vars
  BY <1>1 DEF vars, Rows, Onward, Assigns
<1>2. ASSUME NEW a \in Assignment,
             \/ Accept(a)
             \/ AcceptLate(a)
             \/ \E st \in {"released", "completed", "failed"} : Release(a, st)
             \/ CompleteAssignment(a)
             \/ \E retryable \in BOOLEAN : FailAssignment(a, retryable)
      PROVE  Onward(Rows, Rows')
  BY <1>2, AcceptOnward, AcceptLateStep, ReportStep DEF Step
<1>3. ASSUME NEW l \in Lease,
             \/ Claim(l)
             \/ \E result \in {"completed", "failed"} : CompleteTask(l, result)
             \/ LapseLease(l)
      PROVE  Onward(Rows, Rows')
  BY <1>3, LeaseStep DEF Step
<1>4. ASSUME \/ Dispatch \/ Schedule \/ GetState
             \/ \E a \in Assignment : Heartbeat(a) \/ LapseAssignment(a)
             \/ \E t \in Task : Retry(t) \/ Skip(t)
             \/ \E command \in Commands : TransitionMission(command)
      PROVE  Onward(Rows, Rows')
  BY <1>4, OtherStep DEF Step
<1>5. QED BY <1>1, <1>2, <1>3, <1>4 DEF Next

-----------------------------------------------------------------------------
(***************************************************************************)
(* The promises.                                                           *)
(***************************************************************************)
\* Leases that go onward and stay unique are granted exclusively.
LEMMA LeasesGranted ==
  ASSUME TypeOK, TypeOK', Onward(Rows, Rows'), OneLive(Rows')
  PROVE  LiveLeases!Next
<1>1. lease \in [Lease -> LeaseStatus] /\ lease' \in [Lease -> LeaseStatus]
  BY DEF TypeOK
<1>2. \A l \in Lease :
        /\ lease[l] # "absent" => lease'[l] # "absent"
        /\ lease[l] = "absent" => lease'[l] \in {"absent", "live"}
        /\ lease[l] \in Gone => lease'[l] \in Gone
  BY DEF Onward, Rows
<1>3. \A l, m \in Lease : lease'[l] = "live" /\ lease'[m] = "live" /\ l[1] = m[1] => l = m
  BY DEF OneLive, Rows
<1> DEFINE cur == {l \in Lease : lease[l] = "live"}
           old == {l \in Lease : lease[l] \notin {"absent", "live"}}
<1>4. cur' \ cur \subseteq Lease \ old
  BY <1>1, <1>2 DEF Gone, LeaseStatus
<1>5. old' = old \cup (cur \ cur')
  BY <1>1, <1>2 DEF Gone, LeaseStatus
<1>6. \A a, b \in cur' : <<a, b>> \in SameTask(Lease) => a = b
  BY <1>3 DEF SameTask
<1>7. QED
  BY <1>4, <1>5, <1>6 DEF LiveLeases!Next, LiveLeases!Exclusive

\* No step makes a lease live again that lapsed, was released or has expired,
\* or makes one live beside another of its task, for every number of leases.
THEOREM LeasesKeepPromise == Spec => LeasesAreExclusive
<1>1. Init => LiveLeases!Init
  BY DEF Init, LiveLeases!Init
<1>2. Inv /\ [Next]_vars => LiveLeases!Next
  BY NextInv, NextOnward, LeasesGranted DEF Inv, Sound, Good
<1>3. QED
  BY <1>1, <1>2, Invariance, PTL DEF Spec, LeasesAreExclusive, LiveLeases!Spec

\* Assignments that go onward and stay unique are granted exclusively.
LEMMA AssignmentsGranted ==
  ASSUME TypeOK, TypeOK', Assigns(Rows, Rows'), OneActive(Rows')
  PROVE  ActiveAssignments!Next
<1>1. status \in [Assignment -> AssignmentStatus] /\ status' \in [Assignment -> AssignmentStatus]
  BY DEF TypeOK
<1>2. \A a \in Assignment :
        /\ status[a] # "absent" => status'[a] # "absent"
        /\ status[a] = "absent" => status'[a] \in {"absent", "assigned"}
        /\ status[a] \in Over => status'[a] \in Over
  BY DEF Assigns, Rows
<1>3. \A a, b \in Assignment :
        status'[a] \in Active /\ status'[b] \in Active /\ a[1] = b[1] => a = b
  BY DEF OneActive, Rows
<1> DEFINE cur == {a \in Assignment : status[a] \in Active}
           old == {a \in Assignment : status[a] \notin Active \cup {"absent"}}
<1>4. cur' \ cur \subseteq Assignment \ old
  BY <1>1, <1>2 DEF Over, Active, AssignmentStatus
<1>5. old' = old \cup (cur \ cur')
  BY <1>1, <1>2 DEF Over, Active, AssignmentStatus
<1>6. \A a, b \in cur' : <<a, b>> \in SameTask(Assignment) => a = b
  BY <1>3 DEF SameTask
<1>7. QED
  BY <1>4, <1>5, <1>6 DEF ActiveAssignments!Next, ActiveAssignments!Exclusive

\* No step makes an assignment active again that was released, reported or has
\* expired, or makes one beside an active one of its task.
THEOREM AssignmentsKeepPromise == Spec => AssignmentsAreExclusive
<1>1. Init => ActiveAssignments!Init
  BY DEF Init, ActiveAssignments!Init, Active
<1>2. Inv /\ [Next]_vars => ActiveAssignments!Next
  BY NextInv, NextOnward, AssignmentsGranted DEF Inv, Sound, Good, Onward
<1>3. QED
  BY <1>1, <1>2, Invariance, PTL
  DEF Spec, AssignmentsAreExclusive, ActiveAssignments!Spec

\* Only assignments that write hold paths, and they do so from when they are
\* made.
HoldersWrite == \A a \in held : Reserved(a[1]) # {} /\ status[a] # "absent"

\* It stays so, since only new assignments are given paths.
LEMMA HoldersStep ==
  ASSUME TypeOK, TypeOK', Assigns(Rows, Rows'), HoldersWrite
  PROVE  HoldersWrite'
<1>1. held \subseteq Assignment /\ held' \subseteq Assignment
  BY DEF TypeOK
<1>2. \A a \in Assignment :
        /\ status[a] # "absent" => status'[a] # "absent"
        /\ a \in held' \ held => status'[a] # "absent" /\ Reserved(a[1]) # {}
  BY DEF Assigns, Rows
<1>3. QED BY <1>1, <1>2 DEF HoldersWrite, Reserved

\* And it is so from the start.
LEMMA HoldersWriteInvariance == Spec => []HoldersWrite
<1>1. Init => HoldersWrite
  BY DEF Init, HoldersWrite
<1>2. Inv /\ HoldersWrite /\ [Next]_vars => HoldersWrite'
  BY NextInv, NextOnward, HoldersStep DEF Inv, Sound, Onward
<1>3. QED BY <1>1, <1>2, Invariance, PTL DEF Spec

\* Reservations that go onward, stay apart and are kept are granted exclusively.
LEMMA PathsGranted ==
  ASSUME TypeOK, TypeOK', HoldersWrite, HoldersWrite',
         Assigns(Rows, Rows'), Apart(Rows'), PathsKept(Rows')
  PROVE  HeldPaths!Next
<1>1. /\ status \in [Assignment -> AssignmentStatus]
      /\ status' \in [Assignment -> AssignmentStatus]
      /\ held \subseteq Assignment /\ held' \subseteq Assignment
  BY DEF TypeOK
<1>2. \A a \in Assignment :
        /\ status[a] # "absent" => status'[a] # "absent"
        /\ status[a] = "absent" => status'[a] \in {"absent", "assigned"}
        /\ a \in held' \ held => status[a] = "absent" /\ Reserved(a[1]) # {}
  BY DEF Assigns, Rows
<1>3. \A a \in Writing : status'[a] \in Active => a \in held'
  BY DEF PathsKept, Rows, Writing
<1>4. held \subseteq Writing /\ held' \subseteq Writing
  BY <1>1 DEF HoldersWrite, Writing, Reserved
<1>5. \A a, b \in held' : Conflict(a[1], b[1]) => a = b
  BY DEF Apart, Rows
<1> DEFINE old == {a \in Writing : status[a] # "absent" /\ a \notin held}
           clash == {p \in Writing \X Writing : Conflict(p[1][1], p[2][1])}
<1>6. held' \ held \subseteq Writing \ old
  BY <1>2, <1>4 DEF Writing
<1>7. old' = old \cup (held \ held')
  <2>1. \A a \in old : a \in old'
    BY <1>2 DEF Writing, Reserved
  <2>2. \A a \in held \ held' : a \in old'
    BY <1>1, <1>2, <1>4 DEF HoldersWrite, Writing, Reserved
  <2>3. \A a \in old' : a \in old \cup (held \ held')
    BY <1>2, <1>3 DEF Writing, Reserved, Active
  <2>4. QED BY <2>1, <2>2, <2>3
<1>8. \A a, b \in held' : <<a, b>> \in clash => a = b
  BY <1>5
<1>9. QED
  BY <1>6, <1>7, <1>8 DEF HeldPaths!Next, HeldPaths!Exclusive

\* Paths are reserved whole, for new assignments, from what nobody holds, and an
\* assignment that gave its paths back never has them again.
THEOREM PathsKeepPromise == Spec => ReservationsAreExclusive
<1>1. Init => HeldPaths!Init
  BY DEF Init, HeldPaths!Init, Writing
<1>2. Inv /\ HoldersWrite /\ HoldersWrite' /\ [Next]_vars => HeldPaths!Next
  BY NextInv, NextOnward, PathsGranted DEF Inv, Sound, Good, Onward
<1>3. QED
  BY <1>1, <1>2, Invariance, HoldersWriteInvariance, PTL
  DEF Spec, ReservationsAreExclusive, HeldPaths!Spec
=============================================================================

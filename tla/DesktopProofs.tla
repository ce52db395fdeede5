---------------------------- MODULE DesktopProofs ----------------------------
(***************************************************************************)
(* The safety of the desktops, for every number of them, of tasks and of   *)
(* slots, with and without losses: desktops use the task runtime as it is, *)
(* and their journals cover the work they accepted.  And what makes the    *)
(* completion of a task final.                                             *)
(***************************************************************************)
EXTENDS Desktop, RequeueProofs

\* Somebody accepted the assignment.
Taken == {"accepted"} \cup Over

\* Phases in which a run knows that its accept was answered.
Beyond == Phase \ {"none", "accepting", "failing"}

\* Phases in which it holds the token of a lease.
Leasing == Beyond \ {"claiming", "closing"}

LeaseOf(t) == {l \in Lease : l[1] = t}

DesktopInv ==
  /\ Inv
  /\ DesktopTypeOK
  /\ JournalCoversWork
  /\ AcceptedByOne
  /\ \A p \in Poller, a \in Assignment :
       /\ run[p][a] # "none" /\ status[a] \in Active => journal[p[1]][a] # "none"
       /\ run[p][a] # "none" \/ a \in offered[p] => status[a] # "absent"
       /\ mode[p[1]] \in {"down", "recovering"} => run[p][a] = "none" /\ offered[p] = {}
       /\ run[p][a] \in Beyond => status[a] \in Taken
       /\ run[p][a] \in Leasing => token[p][a] \in LeaseOf(a[1])

-----------------------------------------------------------------------------
(***************************************************************************)
(* What desktops ask of the task runtime it can do.                        *)
(***************************************************************************)
\* Every step of a run is a request of the task runtime, or none.
LEMMA WorkingIsNext ==
  ASSUME DesktopInv, NEW p \in Poller, NEW a \in Assignment, Working(p, a)
  PROVE  [Next]_vars
<1>1. CASE RequestAccept(p, a)
  <2>1. Accept(a) \/ AcceptLate(a) \/ UNCHANGED vars
    BY <1>1 DEF RequestAccept, Denied
  <2>2. QED BY <2>1 DEF Next
<1>2. CASE RequestClaim(p, a)
  <2>1. (\E k \in 1 .. MaxLease : Claim(<<a[1], k>>)) \/ UNCHANGED vars
    BY <1>2 DEF RequestClaim, Denied
  <2>2. \A k \in 1 .. MaxLease : <<a[1], k>> \in Lease
    BY DEF Assignment, Lease
  <2>3. QED BY <2>1, <2>2 DEF Next
<1>3. CASE BeginExecution(p, a) \/ Execute(p, a) \/ Submit(p, a)
  BY <1>3 DEF BeginExecution, Execute, Submit
<1>4. CASE RequestCompleteTask(p, a)
  <2>1. CompleteTask(token[p][a], "completed") \/ UNCHANGED vars
    BY <1>4 DEF RequestCompleteTask, Denied
  <2>2. run[p][a] \in Leasing
    BY <1>4 DEF RequestCompleteTask, Leasing, Beyond, Phase
  <2>3. token[p][a] \in Lease
    BY <2>2 DEF DesktopInv, LeaseOf
  <2>4. QED BY <2>1, <2>3 DEF Next
<1>5. CASE RequestCompleteAssignment(p, a)
  <2>1. CompleteAssignment(a) \/ UNCHANGED vars
    BY <1>5 DEF RequestCompleteAssignment, Denied
  <2>2. QED BY <2>1 DEF Next
<1>6. CASE RequestFail(p, a)
  <2>1. FailAssignment(a, FALSE) \/ UNCHANGED vars
    BY <1>6 DEF RequestFail
  <2>2. QED BY <2>1 DEF Next
<1>7. QED BY <1>1, <1>2, <1>3, <1>4, <1>5, <1>6 DEF Working

\* And so is every step of everybody else, and of a desktop as a whole.
LEMMA DesktopNextIsNext ==
  ASSUME DesktopInv, [DesktopNext]_all
  PROVE  [Next]_vars
<1>1. CASE UNCHANGED all
  BY <1>1 DEF all
<1>2. CASE Around
  BY <1>2 DEF Around, Next
<1>3. ASSUME NEW p \in Poller, NEW a \in Assignment,
             Discover(p, a) \/ Working(p, a) \/ RequestHeartbeat(p, a)
      PROVE  [Next]_vars
  <2>1. CASE Working(p, a)
    BY <2>1, WorkingIsNext
  <2>2. CASE RequestHeartbeat(p, a)
    BY <2>2 DEF RequestHeartbeat, Next
  <2>3. CASE Discover(p, a)
    BY <2>3 DEF Discover
  <2>4. QED BY <1>3, <2>1, <2>2, <2>3
<1>4. ASSUME NEW p \in Poller, PollAssignments(p)
      PROVE  [Next]_vars
  BY <1>4 DEF PollAssignments
<1>5. ASSUME NEW d \in Device,
             \/ \E a \in Assignment : Recover(d, a)
             \/ Crash(d) \/ Stop(d) \/ Drained(d) \/ Start(d) \/ Recovered(d)
      PROVE  [Next]_vars
  BY <1>5 DEF Recover, Crash, Stop, Drained, ProcessEnds, Start, Recovered
<1>6. QED BY <1>1, <1>2, <1>3, <1>4, <1>5 DEF DesktopNext

-----------------------------------------------------------------------------
(***************************************************************************)
(* The journals.                                                           *)
(***************************************************************************)
\* What a request that accepts nothing does to the assignments.
LEMMA StatusOnward ==
  ASSUME Step(Rows, Rows') \/ UNCHANGED vars
  PROVE  \A a \in Assignment :
           /\ status[a] \in Taken => status'[a] \in Taken
           /\ status'[a] = "accepted" => status[a] = "accepted"
BY DEF Step, Onward, Assigns, AcceptsNone, Rows, Taken, vars

\* What DiscardOnlyEnded says of a step.
DiscardsEnded ==
  \A d \in Device, a \in Assignment :
    journal[d][a] # "none" /\ journal'[d][a] = "none" => status'[a] \notin Active

\* An assignment that was there and is over stays over.
LEMMA StaysOver ==
  ASSUME TypeOK, TypeOK', Step(Rows, Rows') \/ UNCHANGED vars
  PROVE  \A a \in Assignment :
           /\ status[a] # "absent" => status'[a] # "absent"
           /\ status[a] # "absent" /\ status'[a] \in Active => status[a] \in Active
<1>1. \A a \in Assignment : /\ status[a] \in AssignmentStatus /\ status'[a] \in AssignmentStatus
                            /\ status[a] # "absent" => status'[a] # "absent"
                            /\ status[a] \in Over => status'[a] \in Over
  BY DEF Step, Onward, Assigns, AcceptsNone, Rows, TypeOK, vars
<1>2. QED BY <1>1 DEF AssignmentStatus, Active, Over

LEMMA PollerDevice == \A p \in Poller : p[1] \in Device
BY DEF Poller

\* What a step of the run of p for a may do: it puts the run in a phase, its
\* journal entry in a stage and l in place of its token.  It gives up the entry
\* only when the assignment is over, and it gets past accepting only if it was
\* there or is alone.
RunMoves(p, a, phase, stage, l) ==
  /\ [Next]_vars
  /\ \A b \in Assignment :
       /\ status[b] # "absent" => status'[b] # "absent"
       /\ status[b] # "absent" /\ status'[b] \in Active => status[b] \in Active
       /\ status'[b] = "accepted" => b = a \/ status[b] = "accepted"
  /\ mode' = mode /\ mode[p[1]] \notin {"down", "recovering"} /\ todo' = todo
  /\ patched' \subseteq Device \X Task /\ halted' \subseteq Poller \X Assignment
  /\ offered' \in [Poller -> SUBSET Assignment]
  /\ \A q \in Poller : offered'[q] \subseteq offered[q]
  /\ run' = [run EXCEPT ![p][a] = phase]
  /\ journal' = [journal EXCEPT ![p[1]][a] = stage]
  /\ token' = [token EXCEPT ![p][a] = l]
  /\ status[a] # "absent"
  /\ stage = "none" => status'[a] \notin Active
  /\ phase \in Beyond => /\ status'[a] \in Taken
                         /\ \A q \in Poller : run[q][a] \in Beyond => q = p
  /\ phase \in Leasing => l \in LeaseOf(a[1])

\* The invariant holds after such a step.
LEMMA RunStep ==
  ASSUME DesktopInv, NEW p \in Poller, NEW a \in Assignment,
         NEW phase \in Phase, NEW stage \in Stage, NEW l \in Lease \cup {NoLease},
         RunMoves(p, a, phase, stage, l)
  PROVE  DesktopInv' /\ DiscardsEnded
<1> USE DEF RunMoves
<1>1. Inv' /\ Onward(Rows, Rows')
  BY NextInv, NextOnward DEF DesktopInv, Inv, Sound
<1>2. /\ run \in [Poller -> [Assignment -> Phase]]
      /\ journal \in [Device -> [Assignment -> Stage]]
      /\ token \in [Poller -> [Assignment -> Lease \cup {NoLease}]]
  BY DEF DesktopInv, DesktopTypeOK
<1>3. /\ \A q \in Poller, b \in Assignment :
           /\ run'[q][b] = IF q = p /\ b = a THEN phase ELSE run[q][b]
           /\ token'[q][b] = IF q = p /\ b = a THEN l ELSE token[q][b]
      /\ \A e \in Device, b \in Assignment :
           journal'[e][b] = IF e = p[1] /\ b = a THEN stage ELSE journal[e][b]
  BY <1>2, PollerDevice
<1>4. \A b \in Assignment : status[b] \in Taken => status'[b] \in Taken
  BY <1>1 DEF Onward, Assigns, Rows, Taken
<1>5. DesktopTypeOK'
  <2>1. TypeOK' BY <1>1 DEF Inv, Sound
  <2>2. /\ run' \in [Poller -> [Assignment -> Phase]]
        /\ journal' \in [Device -> [Assignment -> Stage]]
        /\ token' \in [Poller -> [Assignment -> Lease \cup {NoLease}]]
    BY <1>2, PollerDevice
  <2>3. QED BY <2>1, <2>2 DEF DesktopInv, DesktopTypeOK
<1>6. JournalCoversWork'
  <2> SUFFICES ASSUME NEW b \in Assignment, status'[b] = "accepted"
               PROVE  \E e \in Device : journal'[e][b] # "none"
    BY DEF JournalCoversWork
  <2>1. CASE b = a
    <3>1. stage # "none" BY <2>1 DEF Active
    <3>2. QED BY <1>3, <2>1, <3>1, PollerDevice
  <2>2. CASE b # a
    <3>1. status[b] = "accepted" BY <2>2
    <3>2. PICK e \in Device : journal[e][b] # "none"
      BY <3>1 DEF DesktopInv, JournalCoversWork
    <3>3. QED BY <1>3, <2>2, <3>2
  <2>3. QED BY <2>1, <2>2
<1>7. \A q \in Poller, b \in Assignment :
        run[q][b] \in Beyond <=> run[q][b] \notin {"none", "accepting", "failing"}
  BY <1>2 DEF Beyond
<1>8. AcceptedByOne'
  <2> SUFFICES ASSUME NEW q \in Poller, NEW o \in Poller, NEW b \in Assignment,
                      run'[q][b] \in Beyond, run'[o][b] \in Beyond
               PROVE  q = o
    BY <1>2, <1>3 DEF AcceptedByOne, Beyond
  <2>1. CASE b = a
    BY <1>3, <1>7, <2>1 DEF DesktopInv, AcceptedByOne
  <2>2. CASE b # a
    BY <1>3, <1>7, <2>2 DEF DesktopInv, AcceptedByOne
  <2>3. QED BY <2>1, <2>2
<1>9. \A q \in Poller, b \in Assignment :
        /\ run'[q][b] # "none" \/ b \in offered'[q] => status'[b] # "absent"
        /\ mode'[q[1]] \in {"down", "recovering"} => run'[q][b] = "none" /\ offered'[q] = {}
        /\ run'[q][b] \in Beyond => status'[b] \in Taken
        /\ run'[q][b] \in Leasing => token'[q][b] \in LeaseOf(b[1])
  BY <1>3, <1>4 DEF DesktopInv
<1>10. \A q \in Poller, b \in Assignment :
         run'[q][b] # "none" /\ status'[b] \in Active => journal'[q[1]][b] # "none"
  BY <1>3, PollerDevice DEF DesktopInv
<1>11. DiscardsEnded
  BY <1>3 DEF DiscardsEnded
<1>12. QED BY <1>1, <1>5, <1>6, <1>8, <1>9, <1>10, <1>11 DEF DesktopInv

\* Writing what is there already changes nothing.
LEMMA Rewritten ==
  ASSUME DesktopInv, NEW p \in Poller, NEW a \in Assignment
  PROVE  /\ run[p][a] \in Phase /\ journal[p[1]][a] \in Stage
         /\ token[p][a] \in Lease \cup {NoLease}
         /\ journal = [journal EXCEPT ![p[1]][a] = journal[p[1]][a]]
         /\ token = [token EXCEPT ![p][a] = token[p][a]]
         /\ run = [run EXCEPT ![p][a] = run[p][a]]
         /\ halted \subseteq Poller \X Assignment
         /\ offered \in [Poller -> SUBSET Assignment]
<1>1. /\ run \in [Poller -> [Assignment -> Phase]]
      /\ token \in [Poller -> [Assignment -> Lease \cup {NoLease}]]
      /\ journal \in [Device -> [Assignment -> Stage]]
      /\ halted \subseteq Poller \X Assignment
      /\ offered \in [Poller -> SUBSET Assignment]
  BY DEF DesktopInv, DesktopTypeOK
<1>2. p[1] \in Device BY PollerDevice
<1>3. journal = [journal EXCEPT ![p[1]][a] = journal[p[1]][a]] BY <1>1, <1>2
<1>4. token = [token EXCEPT ![p][a] = token[p][a]] BY <1>1
<1>5. run = [run EXCEPT ![p][a] = run[p][a]] BY <1>1
<1>6. QED BY <1>1, <1>2, <1>3, <1>4, <1>5

\* A step of a run that leaves its journal and token alone and ends in failing,
\* or in a phase of which it was entitled to before.
LEMMA Moved ==
  ASSUME DesktopInv, NEW p \in Poller, NEW a \in Assignment,
         Step(Rows, Rows') \/ UNCHANGED vars, [Next]_vars,
         run[p][a] # "none", UNCHANGED <<mode, offered, token, halted, todo>>,
         patched' \subseteq Device \X Task,
         NEW phase \in Phase \ {"none"}, run' = [run EXCEPT ![p][a] = phase],
         NEW stage \in Stage \ {"none"},
         journal' = journal \/ journal' = [journal EXCEPT ![p[1]][a] = stage],
         phase \in Beyond => run[p][a] \in Beyond,
         phase \in Leasing => run[p][a] \in Leasing
  PROVE  DesktopInv' /\ DiscardsEnded
<1>1. mode[p[1]] \notin {"down", "recovering"} /\ status[a] # "absent"
      /\ (status[a] \in Active => journal[p[1]][a] # "none")
  BY DEF DesktopInv
<1>2. \A b \in Assignment :
        /\ status[b] # "absent" => status'[b] # "absent"
        /\ status[b] # "absent" /\ status'[b] \in Active => status[b] \in Active
        /\ status'[b] = "accepted" => status[b] = "accepted"
  <2>1. TypeOK /\ TypeOK' BY NextInv DEF DesktopInv, Inv, Sound
  <2>2. QED BY <2>1, StaysOver, StatusOnward DEF DesktopInv
<1>3. phase \in Beyond => status'[a] \in Taken
                          /\ \A q \in Poller : run[q][a] \in Beyond => q = p
  <2>1. run[p][a] \in Beyond => status'[a] \in Taken
    BY StatusOnward DEF DesktopInv
  <2>2. QED BY <2>1 DEF DesktopInv, AcceptedByOne, Beyond
<1>4. phase \in Leasing => token[p][a] \in LeaseOf(a[1]) BY DEF DesktopInv
<1>5. token' = [token EXCEPT ![p][a] = token[p][a]] BY Rewritten
<1>6. \E st \in Stage : /\ journal' = [journal EXCEPT ![p[1]][a] = st]
                        /\ st = "none" => status'[a] \notin Active
  <2>1. CASE journal' = journal
    <3>1. /\ journal[p[1]][a] \in Stage
          /\ journal' = [journal EXCEPT ![p[1]][a] = journal[p[1]][a]]
      BY <2>1, Rewritten
    <3>2. journal[p[1]][a] = "none" => status'[a] \notin Active BY <1>1, <1>2
    <3>3. QED BY <3>1, <3>2
  <2>2. CASE journal' = [journal EXCEPT ![p[1]][a] = stage]
    BY <2>2
  <2>3. QED BY <2>1, <2>2
<1>7. PICK st \in Stage : /\ journal' = [journal EXCEPT ![p[1]][a] = st]
                          /\ st = "none" => status'[a] \notin Active
  BY <1>6
<1>8. token[p][a] \in Lease \cup {NoLease} BY Rewritten
<1>9. /\ halted' \subseteq Poller \X Assignment /\ offered' \in [Poller -> SUBSET Assignment]
      /\ \A q \in Poller : offered'[q] \subseteq offered[q]
  BY Rewritten
<1>10. RunMoves(p, a, phase, st, token[p][a])
  BY <1>1, <1>2, <1>3, <1>4, <1>5, <1>7, <1>9 DEF RunMoves
<1>11. QED
  BY <1>7, <1>8, <1>10, RunStep

\* Asking changes nothing but the answer.
LEMMA PollInv ==
  ASSUME DesktopInv, NEW p \in Poller, PollAssignments(p)
  PROVE  DesktopInv' /\ DiscardsEnded
<1>1. /\ mode[p[1]] = "polling" /\ offered' = [offered EXCEPT ![p] = Available]
      /\ UNCHANGED <<vars, mode, run, token, halted, journal, todo, patched>>
  BY DEF PollAssignments
<1>2. Inv' /\ status' = status
  <2>1. [Next]_vars BY <1>1
  <2>2. QED BY <1>1, <2>1, NextInv DEF DesktopInv, vars
<1>3. offered \in [Poller -> SUBSET Assignment] /\ Available \subseteq Assignment
      /\ \A a \in Available : status[a] # "absent"
  BY DEF DesktopInv, DesktopTypeOK, Available
<1>4. \A q \in Poller : offered'[q] = IF q = p THEN Available ELSE offered[q]
  BY <1>1, <1>3
<1>5. DesktopTypeOK'
  BY <1>1, <1>2, <1>3 DEF DesktopInv, DesktopTypeOK, Inv, Sound
<1>6. JournalCoversWork' /\ AcceptedByOne' /\ DiscardsEnded
  BY <1>1, <1>2 DEF DesktopInv, JournalCoversWork, AcceptedByOne, DiscardsEnded
<1>7. QED BY <1>1, <1>2, <1>3, <1>4, <1>5, <1>6 DEF DesktopInv

\* Taking up an assignment writes the entry first.
LEMMA DiscoverInv ==
  ASSUME DesktopInv, NEW p \in Poller, NEW a \in Assignment, Discover(p, a)
  PROVE  DesktopInv' /\ DiscardsEnded
<1>1. /\ a \in offered[p] /\ offered' = [offered EXCEPT ![p] = @ \ {a}]
      /\ UNCHANGED <<vars, mode, token, halted, todo, patched>>
      /\ \/ /\ run' = [run EXCEPT ![p][a] = "accepting"]
            /\ journal' = [journal EXCEPT ![p[1]][a] = "accepted"]
         \/ UNCHANGED <<run, journal>>
  BY DEF Discover, Advance, Note
<1>2. status' = status /\ patched \subseteq Device \X Task /\ status[a] # "absent"
      /\ mode[p[1]] \notin {"down", "recovering"}
  BY <1>1 DEF vars, DesktopInv, DesktopTypeOK
<1>3. "accepting" \in Phase /\ "accepted" \in Stage /\ "accepting" \notin Beyond
      /\ "accepting" \notin Leasing
  BY DEF Phase, Stage, Beyond, Leasing
<1>4. /\ halted \subseteq Poller \X Assignment /\ offered' \in [Poller -> SUBSET Assignment]
      /\ \A q \in Poller : offered'[q] \subseteq offered[q]
  BY <1>1, Rewritten
<1>5. CASE /\ run' = [run EXCEPT ![p][a] = "accepting"]
           /\ journal' = [journal EXCEPT ![p[1]][a] = "accepted"]
  <2>1. RunMoves(p, a, "accepting", "accepted", token[p][a])
    BY <1>1, <1>2, <1>3, <1>4, <1>5, Rewritten DEF RunMoves
  <2>2. QED BY <1>3, <2>1, RunStep, Rewritten
<1>6. CASE UNCHANGED <<run, journal>>
  <2>1. Inv'
    <3>1. [Next]_vars BY <1>1
    <3>2. QED BY <3>1, NextInv DEF DesktopInv
  <2>2. DesktopTypeOK'
    BY <1>1, <1>4, <1>6, <2>1 DEF DesktopInv, DesktopTypeOK, Inv, Sound
  <2>3. JournalCoversWork' /\ AcceptedByOne' /\ DiscardsEnded
    BY <1>2, <1>6 DEF DesktopInv, JournalCoversWork, AcceptedByOne, DiscardsEnded
  <2>4. QED BY <1>1, <1>2, <1>4, <1>6, <2>1, <2>2, <2>3 DEF DesktopInv
<1>7. QED BY <1>1, <1>5, <1>6

\* Accepting: by the only desktop that gets past it, for the assignment was
\* assigned until now.
LEMMA RequestAcceptInv ==
  ASSUME DesktopInv, NEW p \in Poller, NEW a \in Assignment, RequestAccept(p, a)
  PROVE  DesktopInv' /\ DiscardsEnded
<1>1. /\ run[p][a] = "accepting" /\ UNCHANGED <<mode, offered, token, halted, journal, todo, patched>>
      /\ mode[p[1]] \notin {"down", "recovering"}
      /\ status[a] \in Active => journal[p[1]][a] # "none"
  BY DEF RequestAccept, DesktopInv
<1>2. patched \subseteq Device \X Task BY DEF DesktopInv, DesktopTypeOK
<1>3. [Next]_vars
  BY WorkingIsNext DEF Working
<1>4. ASSUME Accept(a), NEW phase \in {"claiming", "failing"}, Advance(p, a, phase)
      PROVE  DesktopInv' /\ DiscardsEnded
  <2>1. status' = [status EXCEPT ![a] = "accepted"] /\ status[a] = "assigned"
    BY <1>4, AcceptOnward DEF Accept, DesktopInv, Inv, Sound
  <2>2. status \in [Assignment -> AssignmentStatus] BY DEF DesktopInv, Inv, Sound, TypeOK
  <2>3. \A o \in Poller : run[o][a] \notin Beyond
    BY <2>1 DEF DesktopInv, Taken, Over
  <2>4. phase \in Phase /\ phase \notin Leasing
    BY DEF Phase, Leasing, Beyond
  <2>5. RunMoves(p, a, phase, journal[p[1]][a], token[p][a])
    <3>1. /\ run' = [run EXCEPT ![p][a] = phase] /\ journal[p[1]][a] # "none"
          /\ journal' = [journal EXCEPT ![p[1]][a] = journal[p[1]][a]]
          /\ token' = [token EXCEPT ![p][a] = token[p][a]]
          /\ halted' \subseteq Poller \X Assignment
          /\ offered' \in [Poller -> SUBSET Assignment]
          /\ \A o \in Poller : offered'[o] \subseteq offered[o]
      BY <1>1, <1>4, <2>1, Rewritten DEF Advance, Active
    <3>2. \A b \in Assignment : status'[b] = IF b = a THEN "accepted" ELSE status[b]
      BY <2>1, <2>2
    <3>3. \A b \in Assignment :
            /\ status[b] # "absent" => status'[b] # "absent"
            /\ status[b] # "absent" /\ status'[b] \in Active => status[b] \in Active
            /\ status'[b] = "accepted" => b = a \/ status[b] = "accepted"
      BY <2>1, <3>2 DEF Active
    <3>4. status[a] # "absent" /\ status'[a] \in Taken BY <2>1, <3>2 DEF Taken
    <3>5. QED BY <1>1, <1>2, <1>3, <2>3, <2>4, <3>1, <3>3, <3>4 DEF RunMoves
  <2>6. QED BY <2>4, <2>5, RunStep, Rewritten
<1>5. ASSUME Step(Rows, Rows') \/ UNCHANGED vars, Advance(p, a, "failing")
      PROVE  DesktopInv' /\ DiscardsEnded
  <2>1. "failing" \in Phase \ {"none"} /\ "failing" \notin Beyond /\ "failing" \notin Leasing
        /\ "accepted" \in Stage \ {"none"}
    BY DEF Phase, Stage, Beyond, Leasing
  <2>2. run' = [run EXCEPT ![p][a] = "failing"] BY <1>5 DEF Advance
  <2>3. QED BY <1>1, <1>2, <1>3, <1>5, <2>1, <2>2, Moved
<1>6. AcceptLate(a) => Step(Rows, Rows')
  BY AcceptLateStep DEF DesktopInv, Inv, Sound
<1>7. QED
  BY <1>4, <1>5, <1>6 DEF RequestAccept, Answered, Denied

\* Claiming gives the run the token of the lease.
LEMMA RequestClaimInv ==
  ASSUME DesktopInv, NEW p \in Poller, NEW a \in Assignment, RequestClaim(p, a)
  PROVE  DesktopInv' /\ DiscardsEnded
<1>1. /\ run[p][a] = "claiming" /\ UNCHANGED <<mode, offered, todo, patched>>
      /\ mode[p[1]] \notin {"down", "recovering"} /\ status[a] # "absent"
  BY DEF RequestClaim, DesktopInv
<1>2. patched \subseteq Device \X Task BY DEF DesktopInv, DesktopTypeOK
<1>3. [Next]_vars
  BY WorkingIsNext DEF Working
<1>4. "claiming" \in Beyond /\ "starting" \in Phase /\ "failing" \in Phase \ {"none"}
      /\ "failing" \notin Beyond /\ "failing" \notin Leasing
      /\ "claimed" \in Stage \ {"none"}
  BY DEF Phase, Stage, Beyond, Leasing
<1>5. ASSUME NEW k \in 1 .. MaxLease, Claim(<<a[1], k>>), Advance(p, a, "starting"),
             token' = [token EXCEPT ![p][a] = <<a[1], k>>], Note(p[1], a, "claimed"),
             halted' = halted \ {<<p, a>>}
      PROVE  DesktopInv' /\ DiscardsEnded
  <2>1. <<a[1], k>> \in Lease /\ <<a[1], k>> \in LeaseOf(a[1])
    BY DEF Lease, LeaseOf, Assignment
  <2>2. Step(Rows, Rows') BY <1>5, <2>1, LeaseStep DEF DesktopInv, Inv, Sound
  <2>3. \A b \in Assignment :
          /\ status[b] # "absent" => status'[b] # "absent"
          /\ status[b] # "absent" /\ status'[b] \in Active => status[b] \in Active
          /\ status[b] \in Taken => status'[b] \in Taken
          /\ status'[b] = "accepted" => status[b] = "accepted"
    <3>1. TypeOK /\ TypeOK' BY <1>3, NextInv DEF DesktopInv, Inv, Sound
    <3>2. QED BY <2>2, <3>1, StaysOver, StatusOnward DEF DesktopInv
  <2>4. status'[a] \in Taken /\ \A o \in Poller : run[o][a] \in Beyond => o = p
    BY <1>1, <1>4, <2>3 DEF DesktopInv, AcceptedByOne, Beyond
  <2>5. /\ halted' \subseteq Poller \X Assignment /\ offered' \in [Poller -> SUBSET Assignment]
        /\ \A o \in Poller : offered'[o] \subseteq offered[o]
    BY <1>1, <1>5, Rewritten
  <2>6. RunMoves(p, a, "starting", "claimed", <<a[1], k>>)
    BY <1>1, <1>2, <1>3, <1>4, <1>5, <2>1, <2>3, <2>4, <2>5 DEF RunMoves, Advance, Note
  <2>7. QED BY <1>4, <2>1, <2>6, RunStep
<1>6. ASSUME Step(Rows, Rows') \/ UNCHANGED vars, Advance(p, a, "failing"),
             UNCHANGED <<token, halted, journal>>
      PROVE  DesktopInv' /\ DiscardsEnded
  <2>1. run' = [run EXCEPT ![p][a] = "failing"] BY <1>6 DEF Advance
  <2>2. QED BY <1>1, <1>2, <1>3, <1>4, <1>6, <2>1, Moved
<1>7. \A k \in 1 .. MaxLease : Claim(<<a[1], k>>) => Step(Rows, Rows')
  <2>1. \A k \in 1 .. MaxLease : <<a[1], k>> \in Lease BY DEF Lease, Assignment
  <2>2. QED BY <2>1, LeaseStep DEF DesktopInv, Inv, Sound
<1>8. QED
  BY <1>5, <1>6, <1>7 DEF RequestClaim, Denied

\* Executing, handing in and reporting under the lease: the entry stays.
LEMMA ExecutionInv ==
  ASSUME DesktopInv, NEW p \in Poller, NEW a \in Assignment,
         \/ BeginExecution(p, a) \/ Execute(p, a) \/ Submit(p, a)
         \/ RequestCompleteTask(p, a)
  PROVE  DesktopInv' /\ DiscardsEnded
<1>1. [Next]_vars
  BY WorkingIsNext DEF Working
<1>2. patched \subseteq Device \X Task BY DEF DesktopInv, DesktopTypeOK
<1>3. a[1] \in Task BY DEF Assignment
<1>4. run[p][a] \in Leasing /\ run[p][a] \in Beyond /\ run[p][a] # "none"
  BY DEF BeginExecution, Execute, Submit, RequestCompleteTask, Leasing, Beyond, Phase
<1>5. UNCHANGED <<mode, offered, token, halted, todo>> /\ patched' \subseteq Device \X Task
  <2>1. CASE Execute(p, a)
    BY <1>2, <1>3, <2>1, PollerDevice DEF Execute
  <2>2. CASE BeginExecution(p, a) \/ Submit(p, a) \/ RequestCompleteTask(p, a)
    BY <1>2, <2>2 DEF BeginExecution, Submit, RequestCompleteTask
  <2>3. QED BY <2>1, <2>2
<1>6. Step(Rows, Rows') \/ UNCHANGED vars
  <2>1. CASE RequestCompleteTask(p, a)
    <3>1. token[p][a] \in Lease BY <1>4 DEF DesktopInv, LeaseOf
    <3>2. CompleteTask(token[p][a], "completed") \/ UNCHANGED vars
      BY <2>1 DEF RequestCompleteTask, Denied
    <3>3. QED BY <3>1, <3>2, LeaseStep DEF DesktopInv, Inv, Sound
  <2>2. CASE BeginExecution(p, a) \/ Execute(p, a) \/ Submit(p, a)
    BY <2>2 DEF BeginExecution, Execute, Submit
  <2>3. QED BY <2>1, <2>2
<1>7. \E phase \in Phase \ {"none"}, stage \in Stage \ {"none"} :
        /\ run' = [run EXCEPT ![p][a] = phase]
        /\ journal' = journal \/ journal' = [journal EXCEPT ![p[1]][a] = stage]
  <2>1. CASE BeginExecution(p, a)
    BY <2>1 DEF BeginExecution, Advance, Note, Phase, Stage
  <2>2. CASE Execute(p, a)
    BY <2>2 DEF Execute, Advance, Note, Phase, Stage
  <2>3. CASE Submit(p, a)
    BY <2>3 DEF Submit, Advance, Note, Phase, Stage
  <2>4. CASE RequestCompleteTask(p, a)
    BY <2>4 DEF RequestCompleteTask, Answered, Denied, Advance, Phase, Stage
  <2>5. QED BY <2>1, <2>2, <2>3, <2>4
<1>8. PICK phase \in Phase \ {"none"}, stage \in Stage \ {"none"} :
        /\ run' = [run EXCEPT ![p][a] = phase]
        /\ journal' = journal \/ journal' = [journal EXCEPT ![p[1]][a] = stage]
  BY <1>7
<1>9. QED BY <1>1, <1>4, <1>5, <1>6, <1>8, Moved

\* The entry is given up once the backend has answered that the assignment is
\* completed, and kept by a run that fails.
LEMMA ClosingInv ==
  ASSUME DesktopInv, NEW p \in Poller, NEW a \in Assignment,
         RequestCompleteAssignment(p, a) \/ RequestFail(p, a)
  PROVE  DesktopInv' /\ DiscardsEnded
<1>1. [Next]_vars
  BY WorkingIsNext DEF Working
<1>2. patched \subseteq Device \X Task BY DEF DesktopInv, DesktopTypeOK
<1>3. /\ run[p][a] \in {"closing", "failing"} /\ UNCHANGED <<mode, offered, todo, patched>>
      /\ mode[p[1]] \notin {"down", "recovering"} /\ status[a] # "absent"
      /\ status[a] \in Active => journal[p[1]][a] # "none"
  BY DEF RequestCompleteAssignment, RequestFail, DesktopInv
<1>4. "none" \in Phase /\ "none" \notin Beyond /\ "none" \notin Leasing /\ "none" \in Stage
      /\ "failing" \in Phase \ {"none"} /\ "failing" \notin Beyond /\ "failing" \notin Leasing
      /\ "accepted" \in Stage \ {"none"}
  BY DEF Phase, Stage, Beyond, Leasing
<1>5. Step(Rows, Rows') \/ UNCHANGED vars
  <2>1. CompleteAssignment(a) \/ FailAssignment(a, FALSE) \/ UNCHANGED vars
    BY DEF RequestCompleteAssignment, RequestFail, Denied
  <2>2. QED BY <2>1, ReportStep DEF DesktopInv, Inv, Sound
<1>6. \A b \in Assignment :
        /\ status[b] # "absent" => status'[b] # "absent"
        /\ status[b] # "absent" /\ status'[b] \in Active => status[b] \in Active
        /\ status'[b] = "accepted" => status[b] = "accepted"
  <2>1. TypeOK /\ TypeOK' BY <1>1, NextInv DEF DesktopInv, Inv, Sound
  <2>2. QED BY <1>5, <2>1, StaysOver, StatusOnward DEF DesktopInv
<1>7. ASSUME Finished(p, a), NEW stage \in Stage,
             journal' = [journal EXCEPT ![p[1]][a] = stage],
             stage = "none" => status'[a] \notin Active
      PROVE  DesktopInv' /\ DiscardsEnded
  <2>1. /\ run' = [run EXCEPT ![p][a] = "none"]
        /\ token' = [token EXCEPT ![p][a] = NoLease]
        /\ halted' \subseteq Poller \X Assignment /\ offered' \in [Poller -> SUBSET Assignment]
        /\ \A o \in Poller : offered'[o] \subseteq offered[o]
    BY <1>3, <1>7, Rewritten DEF Finished, Advance
  <2>2. RunMoves(p, a, "none", stage, NoLease)
    BY <1>1, <1>2, <1>3, <1>4, <1>6, <1>7, <2>1 DEF RunMoves
  <2>3. QED BY <1>4, <1>7, <2>2, RunStep
<1>8. ASSUME Finished(p, a), UNCHANGED journal
      PROVE  DesktopInv' /\ DiscardsEnded
  <2>1. /\ journal[p[1]][a] \in Stage
        /\ journal' = [journal EXCEPT ![p[1]][a] = journal[p[1]][a]]
        /\ journal[p[1]][a] = "none" => status'[a] \notin Active
    BY <1>3, <1>6, <1>8, Rewritten
  <2>2. QED BY <1>7, <1>8, <2>1
<1>9. ASSUME Advance(p, a, "failing"), UNCHANGED <<token, halted, journal>>
      PROVE  DesktopInv' /\ DiscardsEnded
  <2>1. run' = [run EXCEPT ![p][a] = "failing"] BY <1>9 DEF Advance
  <2>2. run[p][a] # "none" BY <1>3
  <2>3. QED BY <1>1, <1>2, <1>3, <1>4, <1>5, <1>9, <2>1, <2>2, Moved
<1>10. CASE RequestFail(p, a)
  BY <1>8, <1>10 DEF RequestFail
<1>11. CASE RequestCompleteAssignment(p, a)
  <2>1. CompleteAssignment(a) \/ (status[a] = "completed" /\ UNCHANGED vars)
          => status'[a] \notin Active
    <3>1. CompleteAssignment(a) => status'[a] \in Over
      BY ReportStep DEF DesktopInv, Inv, Sound
    <3>2. QED BY <3>1 DEF Over, Active, vars
  <2>2. QED
    BY <1>4, <1>7, <1>9, <1>11, <2>1 DEF RequestCompleteAssignment, Denied, Note
<1>12. QED BY <1>10, <1>11

\* Whatever the others do, and heartbeats, leave the desktops as they are.
LEMMA ElsewhereInv ==
  ASSUME DesktopInv, [Next]_vars, Step(Rows, Rows') \/ UNCHANGED vars, UNCHANGED desktop
  PROVE  DesktopInv' /\ DiscardsEnded
<1>1. Inv' BY NextInv DEF DesktopInv
<1>2. \A a \in Assignment :
        /\ status[a] # "absent" => status'[a] # "absent"
        /\ status[a] # "absent" /\ status'[a] \in Active => status[a] \in Active
        /\ status[a] \in Taken => status'[a] \in Taken
        /\ status'[a] = "accepted" => status[a] = "accepted"
  <2>1. TypeOK /\ TypeOK' BY <1>1 DEF DesktopInv, Inv, Sound
  <2>2. QED BY <2>1, StaysOver, StatusOnward DEF DesktopInv
<1>3. /\ mode' = mode /\ offered' = offered /\ run' = run /\ token' = token
      /\ halted' = halted /\ journal' = journal /\ todo' = todo /\ patched' = patched
  BY DEF desktop
<1>4. DesktopTypeOK' BY <1>1, <1>3 DEF DesktopInv, DesktopTypeOK, Inv, Sound
<1>5. JournalCoversWork' /\ AcceptedByOne'
  BY <1>2, <1>3 DEF DesktopInv, JournalCoversWork, AcceptedByOne
<1>6. \A p \in Poller, a \in Assignment :
        /\ run'[p][a] # "none" /\ status'[a] \in Active => journal'[p[1]][a] # "none"
        /\ run'[p][a] # "none" \/ a \in offered'[p] => status'[a] # "absent"
        /\ mode'[p[1]] \in {"down", "recovering"} => run'[p][a] = "none" /\ offered'[p] = {}
        /\ run'[p][a] \in Beyond => status'[a] \in Taken
        /\ run'[p][a] \in Leasing => token'[p][a] \in LeaseOf(a[1])
  BY <1>2, <1>3 DEF DesktopInv
<1>7. DiscardsEnded BY <1>3 DEF DiscardsEnded
<1>8. QED BY <1>1, <1>4, <1>5, <1>6, <1>7 DEF DesktopInv

\* A crash loses runs, tokens and answers; a start, a stop and what follows leave
\* the runs alone.
LEMMA ModeInv ==
  ASSUME DesktopInv, NEW d \in Device,
         Crash(d) \/ Stop(d) \/ Drained(d) \/ Start(d) \/ Recovered(d)
  PROVE  DesktopInv' /\ DiscardsEnded
<1>1. UNCHANGED <<vars, journal, patched>>
  BY DEF Crash, Stop, Drained, ProcessEnds, Start, Recovered
<1>2. Inv'
  <2>1. [Next]_vars BY <1>1
  <2>2. QED BY <2>1, NextInv DEF DesktopInv
<1>3. status' = status BY <1>1 DEF vars
<1>4. /\ mode \in [Device -> Mode]
      /\ offered \in [Poller -> SUBSET Assignment]
      /\ run \in [Poller -> [Assignment -> Phase]]
      /\ token \in [Poller -> [Assignment -> Lease \cup {NoLease}]]
      /\ halted \subseteq Poller \X Assignment
      /\ journal \in [Device -> [Assignment -> Stage]]
      /\ todo \in [Device -> SUBSET Assignment]
      /\ patched \subseteq Device \X Task
  BY DEF DesktopInv, DesktopTypeOK
<1>5. /\ mode' \in [Device -> Mode] /\ \A e \in Device \ {d} : mode'[e] = mode[e]
      /\ todo' \in [Device -> SUBSET Assignment]
      /\ halted' \subseteq Poller \X Assignment
  BY <1>4 DEF Crash, Stop, Drained, ProcessEnds, Start, Recovered, Mode, Busy
<1>6. CASE Crash(d) \/ Drained(d)
  <2>1. ProcessEnds(d) BY <1>6 DEF Crash, Drained
  <2>2. \A p \in Poller :
          /\ offered'[p] = IF p[1] = d THEN {} ELSE offered[p]
          /\ run'[p] = IF p[1] = d THEN [a \in Assignment |-> "none"] ELSE run[p]
          /\ token'[p] = IF p[1] = d THEN [a \in Assignment |-> NoLease] ELSE token[p]
    BY <2>1 DEF ProcessEnds
  <2>3. /\ offered' \in [Poller -> SUBSET Assignment]
        /\ run' \in [Poller -> [Assignment -> Phase]]
        /\ token' \in [Poller -> [Assignment -> Lease \cup {NoLease}]]
    <3>1. [a \in Assignment |-> "none"] \in [Assignment -> Phase] BY DEF Phase
    <3>2. [a \in Assignment |-> NoLease] \in [Assignment -> Lease \cup {NoLease}]
      OBVIOUS
    <3>3. QED BY <1>4, <2>1, <3>1, <3>2 DEF ProcessEnds
  <2>4. DesktopTypeOK'
    BY <1>1, <1>2, <1>4, <1>5, <2>3 DEF DesktopTypeOK, Inv, Sound
  <2>5. \A p \in Poller, a \in Assignment :
          \/ run'[p][a] = "none" /\ offered'[p] = {}
          \/ /\ p[1] # d /\ mode'[p[1]] = mode[p[1]]
             /\ run'[p][a] = run[p][a] /\ token'[p][a] = token[p][a]
             /\ offered'[p] = offered[p]
    BY <1>5, <2>2, PollerDevice
  <2>6. \A p \in Poller, a \in Assignment :
          /\ run'[p][a] # "none" /\ status'[a] \in Active => journal'[p[1]][a] # "none"
          /\ run'[p][a] # "none" \/ a \in offered'[p] => status'[a] # "absent"
          /\ mode'[p[1]] \in {"down", "recovering"} => run'[p][a] = "none" /\ offered'[p] = {}
          /\ run'[p][a] \in Beyond => status'[a] \in Taken
          /\ run'[p][a] \in Leasing => token'[p][a] \in LeaseOf(a[1])
    BY <1>1, <1>3, <2>5 DEF DesktopInv, Beyond, Leasing
  <2>7. JournalCoversWork' /\ AcceptedByOne' /\ DiscardsEnded
    BY <1>1, <1>3, <2>5 DEF DesktopInv, JournalCoversWork, AcceptedByOne, DiscardsEnded
  <2>8. QED BY <1>2, <2>4, <2>6, <2>7 DEF DesktopInv
<1>7. CASE Stop(d) \/ Start(d) \/ Recovered(d)
  <2>1. run' = run /\ token' = token
    BY <1>7 DEF Stop, Start, Recovered
  <2>2. \/ offered' = offered
        \/ /\ mode'[d] = "stopping"
           /\ \E p \in Poller : p[1] = d /\ offered' = [offered EXCEPT ![p] = Available]
    BY <1>4, <1>7 DEF Stop, Start, Recovered
  <2>3. Available \subseteq Assignment /\ \A a \in Available : status[a] # "absent"
    BY DEF Available
  <2>4. offered' \in [Poller -> SUBSET Assignment]
    BY <1>4, <2>2, <2>3
  <2>5. DesktopTypeOK'
    BY <1>1, <1>2, <1>4, <1>5, <2>1, <2>4 DEF DesktopTypeOK, Inv, Sound
  <2>6. \A p \in Poller :
          \/ offered'[p] = offered[p]
          \/ offered'[p] = Available /\ p[1] = d /\ mode'[d] = "stopping"
    BY <1>4, <2>2
  <2>7. \A p \in Poller, a \in Assignment :
          mode'[p[1]] \in {"down", "recovering"} => run'[p][a] = "none" /\ offered'[p] = {}
    <3>1. mode[d] # "down" => mode'[d] \notin {"down", "recovering"}
      BY <1>4, <1>7 DEF Stop, Start, Recovered
    <3>2. QED BY <1>5, <2>1, <2>6, <3>1, PollerDevice DEF DesktopInv
  <2>8. \A p \in Poller, a \in Assignment :
          /\ run'[p][a] # "none" /\ status'[a] \in Active => journal'[p[1]][a] # "none"
          /\ run'[p][a] # "none" \/ a \in offered'[p] => status'[a] # "absent"
          /\ run'[p][a] \in Beyond => status'[a] \in Taken
          /\ run'[p][a] \in Leasing => token'[p][a] \in LeaseOf(a[1])
    BY <1>1, <1>3, <2>1, <2>3, <2>6 DEF DesktopInv
  <2>9. JournalCoversWork' /\ AcceptedByOne' /\ DiscardsEnded
    BY <1>1, <1>3, <2>1 DEF DesktopInv, JournalCoversWork, AcceptedByOne, DiscardsEnded
  <2>10. QED BY <1>2, <2>5, <2>7, <2>8, <2>9 DEF DesktopInv
<1>8. QED BY <1>6, <1>7

\* Reconciling discards an entry of an assignment that has expired, and no run
\* is there to miss it.
LEMMA RecoverInv ==
  ASSUME DesktopInv, NEW d \in Device, NEW a \in Assignment, Recover(d, a)
  PROVE  DesktopInv' /\ DiscardsEnded
<1>1. mode[d] = "recovering" /\ UNCHANGED <<vars, mode, offered, run, token, halted, patched>>
  BY DEF Recover
<1>2. Inv' /\ status' = status
  <2>1. [Next]_vars BY <1>1
  <2>2. QED BY <1>1, <2>1, NextInv DEF DesktopInv, vars
<1>3. /\ journal \in [Device -> [Assignment -> Stage]]
      /\ todo \in [Device -> SUBSET Assignment]
      /\ journal[d][a] \in Stage
      /\ journal = [journal EXCEPT ![d][a] = journal[d][a]]
  BY DEF DesktopInv, DesktopTypeOK
<1>4. \E stage \in {"none", journal[d][a]} :
        /\ journal' = [journal EXCEPT ![d][a] = stage]
        /\ stage = "none" => journal[d][a] = "none" \/ status[a] = "expired"
  <2>1. RecoveryDecision(journal[d][a], status[a], RepositoryState(d, a))
          \in {"abandoned", "recovered"} => status[a] = "expired"
    BY DEF RecoveryDecision
  <2>2. CASE UNCHANGED journal
    BY <1>3, <2>2
  <2>3. CASE Note(d, a, IF RecoveryDecision(journal[d][a], status[a], RepositoryState(d, a))
                             \in {"abandoned", "recovered"}
                        THEN "none" ELSE journal[d][a])
    BY <2>1, <2>3 DEF Note
  <2>4. QED BY <2>2, <2>3 DEF Recover
<1>5. PICK stage \in {"none", journal[d][a]} :
        /\ journal' = [journal EXCEPT ![d][a] = stage]
        /\ stage = "none" => journal[d][a] = "none" \/ status[a] = "expired"
  BY <1>4
<1>6. \A e \in Device, b \in Assignment :
        journal'[e][b] = IF e = d /\ b = a THEN stage ELSE journal[e][b]
  BY <1>3, <1>5
<1>7. journal' \in [Device -> [Assignment -> Stage]]
  BY <1>3, <1>5 DEF Stage
<1>8. todo' \in [Device -> SUBSET Assignment]
  BY <1>3 DEF Recover
<1>9. DesktopTypeOK'
  BY <1>1, <1>2, <1>7, <1>8 DEF DesktopInv, DesktopTypeOK, Inv, Sound
<1>10. JournalCoversWork'
  BY <1>2, <1>5, <1>6 DEF DesktopInv, JournalCoversWork
<1>11. AcceptedByOne' BY <1>1 DEF DesktopInv, AcceptedByOne
<1>12. \A p \in Poller, b \in Assignment :
         /\ run'[p][b] # "none" /\ status'[b] \in Active => journal'[p[1]][b] # "none"
         /\ run'[p][b] # "none" \/ b \in offered'[p] => status'[b] # "absent"
         /\ mode'[p[1]] \in {"down", "recovering"} => run'[p][b] = "none" /\ offered'[p] = {}
         /\ run'[p][b] \in Beyond => status'[b] \in Taken
         /\ run'[p][b] \in Leasing => token'[p][b] \in LeaseOf(b[1])
  BY <1>1, <1>2, <1>6, PollerDevice DEF DesktopInv
<1>13. DiscardsEnded
  BY <1>2, <1>5, <1>6 DEF DiscardsEnded, Active
<1>14. QED BY <1>2, <1>9, <1>10, <1>11, <1>12, <1>13 DEF DesktopInv

-----------------------------------------------------------------------------
(***************************************************************************)
(* Completed tasks.  What completes a task undone is another desktop, an   *)
(* answer that is lost, one that is acted on when it is no longer so, a    *)
(* run that goes on where its slot counts no more, or a mission none of    *)
(* whose schedules commits: with none of them, a task that is completed    *)
(* stays completed.                                                        *)
(***************************************************************************)
\* A poll's answer offers what is no longer to be had, and there is a slot for it.
Overtaken(p, a) ==
  /\ a \in offered[p] /\ HasCapacity(p[1], a)
  /\ ~ (status[a] = "assigned" /\ task[a[1]] = "ready")

\* Schedules commit, no run was told to stop, and no answer is acted on too late.
Calm ==
  /\ ~ Wedged
  /\ halted = {}
  /\ \A p \in Poller, a \in Assignment : ~ Overtaken(p, a)

Done == {t \in Task : task[t] = "completed"}

\* The run still expects to bring its assignment to its end.
InProgress(p, a) == run[p][a] \notin {"none", "failing"}

\* Of the runs of a task one is in progress, and the task is completed once it has
\* reported so.  A run that will report a failure which counts is of a task that
\* is not completed and that nobody is at work on.
Undisturbed ==
  \A p \in Poller, a \in Assignment :
    /\ InProgress(p, a) => (run[p][a] = "closing" <=> a[1] \in Done)
    /\ \A q \in Poller, b \in Assignment :
         InProgress(p, a) /\ InProgress(q, b) /\ a[1] = b[1] => p = q /\ a = b
    /\ run[p][a] = "failing" => status[a] # "assigned"
    /\ run[p][a] = "failing" /\ status[a] \in Active =>
         /\ a[1] \notin Done
         /\ \A q \in Poller, b \in Assignment : b[1] = a[1] => ~ InProgress(q, b)

\* Passes complete no task and leave those that are.
LEMMA MovesDone ==
  ASSUME NEW s, Moves(s, Rows')
  PROVE  Done' = {t \in Task : s.task[t] = "completed"}
BY DEF Moves, TaskMoves, Terminal, Done, Rows

\* Everybody but the reports leaves the completed tasks as they are.
LEMMA OthersDone ==
  ASSUME TypeOK,
         \/ UNCHANGED vars
         \/ Dispatch \/ Schedule \/ GetState
         \/ \E a \in Assignment : \/ Accept(a) \/ AcceptLate(a)
                                  \/ Heartbeat(a) \/ LapseAssignment(a)
         \/ \E l \in Lease : Claim(l) \/ LapseLease(l)
         \/ \E t \in Task : Retry(t) \/ Skip(t)
         \/ \E command \in Commands : TransitionMission(command)
  PROVE  Done' = Done
<1>1. /\ Rows \in RowSet /\ Rows.task = task
      /\ task \in [Task -> TaskStatus]
  BY RowsType DEF Rows, TypeOK
<1>2. CASE Dispatch \/ Schedule \/ GetState
  <2>1. CASE Dispatch
    <3>1. Rows' = Dispatched(Rows)
      BY <1>1, <2>1, DispatchedType, CommitRows DEF Dispatch
    <3>2. QED BY <1>1, <3>1, DispatchedMoves, MovesDone DEF Done
  <2>2. CASE Schedule \/ GetState
    <3>1. Moves(Rows, Rows')
      BY <1>1, <2>2, ScheduleFromMoves DEF Schedule, GetState
    <3>2. QED BY <1>1, <3>1, MovesDone DEF Done
  <2>3. QED BY <1>2, <2>1, <2>2
<1>3. ASSUME NEW a \in Assignment, Accept(a) \/ AcceptLate(a)
      PROVE  Done' = Done
  BY <1>1, <1>3 DEF Accept, AcceptLate, Commit, RowSet, Done
<1>4. ASSUME NEW l \in Lease, Claim(l)
      PROVE  Done' = Done
  <2>1. task[l[1]] = "ready" /\ task' = [task EXCEPT ![l[1]] = "running"]
    BY <1>1, <1>4 DEF Claim, Commit, RowSet
  <2>2. QED BY <1>1, <2>1 DEF Done
<1>5. ASSUME NEW t \in Task, Retry(t) \/ Skip(t)
      PROVE  Done' = Done
  BY <1>1, <1>5 DEF Retry, Skip, Done
<1>6. ASSUME \/ UNCHANGED vars
             \/ \E a \in Assignment : Heartbeat(a) \/ LapseAssignment(a)
             \/ \E l \in Lease : LapseLease(l)
             \/ \E command \in Commands : TransitionMission(command)
      PROVE  Done' = Done
  BY <1>6 DEF vars, Heartbeat, LapseAssignment, LapseLease, TransitionMission, Done
<1>7. QED BY <1>2, <1>3, <1>4, <1>5, <1>6

\* The report under a lease completes its task and no other.
LEMMA CompleteTaskDone ==
  ASSUME TypeOK, NEW l \in Lease, CompleteTask(l, "completed")
  PROVE  Done' = Done \cup {l[1]}
<1>1. task \in [Task -> TaskStatus] /\ l[1] \in Task BY DEF TypeOK, Lease
<1>2. PICK r \in RowSet : /\ r.task = [task EXCEPT ![l[1]] = "completed"]
                          /\ Moves(r, Rows')
  BY CompleteTaskMoves
<1>3. Done' = {t \in Task : r.task[t] = "completed"} BY <1>2, MovesDone
<1>4. QED BY <1>1, <1>2, <1>3 DEF Done

\* The reports on an assignment leave the completed tasks alone, if the task is
\* completed already or, for a failure, is not.
LEMMA ReportDone ==
  ASSUME TypeOK, NEW a \in Assignment,
         \/ CompleteAssignment(a) /\ a[1] \in Done
         \/ FailAssignment(a, FALSE) /\ a[1] \notin Done
  PROVE  Done' = Done
<1>1. task \in [Task -> TaskStatus] /\ a[1] \in Task BY DEF TypeOK, Assignment
<1>2. ASSUME NEW st \in {"completed", "failed"}, NEW v \in TaskStatus,
             v = "completed" <=> a[1] \in Done,
             ScheduleFrom(EndedWith(a, st, v), 4)
      PROVE  Done' = Done
  <2> DEFINE r == EndedWith(a, st, v)
  <2>1. Reported(a, st, v) BY <1>2, ReportMoves
  <2>2. r.task = [task EXCEPT ![a[1]] = v] /\ Moves(r, Rows') BY <2>1 DEF Reported
  <2> HIDE DEF r
  <2>3. Done' = {t \in Task : r.task[t] = "completed"} BY <2>2, MovesDone
  <2>4. QED BY <1>1, <1>2, <2>2, <2>3 DEF Done
<1>3. CASE CompleteAssignment(a) /\ a[1] \in Done
  <2>1. PICK v \in TaskStatus :
          /\ v = IF task[a[1]] = "running" THEN "completed" ELSE task[a[1]]
          /\ ScheduleFrom(EndedWith(a, "completed", v), 4)
    BY <1>3, CompletionReports
  <2>2. v = "completed" BY <1>3, <2>1 DEF Done
  <2>3. QED BY <1>2, <1>3, <2>1, <2>2
<1>4. CASE FailAssignment(a, FALSE) /\ a[1] \notin Done
  <2>1. "failed" \in TaskStatus BY DEF TaskStatus
  <2>2. ScheduleFrom(EndedWith(a, "failed", "failed"), 4)
    BY <1>4 DEF FailAssignment, EndedWith
  <2>3. QED BY <1>2, <1>4, <2>1, <2>2
<1>5. QED BY <1>3, <1>4

\* What dispatching does to tasks depends on the mission, the tasks and the leases
\* alone; it leaves assignments as they are.
LEMMA DispatchedAlike ==
  ASSUME NEW s \in RowSet, NEW r \in RowSet,
         s.mission = r.mission, s.task = r.task, s.lease = r.lease
  PROVE  Dispatched(s).task = Dispatched(r).task /\ Dispatched(s).status = s.status
<1> DEFINE s1 == LeasesExpired(s)
           r1 == LeasesExpired(r)
           s2 == DependenciesReleased(s1)
           r2 == DependenciesReleased(r1)
<1>1. s1.task = r1.task /\ s1.status = s.status /\ s1 \in RowSet /\ r1 \in RowSet
  <2> DEFINE overdue(x) == {t \in Task : \E l \in Lease : l[1] = t /\ x.lease[l] = "lapsed"}
  <2>1. /\ s1.task = [t \in Task |-> IF s.task[t] = "running" /\ t \in overdue(s)
                                    THEN "ready" ELSE s.task[t]]
        /\ s1.status = s.status /\ s1 \in RowSet
    BY DEF LeasesExpired, RowSet, TaskStatus, LeaseStatus
  <2>2. /\ r1.task = [t \in Task |-> IF r.task[t] = "running" /\ t \in overdue(r)
                                    THEN "ready" ELSE r.task[t]]
        /\ r1 \in RowSet
    BY DEF LeasesExpired, RowSet, TaskStatus, LeaseStatus
  <2>3. overdue(s) = overdue(r) OBVIOUS
  <2> HIDE DEF s1, r1, overdue
  <2>4. QED BY <2>1, <2>2, <2>3
<1> HIDE DEF s1, r1
<1>2. s2.task = r2.task /\ s2.status = s1.status /\ s2 \in RowSet /\ r2 \in RowSet
  BY <1>1 DEF DependenciesReleased, Doomed, Supplied, RowSet, TaskStatus
<1> HIDE DEF s2, r2
<1>3. /\ MissionUpdated(s2).task = s2.task /\ MissionUpdated(s2).status = s2.status
      /\ MissionUpdated(r2).task = r2.task
  BY <1>2 DEF MissionUpdated, RowSet
<1>4. QED BY <1>1, <1>2, <1>3 DEF Dispatched, s1, r1, s2, r2

\* The sweeps do with the assignment of a completed task what its report does, so
\* that the report is refused only where no schedule commits.
LEMMA ReportCommits ==
  ASSUME TypeOK, NEW a \in Assignment, a[1] \in Done,
         CannotEnd(a, "completed", TaskOnCompletion(a))
  PROVE  Wedged
<1> DEFINE r == [Ended(a, "completed") EXCEPT !.task[a[1]] = TaskOnCompletion(a)]
<1>1. /\ Rows \in RowSet /\ task \in [Task -> TaskStatus]
      /\ status \in [Assignment -> AssignmentStatus]
      /\ Rows.task = task /\ Rows.status = status
      /\ a[1] \in Task /\ task[a[1]] = "completed"
  BY RowsType DEF Rows, TypeOK, Assignment, Done
<1>2. TaskOnCompletion(a) = "completed" BY <1>1 DEF TaskOnCompletion
<1>3. /\ r \in RowSet
      /\ r.mission = Rows.mission /\ r.lease = Rows.lease /\ r.task = Rows.task
      /\ r.status = [status EXCEPT ![a] = "completed"]
  <2>1. r \in RowSet BY <1>2, EndedType DEF EndedWith, TaskStatus
  <2>2. r.task = [task EXCEPT ![a[1]] = "completed"] BY <1>1, <1>2 DEF Ended, RowSet
  <2>3. QED BY <1>1, <2>1, <2>2 DEF Ended, RowSet
<1> HIDE DEF r
<1>4. /\ Dispatched(r).task = Dispatched(Rows).task
      /\ Dispatched(r).status = r.status /\ Dispatched(Rows).status = status
  BY <1>1, <1>3, DispatchedAlike
<1>5. Dispatched(r) \in RowSet /\ Dispatched(Rows) \in RowSet
      /\ Dispatched(Rows).task[a[1]] = "completed"
  BY <1>1, <1>3, DispatchedType, DispatchedMoves DEF Moves, TaskMoves, Terminal
<1> DEFINE p == TerminalReleased(Dispatched(r))
           q == TerminalReleased(Dispatched(Rows))
<1>6. /\ p \in RowSet /\ q \in RowSet BY <1>5, TerminalReleasedType
<1>7. p.status = q.status
  <2>1. \A s \in RowSet : TerminalReleased(s).status =
          [b \in Assignment |->
             IF ~ (s.status[b] \in Active /\ s.task[b[1]] \in Terminal) THEN s.status[b]
             ELSE IF s.task[b[1]] = "completed" THEN "completed" ELSE "failed"]
    BY DEF TerminalReleased, RowSet, ActiveOf
  <2>2. status[a] \in Active BY DEF CannotEnd
  <2>3. /\ \A b \in Assignment \ {a} : r.status[b] = status[b]
        /\ r.status[a] = "completed" /\ "completed" \notin Active /\ "completed" \in Terminal
    BY <1>1, <1>3 DEF Active, Terminal
  <2>4. /\ p.status = [b \in Assignment |->
             IF ~ (r.status[b] \in Active /\ Dispatched(Rows).task[b[1]] \in Terminal)
             THEN r.status[b]
             ELSE IF Dispatched(Rows).task[b[1]] = "completed" THEN "completed" ELSE "failed"]
        /\ q.status = [b \in Assignment |->
             IF ~ (status[b] \in Active /\ Dispatched(Rows).task[b[1]] \in Terminal)
             THEN status[b]
             ELSE IF Dispatched(Rows).task[b[1]] = "completed" THEN "completed" ELSE "failed"]
    BY <1>4, <1>5, <2>1
  <2> HIDE DEF p, q
  <2>5. QED BY <1>5, <2>2, <2>3, <2>4
<1> HIDE DEF p, q
<1>8. StaleExpired(p).status = StaleExpired(q).status
  <2>1. \A s \in RowSet : StaleExpired(s).status =
          [b \in Assignment |->
             IF s.status[b] \in Active /\ b \in lapsed THEN "expired" ELSE s.status[b]]
    BY DEF StaleExpired, RowSet, ActiveOf
  <2>2. QED BY <1>6, <1>7, <2>1
<1>9. Swept(r).status = Swept(Rows).status BY <1>8 DEF Swept, p, q
<1>10. ~ UniqueTaskStatus(Swept(r)) BY DEF CannotEnd, r
<1>11. QED BY <1>9, <1>10 DEF Wedged, UniqueTaskStatus

-----------------------------------------------------------------------------
\* What a step cannot do to an assignment that is there.
LEMMA KeptStatus ==
  ASSUME TypeOK, TypeOK', Onward(Rows, Rows')
  PROVE  \A a \in Assignment : status[a] # "absent" =>
           /\ status'[a] # "absent"
           /\ status'[a] \in Active => status[a] \in Active
           /\ status'[a] = "assigned" => status[a] = "assigned"
<1>1. \A a \in Assignment :
        /\ status[a] \in AssignmentStatus /\ status'[a] \in AssignmentStatus
        /\ status[a] # "absent" => status'[a] # "absent"
        /\ status[a] = "accepted" => status'[a] # "assigned"
        /\ status[a] \in Over => status'[a] \in Over
  BY DEF Onward, Assigns, Rows, TypeOK, Over
<1>2. QED BY <1>1 DEF AssignmentStatus, Active, Over

\* A step that leaves the runs and the completed tasks as they are.
LEMMA RestUndisturbed ==
  ASSUME DesktopInv, TypeOK', Undisturbed, Onward(Rows, Rows'), run' = run, Done' = Done
  PROVE  Undisturbed'
<1>1. \A p \in Poller, a \in Assignment : run[p][a] # "none" => status[a] # "absent"
  BY DEF DesktopInv
<1>2. \A a \in Assignment : status[a] # "absent" =>
        /\ status'[a] \in Active => status[a] \in Active
        /\ status'[a] = "assigned" => status[a] = "assigned"
  BY KeptStatus DEF DesktopInv, DesktopTypeOK
<1>3. QED BY <1>1, <1>2 DEF Undisturbed, InProgress

\* A step of a run that was in progress, or that is over with it.
LEMMA RunUndisturbed ==
  ASSUME DesktopInv, TypeOK', Undisturbed, Onward(Rows, Rows'),
         NEW p \in Poller, NEW a \in Assignment, NEW phase \in Phase,
         run[p][a] # "none", run' = [run EXCEPT ![p][a] = phase],
         phase = "none" \/ InProgress(p, a),
         Done' = IF phase = "closing" THEN Done \cup {a[1]} ELSE Done,
         phase \in {"none", "closing", "failing"} \/ run[p][a] # "closing",
         phase = "failing" => status'[a] # "assigned",
         run[p][a] = "closing" /\ phase = "failing" => status'[a] \notin Active
  PROVE  Undisturbed'
<1>1. \A q \in Poller, b \in Assignment : run[q][b] # "none" => status[b] # "absent"
  BY DEF DesktopInv
<1>2. \A b \in Assignment : status[b] # "absent" =>
        /\ status'[b] \in Active => status[b] \in Active
        /\ status'[b] = "assigned" => status[b] = "assigned"
  BY KeptStatus DEF DesktopInv, DesktopTypeOK
<1>3. \A q \in Poller, b \in Assignment :
        run'[q][b] = IF q = p /\ b = a THEN phase ELSE run[q][b]
  BY DEF DesktopInv, DesktopTypeOK
<1>4. \A q \in Poller, b \in Assignment : InProgress(q, b)' => InProgress(q, b)
  BY <1>3 DEF InProgress
<1>5. ASSUME NEW q \in Poller, NEW b \in Assignment, InProgress(q, b)'
      PROVE  run'[q][b] = "closing" <=> b[1] \in Done'
  <2>1. CASE q = p /\ b = a
    <3>1. InProgress(p, a) /\ phase \notin {"none", "failing"}
      BY <1>3, <1>4, <1>5, <2>1 DEF InProgress
    <3>2. phase # "closing" => a[1] \notin Done
      BY <3>1 DEF Undisturbed
    <3>3. QED BY <1>3, <2>1, <3>2
  <2>2. CASE ~ (q = p /\ b = a)
    <3>1. run'[q][b] = run[q][b] /\ InProgress(q, b) BY <1>3, <1>4, <1>5, <2>2
    <3>2. phase = "closing" => a[1] # b[1]
      BY <2>2, <3>1 DEF Undisturbed
    <3>3. b[1] \in Done' <=> b[1] \in Done BY <3>2
    <3>4. QED BY <3>1, <3>3 DEF Undisturbed
  <2>3. QED BY <2>1, <2>2
<1>6. ASSUME NEW q \in Poller, NEW b \in Assignment,
             run'[q][b] = "failing", status'[b] \in Active
      PROVE  /\ b[1] \notin Done'
             /\ \A o \in Poller, c \in Assignment : c[1] = b[1] => ~ InProgress(o, c)'
  <2>1. CASE q = p /\ b = a
    <3>1. phase = "failing" /\ InProgress(p, a) /\ run[p][a] # "closing"
      BY <1>3, <1>6, <2>1
    <3>2. a[1] \notin Done /\ Done' = Done BY <3>1 DEF Undisturbed
    <3>3. ~ InProgress(p, a)' BY <1>3, <3>1 DEF InProgress
    <3>4. \A o \in Poller, c \in Assignment :
            c[1] = a[1] /\ ~ (o = p /\ c = a) => ~ InProgress(o, c)
      BY <3>1 DEF Undisturbed
    <3>5. QED BY <1>4, <2>1, <3>2, <3>3, <3>4
  <2>2. CASE ~ (q = p /\ b = a)
    <3>1. run[q][b] = "failing" /\ status[b] \in Active
      BY <1>1, <1>2, <1>3, <1>6, <2>2
    <3>2. /\ b[1] \notin Done
          /\ \A o \in Poller, c \in Assignment : c[1] = b[1] => ~ InProgress(o, c)
      BY <3>1 DEF Undisturbed
    <3>3. phase = "closing" => a[1] # b[1] BY <3>2
    <3>4. QED BY <1>4, <3>2, <3>3
  <2>3. QED BY <2>1, <2>2
<1>7. \A q \in Poller, b \in Assignment : run'[q][b] = "failing" => status'[b] # "assigned"
  BY <1>1, <1>2, <1>3 DEF Undisturbed
<1>8. \A q \in Poller, b \in Assignment, o \in Poller, c \in Assignment :
        InProgress(q, b)' /\ InProgress(o, c)' /\ b[1] = c[1] => q = o /\ b = c
  BY <1>4 DEF Undisturbed
<1>9. QED BY <1>5, <1>6, <1>7, <1>8 DEF Undisturbed

\* Taking up an assignment: of a ready task, none of whose runs is in progress.
LEMMA DiscoverUndisturbed ==
  ASSUME DesktopInv, DesktopInv', Undisturbed, Calm, \A e, f \in Device : e = f,
         NEW p \in Poller, NEW a \in Assignment, Discover(p, a)
  PROVE  Undisturbed' /\ Done' = Done
<1>1. Done' = Done /\ status' = status /\ UNCHANGED vars
  BY DEF Discover, Done, vars
<1>2. CASE UNCHANGED run
  <2>1. QED BY <1>1, <1>2 DEF Undisturbed, InProgress
<1>3. CASE a \in offered[p] /\ HasCapacity(p[1], a) /\ run' = [run EXCEPT ![p][a] = "accepting"]
  <2>1. run \in [Poller -> [Assignment -> Phase]] /\ OneActiveAssignment
    <3>1. OneActiveAssignment
      BY DEF DesktopInv, Inv, Sound, Good, OneActive, Rows, OneActiveAssignment
    <3>2. QED BY <3>1 DEF DesktopInv, DesktopTypeOK
  <2>2. status[a] = "assigned" /\ task[a[1]] = "ready" /\ a[1] \notin Done
    BY <1>3 DEF Calm, Overtaken, Done
  <2>3. \A q \in Poller, b \in Assignment :
          run'[q][b] = IF q = p /\ b = a THEN "accepting" ELSE run[q][b]
    BY <1>3, <2>1
  <2>4. \A q \in Poller, b \in Assignment : InProgress(q, b) => b[1] # a[1]
    <3> SUFFICES ASSUME NEW q \in Poller, NEW b \in Assignment, InProgress(q, b)
                 PROVE  b[1] # a[1]
      OBVIOUS
    <3>1. q[1] = p[1] BY PollerDevice
    <3>2. <<q, b>> \in ActiveRuns(p[1])
      BY <3>1 DEF ActiveRuns, Busy, InProgress, Calm
    <3>3. QED BY <1>3, <3>2 DEF HasCapacity
  <2>5. \A q \in Poller, b \in Assignment :
          InProgress(q, b)' <=> (q = p /\ b = a) \/ InProgress(q, b)
    BY <2>3 DEF InProgress
  <2>6. \A q \in Poller, b \in Assignment :
          InProgress(q, b)' => (run'[q][b] = "closing" <=> b[1] \in Done')
    BY <1>1, <2>2, <2>3, <2>5 DEF Undisturbed
  <2>7. \A q \in Poller, b \in Assignment, o \in Poller, c \in Assignment :
          InProgress(q, b)' /\ InProgress(o, c)' /\ b[1] = c[1] => q = o /\ b = c
    BY <2>4, <2>5 DEF Undisturbed
  <2>8. \A q \in Poller, b \in Assignment :
          run'[q][b] = "failing" => run[q][b] = "failing" /\ status'[b] # "assigned"
    BY <1>1, <2>3 DEF Undisturbed
  <2>9. ASSUME NEW q \in Poller, NEW b \in Assignment,
               run'[q][b] = "failing", status'[b] \in Active
        PROVE  /\ b[1] \notin Done'
               /\ \A o \in Poller, c \in Assignment : c[1] = b[1] => ~ InProgress(o, c)'
    <3>1. run[q][b] = "failing" /\ status[b] \in Active /\ b # a
      BY <1>1, <2>2, <2>8, <2>9
    <3>2. b[1] # a[1] BY <2>1, <2>2, <3>1 DEF OneActiveAssignment, Active
    <3>3. QED BY <1>1, <2>5, <3>1, <3>2 DEF Undisturbed
  <2>10. QED BY <1>1, <2>6, <2>7, <2>8, <2>9 DEF Undisturbed
<1>4. QED BY <1>2, <1>3 DEF Discover, Advance

\* A step of a run, without losses and with schedules that commit.
LEMMA WorkingUndisturbed ==
  ASSUME DesktopInv, DesktopInv', Undisturbed, ~ Lossy, ~ Wedged,
         NEW p \in Poller, NEW a \in Assignment, Working(p, a)
  PROVE  Undisturbed' /\ Done \subseteq Done'
<1>1. TypeOK /\ TypeOK' /\ run \in [Poller -> [Assignment -> Phase]]
  BY DEF DesktopInv, DesktopTypeOK
<1>2. Onward(Rows, Rows')
  BY <1>1, WorkingIsNext, NextOnward
<1>3. a[1] \in Task BY DEF Assignment
<1>30. /\ run[p][a] # "none" => status[a] # "absent"
       /\ run[p][a] \in Beyond => status'[a] # "assigned"
  <2>1. run[p][a] \in Beyond => status[a] \in Taken /\ "assigned" \notin Taken
        /\ "absent" \notin Taken
    BY DEF DesktopInv, Taken, Over
  <2>2. QED BY <1>1, <1>2, <2>1, KeptStatus DEF DesktopInv
<1>4. ASSUME NEW phase \in Phase, run[p][a] # "none", run' = [run EXCEPT ![p][a] = phase],
             phase = "none" \/ InProgress(p, a),
             Done' = IF phase = "closing" THEN Done \cup {a[1]} ELSE Done,
             phase \in {"none", "closing", "failing"} \/ run[p][a] # "closing",
             phase = "failing" => status'[a] # "assigned",
             run[p][a] = "closing" /\ phase = "failing" => status'[a] \notin Active
      PROVE  Undisturbed' /\ Done \subseteq Done'
  BY <1>1, <1>2, <1>4, RunUndisturbed
<1>5. CASE RequestAccept(p, a)
  <2>1. /\ run[p][a] = "accepting" /\ Done' = Done
        /\ \E phase \in {"claiming", "failing"} : run' = [run EXCEPT ![p][a] = phase]
    BY <1>1, <1>5, OthersDone DEF RequestAccept, Answered, Denied, Advance
  <2>2. run'[p][a] = "failing" => status'[a] # "assigned"
    <3>1. CASE Denied(p, a, status[a] # "assigned")
      BY <3>1 DEF Denied, vars
    <3>2. CASE AcceptLate(a)
      <4>1. Rows \in RowSet /\ status \in [Assignment -> AssignmentStatus]
        BY <1>1, RowsType DEF TypeOK
      <4>2. status' = [status EXCEPT ![a] = "expired"]
        BY <3>2, <4>1 DEF AcceptLate, Commit, Rows, RowSet
      <4>3. QED BY <4>1, <4>2
    <3>3. CASE Accept(a) /\ Advance(p, a, "claiming")
      BY <1>1, <3>3 DEF Advance
    <3>4. QED BY <1>5, <3>1, <3>2, <3>3 DEF RequestAccept, Answered
  <2>3. PICK phase \in {"claiming", "failing"} : run' = [run EXCEPT ![p][a] = phase]
    BY <2>1
  <2>4. run'[p][a] = phase BY <1>1, <2>3
  <2>5. phase \in Phase /\ InProgress(p, a) BY <2>1 DEF InProgress, Phase
  <2>6. QED BY <1>4, <2>1, <2>2, <2>3, <2>4, <2>5
<1>6. CASE RequestClaim(p, a)
  <2>1. \A k \in 1 .. MaxLease : <<a[1], k>> \in Lease
    BY DEF Lease, Assignment
  <2>2. /\ run[p][a] = "claiming" /\ Done' = Done
        /\ \E phase \in {"starting", "failing"} : run' = [run EXCEPT ![p][a] = phase]
    BY <1>1, <1>6, <2>1, OthersDone DEF RequestClaim, Denied, Advance
  <2>3. QED BY <1>4, <1>30, <2>2 DEF InProgress, Phase, Beyond
<1>7. CASE BeginExecution(p, a) \/ Execute(p, a) \/ Submit(p, a)
  <2>1. Done' = Done
    BY <1>1, <1>7, OthersDone DEF BeginExecution, Execute, Submit
  <2>2. /\ run[p][a] \in {"starting", "executing", "applied", "restored", "submitting"}
        /\ \E phase \in {"executing", "applied", "restored", "submitting", "reporting",
                         "failing"} : run' = [run EXCEPT ![p][a] = phase]
    BY <1>7 DEF BeginExecution, Execute, Submit, Advance
  <2>3. QED BY <1>4, <1>30, <2>1, <2>2 DEF InProgress, Phase, Beyond
<1>8. CASE RequestCompleteTask(p, a)
  <2>1. run[p][a] = "reporting" /\ InProgress(p, a)
    BY <1>8 DEF RequestCompleteTask, InProgress
  <2>2. CASE Denied(p, a, lease[token[p][a]] # "live" \/ task[a[1]] # "running")
    <3>1. Done' = Done /\ run' = [run EXCEPT ![p][a] = "failing"]
      BY <1>1, <2>2, OthersDone DEF Denied, Advance
    <3>2. QED BY <1>4, <1>30, <2>1, <3>1 DEF Phase, Beyond
  <2>3. CASE CompleteTask(token[p][a], "completed") /\ Advance(p, a, "closing")
    <3>1. token[p][a] \in Lease /\ token[p][a][1] = a[1]
      BY <2>1 DEF DesktopInv, LeaseOf, Leasing, Beyond, Phase
    <3>2. Done' = Done \cup {a[1]} /\ run' = [run EXCEPT ![p][a] = "closing"]
      BY <1>1, <2>3, <3>1, CompleteTaskDone DEF Advance
    <3>3. QED BY <1>4, <2>1, <3>2 DEF Phase
  <2>4. QED BY <1>8, <2>2, <2>3 DEF RequestCompleteTask, Answered
<1>9. CASE RequestCompleteAssignment(p, a)
  <2>1. run[p][a] = "closing" /\ InProgress(p, a) /\ a[1] \in Done
    BY <1>9 DEF RequestCompleteAssignment, InProgress, Undisturbed
  <2>2. CASE (CompleteAssignment(a) \/ UNCHANGED vars) /\ Finished(p, a)
    <3>1. Done' = Done BY <1>1, <2>1, <2>2, OthersDone, ReportDone
    <3>2. QED BY <1>4, <2>1, <2>2, <3>1 DEF Finished, Advance, Phase
  <2>3. CASE Denied(p, a, \/ status[a] \notin Active \cup {"completed"}
                          \/ CannotEnd(a, "completed", TaskOnCompletion(a)))
    <3>1. status[a] \notin Active /\ UNCHANGED vars
          /\ run' = [run EXCEPT ![p][a] = "failing"]
      BY <1>1, <2>1, <2>3, ReportCommits DEF Denied, Advance
    <3>2. Done' = Done /\ status'[a] \notin Active
      BY <1>1, <3>1, OthersDone DEF vars, Active
    <3>3. QED BY <1>4, <1>30, <2>1, <3>1, <3>2 DEF Phase, Beyond
  <2>4. QED BY <1>9, <2>2, <2>3 DEF RequestCompleteAssignment
<1>10. CASE RequestFail(p, a)
  <2>1. run[p][a] = "failing" /\ run' = [run EXCEPT ![p][a] = "none"]
    BY <1>10 DEF RequestFail, Finished, Advance
  <2>2. Done' = Done
    <3>1. CASE UNCHANGED vars
      BY <1>1, <3>1, OthersDone
    <3>2. CASE FailAssignment(a, FALSE)
      <4>1. a[1] \notin Done BY <2>1, <3>2 DEF FailAssignment, Undisturbed
      <4>2. QED BY <1>1, <3>2, <4>1, ReportDone
    <3>3. QED BY <1>10, <3>1, <3>2 DEF RequestFail
  <2>3. QED BY <1>4, <2>1, <2>2 DEF Phase
<1>11. QED BY <1>5, <1>6, <1>7, <1>8, <1>9, <1>10 DEF Working

\* Every step of everybody.
LEMMA DesktopNextUndisturbed ==
  ASSUME DesktopInv, DesktopInv', Undisturbed, ~ Lossy, Calm,
         \A e, f \in Device : e = f, [DesktopNext]_all
  PROVE  Undisturbed' /\ Done \subseteq Done'
<1>1. TypeOK /\ TypeOK'
  BY DEF DesktopInv, DesktopTypeOK
<1>2. Onward(Rows, Rows')
  BY <1>1, DesktopNextIsNext, NextOnward
<1>3. ASSUME run' = run, Done' = Done
      PROVE  Undisturbed' /\ Done \subseteq Done'
  BY <1>1, <1>2, <1>3, RestUndisturbed
<1>4. CASE UNCHANGED all
  BY <1>1, <1>3, <1>4, OthersDone DEF all, desktop
<1>5. CASE Around
  BY <1>1, <1>3, <1>5, OthersDone DEF Around, desktop
<1>6. ASSUME NEW p \in Poller, NEW a \in Assignment,
             Discover(p, a) \/ Working(p, a) \/ RequestHeartbeat(p, a)
      PROVE  Undisturbed' /\ Done \subseteq Done'
  <2>1. CASE Discover(p, a)
    BY <2>1, DiscoverUndisturbed
  <2>2. CASE Working(p, a)
    BY <2>2, WorkingUndisturbed DEF Calm
  <2>3. CASE RequestHeartbeat(p, a)
    <3>1. Done' = Done /\ run' = run
      BY <1>1, <2>3, OthersDone DEF RequestHeartbeat, desktop
    <3>2. QED BY <1>3, <3>1
  <2>4. QED BY <1>6, <2>1, <2>2, <2>3
<1>7. ASSUME NEW p \in Poller, PollAssignments(p)
      PROVE  Undisturbed' /\ Done \subseteq Done'
  BY <1>1, <1>3, <1>7, OthersDone DEF PollAssignments
<1>8. ASSUME NEW d \in Device,
             \/ \E a \in Assignment : Recover(d, a)
             \/ Crash(d) \/ Stop(d) \/ Drained(d) \/ Start(d) \/ Recovered(d)
      PROVE  Undisturbed' /\ Done \subseteq Done'
  <2>1. UNCHANGED vars /\ Done' = Done
    BY <1>1, <1>8, OthersDone
    DEF Recover, Crash, Stop, Drained, ProcessEnds, Start, Recovered
  <2>2. CASE ProcessEnds(d)
    <3>1. \A q \in Poller, a \in Assignment : run'[q][a] = "none"
      BY <2>2, PollerDevice DEF ProcessEnds
    <3>2. QED BY <2>1, <3>1 DEF Undisturbed, InProgress
  <2>3. CASE (\E a \in Assignment : Recover(d, a)) \/ Stop(d) \/ Start(d) \/ Recovered(d)
    BY <1>3, <2>1, <2>3 DEF Recover, Stop, Start, Recovered
  <2>4. QED BY <1>8, <2>2, <2>3 DEF Crash, Drained
<1>9. QED BY <1>4, <1>5, <1>6, <1>7, <1>8 DEF DesktopNext

-----------------------------------------------------------------------------
(***************************************************************************)
(* The order of tasks.  A dependency that is completed for good lets what  *)
(* depends on it run, and nothing else does, where no task is retried.     *)
(***************************************************************************)
\* What may run, or does, has its dependencies completed.
Ordered == \A t \in Task : task[t] \in {"ready", "running"} => Deps[t] \subseteq Done

\* Passes on rows that are in order.
LEMMA MovesOrdered ==
  ASSUME NEW s \in RowSet, Moves(s, Rows'),
         \A t \in Task : s.task[t] \in {"ready", "running"} =>
                           Deps[t] \subseteq {u \in Task : s.task[u] = "completed"}
  PROVE  Ordered'
<1>1. Rows'.task = task' /\ Done' = {u \in Task : s.task[u] = "completed"}
  BY MovesDone DEF Rows
<1>2. SUFFICES ASSUME NEW t \in Task, task'[t] \in {"ready", "running"}
               PROVE  Deps[t] \subseteq Done'
  BY DEF Ordered
<1>3. Deps[t] \subseteq Task BY DepsAssumption
<1>4. CASE s.task[t] \in {"pending", "blocked"}
  BY <1>1, <1>2, <1>3, <1>4 DEF Moves, TaskMoves, Done
<1>5. CASE s.task[t] \in {"ready", "running"}
  BY <1>1, <1>5
<1>6. CASE s.task[t] \in Terminal
  BY <1>1, <1>2, <1>6 DEF Moves, TaskMoves, Terminal
<1>7. QED BY <1>4, <1>5, <1>6 DEF RowSet, TaskStatus, Terminal

\* Passes after a task got a status in which it may not run, or kept its own.
LEMMA ResultOrdered ==
  ASSUME TypeOK, Ordered, Done \subseteq Done', NEW t \in Task, NEW v \in TaskStatus,
         v \in {"ready", "running"} => v = task[t],
         NEW s \in RowSet, s.task = [task EXCEPT ![t] = v], Moves(s, Rows')
  PROVE  Ordered'
<1>1. Done' = {u \in Task : s.task[u] = "completed"} BY MovesDone
<1>2. \A u \in Task : s.task[u] \in {"ready", "running"} => Deps[u] \subseteq Done
  BY DEF Ordered, TypeOK
<1>3. QED BY <1>1, <1>2, MovesOrdered

\* The reports on a task or an assignment.
LEMMA ReportOrdered ==
  ASSUME TypeOK, Ordered, Done \subseteq Done',
         \/ \E l \in Lease : CompleteTask(l, "completed")
         \/ \E a \in Assignment : CompleteAssignment(a) \/ FailAssignment(a, FALSE)
  PROVE  Ordered'
<1>1. ASSUME NEW l \in Lease, CompleteTask(l, "completed")
      PROVE  Ordered'
  <2>1. PICK r \in RowSet : /\ r.task = [task EXCEPT ![l[1]] = "completed"]
                            /\ Moves(r, Rows')
    BY <1>1, CompleteTaskMoves
  <2>2. l[1] \in Task /\ "completed" \in TaskStatus BY DEF Lease, TaskStatus
  <2>3. QED BY <2>1, <2>2, ResultOrdered
<1>2. ASSUME NEW a \in Assignment, NEW st \in {"completed", "failed"}, NEW v \in TaskStatus,
             v \in {"ready", "running"} => v = task[a[1]],
             ScheduleFrom(EndedWith(a, st, v), 4)
      PROVE  Ordered'
  <2> DEFINE r == EndedWith(a, st, v)
  <2>1. Reported(a, st, v) BY <1>2, ReportMoves
  <2>2. r.task = [task EXCEPT ![a[1]] = v] /\ Moves(r, Rows') BY <2>1 DEF Reported
  <2>3. r \in RowSet BY EndedType
  <2> HIDE DEF r
  <2>4. a[1] \in Task BY DEF Assignment
  <2>5. QED BY <1>2, <2>2, <2>3, <2>4, ResultOrdered
<1>3. ASSUME NEW a \in Assignment, CompleteAssignment(a)
      PROVE  Ordered'
  <2>1. PICK v \in TaskStatus :
          /\ v = IF task[a[1]] = "running" THEN "completed" ELSE task[a[1]]
          /\ ScheduleFrom(EndedWith(a, "completed", v), 4)
    BY <1>3, CompletionReports
  <2>2. QED BY <1>2, <2>1
<1>4. ASSUME NEW a \in Assignment, FailAssignment(a, FALSE)
      PROVE  Ordered'
  <2>1. "failed" \in TaskStatus BY DEF TaskStatus
  <2>2. ScheduleFrom(EndedWith(a, "failed", "failed"), 4)
    BY <1>4 DEF FailAssignment, EndedWith
  <2>3. QED BY <1>2, <2>1, <2>2
<1>5. QED BY <1>1, <1>3, <1>4

\* All other requests but retries.
LEMMA OthersOrdered ==
  ASSUME TypeOK, Ordered, Done \subseteq Done',
         \/ UNCHANGED vars
         \/ Dispatch \/ Schedule \/ GetState
         \/ \E a \in Assignment : \/ Accept(a) \/ AcceptLate(a)
                                  \/ Heartbeat(a) \/ LapseAssignment(a)
         \/ \E l \in Lease : Claim(l) \/ LapseLease(l)
         \/ \E t \in Task : Skip(t)
         \/ \E command \in Commands : TransitionMission(command)
  PROVE  Ordered'
<1>1. /\ Rows \in RowSet /\ Rows.task = task
      /\ task \in [Task -> TaskStatus]
  BY RowsType DEF Rows, TypeOK
<1>2. CASE Dispatch \/ Schedule \/ GetState
  <2>1. Moves(Rows, Rows')
    <3>1. CASE Dispatch
      <4>1. Rows' = Dispatched(Rows)
        BY <1>1, <3>1, DispatchedType, CommitRows DEF Dispatch
      <4>2. QED BY <1>1, <4>1, DispatchedMoves
    <3>2. CASE Schedule \/ GetState
      BY <1>1, <3>2, ScheduleFromMoves DEF Schedule, GetState
    <3>3. QED BY <1>2, <3>1, <3>2
  <2>2. QED BY <1>1, <2>1, MovesOrdered DEF Ordered, Done
<1>3. ASSUME \A t \in Task : task'[t] \in {"ready", "running"} =>
                               task[t] \in {"ready", "running"}
      PROVE  Ordered'
  BY <1>3 DEF Ordered
<1>4. ASSUME NEW a \in Assignment, Accept(a) \/ AcceptLate(a)
      PROVE  Ordered'
  <2>1. task' = task BY <1>1, <1>4 DEF Accept, AcceptLate, Commit, RowSet
  <2>2. QED BY <1>3, <2>1
<1>5. ASSUME NEW l \in Lease, Claim(l)
      PROVE  Ordered'
  <2>1. task[l[1]] = "ready" /\ task' = [task EXCEPT ![l[1]] = "running"]
    BY <1>1, <1>5 DEF Claim, Commit, RowSet
  <2>2. QED BY <1>1, <1>3, <2>1
<1>6. ASSUME NEW t \in Task, Skip(t)
      PROVE  Ordered'
  BY <1>1, <1>3, <1>6 DEF Skip
<1>7. ASSUME \/ UNCHANGED vars
             \/ \E a \in Assignment : Heartbeat(a) \/ LapseAssignment(a)
             \/ \E l \in Lease : LapseLease(l)
             \/ \E command \in Commands : TransitionMission(command)
      PROVE  Ordered'
  <2>1. task' = task
    BY <1>7 DEF vars, Heartbeat, LapseAssignment, LapseLease, TransitionMission
  <2>2. QED BY <1>3, <2>1
<1>8. QED BY <1>2, <1>4, <1>5, <1>6, <1>7

\* Every step of everybody.
LEMMA DesktopNextOrdered ==
  ASSUME DesktopInv, Ordered, Done \subseteq Done', "retry" \notin Operator, [DesktopNext]_all
  PROVE  Ordered'
<1>1. TypeOK BY DEF DesktopInv, DesktopTypeOK
<1>2. CASE UNCHANGED all
  BY <1>1, <1>2, OthersOrdered DEF all
<1>3. CASE Around
  BY <1>1, <1>3, OthersOrdered DEF Around
<1>4. ASSUME NEW p \in Poller, NEW a \in Assignment, Working(p, a)
      PROVE  Ordered'
  <2>1. CASE RequestAccept(p, a)
    BY <1>1, <2>1, OthersOrdered DEF RequestAccept, Denied
  <2>2. CASE RequestClaim(p, a)
    <3>1. \A k \in 1 .. MaxLease : <<a[1], k>> \in Lease
      BY DEF Lease, Assignment
    <3>2. QED BY <1>1, <2>2, <3>1, OthersOrdered DEF RequestClaim, Denied
  <2>3. CASE BeginExecution(p, a) \/ Execute(p, a) \/ Submit(p, a)
    BY <1>1, <2>3, OthersOrdered DEF BeginExecution, Execute, Submit
  <2>4. CASE RequestCompleteTask(p, a)
    <3>1. token[p][a] \in Lease
      BY <2>4 DEF RequestCompleteTask, DesktopInv, LeaseOf, Leasing, Beyond, Phase
    <3>2. CompleteTask(token[p][a], "completed") \/ UNCHANGED vars
      BY <2>4 DEF RequestCompleteTask, Denied
    <3>3. QED BY <1>1, <3>1, <3>2, OthersOrdered, ReportOrdered
  <2>5. CASE RequestCompleteAssignment(p, a) \/ RequestFail(p, a)
    <3>1. CompleteAssignment(a) \/ FailAssignment(a, FALSE) \/ UNCHANGED vars
      BY <2>5 DEF RequestCompleteAssignment, RequestFail, Denied
    <3>2. QED BY <1>1, <3>1, OthersOrdered, ReportOrdered
  <2>6. QED BY <1>4, <2>1, <2>2, <2>3, <2>4, <2>5 DEF Working
<1>5. ASSUME NEW p \in Poller, NEW a \in Assignment,
             Discover(p, a) \/ RequestHeartbeat(p, a)
      PROVE  Ordered'
  BY <1>1, <1>5, OthersOrdered DEF Discover, RequestHeartbeat
<1>6. ASSUME NEW p \in Poller, PollAssignments(p)
      PROVE  Ordered'
  BY <1>1, <1>6, OthersOrdered DEF PollAssignments
<1>7. ASSUME NEW d \in Device,
             \/ \E a \in Assignment : Recover(d, a)
             \/ Crash(d) \/ Stop(d) \/ Drained(d) \/ Start(d) \/ Recovered(d)
      PROVE  Ordered'
  BY <1>1, <1>7, OthersOrdered
  DEF Recover, Crash, Stop, Drained, ProcessEnds, Start, Recovered
<1>8. QED BY <1>2, <1>3, <1>4, <1>5, <1>6, <1>7 DEF DesktopNext

-----------------------------------------------------------------------------
(***************************************************************************)
(* The theorems.                                                           *)
(***************************************************************************)
\* Desktops that were never started.
LEMMA DesktopInitInv == DesktopInit => DesktopInv
<1> SUFFICES ASSUME DesktopInit PROVE DesktopInv OBVIOUS
<1>1. Inv BY InitInv DEF DesktopInit
<1>2. DesktopTypeOK
  BY <1>1 DEF DesktopInit, DesktopTypeOK, Inv, Sound, Mode, Phase, Stage
<1>3. JournalCoversWork
  BY DEF DesktopInit, Init, JournalCoversWork
<1>4. \A p \in Poller, a \in Assignment : run[p][a] = "none" /\ offered[p] = {}
  BY DEF DesktopInit
<1>5. QED BY <1>1, <1>2, <1>3, <1>4 DEF DesktopInv, AcceptedByOne, Beyond, Leasing

\* Every step keeps the invariant and gives up no entry too early.
LEMMA DesktopNextInv ==
  ASSUME DesktopInv, [DesktopNext]_all
  PROVE  DesktopInv' /\ DiscardsEnded
<1>1. [Next]_vars BY DesktopNextIsNext
<1>2. CASE UNCHANGED all
  BY <1>1, <1>2, ElsewhereInv DEF all
<1>3. CASE Around
  <2>1. Step(Rows, Rows') /\ UNCHANGED desktop
    BY <1>3, OtherStep, LeaseStep DEF Around, DesktopInv, Inv, Sound
  <2>2. QED BY <1>1, <2>1, ElsewhereInv
<1>4. ASSUME NEW p \in Poller, NEW a \in Assignment,
             Discover(p, a) \/ Working(p, a) \/ RequestHeartbeat(p, a)
      PROVE  DesktopInv' /\ DiscardsEnded
  <2>1. CASE Discover(p, a)
    BY <2>1, DiscoverInv
  <2>2. CASE Working(p, a)
    BY <2>2, RequestAcceptInv, RequestClaimInv, ExecutionInv, ClosingInv DEF Working
  <2>3. CASE RequestHeartbeat(p, a)
    <3>1. Heartbeat(a) /\ UNCHANGED desktop BY <2>3 DEF RequestHeartbeat
    <3>2. Step(Rows, Rows') BY <3>1, OtherStep DEF DesktopInv, Inv, Sound
    <3>3. QED BY <1>1, <3>1, <3>2, ElsewhereInv
  <2>4. QED BY <1>4, <2>1, <2>2, <2>3
<1>5. ASSUME NEW p \in Poller, PollAssignments(p)
      PROVE  DesktopInv' /\ DiscardsEnded
  BY <1>5, PollInv
<1>6. ASSUME NEW d \in Device,
             \/ \E a \in Assignment : Recover(d, a)
             \/ Crash(d) \/ Stop(d) \/ Drained(d) \/ Start(d) \/ Recovered(d)
      PROVE  DesktopInv' /\ DiscardsEnded
  BY <1>6, ModeInv, RecoverInv
<1>7. QED BY <1>2, <1>3, <1>4, <1>5, <1>6 DEF DesktopNext

\* The invariant holds throughout.
LEMMA DesktopInvariance == DesktopSpec => []DesktopInv
BY DesktopInitInv, DesktopNextInv, PTL DEF DesktopSpec

\* Every variable of the desktops keeps its type.
THEOREM DesktopTypeCorrect == DesktopSpec => []DesktopTypeOK
<1>1. DesktopInv => DesktopTypeOK BY DEF DesktopInv
<1>2. QED BY <1>1, DesktopInvariance, PTL

\* Desktops that crash, restart and lose answers do nothing that the task
\* runtime does not allow: what is proved of Spec holds with them.
THEOREM DesktopImplementsRuntime == DesktopSpec => Spec
<1>1. DesktopInit => Init BY DEF DesktopInit
<1>2. QED
  BY <1>1, DesktopNextIsNext, DesktopInvariance, PTL DEF DesktopSpec, Spec

\* An accepted assignment is in the journal of a desktop, for any number of
\* desktops, whatever they lose in crashes.
THEOREM JournalsCoverWork == DesktopSpec => []JournalCoversWork
<1>1. DesktopInv => JournalCoversWork BY DEF DesktopInv
<1>2. QED BY <1>1, DesktopInvariance, PTL

\* Entries are given up only for assignments that have ended.
THEOREM DiscardsAreSafe == DesktopSpec => DiscardOnlyEnded
<1>1. DesktopInv /\ [DesktopNext]_all =>
        [\A d \in Device, a \in Assignment :
           journal[d][a] # "none" /\ journal'[d][a] = "none" => status'[a] \notin Active]_all
  BY DesktopNextInv DEF DiscardsEnded
<1>2. QED
  BY <1>1, DesktopInvariance, PTL DEF DesktopSpec, DiscardOnlyEnded

\* Of the runs for an assignment, of one desktop or of several, one gets past
\* accepting it, although stale answers and stops may have started any number.
THEOREM WorkedOnByOne == DesktopSpec => []AcceptedByOne
<1>1. DesktopInv => AcceptedByOne BY DEF DesktopInv
<1>2. QED BY <1>1, DesktopInvariance, PTL

\* One desktop whose requests are answered completes tasks for good, however often
\* it crashes, tasks are retried and expiries strike, as long as the mission's
\* schedules commit, the desktop is not told to stop in the middle of a run and it
\* acts on no answer of a poll that has been overtaken.
THEOREM CompletionsAreFinal ==
  ASSUME ~ Lossy, \A d, e \in Device : d = e
  PROVE  DesktopSpec /\ []Calm => CompletedIsFinal
<1>1. DesktopInit => Undisturbed
  BY DEF DesktopInit, Undisturbed, InProgress
<1>2. DesktopInv /\ DesktopInv' /\ Undisturbed /\ Calm /\ [DesktopNext]_all =>
        Undisturbed'
  BY DesktopNextUndisturbed
<1>3. DesktopInv /\ DesktopInv' /\ Undisturbed /\ Calm /\ [DesktopNext]_all =>
        [\A t \in Task : task[t] = "completed" => task'[t] = "completed"]_vars
  BY DesktopNextUndisturbed DEF Done
<1>4. QED
  BY <1>1, <1>2, <1>3, DesktopInvariance, PTL DEF DesktopSpec, CompletedIsFinal

\* And then no task runs before what it depends on is completed, whatever is
\* skipped, expires or fails, unless somebody retries tasks.
THEOREM DependenciesFirst ==
  ASSUME ~ Lossy, \A d, e \in Device : d = e, "retry" \notin Operator
  PROVE  DesktopSpec /\ []Calm => []RunsAfterDependencies
<1>1. DesktopInit => Undisturbed /\ Ordered
  BY DEF DesktopInit, Init, Undisturbed, InProgress, Ordered
<1>2. ASSUME DesktopInv, DesktopInv', Undisturbed, Calm, Ordered, [DesktopNext]_all
      PROVE  Undisturbed' /\ Ordered'
  <2>1. Undisturbed' /\ Done \subseteq Done' BY <1>2, DesktopNextUndisturbed
  <2>2. QED BY <1>2, <2>1, DesktopNextOrdered
<1>3. Ordered => RunsAfterDependencies
  BY DEF Ordered, RunsAfterDependencies, Done
<1>4. QED
  BY <1>1, <1>2, <1>3, DesktopInvariance, PTL DEF DesktopSpec
=============================================================================

------------------------------- MODULE Desktop -------------------------------
(***************************************************************************)
(* Desktop applications that execute the assignments of the task runtime.  *)
(* A desktop polls for assignments, and for each one it takes it runs      *)
(* through accept, claim, execution and two reports, writing ahead in a    *)
(* journal on its disk.  It may crash at any point and reads the journal   *)
(* when it starts again.                                                   *)
(*                                                                         *)
(* The requests of TaskRuntime that belong to a worker are made by runs    *)
(* here, and by nobody else; schedulers, operators and time do as they do  *)
(* there.  A step of a run goes from one await to the next; what is local  *)
(* and unobserved between two awaits is one step.                          *)
(***************************************************************************)
EXTENDS TaskRuntime

CONSTANTS
  Device,     \* the desktops; each has its own journal and repository
  Slots,      \* maxWorkers: how many assignments one desktop runs at a time
  SlotLimit,  \* how many of each execution class
  Poll,       \* bound: polls of one desktop that overlap, with the runs they start
  Lossy,      \* requests and their answers may get lost
  Operator,   \* bound: what the operator does with tasks
  NoLease

ASSUME SlotAssumption == Slots \in Nat /\ SlotLimit \in [ExecutionClass -> Nat]
ASSUME LossyAssumption == Lossy \in BOOLEAN /\ Operator \subseteq {"retry", "skip"}
ASSUME NoLeaseAssumption == NoLease \notin Lease

Phase ==
  {"none",       \* no slot has the assignment, or its slot is through with it
   "accepting", "claiming",
   "starting",   \* claimed, nothing done yet
   "executing", "applied", "restored", "submitting",
   "reporting",  \* the result under the lease
   "closing",    \* the result of the assignment
   "failing"}    \* in the handler of whatever went wrong

Stage == {"none", "accepted", "claimed", "executing", "rolled_back", "verifying"}

Mode ==
  {"down", "recovering", "polling",
   "stranded",   \* its first poll was lost: up, without ever polling again
   "stopping"}

\* A poll of a desktop, which is its first component.
Poller == Device \X Poll

VARIABLES
  mode,     \* of each desktop
  offered,  \* the answer of each poll, as far as it is not handled yet
  run,      \* where a run that a poll started is with its assignment
  token,    \* the lease a run holds the token of
  halted,   \* the runs that were told to stop
  journal,  \* the stage in each desktop's entry for an assignment; "none": no entry
  todo,     \* the entries a starting desktop has yet to reconcile
  patched   \* the tasks whose patch is in each desktop's repository

desktop == <<mode, offered, run, token, halted, journal, todo, patched>>

-----------------------------------------------------------------------------
\* Runs that have not been through with their assignment yet.
Busy(d) == {r \in Poller \X Assignment : r[1][1] = d /\ run[r[1]][r[2]] # "none"}

\* Runs that count against the capacity: one that failed does not, nor one that was
\* told to stop, although it goes on.
ActiveRuns(d) == {r \in Busy(d) \ halted : run[r[1]][r[2]] # "failing"}

HasCapacity(d, a) ==
  /\ Cardinality(ActiveRuns(d)) < Slots
  /\ \A r \in ActiveRuns(d) : r[2][1] # a[1]
  /\ Cardinality({r \in ActiveRuns(d) : Class[r[2][1]] = Class[a[1]]})
       < SlotLimit[Class[a[1]]]

Advance(p, a, phase) == run' = [run EXCEPT ![p][a] = phase]
Note(d, a, stage) == journal' = [journal EXCEPT ![d][a] = stage]

\* A request of the run of p for a, whose answer is the phase it goes on with.
\* The answer may be lost although the request was executed.
Answered(p, a, phase) ==
  \/ Advance(p, a, phase)
  \/ Lossy /\ Advance(p, a, "failing")

\* The request is refused for a reason, or never arrives.
Denied(p, a, reason) ==
  /\ reason \/ Lossy
  /\ Advance(p, a, "failing")
  /\ UNCHANGED vars

-----------------------------------------------------------------------------
(***************************************************************************)
(* Polling and running an assignment.                                      *)
(***************************************************************************)
\* What the backend answers a poll.
Available == {a \in Assignment \ lapsed : status[a] = "assigned" /\ task[a[1]] = "ready"}

\* The backend answers a poll; the desktop has yet to handle the answer.
PollAssignments(p) ==
  /\ mode[p[1]] = "polling" /\ offered[p] = {}
  /\ Available # {}
  /\ offered' = [offered EXCEPT ![p] = Available]
  /\ UNCHANGED <<vars, mode, run, token, halted, journal, todo, patched>>

\* Slip: the entry is written once the assignment is accepted.
DiscoverUnwritten(p, a) ==
  /\ a \in offered[p]
  /\ offered' = [offered EXCEPT ![p] = @ \ {a}]
  /\ \/ HasCapacity(p[1], a) /\ run[p][a] = "none" /\ Advance(p, a, "accepting")
     \/ ~ HasCapacity(p[1], a) /\ UNCHANGED run
  /\ UNCHANGED <<vars, mode, token, halted, journal, todo, patched>>

\* An assignment of an answer for which there is a slot is taken up, and the journal
\* knows of it before the backend does; without a slot it is passed over.  Nobody
\* looks whether the desktop was told to stop since it asked, nor what became of the
\* assignment.
Discover(p, a) ==
  /\ a \in offered[p]
  /\ offered' = [offered EXCEPT ![p] = @ \ {a}]
  /\ \/ /\ HasCapacity(p[1], a) /\ run[p][a] = "none"
        /\ Advance(p, a, "accepting") /\ Note(p[1], a, "accepted")
     \/ ~ HasCapacity(p[1], a) /\ UNCHANGED <<run, journal>>
  /\ UNCHANGED <<vars, mode, token, halted, todo, patched>>

\* An assignment that is accepted too late ends, and the request is refused.
RequestAccept(p, a) ==
  /\ run[p][a] = "accepting"
  /\ \/ Accept(a) /\ Answered(p, a, "claiming")
     \/ AcceptLate(a) /\ Advance(p, a, "failing")
     \/ Denied(p, a, status[a] # "assigned")
  /\ UNCHANGED <<mode, offered, token, halted, journal, todo, patched>>

\* Another lease that is live, a task or a mission in another state, or a version of
\* the task that is not the one polled: the claim is refused.  Versions are left out,
\* so it may always be refused.  With the claim a run that was told to stop forgets
\* that it was.
RequestClaim(p, a) ==
  LET t == a[1] IN
  /\ run[p][a] = "claiming"
  /\ \/ \E k \in 1 .. MaxLease :
          /\ Claim(<<t, k>>)
          /\ \/ /\ Advance(p, a, "starting")
                /\ token' = [token EXCEPT ![p][a] = <<t, k>>]
                /\ halted' = halted \ {<<p, a>>}
                /\ Note(p[1], a, "claimed")
             \/ /\ Lossy /\ Advance(p, a, "failing")
                /\ UNCHANGED <<token, halted, journal>>
     \/ Denied(p, a, TRUE) /\ UNCHANGED <<token, halted, journal>>
  /\ UNCHANGED <<mode, offered, todo, patched>>

\* The executor tells its first stage.
BeginExecution(p, a) ==
  /\ run[p][a] = "starting"
  /\ Advance(p, a, "executing") /\ Note(p[1], a, "executing")
  /\ UNCHANGED <<vars, mode, offered, token, halted, todo, patched>>

\* While it executes, the run keeps moving both expiries: that of the lease by
\* not letting LapseLease happen, that of the assignment here.  An answer that
\* is an error is noted and changes nothing.  A run that was told to stop beats no
\* more.
RequestHeartbeat(p, a) ==
  /\ run[p][a] \in {"executing", "applied", "restored"} /\ <<p, a>> \notin halted
  /\ Heartbeat(a)
  /\ UNCHANGED desktop

\* The executor of write-sensitive tasks removes a file, creates it anew, verifies
\* it and undoes that, all before it tells of the change; the others only read.
\* When it fails half-way, nobody undoes what it did.  (Another run of the repository
\* may get in its way: any of this may fail.)
Execute(p, a) ==
  LET copy == <<p[1], a[1]>> IN
  /\ \/ /\ run[p][a] = "executing" /\ Class[a[1]] = "write_sensitive"
        /\ Advance(p, a, "applied")
        /\ patched' = patched \cup {copy} /\ UNCHANGED journal
     \/ /\ run[p][a] = "applied"
        /\ Advance(p, a, "restored")
        /\ patched' = patched \ {copy} /\ UNCHANGED journal
     \/ /\ run[p][a] = "restored"
        /\ Advance(p, a, "submitting") /\ Note(p[1], a, "rolled_back")
        /\ UNCHANGED patched
     \/ /\ run[p][a] = "executing" /\ Class[a[1]] # "write_sensitive"
        /\ Advance(p, a, "submitting")
        /\ UNCHANGED <<journal, patched>>
     \/ /\ run[p][a] \in {"executing", "applied", "restored"}
        /\ Advance(p, a, "failing")
        /\ patched' = IF run[p][a] = "executing" /\ Class[a[1]] = "write_sensitive"
                      THEN patched \ {copy} ELSE patched
        /\ UNCHANGED journal
  /\ UNCHANGED <<vars, mode, offered, token, halted, todo>>

\* The evidence and the change set are sent.
Submit(p, a) ==
  /\ run[p][a] = "submitting"
  /\ \/ Advance(p, a, "reporting") /\ Note(p[1], a, "verifying")
     \/ Lossy /\ Advance(p, a, "failing") /\ UNCHANGED journal
  /\ UNCHANGED <<vars, mode, offered, token, halted, todo, patched>>

RequestCompleteTask(p, a) ==
  LET l == token[p][a] IN
  /\ run[p][a] = "reporting"
  /\ \/ CompleteTask(l, "completed") /\ Answered(p, a, "closing")
     \/ Denied(p, a, lease[l] # "live" \/ task[a[1]] # "running")
  /\ UNCHANGED <<mode, offered, token, halted, journal, todo, patched>>

\* The report cannot be committed, because of the other rows of the mission.
CannotEnd(a, st, ts) ==
  /\ status[a] \in Active
  /\ ~ UniqueTaskStatus(Swept([Ended(a, st) EXCEPT !.task[a[1]] = ts]))

TaskOnCompletion(a) == IF task[a[1]] = "running" THEN "completed" ELSE task[a[1]]

\* The run is over: its slot is free, its token forgotten.
Finished(p, a) ==
  /\ Advance(p, a, "none")
  /\ token' = [token EXCEPT ![p][a] = NoLease]
  /\ halted' = halted \ {<<p, a>>}

\* An assignment that is completed already answers as if it had just been.
RequestCompleteAssignment(p, a) ==
  /\ run[p][a] = "closing"
  /\ \/ /\ CompleteAssignment(a) \/ (status[a] = "completed" /\ UNCHANGED vars)
        /\ \/ Finished(p, a) /\ Note(p[1], a, "none")
           \/ Lossy /\ Advance(p, a, "failing") /\ UNCHANGED <<token, halted, journal>>
     \/ /\ Denied(p, a, \/ status[a] \notin Active \cup {"completed"}
                        \/ CannotEnd(a, "completed", TaskOnCompletion(a)))
        /\ UNCHANGED <<token, halted, journal>>
  /\ UNCHANGED <<mode, offered, todo, patched>>

\* Whatever went wrong is reported as a failure that is not worth retrying.
\* The answer makes no difference, and the journal keeps the entry.
RequestFail(p, a) ==
  /\ run[p][a] = "failing"
  /\ \/ FailAssignment(a, FALSE)
     \/ /\ status[a] \notin Active \/ CannotEnd(a, "failed", "failed") \/ Lossy
        /\ UNCHANGED vars
  /\ Finished(p, a)
  /\ UNCHANGED <<mode, offered, journal, todo, patched>>

-----------------------------------------------------------------------------
(***************************************************************************)
(* Crash and recovery.                                                     *)
(***************************************************************************)
\* The runs and the undo snapshots are lost, the disk is not.
ProcessEnds(d) ==
  /\ mode' = [mode EXCEPT ![d] = "down"]
  /\ offered' = [p \in Poller |-> IF p[1] = d THEN {} ELSE offered[p]]
  /\ run' = [p \in Poller |-> IF p[1] = d THEN [a \in Assignment |-> "none"] ELSE run[p]]
  /\ token' = [p \in Poller |-> IF p[1] = d THEN [a \in Assignment |-> NoLease] ELSE token[p]]
  /\ halted' = {r \in halted : r[1][1] # d}
  /\ todo' = [todo EXCEPT ![d] = {}]
  /\ UNCHANGED <<vars, journal, patched>>

Crash(d) == mode[d] # "down" /\ ProcessEnds(d)

\* A desktop that is told to stop sends no more polls and waits for its runs.
Stop(d) ==
  /\ mode[d] \in {"polling", "stranded"}
  /\ mode' = [mode EXCEPT ![d] = "stopping"]
  /\ halted' = halted \cup Busy(d)
  /\ UNCHANGED <<vars, offered, run, token, journal, todo, patched>>

\* With its runs over its process ends, and with it the answers still out.
Drained(d) == mode[d] = "stopping" /\ Busy(d) = {} /\ ProcessEnds(d)

Start(d) ==
  /\ mode[d] = "down"
  /\ mode' = [mode EXCEPT ![d] = "recovering"]
  /\ todo' = [todo EXCEPT ![d] = {a \in Assignment : journal[d][a] # "none"}]
  /\ UNCHANGED <<vars, offered, run, token, halted, journal, patched>>

\* What the files of the entry look like.  The entry names files only once the
\* executor told of its change, which creates a file: gone is "missing", there
\* is "expected_modified".
RepositoryState(d, a) ==
  CASE ~ (journal[d][a] \in {"rolled_back", "verifying"}
            /\ Class[a[1]] = "write_sensitive")  -> "unchanged"
    [] <<d, a[1]>> \in patched                   -> "expected_modified"
    [] OTHER                                     -> "missing"

\* Slip: what the backend says is not asked for.
RecoveryDecisionLocal(stage, backend, repository) ==
  CASE repository = "missing" -> "manual_review_required"
    [] stage = "executing" -> "abandoned"
    [] stage = "rolled_back" /\ repository = "unchanged" -> "recovered"
    [] OTHER -> "reconciled"

RecoveryDecision(stage, backend, repository) ==
  CASE repository = "missing" -> "manual_review_required"
    [] stage = "rolled_back" /\ backend = "expired" /\ repository = "unchanged" -> "recovered"
    [] stage = "executing" /\ backend = "expired" -> "abandoned"
    [] OTHER -> "reconciled"

\* Slip: the decision is written over the stage.
RecoverMarked(d, a) ==
  LET decision == RecoveryDecision(journal[d][a], status[a], RepositoryState(d, a)) IN
  /\ mode[d] = "recovering" /\ a \in todo[d]
  /\ todo' = [todo EXCEPT ![d] = @ \ {a}]
  /\ Note(d, a, IF decision \in {"abandoned", "recovered"} THEN "none" ELSE decision)
  /\ UNCHANGED <<vars, mode, offered, run, token, halted, patched>>

\* One entry is compared with the backend and the repository, and reported.  An
\* entry that is not settled stays, and its stage with it.  That the backend is
\* asked before the report is sent makes no difference: only an assignment that
\* has expired settles an entry, and it stays so.
Recover(d, a) ==
  /\ mode[d] = "recovering" /\ a \in todo[d]
  /\ todo' = [todo EXCEPT ![d] = @ \ {a}]
  /\ \/ Note(d, a, IF RecoveryDecision(journal[d][a], status[a], RepositoryState(d, a))
                        \in {"abandoned", "recovered"}
                   THEN "none" ELSE journal[d][a])
     \/ Lossy /\ UNCHANGED journal
  /\ UNCHANGED <<vars, mode, offered, run, token, halted, patched>>

\* All entries done, the desktop polls, and keeps polling unless that first poll
\* fails.  When it was told to stop in the meantime, it polls this once all the same.
Recovered(d) ==
  /\ mode[d] = "recovering" /\ todo[d] = {}
  /\ \/ mode' = [mode EXCEPT ![d] = "polling"] /\ UNCHANGED offered
     \/ Lossy /\ mode' = [mode EXCEPT ![d] = "stranded"] /\ UNCHANGED offered
     \/ /\ mode' = [mode EXCEPT ![d] = "stopping"]
        /\ \E p \in Poller : p[1] = d /\ offered' = [offered EXCEPT ![p] = Available]
  /\ UNCHANGED <<vars, run, token, halted, journal, todo, patched>>

-----------------------------------------------------------------------------
DesktopInit ==
  /\ Init
  /\ mode = [d \in Device |-> "down"]
  /\ offered = [p \in Poller |-> {}]
  /\ run = [p \in Poller |-> [a \in Assignment |-> "none"]]
  /\ token = [p \in Poller |-> [a \in Assignment |-> NoLease]]
  /\ halted = {}
  /\ journal = [d \in Device |-> [a \in Assignment |-> "none"]]
  /\ todo = [d \in Device |-> {}]
  /\ patched = {}

\* What a run does by itself.
Working(p, a) ==
  \/ RequestAccept(p, a)
  \/ RequestClaim(p, a)
  \/ BeginExecution(p, a)
  \/ Execute(p, a)
  \/ Submit(p, a)
  \/ RequestCompleteTask(p, a)
  \/ RequestCompleteAssignment(p, a)
  \/ RequestFail(p, a)

\* Everybody else.
Around ==
  /\ \/ Dispatch
     \/ Schedule
     \/ GetState
     \/ \E t \in Task : \/ "retry" \in Operator /\ Retry(t)
                        \/ "skip" \in Operator /\ Skip(t)
     \/ \E command \in Commands : TransitionMission(command)
     \/ \E a \in Assignment : LapseAssignment(a)
     \/ \E l \in Lease : LapseLease(l)
  /\ UNCHANGED desktop

DesktopNext ==
  \/ Around
  \/ \E p \in Poller :
       \/ PollAssignments(p)
       \/ \E a \in Assignment : Discover(p, a) \/ Working(p, a) \/ RequestHeartbeat(p, a)
  \/ \E d \in Device :
       \/ \E a \in Assignment : Recover(d, a)
       \/ Crash(d)
       \/ Stop(d)
       \/ Drained(d)
       \/ Start(d)
       \/ Recovered(d)

all == <<vars, desktop>>

DesktopSpec == DesktopInit /\ [][DesktopNext]_all

\* What a desktop does by turns: start and stop, poll, and work.
Starting(d) ==
  Start(d) \/ Recovered(d) \/ Drained(d) \/ \E a \in Assignment : Recover(d, a)

Polling(d) ==
  \E p \in Poller : p[1] = d /\ (PollAssignments(p) \/ \E a \in Assignment : Discover(p, a))

Runs(d) == \E p \in Poller : p[1] = d /\ \E a \in Assignment : Working(p, a)

\* A desktop that is down is started again, one that is up goes on with each of its
\* turns; time passes; and the mission is watched by a client that keeps asking for
\* its state and for a schedule.  Crashes, operators and losses are under no
\* obligation.
FairDesktopSpec ==
  /\ DesktopSpec
  /\ \A d \in Device : WF_all(Starting(d)) /\ WF_all(Polling(d)) /\ WF_all(Runs(d))
  /\ WF_all(\E a \in Assignment : LapseAssignment(a) /\ UNCHANGED desktop)
  /\ WF_all(\E l \in Lease : LapseLease(l) /\ UNCHANGED desktop)
  /\ WF_all(GetState /\ UNCHANGED desktop)
  /\ WF_all(Schedule /\ UNCHANGED desktop)

-----------------------------------------------------------------------------
\* Every variable has its type.
DesktopTypeOK ==
  /\ TypeOK
  /\ mode \in [Device -> Mode]
  /\ offered \in [Poller -> SUBSET Assignment]
  /\ run \in [Poller -> [Assignment -> Phase]]
  /\ token \in [Poller -> [Assignment -> Lease \cup {NoLease}]]
  /\ halted \subseteq Poller \X Assignment
  /\ journal \in [Device -> [Assignment -> Stage]]
  /\ todo \in [Device -> SUBSET Assignment]
  /\ patched \subseteq Device \X Task

\* An assignment that is accepted has an entry in the journal of the desktop
\* that accepted it, whatever crashed, restarted or was reconciled since: there
\* is somebody who can say what became of it.
JournalCoversWork ==
  \A a \in Assignment : status[a] = "accepted" => \E d \in Device : journal[d][a] # "none"

\* An entry is given up only when the backend no longer waits for the assignment.
DiscardOnlyEnded ==
  [][\A d \in Device, a \in Assignment :
       journal[d][a] # "none" /\ journal'[d][a] = "none" => status'[a] \notin Active]_all

\* Of the runs for an assignment, on one desktop or on several, one gets beyond
\* accepting it.
AcceptedByOne ==
  \A p, q \in Poller, a \in Assignment :
    run[p][a] \notin {"none", "accepting", "failing"}
      /\ run[q][a] \notin {"none", "accepting", "failing"} => p = q

-----------------------------------------------------------------------------
(***************************************************************************)
(* What must eventually happen.                                            *)
(***************************************************************************)
\* An assignment ends, by a report or by expiry, whatever its desktop does,
\* unless no schedule of the mission can commit.
AssignmentEnds ==
  \A a \in Assignment : status[a] \in Active ~> (status[a] \notin Active \/ Wedged)

\* Paths that an assignment left behind when it was accepted too late.
Leaked == ~ PathsReleasedWithAssignment

\* A task that is ready is decided, however often the desktop crashes and its
\* assignments and leases expire, unless the mission is stopped, no schedule can
\* commit, or the paths the task needs are never given back.
TaskIsDecided ==
  \A t \in Task : task[t] = "ready" ~> (task[t] \in Terminal \/ Stopped \/ Wedged \/ Leaked)

=============================================================================

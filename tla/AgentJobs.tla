------------------------------ MODULE AgentJobs ------------------------------
(***************************************************************************)
(* One background job, and the processes that may execute it.              *)
(*                                                                         *)
(* In the local setup each process polls the table for a queued job and    *)
(* claims it without a lock.  In production a broker delivers the job, the *)
(* claim locks its row, and a delivery is acknowledged only when it is     *)
(* over, so that it comes again when the process dies.  Both execute the   *)
(* job alike: they look at its status before and after planning, and write *)
(* its last status whatever it has become meanwhile.                       *)
(*                                                                         *)
(* To cancel or to pause a job is a request that looks at the job, calls   *)
(* the broker, and only then writes what it decided, without a lock.  What *)
(* only computes between its look and its write is modelled as one step.   *)
(***************************************************************************)
EXTENDS Integers, FiniteSets

CONSTANTS
  Runner,         \* the processes that execute jobs
  Request,        \* the requests to cancel or pause that may be under way
  MaxRetries,     \* AGENT_JOB_MAX_RETRIES
  MaxCount,       \* bound: failures that a task counts
  MaxDeliveries   \* bound: deliveries waiting in the broker

ASSUME RetriesAssumption == MaxRetries \in Nat \ {0}
ASSUME BoundsAssumption == MaxCount \in Nat /\ MaxDeliveries \in Nat

VARIABLES
  celery,      \* whether a broker delivers the jobs
  status,      \* the job's status
  retries,     \* retry_count of its metadata
  young,       \* it was started, or else created, within the last ten minutes
  heard,       \* no heartbeat of it is older than that
  at,          \* what each process is doing about the job
  deliveries,  \* deliveries of the job that wait in the broker
  asked,       \* what requests under way have seen and will write
  lost         \* since it was last claimed, an execution ended without a word

job == <<status, retries, young, heard>>
vars == <<celery, job, at, deliveries, asked, lost>>

Ended == {"completed", "failed", "cancelled", "timeout", "dead_letter"}
Swept == {"claimed", "running", "queued", "retrying", "cancel_requested"}
JobStatus == Ended \cup Swept \cup {"paused"}

Idle(r) == at[r] = "idle"
Goes(r, where) == at' = [at EXCEPT ![r] = where]
Exhausted == retries >= MaxRetries

\* Created for a worker; where the broker cannot be reached, the job has failed.
Init ==
  /\ celery \in BOOLEAN
  /\ \/ status = "queued" /\ deliveries = (IF celery THEN 1 ELSE 0)
     \/ celery /\ status = "failed" /\ deliveries = 0
  /\ retries = 0 /\ lost = FALSE /\ asked = << >>
  /\ young = TRUE /\ heard = TRUE
  /\ at = [r \in Runner |-> "idle"]

-----------------------------------------------------------------------------
(***************************************************************************)
(* The user.                                                               *)
(***************************************************************************)
\* The broker drops the job's delivery, or terminates its execution, if it can.
Revoked(terminate) ==
  \E K \in SUBSET {r \in Runner : celery /\ terminate /\ ~Idle(r)}, d \in {0, 1} :
    /\ d <= deliveries
    /\ deliveries' = deliveries - d
    /\ at' = [r \in Runner |-> IF r \in K THEN "idle" ELSE at[r]]
    /\ lost' = (lost \/ K # {})

\* The request looks at the job once, and decides on its next status.
Looks(q, to) ==
  /\ q \notin DOMAIN asked
  /\ status \notin Ended
  /\ asked' = [x \in DOMAIN asked \cup {q} |->
       IF x = q THEN [seen |-> status, to |-> to, retries |-> retries, heard |-> heard]
                ELSE asked[x]]
  /\ UNCHANGED <<celery, job>>

Cancel(q) ==
  /\ Looks(q, IF status \in {"claimed", "running", "retrying"}
              THEN "cancel_requested" ELSE "cancelled")
  /\ Revoked(TRUE)

Pause(q) ==
  /\ Looks(q, "paused")
  /\ Revoked(FALSE)

Done(q) == asked' = [x \in DOMAIN asked \ {q} |-> asked[x]]

\* It writes its decision, whatever became of the job, unless it saw that very
\* status.  The metadata with the count and the heartbeat are written as they
\* were when it looked; the heartbeat may have grown old meanwhile.
Writes(q) ==
  /\ q \in DOMAIN asked
  /\ Done(q)
  /\ status' = IF asked[q].to = asked[q].seen THEN status ELSE asked[q].to
  /\ retries' = asked[q].retries
  /\ heard' \in {asked[q].heard, FALSE}
  /\ UNCHANGED <<celery, young, at, deliveries, lost>>

\* The request dies, or the database refuses it.
Dropped(q) ==
  /\ q \in DOMAIN asked
  /\ Done(q)
  /\ UNCHANGED <<celery, job, at, deliveries, lost>>

\* The job is handed to a worker again, or fails for want of one.
Handed(st) ==
  /\ \/ celery /\ deliveries < MaxDeliveries /\ deliveries' = deliveries + 1 /\ status' = st
     \/ celery /\ deliveries' = deliveries /\ status' = "failed"
     \/ ~celery /\ deliveries' = deliveries /\ status' = st
  /\ UNCHANGED <<celery, at, asked, lost>>

\* Its age counts from its creation again, which lies before its start.
Unstarted == young' \in {young, FALSE}

\* Only a paused job is queued, but any job is handed to a worker.
Resume ==
  /\ Handed(IF status = "paused" THEN "queued" ELSE status)
  /\ IF status = "paused" THEN Unstarted ELSE UNCHANGED young
  /\ UNCHANGED <<retries, heard>>

Retry ==
  /\ status \notin {"running", "queued"}
  /\ ~Exhausted
  /\ retries' = retries + 1
  /\ Handed("retrying")
  /\ Unstarted
  /\ heard' = TRUE

-----------------------------------------------------------------------------
(***************************************************************************)
(* Claiming.                                                               *)
(***************************************************************************)
Pick(r) ==
  /\ ~celery /\ Idle(r)
  /\ status \in {"queued", "retrying"}
  /\ Goes(r, "picked")
  /\ UNCHANGED <<celery, job, deliveries, asked, lost>>

Claimed(r) ==
  /\ status' = "claimed"
  /\ young' = TRUE /\ heard' = TRUE
  /\ Goes(r, "claimed")
  /\ lost' = FALSE
  /\ UNCHANGED <<celery, retries, asked>>

\* Whatever happened to the job since it was picked.
ClaimPicked(r) ==
  /\ at[r] = "picked"
  /\ Claimed(r)
  /\ UNCHANGED deliveries

\* Slip: a delivery is carried out whatever the job's status is.
ClaimAnything(r) ==
  /\ celery /\ Idle(r) /\ deliveries > 0
  /\ deliveries' = deliveries - 1
  /\ Claimed(r)

ClaimDelivery(r) ==
  /\ celery /\ Idle(r) /\ deliveries > 0
  /\ status \notin Ended \cup {"paused", "cancel_requested"}
  /\ deliveries' = deliveries - 1
  /\ Claimed(r)

IgnoreDelivery(r) ==
  /\ celery /\ Idle(r) /\ deliveries > 0
  /\ status \in Ended \cup {"paused", "cancel_requested"}
  /\ deliveries' = deliveries - 1
  /\ status' = IF status = "cancel_requested" THEN "cancelled" ELSE status
  /\ heard' = (heard \/ status = "cancel_requested")
  /\ UNCHANGED <<celery, retries, young, at, asked, lost>>

-----------------------------------------------------------------------------
(***************************************************************************)
(* Executing.                                                              *)
(***************************************************************************)
\* complete_job: no status is looked at.
Complete(r, st) ==
  /\ status' = st
  /\ heard' = TRUE
  /\ Goes(r, "idle")
  /\ UNCHANGED <<celery, retries, young, deliveries, asked, lost>>

\* Stopped on the user's behalf, at one of the two places where the status is
\* looked at; a paused job is left as it is.
Heeds(r) ==
  /\ at[r] \in {"claimed", "planning"}
  /\ \/ status \in {"cancelled", "cancel_requested"} /\ Complete(r, "cancelled")
     \/ /\ status = "paused"
        /\ Goes(r, "idle")
        /\ UNCHANGED <<celery, job, deliveries, asked, lost>>

Start(r) ==
  /\ at[r] = "claimed"
  /\ status \notin {"cancelled", "cancel_requested", "paused"}
  /\ status' = "running"
  /\ heard' = TRUE
  /\ Goes(r, "planning")
  /\ UNCHANGED <<celery, retries, young, deliveries, asked, lost>>

Planned(r) ==
  /\ at[r] = "planning"
  /\ status \notin {"cancelled", "cancel_requested", "paused"}
  /\ heard' = TRUE
  /\ Goes(r, "patching")
  /\ UNCHANGED <<celery, status, retries, young, deliveries, asked, lost>>

\* Slip: planning that takes too long is left without a word.
EndsSilently(r) ==
  \/ at[r] = "patching" /\ Complete(r, "completed")
  \/ /\ at[r] = "planning"
     /\ Goes(r, "idle")
     /\ UNCHANGED <<celery, job, deliveries, asked, lost>>
  \/ /\ at[r] \in {"claimed", "planning", "patching"}
     /\ Complete(r, IF Exhausted THEN "dead_letter" ELSE "failed")

\* Planning may take too long, and anything may raise.
Ends(r) ==
  \/ at[r] = "patching" /\ Complete(r, "completed")
  \/ at[r] = "planning" /\ Complete(r, "timeout")
  \/ /\ at[r] \in {"claimed", "planning", "patching"}
     /\ Complete(r, IF Exhausted THEN "dead_letter" ELSE "failed")

\* What the execution does not catch itself, the task counts and raises again;
\* the broker delivers the job once more, until it has done so three times.
Counted(r, last) ==
  /\ celery /\ ~Idle(r)
  /\ retries < MaxCount
  /\ retries' = retries + 1
  /\ \/ last /\ status' = "dead_letter" /\ UNCHANGED young
     \/ ~last /\ status' = "retrying" /\ Unstarted
  /\ deliveries' \in {deliveries, deliveries + 1} /\ deliveries' <= MaxDeliveries
  /\ heard' = TRUE
  /\ Goes(r, "idle")
  /\ UNCHANGED <<celery, asked, lost>>

\* Slip: the last retry is counted as used up already.
TaskFailsEarly(r) == Counted(r, retries + 2 >= MaxRetries)

TaskFails(r) == Counted(r, retries + 1 >= MaxRetries)

\* A process that dies, or, in the local setup, an execution that fails in a way
\* that it cannot even tell of: the session with the job is broken.
BreaksOff(r) ==
  /\ ~Idle(r)
  /\ lost' = TRUE
  /\ Goes(r, "idle")
  /\ UNCHANGED <<celery, job, asked>>

Die(r) ==
  /\ BreaksOff(r)
  /\ IF celery THEN deliveries < MaxDeliveries /\ deliveries' = deliveries + 1
               ELSE UNCHANGED deliveries

Escapes(r) ==
  /\ ~celery
  /\ BreaksOff(r)
  /\ UNCHANGED deliveries

-----------------------------------------------------------------------------
(***************************************************************************)
(* Looking after jobs that do not get on.                                  *)
(***************************************************************************)
\* Slip: what a worker has claimed is left to the worker.
SweptWaiting ==
  CASE Exhausted -> "dead_letter"
    [] ~Exhausted /\ status \in {"queued", "retrying"} -> "retrying"
    [] ~Exhausted /\ status = "cancel_requested" -> "cancelled"
    [] OTHER -> status

SweptStatus ==
  CASE Exhausted -> "dead_letter"
    [] ~Exhausted /\ status \in {"queued", "retrying"} -> "retrying"
    [] ~Exhausted /\ status = "cancel_requested" -> "cancelled"
    [] OTHER -> "failed"

\* Slip: the worker is told that its job is stale.
SweepStale ==
  /\ status \in Swept
  /\ ~young \/ ~heard
  /\ status' = "stale"
  /\ heard' = TRUE
  /\ UNCHANGED <<celery, retries, young, at, deliveries, asked, lost>>

\* On every listing of the jobs, and periodically where there is a broker.  A
\* job that is put back is not delivered again.
Sweep ==
  /\ status \in Swept
  /\ ~young \/ ~heard
  /\ status' = SweptStatus
  /\ retries' = IF SweptStatus = "retrying" THEN retries + 1 ELSE retries
  /\ heard' = TRUE
  /\ young' = (young /\ SweptStatus # "retrying")
  /\ UNCHANGED <<celery, at, deliveries, asked, lost>>

\* Before it polls, a local process ends the jobs that show no life at all.
TimeOut(r) ==
  /\ ~celery /\ Idle(r)
  /\ status \in {"claimed", "running", "cancel_requested"}
  /\ ~young /\ ~heard
  /\ status' = "failed" /\ heard' = TRUE
  /\ UNCHANGED <<celery, retries, young, at, deliveries, asked, lost>>

\* A claim writes both times at once.
TimePasses ==
  /\ young \/ heard
  /\ young' \in {young, FALSE} /\ heard' \in {heard, FALSE}
  /\ <<young, heard>>' # <<young, heard>>
  /\ status = "claimed" => young' = heard'
  /\ UNCHANGED <<celery, status, retries, at, deliveries, asked, lost>>

Next ==
  \/ Sweep \/ TimePasses
  \/ \E q \in Request : Cancel(q) \/ Pause(q) \/ Writes(q) \/ Dropped(q)
  \/ Resume \/ Retry
  \/ \E r \in Runner :
       \/ Pick(r) \/ ClaimPicked(r) \/ ClaimDelivery(r) \/ IgnoreDelivery(r)
       \/ Heeds(r) \/ Start(r) \/ Planned(r) \/ Ends(r)
       \/ TaskFails(r) \/ Die(r) \/ Escapes(r) \/ TimeOut(r)

Spec == Init /\ [][Next]_vars

\* Time passes, and somebody sweeps: the beat, or a user who lists the jobs.
\* Nothing is assumed of the processes that execute the job.
FairSpec == Spec /\ WF_vars(Sweep) /\ WF_vars(TimePasses)

-----------------------------------------------------------------------------
\* Every variable has its type.
TypeOK ==
  /\ celery \in BOOLEAN /\ young \in BOOLEAN /\ heard \in BOOLEAN /\ lost \in BOOLEAN
  /\ status \in JobStatus
  /\ retries \in Nat
  /\ at \in [Runner -> {"idle", "picked", "claimed", "planning", "patching"}]
  /\ deliveries \in Nat
  /\ DOMAIN asked \subseteq Request
  /\ \A q \in DOMAIN asked :
       asked[q] \in [seen : JobStatus, to : {"cancel_requested", "cancelled", "paused"},
                     retries : Nat, heard : BOOLEAN]

\* A job that is claimed or runs is executed by somebody, unless an execution
\* broke off since: no other way out of it forgets to tell the job's status.
RunningIsExecuted ==
  status \in {"claimed", "running"} /\ ~lost => \E r \in Runner : ~Idle(r)

\* Four places give a job up, by the count before or after they raise it; all
\* of them do so only when its retries are used up.
GivesUpExhausted ==
  [][status' = "dead_letter" /\ status # "dead_letter" => retries' >= MaxRetries]_vars

\* Once a job has ended, nobody executes it any more and nobody who looked at it
\* before is about to cancel or pause it, only a retry brings it back: no late
\* delivery, no sweep and no other request.  (A job that cannot be handed to a
\* worker fails, whatever it was.)
EndedStays ==
  [][(status \in Ended /\ (\A r \in Runner : Idle(r)) /\ DOMAIN asked = {})
       => (status' \in {status, "retrying", "failed"})]_vars

\* However its executions break off and whatever requests overwrite, a job comes to
\* an end or to a pause, unless it is claimed again and again.
JobEnds ==
  \/ status \in Swept ~> status \in Ended \cup {"paused"}
  \/ []<><<\E r \in Runner : Claimed(r)>>_vars

-----------------------------------------------------------------------------
\* A sweep fails a job only when it made no progress for ten minutes.
SweptWithoutProgress == [][Sweep /\ status' = "failed" => ~heard]_vars
=============================================================================

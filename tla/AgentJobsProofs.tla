--------------------------- MODULE AgentJobsProofs ---------------------------
(***************************************************************************)
(* What holds of a background job for any number of processes, retries,    *)
(* deliveries, and requests under way.                                     *)
(***************************************************************************)
EXTENDS AgentJobs, TLAPS

JobInv == TypeOK /\ RunningIsExecuted

\* What a process does about the job.
Run(r) ==
  \/ Pick(r) \/ ClaimPicked(r) \/ ClaimDelivery(r) \/ IgnoreDelivery(r)
  \/ Heeds(r) \/ Start(r) \/ Planned(r) \/ Ends(r)
  \/ TaskFails(r) \/ Die(r) \/ Escapes(r) \/ TimeOut(r)

\* What a request to cancel or to pause does.
Meddle(q) == Cancel(q) \/ Pause(q) \/ Writes(q) \/ Dropped(q)

LEMMA InitJobInv == Init => JobInv
<1> SUFFICES ASSUME Init PROVE JobInv OBVIOUS
<1>1. TypeOK
  <2>1. DOMAIN asked = {}
    <3>1. DOMAIN << >> = {} OBVIOUS
    <3>2. QED BY <3>1 DEF Init
  <2>2. status \in JobStatus /\ deliveries \in Nat BY DEF Init, JobStatus, Ended, Swept
  <2>3. /\ celery \in BOOLEAN /\ young \in BOOLEAN /\ heard \in BOOLEAN /\ lost \in BOOLEAN
        /\ retries \in Nat
        /\ at \in [Runner -> {"idle", "picked", "claimed", "planning", "patching"}]
    BY DEF Init
  <2>4. QED BY <2>1, <2>2, <2>3 DEF TypeOK
<1>2. RunningIsExecuted
  BY DEF Init, RunningIsExecuted
<1>3. QED BY <1>1, <1>2 DEF JobInv

\* What requests have seen and will write.
Seen == [seen : JobStatus, to : {"cancel_requested", "cancelled", "paused"},
         retries : Nat, heard : BOOLEAN]

LEMMA AskedStep ==
  ASSUME TypeOK, [Next]_vars
  PROVE  DOMAIN asked' \subseteq Request /\ \A q \in DOMAIN asked' : asked'[q] \in Seen
<1> DEFINE Known == DOMAIN asked' \subseteq Request /\ \A q \in DOMAIN asked' : asked'[q] \in Seen
<1>a. DOMAIN asked \subseteq Request /\ \A q \in DOMAIN asked : asked[q] \in Seen
  BY DEF TypeOK, Seen
<1>1. ASSUME NEW q \in Request, NEW to \in {"cancel_requested", "cancelled", "paused"}, Looks(q, to)
      PROVE  Known
  <2>1. [seen |-> status, to |-> to, retries |-> retries, heard |-> heard] \in Seen
    BY DEF TypeOK, Seen
  <2>2. QED BY <1>a, <1>1, <2>1 DEF Looks
<1>2. ASSUME NEW q \in Request, Meddle(q) PROVE Known
  <2>1. CASE Cancel(q) BY <2>1, <1>1 DEF Cancel
  <2>2. CASE Pause(q) BY <2>2, <1>1 DEF Pause
  <2>3. CASE Writes(q) \/ Dropped(q) BY <2>3, <1>a DEF Writes, Dropped, Done
  <2>4. QED BY <1>2, <2>1, <2>2, <2>3 DEF Meddle
<1>3. CASE Resume \/ Retry \/ Sweep \/ TimePasses
  BY <1>3, <1>a DEF Resume, Retry, Handed, Sweep, TimePasses
<1>4. ASSUME NEW r \in Runner, Run(r) PROVE Known
  BY <1>4, <1>a
  DEF Run, Pick, ClaimPicked, ClaimDelivery, Claimed, IgnoreDelivery, TimeOut, Heeds, Start,
      Planned, Ends, Complete, TaskFails, Counted, Die, Escapes, BreaksOff
<1>5. CASE UNCHANGED vars BY <1>5, <1>a DEF vars
<1>6. QED BY <1>1, <1>2, <1>3, <1>4, <1>5 DEF Next, Run, Meddle

LEMMA TypeStep == TypeOK /\ [Next]_vars => TypeOK'
<1> SUFFICES ASSUME TypeOK, [Next]_vars PROVE TypeOK' OBVIOUS
<1>a. /\ Ended \subseteq JobStatus /\ Swept \subseteq JobStatus /\ "paused" \in JobStatus
      /\ {"completed", "failed", "cancelled", "timeout", "dead_letter"} \subseteq Ended
      /\ {"claimed", "running", "queued", "retrying", "cancel_requested"} \subseteq Swept
  BY DEF JobStatus, Ended, Swept
<1>b. DOMAIN asked' \subseteq Request /\ \A q \in DOMAIN asked' : asked'[q] \in Seen
  BY AskedStep
<1> DEFINE Flags == celery' = celery /\ young' \in BOOLEAN /\ heard' \in BOOLEAN /\ lost' \in BOOLEAN
           Rest == /\ status' \in JobStatus /\ retries' \in Nat
                   /\ at' \in [Runner -> {"idle", "picked", "claimed", "planning", "patching"}]
                   /\ deliveries' \in Nat
<1>c. ASSUME Flags, Rest PROVE TypeOK' BY <1>b, <1>c DEF TypeOK, Seen
<1>1. ASSUME NEW q \in Request, Cancel(q) \/ Pause(q) PROVE TypeOK'
  <2>1. UNCHANGED <<celery, status, retries, young, heard>>
    BY <1>1 DEF Cancel, Pause, Looks, job
  <2>2. /\ lost' \in BOOLEAN /\ deliveries' \in Nat
        /\ at' \in [Runner -> {"idle", "picked", "claimed", "planning", "patching"}]
    BY <1>1 DEF Cancel, Pause, Revoked, TypeOK
  <2>3. QED BY <2>1, <2>2, <1>c DEF TypeOK
<1>2. ASSUME NEW q \in Request, Writes(q) PROVE TypeOK'
  <2>1. asked[q] \in Seen BY <1>2 DEF Writes, TypeOK, Seen
  <2>2. status' \in JobStatus BY <1>2, <2>1, <1>a DEF Writes, TypeOK, Seen
  <2>3. retries' \in Nat /\ heard' \in BOOLEAN BY <1>2, <2>1 DEF Writes, Seen
  <2>4. QED BY <1>2, <2>2, <2>3, <1>c DEF Writes, TypeOK
<1>3. ASSUME NEW q \in Request, Dropped(q) PROVE TypeOK'
  BY <1>3, <1>c DEF Dropped, TypeOK, job
<1>4. CASE Resume \/ Retry
  <2>1. Flags BY <1>4 DEF Resume, Retry, Handed, Unstarted, TypeOK
  <2>2. Rest BY <1>4, <1>a, BoundsAssumption DEF Resume, Retry, Handed, TypeOK
  <2>3. QED BY <2>1, <2>2, <1>c
<1>5. CASE Sweep \/ TimePasses
  <2>1. Flags BY <1>5 DEF Sweep, TimePasses, TypeOK
  <2>2. SweptStatus \in JobStatus BY <1>a DEF SweptStatus, TypeOK
  <2>3. CASE Sweep
    <3>1. retries' \in {retries, retries + 1} BY <2>3 DEF Sweep
    <3>2. Rest BY <2>2, <2>3, <3>1 DEF Sweep, TypeOK
    <3>3. QED BY <2>1, <3>2, <1>c
  <2>4. CASE TimePasses BY <2>1, <2>4, <1>c DEF TimePasses, TypeOK
  <2>5. QED BY <1>5, <2>3, <2>4
<1>6. ASSUME NEW r \in Runner, Run(r) PROVE TypeOK'
  <2>1. CASE Pick(r) \/ ClaimPicked(r) \/ ClaimDelivery(r)
    <3>1. Flags BY <2>1 DEF Pick, ClaimPicked, ClaimDelivery, Claimed, TypeOK, job
    <3>2. Rest BY <2>1, <1>a DEF Pick, ClaimPicked, ClaimDelivery, Claimed, Goes, TypeOK, job
    <3>3. QED BY <3>1, <3>2, <1>c
  <2>2. CASE IgnoreDelivery(r) \/ TimeOut(r)
    <3>1. Flags BY <2>2 DEF IgnoreDelivery, TimeOut, TypeOK
    <3>2. Rest BY <2>2, <1>a DEF IgnoreDelivery, TimeOut, TypeOK
    <3>3. QED BY <3>1, <3>2, <1>c
  <2>3. CASE Heeds(r) \/ Start(r) \/ Planned(r) \/ Ends(r)
    <3>1. Flags BY <2>3 DEF Heeds, Start, Planned, Ends, Complete, TypeOK, job
    <3>2. Rest BY <2>3, <1>a DEF Heeds, Start, Planned, Ends, Complete, Goes, TypeOK, job
    <3>3. QED BY <3>1, <3>2, <1>c
  <2>4. CASE TaskFails(r) \/ Die(r) \/ Escapes(r)
    <3>1. Flags
      BY <2>4 DEF TaskFails, Counted, Unstarted, Die, Escapes, BreaksOff, TypeOK, job
    <3>2. Rest BY <2>4, <1>a DEF TaskFails, Counted, Die, Escapes, BreaksOff, Goes, TypeOK, job
    <3>3. QED BY <3>1, <3>2, <1>c
  <2>5. QED BY <1>6, <2>1, <2>2, <2>3, <2>4 DEF Run
<1>7. CASE UNCHANGED vars BY <1>7 DEF vars, job, TypeOK
<1>8. QED BY <1>1, <1>2, <1>3, <1>4, <1>5, <1>6, <1>7 DEF Next, Run

\* Leaving the execution tells a status other than "running", or breaks it off.
LEMMA ExecutedStep == TypeOK /\ RunningIsExecuted /\ [Next]_vars => RunningIsExecuted'
<1> SUFFICES ASSUME TypeOK, RunningIsExecuted, [Next]_vars,
                    status' \in {"claimed", "running"}, ~lost'
             PROVE  \E r \in Runner : at'[r] # "idle"
  BY DEF RunningIsExecuted, Idle
<1> USE DEF RunningIsExecuted, Idle, TypeOK
<1>1. ASSUME NEW q \in Request, Cancel(q) \/ Pause(q) PROVE \E r \in Runner : at'[r] # "idle"
  <2>1. status' = status BY <1>1 DEF Cancel, Pause, Looks, job
  <2>2. PICK K \in SUBSET Runner : /\ at' = [r \in Runner |-> IF r \in K THEN "idle" ELSE at[r]]
                                   /\ lost' = (lost \/ K # {})
    BY <1>1 DEF Cancel, Pause, Revoked
  <2>3. K = {} /\ ~lost BY <2>2
  <2>4. QED BY <2>1, <2>2, <2>3
<1>2. ASSUME NEW q \in Request, Writes(q) \/ Dropped(q) PROVE \E r \in Runner : at'[r] # "idle"
  <2>1. status' = status /\ at' = at /\ lost' = lost BY <1>2 DEF Writes, Dropped, job
  <2>2. QED BY <2>1
<1>3. CASE Resume \/ Retry BY <1>3 DEF Resume, Retry, Handed
<1>4. CASE Sweep \/ TimePasses BY <1>4 DEF Sweep, SweptStatus, TimePasses
<1>5. ASSUME NEW r \in Runner, Run(r) PROVE \E q \in Runner : at'[q] # "idle"
  <2>1. CASE Pick(r) \/ ClaimPicked(r) \/ ClaimDelivery(r) \/ Start(r) \/ Planned(r)
    <3>1. at'[r] # "idle"
      BY <2>1 DEF Pick, ClaimPicked, ClaimDelivery, Claimed, Start, Planned, Goes
    <3>2. QED BY <3>1
  <2>2. CASE IgnoreDelivery(r) \/ TimeOut(r)
    BY <2>2 DEF IgnoreDelivery, TimeOut
  <2>3. CASE Heeds(r) \/ Ends(r) \/ TaskFails(r) \/ Die(r) \/ Escapes(r)
    BY <2>3 DEF Heeds, Ends, Complete, TaskFails, Counted, Die, Escapes, BreaksOff, job
  <2>4. QED BY <1>5, <2>1, <2>2, <2>3 DEF Run
<1>6. CASE UNCHANGED vars BY <1>6 DEF vars, job
<1>7. QED BY <1>1, <1>2, <1>3, <1>4, <1>5, <1>6 DEF Next, Run

\* A job is given up by its count; what a request writes is never that.
LEMMA GiveUpStep ==
  TypeOK /\ [Next]_vars =>
    (status' = "dead_letter" /\ status # "dead_letter" => retries' >= MaxRetries)
<1> DEFINE Counts == status' = "dead_letter" /\ status # "dead_letter" => retries' >= MaxRetries
<1> SUFFICES ASSUME TypeOK, [Next]_vars PROVE Counts OBVIOUS
<1>a. retries \in Nat /\ MaxRetries \in Nat BY RetriesAssumption DEF TypeOK
<1> USE DEF Exhausted
<1>1. ASSUME NEW q \in Request, Meddle(q) PROVE Counts
  <2>1. CASE Cancel(q) \/ Pause(q) \/ Dropped(q)
    BY <2>1 DEF Cancel, Pause, Looks, Dropped, job
  <2>2. CASE Writes(q) BY <2>2 DEF Writes, TypeOK
  <2>3. QED BY <1>1, <2>1, <2>2 DEF Meddle
<1>2. CASE Resume \/ Retry BY <1>2, <1>a DEF Resume, Retry, Handed
<1>3. CASE Sweep \/ TimePasses BY <1>3, <1>a DEF Sweep, SweptStatus, TimePasses
<1>4. ASSUME NEW r \in Runner, Run(r) PROVE Counts
  BY <1>4, <1>a
  DEF Run, Pick, ClaimPicked, ClaimDelivery, Claimed, IgnoreDelivery, TimeOut, Heeds, Start,
      Planned, Ends, Complete, TaskFails, Counted, Die, Escapes, BreaksOff, job
<1>5. CASE UNCHANGED vars BY <1>5 DEF vars, job
<1>6. QED BY <1>1, <1>2, <1>3, <1>4, <1>5 DEF Next, Run, Meddle

-----------------------------------------------------------------------------
\* The invariant of every job.
THEOREM JobInvariance == Spec => []JobInv
<1>1. JobInv /\ [Next]_vars => JobInv'
  BY TypeStep, ExecutedStep DEF JobInv
<1>2. QED BY <1>1, InitJobInv, PTL DEF Spec

\* The variables have their types.
THEOREM JobTypeCorrect == Spec => []TypeOK
<1>1. JobInv => TypeOK BY DEF JobInv
<1>2. QED BY <1>1, JobInvariance, PTL

\* A job that is claimed or runs is executed, unless an execution broke off since
\* it was last claimed.
THEOREM JobIsExecuted == Spec => []RunningIsExecuted
<1>1. JobInv => RunningIsExecuted BY DEF JobInv
<1>2. QED BY <1>1, JobInvariance, PTL

\* A job is given up only when its retries are used up.
THEOREM GivenUpIsExhausted == Spec => GivesUpExhausted
<1>1. JobInv /\ [Next]_vars
        => [status' = "dead_letter" /\ status # "dead_letter" => retries' >= MaxRetries]_vars
  BY GiveUpStep DEF JobInv
<1>2. QED BY <1>1, JobInvariance, PTL DEF Spec, GivesUpExhausted

\* A job that has ended, and that nobody executes or is about to cancel or pause,
\* comes back only by a retry.
THEOREM EndedJobStays == Spec => EndedStays
<1> DEFINE Stays == (status \in Ended /\ (\A r \in Runner : Idle(r)) /\ DOMAIN asked = {})
                      => (status' \in {status, "retrying", "failed"})
<1>1. [Next]_vars => [Stays]_vars
  <2> SUFFICES ASSUME [Next]_vars, status \in Ended, \A r \in Runner : Idle(r), DOMAIN asked = {}
               PROVE  status' \in {status, "retrying", "failed"}
    OBVIOUS
  <2> USE DEF Ended, Idle
  <2>1. ASSUME NEW q \in Request, Meddle(q) PROVE FALSE
    BY <2>1 DEF Meddle, Cancel, Pause, Looks, Writes, Dropped
  <2>2. CASE Resume \/ Retry
    BY <2>2 DEF Resume, Retry, Handed
  <2>3. CASE Sweep \/ TimePasses
    BY <2>3 DEF Sweep, Swept, TimePasses
  <2>4. ASSUME NEW r \in Runner, Run(r) PROVE status' = status
    BY <2>4
    DEF Run, Pick, ClaimPicked, ClaimDelivery, IgnoreDelivery, TimeOut, Heeds, Start, Planned,
        Ends, TaskFails, Counted, Die, Escapes, BreaksOff, job
  <2>5. CASE UNCHANGED vars BY <2>5 DEF vars, job
  <2>6. QED BY <2>1, <2>2, <2>3, <2>4, <2>5 DEF Next, Run, Meddle
<1>2. QED BY <1>1, PTL DEF Spec, EndedStays
=============================================================================

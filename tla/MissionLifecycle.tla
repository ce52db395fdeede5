--------------------------- MODULE MissionLifecycle ---------------------------
(***************************************************************************)
(* A mission from its creation to its end.  Operators request compilation, *)
(* answer questions, plan, vote and command; the task runtime reports      *)
(* under way; the runtime kernel pauses and resumes; and workers of the    *)
(* outbox carry out what a request left for later.                         *)
(*                                                                         *)
(* Every request is one transaction.  The transaction of a compilation     *)
(* takes long, and is therefore modelled by its two ends: what it reads of *)
(* the mission, and what it writes to it.  Nothing locks the mission in    *)
(* between, nor the messages that a worker of the outbox looked at before  *)
(* it claims them.                                                         *)
(***************************************************************************)
EXTENDS EventStream, FiniteSets

CONSTANTS
  OutboxWorker,  \* the workers of the outbox
  MAX_OUTBOX_ATTEMPTS,  \* after as many failures a message is given up
  MaxMessages,   \* bound: messages that ask the outbox for work
  MaxMoves       \* bound: how often the runtime kernel pauses or resumes

ASSUME AttemptsAssumption == MAX_OUTBOX_ATTEMPTS \in Nat \ {0}
ASSUME MessagesAssumption == MaxMessages \in Nat

VARIABLES
  reviews,   \* approval rows that are pending: each plan adds one
  planned,   \* whether the mission has tasks
  basis,     \* on what ground the mission may be carried out
  moves,     \* how often the kernel has paused or resumed the mission
  interrupted,  \* whether it ever did so under a compilation
  message,   \* the messages that ask for work, by the number of their event
  step,      \* what each worker of the outbox is at
  batch,     \* the messages it has before it, with the attempts it saw
  base       \* the mission's version when its compilation began

outbox == <<message, step, batch, base>>
plan == <<reviews, planned, basis>>
kernel == <<moves, interrupted>>
lifeVars == <<mission, version, stream, plan, kernel, outbox>>

\* What a worker does about a message, by topic; other topics are only published.
Topic == [compile |-> "compile", start |-> "schedule", resume |-> "schedule"]

Pending(topic) == [topic |-> topic, status |-> "pending", attempts |-> 0]

Send(topic) ==
  /\ Cardinality(DOMAIN message) < MaxMessages
  /\ message' = [n \in DOMAIN message \cup {version + 1} |->
                  IF n = version + 1 THEN Pending(topic) ELSE message[n]]

Refresh(n, status) == message' = [message EXCEPT ![n].status = status]

\* Three ways to create a mission: as a draft; with a plan that waits for
\* approval, of which three events tell at once; and by the runtime kernel, with
\* tasks that are ready, for which nobody is asked.  What the kernel has done to
\* its own mission until it is looked at shows in the version only.
LifecycleInit ==
  /\ \/ mission = "draft" /\ version = 1 /\ stream = {1}
     \/ mission = "awaiting_plan_approval" /\ version = 1 /\ stream = 1 .. 3
     \/ mission = "ready" /\ version = Created /\ stream = {}
  /\ planned = (mission = "ready")
  /\ basis = IF mission = "ready" THEN "kernel" ELSE "none"
  /\ reviews = 0 /\ moves = 0 /\ interrupted = FALSE
  /\ message = << >>
  /\ step = [w \in OutboxWorker |-> "idle"]
  /\ batch = [w \in OutboxWorker |-> << >>]
  /\ base = [w \in OutboxWorker |-> 0]

-----------------------------------------------------------------------------
(***************************************************************************)
(* Requests of operators.                                                  *)
(***************************************************************************)
\* Slip: what is asked for later is forgotten.
CommandUnsent(command) ==
  /\ TransitionMission(command)
  /\ UNCHANGED <<plan, kernel, outbox>>

Command(command) ==
  /\ TransitionMission(command)
  /\ IF command \in DOMAIN Topic THEN Send(Topic[command]) ELSE UNCHANGED message
  /\ UNCHANGED <<plan, kernel, step, batch, base>>

\* The mission takes a new status, and the event the number of its new version.
Advance(status) ==
  /\ version < MaxNumber
  /\ version + 1 \notin stream
  /\ mission' = status
  /\ version' = version + 1
  /\ stream' = stream \cup {version + 1}

SubmitClarifications ==
  /\ mission = "clarification_required"
  /\ Advance("compiling")
  /\ Send("compile")
  /\ UNCHANGED <<plan, kernel, step, batch, base>>

Plan ==
  /\ mission = "compiled"
  /\ Advance("awaiting_plan_approval")
  /\ reviews' = reviews + 1 /\ planned' = TRUE /\ basis' = "none"
  /\ UNCHANGED <<kernel, outbox>>

\* One human vote decides an approval, that of an earlier plan included: nothing
\* ever withdraws one.  A vote that does not approve leaves the mission as it is,
\* and gives its event the number of the mission's present version.
Vote(vote) ==
  /\ reviews > 0
  /\ reviews' = reviews - 1
  /\ IF vote = "approved"
     THEN mission = "awaiting_plan_approval" /\ Advance("ready") /\ basis' = "approved"
     ELSE /\ version \notin stream
          /\ stream' = stream \cup {version}
          /\ UNCHANGED <<mission, version, basis>>
  /\ UNCHANGED <<planned, kernel, outbox>>

\* Events of an approval: two, and before them those of the tasks it makes of a
\* plan that came with the mission, bounded like those of other requests.
Approving == IF planned THEN {2} ELSE 3 .. MaxAppend + 2

\* Approval and rejection of a plan at once, without a vote.  The events are
\* numbered as those of the task runtime; pending approvals stay as they are.
ApprovePersisted ==
  \E n \in stream \cup {0}, k \in Approving :
    /\ Highest(n)
    /\ mission = "awaiting_plan_approval"
    /\ version < MaxNumber
    /\ mission' = "ready"
    /\ version' = version + 1
    /\ stream' = stream \cup (n + 1 .. n + k)
    /\ planned' = TRUE /\ basis' = "approved"
    /\ UNCHANGED <<reviews, kernel, outbox>>

RejectPersisted ==
  \E n \in stream \cup {0} :
    /\ Highest(n)
    /\ mission \in {"awaiting_plan_approval", "draft", "compiled"}
    /\ version < MaxNumber
    /\ mission' = "cancelled"
    /\ version' = version + 1
    /\ stream' = stream \cup {n + 1}
    /\ UNCHANGED <<plan, kernel, outbox>>

\* The kernel asks neither for a status nor for an approval.
Kernel(status) ==
  /\ moves < MaxMoves
  /\ KernelSets(status)
  /\ moves' = moves + 1
  /\ basis' = "kernel"
  /\ interrupted' = (interrupted \/ \E w \in OutboxWorker : step[w] = "compiling")
  /\ UNCHANGED <<reviews, planned, outbox>>

\* Requests on the tasks, which a mission has from its plan on.
Runtime ==
  /\ planned
  /\ \/ \E k \in 1 .. MaxAppend : RuntimeEvents(k)
     \/ \E target \in {"completed", "failed", "blocked"} : Verdict(target)
     \/ Claim
  /\ UNCHANGED <<plan, kernel, outbox>>

-----------------------------------------------------------------------------
(***************************************************************************)
(* The workers of the outbox.                                              *)
(***************************************************************************)
Due(n, F) == message[n].status = "pending" \/ n \in F

\* Pending messages are due, and of the failed ones those whose delay has passed.
Select(w) ==
  \E F \in SUBSET {n \in DOMAIN message : message[n].status = "failed"} :
    LET S == {n \in DOMAIN message : Due(n, F)} IN
    /\ step[w] = "idle" /\ S # {}
    /\ step' = [step EXCEPT ![w] = "selected"]
    /\ batch' = [batch EXCEPT ![w] = [n \in S |-> message[n].attempts]]
    /\ UNCHANGED <<mission, version, stream, plan, kernel, message, base>>

\* Whatever happened to the messages since they were selected.
ClaimBatch(w) ==
  /\ step[w] = "selected"
  /\ step' = [step EXCEPT ![w] = "claimed"]
  /\ message' = [n \in DOMAIN message |->
       IF n \in DOMAIN batch[w]
       THEN [message[n] EXCEPT !.status = "processing", !.attempts = batch[w][n] + 1]
       ELSE message[n]]
  /\ UNCHANGED <<mission, version, stream, plan, kernel, batch, base>>

\* Messages are taken in the order they were written.
At(w, n) == n \in DOMAIN batch[w] /\ \A m \in DOMAIN batch[w] : n <= m

StartCompilation(w) ==
  \E n \in DOMAIN batch[w] :
    /\ At(w, n)
    /\ step[w] = "claimed" /\ message[n].topic = "compile"
    /\ mission = "compiling"
    /\ step' = [step EXCEPT ![w] = "compiling"]
    /\ base' = [base EXCEPT ![w] = version]
    /\ UNCHANGED <<mission, version, stream, plan, kernel, message, batch>>

\* Slip: questions are recorded, but the mission's status is left.
CompiledSilently(w, result) ==
  /\ mission' = IF result = "compiled" THEN result ELSE mission
  /\ version' = base[w] + 1
  /\ stream' = stream \cup {base[w] + 1}
  /\ step' = [step EXCEPT ![w] = "done"]
  /\ base' = [base EXCEPT ![w] = 0]
  /\ UNCHANGED <<plan, kernel, message, batch>>

Compiled(w, result) ==
  /\ mission' = result
  /\ version' = base[w] + 1
  /\ stream' = stream \cup {base[w] + 1}
  /\ step' = [step EXCEPT ![w] = "done"]
  /\ base' = [base EXCEPT ![w] = 0]
  /\ UNCHANGED <<plan, kernel, message, batch>>

\* Slip: the database admits a number twice.
FinishCompilationTwice(w, result) ==
  /\ step[w] = "compiling"
  /\ Compiled(w, result)

FinishCompilation(w, result) ==
  /\ step[w] = "compiling"
  /\ base[w] + 1 \notin stream        \* uq_arceus_events_aggregate_version
  /\ Compiled(w, result)

\* Completes the mission when all its tasks are completed.
ScheduleReady(w, all) ==
  \E n \in DOMAIN batch[w] :
    /\ At(w, n)
    /\ step[w] = "claimed" /\ message[n].topic = "schedule"
    /\ mission = "running" /\ (all => planned)
    /\ mission' = IF all THEN "completed" ELSE mission
    /\ version' = IF all THEN version + 1 ELSE version
    /\ step' = [step EXCEPT ![w] = "done"]
    /\ UNCHANGED <<stream, plan, kernel, message, batch, base>>

\* The worker goes on to its next message.
NextMessage(w, n) ==
  /\ batch' = [batch EXCEPT ![w] = [m \in DOMAIN @ \ {n} |-> @[m]]]
  /\ step' = [step EXCEPT ![w] = IF DOMAIN batch[w] = {n} THEN "idle" ELSE "claimed"]
  /\ base' = [base EXCEPT ![w] = 0]
  /\ UNCHANGED <<mission, version, stream, plan, kernel>>

Deliver(w) ==
  \E n \in DOMAIN batch[w] :
    /\ At(w, n)
    /\ step[w] = "done"
    /\ Refresh(n, "sent")
    /\ NextMessage(w, n)

\* Slip: a failed message is tried for ever.
FailForever(w) ==
  \E n \in DOMAIN batch[w] :
    /\ At(w, n)
    /\ step[w] \in {"claimed", "compiling", "done"}
    /\ Refresh(n, "failed")
    /\ NextMessage(w, n)

\* Whatever is raised: the mission is not in the state the message is about,
\* compiling it failed, or publishing did.  The mission is left as it is.
Fail(w) ==
  \E n \in DOMAIN batch[w] :
    /\ At(w, n)
    /\ step[w] \in {"claimed", "compiling", "done"}
    /\ Refresh(n, IF message[n].attempts >= MAX_OUTBOX_ATTEMPTS THEN "dead_letter" ELSE "failed")
    /\ NextMessage(w, n)

\* What the worker claimed stays "processing": nobody looks for such messages.
BatchLost(w) ==
  /\ step' = [step EXCEPT ![w] = "idle"]
  /\ batch' = [batch EXCEPT ![w] = << >>]
  /\ base' = [base EXCEPT ![w] = 0]
  /\ UNCHANGED <<mission, version, stream, plan, kernel, message>>

\* The database refuses the compilation, and with it the session in which the
\* worker would mark the message.
GiveUp(w) ==
  /\ step[w] = "compiling"
  /\ base[w] + 1 \in stream
  /\ BatchLost(w)

Die(w) ==
  /\ step[w] \in {"claimed", "compiling", "done"}
  /\ BatchLost(w)

Work(w) ==
  \/ Select(w)
  \/ ClaimBatch(w)
  \/ StartCompilation(w)
  \/ \E result \in {"compiled", "clarification_required"} : FinishCompilation(w, result)
  \/ \E all \in BOOLEAN : ScheduleReady(w, all)
  \/ Deliver(w)
  \/ Fail(w)
  \/ GiveUp(w)

LifecycleNext ==
  \/ \E command \in DOMAIN Transition : Command(command)
  \/ SubmitClarifications
  \/ Plan
  \/ \E vote \in {"approved", "rejected"} : Vote(vote)
  \/ ApprovePersisted
  \/ RejectPersisted
  \/ \E status \in {"paused", "ready"} : Kernel(status)
  \/ Runtime
  \/ \E w \in OutboxWorker : Work(w) \/ Die(w)

LifecycleSpec == LifecycleInit /\ [][LifecycleNext]_lifeVars

\* A worker that is at something goes on with it, and one that is idle looks
\* for messages again and again.
FairLifecycleSpec ==
  LifecycleSpec /\ \A w \in OutboxWorker : WF_lifeVars(Work(w))

-----------------------------------------------------------------------------
\* What the table admits.
OutboxStatus == {"pending", "processing", "sent", "failed", "dead_letter"}

\* Every variable has its type.
LifecycleTypeOK ==
  /\ TypeOK
  /\ reviews \in Nat /\ moves \in Nat
  /\ planned \in BOOLEAN /\ interrupted \in BOOLEAN
  /\ basis \in {"none", "approved", "kernel"}
  /\ DOMAIN message \subseteq stream
  /\ \A n \in DOMAIN message : /\ message[n].topic \in {"compile", "schedule"}
                               /\ message[n].status \in OutboxStatus
                               /\ message[n].attempts \in 0 .. MAX_OUTBOX_ATTEMPTS
  /\ step \in [OutboxWorker -> {"idle", "selected", "claimed", "compiling", "done"}]
  /\ base \in [OutboxWorker -> Nat]
  /\ \A w \in OutboxWorker : DOMAIN batch[w] \subseteq DOMAIN message

\* No mission is carried out before somebody approved it since its latest plan,
\* also after it failed and was planned anew while its old tasks still reported,
\* unless the runtime kernel made it, paused it or resumed it.
NothingRunsUnapproved ==
  mission \in ExecutionStatus \ {"cancelled"} => basis \in {"approved", "kernel"}

\* The event stream has gaps only where the mission's version has already been,
\* from the creation on, unless the kernel moved the mission under a compilation.
GapsStayBehind == ~interrupted => GapsAreBehind

\* Until then the numbers order the events as they happened, those of
\* compilations that end late included.
EventsKeepOrder ==
  [][~interrupted => \A new \in stream' \ stream, old \in stream : old < new]_lifeVars

\* A compilation that ends after the mission was cancelled, or after another
\* worker compiled it, changes nothing: it only ever ends what it began.
CompilationEndsItsOwn ==
  [][~interrupted =>
       \A w \in OutboxWorker : step[w] = "compiling" /\ step'[w] = "done" =>
         mission = "compiling" /\ version = base[w]]_lifeVars

\* The request for the compilation that the mission waits for was given up.
GivenUp ==
  /\ version \in DOMAIN message
  /\ message[version].status = "dead_letter" /\ message[version].attempts = MAX_OUTBOX_ATTEMPTS

\* A mission that is compiling has a request whose work is still to be done or
\* was given up after all attempts: however often workers claim the same messages
\* and mark them as they go, and whatever the kernel does meanwhile, none takes it
\* for done.
RequestIsThere ==
  mission = "compiling" =>
    \/ GivenUp
    \/ \E n \in DOMAIN message :
         message[n].topic = "compile" /\ message[n].status \in {"pending", "processing", "failed"}

\* A request left behind by a worker that died.
Orphaned ==
  \E n \in DOMAIN message :
    /\ message[n].topic = "compile" /\ message[n].status = "processing"
    /\ \A w \in OutboxWorker : n \notin DOMAIN batch[w]

\* A compilation comes to an end, unless a worker dies over it or it fails as
\* often as it is tried: then the mission stays "compiling".
CompilationEnds ==
  mission = "compiling" ~> (mission # "compiling" \/ Orphaned \/ GivenUp)

-----------------------------------------------------------------------------
\* A plan under review may be approved or rejected.
PlanMayBeRejected ==
  reviews > 0 /\ mission = "awaiting_plan_approval" => version \notin stream
=============================================================================

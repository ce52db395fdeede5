--------------------------- MODULE LifecycleProofs ---------------------------
(***************************************************************************)
(* What holds of every mission, however many workers serve the outbox and  *)
(* however many requests are made.                                         *)
(*                                                                         *)
(* A compilation ends without looking at the mission again.  That it only  *)
(* ends what it began rests on its event: as long as the number it will    *)
(* use is free, nobody has touched the mission (BaseIsFresh).  The kernel  *)
(* touches it without using a number, so all that follows from there holds *)
(* until it does so under a compilation.  That no request for compilation  *)
(* is taken for done before its time holds whatever the kernel does, and   *)
(* rests on where it is: the request has the number of the mission's       *)
(* version while it compiles, and a worker that is done with a message is  *)
(* done with another one (DoneIsPast).                                     *)
(***************************************************************************)
EXTENDS MissionLifecycle, TLAPS

Message ==
  [topic : {"compile", "schedule"}, status : OutboxStatus, attempts : 0 .. MAX_OUTBOX_ATTEMPTS]

Steps == {"idle", "selected", "claimed", "compiling", "done"}

Types ==
  /\ mission \in MissionStatus /\ version \in Nat \ {0} /\ stream \subseteq Nat \ {0}
  /\ reviews \in Nat /\ planned \in BOOLEAN /\ basis \in {"none", "approved", "kernel"}
  /\ moves \in Nat /\ interrupted \in BOOLEAN
  /\ DOMAIN message \subseteq stream
  /\ \A n \in DOMAIN message : message[n] \in Message
  /\ step \in [OutboxWorker -> Steps] /\ base \in [OutboxWorker -> Nat]
  /\ DOMAIN batch = OutboxWorker
  /\ \A w \in OutboxWorker : DOMAIN batch[w] \subseteq DOMAIN message

\* Also the version's own number is used when a later one is.
StreamIsFull == \A n \in stream : \A m \in version .. n : m \in stream

BaseIsFresh ==
  \A w \in OutboxWorker : step[w] = "compiling" /\ base[w] + 1 \notin stream
                            => mission = "compiling" /\ version = base[w]

\* The statuses of a message that nobody took for done.
Unsent == {"pending", "processing", "failed", "dead_letter"}

RequestIsVersion ==
  mission = "compiling" =>
    /\ version \in DOMAIN message
    /\ message[version].topic = "compile" /\ message[version].status \in Unsent

DoneIsPast ==
  mission = "compiling" =>
    \A w \in OutboxWorker : \A n \in DOMAIN batch[w] :
      step[w] = "done" /\ At(w, n) => n # version \/ message[n].topic = "schedule"

AttemptsLeft ==
  /\ \A n \in DOMAIN message :
       /\ message[n].status \in {"pending", "failed"} => message[n].attempts < MAX_OUTBOX_ATTEMPTS
       /\ message[n].status = "dead_letter" => message[n].attempts = MAX_OUTBOX_ATTEMPTS
  /\ \A w \in OutboxWorker : step[w] = "selected" =>
       \A n \in DOMAIN batch[w] : batch[w][n] \in 0 .. MAX_OUTBOX_ATTEMPTS - 1

RequestsAreKept == RequestIsVersion /\ DoneIsPast

LifecycleInv ==
  /\ Types /\ NothingRunsUnapproved /\ AttemptsLeft /\ RequestsAreKept
  /\ ~interrupted => StreamIsFull /\ BaseIsFresh

\* What operators, the task runtime and the kernel request.
Requested ==
  \/ \E command \in DOMAIN Transition : Command(command)
  \/ SubmitClarifications \/ Plan
  \/ \E vote \in {"approved", "rejected"} : Vote(vote)
  \/ ApprovePersisted \/ RejectPersisted
  \/ \E status \in {"paused", "ready"} : Kernel(status)
  \/ Runtime

-----------------------------------------------------------------------------
\* The commands and the topics, one by one.
LEMMA CommandsKnown ==
  ASSUME NEW command \in DOMAIN Transition
  PROVE  /\ Transition[command].to \in MissionStatus
         /\ Transition[command].to \in {"running", "paused"}
              => Transition[command].from \subseteq ExecutionStatus \ {"cancelled"}
         /\ Transition[command].to \in {"compiling", "running", "paused", "cancelled"}
         /\ Transition[command].to = "compiling" =>
              /\ command = "compile"
              /\ Transition[command].from = {"draft", "clarification_required", "failed"}
BY DEF Transition, MissionStatus, ExecutionStatus, PreparationStatus

LEMMA TopicsKnown ==
  /\ DOMAIN Topic = {"compile", "start", "resume"}
  /\ \A command \in DOMAIN Topic : Topic[command] \in {"compile", "schedule"}
  /\ Topic["compile"] = "compile"
BY DEF Topic

\* A message that is sent has a number of its own; the others are as they were.
LEMMA SendAdds ==
  ASSUME NEW topic, Send(topic), version + 1 \notin DOMAIN message
  PROVE  /\ DOMAIN message' = DOMAIN message \cup {version + 1}
         /\ message'[version + 1] = Pending(topic)
         /\ \A n \in DOMAIN message : message'[n] = message[n]
BY DEF Send

LEMMA InitLifecycleInv == LifecycleInit => LifecycleInv
<1> SUFFICES ASSUME LifecycleInit PROVE LifecycleInv OBVIOUS
<1> USE DEF LifecycleInit
<1>1. DOMAIN message = {} /\ \A w \in OutboxWorker : DOMAIN batch[w] = {} /\ step[w] = "idle"
  OBVIOUS
<1>2. Types
  <2>1. mission \in MissionStatus BY DEF MissionStatus, PreparationStatus, ExecutionStatus
  <2>2. version \in Nat \ {0} /\ stream \subseteq Nat \ {0} BY CreatedAssumption
  <2>3. /\ reviews \in Nat /\ planned \in BOOLEAN /\ basis \in {"none", "approved", "kernel"}
        /\ moves \in Nat /\ interrupted \in BOOLEAN
    OBVIOUS
  <2>4. step \in [OutboxWorker -> Steps] /\ base \in [OutboxWorker -> Nat] BY DEF Steps
  <2>5. DOMAIN batch = OutboxWorker OBVIOUS
  <2>6. QED BY <1>1, <2>1, <2>2, <2>3, <2>4, <2>5 DEF Types
<1>3. StreamIsFull BY DEF StreamIsFull
<1>4. NothingRunsUnapproved BY DEF NothingRunsUnapproved, ExecutionStatus
<1>5. BaseIsFresh /\ RequestsAreKept /\ AttemptsLeft
  BY <1>1 DEF BaseIsFresh, RequestsAreKept, RequestIsVersion, DoneIsPast,
              AttemptsLeft
<1>6. QED BY <1>2, <1>3, <1>4, <1>5 DEF LifecycleInv

-----------------------------------------------------------------------------
(***************************************************************************)
(* The event stream.                                                       *)
(***************************************************************************)
\* A command, or what else numbers its event by the mission's next version.
LEMMA AdvanceKeepsOrder ==
  ASSUME Types, StreamIsFull,
         version + 1 \notin stream, version' = version + 1, stream' = stream \cup {version + 1}
  PROVE  StreamIsFull' /\ \A new \in stream' \ stream, old \in stream : old < new
<1>1. \A n \in stream : n <= version BY DEF Types, StreamIsFull
<1>2. QED BY <1>1 DEF Types, StreamIsFull

\* Events numbered after the highest one, with a new version of the mission or not.
LEMMA AppendKeepsOrder ==
  ASSUME Types, StreamIsFull, NEW n \in stream \cup {0}, Highest(n), NEW k \in Nat,
         stream' = stream \cup (n + 1 .. n + k), version' \in {version, version + 1}
  PROVE  StreamIsFull' /\ \A new \in stream' \ stream, old \in stream : old < new
BY DEF Types, StreamIsFull, Highest

\* What the number of a compilation's event says about the mission.
LEMMA FreshBase ==
  ASSUME LifecycleInv, ~interrupted, NEW w \in OutboxWorker, NEW result,
         FinishCompilation(w, result)
  PROVE  /\ mission = "compiling" /\ version = base[w]
         /\ mission' = result /\ version' = version + 1
         /\ version + 1 \notin stream /\ stream' = stream \cup {version + 1}
         /\ step' = [step EXCEPT ![w] = "done"] /\ base' = [base EXCEPT ![w] = 0]
         /\ UNCHANGED <<plan, kernel, message, batch>>
BY DEF LifecycleInv, BaseIsFresh, FinishCompilation, Compiled

LEMMA StreamStep ==
  LifecycleInv /\ ~interrupted /\ [LifecycleNext]_lifeVars =>
    StreamIsFull' /\ \A new \in stream' \ stream, old \in stream : old < new
<1> DEFINE Ordered == StreamIsFull' /\ \A new \in stream' \ stream, old \in stream : old < new
<1> SUFFICES ASSUME LifecycleInv, ~interrupted, [LifecycleNext]_lifeVars PROVE Ordered OBVIOUS
<1>a. Types /\ StreamIsFull BY DEF LifecycleInv
<1>1. ASSUME NEW command \in DOMAIN Transition, Command(command) PROVE Ordered
  BY <1>1, <1>a, AdvanceKeepsOrder DEF Command, TransitionMission
<1>2. CASE SubmitClarifications \/ Plan
  BY <1>2, <1>a, AdvanceKeepsOrder DEF SubmitClarifications, Plan, Advance
<1>3. ASSUME NEW vote \in {"approved", "rejected"}, Vote(vote) PROVE Ordered
  <2>1. CASE Advance("ready")
    BY <2>1, <1>a, AdvanceKeepsOrder DEF Advance
  <2>2. CASE version \notin stream /\ stream' = stream \cup {version} /\ version' = version
    <3>1. \A n \in stream : n < version BY <2>2, <1>a DEF Types, StreamIsFull
    <3>2. QED BY <2>2, <3>1, <1>a DEF Types, StreamIsFull
  <2>3. QED BY <1>3, <2>1, <2>2 DEF Vote
<1>4. CASE ApprovePersisted
  <2>1. PICK n \in stream \cup {0}, k \in Approving :
          Highest(n) /\ version' = version + 1 /\ stream' = stream \cup (n + 1 .. n + k)
    BY <1>4 DEF ApprovePersisted
  <2>2. k \in Nat BY BoundAssumption DEF Approving
  <2>3. QED BY <2>1, <2>2, <1>a, AppendKeepsOrder
<1>5. CASE RejectPersisted
  <2>1. PICK n \in stream \cup {0} : /\ Highest(n) /\ version' = version + 1
                                  /\ stream' = stream \cup {n + 1}
    BY <1>5 DEF RejectPersisted
  <2>2. {n + 1} = n + 1 .. n + 1 BY <2>1, <1>a DEF Types
  <2>3. QED BY <2>1, <2>2, <1>a, AppendKeepsOrder
<1>6. CASE Runtime
  <2>1. ASSUME NEW k \in 1 .. MaxAppend, RuntimeEvents(k) PROVE Ordered
    <3>1. PICK n \in stream \cup {0} : /\ Highest(n) /\ version' = version
                                    /\ stream' = stream \cup (n + 1 .. n + k)
      BY <2>1 DEF RuntimeEvents
    <3>2. k \in Nat BY BoundAssumption
    <3>3. QED BY <3>1, <3>2, <1>a, AppendKeepsOrder
  <2>2. ASSUME NEW target \in {"completed", "failed", "blocked"}, Verdict(target) PROVE Ordered
    <3>1. PICK n \in stream \cup {0} : /\ Highest(n) /\ version' = version + 1
                                    /\ stream' = stream \cup {n + 1}
      BY <2>2 DEF Verdict
    <3>2. {n + 1} = n + 1 .. n + 1 BY <3>1, <1>a DEF Types
    <3>3. QED BY <3>1, <3>2, <1>a, AppendKeepsOrder
  <2>3. CASE Claim BY <2>3, <1>a DEF Claim, Types, StreamIsFull
  <2>4. QED BY <1>6, <2>1, <2>2, <2>3 DEF Runtime
<1>7. ASSUME NEW w \in OutboxWorker, Work(w) \/ Die(w) PROVE Ordered
  <2>1. ASSUME NEW result, FinishCompilation(w, result) PROVE Ordered
    BY <2>1, <1>a, FreshBase, AdvanceKeepsOrder
  <2>2. ASSUME NEW all \in BOOLEAN, ScheduleReady(w, all) PROVE Ordered
    BY <2>2, <1>a DEF ScheduleReady, Types, StreamIsFull
  <2>3. CASE \/ Select(w) \/ ClaimBatch(w) \/ StartCompilation(w)
             \/ Deliver(w) \/ Fail(w) \/ GiveUp(w) \/ Die(w)
    <3>1. UNCHANGED <<version, stream>>
      BY <2>3 DEF Select, ClaimBatch, StartCompilation, Deliver, Fail, GiveUp, Die, NextMessage, BatchLost
    <3>2. QED BY <3>1, <1>a DEF StreamIsFull
  <2>4. QED BY <1>7, <2>1, <2>2, <2>3 DEF Work
<1>8. ASSUME NEW status \in {"paused", "ready"}, Kernel(status) PROVE Ordered
  BY <1>8, <1>a DEF Kernel, KernelSets, Types, StreamIsFull
<1>9. CASE UNCHANGED lifeVars BY <1>9, <1>a DEF lifeVars, StreamIsFull
<1>10. QED BY <1>1, <1>2, <1>3, <1>4, <1>5, <1>6, <1>7, <1>8, <1>9 DEF LifecycleNext

-----------------------------------------------------------------------------
(***************************************************************************)
(* The mission's status, and the compilation under way.                    *)
(***************************************************************************)
\* A mission is set to a status of execution only from another one, or approved,
\* or by the kernel.
LEMMA ApprovalStep ==
  LifecycleInv /\ [LifecycleNext]_lifeVars => NothingRunsUnapproved'
<1> SUFFICES ASSUME LifecycleInv, [LifecycleNext]_lifeVars PROVE NothingRunsUnapproved' OBVIOUS
<1>a. NothingRunsUnapproved BY DEF LifecycleInv
<1> USE DEF NothingRunsUnapproved, ExecutionStatus
<1>1. ASSUME NEW command \in DOMAIN Transition, Command(command) PROVE NothingRunsUnapproved'
  BY <1>1, <1>a, CommandsKnown DEF Command, TransitionMission, Allowed, plan
<1>2. CASE SubmitClarifications \/ Plan
  BY <1>2, <1>a DEF SubmitClarifications, Plan, Advance, plan
<1>3. ASSUME NEW vote \in {"approved", "rejected"}, Vote(vote) PROVE NothingRunsUnapproved'
  BY <1>3, <1>a DEF Vote
<1>4. CASE ApprovePersisted \/ RejectPersisted
  BY <1>4, <1>a DEF ApprovePersisted, RejectPersisted, plan
<1>5. CASE Runtime
  BY <1>5, <1>a DEF Runtime, RuntimeEvents, Verdict, Claim, plan
<1>6. ASSUME NEW w \in OutboxWorker, Work(w) \/ Die(w) PROVE NothingRunsUnapproved'
  <2>1. ASSUME NEW result \in {"compiled", "clarification_required"},
               FinishCompilation(w, result)
        PROVE  NothingRunsUnapproved'
    BY <2>1 DEF FinishCompilation, Compiled
  <2>2. ASSUME NEW all \in BOOLEAN, ScheduleReady(w, all) PROVE NothingRunsUnapproved'
    BY <2>2, <1>a DEF ScheduleReady, plan
  <2>3. CASE \/ Select(w) \/ ClaimBatch(w) \/ StartCompilation(w)
             \/ Deliver(w) \/ Fail(w) \/ GiveUp(w) \/ Die(w)
    <3>1. UNCHANGED <<mission, basis>>
      BY <2>3 DEF Select, ClaimBatch, StartCompilation, Deliver, Fail, GiveUp, Die, NextMessage,
                  BatchLost, plan
    <3>2. QED BY <3>1, <1>a
  <2>4. QED BY <1>6, <2>1, <2>2, <2>3 DEF Work
<1>7. ASSUME NEW status \in {"paused", "ready"}, Kernel(status) PROVE NothingRunsUnapproved'
  BY <1>7 DEF Kernel
<1>8. CASE UNCHANGED lifeVars BY <1>8, <1>a DEF lifeVars, plan
<1>9. QED BY <1>1, <1>2, <1>3, <1>4, <1>5, <1>6, <1>7, <1>8 DEF LifecycleNext

\* Whoever moves a mission that is compiling uses the number of the compilation.
LEMMA BaseStep ==
  LifecycleInv /\ ~interrupted /\ ~interrupted' /\ [LifecycleNext]_lifeVars => BaseIsFresh'
<1> SUFFICES ASSUME LifecycleInv, ~interrupted, ~interrupted', [LifecycleNext]_lifeVars,
                    NEW w \in OutboxWorker, step'[w] = "compiling", base'[w] + 1 \notin stream'
             PROVE  mission' = "compiling" /\ version' = base'[w]
  BY DEF BaseIsFresh
<1>a. Types /\ BaseIsFresh BY DEF LifecycleInv
<1> DEFINE Kept == step' = step /\ base' = base /\ stream \subseteq stream'
<1>b. ASSUME Kept
      PROVE  mission = "compiling" /\ version = base[w] /\ base' = base
  BY <1>a, <1>b DEF BaseIsFresh
<1>1. ASSUME NEW command \in DOMAIN Transition, Command(command) PROVE FALSE
  BY <1>1, <1>b DEF Command, TransitionMission
<1>2. CASE SubmitClarifications \/ Plan
  BY <1>2, <1>b DEF SubmitClarifications, Plan, Advance, outbox
<1>3. ASSUME NEW vote \in {"approved", "rejected"}, Vote(vote)
      PROVE  mission' = "compiling" /\ version' = base'[w]
  <2>1. Kept BY <1>3 DEF Vote, Advance, outbox
  <2>2. ~ Advance("ready") \/ mission # "awaiting_plan_approval" BY <2>1, <1>b
  <2>3. QED BY <1>3, <1>b, <2>1, <2>2 DEF Vote
<1>4. CASE ApprovePersisted \/ RejectPersisted
  BY <1>4, <1>b DEF ApprovePersisted, RejectPersisted, outbox
<1>5. CASE Runtime
  <2>1. Kept BY <1>5 DEF Runtime, RuntimeEvents, Verdict, Claim, outbox
  <2>2. QED BY <1>5, <1>b, <2>1 DEF Runtime, RuntimeEvents, Verdict, Claim
<1>6. ASSUME NEW v \in OutboxWorker, Work(v) \/ Die(v)
      PROVE  mission' = "compiling" /\ version' = base'[w]
  <2>1. ASSUME NEW result, FinishCompilation(v, result) PROVE FALSE
    <3>1. w # v /\ step[w] = "compiling" /\ base'[w] = base[w]
      BY <2>1, FreshBase, <1>a DEF Types
    <3>2. base[w] + 1 \notin stream BY <3>1, <2>1, FreshBase
    <3>3. version = base[w] BY <3>1, <3>2, <1>a DEF BaseIsFresh
    <3>4. QED BY <3>1, <3>3, <2>1, FreshBase
  <2>2. ASSUME NEW all \in BOOLEAN, ScheduleReady(v, all) PROVE FALSE
    <3>1. step[w] = "compiling" /\ base'[w] = base[w] /\ stream' = stream /\ mission = "running"
      BY <2>2, <1>a DEF ScheduleReady, Types
    <3>2. QED BY <3>1, <1>a DEF BaseIsFresh
  <2>3. CASE StartCompilation(v)
    <3>1. CASE w = v
      BY <3>1, <2>3, <1>a DEF StartCompilation, Types
    <3>2. CASE w # v
      BY <3>2, <2>3, <1>a DEF StartCompilation, Types, BaseIsFresh
    <3>3. QED BY <3>1, <3>2
  <2>4. CASE Select(v) \/ ClaimBatch(v) \/ Deliver(v) \/ Fail(v) \/ GiveUp(v) \/ Die(v)
    <3>1. UNCHANGED <<mission, version, stream>>
      BY <2>4 DEF Select, ClaimBatch, Deliver, Fail, GiveUp, Die, NextMessage, BatchLost
    <3>2. w # v /\ step[w] = "compiling" /\ base'[w] = base[w]
      BY <2>4, <1>a DEF Select, ClaimBatch, Deliver, Fail, GiveUp, Die, NextMessage, BatchLost, Types
    <3>3. QED BY <3>1, <3>2, <1>a DEF BaseIsFresh
  <2>5. QED BY <1>6, <2>1, <2>2, <2>3, <2>4 DEF Work
<1>7. ASSUME NEW status \in {"paused", "ready"}, Kernel(status) PROVE FALSE
  BY <1>7 DEF Kernel, outbox
<1>8. CASE UNCHANGED lifeVars BY <1>8, <1>a DEF lifeVars, outbox, BaseIsFresh
<1>9. QED BY <1>1, <1>2, <1>3, <1>4, <1>5, <1>6, <1>7, <1>8 DEF LifecycleNext

-----------------------------------------------------------------------------
(***************************************************************************)
(* The messages.                                                           *)
(***************************************************************************)
\* What a request does to the messages: nothing, or it sends one.
Asked ==
  /\ UNCHANGED <<step, batch, base>>
  /\ \/ UNCHANGED message
     \/ /\ version + 1 \notin DOMAIN message /\ version + 1 \in stream' /\ version' = version + 1
        /\ \E topic \in {"compile", "schedule"} : Send(topic)

\* What a worker does to the messages, besides a compilation that ends.
Handled(w) ==
  \/ Select(w) \/ ClaimBatch(w) \/ StartCompilation(w)
  \/ \E all \in BOOLEAN : ScheduleReady(w, all)
  \/ Deliver(w) \/ Fail(w) \/ GiveUp(w) \/ Die(w)

\* The missions that requests leave compiling, and those that are it already.
LEMMA RequestsAsk ==
  ASSUME LifecycleInv, Requested
  PROVE  /\ Asked /\ stream \subseteq stream' /\ version' \in {version, version + 1}
         /\ mission' \in MissionStatus
         /\ reviews' \in Nat /\ planned' \in BOOLEAN /\ basis' \in {"none", "approved", "kernel"}
         /\ moves' \in Nat /\ interrupted' \in BOOLEAN
         /\ mission' = "compiling" =>
              \/ mission = "compiling" /\ UNCHANGED <<version, message>>
              \/ Send("compile") /\ version + 1 \notin DOMAIN message /\ version' = version + 1
<1> DEFINE Result ==
      /\ Asked /\ stream \subseteq stream' /\ version' \in {version, version + 1}
      /\ mission' \in MissionStatus
      /\ reviews' \in Nat /\ planned' \in BOOLEAN /\ basis' \in {"none", "approved", "kernel"}
      /\ moves' \in Nat /\ interrupted' \in BOOLEAN
      /\ mission' = "compiling" =>
           \/ mission = "compiling" /\ UNCHANGED <<version, message>>
           \/ Send("compile") /\ version + 1 \notin DOMAIN message /\ version' = version + 1
<1>a. Types BY DEF LifecycleInv
<1>b. {"draft", "compiling", "awaiting_plan_approval", "ready", "cancelled", "completed",
       "failed", "blocked", "running", "paused"} \subseteq MissionStatus
  BY DEF MissionStatus, ExecutionStatus, PreparationStatus
<1>1. ASSUME NEW command \in DOMAIN Transition, Command(command) PROVE Result
  <2>1. /\ version + 1 \notin DOMAIN message /\ version + 1 \in stream'
        /\ version' = version + 1 /\ stream \subseteq stream'
        /\ mission' = Transition[command].to /\ UNCHANGED <<step, batch, base>>
        /\ UNCHANGED <<reviews, planned, basis, moves, interrupted>>
    BY <1>1, <1>a DEF Command, TransitionMission, Types, plan, kernel
  <2>2. CASE command \in DOMAIN Topic
    <3>1. Send(Topic[command]) BY <1>1, <2>2 DEF Command
    <3>2. QED BY <1>a, <2>1, <2>2, <3>1, CommandsKnown, TopicsKnown DEF Asked, Types
  <2>3. CASE command \notin DOMAIN Topic
    <3>1. UNCHANGED message BY <1>1, <2>3 DEF Command
    <3>2. QED BY <1>a, <2>1, <2>3, <3>1, CommandsKnown, TopicsKnown DEF Asked, Types
  <2>4. QED BY <2>2, <2>3
<1>2. CASE SubmitClarifications
  BY <1>2, <1>a, <1>b DEF SubmitClarifications, Advance, plan, kernel, Types, Asked
<1>3. CASE Plan
  BY <1>3, <1>a, <1>b DEF Plan, Advance, outbox, kernel, Types, Asked
<1>4. ASSUME NEW vote \in {"approved", "rejected"}, Vote(vote) PROVE Result
  BY <1>4, <1>a, <1>b DEF Vote, Advance, outbox, kernel, Types, Asked
<1>5. CASE ApprovePersisted \/ RejectPersisted
  BY <1>5, <1>a, <1>b DEF ApprovePersisted, RejectPersisted, outbox, plan, kernel, Types, Asked
<1>6. CASE Runtime
  BY <1>6, <1>a, <1>b DEF Runtime, RuntimeEvents, Verdict, Claim, outbox, plan, kernel, Types, Asked
<1>7. ASSUME NEW status \in {"paused", "ready"}, Kernel(status) PROVE Result
  BY <1>7, <1>a, <1>b DEF Kernel, KernelSets, outbox, Types, Asked
<1>8. QED BY <1>1, <1>2, <1>3, <1>4, <1>5, <1>6, <1>7 DEF Requested

\* A message that is marked keeps what else it is.
LEMMA RefreshMarks ==
  ASSUME Types, AttemptsLeft, NEW n \in DOMAIN message, NEW st \in OutboxStatus, Refresh(n, st),
         st \in {"pending", "failed"} => message[n].attempts < MAX_OUTBOX_ATTEMPTS,
         st = "dead_letter" => message[n].attempts = MAX_OUTBOX_ATTEMPTS
  PROVE  /\ DOMAIN message' = DOMAIN message
         /\ \A m \in DOMAIN message :
              /\ message'[m] \in Message /\ message'[m].topic = message[m].topic
              /\ m # n => message'[m] = message[m]
              /\ message'[m].status \in {"pending", "failed"} =>
                   message'[m].attempts < MAX_OUTBOX_ATTEMPTS
              /\ message'[m].status = "dead_letter" =>
                   message'[m].attempts = MAX_OUTBOX_ATTEMPTS
BY DEF Refresh, Types, Message, AttemptsLeft

\* Claiming a batch counts an attempt of each of its messages, of those it saw.
LEMMA ClaimMarks ==
  ASSUME Types, AttemptsLeft, NEW w \in OutboxWorker, ClaimBatch(w)
  PROVE  /\ DOMAIN message' = DOMAIN message
         /\ \A m \in DOMAIN message :
              /\ message'[m] \in Message /\ message'[m].topic = message[m].topic
              /\ message'[m] = message[m] \/ message'[m].status = "processing"
<1>1. \A n \in DOMAIN batch[w] : batch[w][n] + 1 \in 0 .. MAX_OUTBOX_ATTEMPTS
  <2>1. step[w] = "selected" BY DEF ClaimBatch
  <2>2. \A n \in DOMAIN batch[w] : batch[w][n] \in 0 .. MAX_OUTBOX_ATTEMPTS - 1
    BY <2>1 DEF AttemptsLeft
  <2>3. QED BY <2>2, AttemptsAssumption
<1>2. "processing" \in OutboxStatus BY DEF OutboxStatus
<1>3. QED BY <1>1, <1>2 DEF ClaimBatch, Types, Message

\* What is before a worker is known, and was tried less than the limit when seen.
LEMMA HandlingKeeps ==
  ASSUME LifecycleInv, NEW w \in OutboxWorker, Handled(w)
  PROVE  /\ stream' = stream /\ version' \in {version, version + 1}
         /\ UNCHANGED <<plan, kernel>>
         /\ mission' \in MissionStatus
         /\ mission' = "compiling" => mission = "compiling" /\ version' = version
         /\ base' \in [OutboxWorker -> Nat] /\ step' \in [OutboxWorker -> Steps]
         /\ DOMAIN batch' = OutboxWorker /\ DOMAIN batch'[w] \subseteq DOMAIN message
         /\ \A v \in OutboxWorker \ {w} : batch'[v] = batch[v] /\ step'[v] = step[v]
<1>a. Types BY DEF LifecycleInv
<1>b. "completed" \in MissionStatus BY DEF MissionStatus, ExecutionStatus
<1> USE DEF Types, Steps
<1>1. CASE Select(w) BY <1>1, <1>a DEF Select
<1>2. CASE ClaimBatch(w) BY <1>2, <1>a DEF ClaimBatch
<1>3. CASE StartCompilation(w) BY <1>3, <1>a DEF StartCompilation
<1>4. ASSUME NEW all \in BOOLEAN, ScheduleReady(w, all)
      PROVE  /\ stream' = stream /\ version' \in {version, version + 1}
             /\ UNCHANGED <<plan, kernel, batch, base>>
             /\ mission' \in {"running", "completed"}
             /\ step' = [step EXCEPT ![w] = "done"]
  BY <1>4, <1>a DEF ScheduleReady
<1>5. CASE Deliver(w) BY <1>5, <1>a DEF Deliver, NextMessage
<1>6. CASE Fail(w) BY <1>6, <1>a DEF Fail, NextMessage
<1>7. CASE GiveUp(w) \/ Die(w)
  <2>1. DOMAIN << >> = {} OBVIOUS
  <2>2. QED BY <1>7, <2>1, <1>a DEF GiveUp, Die, BatchLost
<1>8. CASE \E all \in BOOLEAN : ScheduleReady(w, all)
  <2>1. "running" \in MissionStatus BY DEF MissionStatus, ExecutionStatus
  <2>2. QED BY <1>8, <1>4, <1>a, <1>b, <2>1
<1>9. QED BY <1>1, <1>2, <1>3, <1>5, <1>6, <1>7, <1>8 DEF Handled

\* How a worker marks messages.
LEMMA HandlingMarks ==
  ASSUME LifecycleInv, NEW w \in OutboxWorker, Handled(w)
  PROVE  /\ DOMAIN message' = DOMAIN message
         /\ \A m \in DOMAIN message :
              /\ message'[m] \in Message /\ message'[m].topic = message[m].topic
              /\ message'[m].status \in {"pending", "failed"} =>
                   message'[m].attempts < MAX_OUTBOX_ATTEMPTS
              /\ message'[m].status = "dead_letter" =>
                   message'[m].attempts = MAX_OUTBOX_ATTEMPTS
              /\ \/ message'[m].status \in Unsent
                 \/ message'[m] = message[m]
                 \/ m \in DOMAIN batch[w] /\ At(w, m) /\ step[w] = "done"
<1>a. Types /\ AttemptsLeft BY DEF LifecycleInv
<1>1. CASE UNCHANGED message BY <1>1, <1>a DEF Types, AttemptsLeft
<1>2. CASE ClaimBatch(w)
  <2>1. /\ DOMAIN message' = DOMAIN message
        /\ \A m \in DOMAIN message :
             /\ message'[m] \in Message /\ message'[m].topic = message[m].topic
             /\ message'[m] = message[m] \/ message'[m].status = "processing"
    BY <1>2, <1>a, ClaimMarks
  <2>2. "processing" \in Unsent \ {"pending", "failed", "dead_letter"} BY DEF Unsent
  <2>3. QED BY <2>1, <2>2, <1>a DEF AttemptsLeft
<1>3. CASE Deliver(w)
  <2>1. PICK n \in DOMAIN batch[w] : At(w, n) /\ step[w] = "done" /\ Refresh(n, "sent")
    BY <1>3 DEF Deliver
  <2>2. n \in DOMAIN message /\ "sent" \in OutboxStatus BY <1>a DEF Types, OutboxStatus
  <2>3. QED BY <2>1, <2>2, <1>a, RefreshMarks
<1>4. CASE Fail(w)
  <2>1. PICK n \in DOMAIN batch[w] :
          /\ Refresh(n, IF message[n].attempts >= MAX_OUTBOX_ATTEMPTS
                        THEN "dead_letter" ELSE "failed")
    BY <1>4 DEF Fail
  <2>2. n \in DOMAIN message /\ {"dead_letter", "failed"} \subseteq OutboxStatus
    BY <1>a DEF Types, OutboxStatus
  <2>3. message[n].attempts \in Nat BY <2>2, <1>a DEF Types, Message
  <2>4. CASE message[n].attempts >= MAX_OUTBOX_ATTEMPTS
    <3>1. Refresh(n, "dead_letter") BY <2>1, <2>4
    <3>2. message[n].attempts = MAX_OUTBOX_ATTEMPTS
      BY <2>2, <2>4, <1>a, AttemptsAssumption DEF Types, Message
    <3>3. message'[n].status = "dead_letter" BY <3>1, <2>2, <1>a DEF Refresh, Types, Message
    <3>4. QED BY <2>2, <3>1, <3>2, <3>3, <1>a, RefreshMarks DEF Unsent
  <2>5. CASE ~ (message[n].attempts >= MAX_OUTBOX_ATTEMPTS)
    <3>1. Refresh(n, "failed") BY <2>1, <2>5
    <3>2. message[n].attempts < MAX_OUTBOX_ATTEMPTS
      BY <2>3, <2>5, AttemptsAssumption
    <3>3. message'[n].status = "failed" BY <3>1, <2>2, <1>a DEF Refresh, Types, Message
    <3>4. QED BY <2>2, <3>1, <3>2, <3>3, <1>a, RefreshMarks DEF Unsent
  <2>6. QED BY <2>4, <2>5
<1>5. Select(w) \/ StartCompilation(w) \/ GiveUp(w) \/ Die(w)
        \/ (\E all \in BOOLEAN : ScheduleReady(w, all)) => UNCHANGED message
  BY DEF Select, StartCompilation, GiveUp, Die, BatchLost, ScheduleReady
<1>6. QED BY <1>1, <1>2, <1>3, <1>4, <1>5 DEF Handled

\* Handling messages, or compiling one, keeps the count of their attempts.
LEMMA AttemptsStep ==
  ASSUME LifecycleInv, NEW w \in OutboxWorker, Handled(w)
  PROVE  AttemptsLeft'
<1>a. Types /\ AttemptsLeft BY DEF LifecycleInv
<1>b. \A v \in OutboxWorker \ {w} : batch'[v] = batch[v] /\ step'[v] = step[v]
  BY HandlingKeeps
<1>1. \A n \in DOMAIN message' :
        /\ message'[n].status \in {"pending", "failed"} => message'[n].attempts < MAX_OUTBOX_ATTEMPTS
        /\ message'[n].status = "dead_letter" => message'[n].attempts = MAX_OUTBOX_ATTEMPTS
  BY HandlingMarks
<1>2. ASSUME NEW v \in OutboxWorker \ {w}, step'[v] = "selected", NEW n \in DOMAIN batch'[v]
      PROVE  batch'[v][n] \in 0 .. MAX_OUTBOX_ATTEMPTS - 1
  BY <1>2, <1>a, <1>b DEF AttemptsLeft
<1>3. ASSUME step'[w] = "selected", NEW n \in DOMAIN batch'[w]
      PROVE  batch'[w][n] \in 0 .. MAX_OUTBOX_ATTEMPTS - 1
  <2>1. CASE Select(w)
    <3>1. PICK F \in SUBSET {m \in DOMAIN message : message[m].status = "failed"} :
            batch' = [batch EXCEPT ![w] = [m \in {k \in DOMAIN message : Due(k, F)} |->
                                             message[m].attempts]]
      BY <2>1 DEF Select
    <3>2. n \in DOMAIN message /\ message[n].status \in {"pending", "failed"}
            /\ batch'[w][n] = message[n].attempts
      BY <1>3, <3>1, <1>a DEF Types, Due
    <3>3. message[n].attempts < MAX_OUTBOX_ATTEMPTS /\ message[n].attempts \in Nat
      BY <3>2, <1>a DEF AttemptsLeft, Types, Message
    <3>4. QED BY <3>2, <3>3, AttemptsAssumption
  <2>2. CASE \/ ClaimBatch(w) \/ StartCompilation(w) \/ Deliver(w) \/ Fail(w)
             \/ GiveUp(w) \/ Die(w) \/ \E all \in BOOLEAN : ScheduleReady(w, all)
    BY <2>2, <1>3, <1>a DEF Types, ClaimBatch, StartCompilation, ScheduleReady, Deliver, Fail,
                            GiveUp, Die, NextMessage, BatchLost
  <2>3. QED BY <2>1, <2>2 DEF Handled
<1>4. QED BY <1>1, <1>2, <1>3 DEF AttemptsLeft

\* What a request asks for is a new message, that was never tried.
LEMMA AskingTypes ==
  ASSUME LifecycleInv, Asked, stream \subseteq stream'
  PROVE  /\ DOMAIN message' \subseteq stream' /\ \A n \in DOMAIN message' : message'[n] \in Message
         /\ DOMAIN message \subseteq DOMAIN message' /\ AttemptsLeft'
<1>a. Types /\ AttemptsLeft BY DEF LifecycleInv
<1>b. ASSUME NEW topic \in {"compile", "schedule"}
      PROVE  Pending(topic) \in Message /\ Pending(topic).status = "pending"
               /\ Pending(topic).attempts < MAX_OUTBOX_ATTEMPTS
  BY AttemptsAssumption DEF Pending, Message, OutboxStatus
<1>c. UNCHANGED <<step, batch>> BY DEF Asked
<1>1. CASE UNCHANGED message
  <2>1. AttemptsLeft' BY <1>1, <1>a, <1>c DEF AttemptsLeft
  <2>2. QED BY <1>1, <1>a, <2>1 DEF Types
<1>2. ASSUME NEW topic \in {"compile", "schedule"}, Send(topic),
             version + 1 \notin DOMAIN message, version + 1 \in stream'
      PROVE  /\ DOMAIN message' \subseteq stream' /\ \A n \in DOMAIN message' : message'[n] \in Message
             /\ DOMAIN message \subseteq DOMAIN message' /\ AttemptsLeft'
  <2>1. /\ DOMAIN message' = DOMAIN message \cup {version + 1}
        /\ message'[version + 1] = Pending(topic)
        /\ \A n \in DOMAIN message : message'[n] = message[n]
    BY <1>2, SendAdds
  <2>2. AttemptsLeft' BY <1>b, <2>1, <1>a, <1>c DEF AttemptsLeft
  <2>3. QED BY <1>2, <1>a, <1>b, <2>1, <2>2 DEF Types
<1>3. QED BY <1>1, <1>2 DEF Asked

\* It has the mission's new version for its number.
LEMMA AskingInv ==
  ASSUME LifecycleInv, Asked, version' \in {version, version + 1},
         mission' = "compiling" =>
           \/ mission = "compiling" /\ UNCHANGED <<version, message>>
           \/ Send("compile") /\ version + 1 \notin DOMAIN message /\ version' = version + 1
  PROVE  RequestsAreKept'
<1>a. Types /\ RequestIsVersion /\ DoneIsPast
  BY DEF LifecycleInv, RequestsAreKept
<1>c. UNCHANGED <<step, batch>> BY DEF Asked
<1>1. CASE mission' # "compiling"
  BY <1>1 DEF RequestsAreKept, RequestIsVersion, DoneIsPast
<1>2. CASE mission' = "compiling" /\ mission = "compiling" /\ UNCHANGED <<version, message>>
  <2>1. RequestIsVersion' BY <1>2, <1>a DEF RequestIsVersion
  <2>2. DoneIsPast' BY <1>2, <1>a, <1>c DEF DoneIsPast, At
  <2>3. QED BY <2>1, <2>2 DEF RequestsAreKept
<1>3. CASE /\ mission' = "compiling" /\ Send("compile")
           /\ version + 1 \notin DOMAIN message /\ version' = version + 1
  <2>1. DOMAIN message' = DOMAIN message \cup {version + 1}
        /\ message'[version + 1] = Pending("compile")
    BY <1>3, SendAdds
  <2>2. RequestIsVersion' BY <1>3, <2>1 DEF RequestIsVersion, Unsent, Pending
  <2>3. \A w \in OutboxWorker : \A n \in DOMAIN batch'[w] : n # version'
    BY <1>3, <1>a, <1>c DEF Types
  <2>4. DoneIsPast' BY <2>3 DEF DoneIsPast
  <2>5. QED BY <2>2, <2>4 DEF RequestsAreKept
<1>4. QED BY <1>1, <1>2, <1>3

\* Marking messages never closes the request that the mission waits for.
LEMMA HandlingInv ==
  ASSUME LifecycleInv, NEW w \in OutboxWorker, Handled(w)
  PROVE  RequestsAreKept'
<1>a. Types /\ RequestIsVersion /\ DoneIsPast
  BY DEF LifecycleInv, RequestsAreKept
<1>b. /\ version' \in {version, version + 1}
      /\ mission' = "compiling" => mission = "compiling" /\ version' = version
      /\ \A v \in OutboxWorker \ {w} : batch'[v] = batch[v] /\ step'[v] = step[v]
  BY HandlingKeeps
<1>c. /\ DOMAIN message' = DOMAIN message
      /\ \A m \in DOMAIN message : message'[m].topic = message[m].topic
  BY HandlingMarks
<1>1. RequestIsVersion'
  <2>1. SUFFICES ASSUME mission = "compiling", version' = version
                 PROVE  message'[version].status \in Unsent
    BY <1>a, <1>b, <1>c DEF RequestIsVersion
  <2>2. /\ version \in DOMAIN message /\ message[version].topic = "compile"
        /\ message[version].status \in Unsent
    BY <2>1, <1>a DEF RequestIsVersion
  <2>3. CASE version \in DOMAIN batch[w] /\ At(w, version) /\ step[w] = "done"
    <3>1. QED BY <2>1, <2>2, <2>3, <1>a DEF DoneIsPast
  <2>4. QED BY <2>1, <2>2, <2>3, HandlingMarks
<1>2. DoneIsPast'
  <2>1. ASSUME mission' = "compiling", NEW v \in OutboxWorker \ {w}, NEW n \in DOMAIN batch'[v],
               step'[v] = "done", At(v, n)'
        PROVE  n # version' \/ message'[n].topic = "schedule"
    <3>1. n \in DOMAIN batch[v] /\ step[v] = "done" /\ At(v, n) BY <2>1, <1>b DEF At
    <3>2. n \in DOMAIN message BY <3>1, <1>a DEF Types
    <3>3. QED BY <2>1, <3>1, <3>2, <1>a, <1>b, <1>c DEF DoneIsPast
  <2>2. ASSUME NEW n \in DOMAIN batch'[w], step'[w] = "done", At(w, n)'
        PROVE  message'[n].topic = "schedule"
    <3>1. CASE \E all \in BOOLEAN : ScheduleReady(w, all)
      <4>1. PICK m \in DOMAIN batch[w] : At(w, m) /\ message[m].topic = "schedule"
        BY <3>1 DEF ScheduleReady
      <4>2. batch' = batch BY <3>1 DEF ScheduleReady
      <4>3. n \in Nat /\ m \in Nat /\ m \in DOMAIN message BY <4>1, <4>2, <1>a DEF Types
      <4>4. n = m BY <2>2, <4>1, <4>2, <4>3 DEF At
      <4>5. QED BY <4>1, <4>3, <4>4, <1>c
    <3>2. CASE \/ Select(w) \/ ClaimBatch(w) \/ StartCompilation(w)
               \/ Deliver(w) \/ Fail(w) \/ GiveUp(w) \/ Die(w)
      BY <3>2, <2>2, <1>a DEF Types, Select, ClaimBatch, StartCompilation, Deliver, Fail, GiveUp,
                              Die, NextMessage, BatchLost
    <3>3. QED BY <3>1, <3>2 DEF Handled
  <2>3. QED BY <2>1, <2>2 DEF DoneIsPast
<1>3. QED BY <1>1, <1>2 DEF RequestsAreKept

\* What a compilation writes has its type, whatever it does to the mission.
LEMMA CompilationTypes ==
  ASSUME LifecycleInv, NEW w \in OutboxWorker, NEW result \in {"compiled", "clarification_required"},
         FinishCompilation(w, result)
  PROVE  Types' /\ AttemptsLeft'
<1>a. Types /\ AttemptsLeft BY DEF LifecycleInv
<1>b. /\ mission' = result /\ version' = base[w] + 1 /\ stream' = stream \cup {base[w] + 1}
      /\ step' = [step EXCEPT ![w] = "done"] /\ base' = [base EXCEPT ![w] = 0]
      /\ UNCHANGED <<reviews, planned, basis, moves, interrupted, message, batch>>
  BY DEF FinishCompilation, Compiled, plan, kernel
<1>1. result \in MissionStatus BY DEF MissionStatus, PreparationStatus
<1>2. version' \in Nat \ {0} /\ stream' \subseteq Nat \ {0}
  <2>1. base[w] \in Nat /\ stream \subseteq Nat \ {0} BY <1>a DEF Types
  <2>2. base[w] + 1 \in Nat \ {0} BY <2>1
  <2>3. QED BY <1>b, <2>1, <2>2
<1>3. step' \in [OutboxWorker -> Steps] /\ base' \in [OutboxWorker -> Nat]
  BY <1>a, <1>b DEF Types, Steps
<1>4. Types' BY <1>a, <1>b, <1>1, <1>2, <1>3 DEF Types
<1>5. AttemptsLeft' BY <1>a, <1>b DEF AttemptsLeft, Types
<1>6. QED BY <1>4, <1>5

\* The end of a compilation ends the waiting for the request it was made for.
LEMMA CompilationInv ==
  ASSUME NEW w \in OutboxWorker,
         NEW result \in {"compiled", "clarification_required"}, FinishCompilation(w, result)
  PROVE  RequestsAreKept'
<1>1. mission' # "compiling" BY DEF FinishCompilation, Compiled
<1>2. QED BY <1>1 DEF RequestsAreKept, RequestIsVersion, DoneIsPast

\* Nobody takes back that the kernel interrupted a compilation.
LEMMA InterruptedStays ==
  [LifecycleNext]_lifeVars /\ interrupted => interrupted'
<1> SUFFICES ASSUME [LifecycleNext]_lifeVars, interrupted PROVE interrupted' OBVIOUS
<1>1. ASSUME NEW command \in DOMAIN Transition, Command(command) PROVE interrupted'
  BY <1>1 DEF Command, kernel
<1>2. ASSUME NEW vote \in {"approved", "rejected"}, Vote(vote) PROVE interrupted'
  BY <1>2 DEF Vote, kernel
<1>3. CASE SubmitClarifications \/ Plan \/ ApprovePersisted \/ RejectPersisted \/ Runtime
  BY <1>3 DEF SubmitClarifications, Plan, ApprovePersisted, RejectPersisted, Runtime, kernel
<1>4. ASSUME NEW status \in {"paused", "ready"}, Kernel(status) PROVE interrupted'
  BY <1>4 DEF Kernel
<1>5. ASSUME NEW w \in OutboxWorker, Work(w) \/ Die(w) PROVE interrupted'
  BY <1>5 DEF Work, Select, ClaimBatch, StartCompilation, FinishCompilation, Compiled, ScheduleReady,
              Deliver, Fail, GiveUp, Die, NextMessage, BatchLost, kernel
<1>6. CASE UNCHANGED lifeVars BY <1>6 DEF lifeVars, kernel
<1>7. QED BY <1>1, <1>2, <1>3, <1>4, <1>5, <1>6 DEF LifecycleNext

LEMMA LifecycleStep == LifecycleInv /\ [LifecycleNext]_lifeVars => LifecycleInv'
<1> SUFFICES ASSUME LifecycleInv, [LifecycleNext]_lifeVars PROVE LifecycleInv' OBVIOUS
<1>a. NothingRunsUnapproved' BY ApprovalStep
<1>b. Types BY DEF LifecycleInv
<1>c. ~interrupted' => ~interrupted /\ StreamIsFull' /\ BaseIsFresh'
  BY InterruptedStays, StreamStep, BaseStep
<1>1. CASE Requested
  <2>1. /\ DOMAIN message' \subseteq stream' /\ \A n \in DOMAIN message' : message'[n] \in Message
        /\ DOMAIN message \subseteq DOMAIN message' /\ AttemptsLeft'
        /\ RequestsAreKept'
    BY <1>1, RequestsAsk, AskingTypes, AskingInv
  <2>2. /\ UNCHANGED <<step, batch, base>> /\ mission' \in MissionStatus
        /\ reviews' \in Nat /\ planned' \in BOOLEAN /\ basis' \in {"none", "approved", "kernel"}
        /\ moves' \in Nat /\ interrupted' \in BOOLEAN
    BY <1>1, RequestsAsk DEF Asked
  <2>3. version' \in Nat \ {0}
    <3>1. version' \in {version, version + 1} BY <1>1, RequestsAsk
    <3>2. QED BY <3>1, <1>b DEF Types
  <2>4. stream' \subseteq Nat \ {0}
    <3>1. ASSUME NEW n \in stream \cup {0}, NEW k \in Nat, stream' = stream \cup (n + 1 .. n + k)
          PROVE  stream' \subseteq Nat \ {0}
      <4>1. n \in Nat /\ stream \subseteq Nat \ {0} BY <1>b DEF Types
      <4>2. n + 1 .. n + k \subseteq Nat \ {0} BY <4>1
      <4>3. QED BY <3>1, <4>1, <4>2
    <3>2. version + 1 \in Nat \ {0} /\ version \in Nat \ {0} /\ stream \subseteq Nat \ {0}
      BY <1>b DEF Types
    <3>3. CASE \/ \E command \in DOMAIN Transition : Command(command)
               \/ SubmitClarifications \/ Plan
               \/ \E vote \in {"approved", "rejected"} : Vote(vote)
      <4>1. stream' = stream \cup {version + 1} \/ stream' = stream \cup {version}
        <5>1. CASE \E command \in DOMAIN Transition : Command(command)
          BY <5>1 DEF Command, TransitionMission
        <5>2. CASE SubmitClarifications \/ Plan
          BY <5>2 DEF SubmitClarifications, Plan, Advance
        <5>3. CASE \E vote \in {"approved", "rejected"} : Vote(vote)
          BY <5>3 DEF Vote, Advance
        <5>4. QED BY <3>3, <5>1, <5>2, <5>3
      <4>2. QED BY <3>2, <4>1
    <3>4. CASE ApprovePersisted
      <4>1. PICK n \in stream \cup {0}, k \in Approving : stream' = stream \cup (n + 1 .. n + k)
        BY <3>4 DEF ApprovePersisted
      <4>2. k \in Nat BY BoundAssumption DEF Approving
      <4>3. QED BY <3>1, <4>1, <4>2
    <3>5. CASE RejectPersisted
      <4>1. PICK n \in stream \cup {0} : stream' = stream \cup {n + 1}
        BY <3>5 DEF RejectPersisted
      <4>2. n + 1 \in Nat \ {0} BY <3>2
      <4>3. QED BY <3>2, <4>1, <4>2
    <3>6. CASE Runtime
      <4>1. CASE \E k \in 1 .. MaxAppend : RuntimeEvents(k)
        <5>1. PICK k \in 1 .. MaxAppend, n \in stream \cup {0} :
                stream' = stream \cup (n + 1 .. n + k)
          BY <4>1 DEF RuntimeEvents
        <5>2. k \in Nat BY BoundAssumption
        <5>3. QED BY <5>1, <5>2, <3>1
      <4>2. CASE \E target \in {"completed", "failed", "blocked"} : Verdict(target)
        <5>1. PICK n \in stream \cup {0} : stream' = stream \cup {n + 1}
          BY <4>2 DEF Verdict
        <5>2. n + 1 \in Nat \ {0} BY <3>2
        <5>3. QED BY <3>2, <5>1, <5>2
      <4>3. CASE Claim BY <4>3, <3>2 DEF Claim
      <4>4. QED BY <3>6, <4>1, <4>2, <4>3 DEF Runtime
    <3>7. CASE \E status \in {"paused", "ready"} : Kernel(status)
      BY <3>7, <3>2 DEF Kernel, KernelSets
    <3>8. QED BY <1>1, <3>3, <3>4, <3>5, <3>6, <3>7 DEF Requested
  <2>5. Types' BY <2>1, <2>2, <2>3, <2>4, <1>b DEF Types
  <2>6. QED BY <1>a, <1>c, <2>1, <2>5 DEF LifecycleInv
<1>2. ASSUME NEW w \in OutboxWorker, Work(w) \/ Die(w) PROVE LifecycleInv'
  <2>1. ASSUME NEW result \in {"compiled", "clarification_required"}, FinishCompilation(w, result)
        PROVE  LifecycleInv'
    BY <2>1, <1>a, <1>c, CompilationTypes, CompilationInv DEF LifecycleInv
  <2>2. CASE Handled(w)
    <3>1. /\ DOMAIN message' = DOMAIN message
          /\ \A n \in DOMAIN message : message'[n] \in Message
      BY <2>2, HandlingMarks
    <3>2. /\ stream' = stream /\ version' \in {version, version + 1}
          /\ UNCHANGED <<reviews, planned, basis, moves, interrupted>> /\ mission' \in MissionStatus
          /\ base' \in [OutboxWorker -> Nat] /\ step' \in [OutboxWorker -> Steps]
          /\ DOMAIN batch' = OutboxWorker /\ DOMAIN batch'[w] \subseteq DOMAIN message
          /\ \A v \in OutboxWorker \ {w} : batch'[v] = batch[v]
      BY <2>2, HandlingKeeps DEF plan, kernel
    <3>3. version' \in Nat \ {0} BY <3>2, <1>b DEF Types
    <3>4. \A v \in OutboxWorker : DOMAIN batch'[v] \subseteq DOMAIN message'
      BY <3>1, <3>2, <1>b DEF Types
    <3>5. Types' BY <3>1, <3>2, <3>3, <3>4, <1>b DEF Types
    <3>6. AttemptsLeft' /\ RequestsAreKept'
      BY <2>2, AttemptsStep, HandlingInv
    <3>7. QED BY <3>5, <3>6, <1>a, <1>c DEF LifecycleInv
  <2>3. QED BY <1>2, <2>1, <2>2 DEF Work, Handled
<1>3. CASE UNCHANGED lifeVars
  <2>1. /\ UNCHANGED <<mission, version, stream, reviews, planned, basis, moves, interrupted>>
        /\ UNCHANGED <<message, step, batch, base>>
    BY <1>3 DEF lifeVars, plan, kernel, outbox
  <2>2. Types' BY <2>1, <1>b DEF Types
  <2>3. AttemptsLeft' BY <2>1 DEF LifecycleInv, AttemptsLeft
  <2>4. RequestsAreKept'
    BY <2>1 DEF LifecycleInv, RequestsAreKept, RequestIsVersion, DoneIsPast, At
  <2>5. QED BY <1>a, <1>c, <2>2, <2>3, <2>4 DEF LifecycleInv
<1>4. QED BY <1>1, <1>2, <1>3 DEF LifecycleNext, Requested

-----------------------------------------------------------------------------
\* The invariant holds of every mission.
THEOREM LifecycleInvariance == LifecycleSpec => []LifecycleInv
BY InitLifecycleInv, LifecycleStep, PTL DEF LifecycleSpec

\* The variables have their types; a message is tried no more often than the limit.
THEOREM LifecycleTypeCorrect == LifecycleSpec => []LifecycleTypeOK
<1>1. LifecycleInv => LifecycleTypeOK
  BY DEF LifecycleInv, Types, LifecycleTypeOK, TypeOK, Message, Steps
<1>2. QED BY <1>1, LifecycleInvariance, PTL

\* Whoever appends, and however the two counters drift apart, no number between
\* the mission's version and an event is unused, as long as the kernel leaves
\* missions alone that are being compiled.
THEOREM LifecycleHasNoGapAhead == LifecycleSpec => []GapsStayBehind
<1>1. LifecycleInv => GapsStayBehind
  BY DEF LifecycleInv, Types, StreamIsFull, GapsAreBehind, GapsStayBehind
<1>2. QED BY <1>1, LifecycleInvariance, PTL

\* No mission is carried out before somebody approved it since its latest plan,
\* unless the kernel made or moved it.
THEOREM OnlyApprovedRuns == LifecycleSpec => []NothingRunsUnapproved
<1>1. LifecycleInv => NothingRunsUnapproved BY DEF LifecycleInv
<1>2. QED BY <1>1, LifecycleInvariance, PTL

\* A mission that is compiling has a request that is still to be worked on, or
\* that failed as often as it may; nobody takes it for done.
THEOREM RequestNeverLost == LifecycleSpec => []RequestIsThere
<1>1. LifecycleInv => RequestIsThere
  BY DEF LifecycleInv, RequestsAreKept, RequestIsVersion, AttemptsLeft, Unsent, GivenUp,
         RequestIsThere
<1>2. QED BY <1>1, LifecycleInvariance, PTL

\* Whatever is appended, by whom ever, comes after all there is.
THEOREM LifecycleInOrder == LifecycleSpec => EventsKeepOrder
<1>1. LifecycleInv /\ [LifecycleNext]_lifeVars
        => [~interrupted => \A new \in stream' \ stream, old \in stream : old < new]_lifeVars
  BY StreamStep
<1>2. QED BY <1>1, LifecycleInvariance, PTL DEF LifecycleSpec, EventsKeepOrder

\* A compilation that ends, ends what it began: its mission is still compiling,
\* at the version it was compiled from.
THEOREM CompilationsEndTheirOwn == LifecycleSpec => CompilationEndsItsOwn
<1> DEFINE Own == ~interrupted =>
                    \A w \in OutboxWorker : step[w] = "compiling" /\ step'[w] = "done" =>
                      mission = "compiling" /\ version = base[w]
<1>1. ASSUME LifecycleInv, [LifecycleNext]_lifeVars PROVE [Own]_lifeVars
  <2>a. Types BY <1>1 DEF LifecycleInv
  <2>1. CASE Requested
    BY <1>1, <2>1, RequestsAsk DEF Asked
  <2>2. ASSUME NEW w \in OutboxWorker, Work(w) \/ Die(w) PROVE Own
    <3>1. ASSUME NEW result, FinishCompilation(w, result), ~interrupted PROVE Own
      BY <1>1, <3>1, FreshBase, <2>a DEF Types
    <3>2. CASE Handled(w)
      <4>1. \A v \in OutboxWorker \ {w} : step'[v] = step[v]
        BY <1>1, <3>2, HandlingKeeps
      <4>2. step[w] = "compiling" => step'[w] # "done"
        BY <3>2, <2>a
        DEF Handled, Types, Select, ClaimBatch, StartCompilation, ScheduleReady, Deliver, Fail,
            GiveUp, Die, NextMessage, BatchLost
      <4>3. QED BY <4>1, <4>2
    <3>3. QED BY <2>2, <3>1, <3>2 DEF Work, Handled
  <2>3. QED BY <1>1, <2>1, <2>2 DEF LifecycleNext, Requested
<1>2. QED BY <1>1, LifecycleInvariance, PTL DEF LifecycleSpec, CompilationEndsItsOwn
=============================================================================

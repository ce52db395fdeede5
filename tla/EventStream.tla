----------------------------- MODULE EventStream -----------------------------
(***************************************************************************)
(* The event stream of one mission.  Two parts of the program number its   *)
(* events: the task runtime gives an event the highest number so far plus  *)
(* one, and leaves the mission's row alone unless it changes the mission;  *)
(* the operator's commands advance the mission's version_number and give   *)
(* their event that number.  The database admits each number once, and     *)
(* rolls back the request that uses one again.  The runtime kernel moves   *)
(* the version, too, but has a stream of its own for its events.           *)
(***************************************************************************)
EXTENDS Integers, MissionCommands

CONSTANTS
  Created,     \* the version the mission has when its plan is approved
  MaxAppend,   \* bound: runtime events of one request
  MaxNumber    \* bound: the numbers of events and versions

ASSUME CreatedAssumption == Created \in Nat \ {0}
ASSUME BoundAssumption == MaxAppend \in Nat /\ MaxNumber \in Nat

VARIABLES
  mission,   \* the mission's status
  version,   \* its version_number
  stream     \* the numbers of its events

vars == <<mission, version, stream>>

\* Slip: the next number that is free.
NextIsFree(n) == n \in stream \cup {0} /\ n + 1 \notin stream

\* The last number in use; none is before the first event.
Highest(n) == n \in stream \cup {0} /\ \A m \in stream : m <= n

\* Creating, compiling, planning and approving the mission advanced its version
\* by one each and gave their event that number.
Init ==
  /\ mission = "ready"
  /\ version = Created
  /\ stream = 1 .. Created

\* Slip: the number is counted up once too often.
RuntimeEventsSkipping(k) ==
  \E n \in stream \cup {0} :
    /\ Highest(n)
    /\ n + k <= MaxNumber
    /\ stream' = stream \cup {n + k}
    /\ UNCHANGED <<mission, version>>

\* Dispatching, scheduling, accepting or reporting an assignment.
RuntimeEvents(k) ==
  \E n \in stream \cup {0} :
    /\ Highest(n)
    /\ n + k <= MaxNumber
    /\ stream' = stream \cup (n + 1 .. n + k)
    /\ UNCHANGED <<mission, version>>

\* Slip: missions that are still prepared are judged, too.
VerdictAnytime(target) ==
  \E n \in stream \cup {0} :
    /\ Highest(n)
    /\ n < MaxNumber /\ version < MaxNumber
    /\ mission \notin {"paused", "cancelled", target}
    /\ mission' = target
    /\ version' = version + 1
    /\ stream' = stream \cup {n + 1}

\* The dispatcher's verdict on the mission is a new version of it as well.
Verdict(target) ==
  \E n \in stream \cup {0} :
    /\ Highest(n)
    /\ n < MaxNumber /\ version < MaxNumber
    /\ mission \in {"ready", "running", "completed", "failed", "blocked"} \ {target}
    /\ mission' = target
    /\ version' = version + 1
    /\ stream' = stream \cup {n + 1}

\* Claiming a task sets the mission running; its event is in the task's stream.
Claim ==
  /\ mission \in {"ready", "running"}
  /\ version < MaxNumber
  /\ mission' = "running"
  /\ version' = version + 1
  /\ UNCHANGED stream

Allowed(command) == mission \in Transition[command].from

TransitionMission(command) ==
  /\ Allowed(command)
  /\ version < MaxNumber
  /\ version + 1 \notin stream       \* uq_arceus_events_aggregate_version
  /\ mission' = Transition[command].to
  /\ version' = version + 1
  /\ stream' = stream \cup {version + 1}

\* The runtime kernel pauses and resumes a mission whatever its status is.
KernelSets(status) ==
  /\ version < MaxNumber
  /\ mission' = status
  /\ version' = version + 1
  /\ UNCHANGED stream

Next ==
  \/ \E k \in 1 .. MaxAppend : RuntimeEvents(k)
  \/ \E target \in {"completed", "failed", "blocked"} : Verdict(target)
  \/ Claim
  \/ \E command \in DOMAIN Transition : TransitionMission(command)
  \/ \E status \in {"paused", "ready"} : KernelSets(status)

Spec == Init /\ [][Next]_vars

-----------------------------------------------------------------------------
\* Every variable has its type.
TypeOK ==
  /\ mission \in MissionStatus
  /\ version \in Nat
  /\ stream \subseteq Nat \ {0}

\* The numbers order the events as they happened, although two counters that
\* drift apart hand them out: whatever is appended comes after all there is.
AppendedInOrder ==
  [][\A new \in stream' \ stream, old \in stream : old < new]_vars

\* Why: the stream has gaps only where the mission's version has already been.
GapsAreBehind ==
  \A n \in stream : \A m \in version + 1 .. n : m \in stream

\* What an operator may do in the mission's present state, the database admits.
CommandsCommit ==
  \A command \in DOMAIN Transition : Allowed(command) => version + 1 \notin stream
=============================================================================

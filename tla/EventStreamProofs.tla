-------------------------- MODULE EventStreamProofs --------------------------
(***************************************************************************)
(* The order of a mission's events, for any number of events and requests. *)
(*                                                                         *)
(* Two counters number the events.  That a command's number comes after    *)
(* every event there is does not follow from the number being unused; it   *)
(* follows from where the unused numbers are, which is what GapsAreBehind  *)
(* says, and GapsAreBehind is inductive.                                   *)
(***************************************************************************)
EXTENDS EventStream, TLAPS

Inv == TypeOK /\ GapsAreBehind

\* A mission starts with one event for each of its versions.
LEMMA InitInv == Init => Inv
BY CreatedAssumption DEF Init, Inv, TypeOK, GapsAreBehind, MissionStatus, ExecutionStatus, PreparationStatus

\* Every request that commits keeps the gaps behind the mission's version.
LEMMA NextInv == Inv /\ [Next]_vars => Inv'
<1> SUFFICES ASSUME Inv, [Next]_vars PROVE Inv' OBVIOUS
<1> USE DEF Inv, TypeOK
<1>1. ASSUME NEW k \in 1 .. MaxAppend, RuntimeEvents(k) PROVE Inv'
  <2>1. PICK n \in stream \cup {0} : Highest(n) /\ stream' = stream \cup (n + 1 .. n + k)
                            /\ UNCHANGED <<mission, version>>
    BY <1>1 DEF RuntimeEvents
  <2>2. TypeOK' BY <2>1
  <2>3. GapsAreBehind' BY <2>1 DEF GapsAreBehind
  <2>4. QED BY <2>2, <2>3
<1>2. ASSUME NEW target \in {"completed", "failed", "blocked"}, Verdict(target) PROVE Inv'
  <2>1. PICK n \in stream \cup {0} : /\ Highest(n) /\ mission' = target
                                  /\ version' = version + 1 /\ stream' = stream \cup {n + 1}
    BY <1>2 DEF Verdict
  <2>2. TypeOK' BY <2>1 DEF MissionStatus, ExecutionStatus, PreparationStatus
  <2>3. GapsAreBehind' BY <2>1 DEF GapsAreBehind
  <2>4. QED BY <2>2, <2>3
<1>3. CASE Claim
  <2>1. TypeOK' BY <1>3 DEF Claim, MissionStatus, ExecutionStatus, PreparationStatus
  <2>2. GapsAreBehind' BY <1>3 DEF Claim, GapsAreBehind
  <2>3. QED BY <2>1, <2>2
<1>4. ASSUME NEW command \in DOMAIN Transition, TransitionMission(command) PROVE Inv'
  <2>1. Transition[command].to \in MissionStatus BY DEF Transition, MissionStatus, ExecutionStatus, PreparationStatus
  <2>2. TypeOK' BY <1>4, <2>1 DEF TransitionMission
  <2>3. GapsAreBehind' BY <1>4 DEF TransitionMission, GapsAreBehind
  <2>4. QED BY <2>2, <2>3
<1>5. ASSUME NEW status \in {"paused", "ready"}, KernelSets(status) PROVE Inv'
  <2>1. TypeOK' BY <1>5 DEF KernelSets, MissionStatus, ExecutionStatus
  <2>2. GapsAreBehind' BY <1>5 DEF KernelSets, GapsAreBehind
  <2>3. QED BY <2>1, <2>2
<1>6. CASE UNCHANGED vars
  BY <1>6 DEF vars, GapsAreBehind
<1>7. QED BY <1>1, <1>2, <1>3, <1>4, <1>5, <1>6 DEF Next

\* Each step that appends appends behind everything, because of the invariant.
LEMMA StepAppendsInOrder ==
  Inv /\ [Next]_vars => \A new \in stream' \ stream, old \in stream : old < new
<1> SUFFICES ASSUME Inv, [Next]_vars, NEW new \in stream' \ stream, NEW old \in stream
             PROVE  old < new
  OBVIOUS
<1> USE DEF Inv, TypeOK
<1>1. ASSUME NEW k \in 1 .. MaxAppend, RuntimeEvents(k) PROVE old < new
  BY <1>1 DEF RuntimeEvents, Highest
<1>2. ASSUME NEW target \in {"completed", "failed", "blocked"}, Verdict(target)
      PROVE  old < new
  BY <1>2 DEF Verdict, Highest
<1>3. ASSUME NEW command \in DOMAIN Transition, TransitionMission(command)
      PROVE  old < new
  <2>1. new = version + 1 /\ version + 1 \notin stream
    BY <1>3 DEF TransitionMission
  <2>2. ~ (version + 1 <= old)
    BY <2>1 DEF GapsAreBehind
  <2>3. QED BY <2>1, <2>2
<1>4. CASE Claim BY <1>4 DEF Claim
<1>5. ASSUME NEW status \in {"paused", "ready"}, KernelSets(status) PROVE old < new
  BY <1>5 DEF KernelSets
<1>6. CASE UNCHANGED vars BY <1>6 DEF vars
<1>7. QED BY <1>1, <1>2, <1>3, <1>4, <1>5, <1>6 DEF Next

-----------------------------------------------------------------------------
\* The types and the place of the gaps, for every mission.
THEOREM Invariance == Spec => []Inv
BY InitInv, NextInv, PTL DEF Spec

\* A number between the mission's version and an event is never unused.
THEOREM NoGapAhead == Spec => []GapsAreBehind
<1>1. Inv => GapsAreBehind BY DEF Inv
<1>2. QED BY <1>1, Invariance, PTL

\* The numbers of a mission's events are in the order in which they happened.
THEOREM EventsInOrder == Spec => AppendedInOrder
<1>1. Inv /\ [Next]_vars => [\A new \in stream' \ stream, old \in stream : old < new]_vars
  BY StepAppendsInOrder
<1>2. QED BY <1>1, Invariance, PTL DEF Spec, AppendedInOrder
=============================================================================

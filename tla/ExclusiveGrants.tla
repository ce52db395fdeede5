--------------------------- MODULE ExclusiveGrants ---------------------------
(***************************************************************************)
(* What a lock service promises: grants that clash are never current at    *)
(* the same time, and a grant that has ended never becomes current again.  *)
(* The task runtime promises it three times: of the leases of a task, of   *)
(* its assignments, and of the reservations of overlapping paths.          *)
(***************************************************************************)
CONSTANTS
  Grant,   \* the grants there can be
  Clash    \* the pairs of grants that may not be current together

VARIABLES
  current,  \* the grants in force
  past      \* those that have ended

vars == <<current, past>>

Exclusive(S) == \A a, b \in S : <<a, b>> \in Clash => a = b

Init == current = {} /\ past = {}

\* Some current grants end and some that never were current begin, in one step.
Next ==
  LET begin == current' \ current
      end   == current \ current'
  IN /\ begin \subseteq Grant \ past
     /\ past' = past \cup end
     /\ Exclusive(current')

Spec == Init /\ [][Next]_vars
=============================================================================

-------------------------- MODULE TaskRuntimeProofs --------------------------
(***************************************************************************)
(* The safety of the task runtime, for every mission, every organization   *)
(* and all bounds.                                                         *)
(*                                                                         *)
(* Most requests rewrite the rows in several passes before they commit, so *)
(* the argument is about rows: what every pass preserves (first part),     *)
(* what the grants of the scheduling loop preserve (second part), and then *)
(* what the actions, which combine them, preserve (third part).            *)
(***************************************************************************)
EXTENDS TaskRuntime, FiniteSetTheorems, TLAPS

RowSet ==
  [mission : MissionStatus, task : [Task -> TaskStatus],
   status : [Assignment -> AssignmentStatus], held : SUBSET Assignment,
   worker : [Worker -> WorkerStatus], lease : [Lease -> LeaseStatus]]

\* The variables of the state have their types when its rows do.
LEMMA RowsType ==
  TypeOK <=> /\ Rows \in RowSet
             /\ owner \in [Task -> Worker \cup {NoWorker}]
             /\ assignee \in [Assignment -> Worker \cup {NoWorker}]
             /\ lapsed \subseteq Assignment
BY DEF TypeOK, Rows, RowSet

-----------------------------------------------------------------------------
(***************************************************************************)
(* The passes keep the types of the rows.                                  *)
(***************************************************************************)
\* Dispatching rows of the right types gives such rows.
LEMMA DispatchedType ==
  ASSUME NEW s \in RowSet
  PROVE  Dispatched(s) \in RowSet
<1> DEFINE s1 == LeasesExpired(s)
           s2 == DependenciesReleased(s1)
<1>1. s1 \in RowSet
  BY DEF LeasesExpired, RowSet, TaskStatus, LeaseStatus
<1> HIDE DEF s1
<1>2. s2 \in RowSet
  BY <1>1 DEF DependenciesReleased, RowSet, TaskStatus
<1> HIDE DEF s2
<1>3. MissionUpdated(s2) \in RowSet
  BY <1>2 DEF MissionUpdated, RowSet, MissionStatus, ExecutionStatus, PreparationStatus
<1>4. QED
  BY <1>3 DEF Dispatched, s1, s2

\* So does releasing what the ended tasks hold.
LEMMA TerminalReleasedType ==
  ASSUME NEW s \in RowSet
  PROVE  TerminalReleased(s) \in RowSet
BY DEF TerminalReleased, Idled, RowSet, AssignmentStatus, WorkerStatus

\* So does expiring the overdue assignments.
LEMMA StaleExpiredType ==
  ASSUME NEW s \in RowSet
  PROVE  StaleExpired(s) \in RowSet
BY DEF StaleExpired, Idled, RowSet, AssignmentStatus, WorkerStatus, TaskStatus

\* So does granting; every grant is a row of its own task that was not in use.
LEMMA GrantedType ==
  ASSUME NEW s \in RowSet, NEW G \in SUBSET Task, NEW who \in [G -> Worker],
         \A t \in G : HasRow(s, t)
  PROVE  /\ Granted(s, G, who) \in RowSet
         /\ \A t \in G : NewRow(s, t) \in Assignment /\ NewRow(s, t)[1] = t
                         /\ s.status[NewRow(s, t)] = "absent"
<1>1. \A t \in G : NewRow(s, t) \in Assignment /\ NewRow(s, t)[1] = t
                   /\ s.status[NewRow(s, t)] = "absent"
  BY DEF HasRow, NewRow, Assignment
<1> DEFINE new == {NewRow(s, t) : t \in G}
<1>2. [a \in Assignment |-> IF a \in new THEN "assigned" ELSE s.status[a]]
        \in [Assignment -> AssignmentStatus]
  BY DEF RowSet, AssignmentStatus
<1>3. s.held \cup {a \in new : Reserved(a[1]) # {}} \in SUBSET Assignment
  BY <1>1 DEF RowSet
<1>4. [w \in Worker |-> IF \E t \in G : who[t] = w THEN "reserved" ELSE s.worker[w]]
        \in [Worker -> WorkerStatus]
  BY DEF RowSet, WorkerStatus
<1>5. Granted(s, G, who) \in RowSet
  <2> HIDE DEF new
  <2>1. Granted(s, G, who) =
          [s EXCEPT
            !.status = [a \in Assignment |->
                         IF a \in new THEN "assigned" ELSE s.status[a]],
            !.held = s.held \cup {a \in new : Reserved(a[1]) # {}},
            !.worker = [w \in Worker |-> IF \E t \in G : who[t] = w
                                         THEN "reserved" ELSE s.worker[w]]]
    BY Zenon DEF Granted, new
  <2>2. QED
    BY <1>2, <1>3, <1>4, <2>1 DEF RowSet
<1>6. QED
  BY <1>1, <1>5

-----------------------------------------------------------------------------
(***************************************************************************)
(* The invariant, stated of rows.  asg says who has each assignment.       *)
(***************************************************************************)
OneActive(s) ==
  \A a, b \in Assignment :
    s.status[a] \in Active /\ s.status[b] \in Active /\ a[1] = b[1] => a = b

Apart(s) == \A a, b \in s.held : Conflict(a[1], b[1]) => a = b

PathsKept(s) ==
  \A a \in Assignment : s.status[a] \in Active /\ Reserved(a[1]) # {} => a \in s.held

Freed(s, asg) ==
  \A w \in Worker : s.worker[w] # "idle" =>
    \E a \in Assignment : s.status[a] \in Active /\ asg[a] = w

OneLive(s) ==
  \A l, m \in Lease : s.lease[l] = "live" /\ s.lease[m] = "live" /\ l[1] = m[1] => l = m

Leased(s) ==
  \A t \in Task : s.task[t] = "running" =>
    \E l \in Lease : l[1] = t /\ s.lease[l] \in {"live", "lapsed"}

\* What is said of leases is said where desktops are alone in giving them out.
Good(s, asg, alone) ==
  /\ OneActive(s) /\ Apart(s) /\ PathsKept(s) /\ Freed(s, asg)
  /\ alone => OneLive(s) /\ Leased(s)

\* The dispatcher changes tasks, leases and the mission, but makes no task run
\* and ends no lease of a task it leaves running.
LEMMA DispatchedGood ==
  ASSUME NEW alone, NEW s \in RowSet, NEW asg, Good(s, asg, alone)
  PROVE  Good(Dispatched(s), asg, alone)
<1> DEFINE s1 == LeasesExpired(s)
           s2 == DependenciesReleased(s1)
           s3 == MissionUpdated(s2)
<1>1. /\ s1 \in RowSet
      /\ s1.status = s.status /\ s1.held = s.held /\ s1.worker = s.worker
      /\ \A l \in Lease : s1.lease[l] = IF s.lease[l] = "lapsed" THEN "expired" ELSE s.lease[l]
      /\ \A t \in Task : s1.task[t] = "running" =>
           s.task[t] = "running" /\ ~ \E l \in Lease : l[1] = t /\ s.lease[l] = "lapsed"
  <2>1. s1 \in RowSet
    BY DEF LeasesExpired, RowSet, TaskStatus, LeaseStatus
  <2>2. /\ s1.status = s.status /\ s1.held = s.held /\ s1.worker = s.worker
        /\ s1.lease = [l \in Lease |->
                        IF s.lease[l] = "lapsed" THEN "expired" ELSE s.lease[l]]
    BY DEF LeasesExpired, RowSet
  <2>3. s1.task = [t \in Task |->
          IF s.task[t] = "running" /\ \E l \in Lease : l[1] = t /\ s.lease[l] = "lapsed"
          THEN "ready" ELSE s.task[t]]
    BY DEF LeasesExpired, RowSet
  <2> HIDE DEF s1
  <2>4. \A t \in Task : s1.task[t] = "running" =>
           s.task[t] = "running" /\ ~ \E l \in Lease : l[1] = t /\ s.lease[l] = "lapsed"
    BY <2>3
  <2>5. QED BY <2>1, <2>2, <2>4
<1>2. /\ s2 \in RowSet
      /\ s2.status = s1.status /\ s2.held = s1.held /\ s2.worker = s1.worker
      /\ s2.lease = s1.lease
      /\ \A t \in Task : s2.task[t] = "running" => s1.task[t] = "running"
  <2> HIDE DEF s1
  <2>1. s2 \in RowSet
    BY <1>1 DEF DependenciesReleased, RowSet, TaskStatus
  <2>2. QED BY <1>1, <2>1 DEF DependenciesReleased, RowSet
<1>3. /\ s3.status = s2.status /\ s3.held = s2.held /\ s3.worker = s2.worker
      /\ s3.lease = s2.lease /\ s3.task = s2.task
  <2> HIDE DEF s2
  <2>1. QED BY <1>2 DEF MissionUpdated, RowSet
<1> HIDE DEF s1, s2, s3
<1>4. Good(s3, asg, alone)
  <2>1. OneActive(s3) /\ Apart(s3) /\ PathsKept(s3) /\ Freed(s3, asg)
    BY <1>1, <1>2, <1>3 DEF Good, OneActive, Apart, PathsKept, Freed
  <2>2. alone => OneLive(s3)
    BY <1>1, <1>2, <1>3 DEF Good, OneLive
  <2>3. alone => Leased(s3)
    BY <1>1, <1>2, <1>3 DEF Good, Leased
  <2>4. QED BY <2>1, <2>2, <2>3 DEF Good
<1>5. QED
  BY <1>4 DEF Dispatched, s1, s2, s3

\* What the two sweeps have in common: the assignments that end leave their
\* worker idle, keep nobody else's paths, and no task starts to run.
LEMMA EndedGood ==
  ASSUME NEW alone, NEW s \in RowSet, Good(s, assignee, alone),
         NEW ended \in SUBSET Assignment, NEW r \in RowSet,
         \A a \in Assignment : r.status[a] \in Active => a \notin ended /\ s.status[a] \in Active,
         \A a \in Assignment \ ended : r.status[a] = s.status[a],
         r.worker = Idled(s, ended),
         r.held \subseteq s.held,
         \A a \in s.held \ ended : r.status[a] \in Active => a \in r.held,
         r.lease = s.lease,
         \A t \in Task : r.task[t] = "running" => s.task[t] = "running"
  PROVE  Good(r, assignee, alone)
<1>1. OneActive(r) BY DEF Good, OneActive
<1>2. Apart(r) BY DEF Good, Apart
<1>3. PathsKept(r) BY DEF Good, PathsKept
<1>4. Freed(r, assignee)
  BY DEF Good, Freed, Idled
<1>5. alone => OneLive(r) /\ Leased(r) BY DEF Good, OneLive, Leased
<1>6. QED BY <1>1, <1>2, <1>3, <1>4, <1>5 DEF Good

\* The sweep of the ended tasks is one of them.
LEMMA TerminalReleasedGood ==
  ASSUME NEW alone, NEW s \in RowSet, Good(s, assignee, alone)
  PROVE  Good(TerminalReleased(s), assignee, alone)
<1> DEFINE r == TerminalReleased(s)
           ended == {a \in ActiveOf(s) : s.task[a[1]] \in Terminal}
<1>1. r \in RowSet BY TerminalReleasedType
<1>2. ended \subseteq Assignment BY DEF ActiveOf
<1>3. /\ \A a \in Assignment : r.status[a] \in Active => a \notin ended /\ s.status[a] \in Active
      /\ \A a \in Assignment \ ended : r.status[a] = s.status[a]
      /\ r.worker = Idled(s, ended)
      /\ r.held = {a \in s.held : s.task[a[1]] \notin Terminal}
      /\ r.lease = s.lease /\ r.task = s.task
  BY DEF TerminalReleased, RowSet, ActiveOf, Active
<1>4. \A a \in s.held \ ended : r.status[a] \in Active => a \in r.held
  BY <1>3 DEF ActiveOf, RowSet
<1> HIDE DEF r, ended
<1>5. Good(r, assignee, alone) BY <1>1, <1>2, <1>3, <1>4, EndedGood
<1>6. QED BY <1>5 DEF r

\* The sweep of the overdue assignments is the other.
LEMMA StaleExpiredGood ==
  ASSUME NEW alone, NEW s \in RowSet, Good(s, assignee, alone)
  PROVE  Good(StaleExpired(s), assignee, alone)
<1> DEFINE r == StaleExpired(s)
           ended == ActiveOf(s) \cap lapsed
<1>1. r \in RowSet BY StaleExpiredType
<1>2. ended \subseteq Assignment BY DEF ActiveOf
<1>3. /\ \A a \in Assignment : r.status[a] \in Active => a \notin ended /\ s.status[a] \in Active
      /\ \A a \in Assignment \ ended : r.status[a] = s.status[a]
      /\ r.worker = Idled(s, ended)
      /\ r.held = s.held \ ended
      /\ r.lease = s.lease
      /\ \A t \in Task : r.task[t] = "running" => s.task[t] = "running"
  BY DEF StaleExpired, RowSet, ActiveOf, Active
<1> HIDE DEF r, ended
<1>4. Good(r, assignee, alone) BY <1>1, <1>2, <1>3, EndedGood
<1>5. QED BY <1>4 DEF r

-----------------------------------------------------------------------------
(***************************************************************************)
(* The path policy: it never overlooks an overlap.                         *)
(***************************************************************************)
\* A finite set of numbers has a last one: the one with the fewest behind it.
LEMMA LastNumber ==
  ASSUME NEW H \in SUBSET Nat, IsFiniteSet(H), H # {}
  PROVE  \E t \in H : \A u \in H : u <= t
<1> DEFINE Behind(t) == {u \in H : t < u}
           R == StrictSubsetOrdering(H)
           B == {Behind(t) : t \in H}
<1>1. IsWellFoundedOn(R, SUBSET H)
  BY FS_StrictSubsetOrderingWellFounded, FS_FiniteSubsetsOfFinite
<1>2. B \subseteq SUBSET H /\ B # {} OBVIOUS
<1>3. PICK least \in B : \A other \in B : <<other, least>> \notin R
  <2> HIDE DEF B, R
  <2>1. QED BY <1>1, <1>2, WFMin
<1>4. PICK t \in H : least = Behind(t) BY <1>3
<1>5. ASSUME NEW u \in H, t < u
      PROVE  FALSE
  <2>1. \A x \in H : x \in Nat OBVIOUS
  <2>2. ~ (u < u) /\ \A x \in H : u < x => t < x
    BY <1>5, <2>1
  <2>3. Behind(u) \subseteq Behind(t) /\ u \in Behind(t) /\ u \notin Behind(u)
    BY <1>5, <2>2
  <2>4. <<Behind(u), Behind(t)>> \in R
    BY <2>3 DEF StrictSubsetOrdering
  <2>5. QED BY <1>3, <1>4, <2>4
<1>6. QED BY <1>5

\* The literal prefix is a prefix, and has no wildcard.
LEMMA LiteralPrefixIs ==
  ASSUME NEW p \in Seq(STRING)
  PROVE  \E n \in 0 .. Len(p) :
           /\ LiteralPrefix(p) = SubSeq(p, 1, n)
           /\ \A i \in 1 .. n : p[i] \notin Wild
           /\ \A m \in 0 .. Len(p) : (\A i \in 1 .. m : p[i] \notin Wild) => m <= n
<1> DEFINE literal == {n \in 0 .. Len(p) : \A i \in 1 .. n : p[i] \notin Wild}
           longest == CHOOSE n \in literal : \A m \in literal : m <= n
<1>1. Len(p) \in Nat OBVIOUS
<1>2. 0 \in literal BY <1>1
<1>3. literal \in SUBSET Nat BY <1>1
<1>4. IsFiniteSet(literal)
  <2>1. IsFiniteSet(0 .. Len(p)) BY <1>1, FS_Interval
  <2>2. literal \subseteq 0 .. Len(p) OBVIOUS
  <2> HIDE DEF literal
  <2>3. QED BY <2>1, <2>2, FS_Subset
<1>5. longest \in literal /\ \A m \in literal : m <= longest
  <2> HIDE DEF literal
  <2>1. literal # {} BY <1>2
  <2>2. \E n \in literal : \A m \in literal : m <= n BY <1>3, <1>4, <2>1, LastNumber
  <2>3. QED BY <2>2
<1>6. LiteralPrefix(p) = SubSeq(p, 1, longest) BY DEF LiteralPrefix
<1> HIDE DEF longest
<1>7. QED BY <1>5, <1>6

\* What a pattern covers lies at or below its literal prefix.
LEMMA PrefixAbove ==
  ASSUME NEW p \in Seq(STRING), NEW f \in Seq(STRING), Covers(p, f)
  PROVE  LiteralPrefix(p) \in Seq(STRING) /\ IsAbove(LiteralPrefix(p), f)
<1>1. PICK n \in 0 .. Len(p) : /\ LiteralPrefix(p) = SubSeq(p, 1, n)
                               /\ \A i \in 1 .. n : p[i] \notin Wild
  BY LiteralPrefixIs
<1>2. /\ SubSeq(p, 1, n) \in Seq(STRING) /\ Len(SubSeq(p, 1, n)) = n
      /\ \A i \in 1 .. n : SubSeq(p, 1, n)[i] = p[i]
  OBVIOUS
<1>3. \A i \in 1 .. n : i <= Len(f) /\ f[i] = p[i]
  BY <1>1 DEF Covers
<1>4. n <= Len(f)
  <2>1. CASE n = 0 BY <2>1
  <2>2. CASE n # 0 BY <1>3, <2>2
  <2>3. QED BY <2>1, <2>2
<1>5. QED BY <1>1, <1>2, <1>3, <1>4 DEF IsAbove

\* Of two paths above a third, one is above the other.
LEMMA AboveSame ==
  ASSUME NEW p \in Seq(STRING), NEW q \in Seq(STRING), NEW f \in Seq(STRING),
         IsAbove(p, f), IsAbove(q, f)
  PROVE  ParentChildOverlap(p, q)
<1>1. CASE Len(p) <= Len(q)
  BY <1>1 DEF IsAbove, ParentChildOverlap
<1>2. CASE Len(q) <= Len(p)
  BY <1>2 DEF IsAbove, ParentChildOverlap
<1>3. QED BY <1>1, <1>2

\* Two patterns that could ever cover the same file are found to overlap, whatever
\* their wildcards match: what keeps writers apart does not depend on a library's
\* idea of a wildcard.
THEOREM OverlapIsFound ==
  ASSUME NEW p \in Seq(STRING), NEW q \in Seq(STRING), NEW f \in Seq(STRING),
         Covers(p, f), Covers(q, f)
  PROVE  PatternsOverlap(p, q)
BY PrefixAbove, AboveSame DEF PatternsOverlap

\* Patterns without wildcards overlap only if there can be such a file: the policy
\* holds nobody back in vain.
THEOREM LiteralOverlapIsExact ==
  ASSUME NEW p \in Pattern, NEW q \in Pattern,
         \A i \in 1 .. Len(p) : p[i] \notin Wild,
         \A i \in 1 .. Len(q) : q[i] \notin Wild
  PROVE  PatternsOverlap(p, q) <=> \E f \in Seq(STRING) : Covers(p, f) /\ Covers(q, f)
<1>1. p \in Seq(STRING) /\ q \in Seq(STRING) /\ p # <<>> /\ q # <<>>
  BY DEF Pattern
<1>2. ASSUME NEW r \in Seq(STRING), \A i \in 1 .. Len(r) : r[i] \notin Wild
      PROVE  LiteralPrefix(r) = r /\ Covers(r, r)
  <2>1. PICK n \in 0 .. Len(r) :
          /\ LiteralPrefix(r) = SubSeq(r, 1, n)
          /\ \A m \in 0 .. Len(r) : (\A i \in 1 .. m : r[i] \notin Wild) => m <= n
    BY LiteralPrefixIs
  <2>2. n = Len(r) BY <1>2, <2>1
  <2>3. SubSeq(r, 1, Len(r)) = r OBVIOUS
  <2>4. QED BY <2>1, <2>2, <2>3 DEF Covers
<1>3. PatternsOverlap(p, q) => IsAbove(p, q) \/ IsAbove(q, p)
  BY <1>1, <1>2 DEF PatternsOverlap, ParentChildOverlap
<1>4. ASSUME NEW r \in Seq(STRING), NEW f \in Seq(STRING), IsAbove(r, f)
      PROVE  Covers(r, f)
  BY <1>4 DEF IsAbove, Covers
<1>5. PatternsOverlap(p, q) => \E f \in Seq(STRING) : Covers(p, f) /\ Covers(q, f)
  BY <1>1, <1>2, <1>3, <1>4
<1>6. QED BY <1>1, <1>5, OverlapIsFound

-----------------------------------------------------------------------------
(***************************************************************************)
(* The scheduling loop.                                                    *)
(***************************************************************************)
\* Overlapping is symmetric.
LEMMA ConflictSymmetric ==
  ASSUME NEW t, NEW u
  PROVE  Conflict(t, u) <=> Conflict(u, t)
<1>1. \A p, q : PatternsOverlap(p, q) <=> PatternsOverlap(q, p)
  BY DEF PatternsOverlap, ParentChildOverlap
<1>2. QED BY <1>1 DEF Conflict, Overlapping

\* What a plan grants is free of what is held and of what it grants earlier.
LEMMA PlanPathsFree ==
  ASSUME NEW s, NEW G \in SUBSET Candidate(s), NEW who, NEW max, IsPlan(s, max, G, who)
  PROVE  \A t \in G : PathsFree(s, {g \in G : g < t}, t)
BY DEF IsPlan, Candidate

\* New assignments go to tasks that have none, take paths nobody holds, and
\* belong to the workers they occupy.
LEMMA GrantedGood ==
  ASSUME NEW alone, NEW s \in RowSet, Good(s, assignee, alone),
         NEW G \in SUBSET Candidate(s), NEW who \in [G -> Worker], NEW max,
         IsPlan(s, max, G, who),
         \A t \in G : HasRow(s, t)
  PROVE  Good(Granted(s, G, who),
              [a \in Assignment |->
                 IF a \in {NewRow(s, t) : t \in G} THEN who[a[1]] ELSE assignee[a]], alone)
<1> DEFINE new == {NewRow(s, t) : t \in G}
           r == Granted(s, G, who)
           asg == [a \in Assignment |-> IF a \in new THEN who[a[1]] ELSE assignee[a]]
<1>1. G \subseteq Task BY DEF Candidate
<1>2. \A t \in G : NewRow(s, t) \in Assignment /\ NewRow(s, t)[1] = t
                   /\ s.status[NewRow(s, t)] = "absent"
  BY <1>1, GrantedType
<1>3. /\ \A a \in Assignment : r.status[a] = IF a \in new THEN "assigned" ELSE s.status[a]
      /\ r.held = s.held \cup {a \in new : Reserved(a[1]) # {}}
      /\ \A w \in Worker : r.worker[w] # "idle" =>
           s.worker[w] # "idle" \/ \E t \in G : who[t] = w
      /\ r.lease = s.lease /\ r.task = s.task
  BY DEF Granted, RowSet
<1>4. \A a \in new : /\ a \in Assignment /\ a[1] \in G /\ a = NewRow(s, a[1])
                     /\ s.status[a] = "absent"
  BY <1>2
<1>5. \A a \in Assignment : s.status[a] \in Active => a \notin new
  BY <1>4 DEF Active
<1>6. \A t \in G : NewRow(s, t) \in new
  OBVIOUS
<1> HIDE DEF new, r
<1>7. OneActive(r)
  <2> SUFFICES ASSUME NEW a \in Assignment, NEW b \in Assignment,
                      r.status[a] \in Active, r.status[b] \in Active, a[1] = b[1]
               PROVE  a = b
    BY DEF OneActive
  <2>1. \A c \in Assignment : s.status[c] \in Active => c[1] \notin G
    BY DEF Candidate, ActiveOf
  <2>2. QED
    BY <1>3, <1>4, <2>1 DEF Good, OneActive
<1>8. Apart(r)
  <2> SUFFICES ASSUME NEW a \in r.held, NEW b \in r.held, Conflict(a[1], b[1])
               PROVE  a = b
    BY DEF Apart
  <2>1. \A t \in G : PathsFree(s, {g \in G : g < t}, t)
    BY PlanPathsFree
  <2>2. CASE a \in s.held /\ b \in s.held
    BY <2>2 DEF Good, Apart
  <2>3. CASE a \in s.held /\ b \in new
    BY <2>1, <2>3, <1>4 DEF PathsFree
  <2>4. CASE a \in new /\ b \in s.held
    BY <2>1, <2>4, <1>4, ConflictSymmetric DEF PathsFree
  <2>5. CASE a \in new /\ b \in new
    <3>1. a[1] \in G /\ b[1] \in G /\ a = NewRow(s, a[1]) /\ b = NewRow(s, b[1])
      BY <2>5, <1>4
    <3>2. a[1] \in Nat /\ b[1] \in Nat
      BY <3>1, <1>1, TaskAssumption
    <3>3. ~ (a[1] < b[1])
      BY <2>1, <3>1 DEF PathsFree
    <3>4. ~ (b[1] < a[1])
      BY <2>1, <3>1, ConflictSymmetric DEF PathsFree
    <3>5. a[1] = b[1]
      BY <3>2, <3>3, <3>4
    <3>6. QED BY <3>1, <3>5
  <2>6. QED BY <1>3, <2>2, <2>3, <2>4, <2>5
<1>9. PathsKept(r)
  BY <1>3 DEF Good, PathsKept
<1>10. Freed(r, asg)
  <2> SUFFICES ASSUME NEW w \in Worker, r.worker[w] # "idle"
               PROVE  \E a \in Assignment : r.status[a] \in Active /\ asg[a] = w
    BY DEF Freed
  <2>1. CASE s.worker[w] # "idle"
    <3>1. PICK a \in Assignment : s.status[a] \in Active /\ assignee[a] = w
      BY <2>1 DEF Good, Freed
    <3>2. r.status[a] \in Active /\ asg[a] = w
      BY <1>3, <1>5, <3>1
    <3>3. QED BY <3>2
  <2>2. CASE \E t \in G : who[t] = w
    <3>1. PICK t \in G : who[t] = w
      BY <2>2
    <3>2. /\ NewRow(s, t) \in Assignment /\ r.status[NewRow(s, t)] = "assigned"
          /\ asg[NewRow(s, t)] = w
      BY <1>2, <1>3, <1>6, <3>1
    <3>3. QED BY <3>2 DEF Active
  <2>3. QED BY <1>3, <2>1, <2>2
<1>11. alone => OneLive(r) /\ Leased(r)
  BY <1>3 DEF Good, OneLive, Leased
<1>12. QED
  BY <1>7, <1>8, <1>9, <1>10, <1>11 DEF Good, r, new

-----------------------------------------------------------------------------
(***************************************************************************)
(* The actions.                                                            *)
(***************************************************************************)
\* alone: nobody but the desktops gives out leases.
Sound(alone) == TypeOK /\ Good(Rows, assignee, alone)

Inv == Sound(TRUE)

\* The state after a commit consists of the rows that were committed.
LEMMA CommitRows ==
  ASSUME NEW s \in RowSet, Commit(s)
  PROVE  Rows' = s /\ lapsed' \subseteq Assignment
BY DEF Commit, Rows, RowSet, ActiveOf

\* What has to be shown of an action.
LEMMA InvFromRows ==
  ASSUME NEW alone, Rows' \in RowSet, Good(Rows', assignee', alone),
         lapsed' \subseteq Assignment,
         owner' \in [Task -> Worker \cup {NoWorker}],
         assignee' \in [Assignment -> Worker \cup {NoWorker}]
  PROVE  Sound(alone)'
<1>1. TypeOK' BY DEF TypeOK, Rows, RowSet
<1>2. QED BY <1>1 DEF Sound

\* A transaction that leaves the owners and the workers of assignments alone.
LEMMA CommitInv ==
  ASSUME NEW alone, Sound(alone), NEW s \in RowSet, Good(s, assignee, alone), Commit(s),
         UNCHANGED <<owner, assignee>>
  PROVE  Sound(alone)'
<1>1. Rows' = s /\ lapsed' \subseteq Assignment BY CommitRows
<1>2. owner' = owner /\ assignee' = assignee OBVIOUS
<1>3. Good(Rows', assignee', alone) BY <1>1, <1>2
<1>4. QED BY <1>1, <1>2, <1>3, InvFromRows, RowsType DEF Sound

\* A request that ends with the scheduler.
LEMMA ScheduleFromInv ==
  ASSUME NEW alone, Sound(alone), NEW s0 \in RowSet, Good(s0, assignee, alone),
         NEW max, ScheduleFrom(s0, max)
  PROVE  Sound(alone)'
<1> DEFINE s1 == Dispatched(s0)
           s2 == TerminalReleased(s1)
           s  == StaleExpired(s2)
<1>1. s1 \in RowSet /\ Good(s1, assignee, alone) BY DispatchedType, DispatchedGood
<1> HIDE DEF s1
<1>2. s2 \in RowSet /\ Good(s2, assignee, alone) BY <1>1, TerminalReleasedType, TerminalReleasedGood
<1> HIDE DEF s2
<1>3. s \in RowSet /\ Good(s, assignee, alone) BY <1>2, StaleExpiredType, StaleExpiredGood
<1> HIDE DEF s
<1>4. PICK G \in SUBSET Candidate(s) : \E who \in [G -> Worker] :
        /\ IsPlan(s, max, G, who)
        /\ \A t \in G : HasRow(s, t)
        /\ Commit(Granted(s, G, who))
        /\ assignee' = [a \in Assignment |->
                          IF a \in {NewRow(s, t) : t \in G} THEN who[a[1]] ELSE assignee[a]]
        /\ owner' = [t \in Task |-> IF Staffed /\ t \in G THEN who[t] ELSE owner[t]]
  <2>1. Granting(s, max) BY DEF ScheduleFrom, s, s2, s1
  <2>2. QED BY <2>1 DEF Granting
<1>5. PICK who \in [G -> Worker] :
        /\ IsPlan(s, max, G, who)
        /\ \A t \in G : HasRow(s, t)
        /\ Commit(Granted(s, G, who))
        /\ assignee' = [a \in Assignment |->
                          IF a \in {NewRow(s, t) : t \in G} THEN who[a[1]] ELSE assignee[a]]
        /\ owner' = [t \in Task |-> IF Staffed /\ t \in G THEN who[t] ELSE owner[t]]
  BY <1>4
<1>6. G \in SUBSET Task BY DEF Candidate
<1>7. /\ Granted(s, G, who) \in RowSet
      /\ \A t \in G : NewRow(s, t) \in Assignment /\ NewRow(s, t)[1] = t
  BY <1>3, <1>5, <1>6, GrantedType
<1>8. Good(Granted(s, G, who), assignee', alone)
  BY <1>3, <1>5, GrantedGood
<1>9. Rows' = Granted(s, G, who) /\ lapsed' \subseteq Assignment
  BY <1>5, <1>7, CommitRows
<1>10. owner' \in [Task -> Worker \cup {NoWorker}]
  BY <1>5 DEF Sound, TypeOK
<1>11. assignee' \in [Assignment -> Worker \cup {NoWorker}]
  <2>1. \A a \in Assignment : a \in {NewRow(s, t) : t \in G} => a[1] \in G
    BY <1>7
  <2>2. QED BY <1>5, <2>1 DEF Sound, TypeOK
<1>12. QED BY <1>7, <1>8, <1>9, <1>10, <1>11, InvFromRows

\* An assignment that ends, by whatever handler, and its task.
EndedWith(a, st, v) == [Ended(a, st) EXCEPT !.task[a[1]] = v]

\* It frees its worker and its paths.
LEMMA EndedType ==
  ASSUME TypeOK, NEW a \in Assignment, NEW st \in {"released", "completed", "failed"},
         NEW v \in TaskStatus
  PROVE  /\ EndedWith(a, st, v) \in RowSet
         /\ EndedWith(a, st, v).worker = Idled(Rows, {a})
<1> DEFINE r == [Ended(a, st) EXCEPT !.task[a[1]] = v]
<1>1. Rows \in RowSet /\ worker \in [Worker -> WorkerStatus]
  BY RowsType DEF TypeOK
<1>2. r.worker = [worker EXCEPT ![assignee[a]] = "idle"]
  BY <1>1 DEF Ended, RowSet, Rows
<1>3. r \in RowSet
  <2>1. [status EXCEPT ![a] = st] \in [Assignment -> AssignmentStatus]
    BY DEF TypeOK, AssignmentStatus
  <2>2. [worker EXCEPT ![assignee[a]] = "idle"] \in [Worker -> WorkerStatus]
    BY DEF TypeOK, WorkerStatus
  <2>3. [task EXCEPT ![a[1]] = v] \in [Task -> TaskStatus]
    BY DEF TypeOK
  <2>4. held \ {a} \in SUBSET Assignment
    BY DEF TypeOK
  <2>5. Ended(a, st) = [Rows EXCEPT !.status = [status EXCEPT ![a] = st],
                                   !.worker = [worker EXCEPT ![assignee[a]] = "idle"],
                                   !.held = held \ {a}]
    BY DEF Ended, Rows
  <2>6. QED BY <1>1, <2>1, <2>2, <2>3, <2>4, <2>5 DEF RowSet, Rows
<1>4. r.worker = Idled(Rows, {a})
  <2>1. Idled(Rows, {a}) = [w \in Worker |-> IF assignee[a] = w THEN "idle" ELSE worker[w]]
    BY DEF Idled, Rows
  <2>2. [worker EXCEPT ![assignee[a]] = "idle"]
          = [w \in Worker |-> IF assignee[a] = w THEN "idle" ELSE worker[w]]
    BY <1>1
  <2>3. QED BY <1>2, <2>1, <2>2
<1>5. QED BY <1>3, <1>4 DEF EndedWith

\* Rows stay good if the task does not start to run.
LEMMA EndedRows ==
  ASSUME NEW alone, Sound(alone), NEW a \in Assignment,
         NEW st \in {"released", "completed", "failed"},
         NEW v \in TaskStatus, v = "running" => task[a[1]] = "running"
  PROVE  EndedWith(a, st, v) \in RowSet /\ Good(EndedWith(a, st, v), assignee, alone)
<1> DEFINE r == EndedWith(a, st, v)
<1>1. TypeOK /\ Rows \in RowSet /\ Good(Rows, assignee, alone) BY RowsType DEF Sound
<1>2. /\ r \in RowSet
      /\ r.task = [task EXCEPT ![a[1]] = v]
      /\ r.status = [status EXCEPT ![a] = st]
      /\ r.held = held \ {a}
      /\ r.worker = Idled(Rows, {a})
      /\ r.lease = lease
  <2>1. TypeOK BY <1>1
  <2>2. r \in RowSet /\ r.worker = Idled(Rows, {a}) BY <2>1, EndedType
  <2>3. /\ r.task = [task EXCEPT ![a[1]] = v]
        /\ r.status = [status EXCEPT ![a] = st]
        /\ r.held = held \ {a}
        /\ r.lease = lease
    BY <1>1 DEF EndedWith, Ended, Rows, RowSet
  <2>4. QED BY <2>2, <2>3
<1>3. /\ Rows.task = task /\ Rows.status = status /\ Rows.held = held /\ Rows.lease = lease
  BY DEF Rows
<1> HIDE DEF r
<1>4. /\ \A b \in Assignment : r.status[b] \in Active => b \notin {a} /\ Rows.status[b] \in Active
      /\ \A b \in Assignment \ {a} : r.status[b] = Rows.status[b]
      /\ r.held \subseteq Rows.held
      /\ \A b \in Rows.held \ {a} : r.status[b] \in Active => b \in r.held
      /\ r.lease = Rows.lease
      /\ \A t \in Task : r.task[t] = "running" => Rows.task[t] = "running"
  BY <1>1, <1>2, <1>3 DEF TypeOK, Active
<1>5. Good(r, assignee, alone) BY <1>1, <1>2, <1>4, EndedGood
<1>6. QED BY <1>2, <1>5 DEF r

\* The dispatcher, the scheduler and the endpoints that end with one of them.
LEMMA SchedulingInv ==
  ASSUME NEW alone, Sound(alone), Dispatch \/ Schedule \/ GetState
  PROVE  Sound(alone)'
<1>1. Rows \in RowSet /\ Good(Rows, assignee, alone) BY RowsType DEF Sound
<1>2. CASE Dispatch
  BY <1>1, <1>2, DispatchedType, DispatchedGood, CommitInv DEF Dispatch
<1>3. CASE Schedule
  BY <1>1, <1>3, ScheduleFromInv DEF Schedule
<1>4. CASE GetState
  BY <1>1, <1>4, ScheduleFromInv DEF GetState
<1>5. QED BY <1>2, <1>3, <1>4

\* Accepting in time keeps the assignment active and its worker occupied.
LEMMA AcceptInv ==
  ASSUME NEW alone, Sound(alone), NEW a \in Assignment, Accept(a)
  PROVE  Sound(alone)'
<1> DEFINE r == [Rows EXCEPT !.status[a] = "accepted", !.worker[assignee[a]] = "busy"]
<1>1. Rows \in RowSet /\ Good(Rows, assignee, alone) BY RowsType DEF Sound
<1>2. /\ r.status = [Rows.status EXCEPT ![a] = "accepted"]
      /\ r.worker = [Rows.worker EXCEPT ![assignee[a]] = "busy"]
      /\ r.held = Rows.held /\ r.lease = Rows.lease /\ r.task = Rows.task
  BY <1>1 DEF RowSet
<1>3. r \in RowSet
  <2>1. [Rows.status EXCEPT ![a] = "accepted"] \in [Assignment -> AssignmentStatus]
    BY <1>1 DEF RowSet, AssignmentStatus
  <2>2. [Rows.worker EXCEPT ![assignee[a]] = "busy"] \in [Worker -> WorkerStatus]
    BY <1>1 DEF RowSet, WorkerStatus
  <2>3. QED BY <1>1, <2>1, <2>2 DEF RowSet
<1>4. Rows.status[a] \in Active BY DEF Accept, Rows, Active
<1>5. Commit(r) /\ UNCHANGED <<owner, assignee>> BY DEF Accept
<1> HIDE DEF r
<1>6. \A b \in Assignment : r.status[b] \in Active <=> Rows.status[b] \in Active
  BY <1>1, <1>2, <1>4 DEF RowSet, Active
<1>7. OneActive(r) /\ Apart(r) /\ PathsKept(r) /\ (alone => OneLive(r) /\ Leased(r))
  BY <1>1, <1>2, <1>6 DEF Good, OneActive, Apart, PathsKept, OneLive, Leased
<1>8. Freed(r, assignee)
  BY <1>1, <1>2, <1>4, <1>6 DEF Good, Freed, RowSet
<1>9. QED BY <1>3, <1>5, <1>7, <1>8, CommitInv DEF Good

\* Accepting late ends the assignment as the sweeps do, but keeps its paths.
LEMMA AcceptLateInv ==
  ASSUME NEW alone, Sound(alone), NEW a \in Assignment, AcceptLate(a)
  PROVE  Sound(alone)'
<1> DEFINE r == [Rows EXCEPT !.status[a] = "expired", !.worker[assignee[a]] = "idle"]
<1>1. Rows \in RowSet /\ Good(Rows, assignee, alone) BY RowsType DEF Sound
<1>2. /\ r.status = [Rows.status EXCEPT ![a] = "expired"]
      /\ r.worker = [Rows.worker EXCEPT ![assignee[a]] = "idle"]
      /\ r.held = Rows.held /\ r.lease = Rows.lease /\ r.task = Rows.task
  BY <1>1 DEF RowSet
<1>3. r \in RowSet
  <2>1. [Rows.status EXCEPT ![a] = "expired"] \in [Assignment -> AssignmentStatus]
    BY <1>1 DEF RowSet, AssignmentStatus
  <2>2. [Rows.worker EXCEPT ![assignee[a]] = "idle"] \in [Worker -> WorkerStatus]
    BY <1>1 DEF RowSet, WorkerStatus
  <2>3. QED BY <1>1, <2>1, <2>2 DEF RowSet
<1>4. r.worker = Idled(Rows, {a})
  <2>1. Idled(Rows, {a})
          = [w \in Worker |-> IF assignee[a] = w THEN "idle" ELSE Rows.worker[w]]
    BY DEF Idled
  <2>2. [Rows.worker EXCEPT ![assignee[a]] = "idle"]
          = [w \in Worker |-> IF assignee[a] = w THEN "idle" ELSE Rows.worker[w]]
    BY <1>1 DEF RowSet
  <2>3. QED BY <1>2, <2>1, <2>2
<1>5. Commit(r) /\ UNCHANGED <<owner, assignee>> BY DEF AcceptLate
<1> HIDE DEF r
<1>6. /\ \A b \in Assignment : r.status[b] \in Active => b \notin {a} /\ Rows.status[b] \in Active
      /\ \A b \in Assignment \ {a} : r.status[b] = Rows.status[b]
  BY <1>1, <1>2 DEF RowSet, Active
<1>7. Good(r, assignee, alone)
  BY <1>1, <1>2, <1>3, <1>4, <1>6, EndedGood
<1>8. QED BY <1>3, <1>5, <1>7, CommitInv

\* Releasing, completing or failing an assignment.
LEMMA ReportInv ==
  ASSUME NEW alone, Sound(alone), NEW a \in Assignment,
         \/ \E st \in {"released", "completed", "failed"} : Release(a, st)
         \/ CompleteAssignment(a)
         \/ \E retryable \in BOOLEAN : FailAssignment(a, retryable)
  PROVE  Sound(alone)'
<1>1. a[1] \in Task BY DEF Assignment
<1>2. Rows \in RowSet BY RowsType DEF Sound
<1>3. task[a[1]] \in TaskStatus BY <1>1 DEF Sound, TypeOK
<1>4. ASSUME NEW st \in {"released", "completed", "failed"}, Release(a, st)
      PROVE  Sound(alone)'
  <2>1. Ended(a, st) = [Ended(a, st) EXCEPT !.task[a[1]] = task[a[1]]]
    <3>1. Ended(a, st).task = Rows.task /\ Rows.task = task BY <1>2 DEF Ended, Rows
    <3>2. QED BY <1>1, <1>2, <3>1 DEF Ended, RowSet
  <2>2. Ended(a, st) \in RowSet /\ Good(Ended(a, st), assignee, alone)
    BY <1>3, <2>1, EndedRows DEF EndedWith
  <2>3. QED BY <1>4, <2>2, CommitInv DEF Release
<1>5. CASE CompleteAssignment(a)
  <2> DEFINE v == IF task[a[1]] = "running" THEN "completed" ELSE task[a[1]]
             r == [Ended(a, "completed") EXCEPT !.task[a[1]] = v]
  <2>1. v \in TaskStatus /\ (v = "running" => task[a[1]] = "running")
    BY <1>3 DEF TaskStatus
  <2>2. r \in RowSet /\ Good(r, assignee, alone)
    <3> HIDE DEF v
    <3>1. QED BY <2>1, EndedRows DEF EndedWith
  <2>3. ScheduleFrom(r, 4)
    <3>1. Ended(a, "completed").task = task BY <1>2 DEF Ended, Rows
    <3>2. [Ended(a, "completed") EXCEPT
             !.task[a[1]] = IF @ = "running" THEN "completed" ELSE @] = r
      BY <3>1
    <3>3. QED BY <1>5, <3>2 DEF CompleteAssignment
  <2> HIDE DEF r
  <2>4. QED BY <2>2, <2>3, ScheduleFromInv
<1>6. ASSUME NEW retryable \in BOOLEAN, FailAssignment(a, retryable)
      PROVE  Sound(alone)'
  <2> DEFINE v == IF retryable THEN "ready" ELSE "failed"
             r == [Ended(a, "failed") EXCEPT !.task[a[1]] = v]
  <2>1. v \in TaskStatus /\ v # "running" BY DEF TaskStatus
  <2>2. r \in RowSet /\ Good(r, assignee, alone)
    <3> HIDE DEF v
    <3>1. QED BY <2>1, EndedRows DEF EndedWith
  <2>3. ScheduleFrom(r, 4) BY <1>6 DEF FailAssignment
  <2> HIDE DEF r
  <2>4. QED BY <2>2, <2>3, ScheduleFromInv
<1>7. QED BY <1>4, <1>5, <1>6

\* A claim makes a task run under the one lease that is live.
LEMMA ClaimInv ==
  ASSUME NEW alone, Sound(alone), NEW l \in Lease, Claim(l)
  PROVE  Sound(alone)'
<1> DEFINE r == [Rows EXCEPT !.lease[l] = "live", !.task[l[1]] = "running",
                             !.mission = "running"]
<1>1. Rows \in RowSet /\ Good(Rows, assignee, alone) BY RowsType DEF Sound
<1>2. l[1] \in Task BY DEF Lease
<1>3. /\ r.status = Rows.status /\ r.held = Rows.held /\ r.worker = Rows.worker
      /\ r.lease = [Rows.lease EXCEPT ![l] = "live"]
      /\ r.task = [Rows.task EXCEPT ![l[1]] = "running"]
  BY <1>1 DEF RowSet
<1>4. r \in RowSet
  <2>1. [Rows.lease EXCEPT ![l] = "live"] \in [Lease -> LeaseStatus]
    BY <1>1 DEF RowSet, LeaseStatus
  <2>2. [Rows.task EXCEPT ![l[1]] = "running"] \in [Task -> TaskStatus]
    BY <1>1 DEF RowSet, TaskStatus
  <2>3. QED BY <1>1, <2>1, <2>2 DEF RowSet, MissionStatus, ExecutionStatus, PreparationStatus
<1>5. Commit(r) /\ UNCHANGED <<owner, assignee>> BY DEF Claim
<1>6. \A m \in Lease : m[1] = l[1] => Rows.lease[m] # "live"
  BY DEF Claim, Rows
<1>7. Rows.lease[l] = "absent"
  BY DEF Claim, Rows
<1> HIDE DEF r
<1>8. OneActive(r) /\ Apart(r) /\ PathsKept(r) /\ Freed(r, assignee)
  BY <1>1, <1>3 DEF Good, OneActive, Apart, PathsKept, Freed
<1>9. alone => OneLive(r)
  BY <1>1, <1>3, <1>6 DEF Good, OneLive, RowSet
<1>10. alone => Leased(r)
  <2> SUFFICES ASSUME alone, NEW t \in Task, r.task[t] = "running"
               PROVE  \E m \in Lease : m[1] = t /\ r.lease[m] \in {"live", "lapsed"}
    BY DEF Leased
  <2>1. CASE t = l[1]
    BY <1>1, <1>3, <2>1 DEF RowSet
  <2>2. CASE t # l[1]
    <3>1. Rows.task[t] = "running" BY <1>1, <1>3, <2>2 DEF RowSet
    <3>2. PICK m \in Lease : m[1] = t /\ Rows.lease[m] \in {"live", "lapsed"}
      BY <1>1, <3>1 DEF Good, Leased
    <3>3. r.lease[m] = Rows.lease[m] BY <1>1, <1>3, <2>2, <3>2 DEF RowSet
    <3>4. QED BY <3>2, <3>3
  <2>3. QED BY <2>1, <2>2
<1>11. QED BY <1>4, <1>5, <1>8, <1>9, <1>10, CommitInv DEF Good

\* A result ends the task and its lease before the dispatcher runs.
LEMMA CompleteTaskInv ==
  ASSUME NEW alone, Sound(alone), NEW l \in Lease, NEW result \in {"completed", "failed"},
         CompleteTask(l, result)
  PROVE  Sound(alone)'
<1> DEFINE r == [Rows EXCEPT !.task[l[1]] = result, !.lease[l] = "released"]
<1>1. Rows \in RowSet /\ Good(Rows, assignee, alone) BY RowsType DEF Sound
<1>2. l[1] \in Task BY DEF Lease
<1>3. /\ r.status = Rows.status /\ r.held = Rows.held /\ r.worker = Rows.worker
      /\ r.lease = [Rows.lease EXCEPT ![l] = "released"]
      /\ r.task = [Rows.task EXCEPT ![l[1]] = result]
  BY <1>1 DEF RowSet
<1>4. r \in RowSet
  <2>1. [Rows.lease EXCEPT ![l] = "released"] \in [Lease -> LeaseStatus]
    BY <1>1 DEF RowSet, LeaseStatus
  <2>2. [Rows.task EXCEPT ![l[1]] = result] \in [Task -> TaskStatus]
    BY <1>1 DEF RowSet, TaskStatus
  <2>3. QED BY <1>1, <2>1, <2>2 DEF RowSet
<1>5. Commit(Dispatched(r)) /\ UNCHANGED <<owner, assignee>> BY DEF CompleteTask
<1> HIDE DEF r
<1>6. OneActive(r) /\ Apart(r) /\ PathsKept(r) /\ Freed(r, assignee)
  BY <1>1, <1>3 DEF Good, OneActive, Apart, PathsKept, Freed
<1>7. alone => OneLive(r)
  BY <1>1, <1>3 DEF Good, OneLive, RowSet
<1>8. alone => Leased(r)
  <2> SUFFICES ASSUME alone, NEW t \in Task, r.task[t] = "running"
               PROVE  \E m \in Lease : m[1] = t /\ r.lease[m] \in {"live", "lapsed"}
    BY DEF Leased
  <2>1. t # l[1] /\ Rows.task[t] = "running" BY <1>1, <1>2, <1>3 DEF RowSet
  <2>2. PICK m \in Lease : m[1] = t /\ Rows.lease[m] \in {"live", "lapsed"}
    BY <1>1, <2>1 DEF Good, Leased
  <2>3. r.lease[m] = Rows.lease[m] BY <1>1, <1>3, <2>1, <2>2 DEF RowSet
  <2>4. QED BY <2>2, <2>3
<1>9. Good(r, assignee, alone) BY <1>6, <1>7, <1>8 DEF Good
<1>10. Dispatched(r) \in RowSet /\ Good(Dispatched(r), assignee, alone)
  BY <1>4, <1>9, DispatchedType, DispatchedGood
<1>11. QED BY <1>5, <1>10, CommitInv

\* Nothing but these variables matters to the part about rows.
LEMMA GoodUnchanged ==
  ASSUME NEW alone, Good(Rows, assignee, alone),
         UNCHANGED <<task, status, assignee, held, worker, lease>>
  PROVE  Good(Rows, assignee, alone)'
<1> USE DEF Good, Rows
<1>1. (OneActive(Rows) /\ Apart(Rows) /\ PathsKept(Rows))'
  BY DEF OneActive, Apart, PathsKept
<1>2. Freed(Rows, assignee)' BY DEF Freed
<1>3. alone => (OneLive(Rows) /\ Leased(Rows))' BY DEF OneLive, Leased
<1>4. QED BY <1>1, <1>2, <1>3

\* The operator's commands and the passing of time.
LEMMA OtherInv ==
  ASSUME NEW alone, Sound(alone),
         \/ \E t \in Task : Retry(t) \/ Skip(t)
         \/ \E command \in Commands : TransitionMission(command)
         \/ \E a \in Assignment : Heartbeat(a) \/ LapseAssignment(a)
         \/ \E l \in Lease : LapseLease(l)
  PROVE  Sound(alone)'
<1>1. ASSUME NEW t \in Task, Retry(t) \/ Skip(t)
      PROVE  Sound(alone)'
  <2> USE DEF Sound, TypeOK, Good, Rows
  <2>1. TypeOK' BY <1>1 DEF Retry, Skip, TaskStatus
  <2>2. (OneActive(Rows) /\ Apart(Rows) /\ PathsKept(Rows) /\ Freed(Rows, assignee)
          /\ (alone => OneLive(Rows)))'
    BY <1>1 DEF Retry, Skip, OneActive, Apart, PathsKept, Freed, OneLive
  <2>3. alone => Leased(Rows)' BY <1>1 DEF Retry, Skip, Leased
  <2>4. QED BY <2>1, <2>2, <2>3
<1>2. ASSUME NEW command \in Commands, TransitionMission(command)
      PROVE  Sound(alone)'
  <2>1. Transition[command].to \in MissionStatus
    BY BoundAssumption DEF Transition, MissionStatus, ExecutionStatus, PreparationStatus
  <2>2. TypeOK' BY <1>2, <2>1 DEF TransitionMission, Sound, TypeOK
  <2>3. Good(Rows, assignee, alone)'
    BY <1>2, GoodUnchanged DEF TransitionMission, Sound
  <2>4. QED BY <2>2, <2>3 DEF Sound
<1>3. ASSUME NEW a \in Assignment, Heartbeat(a) \/ LapseAssignment(a)
      PROVE  Sound(alone)'
  <2>1. TypeOK' BY <1>3 DEF Heartbeat, LapseAssignment, Sound, TypeOK
  <2>2. Good(Rows, assignee, alone)'
    BY <1>3, GoodUnchanged DEF Heartbeat, LapseAssignment, Sound
  <2>3. QED BY <2>1, <2>2 DEF Sound
<1>4. ASSUME NEW l \in Lease, LapseLease(l)
      PROVE  Sound(alone)'
  <2> USE DEF Sound, TypeOK, Good, Rows
  <2>1. TypeOK' BY <1>4 DEF LapseLease, LeaseStatus
  <2>2. (OneActive(Rows) /\ Apart(Rows) /\ PathsKept(Rows) /\ Freed(Rows, assignee))'
    BY <1>4 DEF LapseLease, OneActive, Apart, PathsKept, Freed
  <2>3. alone => OneLive(Rows)' BY <1>4 DEF LapseLease, OneLive
  <2>4. alone => Leased(Rows)' BY <1>4 DEF LapseLease, Leased
  <2>5. QED BY <2>1, <2>2, <2>3, <2>4
<1>5. QED BY <1>1, <1>2, <1>3, <1>4

-----------------------------------------------------------------------------
(***************************************************************************)
(* The theorems.                                                           *)
(***************************************************************************)
\* The invariant holds of a mission whose plan was just approved.
LEMMA InitInv == Init => Inv
<1> SUFFICES ASSUME Init PROVE Inv OBVIOUS
<1>1. TypeOK
  BY WorkerAssumption
  DEF Init, TypeOK, MissionStatus, ExecutionStatus, PreparationStatus,
      TaskStatus, AssignmentStatus, WorkerStatus, LeaseStatus
<1>2. Good(Rows, assignee, TRUE)
  BY DEF Init, Rows, Good, OneActive, Apart, PathsKept, Freed, OneLive, Leased, Active
<1>3. QED BY <1>1, <1>2 DEF Inv, Sound

\* Every step keeps what is sound.
LEMMA NextSound ==
  ASSUME NEW alone, Sound(alone), [Next]_vars
  PROVE  Sound(alone)'
<1>1. CASE UNCHANGED vars
  BY <1>1, GoodUnchanged DEF vars, Sound, TypeOK
<1>2. CASE Dispatch \/ Schedule \/ GetState
  BY <1>2, SchedulingInv
<1>3. ASSUME NEW a \in Assignment,
             \/ Accept(a)
             \/ AcceptLate(a)
             \/ Heartbeat(a)
             \/ \E st \in {"released", "completed", "failed"} : Release(a, st)
             \/ CompleteAssignment(a)
             \/ \E retryable \in BOOLEAN : FailAssignment(a, retryable)
             \/ LapseAssignment(a)
      PROVE  Sound(alone)'
  BY <1>3, AcceptInv, AcceptLateInv, ReportInv, OtherInv
<1>4. ASSUME NEW l \in Lease,
             \/ Claim(l)
             \/ \E result \in {"completed", "failed"} : CompleteTask(l, result)
             \/ LapseLease(l)
      PROVE  Sound(alone)'
  BY <1>4, ClaimInv, CompleteTaskInv, OtherInv
<1>5. ASSUME NEW t \in Task, Retry(t) \/ Skip(t)
      PROVE  Sound(alone)'
  BY <1>5, OtherInv
<1>6. ASSUME NEW command \in Commands, TransitionMission(command)
      PROVE  Sound(alone)'
  BY <1>6, OtherInv
<1>7. QED BY <1>1, <1>2, <1>3, <1>4, <1>5, <1>6 DEF Next

\* Every step keeps the invariant.
LEMMA NextInv == Inv /\ [Next]_vars => Inv'
BY NextSound DEF Inv

\* The invariant holds throughout.
THEOREM Invariance == Spec => []Inv
BY InitInv, NextInv, PTL DEF Spec

\* Every variable keeps its type, in every mission.
THEOREM TypeCorrect == Spec => []TypeOK
<1>1. Inv => TypeOK BY DEF Inv, Sound
<1>2. QED BY <1>1, Invariance, PTL

\* No task is ever assigned twice at a time, for any number of tasks, workers
\* and assignments and any limits.
THEOREM AssignmentsUnique == Spec => []OneActiveAssignment
<1>1. Inv => OneActiveAssignment BY DEF Inv, Sound, Good, OneActive, Rows, OneActiveAssignment
<1>2. QED BY <1>1, Invariance, PTL

\* Reservations of tasks that do not conflict share no file.
LEMMA ApartDisjoint ==
  ASSUME TypeOK, Apart(Rows)
  PROVE  ReservationsDisjoint
<1> SUFFICES ASSUME NEW a \in held, NEW b \in held, NEW f \in File,
                    NEW p \in Reserved(a[1]), Covers(p, f),
                    NEW q \in Reserved(b[1]), Covers(q, f)
             PROVE  a = b
  BY DEF ReservationsDisjoint
<1>1. a[1] \in Task /\ b[1] \in Task BY DEF TypeOK, Assignment
<1>2. p \in Seq(STRING) /\ q \in Seq(STRING) /\ f \in Seq(STRING)
  BY <1>1, PathsAssumption, FileAssumption DEF Reserved, Pattern
<1>3. PatternsOverlap(p, q) BY <1>2, OverlapIsFound
<1>4. Conflict(a[1], b[1]) BY <1>1, <1>3 DEF Conflict, Overlapping
<1>5. QED BY <1>4 DEF Apart, Rows

\* No file lies within two active reservations, for all patterns, wildcards and
\* limits.
THEOREM ReservationsNeverOverlap == Spec => []ReservationsDisjoint
<1>1. Inv => ReservationsDisjoint BY ApartDisjoint DEF Inv, Sound, Good
<1>2. QED BY <1>1, Invariance, PTL

\* An active assignment holds its paths until it ends.
THEOREM WritersKeepPaths == Spec => []WritersHoldPaths
<1>1. Inv => WritersHoldPaths BY DEF Inv, Sound, Good, PathsKept, Rows, WritersHoldPaths
<1>2. QED BY <1>1, Invariance, PTL

\* An occupied worker always has the active assignment that will free it.
THEOREM NoWorkerIsLost == Spec => []NoWorkerLeak
<1>1. Inv => NoWorkerLeak BY DEF Inv, Sound, Good, Freed, Rows, NoWorkerLeak
<1>2. QED BY <1>1, Invariance, PTL

\* Desktop sessions never hold two live leases of a task.
THEOREM LiveLeaseUnique == Spec => []OneLiveLease
<1>1. Inv => OneLiveLease BY DEF Inv, Sound, Good, OneLive, Rows, OneLiveLease
<1>2. QED BY <1>1, Invariance, PTL

\* A running task always has a lease that will complete it or expire.
THEOREM RunningIsLeased == Spec => []RunningHasLease
<1>1. Inv => RunningHasLease BY DEF Inv, Sound, Good, Leased, Rows, RunningHasLease
<1>2. QED BY <1>1, Invariance, PTL

-----------------------------------------------------------------------------
(***************************************************************************)
(* Workers and limits.  They are used up by the assignments that are       *)
(* active, so the argument is about those: every pass only ends some, and  *)
(* the loop counts what it grants.                                         *)
(***************************************************************************)
\* No two active assignments are one worker's, who is not idle.
Serial(s, asg) ==
  \A a \in ActiveOf(s) :
    /\ asg[a] \in Worker /\ s.worker[asg[a]] # "idle"
    /\ \A b \in ActiveOf(s) : asg[a] = asg[b] => a = b

ActiveIn(s, T) == {a \in ActiveOf(s) : a[1] \in T}
OfClass(c) == {t \in Task : Class[t] = c}

Within(s) ==
  /\ Cardinality(ActiveIn(s, Task)) <= Limit["total"]
  /\ \A c \in ExecutionClass : Cardinality(ActiveIn(s, OfClass(c))) <= Limit[c]

\* Who has an assignment that writes may implement.
Able(s, asg) ==
  \A a \in ActiveOf(s) : Class[a[1]] = "write_sensitive" => asg[a] \in CanImplement

\* Workers are serial where clients release only what is active: a late release
\* makes a worker idle who may have gone on to another task.  They are able where
\* tasks have no owners.
Engaged(s, asg) ==
  (LateRelease \/ Serial(s, asg)) /\ (Staffed \/ Able(s, asg)) /\ Within(s)

\* Without an organization no task gets an owner.
Unowned == Staffed \/ \A t \in Task : owner[t] = NoWorker

\* There are finitely many assignments.
LEMMA ActiveFinite ==
  ASSUME NEW s, NEW T
  PROVE  IsFiniteSet(ActiveIn(s, T)) /\ Cardinality(ActiveIn(s, T)) \in Nat
<1>1. IsFiniteSet(1 .. MaxAttempt)
  BY BoundAssumption, FS_Interval
<1>2. IsFiniteSet(Assignment)
  BY <1>1, TaskAssumption, FS_Product DEF Assignment
<1>3. ActiveIn(s, T) \in SUBSET Assignment BY DEF ActiveIn, ActiveOf
<1>4. IsFiniteSet(ActiveIn(s, T)) BY <1>2, <1>3, FS_Subset
<1>5. QED BY <1>4, FS_CardinalityType

\* Fewer active assignments are within the limits, too.
LEMMA FewerWithin ==
  ASSUME NEW s, NEW r, Within(s), ActiveOf(r) \subseteq ActiveOf(s)
  PROVE  Within(r)
<1>1. ASSUME NEW T
      PROVE  /\ Cardinality(ActiveIn(r, T)) <= Cardinality(ActiveIn(s, T))
             /\ Cardinality(ActiveIn(r, T)) \in Nat /\ Cardinality(ActiveIn(s, T)) \in Nat
  <2>1. ActiveIn(r, T) \in SUBSET ActiveIn(s, T) BY DEF ActiveIn
  <2>2. QED BY <2>1, ActiveFinite, FS_Subset
<1>2. Limit["total"] \in Nat /\ \A c \in ExecutionClass : Limit[c] \in Nat
  BY LimitAssumption
<1>3. Cardinality(ActiveIn(r, Task)) <= Limit["total"]
  BY <1>1, <1>2 DEF Within
<1>4. ASSUME NEW c \in ExecutionClass
      PROVE  Cardinality(ActiveIn(r, OfClass(c))) <= Limit[c]
  <2>1. Cardinality(ActiveIn(s, OfClass(c))) <= Limit[c] BY DEF Within
  <2>2. QED BY <1>1, <1>2, <2>1
<1>5. QED BY <1>3, <1>4 DEF Within

\* Ending assignments makes their workers idle and nobody else's.
LEMMA EndedEngaged ==
  ASSUME NEW s, Engaged(s, assignee), NEW r, NEW ended,
         ActiveOf(r) \subseteq ActiveOf(s) \ ended,
         LateRelease \/ ended \subseteq ActiveOf(s),
         r.worker = Idled(s, ended)
  PROVE  Engaged(r, assignee)
<1>1. ASSUME Serial(s, assignee), ended \subseteq ActiveOf(s)
      PROVE  Serial(r, assignee)
  <2> SUFFICES ASSUME NEW a \in ActiveOf(r)
               PROVE  /\ assignee[a] \in Worker /\ r.worker[assignee[a]] # "idle"
                      /\ \A b \in ActiveOf(r) : assignee[a] = assignee[b] => a = b
    BY DEF Serial
  <2>1. a \in ActiveOf(s) /\ a \notin ended OBVIOUS
  <2>2. ~ \E b \in ended : assignee[b] = assignee[a]
    BY <1>1, <2>1 DEF Serial
  <2>3. assignee[a] \in Worker /\ s.worker[assignee[a]] # "idle"
    BY <1>1, <2>1 DEF Serial
  <2>4. r.worker[assignee[a]] = s.worker[assignee[a]]
    BY <2>2, <2>3 DEF Idled
  <2>5. QED BY <1>1, <2>1, <2>3, <2>4 DEF Serial
<1>2. Within(r) BY FewerWithin DEF Engaged
<1>3. Able(s, assignee) => Able(r, assignee) BY DEF Able
<1>4. QED BY <1>1, <1>2, <1>3 DEF Engaged

\* The passes end assignments or leave them alone.
LEMMA PassesEngaged ==
  ASSUME NEW s \in RowSet, Engaged(s, assignee)
  PROVE  /\ Engaged(Dispatched(s), assignee)
         /\ Engaged(TerminalReleased(s), assignee)
         /\ Engaged(StaleExpired(s), assignee)
<1>1. Engaged(Dispatched(s), assignee)
  <2> DEFINE s1 == LeasesExpired(s)
             s2 == DependenciesReleased(s1)
             s3 == MissionUpdated(s2)
  <2>1. s1.status = s.status /\ s1.worker = s.worker /\ s1 \in RowSet
    BY DEF LeasesExpired, RowSet, TaskStatus, LeaseStatus
  <2> HIDE DEF s1
  <2>2. s2.status = s1.status /\ s2.worker = s1.worker /\ s2 \in RowSet
    BY <2>1 DEF DependenciesReleased, RowSet, TaskStatus
  <2> HIDE DEF s2
  <2>3. s3.status = s2.status /\ s3.worker = s2.worker
    BY <2>2 DEF MissionUpdated, RowSet
  <2> HIDE DEF s3
  <2>4. ActiveOf(s3) = ActiveOf(s) BY <2>1, <2>2, <2>3 DEF ActiveOf
  <2>5. Within(s3) BY <2>4, FewerWithin DEF Engaged
  <2>6. Engaged(s3, assignee) BY <2>1, <2>2, <2>3, <2>4, <2>5 DEF Engaged, Serial, Able
  <2>7. QED BY <2>6 DEF Dispatched, s1, s2, s3
<1>2. Engaged(TerminalReleased(s), assignee)
  <2> DEFINE r == TerminalReleased(s)
             ended == {a \in ActiveOf(s) : s.task[a[1]] \in Terminal}
  <2>1. /\ r.worker = Idled(s, ended)
        /\ ActiveOf(r) \subseteq ActiveOf(s) \ ended
    BY DEF TerminalReleased, RowSet, ActiveOf, Active
  <2>2. ended \subseteq ActiveOf(s) OBVIOUS
  <2> HIDE DEF r, ended
  <2>3. Engaged(r, assignee) BY <2>1, <2>2, EndedEngaged
  <2>4. QED BY <2>3 DEF r
<1>3. Engaged(StaleExpired(s), assignee)
  <2> DEFINE r == StaleExpired(s)
             ended == ActiveOf(s) \cap lapsed
  <2>1. /\ r.worker = Idled(s, ended)
        /\ ActiveOf(r) \subseteq ActiveOf(s) \ ended
    BY DEF StaleExpired, RowSet, ActiveOf, Active
  <2>2. ended \subseteq ActiveOf(s) OBVIOUS
  <2> HIDE DEF r, ended
  <2>3. Engaged(r, assignee) BY <2>1, <2>2, EndedEngaged
  <2>4. QED BY <2>3 DEF r
<1>4. QED BY <1>1, <1>2, <1>3

\* Grants that are counted, each before the next, stay within n.
LEMMA CountedGrants ==
  ASSUME NEW s \in RowSet, NEW G \in SUBSET Task, NEW who \in [G -> Worker],
         \A t \in G : HasRow(s, t),
         NEW T, NEW n \in Nat, Cardinality(ActiveIn(s, T)) <= n,
         \A t \in G \cap T :
           Cardinality(ActiveIn(s, T)) + Cardinality({g \in G : g < t} \cap T) < n
  PROVE  Cardinality(ActiveIn(Granted(s, G, who), T)) <= n
<1> DEFINE new == {NewRow(s, t) : t \in G}
           H == G \cap T
           newT == {a \in new : a[1] \in T}
           r == Granted(s, G, who)
<1>1. \A t \in G : NewRow(s, t) \in Assignment /\ NewRow(s, t)[1] = t
                   /\ s.status[NewRow(s, t)] = "absent"
  BY GrantedType
<1>2. \A a \in Assignment : r.status[a] = IF a \in new THEN "assigned" ELSE s.status[a]
  BY DEF Granted, RowSet
<1>3. /\ \A a \in new : /\ a \in Assignment /\ a[1] \in G /\ a = NewRow(s, a[1])
                        /\ s.status[a] = "absent"
  BY <1>1
<1> HIDE DEF new, r
<1>4. ActiveIn(r, T) = ActiveIn(s, T) \cup newT /\ ActiveIn(s, T) \cap newT = {}
  BY <1>2, <1>3 DEF ActiveIn, ActiveOf, Active
<1>5. IsFiniteSet(G) /\ IsFiniteSet(H)
  <2>1. G \in SUBSET Task /\ H \in SUBSET Task OBVIOUS
  <2>2. QED BY <2>1, TaskAssumption, FS_Subset
<1>6. IsFiniteSet(newT) /\ Cardinality(newT) <= Cardinality(H)
  <2> DEFINE f == [a \in newT |-> a[1]]
  <2>1. f \in [newT -> H] BY <1>3
  <2>2. \A a, b \in newT : f[a] = f[b] => a = b BY <1>3
  <2> HIDE DEF f, newT, H
  <2>3. f \in Injection(newT, H) BY <2>1, <2>2 DEF Injection, IsInjective
  <2>4. QED BY <1>5, <2>3, FS_Injection
<1>7. /\ Cardinality(ActiveIn(s, T)) \in Nat /\ Cardinality(newT) \in Nat
      /\ Cardinality(H) \in Nat
  <2> HIDE DEF newT, H
  <2>1. QED BY <1>5, <1>6, ActiveFinite, FS_CardinalityType
<1>8. Cardinality(ActiveIn(r, T)) = Cardinality(ActiveIn(s, T)) + Cardinality(newT)
  <2> HIDE DEF newT
  <2>1. Cardinality(ActiveIn(s, T) \cap newT) = 0 BY <1>4, FS_EmptySet
  <2>2. Cardinality(ActiveIn(s, T) \cup newT)
          = Cardinality(ActiveIn(s, T)) + Cardinality(newT)
              - Cardinality(ActiveIn(s, T) \cap newT)
    BY <1>6, ActiveFinite, FS_Union
  <2>3. QED BY <1>4, <1>7, <2>1, <2>2
<1>9. Cardinality(ActiveIn(s, T)) + Cardinality(H) <= n
  <2>1. CASE H = {}
    <3>1. Cardinality(H) = 0 BY <2>1, FS_EmptySet
    <3>2. QED BY <1>7, <3>1
  <2>2. CASE H # {}
    <3>1. H \in SUBSET Nat BY TaskAssumption
    <3>2. PICK t \in H : \A u \in H : u <= t
      <4> HIDE DEF H
      <4>1. QED BY <1>5, <2>2, <3>1, LastNumber
    <3> DEFINE before == {g \in G : g < t} \cap T
    <3>3. H = before \cup {t} /\ t \notin before /\ before \in SUBSET H
      BY <3>1, <3>2
    <3>4. Cardinality(ActiveIn(s, T)) + Cardinality(before) < n
      BY <3>2
    <3> HIDE DEF before, H
    <3>5. IsFiniteSet(before) BY <1>5, <3>3, FS_Subset
    <3>6. Cardinality(before) \in Nat BY <3>5, FS_CardinalityType
    <3>7. Cardinality(H) = Cardinality(before) + 1 BY <3>3, <3>5, FS_AddElement
    <3>8. QED BY <1>7, <3>4, <3>6, <3>7
  <2>3. QED BY <2>1, <2>2
<1>10. Cardinality(ActiveIn(r, T)) <= n
  <2> HIDE DEF newT, H
  <2>1. QED BY <1>6, <1>7, <1>8, <1>9
<1>11. QED BY <1>10 DEF r

Takes(s, G, who, t) ==
  s.worker[who[t]] = "idle" /\ \A g \in G : g < t => who[g] # who[t]

\* A grant takes an idle worker that no grant before it took.
LEMMA PlanWorkers ==
  ASSUME NEW s, NEW G \in SUBSET Candidate(s), NEW who, NEW max, IsPlan(s, max, G, who)
  PROVE  \A t \in G : Takes(s, G, who, t)
<1> SUFFICES ASSUME NEW t \in G PROVE Takes(s, G, who, t)
  OBVIOUS
<1> DEFINE idle == {w \in Worker : s.worker[w] = "idle"} \ {who[g] : g \in {g \in G : g < t}}
<1>1. who[t] \in BestWorker(idle, t) BY DEF IsPlan
<1>2. who[t] \in idle
  <2> HIDE DEF idle
  <2>1. QED BY <1>1 DEF BestWorker
<1>3. QED BY <1>2 DEF Takes

\* Without owners, a grant that writes takes a worker that may implement.
LEMMA PlanWriters ==
  ASSUME Unowned, ~ Staffed,
         NEW s, NEW G \in SUBSET Candidate(s), NEW who, NEW max, IsPlan(s, max, G, who)
  PROVE  \A t \in G : Class[t] = "write_sensitive" => who[t] \in CanImplement
<1> SUFFICES ASSUME NEW t \in G, Class[t] = "write_sensitive" PROVE who[t] \in CanImplement
  OBVIOUS
<1> DEFINE idle == {w \in Worker : s.worker[w] = "idle"} \ {who[g] : g \in {g \in G : g < t}}
<1>1. who[t] \in BestWorker(idle, t) BY DEF IsPlan
<1>2. owner[t] = NoWorker BY DEF Unowned, Candidate
<1> HIDE DEF idle
<1>3. QED BY <1>1, <1>2 DEF BestWorker

\* The loop stays within the limits, and its grants are engaged.
LEMMA GrantedEngaged ==
  ASSUME Unowned, NEW s \in RowSet, Engaged(s, assignee),
         NEW G \in SUBSET Candidate(s), NEW who \in [G -> Worker], NEW max,
         IsPlan(s, max, G, who),
         \A t \in G : HasRow(s, t)
  PROVE  Engaged(Granted(s, G, who),
                 [a \in Assignment |->
                    IF a \in {NewRow(s, t) : t \in G} THEN who[a[1]] ELSE assignee[a]])
<1> DEFINE new == {NewRow(s, t) : t \in G}
           r == Granted(s, G, who)
           asg == [a \in Assignment |-> IF a \in new THEN who[a[1]] ELSE assignee[a]]
<1>1. G \in SUBSET Task BY DEF Candidate
<1>2. \A t \in G : NewRow(s, t) \in Assignment /\ NewRow(s, t)[1] = t
                   /\ s.status[NewRow(s, t)] = "absent"
  BY <1>1, GrantedType
<1>3. \A a \in new : /\ a \in Assignment /\ a[1] \in G /\ a = NewRow(s, a[1])
                     /\ s.status[a] = "absent"
  BY <1>2
<1>4. /\ \A a \in Assignment : r.status[a] = IF a \in new THEN "assigned" ELSE s.status[a]
      /\ \A w \in Worker : r.worker[w] = IF \E t \in G : who[t] = w THEN "reserved" ELSE s.worker[w]
  BY DEF Granted, RowSet
<1>5. ASSUME Serial(s, assignee)
      PROVE  Serial(r, asg)
  <2> HIDE DEF new, r
  <2>1. \A a \in ActiveOf(r) : a \in Assignment /\ (a \in new \/ (a \notin new /\ a \in ActiveOf(s)))
    BY <1>3, <1>4 DEF ActiveOf
  <2>2. /\ \A t \in G : who[t] \in Worker
        /\ \A t \in G : /\ s.worker[who[t]] = "idle"
                        /\ \A g \in G : g < t => who[g] # who[t]
    <3>1. \A t \in G : who[t] \in Worker OBVIOUS
    <3>2. \A t \in G : Takes(s, G, who, t) BY PlanWorkers
    <3>3. QED BY <3>1, <3>2 DEF Takes
  <2>3. \A a \in new : asg[a] = who[a[1]] /\ asg[a] \in Worker /\ s.worker[asg[a]] = "idle"
                       /\ r.worker[asg[a]] = "reserved"
    BY <1>3, <1>4, <2>2
  <2>4. \A a \in ActiveOf(s) : a \notin new /\ a \in Assignment => 
          /\ asg[a] = assignee[a] /\ asg[a] \in Worker /\ s.worker[asg[a]] # "idle"
          /\ r.worker[asg[a]] # "idle"
    BY <1>4, <1>5 DEF Serial
  <2>5. ASSUME NEW a \in new, NEW b \in new, asg[a] = asg[b]
        PROVE  a = b
    <3>1. a[1] \in G /\ b[1] \in G /\ who[a[1]] = who[b[1]] BY <1>3, <2>3, <2>5
    <3>2. a[1] \in Nat /\ b[1] \in Nat BY <1>1, <3>1, TaskAssumption
    <3>3. ~ (a[1] < b[1]) /\ ~ (b[1] < a[1]) BY <2>2, <3>1
    <3>4. a[1] = b[1] BY <3>2, <3>3
    <3>5. QED BY <1>3, <3>4
  <2> HIDE DEF asg
  <2>6. QED BY <1>5, <2>1, <2>3, <2>4, <2>5 DEF Serial
<1>6. Within(r)
  <2>1. \A t \in G : CapacityAllows(s, {g \in G : g < t}, t)
    BY DEF IsPlan
  <2>2. Limit["total"] \in Nat /\ \A c \in ExecutionClass : Limit[c] \in Nat
    BY LimitAssumption
  <2>3. Cardinality(ActiveIn(r, Task)) <= Limit["total"]
    <3>1. \A t \in G \cap Task :
            Cardinality(ActiveIn(s, Task)) + Cardinality({g \in G : g < t} \cap Task) < Limit["total"]
      BY <2>1 DEF CapacityAllows, ActiveIn
    <3>2. Cardinality(ActiveIn(s, Task)) <= Limit["total"] BY DEF Engaged, Within
    <3> HIDE DEF r
    <3>3. QED BY <1>1, <2>2, <3>1, <3>2, CountedGrants DEF r
  <2>4. ASSUME NEW c \in ExecutionClass
        PROVE  Cardinality(ActiveIn(r, OfClass(c))) <= Limit[c]
    <3>1. \A t \in G \cap OfClass(c) :
            Cardinality(ActiveIn(s, OfClass(c))) + Cardinality({g \in G : g < t} \cap OfClass(c)) < Limit[c]
      BY <2>1 DEF CapacityAllows, ActiveIn, OfClass
    <3>2. Cardinality(ActiveIn(s, OfClass(c))) <= Limit[c] BY DEF Engaged, Within
    <3> HIDE DEF r
    <3>3. QED BY <1>1, <2>2, <3>1, <3>2, CountedGrants DEF r
  <2>5. QED BY <2>3, <2>4 DEF Within
<1>7. ASSUME Able(s, assignee), ~ Staffed
      PROVE  Able(r, asg)
  <2> HIDE DEF new, r
  <2>1. \A t \in G : Class[t] = "write_sensitive" => who[t] \in CanImplement
    BY <1>1, <1>7, PlanWriters
  <2>2. ASSUME NEW a \in ActiveOf(r), Class[a[1]] = "write_sensitive"
        PROVE  asg[a] \in CanImplement
    <3>1. CASE a \in new BY <1>3, <2>1, <2>2, <3>1
    <3>2. CASE a \notin new
      <4>1. a \in ActiveOf(s) /\ a \in Assignment BY <1>4, <3>2 DEF ActiveOf
      <4>2. QED BY <1>7, <2>2, <3>2, <4>1 DEF Able
    <3>3. QED BY <3>1, <3>2
  <2> HIDE DEF asg
  <2>3. QED BY <2>2 DEF Able
<1>8. QED BY <1>5, <1>6, <1>7 DEF Engaged, r, asg, new

\* A request that ends with the scheduler.
LEMMA ScheduleFromEngaged ==
  ASSUME Unowned, NEW s0 \in RowSet, Engaged(s0, assignee), NEW max, ScheduleFrom(s0, max)
  PROVE  Engaged(Rows, assignee)'
<1> DEFINE s1 == Dispatched(s0)
           s2 == TerminalReleased(s1)
           s  == StaleExpired(s2)
<1>1. s1 \in RowSet /\ Engaged(s1, assignee) BY DispatchedType, PassesEngaged
<1> HIDE DEF s1
<1>2. s2 \in RowSet /\ Engaged(s2, assignee) BY <1>1, TerminalReleasedType, PassesEngaged
<1> HIDE DEF s2
<1>3. s \in RowSet /\ Engaged(s, assignee) BY <1>2, StaleExpiredType, PassesEngaged
<1> HIDE DEF s
<1>4. PICK G \in SUBSET Candidate(s) : \E who \in [G -> Worker] :
        /\ IsPlan(s, max, G, who)
        /\ \A t \in G : HasRow(s, t)
        /\ Commit(Granted(s, G, who))
        /\ assignee' = [a \in Assignment |->
                          IF a \in {NewRow(s, t) : t \in G} THEN who[a[1]] ELSE assignee[a]]
  <2>1. Granting(s, max) BY DEF ScheduleFrom, s, s2, s1
  <2>2. QED BY <2>1 DEF Granting
<1>5. PICK who \in [G -> Worker] :
        /\ IsPlan(s, max, G, who)
        /\ \A t \in G : HasRow(s, t)
        /\ Commit(Granted(s, G, who))
        /\ assignee' = [a \in Assignment |->
                          IF a \in {NewRow(s, t) : t \in G} THEN who[a[1]] ELSE assignee[a]]
  BY <1>4
<1>6. G \in SUBSET Task BY DEF Candidate
<1>7. Granted(s, G, who) \in RowSet BY <1>3, <1>5, <1>6, GrantedType
<1>8. Engaged(Granted(s, G, who), assignee') BY <1>3, <1>5, GrantedEngaged
<1>9. Rows' = Granted(s, G, who) BY <1>5, <1>7, CommitRows
<1>10. Engaged(Rows', assignee') BY <1>8, <1>9
<1>11. QED BY <1>10 DEF Engaged, Serial, Able, Within, ActiveIn, ActiveOf, OfClass

\* What is enough of an action that does not schedule.
LEMMA EngagedStep ==
  ASSUME NEW r, Rows' = r, assignee' = assignee, Engaged(r, assignee)
  PROVE  Engaged(Rows, assignee)'
<1>1. Engaged(Rows', assignee') OBVIOUS
<1>2. QED BY <1>1 DEF Engaged, Serial, Able, Within, ActiveIn, ActiveOf, OfClass

\* Requests that leave assignments and workers alone.
LEMMA UnassigningEngaged ==
  ASSUME Engaged(Rows, assignee), UNCHANGED <<status, worker, assignee>>
  PROVE  Engaged(Rows, assignee)'
<1>1. /\ Rows'.status = Rows.status /\ Rows'.worker = Rows.worker /\ assignee' = assignee
  BY DEF Rows
<1>2. ActiveOf(Rows') = ActiveOf(Rows) BY <1>1 DEF ActiveOf
<1>3. Within(Rows') BY <1>2, FewerWithin DEF Engaged
<1>4. Engaged(Rows', assignee) BY <1>1, <1>2, <1>3 DEF Engaged, Serial, Able
<1>5. QED BY <1>1, <1>4, EngagedStep

\* An assignment that ends, before the scheduler runs or for itself.
LEMMA EndingEngaged ==
  ASSUME TypeOK, Engaged(Rows, assignee), NEW a \in Assignment,
         NEW st \in AssignmentStatus \ Active,
         LateRelease \/ status[a] \in Active,
         NEW r, r.status = [status EXCEPT ![a] = st],
         r.worker = [worker EXCEPT ![assignee[a]] = "idle"]
  PROVE  Engaged(r, assignee)
<1>1. /\ status \in [Assignment -> AssignmentStatus] /\ worker \in [Worker -> WorkerStatus]
      /\ Rows.status = status /\ Rows.worker = worker
  BY DEF TypeOK, Rows
<1>2. r.worker = Idled(Rows, {a})
  <2>1. Idled(Rows, {a}) = [w \in Worker |-> IF assignee[a] = w THEN "idle" ELSE worker[w]]
    BY <1>1 DEF Idled
  <2>2. [worker EXCEPT ![assignee[a]] = "idle"]
          = [w \in Worker |-> IF assignee[a] = w THEN "idle" ELSE worker[w]]
    BY <1>1
  <2>3. QED BY <2>1, <2>2
<1>3. ActiveOf(r) \subseteq ActiveOf(Rows) \ {a}
  BY <1>1 DEF ActiveOf
<1>4. LateRelease \/ {a} \subseteq ActiveOf(Rows)
  BY <1>1 DEF ActiveOf
<1>5. QED BY <1>2, <1>3, <1>4, EndedEngaged

\* What a worker reports on an assignment.
LEMMA ReportEngaged ==
  ASSUME TypeOK, Unowned, Engaged(Rows, assignee), NEW a \in Assignment,
         \/ Accept(a) \/ AcceptLate(a)
         \/ \E st \in {"released", "completed", "failed"} : Release(a, st)
         \/ CompleteAssignment(a)
         \/ \E retryable \in BOOLEAN : FailAssignment(a, retryable)
  PROVE  Engaged(Rows, assignee)'
<1>1. /\ status \in [Assignment -> AssignmentStatus] /\ worker \in [Worker -> WorkerStatus]
      /\ Rows.status = status /\ Rows.worker = worker /\ Rows.task = task /\ Rows \in RowSet
      /\ task[a[1]] \in TaskStatus /\ a[1] \in Task
  BY RowsType DEF TypeOK, Rows, Assignment
<1>2. CASE Accept(a)
  <2> DEFINE r == [Rows EXCEPT !.status[a] = "accepted", !.worker[assignee[a]] = "busy"]
  <2>1. /\ r.status = [status EXCEPT ![a] = "accepted"]
        /\ r.worker = [worker EXCEPT ![assignee[a]] = "busy"]
    BY <1>1 DEF RowSet
  <2>2. r \in RowSet
    <3>1. [status EXCEPT ![a] = "accepted"] \in [Assignment -> AssignmentStatus]
      BY <1>1 DEF AssignmentStatus
    <3>2. [worker EXCEPT ![assignee[a]] = "busy"] \in [Worker -> WorkerStatus]
      BY <1>1 DEF WorkerStatus
    <3>3. QED BY <1>1, <3>1, <3>2 DEF RowSet
  <2>3. Commit(r) /\ assignee' = assignee /\ status[a] \in Active
    BY <1>2 DEF Accept, Active
  <2> HIDE DEF r
  <2>4. Rows' = r BY <2>2, <2>3, CommitRows
  <2>5. ActiveOf(r) = ActiveOf(Rows)
    BY <1>1, <2>1, <2>3 DEF ActiveOf, Active
  <2>6. \A w \in Worker : worker[w] # "idle" => r.worker[w] # "idle"
    BY <1>1, <2>1
  <2>7. Within(r) BY <2>5, FewerWithin DEF Engaged
  <2>8. Engaged(r, assignee) BY <1>1, <2>5, <2>6, <2>7 DEF Engaged, Serial, Able
  <2>9. QED BY <2>3, <2>4, <2>8, EngagedStep
<1>3. CASE AcceptLate(a)
  <2> DEFINE r == [Rows EXCEPT !.status[a] = "expired", !.worker[assignee[a]] = "idle"]
  <2>1. /\ r.status = [status EXCEPT ![a] = "expired"]
        /\ r.worker = [worker EXCEPT ![assignee[a]] = "idle"]
    BY <1>1 DEF RowSet
  <2>2. r \in RowSet
    <3>1. [status EXCEPT ![a] = "expired"] \in [Assignment -> AssignmentStatus]
      BY <1>1 DEF AssignmentStatus
    <3>2. [worker EXCEPT ![assignee[a]] = "idle"] \in [Worker -> WorkerStatus]
      BY <1>1 DEF WorkerStatus
    <3>3. QED BY <1>1, <3>1, <3>2 DEF RowSet
  <2>3. Commit(r) /\ assignee' = assignee /\ status[a] \in Active
    BY <1>3 DEF AcceptLate, Active
  <2> HIDE DEF r
  <2>4. Rows' = r BY <2>2, <2>3, CommitRows
  <2>5. Engaged(r, assignee)
    BY <2>1, <2>3, EndingEngaged DEF AssignmentStatus, Active
  <2>6. QED BY <2>3, <2>4, <2>5, EngagedStep
<1>4. ASSUME NEW st \in {"released", "completed", "failed"}, NEW v \in TaskStatus,
             LateRelease \/ status[a] \in Active
      PROVE  LET r == [Ended(a, st) EXCEPT !.task[a[1]] = v]
             IN  r \in RowSet /\ Engaged(r, assignee)
  <2> DEFINE r == [Ended(a, st) EXCEPT !.task[a[1]] = v]
  <2>1. r \in RowSet BY <1>4, EndedType DEF EndedWith
  <2>2. /\ r.status = [status EXCEPT ![a] = st]
        /\ r.worker = [worker EXCEPT ![assignee[a]] = "idle"]
    BY <1>1 DEF Ended, RowSet
  <2> HIDE DEF r
  <2>3. st \in AssignmentStatus \ Active BY DEF AssignmentStatus, Active
  <2>4. Engaged(r, assignee) BY <1>4, <2>2, <2>3, EndingEngaged
  <2>5. QED BY <2>1, <2>4 DEF r
<1>5. ASSUME NEW st \in {"released", "completed", "failed"}, Release(a, st)
      PROVE  Engaged(Rows, assignee)'
  <2>1. Ended(a, st) = [Ended(a, st) EXCEPT !.task[a[1]] = task[a[1]]]
    <3>1. Ended(a, st).task = Rows.task /\ Rows.task = task BY <1>1 DEF Ended, Rows
    <3>2. QED BY <1>1, <3>1 DEF Ended, RowSet
  <2>2. /\ LateRelease \/ status[a] \in Active
        /\ Commit(Ended(a, st)) /\ assignee' = assignee
    BY <1>5 DEF Release
  <2>3. Ended(a, st) \in RowSet /\ Engaged(Ended(a, st), assignee)
    <3>1. LET r == [Ended(a, st) EXCEPT !.task[a[1]] = task[a[1]]]
          IN  r \in RowSet /\ Engaged(r, assignee)
      BY <1>1, <1>4, <2>2
    <3>2. QED BY <2>1, <3>1
  <2>4. QED BY <2>2, <2>3, CommitRows, EngagedStep
<1>6. CASE CompleteAssignment(a)
  <2> DEFINE v == IF task[a[1]] = "running" THEN "completed" ELSE task[a[1]]
             r == [Ended(a, "completed") EXCEPT !.task[a[1]] = v]
  <2>1. v \in TaskStatus /\ (v = "running" => task[a[1]] = "running")
    BY <1>1 DEF TaskStatus
  <2>2. status[a] \in Active BY <1>6 DEF CompleteAssignment
  <2>3. r \in RowSet /\ Engaged(r, assignee)
    <3> HIDE DEF v
    <3>1. QED BY <1>4, <2>1, <2>2
  <2>4. ScheduleFrom(r, 4)
    <3>1. Ended(a, "completed").task = task BY <1>1 DEF Ended, Rows
    <3>2. [Ended(a, "completed") EXCEPT
             !.task[a[1]] = IF @ = "running" THEN "completed" ELSE @] = r
      BY <3>1
    <3>3. QED BY <1>6, <3>2 DEF CompleteAssignment
  <2> HIDE DEF r
  <2>5. QED BY <2>3, <2>4, ScheduleFromEngaged
<1>7. ASSUME NEW retryable \in BOOLEAN, FailAssignment(a, retryable)
      PROVE  Engaged(Rows, assignee)'
  <2> DEFINE v == IF retryable THEN "ready" ELSE "failed"
             r == [Ended(a, "failed") EXCEPT !.task[a[1]] = v]
  <2>1. v \in TaskStatus /\ v # "running" BY DEF TaskStatus
  <2>2. status[a] \in Active BY <1>7 DEF FailAssignment
  <2>3. r \in RowSet /\ Engaged(r, assignee)
    <3> HIDE DEF v
    <3>1. QED BY <1>4, <2>1, <2>2
  <2>4. ScheduleFrom(r, 4) BY <1>7 DEF FailAssignment
  <2> HIDE DEF r
  <2>5. QED BY <2>3, <2>4, ScheduleFromEngaged
<1>8. QED BY <1>2, <1>3, <1>5, <1>6, <1>7

\* Every step keeps workers and limits.
LEMMA NextEngaged ==
  ASSUME TypeOK, Unowned, Engaged(Rows, assignee), [Next]_vars
  PROVE  Engaged(Rows, assignee)'
<1>1. Rows \in RowSet BY RowsType
<1>2. CASE Dispatch
  <2>1. Commit(Dispatched(Rows)) /\ assignee' = assignee BY <1>2 DEF Dispatch
  <2>2. QED BY <1>1, <2>1, DispatchedType, CommitRows, PassesEngaged, EngagedStep
<1>3. CASE Schedule \/ GetState
  BY <1>1, <1>3, ScheduleFromEngaged DEF Schedule, GetState
<1>4. CASE \/ UNCHANGED vars
           \/ \E a \in Assignment : Heartbeat(a) \/ LapseAssignment(a)
           \/ \E l \in Lease : LapseLease(l)
           \/ \E t \in Task : Retry(t) \/ Skip(t)
           \/ \E command \in Commands : TransitionMission(command)
  <2>1. UNCHANGED <<status, worker, assignee>>
    BY <1>4 DEF vars, Heartbeat, LapseAssignment, LapseLease, Retry, Skip, TransitionMission
  <2>2. QED BY <2>1, UnassigningEngaged
<1>5. ASSUME NEW l \in Lease, Claim(l)
      PROVE  Engaged(Rows, assignee)'
  <2>1. UNCHANGED <<status, worker, assignee>>
    BY <1>1, <1>5 DEF Claim, Commit, Rows, RowSet
  <2>2. QED BY <2>1, UnassigningEngaged
<1>6. ASSUME NEW l \in Lease, NEW result \in {"completed", "failed"}, CompleteTask(l, result)
      PROVE  Engaged(Rows, assignee)'
  <2> DEFINE r == [Rows EXCEPT !.task[l[1]] = result, !.lease[l] = "released"]
  <2>1. r.status = Rows.status /\ r.worker = Rows.worker
    BY <1>1 DEF RowSet
  <2>2. r \in RowSet
    <3>1. [Rows.lease EXCEPT ![l] = "released"] \in [Lease -> LeaseStatus]
      BY <1>1 DEF RowSet, LeaseStatus
    <3>2. [Rows.task EXCEPT ![l[1]] = result] \in [Task -> TaskStatus]
      BY <1>1 DEF RowSet, TaskStatus
    <3>3. QED BY <1>1, <3>1, <3>2 DEF RowSet
  <2>3. Commit(Dispatched(r)) /\ assignee' = assignee BY <1>6 DEF CompleteTask
  <2> HIDE DEF r
  <2>4. ActiveOf(r) = ActiveOf(Rows) BY <2>1 DEF ActiveOf
  <2>5. Within(r) BY <2>4, FewerWithin DEF Engaged
  <2>6. Engaged(r, assignee) BY <2>1, <2>4, <2>5 DEF Engaged, Serial, Able
  <2>7. QED BY <2>2, <2>3, <2>6, DispatchedType, CommitRows, PassesEngaged, EngagedStep
<1>7. ASSUME NEW a \in Assignment,
             \/ Accept(a) \/ AcceptLate(a)
             \/ \E st \in {"released", "completed", "failed"} : Release(a, st)
             \/ CompleteAssignment(a)
             \/ \E retryable \in BOOLEAN : FailAssignment(a, retryable)
      PROVE  Engaged(Rows, assignee)'
  BY <1>7, ReportEngaged
<1>8. QED BY <1>2, <1>3, <1>4, <1>5, <1>6, <1>7 DEF Next

\* Owners are only ever given with an organization.
LEMMA NextUnowned ==
  ASSUME Unowned, [Next]_vars
  PROVE  Unowned'
<1>1. ASSUME NEW s0, NEW max, ScheduleFrom(s0, max)
      PROVE  Unowned'
  <2>1. \E G, who : owner' = [t \in Task |-> IF Staffed /\ t \in G THEN who[t] ELSE owner[t]]
    BY <1>1 DEF ScheduleFrom, Granting
  <2>2. QED BY <2>1 DEF Unowned
<1>2. CASE \/ Schedule \/ GetState
           \/ \E a \in Assignment : \/ CompleteAssignment(a)
                                    \/ \E retryable \in BOOLEAN : FailAssignment(a, retryable)
  BY <1>1, <1>2 DEF Schedule, GetState, CompleteAssignment, FailAssignment
<1>3. CASE owner' = owner BY <1>3 DEF Unowned
<1>4. CASE UNCHANGED vars BY <1>3, <1>4 DEF vars
<1>5. ASSUME \/ Dispatch
             \/ \E a \in Assignment :
                  \/ Accept(a) \/ AcceptLate(a) \/ Heartbeat(a) \/ LapseAssignment(a)
                  \/ \E st \in {"released", "completed", "failed"} : Release(a, st)
             \/ \E l \in Lease :
                  \/ Claim(l) \/ LapseLease(l)
                  \/ \E result \in {"completed", "failed"} : CompleteTask(l, result)
             \/ \E t \in Task : Retry(t) \/ Skip(t)
             \/ \E command \in Commands : TransitionMission(command)
      PROVE  owner' = owner
  BY <1>5
  DEF Dispatch, Accept, AcceptLate, Heartbeat, LapseAssignment, Release, Claim,
      LapseLease, CompleteTask, Retry, Skip, TransitionMission
<1>6. QED BY <1>2, <1>3, <1>4, <1>5 DEF Next

\* Nobody is occupied at first.
LEMMA InitEngaged == Init => Unowned /\ Engaged(Rows, assignee)
<1> SUFFICES ASSUME Init PROVE Unowned /\ Engaged(Rows, assignee) OBVIOUS
<1>1. ActiveOf(Rows) = {} BY DEF Init, ActiveOf, Rows, Active
<1>2. \A T : ActiveIn(Rows, T) = {} BY <1>1 DEF ActiveIn
<1>3. \A T : Cardinality(ActiveIn(Rows, T)) = 0 BY <1>2, FS_EmptySet
<1>4. Within(Rows) BY <1>3, LimitAssumption DEF Within
<1>5. Engaged(Rows, assignee) BY <1>1, <1>4 DEF Engaged, Serial, Able
<1>6. Unowned BY FlagAssumption DEF Init, Unowned
<1>7. QED BY <1>5, <1>6

\* Workers and limits hold of every mission from its start.
LEMMA EngagedInvariance == Spec => [](Unowned /\ Engaged(Rows, assignee))
<1>1. Init => Unowned /\ Engaged(Rows, assignee)
  BY InitEngaged
<1>2. Inv /\ Unowned /\ Engaged(Rows, assignee) /\ [Next]_vars =>
        Unowned' /\ Engaged(Rows, assignee)'
  BY NextEngaged, NextUnowned DEF Inv, Sound
<1>3. QED BY <1>1, <1>2, Invariance, PTL DEF Spec

\* Who is engaged is counted within the limits.
LEMMA EngagedWithin == Engaged(Rows, assignee) => WithinLimits
<1> SUFFICES ASSUME Within(Rows) PROVE WithinLimits BY DEF Engaged
<1>1. \A T : ActiveIn(Rows, T) = {a \in Assignment : status[a] \in Active /\ a[1] \in T}
  BY DEF ActiveIn, ActiveOf, Rows
<1>2. QED BY <1>1 DEF Within, WithinLimits, OfClass

\* The limits hold, in all and of each class, for any limits: one schedule counts
\* what it grants, and whatever else happens only gives capacity back.
THEOREM LimitsHold == Spec => []WithinLimits
BY EngagedWithin, EngagedInvariance, PTL

\* Where clients release only assignments that are active, every worker has one
\* at a time and is not idle while it has.
THEOREM WorkersAreSerial ==
  ASSUME ~ LateRelease
  PROVE  Spec => []WorkerSerial
<1>1. Engaged(Rows, assignee) => WorkerSerial
  BY DEF Engaged, Serial, ActiveOf, Rows, WorkerSerial
<1>2. QED BY <1>1, EngagedInvariance, PTL

\* Without an organization, what writes is given to workers that may implement.
THEOREM WritersAreAble ==
  ASSUME ~ Staffed
  PROVE  Spec => []WritersMayImplement
<1>1. Engaged(Rows, assignee) => WritersMayImplement
  BY DEF Engaged, Able, ActiveOf, Rows, WritersMayImplement
<1>2. QED BY <1>1, EngagedInvariance, PTL
=============================================================================

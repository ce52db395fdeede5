----------------------------- MODULE PathPolicy -----------------------------
(***************************************************************************)
(* The path patterns under which tasks reserve parts of the repository,    *)
(* and the decision whether two of them overlap.                           *)
(*                                                                         *)
(* A pattern is the sequence of its components, after normalisation and in *)
(* lower case, which is how patterns are compared.  The decision compares  *)
(* components and never expands a wildcard.                                *)
(***************************************************************************)
EXTENDS Naturals, Sequences

CONSTANTS
  Wild,  \* the components that hold a wildcard, that is one of * ? [
  File   \* the files of the repository, by their components in lower case

ASSUME FileAssumption == File \subseteq Seq(STRING)

\* What normalisation lets through: paths relative to the root that neither
\* leave the repository nor are all of it.  (Its metadata are refused only when
\* their name is in lower case, so that no component is excluded here.)
Pattern ==
  {p \in Seq(STRING) :
    /\ p # <<>>
    /\ p[1] \notin {"*", "**"}
    /\ \A i \in 1 .. Len(p) : p[i] \notin {"", ".", ".."}}

\* q is p or a directory above it.
IsAbove(q, p) == Len(q) <= Len(p) /\ \A i \in 1 .. Len(q) : p[i] = q[i]

ParentChildOverlap(p, q) == IsAbove(p, q) \/ IsAbove(q, p)

\* The components in front of the first that holds a wildcard.
LiteralPrefix(p) ==
  LET literal == {n \in 0 .. Len(p) : \A i \in 1 .. n : p[i] \notin Wild}
  IN SubSeq(p, 1, CHOOSE n \in literal : \A m \in literal : m <= n)

\* Slip: wildcards are compared as if they were names.
PatternsOverlapByName(p, q) == ParentChildOverlap(p, q)

\* A pattern that begins with a wildcard overlaps every other.
PatternsOverlap(p, q) ==
  \/ ParentChildOverlap(p, q)
  \/ LiteralPrefix(p) = <<>> \/ LiteralPrefix(q) = <<>>
  \/ ParentChildOverlap(LiteralPrefix(p), LiteralPrefix(q))

\* What a pattern may cover, whatever its wildcards match: the components in
\* front of them match themselves.  Without any, it covers a file or a directory
\* with all that lies in it.
Covers(p, f) ==
  \A i \in 1 .. Len(p) :
    (\A j \in 1 .. i : p[j] \notin Wild) => i <= Len(f) /\ f[i] = p[i]

=============================================================================

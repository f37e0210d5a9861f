------------------------------- MODULE Lists -------------------------------
(***************************************************************************)
(* Parts of lists, without recursion, so that they can be proved about.    *)
(***************************************************************************)
EXTENDS Integers, Sequences, FiniteSets

\* The entries at the given positions, in list order: what Vec::retain() keeps,
\* or unlinking nodes leaves.
Sublist(list, positions) ==
  LET rank(i) == Cardinality({j \in positions : j <= i})
  IN  [k \in 1 .. Cardinality(positions) |-> list[CHOOSE i \in positions : rank(i) = k]]
=============================================================================

------------------------------ MODULE RowOrder ------------------------------
(* Rows as a query returns them, in an order.  The positions are counted, so that what is *)
(* said of a sorted or a filtered sequence can be proved.                                 *)
EXTENDS Naturals, FiniteSets

\* ORDER BY id: the numbers of a finite set, each at the place where it is reached.
Ascending(S) == [i \in 1 .. Cardinality(S) |-> CHOOSE x \in S : Cardinality({y \in S : y <= x}) = i]

\* The rows of s that are wanted, in the order they have there.
Keep(s, wanted) ==
  LET places == Ascending({i \in DOMAIN s : s[i] \in wanted})
  IN [i \in DOMAIN places |-> s[places[i]]]

=============================================================================

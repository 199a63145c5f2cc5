------------------------------ MODULE Listing ------------------------------
(***************************************************************************)
(* Sets of positions in ascending order, and the part of a sequence that   *)
(* passes a test.  These are written without recursion: Only is SelectSeq, *)
(* for which the provers have neither a definition nor a fact.             *)
(***************************************************************************)
EXTENDS Naturals, Sequences, FiniteSets

\* The member of S that has n smaller ones beside it.
NthOf(S, n) == CHOOSE i \in S : Cardinality({j \in S : j < i}) = n

InOrder(S) == [i \in 1 .. Cardinality(S) |-> NthOf(S, i - 1)]

\* The elements of seq at the positions I.
Those(seq, I) == [i \in 1 .. Cardinality(I) |-> seq[NthOf(I, i - 1)]]

\* The elements of seq that pass the test.
Only(seq, Test(_)) == Those(seq, {i \in 1 .. Len(seq) : Test(seq[i])})
=============================================================================

------------------------------ MODULE Selection ------------------------------
(***************************************************************************)
(* The part of a queue that concerns one worker or one type, which the       *)
(* refinement mappings of HorusServer and Shinjuku are made of: as           *)
(* SelectSeq, with a set for the test and without recursion.                *)
(***************************************************************************)
EXTENDS Naturals, Sequences, FiniteSets

\* The elements of sequence s that are in T, in their order.
Among(s, T) ==
  LET I == {i \in DOMAIN s : s[i] \in T}
  IN  [k \in 1..Cardinality(I) |->
         s[CHOOSE i \in I : Cardinality({j \in I : j <= i}) = k]]
=============================================================================

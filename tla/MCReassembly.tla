---------------------------- MODULE MCReassembly ----------------------------
(***************************************************************************)
(* Small instances of Reassembly for TLC: messages of one, two and three     *)
(* packets.  Cells, and messages of one length, are interchangeable.        *)
(***************************************************************************)
EXTENDS Reassembly, TLC

CONSTANTS Singles, Pairs, Triples, Lossless

MCMsgs == Singles \cup Pairs \cup Triples

MCLength ==
  [m \in MCMsgs |-> IF m \in Singles THEN 1 ELSE IF m \in Pairs THEN 2 ELSE 3]

MCLossy == MCMsgs \ Lossless

Symmetry == Permutations(Cells) \cup Permutations(Pairs)
=============================================================================

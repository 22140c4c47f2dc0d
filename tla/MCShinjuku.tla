----------------------------- MODULE MCShinjuku -----------------------------
(***************************************************************************)
(* Small instances of Shinjuku for TLC: two request types, the second with  *)
(* twice the objective of the first and its preempted tasks at the head.    *)
(***************************************************************************)
EXTENDS Shinjuku, TLC

MCSlo       == [y \in Types |-> y + 1]
MCHeadFirst == [y \in Types |-> y = 1]

ContextSymmetry == Permutations(Contexts)
=============================================================================

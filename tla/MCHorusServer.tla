--------------------------- MODULE MCHorusServer ---------------------------
(***************************************************************************)
(* Small instances of HorusServer for TLC; the .cfg files choose the sizes. *)
(* Contexts are interchangeable: context_alloc may return any free one, and *)
(* no step or property singles one out.                                     *)
(***************************************************************************)
EXTENDS HorusServer, TLC

ContextSymmetry == Permutations(Contexts)
=============================================================================

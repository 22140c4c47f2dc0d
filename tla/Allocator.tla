------------------------------ MODULE Allocator ------------------------------
(***************************************************************************)
(* What a mempool promises its callers: the element mempool_alloc returns is *)
(* nobody else's until the caller gives it to mempool_free.                  *)
(***************************************************************************)
CONSTANTS Client, Elem

VARIABLE inUse   \* the elements each client holds

Init == inUse = [c \in Client |-> {}]

Alloc(c, e) ==
  /\ \A d \in Client : e \notin inUse[d]
  /\ inUse' = [inUse EXCEPT ![c] = @ \cup {e}]

Free(c, e) ==
  /\ e \in inUse[c]
  /\ inUse' = [inUse EXCEPT ![c] = @ \ {e}]

Next == \E c \in Client, e \in Elem : Alloc(c, e) \/ Free(c, e)

Spec == Init /\ [][Next]_inUse
=============================================================================

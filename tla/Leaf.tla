-------------------------------- MODULE Leaf --------------------------------
(***************************************************************************)
(* What surrounds the server: the leaf switch that picks a worker for each  *)
(* task, the clients behind it, and the NIC's receive path.  The switch is  *)
(* a P4 program outside this repository; it is modelled from what the       *)
(* server expects of it: the header's qlen field tells whether the worker   *)
(* was popped from the idle list (dispatch.h:378-382), and a reply of type  *)
(* PKT_TYPE_TASK_DONE_IDLE puts the worker back (worker.c:237-240).         *)
(***************************************************************************)
EXTENDS HorusState

Unsent == {t \in Tasks : hdr[t] = Null}

\* eth_recv: a packet beyond ETH_RX_MAX_DEPTH is dropped by the driver.
EthRecv(t) ==
  IF Len(rxq) < RxDepth
  THEN rxq' = Append(rxq, t) /\ UNCHANGED lost
  ELSE lost' = lost \cup {t} /\ UNCHANGED rxq

\* Packets are sent in the order of their identities.
Send(kind, w, type) ==
  \E t \in Unsent :
    /\ \A u \in Unsent : t <= u
    /\ hdr' = [hdr EXCEPT ![t] = [kind |-> kind, core |-> w, type |-> type]]
    /\ EthRecv(t)
    /\ UNCHANGED <<answered, netVars, mailVars, dispVars, sharedVars, workVars>>

\* The leaf pops a worker from its idle list for the task.
SelectIdle(w) ==
  /\ idleList[w] > 0
  /\ idleList' = [idleList EXCEPT ![w] = @ - 1]
  /\ Send("task", w, WORKER_STATE_IDLE)

\* The leaf, or a switch above it, picks a worker at random or by load.
SelectRandom(w) ==
  /\ Send("task", w, WORKER_STATE_BUSY)
  /\ UNCHANGED idleList

\* A packet that starts no task: a fragment of a longer request, or a
\* PKT_TYPE_WORKER_ID control packet.
SendOther ==
  /\ Send("other", 0, WORKER_STATE_BUSY)
  /\ UNCHANGED idleList

LeafNext == SendOther \/ \E w \in Workers : SelectIdle(w) \/ SelectRandom(w)
=============================================================================

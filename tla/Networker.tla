------------------------------ MODULE Networker ------------------------------
(***************************************************************************)
(* The networker core, do_networking() of dp/core/networker.c.  It owns     *)
(* networker_pointers while cnt is 0: it takes back the requests the        *)
(* dispatcher has finished with, fills the mailbox with new ones and posts  *)
(* it by writing cnt.  Of rq_update, which Reassembly models packet by       *)
(* packet, this module keeps the outcome: a request for the core of the     *)
(* header or none, and the requests it has allocated for messages of which  *)
(* it still lacks packets.                                                  *)
(***************************************************************************)
EXTENDS HorusState

\* The packet is a whole request, or the last one of a request to arrive.
IsTask(t) == hdr[t].kind = "task"

\* eth_process_poll and eth_process_recv: up to ETH_RX_MAX_BATCH of the
\* packets that have arrived by now.
Receive ==
  /\ npc = "recv"
  /\ \E n \in Slots :
       /\ n <= Len(rxq)
       /\ recv_mbufs' = SubSeq(rxq, 1, n)
       /\ rxq' = SubSeq(rxq, n + 1, Len(rxq))
  /\ npc' = "wait"
  /\ UNCHANGED <<hdr, idleList, answered, lost, nj, rq, live, mailVars, dispVars,
                 sharedVars, workVars>>

\* Fault: the networker does not wait for the mailbox.
FreeFinishedEarly ==
  /\ npc = "wait"
  /\ live' = live \ {reqs[i] : i \in 1..free_cnt}
  /\ free_cnt' = 0
  /\ npc' = "fill"
  /\ UNCHANGED <<leafVars, recv_mbufs, nj, rq, cnt, reqs, types, dispVars,
                 sharedVars, workVars>>

\* The spin on cnt, then the loop that frees what the dispatcher handed back.
FreeFinished ==
  /\ npc = "wait"
  /\ cnt = 0
  /\ live' = live \ {reqs[i] : i \in 1..free_cnt}
  /\ free_cnt' = 0
  /\ npc' = "fill"
  /\ UNCHANGED <<leafVars, recv_mbufs, nj, rq, cnt, reqs, types, dispVars,
                 sharedVars, workVars>>

\* What rq_update does to its list of cells: a packet that completes a request
\* takes the cell off the list, if the request had more than one packet; any
\* other begins a request, which is allocated with its cell there and then, or
\* joins one, or belongs to none (the leaf's control packets).  Nothing else
\* takes a cell off: one whose packets are lost stays for ever.
UpdateCells(t) ==
  IF IsTask(t)
  THEN rq' \in {rq} \cup {rq \ {f} : f \in rq}
  ELSE rq' \in {rq, rq \cup {t}}

\* One turn of the rq_update loop, in the order of arrival: a request takes
\* the next place of the mailbox, a packet that completes none takes nothing.
RqUpdate ==
  LET t == Head(recv_mbufs) IN
  /\ npc = "fill"
  /\ recv_mbufs # <<>>
  /\ recv_mbufs' = Tail(recv_mbufs)
  /\ IF IsTask(t)
     THEN /\ reqs' = [reqs EXCEPT ![nj + 1] = t]
          /\ types' = [types EXCEPT ![nj + 1] = hdr[t].core]
          /\ nj' = nj + 1
          /\ live' = live \cup {t}
     ELSE UNCHANGED <<reqs, types, nj, live>>
  /\ UpdateCells(t)
  /\ UNCHANGED <<leafVars, npc, cnt, free_cnt, dispVars, sharedVars, workVars>>

\* networker_pointers.cnt = j hands the mailbox to the dispatcher.
PostPointers ==
  /\ npc = "fill"
  /\ recv_mbufs = <<>>
  /\ cnt' = nj
  /\ nj' = 0
  /\ npc' = "recv"
  /\ UNCHANGED <<leafVars, recv_mbufs, rq, live, free_cnt, reqs, types, dispVars,
                 sharedVars, workVars>>

NetworkerNext == Receive \/ FreeFinished \/ RqUpdate \/ PostPointers
=============================================================================

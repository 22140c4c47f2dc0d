----------------------------- MODULE HorusState -----------------------------
(***************************************************************************)
(* The memory shared by the cores of a Horus server: one networker core,   *)
(* one dispatcher core and NumWorkers worker cores of one process, which    *)
(* talk only through the volatile globals of inc/ix/dispatch.h.  Networker, *)
(* Dispatcher and Worker add the steps of each core, Leaf the environment,  *)
(* and HorusServer composes them.                                           *)
(*                                                                         *)
(* A task is the identity of a packet sent to the server; the mbuf, the     *)
(* struct message in it and the struct request built from it all go by that *)
(* identity, and hdr[t] is the header of the packet.                        *)
(***************************************************************************)
EXTENDS Integers, Sequences, FiniteSets

CONSTANTS
  NumWorkers,   \* CFG.num_cpus - 2
  Batch,        \* ETH_RX_MAX_BATCH, also the length of networker_pointers.reqs
  RxDepth,      \* ETH_RX_MAX_DEPTH, the packets an eth_rx_queue holds
  MaxTasks,     \* bound of the model: packets the environment sends
  Contexts,     \* the elements of context_pool
  Null,         \* the C NULL
  Preemption,   \* handle_worker ends in `else preempt_worker`
  RequeueHead,  \* CFG.queue_settings: preempted tasks go to the head
  Booted,       \* every worker ran init_worker before the first packet
  SendFaults    \* udp_send_one may fail

Workers == 0..(NumWorkers - 1)
Tasks   == 1..MaxTasks
Slots   == 1..Batch

ASSUME SizeAssumption ==
  /\ NumWorkers \in Nat \ {0}
  /\ Batch \in Nat \ {0}
  /\ RxDepth \in Nat \ {0}
  /\ MaxTasks \in Nat
\* context_pool is a mempool with a fixed number of elements.
ASSUME ContextAssumption == IsFiniteSet(Contexts)
ASSUME FlagAssumption ==
  {Preemption, RequeueHead, Booted, SendFaults} \subseteq BOOLEAN

VARIABLES
  \* The environment.
  hdr,                 \* header of each packet sent so far
  rxq,                 \* the receive queue the networker polls
  idleList,            \* how often the leaf switch holds each worker as idle
  answered,            \* how many replies to each task went on the wire
  lost,                \* tasks dropped by the server, or whose reply was
  \* The networker core.
  npc, recv_mbufs,
  nj,                  \* `j`, the requests placed in the mailbox so far
  rq,                  \* the incomplete requests, each in a cell of `rq` and
                       \* named by the packet that began it
  live,                \* the requests rq_update returned and nobody freed
  \* The fields of networker_pointers, the mailbox between networker and
  \* dispatcher.
  cnt, free_cnt, reqs, types,
  \* The dispatcher core.
  dpc, di, ni,         \* its program counter and the two loop indexes
  acont,               \* `cont` of handle_networker
  tskq, frqueue, freeCtx, preempt_check,
  \* Shared by the dispatcher and the workers; the flag of each slot is kept
  \* apart from its other fields.
  request_flag,  dispatcher_requests,
  response_flag, worker_responses,
  queue_length, worker_state,
  ipi,                 \* a posted PREEMPT_VECTOR not delivered yet
  \* The worker cores.
  wpc, cont, finished, new_qlen,
  job,                 \* the packet each context was made to serve
  txq                  \* the worker's eth_tx_queue

leafVars   == <<hdr, rxq, idleList, answered, lost>>
netVars    == <<npc, recv_mbufs, nj, rq, live>>
mailVars   == <<cnt, free_cnt, reqs, types>>
dispVars   == <<dpc, di, ni, acont, tskq, frqueue, freeCtx, preempt_check>>
slotVars   == <<request_flag, dispatcher_requests, response_flag, worker_responses>>
sharedVars == <<slotVars, queue_length, worker_state, ipi>>
workVars   == <<wpc, cont, finished, new_qlen, job, txq>>
vars       == <<leafVars, netVars, mailVars, dispVars, sharedVars, workVars>>

WORKER_STATE_IDLE == 1
WORKER_STATE_BUSY == 0

\* The number of values of the uint16_t qlen field.
QlenMod == 65536

Header   == [kind : {"task", "other"}, core : Workers,
             type : {WORKER_STATE_IDLE, WORKER_STATE_BUSY}]

ASSUME NullAssumption == Null \notin Tasks \cup Contexts \cup Header

Reply    == [task : Tasks, idle : BOOLEAN, qlen : 0..(QlenMod - 1)]
Runnable == [rnbl : Contexts, req : Tasks, type : Workers,
             category : {"PACKET", "CONTEXT"}]
Content  == [rnbl : Contexts \cup {Null}, req : Tasks \cup {Null}, type : Workers,
             category : {"NOCONTENT", "PACKET", "CONTEXT"}]

LeafTypeOK ==
  /\ hdr \in [Tasks -> Header \cup {Null}]
  /\ rxq \in Seq(Tasks)
  /\ idleList \in [Workers -> Nat]
  /\ answered \in [Tasks -> Nat]
  /\ lost \subseteq Tasks

NetTypeOK ==
  /\ npc \in {"recv", "wait", "fill"}
  /\ recv_mbufs \in Seq(Tasks)
  /\ nj \in 0..Batch
  /\ rq \subseteq Tasks
  /\ live \subseteq Tasks
  /\ cnt \in 0..Batch
  /\ free_cnt \in 0..Batch
  /\ reqs \in [Slots -> Tasks \cup {Null}]
  /\ types \in [Slots -> Workers]

DispTypeOK ==
  /\ dpc \in {"worker", "activate", "networker", "accept", "mark", "release"}
  /\ di \in Workers
  /\ ni \in 1..(Batch + 1)
  /\ acont \in Contexts \cup {Null}
  /\ tskq \in [Workers -> Seq(Runnable)]
  /\ frqueue \in Seq(Tasks)
  /\ freeCtx \subseteq Contexts
  /\ preempt_check \in [Workers -> BOOLEAN]

SharedTypeOK ==
  /\ request_flag \in [Workers -> {"WAITING", "ACTIVE"}]
  /\ dispatcher_requests \in [Workers -> Content]
  /\ response_flag \in [Workers -> {"RUNNING", "FINISHED", "PREEMPTED", "PROCESSED"}]
  /\ worker_responses \in [Workers -> Content]
  /\ queue_length \in [Workers -> Int]
  /\ worker_state \in [Workers -> {WORKER_STATE_IDLE, WORKER_STATE_BUSY}]
  /\ ipi \in [Workers -> BOOLEAN]

WorkTypeOK ==
  /\ wpc \in [Workers -> {"init", "boot", "loop", "poll", "taken", "work",
                          "reply", "finish", "publish"}]
  /\ cont \in [Workers -> Contexts \cup {Null}]
  /\ finished \in [Workers -> BOOLEAN]
  /\ new_qlen \in [Workers -> 0..(QlenMod - 1)]
  /\ job \in [Contexts -> Tasks \cup {Null}]
  /\ txq \in [Workers -> Seq(Reply)]

\* Every variable holds a value its C type and the program counters allow:
\* among others no index leaves networker_pointers.reqs, no queue or slot
\* names a core that does not exist, and no queue holds a NULL request.
TypeOK == LeafTypeOK /\ NetTypeOK /\ DispTypeOK /\ SharedTypeOK /\ WorkTypeOK
=============================================================================

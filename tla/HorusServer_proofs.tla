------------------------- MODULE HorusServer_proofs -------------------------
(***************************************************************************)
(* Who owns the slots, the mailbox, each context and each request, and what *)
(* the slots, queues and counters hold, for every number of workers,        *)
(* contexts and tasks, every batch size and every setting of the four flags.*)
(*                                                                         *)
(* HandOffInv is inductive by itself: ownership follows from the flags, cnt *)
(* and the program counters, whatever the slots and queues hold.  The other *)
(* invariants hold together, in IInv: a slot holds a request because the    *)
(* queue it came from did (QueueContent), and keeps it because of who owns  *)
(* it (HandOffInv); types need contents, and the count of a core needs      *)
(* both.  There is one lemma per conjunct of IInv, with one step per action *)
(* that can disturb it.                                                     *)
(*                                                                         *)
(* That a context is in one place is inductive with IInv and SlotKept: a    *)
(* step that moves a context out of a place knows it is there and nowhere   *)
(* else.  Only then does no step but its own worker's change what a context *)
(* serves (SlotAddressed, QueueAddressed).                                  *)
(*                                                                         *)
(* Requests are conserved: one allocated by rq_update is in exactly one      *)
(* mailbox place, queue, slot or free list until the networker frees it, and *)
(* nowhere after that.  Each step that moves a request is described by what  *)
(* it does to the five kinds of place; the invariant then follows for the    *)
(* request that moves, for those a queue operation shifts, and for the       *)
(* others.                                                                  *)
(***************************************************************************)
EXTENDS HorusServer, SequenceTheorems, FiniteSetTheorems, TLAPS

USE DEF vars, leafVars, netVars, mailVars, dispVars, slotVars, sharedVars, workVars

-----------------------------------------------------------------------------
(* Ownership of the slots and of the mailbox.                               *)

\* Every slot starts with its worker waiting, or still to run init_worker, and
\* the mailbox with the networker.
LEMMA InitHandOff == Init => HandOffInv
  BY DEF Init, HandOffInv, HandOffTypes, SlotOwner, MailboxHandOff, Activating, Using, Idling

\* The steps outside the dispatcher and the workers leave the slots alone.
LEMMA LeafHandOff == HandOffInv /\ LeafNext => HandOffInv'
  BY DEF LeafNext, SelectIdle, SelectRandom, SendOther, Send, HandOffInv,
        HandOffTypes, SlotOwner, MailboxHandOff, Activating

\* The networker enters the mailbox only after it read cnt = 0 and leaves it by
\* writing cnt.
LEMMA NetworkerHandOff == HandOffInv /\ NetworkerNext => HandOffInv'
<1> SUFFICES ASSUME HandOffInv, NetworkerNext PROVE HandOffInv'
  OBVIOUS
<1> USE DEF HandOffInv
<1>1. SlotOwner'
  BY DEF NetworkerNext, Receive, FreeFinished, RqUpdate, PostPointers, SlotOwner, Activating
<1>2. HandOffTypes'
  BY DEF NetworkerNext, Receive, FreeFinished, RqUpdate, PostPointers, HandOffTypes
<1>3. MailboxHandOff'
  BY DEF NetworkerNext, Receive, FreeFinished, RqUpdate, PostPointers, HandOffTypes,
        MailboxHandOff
<1>4. QED
  BY <1>1, <1>2, <1>3

\* The dispatcher keeps cnt different from 0 while it is in the mailbox.
LEMMA HandleNetworkerHandOff == HandOffInv /\ HandleNetworker => HandOffInv'
<1> SUFFICES ASSUME HandOffInv, HandleNetworker PROVE HandOffInv'
  OBVIOUS
<1> USE DEF HandOffInv
<1>1. /\ UNCHANGED <<slotVars, wpc, di>>
      /\ dpc' # "activate" /\ dpc # "activate"
  BY DEF HandleNetworker, NoPackets, BeginPackets, DropRequest, AcceptRequest,
        EnqueueRequest, ReturnFinished, ReleasePointers, RequestEnqueue, ContextAlloc,
        EnterCore, BookSelection, TskqEnqueueTail, Returned
<1>2. SlotOwner'
  BY <1>1 DEF SlotOwner, Activating
<1>3. HandOffTypes'
  BY DEF HandleNetworker, NoPackets, BeginPackets, DropRequest, AcceptRequest,
        EnqueueRequest, ReturnFinished, ReleasePointers, HandOffTypes, RequestEnqueue,
        ContextAlloc, EnterCore, BookSelection, TskqEnqueueTail, Returned
<1>4. MailboxHandOff'
  BY DEF HandleNetworker, NoPackets, BeginPackets, DropRequest, AcceptRequest,
        EnqueueRequest, ReturnFinished, ReleasePointers, HandOffTypes, MailboxHandOff,
        RequestEnqueue, ContextAlloc, EnterCore, BookSelection, TskqEnqueueTail,
        Returned
<1>5. QED
  BY <1>2, <1>3, <1>4

\* A turn of handle_worker moves the slot's flags and the program counter.
LEMMA HandleWorkerHandOff ==
  ASSUME NEW w \in Workers PROVE HandOffInv /\ HandleWorker(w) => HandOffInv'
<1> SUFFICES ASSUME HandOffInv, HandleWorker(w) PROVE HandOffInv'
  OBVIOUS
<1> USE DEF HandOffInv, HandOffTypes
<1>0. UNCHANGED <<wpc, npc, cnt, free_cnt>>
  BY DEF HandleWorker, SkipWorker, PreemptWorker, HandleFinished, HandlePreempted,
        NothingToDispatch, DispatchRequest, ActivateRequest, NextTurn, Processed,
        ContextFree, LeaveCore, RequestEnqueue, TskqEnqueueHead, TskqEnqueueTail,
        TskqDequeue
<1>1. CASE SkipWorker(w) \/ NothingToDispatch(w)
  <2>1. UNCHANGED slotVars /\ dpc' \in {"worker", "networker"} /\ dpc = "worker"
    BY <1>1 DEF SkipWorker, NothingToDispatch, NextTurn, AtWorker
  <2>2. QED
    BY <1>0, <2>1 DEF SlotOwner, Activating, MailboxHandOff
<1>2. CASE PreemptWorker(w)
  <2>1. UNCHANGED slotVars /\ dpc' \in {"worker", "networker"} /\ dpc = "worker"
    BY <1>2 DEF PreemptWorker, NextTurn, AtWorker
  <2>2. QED
    BY <1>0, <2>1 DEF SlotOwner, Activating, MailboxHandOff
<1>3. CASE HandleFinished(w) \/ HandlePreempted(w)
  <2>1. /\ response_flag[w] \in {"FINISHED", "PREEMPTED"}
        /\ response_flag' = [response_flag EXCEPT ![w] = "PROCESSED"]
        /\ UNCHANGED <<request_flag, dpc, di>> /\ dpc = "worker"
    BY <1>3 DEF HandleFinished, HandlePreempted, Processed, AtWorker, ContextFree,
          LeaveCore, RequestEnqueue, TskqEnqueueHead, TskqEnqueueTail
  <2>2. QED
    BY <1>0, <2>1 DEF SlotOwner, Activating, MailboxHandOff
<1>4. CASE DispatchRequest(w)
  <2>1. /\ response_flag[w] = "PROCESSED"
        /\ response_flag' = [response_flag EXCEPT ![w] = "RUNNING"]
        /\ UNCHANGED <<request_flag, di>>
        /\ di = w /\ dpc = "worker" /\ dpc' = "activate"
    BY <1>4 DEF DispatchRequest, AtWorker, TskqDequeue
  <2>2. wpc[w] \in Idling
    BY <2>1 DEF SlotOwner, Using, Idling
  <2>3. QED
    BY <1>0, <2>1, <2>2 DEF SlotOwner, Activating, MailboxHandOff
<1>5. CASE ActivateRequest(w)
  <2>1. /\ Activating(w)
        /\ request_flag' = [request_flag EXCEPT ![w] = "ACTIVE"]
        /\ UNCHANGED response_flag
        /\ dpc = "activate" /\ dpc' \in {"worker", "networker"}
    BY <1>5 DEF ActivateRequest, Activating, NextTurn
  <2>2. QED
    BY <1>0, <2>1 DEF SlotOwner, Activating, MailboxHandOff
<1>6. QED
  BY <1>1, <1>2, <1>3, <1>4, <1>5 DEF HandleWorker

\* A worker moves its own program counter and flags only.
LEMMA WorkerHandOff ==
  ASSUME NEW w \in Workers PROVE HandOffInv /\ WorkerNext(w) => HandOffInv'
<1> SUFFICES ASSUME HandOffInv, WorkerNext(w) PROVE HandOffInv'
  OBVIOUS
<1> USE DEF HandOffInv, HandOffTypes, Goto
<1>0. UNCHANGED <<npc, cnt, free_cnt, dpc, di>>
  BY DEF WorkerNext, InitWorker, ResetWorkerState, ProcessSend, TakeRequest,
        StartRequest, PreemptHandler, ReadQueueLength, SendReply, FillResponse,
        PublishResponse, Outcome
<1>1. CASE InitWorker(w)
  BY <1>0, <1>1 DEF InitWorker, SlotOwner, Activating, Using, Idling, MailboxHandOff
<1>2. CASE TakeRequest(w)
  BY <1>0, <1>2 DEF TakeRequest, SlotOwner, Activating, Using, Idling, MailboxHandOff
<1>3. CASE PublishResponse(w)
  BY <1>0, <1>3 DEF PublishResponse, SlotOwner, Activating, Using, Idling,
        MailboxHandOff, Outcome
<1>4. CASE ProcessSend(w) \/ ResetWorkerState(w)
  BY <1>0, <1>4 DEF ProcessSend, ResetWorkerState, SlotOwner, Activating, Using, Idling, MailboxHandOff
<1>5. CASE StartRequest(w)
  BY <1>0, <1>5 DEF StartRequest, SlotOwner, Activating, Using, Idling, MailboxHandOff
<1>6. CASE PreemptHandler(w) \/ ReadQueueLength(w) \/ SendReply(w) \/ FillResponse(w)
  <2>1. /\ UNCHANGED <<request_flag, response_flag>>
        /\ \E p \in Using : wpc[w] \in Using /\ wpc' = [wpc EXCEPT ![w] = p]
    BY <1>6 DEF PreemptHandler, ReadQueueLength, SendReply, FillResponse, Using, Idling
  <2>2. QED
    BY <1>0, <2>1 DEF SlotOwner, Activating, Using, Idling, MailboxHandOff
<1>7. QED
  BY <1>1, <1>2, <1>3, <1>4, <1>5, <1>6 DEF WorkerNext

\* No step of any core breaks a hand-off.
LEMMA NextHandOff == HandOffInv /\ [Next]_vars => HandOffInv'
<1>1. HandOffInv /\ UNCHANGED vars => HandOffInv'
  BY DEF HandOffInv, HandOffTypes, SlotOwner, Activating, MailboxHandOff
<1>2. QED
  BY <1>1, LeafHandOff, NetworkerHandOff, HandleNetworkerHandOff, HandleWorkerHandOff,
     WorkerHandOff DEF Next, DispatcherNext

\* The hand-off invariant holds in every reachable state.
LEMMA HandOff == Spec => []HandOffInv
  BY InitHandOff, NextHandOff, PTL DEF Spec

\* The slots of dispatch.h are handed over, never shared: the dispatcher
\* writes a slot only before ACTIVE and takes a response only after the worker
\* has published it, for any number of workers and with or without preemption.
THEOREM SlotHandOffCorrect == Spec => []SlotHandOff
<1>1. HandOffInv => SlotHandOff
  BY DEF HandOffInv, HandOffTypes, SlotOwner, SlotHandOff, Activating, Using, Idling
<1>2. QED
  BY <1>1, HandOff, PTL

\* The mailbox of networker_pointers has one owner at a time, which cnt names.
THEOREM MailboxHandOffCorrect == Spec => []MailboxHandOff
<1>1. HandOffInv => MailboxHandOff
  BY DEF HandOffInv
<1>2. QED
  BY <1>1, HandOff, PTL

HIDE DEF vars, leafVars, netVars, mailVars, dispVars, slotVars, sharedVars, workVars

-----------------------------------------------------------------------------
(* The initial states.                                                      *)

\* The first state: empty queues, empty mailbox, nothing counted.
LEMMA InitIInv == Init => IInv
<1> SUFFICES ASSUME Init PROVE IInv
  OBVIOUS
<1> USE SizeAssumption, FlagAssumption DEF Init
<1>1. TypeOK
  <2>1. QlenMod \in Nat \ {0}
    BY DEF QlenMod
  <2>2. NoContent \in Content
    BY DEF NoContent, Content, Workers
  <2>3. LeafTypeOK /\ NetTypeOK /\ DispTypeOK
    BY DEF LeafTypeOK, NetTypeOK, DispTypeOK, Workers, Slots
  <2>4. SharedTypeOK /\ WorkTypeOK
    BY <2>1, <2>2 DEF SharedTypeOK, WorkTypeOK
  <2>5. QED
    BY <2>3, <2>4 DEF TypeOK
<1>2. HandOffInv
  BY InitHandOff
<1>3. NetworkerInv /\ MailboxInv
  BY DEF NetworkerInv, MailboxInv
<1>4. SlotContent /\ QueueContent
  BY DEF SlotContent, QueueContent, Activating, Using, Idling
<1>5. QueueLengthExact
  BY DEF QueueLengthExact, Served, Counted, InService
<1>6. IdleReportDue
  BY DEF IdleReportDue, WORKER_STATE_IDLE, WORKER_STATE_BUSY
<1>7. QED
  BY <1>1, <1>2, <1>3, <1>4, <1>5, <1>6 DEF IInv

-----------------------------------------------------------------------------
(* Types.                                                                   *)

\* Counting entries of a sequence gives a number.
LEMMA CountType ==
  ASSUME NEW S, NEW s \in Seq(S), NEW T \in SUBSET (DOMAIN s) PROVE Cardinality(T) \in Nat
<1>1. DOMAIN s = 1..Len(s) /\ Len(s) \in Nat
  OBVIOUS
<1>2. IsFiniteSet(1..Len(s))
  BY <1>1, FS_Interval
<1>3. IsFiniteSet(T)
  BY <1>1, <1>2, FS_Subset
<1>4. QED
  BY <1>3, FS_CardinalityType


\* Every step keeps the types of what surrounds the server.
LEMMA LeafTypeStep == IInv /\ [Next]_vars => LeafTypeOK'
<1>0. SUFFICES ASSUME IInv, [Next]_vars PROVE LeafTypeOK'
  OBVIOUS
<1>a. LeafTypeOK /\ NetTypeOK /\ DispTypeOK /\ WorkTypeOK /\ MailboxInv /\ SlotContent
  BY <1>0 DEF IInv, TypeOK
<1>1. CASE LeafNext
  <2>1. PICK t \in Tasks, w \in Workers, k \in {"task", "other"},
             ty \in {WORKER_STATE_IDLE, WORKER_STATE_BUSY} :
          /\ hdr' = [hdr EXCEPT ![t] = [kind |-> k, core |-> w, type |-> ty]]
          /\ EthRecv(t) /\ UNCHANGED answered
          /\ idleList' = idleList \/ (idleList[w] > 0 /\ idleList' = [idleList EXCEPT ![w] = @ - 1])
    BY <1>1, SizeAssumption DEF LeafNext, SelectIdle, SelectRandom, SendOther, Send, Unsent, Workers
  <2>2. hdr' \in [Tasks -> Header \cup {Null}]
    <3>1. [kind |-> k, core |-> w, type |-> ty] \in Header
      BY DEF Header
    <3>2. QED
      BY <1>a, <2>1, <3>1 DEF LeafTypeOK
  <2>3. rxq' \in Seq(Tasks) /\ lost' \subseteq Tasks
    <3>1. Append(rxq, t) \in Seq(Tasks)
      BY <1>a DEF LeafTypeOK
    <3>2. QED
      BY <1>a, <2>1, <3>1 DEF LeafTypeOK, EthRecv
  <2>4. idleList' \in [Workers -> Nat]
    BY <1>a, <2>1 DEF LeafTypeOK
  <2>5. QED
    BY <1>a, <2>1, <2>2, <2>3, <2>4 DEF LeafTypeOK
<1>2. CASE Receive
  BY <1>a, <1>2, SubSeqProperties DEF Receive, LeafTypeOK, Slots
<1>3. CASE DropRequest
  <2>1. reqs[ni] \in Tasks
    BY <1>a, <1>3, SizeAssumption DEF DropRequest, MailboxInv, DispTypeOK, NetTypeOK,
          RequestEnqueue
  <2>2. QED
    BY <1>a, <1>3, <2>1 DEF DropRequest, LeafTypeOK, RequestEnqueue
<1>4. ASSUME NEW w \in Workers, ProcessSend(w) PROVE LeafTypeOK'
  <2>1. txq[w] \in Seq(Reply)
    BY <1>a, <1>4 DEF WorkTypeOK
  <2>2. /\ \A t : Cardinality({i \in DOMAIN txq[w] : txq[w][i].task = t}) \in Nat
        /\ Cardinality({i \in DOMAIN txq[w] : txq[w][i].idle}) \in Nat
    BY <2>1, CountType
  <2>3. answered' \in [Tasks -> Nat]
    <3> DEFINE n(t) == Cardinality({i \in DOMAIN txq[w] : txq[w][i].task = t})
    <3>1. \A t : n(t) \in Nat
      BY <2>2
    <3>2. answered' = [t \in Tasks |-> answered[t] + n(t)]
      BY <1>4 DEF ProcessSend
    <3> HIDE DEF n
    <3>3. QED
      BY <1>a, <3>1, <3>2 DEF LeafTypeOK
  <2>4. idleList' \in [Workers -> Nat]
    BY <1>a, <1>4, <2>2 DEF ProcessSend, LeafTypeOK
  <2>5. UNCHANGED <<hdr, rxq, lost>>
    BY <1>4 DEF ProcessSend
  <2>6. QED
    BY <1>a, <2>3, <2>4, <2>5 DEF LeafTypeOK
<1>5. ASSUME NEW w \in Workers, SendReply(w) PROVE LeafTypeOK'
  <2>1. job[cont[w]] \in Tasks
    BY <1>a, <1>5 DEF SendReply, SlotContent, Started, Using, Idling, Goto
  <2>2. QED
    BY <1>a, <1>5, <2>1 DEF SendReply, LeafTypeOK
<1>6. CASE UNCHANGED leafVars
  BY <1>a, <1>6 DEF LeafTypeOK, leafVars
<1>7. QED
  BY <1>0, <1>1, <1>2, <1>3, <1>4, <1>5, <1>6 
     DEF Next, NetworkerNext, FreeFinished, RqUpdate, PostPointers, HandleNetworker,
           NoPackets, BeginPackets, AcceptRequest, EnqueueRequest, ReturnFinished,
           ReleasePointers, DispatcherNext, HandleWorker, SkipWorker, PreemptWorker,
           HandleFinished, HandlePreempted, NothingToDispatch, DispatchRequest,
           ActivateRequest, WorkerNext, InitWorker, ResetWorkerState, TakeRequest,
           StartRequest, PreemptHandler, ReadQueueLength, FillResponse,
           PublishResponse, vars, ContextAlloc, EnterCore, BookSelection,
           TskqEnqueueTail, Returned, ContextFree, LeaveCore, RequestEnqueue,
           TskqEnqueueHead, TskqDequeue, Outcome

\* Every step keeps the types of the networker's variables; nj and the
\* requests it places stay within the mailbox.
LEMMA NetTypeStep == IInv /\ [Next]_vars => NetTypeOK'
<1>0. SUFFICES ASSUME IInv, [Next]_vars PROVE NetTypeOK'
  OBVIOUS
<1>a. LeafTypeOK /\ NetTypeOK /\ DispTypeOK /\ NetworkerInv /\ MailboxHandOff
  BY <1>0 DEF IInv, TypeOK, HandOffInv
<1>1. CASE Receive
  BY <1>a, <1>1, SubSeqProperties DEF Receive, LeafTypeOK, NetTypeOK, Slots, mailVars
<1>2. CASE FreeFinished
  BY <1>a, <1>2, SizeAssumption DEF FreeFinished, NetTypeOK
<1>3. CASE RqUpdate
  <2>1. Head(recv_mbufs) \in Tasks /\ Tail(recv_mbufs) \in Seq(Tasks) /\ Len(recv_mbufs) > 0
    BY <1>a, <1>3 DEF RqUpdate, NetTypeOK
  <2>2. hdr[Head(recv_mbufs)].core \in Workers
    BY <1>a, <1>3, <2>1 DEF RqUpdate, NetworkerInv, LeafTypeOK, Header
  <2>3. nj + 1 \in Slots
    BY <1>a, <2>1, SizeAssumption DEF NetworkerInv, NetTypeOK, Slots
  <2>4. rq' \subseteq Tasks
    BY <1>a, <1>3, <2>1 DEF RqUpdate, UpdateCells, NetTypeOK
  <2>5. /\ nj' \in 0..Batch /\ live' \subseteq Tasks
        /\ reqs' \in [Slots -> Tasks \cup {Null}] /\ types' \in [Slots -> Workers]
    <3>1. PICK t \in Tasks : t = Head(recv_mbufs) /\ hdr[t].core \in Workers
      BY <2>1, <2>2
    <3>2. CASE IsTask(t)
      <4>1. /\ reqs' = [reqs EXCEPT ![nj + 1] = t] /\ nj' = nj + 1
            /\ types' = [types EXCEPT ![nj + 1] = hdr[t].core] /\ live' = live \cup {t}
        BY <1>3, <3>1, <3>2 DEF RqUpdate
      <4>2. QED
        BY <1>a, <2>3, <3>1, <4>1, SizeAssumption DEF NetTypeOK, Slots
    <3>3. CASE ~IsTask(t)
      <4>1. UNCHANGED <<reqs, types, nj, live>>
        BY <1>3, <3>1, <3>3 DEF RqUpdate
      <4>2. QED
        BY <1>a, <4>1 DEF NetTypeOK
    <3>4. QED
      BY <3>2, <3>3
  <2>6. UNCHANGED <<npc, cnt, free_cnt>> /\ recv_mbufs' = Tail(recv_mbufs)
    BY <1>3 DEF RqUpdate
  <2>7. QED
    BY <1>a, <2>1, <2>4, <2>5, <2>6 DEF NetTypeOK
<1>4. CASE PostPointers
  BY <1>a, <1>4, SizeAssumption DEF PostPointers, NetTypeOK
<1>5. CASE ReturnFinished
  <2> DEFINE n == IF Len(frqueue) < Batch THEN Len(frqueue) ELSE Batch
  <2>1. n \in 0..Batch /\ n <= Len(frqueue) /\ frqueue \in Seq(Tasks)
    BY <1>a, SizeAssumption DEF DispTypeOK
  <2>2. free_cnt = 0
    BY <1>a, <1>5 DEF ReturnFinished, MailboxHandOff, Returned
  <2>3. free_cnt' = 0 + n /\ reqs' = [i \in Slots |-> IF i <= n THEN frqueue[i] ELSE reqs[i]]
    BY <1>5, <2>2 DEF ReturnFinished, Returned
  <2>4. UNCHANGED <<netVars, cnt, types>>
    BY <1>5 DEF ReturnFinished, Returned
  <2> HIDE DEF n
  <2>5. reqs' \in [Slots -> Tasks \cup {Null}]
    BY <1>a, <2>1, <2>3 DEF NetTypeOK, Slots
  <2>6. QED
    BY <1>a, <2>1, <2>3, <2>4, <2>5 DEF NetTypeOK, netVars
<1>6. CASE ReleasePointers
  BY <1>a, <1>6, SizeAssumption DEF ReleasePointers, NetTypeOK, netVars
<1>7. CASE UNCHANGED <<netVars, mailVars>>
  BY <1>a, <1>7 DEF NetTypeOK, netVars, mailVars
<1>8. QED
  BY <1>0, <1>1, <1>2, <1>3, <1>4, <1>5, <1>6, <1>7
     DEF Next, LeafNext, SelectIdle, SelectRandom, SendOther, Send, NetworkerNext,
           HandleNetworker, NoPackets, BeginPackets, DropRequest, AcceptRequest,
           EnqueueRequest, DispatcherNext, HandleWorker, SkipWorker, PreemptWorker,
           HandleFinished, HandlePreempted, NothingToDispatch, DispatchRequest,
           ActivateRequest, WorkerNext, InitWorker, ResetWorkerState, ProcessSend,
           TakeRequest, StartRequest, PreemptHandler, ReadQueueLength, SendReply,
           FillResponse, PublishResponse, vars, RequestEnqueue, ContextAlloc,
           EnterCore, BookSelection, TskqEnqueueTail, ContextFree, LeaveCore,
           TskqEnqueueHead, TskqDequeue, Outcome

\* Every step keeps the types of the mailbox and the dispatcher's variables.
LEMMA DispTypeStep == IInv /\ [Next]_vars => DispTypeOK'
<1>0. SUFFICES ASSUME IInv, [Next]_vars PROVE DispTypeOK'
  OBVIOUS
<1>a. NetTypeOK /\ DispTypeOK /\ SharedTypeOK /\ MailboxInv /\ SlotContent
  BY <1>0 DEF IInv, TypeOK
<1>b. ASSUME NEW w \in Workers, NextTurn(w)
      PROVE di' \in Workers /\ dpc' \in {"worker", "networker"}
  BY <1>b, SizeAssumption DEF NextTurn, Workers
<1>1. ASSUME NEW w \in Workers, SkipWorker(w) \/ NothingToDispatch(w) \/ ActivateRequest(w)
      PROVE DispTypeOK'
  BY <1>a, <1>b, <1>1 DEF SkipWorker, NothingToDispatch, ActivateRequest, DispTypeOK
<1>2. ASSUME NEW w \in Workers, PreemptWorker(w) PROVE DispTypeOK'
  BY <1>a, <1>b, <1>2 DEF PreemptWorker, DispTypeOK
<1>3. ASSUME NEW w \in Workers, HandleFinished(w) PROVE DispTypeOK'
  <2>1. worker_responses[w].rnbl \in Contexts /\ worker_responses[w].req \in Tasks
    BY <1>a, <1>3 DEF HandleFinished, SlotContent, Runs, Runnable, ContextFree,
          LeaveCore, RequestEnqueue
  <2>2. <<worker_responses[w].req>> \o frqueue \in Seq(Tasks)
    BY <1>a, <2>1 DEF DispTypeOK
  <2>3. QED
    BY <1>a, <1>3, <2>1, <2>2 DEF HandleFinished, Processed, DispTypeOK, ContextFree,
          LeaveCore, RequestEnqueue
<1>4. ASSUME NEW w \in Workers, HandlePreempted(w) PROVE DispTypeOK'
  <2> DEFINE task == worker_responses[w]
  <2>1. task \in Runnable /\ task.type = w
    BY <1>a, <1>4 DEF HandlePreempted, SlotContent, Runs, TskqEnqueueHead,
          TskqEnqueueTail
  <2> HIDE DEF task
  <2>2. tskq[w] \in Seq(Runnable)
    BY <1>a, <1>4 DEF DispTypeOK
  <2>3. <<task>> \o tskq[w] \in Seq(Runnable) /\ Append(tskq[w], task) \in Seq(Runnable)
    BY <2>1, <2>2
  <2>4. tskq' = [tskq EXCEPT ![w] = <<task>> \o tskq[w]]
          \/ tskq' = [tskq EXCEPT ![w] = Append(tskq[w], task)]
    BY <1>4, <2>1 DEF HandlePreempted, task, TskqEnqueueHead, TskqEnqueueTail
  <2>5. tskq' \in [Workers -> Seq(Runnable)]
    BY <1>a, <2>3, <2>4 DEF DispTypeOK
  <2>6. /\ UNCHANGED <<dpc, di, ni, acont, frqueue, freeCtx>>
        /\ preempt_check' = [preempt_check EXCEPT ![w] = FALSE]
    BY <1>4 DEF HandlePreempted, Processed, TskqEnqueueHead, TskqEnqueueTail
  <2>7. QED
    BY <1>a, <2>5, <2>6 DEF DispTypeOK
<1>5. ASSUME NEW w \in Workers, DispatchRequest(w) PROVE DispTypeOK'
  <2>1. tskq[w] \in Seq(Runnable) /\ tskq[w] # <<>>
    BY <1>a, <1>5 DEF DispatchRequest, DispTypeOK, TskqDequeue
  <2>2. Tail(tskq[w]) \in Seq(Runnable)
    BY <2>1
  <2>3. QED
    BY <1>a, <1>5, <2>2 DEF DispatchRequest, DispTypeOK, TskqDequeue
<1>6. CASE NoPackets \/ BeginPackets \/ ReleasePointers
  BY <1>a, <1>6, SizeAssumption DEF NoPackets, BeginPackets, ReleasePointers, DispTypeOK
<1>7. CASE DropRequest
  <2>1. ni \in Slots /\ ni + 1 \in 1..(Batch + 1)
    BY <1>a, <1>7, SizeAssumption DEF DropRequest, DispTypeOK, NetTypeOK, Slots,
          RequestEnqueue
  <2>2. <<reqs[ni]>> \o frqueue \in Seq(Tasks)
    <3>1. reqs[ni] \in Tasks
      BY <1>a, <1>7, SizeAssumption DEF DropRequest, MailboxInv, DispTypeOK,
            NetTypeOK, RequestEnqueue
    <3>2. QED
      BY <1>a, <3>1 DEF DispTypeOK
  <2>3. QED
    BY <1>a, <1>7, <2>1, <2>2 DEF DropRequest, DispTypeOK, RequestEnqueue
<1>8. CASE AcceptRequest
  BY <1>a, <1>8 DEF AcceptRequest, DispTypeOK, ContextAlloc, EnterCore
<1>9. CASE EnqueueRequest
  <2> DEFINE task == [rnbl |-> acont, req |-> reqs[ni], type |-> types[ni],
                      category |-> "PACKET"]
  <2>1. ni \in Slots /\ ni \in 1..cnt /\ ni + 1 \in 1..(Batch + 1) /\ acont \in Contexts
    BY <1>a, <1>9, SizeAssumption DEF EnqueueRequest, MailboxInv, DispTypeOK,
          NetTypeOK, Slots, BookSelection, TskqEnqueueTail
  <2>2. types[ni] \in Workers /\ reqs[ni] \in Tasks
    BY <1>a, <2>1 DEF MailboxInv, NetTypeOK
  <2>3. task \in Runnable
    BY <2>1, <2>2 DEF Runnable
  <2>4. tskq' = [tskq EXCEPT ![types[ni]] = Append(tskq[types[ni]], task)]
    BY <1>9 DEF EnqueueRequest, BookSelection, TskqEnqueueTail
  <2> HIDE DEF task
  <2>5. tskq' \in [Workers -> Seq(Runnable)]
    <3>1. Append(tskq[types[ni]], task) \in Seq(Runnable)
      BY <1>a, <2>2, <2>3 DEF DispTypeOK
    <3>2. QED
      BY <1>a, <2>2, <2>4, <3>1 DEF DispTypeOK
  <2>6. ni' = ni + 1 /\ dpc' = "accept" /\ UNCHANGED <<di, acont, frqueue, freeCtx, preempt_check>>
    BY <1>9 DEF EnqueueRequest, BookSelection, TskqEnqueueTail
  <2>7. QED
    BY <1>a, <2>1, <2>5, <2>6 DEF DispTypeOK
<1>10. CASE ReturnFinished
  <2>1. \A n \in Nat : n <= Len(frqueue) => SubSeq(frqueue, n + 1, Len(frqueue)) \in Seq(Tasks)
    BY <1>a DEF DispTypeOK
  <2>2. frqueue' \in Seq(Tasks)
    BY <1>a, <1>10, <2>1, SizeAssumption DEF ReturnFinished, DispTypeOK, Returned
  <2>3. dpc' = "release" /\ UNCHANGED <<di, ni, acont, tskq, freeCtx, preempt_check>>
    BY <1>10 DEF ReturnFinished, Returned
  <2>4. QED
    BY <1>a, <2>2, <2>3 DEF DispTypeOK
<1>11. CASE UNCHANGED dispVars
  BY <1>a, <1>11 DEF DispTypeOK, dispVars
<1>12. QED
  BY <1>0, <1>1, <1>2, <1>3, <1>4, <1>5, <1>6, <1>7, <1>8, <1>9, <1>10, <1>11
     DEF Next, LeafNext, SelectIdle, SelectRandom, SendOther, Send, NetworkerNext,
           Receive, FreeFinished, RqUpdate, PostPointers, HandleNetworker,
           DispatcherNext, HandleWorker, WorkerNext, InitWorker, ResetWorkerState,
           ProcessSend, TakeRequest, StartRequest, PreemptHandler, ReadQueueLength,
           SendReply, FillResponse, PublishResponse, vars, Outcome

\* Every step keeps the types of the slots, queue_length and worker_state.
LEMMA SharedTypeStep == IInv /\ [Next]_vars => SharedTypeOK'
<1>0. SUFFICES ASSUME IInv, [Next]_vars PROVE SharedTypeOK'
  OBVIOUS
<1>a. /\ NetTypeOK /\ DispTypeOK /\ SharedTypeOK /\ WorkTypeOK
      /\ MailboxInv /\ SlotContent /\ QueueContent
  BY <1>0 DEF IInv, TypeOK
<1> USE DEF slotVars, sharedVars
<1>1. ASSUME NEW w \in Workers, PreemptWorker(w) PROVE SharedTypeOK'
  BY <1>a, <1>1 DEF PreemptWorker, SharedTypeOK
<1>2. ASSUME NEW w \in Workers, HandleFinished(w) PROVE SharedTypeOK'
  <2>1. worker_responses[w].type = w
    BY <1>a, <1>2 DEF HandleFinished, SlotContent, Runs, ContextFree, LeaveCore,
          RequestEnqueue
  <2>2. QED
    BY <1>a, <1>2, <2>1 DEF HandleFinished, Processed, SharedTypeOK, ContextFree,
          LeaveCore, RequestEnqueue
<1>3. ASSUME NEW w \in Workers, HandlePreempted(w) PROVE SharedTypeOK'
  BY <1>a, <1>3 DEF HandlePreempted, Processed, SharedTypeOK, TskqEnqueueHead,
        TskqEnqueueTail
<1>4. ASSUME NEW w \in Workers, DispatchRequest(w) PROVE SharedTypeOK'
  <2>1. Head(tskq[w]) \in Runnable
    BY <1>a, <1>4 DEF DispatchRequest, DispTypeOK, TskqDequeue
  <2>2. Head(tskq[w]) \in Content
    BY <2>1 DEF Runnable, Content
  <2>3. QED
    BY <1>a, <1>4, <2>2 DEF DispatchRequest, SharedTypeOK, TskqDequeue
<1>5. ASSUME NEW w \in Workers, ActivateRequest(w) PROVE SharedTypeOK'
  BY <1>a, <1>5 DEF ActivateRequest, SharedTypeOK
<1>6. CASE AcceptRequest
  <2>1. types[ni] \in Workers
    BY <1>a, <1>6, SizeAssumption DEF AcceptRequest, NetTypeOK, DispTypeOK, Slots,
          ContextAlloc, EnterCore
  <2>2. QED
    BY <1>a, <1>6, <2>1 DEF AcceptRequest, SharedTypeOK, ContextAlloc, EnterCore
<1>7. CASE EnqueueRequest
  <2>1. types[ni] \in Workers
    BY <1>a, <1>7, SizeAssumption DEF EnqueueRequest, MailboxInv, NetTypeOK,
          DispTypeOK, Slots, BookSelection, TskqEnqueueTail
  <2>2. QED
    BY <1>a, <1>7, <2>1 DEF EnqueueRequest, SharedTypeOK, BookSelection,
          TskqEnqueueTail
<1>8. ASSUME NEW w \in Workers, InitWorker(w) \/ ResetWorkerState(w) PROVE SharedTypeOK'
  BY <1>a, <1>8 DEF InitWorker, ResetWorkerState, SharedTypeOK
<1>9. ASSUME NEW w \in Workers, TakeRequest(w) \/ PreemptHandler(w) PROVE SharedTypeOK'
  BY <1>a, <1>9 DEF TakeRequest, PreemptHandler, SharedTypeOK
<1>10. ASSUME NEW w \in Workers, FillResponse(w) PROVE SharedTypeOK'
  <2>1. /\ dispatcher_requests[w].req \in Tasks
        /\ dispatcher_requests[w].type \in Workers /\ cont[w] \in Contexts
    BY <1>a, <1>10 DEF FillResponse, SlotContent, Runs, Runnable, Goto, Using, Idling
  <2>2. [rnbl |-> cont[w], req |-> dispatcher_requests[w].req,
         type |-> dispatcher_requests[w].type, category |-> "CONTEXT"] \in Content
    BY <2>1 DEF Content
  <2>3. QED
    BY <1>a, <1>10, <2>2 DEF FillResponse, SharedTypeOK
<1>11. ASSUME NEW w \in Workers, PublishResponse(w) PROVE SharedTypeOK'
  BY <1>a, <1>11 DEF PublishResponse, SharedTypeOK, Outcome
<1>12. CASE UNCHANGED sharedVars
  BY <1>a, <1>12 DEF SharedTypeOK
<1>13. QED
  BY <1>0, <1>1, <1>2, <1>3, <1>4, <1>5, <1>6, <1>7, <1>8, <1>9, <1>10, <1>11, <1>12
     DEF Next, LeafNext, SelectIdle, SelectRandom, SendOther, Send, NetworkerNext,
           Receive, FreeFinished, RqUpdate, PostPointers, HandleNetworker, NoPackets,
           BeginPackets, DropRequest, ReturnFinished, ReleasePointers, DispatcherNext,
           HandleWorker, SkipWorker, NothingToDispatch, WorkerNext, ProcessSend,
           StartRequest, ReadQueueLength, SendReply, vars, RequestEnqueue, Returned

\* Every step keeps the types of the workers' variables.
LEMMA WorkTypeStep == IInv /\ [Next]_vars => WorkTypeOK'
<1>0. SUFFICES ASSUME IInv, [Next]_vars PROVE WorkTypeOK'
  OBVIOUS
<1>a. SharedTypeOK /\ WorkTypeOK /\ HandOffInv /\ SlotContent
  BY <1>0 DEF IInv, TypeOK
<1> USE DEF Goto
<1>1. ASSUME NEW w \in Workers,
             InitWorker(w) \/ ResetWorkerState(w) \/ TakeRequest(w) \/ PreemptHandler(w) \/ FillResponse(w)
               \/ PublishResponse(w)
      PROVE WorkTypeOK'
  BY <1>a, <1>1 DEF InitWorker, ResetWorkerState, TakeRequest, PreemptHandler,
        FillResponse, PublishResponse, WorkTypeOK, Outcome
<1>2. ASSUME NEW w \in Workers, ProcessSend(w) PROVE WorkTypeOK'
  <2>1. <<>> \in Seq(Reply)
    OBVIOUS
  <2>2. QED
    BY <1>a, <1>2, <2>1 DEF ProcessSend, WorkTypeOK
<1>3. ASSUME NEW w \in Workers, StartRequest(w) PROVE WorkTypeOK'
  <2>1. dispatcher_requests[w].rnbl \in Contexts /\ dispatcher_requests[w].req \in Tasks
    BY <1>a, <1>3 DEF StartRequest, SlotContent, Using, Idling, Runs, Runnable
  <2>2. QED
    BY <1>a, <1>3, <2>1 DEF StartRequest, WorkTypeOK
<1>4. ASSUME NEW w \in Workers, ReadQueueLength(w) PROVE WorkTypeOK'
  <2>1. (queue_length[w] - 1) % QlenMod \in 0..(QlenMod - 1)
    <3>1. QlenMod \in Nat \ {0}
      BY DEF QlenMod
    <3>2. queue_length[w] - 1 \in Int
      BY <1>a, <1>4 DEF SharedTypeOK
    <3>3. \A m \in Nat \ {0} : \A n \in Int : n % m \in 0..(m - 1)
      OBVIOUS
    <3>4. QED
      BY <3>1, <3>2, <3>3
  <2>2. QED
    BY <1>a, <1>4, <2>1 DEF ReadQueueLength, WorkTypeOK
<1>5. ASSUME NEW w \in Workers, SendReply(w) PROVE WorkTypeOK'
  <2> DEFINE reply == [task |-> job[cont[w]], qlen |-> new_qlen[w],
                       idle |-> new_qlen[w] = 0 /\ worker_state[w] > 0]
  <2>1. job[cont[w]] \in Tasks
    BY <1>a, <1>5 DEF SendReply, SlotContent, Started, Using, Idling
  <2>2. reply \in Reply
    BY <1>a, <1>5, <2>1 DEF Reply, WorkTypeOK
  <2>3. txq' = txq \/ txq' = [txq EXCEPT ![w] = Append(txq[w], reply)]
    BY <1>5 DEF SendReply
  <2> HIDE DEF reply
  <2>4. txq' \in [Workers -> Seq(Reply)]
    <3>1. Append(txq[w], reply) \in Seq(Reply)
      BY <1>a, <1>5, <2>2 DEF WorkTypeOK
    <3>2. QED
      BY <1>a, <2>3, <3>1 DEF WorkTypeOK
  <2>5. /\ wpc' = [wpc EXCEPT ![w] = "finish"]
        /\ finished' = [finished EXCEPT ![w] = TRUE]
        /\ UNCHANGED <<cont, new_qlen, job>>
    BY <1>5 DEF SendReply
  <2>6. QED
    BY <1>a, <2>4, <2>5 DEF WorkTypeOK
<1>6. CASE UNCHANGED workVars
  BY <1>a, <1>6 DEF WorkTypeOK, workVars
<1>7. QED
  BY <1>0, <1>1, <1>2, <1>3, <1>4, <1>5, <1>6
     DEF Next, LeafNext, SelectIdle, SelectRandom, SendOther, Send, NetworkerNext,
           Receive, FreeFinished, RqUpdate, PostPointers, HandleNetworker, NoPackets,
           BeginPackets, DropRequest, AcceptRequest, EnqueueRequest, ReturnFinished,
           ReleasePointers, DispatcherNext, HandleWorker, SkipWorker, PreemptWorker,
           HandleFinished, HandlePreempted, NothingToDispatch, DispatchRequest,
           ActivateRequest, WorkerNext, vars, RequestEnqueue, ContextAlloc, EnterCore,
           BookSelection, TskqEnqueueTail, Returned, ContextFree, LeaveCore,
           TskqEnqueueHead, TskqDequeue

\* The networker only ever handles packets that were sent, at most a batch.
LEMMA NetworkerInvStep == IInv /\ [Next]_vars => NetworkerInv'
<1>0. SUFFICES ASSUME IInv, [Next]_vars PROVE NetworkerInv'
  OBVIOUS
<1>a. LeafTypeOK /\ NetTypeOK /\ NetworkerInv
  BY <1>0 DEF IInv, TypeOK
<1>1. CASE LeafNext
  <2>1. PICK t \in Tasks, h \in Header :
          hdr' = [hdr EXCEPT ![t] = h] /\ EthRecv(t) /\ UNCHANGED <<netVars, mailVars>>
    <3>1. \A k \in {"task", "other"}, w \in Workers, ty \in {WORKER_STATE_IDLE, WORKER_STATE_BUSY} :
            [kind |-> k, core |-> w, type |-> ty] \in Header
      BY DEF Header
    <3>2. 0 \in Workers
      BY SizeAssumption DEF Workers
    <3>3. QED
      BY <1>1, <3>1, <3>2 DEF LeafNext, SelectIdle, SelectRandom, SendOther, Send, Unsent
  <2>2. \A u \in Tasks : hdr[u] # Null => hdr'[u] # Null
    BY <1>a, <2>1, NullAssumption DEF LeafTypeOK
  <2>3. hdr'[t] # Null
    BY <1>a, <2>1, NullAssumption DEF LeafTypeOK
  <2>4. \A i \in 1..Len(rxq') : rxq'[i] \in Tasks /\ hdr'[rxq'[i]] # Null
    <3>1. CASE rxq' = Append(rxq, t)
      BY <1>a, <2>2, <2>3, <3>1 DEF LeafTypeOK, NetworkerInv
    <3>2. CASE rxq' = rxq
      BY <1>a, <2>2, <3>2 DEF LeafTypeOK, NetworkerInv
    <3>3. QED
      BY <2>1, <3>1, <3>2 DEF EthRecv
  <2>5. \A i \in 1..Len(recv_mbufs) : recv_mbufs[i] \in Tasks
    BY <1>a DEF NetTypeOK
  <2>6. QED
    BY <1>a, <2>1, <2>2, <2>4, <2>5 DEF NetworkerInv, netVars
<1>2. CASE Receive
  <2>1. PICK n \in Slots : /\ n <= Len(rxq)
                           /\ recv_mbufs' = SubSeq(rxq, 1, n)
                           /\ rxq' = SubSeq(rxq, n + 1, Len(rxq))
    BY <1>2 DEF Receive
  <2>2. /\ n \in Nat /\ n <= Batch /\ Len(rxq) \in Nat
        /\ Len(recv_mbufs') = n
        /\ \A i \in 1..n : recv_mbufs'[i] = rxq[i]
    BY <1>a, <2>1, SubSeqProperties, SizeAssumption DEF LeafTypeOK, Slots
  <2>3. /\ Len(rxq') = Len(rxq) - n
        /\ \A i \in 1..(Len(rxq) - n) : rxq'[i] = rxq[n + i]
    BY <1>a, <2>1, <2>2, SubSeqProperties DEF LeafTypeOK
  <2>4. npc = "recv" /\ npc' = "wait" /\ UNCHANGED <<hdr, nj>>
    BY <1>2 DEF Receive
  <2>5. QED
    BY <1>a, <2>1, <2>2, <2>3, <2>4 DEF NetworkerInv, NetTypeOK
<1>3. CASE FreeFinished
  BY <1>a, <1>3 DEF FreeFinished, NetworkerInv, leafVars
<1>4. CASE RqUpdate
  <2>1. /\ Len(recv_mbufs) \in Nat \ {0} /\ nj \in Nat
        /\ Len(recv_mbufs') = Len(recv_mbufs) - 1
        /\ \A i \in 1..Len(recv_mbufs') : recv_mbufs'[i] = recv_mbufs[i + 1]
    BY <1>a, <1>4 DEF RqUpdate, NetTypeOK
  <2>2. nj' \in {nj, nj + 1} /\ npc = "fill" /\ UNCHANGED <<hdr, rxq, npc>>
    BY <1>4 DEF RqUpdate, leafVars
  <2>3. \A i \in 1..Len(recv_mbufs') : hdr'[recv_mbufs'[i]] # Null
    <3>1. \A i \in 1..Len(recv_mbufs') : i + 1 \in 1..Len(recv_mbufs)
      BY <2>1
    <3>2. QED
      BY <1>a, <2>1, <2>2, <3>1 DEF NetworkerInv
  <2>4. nj' + Len(recv_mbufs') <= Batch
    BY <1>a, <2>1, <2>2, SizeAssumption DEF NetworkerInv
  <2>5. QED
    BY <1>a, <2>2, <2>3, <2>4 DEF NetworkerInv
<1>5. CASE PostPointers
  BY <1>a, <1>5, SizeAssumption DEF PostPointers, NetworkerInv, leafVars
<1>6. CASE UNCHANGED <<hdr, rxq, npc, recv_mbufs, nj>>
  BY <1>a, <1>6 DEF NetworkerInv
<1>7. QED
  BY <1>0, <1>1, <1>2, <1>3, <1>4, <1>5, <1>6
     DEF Next, NetworkerNext, leafVars, netVars, HandleNetworker, NoPackets,
           BeginPackets, DropRequest, AcceptRequest, EnqueueRequest, ReturnFinished,
           ReleasePointers, DispatcherNext, HandleWorker, SkipWorker, PreemptWorker,
           HandleFinished, HandlePreempted, NothingToDispatch, DispatchRequest,
           ActivateRequest, WorkerNext, InitWorker, ResetWorkerState, ProcessSend,
           TakeRequest, StartRequest, PreemptHandler, ReadQueueLength, SendReply,
           FillResponse, PublishResponse, vars, RequestEnqueue, ContextAlloc,
           EnterCore, BookSelection, TskqEnqueueTail, Returned, ContextFree,
           LeaveCore, TskqEnqueueHead, TskqDequeue, Outcome

\* A place of the mailbox that cnt, nj or ni covers holds a request.
LEMMA MailboxInvStep == IInv /\ [Next]_vars => MailboxInv'
<1>0. SUFFICES ASSUME IInv, [Next]_vars PROVE MailboxInv'
  OBVIOUS
<1>a. NetTypeOK /\ DispTypeOK /\ NetworkerInv /\ MailboxInv /\ MailboxHandOff
  BY <1>0 DEF IInv, TypeOK, HandOffInv
<1>1. CASE RqUpdate
  <2>1. Head(recv_mbufs) \in Tasks /\ Len(recv_mbufs) > 0 /\ nj + 1 \in Slots
    BY <1>a, <1>1, SizeAssumption DEF RqUpdate, NetworkerInv, NetTypeOK, Slots
  <2>2. npc = "fill" /\ cnt = 0 /\ UNCHANGED <<cnt, dpc, ni, acont>>
    BY <1>a, <1>1 DEF RqUpdate, MailboxHandOff, dispVars
  <2>3. CASE reqs' = [reqs EXCEPT ![nj + 1] = Head(recv_mbufs)] /\ nj' = nj + 1
    BY <1>a, <2>1, <2>2, <2>3 DEF MailboxInv, MailboxHandOff, NetTypeOK, Slots
  <2>4. CASE UNCHANGED <<reqs, nj>>
    BY <1>a, <2>2, <2>4 DEF MailboxInv, MailboxHandOff
  <2>5. QED
    BY <1>1, <2>3, <2>4 DEF RqUpdate
<1>2. CASE PostPointers
  BY <1>a, <1>2 DEF PostPointers, MailboxInv, MailboxHandOff, dispVars
<1>3. CASE BeginPackets
  BY <1>a, <1>3 DEF BeginPackets, MailboxInv, NetTypeOK, netVars, mailVars
<1>4. CASE DropRequest \/ AcceptRequest
  BY <1>a, <1>4, SizeAssumption
     DEF DropRequest, AcceptRequest, MailboxInv, NetTypeOK, DispTypeOK, netVars,
           mailVars, RequestEnqueue, ContextAlloc, EnterCore
<1>5. CASE EnqueueRequest
  <2>1. /\ dpc = "mark" /\ dpc' = "accept" /\ ni' = ni + 1
        /\ UNCHANGED <<netVars, mailVars>>
    BY <1>5 DEF EnqueueRequest, BookSelection, TskqEnqueueTail
  <2>2. QED
    BY <1>a, <2>1, SizeAssumption DEF MailboxInv, NetTypeOK, DispTypeOK, netVars, mailVars
<1>6. CASE ReturnFinished
  <2>1. dpc = "accept" /\ dpc' = "release" /\ UNCHANGED <<nj, npc, cnt>> /\ nj = 0
    BY <1>a, <1>6 DEF ReturnFinished, netVars, NetworkerInv, MailboxHandOff, Returned
  <2>2. \A i \in 1..cnt : reqs'[i] \in Tasks
    <3> DEFINE n == IF Len(frqueue) < Batch THEN Len(frqueue) ELSE Batch
    <3>1. reqs' = [i \in Slots |-> IF i <= n THEN frqueue[i] ELSE reqs[i]]
      BY <1>6 DEF ReturnFinished, Returned
    <3>2. n \in Nat /\ n <= Len(frqueue) /\ frqueue \in Seq(Tasks)
      BY <1>a, SizeAssumption DEF DispTypeOK
    <3> HIDE DEF n
    <3>3. QED
      BY <1>a, <3>1, <3>2, SizeAssumption DEF MailboxInv, NetTypeOK, Slots
  <2>3. QED
    BY <1>a, <2>1, <2>2 DEF MailboxInv
<1>7. CASE ReleasePointers
  BY <1>a, <1>7 DEF ReleasePointers, MailboxInv, netVars
<1>8. ASSUME NEW w \in Workers, HandleWorker(w) PROVE MailboxInv'
  <2>1. UNCHANGED <<netVars, mailVars, ni, acont>> /\ dpc' \notin {"accept", "mark"}
    BY <1>8 DEF HandleWorker, SkipWorker, PreemptWorker, HandleFinished,
          HandlePreempted, NothingToDispatch, DispatchRequest, ActivateRequest,
          AtWorker, NextTurn, ContextFree, LeaveCore, RequestEnqueue, TskqEnqueueHead,
          TskqEnqueueTail, TskqDequeue
  <2>2. QED
    BY <1>a, <2>1 DEF MailboxInv, netVars, mailVars
<1>9. CASE NoPackets
  BY <1>a, <1>9 DEF NoPackets, MailboxInv, netVars, mailVars
<1>10. CASE UNCHANGED <<nj, mailVars, dpc, ni, acont>>
  BY <1>a, <1>10 DEF MailboxInv, mailVars
<1>11. CASE FreeFinished
  BY <1>a, <1>11 DEF FreeFinished, MailboxInv, dispVars
<1>12. QED
  BY <1>0, <1>1, <1>2, <1>3, <1>4, <1>5, <1>6, <1>7, <1>8, <1>9, <1>10, <1>11
     DEF Next, LeafNext, SelectIdle, SelectRandom, SendOther, Send, NetworkerNext,
           Receive, HandleNetworker, DispatcherNext, netVars, dispVars, WorkerNext,
           InitWorker, ResetWorkerState, ProcessSend, TakeRequest, StartRequest,
           PreemptHandler, ReadQueueLength, SendReply, FillResponse, PublishResponse,
           vars, Outcome

\* A request a worker can run stays one: contexts, once started, stay so.
LEMMA RunsStable ==
  ASSUME IInv, [Next]_vars
  PROVE  /\ \A c \in Contexts : Started(c) => Started(c)'
         /\ \A w \in Workers : \A r : Runs(r, w) => Runs(r, w)'
<1>a. WorkTypeOK /\ SlotContent
  BY DEF IInv, TypeOK
<1>1. ASSUME NEW w \in Workers, StartRequest(w) PROVE \A c \in Contexts : Started(c) => Started(c)'
  <2>1. dispatcher_requests[w].req \in Tasks
    BY <1>a, <1>1 DEF StartRequest, SlotContent, Using, Idling, Runs, Runnable, Goto
  <2>2. \/ job' = job
        \/ job' = [job EXCEPT ![dispatcher_requests[w].rnbl] = dispatcher_requests[w].req]
    BY <1>1 DEF StartRequest
  <2>3. QED
    BY <1>a, <2>1, <2>2 DEF Started, WorkTypeOK
<1>2. ASSUME UNCHANGED job PROVE \A c \in Contexts : Started(c) => Started(c)'
  BY <1>2 DEF Started
<1>3. \A c \in Contexts : Started(c) => Started(c)'
  BY <1>1, <1>2
     DEF Next, LeafNext, SelectIdle, SelectRandom, SendOther, Send, NetworkerNext,
           Receive, FreeFinished, RqUpdate, PostPointers, HandleNetworker, NoPackets,
           BeginPackets, DropRequest, AcceptRequest, EnqueueRequest, ReturnFinished,
           ReleasePointers, DispatcherNext, HandleWorker, SkipWorker, PreemptWorker,
           HandleFinished, HandlePreempted, NothingToDispatch, DispatchRequest,
           ActivateRequest, WorkerNext, InitWorker, ResetWorkerState, ProcessSend,
           TakeRequest, PreemptHandler, ReadQueueLength, SendReply, FillResponse,
           PublishResponse, vars, workVars, RequestEnqueue, ContextAlloc, EnterCore,
           BookSelection, TskqEnqueueTail, Returned, ContextFree, LeaveCore,
           TskqEnqueueHead, TskqDequeue, Outcome
<1>4. QED
  BY <1>3 DEF Runs, Runnable

\* The slots keep holding what a worker can run while it may run it.
LEMMA SlotContentStep == IInv /\ HandOffInv' /\ [Next]_vars => SlotContent'
<1>0. SUFFICES ASSUME IInv, HandOffInv', [Next]_vars PROVE SlotContent'
  OBVIOUS
<1>a. /\ SharedTypeOK /\ WorkTypeOK /\ DispTypeOK
      /\ HandOffInv /\ SlotContent /\ QueueContent
  BY <1>0 DEF IInv, TypeOK
<1>b. /\ \A c \in Contexts : Started(c) => Started(c)'
      /\ \A w \in Workers : \A r : Runs(r, w) => Runs(r, w)'
  BY <1>0, RunsStable
<1> USE DEF slotVars, sharedVars, workVars
<1>1. CASE UNCHANGED <<slotVars, wpc, cont>> /\ dpc # "activate" /\ dpc' # "activate"
  BY <1>a, <1>b, <1>1 DEF SlotContent, Activating
<1>2. ASSUME NEW w \in Workers, HandleFinished(w) \/ HandlePreempted(w) PROVE SlotContent'
  <2>1. /\ response_flag' = [response_flag EXCEPT ![w] = "PROCESSED"]
        /\ UNCHANGED <<request_flag, dispatcher_requests, worker_responses, workVars, dpc, di>>
    BY <1>2 DEF HandleFinished, HandlePreempted, Processed, ContextFree, LeaveCore,
          RequestEnqueue, TskqEnqueueHead, TskqEnqueueTail
  <2>2. QED
    BY <1>a, <1>b, <1>2, <2>1 DEF SlotContent, SharedTypeOK, Activating
<1>3. ASSUME NEW w \in Workers, DispatchRequest(w) PROVE SlotContent'
  <2>1. /\ dispatcher_requests' = [dispatcher_requests EXCEPT ![w] = Head(tskq[w])]
        /\ response_flag' = [response_flag EXCEPT ![w] = "RUNNING"]
        /\ response_flag[w] = "PROCESSED" /\ dpc = "worker" /\ di = w /\ di' = w
        /\ UNCHANGED <<request_flag, worker_responses, workVars>>
    BY <1>3 DEF DispatchRequest, AtWorker, TskqDequeue
  <2>2. Runs(Head(tskq[w]), w)
    <3>1. tskq[w] # <<>> /\ tskq[w] \in Seq(Runnable)
      BY <1>a, <1>3 DEF DispatchRequest, DispTypeOK, TskqDequeue
    <3>2. 1 \in 1..Len(tskq[w]) /\ Head(tskq[w]) = tskq[w][1]
      BY <3>1
    <3>3. QED
      BY <1>a, <1>3, <3>2 DEF QueueContent
  <2>3. QED
    BY <1>a, <1>b, <1>3, <2>1, <2>2 DEF SlotContent, SharedTypeOK, Activating
<1>4. ASSUME NEW w \in Workers, ActivateRequest(w) PROVE SlotContent'
  <2>1. /\ request_flag' = [request_flag EXCEPT ![w] = "ACTIVE"] /\ Activating(w)
        /\ dpc' # "activate"
        /\ UNCHANGED <<dispatcher_requests, response_flag, worker_responses, workVars>>
    BY <1>4 DEF ActivateRequest, Activating, NextTurn
  <2>2. QED
    BY <1>a, <1>b, <1>4, <2>1 DEF SlotContent, SharedTypeOK, Activating
<1>5. ASSUME NEW w \in Workers, WorkerNext(w) PROVE SlotContent'
  <2>0. UNCHANGED dispVars /\ UNCHANGED dispatcher_requests
    BY <1>5 DEF WorkerNext, InitWorker, ResetWorkerState, ProcessSend, TakeRequest,
          StartRequest, PreemptHandler, ReadQueueLength, SendReply, FillResponse,
          PublishResponse, Outcome
  <2>1. CASE InitWorker(w) \/ ResetWorkerState(w) \/ ProcessSend(w) \/ TakeRequest(w)
    BY <1>a, <1>b, <1>5, <2>0, <2>1 DEF InitWorker, ResetWorkerState, ProcessSend,
          TakeRequest, Goto, SlotContent, SharedTypeOK, WorkTypeOK, Activating, Using,
          Idling, dispVars
  <2>2. CASE StartRequest(w)
    <3>1. /\ wpc[w] = "taken" /\ wpc' = [wpc EXCEPT ![w] = "work"]
          /\ cont' = [cont EXCEPT ![w] = dispatcher_requests[w].rnbl]
          /\ UNCHANGED slotVars
      BY <2>2 DEF StartRequest, Goto
    <3>2. Runs(dispatcher_requests[w], w)
      BY <1>a, <1>5, <3>1 DEF SlotContent, Using, Idling
    <3>3. dispatcher_requests[w].rnbl \in Contexts /\ Started(dispatcher_requests[w].rnbl)'
      BY <1>a, <1>b, <2>2, <3>2 DEF StartRequest, Runs, Runnable, Started, WorkTypeOK
    <3>4. QED
      BY <1>a, <1>b, <1>5, <2>0, <3>1, <3>3 DEF SlotContent, WorkTypeOK, Activating,
            Using, Idling, dispVars
  <2>3. CASE PreemptHandler(w) \/ ReadQueueLength(w) \/ SendReply(w)
    <3>1. /\ wpc[w] \in {"work", "reply"}
          /\ \E p \in {"reply", "finish"} : wpc' = [wpc EXCEPT ![w] = p]
          /\ UNCHANGED <<slotVars, cont>>
      BY <2>3 DEF PreemptHandler, ReadQueueLength, SendReply, Goto
    <3>2. QED
      BY <1>a, <1>b, <1>5, <2>0, <3>1 DEF SlotContent, WorkTypeOK, Activating, Using, Idling, dispVars
  <2>4. CASE FillResponse(w)
    <3> DEFINE resp == [rnbl |-> cont[w], req |-> dispatcher_requests[w].req,
                        type |-> dispatcher_requests[w].type, category |-> "CONTEXT"]
    <3>1. /\ wpc[w] = "finish" /\ wpc' = [wpc EXCEPT ![w] = "publish"]
          /\ worker_responses' = [worker_responses EXCEPT ![w] = resp]
          /\ UNCHANGED <<request_flag, response_flag, cont>>
      BY <2>4 DEF FillResponse, Goto
    <3>2. /\ cont[w] \in Contexts /\ Started(cont[w])
          /\ Runs(dispatcher_requests[w], w) /\ response_flag[w] = "RUNNING"
      BY <1>a, <1>5, <3>1 DEF SlotContent, Using, Idling, HandOffInv, SlotOwner
    <3>3. Runs(resp, w)
      BY <3>2 DEF Runs, Runnable
    <3> HIDE DEF resp
    <3>4. QED
      BY <1>a, <1>b, <1>5, <2>0, <3>1, <3>2, <3>3
         DEF SlotContent, SharedTypeOK, WorkTypeOK, Activating, Using, Idling, dispVars
  <2>5. CASE PublishResponse(w)
    <3>1. /\ wpc[w] = "publish" /\ wpc' = [wpc EXCEPT ![w] = "loop"]
          /\ \E f \in {"FINISHED", "PREEMPTED"} : response_flag' = [response_flag EXCEPT ![w] = f]
          /\ UNCHANGED <<request_flag, worker_responses, cont>>
      BY <2>5 DEF PublishResponse, Goto, Outcome
    <3>2. QED
      BY <1>a, <1>b, <1>5, <2>0, <3>1 DEF SlotContent, SharedTypeOK, WorkTypeOK,
            Activating, Using, Idling, dispVars
  <2>6. QED
    BY <1>5, <2>1, <2>2, <2>3, <2>4, <2>5 DEF WorkerNext
<1>6. ASSUME UNCHANGED <<slotVars, workVars, dpc, di>> PROVE SlotContent'
  BY <1>a, <1>b, <1>6 DEF SlotContent, Activating
<1>7. ASSUME NEW w \in Workers, SkipWorker(w) \/ PreemptWorker(w) \/ NothingToDispatch(w)
      PROVE SlotContent'
  <2>1. UNCHANGED <<slotVars, wpc, cont>> /\ dpc # "activate" /\ dpc' # "activate"
    BY <1>7 DEF SkipWorker, PreemptWorker, NothingToDispatch, AtWorker, NextTurn
  <2>2. QED
    BY <1>1, <2>1
<1>8. ASSUME HandleNetworker PROVE SlotContent'
  <2>1. UNCHANGED <<slotVars, wpc, cont>> /\ dpc # "activate" /\ dpc' # "activate"
    BY <1>8 DEF HandleNetworker, NoPackets, BeginPackets, DropRequest, AcceptRequest,
          EnqueueRequest, ReturnFinished, ReleasePointers, RequestEnqueue,
          ContextAlloc, EnterCore, BookSelection, TskqEnqueueTail, Returned
  <2>2. QED
    BY <1>1, <2>1
<1>9. QED
  BY <1>0, <1>2, <1>3, <1>4, <1>5, <1>6, <1>7, <1>8
     DEF Next, LeafNext, SelectIdle, SelectRandom, SendOther, Send, NetworkerNext,
           Receive, FreeFinished, RqUpdate, PostPointers, DispatcherNext,
           HandleWorker, dispVars, vars

\* What handle_networker or handle_preempted puts in a task queue can be run by
\* the worker of that queue, and stays so.
LEMMA QueueContentStep == IInv /\ [Next]_vars => QueueContent'
<1>0. SUFFICES ASSUME IInv, [Next]_vars PROVE QueueContent'
  OBVIOUS
<1>a. NetTypeOK /\ DispTypeOK /\ MailboxInv /\ SlotContent /\ QueueContent
  BY <1>0 DEF IInv, TypeOK
<1>b. \A w \in Workers : \A r : Runs(r, w) => Runs(r, w)'
  BY <1>0, RunsStable
<1>1. ASSUME NEW w \in Workers, HandlePreempted(w) PROVE QueueContent'
  <2> DEFINE task == worker_responses[w]
  <2>1. Runs(task, w) /\ task \in Runnable /\ task.type = w
    BY <1>a, <1>1 DEF HandlePreempted, SlotContent, Runs, TskqEnqueueHead,
          TskqEnqueueTail
  <2> HIDE DEF task
  <2>2. \/ tskq' = [tskq EXCEPT ![w] = <<task>> \o tskq[w]]
        \/ tskq' = [tskq EXCEPT ![w] = Append(tskq[w], task)]
    BY <1>1, <2>1 DEF HandlePreempted, task, TskqEnqueueHead, TskqEnqueueTail
  <2>3. tskq[w] \in Seq(Runnable)
    BY <1>a, <1>1 DEF DispTypeOK
  <2>4. \A i \in 1..Len(tskq'[w]) : \/ tskq'[w][i] = task
                                    \/ \E j \in 1..Len(tskq[w]) : tskq'[w][i] = tskq[w][j]
    <3>1. CASE tskq' = [tskq EXCEPT ![w] = <<task>> \o tskq[w]]
      <4>1. tskq'[w] = <<task>> \o tskq[w]
        BY <1>a, <1>1, <3>1 DEF DispTypeOK
      <4>2. \A i \in 1..Len(tskq'[w]) : i = 1 \/ (i - 1 \in 1..Len(tskq[w]) /\ tskq'[w][i] = tskq[w][i - 1])
        BY <2>1, <2>3, <4>1
      <4>3. tskq'[w][1] = task
        BY <2>1, <2>3, <4>1
      <4>4. QED
        BY <4>2, <4>3
    <3>2. CASE tskq' = [tskq EXCEPT ![w] = Append(tskq[w], task)]
      BY <1>a, <1>1, <2>1, <2>3, <3>2 DEF DispTypeOK
    <3>3. QED
      BY <2>2, <3>1, <3>2
  <2>5. \A v \in Workers \ {w} : tskq'[v] = tskq[v]
    BY <1>a, <2>2 DEF DispTypeOK
  <2>6. QED
    BY <1>a, <1>b, <1>1, <2>1, <2>4, <2>5 DEF QueueContent
<1>2. ASSUME NEW w \in Workers, DispatchRequest(w) PROVE QueueContent'
  <2>1. tskq[w] \in Seq(Runnable) /\ tskq[w] # <<>> /\ tskq' = [tskq EXCEPT ![w] = Tail(tskq[w])]
    BY <1>a, <1>2 DEF DispatchRequest, DispTypeOK, TskqDequeue
  <2>2. \A i \in 1..Len(Tail(tskq[w])) :
          i + 1 \in 1..Len(tskq[w]) /\ Tail(tskq[w])[i] = tskq[w][i + 1]
    BY <2>1
  <2>3. QED
    BY <1>a, <1>b, <1>2, <2>1, <2>2 DEF QueueContent, DispTypeOK
<1>3. CASE EnqueueRequest
  <2> DEFINE task == [rnbl |-> acont, req |-> reqs[ni], type |-> types[ni],
                      category |-> "PACKET"]
  <2>1. ni \in Slots /\ ni \in 1..cnt /\ acont \in Contexts
    BY <1>a, <1>3, SizeAssumption DEF EnqueueRequest, MailboxInv, DispTypeOK,
          NetTypeOK, Slots, BookSelection, TskqEnqueueTail
  <2>2. types[ni] \in Workers /\ reqs[ni] \in Tasks
    BY <1>a, <2>1 DEF MailboxInv, NetTypeOK
  <2>3. Runs(task, types[ni])
    BY <2>1, <2>2 DEF Runs, Runnable
  <2>4. tskq' = [tskq EXCEPT ![types[ni]] = Append(tskq[types[ni]], task)]
    BY <1>3 DEF EnqueueRequest, BookSelection, TskqEnqueueTail
  <2> HIDE DEF task
  <2>5. tskq[types[ni]] \in Seq(Runnable)
    BY <1>a, <2>2 DEF DispTypeOK
  <2>6. \A i \in 1..Len(tskq'[types[ni]]) :
          tskq'[types[ni]][i] = task \/ (i \in 1..Len(tskq[types[ni]])
                                          /\ tskq'[types[ni]][i] = tskq[types[ni]][i])
    BY <1>a, <2>2, <2>4, <2>5 DEF DispTypeOK
  <2>7. \A v \in Workers \ {types[ni]} : tskq'[v] = tskq[v]
    BY <1>a, <2>4 DEF DispTypeOK
  <2>8. QED
    BY <1>a, <1>b, <2>2, <2>3, <2>6, <2>7 DEF QueueContent
<1>4. CASE UNCHANGED tskq
  BY <1>a, <1>b, <1>4 DEF QueueContent
<1>5. QED
  BY <1>0, <1>1, <1>2, <1>3, <1>4
     DEF Next, LeafNext, SelectIdle, SelectRandom, SendOther, Send, NetworkerNext,
           Receive, FreeFinished, RqUpdate, PostPointers, HandleNetworker, NoPackets,
           BeginPackets, DropRequest, AcceptRequest, ReturnFinished, ReleasePointers,
           DispatcherNext, HandleWorker, SkipWorker, PreemptWorker, HandleFinished,
           NothingToDispatch, ActivateRequest, WorkerNext, InitWorker,
           ResetWorkerState, ProcessSend, TakeRequest, StartRequest, PreemptHandler,
           ReadQueueLength, SendReply, FillResponse, PublishResponse, vars, dispVars,
           RequestEnqueue, ContextAlloc, EnterCore, Returned, ContextFree, LeaveCore,
           Outcome

\* queue_length moves with the queue it counts: each step that changes the sum
\* of QueueLengthExact changes both sides of it for the same worker.
LEMMA QueueLengthStep == IInv /\ [Next]_vars => QueueLengthExact'
<1>0. SUFFICES ASSUME IInv, [Next]_vars PROVE QueueLengthExact'
  OBVIOUS
<1>a. /\ NetTypeOK /\ DispTypeOK /\ SharedTypeOK /\ WorkTypeOK /\ HandOffTypes
      /\ SlotOwner /\ MailboxHandOff /\ MailboxInv /\ SlotContent /\ QueueLengthExact
  BY <1>0 DEF IInv, TypeOK, HandOffInv
<1>b. \A v \in Workers : /\ Len(tskq[v]) \in Nat /\ queue_length[v] \in Int
                         /\ Served(v) \in {0, 1} /\ Counted(v) \in {0, 1}
  BY <1>a DEF DispTypeOK, SharedTypeOK, Served, Counted
<1> USE DEF slotVars, sharedVars, workVars, dispVars, mailVars
<1>1. ASSUME UNCHANGED <<tskq, queue_length, response_flag, types, ni>>,
             \A v \in Workers : wpc[v] = "init" <=> wpc'[v] = "init",
             dpc = "mark" <=> dpc' = "mark"
      PROVE QueueLengthExact'
  BY <1>a, <1>1 DEF QueueLengthExact, Served, Counted, InService
<1>2. ASSUME NEW w \in Workers, HandleFinished(w) PROVE QueueLengthExact'
  <2>1. worker_responses[w].type = w
    BY <1>a, <1>2 DEF HandleFinished, SlotContent, Runs, ContextFree, LeaveCore,
          RequestEnqueue
  <2>2. /\ queue_length' = [queue_length EXCEPT ![w] = queue_length[w] - 1]
        /\ response_flag' = [response_flag EXCEPT ![w] = "PROCESSED"]
        /\ response_flag[w] = "FINISHED" /\ dpc = "worker"
        /\ UNCHANGED <<tskq, wpc, dpc>>
    BY <1>2, <2>1 DEF HandleFinished, Processed, AtWorker, ContextFree, LeaveCore,
          RequestEnqueue
  <2>3. Served(w) = 1 /\ Served(w)' = 0
    BY <1>a, <1>2, <2>2 DEF Served, InService, SlotOwner, SharedTypeOK
  <2>4. \A v \in Workers \ {w} : Served(v)' = Served(v)
    BY <1>a, <2>2 DEF Served, InService, SharedTypeOK
  <2>5. \A v \in Workers : Counted(v)' = 0 /\ Counted(v) = 0
    BY <2>2 DEF Counted
  <2>6. QED
    BY <1>a, <1>b, <1>2, <2>2, <2>3, <2>4, <2>5 DEF QueueLengthExact, SharedTypeOK
<1>3. ASSUME NEW w \in Workers, HandlePreempted(w) PROVE QueueLengthExact'
  <2> DEFINE task == worker_responses[w]
  <2>1. task \in Runnable /\ task.type = w
    BY <1>a, <1>3 DEF HandlePreempted, SlotContent, Runs, TskqEnqueueHead,
          TskqEnqueueTail
  <2> HIDE DEF task
  <2>2. tskq[w] \in Seq(Runnable)
    BY <1>a, <1>3 DEF DispTypeOK
  <2>3. /\ Len(<<task>> \o tskq[w]) = Len(tskq[w]) + 1
        /\ Len(Append(tskq[w], task)) = Len(tskq[w]) + 1
    BY <2>1, <2>2
  <2>4. \E s : Len(s) = Len(tskq[w]) + 1 /\ tskq' = [tskq EXCEPT ![w] = s]
    BY <1>3, <2>1, <2>3 DEF HandlePreempted, task, TskqEnqueueHead, TskqEnqueueTail
  <2>5. /\ response_flag' = [response_flag EXCEPT ![w] = "PROCESSED"]
        /\ response_flag[w] = "PREEMPTED" /\ dpc = "worker"
        /\ UNCHANGED <<queue_length, wpc, dpc>>
    BY <1>3 DEF HandlePreempted, Processed, AtWorker, TskqEnqueueHead, TskqEnqueueTail
  <2>6. Served(w) = 1 /\ Served(w)' = 0
    BY <1>a, <1>3, <2>5 DEF Served, InService, SlotOwner, SharedTypeOK
  <2>7. \A v \in Workers \ {w} : Served(v)' = Served(v) /\ tskq'[v] = tskq[v]
    BY <1>a, <2>4, <2>5 DEF Served, InService, SharedTypeOK, DispTypeOK
  <2>8. \A v \in Workers : Counted(v)' = 0 /\ Counted(v) = 0
    BY <2>5 DEF Counted
  <2>9. Len(tskq'[w]) = Len(tskq[w]) + 1
    BY <1>a, <1>3, <2>4 DEF DispTypeOK
  <2>10. QED
    BY <1>a, <1>b, <1>3, <2>5, <2>6, <2>7, <2>8, <2>9 DEF QueueLengthExact
<1>4. ASSUME NEW w \in Workers, DispatchRequest(w) PROVE QueueLengthExact'
  <2>1. /\ tskq' = [tskq EXCEPT ![w] = Tail(tskq[w])]
        /\ response_flag' = [response_flag EXCEPT ![w] = "RUNNING"]
        /\ response_flag[w] = "PROCESSED" /\ dpc = "worker" /\ dpc' = "activate"
        /\ UNCHANGED <<queue_length, wpc>>
    BY <1>4 DEF DispatchRequest, AtWorker, TskqDequeue
  <2>2. Len(Tail(tskq[w])) = Len(tskq[w]) - 1
    BY <1>a, <1>4 DEF DispatchRequest, DispTypeOK, TskqDequeue
  <2>3. Served(w) = 0 /\ Served(w)' = 1
    BY <1>a, <1>4, <2>1 DEF Served, InService, SlotOwner, SharedTypeOK
  <2>4. \A v \in Workers \ {w} : Served(v)' = Served(v) /\ tskq'[v] = tskq[v]
    BY <1>a, <2>1 DEF Served, InService, SharedTypeOK, DispTypeOK
  <2>5. \A v \in Workers : Counted(v)' = 0 /\ Counted(v) = 0
    BY <2>1 DEF Counted
  <2>6. Len(tskq'[w]) = Len(tskq[w]) - 1
    BY <1>a, <1>4, <2>1, <2>2 DEF DispTypeOK
  <2>7. QED
    BY <1>a, <1>b, <1>4, <2>1, <2>3, <2>4, <2>5, <2>6 DEF QueueLengthExact
<1>5. CASE AcceptRequest
  <2>1. types[ni] \in Workers
    BY <1>a, <1>5, SizeAssumption DEF AcceptRequest, NetTypeOK, DispTypeOK, Slots,
          ContextAlloc, EnterCore
  <2>2. /\ queue_length' = [queue_length EXCEPT ![types[ni]] = queue_length[types[ni]] + 1]
        /\ dpc = "accept" /\ dpc' = "mark"
        /\ UNCHANGED <<tskq, wpc, response_flag, types, ni>>
    BY <1>5 DEF AcceptRequest, ContextAlloc, EnterCore
  <2>3. \A v \in Workers : Served(v)' = Served(v)
    BY <2>2 DEF Served, InService
  <2>4. \A v \in Workers : Counted(v) = 0 /\ Counted(v)' = IF v = types[ni] THEN 1 ELSE 0
    BY <2>2 DEF Counted
  <2>5. QED
    BY <1>a, <1>b, <2>1, <2>2, <2>3, <2>4 DEF QueueLengthExact, SharedTypeOK
<1>6. CASE EnqueueRequest
  <2>1. types[ni] \in Workers
    BY <1>a, <1>6, SizeAssumption DEF EnqueueRequest, MailboxInv, NetTypeOK,
          DispTypeOK, Slots, BookSelection, TskqEnqueueTail
  <2>2. \E task : tskq' = [tskq EXCEPT ![types[ni]] = Append(tskq[types[ni]], task)]
    BY <1>6 DEF EnqueueRequest, BookSelection, TskqEnqueueTail
  <2>3. \A task : Len(Append(tskq[types[ni]], task)) = Len(tskq[types[ni]]) + 1
    BY <1>a, <2>1 DEF DispTypeOK
  <2>4. /\ dpc = "mark" /\ dpc' = "accept"
        /\ UNCHANGED <<queue_length, wpc, response_flag>>
    BY <1>6 DEF EnqueueRequest, BookSelection, TskqEnqueueTail
  <2>5. \A v \in Workers : Served(v)' = Served(v)
    BY <2>4 DEF Served, InService
  <2>6. \A v \in Workers : Counted(v)' = 0 /\ Counted(v) = IF v = types[ni] THEN 1 ELSE 0
    BY <2>4 DEF Counted
  <2>7. /\ Len(tskq'[types[ni]]) = Len(tskq[types[ni]]) + 1
        /\ \A v \in Workers \ {types[ni]} : tskq'[v] = tskq[v]
    BY <1>a, <2>1, <2>2, <2>3 DEF DispTypeOK
  <2>8. QED
    BY <1>a, <1>b, <2>1, <2>4, <2>5, <2>6, <2>7 DEF QueueLengthExact
<1>7. ASSUME NEW w \in Workers, InitWorker(w) \/ PublishResponse(w) PROVE QueueLengthExact'
  <2>1. /\ UNCHANGED <<tskq, queue_length, dpc, types, ni>>
        /\ \A v \in Workers \ {w} : wpc'[v] = wpc[v] /\ response_flag'[v] = response_flag[v]
    BY <1>a, <1>7 DEF InitWorker, PublishResponse, Goto, HandOffTypes, Outcome
  <2>2. InService(w) <=> InService(w)'
    BY <1>a, <1>7 DEF InitWorker, PublishResponse, Goto, HandOffTypes, InService,
          SlotOwner, Using, Idling, Outcome
  <2>3. QED
    BY <1>a, <2>1, <2>2 DEF QueueLengthExact, Served, Counted, InService
<1>8. ASSUME NEW w \in Workers,
             \/ ResetWorkerState(w) \/ ProcessSend(w) \/ TakeRequest(w) \/ StartRequest(w)
             \/ PreemptHandler(w) \/ ReadQueueLength(w) \/ SendReply(w) \/ FillResponse(w)
      PROVE QueueLengthExact'
  <2>1. /\ UNCHANGED <<tskq, queue_length, response_flag, dpc, types, ni>>
        /\ \A v \in Workers : wpc[v] = "init" <=> wpc'[v] = "init"
    BY <1>a, <1>8 DEF ResetWorkerState, ProcessSend, TakeRequest, StartRequest,
          PreemptHandler, ReadQueueLength, SendReply, FillResponse, Goto, HandOffTypes
  <2>2. QED
    BY <1>1, <2>1
<1>9. CASE RqUpdate
  <2>1. dpc # "mark" /\ UNCHANGED <<tskq, queue_length, response_flag, wpc, dpc>>
    BY <1>a, <1>9 DEF RqUpdate, MailboxHandOff
  <2>2. QED
    BY <1>a, <2>1 DEF QueueLengthExact, Served, Counted, InService
<1>10. CASE NoPackets \/ BeginPackets \/ DropRequest \/ ReturnFinished \/ ReleasePointers
  <2>1. /\ UNCHANGED <<tskq, queue_length, response_flag, wpc>>
        /\ dpc # "mark" /\ dpc' # "mark"
    BY <1>10 DEF NoPackets, BeginPackets, DropRequest, ReturnFinished,
          ReleasePointers, RequestEnqueue, Returned
  <2>2. QED
    BY <1>a, <2>1 DEF QueueLengthExact, Served, Counted, InService
<1>11. ASSUME NEW w \in Workers,
              SkipWorker(w) \/ PreemptWorker(w) \/ NothingToDispatch(w) \/ ActivateRequest(w)
       PROVE QueueLengthExact'
  <2>1. /\ UNCHANGED <<tskq, queue_length, response_flag, wpc>>
        /\ dpc # "mark" /\ dpc' # "mark"
    BY <1>11 DEF SkipWorker, PreemptWorker, NothingToDispatch, ActivateRequest, AtWorker, NextTurn
  <2>2. QED
    BY <1>a, <2>1 DEF QueueLengthExact, Served, Counted, InService
<1>12. CASE LeafNext \/ Receive \/ FreeFinished \/ PostPointers \/ UNCHANGED vars
  <2>1. UNCHANGED <<tskq, queue_length, response_flag, wpc, dpc, types, ni>>
    BY <1>12 DEF LeafNext, SelectIdle, SelectRandom, SendOther, Send, Receive,
          FreeFinished, PostPointers, vars
  <2>2. QED
    BY <1>1, <2>1
<1>13. QED
  BY <1>0, <1>2, <1>3, <1>4, <1>5, <1>6, <1>7, <1>8, <1>9, <1>10, <1>11, <1>12
     DEF Next, NetworkerNext, DispatcherNext, HandleNetworker, HandleWorker, WorkerNext

\* Only EnqueueRequest books an idle selection, for a core whose queue_length
\* it has just raised, and HandleFinished clears it with the last task.
LEMMA IdleReportStep ==
  IInv /\ QueueLengthExact' /\ TypeOK' /\ [Next]_vars => IdleReportDue'
<1>0. SUFFICES ASSUME IInv, QueueLengthExact', TypeOK', [Next]_vars PROVE IdleReportDue'
  OBVIOUS
<1>a. /\ NetTypeOK /\ DispTypeOK /\ SharedTypeOK /\ MailboxInv /\ SlotContent
      /\ QueueLengthExact /\ IdleReportDue
  BY <1>0 DEF IInv, TypeOK
<1>b. \A v \in Workers : queue_length'[v] \in Nat /\ Len(tskq'[v]) \in Nat
  <2>1. \A v \in Workers : /\ Served(v)' \in {0, 1} /\ Counted(v)' \in {0, 1}
                           /\ Len(tskq'[v]) \in Nat
    BY <1>0 DEF TypeOK, DispTypeOK, Served, Counted
  <2>2. QED
    BY <1>0, <2>1 DEF QueueLengthExact
<1> USE DEF slotVars, sharedVars, workVars
<1>1. ASSUME NEW w \in Workers, HandleFinished(w) PROVE IdleReportDue'
  <2>1. worker_responses[w].type = w
    BY <1>a, <1>1 DEF HandleFinished, SlotContent, Runs, ContextFree, LeaveCore,
          RequestEnqueue
  <2>2. /\ queue_length' = [queue_length EXCEPT ![w] = queue_length[w] - 1]
        /\ worker_state' = IF queue_length[w] - 1 = 0
                           THEN [worker_state EXCEPT ![w] = WORKER_STATE_BUSY]
                           ELSE worker_state
    BY <1>1, <2>1 DEF HandleFinished, ContextFree, LeaveCore, RequestEnqueue
  <2>3. QED
    BY <1>a, <1>b, <1>1, <2>2
       DEF IdleReportDue, SharedTypeOK, WORKER_STATE_BUSY, WORKER_STATE_IDLE
<1>2. CASE AcceptRequest
  <2>1. types[ni] \in Workers
    BY <1>a, <1>2, SizeAssumption DEF AcceptRequest, NetTypeOK, DispTypeOK, Slots,
          ContextAlloc, EnterCore
  <2>2. QED
    BY <1>a, <1>2, <2>1 DEF AcceptRequest, IdleReportDue, SharedTypeOK, ContextAlloc,
          EnterCore
<1>3. CASE EnqueueRequest
  <2>1. types[ni] \in Workers
    BY <1>a, <1>3, SizeAssumption DEF EnqueueRequest, MailboxInv, NetTypeOK,
          DispTypeOK, Slots, BookSelection, TskqEnqueueTail
  <2>2. queue_length[types[ni]] > 0
    <3>1. Len(tskq[types[ni]]) \in Nat
      BY <1>a, <2>1 DEF DispTypeOK
    <3>2. Served(types[ni]) \in {0, 1} /\ Counted(types[ni]) = 1
      BY <1>3 DEF EnqueueRequest, Served, Counted, BookSelection, TskqEnqueueTail
    <3>3. QED
      BY <1>a, <2>1, <3>1, <3>2 DEF QueueLengthExact
  <2>3. /\ queue_length' = queue_length
        /\ \/ worker_state' = worker_state
           \/ worker_state' = [worker_state EXCEPT ![types[ni]] = WORKER_STATE_IDLE]
    BY <1>3 DEF EnqueueRequest, BookSelection, TskqEnqueueTail
  <2>4. QED
    BY <1>a, <2>1, <2>2, <2>3 DEF IdleReportDue, SharedTypeOK
<1>4. ASSUME NEW w \in Workers, ResetWorkerState(w) PROVE IdleReportDue'
  BY <1>a, <1>4 DEF ResetWorkerState, IdleReportDue, SharedTypeOK, WORKER_STATE_BUSY, WORKER_STATE_IDLE
<1>5. CASE UNCHANGED <<queue_length, worker_state>>
  BY <1>a, <1>5 DEF IdleReportDue
<1>6. QED
  BY <1>0, <1>1, <1>2, <1>3, <1>4, <1>5
     DEF Next, LeafNext, SelectIdle, SelectRandom, SendOther, Send, NetworkerNext,
           Receive, FreeFinished, RqUpdate, PostPointers, HandleNetworker, NoPackets,
           BeginPackets, DropRequest, ReturnFinished, ReleasePointers, DispatcherNext,
           HandleWorker, SkipWorker, PreemptWorker, HandlePreempted,
           NothingToDispatch, DispatchRequest, ActivateRequest, WorkerNext,
           InitWorker, ProcessSend, TakeRequest, StartRequest, PreemptHandler,
           ReadQueueLength, SendReply, FillResponse, PublishResponse, vars,
           RequestEnqueue, Returned, TskqEnqueueHead, TskqEnqueueTail, TskqDequeue,
           Outcome

-----------------------------------------------------------------------------
(* The theorems.                                                            *)

\* The invariant is inductive.
LEMMA NextIInv == IInv /\ [Next]_vars => IInv'
<1> SUFFICES ASSUME IInv, [Next]_vars PROVE IInv'
  OBVIOUS
<1>1. TypeOK'
  BY LeafTypeStep, NetTypeStep, DispTypeStep, SharedTypeStep, WorkTypeStep DEF TypeOK
<1>2. HandOffInv'
  BY NextHandOff DEF IInv
<1>3. QueueLengthExact'
  BY QueueLengthStep
<1>4. QED
  BY <1>1, <1>2, <1>3, NetworkerInvStep, MailboxInvStep, SlotContentStep, QueueContentStep,
     IdleReportStep DEF IInv

\* In every reachable state the hand-off flags, the queues, the slots and the
\* counters of the three kinds of core agree with one another: this conjunction
\* is inductive, so no single step of any core, from any state that satisfies
\* it, can break one of them.
THEOREM Inductive == Spec => []IInv
  BY InitIInv, NextIInv, PTL DEF Spec

\* No index of handle_networker or of the rq_update loop leaves the arrays of
\* networker_pointers, no slot or queue names a core or a request that does not
\* exist, and the counters keep their types.
THEOREM TypeCorrect == Spec => []TypeOK
<1>1. IInv => TypeOK
  BY DEF IInv
<1>2. QED
  BY <1>1, Inductive, PTL

\* queue_length, which worker cores read while the dispatcher changes it, is
\* always the number of tasks the dispatcher has accepted for the core and not
\* seen finished: neither preemption nor a slow init_worker makes it drift.
THEOREM QueueLengthCorrect == Spec => []QueueLengthExact
<1>1. IInv => QueueLengthExact
  BY DEF IInv
<1>2. QED
  BY <1>1, Inductive, PTL

\* A worker whose removal from the leaf's idle list is booked in worker_state
\* has a task left to answer, so a TASK_DONE_IDLE is still to come.
THEOREM IdleReportCorrect == Spec => []IdleReportDue
<1>1. IInv => IdleReportDue
  BY DEF IInv
<1>2. QED
  BY <1>1, Inductive, PTL

\* finish_request reads the dispatcher's slot a second time, after the request
\* ran: nobody has changed it, and nobody else has ended RUNNING.
THEOREM SlotStableCorrect == Spec => SlotStable
<1> USE DEF slotVars, sharedVars, vars
<1>1. ASSUME IInv, [Next]_vars, NEW w \in Workers, wpc[w] \in Using
      PROVE /\ dispatcher_requests'[w] = dispatcher_requests[w]
            /\ response_flag'[w] # response_flag[w] => wpc[w] = "publish"
  <2>a. /\ response_flag[w] = "RUNNING"
        /\ SharedTypeOK /\ HandOffTypes
    BY <1>1 DEF IInv, TypeOK, HandOffInv, SlotOwner
  <2>1. CASE LeafNext \/ NetworkerNext \/ HandleNetworker \/ UNCHANGED vars
    BY <2>1 DEF LeafNext, SelectIdle, SelectRandom, SendOther, Send, NetworkerNext,
          Receive, FreeFinished, RqUpdate, PostPointers, HandleNetworker, NoPackets,
          BeginPackets, DropRequest, AcceptRequest, EnqueueRequest, ReturnFinished,
          ReleasePointers, RequestEnqueue, ContextAlloc, EnterCore, BookSelection,
          TskqEnqueueTail, Returned
  <2>2. ASSUME NEW v \in Workers, HandleWorker(v)
        PROVE UNCHANGED <<response_flag[w], dispatcher_requests[w]>>
    <3>1. CASE SkipWorker(v) \/ PreemptWorker(v) \/ NothingToDispatch(v) \/ ActivateRequest(v)
      BY <3>1 DEF SkipWorker, PreemptWorker, NothingToDispatch, ActivateRequest
    <3>2. CASE HandleFinished(v) \/ HandlePreempted(v)
      BY <1>1, <2>a, <3>2 DEF HandleFinished, HandlePreempted, Processed,
            SharedTypeOK, ContextFree, LeaveCore, RequestEnqueue, TskqEnqueueHead,
            TskqEnqueueTail
    <3>3. CASE DispatchRequest(v)
      BY <1>1, <2>a, <3>3 DEF DispatchRequest, SharedTypeOK, TskqDequeue
    <3>4. QED
      BY <2>2, <3>1, <3>2, <3>3 DEF HandleWorker
  <2>3. ASSUME NEW v \in Workers, WorkerNext(v)
        PROVE /\ UNCHANGED dispatcher_requests
              /\ response_flag'[w] # response_flag[w] => wpc[w] = "publish"
    BY <1>1, <2>a, <2>3
       DEF WorkerNext, InitWorker, ResetWorkerState, ProcessSend, TakeRequest,
             StartRequest, PreemptHandler, ReadQueueLength, SendReply, FillResponse,
             PublishResponse, Goto, Using, Idling, HandOffTypes, Outcome
  <2>4. QED
    BY <1>1, <2>1, <2>2, <2>3 DEF Next, DispatcherNext
<1>2. IInv /\ [Next]_vars =>
        [\A w \in Workers : wpc[w] \in Using =>
           /\ dispatcher_requests'[w] = dispatcher_requests[w]
           /\ response_flag'[w] # response_flag[w] => wpc[w] = "publish"]_vars
  BY <1>1
<1>3. QED
  BY <1>2, Inductive, PTL DEF Spec, SlotStable

-----------------------------------------------------------------------------
(* The entries of a queue after an operation on it.                         *)

LEMMA Appended ==
  ASSUME NEW S, NEW s \in Seq(S), NEW e \in S
  PROVE  /\ Len(Append(s, e)) = Len(s) + 1 /\ Len(s) \in Nat
         /\ \A i \in 1..Len(s) : Append(s, e)[i] = s[i]
         /\ Append(s, e)[Len(s) + 1] = e
  OBVIOUS

LEMMA Prepended ==
  ASSUME NEW S, NEW s \in Seq(S), NEW e \in S
  PROVE  /\ Len(<<e>> \o s) = Len(s) + 1 /\ Len(s) \in Nat
         /\ \A i \in 1..Len(s) : (<<e>> \o s)[i + 1] = s[i]
         /\ (<<e>> \o s)[1] = e
  OBVIOUS

LEMMA Dequeued ==
  ASSUME NEW S, NEW s \in Seq(S), s # <<>>
  PROVE  /\ Len(Tail(s)) = Len(s) - 1 /\ Len(s) \in Nat \ {0}
         /\ \A i \in 2..Len(s) : Tail(s)[i - 1] = s[i]
         /\ Head(s) = s[1] /\ s[1] \in S
  OBVIOUS

\* The task handle_networker enqueues, and where.
LEMMA EnqueueTask ==
  ASSUME IInv, EnqueueRequest
  PROVE  /\ types[ni] \in Workers /\ acont \in Contexts /\ dpc = "mark"
         /\ ni \in 1..cnt /\ reqs[ni] \in Tasks
         /\ [rnbl |-> acont, req |-> reqs[ni], type |-> types[ni],
              category |-> "PACKET"] \in Runnable
<1>1. dpc = "mark" /\ NetTypeOK /\ DispTypeOK /\ MailboxInv
  BY DEF EnqueueRequest, IInv, TypeOK
<1>2. ni \in 1..cnt /\ ni \in Slots /\ acont \in Contexts
  BY <1>1, SizeAssumption DEF MailboxInv, NetTypeOK, DispTypeOK, Slots
<1>3. types[ni] \in Workers /\ reqs[ni] \in Tasks
  BY <1>1, <1>2 DEF MailboxInv, NetTypeOK
<1>4. QED
  BY <1>1, <1>2, <1>3 DEF Runnable

\* A response the dispatcher finds: the task is the one in its slot, and after
\* the step the worker is not in service.
LEMMA TakeResponse ==
  ASSUME IInv, SlotKept, NEW w \in Workers, HandleFinished(w) \/ HandlePreempted(w)
  PROVE  /\ dpc # "mark" /\ UNCHANGED <<dpc, dispatcher_requests, wpc>>
         /\ response_flag[w] \in {"FINISHED", "PREEMPTED"}
         /\ InService(w) /\ ~InService(w)'
         /\ \A v \in Workers \ {w} :
              response_flag'[v] = response_flag[v] /\ InService(v)' = InService(v)
         /\ Runs(worker_responses[w], w)
         /\ worker_responses[w].rnbl = dispatcher_requests[w].rnbl
         /\ worker_responses[w].req = dispatcher_requests[w].req
<1>1. /\ response_flag[w] \in {"FINISHED", "PREEMPTED"} /\ dpc = "worker"
      /\ response_flag' = [response_flag EXCEPT ![w] = "PROCESSED"]
      /\ UNCHANGED <<dpc, dispatcher_requests, wpc>>
  BY DEF HandleFinished, HandlePreempted, Processed, AtWorker, ContextFree, LeaveCore,
         RequestEnqueue, TskqEnqueueHead, TskqEnqueueTail, workVars
<1>2. HandOffTypes /\ SlotOwner /\ SlotContent
  BY DEF IInv, HandOffInv
<1>3. wpc[w] # "init"
  BY <1>1, <1>2 DEF SlotOwner
<1>4. QED
  BY <1>1, <1>2, <1>3 DEF InService, HandOffTypes, SlotContent, SlotKept

\* The queue after a preempted task is put back.
LEMMA RequeueTask ==
  ASSUME IInv, NEW w \in Workers, HandlePreempted(w)
  PROVE  /\ Len(tskq[w]) \in Nat /\ Len(tskq'[w]) = Len(tskq[w]) + 1
         /\ \A v \in Workers \ {w} : tskq'[v] = tskq[v]
         /\ RequeueHead =>
              /\ tskq'[w][1] = worker_responses[w]
              /\ \A i \in 1..Len(tskq[w]) : tskq'[w][i + 1] = tskq[w][i]
              /\ \A i \in 2..(Len(tskq[w]) + 1) : tskq'[w][i] = tskq[w][i - 1]
         /\ ~RequeueHead =>
              /\ tskq'[w][Len(tskq[w]) + 1] = worker_responses[w]
              /\ \A i \in 1..Len(tskq[w]) : tskq'[w][i] = tskq[w][i]
<1> DEFINE e == worker_responses[w]
           s == tskq[w]
<1>1. e \in Runnable /\ e.type = w /\ tskq \in [Workers -> Seq(Runnable)]
  BY DEF HandlePreempted, IInv, TypeOK, DispTypeOK, SlotContent, Runs
<1>2. tskq' = [tskq EXCEPT ![w] = IF RequeueHead THEN <<e>> \o s ELSE Append(s, e)]
  BY <1>1 DEF HandlePreempted, TskqEnqueueHead, TskqEnqueueTail
<1>3. s \in Seq(Runnable) /\ \A v \in Workers \ {w} : tskq'[v] = tskq[v]
  BY <1>1, <1>2
<1>4. tskq'[w] = IF RequeueHead THEN <<e>> \o s ELSE Append(s, e)
  BY <1>1, <1>2
<1> HIDE DEF e
<1>5. CASE RequeueHead
  <2>1. /\ tskq'[w] = <<e>> \o s /\ Len(s) \in Nat /\ Len(<<e>> \o s) = Len(s) + 1
        /\ \A i \in 1..Len(s) : (<<e>> \o s)[i + 1] = s[i]
        /\ (<<e>> \o s)[1] = e
    BY <1>1, <1>3, <1>4, <1>5, Prepended
  <2>2. \A i \in 2..(Len(s) + 1) : tskq'[w][i] = s[i - 1]
    <3>1. TAKE i \in 2..(Len(s) + 1)
    <3>2. i - 1 \in 1..Len(s) /\ (i - 1) + 1 = i
      BY <2>1
    <3>3. QED
      BY <2>1, <3>2
  <2>3. QED
    BY <1>3, <1>5, <2>1, <2>2 DEF e
<1>6. CASE ~RequeueHead
  <2>1. /\ tskq'[w] = Append(s, e) /\ Len(s) \in Nat /\ Len(Append(s, e)) = Len(s) + 1
        /\ \A i \in 1..Len(s) : Append(s, e)[i] = s[i]
        /\ Append(s, e)[Len(s) + 1] = e
    BY <1>1, <1>3, <1>4, <1>6, Appended
  <2>2. QED
    BY <1>3, <1>6, <2>1 DEF e
<1>7. QED
  BY <1>5, <1>6

\* A task dispatched: its worker was not in service, and is afterwards.
LEMMA TakeTask ==
  ASSUME IInv, NEW w \in Workers, DispatchRequest(w)
  PROVE  /\ dpc # "mark" /\ dpc' # "mark" /\ UNCHANGED wpc
         /\ ~InService(w) /\ InService(w)' /\ response_flag'[w] = "RUNNING"
         /\ wpc[w] \in Idling
         /\ \A v \in Workers \ {w} :
              /\ response_flag'[v] = response_flag[v] /\ InService(v)' = InService(v)
              /\ dispatcher_requests'[v] = dispatcher_requests[v]
              /\ tskq'[v] = tskq[v]
         /\ Len(tskq[w]) \in Nat \ {0} /\ tskq[w][1] \in Runnable
         /\ dispatcher_requests'[w] = tskq[w][1]
         /\ Len(tskq'[w]) = Len(tskq[w]) - 1
         /\ \A i \in 2..Len(tskq[w]) : tskq'[w][i - 1] = tskq[w][i]
<1>1. /\ response_flag[w] = "PROCESSED" /\ dpc = "worker" /\ dpc' = "activate"
      /\ response_flag' = [response_flag EXCEPT ![w] = "RUNNING"]
      /\ dispatcher_requests' = [dispatcher_requests EXCEPT ![w] = Head(tskq[w])]
      /\ tskq' = [tskq EXCEPT ![w] = Tail(tskq[w])] /\ tskq[w] # <<>>
      /\ UNCHANGED wpc
  BY DEF DispatchRequest, AtWorker, TskqDequeue, workVars
<1>2. HandOffTypes /\ SlotOwner /\ SharedTypeOK /\ DispTypeOK
  BY DEF IInv, HandOffInv, TypeOK
<1>3. wpc[w] \in Idling
  BY <1>1, <1>2 DEF SlotOwner, HandOffTypes, Using, Idling
<1>4. tskq[w] \in Seq(Runnable) /\ tskq'[w] = Tail(tskq[w])
  BY <1>1, <1>2 DEF DispTypeOK
<1>5. /\ Len(tskq[w]) \in Nat \ {0} /\ tskq[w][1] \in Runnable
      /\ Head(tskq[w]) = tskq[w][1]
      /\ Len(tskq'[w]) = Len(tskq[w]) - 1
      /\ \A i \in 2..Len(tskq[w]) : tskq'[w][i - 1] = tskq[w][i]
  <2> DEFINE s == tskq[w]
  <2>1. s \in Seq(Runnable) /\ s # <<>> /\ tskq'[w] = Tail(s)
    BY <1>1, <1>4
  <2> HIDE DEF s
  <2>2. /\ Len(Tail(s)) = Len(s) - 1 /\ Len(s) \in Nat \ {0}
        /\ \A i \in 2..Len(s) : Tail(s)[i - 1] = s[i]
        /\ Head(s) = s[1] /\ s[1] \in Runnable
    BY <2>1, Dequeued
  <2>3. QED
    BY <2>1, <2>2 DEF s
<1>6. QED
  BY <1>1, <1>2, <1>3, <1>5 DEF InService, HandOffTypes, SharedTypeOK, DispTypeOK, Idling

-----------------------------------------------------------------------------
(* Contexts: where one is, as a predicate.                                  *)

ContextAt(c, x, y, z) ==
  \/ x = "free" /\ y = 0 /\ z = 0 /\ c \in freeCtx
  \/ x = "accepting" /\ y = 0 /\ z = 0 /\ dpc = "mark" /\ acont = c
  \/ x = "tskq" /\ y \in Workers /\ z \in 1..Len(tskq[y]) /\ tskq[y][z].rnbl = c
  \/ x = "core" /\ y \in Workers /\ z = 0 /\ InService(y) /\ dispatcher_requests[y].rnbl = c

\* Context c is at the place <<k, v, i>> and nowhere else.
Only(c, k, v, i) == \A x, y, z : ContextAt(c, x, y, z) <=> x = k /\ y = v /\ z = i

ContextSomewhere == \A c \in Contexts : \E x, y, z : Only(c, x, y, z)

\* What a step does not change.
Unmoved(c) == \A x, y, z : ContextAt(c, x, y, z)' <=> ContextAt(c, x, y, z)

\* A context found somewhere is only there.
LEMMA FoundContext ==
  ASSUME ContextSomewhere, NEW c \in Contexts, NEW k, NEW v, NEW i, ContextAt(c, k, v, i)
  PROVE  Only(c, k, v, i)
  BY DEF ContextSomewhere, Only

\* What that says of each kind of place.
Exclusive(c, k, v, i) ==
  /\ c \in freeCtx => k = "free" /\ v = 0 /\ i = 0
  /\ dpc = "mark" /\ acont = c => k = "accepting" /\ v = 0 /\ i = 0
  /\ \A y \in Workers : \A z \in 1..Len(tskq[y]) :
       tskq[y][z].rnbl = c => k = "tskq" /\ v = y /\ i = z
  /\ \A y \in Workers :
       InService(y) /\ dispatcher_requests[y].rnbl = c => k = "core" /\ v = y /\ i = 0

LEMMA OnlyThere ==
  ASSUME NEW c, NEW k, NEW v, NEW i, Only(c, k, v, i) PROVE Exclusive(c, k, v, i)
<1>1. \A x, y, z : ContextAt(c, x, y, z) => x = k /\ y = v /\ z = i
  BY DEF Only
<1>2. ContextAt(c, "free", 0, 0) => k = "free" /\ v = 0 /\ i = 0
  BY <1>1
<1>3. ContextAt(c, "accepting", 0, 0) => k = "accepting" /\ v = 0 /\ i = 0
  BY <1>1
<1>4. \A y, z : ContextAt(c, "tskq", y, z) => k = "tskq" /\ v = y /\ i = z
  BY <1>1
<1>5. \A y : ContextAt(c, "core", y, 0) => k = "core" /\ v = y /\ i = 0
  BY <1>1
<1>6. QED
  BY <1>2, <1>3, <1>4, <1>5 DEF ContextAt, Exclusive

LEMMA OnlyNow ==
  ASSUME NEW c, NEW k, NEW v, NEW i, ContextAt(c, k, v, i)', Exclusive(c, k, v, i)'
  PROVE  Only(c, k, v, i)'
<1>1. ASSUME NEW x, NEW y, NEW z, ContextAt(c, x, y, z)'
      PROVE  x = k /\ y = v /\ z = i
  BY <1>1 DEF ContextAt, Exclusive
<1>2. QED
  BY <1>1 DEF Only

\* A context no step moved is still somewhere.
LEMMA StillThere ==
  ASSUME ContextSomewhere, NEW c \in Contexts, Unmoved(c)
  PROVE  \E x, y, z : Only(c, x, y, z)'
<1>1. PICK x, y, z : Only(c, x, y, z)
  BY DEF ContextSomewhere
<1>2. Only(c, x, y, z)'
  BY <1>1 DEF Only, Unmoved
<1>3. QED
  BY <1>2

\* The first state: every context is free.
LEMMA InitContexts == Init => ContextSomewhere
<1> SUFFICES ASSUME Init, NEW c \in Contexts
             PROVE Only(c, "free", 0, 0)
  BY DEF ContextSomewhere
<1>1. /\ freeCtx = Contexts /\ dpc = "worker"
      /\ \A w \in Workers : Len(tskq[w]) = 0 /\ ~InService(w)
  BY FlagAssumption DEF Init, InService
<1>2. QED
  BY <1>1 DEF Only, Unmoved, ContextAt

\* A step that moves no context.
LEMMA ContextsStay ==
  ASSUME ContextSomewhere,
         UNCHANGED <<freeCtx, acont, tskq, dispatcher_requests>>,
         dpc' = "mark" <=> dpc = "mark",
         \A w \in Workers : InService(w)' <=> InService(w)
  PROVE  ContextSomewhere'
<1>1. \A c : Unmoved(c)
  BY DEF Only, Unmoved, ContextAt
<1>2. QED
  BY <1>1 DEF ContextSomewhere, Only, Unmoved

\* context_alloc: a free context becomes the one being accepted.
LEMMA AcceptContexts ==
  ASSUME IInv, ContextSomewhere, AcceptRequest PROVE ContextSomewhere'
<1>1. PICK a \in freeCtx : acont' = a /\ freeCtx' = freeCtx \ {a}
  BY DEF AcceptRequest, ContextAlloc
<1>2. /\ UNCHANGED <<tskq, dispatcher_requests, response_flag, wpc>>
      /\ dpc # "mark" /\ dpc' = "mark" /\ freeCtx \subseteq Contexts
  BY DEF AcceptRequest, ContextAlloc, EnterCore, slotVars, workVars, IInv, TypeOK, DispTypeOK
<1>3. Only(a, "free", 0, 0)
  BY <1>1, <1>2, FoundContext DEF ContextAt
<1>4. ASSUME NEW c \in Contexts PROVE \E x, y, z : Only(c, x, y, z)'
  <2>1. CASE c = a
    <3>1. ContextAt(c, "accepting", 0, 0)' /\ Exclusive(c, "accepting", 0, 0)'
      BY <1>1, <1>2, <1>3, <2>1, OnlyThere DEF ContextAt, Exclusive, InService
    <3>2. QED
      BY <3>1, OnlyNow
  <2>2. CASE c # a
    <3>1. Unmoved(c)
      BY <1>1, <1>2, <2>2 DEF Unmoved, ContextAt, InService
    <3>2. QED
      BY <3>1, StillThere
  <2>3. QED
    BY <2>1, <2>2
<1>5. QED
  BY <1>4 DEF ContextSomewhere

\* The context accepted goes to the tail of a queue.
LEMMA EnqueueContexts ==
  ASSUME IInv, ContextSomewhere, EnqueueRequest PROVE ContextSomewhere'
<1>1. PICK k \in Workers, n \in Nat, a \in Contexts :
        k = types[ni] /\ n = Len(tskq[k]) /\ a = acont
  BY EnqueueTask DEF IInv, TypeOK, DispTypeOK
<1> DEFINE task == [rnbl |-> acont, req |-> reqs[ni], type |-> types[ni],
                    category |-> "PACKET"]
<1>2. /\ task \in Runnable /\ task.rnbl = a /\ dpc = "mark"
      /\ UNCHANGED <<freeCtx, dispatcher_requests, response_flag, wpc>>
      /\ dpc' = "accept" /\ tskq' = [tskq EXCEPT ![k] = Append(tskq[k], task)]
  BY <1>1, EnqueueTask DEF EnqueueRequest, BookSelection, TskqEnqueueTail, slotVars, workVars
<1>3. tskq \in [Workers -> Seq(Runnable)]
  BY DEF IInv, TypeOK, DispTypeOK
<1> HIDE DEF task
<1>4. /\ Len(tskq'[k]) = n + 1 /\ tskq'[k][n + 1].rnbl = a
      /\ \A i \in 1..n : tskq'[k][i] = tskq[k][i]
      /\ \A v \in Workers \ {k} : tskq'[v] = tskq[v]
  <2>1. tskq'[k] = Append(tskq[k], task) /\ tskq[k] \in Seq(Runnable)
    BY <1>2, <1>3
  <2>2. QED
    BY <1>1, <1>2, <1>3, <2>1, Appended
<1>5. Only(a, "accepting", 0, 0)
  BY <1>1, <1>2, FoundContext DEF ContextAt
<1>6. ASSUME NEW c \in Contexts PROVE \E x, y, z : Only(c, x, y, z)'
  <2>1. CASE c = a
    <3>1. Exclusive(c, "accepting", 0, 0)
      BY <1>5, <2>1, OnlyThere
    <3>2. \A y \in Workers : \A z \in 1..Len(tskq'[y]) :
            tskq'[y][z].rnbl = c => y = k /\ z = n + 1
      <4>1. \A y \in Workers : \A z \in 1..Len(tskq[y]) : tskq[y][z].rnbl # c
        BY <3>1 DEF Exclusive
      <4>2. \A z \in 1..n : tskq'[k][z].rnbl # c
        BY <1>1, <1>4, <4>1
      <4>3. \A z \in 1..(n + 1) : z \in 1..n \/ z = n + 1
        BY <1>1
      <4>4. \A z \in 1..Len(tskq'[k]) : tskq'[k][z].rnbl = c => z = n + 1
        BY <1>1, <1>4, <4>2, <4>3
      <4>5. \A y \in Workers \ {k} : \A z \in 1..Len(tskq'[y]) : tskq'[y][z].rnbl # c
        BY <1>1, <1>4, <4>1
      <4>6. QED
        BY <4>4, <4>5
    <3>3. Exclusive(c, "tskq", k, n + 1)'
      BY <1>2, <3>1, <3>2 DEF Exclusive, InService
    <3>4. ContextAt(c, "tskq", k, n + 1)'
      BY <1>4, <2>1 DEF ContextAt
    <3>5. QED
      BY <3>3, <3>4, OnlyNow
  <2>2. CASE c # a
    <3>1. \A y \in Workers : \A z : ContextAt(c, "tskq", y, z)' <=> ContextAt(c, "tskq", y, z)
      BY <1>1, <1>4, <2>2 DEF ContextAt
    <3>2. Unmoved(c)
      BY <1>1, <1>2, <2>2, <3>1 DEF Unmoved, ContextAt, InService
    <3>3. QED
      BY <3>2, StillThere
  <2>3. QED
    BY <2>1, <2>2
<1>7. QED
  BY <1>6 DEF ContextSomewhere

\* A finished task's context becomes free.
LEMMA FinishedContexts ==
  ASSUME IInv, SlotKept, ContextSomewhere, NEW w \in Workers, HandleFinished(w)
  PROVE  ContextSomewhere'
<1> DEFINE a == worker_responses[w].rnbl
<1>1. /\ dpc # "mark" /\ UNCHANGED <<dpc, dispatcher_requests>>
      /\ InService(w) /\ ~InService(w)' /\ dispatcher_requests[w].rnbl = a
      /\ \A v \in Workers \ {w} : InService(v)' = InService(v)
      /\ a \in Contexts
  BY TakeResponse DEF Runs, Runnable
<1>2. freeCtx' = freeCtx \cup {a} /\ UNCHANGED tskq
  BY DEF HandleFinished, ContextFree
<1> HIDE DEF a
<1>3. Only(a, "core", w, 0)
  BY <1>1, FoundContext DEF ContextAt
<1>4. ASSUME NEW c \in Contexts PROVE \E x, y, z : Only(c, x, y, z)'
  <2>1. CASE c = a
    <3>1. ContextAt(c, "free", 0, 0)' /\ Exclusive(c, "free", 0, 0)'
      BY <1>1, <1>2, <1>3, <2>1, OnlyThere DEF ContextAt, Exclusive
    <3>2. QED
      BY <3>1, OnlyNow
  <2>2. CASE c # a
    <3>1. Unmoved(c)
      BY <1>1, <1>2, <2>2 DEF Unmoved, ContextAt
    <3>2. QED
      BY <3>1, StillThere
  <2>3. QED
    BY <2>1, <2>2
<1>5. QED
  BY <1>4 DEF ContextSomewhere

\* A preempted task takes its context along, to the tail of the queue ...
LEMMA AppendedContexts ==
  ASSUME IInv, SlotKept, ContextSomewhere, NEW w \in Workers, HandlePreempted(w),
         ~RequeueHead
  PROVE  ContextSomewhere'
<1>0. PICK n \in Nat, a \in Contexts : n = Len(tskq[w]) /\ a = worker_responses[w].rnbl
  <2>1. Len(tskq[w]) \in Nat
    BY RequeueTask
  <2>2. worker_responses[w].rnbl \in Contexts
    BY TakeResponse DEF HandlePreempted, Runs, Runnable
  <2>3. QED
    BY <2>1, <2>2
<1>1. /\ dpc # "mark" /\ UNCHANGED <<dpc, dispatcher_requests, freeCtx>>
      /\ InService(w) /\ ~InService(w)' /\ dispatcher_requests[w].rnbl = a
      /\ \A v \in Workers \ {w} : InService(v)' = InService(v)
  BY <1>0, TakeResponse DEF HandlePreempted
<1>2. /\ Len(tskq'[w]) = n + 1 /\ tskq'[w][n + 1].rnbl = a
      /\ \A i \in 1..n : tskq'[w][i] = tskq[w][i]
      /\ \A v \in Workers \ {w} : tskq'[v] = tskq[v]
  BY <1>0, RequeueTask
<1>3. Only(a, "core", w, 0)
  BY <1>1, FoundContext DEF ContextAt
<1>4. ASSUME NEW c \in Contexts PROVE \E x, y, z : Only(c, x, y, z)'
  <2>1. CASE c = a
    <3>1. Exclusive(c, "core", w, 0)
      BY <1>3, <2>1, OnlyThere
    <3>2. \A y \in Workers : \A z \in 1..Len(tskq'[y]) :
            tskq'[y][z].rnbl = c => y = w /\ z = n + 1
      <4>1. \A y \in Workers : \A z \in 1..Len(tskq[y]) : tskq[y][z].rnbl # c
        BY <3>1 DEF Exclusive
      <4>2. \A z \in 1..n : tskq'[w][z].rnbl # c
        BY <1>0, <1>2, <4>1
      <4>3. \A z \in 1..(n + 1) : z \in 1..n \/ z = n + 1
        BY <1>0
      <4>4. \A z \in 1..Len(tskq'[w]) : tskq'[w][z].rnbl = c => z = n + 1
        BY <1>0, <1>2, <4>2, <4>3
      <4>5. \A y \in Workers \ {w} : \A z \in 1..Len(tskq'[y]) : tskq'[y][z].rnbl # c
        BY <1>0, <1>2, <4>1
      <4>6. QED
        BY <4>4, <4>5
    <3>3. Exclusive(c, "tskq", w, n + 1)'
      BY <1>1, <3>1, <3>2 DEF Exclusive
    <3>4. ContextAt(c, "tskq", w, n + 1)'
      BY <1>2, <2>1 DEF ContextAt
    <3>5. QED
      BY <3>3, <3>4, OnlyNow
  <2>2. CASE c # a
    <3>1. \A y \in Workers : \A z : ContextAt(c, "tskq", y, z)' <=> ContextAt(c, "tskq", y, z)
      BY <1>0, <1>2, <2>2 DEF ContextAt
    <3>2. Unmoved(c)
      BY <1>1, <2>2, <3>1 DEF Unmoved, ContextAt
    <3>3. QED
      BY <3>2, StillThere
  <2>3. QED
    BY <2>1, <2>2
<1>5. QED
  BY <1>4 DEF ContextSomewhere

\* ... or to its head, in front of the others.
LEMMA PrependedContexts ==
  ASSUME IInv, SlotKept, ContextSomewhere, NEW w \in Workers, HandlePreempted(w),
         RequeueHead
  PROVE  ContextSomewhere'
<1>0. PICK n \in Nat, a \in Contexts : n = Len(tskq[w]) /\ a = worker_responses[w].rnbl
  <2>1. Len(tskq[w]) \in Nat
    BY RequeueTask
  <2>2. worker_responses[w].rnbl \in Contexts
    BY TakeResponse DEF HandlePreempted, Runs, Runnable
  <2>3. QED
    BY <2>1, <2>2
<1>1. /\ dpc # "mark" /\ UNCHANGED <<dpc, dispatcher_requests, freeCtx>>
      /\ InService(w) /\ ~InService(w)' /\ dispatcher_requests[w].rnbl = a
      /\ \A v \in Workers \ {w} : InService(v)' = InService(v)
  BY <1>0, TakeResponse DEF HandlePreempted
<1>2. /\ Len(tskq'[w]) = n + 1 /\ tskq'[w][1].rnbl = a
      /\ \A i \in 1..n : tskq'[w][i + 1] = tskq[w][i]
      /\ \A i \in 2..(n + 1) : tskq'[w][i] = tskq[w][i - 1]
      /\ \A v \in Workers \ {w} : tskq'[v] = tskq[v]
  BY <1>0, RequeueTask
<1>3. Only(a, "core", w, 0)
  BY <1>1, FoundContext DEF ContextAt
<1>4. ASSUME NEW c \in Contexts PROVE \E x, y, z : Only(c, x, y, z)'
  <2>1. CASE c = a
    <3>1. Exclusive(c, "core", w, 0)
      BY <1>3, <2>1, OnlyThere
    <3>2. \A y \in Workers : \A z \in 1..Len(tskq'[y]) :
            tskq'[y][z].rnbl = c => y = w /\ z = 1
      <4>1. TAKE y \in Workers
      <4>2. TAKE z \in 1..Len(tskq'[y])
      <4>3. CASE y = w /\ z # 1
        <5>1. z \in 2..(n + 1) /\ z - 1 \in 1..n
          BY <1>2, <4>3
        <5>2. tskq'[w][z] = tskq[w][z - 1]
          BY <1>2, <5>1
        <5>3. tskq[w][z - 1].rnbl # c
          BY <1>0, <3>1, <5>1 DEF Exclusive
        <5>4. QED
          BY <4>3, <5>2, <5>3
      <4>4. CASE y # w
        BY <1>2, <3>1, <4>4 DEF Exclusive
      <4>5. QED
        BY <4>3, <4>4
    <3>3. Exclusive(c, "tskq", w, 1)'
      BY <1>1, <3>1, <3>2 DEF Exclusive
    <3>4. ContextAt(c, "tskq", w, 1)'
      BY <1>2, <2>1 DEF ContextAt
    <3>5. QED
      BY <3>3, <3>4, OnlyNow
  <2>2. ASSUME c # a, NEW i \in 1..n, tskq[w][i].rnbl = c
        PROVE  Only(c, "tskq", w, i + 1)'
    <3>1. Only(c, "tskq", w, i)
      BY <1>0, <2>2, FoundContext DEF ContextAt
    <3>2. Exclusive(c, "tskq", w, i)
      BY <3>1, OnlyThere
    <3>3. \A y \in Workers : \A z \in 1..Len(tskq'[y]) :
            tskq'[y][z].rnbl = c => y = w /\ z = i + 1
      <4>1. TAKE y \in Workers
      <4>2. TAKE z \in 1..Len(tskq'[y])
      <4>3. CASE y = w /\ z # 1
        <5>1. z \in 2..(n + 1) /\ z - 1 \in 1..n /\ (z - 1) + 1 = z
          BY <1>2, <4>3
        <5>2. tskq'[w][z] = tskq[w][z - 1]
          BY <1>2, <5>1
        <5>3. tskq[w][z - 1].rnbl = c => z - 1 = i
          BY <1>0, <3>2, <5>1 DEF Exclusive
        <5>4. QED
          BY <4>3, <5>1, <5>2, <5>3
      <4>4. CASE y = w /\ z = 1
        BY <1>2, <2>2, <4>4
      <4>5. CASE y # w
        BY <1>2, <3>2, <4>5 DEF Exclusive
      <4>6. QED
        BY <4>3, <4>4, <4>5
    <3>4. Exclusive(c, "tskq", w, i + 1)'
      BY <1>1, <3>2, <3>3 DEF Exclusive
    <3>5. ContextAt(c, "tskq", w, i + 1)'
      BY <1>2, <2>2 DEF ContextAt
    <3>6. QED
      BY <3>4, <3>5, OnlyNow
  <2>3. ASSUME c # a, \A i \in 1..n : tskq[w][i].rnbl # c
        PROVE  Unmoved(c)
    <3>1. ASSUME NEW z \in 1..(n + 1) PROVE tskq'[w][z].rnbl # c
      <4>1. CASE z = 1
        BY <1>2, <2>3, <4>1
      <4>2. CASE z # 1
        <5>1. z \in 2..(n + 1) /\ z - 1 \in 1..n
          BY <4>2
        <5>2. QED
          BY <1>2, <2>3, <5>1
      <4>3. QED
        BY <4>1, <4>2
    <3>2. \A y \in Workers : \A z : ContextAt(c, "tskq", y, z)' <=> ContextAt(c, "tskq", y, z)
      BY <1>0, <1>2, <2>3, <3>1 DEF ContextAt
    <3>3. QED
      BY <1>1, <2>3, <3>2 DEF Unmoved, ContextAt
  <2>4. QED
    BY <2>1, <2>2, <2>3, StillThere
<1>5. QED
  BY <1>4 DEF ContextSomewhere

\* A task dispatched takes its context from the head of the queue to the core.
LEMMA DispatchedContexts ==
  ASSUME IInv, ContextSomewhere, NEW w \in Workers, DispatchRequest(w)
  PROVE  ContextSomewhere'
<1>0. PICK n \in Nat \ {0}, a \in Contexts : n = Len(tskq[w]) /\ a = tskq[w][1].rnbl
  BY TakeTask DEF Runnable
<1>1. UNCHANGED freeCtx
  BY DEF DispatchRequest
<1>2. /\ dpc # "mark" /\ dpc' # "mark" /\ ~InService(w) /\ InService(w)'
      /\ dispatcher_requests'[w].rnbl = a
      /\ \A v \in Workers \ {w} :
           /\ InService(v)' = InService(v) /\ tskq'[v] = tskq[v]
           /\ dispatcher_requests'[v] = dispatcher_requests[v]
      /\ Len(tskq'[w]) = n - 1
      /\ \A i \in 2..n : tskq'[w][i - 1] = tskq[w][i]
  BY <1>0, TakeTask
<1>3. \A i \in 1..(n - 1) : tskq'[w][i] = tskq[w][i + 1]
  <2>1. TAKE i \in 1..(n - 1)
  <2>2. i + 1 \in 2..n /\ (i + 1) - 1 = i
    OBVIOUS
  <2>3. QED
    BY <1>2, <2>2
<1>4. Only(a, "tskq", w, 1)
  BY <1>0, <1>2, FoundContext DEF ContextAt
<1>5. ASSUME NEW c \in Contexts PROVE \E x, y, z : Only(c, x, y, z)'
  <2>1. CASE c = a
    <3>1. Exclusive(c, "tskq", w, 1)
      BY <1>4, <2>1, OnlyThere
    <3>2. \A y \in Workers : \A z \in 1..Len(tskq'[y]) : tskq'[y][z].rnbl # c
      <4>1. TAKE y \in Workers
      <4>2. TAKE z \in 1..Len(tskq'[y])
      <4>3. CASE y = w
        <5>1. z \in 1..(n - 1) /\ z + 1 \in 1..n /\ z + 1 # 1
          BY <1>2, <4>3
        <5>2. tskq'[w][z] = tskq[w][z + 1]
          BY <1>3, <5>1
        <5>3. tskq[w][z + 1].rnbl # c
          BY <1>0, <3>1, <5>1 DEF Exclusive
        <5>4. QED
          BY <4>3, <5>2, <5>3
      <4>4. CASE y # w
        BY <1>2, <3>1, <4>4 DEF Exclusive
      <4>5. QED
        BY <4>3, <4>4
    <3>3. Exclusive(c, "core", w, 0)'
      BY <1>1, <1>2, <3>1, <3>2 DEF Exclusive
    <3>4. ContextAt(c, "core", w, 0)'
      BY <1>2, <2>1 DEF ContextAt
    <3>5. QED
      BY <3>3, <3>4, OnlyNow
  <2>2. ASSUME c # a, NEW i \in 2..n, tskq[w][i].rnbl = c
        PROVE  Only(c, "tskq", w, i - 1)'
    <3>1. Only(c, "tskq", w, i)
      BY <1>0, <2>2, FoundContext DEF ContextAt
    <3>2. Exclusive(c, "tskq", w, i)
      BY <3>1, OnlyThere
    <3>3. \A y \in Workers : \A z \in 1..Len(tskq'[y]) :
            tskq'[y][z].rnbl = c => y = w /\ z = i - 1
      <4>1. TAKE y \in Workers
      <4>2. TAKE z \in 1..Len(tskq'[y])
      <4>3. CASE y = w
        <5>1. z \in 1..(n - 1) /\ z + 1 \in 1..n /\ (z + 1) - 1 = z
          BY <1>2, <4>3
        <5>2. tskq'[w][z] = tskq[w][z + 1]
          BY <1>3, <5>1
        <5>3. tskq[w][z + 1].rnbl = c => z + 1 = i
          BY <1>0, <3>2, <5>1 DEF Exclusive
        <5>4. QED
          BY <4>3, <5>1, <5>2, <5>3
      <4>4. CASE y # w
        BY <1>2, <3>2, <4>4 DEF Exclusive
      <4>5. QED
        BY <4>3, <4>4
    <3>4. Exclusive(c, "tskq", w, i - 1)'
      BY <1>1, <1>2, <2>2, <3>2, <3>3 DEF Exclusive
    <3>5. ContextAt(c, "tskq", w, i - 1)'
      BY <1>2, <2>2 DEF ContextAt
    <3>6. QED
      BY <3>4, <3>5, OnlyNow
  <2>3. ASSUME c # a, \A i \in 2..n : tskq[w][i].rnbl # c
        PROVE  Unmoved(c)
    <3>1. ASSUME NEW z \in 1..n PROVE tskq[w][z].rnbl # c
      BY <1>0, <2>3
    <3>2. ASSUME NEW z \in 1..(n - 1) PROVE tskq'[w][z].rnbl # c
      <4>1. z + 1 \in 1..n
        OBVIOUS
      <4>2. QED
        BY <1>3, <3>1, <4>1
    <3>3. \A y \in Workers : \A z : ContextAt(c, "tskq", y, z)' <=> ContextAt(c, "tskq", y, z)
      BY <1>0, <1>2, <3>1, <3>2 DEF ContextAt
    <3>4. QED
      BY <1>0, <1>1, <1>2, <2>3, <3>3 DEF Unmoved, ContextAt
  <2>4. QED
    BY <2>1, <2>2, <2>3, StillThere
<1>6. QED
  BY <1>5 DEF ContextSomewhere

\* No other step moves a context.
LEMMA ContextsStep ==
  ASSUME IInv, SlotKept, ContextSomewhere, [Next]_vars PROVE ContextSomewhere'
<1> USE DEF slotVars, sharedVars, leafVars, netVars, mailVars, dispVars, workVars
<1>1. HandOffTypes /\ SlotOwner
  BY DEF IInv, HandOffInv
<1>2. CASE LeafNext \/ NetworkerNext \/ UNCHANGED vars
  BY <1>2, ContextsStay DEF LeafNext, SelectIdle, SelectRandom, SendOther, Send,
       NetworkerNext, Receive, FreeFinished, RqUpdate, PostPointers, InService, vars
<1>3. CASE HandleNetworker
  <2>1. CASE NoPackets \/ BeginPackets \/ DropRequest \/ ReturnFinished \/ ReleasePointers
    BY <2>1, ContextsStay DEF NoPackets, BeginPackets, DropRequest, ReturnFinished,
         ReleasePointers, RequestEnqueue, InService
  <2>2. QED
    BY <1>3, <2>1, AcceptContexts, EnqueueContexts DEF HandleNetworker
<1>4. ASSUME NEW w \in Workers, HandleWorker(w) PROVE ContextSomewhere'
  <2>1. CASE SkipWorker(w) \/ PreemptWorker(w) \/ NothingToDispatch(w) \/ ActivateRequest(w)
    <3>1. /\ UNCHANGED <<freeCtx, acont, tskq, dispatcher_requests, response_flag, wpc>>
          /\ dpc # "mark" /\ dpc' # "mark"
      BY <2>1 DEF SkipWorker, PreemptWorker, NothingToDispatch, ActivateRequest, AtWorker,
           NextTurn
    <3>2. QED
      BY <3>1, ContextsStay DEF InService
  <2>2. QED
    BY <1>4, <2>1, FinishedContexts, AppendedContexts, PrependedContexts, DispatchedContexts
       DEF HandleWorker
<1>5. ASSUME NEW w \in Workers, WorkerNext(w) PROVE ContextSomewhere'
  <2>1. UNCHANGED <<freeCtx, acont, tskq, dispatcher_requests, dpc>>
    BY <1>5 DEF WorkerNext, InitWorker, ResetWorkerState, ProcessSend, TakeRequest,
         StartRequest, PreemptHandler, ReadQueueLength, SendReply, FillResponse,
         PublishResponse
  <2>2. \A v \in Workers : InService(v)' <=> InService(v)
    BY <1>1, <1>5 DEF WorkerNext, InitWorker, ResetWorkerState, ProcessSend, TakeRequest,
         StartRequest, PreemptHandler, ReadQueueLength, SendReply, FillResponse,
         PublishResponse, InService, Goto, Outcome, HandOffTypes, SlotOwner, Using
  <2>3. QED
    BY <2>1, <2>2, ContextsStay
<1>6. QED
  BY <1>2, <1>3, <1>4, <1>5 DEF Next, DispatcherNext

-----------------------------------------------------------------------------
(* What a context serves.                                                   *)

\* The header of a packet never changes once it was sent.
LEMMA HeaderKept ==
  ASSUME IInv, [Next]_vars, NEW t \in Tasks, hdr[t] # Null PROVE hdr'[t] = hdr[t]
<1> USE DEF slotVars, sharedVars, leafVars, netVars, mailVars, dispVars, workVars
<1>1. ASSUME NEW kind, NEW w, NEW type, Send(kind, w, type) PROVE hdr'[t] = hdr[t]
  BY <1>1 DEF Send, Unsent, IInv, TypeOK, LeafTypeOK
<1>2. CASE LeafNext
  BY <1>1, <1>2 DEF LeafNext, SelectIdle, SelectRandom, SendOther
<1>3. CASE ~LeafNext
  BY <1>3 DEF Next, NetworkerNext, Receive, FreeFinished, RqUpdate, PostPointers,
       DispatcherNext, HandleNetworker, NoPackets, BeginPackets, DropRequest,
       AcceptRequest, EnqueueRequest, ReturnFinished, ReleasePointers, HandleWorker,
       SkipWorker, PreemptWorker, HandleFinished, HandlePreempted, NothingToDispatch,
       DispatchRequest, ActivateRequest, WorkerNext, InitWorker, ResetWorkerState,
       ProcessSend, TakeRequest, StartRequest, PreemptHandler, ReadQueueLength,
       SendReply, FillResponse, PublishResponse, vars
<1>4. QED
  BY <1>2, <1>3

LEMMA AddressKept ==
  ASSUME IInv, [Next]_vars, NEW t \in Tasks, NEW w, AddressedTo(t, w)
  PROVE  AddressedTo(t, w)'
  BY HeaderKept DEF AddressedTo

\* Only the start of a fresh context changes what one serves.
LEMMA JobKept ==
  ASSUME IInv, [Next]_vars, NEW c \in Contexts,
         \A w \in Workers : StartRequest(w) /\ dispatcher_requests[w].category = "PACKET"
                              => dispatcher_requests[w].rnbl # c
  PROVE  job'[c] = job[c]
<1> USE DEF slotVars, sharedVars, leafVars, netVars, mailVars, dispVars, workVars
<1>1. ASSUME NEW w \in Workers, StartRequest(w) PROVE job'[c] = job[c]
  BY <1>1 DEF StartRequest, IInv, TypeOK, WorkTypeOK
<1>2. CASE \A w \in Workers : ~StartRequest(w)
  BY <1>2 DEF Next, LeafNext, SelectIdle, SelectRandom, SendOther, Send,
       NetworkerNext, Receive, FreeFinished, RqUpdate, PostPointers,
       DispatcherNext, HandleNetworker, NoPackets, BeginPackets, DropRequest,
       AcceptRequest, EnqueueRequest, ReturnFinished, ReleasePointers, HandleWorker,
       SkipWorker, PreemptWorker, HandleFinished, HandlePreempted, NothingToDispatch,
       DispatchRequest, ActivateRequest, WorkerNext, InitWorker, ResetWorkerState,
       ProcessSend, TakeRequest, PreemptHandler, ReadQueueLength,
       SendReply, FillResponse, PublishResponse, vars
<1>3. QED
  BY <1>1, <1>2

\* The worker's copies of its slot.
LEMMA SlotKeptStep == ASSUME IInv, SlotKept, [Next]_vars PROVE SlotKept'
<1> USE DEF slotVars, sharedVars, leafVars, netVars, mailVars, dispVars, workVars
<1>1. HandOffTypes /\ SlotOwner /\ SharedTypeOK /\ WorkTypeOK
  BY DEF IInv, HandOffInv, TypeOK
<1>2. CASE LeafNext \/ NetworkerNext \/ HandleNetworker \/ UNCHANGED vars
  BY <1>2 DEF SlotKept, LeafNext, SelectIdle, SelectRandom, SendOther, Send,
       NetworkerNext, Receive, FreeFinished, RqUpdate, PostPointers, HandleNetworker,
       NoPackets, BeginPackets, DropRequest, AcceptRequest, EnqueueRequest,
       ReturnFinished, ReleasePointers, RequestEnqueue, vars
<1>3. ASSUME NEW w \in Workers, HandleWorker(w) PROVE SlotKept'
  <2>1. CASE SkipWorker(w) \/ PreemptWorker(w) \/ NothingToDispatch(w) \/ ActivateRequest(w)
    BY <2>1 DEF SlotKept, SkipWorker, PreemptWorker, NothingToDispatch, ActivateRequest
  <2>2. CASE HandleFinished(w) \/ HandlePreempted(w)
    <3>1. /\ response_flag' = [response_flag EXCEPT ![w] = "PROCESSED"]
          /\ UNCHANGED <<dispatcher_requests, worker_responses, wpc, cont>>
      BY <2>2 DEF HandleFinished, HandlePreempted, Processed
    <3>2. QED
      BY <1>1, <3>1 DEF SlotKept, HandOffTypes
  <2>3. CASE DispatchRequest(w)
    <3>1. /\ wpc[w] \in Idling /\ response_flag'[w] = "RUNNING" /\ UNCHANGED wpc
          /\ \A v \in Workers \ {w} :
               /\ response_flag'[v] = response_flag[v]
               /\ dispatcher_requests'[v] = dispatcher_requests[v]
      BY <2>3, TakeTask
    <3>2. UNCHANGED <<worker_responses, cont>>
      BY <2>3 DEF DispatchRequest
    <3>3. QED
      BY <3>1, <3>2 DEF SlotKept, Idling, Using
  <2>4. QED
    BY <1>3, <2>1, <2>2, <2>3 DEF HandleWorker
<1>4. ASSUME NEW w \in Workers, WorkerNext(w) PROVE SlotKept'
  <2>1. CASE InitWorker(w) \/ ResetWorkerState(w) \/ ProcessSend(w) \/ TakeRequest(w)
    BY <1>1, <2>1 DEF SlotKept, InitWorker, ResetWorkerState, ProcessSend, TakeRequest, Goto,
         HandOffTypes, Using
  <2>2. CASE StartRequest(w)
    BY <1>1, <2>2 DEF SlotKept, StartRequest, Goto, HandOffTypes, WorkTypeOK, Using
  <2>3. CASE PreemptHandler(w) \/ ReadQueueLength(w) \/ SendReply(w)
    BY <1>1, <2>3 DEF SlotKept, PreemptHandler, ReadQueueLength, SendReply, Goto,
         HandOffTypes, Using
  <2>4. CASE FillResponse(w)
    BY <1>1, <2>4 DEF SlotKept, FillResponse, Goto, HandOffTypes, SharedTypeOK, Using
  <2>5. CASE PublishResponse(w)
    BY <1>1, <2>5 DEF SlotKept, PublishResponse, Goto, HandOffTypes, Using
  <2>6. QED
    BY <1>4, <2>1, <2>2, <2>3, <2>4, <2>5 DEF WorkerNext
<1>5. QED
  BY <1>2, <1>3, <1>4 DEF Next, DispatcherNext

\* The mailbox: filled with what arrives, handed over by cnt, and overwritten
\* only from ReturnFinished on.
LEMMA MailAddressedStep == ASSUME IInv, MailAddressed, [Next]_vars PROVE MailAddressed'
<1> USE DEF slotVars, sharedVars, leafVars, netVars, mailVars, dispVars, workVars
<1>1. NetTypeOK /\ MailboxHandOff /\ NetworkerInv /\ MailboxInv
  BY DEF IInv, TypeOK, HandOffInv
<1>2. CASE RqUpdate
  <2>1. /\ cnt = 0 /\ cnt' = 0 /\ nj \in Nat /\ nj + 1 \in Slots /\ UNCHANGED hdr
        /\ recv_mbufs \in Seq(Tasks) /\ recv_mbufs # <<>>
    BY <1>1, <1>2, SizeAssumption DEF RqUpdate, NetTypeOK, MailboxHandOff, NetworkerInv, Slots
  <2>2. AddressedTo(Head(recv_mbufs), hdr[Head(recv_mbufs)].core)
    BY <1>1, <2>1 DEF NetworkerInv, AddressedTo
  <2>3. CASE IsTask(Head(recv_mbufs))
    <3>1. /\ reqs' = [reqs EXCEPT ![nj + 1] = Head(recv_mbufs)]
          /\ types' = [types EXCEPT ![nj + 1] = hdr[Head(recv_mbufs)].core]
          /\ nj' = nj + 1
      BY <1>2, <2>3 DEF RqUpdate
    <3>2. /\ reqs'[nj + 1] = Head(recv_mbufs) /\ types'[nj + 1] = hdr[Head(recv_mbufs)].core
          /\ \A i \in 1..nj : reqs'[i] = reqs[i] /\ types'[i] = types[i]
      BY <1>1, <2>1, <3>1 DEF NetTypeOK, Slots
    <3>3. QED
      BY <2>1, <2>2, <3>1, <3>2 DEF MailAddressed, AddressedTo
  <2>4. CASE ~IsTask(Head(recv_mbufs))
    BY <1>2, <2>1, <2>4 DEF RqUpdate, MailAddressed, AddressedTo
  <2>5. QED
    BY <2>3, <2>4
<1>3. CASE PostPointers
  BY <1>3 DEF PostPointers, MailAddressed, AddressedTo
<1>4. CASE ReturnFinished \/ ReleasePointers
  <2>1. nj = 0 /\ nj' = 0 /\ (dpc' = "release" \/ cnt' = 0)
    BY <1>1, <1>4 DEF ReturnFinished, ReleasePointers, MailboxHandOff, NetworkerInv
  <2>2. QED
    BY <2>1 DEF MailAddressed
<1>5. CASE UNCHANGED <<reqs, types, nj, cnt>> /\ (dpc' # "release" => dpc # "release")
  <2>1. ASSUME NEW i, reqs[i] \in Tasks, AddressedTo(reqs[i], types[i])
        PROVE  AddressedTo(reqs[i], types[i])'
    BY <1>5, <2>1, AddressKept DEF AddressedTo
  <2>2. QED
    BY <1>1, <1>5, <2>1 DEF MailAddressed, MailboxInv
<1>6. QED
  BY <1>2, <1>3, <1>4, <1>5
     DEF Next, LeafNext, SelectIdle, SelectRandom, SendOther, Send, NetworkerNext,
           Receive, FreeFinished, DispatcherNext, HandleNetworker, NoPackets,
           BeginPackets, DropRequest, AcceptRequest, EnqueueRequest, HandleWorker,
           SkipWorker, PreemptWorker, HandleFinished, HandlePreempted,
           NothingToDispatch, DispatchRequest, ActivateRequest, AtWorker, NextTurn,
           WorkerNext, InitWorker, ResetWorkerState, ProcessSend, TakeRequest,
           StartRequest, PreemptHandler, ReadQueueLength, SendReply, FillResponse,
           PublishResponse, vars

\* Who else could be given the context a worker starts.
LEMMA StartedContext ==
  ASSUME IInv, ContextSomewhere, NEW w \in Workers, StartRequest(w)
  PROVE  /\ InService(w) /\ dispatcher_requests[w] \in Runnable
         /\ \A v \in Workers : \A i \in 1..Len(tskq[v]) :
              tskq[v][i].rnbl # dispatcher_requests[w].rnbl
         /\ \A v \in Workers \ {w} :
              InService(v) => dispatcher_requests[v].rnbl # dispatcher_requests[w].rnbl
<1>1. wpc[w] = "taken" /\ HandOffTypes /\ SlotOwner /\ SlotContent
  BY DEF StartRequest, Goto, IInv, HandOffInv
<1>2. InService(w) /\ dispatcher_requests[w] \in Runnable
  BY <1>1 DEF InService, SlotOwner, SlotContent, Runs, Using
<1>3. PICK c \in Contexts : c = dispatcher_requests[w].rnbl
  BY <1>2 DEF Runnable
<1>4. Only(c, "core", w, 0)
  BY <1>2, <1>3, FoundContext DEF ContextAt
<1>5. Exclusive(c, "core", w, 0)
  BY <1>4, OnlyThere
<1>6. QED
  BY <1>2, <1>3, <1>5 DEF Exclusive

\* The queues: a context waits with what it serves, since only its own worker
\* starts it and that worker holds no other.
LEMMA QueueAddressedStep ==
  ASSUME IInv, ContextSomewhere, SlotKept, MailAddressed, QueueAddressed, SlotAddressed,
         [Next]_vars
  PROVE  QueueAddressed'
<1> USE DEF slotVars, sharedVars, leafVars, netVars, mailVars, dispVars, workVars
<1> DEFINE Good(e, w) == /\ AddressedTo(e.req, w)
                         /\ e.category = "CONTEXT" => job[e.rnbl] = e.req
<1>1. /\ tskq \in [Workers -> Seq(Runnable)] /\ HandOffTypes /\ SlotOwner /\ SlotContent
      /\ \A v \in Workers : Len(tskq[v]) \in Nat
  BY DEF IInv, TypeOK, DispTypeOK, HandOffInv
<1>2. \A v \in Workers : \A i \in 1..Len(tskq[v]) :
        tskq[v][i] \in Runnable /\ Good(tskq[v][i], v)
  BY <1>1 DEF QueueAddressed
<1>3. ASSUME NEW e \in Runnable, NEW v \in Workers, Good(e, v),
             \A w \in Workers : StartRequest(w) => dispatcher_requests[w].rnbl # e.rnbl
      PROVE  Good(e, v)'
  <2>1. e.req \in Tasks /\ e.rnbl \in Contexts
    BY DEF Runnable
  <2>2. AddressedTo(e.req, v)' /\ job'[e.rnbl] = job[e.rnbl]
    BY <1>3, <2>1, AddressKept, JobKept DEF AddressedTo
  <2>3. QED
    BY <1>3, <2>2 DEF AddressedTo
<1>4. ASSUME NEW v \in Workers, NEW i \in 1..Len(tskq[v]), NEW e, e = tskq[v][i]
      PROVE  Good(e, v)'
  <2>1. e \in Runnable /\ Good(e, v)
    BY <1>2, <1>4
  <2>2. \A w \in Workers : StartRequest(w) => dispatcher_requests[w].rnbl # e.rnbl
    BY <1>4, StartedContext
  <2> HIDE DEF Good
  <2>3. QED
    BY <1>3, <2>1, <2>2
<1>5. SUFFICES ASSUME NEW v \in Workers, NEW j \in 1..Len(tskq'[v]), NEW e, e = tskq'[v][j]
               PROVE  Good(e, v)'
  BY DEF QueueAddressed
<1>6. CASE \E i \in 1..Len(tskq[v]) : e = tskq[v][i]
  BY <1>4, <1>6
<1> HIDE DEF Good
<1>7. CASE EnqueueRequest
  <2>1. PICK k \in Workers, r \in Tasks :
          /\ k = types[ni] /\ r = reqs[ni] /\ dpc = "mark" /\ ni \in 1..cnt
          /\ [rnbl |-> acont, req |-> r, type |-> k, category |-> "PACKET"] \in Runnable
    BY <1>7, EnqueueTask
  <2> DEFINE task == [rnbl |-> acont, req |-> r, type |-> k, category |-> "PACKET"]
  <2>2. tskq' = [tskq EXCEPT ![k] = Append(tskq[k], task)]
    BY <1>7, <2>1 DEF EnqueueRequest, TskqEnqueueTail
  <2>3. AddressedTo(r, k) /\ task.req = r /\ task.category = "PACKET"
    BY <2>1 DEF MailAddressed
  <2> HIDE DEF task
  <2>4. task \in Runnable
    BY <2>1 DEF task
  <2>5. CASE v = k /\ j = Len(tskq[k]) + 1
    <3>1. e = task
      BY <1>1, <1>5, <2>2, <2>4, <2>5, Appended
    <3>2. AddressedTo(r, k)'
      BY <2>3, AddressKept
    <3>3. QED
      BY <2>3, <2>5, <3>1, <3>2 DEF Good, AddressedTo
  <2>6. CASE ~(v = k /\ j = Len(tskq[k]) + 1)
    <3>1. CASE v = k
      <4>1. tskq'[v] = Append(tskq[k], task) /\ tskq[k] \in Seq(Runnable)
        BY <1>1, <2>2, <3>1
      <4>2. j \in 1..Len(tskq[v]) /\ tskq'[v][j] = tskq[v][j]
        BY <2>4, <2>6, <3>1, <4>1, Appended
      <4>3. QED
        BY <1>5, <1>6, <4>2
    <3>2. CASE v # k
      BY <1>1, <1>5, <1>6, <2>2, <3>2
    <3>3. QED
      BY <3>1, <3>2
  <2>7. QED
    BY <2>5, <2>6
<1>8. ASSUME NEW w \in Workers, HandlePreempted(w) PROVE Good(e, v)'
  <2>1. PICK r : r = worker_responses[w]
    OBVIOUS
  <2>2. /\ InService(w) /\ response_flag[w] = "PREEMPTED" /\ Runs(r, w)
        /\ r.rnbl = dispatcher_requests[w].rnbl /\ r.req = dispatcher_requests[w].req
    BY <1>8, <2>1, TakeResponse DEF HandlePreempted
  <2>3. r \in Runnable /\ Good(r, w)
    BY <2>2 DEF SlotAddressed, Runs, Good
  <2>4. \A u \in Workers : ~StartRequest(u)
    BY <1>1, <1>8 DEF HandlePreempted, AtWorker, StartRequest, Goto, HandOffTypes
  <2>5. Good(r, w)'
    BY <1>3, <2>3, <2>4
  <2>6. CASE v = w
    <3>1. e = r \/ \E i \in 1..Len(tskq[v]) : e = tskq[v][i]
      <4>1. CASE RequeueHead
        <5>1. CASE j = 1
          BY <1>5, <1>8, <2>1, <2>6, <4>1, <5>1, RequeueTask
        <5>2. CASE j # 1
          <6>1. /\ Len(tskq[w]) \in Nat /\ j \in 2..(Len(tskq[w]) + 1)
                /\ j - 1 \in 1..Len(tskq[w])
            BY <1>5, <1>8, <2>6, <5>2, RequeueTask
          <6>2. tskq'[w][j] = tskq[w][j - 1]
            BY <1>8, <4>1, <6>1, RequeueTask
          <6>3. QED
            BY <1>5, <2>6, <6>1, <6>2
        <5>3. QED
          BY <5>1, <5>2
      <4>2. CASE ~RequeueHead
        <5>1. CASE j = Len(tskq[w]) + 1
          BY <1>5, <1>8, <2>1, <2>6, <4>2, <5>1, RequeueTask
        <5>2. CASE j # Len(tskq[w]) + 1
          <6>1. j \in 1..Len(tskq[w])
            BY <1>5, <1>8, <2>6, <5>2, RequeueTask
          <6>2. QED
            BY <1>5, <1>8, <2>6, <4>2, <6>1, RequeueTask
        <5>3. QED
          BY <5>1, <5>2
      <4>3. QED
        BY <4>1, <4>2
    <3>2. QED
      BY <1>6, <2>5, <2>6, <3>1
  <2>7. CASE v # w
    <3>1. tskq'[v] = tskq[v]
      BY <1>8, <2>7, RequeueTask
    <3>2. QED
      BY <1>5, <1>6, <3>1
  <2>8. QED
    BY <2>6, <2>7
<1>9. ASSUME NEW w \in Workers, DispatchRequest(w) PROVE Good(e, v)'
  <2>1. CASE v = w
    <3>1. /\ Len(tskq[w]) \in Nat /\ j + 1 \in 2..Len(tskq[w]) /\ j + 1 \in 1..Len(tskq[w])
          /\ (j + 1) - 1 = j
      BY <1>5, <1>9, <2>1, TakeTask
    <3>2. tskq'[w][j] = tskq[w][j + 1]
      BY <1>9, <3>1, TakeTask
    <3>3. QED
      BY <1>5, <1>6, <2>1, <3>1, <3>2
  <2>2. CASE v # w
    <3>1. tskq'[v] = tskq[v]
      BY <1>9, <2>2, TakeTask
    <3>2. QED
      BY <1>5, <1>6, <3>1
  <2>3. QED
    BY <2>1, <2>2
<1>10. CASE UNCHANGED tskq
  BY <1>5, <1>6, <1>10
<1>11. QED
  BY <1>7, <1>8, <1>9, <1>10
     DEF Next, LeafNext, SelectIdle, SelectRandom, SendOther, Send, NetworkerNext,
           Receive, FreeFinished, RqUpdate, PostPointers, DispatcherNext,
           HandleNetworker, NoPackets, BeginPackets, DropRequest, AcceptRequest,
           ReturnFinished, ReleasePointers, HandleWorker, SkipWorker, PreemptWorker,
           HandleFinished, NothingToDispatch, ActivateRequest, WorkerNext, InitWorker,
           ResetWorkerState, ProcessSend, TakeRequest, StartRequest, PreemptHandler,
           ReadQueueLength, SendReply, FillResponse, PublishResponse, vars

\* The slots: the context in one serves the request in it, from the start of
\* the request until the dispatcher takes the response.
LEMMA SlotAddressedStep ==
  ASSUME IInv, ContextSomewhere, SlotKept, QueueAddressed, SlotAddressed, [Next]_vars
  PROVE  SlotAddressed'
<1> USE DEF slotVars, sharedVars, leafVars, netVars, mailVars, dispVars, workVars
<1>1. HandOffTypes /\ SlotOwner /\ SlotContent
  BY DEF IInv, HandOffInv
<1> DEFINE Begun(w) == \/ dispatcher_requests[w].category = "CONTEXT"
                       \/ wpc[w] \in Using \ {"taken"}
                       \/ response_flag[w] # "RUNNING"
<1>2. SUFFICES ASSUME NEW w \in Workers, InService(w)'
               PROVE  /\ AddressedTo(dispatcher_requests[w].req, w)'
                      /\ Begun(w)' => job'[dispatcher_requests'[w].rnbl]
                                        = dispatcher_requests'[w].req
  BY DEF SlotAddressed
<1>3. CASE DispatchRequest(w)
  <2>1. PICK e \in Runnable :
          /\ e = tskq[w][1] /\ dispatcher_requests'[w] = e /\ 1 \in 1..Len(tskq[w])
          /\ wpc'[w] \in Idling /\ response_flag'[w] = "RUNNING"
    BY <1>3, TakeTask
  <2>2. /\ AddressedTo(e.req, w) /\ e.req \in Tasks
        /\ e.category = "CONTEXT" => job[e.rnbl] = e.req
    BY <2>1 DEF QueueAddressed, Runnable
  <2>3. AddressedTo(e.req, w)'
    BY <2>2, AddressKept
  <2>4. UNCHANGED job
    BY <1>3 DEF DispatchRequest
  <2>5. QED
    BY <2>1, <2>2, <2>3, <2>4 DEF AddressedTo, Using, Idling
<1>4. CASE StartRequest(w)
  <2>1. PICK e \in Runnable : e = dispatcher_requests[w]
    BY <1>4, StartedContext
  <2>2. /\ AddressedTo(e.req, w) /\ e.req \in Tasks /\ e.rnbl \in Contexts
        /\ e.category = "CONTEXT" => job[e.rnbl] = e.req
    BY <1>4, <2>1, StartedContext DEF SlotAddressed, Runnable
  <2>3. AddressedTo(e.req, w)' /\ UNCHANGED dispatcher_requests
    BY <1>4, <2>2, AddressKept DEF StartRequest
  <2>4. job'[e.rnbl] = e.req
    BY <1>4, <2>1, <2>2 DEF StartRequest, IInv, TypeOK, WorkTypeOK, Runnable
  <2>5. QED
    BY <2>1, <2>3, <2>4 DEF AddressedTo
<1>5. CASE /\ dispatcher_requests'[w] = dispatcher_requests[w]
           /\ InService(w) /\ (Begun(w)' => Begun(w)) /\ ~StartRequest(w)
  <2>1. PICK e : e = dispatcher_requests[w]
    OBVIOUS
  <2>2. e.req \in Tasks /\ e.rnbl \in Contexts
    <3>1. CASE response_flag[w] = "RUNNING"
      BY <1>1, <1>5, <2>1, <3>1 DEF InService, SlotContent, SlotOwner, HandOffTypes, Runs,
           Runnable, Using, Idling
    <3>2. CASE response_flag[w] # "RUNNING"
      BY <1>1, <1>5, <2>1, <3>2 DEF InService, SlotContent, SlotKept, HandOffTypes, Runs,
           Runnable
    <3>3. QED
      BY <3>1, <3>2
  <2>3. AddressedTo(e.req, w) /\ (Begun(w) => job[e.rnbl] = e.req)
    BY <1>5, <2>1 DEF SlotAddressed
  <2>4. AddressedTo(e.req, w)'
    BY <2>2, <2>3, AddressKept
  <2>5. job'[e.rnbl] = job[e.rnbl]
    BY <1>5, <2>1, <2>2, StartedContext, JobKept
  <2>6. QED
    BY <1>5, <2>1, <2>3, <2>4, <2>5 DEF AddressedTo
<1>6. CASE LeafNext \/ NetworkerNext \/ HandleNetworker \/ UNCHANGED vars
  BY <1>2, <1>5, <1>6, <1>1 DEF LeafNext, SelectIdle, SelectRandom, SendOther, Send,
       NetworkerNext, Receive, FreeFinished, RqUpdate, PostPointers, HandleNetworker,
       NoPackets, BeginPackets, DropRequest, AcceptRequest, EnqueueRequest,
       ReturnFinished, ReleasePointers, RequestEnqueue, StartRequest, Goto, InService,
       HandOffTypes, vars
<1>7. ASSUME NEW v \in Workers, HandleWorker(v), ~DispatchRequest(w)
      PROVE  /\ AddressedTo(dispatcher_requests[w].req, w)'
             /\ Begun(w)' => job'[dispatcher_requests'[w].rnbl]
                               = dispatcher_requests'[w].req
  <2>1. CASE SkipWorker(v) \/ PreemptWorker(v) \/ NothingToDispatch(v) \/ ActivateRequest(v)
    <3>1. UNCHANGED <<dispatcher_requests, response_flag, wpc>>
      BY <2>1 DEF SkipWorker, PreemptWorker, NothingToDispatch, ActivateRequest
    <3>2. ~StartRequest(w)
      BY <1>1, <3>1 DEF StartRequest, Goto, HandOffTypes
    <3>3. QED
      BY <1>2, <1>5, <3>1, <3>2 DEF InService
  <2>2. CASE HandleFinished(v) \/ HandlePreempted(v) \/ DispatchRequest(v)
    <3>1. /\ v # w /\ dispatcher_requests'[w] = dispatcher_requests[w]
          /\ response_flag'[w] = response_flag[w] /\ InService(w) /\ UNCHANGED wpc
      <4>1. CASE HandleFinished(v) \/ HandlePreempted(v)
        BY <1>2, <4>1, TakeResponse
      <4>2. CASE DispatchRequest(v)
        BY <1>2, <1>7, <4>2, TakeTask
      <4>3. QED
        BY <2>2, <4>1, <4>2
    <3>2. ~StartRequest(w)
      BY <1>1, <3>1 DEF StartRequest, Goto, HandOffTypes
    <3>3. QED
      BY <1>5, <3>1, <3>2
  <2>3. QED
    BY <1>7, <2>1, <2>2 DEF HandleWorker
<1>8. ASSUME NEW v \in Workers, WorkerNext(v), ~StartRequest(w)
      PROVE  /\ AddressedTo(dispatcher_requests[w].req, w)'
             /\ Begun(w)' => job'[dispatcher_requests'[w].rnbl]
                               = dispatcher_requests'[w].req
  <2>1. UNCHANGED dispatcher_requests
    BY <1>8 DEF WorkerNext, InitWorker, ResetWorkerState, ProcessSend, TakeRequest,
         StartRequest, PreemptHandler, ReadQueueLength, SendReply, FillResponse,
         PublishResponse
  <2>2. CASE v # w
    <3>1. response_flag'[w] = response_flag[w] /\ wpc'[w] = wpc[w]
      BY <1>1, <1>8, <2>2 DEF WorkerNext, InitWorker, ResetWorkerState, ProcessSend,
           TakeRequest, StartRequest, PreemptHandler, ReadQueueLength, SendReply,
           FillResponse, PublishResponse, Goto, HandOffTypes
    <3>2. QED
      BY <1>2, <1>5, <1>8, <2>1, <3>1 DEF InService
  <2>3. CASE v = w
    <3>1. InService(w) /\ (Begun(w)' => Begun(w))
      BY <1>1, <1>2, <1>8, <2>1, <2>3 DEF WorkerNext, InitWorker, ResetWorkerState,
           ProcessSend, TakeRequest, PreemptHandler, ReadQueueLength, SendReply,
           FillResponse, PublishResponse, Goto, InService, HandOffTypes, SlotOwner, Using,
           Idling
    <3>2. QED
      BY <1>5, <1>8, <2>1, <3>1
  <2>4. QED
    BY <2>2, <2>3
<1>9. QED
  BY <1>3, <1>4, <1>6, <1>7, <1>8 DEF Next, DispatcherNext

-----------------------------------------------------------------------------
(* The theorems.                                                            *)

OwnersInv ==
  /\ IInv /\ ContextSomewhere /\ SlotKept
  /\ MailAddressed /\ QueueAddressed /\ SlotAddressed

LEMMA InitOwners == Init => OwnersInv
<1> SUFFICES ASSUME Init PROVE OwnersInv
  OBVIOUS
<1>1. /\ \A w \in Workers : Len(tskq[w]) = 0 /\ ~InService(w)
      /\ nj = 0 /\ cnt = 0
      /\ \A w \in Workers : wpc[w] \in {"init", "loop"}
                            /\ response_flag[w] \in {"PROCESSED", "RUNNING"}
  BY FlagAssumption DEF Init, InService
<1>2. QED
  BY <1>1, InitIInv, InitContexts
     DEF OwnersInv, SlotKept, MailAddressed, QueueAddressed, SlotAddressed, Using

LEMMA NextOwners == OwnersInv /\ [Next]_vars => OwnersInv'
  BY NextIInv, ContextsStep, SlotKeptStep, MailAddressedStep, QueueAddressedStep,
     SlotAddressedStep DEF OwnersInv

LEMMA Owners == Spec => []OwnersInv
  BY InitOwners, NextOwners, PTL DEF Spec

\* A place named by ContextPlaces is one of ContextAt, and the other way round.
LEMMA ContextPlacesAt ==
  ASSUME IInv, NEW c \in Contexts, NEW k, NEW v, NEW i, Only(c, k, v, i)
  PROVE  ContextPlaces(c) = {<<k, v, i>>}
<1> DEFINE Free == {<<"free", 0, 0>> : f \in {d \in freeCtx : d = c}}
           Accepting == {<<"accepting", 0, 0>> : f \in {d \in {acont} : d = c /\ dpc = "mark"}}
           In(w) == {<<"tskq", w, n>> : n \in {j \in DOMAIN tskq[w] : tskq[w][j].rnbl = c}}
           Core == {<<"core", w, 0>> : w \in {u \in Workers : InService(u)
                                                /\ dispatcher_requests[u].rnbl = c}}
<1>1. ContextPlaces(c) = Free \cup Accepting \cup (UNION {In(w) : w \in Workers}) \cup Core
  BY DEF ContextPlaces
<1>2. \A p : p \in Free <=> p = <<"free", 0, 0>> /\ ContextAt(c, "free", 0, 0)
  BY DEF ContextAt
<1>3. \A p : p \in Accepting <=> p = <<"accepting", 0, 0>> /\ ContextAt(c, "accepting", 0, 0)
  BY DEF ContextAt
<1>4. \A p : p \in UNION {In(w) : w \in Workers} <=>
               \E y \in Workers : \E z \in 1..Len(tskq[y]) :
                 p = <<"tskq", y, z>> /\ ContextAt(c, "tskq", y, z)
  <2>1. \A w \in Workers : DOMAIN tskq[w] = 1..Len(tskq[w])
    BY DEF IInv, TypeOK, DispTypeOK
  <2>2. ASSUME NEW w \in Workers, NEW p
        PROVE  p \in In(w) <=> \E z \in 1..Len(tskq[w]) :
                                 p = <<"tskq", w, z>> /\ ContextAt(c, "tskq", w, z)
    BY <2>1 DEF ContextAt
  <2> HIDE DEF In
  <2>3. QED
    BY <2>2
<1>5. \A p : p \in Core <=> \E y \in Workers : p = <<"core", y, 0>> /\ ContextAt(c, "core", y, 0)
  BY DEF ContextAt
<1> HIDE DEF Free, Accepting, In, Core
<1>6. \A p : p \in ContextPlaces(c) <=>
               \E x, y, z : p = <<x, y, z>> /\ ContextAt(c, x, y, z)
  <2>1. ASSUME NEW p, p \in ContextPlaces(c)
        PROVE  \E x, y, z : p = <<x, y, z>> /\ ContextAt(c, x, y, z)
    <3>1. CASE p \in Free \/ p \in Accepting
      BY <1>2, <1>3, <3>1
    <3>2. CASE p \in UNION {In(w) : w \in Workers}
      BY <1>4, <3>2
    <3>3. CASE p \in Core
      BY <1>5, <3>3
    <3>4. QED
      BY <1>1, <2>1, <3>1, <3>2, <3>3
  <2>2. ASSUME NEW x, NEW y, NEW z, ContextAt(c, x, y, z)
        PROVE  <<x, y, z>> \in ContextPlaces(c)
    <3>1. CASE x = "free" \/ x = "accepting"
      BY <1>1, <1>2, <1>3, <2>2, <3>1 DEF ContextAt
    <3>2. CASE x = "tskq"
      <4>1. y \in Workers /\ z \in 1..Len(tskq[y])
        BY <2>2, <3>2 DEF ContextAt
      <4>2. QED
        BY <1>1, <1>4, <2>2, <3>2, <4>1
    <3>3. CASE x = "core"
      <4>1. y \in Workers /\ z = 0
        BY <2>2, <3>3 DEF ContextAt
      <4>2. <<"core", y, 0>> \in Core
        BY <1>5, <2>2, <3>3, <4>1
      <4>3. QED
        BY <1>1, <3>3, <4>1, <4>2
    <3>4. QED
      BY <2>2, <3>1, <3>2, <3>3 DEF ContextAt
  <2>3. QED
    BY <2>1, <2>2
<1>7. QED
  BY <1>6 DEF Only

\* No context is leaked, shared or used after context_free: neither a
\* preemption, nor a requeue, nor a request the dispatcher drops breaks that
\* each is free, in the hands of handle_networker, or held by one task.
THEOREM ContextOwnedCorrect == Spec => []ContextOwned
<1>1. ASSUME OwnersInv, NEW c \in Contexts PROVE Cardinality(ContextPlaces(c)) = 1
  <2>1. PICK k, v, i : Only(c, k, v, i)
    BY <1>1 DEF OwnersInv, ContextSomewhere
  <2>2. ContextPlaces(c) = {<<k, v, i>>}
    BY <1>1, <2>1, ContextPlacesAt DEF OwnersInv
  <2>3. QED
    BY <2>2, FS_Singleton
<1>2. OwnersInv => ContextOwned
  BY <1>1 DEF ContextOwned
<1>3. QED
  BY <1>2, Owners, PTL

\* A worker answers, and reports finished, the packet addressed to it that its
\* slot names, through any number of preemptions and resumptions.
THEOREM ServesItsSlotCorrect == Spec => []ServesItsSlot
<1>1. ASSUME OwnersInv, NEW w \in Workers, wpc[w] \in Using \ {"taken"}
      PROVE  /\ cont[w] = dispatcher_requests[w].rnbl
             /\ job[cont[w]] = dispatcher_requests[w].req
             /\ hdr[job[cont[w]]].core = w /\ dispatcher_requests[w].type = w
  <2>1. InService(w) /\ Runs(dispatcher_requests[w], w)
    BY <1>1 DEF OwnersInv, IInv, HandOffInv, SlotOwner, SlotContent, InService, Using
  <2>2. QED
    BY <1>1, <2>1 DEF OwnersInv, SlotKept, SlotAddressed, AddressedTo, Runs
<1>2. OwnersInv => ServesItsSlot
  BY <1>1 DEF ServesItsSlot, Using
<1>3. QED
  BY <1>2, Owners, PTL

-----------------------------------------------------------------------------
(* Where a request is.                                                      *)

InMail(t, z)     == z \in Pending /\ reqs[z] = t
InReturn(t, z)   == z \in 1..free_cnt /\ reqs[z] = t
InFree(t, z)     == z \in 1..Len(frqueue) /\ frqueue[z] = t
InQueue(t, y, z) == y \in Workers /\ z \in 1..Len(tskq[y]) /\ tskq[y][z].req = t
InCore(t, y)     == y \in Workers /\ InService(y) /\ dispatcher_requests[y].req = t

RequestAt(t, x, y, z) ==
  \/ x = "mailbox" /\ y = 0 /\ InMail(t, z)
  \/ x = "returned" /\ y = 0 /\ InReturn(t, z)
  \/ x = "frqueue" /\ y = 0 /\ InFree(t, z)
  \/ x = "tskq" /\ InQueue(t, y, z)
  \/ x = "core" /\ z = 0 /\ InCore(t, y)

\* Request t is nowhere but at the place <<k, v, i>>.
Alone(t, k, v, i) ==
  /\ \A z : InMail(t, z) => k = "mailbox" /\ v = 0 /\ i = z
  /\ \A z : InReturn(t, z) => k = "returned" /\ v = 0 /\ i = z
  /\ \A z : InFree(t, z) => k = "frqueue" /\ v = 0 /\ i = z
  /\ \A y, z : InQueue(t, y, z) => k = "tskq" /\ v = y /\ i = z
  /\ \A y : InCore(t, y) => k = "core" /\ v = y /\ i = 0

Placed(t, k, v, i) == RequestAt(t, k, v, i) /\ Alone(t, k, v, i)

\* No place of RequestAt is called "nowhere".
Nowhere(t) == Alone(t, "nowhere", 0, 0)

Somewhere(t) == IF t \in live THEN \E k, v, i : Placed(t, k, v, i) ELSE Nowhere(t)

RequestSomewhere == \A t \in Tasks : Somewhere(t)

\* What a step leaves alone.
MailKept(t)   == \A z : InMail(t, z)' <=> InMail(t, z)
ReturnKept(t) == \A z : InReturn(t, z)' <=> InReturn(t, z)
FreeKept(t)   == \A z : InFree(t, z)' <=> InFree(t, z)
QueueKept(t)  == \A y, z : InQueue(t, y, z)' <=> InQueue(t, y, z)
CoreKept(t)   == \A y : InCore(t, y)' <=> InCore(t, y)

LEMMA FoundRequest ==
  ASSUME RequestSomewhere, NEW t \in Tasks, NEW k, NEW v, NEW i, RequestAt(t, k, v, i)
  PROVE  t \in live /\ Alone(t, k, v, i)
<1>1. \A x, y, z : Alone(t, x, y, z) => x = k /\ y = v /\ z = i
  BY DEF RequestAt, Alone
<1>2. k # "nowhere"
  BY DEF RequestAt
<1>3. QED
  BY <1>1, <1>2 DEF RequestSomewhere, Somewhere, Placed, Nowhere

\* A request whose places are the same.
LEMMA RequestStays ==
  ASSUME NEW t, Somewhere(t), live' = live,
         MailKept(t), ReturnKept(t), FreeKept(t), QueueKept(t), CoreKept(t)
  PROVE  Somewhere(t)'
<1>1. ASSUME NEW k, NEW v, NEW i
      PROVE  /\ RequestAt(t, k, v, i)' <=> RequestAt(t, k, v, i)
             /\ Alone(t, k, v, i)' <=> Alone(t, k, v, i)
  BY DEF RequestAt, Alone, MailKept, ReturnKept, FreeKept, QueueKept, CoreKept
<1>2. QED
  BY <1>1 DEF Somewhere, Placed, Nowhere

-----------------------------------------------------------------------------
(* What the operations of the queues do to the places.                      *)

\* request_enqueue puts r in front of the others.
FreedBy(r) ==
  /\ InFree(r, 1)'
  /\ \A t, z : InFree(t, z) => InFree(t, z + 1)'
  /\ \A t, z : InFree(t, z)' => (t = r /\ z = 1) \/ \E i : z = i + 1 /\ InFree(t, i)

LEMMA RequestFreed ==
  ASSUME NEW r \in Tasks, frqueue \in Seq(Tasks), RequestEnqueue(r)
  PROVE  FreedBy(r)
<1>1. PICK n \in Nat : n = Len(frqueue)
  OBVIOUS
<1>2. /\ Len(frqueue') = n + 1 /\ frqueue'[1] = r
      /\ \A i \in 1..n : frqueue'[i + 1] = frqueue[i]
  BY <1>1, Prepended DEF RequestEnqueue
<1>3. ASSUME NEW t, NEW z, InFree(t, z) PROVE InFree(t, z + 1)'
  BY <1>1, <1>2, <1>3 DEF InFree
<1>4. ASSUME NEW t, NEW z, InFree(t, z)', ~(t = r /\ z = 1)
      PROVE  \E i : z = i + 1 /\ InFree(t, i)
  <2>1. z # 1 /\ z \in 1..(n + 1)
    BY <1>2, <1>4 DEF InFree
  <2>2. z - 1 \in 1..n /\ z = (z - 1) + 1
    BY <2>1
  <2>3. InFree(t, z - 1)
    BY <1>1, <1>2, <1>4, <2>2 DEF InFree
  <2>4. QED
    BY <2>2, <2>3
<1>5. QED
  BY <1>2, <1>3, <1>4 DEF FreedBy, InFree

LEMMA FreeShifts ==
  ASSUME NEW r, NEW t, t # r, Somewhere(t), live' = live, FreedBy(r),
         MailKept(t), ReturnKept(t), QueueKept(t), CoreKept(t)
  PROVE  Somewhere(t)'
<1>1. CASE t \notin live
  BY <1>1 DEF Somewhere, Nowhere, Alone, FreedBy, MailKept, ReturnKept, QueueKept, CoreKept
<1>2. CASE t \in live
  <2>1. PICK k, v, i : Placed(t, k, v, i)
    BY <1>2 DEF Somewhere
  <2>2. CASE k = "frqueue"
    <3>1. InFree(t, i) /\ v = 0
      BY <2>1, <2>2 DEF Placed, RequestAt
    <3>2. Alone(t, k, v, i + 1)' /\ RequestAt(t, k, v, i + 1)'
      BY <2>1, <2>2, <3>1 DEF Placed, Alone, RequestAt, FreedBy, MailKept, ReturnKept,
           QueueKept, CoreKept
    <3>3. QED
      BY <1>2, <3>2 DEF Somewhere, Placed
  <2>3. CASE k # "frqueue"
    <3>1. Alone(t, k, v, i)' /\ RequestAt(t, k, v, i)'
      BY <2>1, <2>3 DEF Placed, Alone, RequestAt, FreedBy, MailKept, ReturnKept,
           QueueKept, CoreKept
    <3>2. QED
      BY <1>2, <3>1 DEF Somewhere, Placed
  <2>4. QED
    BY <2>2, <2>3
<1>3. QED
  BY <1>1, <1>2

\* A task for r is put in front of the queue of worker w ...
PrependedBy(r, w) ==
  /\ InQueue(r, w, 1)'
  /\ \A t, z : InQueue(t, w, z) => InQueue(t, w, z + 1)'
  /\ \A t, z : InQueue(t, w, z)' => (t = r /\ z = 1) \/ \E i : z = i + 1 /\ InQueue(t, w, i)
  /\ \A t, y, z : y # w => (InQueue(t, y, z)' <=> InQueue(t, y, z))

\* ... or at place n behind it ...
AppendedBy(r, w, n) ==
  \A t, y, z : InQueue(t, y, z)' <=> InQueue(t, y, z) \/ (t = r /\ y = w /\ z = n)

\* ... and the first task of worker w is taken, for r.
TakenBy(r, w) ==
  /\ InQueue(r, w, 1)
  /\ \A t, z : InQueue(t, w, z) /\ z # 1 => InQueue(t, w, z - 1)'
  /\ \A t, z : InQueue(t, w, z)' => \E i : i # 1 /\ z = i - 1 /\ InQueue(t, w, i)
  /\ \A t, y, z : y # w => (InQueue(t, y, z)' <=> InQueue(t, y, z))

LEMMA QueueShifts ==
  ASSUME NEW r, NEW w, NEW t, t # r, Somewhere(t), live' = live,
         PrependedBy(r, w) \/ TakenBy(r, w),
         MailKept(t), ReturnKept(t), FreeKept(t), CoreKept(t)
  PROVE  Somewhere(t)'
<1>1. CASE t \notin live
  BY <1>1 DEF Somewhere, Nowhere, Alone, PrependedBy, TakenBy, MailKept, ReturnKept,
       FreeKept, CoreKept
<1>2. CASE t \in live
  <2>1. PICK k, v, i : Placed(t, k, v, i)
    BY <1>2 DEF Somewhere
  <2>2. CASE k = "tskq" /\ v = w /\ PrependedBy(r, w)
    <3>1. InQueue(t, w, i)
      BY <2>1, <2>2 DEF Placed, RequestAt
    <3>2. Alone(t, k, v, i + 1)' /\ RequestAt(t, k, v, i + 1)'
      BY <2>1, <2>2, <3>1 DEF Placed, Alone, RequestAt, PrependedBy, MailKept, ReturnKept,
           FreeKept, CoreKept
    <3>3. QED
      BY <1>2, <3>2 DEF Somewhere, Placed
  <2>3. CASE k = "tskq" /\ v = w /\ TakenBy(r, w)
    <3>1. InQueue(t, w, i) /\ i # 1
      BY <2>1, <2>3 DEF Placed, RequestAt, TakenBy, InQueue
    <3>2. Alone(t, k, v, i - 1)' /\ RequestAt(t, k, v, i - 1)'
      BY <2>1, <2>3, <3>1 DEF Placed, Alone, RequestAt, TakenBy, MailKept, ReturnKept,
           FreeKept, CoreKept
    <3>3. QED
      BY <1>2, <3>2 DEF Somewhere, Placed
  <2>4. CASE ~(k = "tskq" /\ v = w)
    <3>1. \A z : ~InQueue(t, w, z)
      BY <2>1, <2>4 DEF Placed, Alone
    <3>2. QueueKept(t)
      BY <3>1 DEF PrependedBy, TakenBy, QueueKept
    <3>3. QED
      BY <3>2, RequestStays
  <2>5. QED
    BY <2>2, <2>3, <2>4
<1>3. QED
  BY <1>1, <1>2

LEMMA RequestAppended ==
  ASSUME tskq \in [Workers -> Seq(Runnable)], NEW w \in Workers, NEW e \in Runnable,
         NEW n, n = Len(tskq[w]), TskqEnqueueTail(w, e)
  PROVE  AppendedBy(e.req, w, n + 1)
<1>1. tskq[w] \in Seq(Runnable) /\ n \in Nat
  OBVIOUS
<1>2. /\ tskq'[w] = Append(tskq[w], e) /\ Len(tskq'[w]) = n + 1 /\ tskq'[w][n + 1] = e
      /\ \A i \in 1..n : tskq'[w][i] = tskq[w][i]
      /\ \A v \in Workers \ {w} : tskq'[v] = tskq[v]
  BY <1>1, Appended DEF TskqEnqueueTail
<1>3. ASSUME NEW t, NEW z
      PROVE  InQueue(t, w, z)' <=> InQueue(t, w, z) \/ (t = e.req /\ z = n + 1)
  BY <1>1, <1>2 DEF InQueue
<1>4. ASSUME NEW t, NEW y, NEW z, y # w PROVE InQueue(t, y, z)' <=> InQueue(t, y, z)
  BY <1>2, <1>4 DEF InQueue
<1>5. QED
  BY <1>3, <1>4 DEF AppendedBy

LEMMA RequestPrepended ==
  ASSUME tskq \in [Workers -> Seq(Runnable)], NEW w \in Workers, NEW e \in Runnable,
         TskqEnqueueHead(w, e)
  PROVE  PrependedBy(e.req, w)
<1>1. PICK n \in Nat : n = Len(tskq[w]) /\ tskq[w] \in Seq(Runnable)
  OBVIOUS
<1>2. /\ tskq'[w] = <<e>> \o tskq[w] /\ Len(tskq'[w]) = n + 1 /\ tskq'[w][1] = e
      /\ \A i \in 1..n : tskq'[w][i + 1] = tskq[w][i]
      /\ \A v \in Workers \ {w} : tskq'[v] = tskq[v]
  BY <1>1, Prepended DEF TskqEnqueueHead
<1>3. ASSUME NEW t, NEW z, InQueue(t, w, z) PROVE InQueue(t, w, z + 1)'
  BY <1>1, <1>2, <1>3 DEF InQueue
<1>4. ASSUME NEW t, NEW z, InQueue(t, w, z)', ~(t = e.req /\ z = 1)
      PROVE  \E i : z = i + 1 /\ InQueue(t, w, i)
  <2>1. z # 1 /\ z \in 1..(n + 1)
    BY <1>2, <1>4 DEF InQueue
  <2>2. z - 1 \in 1..n /\ z = (z - 1) + 1
    BY <2>1
  <2>3. InQueue(t, w, z - 1)
    BY <1>1, <1>2, <1>4, <2>2 DEF InQueue
  <2>4. QED
    BY <2>2, <2>3
<1>5. ASSUME NEW t, NEW y, NEW z, y # w PROVE InQueue(t, y, z)' <=> InQueue(t, y, z)
  BY <1>2, <1>5 DEF InQueue
<1>6. InQueue(e.req, w, 1)'
  BY <1>2 DEF InQueue
<1>7. QED
  BY <1>3, <1>4, <1>5, <1>6 DEF PrependedBy

LEMMA RequestTaken ==
  ASSUME IInv, NEW w \in Workers, DispatchRequest(w), NEW r, r = tskq[w][1].req
  PROVE  TakenBy(r, w)
<1>1. PICK n \in Nat \ {0} : n = Len(tskq[w])
  BY TakeTask
<1>2. /\ Len(tskq'[w]) = n - 1
      /\ \A i \in 2..n : tskq'[w][i - 1] = tskq[w][i]
      /\ \A v \in Workers \ {w} : tskq'[v] = tskq[v]
  BY <1>1, TakeTask
<1>3. ASSUME NEW t, NEW z, InQueue(t, w, z), z # 1 PROVE InQueue(t, w, z - 1)'
  BY <1>1, <1>2, <1>3 DEF InQueue
<1>4. ASSUME NEW t, NEW z, InQueue(t, w, z)'
      PROVE  \E i : i # 1 /\ z = i - 1 /\ InQueue(t, w, i)
  <2>1. z \in 1..(n - 1)
    BY <1>2, <1>4 DEF InQueue
  <2>2. z + 1 \in 2..n /\ z = (z + 1) - 1 /\ z + 1 # 1
    BY <2>1
  <2>3. InQueue(t, w, z + 1)
    BY <1>1, <1>2, <1>4, <2>2 DEF InQueue
  <2>4. QED
    BY <2>2, <2>3
<1>5. ASSUME NEW t, NEW y, NEW z, y # w PROVE InQueue(t, y, z)' <=> InQueue(t, y, z)
  BY <1>2, <1>5 DEF InQueue
<1>6. InQueue(r, w, 1)
  BY <1>1 DEF InQueue
<1>7. QED
  BY <1>3, <1>4, <1>5, <1>6 DEF TakenBy

-----------------------------------------------------------------------------
(* The steps.                                                               *)

\* A step that moves no request.
LEMMA RequestsStay ==
  ASSUME RequestSomewhere, UNCHANGED <<live, reqs, free_cnt, frqueue, tskq,
                                       dispatcher_requests>>,
         Pending' = Pending, \A w \in Workers : InService(w)' <=> InService(w)
  PROVE  RequestSomewhere'
<1>1. ASSUME NEW t
      PROVE  MailKept(t) /\ ReturnKept(t) /\ FreeKept(t) /\ QueueKept(t) /\ CoreKept(t)
  BY DEF MailKept, ReturnKept, FreeKept, QueueKept, CoreKept, InMail, InReturn, InFree,
     InQueue, InCore
<1>2. QED
  BY <1>1, RequestStays DEF RequestSomewhere

\* The networker frees what was returned to it.
LEMMA FreedRequests ==
  ASSUME IInv, RequestSomewhere, FreeFinished PROVE RequestSomewhere'
<1>1. /\ Pending = {} /\ Pending' = {} /\ free_cnt' = 0
      /\ live' = live \ {reqs[i] : i \in 1..free_cnt}
      /\ UNCHANGED <<reqs, frqueue, tskq, dispatcher_requests, response_flag, wpc>>
  BY DEF FreeFinished, Pending, IInv, HandOffInv, MailboxHandOff, NetworkerInv, dispVars,
         slotVars, sharedVars, workVars
<1>2. ASSUME NEW t
      PROVE  /\ MailKept(t) /\ FreeKept(t) /\ QueueKept(t) /\ CoreKept(t)
             /\ \A z : ~InReturn(t, z)'
             /\ t \in live' <=> t \in live /\ \A z : ~InReturn(t, z)
  <2>1. MailKept(t) /\ FreeKept(t) /\ QueueKept(t) /\ CoreKept(t)
    BY <1>1 DEF MailKept, FreeKept, QueueKept, CoreKept, InMail, InFree, InQueue, InCore,
         InService
  <2>2. \A z : ~InReturn(t, z)'
    BY <1>1 DEF InReturn
  <2>3. t \in live' <=> t \in live /\ \A z : ~InReturn(t, z)
    BY <1>1 DEF InReturn
  <2>4. QED
    BY <2>1, <2>2, <2>3
<1>3. ASSUME NEW t \in Tasks PROVE Somewhere(t)'
  <2>1. CASE t \in live'
    <3>1. Somewhere(t) /\ \A z : ~InReturn(t, z)
      BY <1>2, <2>1 DEF RequestSomewhere
    <3>2. PICK k, v, i : Placed(t, k, v, i)
      BY <1>2, <2>1, <3>1 DEF Somewhere
    <3>3. RequestAt(t, k, v, i)' /\ Alone(t, k, v, i)'
      BY <1>2, <3>1, <3>2 DEF Placed, RequestAt, Alone, MailKept, FreeKept, QueueKept, CoreKept
    <3>4. QED
      BY <2>1, <3>3 DEF Somewhere, Placed
  <2>2. CASE t \notin live'
    <3>1. CASE t \notin live
      BY <1>2, <3>1 DEF RequestSomewhere, Somewhere, Nowhere, Alone, MailKept, FreeKept,
           QueueKept, CoreKept
    <3>2. ASSUME NEW z, InReturn(t, z) PROVE Nowhere(t)'
      <4>1. Alone(t, "returned", 0, z)
        BY <3>2, FoundRequest DEF RequestAt
      <4>2. QED
        BY <1>2, <4>1 DEF Nowhere, Alone, MailKept, FreeKept, QueueKept, CoreKept
    <3>3. QED
      BY <1>2, <2>2, <3>1, <3>2 DEF RequestSomewhere, Somewhere, Nowhere
  <2>3. QED
    BY <2>1, <2>2
<1>4. QED
  BY <1>3 DEF RequestSomewhere

\* rq_update makes a request of a packet that is none yet.
LEMMA UpdatedRequests ==
  ASSUME IInv, ArrivesOnce, RequestSomewhere, RqUpdate PROVE RequestSomewhere'
<1> USE DEF slotVars, sharedVars, dispVars, workVars
<1>1. /\ NetTypeOK /\ free_cnt = 0 /\ dpc \notin {"accept", "mark", "release"}
      /\ npc = "fill" /\ npc' = "fill" /\ UNCHANGED <<free_cnt, dpc>>
      /\ Pending = 1..nj /\ Pending' = 1..nj'
      /\ nj \in Nat /\ nj + 1 \in Slots
  BY SizeAssumption DEF RqUpdate, Pending, IInv, HandOffInv, MailboxHandOff, NetworkerInv,
         TypeOK, NetTypeOK, Slots
<1>2. UNCHANGED <<frqueue, tskq, dispatcher_requests, response_flag, wpc>>
  BY DEF RqUpdate
<1>3. PICK r \in Tasks : r = Head(recv_mbufs) /\ r \notin live
  <2>1. recv_mbufs \in Seq(Tasks) /\ recv_mbufs # <<>>
    BY <1>1 DEF RqUpdate, NetTypeOK
  <2>2. Head(recv_mbufs) = recv_mbufs[1] /\ 1 \in 1..Len(recv_mbufs) /\ recv_mbufs[1] \in Tasks
    BY <2>1
  <2>3. QED
    BY <2>2 DEF ArrivesOnce
<1>4. ASSUME NEW t PROVE ReturnKept(t) /\ FreeKept(t) /\ QueueKept(t) /\ CoreKept(t)
  BY <1>1, <1>2 DEF ReturnKept, FreeKept, QueueKept, CoreKept, InReturn, InFree, InQueue,
     InCore, InService
<1>5. CASE IsTask(r)
  <2>1. /\ reqs' = [reqs EXCEPT ![nj + 1] = r] /\ nj' = nj + 1 /\ live' = live \cup {r}
    BY <1>3, <1>5 DEF RqUpdate
  <2>2. PICK n \in Nat : n = nj
    BY <1>1
  <2>3. reqs'[n + 1] = r /\ \A i \in 1..n : reqs'[i] = reqs[i]
    BY <1>1, <2>1, <2>2 DEF NetTypeOK, Slots
  <2>4. \A t, z : InMail(t, z)' <=> InMail(t, z) \/ (t = r /\ z = n + 1)
    BY <1>1, <2>1, <2>2, <2>3 DEF InMail
  <2>5. ASSUME NEW t \in Tasks, t # r PROVE Somewhere(t)'
    <3>1. MailKept(t) /\ Somewhere(t) /\ (t \in live' <=> t \in live)
      BY <2>1, <2>4, <2>5 DEF MailKept, RequestSomewhere
    <3>2. ASSUME NEW k, NEW v, NEW i
          PROVE  /\ RequestAt(t, k, v, i)' <=> RequestAt(t, k, v, i)
                 /\ Alone(t, k, v, i)' <=> Alone(t, k, v, i)
      BY <1>4, <3>1 DEF RequestAt, Alone, MailKept, ReturnKept, FreeKept, QueueKept, CoreKept
    <3>3. QED
      BY <3>1, <3>2 DEF Somewhere, Placed, Nowhere
  <2>6. Somewhere(r)'
    <3>1. Alone(r, "nowhere", 0, 0) /\ r \in live'
      BY <1>3, <2>1 DEF RequestSomewhere, Somewhere, Nowhere
    <3>2. Alone(r, "mailbox", 0, n + 1)' /\ RequestAt(r, "mailbox", 0, n + 1)'
      BY <1>4, <2>4, <3>1 DEF RequestAt, Alone, ReturnKept, FreeKept, QueueKept, CoreKept
    <3>3. QED
      BY <3>1, <3>2 DEF Somewhere, Placed
  <2>7. QED
    BY <2>5, <2>6 DEF RequestSomewhere
<1>6. CASE ~IsTask(r)
  <2>1. UNCHANGED <<reqs, nj, live>>
    BY <1>3, <1>6 DEF RqUpdate
  <2>2. QED
    BY <1>1, <1>2, <2>1, RequestsStay DEF InService
<1>7. QED
  BY <1>5, <1>6

\* The place of the mailbox handle_networker has dealt with.
LEMMA MailTaken ==
  ASSUME NEW r, r = reqs[ni], ni \in 1..cnt, cnt \in Nat, npc # "fill",
         dpc \in {"accept", "mark"}, dpc' = "accept", ni' = ni + 1,
         UNCHANGED <<npc, cnt, reqs>>
  PROVE  \A t, z : InMail(t, z)' <=> InMail(t, z) /\ ~(t = r /\ z = ni)
<1>1. Pending = ni..cnt /\ Pending' = (ni + 1)..cnt
  BY DEF Pending
<1>2. QED
  BY <1>1 DEF InMail

\* The request handle_networker is at.
LEMMA NextRequest ==
  ASSUME IInv, RequestSomewhere, dpc \in {"accept", "mark"}, ni <= cnt
  PROVE  /\ ni \in 1..cnt /\ cnt \in Nat /\ npc # "fill"
         /\ reqs[ni] \in Tasks /\ reqs[ni] \in live
         /\ Alone(reqs[ni], "mailbox", 0, ni)
<1>1. ni \in 1..cnt /\ cnt \in Nat /\ npc # "fill" /\ reqs[ni] \in Tasks
  BY SizeAssumption DEF IInv, TypeOK, NetTypeOK, DispTypeOK, HandOffInv, MailboxHandOff,
     MailboxInv
<1>2. ni \in Pending
  BY <1>1 DEF Pending
<1>3. RequestAt(reqs[ni], "mailbox", 0, ni)
  BY <1>2 DEF RequestAt, InMail
<1>4. QED
  BY <1>1, <1>3, FoundRequest

\* A request no context is free for goes back at once.
LEMMA DroppedRequests ==
  ASSUME IInv, RequestSomewhere, DropRequest PROVE RequestSomewhere'
<1> USE DEF slotVars, sharedVars, workVars, netVars, mailVars
<1>1. PICK r, m : r = reqs[ni] /\ m = ni
  OBVIOUS
<1>2. /\ m \in 1..cnt /\ cnt \in Nat /\ npc # "fill" /\ r \in Tasks /\ r \in live
      /\ Alone(r, "mailbox", 0, m)
  BY <1>1, NextRequest DEF DropRequest
<1>3. /\ UNCHANGED <<npc, cnt, reqs, live, free_cnt, tskq, dispatcher_requests,
                     response_flag, wpc>>
      /\ dpc = "accept" /\ dpc' = "accept" /\ ni' = ni + 1 /\ RequestEnqueue(r)
  BY <1>1 DEF DropRequest
<1>4. \A t, z : InMail(t, z)' <=> InMail(t, z) /\ ~(t = r /\ z = m)
  BY <1>1, <1>2, <1>3, MailTaken
<1>5. FreedBy(r)
  BY <1>2, <1>3, RequestFreed DEF IInv, TypeOK, DispTypeOK
<1>6. ASSUME NEW t PROVE ReturnKept(t) /\ QueueKept(t) /\ CoreKept(t)
  BY <1>3 DEF ReturnKept, QueueKept, CoreKept, InReturn, InQueue, InCore, InService
<1>7. ASSUME NEW t \in Tasks, t # r PROVE Somewhere(t)'
  <2>1. MailKept(t)
    BY <1>4, <1>7 DEF MailKept
  <2>2. QED
    BY <1>3, <1>5, <1>6, <1>7, <2>1, FreeShifts DEF RequestSomewhere
<1>8. Somewhere(r)'
  <2>1. Alone(r, "frqueue", 0, 1)' /\ RequestAt(r, "frqueue", 0, 1)'
    BY <1>2, <1>4, <1>5, <1>6 DEF Alone, RequestAt, FreedBy, ReturnKept, QueueKept, CoreKept
  <2>2. QED
    BY <1>2, <1>3, <2>1 DEF Somewhere, Placed
<1>9. QED
  BY <1>7, <1>8 DEF RequestSomewhere

\* An accepted one goes to the tail of a queue.
LEMMA EnqueuedRequests ==
  ASSUME IInv, RequestSomewhere, EnqueueRequest PROVE RequestSomewhere'
<1> USE DEF slotVars, sharedVars, workVars, netVars, mailVars
<1>1. PICK r \in Tasks, m \in 1..cnt, k \in Workers, e \in Runnable, n \in Nat :
        /\ r = reqs[ni] /\ m = ni /\ k = types[ni] /\ n = Len(tskq[k])
        /\ e = [rnbl |-> acont, req |-> reqs[ni], type |-> types[ni], category |-> "PACKET"]
  <2>1. \A w \in Workers : Len(tskq[w]) \in Nat
    BY DEF IInv, TypeOK, DispTypeOK
  <2>2. QED
    BY <2>1, EnqueueTask
<1>2. /\ dpc = "mark" /\ e.req = r /\ TskqEnqueueTail(k, e) /\ dpc' = "accept" /\ ni' = ni + 1
      /\ UNCHANGED <<npc, cnt, reqs, live, free_cnt, frqueue, dispatcher_requests,
                     response_flag, wpc>>
  BY <1>1 DEF EnqueueRequest
<1>3. ni <= cnt
  BY <1>2 DEF IInv, MailboxInv
<1>4. /\ m \in 1..cnt /\ cnt \in Nat /\ npc # "fill" /\ r \in Tasks /\ r \in live
      /\ Alone(r, "mailbox", 0, m)
  BY <1>1, <1>2, <1>3, NextRequest
<1>5. \A t, z : InMail(t, z)' <=> InMail(t, z) /\ ~(t = r /\ z = m)
  BY <1>1, <1>2, <1>4, MailTaken
<1>6. AppendedBy(r, k, n + 1)
  BY <1>1, <1>2, RequestAppended DEF IInv, TypeOK, DispTypeOK
<1>7. ASSUME NEW t PROVE ReturnKept(t) /\ FreeKept(t) /\ CoreKept(t)
  BY <1>2 DEF ReturnKept, FreeKept, CoreKept, InReturn, InFree, InCore, InService
<1>8. ASSUME NEW t \in Tasks, t # r PROVE Somewhere(t)'
  <2>1. MailKept(t) /\ QueueKept(t)
    BY <1>5, <1>6, <1>8 DEF MailKept, QueueKept, AppendedBy
  <2>2. QED
    BY <1>2, <1>7, <2>1, RequestStays DEF RequestSomewhere
<1>9. Somewhere(r)'
  <2>1. Alone(r, "tskq", k, n + 1)' /\ RequestAt(r, "tskq", k, n + 1)'
    BY <1>4, <1>5, <1>6, <1>7 DEF Alone, RequestAt, AppendedBy, ReturnKept, FreeKept, CoreKept
  <2>2. QED
    BY <1>2, <1>4, <2>1 DEF Somewhere, Placed
<1>10. QED
  BY <1>8, <1>9 DEF RequestSomewhere

\* The finished requests are handed to the networker, the last of them first.
LEMMA ReturnedRequests ==
  ASSUME IInv, RequestSomewhere, ReturnFinished PROVE RequestSomewhere'
<1> USE DEF slotVars, sharedVars, workVars, netVars
<1>1. PICK n, l \in Nat : n = Returned /\ l = Len(frqueue)
  BY SizeAssumption DEF IInv, TypeOK, DispTypeOK, Returned
<1>2. n \in 0..l /\ n \in 0..Batch
  BY <1>1, SizeAssumption DEF Returned
<1>3. /\ reqs' = [i \in Slots |-> IF i <= n THEN frqueue[i] ELSE reqs[i]]
      /\ free_cnt' = free_cnt + n /\ frqueue' = SubSeq(frqueue, n + 1, Len(frqueue))
      /\ UNCHANGED <<live, tskq, dispatcher_requests, response_flag, wpc>>
      /\ dpc = "accept" /\ dpc' = "release" /\ ni > cnt /\ UNCHANGED <<npc, cnt>>
  BY <1>1 DEF ReturnFinished
<1>4. free_cnt = 0 /\ npc # "fill" /\ ni \in Nat /\ cnt \in Nat
  BY <1>3 DEF IInv, HandOffInv, MailboxHandOff, TypeOK, NetTypeOK, DispTypeOK
<1>5. Pending = {} /\ Pending' = {}
  BY <1>3, <1>4 DEF Pending
<1>6. free_cnt' = n /\ \A i \in 1..n : reqs'[i] = frqueue[i]
  BY <1>2, <1>3, <1>4, SizeAssumption DEF Slots
<1>7. Len(frqueue') = l - n /\ \A i \in 1..(l - n) : frqueue'[i] = frqueue[i + n]
  <2>1. frqueue \in Seq(Tasks)
    BY DEF IInv, TypeOK, DispTypeOK
  <2>2. QED
    BY <1>1, <1>2, <1>3, <2>1
<1> DEFINE First(z) == z \in 1..n
<1>8. ASSUME NEW t
      PROVE  /\ \A z : ~InMail(t, z) /\ ~InMail(t, z)' /\ ~InReturn(t, z)
             /\ QueueKept(t) /\ CoreKept(t)
  BY <1>3, <1>4, <1>5 DEF InMail, InReturn, QueueKept, CoreKept, InQueue, InCore, InService
<1>9. ASSUME NEW t, NEW z PROVE InReturn(t, z)' <=> First(z) /\ InFree(t, z)
  BY <1>1, <1>2, <1>6 DEF InReturn, InFree
<1>10. ASSUME NEW t, NEW z, InFree(t, z), ~First(z) PROVE InFree(t, z - n)'
  <2>1. z \in 1..l /\ z - n \in 1..(l - n) /\ (z - n) + n = z
    BY <1>1, <1>2, <1>10 DEF InFree
  <2>2. QED
    BY <1>7, <1>10, <2>1 DEF InFree
<1>11. ASSUME NEW t, NEW z, InFree(t, z)'
       PROVE  \E i : ~First(i) /\ z = i - n /\ InFree(t, i)
  <2>1. z \in 1..(l - n)
    BY <1>7, <1>11 DEF InFree
  <2>2. ~First(z + n) /\ z = (z + n) - n /\ z + n \in 1..l
    BY <1>2, <2>1
  <2>3. InFree(t, z + n)
    BY <1>1, <1>7, <1>11, <2>1, <2>2 DEF InFree
  <2>4. QED
    BY <2>2, <2>3
<1> HIDE DEF First
<1>12. ASSUME NEW t \in Tasks PROVE Somewhere(t)'
  <2>1. Somewhere(t) /\ live' = live
    BY <1>3 DEF RequestSomewhere
  <2>2. CASE t \notin live
    BY <1>8, <1>9, <1>11, <2>1, <2>2 DEF Somewhere, Nowhere, Alone, QueueKept, CoreKept
  <2>3. CASE t \in live
    <3>1. PICK k, v, i : Placed(t, k, v, i)
      BY <2>1, <2>3 DEF Somewhere
    <3>2. CASE k = "frqueue" /\ First(i)
      <4>1. InFree(t, i) /\ v = 0
        BY <3>1, <3>2 DEF Placed, RequestAt
      <4>2. Alone(t, "returned", 0, i)' /\ RequestAt(t, "returned", 0, i)'
        BY <1>8, <1>9, <1>11, <3>1, <3>2, <4>1 DEF Placed, Alone, RequestAt, QueueKept,
             CoreKept
      <4>3. QED
        BY <2>1, <2>3, <4>2 DEF Somewhere, Placed
    <3>3. CASE k = "frqueue" /\ ~First(i)
      <4>1. InFree(t, i) /\ v = 0
        BY <3>1, <3>3 DEF Placed, RequestAt
      <4>2. Alone(t, "frqueue", 0, i - n)' /\ RequestAt(t, "frqueue", 0, i - n)'
        BY <1>8, <1>9, <1>10, <1>11, <3>1, <3>3, <4>1 DEF Placed, Alone, RequestAt, QueueKept,
             CoreKept
      <4>3. QED
        BY <2>1, <2>3, <4>2 DEF Somewhere, Placed
    <3>4. CASE k # "frqueue"
      <4>1. Alone(t, k, v, i)' /\ RequestAt(t, k, v, i)'
        BY <1>8, <1>9, <1>11, <3>1, <3>4 DEF Placed, Alone, RequestAt, QueueKept, CoreKept
      <4>2. QED
        BY <2>1, <2>3, <4>1 DEF Somewhere, Placed
    <3>5. QED
      BY <3>2, <3>3, <3>4
  <2>4. QED
    BY <2>2, <2>3
<1>13. QED
  BY <1>12 DEF RequestSomewhere

\* The task a response is for leaves its core.
LEMMA ResponseTaken ==
  ASSUME IInv, SlotKept, RequestSomewhere, NEW w \in Workers,
         HandleFinished(w) \/ HandlePreempted(w), NEW r, r = worker_responses[w].req
  PROVE  /\ r \in Tasks /\ r \in live /\ live' = live /\ Alone(r, "core", w, 0)
         /\ \A t, y : InCore(t, y)' <=> InCore(t, y) /\ ~(t = r /\ y = w)
         /\ \A t : MailKept(t) /\ ReturnKept(t)
<1> USE DEF slotVars, sharedVars, workVars, netVars, mailVars
<1>1. /\ UNCHANGED <<dpc, dispatcher_requests>> /\ InService(w) /\ ~InService(w)'
      /\ \A v \in Workers \ {w} : InService(v)' = InService(v)
      /\ Runs(worker_responses[w], w) /\ r = dispatcher_requests[w].req
  BY TakeResponse
<1>2. UNCHANGED <<npc, nj, ni, cnt, reqs, free_cnt, live>>
  BY DEF HandleFinished, HandlePreempted
<1>3. InCore(r, w) /\ r \in Tasks
  BY <1>1 DEF InCore, Runs, Runnable
<1>4. r \in live /\ Alone(r, "core", w, 0)
  BY <1>3, FoundRequest DEF RequestAt
<1>5. \A t, y : InCore(t, y)' <=> InCore(t, y) /\ ~(t = r /\ y = w)
  BY <1>1 DEF InCore
<1>6. Pending' = Pending
  BY <1>1, <1>2 DEF Pending
<1>7. \A t : MailKept(t) /\ ReturnKept(t)
  BY <1>2, <1>6 DEF MailKept, ReturnKept, InMail, InReturn
<1>8. QED
  BY <1>2, <1>3, <1>4, <1>5, <1>7

LEMMA FinishedRequests ==
  ASSUME IInv, SlotKept, RequestSomewhere, NEW w \in Workers, HandleFinished(w)
  PROVE  RequestSomewhere'
<1>1. PICK r : r = worker_responses[w].req
  OBVIOUS
<1>2. /\ r \in Tasks /\ r \in live /\ live' = live /\ Alone(r, "core", w, 0)
      /\ \A t, y : InCore(t, y)' <=> InCore(t, y) /\ ~(t = r /\ y = w)
      /\ \A t : MailKept(t) /\ ReturnKept(t)
  BY <1>1, ResponseTaken
<1>3. FreedBy(r) /\ \A t : QueueKept(t)
  <2>1. RequestEnqueue(r) /\ UNCHANGED tskq
    BY <1>1 DEF HandleFinished
  <2>2. QED
    BY <1>2, <2>1, RequestFreed DEF IInv, TypeOK, DispTypeOK, QueueKept, InQueue
<1>4. ASSUME NEW t \in Tasks, t # r PROVE Somewhere(t)'
  <2>1. CoreKept(t)
    BY <1>2, <1>4 DEF CoreKept
  <2>2. QED
    BY <1>2, <1>3, <1>4, <2>1, FreeShifts DEF RequestSomewhere
<1>5. Somewhere(r)'
  <2>1. Alone(r, "frqueue", 0, 1)' /\ RequestAt(r, "frqueue", 0, 1)'
    BY <1>2, <1>3 DEF Alone, RequestAt, FreedBy, MailKept, ReturnKept, QueueKept
  <2>2. QED
    BY <1>2, <2>1 DEF Somewhere, Placed
<1>6. QED
  BY <1>4, <1>5 DEF RequestSomewhere

LEMMA PreemptedRequests ==
  ASSUME IInv, SlotKept, RequestSomewhere, NEW w \in Workers, HandlePreempted(w)
  PROVE  RequestSomewhere'
<1>1. PICK r, e, n : r = worker_responses[w].req /\ e = worker_responses[w] /\ n = Len(tskq[w])
  OBVIOUS
<1>2. /\ r \in Tasks /\ r \in live /\ live' = live /\ Alone(r, "core", w, 0)
      /\ \A t, y : InCore(t, y)' <=> InCore(t, y) /\ ~(t = r /\ y = w)
      /\ \A t : MailKept(t) /\ ReturnKept(t)
  BY <1>1, ResponseTaken
<1>3. e \in Runnable /\ e.type = w /\ tskq \in [Workers -> Seq(Runnable)]
  BY <1>1, TakeResponse DEF Runs, IInv, TypeOK, DispTypeOK
<1>4. \A t : FreeKept(t)
  BY DEF HandlePreempted, FreeKept, InFree
<1>5. ASSUME NEW t \in Tasks, t # r PROVE CoreKept(t)
  BY <1>2, <1>5 DEF CoreKept
<1>6. CASE RequeueHead
  <2>1. PrependedBy(r, w)
    <3>1. TskqEnqueueHead(w, e)
      BY <1>1, <1>3, <1>6 DEF HandlePreempted
    <3>2. QED
      BY <1>1, <1>3, <3>1, RequestPrepended
  <2>2. ASSUME NEW t \in Tasks, t # r PROVE Somewhere(t)'
    BY <1>2, <1>4, <1>5, <2>1, <2>2, QueueShifts DEF RequestSomewhere
  <2>3. Somewhere(r)'
    <3>1. Alone(r, "tskq", w, 1)' /\ RequestAt(r, "tskq", w, 1)'
      BY <1>2, <1>4, <2>1 DEF Alone, RequestAt, PrependedBy, MailKept, ReturnKept, FreeKept
    <3>2. QED
      BY <1>2, <3>1 DEF Somewhere, Placed
  <2>4. QED
    BY <2>2, <2>3 DEF RequestSomewhere
<1>7. CASE ~RequeueHead
  <2>1. AppendedBy(r, w, n + 1)
    <3>1. TskqEnqueueTail(w, e)
      BY <1>1, <1>3, <1>7 DEF HandlePreempted
    <3>2. QED
      BY <1>1, <1>3, <3>1, RequestAppended
  <2>2. ASSUME NEW t \in Tasks, t # r PROVE Somewhere(t)'
    <3>1. QueueKept(t)
      BY <2>1, <2>2 DEF QueueKept, AppendedBy
    <3>2. QED
      BY <1>2, <1>4, <1>5, <2>2, <3>1, RequestStays DEF RequestSomewhere
  <2>3. Somewhere(r)'
    <3>1. Alone(r, "tskq", w, n + 1)' /\ RequestAt(r, "tskq", w, n + 1)'
      BY <1>2, <1>4, <2>1 DEF Alone, RequestAt, AppendedBy, MailKept, ReturnKept, FreeKept
    <3>2. QED
      BY <1>2, <3>1 DEF Somewhere, Placed
  <2>4. QED
    BY <2>2, <2>3 DEF RequestSomewhere
<1>8. QED
  BY <1>6, <1>7

\* The task at the head of a queue goes to its core.
LEMMA DispatchedRequests ==
  ASSUME IInv, RequestSomewhere, NEW w \in Workers, DispatchRequest(w)
  PROVE  RequestSomewhere'
<1> USE DEF workVars, netVars, mailVars
<1>1. PICK r \in Tasks : r = tskq[w][1].req
  BY TakeTask DEF Runnable
<1>2. TakenBy(r, w)
  BY <1>1, RequestTaken
<1>3. r \in live /\ Alone(r, "tskq", w, 1)
  BY <1>1, <1>2, FoundRequest DEF RequestAt, TakenBy
<1>4. \A t, y : InCore(t, y)' <=> InCore(t, y) \/ (t = r /\ y = w)
  BY <1>1, TakeTask DEF InCore
<1>5. ASSUME NEW t PROVE MailKept(t) /\ ReturnKept(t) /\ FreeKept(t) /\ live' = live
  <2>1. /\ UNCHANGED <<npc, nj, ni, cnt, reqs, free_cnt, frqueue, live>>
        /\ dpc = "worker" /\ dpc' = "activate"
    BY DEF DispatchRequest, AtWorker
  <2>2. Pending' = Pending
    BY <2>1 DEF Pending
  <2>3. QED
    BY <2>1, <2>2 DEF MailKept, ReturnKept, FreeKept, InMail, InReturn, InFree
<1>6. ASSUME NEW t \in Tasks, t # r PROVE Somewhere(t)'
  <2>1. CoreKept(t)
    BY <1>4, <1>6 DEF CoreKept
  <2>2. QED
    BY <1>2, <1>5, <1>6, <2>1, QueueShifts DEF RequestSomewhere
<1>7. Somewhere(r)'
  <2>1. \A y, z : ~InQueue(r, y, z)'
    BY <1>2, <1>3 DEF TakenBy, Alone
  <2>2. Alone(r, "core", w, 0)' /\ RequestAt(r, "core", w, 0)'
    BY <1>3, <1>4, <1>5, <2>1 DEF Alone, RequestAt, MailKept, ReturnKept, FreeKept
  <2>3. QED
    BY <1>3, <1>5, <2>2 DEF Somewhere, Placed
<1>8. QED
  BY <1>6, <1>7 DEF RequestSomewhere

\* No other step moves a request.
LEMMA RequestsStep ==
  ASSUME IInv, SlotKept, ArrivesOnce, RequestSomewhere, [Next]_vars
  PROVE  RequestSomewhere'
<1> USE DEF slotVars, sharedVars, leafVars, netVars, mailVars, dispVars, workVars
<1>1. HandOffTypes /\ SlotOwner /\ MailboxHandOff /\ NetworkerInv
  BY DEF IInv, HandOffInv
<1>2. CASE LeafNext \/ UNCHANGED vars
  BY <1>2, RequestsStay DEF LeafNext, SelectIdle, SelectRandom, SendOther, Send, InService,
       Pending, vars
<1>3. CASE NetworkerNext
  <2>1. CASE Receive \/ PostPointers
    <3>1. Pending' = Pending
      BY <1>1, <2>1 DEF Receive, PostPointers, Pending, MailboxHandOff
    <3>2. QED
      BY <2>1, <3>1, RequestsStay DEF Receive, PostPointers, InService
  <2>2. QED
    BY <1>3, <2>1, FreedRequests, UpdatedRequests DEF NetworkerNext
<1>4. CASE HandleNetworker
  <2>1. CASE NoPackets \/ BeginPackets \/ AcceptRequest \/ ReleasePointers
    <3>1. Pending' = Pending
      BY <1>1, <2>1 DEF NoPackets, BeginPackets, AcceptRequest, ReleasePointers, Pending,
           MailboxHandOff
    <3>2. QED
      BY <2>1, <3>1, RequestsStay DEF NoPackets, BeginPackets, AcceptRequest,
           ReleasePointers, ContextAlloc, EnterCore, InService
  <2>2. QED
    BY <1>4, <2>1, DroppedRequests, EnqueuedRequests, ReturnedRequests DEF HandleNetworker
<1>5. ASSUME NEW w \in Workers, HandleWorker(w) PROVE RequestSomewhere'
  <2>1. CASE SkipWorker(w) \/ PreemptWorker(w) \/ NothingToDispatch(w) \/ ActivateRequest(w)
    <3>1. /\ UNCHANGED <<live, reqs, free_cnt, frqueue, tskq, dispatcher_requests,
                         response_flag, wpc, npc, nj, ni, cnt>>
          /\ dpc \in {"worker", "activate"} /\ dpc' \in {"worker", "networker"}
      BY <2>1 DEF SkipWorker, PreemptWorker, NothingToDispatch, ActivateRequest, AtWorker,
           NextTurn
    <3>2. Pending' = Pending
      BY <3>1 DEF Pending
    <3>3. QED
      BY <3>1, <3>2, RequestsStay DEF InService
  <2>2. QED
    BY <1>5, <2>1, FinishedRequests, PreemptedRequests, DispatchedRequests DEF HandleWorker
<1>6. ASSUME NEW w \in Workers, WorkerNext(w) PROVE RequestSomewhere'
  <2>1. UNCHANGED <<live, reqs, free_cnt, frqueue, tskq, dispatcher_requests, npc, dpc, nj,
                    ni, cnt>>
    BY <1>6 DEF WorkerNext, InitWorker, ResetWorkerState, ProcessSend, TakeRequest,
         StartRequest, PreemptHandler, ReadQueueLength, SendReply, FillResponse,
         PublishResponse
  <2>2. \A v \in Workers : InService(v)' <=> InService(v)
    BY <1>1, <1>6 DEF WorkerNext, InitWorker, ResetWorkerState, ProcessSend, TakeRequest,
         StartRequest, PreemptHandler, ReadQueueLength, SendReply, FillResponse,
         PublishResponse, InService, Goto, Outcome, HandOffTypes, SlotOwner, Using
  <2>3. Pending' = Pending
    BY <2>1 DEF Pending
  <2>4. QED
    BY <2>1, <2>2, <2>3, RequestsStay
<1>7. QED
  BY <1>2, <1>3, <1>4, <1>5, <1>6 DEF Next, DispatcherNext

\* The NIC takes a packet once, and the networker reads it once.
LEMMA ArrivesOnceStep == ASSUME IInv, ArrivesOnce, [Next]_vars PROVE ArrivesOnce'
<1> USE DEF slotVars, sharedVars, leafVars, netVars, mailVars, dispVars, workVars
<1>1. LeafTypeOK /\ NetTypeOK /\ NetworkerInv
  BY DEF IInv, TypeOK
<1>2. \A t \in Tasks : hdr[t] # Null => hdr'[t] = hdr[t]
  BY HeaderKept
<1>3. ASSUME NEW kind, NEW w, NEW type, Send(kind, w, type) PROVE ArrivesOnce'
  <2>1. PICK t \in Unsent : EthRecv(t) /\ UNCHANGED <<live, recv_mbufs>>
    BY <1>3 DEF Send
  <2>2. /\ t \in Tasks /\ t \notin live
        /\ \A i \in 1..Len(rxq) : rxq[i] # t
        /\ \A i \in 1..Len(recv_mbufs) : recv_mbufs[i] # t
    BY <1>1, <2>1 DEF Unsent, ArrivesOnce, NetworkerInv
  <2>3. \A u \in live' : hdr'[u] # Null
    BY <1>1, <1>2, <2>1 DEF ArrivesOnce, NetTypeOK
  <2>4. CASE UNCHANGED rxq
    BY <2>1, <2>3, <2>4 DEF ArrivesOnce
  <2>5. CASE rxq' = Append(rxq, t)
    <3>1. PICK n \in Nat : n = Len(rxq)
      BY <1>1 DEF LeafTypeOK
    <3>2. /\ Len(rxq') = n + 1 /\ rxq'[n + 1] = t
          /\ \A i \in 1..n : rxq'[i] = rxq[i]
      BY <1>1, <2>2, <2>5, <3>1, Appended DEF LeafTypeOK
    <3>3. QED
      BY <2>1, <2>2, <2>3, <3>1, <3>2 DEF ArrivesOnce
  <2>6. QED
    BY <2>1, <2>4, <2>5 DEF EthRecv
<1>4. CASE LeafNext
  BY <1>3, <1>4 DEF LeafNext, SelectIdle, SelectRandom, SendOther
<1>5. CASE Receive
  <2>1. PICK n \in Slots :
          /\ n <= Len(rxq) /\ recv_mbufs' = SubSeq(rxq, 1, n)
          /\ rxq' = SubSeq(rxq, n + 1, Len(rxq))
    BY <1>5 DEF Receive
  <2>2. PICK l \in Nat : l = Len(rxq)
    BY <1>1 DEF LeafTypeOK
  <2>3. n \in Nat /\ n <= l
    BY <2>1, <2>2, SizeAssumption DEF Slots
  <2>4. /\ Len(recv_mbufs') = n /\ \A i \in 1..n : recv_mbufs'[i] = rxq[i]
        /\ Len(rxq') = l - n /\ \A i \in 1..(l - n) : rxq'[i] = rxq[i + n]
    <3>1. rxq \in Seq(Tasks)
      BY <1>1 DEF LeafTypeOK
    <3>2. QED
      BY <2>1, <2>2, <2>3, <3>1
  <2>5. \A i \in 1..(l - n) : i + n \in 1..l
    BY <2>3
  <2>6. UNCHANGED <<hdr, live>>
    BY <1>5 DEF Receive
  <2>7. ASSUME NEW i \in 1..(l - n)
        PROVE /\ rxq'[i] \notin live'
              /\ \A j \in 1..(l - n) : rxq'[i] = rxq'[j] => i = j
              /\ \A j \in 1..n : rxq'[i] # recv_mbufs'[j]
    BY <2>2, <2>3, <2>4, <2>5, <2>6 DEF ArrivesOnce
  <2>8. ASSUME NEW i \in 1..n
        PROVE /\ recv_mbufs'[i] \notin live'
              /\ \A j \in 1..n : recv_mbufs'[i] = recv_mbufs'[j] => i = j
    BY <2>2, <2>3, <2>4, <2>6 DEF ArrivesOnce
  <2>9. QED
    BY <2>4, <2>6, <2>7, <2>8 DEF ArrivesOnce
<1>6. CASE RqUpdate
  <2>1. PICK n \in Nat \ {0}, t \in Tasks : n = Len(recv_mbufs) /\ t = recv_mbufs[1]
    BY <1>1, <1>6 DEF NetTypeOK, RqUpdate
  <2>2. /\ Len(recv_mbufs') = n - 1 /\ t = Head(recv_mbufs)
        /\ \A i \in 2..n : recv_mbufs'[i - 1] = recv_mbufs[i]
    BY <1>1, <1>6, <2>1, Dequeued DEF NetTypeOK, RqUpdate
  <2>3. \A i \in 1..(n - 1) : i + 1 \in 1..n /\ recv_mbufs'[i] = recv_mbufs[i + 1]
    <3>1. TAKE i \in 1..(n - 1)
    <3>2. i + 1 \in 2..n /\ (i + 1) - 1 = i
      OBVIOUS
    <3>3. QED
      BY <2>2, <3>2
  <2>4. live' \in {live, live \cup {t}} /\ UNCHANGED <<hdr, rxq>>
    BY <1>6, <2>2 DEF RqUpdate
  <2>5. hdr[t] # Null
    BY <1>1, <2>1 DEF NetworkerInv
  <2>6. \A i \in 1..Len(rxq) : rxq[i] # t
    BY <2>1 DEF ArrivesOnce
  <2>7. ASSUME NEW i \in 1..(n - 1)
        PROVE  /\ recv_mbufs'[i] \notin live'
               /\ \A j \in 1..(n - 1) : recv_mbufs'[i] = recv_mbufs'[j] => i = j
    <3>1. recv_mbufs[i + 1] # t /\ recv_mbufs[i + 1] \notin live
      BY <2>1, <2>3 DEF ArrivesOnce
    <3>2. \A j \in 1..(n - 1) : recv_mbufs[i + 1] = recv_mbufs[j + 1] => i + 1 = j + 1
      BY <2>1, <2>3 DEF ArrivesOnce
    <3>3. QED
      BY <2>3, <2>4, <3>1, <3>2
  <2>8. ASSUME NEW i \in 1..Len(rxq), NEW j \in 1..(n - 1) PROVE rxq[i] # recv_mbufs'[j]
    BY <2>1, <2>3 DEF ArrivesOnce
  <2>9. QED
    BY <2>2, <2>4, <2>5, <2>6, <2>7, <2>8 DEF ArrivesOnce
<1>7. CASE UNCHANGED <<hdr, rxq, recv_mbufs>> /\ live' \subseteq live
  BY <1>7 DEF ArrivesOnce
<1>8. QED
  BY <1>4, <1>5, <1>6, <1>7
     DEF Next, NetworkerNext, FreeFinished, PostPointers, DispatcherNext,
           HandleNetworker, NoPackets, BeginPackets, DropRequest, AcceptRequest,
           EnqueueRequest, ReturnFinished, ReleasePointers, HandleWorker, SkipWorker,
           PreemptWorker, HandleFinished, HandlePreempted, NothingToDispatch,
           DispatchRequest, ActivateRequest, WorkerNext, InitWorker, ResetWorkerState,
           ProcessSend, TakeRequest, StartRequest, PreemptHandler, ReadQueueLength,
           SendReply, FillResponse, PublishResponse, vars

\* rq_update returns a request for a task packet only, and any other packet
\* begins one only.
LEMMA CellInvStep == ASSUME IInv, CellInv, [Next]_vars PROVE CellInv'
<1> USE DEF slotVars, sharedVars, leafVars, netVars, mailVars, dispVars, workVars
<1>1. NetTypeOK /\ NetworkerInv
  BY DEF IInv, TypeOK
<1>2. \A t \in live \cup rq : t \in Tasks /\ hdr[t] # Null /\ hdr'[t] = hdr[t]
  BY <1>1, HeaderKept DEF CellInv, NetTypeOK
<1>3. CASE RqUpdate
  <2>1. PICK r \in Tasks : r = Head(recv_mbufs) /\ hdr[r] # Null
    BY <1>1, <1>3 DEF NetTypeOK, NetworkerInv, RqUpdate
  <2>2. UNCHANGED hdr /\ (live' = live \/ (live' = live \cup {r} /\ IsTask(r)))
    BY <1>3, <2>1 DEF RqUpdate
  <2>3. rq' \subseteq rq \/ (rq' = rq \cup {r} /\ ~IsTask(r))
    BY <1>3, <2>1 DEF RqUpdate, UpdateCells
  <2>4. QED
    BY <2>1, <2>2, <2>3 DEF CellInv, IsTask
<1>4. CASE live' \subseteq live /\ rq' = rq
  BY <1>2, <1>4 DEF CellInv, IsTask
<1>5. QED
  BY <1>3, <1>4
     DEF Next, LeafNext, SelectIdle, SelectRandom, SendOther, Send, NetworkerNext, Receive,
           FreeFinished, PostPointers, DispatcherNext,
           HandleNetworker, NoPackets, BeginPackets, DropRequest, AcceptRequest,
           EnqueueRequest, ReturnFinished, ReleasePointers, HandleWorker, SkipWorker,
           PreemptWorker, HandleFinished, HandlePreempted, NothingToDispatch,
           DispatchRequest, ActivateRequest, WorkerNext, InitWorker, ResetWorkerState,
           ProcessSend, TakeRequest, StartRequest, PreemptHandler, ReadQueueLength,
           SendReply, FillResponse, PublishResponse, vars

-----------------------------------------------------------------------------
(* The theorem.                                                             *)

RequestsInv == OwnersInv /\ ArrivesOnce /\ CellInv /\ RequestSomewhere

LEMMA InitRequests == Init => RequestsInv
<1> SUFFICES ASSUME Init PROVE RequestsInv
  OBVIOUS
<1>1. /\ live = {} /\ rq = {} /\ Len(rxq) = 0 /\ Len(recv_mbufs) = 0 /\ Len(frqueue) = 0
      /\ free_cnt = 0 /\ Pending = {}
      /\ \A w \in Workers : Len(tskq[w]) = 0 /\ ~InService(w)
  BY FlagAssumption DEF Init, InService, Pending
<1>2. ArrivesOnce /\ CellInv
  BY <1>1 DEF ArrivesOnce, CellInv
<1>3. \A t : Nowhere(t)
  BY <1>1 DEF Nowhere, Alone, InMail, InReturn, InFree, InQueue, InCore
<1>4. QED
  BY <1>1, <1>2, <1>3, InitOwners DEF RequestsInv, RequestSomewhere, Somewhere

LEMMA NextRequests == RequestsInv /\ [Next]_vars => RequestsInv'
  BY NextOwners, RequestsStep, ArrivesOnceStep, CellInvStep DEF RequestsInv, OwnersInv

LEMMA Requests == Spec => []RequestsInv
  BY InitRequests, NextRequests, PTL DEF Spec

\* A place named by RequestPlaces is one of RequestAt, and the other way round.
LEMMA RequestPlacesAt ==
  ASSUME IInv, NEW t
  PROVE  \A p : p \in RequestPlaces(t) <=>
                  \E x, y, z : p = <<x, y, z>> /\ RequestAt(t, x, y, z)
<1> DEFINE Mail == {<<"mailbox", 0, i>> : i \in {j \in Pending : reqs[j] = t}}
           Returning == {<<"returned", 0, i>> : i \in {j \in 1..free_cnt : reqs[j] = t}}
           Free == {<<"frqueue", 0, i>> : i \in {j \in DOMAIN frqueue : frqueue[j] = t}}
           In(w) == {<<"tskq", w, i>> : i \in {j \in DOMAIN tskq[w] : tskq[w][j].req = t}}
           Core == {<<"core", w, 0>> : w \in {v \in Workers : InService(v)
                                                /\ dispatcher_requests[v].req = t}}
<1>1. RequestPlaces(t) = Mail \cup Returning \cup Free \cup (UNION {In(w) : w \in Workers})
                           \cup Core
  BY DEF RequestPlaces
<1>2. \A p : p \in Mail <=> \E z : p = <<"mailbox", 0, z>> /\ InMail(t, z)
  BY DEF InMail
<1>3. \A p : p \in Returning <=> \E z : p = <<"returned", 0, z>> /\ InReturn(t, z)
  BY DEF InReturn
<1>4. \A p : p \in Free <=> \E z : p = <<"frqueue", 0, z>> /\ InFree(t, z)
  <2>1. DOMAIN frqueue = 1..Len(frqueue)
    BY DEF IInv, TypeOK, DispTypeOK
  <2>2. QED
    BY <2>1 DEF InFree
<1>5. \A p : p \in UNION {In(w) : w \in Workers} <=>
               \E y, z : p = <<"tskq", y, z>> /\ InQueue(t, y, z)
  <2>1. \A w \in Workers : DOMAIN tskq[w] = 1..Len(tskq[w])
    BY DEF IInv, TypeOK, DispTypeOK
  <2>2. ASSUME NEW w \in Workers, NEW p
        PROVE  p \in In(w) <=> \E z : p = <<"tskq", w, z>> /\ InQueue(t, w, z)
    BY <2>1 DEF InQueue
  <2>3. \A y, z : InQueue(t, y, z) => y \in Workers
    BY DEF InQueue
  <2> HIDE DEF In
  <2>4. QED
    BY <2>2, <2>3
<1>6. \A p : p \in Core <=> \E y : p = <<"core", y, 0>> /\ InCore(t, y)
  BY DEF InCore
<1> HIDE DEF Mail, Returning, Free, In, Core
<1>7. ASSUME NEW p, p \in RequestPlaces(t)
      PROVE  \E x, y, z : p = <<x, y, z>> /\ RequestAt(t, x, y, z)
  <2>1. CASE p \in Mail \/ p \in Returning \/ p \in Free
    BY <1>2, <1>3, <1>4, <2>1 DEF RequestAt
  <2>2. CASE p \in UNION {In(w) : w \in Workers}
    BY <1>5, <2>2 DEF RequestAt
  <2>3. CASE p \in Core
    BY <1>6, <2>3 DEF RequestAt
  <2>4. QED
    BY <1>1, <1>7, <2>1, <2>2, <2>3
<1>8. ASSUME NEW x, NEW y, NEW z, RequestAt(t, x, y, z)
      PROVE  <<x, y, z>> \in RequestPlaces(t)
  <2>1. CASE x = "mailbox"
    BY <1>1, <1>2, <1>8, <2>1 DEF RequestAt
  <2>2. CASE x = "returned"
    BY <1>1, <1>3, <1>8, <2>2 DEF RequestAt
  <2>3. CASE x = "frqueue"
    BY <1>1, <1>4, <1>8, <2>3 DEF RequestAt
  <2>4. CASE x = "tskq"
    BY <1>1, <1>5, <1>8, <2>4 DEF RequestAt
  <2>5. CASE x = "core"
    BY <1>1, <1>6, <1>8, <2>5 DEF RequestAt
  <2>6. QED
    BY <1>8, <2>1, <2>2, <2>3, <2>4, <2>5 DEF RequestAt
<1>9. QED
  BY <1>7, <1>8

\* Nothing is leaked, freed twice or freed while in use: a request the
\* networker allocated is in one place until the networker frees it, an
\* incomplete one in its cell.
THEOREM RequestOwnedCorrect == Spec => []RequestOwned
<1>1. ASSUME RequestsInv, NEW t \in Tasks
      PROVE  Cardinality(RequestPlaces(t) \cup CellPlaces(t))
               = IF t \in live \cup rq THEN 1 ELSE 0
  <2>1. /\ Somewhere(t)
        /\ \A p : p \in RequestPlaces(t) <=>
                    \E x, y, z : p = <<x, y, z>> /\ RequestAt(t, x, y, z)
    BY <1>1, RequestPlacesAt DEF RequestsInv, OwnersInv, RequestSomewhere
  <2>2. \A k, v, i, x, y, z :
          Alone(t, k, v, i) /\ RequestAt(t, x, y, z) => x = k /\ y = v /\ z = i
    BY DEF Alone, RequestAt
  <2>3. CASE t \in live
    <3>1. PICK k, v, i : Placed(t, k, v, i)
      BY <2>1, <2>3 DEF Somewhere
    <3>2. RequestPlaces(t) = {<<k, v, i>>}
      BY <2>1, <2>2, <3>1 DEF Placed
    <3>3. t \notin rq
      BY <1>1, <2>3 DEF RequestsInv, CellInv
    <3>4. RequestPlaces(t) \cup CellPlaces(t) = {<<k, v, i>>}
      BY <3>2, <3>3 DEF CellPlaces
    <3>5. QED
      BY <2>3, <3>4, FS_Singleton
  <2>4. CASE t \notin live
    <3>1. \A x, y, z : ~RequestAt(t, x, y, z)
      BY <2>1, <2>4 DEF Somewhere, Nowhere, Alone, RequestAt
    <3>2. RequestPlaces(t) = {}
      BY <2>1, <3>1
    <3>3. RequestPlaces(t) \cup CellPlaces(t) = IF t \in rq THEN {<<"cell", 0, 0>>} ELSE {}
      BY <3>2 DEF CellPlaces
    <3>4. QED
      BY <2>4, <3>3, FS_Singleton, FS_EmptySet
  <2>5. QED
    BY <2>3, <2>4
<1>2. RequestsInv => RequestOwned
  BY <1>1 DEF RequestOwned
<1>3. QED
  BY <1>2, Requests, PTL

-----------------------------------------------------------------------------
(* How many requests are alive.                                             *)

\* A set each of whose members is the value of a function somewhere in S.
LEMMA Covered ==
  ASSUME NEW S, IsFiniteSet(S), NEW T, NEW f, \A t \in T : \E s \in S : f[s] = t
  PROVE  IsFiniteSet(T) /\ Cardinality(T) <= Cardinality(S)
<1> DEFINE g == [s \in S |-> f[s]]
           I == {g[s] : s \in S}
<1>1. g \in Surjection(S, I)
  BY DEF Surjection
<1>2. T \in SUBSET I
  OBVIOUS
<1> HIDE DEF g, I
<1>3. IsFiniteSet(I) /\ Cardinality(I) <= Cardinality(S)
  BY <1>1, FS_Surjection
<1>4. IsFiniteSet(T) /\ Cardinality(T) <= Cardinality(I)
  BY <1>2, <1>3, FS_Subset
<1>5. Cardinality(T) \in Nat /\ Cardinality(I) \in Nat /\ Cardinality(S) \in Nat
  BY <1>3, <1>4, FS_CardinalityType
<1>6. QED
  BY <1>3, <1>4, <1>5

LEMMA UnionAtMost ==
  ASSUME NEW S, IsFiniteSet(S), NEW T, IsFiniteSet(T)
  PROVE  /\ IsFiniteSet(S \cup T)
         /\ Cardinality(S \cup T) <= Cardinality(S) + Cardinality(T)
<1>1. IsFiniteSet(S \cap T)
  BY FS_Subset
<1>2. Cardinality(S \cap T) \in Nat /\ Cardinality(S) \in Nat /\ Cardinality(T) \in Nat
  BY <1>1, FS_CardinalityType
<1>3. QED
  <2>1. /\ IsFiniteSet(S \cup T)
        /\ Cardinality(S \cup T) = Cardinality(S) + Cardinality(T) - Cardinality(S \cap T)
    BY FS_Union
  <2>2. QED
    BY <1>2, <2>1

\* Requests handle_networker has put into frqueue, or accepted, since it entered
\* the mailbox: for each of them ReturnFinished may take one out of frqueue.
FreeSlack == IF dpc = "accept" THEN ni - 1 ELSE IF dpc = "mark" THEN ni ELSE 0

\* Every other request in frqueue gave its context back.
FreeBacked == Len(frqueue) <= Cardinality(freeCtx) + FreeSlack

LEMMA FreeContexts ==
  ASSUME IInv
  PROVE  /\ IsFiniteSet(freeCtx) /\ Cardinality(freeCtx) \in Nat
         /\ Cardinality(Contexts) \in Nat
<1>1. freeCtx \in SUBSET Contexts
  BY DEF IInv, TypeOK, DispTypeOK
<1>2. QED
  BY <1>1, ContextAssumption, FS_Subset, FS_CardinalityType

\* A finished request and its context come back together; a context is given
\* to a request only against a place of the mailbox; and a batch returned is as
\* long as the batch accepted, or empties frqueue.
LEMMA FreeBackedStep == OwnersInv /\ FreeBacked /\ [Next]_vars => FreeBacked'
<1> SUFFICES ASSUME OwnersInv, FreeBacked, [Next]_vars PROVE FreeBacked'
  OBVIOUS
<1> USE DEF slotVars, sharedVars, leafVars, netVars, mailVars, dispVars, workVars
<1>1. /\ IInv /\ SlotKept /\ ContextSomewhere /\ MailboxInv
      /\ dpc \in {"worker", "activate", "networker", "accept", "mark", "release"}
      /\ ni \in Nat \ {0} /\ cnt \in Nat /\ cnt <= Batch /\ Batch \in Nat
      /\ frqueue \in Seq(Tasks) /\ Len(frqueue) \in Nat
      /\ IsFiniteSet(freeCtx) /\ Cardinality(freeCtx) \in Nat
  BY FreeContexts, SizeAssumption DEF OwnersInv, IInv, TypeOK, NetTypeOK, DispTypeOK
<1>2. ASSUME NEW w \in Workers, HandleFinished(w) PROVE FreeBacked'
  <2>1. PICK c \in Contexts, r \in Tasks :
          /\ c = worker_responses[w].rnbl /\ r = worker_responses[w].req
          /\ ContextAt(c, "core", w, 0)
    BY <1>1, <1>2, TakeResponse DEF ContextAt, Runs, Runnable
  <2>2. c \notin freeCtx
    BY <1>1, <2>1, FoundContext, OnlyThere DEF Exclusive
  <2>3. freeCtx' = freeCtx \cup {c} /\ RequestEnqueue(r) /\ dpc = "worker" /\ dpc' = "worker"
    BY <1>2, <2>1 DEF HandleFinished, ContextFree, AtWorker
  <2>4. Cardinality(freeCtx') = Cardinality(freeCtx) + 1
    BY <1>1, <2>2, <2>3, FS_AddElement
  <2>5. Len(frqueue') = Len(frqueue) + 1
    BY <1>1, <2>1, <2>3, Prepended DEF RequestEnqueue
  <2>6. QED
    BY <1>1, <2>3, <2>4, <2>5 DEF FreeBacked, FreeSlack
<1>3. CASE DropRequest
  <2>1. PICK r \in Tasks : r = reqs[ni]
    BY <1>1, <1>3 DEF DropRequest, MailboxInv
  <2>2. Len(frqueue') = Len(frqueue) + 1
    BY <1>1, <1>3, <2>1, Prepended DEF DropRequest, RequestEnqueue
  <2>3. QED
    BY <1>1, <1>3, <2>2 DEF DropRequest, FreeBacked, FreeSlack
<1>4. CASE AcceptRequest
  <2>1. PICK c \in freeCtx : freeCtx' = freeCtx \ {c}
    BY <1>4 DEF AcceptRequest, ContextAlloc
  <2>2. Cardinality(freeCtx') = Cardinality(freeCtx) - 1
    BY <1>1, <2>1, FS_RemoveElement
  <2>3. QED
    BY <1>1, <1>4, <2>2 DEF AcceptRequest, FreeBacked, FreeSlack
<1>5. CASE ReturnFinished
  <2>1. PICK n, l \in Nat : n = Returned /\ l = Len(frqueue)
    BY <1>1 DEF Returned
  <2>2. n \in 0..l /\ (n = l \/ n = Batch)
    BY <1>1, <2>1 DEF Returned
  <2>3. Len(frqueue') = l - n
    <3>1. frqueue' = SubSeq(frqueue, n + 1, Len(frqueue))
      BY <1>5, <2>1 DEF ReturnFinished
    <3>2. QED
      BY <1>1, <2>1, <2>2, <3>1
  <2>4. dpc = "accept" /\ dpc' = "release" /\ UNCHANGED freeCtx /\ ni - 1 <= Batch
    BY <1>1, <1>5 DEF ReturnFinished, MailboxInv
  <2>5. QED
    BY <1>1, <2>1, <2>2, <2>3, <2>4 DEF FreeBacked, FreeSlack
<1>6. CASE UNCHANGED <<frqueue, freeCtx>> /\ FreeSlack' = FreeSlack
  BY <1>6 DEF FreeBacked
<1>7. CASE BeginPackets \/ EnqueueRequest
  <2>1. UNCHANGED <<frqueue, freeCtx>> /\ FreeSlack' = FreeSlack
    BY <1>1, <1>7 DEF BeginPackets, EnqueueRequest, FreeSlack
  <2>2. QED
    BY <1>6, <2>1
<1>8. CASE NoPackets \/ ReleasePointers
  BY <1>1, <1>6, <1>8 DEF NoPackets, ReleasePointers, FreeSlack
<1>9. ASSUME NEW w \in Workers, HandleWorker(w), ~HandleFinished(w) PROVE FreeBacked'
  <2>1. /\ UNCHANGED <<frqueue, freeCtx>> /\ dpc \in {"worker", "activate"}
        /\ dpc' \in {"worker", "networker", "activate"}
    BY <1>9 DEF HandleWorker, SkipWorker, PreemptWorker, HandlePreempted,
         NothingToDispatch, DispatchRequest, ActivateRequest, AtWorker, NextTurn
  <2>2. QED
    BY <1>6, <2>1 DEF FreeSlack
<1>10. CASE UNCHANGED <<frqueue, freeCtx, dpc, ni>>
  BY <1>6, <1>10 DEF FreeSlack
<1>11. CASE HandleNetworker
  BY <1>3, <1>4, <1>5, <1>7, <1>8, <1>11 DEF HandleNetworker
<1>12. QED
  BY <1>2, <1>9, <1>10, <1>11
     DEF Next, LeafNext, SelectIdle, SelectRandom, SendOther, Send, NetworkerNext, Receive,
           FreeFinished, RqUpdate, PostPointers, DispatcherNext, WorkerNext, InitWorker,
           ResetWorkerState, ProcessSend, TakeRequest, StartRequest, PreemptHandler,
           ReadQueueLength, SendReply, FillResponse, PublishResponse, vars

LEMMA FreesBacked == Spec => [](RequestsInv /\ FreeBacked)
<1>1. Init => FreeBacked
  <2>1. SUFFICES ASSUME Init PROVE FreeBacked
    OBVIOUS
  <2>2. Len(frqueue) = 0 /\ FreeSlack = 0 /\ Cardinality(freeCtx) \in Nat
    BY <2>1, InitIInv, FreeContexts DEF Init, FreeSlack
  <2>3. QED
    BY <2>2 DEF FreeBacked
<1>2. RequestsInv /\ FreeBacked /\ [Next]_vars => (RequestsInv /\ FreeBacked)'
  BY NextRequests, FreeBackedStep DEF RequestsInv
<1>3. QED
  BY <1>1, <1>2, InitRequests, PTL DEF Spec

\* Context c is held by request t, which waits in a queue or is in service.
Holds(c, t) ==
  \/ \E y \in Workers : \E z \in 1..Len(tskq[y]) : tskq[y][z].rnbl = c /\ tskq[y][z].req = t
  \/ \E y \in Workers : /\ InService(y) /\ dispatcher_requests[y].rnbl = c
                        /\ dispatcher_requests[y].req = t

\* The contexts requests can hold: all but the free ones, and the one
\* handle_networker has taken for the request it is accepting.
Holdable == Contexts \ (freeCtx \cup (IF dpc = "mark" THEN {acont} ELSE {}))

LEMMA HoldsOne ==
  ASSUME ContextSomewhere, NEW c \in Contexts, NEW t, Holds(c, t)
  PROVE  c \in Holdable /\ \A u : Holds(c, u) => u = t
<1>1. ASSUME NEW u, Holds(c, u)
      PROVE  \E x, y, z :
               /\ ContextAt(c, x, y, z)
               /\ \/ x = "tskq" /\ tskq[y][z].req = u
                  \/ x = "core" /\ dispatcher_requests[y].req = u
  BY <1>1 DEF Holds, ContextAt
<1>2. PICK x, y, z : Only(c, x, y, z)
  BY DEF ContextSomewhere
<1>3. \A u : Holds(c, u) => \/ x = "tskq" /\ tskq[y][z].req = u
                            \/ x = "core" /\ dispatcher_requests[y].req = u
  BY <1>1, <1>2 DEF Only
<1>4. x \in {"tskq", "core"}
  BY <1>3
<1>5. ~ContextAt(c, "free", 0, 0) /\ ~ContextAt(c, "accepting", 0, 0)
  BY <1>2, <1>4 DEF Only
<1>6. c \in Holdable
  BY <1>5 DEF ContextAt, Holdable
<1>7. QED
  BY <1>3, <1>6

LEMMA HoldableCount ==
  ASSUME IInv, ContextSomewhere
  PROVE  /\ IsFiniteSet(Holdable)
         /\ Cardinality(Holdable) = Cardinality(Contexts) - Cardinality(freeCtx)
                                      - (IF dpc = "mark" THEN 1 ELSE 0)
<1> DEFINE U == Contexts \ freeCtx
<1>1. freeCtx \subseteq Contexts /\ Cardinality(freeCtx) \in Nat /\ Cardinality(Contexts) \in Nat
  BY FreeContexts DEF IInv, TypeOK, DispTypeOK
<1>2. IsFiniteSet(U) /\ Cardinality(U) = Cardinality(Contexts) - Cardinality(freeCtx)
  <2>1. Contexts \cap freeCtx = freeCtx
    BY <1>1
  <2>2. QED
    BY <2>1, ContextAssumption, FS_Difference
<1>3. CASE dpc = "mark"
  <2>1. acont \in Contexts
    BY <1>3 DEF IInv, MailboxInv
  <2>2. acont \in U
    BY <1>3, <2>1, FoundContext, OnlyThere DEF ContextAt, Exclusive
  <2>3. Holdable = U \ {acont}
    BY <1>3 DEF Holdable
  <2> HIDE DEF U
  <2>4. IsFiniteSet(Holdable) /\ Cardinality(Holdable) = Cardinality(U) - 1
    BY <1>2, <2>2, <2>3, FS_RemoveElement
  <2>5. QED
    BY <1>1, <1>2, <1>3, <2>4
<1>4. CASE dpc # "mark"
  <2>1. Holdable = U
    BY <1>4 DEF Holdable
  <2>2. QED
    BY <1>1, <1>2, <1>4, <2>1
<1>5. QED
  BY <1>3, <1>4

\* The slot of a worker in service names a context and a request.
LEMMA ServiceContent ==
  ASSUME IInv, SlotKept, NEW w \in Workers, InService(w)
  PROVE  dispatcher_requests[w].rnbl \in Contexts /\ dispatcher_requests[w].req \in Tasks
<1>1. HandOffTypes /\ SlotOwner /\ SlotContent
  BY DEF IInv, HandOffInv
<1>2. CASE response_flag[w] = "RUNNING"
  <2>1. wpc[w] \in Using \/ request_flag[w] = "ACTIVE" \/ Activating(w)
    BY <1>1, <1>2 DEF HandOffTypes, SlotOwner, InService, Using, Idling
  <2>2. QED
    BY <1>1, <2>1 DEF SlotContent, Runs, Runnable
<1>3. CASE response_flag[w] \in {"FINISHED", "PREEMPTED"}
  BY <1>1, <1>3 DEF SlotContent, SlotKept, Runs, Runnable
<1>4. QED
  BY <1>1, <1>2, <1>3 DEF HandOffTypes, InService

\* The requests that hold contexts are no more than the contexts held.
LEMMA HoldersCount ==
  ASSUME IInv, SlotKept, ContextSomewhere, NEW H,
         \A t \in H : (\E y, z : InQueue(t, y, z)) \/ (\E y : InCore(t, y))
  PROVE  IsFiniteSet(H) /\ Cardinality(H) <= Cardinality(Holdable)
<1> DEFINE f == [c \in Contexts |-> CHOOSE t : Holds(c, t)]
<1>1. ASSUME NEW t \in H PROVE \E c \in Contexts : Holds(c, t)
  <2>1. ASSUME NEW y, NEW z, InQueue(t, y, z) PROVE \E c \in Contexts : Holds(c, t)
    <3>1. y \in Workers /\ z \in 1..Len(tskq[y]) /\ tskq[y][z].req = t
      BY <2>1 DEF InQueue
    <3>2. tskq[y][z].rnbl \in Contexts
      BY <3>1 DEF IInv, QueueContent, Runs, Runnable
    <3>3. QED
      BY <3>1, <3>2 DEF Holds
  <2>2. ASSUME NEW y, InCore(t, y) PROVE \E c \in Contexts : Holds(c, t)
    <3>1. y \in Workers /\ InService(y) /\ dispatcher_requests[y].req = t
      BY <2>2 DEF InCore
    <3>2. dispatcher_requests[y].rnbl \in Contexts
      BY <3>1, ServiceContent
    <3>3. QED
      BY <3>1, <3>2 DEF Holds
  <2>3. QED
    BY <2>1, <2>2
<1>2. ASSUME NEW t \in H PROVE \E c \in Holdable : f[c] = t
  <2>1. PICK c \in Contexts : Holds(c, t)
    BY <1>1
  <2>2. c \in Holdable /\ \A u : Holds(c, u) => u = t
    BY <2>1, HoldsOne
  <2>3. f[c] = t
    BY <2>1, <2>2
  <2>4. QED
    BY <2>2, <2>3
<1> HIDE DEF f
<1>3. QED
  BY <1>2, HoldableCount, Covered

\* The mailbox and the list of returned requests are never full at once.
LEMMA MailCount ==
  ASSUME IInv
  PROVE  /\ IsFiniteSet(Pending) /\ Cardinality(Pending) \in Nat /\ free_cnt \in Nat
         /\ Cardinality(Pending) + free_cnt + FreeSlack
              <= Batch + (IF dpc = "mark" THEN 1 ELSE 0)
<1>1. /\ MailboxHandOff /\ MailboxInv
      /\ dpc \in {"worker", "activate", "networker", "accept", "mark", "release"}
      /\ nj \in Nat /\ nj <= Batch /\ cnt \in Nat /\ cnt <= Batch /\ Batch \in Nat
      /\ free_cnt \in Nat /\ free_cnt <= Batch /\ ni \in Nat \ {0}
  BY SizeAssumption DEF IInv, HandOffInv, TypeOK, NetTypeOK, DispTypeOK
<1>2. CASE npc = "fill"
  <2>1. Pending = 1..nj /\ FreeSlack = 0 /\ free_cnt = 0 /\ dpc # "mark"
    BY <1>1, <1>2 DEF Pending, FreeSlack, MailboxHandOff
  <2>2. IsFiniteSet(1..nj) /\ Cardinality(1..nj) = nj
    BY <1>1, FS_Interval
  <2>3. QED
    BY <1>1, <2>1, <2>2
<1>3. CASE npc # "fill" /\ dpc = "release"
  <2>1. Pending = {} /\ FreeSlack = 0
    BY <1>3 DEF Pending, FreeSlack
  <2>2. IsFiniteSet({}) /\ Cardinality({}) = 0
    BY FS_EmptySet
  <2>3. QED
    BY <1>1, <1>3, <2>1, <2>2
<1>4. CASE npc # "fill" /\ dpc \in {"accept", "mark"}
  <2>1. Pending = ni..cnt /\ free_cnt = 0 /\ ni <= cnt + 1
        /\ FreeSlack = IF dpc = "mark" THEN ni ELSE ni - 1
    BY <1>1, <1>4 DEF Pending, FreeSlack, MailboxHandOff, MailboxInv
  <2>2. IsFiniteSet(ni..cnt) /\ Cardinality(ni..cnt) = cnt - ni + 1
    <3>1. ni \in Int /\ cnt \in Int
      BY <1>1
    <3>2. /\ IsFiniteSet(ni..cnt)
          /\ Cardinality(ni..cnt) = IF ni > cnt THEN 0 ELSE cnt - ni + 1
      BY <3>1, FS_Interval
    <3>3. QED
      BY <1>1, <2>1, <3>2
  <2>3. QED
    BY <1>1, <1>4, <2>1, <2>2
<1>5. CASE npc # "fill" /\ dpc \notin {"accept", "mark", "release"}
  <2>1. Pending = 1..cnt /\ (cnt = 0 \/ free_cnt = 0) /\ FreeSlack = 0
    BY <1>1, <1>5 DEF Pending, FreeSlack, MailboxHandOff
  <2>2. IsFiniteSet(1..cnt) /\ Cardinality(1..cnt) = cnt
    BY <1>1, FS_Interval
  <2>3. QED
    BY <1>1, <1>5, <2>1, <2>2
<1>6. QED
  BY <1>2, <1>3, <1>4, <1>5

\* Each complete request holds a place of the mailbox or a context, or waits in
\* frqueue against one that was given back.
LEMMA CompleteBounded ==
  ASSUME RequestsInv, FreeBacked
  PROVE  IsFiniteSet(live) /\ Cardinality(live) <= Cardinality(Contexts) + Batch
<1> DEFINE M == {t \in live : \E z : InMail(t, z)}
           R == {t \in live : \E z : InReturn(t, z)}
           F == {t \in live : \E z : InFree(t, z)}
           H == {t \in live : (\E y, z : InQueue(t, y, z)) \/ (\E y : InCore(t, y))}
<1>1. /\ IInv /\ SlotKept /\ ContextSomewhere /\ RequestSomewhere /\ live \subseteq Tasks
      /\ Len(frqueue) \in Nat
  BY DEF RequestsInv, OwnersInv, IInv, TypeOK, NetTypeOK, DispTypeOK
<1>2. IsFiniteSet(Pending) /\ Cardinality(Pending) \in Nat /\ free_cnt \in Nat
      /\ Cardinality(Pending) + free_cnt + FreeSlack
            <= Batch + (IF dpc = "mark" THEN 1 ELSE 0)
  BY <1>1, MailCount
<1>3. IsFiniteSet(M) /\ Cardinality(M) <= Cardinality(Pending)
  <2>1. \A t \in M : \E z \in Pending : reqs[z] = t
    BY DEF InMail
  <2> HIDE DEF M
  <2>2. QED
    BY <1>2, <2>1, Covered
<1>4. IsFiniteSet(R) /\ Cardinality(R) <= free_cnt
  <2>1. \A t \in R : \E z \in 1..free_cnt : reqs[z] = t
    BY DEF InReturn
  <2>2. IsFiniteSet(1..free_cnt) /\ Cardinality(1..free_cnt) = free_cnt
    BY <1>2, FS_Interval
  <2> HIDE DEF R
  <2>3. IsFiniteSet(R) /\ Cardinality(R) <= Cardinality(1..free_cnt)
    BY <2>1, <2>2, Covered
  <2>4. QED
    BY <2>2, <2>3
<1>5. IsFiniteSet(F) /\ Cardinality(F) <= Len(frqueue)
  <2>1. \A t \in F : \E z \in 1..Len(frqueue) : frqueue[z] = t
    BY DEF InFree
  <2>2. IsFiniteSet(1..Len(frqueue)) /\ Cardinality(1..Len(frqueue)) = Len(frqueue)
    <3>1. PICK n \in Nat : n = Len(frqueue)
      BY <1>1
    <3>2. IsFiniteSet(1..n) /\ Cardinality(1..n) = n
      BY FS_Interval
    <3>3. QED
      BY <3>1, <3>2
  <2> HIDE DEF F
  <2>3. IsFiniteSet(F) /\ Cardinality(F) <= Cardinality(1..Len(frqueue))
    BY <2>1, <2>2, Covered
  <2>4. QED
    BY <2>2, <2>3
<1>6. IsFiniteSet(H) /\ Cardinality(H) <= Cardinality(Holdable)
  <2>1. \A t \in H : (\E y, z : InQueue(t, y, z)) \/ (\E y : InCore(t, y))
    OBVIOUS
  <2> HIDE DEF H
  <2>2. QED
    BY <1>1, <2>1, HoldersCount
<1>7. live = (M \cup R) \cup (F \cup H)
  <2>1. ASSUME NEW t \in live PROVE t \in M \/ t \in R \/ t \in F \/ t \in H
    <3>1. PICK k, v, i : RequestAt(t, k, v, i)
      BY <1>1, <2>1 DEF RequestSomewhere, Somewhere, Placed
    <3>2. QED
      BY <2>1, <3>1 DEF RequestAt
  <2>2. QED
    BY <2>1
<1> HIDE DEF M, R, F, H
<1>8. IsFiniteSet(M \cup R) /\ Cardinality(M \cup R) <= Cardinality(M) + Cardinality(R)
  BY <1>3, <1>4, UnionAtMost
<1>9. IsFiniteSet(F \cup H) /\ Cardinality(F \cup H) <= Cardinality(F) + Cardinality(H)
  BY <1>5, <1>6, UnionAtMost
<1>10. /\ IsFiniteSet(live)
       /\ Cardinality(live) <= Cardinality(M \cup R) + Cardinality(F \cup H)
  BY <1>7, <1>8, <1>9, UnionAtMost
<1>11. /\ Cardinality(live) \in Nat /\ Cardinality(M \cup R) \in Nat
       /\ Cardinality(F \cup H) \in Nat /\ Cardinality(M) \in Nat
       /\ Cardinality(R) \in Nat /\ Cardinality(F) \in Nat /\ Cardinality(H) \in Nat
  BY <1>3, <1>4, <1>5, <1>6, <1>8, <1>9, <1>10, FS_CardinalityType
<1>12. /\ Cardinality(freeCtx) \in Nat /\ Cardinality(Contexts) \in Nat
       /\ Cardinality(Holdable) = Cardinality(Contexts) - Cardinality(freeCtx)
                                    - (IF dpc = "mark" THEN 1 ELSE 0)
  BY <1>1, FreeContexts, HoldableCount
<1>13. FreeSlack \in Int /\ Batch \in Nat
  BY <1>1, SizeAssumption DEF FreeSlack, IInv, TypeOK, DispTypeOK
<1>14. Len(frqueue) <= Cardinality(freeCtx) + FreeSlack
  BY DEF FreeBacked
<1>15. Cardinality(live) <= Cardinality(M) + Cardinality(R) + Cardinality(F) + Cardinality(H)
  BY <1>8, <1>9, <1>10, <1>11
<1>16. PICK k \in Nat : k = IF dpc = "mark" THEN 1 ELSE 0
  OBVIOUS
<1>17. /\ Cardinality(Holdable) = Cardinality(Contexts) - Cardinality(freeCtx) - k
       /\ Cardinality(Holdable) \in Int
  BY <1>12, <1>16
<1>18. Cardinality(Pending) + free_cnt + FreeSlack <= Batch + k
  BY <1>2, <1>16
<1>19. Cardinality(live) <= Cardinality(Pending) + free_cnt + Len(frqueue)
                              + Cardinality(Holdable)
  BY <1>1, <1>2, <1>3, <1>4, <1>5, <1>6, <1>11, <1>15, <1>17
<1>20. /\ Cardinality(live) \in Int /\ Cardinality(Pending) \in Int /\ free_cnt \in Int
       /\ Len(frqueue) \in Int /\ Cardinality(Contexts) \in Int
       /\ Cardinality(freeCtx) \in Int /\ FreeSlack \in Int /\ Batch \in Int
  BY <1>1, <1>2, <1>11, <1>12, <1>13
<1>21. Cardinality(live) <= (Cardinality(Pending) + free_cnt) + FreeSlack
                              + (Cardinality(Contexts) - k)
  BY <1>14, <1>17, <1>19, <1>20
<1>22. QED
  BY <1>10, <1>18, <1>20, <1>21

\* However long the server runs, the requests it has allocated are, but for the
\* incomplete ones, never more than there are contexts and places of the
\* mailbox.
THEOREM LiveBoundedCorrect == Spec => []LiveBounded
<1>1. ASSUME RequestsInv, FreeBacked PROVE LiveBounded
  <2>1. IsFiniteSet(live) /\ Cardinality(live) <= Cardinality(Contexts) + Batch
    BY <1>1, CompleteBounded
  <2>2. IsFiniteSet(rq)
    <3>1. rq \subseteq Tasks /\ IsFiniteSet(Tasks)
      BY <1>1, SizeAssumption, FS_Interval
         DEF RequestsInv, OwnersInv, IInv, TypeOK, NetTypeOK, Tasks
    <3>2. QED
      BY <3>1, FS_Subset
  <2>3. Cardinality(live \cup rq) <= Cardinality(live) + Cardinality(rq)
    BY <2>1, <2>2, UnionAtMost
  <2>4. /\ Cardinality(live \cup rq) \in Nat /\ Cardinality(live) \in Nat
        /\ Cardinality(rq) \in Nat /\ Cardinality(Contexts) \in Nat /\ Batch \in Nat
    BY <2>1, <2>2, FS_Union, FS_CardinalityType, ContextAssumption, SizeAssumption
  <2>5. QED
    BY <2>1, <2>3, <2>4 DEF LiveBounded
<1>2. QED
  BY <1>1, FreesBacked, PTL
=============================================================================

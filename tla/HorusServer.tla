----------------------------- MODULE HorusServer -----------------------------
(***************************************************************************)
(* The server of src/server_code/shinjuku-rocksdb: one networker core, one  *)
(* dispatcher core and the worker cores, interleaved step by step, behind a *)
(* leaf switch that sends it MaxTasks packets.                              *)
(***************************************************************************)
EXTENDS Leaf, Networker, Dispatcher, Worker, Selection

NoContent == [rnbl |-> Null, req |-> Null, type |-> 0, category |-> "NOCONTENT"]

Init ==
  /\ hdr = [t \in Tasks |-> Null]
  /\ rxq = <<>>
  /\ idleList = [w \in Workers |-> 1]
  /\ answered = [t \in Tasks |-> 0]
  /\ lost = {}
  /\ npc = "recv"
  /\ recv_mbufs = <<>>
  /\ nj = 0
  /\ rq = {} /\ live = {}
  /\ cnt = 0 /\ free_cnt = 0
  /\ reqs = [i \in Slots |-> Null]
  /\ types = [i \in Slots |-> 0]
  /\ dpc = "worker" /\ di = 0 /\ ni = 1 /\ acont = Null
  /\ tskq = [w \in Workers |-> <<>>]
  /\ frqueue = <<>>
  /\ freeCtx = Contexts
  /\ preempt_check = [w \in Workers |-> FALSE]
  /\ request_flag = [w \in Workers |-> "WAITING"]
  /\ dispatcher_requests = [w \in Workers |-> NoContent]
  /\ response_flag = [w \in Workers |-> IF Booted THEN "PROCESSED" ELSE "RUNNING"]
  /\ worker_responses = [w \in Workers |-> NoContent]
  /\ queue_length = [w \in Workers |-> 0]
  /\ worker_state = [w \in Workers |-> WORKER_STATE_BUSY]
  /\ ipi = [w \in Workers |-> FALSE]
  /\ wpc = [w \in Workers |-> IF Booted THEN "loop" ELSE "init"]
  /\ cont = [w \in Workers |-> Null]
  /\ finished = [w \in Workers |-> FALSE]
  /\ new_qlen = [w \in Workers |-> 0]
  /\ job = [c \in Contexts |-> Null]
  /\ txq = [w \in Workers |-> <<>>]

Next ==
  \/ LeafNext
  \/ NetworkerNext
  \/ DispatcherNext
  \/ \E w \in Workers : WorkerNext(w)

Spec == Init /\ [][Next]_vars

\* Each core is a pinned thread that never blocks, so it keeps taking steps;
\* the application code a request runs is assumed to return.
Fairness ==
  /\ WF_vars(NetworkerNext)
  /\ WF_vars(DispatcherNext)
  /\ \A w \in Workers : WF_vars(WorkerNext(w))

FairSpec == Spec /\ Fairness

-----------------------------------------------------------------------------
(* Where requests, contexts and tasks can be.                               *)

\* The places of the mailbox that hold requests the dispatcher must accept.
Pending ==
  CASE npc = "fill" -> 1..nj
    [] npc # "fill" /\ dpc = "release" -> {}
    [] npc # "fill" /\ dpc \in {"accept", "mark"} -> ni..cnt
    [] OTHER -> 1..cnt

\* The program counters of a worker that has not taken a request.
Idling == {"boot", "loop", "poll"}

\* From the moment the worker clears ACTIVE to the moment it publishes.
Using == {"taken", "work", "reply", "finish", "publish"}

\* The dispatcher is between RUNNING and ACTIVE for worker w.
Activating(w) == dpc = "activate" /\ di = w

\* Worker w was given a task whose response the dispatcher has not taken yet.
InService(w) == wpc[w] # "init" /\ response_flag[w] # "PROCESSED"

\* That task's reply has not been built yet.
Unanswered(w) ==
  /\ InService(w)
  /\ response_flag[w] # "FINISHED"
  /\ wpc[w] \in {"finish", "publish"} => ~finished[w]

\* The places that hold request t, each named by a triple.
RequestPlaces(t) ==
       {<<"mailbox", 0, i>> : i \in {j \in Pending : reqs[j] = t}}
  \cup {<<"returned", 0, i>> : i \in {j \in 1..free_cnt : reqs[j] = t}}
  \cup {<<"frqueue", 0, i>> : i \in {j \in DOMAIN frqueue : frqueue[j] = t}}
  \cup (UNION {{<<"tskq", w, i>> : i \in {j \in DOMAIN tskq[w] : tskq[w][j].req = t}}
               : w \in Workers})
  \cup {<<"core", w, 0>> : w \in {v \in Workers : InService(v)
                                    /\ dispatcher_requests[v].req = t}}

\* The cell of the networker's rq that holds it while it is incomplete.
CellPlaces(t) == {<<"cell", 0, 0>> : c \in {f \in rq : f = t}}

\* The places that hold context c.
ContextPlaces(c) ==
       {<<"free", 0, 0>> : f \in {d \in freeCtx : d = c}}
  \cup {<<"accepting", 0, 0>> : f \in {d \in {acont} : d = c /\ dpc = "mark"}}
  \cup (UNION {{<<"tskq", w, i>> : i \in {j \in DOMAIN tskq[w] : tskq[w][j].rnbl = c}}
               : w \in Workers})
  \cup {<<"core", w, 0>> : w \in {v \in Workers : InService(v)
                                    /\ dispatcher_requests[v].rnbl = c}}

\* The packets of task t still on their way to rq_update.
Arriving(t) ==
  Cardinality({i \in DOMAIN rxq : rxq[i] = t})
  + Cardinality({i \in DOMAIN recv_mbufs : recv_mbufs[i] = t})

\* How many workers or queues will still answer task t.
Outstanding(t) ==
  Arriving(t)
  + Cardinality({p \in RequestPlaces(t) : p[1] \in {"mailbox", "tskq"}})
  + Cardinality({w \in Workers : Unanswered(w) /\ dispatcher_requests[w].req = t})

\* How often task t has been answered or given up.
Fates(t) ==
  answered[t]
  + Cardinality(UNION {{<<w, i>> : i \in {j \in DOMAIN txq[w] : txq[w][j].task = t}}
                       : w \in Workers})
  + IF t \in lost THEN 1 ELSE 0

-----------------------------------------------------------------------------
(* Safety.                                                                  *)

\* dispatch.h's slot protocol: an ACTIVE slot belongs to a worker that is
\* waiting for it; a worker that has taken its slot finds it WAITING, keeps
\* the dispatcher away with RUNNING, and is not being dispatched to; and a
\* worker marked RUNNING that waits has been, or is being, given a request.
SlotHandOff ==
  \A w \in Workers :
    /\ request_flag[w] = "ACTIVE" =>
         response_flag[w] = "RUNNING" /\ wpc[w] \in Idling
    /\ wpc[w] \in Using =>
         /\ response_flag[w] = "RUNNING"
         /\ request_flag[w] = "WAITING"
         /\ ~Activating(w)
    /\ response_flag[w] = "RUNNING" /\ wpc[w] \in Idling =>
         (request_flag[w] = "ACTIVE" <=> ~Activating(w))

\* The mailbox has one owner: while the networker fills it cnt is 0 and
\* nothing is waiting to be freed, and while the dispatcher is inside it cnt
\* is not 0, so the networker is in its spin or before it.
MailboxHandOff ==
  /\ npc = "fill" =>
       /\ cnt = 0 /\ free_cnt = 0
       /\ dpc \notin {"accept", "mark", "release"}
  /\ dpc \in {"accept", "mark", "release"} => cnt # 0
  /\ cnt # 0 /\ dpc # "release" => free_cnt = 0

\* Requests are conserved across the cores: one allocated by rq_update is in
\* its cell while it is incomplete, then in exactly one queue, slot or mailbox
\* place until the networker frees it, and no cell, queue, slot or place holds
\* one that was freed.
RequestOwned ==
  \A t \in Tasks : Cardinality(RequestPlaces(t) \cup CellPlaces(t))
                     = IF t \in live \cup rq THEN 1 ELSE 0

\* Contexts are conserved: each is free, or held by exactly one task.
ContextOwned == \A c \in Contexts : Cardinality(ContextPlaces(c)) = 1

\* A worker answers the packet its slot names, which was addressed to it, in
\* the context its slot names, so finish_request returns what was served.
ServesItsSlot ==
  \A w \in Workers : wpc[w] \in {"work", "reply", "finish", "publish"} =>
    /\ cont[w] = dispatcher_requests[w].rnbl
    /\ job[cont[w]] = dispatcher_requests[w].req
    /\ hdr[job[cont[w]]].core = w /\ dispatcher_requests[w].type = w

\* The task worker w serves, and the one handle_networker has counted for w and
\* is about to enqueue.
Served(w)  == IF InService(w) THEN 1 ELSE 0
Counted(w) == IF dpc = "mark" /\ types[ni] = w THEN 1 ELSE 0

\* queue_length[w] counts the tasks queued for w, in service on it, or just
\* counted by handle_networker; it never goes below zero, and what a reply
\* reports fits the 16 bits of qlen.
QueueLengthExact ==
  \A w \in Workers : queue_length[w] = Len(tskq[w]) + Served(w) + Counted(w)

\* Every task packet the NIC took is on its way, waiting, in service, or has
\* exactly one fate: one reply, or one loss (a full receive queue, no context,
\* a failed udp_send_one).  Nothing is answered twice or forgotten.
ExactlyOneFate ==
  \A t \in Tasks : (hdr[t] # Null /\ hdr[t].kind = "task") => Outstanding(t) + Fates(t) = 1

\* A request reaches frqueue, and the networker's free list, only when its
\* task has been answered or given up: the packet is not needed any more.
AnsweredBeforeReturned ==
  \A t \in Tasks :
    (\E p \in RequestPlaces(t) : p[1] \in {"frqueue", "returned"}) => Fates(t) = 1

\* Beyond the incomplete ones, the requests allocated never exceed the contexts
\* by more than one batch, because handle_networker returns as many as it
\* accepts; so frqueue never holds more cells of fini_request_cell_mempool, and
\* tskq no more tasks of task_mempool.  The incomplete ones have no such bound:
\* whenever a packet is lost rq_update keeps one more for ever.
LiveBounded ==
  Cardinality(live \cup rq) <= Cardinality(Contexts) + Batch + Cardinality(rq)

\* A worker booked as removed from the leaf's idle list still has a task to
\* run: the TASK_DONE_IDLE that will add it back is still to come.
IdleReportDue == \A w \in Workers : worker_state[w] = WORKER_STATE_IDLE => queue_length[w] > 0

\* Some idle-selected task for w, or some reply of w that reports it idle, is
\* on its way.
IdleInFlight(w) ==
  \/ \E t \in Tasks :
       /\ hdr[t] # Null /\ hdr[t].core = w /\ hdr[t].type = WORKER_STATE_IDLE
       /\ Arriving(t) > 0 \/ \E p \in RequestPlaces(t) : p[1] = "mailbox"
  \/ \E i \in DOMAIN txq[w] : txq[w][i].idle

\* dispatch.h:179-182 as the code keeps it: a worker is in the leaf's idle
\* list, or will report itself idle, unless a task sent to it was lost.
IdleAccounted ==
  \A w \in Workers :
    \/ idleList[w] > 0 \/ worker_state[w] = WORKER_STATE_IDLE \/ IdleInFlight(w)
    \/ \E t \in lost : hdr[t].core = w

\* The same without the exception: dispatch.h:179-182 says that a worker
\* removed from the idle list reports itself the next time it becomes idle.
IdleNeverForgotten ==
  \A w \in Workers :
    idleList[w] > 0 \/ worker_state[w] = WORKER_STATE_IDLE \/ IdleInFlight(w)

\* worker.c:237-238: TASK_DONE_IDLE is used when the leaf does not have this
\* worker in its idle list.
IdleReportedOnce ==
  \A w \in Workers : (\E i \in DOMAIN txq[w] : txq[w][i].idle) => idleList[w] = 0

\* While a worker owns its slot, dispatch_request does not change it, which
\* finish_request reads again after the request ran, and nobody but the worker
\* itself ends RUNNING.
SlotStable ==
  [][\A w \in Workers : wpc[w] \in Using =>
       /\ dispatcher_requests'[w] = dispatcher_requests[w]
       /\ response_flag'[w] # response_flag[w] => wpc[w] = "publish"]_vars

-----------------------------------------------------------------------------
(* Liveness.                                                                *)

\* Every task packet that reaches the server is answered or given up; no core
\* waits for another one for ever.
EveryTaskSettled ==
  \A t \in Tasks : (hdr[t] # Null /\ hdr[t].kind = "task") ~> (answered[t] > 0 \/ t \in lost)

\* The networker is never stuck in its spin on cnt: the dispatcher always
\* gives the mailbox back.
MailboxReturns == npc = "wait" ~> npc = "recv"

-----------------------------------------------------------------------------
(* The inductive invariants behind SlotHandOff, SlotStable, MailboxHandOff,  *)
(* TypeOK, QueueLengthExact and IdleReportDue (see HorusServer_proofs).     *)

\* Who owns each worker's slot, the time before init_worker included: the
\* flags alone say it, whatever the slot holds.
SlotOwner ==
  \A w \in Workers :
    /\ request_flag[w] = "ACTIVE" => wpc[w] \in Idling /\ ~Activating(w)
    /\ request_flag[w] = "ACTIVE" \/ Activating(w) \/ wpc[w] \in Using \cup {"init"} =>
         response_flag[w] = "RUNNING"
    /\ Activating(w) => wpc[w] \in Idling
    /\ response_flag[w] = "RUNNING" /\ wpc[w] \in Idling =>
         request_flag[w] = "ACTIVE" \/ Activating(w)

\* The types the hand-offs depend on.
HandOffTypes ==
  /\ request_flag \in [Workers -> {"WAITING", "ACTIVE"}]
  /\ response_flag \in [Workers -> {"RUNNING", "FINISHED", "PREEMPTED", "PROCESSED"}]
  /\ wpc \in [Workers -> {"init", "boot", "loop", "poll", "taken", "work",
                          "reply", "finish", "publish"}]
  /\ dpc \in {"worker", "activate", "networker", "accept", "mark", "release"}
  /\ npc \in {"recv", "wait", "fill"}

HandOffInv == HandOffTypes /\ SlotOwner /\ MailboxHandOff

\* The networker only handles packets that were sent, a batch at a time.
NetworkerInv ==
  /\ \A i \in 1..Len(rxq) : hdr[rxq[i]] # Null
  /\ \A i \in 1..Len(recv_mbufs) : hdr[recv_mbufs[i]] # Null
  /\ nj + Len(recv_mbufs) <= Batch
  /\ npc # "fill" => nj = 0
  /\ npc = "recv" => recv_mbufs = <<>>

\* The mailbox holds requests wherever cnt, nj and ni say it does.
MailboxInv ==
  /\ \A i \in 1..cnt : reqs[i] \in Tasks
  /\ \A i \in 1..nj : reqs[i] \in Tasks
  /\ dpc \in {"accept", "mark"} => ni <= cnt + 1
  /\ dpc = "mark" => ni <= cnt /\ acont \in Contexts

\* The context has been started on a packet, so it can be resumed.
Started(c) == job[c] \in Tasks

\* A queue entry or slot that worker w can run.
Runs(r, w) ==
  /\ r \in Runnable /\ r.type = w
  /\ r.category = "CONTEXT" => Started(r.rnbl)

\* The dispatcher's slot holds a request from RUNNING until the response is
\* taken, the response from the moment it is filled, and a worker's context is
\* one that was made to serve a packet.
SlotContent ==
  \A w \in Workers :
    /\ request_flag[w] = "ACTIVE" \/ Activating(w) \/ wpc[w] \in Using =>
         Runs(dispatcher_requests[w], w)
    /\ response_flag[w] \in {"FINISHED", "PREEMPTED"} \/ wpc[w] = "publish" =>
         Runs(worker_responses[w], w)
    /\ wpc[w] \in Using \ {"taken"} => cont[w] \in Contexts /\ Started(cont[w])

QueueContent == \A w \in Workers : \A i \in 1..Len(tskq[w]) : Runs(tskq[w][i], w)

\* Checked by TLC as an invariant before it is proved inductive.
IInv ==
  /\ TypeOK /\ HandOffInv /\ NetworkerInv /\ MailboxInv
  /\ SlotContent /\ QueueContent /\ QueueLengthExact /\ IdleReportDue

\* A packet was sent for a task of worker w.
AddressedTo(t, w) == hdr[t] # Null /\ hdr[t].core = w

\* What a worker answers in, and reports, is what its slot names.
SlotKept ==
  \A w \in Workers :
    /\ wpc[w] \in Using \ {"taken"} => cont[w] = dispatcher_requests[w].rnbl
    /\ response_flag[w] \in {"FINISHED", "PREEMPTED"} \/ wpc[w] = "publish" =>
         /\ worker_responses[w].rnbl = dispatcher_requests[w].rnbl
         /\ worker_responses[w].req = dispatcher_requests[w].req

\* Until the dispatcher overwrites them with finished requests, the requests of
\* the mailbox lie beside the core they were sent to.
MailAddressed ==
  /\ \A i \in 1..nj : AddressedTo(reqs[i], types[i])
  /\ dpc # "release" => \A i \in 1..cnt : AddressedTo(reqs[i], types[i])

\* A suspended context waits with the request it was made for.
QueueAddressed ==
  \A w \in Workers : \A i \in 1..Len(tskq[w]) :
    /\ AddressedTo(tskq[w][i].req, w)
    /\ tskq[w][i].category = "CONTEXT" => job[tskq[w][i].rnbl] = tskq[w][i].req

\* So does the context of a slot, once the worker has started it.
SlotAddressed ==
  \A w \in Workers : InService(w) =>
    /\ AddressedTo(dispatcher_requests[w].req, w)
    /\ \/ dispatcher_requests[w].category = "CONTEXT"
       \/ wpc[w] \in Using \ {"taken"}
       \/ response_flag[w] # "RUNNING"
       => job[dispatcher_requests[w].rnbl] = dispatcher_requests[w].req

\* A packet is received once, and becomes a request once.
ArrivesOnce ==
  /\ \A t \in live : hdr[t] # Null
  /\ \A i \in 1..Len(rxq) :
       /\ rxq[i] \notin live
       /\ \A j \in 1..Len(rxq) : rxq[i] = rxq[j] => i = j
       /\ \A j \in 1..Len(recv_mbufs) : rxq[i] # recv_mbufs[j]
  /\ \A i \in 1..Len(recv_mbufs) :
       /\ recv_mbufs[i] \notin live
       /\ \A j \in 1..Len(recv_mbufs) : recv_mbufs[i] = recv_mbufs[j] => i = j

\* A request is returned complete, and named by the packet that completed it.
CellInv ==
  /\ \A t \in live : hdr[t] # Null /\ IsTask(t)
  /\ \A t \in rq : hdr[t] # Null /\ ~IsTask(t)

\* With IInv, what keeps requests and contexts from being shared or mixed up
\* (see HorusServer_proofs).
OwnershipInv ==
  ArrivesOnce /\ CellInv /\ SlotKept /\ MailAddressed /\ QueueAddressed /\ SlotAddressed

-----------------------------------------------------------------------------
(* The server implements one queue per worker.                              *)

TasksFor(w) == {t \in Tasks : hdr[t] # Null /\ IsTask(t) /\ hdr[t].core = w}

\* The mailbox, with Null for a request it does not hold any more, or not yet.
Mailbox == [i \in Slots |-> IF i \in Pending THEN reqs[i] ELSE Null]

\* Everything submitted to w and not answered, oldest first.
QueueOf(w) ==
     (IF Unanswered(w) THEN <<dispatcher_requests[w].req>> ELSE <<>>)
  \o [i \in DOMAIN tskq[w] |-> tskq[w][i].req]
  \o Among(Mailbox \o recv_mbufs \o rxq, TasksFor(w))

AnsweredTasks == {t \in Tasks : Fates(t) > 0} \ lost

Queues == INSTANCE WorkerQueues WITH
  Worker <- Workers, Task <- Tasks, queue <- [w \in Workers |-> QueueOf(w)],
  done <- AnsweredTasks, dropped <- lost

\* Each core serves its own tasks first in, first out (see WorkerQueues).
ImplementsWorkerQueues == Queues!Spec
=============================================================================

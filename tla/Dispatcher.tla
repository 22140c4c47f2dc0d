----------------------------- MODULE Dispatcher -----------------------------
(***************************************************************************)
(* The dispatcher core, do_dispatching() of dp/core/dispatcher.c: a loop    *)
(* that visits every worker in turn (dpc = "worker", worker di) and then    *)
(* the networker's mailbox (dpc = "networker").                             *)
(***************************************************************************)
EXTENDS HorusState

AtWorker(w) == dpc = "worker" /\ di = w

\* Faults of the dispatcher loop: the loop over the workers runs one too far, or
\* never reaches handle_networker.
NextTurnTooFar(w) ==
  IF w = NumWorkers THEN dpc' = "networker" /\ di' = 0
                    ELSE dpc' = "worker" /\ di' = w + 1

NextTurnWorkersOnly(w) == dpc' = "worker" /\ di' = (w + 1) % NumWorkers

\* The end of handle_worker(w): the next worker's turn, or the networker's.
NextTurn(w) ==
  IF w + 1 = NumWorkers THEN dpc' = "networker" /\ di' = 0
                        ELSE dpc' = "worker" /\ di' = w + 1

\* Faults of the queues and pools: context_alloc leaves the context in its
\* pool, request_enqueue does nothing, tskq_dequeue takes the tail.
ContextAllocShared == \E c \in freeCtx : acont' = c /\ UNCHANGED freeCtx

RequestEnqueueLost(req) == UNCHANGED frqueue

TskqDequeueTail(w) ==
  /\ dispatcher_requests' = [dispatcher_requests EXCEPT ![w] = tskq[w][Len(tskq[w])]]
  /\ tskq' = [tskq EXCEPT ![w] = SubSeq(@, 1, Len(@) - 1)]

\* Faults of the accounting: queue_length is not incremented, the end of a
\* period of work is not booked, the leaf's selection is ignored.
LeaveCoreUnbooked(core) ==
  /\ queue_length' = [queue_length EXCEPT ![core] = @ - 1]
  /\ UNCHANGED worker_state

EnterCoreUncounted(core) == UNCHANGED queue_length

BookSelectionIgnored(core, type) == UNCHANGED worker_state

\* The queues and pools handle_worker and handle_networker work on.
ContextAlloc == \E c \in freeCtx : acont' = c /\ freeCtx' = freeCtx \ {c}

ContextFree(c) == freeCtx' = freeCtx \cup {c}

RequestEnqueue(req) == frqueue' = <<req>> \o frqueue

TskqEnqueueHead(w, task) == tskq' = [tskq EXCEPT ![w] = <<task>> \o @]

TskqEnqueueTail(w, task) == tskq' = [tskq EXCEPT ![w] = Append(@, task)]

\* naive_tskq_dequeue: each worker is served from its own queue only.
TskqDequeue(w) ==
  /\ dispatcher_requests' = [dispatcher_requests EXCEPT ![w] = Head(tskq[w])]
  /\ tskq' = [tskq EXCEPT ![w] = Tail(@)]

\* A finished task leaves the count of its core, and the last one books the
\* idle report that its reply made.
LeaveCore(core) ==
  LET left == queue_length[core] - 1 IN
  /\ queue_length' = [queue_length EXCEPT ![core] = left]
  /\ worker_state' = IF left = 0 THEN [worker_state EXCEPT ![core] = WORKER_STATE_BUSY]
                                 ELSE worker_state

EnterCore(core) == queue_length' = [queue_length EXCEPT ![core] = @ + 1]

\* The leaf popped the core from its idle list for this task.
BookSelection(core, type) ==
  worker_state' = IF type = WORKER_STATE_IDLE
                  THEN [worker_state EXCEPT ![core] = WORKER_STATE_IDLE]
                  ELSE worker_state

\* handle_worker finds RUNNING; without preempt_worker, or before the
\* preemption delay, that is all.
SkipWorker(w) ==
  /\ AtWorker(w)
  /\ response_flag[w] = "RUNNING"
  /\ NextTurn(w)
  /\ UNCHANGED <<leafVars, netVars, mailVars, ni, acont, tskq, frqueue, freeCtx,
                 preempt_check, sharedVars, workVars>>

\* Fault: the dispatcher takes the interrupt for the response.
PreemptWorkerProcessed(w) ==
  /\ Preemption
  /\ AtWorker(w)
  /\ response_flag[w] = "RUNNING"
  /\ preempt_check[w]
  /\ preempt_check' = [preempt_check EXCEPT ![w] = FALSE]
  /\ response_flag' = [response_flag EXCEPT ![w] = "PROCESSED"]
  /\ ipi' = [ipi EXCEPT ![w] = TRUE]
  /\ NextTurn(w)
  /\ UNCHANGED <<leafVars, netVars, mailVars, ni, acont, tskq, frqueue, freeCtx,
                 request_flag, dispatcher_requests, worker_responses, queue_length,
                 worker_state, workVars>>

\* preempt_worker once the delay has passed: at most one interrupt a dispatch.
PreemptWorker(w) ==
  /\ Preemption
  /\ AtWorker(w)
  /\ response_flag[w] = "RUNNING"
  /\ preempt_check[w]
  /\ preempt_check' = [preempt_check EXCEPT ![w] = FALSE]
  /\ ipi' = [ipi EXCEPT ![w] = TRUE]
  /\ NextTurn(w)
  /\ UNCHANGED <<leafVars, netVars, mailVars, ni, acont, tskq, frqueue, freeCtx,
                 slotVars, queue_length, worker_state, workVars>>

\* The response is taken: dispatch_request follows in the same turn.
Processed(w) ==
  /\ response_flag' = [response_flag EXCEPT ![w] = "PROCESSED"]
  /\ preempt_check' = [preempt_check EXCEPT ![w] = FALSE]

\* handle_finished: the context is freed, the task leaves its core, and the
\* request goes to frqueue.
HandleFinished(w) ==
  LET resp == worker_responses[w] IN
  /\ AtWorker(w)
  /\ response_flag[w] = "FINISHED"
  /\ ContextFree(resp.rnbl)
  /\ LeaveCore(resp.type)
  /\ RequestEnqueue(resp.req)
  /\ Processed(w)
  /\ UNCHANGED <<leafVars, netVars, mailVars, dpc, di, ni, acont, tskq,
                 request_flag, dispatcher_requests, worker_responses, ipi, workVars>>

\* handle_preempted: the task goes back to its queue with its context.
HandlePreempted(w) ==
  LET task == worker_responses[w] IN
  /\ AtWorker(w)
  /\ response_flag[w] = "PREEMPTED"
  /\ IF RequeueHead THEN TskqEnqueueHead(task.type, task)
                    ELSE TskqEnqueueTail(task.type, task)
  /\ Processed(w)
  /\ UNCHANGED <<leafVars, netVars, mailVars, dpc, di, ni, acont, frqueue, freeCtx,
                 request_flag, dispatcher_requests, worker_responses, queue_length,
                 worker_state, ipi, workVars>>

\* dispatch_request finds the worker's queue empty.
NothingToDispatch(w) ==
  /\ AtWorker(w)
  /\ response_flag[w] = "PROCESSED"
  /\ tskq[w] = <<>>
  /\ NextTurn(w)
  /\ UNCHANGED <<leafVars, netVars, mailVars, ni, acont, tskq, frqueue, freeCtx,
                 preempt_check, sharedVars, workVars>>

\* dispatch_request: RUNNING, and the fields of the slot ...
DispatchRequest(w) ==
  /\ AtWorker(w)
  /\ response_flag[w] = "PROCESSED"
  /\ tskq[w] # <<>>
  /\ TskqDequeue(w)
  /\ response_flag' = [response_flag EXCEPT ![w] = "RUNNING"]
  /\ preempt_check' = [preempt_check EXCEPT ![w] = TRUE]
  /\ dpc' = "activate"
  /\ UNCHANGED <<leafVars, netVars, mailVars, di, ni, acont, frqueue, freeCtx,
                 request_flag, worker_responses, queue_length, worker_state, ipi,
                 workVars>>

\* ... and ACTIVE last, which hands the slot to the worker.
ActivateRequest(w) ==
  /\ dpc = "activate" /\ di = w
  /\ request_flag' = [request_flag EXCEPT ![w] = "ACTIVE"]
  /\ NextTurn(w)
  /\ UNCHANGED <<leafVars, netVars, mailVars, ni, acont, tskq, frqueue, freeCtx,
                 preempt_check, dispatcher_requests, response_flag, worker_responses,
                 queue_length, worker_state, ipi, workVars>>

\* handle_networker: an empty mailbox ends the iteration of the main loop.
NoPackets ==
  /\ dpc = "networker"
  /\ cnt = 0
  /\ dpc' = "worker"
  /\ UNCHANGED <<leafVars, netVars, mailVars, di, ni, acont, tskq, frqueue, freeCtx,
                 preempt_check, sharedVars, workVars>>

BeginPackets ==
  /\ dpc = "networker"
  /\ cnt # 0
  /\ dpc' = "accept"
  /\ ni' = 1
  /\ UNCHANGED <<leafVars, netVars, mailVars, di, acont, tskq, frqueue, freeCtx,
                 preempt_check, sharedVars, workVars>>

\* Fault: `break` for `continue`, so the rest of the mailbox is skipped.
DropRequestBreak ==
  /\ dpc = "accept"
  /\ ni <= cnt
  /\ freeCtx = {}
  /\ RequestEnqueue(reqs[ni])
  /\ lost' = lost \cup {reqs[ni]}
  /\ ni' = cnt + 1
  /\ UNCHANGED <<hdr, rxq, idleList, answered, netVars, mailVars, dpc, di, acont,
                 tskq, freeCtx, preempt_check, sharedVars, workVars>>

\* context_alloc fails: the request is returned to the networker unserved.
DropRequest ==
  /\ dpc = "accept"
  /\ ni <= cnt
  /\ freeCtx = {}
  /\ RequestEnqueue(reqs[ni])
  /\ lost' = lost \cup {reqs[ni]}
  /\ ni' = ni + 1
  /\ UNCHANGED <<hdr, rxq, idleList, answered, netVars, mailVars, dpc, di, acont,
                 tskq, freeCtx, preempt_check, sharedVars, workVars>>

\* A context is taken and the core's queue length incremented ...
AcceptRequest ==
  /\ dpc = "accept"
  /\ ni <= cnt
  /\ ContextAlloc
  /\ EnterCore(types[ni])
  /\ dpc' = "mark"
  /\ UNCHANGED <<leafVars, netVars, mailVars, di, ni, tskq, frqueue, preempt_check,
                 slotVars, worker_state, ipi, workVars>>

\* ... then the idle selection is booked and the task enters its queue.
EnqueueRequest ==
  LET core == types[ni]
      req  == reqs[ni]
      task == [rnbl |-> acont, req |-> req, type |-> core, category |-> "PACKET"] IN
  /\ dpc = "mark"
  /\ BookSelection(core, hdr[req].type)
  /\ TskqEnqueueTail(core, task)
  /\ ni' = ni + 1
  /\ dpc' = "accept"
  /\ UNCHANGED <<leafVars, netVars, mailVars, di, acont, frqueue, freeCtx,
                 preempt_check, slotVars, queue_length, ipi, workVars>>

\* Fault: only whole batches are returned.
ReturnedWholeBatches == IF Len(frqueue) < Batch THEN 0 ELSE Batch

\* How many requests the return loop takes from frqueue: at most
\* ETH_RX_MAX_BATCH, whatever cnt was.
Returned == IF Len(frqueue) < Batch THEN Len(frqueue) ELSE Batch

ReturnFinished ==
  LET n == Returned IN
  /\ dpc = "accept"
  /\ ni > cnt
  /\ reqs' = [i \in Slots |-> IF i <= n THEN frqueue[i] ELSE reqs[i]]
  /\ free_cnt' = free_cnt + n
  /\ frqueue' = SubSeq(frqueue, n + 1, Len(frqueue))
  /\ dpc' = "release"
  /\ UNCHANGED <<leafVars, netVars, cnt, types, di, ni, acont, tskq, freeCtx,
                 preempt_check, sharedVars, workVars>>

\* networker_pointers.cnt = 0 hands the mailbox back.
ReleasePointers ==
  /\ dpc = "release"
  /\ cnt' = 0
  /\ dpc' = "worker"
  /\ UNCHANGED <<leafVars, netVars, free_cnt, reqs, types, di, ni, acont, tskq,
                 frqueue, freeCtx, preempt_check, sharedVars, workVars>>

HandleWorker(w) ==
  \/ SkipWorker(w) \/ PreemptWorker(w) \/ HandleFinished(w) \/ HandlePreempted(w)
  \/ NothingToDispatch(w) \/ DispatchRequest(w) \/ ActivateRequest(w)

HandleNetworker ==
  \/ NoPackets \/ BeginPackets \/ DropRequest \/ AcceptRequest \/ EnqueueRequest
  \/ ReturnFinished \/ ReleasePointers

DispatcherNext == HandleNetworker \/ \E w \in Workers : HandleWorker(w)
=============================================================================

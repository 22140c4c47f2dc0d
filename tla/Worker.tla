------------------------------- MODULE Worker -------------------------------
(***************************************************************************)
(* A worker core, do_work() of dp/core/worker.c: flush the replies queued   *)
(* so far, spin on the dispatcher's slot, run the request in its context,   *)
(* queue a reply, and publish the response.  The steps are split where the  *)
(* core reads or writes a word another core writes or reads.                *)
(***************************************************************************)
EXTENDS HorusState

Goto(w, from, to) == wpc[w] = from /\ wpc' = [wpc EXCEPT ![w] = to]

\* init_worker: the response slot leaves RUNNING (0), its value in .bss, and
\* from then on the dispatcher may dispatch to this worker ...
InitWorker(w) ==
  /\ Goto(w, "init", "boot")
  /\ response_flag' = [response_flag EXCEPT ![w] = "PROCESSED"]
  /\ UNCHANGED <<leafVars, netVars, mailVars, dispVars, request_flag,
                 dispatcher_requests, worker_responses, queue_length, worker_state,
                 ipi, cont, finished, new_qlen, job, txq>>

\* Fault: the response flag is set again, after a dispatch may have begun.
ResetWorkerStateAndFlag(w) ==
  /\ Goto(w, "boot", "loop")
  /\ worker_state' = [worker_state EXCEPT ![w] = WORKER_STATE_BUSY]
  /\ response_flag' = [response_flag EXCEPT ![w] = "PROCESSED"]
  /\ UNCHANGED <<leafVars, netVars, mailVars, dispVars, request_flag,
                 dispatcher_requests, worker_responses, queue_length, ipi,
                 cont, finished, new_qlen, job, txq>>

\* ... before the worker resets its worker_state.
ResetWorkerState(w) ==
  /\ Goto(w, "boot", "loop")
  /\ worker_state' = [worker_state EXCEPT ![w] = WORKER_STATE_BUSY]
  /\ UNCHANGED <<leafVars, netVars, mailVars, dispVars, slotVars, queue_length, ipi,
                 cont, finished, new_qlen, job, txq>>

\* Fault: the transmit queue is not emptied.
ProcessSendAgain(w) ==
  /\ Goto(w, "loop", "poll")
  /\ answered' = [t \in Tasks |-> answered[t]
                     + Cardinality({i \in DOMAIN txq[w] : txq[w][i].task = t})]
  /\ UNCHANGED <<hdr, rxq, idleList, lost, netVars, mailVars, dispVars, sharedVars,
                 cont, finished, new_qlen, job, txq>>

\* Fault: the last reply queued stays until another one follows it.
ProcessSendAllButLast(w) ==
  LET n == Len(txq[w]) IN
  /\ Goto(w, "loop", "poll")
  /\ answered' = [t \in Tasks |-> answered[t]
                     + Cardinality({i \in 1..(n - 1) : txq[w][i].task = t})]
  /\ idleList' = [idleList EXCEPT
                    ![w] = @ + Cardinality({i \in 1..(n - 1) : txq[w][i].idle})]
  /\ txq' = [txq EXCEPT ![w] = IF n = 0 THEN <<>> ELSE <<@[n]>>]
  /\ UNCHANGED <<hdr, rxq, lost, netVars, mailVars, dispVars, sharedVars, cont,
                 finished, new_qlen, job>>

\* eth_process_reclaim and eth_process_send: every reply queued by this core
\* goes on the wire, and the leaf adds the worker for a TASK_DONE_IDLE.
ProcessSend(w) ==
  /\ Goto(w, "loop", "poll")
  /\ answered' = [t \in Tasks |-> answered[t]
                     + Cardinality({i \in DOMAIN txq[w] : txq[w][i].task = t})]
  /\ idleList' = [idleList EXCEPT
                    ![w] = @ + Cardinality({i \in DOMAIN txq[w] : txq[w][i].idle})]
  /\ txq' = [txq EXCEPT ![w] = <<>>]
  /\ UNCHANGED <<hdr, rxq, lost, netVars, mailVars, dispVars, sharedVars, cont,
                 finished, new_qlen, job>>

\* Fault: the worker leaves its slot ACTIVE.
TakeRequestActive(w) ==
  /\ request_flag[w] = "ACTIVE"
  /\ Goto(w, "poll", "taken")
  /\ UNCHANGED <<leafVars, netVars, mailVars, dispVars, sharedVars, cont, finished,
                 new_qlen, job, txq>>

\* handle_request: the spin ends, and the worker clears the flag first.
TakeRequest(w) ==
  /\ request_flag[w] = "ACTIVE"
  /\ Goto(w, "poll", "taken")
  /\ request_flag' = [request_flag EXCEPT ![w] = "WAITING"]
  /\ UNCHANGED <<leafVars, netVars, mailVars, dispVars, dispatcher_requests,
                 response_flag, worker_responses, queue_length, worker_state, ipi,
                 cont, finished, new_qlen, job, txq>>

\* Fault: handle_context resumes the context this core ran last.
StartRequestStale(w) ==
  LET slot == dispatcher_requests[w] IN
  /\ Goto(w, "taken", "work")
  /\ finished' = [finished EXCEPT ![w] = FALSE]
  /\ IF slot.category = "PACKET"
     THEN /\ cont' = [cont EXCEPT ![w] = slot.rnbl]
          /\ job' = [job EXCEPT ![slot.rnbl] = slot.req]
     ELSE UNCHANGED <<cont, job>>
  /\ UNCHANGED <<leafVars, netVars, mailVars, dispVars, sharedVars, new_qlen, txq>>

\* handle_new_packet (a fresh context is made to run generic_work on the
\* packet) or handle_context (the preempted one resumes).
StartRequest(w) ==
  LET slot == dispatcher_requests[w] IN
  /\ Goto(w, "taken", "work")
  /\ cont' = [cont EXCEPT ![w] = slot.rnbl]
  /\ finished' = [finished EXCEPT ![w] = FALSE]
  /\ job' = IF slot.category = "PACKET" THEN [job EXCEPT ![slot.rnbl] = slot.req]
                                        ELSE job
  /\ UNCHANGED <<leafVars, netVars, mailVars, dispVars, sharedVars, new_qlen, txq>>

\* test_handler: the interrupt swaps generic_work out; only between its sti
\* and its cli are interrupts enabled.
PreemptHandler(w) ==
  /\ ipi[w]
  /\ Goto(w, "work", "finish")
  /\ ipi' = [ipi EXCEPT ![w] = FALSE]
  /\ UNCHANGED <<leafVars, netVars, mailVars, dispVars, slotVars, queue_length,
                 worker_state, cont, finished, new_qlen, job, txq>>

\* generic_work up to `new_qlen = queue_length[cpu_nr_] - 1` (uint16_t).
ReadQueueLength(w) ==
  /\ Goto(w, "work", "reply")
  /\ new_qlen' = [new_qlen EXCEPT ![w] = (queue_length[w] - 1) % QlenMod]
  /\ UNCHANGED <<leafVars, netVars, mailVars, dispVars, sharedVars, cont, finished,
                 job, txq>>

\* The rest of generic_work: it reads worker_state, picks the reply's type
\* and queues it with udp_send_one, whose failure is only logged.
SendReply(w) ==
  LET task  == job[cont[w]]
      reply == [task |-> task, qlen |-> new_qlen[w],
                idle |-> new_qlen[w] = 0 /\ worker_state[w] > 0] IN
  /\ Goto(w, "reply", "finish")
  /\ finished' = [finished EXCEPT ![w] = TRUE]
  /\ \/ /\ txq' = [txq EXCEPT ![w] = Append(@, reply)]
        /\ UNCHANGED lost
     \/ /\ SendFaults
        /\ lost' = lost \cup {task}
        /\ UNCHANGED txq
  /\ UNCHANGED <<hdr, rxq, idleList, answered, netVars, mailVars, dispVars,
                 sharedVars, cont, new_qlen, job>>

\* finish_request: the fields are copied from the dispatcher's slot ...
FillResponse(w) ==
  /\ Goto(w, "finish", "publish")
  /\ worker_responses' =
       [worker_responses EXCEPT
          ![w] = [rnbl |-> cont[w], req |-> dispatcher_requests[w].req,
                  type |-> dispatcher_requests[w].type, category |-> "CONTEXT"]]
  /\ UNCHANGED <<leafVars, netVars, mailVars, dispVars, request_flag,
                 dispatcher_requests, response_flag, queue_length, worker_state, ipi,
                 cont, finished, new_qlen, job, txq>>

\* What finish_request reports of the task.
Outcome(w) == IF finished[w] THEN "FINISHED" ELSE "PREEMPTED"

\* ... and the flag comes last.
PublishResponse(w) ==
  /\ Goto(w, "publish", "loop")
  /\ response_flag' = [response_flag EXCEPT ![w] = Outcome(w)]
  /\ UNCHANGED <<leafVars, netVars, mailVars, dispVars, request_flag,
                 dispatcher_requests, worker_responses, queue_length, worker_state,
                 ipi, cont, finished, new_qlen, job, txq>>

WorkerNext(w) ==
  \/ InitWorker(w) \/ ResetWorkerState(w) \/ ProcessSend(w) \/ TakeRequest(w)
  \/ StartRequest(w) \/ PreemptHandler(w) \/ ReadQueueLength(w) \/ SendReply(w)
  \/ FillResponse(w) \/ PublishResponse(w)
=============================================================================

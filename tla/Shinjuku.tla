------------------------------ MODULE Shinjuku ------------------------------
(***************************************************************************)
(* The plain server of src/server_code/shinjuku: the same cores as Horus,   *)
(* but one task queue for each request type, which every worker serves, a   *)
(* choice among the queues by waiting time over service-level objective,    *)
(* and preemption, after which a task may resume on another core.           *)
(*                                                                         *)
(* The slot and mailbox protocols, the start of the workers and the         *)
(* transmit queues are those of HorusServer, which takes them apart.  Here  *)
(* the workers have started, and what a core does between taking a slot or  *)
(* the mailbox and giving it back is one step.                              *)
(***************************************************************************)
EXTENDS Integers, Sequences, FiniteSets, Selection

CONSTANTS
  NumWorkers,   \* CFG.num_cpus - 2
  NumPorts,     \* CFG.num_ports, the number of request types
  Batch,        \* ETH_RX_MAX_BATCH
  RxDepth,      \* ETH_RX_MAX_DEPTH
  MaxTasks,     \* bound of the model: packets the clients send
  Fragments,    \* the packets among them that complete no request
  Contexts,     \* the elements of context_pool
  Null,         \* the C NULL
  Slo,          \* CFG.slos, a weight for each type
  HeadFirst,    \* CFG.queue_settings: preempted tasks of a type go to the head
  Quantum,      \* CFG.preemption_delay
  MaxTime       \* bound of the model: where the time stamp counter stops

Workers == 0..(NumWorkers - 1)
Types   == 0..(NumPorts - 1)
Tasks   == 1..MaxTasks
Slots   == 1..Batch
Time    == 0..MaxTime

ASSUME ShinjukuSizes ==
  /\ {NumWorkers, NumPorts, Batch, RxDepth} \subseteq Nat \ {0}
  /\ {MaxTasks, Quantum, MaxTime} \subseteq Nat
  /\ Fragments \subseteq Tasks
  /\ Slo \in [Types -> Nat \ {0}]
  /\ HeadFirst \in [Types -> BOOLEAN]
ASSUME ShinjukuNull == Null \notin Tasks \cup Contexts \cup Types

VARIABLES
  kind,                \* the type of each packet sent, by its UDP port
  rxq, answered, lost, \* as in HorusState
  npc, recv_mbufs,     \* the networker core
  live,                \* the requests rq_update returned and nobody freed
  cnt, free_cnt, reqs, types,                       \* networker_pointers
  dpc, di, ni,                                      \* the dispatcher core
  cur_time,            \* rdtsc at the start of the dispatcher's loop
  timestamps, preempt_check, tskq, frqueue, freeCtx,
  request_flag, dispatcher_requests, response_flag, worker_responses,
  queue_length, ipi,
  wpc, cont, finished, job                          \* the worker cores

netVars    == <<kind, rxq, npc, recv_mbufs, live>>
mailVars   == <<cnt, free_cnt, reqs, types>>
loopVars   == <<dpc, di, ni, cur_time>>
queueVars  == <<tskq, frqueue, freeCtx, queue_length>>
timerVars  == <<timestamps, preempt_check>>
slotVars   == <<request_flag, dispatcher_requests, response_flag, worker_responses>>
workVars   == <<wpc, cont, finished, job>>
vars       == <<netVars, answered, lost, mailVars, loopVars, queueVars, timerVars,
                slotVars, ipi, workVars>>

Runnable == [rnbl : Contexts, req : Tasks, type : Types,
             category : {"PACKET", "CONTEXT"}, timestamp : Time]
NoContent == [rnbl |-> Null, req |-> Null, type |-> 0, category |-> "NOCONTENT",
              timestamp |-> 0]

\* Every queue entry and every slot that is handed over can be run: it has a
\* request, a context and a type whose queue exists.
TypeOK ==
  /\ kind \in [Tasks -> Types \cup {Null}]
  /\ rxq \in Seq(Tasks) /\ recv_mbufs \in Seq(Tasks)
  /\ answered \in [Tasks -> Nat] /\ lost \subseteq Tasks /\ live \subseteq Tasks
  /\ npc \in {"recv", "wait"}
  /\ cnt \in 0..Batch /\ free_cnt \in 0..Batch
  /\ reqs \in [Slots -> Tasks \cup {Null}] /\ types \in [Slots -> Types]
  /\ dpc \in {"clock", "worker", "networker", "accept"}
  /\ di \in Workers /\ ni \in 1..(Batch + 1) /\ cur_time \in Time
  /\ timestamps \in [Workers -> Time] /\ preempt_check \in [Workers -> BOOLEAN]
  /\ tskq \in [Types -> Seq(Runnable)]
  /\ \A y \in Types : \A i \in DOMAIN tskq[y] : tskq[y][i].type = y
  /\ frqueue \in Seq(Tasks) /\ freeCtx \subseteq Contexts
  /\ queue_length \in [Types -> Nat]
  /\ request_flag \in [Workers -> {"WAITING", "ACTIVE"}]
  /\ response_flag \in [Workers -> {"RUNNING", "FINISHED", "PREEMPTED", "PROCESSED"}]
  /\ dispatcher_requests \in [Workers -> Runnable \cup {NoContent}]
  /\ worker_responses \in [Workers -> Runnable \cup {NoContent}]
  /\ \A w \in Workers :
       /\ request_flag[w] = "ACTIVE" => dispatcher_requests[w] \in Runnable
       /\ response_flag[w] \in {"FINISHED", "PREEMPTED"} =>
            worker_responses[w] \in Runnable
  /\ ipi \in [Workers -> BOOLEAN]
  /\ wpc \in [Workers -> {"poll", "work", "done"}]
  /\ cont \in [Workers -> Contexts \cup {Null}] /\ finished \in [Workers -> BOOLEAN]
  /\ job \in [Contexts -> Tasks \cup {Null}]

Init ==
  /\ kind = [t \in Tasks |-> Null]
  /\ rxq = <<>> /\ recv_mbufs = <<>>
  /\ answered = [t \in Tasks |-> 0] /\ lost = {} /\ live = {}
  /\ npc = "recv"
  /\ cnt = 0 /\ free_cnt = 0
  /\ reqs = [i \in Slots |-> Null] /\ types = [i \in Slots |-> 0]
  /\ dpc = "clock" /\ di = 0 /\ ni = 1 /\ cur_time = 0
  /\ timestamps = [w \in Workers |-> MaxTime]
  /\ preempt_check = [w \in Workers |-> FALSE]
  /\ tskq = [y \in Types |-> <<>>]
  /\ frqueue = <<>> /\ freeCtx = Contexts
  /\ queue_length = [y \in Types |-> 0]
  /\ request_flag = [w \in Workers |-> "WAITING"]
  /\ response_flag = [w \in Workers |-> "PROCESSED"]
  /\ dispatcher_requests = [w \in Workers |-> NoContent]
  /\ worker_responses = [w \in Workers |-> NoContent]
  /\ ipi = [w \in Workers |-> FALSE]
  /\ wpc = [w \in Workers |-> "poll"]
  /\ cont = [w \in Workers |-> Null] /\ finished = [w \in Workers |-> FALSE]
  /\ job = [c \in Contexts |-> Null]

-----------------------------------------------------------------------------
(* The clients and the networker core.                                      *)

\* A client sends a packet to the port of a type; the driver drops it when the
\* receive queue is full (eth_recv).
SendPacket(y) ==
  \E t \in Tasks :
    /\ kind[t] = Null /\ \A u \in Tasks : kind[u] = Null => t <= u
    /\ kind' = [kind EXCEPT ![t] = y]
    /\ IF Len(rxq) < RxDepth
       THEN rxq' = Append(rxq, t) /\ UNCHANGED lost
       ELSE lost' = lost \cup {t} /\ UNCHANGED rxq
    /\ UNCHANGED <<npc, recv_mbufs, live, answered, mailVars, loopVars, queueVars,
                   timerVars, slotVars, ipi, workVars>>

AtMostBatch(n) == IF n < Batch THEN n ELSE Batch

\* eth_process_recv: a batch of what has arrived; an empty one ends the turn.
Receive ==
  /\ npc = "recv"
  /\ rxq # <<>>
  /\ LET n == AtMostBatch(Len(rxq)) IN
       /\ recv_mbufs' = SubSeq(rxq, 1, n)
       /\ rxq' = SubSeq(rxq, n + 1, Len(rxq))
  /\ npc' = "wait"
  /\ UNCHANGED <<kind, live, answered, lost, mailVars, loopVars, queueVars,
                 timerVars, slotVars, ipi, workVars>>

Place(s, old) == [i \in Slots |-> IF i <= Len(s) THEN s[i] ELSE old[i]]

\* The places of a batch whose packet completes a request.
Completing(batch) == {i \in DOMAIN batch : batch[i] \notin Fragments}

\* The numbers of a finite set in order.
InOrder(S) ==
  CHOOSE f \in [1..Cardinality(S) -> S] : \A i, j \in DOMAIN f : i < j => f[i] < f[j]

\* What rq_update makes of a batch, in order: a request of each packet that
\* completes one.
Completed(batch) ==
  LET order == InOrder(Completing(batch)) IN [i \in DOMAIN order |-> batch[order[i]]]

\* recv_type of the packet that completed each request.
CompletedTypes(batch) ==
  LET done == Completed(batch) IN [i \in DOMAIN done |-> kind[done[i]]]

\* Once cnt is 0 the finished requests are freed, the mailbox is filled and
\* cnt is written last.
PostBatch ==
  LET done == Completed(recv_mbufs) IN
  /\ npc = "wait"
  /\ cnt = 0
  /\ live' = (live \ {reqs[i] : i \in 1..free_cnt}) \cup {done[i] : i \in DOMAIN done}
  /\ reqs' = Place(done, reqs)
  /\ types' = Place(CompletedTypes(recv_mbufs), types)
  /\ cnt' = Len(done)
  /\ free_cnt' = 0
  /\ recv_mbufs' = <<>>
  /\ npc' = "recv"
  /\ UNCHANGED <<kind, rxq, answered, lost, loopVars, queueVars, timerVars, slotVars,
                 ipi, workVars>>

NetworkerNext == Receive \/ PostBatch

-----------------------------------------------------------------------------
(* The dispatcher core.                                                     *)

AtWorker(w) == dpc = "worker" /\ di = w

\* Fault: num_cpus - 1 for num_cpus - 2.
NextTurnTooFar(w) ==
  /\ IF w = NumWorkers THEN dpc' = "networker" /\ di' = 0
                       ELSE dpc' = "worker" /\ di' = w + 1
  /\ UNCHANGED <<ni, cur_time>>

NextTurn(w) ==
  /\ IF w + 1 = NumWorkers THEN dpc' = "networker" /\ di' = 0
                           ELSE dpc' = "worker" /\ di' = w + 1
  /\ UNCHANGED <<ni, cur_time>>

\* Some queue entry or slot holds a time to which the clock is compared.
Timed ==
  \/ \E y \in Types : tskq[y] # <<>>
  \/ \E w \in Workers : response_flag[w] # "PROCESSED"

\* cur_time = rdtsc(), once a turn.  The time of turns that find nothing
\* queued and nothing running is not counted: no stored time is older.
StartTurn ==
  /\ dpc = "clock"
  /\ cur_time' = IF Timed /\ cur_time < MaxTime THEN cur_time + 1 ELSE cur_time
  /\ dpc' = "worker"
  /\ UNCHANGED <<di, ni, netVars, answered, lost, mailVars, queueVars, timerVars,
                 slotVars, ipi, workVars>>

\* handle_worker finds RUNNING and preempt_worker does nothing.
SkipWorker(w) ==
  /\ AtWorker(w)
  /\ response_flag[w] = "RUNNING"
  /\ ~(preempt_check[w] /\ cur_time - timestamps[w] > Quantum)
  /\ NextTurn(w)
  /\ UNCHANGED <<netVars, answered, lost, mailVars, queueVars, timerVars, slotVars,
                 ipi, workVars>>

\* preempt_worker posts one interrupt when the quantum is over.
PreemptWorker(w) ==
  /\ AtWorker(w)
  /\ response_flag[w] = "RUNNING"
  /\ preempt_check[w] /\ cur_time - timestamps[w] > Quantum
  /\ preempt_check' = [preempt_check EXCEPT ![w] = FALSE]
  /\ ipi' = [ipi EXCEPT ![w] = TRUE]
  /\ NextTurn(w)
  /\ UNCHANGED <<netVars, answered, lost, mailVars, queueVars, timestamps, slotVars,
                 workVars>>

\* The response is taken; dispatch_request follows in the same turn.
Processed(w) ==
  /\ response_flag' = [response_flag EXCEPT ![w] = "PROCESSED"]
  /\ preempt_check' = [preempt_check EXCEPT ![w] = FALSE]
  /\ UNCHANGED <<timestamps, request_flag, dispatcher_requests, worker_responses>>

HandleFinished(w) ==
  LET resp == worker_responses[w] IN
  /\ AtWorker(w)
  /\ response_flag[w] = "FINISHED"
  /\ freeCtx' = freeCtx \cup {resp.rnbl}
  /\ queue_length' = [queue_length EXCEPT ![resp.type] = @ - 1]
  /\ frqueue' = <<resp.req>> \o frqueue
  /\ Processed(w)
  /\ UNCHANGED <<netVars, answered, lost, mailVars, loopVars, tskq, ipi, workVars>>

\* The task's queue with the task back in it, with the time of its arrival.
Requeued(task) ==
  IF HeadFirst[task.type] THEN <<task>> \o tskq[task.type]
                          ELSE Append(tskq[task.type], task)

HandlePreempted(w) ==
  LET task == worker_responses[w] IN
  /\ AtWorker(w)
  /\ response_flag[w] = "PREEMPTED"
  /\ tskq' = [tskq EXCEPT ![task.type] = Requeued(task)]
  /\ Processed(w)
  /\ UNCHANGED <<netVars, answered, lost, mailVars, loopVars, frqueue, freeCtx,
                 queue_length, ipi, workVars>>

\* diff of smart_tskq_dequeue; a quotient a/b is compared with c/d as a*d and
\* c*b, so the rounding of float and double is left out.
Waited(y) == cur_time - tskq[y][1].timestamp

\* Fault: max is not updated, so the last queue that has waited is taken.
SmartQueueLast(y) ==
  /\ tskq[y] # <<>> /\ Waited(y) > 0
  /\ \A z \in Types : z > y /\ tskq[z] # <<>> => Waited(z) = 0

\* smart_tskq_dequeue takes the first queue with the largest quotient of
\* waiting time and objective, provided its head has waited at all.
SmartQueue(y) ==
  /\ tskq[y] # <<>> /\ Waited(y) > 0
  /\ \A z \in Types : tskq[z] # <<>> =>
       \/ Waited(z) * Slo[y] < Waited(y) * Slo[z]
       \/ Waited(z) * Slo[y] = Waited(y) * Slo[z] /\ y <= z

NothingToDispatch(w) ==
  /\ AtWorker(w)
  /\ response_flag[w] = "PROCESSED"
  /\ \A y \in Types : ~SmartQueue(y)
  /\ NextTurn(w)
  /\ UNCHANGED <<netVars, answered, lost, mailVars, queueVars, timerVars, slotVars,
                 ipi, workVars>>

DispatchRequest(w) ==
  /\ AtWorker(w)
  /\ response_flag[w] = "PROCESSED"
  /\ \E y \in Types :
       /\ SmartQueue(y)
       /\ dispatcher_requests' = [dispatcher_requests EXCEPT ![w] = Head(tskq[y])]
       /\ tskq' = [tskq EXCEPT ![y] = Tail(@)]
  /\ response_flag' = [response_flag EXCEPT ![w] = "RUNNING"]
  /\ request_flag' = [request_flag EXCEPT ![w] = "ACTIVE"]
  /\ timestamps' = [timestamps EXCEPT ![w] = cur_time]
  /\ preempt_check' = [preempt_check EXCEPT ![w] = TRUE]
  /\ NextTurn(w)
  /\ UNCHANGED <<netVars, answered, lost, mailVars, frqueue, freeCtx, queue_length,
                 worker_responses, ipi, workVars>>

\* handle_networker looks at cnt.
LookAtMailbox ==
  /\ dpc = "networker"
  /\ dpc' = IF cnt = 0 THEN "clock" ELSE "accept"
  /\ ni' = 1
  /\ UNCHANGED <<di, cur_time, netVars, answered, lost, mailVars, queueVars,
                 timerVars, slotVars, ipi, workVars>>

\* context_alloc fails: the request goes back unserved.
DropRequest ==
  /\ dpc = "accept" /\ ni <= cnt
  /\ freeCtx = {}
  /\ frqueue' = <<reqs[ni]>> \o frqueue
  /\ lost' = lost \cup {reqs[ni]}
  /\ ni' = ni + 1
  /\ UNCHANGED <<dpc, di, cur_time, netVars, answered, mailVars, tskq, freeCtx,
                 queue_length, timerVars, slotVars, ipi, workVars>>

\* Fault: new tasks are put where preempted ones go.
EnqueuedAtHead(task) == <<task>> \o tskq[task.type]

\* tskq_enqueue_tail, for a new task.
Enqueued(task) == Append(tskq[task.type], task)

AcceptRequest ==
  LET y == types[ni] IN
  /\ dpc = "accept" /\ ni <= cnt
  /\ \E c \in freeCtx :
       /\ freeCtx' = freeCtx \ {c}
       /\ tskq' = [tskq EXCEPT ![y] =
                     Enqueued([rnbl |-> c, req |-> reqs[ni], type |-> y,
                               category |-> "PACKET", timestamp |-> cur_time])]
  /\ queue_length' = [queue_length EXCEPT ![y] = @ + 1]
  /\ ni' = ni + 1
  /\ UNCHANGED <<dpc, di, cur_time, netVars, answered, lost, mailVars, frqueue,
                 timerVars, slotVars, ipi, workVars>>

\* As many requests as fit are returned, and cnt = 0 gives the mailbox back.
ReturnFinished ==
  LET n == AtMostBatch(Len(frqueue)) IN
  /\ dpc = "accept" /\ ni > cnt
  /\ reqs' = Place(SubSeq(frqueue, 1, n), reqs)
  /\ free_cnt' = free_cnt + n
  /\ frqueue' = SubSeq(frqueue, n + 1, Len(frqueue))
  /\ cnt' = 0
  /\ dpc' = "clock"
  /\ UNCHANGED <<types, di, ni, cur_time, netVars, answered, lost, tskq, freeCtx,
                 queue_length, timerVars, slotVars, ipi, workVars>>

DispatcherNext ==
  \/ StartTurn \/ LookAtMailbox \/ DropRequest \/ AcceptRequest \/ ReturnFinished
  \/ \E w \in Workers :
       \/ SkipWorker(w) \/ PreemptWorker(w) \/ HandleFinished(w) \/ HandlePreempted(w)
       \/ NothingToDispatch(w) \/ DispatchRequest(w)

-----------------------------------------------------------------------------
(* A worker core.                                                           *)

Goto(w, from, to) == wpc[w] = from /\ wpc' = [wpc EXCEPT ![w] = to]

\* Fault: handle_context resumes the context this core ran last.
TakeRequestStale(w) ==
  LET slot == dispatcher_requests[w] IN
  /\ request_flag[w] = "ACTIVE"
  /\ Goto(w, "poll", "work")
  /\ request_flag' = [request_flag EXCEPT ![w] = "WAITING"]
  /\ finished' = [finished EXCEPT ![w] = FALSE]
  /\ IF slot.category = "PACKET" \/ cont[w] = Null
     THEN cont' = [cont EXCEPT ![w] = slot.rnbl] /\ job' = [job EXCEPT ![slot.rnbl] = slot.req]
     ELSE UNCHANGED <<cont, job>>
  /\ UNCHANGED <<netVars, answered, lost, mailVars, loopVars, queueVars, timerVars,
                 dispatcher_requests, response_flag, worker_responses, ipi>>

\* handle_request: the spin ends, the flag is cleared, and a new context is
\* made for a packet, or the preempted one resumes, on whichever core it is.
TakeRequest(w) ==
  LET slot == dispatcher_requests[w] IN
  /\ request_flag[w] = "ACTIVE"
  /\ Goto(w, "poll", "work")
  /\ request_flag' = [request_flag EXCEPT ![w] = "WAITING"]
  /\ cont' = [cont EXCEPT ![w] = slot.rnbl]
  /\ finished' = [finished EXCEPT ![w] = FALSE]
  /\ job' = IF slot.category = "PACKET" THEN [job EXCEPT ![slot.rnbl] = slot.req]
                                        ELSE job
  /\ UNCHANGED <<netVars, answered, lost, mailVars, loopVars, queueVars, timerVars,
                 dispatcher_requests, response_flag, worker_responses, ipi>>

\* test_handler, between generic_work's sti and cli: a posted interrupt swaps
\* out whatever request is running by then.
PreemptHandler(w) ==
  /\ ipi[w]
  /\ Goto(w, "work", "done")
  /\ ipi' = [ipi EXCEPT ![w] = FALSE]
  /\ UNCHANGED <<netVars, answered, lost, mailVars, loopVars, queueVars, timerVars,
                 slotVars, cont, finished, job>>

\* The rest of generic_work: the reply is queued, and this core sends it before
\* it takes its next request.
SendReply(w) ==
  /\ Goto(w, "work", "done")
  /\ finished' = [finished EXCEPT ![w] = TRUE]
  /\ answered' = [answered EXCEPT ![job[cont[w]]] = @ + 1]
  /\ UNCHANGED <<netVars, lost, mailVars, loopVars, queueVars, timerVars,
                 slotVars, ipi, cont, job>>

\* Fault: the type is left as the worker's previous response had it.
ResponseOldType(w) ==
  [dispatcher_requests[w] EXCEPT !.rnbl = cont[w], !.category = "CONTEXT",
                                 !.type = worker_responses[w].type]

\* The response finish_request builds from the slot it reads again.
Response(w) == [dispatcher_requests[w] EXCEPT !.rnbl = cont[w], !.category = "CONTEXT"]

\* Fault: a suspended context is reported like one that has returned.
OutcomeFinished(w) == "FINISHED"

Outcome(w) == IF finished[w] THEN "FINISHED" ELSE "PREEMPTED"

FinishRequest(w) ==
  /\ Goto(w, "done", "poll")
  /\ worker_responses' = [worker_responses EXCEPT ![w] = Response(w)]
  /\ response_flag' = [response_flag EXCEPT ![w] = Outcome(w)]
  /\ UNCHANGED <<netVars, answered, lost, mailVars, loopVars, queueVars, timerVars,
                 request_flag, dispatcher_requests, ipi, cont, finished, job>>

WorkerNext(w) ==
  TakeRequest(w) \/ PreemptHandler(w) \/ SendReply(w) \/ FinishRequest(w)

Next == (\E y \in Types : SendPacket(y)) \/ NetworkerNext \/ DispatcherNext
        \/ \E w \in Workers : WorkerNext(w)

Spec == Init /\ [][Next]_vars

-----------------------------------------------------------------------------
(* Where requests, contexts and tasks can be.                               *)

\* Worker w was given a task whose response the dispatcher has not taken yet.
InService(w) == response_flag[w] # "PROCESSED"

\* The places of the mailbox that hold requests still to be accepted.
Pending == IF dpc = "accept" THEN ni..cnt ELSE 1..cnt

\* Every place that holds a request and, but for the mailbox, a context.
Queued   == UNION {{<<tskq[y][i], <<"tskq", y, i>>>> : i \in DOMAIN tskq[y]} : y \in Types}
Running  == {<<dispatcher_requests[w], <<"core", w, 0>>>> : w \in {v \in Workers : InService(v)}}
Returned == {<<reqs[i], <<"returned", 0, i>>>> : i \in 1..free_cnt}
            \cup {<<frqueue[i], <<"frqueue", 0, i>>>> : i \in DOMAIN frqueue}
Waiting  == {<<reqs[i], <<"mailbox", 0, i>>>> : i \in Pending}

RequestPlaces(t) ==
  {p \in Queued \cup Running : p[1].req = t} \cup {p \in Returned \cup Waiting : p[1] = t}

\* The task of worker w still owes its reply.
Unanswered(w) == InService(w) /\ response_flag[w] # "FINISHED"
                 /\ ~(wpc[w] = "done" /\ finished[w])

\* How many places will still answer task t, and how often it was answered or
\* given up.
Outstanding(t) ==
  Cardinality({i \in DOMAIN rxq : rxq[i] = t})
  + Cardinality({i \in DOMAIN recv_mbufs : recv_mbufs[i] = t})
  + Cardinality({p \in Queued : p[1].req = t}) + Cardinality({p \in Waiting : p[1] = t})
  + Cardinality({w \in Workers : Unanswered(w) /\ dispatcher_requests[w].req = t})

Fates(t) == answered[t] + IF t \in lost THEN 1 ELSE 0

Sent(t) == kind[t] # Null /\ t \notin Fragments

-----------------------------------------------------------------------------
(* Properties.                                                              *)

\* A request allocated by rq_update is in exactly one queue, slot or mailbox
\* place until the networker frees it, whichever cores it runs on; and no
\* place holds a freed one.
RequestOwned ==
  \A t \in Tasks : Cardinality(RequestPlaces(t)) = IF t \in live THEN 1 ELSE 0

\* A context is free, or held by one task: one that was preempted on a core and
\* resumes on another is never run, queued or freed twice.
ContextOwned ==
  \A c \in Contexts :
    Cardinality({p \in Queued \cup Running : p[1].rnbl = c})
      + Cardinality({c} \cap freeCtx) = 1

\* Whatever core a task runs on, its context is the one its slot names and
\* serves the request its slot names, of the type it was sent for.
ServesItsSlot ==
  \A w \in Workers : wpc[w] \in {"work", "done"} =>
    /\ cont[w] = dispatcher_requests[w].rnbl
    /\ job[cont[w]] = dispatcher_requests[w].req
    /\ kind[job[cont[w]]] = dispatcher_requests[w].type

\* Nothing is answered twice or forgotten, preempted or not, on one core or
\* several: a task is on its way, or answered once, or lost once.
ExactlyOneFate == \A t \in Tasks : Sent(t) => Outstanding(t) + Fates(t) = 1

\* queue_length[y] counts the tasks of type y queued and in service, also when
\* a task is finished by another core than the one it began on.
QueueLengthExact ==
  \A y \in Types : queue_length[y] =
    Len(tskq[y]) + Cardinality({p \in Running : p[1].type = y})

\* The books of the server agree: one holder for each request and context, and
\* the lengths the replies report are those of the queues.
Accounted == RequestOwned /\ ContextOwned /\ QueueLengthExact

\* When a task was dispatched, no task that was waiting then and has not begun
\* yet had waited longer in proportion to its objective.
ServedByObjective ==
  \A p \in Running, q \in Queued :
    LET w == p[2][2]
        dispatched == timestamps[w] IN
    q[1].category = "PACKET" /\ q[1].timestamp < dispatched =>
      (dispatched - q[1].timestamp) * Slo[p[1].type]
        <= (dispatched - p[1].timestamp) * Slo[q[1].type]

\* The tasks of type y that are requests, or will be.
TasksOf(y) == {t \in Tasks : Sent(t) /\ kind[t] = y}

\* The requests in the task queue of type y and in the mailbox, with NULL for the
\* tasks that have begun and for the places that are empty.
Unbegun(y) ==
  [i \in DOMAIN tskq[y] |-> IF tskq[y][i].category = "PACKET" THEN tskq[y][i].req ELSE Null]
Mailbox == [i \in Slots |-> IF i \in Pending THEN reqs[i] ELSE Null]

\* The tasks of type y that have not begun, in order of arrival.
NotBegun(y) == Among(Unbegun(y) \o Mailbox \o recv_mbufs \o rxq, TasksOf(y))

Begun ==
  {p[1].req : p \in {q \in Queued : q[1].category = "CONTEXT"}}
  \cup {dispatcher_requests[w].req : w \in {v \in Workers : Unanswered(v)}}

Ended   == {t \in Tasks : Sent(t) /\ Fates(t) > 0} \ lost
Dropped == {t \in lost : Sent(t)}

Queues == INSTANCE TypedQueues WITH
  Type <- Types, Task <- Tasks, waiting <- [y \in Types |-> NotBegun(y)],
  running <- Begun, done <- Ended, dropped <- Dropped

\* The tasks of each type begin in the order they arrive, whichever cores serve
\* them, and end once (see TypedQueues).
ImplementsTypedQueues == Queues!Spec
=============================================================================

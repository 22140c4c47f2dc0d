# Horus server: specifications and proofs

This directory holds TLA+ models of the server in
`src/server_code/shinjuku-rocksdb`: a Shinjuku-style request scheduler extended
with the Horus protocol, in which programmable switches (a *leaf* in front of
the servers, *spines* above it) pick the worker core of every task. One module
models the plain server it grew from, `src/server_code/shinjuku`, where the
dispatcher itself chooses among queues by request type and preempts. TLC checks
the models on small instances; TLAPS proves the theorems listed below for every
value of the constants. Paths below are relative to
`src/server_code/shinjuku-rocksdb` unless they start with `src/`.

## The system

One process runs `CFG.num_cpus` pinned threads that never block. They share
memory only through the volatile globals of `inc/ix/dispatch.h`.

| part | state | operations | talks to |
|---|---|---|---|
| networker core (`dp/core/networker.c`) | `recv_mbufs`, the reassembly list `rqueue` | poll the NIC, free finished requests, build requests (`rq_update`), post them | dispatcher, through the mailbox `networker_pointers` |
| dispatcher core (`dp/core/dispatcher.c`) | `tskq[]`, `frqueue`, the context pool, `queue_length[]`, `worker_state[]` | take responses, dispatch to free workers, accept requests, return finished ones | networker (mailbox), workers (one slot each way) |
| worker cores (`dp/core/worker.c`) | `cont`, `finished`, a transmit queue | wait for a slot, run the request in its context, reply, publish the response | dispatcher (slots), clients and leaf (replies) |
| reassembly (`rq_update`, `inc/ix/dispatch.h`) | a doubly linked list of incomplete requests, `CFG.ports` | add a packet, return a complete request and its core, renumber the workers | networker |
| memory pools (`inc/ix/mempool.h`, `dp/core/mempool.c`) | per-core free list and spare chunk, a locked datastore of chunks | allocate and free elements | all |
| startup (`dp/core/init.c`) | `started_cpus`, `start_barrier` | create threads, set up queues, start the device, enter the main loops | all |
| Ethernet queues (`inc/ix/ethqueue.h`, `inc/ix/transmit.h`) | receive and transmit queues | receive (dropping what does not fit), send | networker, workers |
| timer wheel (`dp/core/timer.c`, `inc/ix/timer.h`) | per core: wheels of buckets, `now_us`, `timer_pos` | arm, move and disarm a timer; `timer_run` with its handlers and the collapse of the upper wheels | ARP; the loop of the IX system calls runs it, the Horus loops do not |
| plain dispatcher and workers (`src/server_code/shinjuku/dp/core`) | a queue and a `queue_length` per request type, `timestamps`, `preempt_check` | as above, with `smart_tskq_dequeue` and `preempt_worker` | as above |
| leaf switch, clients, control plane | idle list, worker IDs | outside the repository; modelled from what the server expects of them | server |

`PROJECT.json` lists these and the parts that are not modelled (the network
stack, device drivers, page and memory set-up, configuration, application code,
the load generator and the scripts), each with the reason.

### What is hard here

There is no lock and no test for the protocol between the cores. What can go
wrong needs several steps of several cores:

* a slot filled while it is read, a response taken twice, or the dispatcher's
  slot re-read by `finish_request` after it was refilled;
* the mailbox, which carries new requests one way and finished ones back *in the
  same array*, entered from both sides;
* a request or context freed twice, early, or never, along a path through seven
  queues;
* `queue_length` and `worker_state`, kept by the dispatcher, read by the worker
  at another moment, and reported to a switch that keeps its own idea of who is
  idle;
* packets dropped at three places (receive queue, context pool, `udp_send_one`);
* a worker that still initialises itself while packets already arrive;
* fragments in every order, and worker IDs that change while packets are under
  way;
* in the plain server, a task that is suspended on one core and resumed on
  another, and an interrupt that arrives after its task has ended;
* timers filed by a time read earlier, on wheels whose cursor is behind the
  clock, by owners and by the very handlers the wheels are running.

The list with source lines, and the properties that watch each, is under
`hazards` in `PROJECT.json`.

## Modules

```
HorusState            shared memory, types
  Leaf                switch, clients, NIC receive path
  Networker           do_networking
  Dispatcher          do_dispatching, handle_worker, handle_networker
  Worker              init_worker, handle_request, generic_work, finish_request
    HorusServer       composition, properties, inductive invariant
      WorkerQueues    abstract: one first-in first-out queue per worker
      MCHorusServer   instances for TLC
      HorusServer_proofs <- Fates_proofs
Shinjuku              the plain server     -> TypedQueues (abstract), MCShinjuku,
                                              Shinjuku_proofs
Reassembly            rq_update            -> Assembly (abstract), MCReassembly,
                                              Reassembly_proofs
Mempool               memory pools         -> Allocator (abstract), Mempool_proofs
TimerWheel            timer wheels         -> Timers (abstract), MCTimerWheel,
                                              TimerWheel_proofs
Startup               main, init_hw, start_cpu  ->  Startup_proofs
Selection             the part of a sequence that is one queue's -> Selection_proofs
```

**Selection** models nothing of the code: `Among(s, T)` is what of the sequence
`s` belongs to `T`, in its order. The mappings of HorusServer and Shinjuku to
their abstract queues are made of it.

**HorusState and the cores.** A task is the identity of a packet; its mbuf,
message and `struct request` share it. The two flags of a slot are variables of
their own (`request_flag`, `response_flag`), because the order in which flag and
fields are written is the protocol. Each access to a word another core writes is
a step of its own: the dispatcher writes RUNNING and the fields in
`DispatchRequest` and the ACTIVE flag in `ActivateRequest`; the worker copies the
slot and clears the flag in `TakeRequest`, reads `queue_length` and
`worker_state` in `ReadQueueLength`, replies in `SendReply`, fills the response
in `FillResponse` and publishes it in `PublishResponse`. Code between two such
accesses touches only what one core owns, so it is one action. On x86 stores of
one core are seen in order, and the flags are volatile; reordering is therefore
not modelled.

`handle_networker` is a loop over the mailbox: `BeginPackets`, then per request
`DropRequest` (no context) or `AcceptRequest` (`++queue_length`) and
`EnqueueRequest` (the idle selection and the task queue), then `ReturnFinished`
and `ReleasePointers`. `handle_worker` is `HandleFinished`, `HandlePreempted`,
`DispatchRequest` or `SkipWorker` by the response flag.

`Preemption = TRUE` models `else preempt_worker(...)` at the end of
`handle_worker`. This tree comments it out; `src/server_code/shinjuku` has it at
`dp/core/dispatcher.c:122-124`. An interrupt then stays posted (`ipi`) until the
worker takes it, at any later step, also when another task is running by then.

**Leaf** keeps `idleList`, how often the switch holds each worker as idle. It
pops a worker (`SelectIdle`) or picks one otherwise (`SelectRandom`); a reply of
type TASK_DONE_IDLE puts one back. `SendOther` is a packet that completes no
request.

**Shinjuku** is the plain server. Its slot, mailbox and start-up protocols are
those of HorusServer, which takes them apart word by word; here a turn of a core
between taking a slot or the mailbox and giving it back is one step, so that the
rest fits: two workers, two request types, a clock, and preemption. `StartTurn`
reads the clock once a loop, `PreemptWorker` posts an interrupt when a task's
quantum is over on *that* clock, `PreemptHandler` takes it at any later step.
`SmartQueue` is the choice of `smart_tskq_dequeue`; a quotient of waiting time
and objective is compared by cross-multiplication.

**Reassembly** keeps the pointers of the list (`head`, `next`, `prev`), so that
linking and unlinking are what is checked. Networker keeps of `rq_update` its
outcome, a request for a core or nothing, and what it has allocated: `rq` holds
the incomplete requests, which take an element of `request_mempool` and one of
`rq_mempool` at their first packet (`inc/ix/dispatch.h:433-448, 473-488`), and
`live` those it has returned and nobody has freed. Which incomplete request a
packet completes, if any, and whether another packet begins one is open; no step
takes away a cell whose packets were lost, as none does in the code.

**Mempool** keeps lists as sets; which element a list yields is open. A chunk
changes hands in one step, as the datastore has a lock. Callers free an element
to the pool they took it from, as `mempool_free` demands.

**TimerWheel** has a step for each timer of a list, since its handler reads the
clock and may arm it again. `Turn`, `Reinsert`, `NextWheel`, `Run`, `EndBucket`
and `EndRun` are `timer_run` with `timer_collapse`, `timer_reinsert_bucket` and
`timer_run_bucket`; `Mod` and `Del` are the owner's calls between two runs, which
the core that owns the wheels makes too. `Place` is the arithmetic of
`timer_insert`; a shift by `WHEEL_IDX_TO_SHIFT(idx)` is a division by `Unit[idx]`,
the time of a bucket of that wheel, and the highest bit of the distance is the
wheel whose bucket it exceeds but not its turn (`Index`). `MinDelay` and `Size` are
the powers of two 16 us and 256 in the code. `Polled = FALSE` is a core whose loop never calls `timer_run`.

**Startup** splits `started_cpus++` into its load and its store.

### Fault operators

An operator whose comment says *Fault* or *Faults* is a variant of the
definition after it with a plausible bug: a dropped guard, a missing reset, a
swapped order. No specification uses it. `mutants` in `PROJECT.json` pairs each
with a property that it violates when put in place of the original.

## Model checking

| run | configuration | question and answer |
|---|---|---|
| core | 2 workers, batches of 2, 3 tasks, 2 contexts | the hand-offs and the exact queue lengths hold in every interleaving; the server implements `WorkerQueues`, one first-in first-out queue per worker |
| overload | 1 worker, 4 tasks, receive queue of 2, 1 context, failing sends, fair cores | every request, complete or not, has one place and every task one fate although it may be dropped at three places; no request is recycled before its task is settled; requests allocated exceed the incomplete ones by no more than contexts plus a batch; the idle books balance except for lost tasks; every task is settled and the mailbox always comes back |
| preempt | 1 worker that initialises itself while packets arrive, 3 tasks, preemption, failing sends | the inductive invariant of the proofs; contexts are not shared, a worker serves what its slot names, also when an interrupt comes late; the slot is stable while used |
| shinjuku | 2 workers, 2 request types with objectives 1 and 2, 4 packets (one completes no request), 2 contexts, a quantum of 1 | tasks that move between cores keep context, request, type and place in the books; the queue served is the one that waited longest for its objective; each type begins in order of arrival (`TypedQueues`), with preempted tasks put at the tail (type 0) and at the head (type 1) |
| pools | 2 pools, 5 chunks of 2 and a rest | elements are conserved; `mempool_free_2`'s assertion holds; the pools implement `Allocator` |
| assembly | messages of 1, 2, 2 and 3 packets, 3 cells, lost packets, overlapping worker IDs that change between messages | a cell on the list waits for a packet and holds only its own message's; the list stays well formed whichever cell leaves it; the counts are exact; every message goes to its addressee; it implements `Assembly` |
| timers | 2 timers, 3 wheels of 4 buckets of 2 us, delays for each wheel | a pending timer is in a list the cursor comes to in time; none is late by two buckets after a run; the wheels implement `Timers` |
| boot | 8 CPUs, fair threads | no increment of `started_cpus` is lost, the device starts after all transmit queues, no loop before the device, all loops start |

Four runs exhibit disagreements between the code and its comments:

* **idle_twice** (`dp/core/worker.c:239`): a worker reports itself idle a second
  time when a task is accepted between its read of `queue_length` and
  `handle_finished`; the comment says the leaf does not have the worker then.
* **idle_forgotten** (`dp/core/dispatcher.c:165`): a task dropped for want of a
  context leaves its worker out of the leaf's idle list with no report to come.
* **assembly_stale** (`inc/ix/dispatch.h:421`): `core_id == -1` compares a
  pointer, so a packet that matches no worker keeps core 255 instead of getting
  a random worker.
* **timers_unpolled** (`dp/core/timer.c:121`): `timer_insert` measures the delay
  from `now_us`, which only `timer_run` advances and which the comment at
  `timer.c:165` warns "might be far in the past". No Horus core calls
  `timer_run`; 268 s after the start a timer armed by ARP gets the index of a
  wheel that does not exist.

A similar one has no run of its own: `init_worker` sets `worker_state` to 0 at
`dp/core/worker.c:300`, after the barrier, and may erase an idle selection the
dispatcher has just booked; the worker then answers without reporting idle. (It
takes a worker that is slower from the barrier to line 300 than a packet's first
trip through networker and dispatcher.) `IdleReportDue`, which holds there too,
is the direction that survives: a *booked* report is always still due.

### Bounds, and why they are enough

* *Workers.* The cores interact with the dispatcher one at a time and not with
  each other; two show every interference between a slot and another worker's
  turn, and one suffices where only one slot matters.
* *Tasks* (`MaxTasks`, the only bound on the environment). Three tasks fill one
  worker's service, queue and mailbox place at once; four overrun the receive
  queue and the context pool at the same time. The environment stops after
  them, but the cores keep polling, so no run needs deadlock checking off except
  those of `boot`, `assembly` and the timers, whose models end.
* *Batch* of 2 lets a mailbox be partly new, partly dropped and partly returned.
* *Contexts.* One context makes `context_alloc` fail for the next task; with two
  for three tasks, in `core`, a task may be dropped while the others are served,
  so that the abstract queues lose an element in the middle. (The server has 32K.)
* *Pools.* A spare chunk is given back only when a second list fills up; because
  `num_free` lags behind the list by one for each chunk taken, this needs five
  chunks of two.
* *Messages.* Three incomplete ones make a first, a middle and a last cell.
* *Types.* Two, with different objectives and different queue settings: of two
  that wait equally long either may be the one to serve. Four turns of the clock
  (`MaxTime`) let a task be preempted twice and a late interrupt find the next
  task; only turns with something queued or running are counted, as no stored
  time is older.
* *Timers.* Two meet in one bucket, in a bucket that is being run, and in a
  bucket that is being collapsed. Three wheels have one that is neither first nor
  last. `Starts` is just below a multiple of a turn of the second wheel (32 us),
  so both collapses happen before `MaxTime`, at which a timer of the third wheel
  has fired; `Delays` has one for each wheel; `Lag`, the time the cursor may be
  behind the clock, is 2, so that time passes between and within runs. Delays must
  fit the wheels (`Fits`, also the hypothesis of the proofs). Left out are those
  near `MAX_DELAY_US`, which pass the range check of `__timer_add`
  (`dp/core/timer.c:156`) but get the index of a wheel that does not exist once
  `MIN_DELAY_US` and the time since `now_us` are added; and those with which a
  handler's timer lands in the very bucket under the cursor, a turn of the first
  wheel ahead (3..5 us here, a little below 4080 us with the real sizes):
  `h->head = NULL` at `dp/core/timer.c:230` then drops it while it still counts as
  pending. With either kind `Filed` is violated. The code's own timers have
  neither (ARP: 1 s and 10 s, of 268 s).
* *CPUs.* Eight is the order of a real server's; `Startup_proofs` covers the rest.
* SYMMETRY permutes contexts, cells, timers, and messages of one length; no
  property of those runs is a liveness property.

### Fairness

`HorusServer!Fairness` is weak fairness of each core's next step: each is a
pinned thread in a `while (1)` that spins and never sleeps. Two things are
assumed with it: the application code of a request returns, and the environment
need not do anything. `Startup!Fairness` is the same for the threads created.

## Proofs

| theorem | module | says |
|---|---|---|
| SlotHandOffCorrect, MailboxHandOffCorrect | HorusServer_proofs | no slot and no mailbox has two owners |
| Inductive | HorusServer_proofs | the inductive invariant the `preempt` run checks, for every size |
| TypeCorrect | HorusServer_proofs | no index, core or context out of range, no NULL request run |
| QueueLengthCorrect | HorusServer_proofs | `queue_length` is exactly what is queued, in service or being enqueued |
| IdleReportCorrect | HorusServer_proofs | a booked idle report always has a task that can make it |
| SlotStableCorrect | HorusServer_proofs | nobody changes a slot in use |
| ContextOwnedCorrect | HorusServer_proofs | every context is free or held by one task, through any number of preemptions |
| ServesItsSlotCorrect | HorusServer_proofs | a worker runs the context, and with it the request, that its slot names |
| RequestOwnedCorrect | HorusServer_proofs | every allocated request is in its cell of `rq` while incomplete, then in exactly one queue, slot or mailbox place, and a freed one in none |
| LiveBoundedCorrect | HorusServer_proofs | but for the incomplete ones, never more requests are allocated than there are contexts and places in a batch; `request_mempool` may still run dry, of incomplete ones |
| ExactlyOneFateCorrect | Fates_proofs | a task is under way, answered once, or lost once, never two of these and never none |
| AnsweredBeforeReturnedCorrect | Fates_proofs | a request goes back to be freed only after its task was answered or dropped |
| IdleAccountedCorrect | Fates_proofs | the dispatcher never forgets to report a worker idle, unless a task of it was lost (workers started before the first packet) |
| ImplementsWorkerQueuesCorrect | Fates_proofs | the server implements `WorkerQueues`: each worker answers its tasks in order of arrival (a preempted task goes back to the head) |
| CountCorrect, DeviceCorrect, LoopsCorrect | Startup_proofs | the start-up order, for any number of CPUs |
| ConservedCorrect, FreeAssertCorrect, NumFreeBackedCorrect, PoolTypeCorrect | Mempool_proofs | elements are conserved; what is put aside is never short |
| PoolsImplementAllocator | Mempool_proofs | the two-level pools implement `Allocator` |
| TypeCorrect, ServesItsSlotCorrect | Shinjuku_proofs | the plain server: no slot, queue or mailbox place out of range; a task that moves between cores keeps its context, request and type |
| AccountedCorrect | Shinjuku_proofs | every request and context has one holder, and `queue_length` is what is queued and in service, for each type |
| ExactlyOneFateCorrect | Shinjuku_proofs | a task of the plain server is under way, answered once, or lost once |
| ServedByObjectiveCorrect | Shinjuku_proofs | the queue served is the one that waited longest for its objective, for all objectives |
| ImplementsTypedQueuesCorrect | Shinjuku_proofs | the plain server implements `TypedQueues`: the tasks of a type begin in order of arrival, wherever preempted ones are put |
| TypeCorrect, ListCorrect | Reassembly_proofs | the list of incomplete requests is whole, whichever cell leaves it; each cell waits for a packet |
| RemainingCorrect | Reassembly_proofs | `pkts_remaining` is exact and a message has one cell |
| DeliveredCorrect | Reassembly_proofs | a message goes to the worker the leaf chose (IDs change between messages) |
| ReassemblyImplementsAssembly | Reassembly_proofs | `rq_update` implements `Assembly`: a message is returned once, at its last packet, whole |
| FiledCorrect | TimerWheel_proofs | no pending timer is missed by the cursor or dropped, for all sizes of the wheels and all delays that fit |
| PunctualCorrect | TimerWheel_proofs | no timer is left after a run that was to fire two buckets before it |
| ImplementsTimersCorrect | TimerWheel_proofs | the wheels implement `Timers`: a timer left alone fires less than a turn of the first wheel early and at most two buckets and the lag late |

They assume only what the modules state as ASSUME: at least one worker, one
place in a batch and in the receive queue (`SizeAssumption`), Boolean options
(`FlagAssumption`), three CPUs or more (`NumCpusAssumption`), a positive chunk
size (`PoolAssumption`), a finite `context_pool` (`ContextAssumption`, which only
the counting of `LiveBounded` uses), and in Shinjuku positive numbers and
objectives (`ShinjukuSizes`) and a NULL that is no task (`ShinjukuNull`); in
Reassembly messages of one to eight packets, the size of `request.mbufs`, which
`rq_update` does not check, a finite pool of cells (`ReassemblyAssumption`) and a
NULL that is none of the values it stands in for (`ReassemblyNull`). Preemption
on or off, a clean start or not, failing sends or not, lost packets or not are
all covered. The wheels have two or more buckets of a positive time each, and
delays are below `MAX_DELAY_US`, as `__timer_add` demands (`WheelSizes`).

Some theorems have a hypothesis besides. `DeliveredCorrect` has `Quiet`: IDs
change only while no message is under way; the run `assembly_stale` shows what
happens otherwise. `IdleAccountedCorrect` has `Booted`, that the workers have
passed `init_worker` when the first packet arrives. Without it the statement is
false, as the reset of `worker_state` at `dp/core/worker.c:300` may erase a booked
report (see above). `ImplementsWorkerQueuesCorrect` has
`Preemption => RequeueHead`: a task put back at the tail of its queue is overtaken
by those behind it, as it is meant to be. The tree itself never preempts. The
theorems about the timers have `Polled`, since a core that never calls `timer_run`
files timers in a wheel that does not exist (run `timers_unpolled`), and `Fits`, as
explained under *Bounds*.

**Hand-offs.** `SlotHandOff` is not inductive: before `init_worker` a slot's
response flag is RUNNING although nobody dispatched to it, and nothing in
`SlotHandOff` says whom ACTIVE belongs to. `SlotOwner` adds, for each worker,
who owns the slot by program counter and flags alone. With `MailboxHandOff` and
the ranges of the flags it forms `HandOffInv`, which needs nothing about
contents; its proof has one case per action.

**Contents.** On top of it `IInv` adds what is behind the flags:
`NetworkerInv` (only packets that were sent are handled, at most a batch),
`MailboxInv` (the places `cnt`, `nj` and `ni` cover hold requests),
`SlotContent` and `QueueContent` (what a worker may run names that worker and,
if it is to be resumed, a context that was started). `TypeOK` needs them
because NULL and stale slots are legal values elsewhere. `QueueLengthExact` then
follows by following one task from `AcceptRequest` to `HandleFinished`: it needs
the hand-off (the response taken belongs to the task in service) and the
contents (its `type` is this worker). `IdleReportDue` rests on `QueueLengthExact`:
the book is cleared when the count drops to 0.

**Contexts.** `ContextOwned` counts the places that hold a context. The proofs
use `ContextSomewhere` instead: each context has *a* place (the pool, an entry
of a task queue, a slot in service, the dispatcher's hand) and no other. It is
inductive with `IInv` and `SlotKept` (between taking the slot and `finish_request`
the worker's `cont` is the slot's): a step that moves a context out of a place
knows it is there and nowhere else, so what it arrives at did not hold it. Only
then is `SlotAddressed` inductive - a context in a slot, once started, serves the
request in that slot - since another worker that starts a context starts another
one. `QueueAddressed` and `MailAddressed` are the same for the entries a slot is
filled from. At the end the counts follow from there being one place
(`ContextPlacesAt`).

**Requests.** `RequestOwned` ranges over five kinds of place: mailbox (new),
mailbox (returned), `frqueue`, task queues, slots. Each action is described by
what it does to each kind; lemmas say what appending, prepending and dequeuing
do to the places of a sequence (`QueueShifts`, `FreeShifts`), and
`RequestSomewhere` follows for the request that moves, for those that shift, and
for the rest. A sixth kind, the cell of an incomplete request, is kept apart from
these by `CellInv`: a request in a cell is named by a packet that completed none,
one that was returned by the packet that completed it. `ArrivesOnce` (a packet is once in the receive queue or batch, and
not yet a live request) is what makes `rq_update`'s new request new. The step
that needs the hand-off most is the return of finished requests: it overwrites
mailbox places, and is safe as the dispatcher holds the mailbox and all of its
new requests are accepted or dropped.

**Live requests.** `LiveBounded` counts requests; the proof counts the holders of
the complete ones (`CompleteBounded`). The incomplete ones are on both sides of
the bound: a message that lost a packet keeps its request and its cell for ever,
so nothing in the code limits them but the size of the pools. A
request that `rq_update` returned is in one of the kinds of place above, and each kind
maps one to one into something of known size: a queue entry or a slot to its
context, a mailbox place to its index. What is left is `frqueue`, which grows by
every finished task and every dropped request. `FreeBacked` bounds it: its
length is at most the number of free contexts plus the requests of the batch the
dispatcher has gone through (`FreeSlack`): a finished task frees its context in
the same step, a dropped one or an accepted one, which takes a context, adds to
the slack, and `ReturnFinished` takes out as many as the slack or all.

**Fates.** `FatesInv` is `RequestsInv` with two more parts. `FreshWork`: a worker that has not
replied has not set `finished`, so that a preempted task goes back unanswered.
`FateInv`: a sent task either is *open* (a packet, a mailbox place, a queue entry
or an unanswered slot leads to it) and has no fate, or is not open and has one
fate. The step that settles a task must show that nothing else leads to it,
which is `RequestsInv` again: its request was in that place alone. At the end
the sums of `ExactlyOneFate` follow from there being one place or none.
`AnsweredBeforeReturned` follows from the same: a request on its way back is in
no place that could still answer.

**Idle reports.** `IdleAccounted` says that a worker is in the leaf's list, or
booked, or in flight, or lost. It is not inductive: the reply that clears the
book must be known to *carry* the report. `BackOrDue` says it as two cases: the
leaf has the worker or will hear of it (`Back`), or the book is set and the last
task of the worker is unanswered (`StillDue`). A reply that leaves `StillDue` is
the one that finds `queue_length` 1; `LastReply` says that what it read is not
stale when it matters - another task may have been accepted in between, but then
`queue_length` is not 1. `OthersBusy` (only tasks are idle-selected) and
`AllStarted` close it.

**Shinjuku.** With a hand-off in one step, one inductive invariant carries all
properties but the last. Its core is `TaskInv`: each task is *lodged* at one place
(receive queue, batch, mailbox, task queue, core, `frqueue`, or nowhere), it is
at no other (`Alone`), and the place decides whether it is a live request and
whether it still owes its fate; one fact thus does what HorusServer_proofs and
Fates_proofs do in two. Each action is described by where it moves a task
(`SendTasks`, ..., `DispatchTasks`) and by what it does to the entries queued or
in service (`PreemptedEntries`, `DispatchedEntries`, `AcceptedEntries`), whether
the task goes back to the head or the tail. `SlotInv` says whom a slot belongs to
by its flags, and that the response a worker reports is that slot's; `ContextInv`
and `EntryInv` that a context is free or of one task and is resumed for it;
`LengthInv` that `queue_length` counts queue and cores. `Accounted` and
`ExactlyOneFate` count places, of which there is one (`Counted`).
`Completed` picks the requests of a batch in order (`InOrder`), not by
`SelectSeq`, so that `CompletedBatch` can be proved without induction.

**Waiting times.** `ServedByObjective` looks back to the moment of dispatch.
`TimesInv` keeps what is needed from it: tasks that have not begun are in order of
arrival behind all that is queued (`OrderInv`), nothing queued is newer than the
clock (`ClockInv`), and what a core was given is older than all of its type that
have not begun (`SlotTimes`). The last is what makes requeueing at the head keep
`OrderInv`. At a dispatch the head of each queue has waited as long as any task in
it that has not begun, so that the comparison of heads in `smart_tskq_dequeue`
speaks for them (`Scaled`); what is accepted later arrives at the dispatch or after.

**Startup.** `IInv` there says that CPU 0 waits for each thread before it
creates the next, so at most one thread is between the load and the store of
`started_cpus`; counts and order follow.

**Mempool.** `TypeOK /\ Conserved` is inductive; that the initial chunks are
disjoint and cover the elements is arithmetic (`ChunksApart`, `ChunksCover`).

**Reassembly.** The inductive invariant describes the list not by walking it but
by a sequence (`IsList`): its `n`-th element is the cell reached by `n` steps,
neighbours point to each other, and its range is the cells in use. Linking a cell
in front (`ListLonger`) or taking one out (`ListShorter`) then re-indexes the
sequence. That the walk `at` of the model, a recursive function, visits this
sequence (`Walk`) is shown without the induction theorems of the library: the
less-than relation on numbers is well founded, so a set of numbers has a least
one (`Least`), and the first step at which the walk could leave the sequence
cannot exist. On top of it `CountInv` says that `pkts_remaining` is what `mbufs`
lacks and that a message has one cell, `PacketInv` that a packet is at one place
(to be sent, under way, arrived), so that adding one raises the count by one,
`ReturnInv` that of a returned message nothing is left, and, under `Quiet`,
`AddressInv` that leaf and server count from the same ID while packets of a
message are to come. For the refinement, `ArrivedStep` says that a call of
`rq_update` adds its packet to those arrived of its message and of no other;
`WholeReturned` and `NotWholeYet` that it returns the message if and only if that
makes it whole.

**Queues of a worker, queues of a type.** The abstract queue of a worker is a
chain of parts: the slot, the worker's task queue, the mailbox, the batch, the
receive queue. Of each part it has what is the worker's, open and of the kind task
(`Among`). A step then does one of three things to one worker's chain and nothing
to the others: it moves the last that leaves one part to the first place of the
next (dispatch, accept, build a request, receive), so the chain stays the same; it
takes one out (a reply, a drop at any of the three places), which is an abstract
`Answer` of the head or a `Drop` from anywhere; or it adds one behind all (an
arrival). Each action has its lemma (`SentQueues`, `ReceivedQueues`, ...). That the task answered is the
*head* is where the hand-off is needed: what is in the slot is before everything
that is queued.

The lemmas on sequences are in Selection_proofs. `Among` is not `SelectSeq`, whose
recursion is over a sequence that every step builds anew, but reads off the
positions that qualify in increasing order. That they can be listed (`ListExists`)
rests on least numbers again, and that the list decides `Among` (`AmongListed`,
`ListRank`) on counting. From that follow the laws the steps need: what `Among`
does to a concatenation, to a place that is overwritten, and to a set that loses
one member (`ChainWithout`).

In Shinjuku a type's queue holds what has *not begun*. Begun are the tasks
whose entry is to be resumed and those that were given to a core; a preempted task
may come back to either end of the queue and is in the abstract queue at neither.
`RequestsLive` (a packet that completes no request is never one) keeps the
fragments out. Acceptance of a whole batch is one step there; `CompletedAmong`
says that the requests of a batch are the `Among` of its packets.

**Timer wheels.** The inductive invariant is `Filed` with types, the order of the
clock, `now_us` and the cursor (`ClockInv`), and the fact that what is left of a
list is in the list at the cursor (`RunInv`). `Filed` measures each timer by its
*gap*, the number of buckets of its wheel between the cursor and its time. The gap
is at least 1, or 0 if `timer_run` has still to go through that list at this very
position. Four facts make it inductive. A timer just filed has such a gap, also
when the cursor is a bucket past `now_us` (`Inserted`, from `AheadRunning` and
`AheadIdle`). The next position of the cursor is in the next bucket of a wheel if
and only if all wheels below are at their start (`Carry`), which is when
`timer_collapse` goes up to that wheel. A list that `timer_run` leaves has no timer
with gap 0, as gaps divisible by `Size` are what the list at the cursor has
(`GapOffset`, in `Entered`). And a handler files nothing in the list that is emptied
behind it (`NoneEmptied`), where `Fits` is needed. `Behind` turns gaps into time: a
cursor at the start of a bucket is less than `MinDelay` past it (`StartClose`).

The arithmetic rests on `Unit` alone, a recursive function: that its equation has a
solution (`UnitDefined`), that units grow, and that `Index` exists are shown by
least numbers again. Remainders by the constant `Size` are reasoned about as pairs
of quotient and remainder (`Splits`), which the SMT backend can.

Only model-checked: all liveness (`EveryTaskSettled`, `MailboxReturns`,
`AllStart`), which the prover cannot do under fairness.

## What the models leave out

* Keep-alive packets and worker-ID acknowledgements the networker sends; they
  use its own transmit queue and nothing shared. In Reassembly the leaf uses the
  new IDs from the moment they are set.
* `parse_packet` rejecting a truncated packet: `handle_new_packet` then sets
  `finished` and `finish_request` publishes the *previous* task's `cont`
  (`dp/core/worker.c:336`, a hazard). The clients of the repository send no such
  packet; with one, `ContextOwned` fails and the contexts after that are
  undefined, so there is nothing further to check.
* A `dst_id` that matches no worker, outside Reassembly.
* Timestamps and the preemption quantum in HorusServer: `preempt_worker` may fire
  whenever its guard allows. Shinjuku has both.
* In Shinjuku: failing sends, the workers' start and the incomplete requests of
  `rq_update`, which are the same code as in the modules that have them; the
  rounding of `double current`.
* Mbufs: a request's packets are freed with it. The mbuf of a worker-ID packet,
  which nobody frees, is a hazard without a property.
* Ring descriptors: `eth_process_send` sends all that is queued (it panics
  otherwise), and the NIC's ring is part of `rxq`.
* Duplicated packets.
* `request.type` of a message of several packets is that of the first to arrive;
  Reassembly does not carry it.
* Failed allocations outside `context_pool`. The pools of finished requests' cells
  and of tasks hold 768K elements against 32K contexts, and `LiveBounded` and
  `ContextOwned` bound what is taken from them by the contexts and a batch. For
  `request_mempool` and `rq_mempool`, 768K each, the bound leaves out incomplete
  requests: they do run dry once that many messages have lost a packet, and
  `rq_update` then writes through NULL. That is a hazard without a property: the
  code contains no expiry to check.
* Several receive queues: `eth_process_recv` tests the batch limit only after a
  round over all of them (`inc/ix/ethqueue.h:139`), so `count` may pass
  `ETH_RX_MAX_BATCH` and the arrays behind it. A server with one device has one.
* In TimerWheel: `timer_add_abs` (lwIP's TCP only), `timer_add_for_next_tick` and
  the migration of timers between flow groups, `timer_deadline` (the idle loop of
  the IX system calls only). No Horus core reaches any of these.

### Not modelled

* **ARP, IP, UDP.** A send that succeeds or fails (`SendFaults`). For an address
  without a static entry the ARP table creates one and asks, but `eth_input`
  frees the answer (`dp/net/ip.c:131`) and nobody polls the timers: the entry
  stays unresolved and each send to that address fails, which is `SendFaults`
  again. ICMP, TCP and lwIP are not used by the server.
* **Flow groups** (`dp/core/ethfg.c`) and their migration: unused by the main
  loops, whose calls pass no flow group; the code marks the timers' part as not
  tested.
* **The client's shared list** (`src/client_code/client/ll.c`): the calls that
  insert into it are commented out and the thread that walks it is never started,
  so the only state it reaches is the empty list. The load generator around it is
  open-loop sending and statistics.
* **Pool creation, pages, virtual memory, PCI, DPDK and the drivers**: set-up in
  a straight line before any core runs, or hardware.
* **IX system calls, control plane, libix, sandbox**: inherited; the networker,
  dispatcher and workers call none of it. Dune is fetched at build time and not
  in the tree; its posted interrupts are the `ipi` of the models.
* **Application work** (RocksDB, search), configuration, logging, statistics,
  scripts: a step that returns, constants, or output.

Most of the repository's lines are in these parts: lwIP's TCP (twice), drivers,
the rest of IX (twice), tables of options.

## Plan

The plan was to model the server's own protocol first, then the algorithms it
calls, then to prove what had been checked.

1. Done: HorusState, the three cores, Leaf, HorusServer, WorkerQueues, Startup,
   Mempool, Reassembly.
2. Done: the plain Shinjuku server (preemption on a clock, the choice by
   objective) and the timer wheels, each with its abstract specification. ARP
   turned out to add nothing to a send that fails, and flow groups and the
   client's list to be out of reach at this commit (above).
3. Done: type correctness, hand-offs, queue lengths, idle reports and slot
   stability, then the ownership of contexts and of requests, for every size;
   Startup; Mempool and its refinement.
   Then the bound on live requests, the fates of tasks, answers before returns,
   and the books of idle workers. Then the plain server: types, ownership, lengths,
   fates and the choice by objective. Then Reassembly, its list and its refinement.
   Last the refinements of `WorkerQueues` and `TypedQueues`, and the timer wheels.
4. Left: Reassembly could take the place of the outcome in Networker, should a
   smaller instance of both fit TLC.

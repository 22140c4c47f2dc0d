------------------------------- MODULE Startup -------------------------------
(***************************************************************************)
(* How the server comes up: main() and start_cpu() of dp/core/init.c.  CPU 0 *)
(* runs the init table, creates the other threads one at a time, meets them  *)
(* at start_barrier, opens the database and becomes the dispatcher.  CPU 1   *)
(* is the networker: it starts the Ethernet device once every CPU has set up *)
(* its transmit queue.  The other CPUs are the workers.                      *)
(***************************************************************************)
EXTENDS Integers, FiniteSets

CONSTANT NumCpus   \* CFG.num_cpus

ASSUME NumCpusAssumption == NumCpus \in Nat /\ NumCpus >= 3

Cpus    == 0..(NumCpus - 1)
Threads == 1..(NumCpus - 1)

VARIABLES
  pc,            \* where each CPU is
  created,       \* the last thread init_hw created, its loop index
  started_cpus,
  read,          \* what each CPU read of started_cpus for its `++`
  txReady,       \* the CPUs whose init_tx_queues ran
  device,        \* eth_dev_start ran and networker_pointers.cnt was reset
  arrived        \* the CPUs inside or past start_barrier

vars == <<pc, created, started_cpus, read, txReady, device, arrived>>

Goto(c, from, to) == pc[c] = from /\ pc' = [pc EXCEPT ![c] = to]

Init ==
  /\ pc = [c \in Cpus |-> IF c = 0 THEN "percpu" ELSE "none"]
  /\ created = 0
  /\ started_cpus = 0
  /\ read = [c \in Threads |-> 0]
  /\ txReady = {}
  /\ device = FALSE
  /\ arrived = {}

-----------------------------------------------------------------------------
(* CPU 0.                                                                   *)

\* init_create_cpu: the fcpu entries of init_tbl, init_tx_queues among them.
InitCreateCpu(c) ==
  /\ Goto(c, "percpu", IF c = 0 THEN "spawn" ELSE "load")
  /\ txReady' = txReady \cup {c}
  /\ UNCHANGED <<created, started_cpus, read, device, arrived>>

\* pthread_create, for the next CPU of init_hw's loop.
CreateThread ==
  /\ pc[0] = "spawn"
  /\ created + 1 < NumCpus
  /\ created' = created + 1
  /\ pc' = [pc EXCEPT ![0] = "await", ![created + 1] = "percpu"]
  /\ UNCHANGED <<started_cpus, read, txReady, device, arrived>>

\* Fault: init_hw does not wait for each thread before it creates the next.
AwaitThreadNot ==
  /\ Goto(0, "await", "spawn")
  /\ UNCHANGED <<created, started_cpus, read, txReady, device, arrived>>

\* `while (started_cpus != i) usleep(100)`
AwaitThread ==
  /\ started_cpus = created
  /\ Goto(0, "await", "spawn")
  /\ UNCHANGED <<created, started_cpus, read, txReady, device, arrived>>

\* The loop over the CPUs is done; CPU 0 enters the barrier.
AllCreated ==
  /\ created + 1 = NumCpus
  /\ Goto(0, "spawn", "barrier")
  /\ arrived' = arrived \cup {0}
  /\ UNCHANGED <<created, started_cpus, read, txReady, device>>

\* rocksdb_open, after init_hw and before do_dispatching.
OpenDatabase ==
  /\ Goto(0, "open", "run")
  /\ UNCHANGED <<created, started_cpus, read, txReady, device, arrived>>

-----------------------------------------------------------------------------
(* The other CPUs.                                                          *)

\* `started_cpus++` on a volatile int is a load ...
LoadStarted(c) ==
  /\ Goto(c, "load", "store")
  /\ read' = [read EXCEPT ![c] = started_cpus]
  /\ UNCHANGED <<created, started_cpus, txReady, device, arrived>>

\* ... and a store; the networker then spins, a worker enters the barrier.
StoreStarted(c) ==
  /\ Goto(c, "store", IF c = 1 THEN "spin" ELSE "barrier")
  /\ started_cpus' = read[c] + 1
  /\ arrived' = IF c = 1 THEN arrived ELSE arrived \cup {c}
  /\ UNCHANGED <<created, read, txReady, device>>

\* Fault: the networker does not wait for the other CPUs.
StartDeviceEarly ==
  /\ Goto(1, "spin", "barrier")
  /\ device' = TRUE
  /\ arrived' = arrived \cup {1}
  /\ UNCHANGED <<created, started_cpus, read, txReady>>

\* Fault: the networker waits for CPU 0 to count itself, which it does not.
StartDeviceNever ==
  /\ started_cpus = NumCpus
  /\ Goto(1, "spin", "barrier")
  /\ device' = TRUE
  /\ arrived' = arrived \cup {1}
  /\ UNCHANGED <<created, started_cpus, read, txReady>>

\* The networker's `while (started_cpus != CFG.num_cpus - 1)`, then
\* init_network_cpu, then the barrier.
StartDevice ==
  /\ started_cpus = NumCpus - 1
  /\ Goto(1, "spin", "barrier")
  /\ device' = TRUE
  /\ arrived' = arrived \cup {1}
  /\ UNCHANGED <<created, started_cpus, read, txReady>>

\* Fault: the barrier was initialised for the workers and CPU 0 only.
PassBarrierEarly(c) ==
  /\ Cardinality(arrived) >= NumCpus - 1
  /\ Goto(c, "barrier", IF c = 0 THEN "open" ELSE "run")
  /\ UNCHANGED <<created, started_cpus, read, txReady, device, arrived>>

\* pthread_barrier_wait, initialised for CFG.num_cpus threads.
PassBarrier(c) ==
  /\ Cardinality(arrived) >= NumCpus
  /\ Goto(c, "barrier", IF c = 0 THEN "open" ELSE "run")
  /\ UNCHANGED <<created, started_cpus, read, txReady, device, arrived>>

ThreadNext(c) == InitCreateCpu(c) \/ LoadStarted(c) \/ StoreStarted(c) \/ PassBarrier(c)

FirstCpuNext ==
  \/ InitCreateCpu(0) \/ CreateThread \/ AwaitThread \/ AllCreated \/ PassBarrier(0)
  \/ OpenDatabase

Next ==
  \/ FirstCpuNext
  \/ \E c \in Threads : ThreadNext(c)
  \/ StartDevice

Spec == Init /\ [][Next]_vars

\* Every thread created is scheduled.
Fairness ==
  /\ WF_vars(FirstCpuNext)
  /\ WF_vars(StartDevice)
  /\ \A c \in Threads : WF_vars(ThreadNext(c))

FairSpec == Spec /\ Fairness

-----------------------------------------------------------------------------
\* Loop indexes and counts stay in range; a CPU is in one place.
TypeOK ==
  /\ pc \in [Cpus -> {"none", "percpu", "spawn", "await", "load", "store", "spin",
                      "barrier", "open", "run"}]
  /\ created \in 0..(NumCpus - 1)
  /\ started_cpus \in 0..(NumCpus - 1)
  /\ read \in [Threads -> 0..(NumCpus - 1)]
  /\ txReady \subseteq Cpus
  /\ device \in BOOLEAN
  /\ arrived \subseteq Cpus

\* The threads that have counted themselves.
Counted == {c \in Threads : pc[c] \in {"spin", "barrier", "run"}}

\* The unlocked `started_cpus++` of different threads never overlap, so no
\* count is lost: one lost count would leave two equality spins waiting for
\* ever, init.c:380 and init.c:338.
CountExact == started_cpus = Cardinality(Counted)

\* init.c:336: the device is started only when every CPU's transmit queue is
\* set up.
DeviceAfterQueues == device => txReady = Cpus

\* The main loops run only on a started device, with every CPU initialised:
\* do_networking polls a queue that exists, and the cnt = 0 of
\* init_network_cpu cannot erase a mailbox that is in use.
LoopsAfterDevice ==
  \A c \in Cpus : pc[c] \in {"open", "run"} => device /\ txReady = Cpus

\* Every CPU reaches its main loop.
AllStart == <>(\A c \in Cpus : pc[c] = "run")

-----------------------------------------------------------------------------
(* The inductive invariant behind TypeOK, CountExact, DeviceAfterQueues and  *)
(* LoopsAfterDevice (see Startup_proofs).                                   *)

\* Which places each CPU can be in.
Places ==
  /\ pc[0] \in {"percpu", "spawn", "await", "barrier", "open", "run"}
  /\ \A c \in Threads :
       pc[c] \in {"none", "percpu", "load", "store", "barrier", "run"}
                \cup (IF c = 1 THEN {"spin"} ELSE {})

\* Threads are created in order, and the one created last is the only one
\* that may still be short of its count, while init_hw awaits it.
OneAtATime ==
  /\ \A c \in Threads : pc[c] = "none" <=> c > created
  /\ \A c \in Threads : pc[c] \in {"percpu", "load", "store"} =>
       c = created /\ pc[0] = "await"
  /\ pc[0] = "percpu" => created = 0
  /\ pc[0] = "await" => created > 0
  /\ pc[0] \in {"barrier", "open", "run"} => created = NumCpus - 1

\* The count is the last thread that counted itself.
CountIsLast ==
  /\ \A c \in Threads : c \in Counted <=> c <= started_cpus
  /\ \A c \in Threads : pc[c] = "store" => read[c] = started_cpus

\* What each CPU has done by the time it is where it is.
DoneBefore ==
  /\ \A c \in Cpus : pc[c] \notin {"none", "percpu"} => c \in txReady
  /\ \A c \in Cpus : c \in arrived <=> pc[c] \in {"barrier", "open", "run"}
  /\ pc[1] \in {"barrier", "run"} => device
  /\ device => started_cpus = NumCpus - 1
  /\ \A c \in Cpus : pc[c] \in {"open", "run"} => arrived = Cpus

IInv == TypeOK /\ Places /\ OneAtATime /\ CountIsLast /\ DoneBefore
=============================================================================

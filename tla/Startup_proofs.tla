--------------------------- MODULE Startup_proofs ---------------------------
(***************************************************************************)
(* Startup for every number of CPUs: IInv is inductive, and the count, the  *)
(* order of device and queues, and the order of the main loops follow.      *)
(***************************************************************************)
EXTENDS Startup, FiniteSetTheorems, TLAPS

\* The barrier releases only when everybody is in it: a set of CPUs as large
\* as all of them is all of them.
LEMMA FullBarrier ==
  ASSUME arrived \subseteq Cpus, Cardinality(arrived) >= NumCpus
  PROVE  arrived = Cpus
<1>1. IsFiniteSet(Cpus) /\ Cardinality(Cpus) = NumCpus
  <2>1. /\ IsFiniteSet(0..(NumCpus - 1))
        /\ Cardinality(0..(NumCpus - 1)) = IF 0 > NumCpus - 1 THEN 0 ELSE (NumCpus - 1) - 0 + 1
    BY FS_Interval, NumCpusAssumption
  <2>2. QED
    BY <2>1, NumCpusAssumption DEF Cpus
<1>2. Cardinality(arrived) \in Nat /\ (Cardinality(arrived) = Cardinality(Cpus) => arrived = Cpus)
      /\ Cardinality(arrived) <= Cardinality(Cpus)
  BY <1>1, FS_Subset, FS_CardinalityType
<1>3. QED
  BY <1>1, <1>2, NumCpusAssumption

\* The first state: CPU 0 has not yet created anybody.
LEMMA InitIInv == Init => IInv
<1> SUFFICES ASSUME Init PROVE IInv
  OBVIOUS
<1>1. pc[0] = "percpu" /\ \A c \in Threads : pc[c] = "none"
  BY NumCpusAssumption DEF Init, Cpus, Threads
<1>2. TypeOK
  <2>1. /\ pc \in [Cpus -> {"none", "percpu", "spawn", "await", "load", "store", "spin",
                            "barrier", "open", "run"}]
        /\ txReady \subseteq Cpus /\ arrived \subseteq Cpus
    BY DEF Init
  <2>2. 0 \in 0..(NumCpus - 1)
    BY NumCpusAssumption
  <2>3. QED
    BY <2>1, <2>2 DEF Init, TypeOK
<1>3. Places /\ OneAtATime
  BY <1>1, NumCpusAssumption DEF Init, Places, OneAtATime, Threads
<1>4. CountIsLast
  BY <1>1 DEF Init, CountIsLast, Counted, Threads
<1>5. DoneBefore
  <2>1. \A c \in Cpus : pc[c] \in {"none", "percpu"}
    BY DEF Init
  <2>2. 1 \in Cpus
    BY NumCpusAssumption DEF Cpus
  <2>3. QED
    BY <2>1, <2>2 DEF Init, DoneBefore
<1>6. QED
  BY <1>2, <1>3, <1>4, <1>5 DEF IInv

\* No step of CPU 0 or of a thread breaks the invariant.
LEMMA NextIInv == IInv /\ [Next]_vars => IInv'
<1>0. SUFFICES ASSUME IInv, [Next]_vars PROVE IInv'
  OBVIOUS
<1>a. TypeOK /\ Places /\ OneAtATime /\ CountIsLast /\ DoneBefore
  BY <1>0 DEF IInv
<1>1. ASSUME NEW c \in Cpus, InitCreateCpu(c) PROVE IInv'
  <2> USE NumCpusAssumption DEF InitCreateCpu, Goto, Cpus, Threads
  <2>1. TypeOK'
    BY <1>a, <1>1 DEF TypeOK
  <2>2. Places'
    BY <1>a, <1>1 DEF TypeOK, Places
  <2>3. OneAtATime'
    BY <1>a, <1>1 DEF TypeOK, OneAtATime, Places, CountIsLast, Counted
  <2>4. CountIsLast'
    BY <1>a, <1>1 DEF TypeOK, CountIsLast, OneAtATime, Places, Counted
  <2>5. DoneBefore'
    BY <1>a, <1>1 DEF TypeOK, DoneBefore, OneAtATime, Places, CountIsLast, Counted
  <2>6. QED
    BY <2>1, <2>2, <2>3, <2>4, <2>5 DEF IInv
<1>2. CASE CreateThread
  <2> USE NumCpusAssumption DEF CreateThread, Goto, Cpus, Threads
  <2>1. TypeOK'
    BY <1>a, <1>2 DEF TypeOK
  <2>2. Places'
    BY <1>a, <1>2 DEF TypeOK, Places
  <2>3. OneAtATime'
    BY <1>a, <1>2 DEF TypeOK, OneAtATime, Places, CountIsLast, Counted
  <2>4. CountIsLast'
    BY <1>a, <1>2 DEF TypeOK, CountIsLast, OneAtATime, Places, Counted
  <2>5. DoneBefore'
    BY <1>a, <1>2 DEF TypeOK, DoneBefore, OneAtATime, Places, CountIsLast, Counted
  <2>6. QED
    BY <2>1, <2>2, <2>3, <2>4, <2>5 DEF IInv
<1>3. CASE AwaitThread
  <2> USE NumCpusAssumption DEF AwaitThread, Goto, Cpus, Threads
  <2>1. TypeOK'
    BY <1>a, <1>3 DEF TypeOK
  <2>2. Places'
    BY <1>a, <1>3 DEF TypeOK, Places
  <2>3. OneAtATime'
    BY <1>a, <1>3 DEF TypeOK, OneAtATime, Places, CountIsLast, Counted
  <2>4. CountIsLast'
    BY <1>a, <1>3 DEF TypeOK, CountIsLast, OneAtATime, Places, Counted
  <2>5. DoneBefore'
    BY <1>a, <1>3 DEF TypeOK, DoneBefore, OneAtATime, Places, CountIsLast, Counted
  <2>6. QED
    BY <2>1, <2>2, <2>3, <2>4, <2>5 DEF IInv
<1>4. CASE AllCreated
  <2> USE NumCpusAssumption DEF AllCreated, Goto, Cpus, Threads
  <2>1. TypeOK'
    BY <1>a, <1>4 DEF TypeOK
  <2>2. Places'
    BY <1>a, <1>4 DEF TypeOK, Places
  <2>3. OneAtATime'
    BY <1>a, <1>4 DEF TypeOK, OneAtATime, Places, CountIsLast, Counted
  <2>4. CountIsLast'
    BY <1>a, <1>4 DEF TypeOK, CountIsLast, OneAtATime, Places, Counted
  <2>5. DoneBefore'
    BY <1>a, <1>4 DEF TypeOK, DoneBefore, OneAtATime, Places, CountIsLast, Counted
  <2>6. QED
    BY <2>1, <2>2, <2>3, <2>4, <2>5 DEF IInv
<1>5. CASE OpenDatabase
  <2> USE NumCpusAssumption DEF OpenDatabase, Goto, Cpus, Threads
  <2>1. TypeOK'
    BY <1>a, <1>5 DEF TypeOK
  <2>2. Places'
    BY <1>a, <1>5 DEF TypeOK, Places
  <2>3. OneAtATime'
    BY <1>a, <1>5 DEF TypeOK, OneAtATime, Places, CountIsLast, Counted
  <2>4. CountIsLast'
    BY <1>a, <1>5 DEF TypeOK, CountIsLast, OneAtATime, Places, Counted
  <2>5. DoneBefore'
    BY <1>a, <1>5 DEF TypeOK, DoneBefore, OneAtATime, Places, CountIsLast, Counted
  <2>6. QED
    BY <2>1, <2>2, <2>3, <2>4, <2>5 DEF IInv
<1>6. ASSUME NEW c \in Threads, LoadStarted(c) PROVE IInv'
  <2> USE NumCpusAssumption DEF LoadStarted, Goto, Cpus, Threads
  <2>1. TypeOK'
    BY <1>a, <1>6 DEF TypeOK
  <2>2. Places'
    BY <1>a, <1>6 DEF TypeOK, Places
  <2>3. OneAtATime'
    BY <1>a, <1>6 DEF TypeOK, OneAtATime, Places, CountIsLast, Counted
  <2>4. CountIsLast'
    BY <1>a, <1>6 DEF TypeOK, CountIsLast, OneAtATime, Places, Counted
  <2>5. DoneBefore'
    BY <1>a, <1>6 DEF TypeOK, DoneBefore, OneAtATime, Places, CountIsLast, Counted
  <2>6. QED
    BY <2>1, <2>2, <2>3, <2>4, <2>5 DEF IInv
<1>7. ASSUME NEW c \in Threads, StoreStarted(c) PROVE IInv'
  <2> USE NumCpusAssumption DEF StoreStarted, Goto, Cpus, Threads
  <2>1. TypeOK'
    BY <1>a, <1>7 DEF TypeOK, CountIsLast, Counted
  <2>2. Places'
    BY <1>a, <1>7 DEF TypeOK, Places
  <2>3. OneAtATime'
    BY <1>a, <1>7 DEF TypeOK, OneAtATime, Places, CountIsLast, Counted
  <2>4. CountIsLast'
    BY <1>a, <1>7 DEF TypeOK, CountIsLast, OneAtATime, Places, Counted
  <2>5. DoneBefore'
    BY <1>a, <1>7 DEF TypeOK, DoneBefore, OneAtATime, Places, CountIsLast, Counted
  <2>6. QED
    BY <2>1, <2>2, <2>3, <2>4, <2>5 DEF IInv
<1>8. CASE StartDevice
  <2> USE NumCpusAssumption DEF StartDevice, Goto, Cpus, Threads
  <2>1. TypeOK'
    BY <1>a, <1>8 DEF TypeOK
  <2>2. Places'
    BY <1>a, <1>8 DEF TypeOK, Places
  <2>3. OneAtATime'
    BY <1>a, <1>8 DEF TypeOK, OneAtATime, Places, CountIsLast, Counted
  <2>4. CountIsLast'
    BY <1>a, <1>8 DEF TypeOK, CountIsLast, OneAtATime, Places, Counted
  <2>5. DoneBefore'
    BY <1>a, <1>8 DEF TypeOK, DoneBefore, OneAtATime, Places, CountIsLast, Counted
  <2>6. QED
    BY <2>1, <2>2, <2>3, <2>4, <2>5 DEF IInv
<1>9. ASSUME NEW c \in Cpus, PassBarrier(c) PROVE IInv'
  <2> USE NumCpusAssumption DEF PassBarrier, Goto, Cpus, Threads
  <2>0. arrived = Cpus
    BY <1>a, <1>9, FullBarrier DEF TypeOK
  <2>1. TypeOK'
    BY <1>a, <1>9, <2>0 DEF TypeOK
  <2>2. Places'
    BY <1>a, <1>9, <2>0 DEF TypeOK, Places
  <2>3. OneAtATime'
    BY <1>a, <1>9, <2>0 DEF TypeOK, OneAtATime, Places, CountIsLast, Counted
  <2>4. CountIsLast'
    BY <1>a, <1>9, <2>0 DEF TypeOK, CountIsLast, OneAtATime, Places, Counted
  <2>5. DoneBefore'
    BY <1>a, <1>9, <2>0 DEF TypeOK, DoneBefore, OneAtATime, Places, CountIsLast, Counted
  <2>6. QED
    BY <2>1, <2>2, <2>3, <2>4, <2>5 DEF IInv
<1>10. CASE UNCHANGED vars
  BY <1>a, <1>10
     DEF vars, IInv, TypeOK, Places, OneAtATime, CountIsLast, DoneBefore, Counted
<1>11. QED
  BY <1>0, <1>1, <1>2, <1>3, <1>4, <1>5, <1>6, <1>7, <1>8, <1>9, <1>10, NumCpusAssumption
     DEF Next, FirstCpuNext, ThreadNext, Cpus, Threads

\* Hence it always holds.
LEMMA Inductive == Spec => []IInv
  BY InitIInv, NextIInv, PTL DEF Spec

\* init.c:334, 348: no increment of started_cpus is ever lost, for any number
\* of CPUs, although nothing locks it.
THEOREM CountCorrect == Spec => []CountExact
<1>1. IInv => CountExact
  <2> SUFFICES ASSUME IInv PROVE CountExact
    OBVIOUS
  <2>1. Counted = 1..started_cpus
    BY NumCpusAssumption DEF IInv, TypeOK, CountIsLast, Counted, Threads
  <2>2. Cardinality(1..started_cpus) = started_cpus
    BY FS_Interval, NumCpusAssumption DEF IInv, TypeOK
  <2>3. QED
    BY <2>1, <2>2 DEF CountExact
<1>2. QED
  BY <1>1, Inductive, PTL

\* init.c:336: the Ethernet device is started after every CPU's transmit queue.
THEOREM DeviceCorrect == Spec => []DeviceAfterQueues
<1>1. IInv => DeviceAfterQueues
  <2> SUFFICES ASSUME IInv, device PROVE txReady = Cpus
    BY DEF DeviceAfterQueues
  <2>1. \A c \in Threads : pc[c] \in {"spin", "barrier", "run"}
    <3>1. started_cpus = NumCpus - 1
      BY DEF IInv, DoneBefore
    <3>2. QED
      BY <3>1, NumCpusAssumption DEF IInv, CountIsLast, Counted, Threads
  <2>2. pc[0] # "percpu" /\ pc[0] # "none"
    <3>1. 1 \in Threads /\ pc[1] # "none"
      BY <2>1, NumCpusAssumption DEF Threads
    <3>2. ~(1 > created)
      BY <3>1 DEF IInv, OneAtATime
    <3>3. created # 0
      BY <3>2 DEF IInv, TypeOK
    <3>4. QED
      BY <3>3 DEF IInv, OneAtATime, Places
  <2>3. \A c \in Cpus : c = 0 \/ c \in Threads
    BY NumCpusAssumption DEF Cpus, Threads
  <2>4. \A c \in Cpus : c \in txReady
    BY <2>1, <2>2, <2>3 DEF IInv, DoneBefore
  <2>5. QED
    BY <2>4 DEF IInv, TypeOK
<1>2. QED
  BY <1>1, Inductive, PTL

\* init.c:345, 349, 385: behind the barrier the device runs and every CPU is
\* initialised, so no main loop meets a half-initialised server.
THEOREM LoopsCorrect == Spec => []LoopsAfterDevice
<1>1. IInv => LoopsAfterDevice
  <2> SUFFICES ASSUME IInv, NEW c \in Cpus, pc[c] \in {"open", "run"}
               PROVE  device /\ txReady = Cpus
    BY DEF LoopsAfterDevice
  <2>1. \A d \in Cpus : pc[d] \in {"barrier", "open", "run"}
    <3>1. arrived = Cpus
      BY DEF IInv, DoneBefore
    <3>2. QED
      BY <3>1 DEF IInv, DoneBefore
  <2>2. txReady = Cpus
    BY <2>1 DEF IInv, TypeOK, DoneBefore
  <2>3. pc[1] \in {"barrier", "run"}
    BY <2>1, NumCpusAssumption DEF IInv, Places, Cpus, Threads
  <2>4. QED
    BY <2>2, <2>3 DEF IInv, DoneBefore
<1>2. QED
  BY <1>1, Inductive, PTL
=============================================================================

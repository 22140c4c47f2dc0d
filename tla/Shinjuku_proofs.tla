--------------------------- MODULE Shinjuku_proofs ---------------------------
(***************************************************************************)
(* The plain server, for every number of workers, types, contexts and       *)
(* tasks, every batch size, every quantum and every choice of objectives:   *)
(* although tasks move between cores, each has one place, one context and   *)
(* one fate, the lengths of the queues are right, the queue served is the   *)
(* one that waited longest for its objective, and the tasks of each type    *)
(* begin in the order they arrive.                                          *)
(***************************************************************************)
EXTENDS Shinjuku, Selection_proofs

-----------------------------------------------------------------------------
(* Sequences.                                                               *)

LEMMA Appended ==
  ASSUME NEW S, NEW s \in Seq(S), NEW e \in S
  PROVE  /\ Append(s, e) \in Seq(S) /\ Len(Append(s, e)) = Len(s) + 1 /\ Len(s) \in Nat
         /\ \A i \in 1..Len(s) : Append(s, e)[i] = s[i]
         /\ Append(s, e)[Len(s) + 1] = e
  OBVIOUS

LEMMA Prepended ==
  ASSUME NEW S, NEW s \in Seq(S), NEW e \in S
  PROVE  /\ <<e>> \o s \in Seq(S) /\ Len(<<e>> \o s) = Len(s) + 1 /\ Len(s) \in Nat
         /\ \A i \in 2..(Len(s) + 1) : (<<e>> \o s)[i] = s[i - 1]
         /\ (<<e>> \o s)[1] = e
  OBVIOUS

LEMMA Dequeued ==
  ASSUME NEW S, NEW s \in Seq(S), s # <<>>
  PROVE  /\ Tail(s) \in Seq(S) /\ Len(Tail(s)) = Len(s) - 1 /\ Len(s) \in Nat \ {0}
         /\ \A i \in 1..(Len(s) - 1) : Tail(s)[i] = s[i + 1]
         /\ Head(s) = s[1] /\ s[1] \in S
  OBVIOUS

LEMMA Split ==
  ASSUME NEW S, NEW s \in Seq(S), NEW n \in 0..Len(s)
  PROVE  /\ SubSeq(s, 1, n) \in Seq(S) /\ Len(SubSeq(s, 1, n)) = n
         /\ \A i \in 1..n : SubSeq(s, 1, n)[i] = s[i]
         /\ SubSeq(s, n + 1, Len(s)) \in Seq(S)
         /\ Len(SubSeq(s, n + 1, Len(s))) = Len(s) - n
         /\ \A i \in 1..(Len(s) - n) : SubSeq(s, n + 1, Len(s))[i] = s[i + n]
<1>1. PICK l \in Nat : l = Len(s)
  OBVIOUS
<1>2. n \in Nat /\ n <= l
  BY <1>1
<1>3. QED
  BY <1>1, <1>2

\* A finite set of numbers has an order.
LEMMA OrderExists ==
  ASSUME NEW S \in SUBSET Nat, IsFiniteSet(S)
  PROVE  /\ Cardinality(S) \in Nat
         /\ InOrder(S) \in [1..Cardinality(S) -> S]
         /\ \A i, j \in 1..Cardinality(S) : i < j => InOrder(S)[i] < InOrder(S)[j]
<1> DEFINE n == Cardinality(S)
           Lesser(i) == {j \in S : j < i}
           rank == [i \in S |-> Cardinality(Lesser(i)) + 1]
<1>1. n \in Nat /\ \A i \in S : i \in Nat
  BY FS_CardinalityType
<1>2. ASSUME NEW i \in S
      PROVE  /\ IsFiniteSet(Lesser(i)) /\ Cardinality(Lesser(i)) \in Nat
             /\ Cardinality(Lesser(i)) < n
  <2>1. Lesser(i) \in SUBSET S /\ Lesser(i) # S
    OBVIOUS
  <2>2. IsFiniteSet(Lesser(i)) /\ Cardinality(Lesser(i)) <= n /\ Cardinality(Lesser(i)) # n
    BY <2>1, FS_Subset
  <2>3. QED
    BY <1>1, <2>2, FS_CardinalityType
<1>3. rank \in [S -> 1..n]
  BY <1>1, <1>2
<1>4. ASSUME NEW i \in S, NEW j \in S, i < j PROVE rank[i] < rank[j]
  <2>1. i \in Nat /\ j \in Nat /\ \A k \in S : k \in Nat
    BY <1>1
  <2> HIDE DEF rank
  <2>4. /\ \A k \in S : k < i => k < j
        /\ i \in Lesser(j) /\ i \notin Lesser(i)
    BY <1>4, <2>1
  <2>5. Lesser(i) \in SUBSET Lesser(j) /\ Lesser(i) # Lesser(j)
    BY <2>4
  <2>2. Cardinality(Lesser(i)) <= Cardinality(Lesser(j))
        /\ Cardinality(Lesser(i)) # Cardinality(Lesser(j))
    BY <1>2, <2>5, FS_Subset
  <2>3. QED
    BY <1>2, <2>2 DEF rank
<1>5. rank \in Surjection(S, 1..n)
  <2>1. \A i, j \in S : rank[i] = rank[j] => i = j
    <3>1. \A i, j \in S : rank[i] < rank[j] => rank[i] # rank[j]
      BY <1>3
    <3>2. \A i, j \in S : i < j \/ j < i \/ i = j
      BY <1>1
    <3> HIDE DEF rank
    <3>3. QED
      BY <1>4, <3>1, <3>2
  <2>2. rank \in Injection(S, 1..n)
    BY <1>3, <2>1 DEF Injection, IsInjective
  <2>3. IsFiniteSet(1..n) /\ Cardinality(1..n) = n
    BY <1>1, FS_Interval
  <2>4. QED
    BY <2>2, <2>3, FS_Injection
<1> DEFINE f == [k \in 1..n |-> CHOOSE i \in S : rank[i] = k]
<1>6. \A k \in 1..n : f[k] \in S /\ rank[f[k]] = k
  BY <1>5 DEF Surjection
<1> HIDE DEF rank
<1>7. ASSUME NEW i \in 1..n, NEW j \in 1..n, i < j PROVE f[i] < f[j]
  <2>1. f[i] \in S /\ f[j] \in S /\ rank[f[i]] < rank[f[j]]
    BY <1>6, <1>7
  <2>2. rank[f[i]] \in 1..n /\ rank[f[j]] \in 1..n /\ f[i] \in Nat /\ f[j] \in Nat
    BY <1>1, <1>3, <2>1
  <2>3. f[j] < f[i] => rank[f[j]] < rank[f[i]]
    BY <1>4, <2>1
  <2> HIDE DEF f, n
  <2>4. f[i] # f[j] /\ ~(f[j] < f[i])
    BY <1>1, <2>1, <2>2, <2>3
  <2>5. QED
    BY <2>2, <2>4
<1>8. f \in [1..n -> S]
  BY <1>6
<1> HIDE DEF f
<1>9. \E g \in [1..n -> S] : \A i, j \in DOMAIN g : i < j => g[i] < g[j]
  BY <1>7, <1>8
<1>10. QED
  BY <1>1, <1>9 DEF InOrder

\* The requests of a batch are its packets that are no fragments, each once.
Batched(s, n, f) ==
  /\ Completed(s) \in Seq(Tasks) /\ Len(Completed(s)) = n
  /\ \A k \in 1..n : Completed(s)[k] = s[f[k]]
  /\ \A j, k \in 1..n : f[j] = f[k] => j = k
  /\ \A j, k \in 1..n : j < k => f[j] < f[k]
  /\ \A i \in 1..Len(s) : s[i] \notin Fragments <=> \E k \in 1..n : f[k] = i

LEMMA CompletedBatch ==
  ASSUME NEW s \in Seq(Tasks)
  PROVE  \E n \in 0..Len(s) : \E f \in [1..n -> 1..Len(s)] : Batched(s, n, f)
<1> DEFINE D == Completing(s)
           n == Cardinality(D)
           f == InOrder(D)
<1>1. Len(s) \in Nat /\ DOMAIN s = 1..Len(s)
  OBVIOUS
<1>2. D \in SUBSET (1..Len(s)) /\ IsFiniteSet(1..Len(s)) /\ Cardinality(1..Len(s)) = Len(s)
  BY <1>1, FS_Interval DEF Completing
<1>3. IsFiniteSet(D) /\ n <= Len(s)
  BY <1>2, FS_Subset
<1>4. n \in Nat /\ f \in [1..n -> D] /\ \A i, j \in 1..n : i < j => f[i] < f[j]
  BY <1>1, <1>2, <1>3, OrderExists
<1>5. \A i \in 1..Len(s) : i \in D <=> s[i] \notin Fragments
  BY <1>1 DEF Completing
<1>6. Completed(s) = [k \in 1..n |-> s[f[k]]]
  BY <1>4 DEF Completed
<1> HIDE DEF D, n, f
<1>7. \A k \in 1..n : f[k] \in D /\ f[k] \in 1..Len(s) /\ s[f[k]] \in Tasks
  <2>1. \A k \in 1..n : f[k] \in D
    BY <1>4
  <2>2. \A i \in 1..Len(s) : s[i] \in Tasks
    OBVIOUS
  <2>3. QED
    BY <1>2, <2>1, <2>2
<1>8. \A j, k \in 1..n : f[j] = f[k] => j = k
  BY <1>1, <1>4, <1>7
<1>9. Completed(s) \in Seq(Tasks) /\ Len(Completed(s)) = n
  BY <1>4, <1>6, <1>7
<1>10. f \in Surjection(1..n, D)
  <2>1. f \in Injection(1..n, D)
    BY <1>4, <1>8 DEF Injection, IsInjective
  <2>2. Cardinality(1..n) = n
    BY <1>4, FS_Interval
  <2>3. QED
    BY <1>3, <2>1, <2>2, FS_Injection DEF n
<1>11. \A i \in 1..Len(s) : s[i] \notin Fragments <=> \E k \in 1..n : f[k] = i
  BY <1>5, <1>7, <1>10 DEF Surjection
<1>12. f \in [1..n -> 1..Len(s)] /\ n \in 0..Len(s)
  BY <1>1, <1>3, <1>4, <1>7
<1>13. Batched(s, n, f)
  BY <1>4, <1>6, <1>8, <1>9, <1>11, <1>12 DEF Batched
<1>14. QED
  BY <1>12, <1>13

-----------------------------------------------------------------------------
(* Slots, mailbox and queue entries.                                        *)

\* The dispatcher owns the slot of a worker that polls, but for the time from
\* DispatchRequest to TakeRequest; and what a worker runs, or reports, is what
\* its slot still says.
SlotOf(w) ==
  LET slot == dispatcher_requests[w]
      owned == /\ response_flag[w] = "RUNNING" /\ request_flag[w] = "WAITING"
               /\ cont[w] = slot.rnbl /\ job[slot.rnbl] = slot.req
      reported == /\ worker_responses[w] = [slot EXCEPT !.category = "CONTEXT"]
                  /\ job[slot.rnbl] = slot.req IN
  /\ wpc[w] \in {"work", "done"} => owned
  /\ request_flag[w] = "ACTIVE" => response_flag[w] = "RUNNING"
  /\ response_flag[w] = "RUNNING" /\ wpc[w] = "poll" => request_flag[w] = "ACTIVE"
  /\ wpc[w] = "work" => ~finished[w]
  /\ InService(w) => slot \in Runnable
  /\ response_flag[w] \in {"FINISHED", "PREEMPTED"} => reported

SlotInv == \A w \in Workers : SlotOf(w)

\* The dispatcher goes through requests it can accept, and gives the mailbox
\* back before the networker adds up a second batch of finished ones.
MailInv ==
  /\ cnt # 0 => free_cnt = 0
  /\ dpc = "accept" => cnt # 0 /\ ni <= cnt + 1
  /\ \A i \in Pending : reqs[i] \in Tasks /\ kind[reqs[i]] = types[i]
  /\ \A i \in 1..free_cnt : reqs[i] \in Tasks

\* A batch is handled before the next is received.
NetInv ==
  /\ Len(recv_mbufs) <= Batch
  /\ npc = "recv" => recv_mbufs = <<>>
  /\ \A i \in 1..Len(rxq) : kind[rxq[i]] \in Types
  /\ \A i \in 1..Len(recv_mbufs) : kind[recv_mbufs[i]] \in Types

\* What is in a queue or with a worker.
Entry(e) ==
  \/ \E y \in Types : \E i \in 1..Len(tskq[y]) : e = tskq[y][i]
  \/ \E w \in Workers : InService(w) /\ e = dispatcher_requests[w]

\* It has the type its packet was sent to, and is resumed in its own context.
Linked(e) ==
  kind[e.req] = e.type /\ (e.category = "CONTEXT" => job[e.rnbl] = e.req)

EntryInv == \A e : Entry(e) => Linked(e)

\* A context is free, or it is of one task.
ContextInv ==
  /\ \A e : Entry(e) => e.rnbl \notin freeCtx
  /\ \A e, f : Entry(e) /\ Entry(f) /\ e.rnbl = f.rnbl => e.req = f.req
  /\ \A c \in Contexts \ freeCtx : \E e : Entry(e) /\ e.rnbl = c

Serving(y) == {w \in Workers : InService(w) /\ dispatcher_requests[w].type = y}

LengthInv ==
  \A y \in Types : queue_length[y] = Len(tskq[y]) + Cardinality(Serving(y))

-----------------------------------------------------------------------------
(* Where a task is, and whether it is settled.                              *)

InRx(t, z)       == z \in 1..Len(rxq) /\ rxq[z] = t
InRecv(t, z)     == z \in 1..Len(recv_mbufs) /\ recv_mbufs[z] = t
InMail(t, z)     == z \in Pending /\ reqs[z] = t
InReturn(t, z)   == z \in 1..free_cnt /\ reqs[z] = t
InFree(t, z)     == z \in 1..Len(frqueue) /\ frqueue[z] = t
InQueue(t, y, z) == y \in Types /\ z \in 1..Len(tskq[y]) /\ tskq[y][z].req = t
InCore(t, y)     == y \in Workers /\ InService(y) /\ dispatcher_requests[y].req = t

TaskAt(t, x, y, z) ==
  \/ x = "rx" /\ y = 0 /\ InRx(t, z)
  \/ x = "recv" /\ y = 0 /\ InRecv(t, z)
  \/ x = "mailbox" /\ y = 0 /\ InMail(t, z)
  \/ x = "returned" /\ y = 0 /\ InReturn(t, z)
  \/ x = "frqueue" /\ y = 0 /\ InFree(t, z)
  \/ x = "tskq" /\ InQueue(t, y, z)
  \/ x = "core" /\ z = 0 /\ InCore(t, y)

\* Task t is nowhere but at the place <<x, y, z>>.
Alone(t, x, y, z) ==
  /\ \A i \in Nat : InRx(t, i) => x = "rx" /\ y = 0 /\ z = i
  /\ \A i \in Nat : InRecv(t, i) => x = "recv" /\ y = 0 /\ z = i
  /\ \A i \in Nat : InMail(t, i) => x = "mailbox" /\ y = 0 /\ z = i
  /\ \A i \in Nat : InReturn(t, i) => x = "returned" /\ y = 0 /\ z = i
  /\ \A i \in Nat : InFree(t, i) => x = "frqueue" /\ y = 0 /\ z = i
  /\ \A v : \A i \in Nat : InQueue(t, v, i) => x = "tskq" /\ y = v /\ z = i
  /\ \A v : InCore(t, v) => x = "core" /\ y = v /\ z = 0

\* What is at that place is a request, or still only a packet.
Alive(t, x) == t \in live <=> x \notin {"rx", "recv", "nowhere"}

\* What is at that place will still be answered or dropped.
Due(x, y) ==
  \/ x \in {"rx", "recv", "mailbox", "tskq"}
  \/ x = "core" /\ Unanswered(y)

FateAt(t, x, y) ==
  /\ kind[t] = Null => Fates(t) = 0 /\ x = "nowhere"
  /\ Sent(t) => Fates(t) = IF Due(x, y) THEN 0 ELSE 1

Lodged(t, x, y, z) ==
  /\ Alone(t, x, y, z) /\ (TaskAt(t, x, y, z) \/ x = "nowhere")
  /\ Alive(t, x) /\ FateAt(t, x, y)

TaskInv == \A t \in Tasks : \E x, y : \E z \in Nat : Lodged(t, x, y, z)

IInv ==
  /\ TypeOK /\ SlotInv /\ MailInv /\ NetInv /\ EntryInv /\ ContextInv /\ LengthInv
  /\ TaskInv

RxKept(t)     == \A z \in Nat : InRx(t, z)' <=> InRx(t, z)
RecvKept(t)   == \A z \in Nat : InRecv(t, z)' <=> InRecv(t, z)
MailKept(t)   == \A z \in Nat : InMail(t, z)' <=> InMail(t, z)
ReturnKept(t) == \A z \in Nat : InReturn(t, z)' <=> InReturn(t, z)
FreeKept(t)   == \A z \in Nat : InFree(t, z)' <=> InFree(t, z)
QueueKept(t)  == \A y : \A z \in Nat : InQueue(t, y, z)' <=> InQueue(t, y, z)
CoreKept(t)   == \A y : InCore(t, y)' <=> InCore(t, y)
DueKept(t)    == \A y : InCore(t, y) => (Unanswered(y)' <=> Unanswered(y))
FateKept(t)   == kind'[t] = kind[t] /\ Fates(t)' = Fates(t) /\ (t \in live' <=> t \in live)

\* A task a step does not touch.
LEMMA TaskStays ==
  ASSUME NEW t, NEW x, NEW y, NEW z \in Nat, Lodged(t, x, y, z), RxKept(t), RecvKept(t),
         MailKept(t), ReturnKept(t), FreeKept(t), QueueKept(t), CoreKept(t), DueKept(t),
         FateKept(t)
  PROVE  Lodged(t, x, y, z)'
<1>1. Alone(t, x, y, z)'
  BY DEF Lodged, Alone, RxKept, RecvKept, MailKept, ReturnKept, FreeKept, QueueKept, CoreKept
<1>2. (TaskAt(t, x, y, z) \/ x = "nowhere")'
  BY DEF Lodged, TaskAt, RxKept, RecvKept, MailKept, ReturnKept, FreeKept, QueueKept, CoreKept
<1>3. Alive(t, x)'
  BY DEF Lodged, Alive, FateKept
<1>4. FateAt(t, x, y)'
  <2>1. x = "core" => InCore(t, y)
    BY DEF Lodged, TaskAt
  <2>2. Due(x, y)' <=> Due(x, y)
    BY <2>1 DEF Due, DueKept
  <2>3. Sent(t)' <=> Sent(t)
    BY DEF Sent, FateKept
  <2>4. QED
    BY <2>2, <2>3 DEF Lodged, FateAt, FateKept
<1>5. QED
  BY <1>1, <1>2, <1>3, <1>4 DEF Lodged

\* A task that is somewhere is nowhere else, and what follows from its place.
LEMMA Found ==
  ASSUME TaskInv, NEW t \in Tasks, NEW x, NEW y, NEW z \in Nat, TaskAt(t, x, y, z)
  PROVE  Lodged(t, x, y, z)
<1>1. PICK u, v : \E w \in Nat : Lodged(t, u, v, w)
  BY DEF TaskInv
<1>2. PICK w \in Nat : Lodged(t, u, v, w)
  BY <1>1
<1>3. u = x /\ v = y /\ w = z
  BY <1>2 DEF Lodged, Alone, TaskAt
<1>4. QED
  BY <1>2, <1>3

-----------------------------------------------------------------------------
(* Types.                                                                   *)

LEMMA Sizes ==
  /\ NumWorkers \in Nat /\ NumWorkers >= 1 /\ Batch \in Nat /\ Batch >= 1
  /\ MaxTime \in Nat /\ MaxTasks \in Nat /\ IsFiniteSet(Workers)
  /\ Slots = 1..Batch /\ Time = 0..MaxTime /\ Null \notin Tasks /\ Null \notin Contexts
  /\ Null \notin Types /\ Workers \subseteq Nat /\ Types \subseteq Nat
<1>1. NumWorkers \in Nat /\ NumWorkers >= 1 /\ Batch \in Nat /\ Batch >= 1
      /\ MaxTime \in Nat /\ MaxTasks \in Nat /\ NumPorts \in Nat
  BY ShinjukuSizes
<1>2. IsFiniteSet(Workers)
  BY <1>1, FS_Interval DEF Workers
<1>3. QED
  BY <1>1, <1>2, ShinjukuNull DEF Slots, Time, Workers, Types

\* What a batch of the networker, or of the dispatcher, takes.
LEMMA BatchSize ==
  ASSUME NEW n \in Nat
  PROVE  AtMostBatch(n) \in 0..n /\ AtMostBatch(n) \in 0..Batch
  BY Sizes DEF AtMostBatch

LEMMA PlaceType ==
  ASSUME NEW S, NEW old \in [Slots -> S], NEW s \in Seq(S)
  PROVE  /\ Place(s, old) \in [Slots -> S]
         /\ \A i \in Slots : Place(s, old)[i] = IF i <= Len(s) THEN s[i] ELSE old[i]
<1>1. \A i \in Slots : i <= Len(s) => s[i] \in S
  BY Sizes
<1>2. QED
  BY <1>1 DEF Place

\* A task in service has been counted.
LEMMA ServedCounted ==
  ASSUME LengthInv, TypeOK, NEW w \in Workers, InService(w),
         dispatcher_requests[w].type \in Types
  PROVE  queue_length[dispatcher_requests[w].type] \in Nat \ {0}
<1> DEFINE y == dispatcher_requests[w].type
<1>1. IsFiniteSet(Serving(y)) /\ w \in Serving(y)
  BY Sizes, FS_Subset DEF Serving
<1>2. Cardinality(Serving(y)) \in Nat /\ Cardinality(Serving(y)) # 0
  BY <1>1, FS_EmptySet, FS_CardinalityType
<1>3. Len(tskq[y]) \in Nat
  BY DEF TypeOK
<1>4. QED
  BY <1>2, <1>3 DEF LengthInv

\* What the dispatcher takes out of a slot.
LEMMA TakeResponse ==
  ASSUME TypeOK, SlotInv, NEW w \in Workers, response_flag[w] \in {"FINISHED", "PREEMPTED"}
  PROVE  /\ InService(w) /\ dispatcher_requests[w] \in Runnable
         /\ worker_responses[w] \in Runnable
         /\ worker_responses[w].req = dispatcher_requests[w].req
         /\ worker_responses[w].rnbl = dispatcher_requests[w].rnbl
         /\ worker_responses[w].type = dispatcher_requests[w].type
         /\ worker_responses[w].timestamp = dispatcher_requests[w].timestamp
         /\ worker_responses[w].category = "CONTEXT"
         /\ job[dispatcher_requests[w].rnbl] = dispatcher_requests[w].req
         /\ wpc[w] = "poll" /\ request_flag[w] = "WAITING"
<1>1. /\ InService(w) /\ SlotOf(w) /\ response_flag[w] # "RUNNING"
      /\ wpc[w] \in {"poll", "work", "done"} /\ request_flag[w] \in {"WAITING", "ACTIVE"}
  BY DEF InService, SlotInv, TypeOK
<1>2. /\ dispatcher_requests[w] \in Runnable
      /\ worker_responses[w] = [dispatcher_requests[w] EXCEPT !.category = "CONTEXT"]
      /\ job[dispatcher_requests[w].rnbl] = dispatcher_requests[w].req
      /\ wpc[w] = "poll" /\ request_flag[w] = "WAITING"
  BY <1>1 DEF SlotOf
<1>3. QED
  BY <1>1, <1>2 DEF Runnable

\* What DispatchRequest takes out of a queue.
LEMMA TakeTask ==
  ASSUME TypeOK, NEW y \in Types, tskq[y] # <<>>
  PROVE  /\ Len(tskq[y]) \in Nat \ {0} /\ Head(tskq[y]) = tskq[y][1]
         /\ tskq[y][1] \in Runnable /\ tskq[y][1].type = y
         /\ Tail(tskq[y]) \in Seq(Runnable) /\ Len(Tail(tskq[y])) = Len(tskq[y]) - 1
         /\ \A i \in 1..(Len(tskq[y]) - 1) : Tail(tskq[y])[i] = tskq[y][i + 1]
<1>1. tskq[y] \in Seq(Runnable) /\ DOMAIN tskq[y] = 1..Len(tskq[y])
  BY DEF TypeOK
<1>2. 1 \in 1..Len(tskq[y])
  BY <1>1
<1>3. QED
  BY <1>1, <1>2, Dequeued DEF TypeOK

\* What HandlePreempted makes of a queue.
LEMMA RequeueTask ==
  ASSUME TypeOK, NEW e \in Runnable, NEW n, n = Len(tskq[e.type])
  PROVE  /\ e.type \in Types /\ n \in Nat
         /\ Requeued(e) \in Seq(Runnable) /\ Len(Requeued(e)) = n + 1
         /\ DOMAIN Requeued(e) = 1..(n + 1)
<1>1. e.type \in Types
  BY DEF Runnable
<1>2. tskq[e.type] \in Seq(Runnable) /\ n \in Nat
  BY <1>1 DEF TypeOK
<1>3. CASE HeadFirst[e.type]
  <2>1. Requeued(e) = <<e>> \o tskq[e.type]
    BY <1>3 DEF Requeued
  <2>2. Requeued(e) \in Seq(Runnable) /\ Len(Requeued(e)) = n + 1
    BY <1>2, <2>1, Prepended
  <2>3. QED
    BY <1>1, <1>2, <2>2
<1>4. CASE ~HeadFirst[e.type]
  <2>1. Requeued(e) = Append(tskq[e.type], e)
    BY <1>4 DEF Requeued
  <2>2. Requeued(e) \in Seq(Runnable) /\ Len(Requeued(e)) = n + 1
    BY <1>2, <2>1, Appended
  <2>3. QED
    BY <1>1, <1>2, <2>2
<1>5. QED
  BY <1>3, <1>4

LEMMA RequeuedFirst ==
  ASSUME TypeOK, NEW e \in Runnable, HeadFirst[e.type], NEW n, n = Len(tskq[e.type])
  PROVE  /\ Requeued(e)[1] = e
         /\ \A i \in 2..(n + 1) : Requeued(e)[i] = tskq[e.type][i - 1]
<1>1. Requeued(e) = <<e>> \o tskq[e.type]
  BY DEF Requeued
<1>2. tskq[e.type] \in Seq(Runnable)
  BY DEF TypeOK, Runnable
<1>3. QED
  BY <1>1, <1>2, Prepended

LEMMA RequeuedLast ==
  ASSUME TypeOK, NEW e \in Runnable, ~HeadFirst[e.type], NEW n, n = Len(tskq[e.type])
  PROVE  /\ Requeued(e)[n + 1] = e
         /\ \A i \in 1..n : Requeued(e)[i] = tskq[e.type][i]
<1>1. Requeued(e) = Append(tskq[e.type], e)
  BY DEF Requeued
<1>2. tskq[e.type] \in Seq(Runnable)
  BY DEF TypeOK, Runnable
<1>3. QED
  BY <1>1, <1>2, Appended

\* What AcceptRequest makes of a request.
LEMMA NewTask ==
  ASSUME TypeOK, MailInv, dpc = "accept", ni <= cnt
  PROVE  /\ ni \in 1..cnt /\ ni \in Slots /\ ni \in Pending /\ reqs[ni] \in Tasks
         /\ types[ni] \in Types /\ kind[reqs[ni]] = types[ni] /\ cur_time \in Time
         /\ \A c \in Contexts :
              [rnbl |-> c, req |-> reqs[ni], type |-> types[ni], category |-> "PACKET",
               timestamp |-> cur_time] \in Runnable
<1>1. /\ ni \in 1..(Batch + 1) /\ cnt \in 0..Batch /\ types \in [Slots -> Types]
      /\ cur_time \in Time
  BY DEF TypeOK
<1>2. ni \in 1..cnt /\ ni \in Slots
  BY <1>1, Sizes
<1>3. ni \in Pending
  BY <1>1, <1>2 DEF Pending
<1>4. QED
  BY <1>1, <1>2, <1>3 DEF MailInv, Runnable

LEMMA TypeStep == ASSUME IInv, [Next]_vars PROVE TypeOK'
<1> USE DEF netVars, mailVars, loopVars, queueVars, timerVars, slotVars, workVars
<1>1. TypeOK /\ SlotInv /\ MailInv /\ NetInv /\ LengthInv
  BY DEF IInv
<1>2. CASE UNCHANGED vars
  BY <1>1, <1>2 DEF TypeOK, vars
<1>3. ASSUME NEW y \in Types, SendPacket(y) PROVE TypeOK'
  <2>1. PICK t \in Tasks :
          /\ kind' = [kind EXCEPT ![t] = y]
          /\ rxq' \in {rxq, Append(rxq, t)} /\ lost' \in {lost, lost \cup {t}}
    BY <1>3 DEF SendPacket
  <2>2. rxq \in Seq(Tasks) /\ Append(rxq, t) \in Seq(Tasks)
    BY <1>1, <2>1 DEF TypeOK
  <2>3. /\ rxq' \in Seq(Tasks) /\ lost' \subseteq Tasks
        /\ kind' \in [Tasks -> Types \cup {Null}]
    BY <1>1, <2>1, <2>2 DEF TypeOK
  <2>4. UNCHANGED <<npc, recv_mbufs, live, answered, mailVars, loopVars, queueVars,
                    timerVars, slotVars, ipi, workVars>>
    BY <1>3 DEF SendPacket
  <2>5. QED
    BY <1>1, <2>3, <2>4 DEF TypeOK
<1>4. CASE Receive
  <2>1. rxq \in Seq(Tasks) /\ Len(rxq) \in Nat
    BY <1>1 DEF TypeOK
  <2>2. PICK n \in 0..Len(rxq) : n = AtMostBatch(Len(rxq))
    BY <2>1, BatchSize
  <2>3. recv_mbufs' \in Seq(Tasks) /\ rxq' \in Seq(Tasks)
    BY <1>4, <2>1, <2>2, Split DEF Receive
  <2>4. QED
    BY <1>1, <1>4, <2>3 DEF Receive, TypeOK
<1>5. CASE PostBatch
  <2>1. recv_mbufs \in Seq(Tasks) /\ Len(recv_mbufs) \in 0..Batch
    BY <1>1, Sizes DEF TypeOK, NetInv
  <2>2. PICK n \in 0..Len(recv_mbufs) : \E f \in [1..n -> 1..Len(recv_mbufs)] :
          Batched(recv_mbufs, n, f)
    BY <2>1, CompletedBatch
  <2>3. PICK d \in Seq(Tasks) : d = Completed(recv_mbufs) /\ Len(d) = n
    BY <2>2 DEF Batched
  <2>4. CompletedTypes(recv_mbufs) \in Seq(Types)
    <3>1. \A k \in 1..n : kind[d[k]] \in Types
      BY <1>1, <2>2, <2>3 DEF NetInv, Batched
    <3>2. CompletedTypes(recv_mbufs) = [k \in 1..n |-> kind[d[k]]] /\ n \in Nat
      BY <2>1, <2>2, <2>3 DEF CompletedTypes
    <3>3. QED
      BY <3>1, <3>2
  <2>5. reqs' \in [Slots -> Tasks \cup {Null}]
    <3>1. d \in Seq(Tasks \cup {Null}) /\ reqs \in [Slots -> Tasks \cup {Null}]
      BY <1>1, <2>3 DEF TypeOK
    <3>2. reqs' = Place(d, reqs)
      BY <1>5, <2>3 DEF PostBatch
    <3>3. QED
      BY <3>1, <3>2, PlaceType
  <2>6. types' \in [Slots -> Types]
    BY <1>1, <1>5, <2>4, PlaceType DEF PostBatch, TypeOK
  <2>7. cnt' \in 0..Batch /\ free_cnt' \in 0..Batch /\ recv_mbufs' \in Seq(Tasks)
    <3>1. cnt' = n /\ free_cnt' = 0 /\ recv_mbufs' = <<>>
      BY <1>5, <2>3 DEF PostBatch
    <3>2. QED
      BY <2>1, <3>1, Sizes
  <2>8. live' \subseteq Tasks
    <3>1. \A i \in DOMAIN d : d[i] \in Tasks
      BY <2>3
    <3>2. live' = (live \ {reqs[i] : i \in 1..free_cnt}) \cup {d[i] : i \in DOMAIN d}
      BY <1>5, <2>3 DEF PostBatch
    <3>3. QED
      BY <1>1, <3>1, <3>2 DEF TypeOK
  <2>9. QED
    BY <1>1, <1>5, <2>5, <2>6, <2>7, <2>8 DEF PostBatch, TypeOK
<1>6. CASE StartTurn
  <2>1. cur_time' \in Time
    BY <1>1, <1>6, Sizes DEF StartTurn, TypeOK
  <2>2. QED
    BY <1>1, <1>6, <2>1 DEF StartTurn, TypeOK
<1>7. CASE LookAtMailbox
  <2>1. ni' \in 1..(Batch + 1) /\ dpc' \in {"clock", "accept"}
    BY <1>7, Sizes DEF LookAtMailbox
  <2>2. UNCHANGED <<di, cur_time, netVars, answered, lost, mailVars, queueVars,
                    timerVars, slotVars, ipi, workVars>>
    BY <1>7 DEF LookAtMailbox
  <2>3. QED
    BY <1>1, <2>1, <2>2 DEF TypeOK
<1>8. CASE DropRequest
  <2>1. ni \in 1..Batch /\ reqs[ni] \in Tasks
    BY <1>1, <1>8, NewTask, Sizes DEF DropRequest
  <2>2. frqueue' \in Seq(Tasks) /\ ni' \in 1..(Batch + 1)
    BY <1>1, <1>8, <2>1, Sizes DEF DropRequest, TypeOK
  <2>3. QED
    BY <1>1, <1>8, <2>1, <2>2 DEF DropRequest, TypeOK
<1>9. CASE AcceptRequest
  <2>1. PICK c \in freeCtx, e \in Runnable :
          /\ e = [rnbl |-> c, req |-> reqs[ni], type |-> types[ni], category |-> "PACKET",
                  timestamp |-> cur_time]
          /\ tskq' = [tskq EXCEPT ![types[ni]] = Enqueued(e)]
          /\ freeCtx' = freeCtx \ {c}
    BY <1>1, <1>9, NewTask DEF AcceptRequest, TypeOK
  <2>2. types[ni] \in Types /\ ni \in 1..Batch /\ e.type = types[ni]
    BY <1>1, <1>9, <2>1, NewTask, Sizes DEF AcceptRequest
  <2>3. tskq[types[ni]] \in Seq(Runnable)
    BY <1>1, <2>2 DEF TypeOK
  <2>4. /\ Enqueued(e) \in Seq(Runnable)
        /\ \A i \in DOMAIN Enqueued(e) : Enqueued(e)[i].type = types[ni]
    BY <1>1, <2>1, <2>2, <2>3, Appended DEF Enqueued, TypeOK
  <2>5. /\ tskq' \in [Types -> Seq(Runnable)]
        /\ \A y \in Types : \A i \in DOMAIN tskq'[y] : tskq'[y][i].type = y
    BY <1>1, <2>1, <2>2, <2>4 DEF TypeOK
  <2>6. queue_length' \in [Types -> Nat]
    BY <1>1, <1>9, <2>2 DEF AcceptRequest, TypeOK
  <2>7. ni' \in 1..(Batch + 1)
    BY <1>9, <2>2, Sizes DEF AcceptRequest
  <2>8. QED
    BY <1>1, <1>9, <2>1, <2>5, <2>6, <2>7 DEF AcceptRequest, TypeOK
<1>10. CASE ReturnFinished
  <2>1. frqueue \in Seq(Tasks) /\ Len(frqueue) \in Nat
    BY <1>1 DEF TypeOK
  <2>2. PICK n \in 0..Len(frqueue) : n = AtMostBatch(Len(frqueue)) /\ n \in 0..Batch
    BY <2>1, BatchSize
  <2>3. SubSeq(frqueue, 1, n) \in Seq(Tasks \cup {Null}) /\ frqueue' \in Seq(Tasks)
    BY <1>10, <2>1, <2>2, Split DEF ReturnFinished
  <2>4. reqs' \in [Slots -> Tasks \cup {Null}]
    <3>1. reqs' = Place(SubSeq(frqueue, 1, n), reqs) /\ reqs \in [Slots -> Tasks \cup {Null}]
      BY <1>1, <1>10, <2>2 DEF ReturnFinished, TypeOK
    <3>2. QED
      BY <2>3, <3>1, PlaceType
  <2>5. free_cnt' \in 0..Batch /\ cnt' \in 0..Batch
    BY <1>1, <1>10, <2>2, Sizes DEF ReturnFinished, MailInv
  <2>6. QED
    BY <1>1, <1>10, <2>3, <2>4, <2>5 DEF ReturnFinished, TypeOK
<1>11. ASSUME NEW w \in Workers, NextTurn(w)
       PROVE  di' \in Workers /\ dpc' \in {"worker", "networker"} /\ UNCHANGED <<ni, cur_time>>
  BY <1>11, Sizes DEF NextTurn, Workers
<1>12. ASSUME NEW w \in Workers, SkipWorker(w) \/ PreemptWorker(w) \/ NothingToDispatch(w)
       PROVE  TypeOK'
  BY <1>1, <1>11, <1>12 DEF SkipWorker, PreemptWorker, NothingToDispatch, TypeOK
<1>13. ASSUME NEW w \in Workers, HandleFinished(w) PROVE TypeOK'
  <2>1. /\ worker_responses[w] \in Runnable /\ InService(w)
        /\ worker_responses[w].type = dispatcher_requests[w].type
    BY <1>1, <1>13, TakeResponse DEF HandleFinished
  <2>2. worker_responses[w].rnbl \in Contexts /\ worker_responses[w].req \in Tasks
        /\ worker_responses[w].type \in Types
    BY <2>1 DEF Runnable
  <2>3. queue_length[worker_responses[w].type] \in Nat \ {0}
    BY <1>1, <2>1, <2>2, ServedCounted
  <2>4. queue_length' \in [Types -> Nat]
    BY <1>1, <1>13, <2>2, <2>3 DEF HandleFinished, TypeOK
  <2>5. frqueue' \in Seq(Tasks)
    BY <1>1, <1>13, <2>2 DEF HandleFinished, TypeOK
  <2>6. QED
    BY <1>1, <1>13, <2>2, <2>4, <2>5 DEF HandleFinished, Processed, TypeOK
<1>14. ASSUME NEW w \in Workers, HandlePreempted(w) PROVE TypeOK'
  <2>1. PICK e \in Runnable : e = worker_responses[w]
    BY <1>1, <1>14, TakeResponse DEF HandlePreempted
  <2>2. e.type \in Types
    BY DEF Runnable
  <2>3. tskq[e.type] \in Seq(Runnable)
    BY <1>1, <2>2 DEF TypeOK
  <2>4. /\ Requeued(e) \in Seq(Runnable)
        /\ \A i \in DOMAIN Requeued(e) : Requeued(e)[i].type = e.type
    <3>1. PICK n \in Nat : n = Len(tskq[e.type])
      BY <2>3
    <3>2. \A i \in 1..n : tskq[e.type][i].type = e.type
      BY <1>1, <2>2, <2>3, <3>1 DEF TypeOK
    <3>3. Requeued(e) \in Seq(Runnable) /\ DOMAIN Requeued(e) = 1..(n + 1)
      BY <1>1, <3>1, RequeueTask
    <3>4. \A i \in 1..(n + 1) : Requeued(e)[i].type = e.type
      <4>1. \A i \in 1..(n + 1) :
              /\ i = 1 \/ (i \in 2..(n + 1) /\ i - 1 \in 1..n)
              /\ i = n + 1 \/ i \in 1..n
        OBVIOUS
      <4>2. CASE HeadFirst[e.type]
        <5>1. Requeued(e)[1] = e
              /\ \A i \in 2..(n + 1) : Requeued(e)[i] = tskq[e.type][i - 1]
          BY <1>1, <3>1, <4>2, RequeuedFirst
        <5>2. QED
          BY <3>2, <4>1, <5>1
      <4>3. CASE ~HeadFirst[e.type]
        <5>1. Requeued(e)[n + 1] = e
              /\ \A i \in 1..n : Requeued(e)[i] = tskq[e.type][i]
          BY <1>1, <3>1, <4>3, RequeuedLast
        <5>2. QED
          BY <3>2, <4>1, <5>1
      <4>4. QED
        BY <4>2, <4>3
    <3>5. QED
      BY <3>3, <3>4
  <2>5. /\ tskq' \in [Types -> Seq(Runnable)]
        /\ \A y \in Types : \A i \in DOMAIN tskq'[y] : tskq'[y][i].type = y
    BY <1>1, <1>14, <2>1, <2>2, <2>4 DEF TypeOK, HandlePreempted
  <2>6. QED
    BY <1>1, <1>14, <2>5 DEF HandlePreempted, Processed, TypeOK
<1>15. ASSUME NEW w \in Workers, DispatchRequest(w) PROVE TypeOK'
  <2>1. PICK y \in Types :
          /\ tskq[y] # <<>>
          /\ dispatcher_requests' = [dispatcher_requests EXCEPT ![w] = Head(tskq[y])]
          /\ tskq' = [tskq EXCEPT ![y] = Tail(@)]
    BY <1>15 DEF DispatchRequest, SmartQueue
  <2>2. /\ Head(tskq[y]) \in Runnable /\ Tail(tskq[y]) \in Seq(Runnable)
        /\ \A i \in DOMAIN Tail(tskq[y]) : Tail(tskq[y])[i].type = y
    BY <1>1, <2>1, TakeTask DEF TypeOK
  <2>3. /\ tskq' \in [Types -> Seq(Runnable)]
        /\ \A z \in Types : \A i \in DOMAIN tskq'[z] : tskq'[z][i].type = z
    BY <1>1, <2>1, <2>2 DEF TypeOK
  <2>4. \A v \in Workers :
          /\ request_flag'[v] = "ACTIVE" => dispatcher_requests'[v] \in Runnable
          /\ response_flag'[v] \in {"FINISHED", "PREEMPTED"} =>
               worker_responses'[v] \in Runnable
    BY <1>1, <1>15, <2>1, <2>2 DEF DispatchRequest, TypeOK
  <2>5. di' \in Workers /\ dpc' \in {"worker", "networker"} /\ UNCHANGED <<ni, cur_time>>
    BY <1>11, <1>15 DEF DispatchRequest
  <2>6. /\ request_flag' \in [Workers -> {"WAITING", "ACTIVE"}]
        /\ response_flag' \in [Workers -> {"RUNNING", "FINISHED", "PREEMPTED", "PROCESSED"}]
        /\ timestamps' \in [Workers -> Time] /\ preempt_check' \in [Workers -> BOOLEAN]
        /\ dispatcher_requests' \in [Workers -> Runnable \cup {NoContent}]
    BY <1>1, <1>15, <2>1, <2>2 DEF DispatchRequest, TypeOK
  <2>7. UNCHANGED <<netVars, answered, lost, mailVars, frqueue, freeCtx, queue_length,
                    worker_responses, ipi, workVars>>
    BY <1>15 DEF DispatchRequest
  <2>8. QED
    BY <1>1, <2>3, <2>4, <2>5, <2>6, <2>7 DEF TypeOK
<1>16. ASSUME NEW w \in Workers, WorkerNext(w) PROVE TypeOK'
  <2>1. CASE TakeRequest(w)
    <3>1. dispatcher_requests[w] \in Runnable
      BY <1>1, <2>1 DEF TakeRequest, TypeOK
    <3>2. dispatcher_requests[w].rnbl \in Contexts /\ dispatcher_requests[w].req \in Tasks
      BY <3>1 DEF Runnable
    <3>3. QED
      BY <1>1, <2>1, <3>2 DEF TakeRequest, Goto, TypeOK
  <2>2. CASE PreemptHandler(w)
    BY <1>1, <2>2 DEF PreemptHandler, Goto, TypeOK
  <2>3. CASE SendReply(w)
    <3>1. job[cont[w]] \in Tasks
      BY <1>1, <2>3 DEF SendReply, Goto, SlotInv, SlotOf, InService, Runnable
    <3>2. /\ answered' \in [Tasks -> Nat] /\ finished' \in [Workers -> BOOLEAN]
          /\ wpc' \in [Workers -> {"poll", "work", "done"}]
      BY <1>1, <2>3, <3>1 DEF SendReply, Goto, TypeOK
    <3>3. UNCHANGED <<netVars, lost, mailVars, loopVars, queueVars, timerVars, slotVars, ipi,
                      cont, job>>
      BY <2>3 DEF SendReply
    <3>4. QED
      BY <1>1, <3>2, <3>3 DEF TypeOK
  <2>4. CASE FinishRequest(w)
    <3>1. Response(w) \in Runnable
      BY <1>1, <2>4 DEF FinishRequest, Goto, SlotInv, SlotOf, InService, Runnable, Response
    <3>2. Outcome(w) \in {"FINISHED", "PREEMPTED"}
      BY DEF Outcome
    <3>3. /\ wpc' \in [Workers -> {"poll", "work", "done"}]
          /\ response_flag' \in [Workers -> {"RUNNING", "FINISHED", "PREEMPTED", "PROCESSED"}]
          /\ worker_responses' \in [Workers -> Runnable \cup {NoContent}]
      BY <1>1, <2>4, <3>1, <3>2 DEF FinishRequest, Goto, TypeOK
    <3>4. \A v \in Workers :
            /\ request_flag'[v] = "ACTIVE" => dispatcher_requests'[v] \in Runnable
            /\ response_flag'[v] \in {"FINISHED", "PREEMPTED"} =>
                 worker_responses'[v] \in Runnable
      BY <1>1, <2>4, <3>1 DEF FinishRequest, TypeOK
    <3>5. UNCHANGED <<netVars, answered, lost, mailVars, loopVars, queueVars, timerVars,
                      request_flag, dispatcher_requests, ipi, cont, finished, job>>
      BY <2>4 DEF FinishRequest
    <3>6. QED
      BY <1>1, <3>3, <3>4, <3>5 DEF TypeOK
  <2>5. QED
    BY <1>16, <2>1, <2>2, <2>3, <2>4 DEF WorkerNext
<1>17. QED
  BY <1>2, <1>3, <1>4, <1>5, <1>6, <1>7, <1>8, <1>9, <1>10, <1>12, <1>13, <1>14, <1>15, <1>16
     DEF Next, NetworkerNext, DispatcherNext

-----------------------------------------------------------------------------
(* Slots, mailbox and batches.                                              *)

\* The type of a packet does not change.
LEMMA KindKept ==
  ASSUME TypeOK, [Next]_vars, NEW t \in Tasks, kind[t] # Null PROVE kind'[t] = kind[t]
<1> USE DEF netVars
<1>1. ASSUME NEW y \in Types, SendPacket(y) PROVE kind'[t] = kind[t]
  BY <1>1 DEF SendPacket, TypeOK
<1>2. CASE UNCHANGED kind
  BY <1>2
<1>3. QED
  BY <1>1, <1>2 DEF Next, NetworkerNext, Receive, PostBatch, DispatcherNext, StartTurn,
     LookAtMailbox, DropRequest, AcceptRequest, ReturnFinished, SkipWorker, PreemptWorker,
     HandleFinished, HandlePreempted, NothingToDispatch, DispatchRequest, WorkerNext,
     TakeRequest, PreemptHandler, SendReply, FinishRequest, vars

LEMMA SlotStep == ASSUME IInv, [Next]_vars PROVE SlotInv'
<1> USE DEF netVars, mailVars, loopVars, queueVars, timerVars, slotVars, workVars
<1>1. TypeOK /\ SlotInv /\ ContextInv
  BY DEF IInv
<1>2. CASE UNCHANGED <<slotVars, workVars>>
  BY <1>1, <1>2 DEF SlotInv, SlotOf, InService
<1>3. ASSUME NEW w \in Workers, HandleFinished(w) \/ HandlePreempted(w) PROVE SlotInv'
  <2>1. wpc[w] = "poll" /\ request_flag[w] = "WAITING"
    BY <1>1, <1>3, TakeResponse DEF HandleFinished, HandlePreempted
  <2>2. /\ response_flag' = [response_flag EXCEPT ![w] = "PROCESSED"]
        /\ UNCHANGED <<request_flag, dispatcher_requests, worker_responses, workVars>>
    BY <1>3 DEF HandleFinished, HandlePreempted, Processed
  <2>3. QED
    BY <1>1, <2>1, <2>2 DEF SlotInv, SlotOf, InService, TypeOK
<1>4. ASSUME NEW w \in Workers, DispatchRequest(w) PROVE SlotInv'
  <2>1. PICK e \in Runnable : dispatcher_requests' = [dispatcher_requests EXCEPT ![w] = e]
    BY <1>1, <1>4, TakeTask DEF DispatchRequest, SmartQueue
  <2>2. /\ response_flag' = [response_flag EXCEPT ![w] = "RUNNING"]
        /\ request_flag' = [request_flag EXCEPT ![w] = "ACTIVE"]
        /\ UNCHANGED <<worker_responses, workVars>>
        /\ response_flag[w] = "PROCESSED"
    BY <1>4 DEF DispatchRequest
  <2>3. wpc[w] = "poll"
    BY <1>1, <2>2 DEF SlotInv, SlotOf, TypeOK
  <2>4. ASSUME NEW v \in Workers, v # w PROVE SlotOf(v)'
    BY <1>1, <2>1, <2>2, <2>4 DEF SlotInv, SlotOf, InService, TypeOK
  <2>5. SlotOf(w)'
    BY <1>1, <2>1, <2>2, <2>3 DEF SlotOf, InService, TypeOK
  <2>6. QED
    BY <2>4, <2>5 DEF SlotInv
<1>5. ASSUME NEW w \in Workers, TakeRequest(w) PROVE SlotInv'
  <2>1. /\ InService(w) /\ SlotOf(w) /\ dispatcher_requests[w] \in Runnable
        /\ response_flag[w] = "RUNNING" /\ wpc[w] = "poll"
    BY <1>1, <1>5 DEF TakeRequest, Goto, SlotInv, SlotOf, InService
  <2>2. dispatcher_requests[w].rnbl \in Contexts /\ Entry(dispatcher_requests[w])
        /\ dispatcher_requests[w].category \in {"PACKET", "CONTEXT"}
    BY <2>1 DEF Runnable, Entry
  <2>3. job'[dispatcher_requests[w].rnbl] = dispatcher_requests[w].req
    BY <1>1, <1>5, <2>2 DEF TakeRequest, TypeOK, IInv, EntryInv, Linked
  <2>4. ASSUME NEW v \in Workers, v # w PROVE SlotOf(v)'
    <3>1. /\ UNCHANGED <<dispatcher_requests, response_flag, worker_responses>>
          /\ request_flag'[v] = request_flag[v] /\ wpc'[v] = wpc[v]
          /\ finished'[v] = finished[v] /\ cont'[v] = cont[v]
      BY <1>1, <1>5, <2>4 DEF TakeRequest, Goto, TypeOK
    <3>2. InService(v) /\ job[dispatcher_requests[v].rnbl] = dispatcher_requests[v].req
            => job'[dispatcher_requests[v].rnbl] = dispatcher_requests[v].req
      <4>1. InService(v) => Entry(dispatcher_requests[v])
        BY DEF Entry
      <4>2. InService(v) /\ dispatcher_requests[v].rnbl = dispatcher_requests[w].rnbl
              => dispatcher_requests[v].req = dispatcher_requests[w].req
        BY <1>1, <2>2, <4>1 DEF ContextInv
      <4>3. \A c : c # dispatcher_requests[w].rnbl => job'[c] = job[c]
        BY <1>1, <1>5 DEF TakeRequest, TypeOK
      <4>4. QED
        BY <2>3, <4>2, <4>3
    <3>3. InService(v)' = InService(v)
      BY <3>1 DEF InService
    <3>4. QED
      BY <1>1, <3>1, <3>2, <3>3 DEF SlotInv, SlotOf, InService
  <2>5. SlotOf(w)'
    <3>1. /\ UNCHANGED <<dispatcher_requests, response_flag, worker_responses>>
          /\ request_flag'[w] = "WAITING" /\ wpc'[w] = "work"
          /\ finished'[w] = FALSE /\ cont'[w] = dispatcher_requests[w].rnbl
      BY <1>1, <1>5 DEF TakeRequest, Goto, TypeOK
    <3>2. QED
      BY <2>1, <2>3, <3>1 DEF SlotOf, InService
  <2>6. QED
    BY <2>4, <2>5 DEF SlotInv
<1>6. ASSUME NEW w \in Workers, PreemptHandler(w) \/ SendReply(w) PROVE SlotInv'
  <2>1. /\ UNCHANGED <<slotVars, cont, job>> /\ wpc[w] = "work" /\ wpc'[w] = "done"
        /\ \A v \in Workers \ {w} : wpc'[v] = wpc[v] /\ finished'[v] = finished[v]
    BY <1>1, <1>6 DEF PreemptHandler, SendReply, Goto, TypeOK
  <2>2. QED
    BY <1>1, <2>1 DEF SlotInv, SlotOf, InService
<1>7. ASSUME NEW w \in Workers, FinishRequest(w) PROVE SlotInv'
  <2>1. /\ UNCHANGED <<request_flag, dispatcher_requests, cont, finished, job>>
        /\ wpc[w] = "done" /\ wpc'[w] = "poll" /\ worker_responses'[w] = Response(w)
        /\ response_flag'[w] \in {"FINISHED", "PREEMPTED"}
        /\ \A v \in Workers \ {w} : /\ wpc'[v] = wpc[v]
                                    /\ worker_responses'[v] = worker_responses[v]
                                    /\ response_flag'[v] = response_flag[v]
    BY <1>1, <1>7 DEF FinishRequest, Goto, Outcome, TypeOK
  <2>2. /\ dispatcher_requests[w] \in Runnable /\ cont[w] = dispatcher_requests[w].rnbl
        /\ job[dispatcher_requests[w].rnbl] = dispatcher_requests[w].req
        /\ request_flag[w] = "WAITING"
    BY <1>1, <2>1 DEF SlotInv, SlotOf, InService
  <2>3. Response(w) = [dispatcher_requests[w] EXCEPT !.category = "CONTEXT"]
    BY <2>2 DEF Response, Runnable
  <2>4. SlotOf(w)'
    BY <2>1, <2>2, <2>3 DEF SlotOf
  <2>5. ASSUME NEW v \in Workers, v # w PROVE SlotOf(v)'
    BY <1>1, <2>1, <2>5 DEF SlotInv, SlotOf, InService
  <2>6. QED
    BY <2>4, <2>5 DEF SlotInv
<1>8. QED
  BY <1>2, <1>3, <1>4, <1>5, <1>6, <1>7 DEF Next, SendPacket, NetworkerNext, Receive,
     PostBatch, DispatcherNext, StartTurn, LookAtMailbox, DropRequest, AcceptRequest,
     ReturnFinished, SkipWorker, PreemptWorker, NothingToDispatch, WorkerNext, vars

LEMMA MailStep == ASSUME IInv, [Next]_vars PROVE MailInv'
<1> USE DEF netVars, mailVars, loopVars, queueVars, timerVars, slotVars, workVars
<1>1. TypeOK /\ MailInv /\ NetInv
  BY DEF IInv
<1>2. /\ cnt \in Nat /\ free_cnt \in Nat /\ ni \in Nat /\ ni >= 1
      /\ cnt <= Batch /\ free_cnt <= Batch /\ Batch \in Nat
  BY <1>1, Sizes DEF TypeOK
<1>3. \A i \in Pending : i \in Slots /\ types[i] \in Types /\ kind[reqs[i]] # Null
  <2>1. Pending \subseteq Slots
    BY <1>2, Sizes DEF Pending
  <2>2. QED
    BY <1>1, <2>1, Sizes DEF MailInv, TypeOK
<1>4. \A i \in Pending : reqs[i] \in Tasks /\ kind'[reqs[i]] = types[i]
  BY <1>1, <1>3, KindKept DEF MailInv
<1>5. CASE UNCHANGED <<mailVars, dpc, ni>>
  <2>1. Pending' = Pending
    BY <1>5 DEF Pending
  <2>2. QED
    BY <1>1, <1>4, <1>5, <2>1 DEF MailInv
<1>6. ASSUME UNCHANGED mailVars, dpc # "accept", dpc' # "accept" PROVE MailInv'
  <2>1. Pending' = Pending
    BY <1>6 DEF Pending
  <2>2. QED
    BY <1>1, <1>4, <1>6, <2>1 DEF MailInv
<1>7. CASE PostBatch
  <2>1. recv_mbufs \in Seq(Tasks) /\ Len(recv_mbufs) \in 0..Batch
    BY <1>1, Sizes DEF TypeOK, NetInv
  <2>2. PICK n \in 0..Len(recv_mbufs) : \E f \in [1..n -> 1..Len(recv_mbufs)] :
          Batched(recv_mbufs, n, f)
    BY <2>1, CompletedBatch
  <2>3. PICK d \in Seq(Tasks) : d = Completed(recv_mbufs) /\ Len(d) = n
    BY <2>2 DEF Batched
  <2>4. cnt' = n /\ free_cnt' = 0 /\ kind' = kind /\ dpc' = dpc /\ cnt = 0
    BY <1>7, <2>3 DEF PostBatch
  <2>5. dpc # "accept" /\ Pending' = 1..n /\ n \in 0..Batch
    BY <1>1, <2>1, <2>4, Sizes DEF MailInv, Pending
  <2>6. ASSUME NEW i \in 1..n PROVE reqs'[i] = d[i] /\ types'[i] = kind[d[i]]
    <3>1. i \in Slots /\ i <= n /\ n \in Nat
      BY <2>5, Sizes
    <3>2. /\ CompletedTypes(recv_mbufs) = [k \in 1..n |-> kind[d[k]]]
          /\ CompletedTypes(recv_mbufs)[i] = kind[d[i]]
      BY <2>3 DEF CompletedTypes
    <3>3. reqs' = [k \in Slots |-> IF k <= Len(d) THEN d[k] ELSE reqs[k]]
      BY <1>7, <2>3 DEF PostBatch, Place
    <3>4. types' = [k \in Slots |-> IF k <= n THEN CompletedTypes(recv_mbufs)[k] ELSE types[k]]
      <4>1. Len(CompletedTypes(recv_mbufs)) = n
        BY <2>3, <3>1, <3>2
      <4>2. QED
        BY <1>7, <4>1 DEF PostBatch, Place
    <3>5. QED
      BY <2>3, <3>1, <3>2, <3>3, <3>4
  <2>7. \A i \in 1..n : d[i] \in Tasks
    BY <2>3
  <2>8. QED
    BY <2>4, <2>5, <2>6, <2>7 DEF MailInv
<1>8. CASE LookAtMailbox
  <2>1. /\ dpc # "accept" /\ ni' = 1 /\ UNCHANGED <<kind, mailVars>>
        /\ dpc' = IF cnt = 0 THEN "clock" ELSE "accept"
    BY <1>8 DEF LookAtMailbox
  <2>2. Pending' = Pending
    BY <1>2, <2>1 DEF Pending
  <2>3. QED
    BY <1>1, <1>2, <2>1, <2>2 DEF MailInv
<1>9. CASE DropRequest \/ AcceptRequest
  <2>1. /\ dpc = "accept" /\ dpc' = "accept" /\ ni' = ni + 1 /\ ni <= cnt
        /\ UNCHANGED <<kind, mailVars>>
    BY <1>9 DEF DropRequest, AcceptRequest
  <2>2. Pending' \subseteq Pending
    BY <1>2, <2>1 DEF Pending
  <2>3. QED
    BY <1>1, <1>2, <2>1, <2>2 DEF MailInv
<1>10. CASE ReturnFinished
  <2>1. frqueue \in Seq(Tasks) /\ Len(frqueue) \in Nat
    BY <1>1 DEF TypeOK
  <2>2. PICK n \in 0..Len(frqueue) : n = AtMostBatch(Len(frqueue)) /\ n \in 0..Batch
    BY <2>1, BatchSize
  <2>3. /\ cnt' = 0 /\ dpc' = "clock" /\ free_cnt' = free_cnt + n
        /\ dpc = "accept" /\ reqs' = Place(SubSeq(frqueue, 1, n), reqs)
    BY <1>10, <2>2 DEF ReturnFinished
  <2>4. free_cnt' = n /\ Pending' = {}
    BY <1>1, <1>2, <2>2, <2>3 DEF MailInv, Pending
  <2>5. ASSUME NEW i \in 1..n PROVE reqs'[i] \in Tasks
    <3>1. /\ Len(SubSeq(frqueue, 1, n)) = n /\ SubSeq(frqueue, 1, n)[i] = frqueue[i]
          /\ frqueue[i] \in Tasks
      BY <2>1, <2>2, Split
    <3>2. i \in Slots /\ i <= n
      BY <2>2, Sizes
    <3>3. QED
      BY <2>3, <3>1, <3>2 DEF Place
  <2>6. QED
    BY <2>3, <2>4, <2>5 DEF MailInv
<1>11. QED
  BY <1>5, <1>6, <1>7, <1>8, <1>9, <1>10 DEF Next, SendPacket, NetworkerNext, Receive,
     DispatcherNext, StartTurn, SkipWorker, PreemptWorker, HandleFinished, HandlePreempted,
     NothingToDispatch, DispatchRequest, NextTurn, AtWorker, WorkerNext, TakeRequest,
     PreemptHandler, SendReply, FinishRequest, vars

LEMMA NetStep == ASSUME IInv, [Next]_vars PROVE NetInv'
<1> USE DEF netVars, mailVars, loopVars, queueVars, timerVars, slotVars, workVars
<1>1. TypeOK /\ NetInv /\ rxq \in Seq(Tasks) /\ recv_mbufs \in Seq(Tasks)
  BY DEF IInv, TypeOK
<1>2. \A t \in Tasks : kind[t] \in Types => kind'[t] \in Types
  <2>1. \A t \in Tasks : kind[t] \in Types => kind'[t] = kind[t]
    BY <1>1, KindKept, Sizes
  <2>2. QED
    BY <2>1
<1>3. /\ \A i \in 1..Len(rxq) : kind'[rxq[i]] \in Types
      /\ \A i \in 1..Len(recv_mbufs) : kind'[recv_mbufs[i]] \in Types
  BY <1>1, <1>2 DEF NetInv
<1>4. CASE UNCHANGED <<rxq, recv_mbufs, npc>>
  BY <1>1, <1>3, <1>4 DEF NetInv
<1>5. ASSUME NEW y \in Types, SendPacket(y) PROVE NetInv'
  <2>1. PICK t \in Tasks : /\ kind'[t] = y /\ rxq' \in {rxq, Append(rxq, t)}
                           /\ UNCHANGED <<recv_mbufs, npc>>
    BY <1>1, <1>5 DEF SendPacket, TypeOK
  <2>2. CASE rxq' = Append(rxq, t)
    <3>1. PICK n \in Nat : n = Len(rxq)
      BY <1>1
    <3>2. /\ Len(rxq') = n + 1 /\ rxq'[n + 1] = t
          /\ \A i \in 1..n : rxq'[i] = rxq[i]
      BY <1>1, <2>2, <3>1, Appended
    <3>3. \A i \in 1..(n + 1) : i = n + 1 \/ i \in 1..n
      OBVIOUS
    <3>4. \A i \in 1..(n + 1) : kind'[rxq'[i]] \in Types
      BY <1>3, <2>1, <3>1, <3>2, <3>3
    <3>5. QED
      BY <1>1, <1>3, <2>1, <3>2, <3>4 DEF NetInv
  <2>3. QED
    BY <1>4, <2>1, <2>2
<1>6. CASE Receive
  <2>1. PICK n \in 0..Len(rxq) : n = AtMostBatch(Len(rxq)) /\ n \in 0..Batch
    BY <1>1, BatchSize
  <2>2. /\ Len(recv_mbufs') = n /\ \A i \in 1..n : recv_mbufs'[i] = rxq[i]
        /\ Len(rxq') = Len(rxq) - n
        /\ \A i \in 1..(Len(rxq) - n) : rxq'[i] = rxq[i + n]
        /\ npc' = "wait"
    BY <1>1, <1>6, <2>1, Split DEF Receive
  <2>3. PICK l \in Nat : l = Len(rxq)
    BY <1>1
  <2>4. /\ \A i \in 1..n : i \in 1..l
        /\ \A i \in 1..(l - n) : i + n \in 1..l
    BY <2>1, <2>3
  <2>5. n <= Batch
    BY <2>1, Sizes
  <2>6. QED
    BY <1>3, <2>2, <2>3, <2>4, <2>5 DEF NetInv
<1>7. CASE PostBatch
  <2>1. recv_mbufs' = <<>> /\ rxq' = rxq
    BY <1>7 DEF PostBatch
  <2>2. QED
    BY <1>3, <2>1, Sizes DEF NetInv
<1>8. QED
  BY <1>4, <1>5, <1>6, <1>7 DEF Next, NetworkerNext, DispatcherNext, StartTurn,
     LookAtMailbox, DropRequest, AcceptRequest, ReturnFinished, SkipWorker, PreemptWorker,
     HandleFinished, HandlePreempted, NothingToDispatch, DispatchRequest, WorkerNext,
     TakeRequest, PreemptHandler, SendReply, FinishRequest, vars

-----------------------------------------------------------------------------
(* What is in a queue or with a worker, after a step.                       *)

LEMMA EntriesKept ==
  ASSUME UNCHANGED <<tskq, dispatcher_requests>>,
         \A w \in Workers : InService(w)' <=> InService(w)
  PROVE  \A e : Entry(e)' <=> Entry(e)
  BY DEF Entry

\* HandleFinished.
LEMMA FinishedEntries ==
  ASSUME TypeOK, SlotInv, NEW w \in Workers, HandleFinished(w)
  PROVE  /\ \A e : Entry(e)' => Entry(e)
         /\ \A e : Entry(e) => Entry(e)' \/ e = dispatcher_requests[w]
         /\ \A v \in Workers : InService(v)' <=> InService(v) /\ v # w
<1>1. /\ UNCHANGED <<tskq, dispatcher_requests>>
      /\ response_flag' = [response_flag EXCEPT ![w] = "PROCESSED"]
  BY DEF HandleFinished, Processed
<1>2. \A v \in Workers : InService(v)' <=> InService(v) /\ v # w
  BY <1>1 DEF InService, TypeOK
<1>3. QED
  BY <1>1, <1>2 DEF Entry

\* HandlePreempted: one queue has the task of the slot.
LEMMA PreemptedEntries ==
  ASSUME TypeOK, SlotInv, NEW w \in Workers, HandlePreempted(w)
  PROVE  \E e \in Runnable :
           /\ e = worker_responses[w] /\ e.type \in Types
           /\ \A f : Entry(f)' => Entry(f) \/ f = e
           /\ \A f : Entry(f) => Entry(f)' \/ f = dispatcher_requests[w]
           /\ Entry(e)'
           /\ \A v \in Workers : InService(v)' <=> InService(v) /\ v # w
           /\ \A y \in Types : y # e.type => tskq'[y] = tskq[y]
           /\ tskq'[e.type] = Requeued(e)
<1>1. PICK e \in Runnable : e = worker_responses[w]
  BY TakeResponse DEF HandlePreempted
<1>2. /\ dispatcher_requests' = dispatcher_requests
      /\ response_flag' = [response_flag EXCEPT ![w] = "PROCESSED"]
      /\ tskq' = [tskq EXCEPT ![e.type] = Requeued(e)]
  BY <1>1 DEF HandlePreempted, Processed
<1>3. \A v \in Workers : InService(v)' <=> InService(v) /\ v # w
  BY <1>2 DEF InService, TypeOK
<1>4. e.type \in Types
  BY DEF Runnable
<1>5. tskq'[e.type] = Requeued(e) /\ \A y \in Types : y # e.type => tskq'[y] = tskq[y]
  BY <1>2, <1>4 DEF TypeOK
<1>6. PICK n \in Nat : n = Len(tskq[e.type])
  BY <1>4 DEF TypeOK
<1>7. /\ n \in Nat /\ Len(Requeued(e)) = n + 1
      /\ \/ /\ Requeued(e)[1] = e
            /\ \A i \in 2..(n + 1) : Requeued(e)[i] = tskq[e.type][i - 1]
         \/ /\ Requeued(e)[n + 1] = e
            /\ \A i \in 1..n : Requeued(e)[i] = tskq[e.type][i]
  <2>1. n \in Nat /\ Len(Requeued(e)) = n + 1
    BY <1>6, RequeueTask
  <2>2. CASE HeadFirst[e.type]
    <3>1. Requeued(e)[1] = e /\ \A i \in 2..(n + 1) : Requeued(e)[i] = tskq[e.type][i - 1]
      BY <1>6, <2>2, RequeuedFirst
    <3>2. QED
      BY <2>1, <3>1
  <2>3. CASE ~HeadFirst[e.type]
    <3>1. Requeued(e)[n + 1] = e /\ \A i \in 1..n : Requeued(e)[i] = tskq[e.type][i]
      BY <1>6, <2>3, RequeuedLast
    <3>2. QED
      BY <2>1, <3>1
  <2>4. QED
    BY <2>2, <2>3
<1>8. /\ \E i \in 1..(n + 1) : Requeued(e)[i] = e
      /\ \A i \in 1..(n + 1) : Requeued(e)[i] = e \/ \E j \in 1..n : Requeued(e)[i] = tskq[e.type][j]
      /\ \A j \in 1..n : \E i \in 1..(n + 1) : Requeued(e)[i] = tskq[e.type][j]
  <2>1. CASE /\ Requeued(e)[1] = e
             /\ \A i \in 2..(n + 1) : Requeued(e)[i] = tskq[e.type][i - 1]
    <3>1. /\ 1 \in 1..(n + 1)
          /\ \A i \in 1..(n + 1) : i = 1 \/ (i \in 2..(n + 1) /\ i - 1 \in 1..n)
          /\ \A j \in 1..n : j + 1 \in 2..(n + 1) /\ j + 1 \in 1..(n + 1) /\ (j + 1) - 1 = j
      BY <1>7
    <3>2. QED
      BY <2>1, <3>1
  <2>2. CASE /\ Requeued(e)[n + 1] = e
             /\ \A i \in 1..n : Requeued(e)[i] = tskq[e.type][i]
    <3>1. /\ n + 1 \in 1..(n + 1)
          /\ \A i \in 1..(n + 1) : i = n + 1 \/ i \in 1..n
          /\ \A i \in 1..n : i \in 1..(n + 1)
      BY <1>7
    <3>2. QED
      BY <2>2, <3>1
  <2>3. QED
    BY <1>7, <2>1, <2>2
<1>9. ASSUME NEW f, Entry(f)' PROVE Entry(f) \/ f = e
  <2>1. CASE \E y \in Types : \E i \in 1..Len(tskq'[y]) : f = tskq'[y][i]
    <3>1. PICK y \in Types : \E i \in 1..Len(tskq'[y]) : f = tskq'[y][i]
      BY <2>1
    <3>2. CASE y = e.type
      <4>1. \E i \in 1..(n + 1) : f = Requeued(e)[i]
        BY <1>5, <1>7, <3>1, <3>2
      <4>2. f = e \/ \E j \in 1..n : f = tskq[e.type][j]
        BY <1>8, <4>1
      <4>3. QED
        BY <1>4, <1>6, <4>2 DEF Entry
    <3>3. QED
      BY <1>5, <3>1, <3>2 DEF Entry
  <2>2. CASE \E v \in Workers : InService(v)' /\ f = dispatcher_requests'[v]
    BY <1>2, <1>3, <2>2 DEF Entry
  <2>3. QED
    BY <1>9, <2>1, <2>2 DEF Entry
<1>10. ASSUME NEW f, Entry(f) PROVE Entry(f)' \/ f = dispatcher_requests[w]
  <2>1. CASE \E y \in Types : \E i \in 1..Len(tskq[y]) : f = tskq[y][i]
    <3>1. PICK y \in Types : \E i \in 1..Len(tskq[y]) : f = tskq[y][i]
      BY <2>1
    <3>2. CASE y = e.type
      <4>1. PICK j \in 1..n : f = tskq[e.type][j]
        BY <1>6, <3>1, <3>2
      <4>2. \E i \in 1..(n + 1) : f = Requeued(e)[i]
        BY <1>8, <4>1
      <4>3. \E i \in 1..Len(tskq'[e.type]) : f = tskq'[e.type][i]
        BY <1>5, <1>7, <4>2
      <4>4. QED
        BY <1>4, <4>3 DEF Entry
    <3>3. QED
      BY <1>5, <3>1, <3>2 DEF Entry
  <2>2. CASE \E v \in Workers : InService(v) /\ f = dispatcher_requests[v]
    BY <1>2, <1>3, <2>2 DEF Entry
  <2>3. QED
    BY <1>10, <2>1, <2>2 DEF Entry
<1>11. Entry(e)'
  <2>1. \E i \in 1..Len(tskq'[e.type]) : e = tskq'[e.type][i]
    BY <1>5, <1>7, <1>8
  <2>2. QED
    BY <1>4, <2>1 DEF Entry
<1> WITNESS e \in Runnable
<1>12. QED
  BY <1>1, <1>3, <1>4, <1>5, <1>9, <1>10, <1>11

\* DispatchRequest: the head of one queue is in the slot.
LEMMA DispatchedEntries ==
  ASSUME TypeOK, NEW w \in Workers, DispatchRequest(w)
  PROVE  /\ \A f : Entry(f)' <=> Entry(f)
         /\ \A v \in Workers : InService(v)' <=> InService(v) \/ v = w
         /\ ~InService(w)
         /\ \E y \in Types :
              /\ SmartQueue(y) /\ tskq[y] # <<>>
              /\ tskq'[y] = Tail(tskq[y]) /\ \A z \in Types : z # y => tskq'[z] = tskq[z]
              /\ dispatcher_requests'[w] = tskq[y][1]
              /\ \A v \in Workers : v # w => dispatcher_requests'[v] = dispatcher_requests[v]
<1>1. PICK y \in Types :
        /\ SmartQueue(y) /\ tskq[y] # <<>>
        /\ dispatcher_requests' = [dispatcher_requests EXCEPT ![w] = Head(tskq[y])]
        /\ tskq' = [tskq EXCEPT ![y] = Tail(@)]
  BY DEF DispatchRequest, SmartQueue
<1>2. /\ tskq'[y] = Tail(tskq[y]) /\ \A z \in Types : z # y => tskq'[z] = tskq[z]
      /\ dispatcher_requests'[w] = Head(tskq[y])
      /\ \A v \in Workers : v # w => dispatcher_requests'[v] = dispatcher_requests[v]
  BY <1>1 DEF TypeOK
<1>3. /\ ~InService(w)
      /\ \A v \in Workers : InService(v)' <=> InService(v) \/ v = w
  BY DEF DispatchRequest, InService, TypeOK
<1>4. PICK n : n = Len(tskq[y])
  OBVIOUS
<1>5. /\ n \in Nat \ {0} /\ Head(tskq[y]) = tskq[y][1] /\ Len(Tail(tskq[y])) = n - 1
      /\ \A i \in 1..(n - 1) : Tail(tskq[y])[i] = tskq[y][i + 1]
  BY <1>1, <1>4, TakeTask
<1>6. /\ \A i \in 1..n : i = 1 \/ (i - 1 \in 1..(n - 1) /\ (i - 1) + 1 = i)
      /\ \A i \in 1..(n - 1) : i + 1 \in 1..n
      /\ 1 \in 1..n
  BY <1>5
<1>7. ASSUME NEW f, Entry(f)' PROVE Entry(f)
  <2>1. CASE \E z \in Types : \E i \in 1..Len(tskq'[z]) : f = tskq'[z][i]
    <3>1. PICK z \in Types : \E i \in 1..Len(tskq'[z]) : f = tskq'[z][i]
      BY <2>1
    <3>2. CASE z = y
      <4>1. Len(tskq'[y]) = n - 1 /\ \A i \in 1..(n - 1) : tskq'[y][i] = tskq[y][i + 1]
        BY <1>2, <1>5
      <4>2. PICK i \in 1..(n - 1) : f = tskq[y][i + 1]
        BY <3>1, <3>2, <4>1
      <4>3. QED
        BY <1>4, <1>6, <4>2 DEF Entry
    <3>3. QED
      BY <1>2, <3>1, <3>2 DEF Entry
  <2>2. CASE \E v \in Workers : InService(v)' /\ f = dispatcher_requests'[v]
    BY <1>2, <1>3, <1>4, <1>5, <1>6, <2>2 DEF Entry
  <2>3. QED
    BY <1>7, <2>1, <2>2 DEF Entry
<1>8. ASSUME NEW f, Entry(f) PROVE Entry(f)'
  <2>1. CASE \E z \in Types : \E i \in 1..Len(tskq[z]) : f = tskq[z][i]
    <3>1. PICK z \in Types : \E i \in 1..Len(tskq[z]) : f = tskq[z][i]
      BY <2>1
    <3>2. PICK i \in 1..Len(tskq[z]) : f = tskq[z][i]
      BY <3>1
    <3>3. CASE z = y /\ i = 1
      BY <1>2, <1>3, <1>5, <3>2, <3>3 DEF Entry
    <3>4. CASE z = y /\ i # 1
      <4>1. i - 1 \in 1..(n - 1) /\ f = Tail(tskq[y])[i - 1]
        BY <1>4, <1>5, <1>6, <3>2, <3>4
      <4>2. QED
        BY <1>2, <1>5, <4>1 DEF Entry
    <3>5. QED
      BY <1>2, <3>1, <3>3, <3>4 DEF Entry
  <2>2. CASE \E v \in Workers : InService(v) /\ f = dispatcher_requests[v]
    BY <1>2, <1>3, <2>2 DEF Entry
  <2>3. QED
    BY <1>8, <2>1, <2>2 DEF Entry
<1>9. QED
  BY <1>1, <1>2, <1>3, <1>5, <1>7, <1>8

\* AcceptRequest: one queue has a new task at its end.
LEMMA AcceptedEntries ==
  ASSUME TypeOK, MailInv, AcceptRequest
  PROVE  \E c \in freeCtx : \E e \in Runnable :
           /\ e = [rnbl |-> c, req |-> reqs[ni], type |-> types[ni], category |-> "PACKET",
                   timestamp |-> cur_time]
           /\ freeCtx' = freeCtx \ {c} /\ types[ni] \in Types
           /\ tskq'[types[ni]] = Append(tskq[types[ni]], e)
           /\ \A y \in Types : y # types[ni] => tskq'[y] = tskq[y]
           /\ \A f : Entry(f)' <=> Entry(f) \/ f = e
<1>1. PICK c \in freeCtx : \E e \in Runnable :
        /\ e = [rnbl |-> c, req |-> reqs[ni], type |-> types[ni], category |-> "PACKET",
                timestamp |-> cur_time]
        /\ tskq' = [tskq EXCEPT ![types[ni]] = Enqueued(e)]
        /\ freeCtx' = freeCtx \ {c}
  BY NewTask DEF AcceptRequest, TypeOK
<1>2. PICK e \in Runnable :
        /\ e = [rnbl |-> c, req |-> reqs[ni], type |-> types[ni], category |-> "PACKET",
                timestamp |-> cur_time]
        /\ tskq' = [tskq EXCEPT ![types[ni]] = Enqueued(e)]
        /\ freeCtx' = freeCtx \ {c}
  BY <1>1
<1>3. types[ni] \in Types /\ e.type = types[ni]
  BY <1>2, NewTask DEF AcceptRequest
<1>4. /\ tskq'[types[ni]] = Append(tskq[types[ni]], e)
      /\ \A y \in Types : y # types[ni] => tskq'[y] = tskq[y]
  BY <1>2, <1>3 DEF Enqueued, TypeOK
<1>5. PICK n : n = Len(tskq[types[ni]])
  OBVIOUS
<1>6. /\ n \in Nat /\ Len(tskq'[types[ni]]) = n + 1 /\ tskq'[types[ni]][n + 1] = e
      /\ \A i \in 1..n : tskq'[types[ni]][i] = tskq[types[ni]][i]
  <2>1. tskq[types[ni]] \in Seq(Runnable)
    BY <1>3 DEF TypeOK
  <2>2. QED
    BY <1>4, <1>5, <2>1, Appended
<1>7. n + 1 \in 1..(n + 1) /\ \A i \in 1..(n + 1) : i \in 1..n \/ i = n + 1
  BY <1>6
<1>8. \A i \in 1..n : i \in 1..(n + 1)
  BY <1>6
<1>9. UNCHANGED dispatcher_requests /\ \A v \in Workers : InService(v)' <=> InService(v)
  BY DEF AcceptRequest, slotVars, InService
<1>10. ASSUME NEW f PROVE Entry(f)' <=> Entry(f) \/ f = e
  <2>1. (\E y \in Types : \E i \in 1..Len(tskq'[y]) : f = tskq'[y][i])
          <=> (\E y \in Types : \E i \in 1..Len(tskq[y]) : f = tskq[y][i]) \/ f = e
    <3>1. ASSUME NEW y \in Types, y # types[ni]
          PROVE  (\E i \in 1..Len(tskq'[y]) : f = tskq'[y][i])
                   <=> \E i \in 1..Len(tskq[y]) : f = tskq[y][i]
      BY <1>4, <3>1
    <3>2. (\E i \in 1..(n + 1) : f = tskq'[types[ni]][i])
            <=> (\E i \in 1..n : f = tskq[types[ni]][i]) \/ f = e
      BY <1>6, <1>7, <1>8
    <3>3. QED
      BY <1>3, <1>5, <1>6, <3>1, <3>2
  <2>2. QED
    BY <1>9, <2>1 DEF Entry
<1>11. QED
  BY <1>2, <1>3, <1>4, <1>10

\* A step that leaves queues, slots and contexts as they are.
Still ==
  /\ UNCHANGED <<tskq, dispatcher_requests, job, freeCtx, queue_length>>
  /\ \A w \in Workers : InService(w)' <=> InService(w)

LEMMA StillOrMoves ==
  ASSUME IInv, [Next]_vars
  PROVE  \/ Still \/ AcceptRequest
         \/ \E w \in Workers : \/ HandleFinished(w) \/ HandlePreempted(w)
                               \/ DispatchRequest(w) \/ TakeRequest(w)
<1> USE DEF netVars, mailVars, loopVars, queueVars, timerVars, slotVars, workVars
<1>1. TypeOK /\ SlotInv
  BY DEF IInv
<1>2. ASSUME UNCHANGED <<tskq, dispatcher_requests, job, freeCtx, queue_length, response_flag>>
      PROVE  Still
  BY <1>2 DEF Still, InService
<1>3. ASSUME NEW w \in Workers, FinishRequest(w) PROVE Still
  <2>1. /\ UNCHANGED <<tskq, dispatcher_requests, job, freeCtx, queue_length>>
        /\ wpc[w] = "done" /\ response_flag' = [response_flag EXCEPT ![w] = Outcome(w)]
    BY <1>3 DEF FinishRequest, Goto
  <2>2. InService(w) /\ Outcome(w) # "PROCESSED"
    BY <1>1, <2>1 DEF SlotInv, SlotOf, InService, Outcome
  <2>3. QED
    BY <1>1, <2>1, <2>2 DEF Still, InService, TypeOK
<1>4. QED
  BY <1>2, <1>3 DEF Next, SendPacket, NetworkerNext, Receive, PostBatch, DispatcherNext,
     StartTurn, LookAtMailbox, DropRequest, ReturnFinished, SkipWorker, PreemptWorker,
     NothingToDispatch, WorkerNext, PreemptHandler, SendReply, vars

LEMMA StillEntries == ASSUME Still PROVE \A e : Entry(e)' <=> Entry(e)
  BY DEF Still, Entry

LEMMA EntryRunnable ==
  ASSUME TypeOK, SlotInv, NEW e, Entry(e)
  PROVE  /\ e \in Runnable /\ e.req \in Tasks /\ e.rnbl \in Contexts /\ e.type \in Types
         /\ e.category \in {"PACKET", "CONTEXT"} /\ e.timestamp \in Time
<1>1. \A y \in Types : \A i \in 1..Len(tskq[y]) : tskq[y][i] \in Runnable
  BY DEF TypeOK
<1>2. \A w \in Workers : InService(w) => dispatcher_requests[w] \in Runnable
  BY DEF SlotInv, SlotOf
<1>3. e \in Runnable
  BY <1>1, <1>2 DEF Entry
<1>4. QED
  BY <1>3 DEF Runnable

LEMMA EntryStep == ASSUME IInv, [Next]_vars PROVE EntryInv'
<1>1. TypeOK /\ SlotInv /\ MailInv /\ EntryInv /\ ContextInv
  BY DEF IInv
<1>2. ASSUME NEW e \in Runnable, kind[e.req] = e.type PROVE kind'[e.req] = e.type
  BY <1>1, <1>2, KindKept, Sizes DEF Runnable
<1>3. ASSUME NEW e, Entry(e), job'[e.rnbl] = job[e.rnbl] PROVE Linked(e)'
  <2>1. e \in Runnable /\ Linked(e)
    BY <1>1, <1>3, EntryRunnable DEF EntryInv
  <2>2. QED
    BY <1>2, <1>3, <2>1 DEF Linked
<1>4. CASE Still
  <2>1. \A e : job'[e.rnbl] = job[e.rnbl]
    BY <1>4 DEF Still
  <2>2. QED
    BY <1>3, <1>4, <2>1, StillEntries DEF EntryInv
<1>5. ASSUME NEW w \in Workers, HandleFinished(w) PROVE EntryInv'
  BY <1>1, <1>3, <1>5, FinishedEntries DEF EntryInv, HandleFinished, workVars
<1>6. ASSUME NEW w \in Workers, HandlePreempted(w) PROVE EntryInv'
  <2>1. job' = job
    BY <1>6 DEF HandlePreempted, workVars
  <2>2. PICK e \in Runnable :
          e = worker_responses[w] /\ \A f : Entry(f)' => Entry(f) \/ f = e
    BY <1>1, <1>6, PreemptedEntries
  <2>3. /\ e.req = dispatcher_requests[w].req /\ e.rnbl = dispatcher_requests[w].rnbl
        /\ e.type = dispatcher_requests[w].type /\ InService(w)
        /\ job[dispatcher_requests[w].rnbl] = dispatcher_requests[w].req
    BY <1>1, <1>6, <2>2, TakeResponse DEF HandlePreempted
  <2>4. Entry(dispatcher_requests[w])
    BY <2>3 DEF Entry
  <2>5. Linked(e)'
    BY <1>1, <1>2, <2>1, <2>3, <2>4 DEF EntryInv, Linked
  <2>6. QED
    BY <1>3, <2>1, <2>2, <2>5 DEF EntryInv
<1>7. ASSUME NEW w \in Workers, DispatchRequest(w) PROVE EntryInv'
  BY <1>1, <1>3, <1>7, DispatchedEntries DEF EntryInv, DispatchRequest, workVars
<1>8. CASE AcceptRequest
  <2>1. job' = job
    BY <1>8 DEF AcceptRequest, workVars
  <2>2. PICK c \in freeCtx : \E e \in Runnable :
          /\ e = [rnbl |-> c, req |-> reqs[ni], type |-> types[ni], category |-> "PACKET",
                   timestamp |-> cur_time]
          /\ \A f : Entry(f)' <=> Entry(f) \/ f = e
    BY <1>1, <1>8, AcceptedEntries
  <2>3. PICK e \in Runnable :
          /\ e = [rnbl |-> c, req |-> reqs[ni], type |-> types[ni], category |-> "PACKET",
                   timestamp |-> cur_time]
          /\ \A f : Entry(f)' <=> Entry(f) \/ f = e
    BY <2>2
  <2>4. kind[e.req] = e.type /\ e.category = "PACKET"
    BY <1>1, <1>8, <2>3, NewTask DEF AcceptRequest
  <2>5. Linked(e)'
    BY <1>2, <2>4 DEF Linked
  <2>6. QED
    BY <1>3, <2>1, <2>3, <2>5 DEF EntryInv
<1>9. ASSUME NEW w \in Workers, TakeRequest(w) PROVE EntryInv'
  <2>1. /\ InService(w) /\ dispatcher_requests[w] \in Runnable
        /\ \A v \in Workers : InService(v)' <=> InService(v)
        /\ UNCHANGED <<tskq, dispatcher_requests>>
    BY <1>1, <1>9 DEF TakeRequest, SlotInv, SlotOf, InService, slotVars, queueVars
  <2>2. Entry(dispatcher_requests[w]) /\ dispatcher_requests[w].rnbl \in Contexts
    BY <2>1 DEF Entry, Runnable
  <2>3. \A e : Entry(e)' <=> Entry(e)
    BY <2>1, EntriesKept
  <2>4. ASSUME NEW e, Entry(e) PROVE Linked(e)'
    <3>1. CASE e.rnbl = dispatcher_requests[w].rnbl
      <4>1. e.req = dispatcher_requests[w].req /\ e \in Runnable /\ Linked(e)
        BY <1>1, <2>2, <2>4, <3>1, EntryRunnable DEF ContextInv, EntryInv
      <4>2. job'[e.rnbl] = dispatcher_requests[w].req \/ job'[e.rnbl] = job[e.rnbl]
        BY <1>1, <1>9, <2>2, <3>1 DEF TakeRequest, TypeOK
      <4>3. QED
        BY <1>2, <4>1, <4>2 DEF Linked
    <3>2. CASE e.rnbl # dispatcher_requests[w].rnbl
      <4>1. job'[e.rnbl] = job[e.rnbl]
        BY <1>1, <1>9, <2>4, <3>2, EntryRunnable DEF TakeRequest, TypeOK
      <4>2. QED
        BY <1>3, <2>4, <4>1
    <3>3. QED
      BY <3>1, <3>2
  <2>5. QED
    BY <2>3, <2>4 DEF EntryInv
<1>10. QED
  BY <1>4, <1>5, <1>6, <1>7, <1>8, <1>9, StillOrMoves

\* The same tasks hold the same contexts.
LEMMA ContextsKept ==
  ASSUME ContextInv, freeCtx' = freeCtx,
         \A e : Entry(e)' => \E f : Entry(f) /\ f.rnbl = e.rnbl /\ f.req = e.req,
         \A f : Entry(f) => \E e : Entry(e)' /\ e.rnbl = f.rnbl
  PROVE  ContextInv'
<1>1. \A e : Entry(e)' => e.rnbl \notin freeCtx
  BY DEF ContextInv
<1>2. ASSUME NEW e, NEW f, Entry(e)', Entry(f)', e.rnbl = f.rnbl PROVE e.req = f.req
  <2>1. PICK d : Entry(d) /\ d.rnbl = e.rnbl /\ d.req = e.req
    BY <1>2
  <2>2. PICK g : Entry(g) /\ g.rnbl = f.rnbl /\ g.req = f.req
    BY <1>2
  <2>3. QED
    BY <1>2, <2>1, <2>2 DEF ContextInv
<1>3. ASSUME NEW c \in Contexts \ freeCtx PROVE \E e : Entry(e)' /\ e.rnbl = c
  BY DEF ContextInv
<1>4. QED
  BY <1>1, <1>2, <1>3 DEF ContextInv

LEMMA ContextStep == ASSUME IInv, [Next]_vars PROVE ContextInv'
<1>1. TypeOK /\ SlotInv /\ MailInv /\ ContextInv /\ TaskInv
  BY DEF IInv
<1>2. CASE Still
  BY <1>1, <1>2, ContextsKept, StillEntries DEF Still
<1>3. ASSUME NEW w \in Workers, HandleFinished(w) PROVE ContextInv'
  <2>1. /\ InService(w) /\ dispatcher_requests[w] \in Runnable
        /\ worker_responses[w].rnbl = dispatcher_requests[w].rnbl
    BY <1>1, <1>3, TakeResponse DEF HandleFinished
  <2>2. PICK s : s = dispatcher_requests[w] /\ Entry(s)
    BY <2>1 DEF Entry
  <2>3. /\ \A e : Entry(e)' => Entry(e)
        /\ \A e : Entry(e) => Entry(e)' \/ e = s
        /\ \A v \in Workers : InService(v)' <=> InService(v) /\ v # w
        /\ freeCtx' = freeCtx \cup {s.rnbl} /\ UNCHANGED <<tskq, dispatcher_requests>>
    BY <1>1, <1>3, <2>1, <2>2, FinishedEntries DEF HandleFinished, Processed
  <2>4. ASSUME NEW e, Entry(e)', e.rnbl = s.rnbl PROVE FALSE
    <3>1. e.req = s.req /\ s.req \in Tasks
      BY <1>1, <2>1, <2>2, <2>3, <2>4 DEF ContextInv, Runnable
    <3>2. TaskAt(s.req, "core", w, 0)
      BY <2>1, <2>2 DEF TaskAt, InCore
    <3>3. Alone(s.req, "core", w, 0)
      BY <1>1, <3>1, <3>2, Found DEF Lodged
    <3>4. CASE \E y \in Types : \E i \in 1..Len(tskq[y]) : e = tskq[y][i]
      BY <3>1, <3>3, <3>4 DEF Alone, InQueue
    <3>5. CASE \E v \in Workers : InService(v) /\ v # w /\ e = dispatcher_requests[v]
      BY <3>1, <3>3, <3>5 DEF Alone, InCore
    <3>6. QED
      BY <2>3, <2>4, <3>4, <3>5 DEF Entry
  <2>5. \A e : Entry(e)' => e.rnbl \notin freeCtx'
    BY <1>1, <2>3, <2>4 DEF ContextInv
  <2>6. ASSUME NEW c \in Contexts \ freeCtx' PROVE \E e : Entry(e)' /\ e.rnbl = c
    BY <1>1, <2>3, <2>6 DEF ContextInv
  <2>7. QED
    BY <1>1, <2>3, <2>5, <2>6 DEF ContextInv
<1>4. ASSUME NEW w \in Workers, HandlePreempted(w) PROVE ContextInv'
  <2>1. PICK e \in Runnable :
          /\ e = worker_responses[w] /\ \A f : Entry(f)' => Entry(f) \/ f = e
          /\ \A f : Entry(f) => Entry(f)' \/ f = dispatcher_requests[w]
          /\ Entry(e)'
    BY <1>1, <1>4, PreemptedEntries
  <2>2. /\ e.req = dispatcher_requests[w].req /\ e.rnbl = dispatcher_requests[w].rnbl
        /\ InService(w)
    BY <1>1, <1>4, <2>1, TakeResponse DEF HandlePreempted
  <2>3. Entry(dispatcher_requests[w])
    BY <2>2 DEF Entry
  <2>4. freeCtx' = freeCtx
    BY <1>4 DEF HandlePreempted
  <2>5. \A f : Entry(f)' => \E g : Entry(g) /\ g.rnbl = f.rnbl /\ g.req = f.req
    BY <2>1, <2>2, <2>3
  <2>6. \A f : Entry(f) => \E g : Entry(g)' /\ g.rnbl = f.rnbl
    BY <2>1, <2>2
  <2>7. QED
    BY <1>1, <2>4, <2>5, <2>6, ContextsKept
<1>5. ASSUME NEW w \in Workers, DispatchRequest(w) PROVE ContextInv'
  <2>1. freeCtx' = freeCtx /\ \A e : Entry(e)' <=> Entry(e)
    BY <1>1, <1>5, DispatchedEntries DEF DispatchRequest
  <2>2. QED
    BY <1>1, <2>1, ContextsKept
<1>6. CASE AcceptRequest
  <2>1. PICK c \in freeCtx : \E e \in Runnable :
          /\ e = [rnbl |-> c, req |-> reqs[ni], type |-> types[ni], category |-> "PACKET",
                   timestamp |-> cur_time]
          /\ freeCtx' = freeCtx \ {c}
          /\ \A f : Entry(f)' <=> Entry(f) \/ f = e
    BY <1>1, <1>6, AcceptedEntries
  <2>2. PICK e \in Runnable :
          /\ e.rnbl = c /\ freeCtx' = freeCtx \ {c}
          /\ \A f : Entry(f)' <=> Entry(f) \/ f = e
    BY <2>1
  <2>3. \A f : Entry(f) => f.rnbl # c
    BY <1>1 DEF ContextInv
  <2>4. \A f : Entry(f)' => f.rnbl \notin freeCtx'
    BY <1>1, <2>2 DEF ContextInv
  <2>5. \A f, g : Entry(f)' /\ Entry(g)' /\ f.rnbl = g.rnbl => f.req = g.req
    BY <1>1, <2>2, <2>3 DEF ContextInv
  <2>6. \A b \in Contexts \ freeCtx' : \E f : Entry(f)' /\ f.rnbl = b
    BY <1>1, <2>2 DEF ContextInv
  <2>7. QED
    BY <2>4, <2>5, <2>6 DEF ContextInv
<1>7. ASSUME NEW w \in Workers, TakeRequest(w) PROVE ContextInv'
  <2>1. \A e : Entry(e)' <=> Entry(e)
    BY <1>7, EntriesKept DEF TakeRequest, queueVars, InService
  <2>2. freeCtx' = freeCtx
    BY <1>7 DEF TakeRequest, queueVars
  <2>3. QED
    BY <1>1, <2>1, <2>2, ContextsKept
<1>8. QED
  BY <1>2, <1>3, <1>4, <1>5, <1>6, <1>7, StillOrMoves

LEMMA LengthStep == ASSUME IInv, [Next]_vars PROVE LengthInv'
<1> USE DEF netVars, mailVars, loopVars, queueVars, timerVars, slotVars, workVars
<1>1. TypeOK /\ SlotInv /\ MailInv /\ LengthInv
  BY DEF IInv
<1>2. ASSUME NEW y \in Types
      PROVE  /\ IsFiniteSet(Serving(y)) /\ Cardinality(Serving(y)) \in Nat
             /\ Len(tskq[y]) \in Nat /\ tskq[y] \in Seq(Runnable)
             /\ queue_length[y] = Len(tskq[y]) + Cardinality(Serving(y))
  <2>1. IsFiniteSet(Serving(y))
    BY Sizes, FS_Subset DEF Serving
  <2>2. QED
    BY <1>1, <2>1, FS_CardinalityType DEF TypeOK, LengthInv
<1>3. ASSUME UNCHANGED <<tskq, dispatcher_requests, queue_length>>,
             \A w \in Workers : InService(w)' <=> InService(w)
      PROVE  LengthInv'
  <2>1. \A y \in Types : Serving(y)' = Serving(y)
    BY <1>3 DEF Serving
  <2>2. QED
    BY <1>1, <1>3, <2>1 DEF LengthInv
<1>4. ASSUME NEW w \in Workers, HandleFinished(w) PROVE LengthInv'
  <2>1. /\ InService(w) /\ dispatcher_requests[w] \in Runnable
        /\ worker_responses[w].type = dispatcher_requests[w].type
    BY <1>1, <1>4, TakeResponse DEF HandleFinished
  <2>2. PICK u \in Types : u = dispatcher_requests[w].type
    BY <2>1 DEF Runnable
  <2>3. /\ \A v \in Workers : InService(v)' <=> InService(v) /\ v # w
        /\ UNCHANGED <<tskq, dispatcher_requests>>
        /\ queue_length' = [queue_length EXCEPT ![u] = @ - 1]
    BY <1>1, <1>4, <2>1, <2>2, FinishedEntries DEF HandleFinished, Processed
  <2>4. w \in Serving(u) /\ Serving(u)' = Serving(u) \ {w}
    BY <2>1, <2>2, <2>3 DEF Serving
  <2>5. Cardinality(Serving(u)') = Cardinality(Serving(u)) - 1
    BY <1>2, <2>4, FS_RemoveElement
  <2>6. ASSUME NEW y \in Types
        PROVE  queue_length'[y] = Len(tskq'[y]) + Cardinality(Serving(y)')
    <3>1. CASE y = u
      BY <1>1, <1>2, <2>3, <2>5, <3>1 DEF TypeOK
    <3>2. CASE y # u
      <4>1. Serving(y)' = Serving(y)
        BY <2>2, <2>3, <3>2 DEF Serving
      <4>2. QED
        BY <1>1, <1>2, <2>3, <3>2, <4>1 DEF TypeOK
    <3>3. QED
      BY <3>1, <3>2
  <2>7. QED
    BY <2>6 DEF LengthInv
<1>5. ASSUME NEW w \in Workers, HandlePreempted(w) PROVE LengthInv'
  <2>1. PICK e \in Runnable :
          /\ e = worker_responses[w] /\ e.type \in Types
          /\ \A v \in Workers : InService(v)' <=> InService(v) /\ v # w
          /\ \A y \in Types : y # e.type => tskq'[y] = tskq[y]
          /\ tskq'[e.type] = Requeued(e)
    BY <1>1, <1>5, PreemptedEntries
  <2>2. PICK u \in Types : u = e.type
    BY <2>1
  <2>3. u = dispatcher_requests[w].type /\ InService(w)
    BY <1>1, <1>5, <2>1, <2>2, TakeResponse DEF HandlePreempted
  <2>4. UNCHANGED <<dispatcher_requests, queue_length>>
    BY <1>5 DEF HandlePreempted, Processed
  <2>5. w \in Serving(u) /\ Serving(u)' = Serving(u) \ {w}
    BY <2>1, <2>3, <2>4 DEF Serving
  <2>6. Cardinality(Serving(u)') = Cardinality(Serving(u)) - 1
    BY <1>2, <2>5, FS_RemoveElement
  <2>7. Len(tskq'[u]) = Len(tskq[u]) + 1
    <3>1. PICK n \in Nat : n = Len(tskq[e.type])
      BY <1>2, <2>1
    <3>2. Len(Requeued(e)) = n + 1
      BY <1>1, <3>1, RequeueTask
    <3>3. QED
      BY <2>1, <2>2, <3>1, <3>2
  <2>8. ASSUME NEW y \in Types
        PROVE  queue_length'[y] = Len(tskq'[y]) + Cardinality(Serving(y)')
    <3>1. CASE y = u
      BY <1>2, <2>4, <2>6, <2>7, <3>1
    <3>2. CASE y # u
      <4>1. Serving(y)' = Serving(y)
        BY <2>1, <2>3, <2>4, <3>2 DEF Serving
      <4>2. QED
        BY <1>2, <2>1, <2>2, <2>4, <3>2, <4>1
    <3>3. QED
      BY <3>1, <3>2
  <2>9. QED
    BY <2>8 DEF LengthInv
<1>6. ASSUME NEW w \in Workers, DispatchRequest(w) PROVE LengthInv'
  <2>1. /\ \A v \in Workers : InService(v)' <=> InService(v) \/ v = w
        /\ ~InService(w) /\ queue_length' = queue_length
    BY <1>1, <1>6, DispatchedEntries DEF DispatchRequest
  <2>2. PICK u \in Types :
          /\ tskq[u] # <<>>
          /\ tskq'[u] = Tail(tskq[u]) /\ \A z \in Types : z # u => tskq'[z] = tskq[z]
          /\ dispatcher_requests'[w] = tskq[u][1]
          /\ \A v \in Workers : v # w => dispatcher_requests'[v] = dispatcher_requests[v]
    BY <1>1, <1>6, DispatchedEntries
  <2>3. tskq[u][1].type = u /\ Len(tskq'[u]) = Len(tskq[u]) - 1
    BY <1>1, <2>2, TakeTask
  <2>4. w \notin Serving(u) /\ Serving(u)' = Serving(u) \cup {w}
    BY <2>1, <2>2, <2>3 DEF Serving
  <2>5. Cardinality(Serving(u)') = Cardinality(Serving(u)) + 1
    BY <1>2, <2>4, FS_AddElement
  <2>6. ASSUME NEW y \in Types
        PROVE  queue_length'[y] = Len(tskq'[y]) + Cardinality(Serving(y)')
    <3>1. CASE y = u
      BY <1>2, <2>1, <2>3, <2>5, <3>1
    <3>2. CASE y # u
      <4>1. Serving(y)' = Serving(y)
        BY <2>1, <2>2, <2>3, <3>2 DEF Serving
      <4>2. QED
        BY <1>2, <2>1, <2>2, <3>2, <4>1
    <3>3. QED
      BY <3>1, <3>2
  <2>7. QED
    BY <2>6 DEF LengthInv
<1>7. CASE AcceptRequest
  <2>1. PICK e \in Runnable :
          /\ types[ni] \in Types
          /\ tskq'[types[ni]] = Append(tskq[types[ni]], e)
          /\ \A y \in Types : y # types[ni] => tskq'[y] = tskq[y]
    BY <1>1, <1>7, AcceptedEntries
  <2>2. PICK u \in Types : u = types[ni]
    BY <2>1
  <2>3. Len(tskq'[u]) = Len(tskq[u]) + 1
    BY <1>2, <2>1, <2>2, Appended
  <2>4. /\ queue_length'[u] = queue_length[u] + 1
        /\ \A y \in Types : y # u => queue_length'[y] = queue_length[y]
    BY <1>1, <1>7, <2>2 DEF AcceptRequest, TypeOK
  <2>5. \A y \in Types : Serving(y)' = Serving(y)
    BY <1>7 DEF AcceptRequest, Serving, InService
  <2>6. ASSUME NEW y \in Types
        PROVE  queue_length'[y] = Len(tskq'[y]) + Cardinality(Serving(y)')
    <3>1. CASE y = u
      <4>1. PICK c \in Nat : c = Cardinality(Serving(u))
        BY <1>2
      <4>2. PICK l \in Nat : l = Len(tskq[u])
        BY <1>2
      <4>3. queue_length[u] = l + c /\ Len(tskq'[u]) = l + 1 /\ Cardinality(Serving(u)') = c
        BY <1>2, <2>3, <2>5, <4>1, <4>2
      <4>4. QED
        BY <2>4, <3>1, <4>3
    <3>2. CASE y # u
      BY <1>2, <2>1, <2>2, <2>4, <2>5, <3>2
    <3>3. QED
      BY <3>1, <3>2
  <2>7. QED
    BY <2>6 DEF LengthInv
<1>8. ASSUME NEW w \in Workers, TakeRequest(w) PROVE LengthInv'
  BY <1>3, <1>8 DEF TakeRequest, InService
<1>9. QED
  BY <1>3, <1>4, <1>5, <1>6, <1>7, <1>8, StillOrMoves DEF Still

-----------------------------------------------------------------------------
(* Where the tasks are after a step.                                        *)

LEMMA Unmoved ==
  ASSUME NEW t
  PROVE  /\ UNCHANGED rxq => RxKept(t)
         /\ UNCHANGED recv_mbufs => RecvKept(t)
         /\ UNCHANGED <<reqs, cnt, dpc, ni>> => MailKept(t)
         /\ UNCHANGED <<reqs, free_cnt>> => ReturnKept(t)
         /\ UNCHANGED frqueue => FreeKept(t)
         /\ UNCHANGED tskq => QueueKept(t)
         /\ UNCHANGED <<dispatcher_requests, response_flag>> => CoreKept(t)
         /\ UNCHANGED <<response_flag, wpc, finished>> => DueKept(t)
         /\ UNCHANGED <<kind, answered, lost, live>> => FateKept(t)
<1>1. UNCHANGED rxq => RxKept(t)
  BY DEF RxKept, InRx
<1>2. UNCHANGED recv_mbufs => RecvKept(t)
  BY DEF RecvKept, InRecv
<1>3. UNCHANGED <<reqs, cnt, dpc, ni>> => MailKept(t)
  BY DEF MailKept, InMail, Pending
<1>4. UNCHANGED <<reqs, free_cnt>> => ReturnKept(t)
  BY DEF ReturnKept, InReturn
<1>5. UNCHANGED frqueue => FreeKept(t)
  BY DEF FreeKept, InFree
<1>6. UNCHANGED tskq => QueueKept(t)
  BY DEF QueueKept, InQueue
<1>7. UNCHANGED <<dispatcher_requests, response_flag>> => CoreKept(t)
  BY DEF CoreKept, InCore, InService
<1>8. UNCHANGED <<response_flag, wpc, finished>> => DueKept(t)
  BY DEF DueKept, Unanswered, InService
<1>9. UNCHANGED <<kind, answered, lost, live>> => FateKept(t)
  BY DEF FateKept, Fates
<1>10. QED
  BY <1>1, <1>2, <1>3, <1>4, <1>5, <1>6, <1>7, <1>8, <1>9

\* A task that goes to another place, with the same fate.
LEMMA TaskMoves ==
  ASSUME NEW t, NEW x, NEW y, NEW z \in Nat, NEW u, NEW v, NEW i \in Nat,
         Lodged(t, x, y, z), Alone(t, u, v, i)', TaskAt(t, u, v, i)', FateKept(t),
         u \in {"rx", "recv", "nowhere"} <=> x \in {"rx", "recv", "nowhere"},
         x # "nowhere", Due(u, v)' <=> Due(x, y)
  PROVE  Lodged(t, u, v, i)'
<1>1. Alive(t, u)'
  BY DEF Lodged, Alive, FateKept
<1>2. FateAt(t, u, v)'
  <2>1. Sent(t)' <=> Sent(t)
    BY DEF Sent, FateKept
  <2>2. QED
    BY <2>1 DEF Lodged, FateAt, FateKept
<1>3. QED
  BY <1>1, <1>2 DEF Lodged

\* A task has no fate until it is answered or lost.
LEMMA SentOnce ==
  ASSUME TypeOK, NEW t \in Tasks
  PROVE  /\ answered[t] \in Nat /\ Fates(t) \in Nat
         /\ Fates(t) = 0 <=> answered[t] = 0 /\ t \notin lost
  BY DEF TypeOK, Fates

LEMMA SendTasks ==
  ASSUME IInv, NEW p \in Types, SendPacket(p) PROVE TaskInv'
<1> USE DEF netVars, mailVars, loopVars, queueVars, timerVars, slotVars, workVars
<1>1. TypeOK /\ TaskInv /\ rxq \in Seq(Tasks)
  BY DEF IInv, TypeOK
<1>2. PICK c \in Tasks :
        /\ kind[c] = Null /\ kind' = [kind EXCEPT ![c] = p]
        /\ \/ rxq' = Append(rxq, c) /\ UNCHANGED lost
           \/ lost' = lost \cup {c} /\ UNCHANGED rxq
        /\ UNCHANGED <<npc, recv_mbufs, live, answered, mailVars, loopVars, queueVars,
                       timerVars, slotVars, ipi, workVars>>
  BY DEF SendPacket
<1>3. PICK n \in Nat : n = Len(rxq)
  BY <1>1
<1>4. ASSUME NEW t \in Tasks
      PROVE  /\ RecvKept(t) /\ MailKept(t) /\ ReturnKept(t) /\ FreeKept(t)
             /\ QueueKept(t) /\ CoreKept(t) /\ DueKept(t)
  BY <1>2, Unmoved
<1>5. ASSUME NEW t \in Tasks, t # c
      PROVE  RxKept(t) /\ FateKept(t)
  <2>1. FateKept(t)
    BY <1>1, <1>2, <1>5 DEF FateKept, Fates, TypeOK
  <2>2. CASE rxq' = Append(rxq, c)
    <3>1. /\ Len(rxq') = n + 1 /\ rxq'[n + 1] = c /\ \A i \in 1..n : rxq'[i] = rxq[i]
      BY <1>1, <1>3, <2>2, Appended
    <3>2. \A i \in Nat : i \in 1..(n + 1) <=> (i \in 1..n \/ i = n + 1)
      BY <1>3
    <3>3. QED
      BY <1>3, <1>5, <2>1, <3>1, <3>2 DEF RxKept, InRx
  <2>3. QED
    BY <1>2, <2>1, <2>2, Unmoved
<1>6. ASSUME NEW t \in Tasks PROVE \E x, y : \E z \in Nat : Lodged(t, x, y, z)'
  <2>1. PICK x, y : \E z \in Nat : Lodged(t, x, y, z)
    BY <1>1 DEF TaskInv
  <2>2. PICK z \in Nat : Lodged(t, x, y, z)
    BY <2>1
  <2>3. CASE t # c
    BY <1>4, <1>5, <2>2, <2>3, TaskStays
  <2>4. CASE t = c
    <3>1. /\ x = "nowhere" /\ Fates(c) = 0 /\ Alone(c, "nowhere", y, z) /\ c \notin live
          /\ live' = live
      BY <1>2, <2>2, <2>4 DEF Lodged, FateAt, Alive
    <3>2. kind'[c] = p /\ p # Null
      BY <1>1, <1>2, Sizes DEF TypeOK
    <3>3. CASE rxq' = Append(rxq, c) /\ UNCHANGED lost
      <4>1. /\ Len(rxq') = n + 1 /\ rxq'[n + 1] = c /\ \A i \in 1..n : rxq'[i] = rxq[i]
        BY <1>1, <1>3, <3>3, Appended
      <4>2. \A i \in Nat : i \in 1..(n + 1) <=> (i \in 1..n \/ i = n + 1)
        BY <1>3
      <4>3. \A i \in Nat : InRx(c, i)' <=> i = n + 1
        BY <1>3, <3>1, <4>1, <4>2 DEF Alone, InRx
      <4>4. Alone(c, "rx", 0, n + 1)'
        BY <1>4, <3>1, <4>3 DEF Alone, RecvKept, MailKept, ReturnKept, FreeKept, QueueKept, CoreKept
      <4>5. TaskAt(c, "rx", 0, n + 1)'
        BY <4>3 DEF TaskAt
      <4>6. Fates(c)' = 0
        BY <1>2, <3>1, <3>3 DEF Fates
      <4>7. Lodged(c, "rx", 0, n + 1)'
        BY <3>1, <3>2, <4>4, <4>5, <4>6 DEF Lodged, Alive, FateAt, Due
      <4>8. QED
        BY <2>4, <4>7
    <3>4. CASE lost' = lost \cup {c} /\ UNCHANGED rxq
      <4>1. RxKept(c)
        BY <3>4, Unmoved
      <4>2. Alone(c, "nowhere", y, z)'
        BY <1>4, <3>1, <4>1 DEF Alone, RxKept, RecvKept, MailKept, ReturnKept, FreeKept,
           QueueKept, CoreKept
      <4>3. Fates(c)' = 1
        BY <1>1, <1>2, <3>1, <3>4, SentOnce DEF Fates
      <4>4. Lodged(c, "nowhere", y, z)'
        BY <3>1, <3>2, <4>2, <4>3 DEF Lodged, Alive, FateAt, Due
      <4>5. QED
        BY <2>4, <4>4
    <3>5. QED
      BY <1>2, <3>3, <3>4
  <2>5. QED
    BY <2>3, <2>4
<1>7. QED
  BY <1>6 DEF TaskInv

LEMMA ReceiveTasks ==
  ASSUME IInv, Receive PROVE TaskInv'
<1> USE DEF netVars, mailVars, loopVars, queueVars, timerVars, slotVars, workVars
<1>1. TypeOK /\ TaskInv /\ NetInv /\ rxq \in Seq(Tasks)
  BY DEF IInv, TypeOK
<1>2. PICK l \in Nat : l = Len(rxq)
  BY <1>1
<1>3. PICK n \in 0..l : n = AtMostBatch(l)
  BY <1>2, BatchSize
<1>4. /\ Len(recv_mbufs') = n /\ \A i \in 1..n : recv_mbufs'[i] = rxq[i]
      /\ Len(rxq') = l - n /\ \A i \in 1..(l - n) : rxq'[i] = rxq[i + n]
  BY <1>1, <1>2, <1>3, Split DEF Receive
<1>5. n \in Nat /\ n <= l
  BY <1>2, <1>3
<1>6. ASSUME NEW t \in Tasks
      PROVE  /\ MailKept(t) /\ ReturnKept(t) /\ FreeKept(t)
             /\ QueueKept(t) /\ CoreKept(t) /\ DueKept(t) /\ FateKept(t)
  BY Unmoved DEF Receive
<1>7. ASSUME NEW t \in Tasks, NEW z \in Nat
      PROVE  /\ ~InRecv(t, z)
             /\ InRecv(t, z)' <=> InRx(t, z) /\ z <= n
             /\ InRx(t, z)' <=> z >= 1 /\ InRx(t, z + n)
  <2>1. ~InRecv(t, z)
    BY <1>1 DEF Receive, NetInv, InRecv
  <2>2. /\ z \in 1..n <=> z \in 1..l /\ z <= n
        /\ z \in 1..(l - n) <=> z >= 1 /\ z + n \in 1..l
    BY <1>2, <1>5
  <2>3. InRecv(t, z)' <=> InRx(t, z) /\ z <= n
    BY <1>2, <1>4, <2>2 DEF InRecv, InRx
  <2>4. InRx(t, z)' <=> z >= 1 /\ InRx(t, z + n)
    BY <1>2, <1>4, <2>2 DEF InRx
  <2>5. QED
    BY <2>1, <2>3, <2>4
<1>8. ASSUME NEW t \in Tasks PROVE \E x, y : \E z \in Nat : Lodged(t, x, y, z)'
  <2>1. PICK x, y : \E z \in Nat : Lodged(t, x, y, z)
    BY <1>1 DEF TaskInv
  <2>2. PICK z \in Nat : Lodged(t, x, y, z)
    BY <2>1
  <2>3. CASE x = "rx"
    <3>1. Alone(t, "rx", 0, z) /\ InRx(t, z) /\ y = 0
      BY <2>2, <2>3 DEF Lodged, TaskAt
    <3>2. \A i \in Nat : i + n \in Nat /\ (i + n = z <=> i = z - n)
      BY <1>5
    <3>3. CASE z <= n
      <4>1. \A i \in Nat : ~InRx(t, i)'
        BY <1>5, <1>7, <3>1, <3>2, <3>3 DEF Alone
      <4>2. \A i \in Nat : InRecv(t, i)' => i = z
        BY <1>7, <3>1 DEF Alone
      <4>3. Alone(t, "recv", 0, z)'
        BY <1>6, <3>1, <4>1, <4>2 DEF Alone, MailKept, ReturnKept, FreeKept, QueueKept, CoreKept
      <4>4. TaskAt(t, "recv", 0, z)'
        BY <1>7, <3>1, <3>3 DEF TaskAt
      <4>5. Lodged(t, "recv", 0, z)'
        BY <1>6, <2>2, <2>3, <4>3, <4>4, TaskMoves DEF Due
      <4>6. QED
        BY <4>5
    <3>4. CASE z > n
      <4>1. PICK j \in Nat : j = z - n /\ j >= 1 /\ j + n = z
        BY <1>5, <3>4
      <4>2. \A i \in Nat : InRx(t, i)' => i = j
        BY <1>5, <1>7, <3>1, <3>2, <4>1 DEF Alone
      <4>3. \A i \in Nat : ~InRecv(t, i)'
        BY <1>5, <1>7, <3>1, <3>4 DEF Alone
      <4>4. Alone(t, "rx", 0, j)'
        BY <1>6, <3>1, <4>2, <4>3 DEF Alone, MailKept, ReturnKept, FreeKept, QueueKept, CoreKept
      <4>5. TaskAt(t, "rx", 0, j)'
        BY <1>7, <3>1, <4>1 DEF TaskAt
      <4>6. Lodged(t, "rx", 0, j)'
        BY <1>6, <2>2, <2>3, <4>4, <4>5, TaskMoves DEF Due
      <4>7. QED
        BY <4>6
    <3>5. QED
      BY <1>5, <3>3, <3>4
  <2>4. CASE x # "rx"
    <3>1. \A i \in Nat : ~InRx(t, i) /\ i + n \in Nat
      BY <1>5, <2>2, <2>4 DEF Lodged, Alone
    <3>2. RxKept(t) /\ RecvKept(t)
      BY <1>7, <3>1 DEF RxKept, RecvKept
    <3>3. QED
      BY <1>6, <2>2, <3>2, TaskStays
  <2>5. QED
    BY <2>3, <2>4
<1>9. QED
  BY <1>8 DEF TaskInv

LEMMA PostTasks ==
  ASSUME IInv, PostBatch PROVE TaskInv'
<1> USE DEF netVars, mailVars, loopVars, queueVars, timerVars, slotVars, workVars
<1>1. TypeOK /\ TaskInv /\ NetInv /\ MailInv /\ recv_mbufs \in Seq(Tasks)
      /\ Len(recv_mbufs) \in 0..Batch
  <2>1. TypeOK /\ TaskInv /\ NetInv /\ MailInv
    BY DEF IInv
  <2>2. recv_mbufs \in Seq(Tasks)
    BY <2>1 DEF TypeOK
  <2>3. Len(recv_mbufs) \in 0..Batch
    BY <2>1, <2>2, Sizes DEF NetInv
  <2>4. QED
    BY <2>1, <2>2, <2>3
<1>2. PICK n \in 0..Len(recv_mbufs) : \E f \in [1..n -> 1..Len(recv_mbufs)] :
        Batched(recv_mbufs, n, f)
  BY <1>1, CompletedBatch
<1>3. PICK f \in [1..n -> 1..Len(recv_mbufs)] : Batched(recv_mbufs, n, f)
  BY <1>2
<1>4. PICK d \in Seq(Tasks) : d = Completed(recv_mbufs) /\ Len(d) = n
  BY <1>3 DEF Batched
<1>5. n \in Nat /\ n <= Batch /\ Len(recv_mbufs) \in Nat
  BY <1>1, <1>2, Sizes
<1>6. /\ cnt = 0 /\ cnt' = n /\ free_cnt' = 0 /\ recv_mbufs' = <<>>
      /\ reqs' = Place(d, reqs) /\ dpc # "accept" /\ dpc' = dpc
      /\ live' = (live \ {reqs[i] : i \in 1..free_cnt}) \cup {d[i] : i \in DOMAIN d}
  BY <1>1, <1>4 DEF PostBatch, MailInv
<1>7. /\ \A k \in 1..n : f[k] \in 1..Len(recv_mbufs) /\ recv_mbufs[f[k]] = d[k]
      /\ \A j, k \in 1..n : f[j] = f[k] => j = k
      /\ \A i \in 1..Len(recv_mbufs) : recv_mbufs[i] \notin Fragments <=> \E k \in 1..n : f[k] = i
  BY <1>3, <1>4 DEF Batched
<1>8. \A k \in 1..n : k \in Slots /\ reqs'[k] = d[k]
  BY <1>4, <1>5, <1>6, Sizes DEF Place
<1>9. ASSUME NEW t \in Tasks
      PROVE  /\ RxKept(t) /\ FreeKept(t) /\ QueueKept(t) /\ CoreKept(t) /\ DueKept(t)
             /\ \A z \in Nat : /\ ~InRecv(t, z)' /\ ~InReturn(t, z)' /\ ~InMail(t, z)
                               /\ InMail(t, z)' <=> z \in 1..n /\ d[z] = t
             /\ t \in live' <=> \/ t \in live /\ ~\E z \in Nat : InReturn(t, z)
                                \/ \E z \in 1..n : d[z] = t
             /\ kind'[t] = kind[t] /\ Fates(t)' = Fates(t)
  <2>1. RxKept(t) /\ FreeKept(t) /\ QueueKept(t) /\ CoreKept(t) /\ DueKept(t)
    BY Unmoved DEF PostBatch
  <2>2. ASSUME NEW z \in Nat
        PROVE  /\ ~InRecv(t, z)' /\ ~InReturn(t, z)' /\ ~InMail(t, z)
               /\ InMail(t, z)' <=> z \in 1..n /\ d[z] = t
    <3>1. /\ ~InRecv(t, z)' /\ ~InReturn(t, z)'
      BY <1>6 DEF InRecv, InReturn
    <3>2. Pending = 1..0 /\ Pending' = 1..n
      BY <1>6 DEF Pending
    <3>3. ~InMail(t, z) /\ (InMail(t, z)' <=> z \in 1..n /\ d[z] = t)
      BY <1>8, <3>2 DEF InMail
    <3>4. QED
      BY <3>1, <3>3
  <2>3. /\ t \in live' <=> \/ t \in live /\ ~\E z \in Nat : InReturn(t, z)
                           \/ \E z \in 1..n : d[z] = t
    <3>1. free_cnt \in Nat
      BY <1>1, Sizes DEF TypeOK
    <3>2. t \in {reqs[i] : i \in 1..free_cnt} <=> \E z \in Nat : InReturn(t, z)
      BY <3>1 DEF InReturn
    <3>3. DOMAIN d = 1..n
      BY <1>4
    <3>4. QED
      BY <1>6, <3>2, <3>3
  <2>4. kind'[t] = kind[t] /\ Fates(t)' = Fates(t)
    BY DEF PostBatch, Fates
  <2>5. QED
    BY <2>1, <2>2, <2>3, <2>4
<1>10. ASSUME NEW t \in Tasks, NEW k \in 1..n, d[k] = t PROVE InRecv(t, f[k]) /\ f[k] \in Nat
  BY <1>5, <1>7, <1>10 DEF InRecv
<1>11. ASSUME NEW t \in Tasks PROVE \E x, y : \E z \in Nat : Lodged(t, x, y, z)'
  <2>1. PICK x, y : \E z \in Nat : Lodged(t, x, y, z)
    BY <1>1 DEF TaskInv
  <2>2. PICK z \in Nat : Lodged(t, x, y, z)
    BY <2>1
  <2>3. CASE x = "recv"
    <3>1. /\ Alone(t, "recv", 0, z) /\ y = 0 /\ z \in 1..Len(recv_mbufs) /\ recv_mbufs[z] = t
          /\ t \notin live /\ FateAt(t, "recv", 0)
      BY <2>2, <2>3 DEF Lodged, TaskAt, InRecv, Alive
    <3>2. CASE t \in Fragments
      <4>1. ~\E k \in 1..n : d[k] = t
        <5>1. ASSUME NEW k \in 1..n, d[k] = t PROVE FALSE
          BY <1>7, <3>2, <5>1
        <5>2. QED
          BY <5>1
      <4>2. Alone(t, "nowhere", 0, z)'
        BY <1>9, <3>1, <4>1 DEF Alone, RxKept, FreeKept, QueueKept, CoreKept
      <4>3. Alive(t, "nowhere")'
        BY <1>9, <3>1, <4>1 DEF Alive
      <4>4. FateAt(t, "nowhere", 0)'
        BY <1>9, <3>1, <3>2 DEF FateAt, Sent
      <4>5. Lodged(t, "nowhere", 0, z)'
        BY <4>2, <4>3, <4>4 DEF Lodged
      <4>6. QED
        BY <4>5
    <3>3. CASE t \notin Fragments
      <4>1. PICK k \in 1..n : f[k] = z
        BY <1>7, <3>1, <3>3
      <4>2. d[k] = t /\ k \in Nat
        BY <1>5, <1>7, <3>1, <4>1
      <4>3. \A i \in Nat : InMail(t, i)' => i = k
        BY <1>7, <1>9, <1>10, <3>1, <4>1 DEF Alone
      <4>4. Alone(t, "mailbox", 0, k)'
        BY <1>9, <3>1, <4>3 DEF Alone, RxKept, FreeKept, QueueKept, CoreKept
      <4>5. TaskAt(t, "mailbox", 0, k)'
        BY <1>9, <4>2 DEF TaskAt
      <4>6. Alive(t, "mailbox")'
        BY <1>9, <4>2 DEF Alive
      <4>7. FateAt(t, "mailbox", 0)'
        BY <1>9, <3>1 DEF FateAt, Sent, Due
      <4>8. Lodged(t, "mailbox", 0, k)'
        BY <4>4, <4>5, <4>6, <4>7 DEF Lodged
      <4>9. QED
        BY <4>2, <4>8
    <3>4. QED
      BY <3>2, <3>3
  <2>4. CASE x # "recv"
    <3>1. ~\E k \in 1..n : d[k] = t
      BY <1>10, <2>2, <2>4 DEF Lodged, Alone
    <3>2. /\ \A i \in Nat : ~InMail(t, i)' /\ ~InMail(t, i)
          /\ \A i \in Nat : ~InRecv(t, i)' /\ ~InRecv(t, i)
          /\ t \in live' <=> t \in live /\ ~\E i \in Nat : InReturn(t, i)
      BY <1>9, <2>2, <2>4, <3>1 DEF Lodged, Alone
    <3>3. CASE x = "returned"
      <4>1. /\ Alone(t, "returned", 0, z) /\ InReturn(t, z) /\ FateAt(t, "returned", 0)
        BY <2>2, <3>3 DEF Lodged, TaskAt
      <4>2. Alone(t, "nowhere", 0, z)'
        BY <1>9, <3>2, <4>1 DEF Alone, RxKept, FreeKept, QueueKept, CoreKept
      <4>3. Alive(t, "nowhere")'
        BY <3>2, <4>1 DEF Alive
      <4>4. FateAt(t, "nowhere", 0)'
        BY <1>9, <4>1 DEF FateAt, Sent, Due
      <4>5. Lodged(t, "nowhere", 0, z)'
        BY <4>2, <4>3, <4>4 DEF Lodged
      <4>6. QED
        BY <4>5
    <3>4. CASE x # "returned"
      <4>1. \A i \in Nat : ~InReturn(t, i)' /\ ~InReturn(t, i)
        BY <1>9, <2>2, <3>4 DEF Lodged, Alone
      <4>2. RecvKept(t) /\ MailKept(t) /\ ReturnKept(t) /\ FateKept(t)
        BY <1>9, <3>2, <4>1 DEF RecvKept, MailKept, ReturnKept, FateKept
      <4>3. QED
        BY <1>9, <2>2, <4>2, TaskStays
    <3>5. QED
      BY <3>3, <3>4
  <2>5. QED
    BY <2>3, <2>4
<1>12. QED
  BY <1>11 DEF TaskInv

\* A request put at the head of frqueue.
LEMMA FreedPlaces ==
  ASSUME TypeOK, NEW r \in Tasks, frqueue' = <<r>> \o frqueue, NEW t \in Tasks, NEW z \in Nat
  PROVE  InFree(t, z)' <=> \/ z = 1 /\ t = r
                           \/ z >= 2 /\ z - 1 \in Nat /\ InFree(t, z - 1)
<1>1. frqueue \in Seq(Tasks)
  BY DEF TypeOK
<1>2. PICK l \in Nat : l = Len(frqueue)
  BY <1>1
<1>3. /\ Len(frqueue') = l + 1 /\ frqueue'[1] = r
      /\ \A i \in 2..(l + 1) : frqueue'[i] = frqueue[i - 1]
  BY <1>1, <1>2, Prepended
<1>4. z \in 1..(l + 1) <=> z = 1 \/ z \in 2..(l + 1)
  BY <1>2
<1>5. z \in 2..(l + 1) <=> z >= 2 /\ z - 1 \in Nat /\ z - 1 \in 1..l
  BY <1>2
<1>6. z >= 2 => z # 1
  OBVIOUS
<1>7. QED
  BY <1>2, <1>3, <1>4, <1>5, <1>6 DEF InFree

\* The other requests there move by one place.
LEMMA TaskPushed ==
  ASSUME NEW t \in Tasks, NEW x, NEW y, NEW z \in Nat, Lodged(t, x, y, z),
         RxKept(t), RecvKept(t), MailKept(t), ReturnKept(t), QueueKept(t), CoreKept(t),
         DueKept(t), FateKept(t),
         \A i \in Nat : InFree(t, i)' <=> i >= 2 /\ i - 1 \in Nat /\ InFree(t, i - 1)
  PROVE  \E u, v : \E i \in Nat : Lodged(t, u, v, i)'
<1>1. CASE x = "frqueue"
  <2>1. Alone(t, "frqueue", 0, z) /\ y = 0 /\ InFree(t, z) /\ z >= 1
    BY <1>1 DEF Lodged, TaskAt, InFree
  <2>2. /\ z + 1 \in Nat /\ z + 1 >= 2 /\ (z + 1) - 1 = z
        /\ \A i \in Nat : i - 1 = z <=> i = z + 1
    BY <2>1
  <2>3. \A i \in Nat : InFree(t, i)' <=> i = z + 1
    BY <2>1, <2>2 DEF Alone
  <2>4. Alone(t, "frqueue", 0, z + 1)'
    BY <2>1, <2>3 DEF Alone, RxKept, RecvKept, MailKept, ReturnKept, QueueKept, CoreKept
  <2>5. TaskAt(t, "frqueue", 0, z + 1)'
    BY <2>2, <2>3 DEF TaskAt
  <2>6. Lodged(t, "frqueue", 0, z + 1)'
    BY <1>1, <2>2, <2>4, <2>5, TaskMoves DEF Due
  <2>7. QED
    BY <2>2, <2>6
<1>2. CASE x # "frqueue"
  <2>1. \A i \in Nat : ~InFree(t, i)
    BY <1>2 DEF Lodged, Alone
  <2>2. FreeKept(t)
    BY <2>1 DEF FreeKept
  <2>3. QED
    BY <2>2, TaskStays
<1>3. QED
  BY <1>1, <1>2

LEMMA FinishTasks ==
  ASSUME IInv, NEW w \in Workers, HandleFinished(w) PROVE TaskInv'
<1> USE DEF netVars, mailVars, loopVars, queueVars, timerVars, slotVars, workVars
<1>1. TypeOK /\ TaskInv /\ SlotInv
  BY DEF IInv
<1>2. /\ InService(w) /\ dispatcher_requests[w] \in Runnable
      /\ worker_responses[w].req = dispatcher_requests[w].req
  BY <1>1, TakeResponse DEF HandleFinished
<1>3. PICK r \in Tasks : r = dispatcher_requests[w].req
  BY <1>2 DEF Runnable
<1>4. /\ frqueue' = <<r>> \o frqueue
      /\ UNCHANGED <<netVars, answered, lost, mailVars, loopVars, tskq, dispatcher_requests,
                     workVars>>
      /\ response_flag' = [response_flag EXCEPT ![w] = "PROCESSED"]
      /\ response_flag[w] = "FINISHED"
  BY <1>2, <1>3 DEF HandleFinished, Processed
<1>5. /\ \A v \in Workers : InService(v)' <=> InService(v) /\ v # w
      /\ \A v \in Workers : v # w => (Unanswered(v)' <=> Unanswered(v))
      /\ ~Unanswered(w)
  BY <1>1, <1>4 DEF InService, Unanswered, TypeOK
<1>6. ASSUME NEW t \in Tasks
      PROVE  /\ RxKept(t) /\ RecvKept(t) /\ MailKept(t) /\ ReturnKept(t)
             /\ QueueKept(t) /\ FateKept(t)
             /\ \A z \in Nat : InFree(t, z)' <=> \/ z = 1 /\ t = r
                                                 \/ z >= 2 /\ z - 1 \in Nat /\ InFree(t, z - 1)
             /\ \A v : InCore(t, v)' <=> InCore(t, v) /\ v # w
  <2>1. \A v : InCore(t, v)' <=> InCore(t, v) /\ v # w
    BY <1>4, <1>5 DEF InCore
  <2>2. /\ RxKept(t) /\ RecvKept(t) /\ MailKept(t) /\ ReturnKept(t)
        /\ QueueKept(t) /\ FateKept(t)
    BY <1>4, Unmoved
  <2>3. QED
    BY <1>1, <1>4, <2>1, <2>2, FreedPlaces
<1>7. ASSUME NEW t \in Tasks PROVE \E x, y : \E z \in Nat : Lodged(t, x, y, z)'
  <2>1. PICK x, y : \E z \in Nat : Lodged(t, x, y, z)
    BY <1>1 DEF TaskInv
  <2>2. PICK z \in Nat : Lodged(t, x, y, z)
    BY <2>1
  <2>3. CASE t = r
    <3>1. TaskAt(r, "core", w, 0)
      BY <1>2, <1>3 DEF TaskAt, InCore
    <3>2. Lodged(r, "core", w, 0) /\ Alone(r, "core", w, 0)
      BY <1>1, <3>1, Found DEF Lodged
    <3>3. \A i \in Nat : InFree(r, i)' <=> i = 1
      BY <1>6, <3>2 DEF Alone
    <3>4. \A v : ~InCore(r, v)'
      BY <1>6, <3>2 DEF Alone
    <3>5. Alone(r, "frqueue", 0, 1)'
      BY <1>6, <3>2, <3>3, <3>4 DEF Alone, RxKept, RecvKept, MailKept, ReturnKept, QueueKept
    <3>6. TaskAt(r, "frqueue", 0, 1)'
      BY <3>3 DEF TaskAt
    <3>7. Lodged(r, "frqueue", 0, 1)'
      BY <1>5, <1>6, <3>2, <3>5, <3>6, TaskMoves DEF Due
    <3>8. QED
      BY <2>3, <3>7
  <2>4. CASE t # r
    <3>1. ~InCore(t, w)
      BY <1>3, <2>4 DEF InCore
    <3>2. CoreKept(t) /\ DueKept(t)
      BY <1>5, <1>6, <3>1 DEF CoreKept, DueKept, InCore
    <3>3. \A i \in Nat : InFree(t, i)' <=> i >= 2 /\ i - 1 \in Nat /\ InFree(t, i - 1)
      BY <1>6, <2>4
    <3>4. QED
      BY <1>6, <2>2, <3>2, <3>3, TaskPushed
  <2>5. QED
    BY <2>3, <2>4
<1>8. QED
  BY <1>7 DEF TaskInv

LEMMA DropTasks ==
  ASSUME IInv, DropRequest PROVE TaskInv'
<1> USE DEF netVars, mailVars, loopVars, queueVars, timerVars, slotVars, workVars
<1>1. TypeOK /\ TaskInv /\ MailInv
  BY DEF IInv
<1>2. PICK r \in Tasks : r = reqs[ni]
  BY <1>1, NewTask DEF DropRequest
<1>3. /\ frqueue' = <<r>> \o frqueue /\ lost' = lost \cup {r} /\ ni' = ni + 1
      /\ dpc = "accept" /\ ni <= cnt
      /\ UNCHANGED <<dpc, di, cur_time, netVars, answered, mailVars, tskq, slotVars, workVars>>
  BY <1>2 DEF DropRequest
<1>4. ni \in Nat /\ cnt \in Nat /\ ni \in Pending
  <2>1. ni \in Pending
    BY <1>1, <1>3, NewTask
  <2>2. QED
    BY <1>1, <2>1, Sizes DEF TypeOK
<1>5. ASSUME NEW t \in Tasks
      PROVE  /\ RxKept(t) /\ RecvKept(t) /\ ReturnKept(t)
             /\ QueueKept(t) /\ CoreKept(t) /\ DueKept(t)
             /\ \A z \in Nat : /\ InFree(t, z)' <=> \/ z = 1 /\ t = r
                                                    \/ z >= 2 /\ z - 1 \in Nat /\ InFree(t, z - 1)
                               /\ InMail(t, z)' <=> InMail(t, z) /\ z # ni
  <2>1. ASSUME NEW z \in Nat PROVE InMail(t, z)' <=> InMail(t, z) /\ z # ni
    <3>1. Pending = ni..cnt /\ Pending' = (ni + 1)..cnt
      BY <1>3 DEF Pending
    <3>2. z \in (ni + 1)..cnt <=> z \in ni..cnt /\ z # ni
      BY <1>4
    <3>3. QED
      BY <1>3, <3>1, <3>2 DEF InMail
  <2>2. /\ RxKept(t) /\ RecvKept(t) /\ ReturnKept(t)
        /\ QueueKept(t) /\ CoreKept(t) /\ DueKept(t)
    BY <1>3, Unmoved
  <2>3. QED
    BY <1>1, <1>3, <2>1, <2>2, FreedPlaces
<1>6. ASSUME NEW t \in Tasks PROVE \E x, y : \E z \in Nat : Lodged(t, x, y, z)'
  <2>1. PICK x, y : \E z \in Nat : Lodged(t, x, y, z)
    BY <1>1 DEF TaskInv
  <2>2. PICK z \in Nat : Lodged(t, x, y, z)
    BY <2>1
  <2>3. CASE t = r
    <3>1. TaskAt(r, "mailbox", 0, ni)
      BY <1>2, <1>4 DEF TaskAt, InMail
    <3>2. Lodged(r, "mailbox", 0, ni) /\ Alone(r, "mailbox", 0, ni)
      BY <1>1, <1>4, <3>1, Found DEF Lodged
    <3>3. \A i \in Nat : InFree(r, i)' <=> i = 1
      BY <1>5, <3>2 DEF Alone
    <3>4. \A i \in Nat : ~InMail(r, i)'
      BY <1>5, <3>2 DEF Alone
    <3>5. Alone(r, "frqueue", 0, 1)'
      BY <1>5, <3>2, <3>3, <3>4 DEF Alone, RxKept, RecvKept, CoreKept, ReturnKept, QueueKept
    <3>6. TaskAt(r, "frqueue", 0, 1)'
      BY <3>3 DEF TaskAt
    <3>7. Alive(r, "frqueue")'
      BY <1>3, <3>2 DEF Lodged, Alive
    <3>8. FateAt(r, "frqueue", 0)'
      <4>1. kind[r] # Null /\ kind' = kind /\ (Sent(r) => Fates(r) = 0)
        BY <1>3, <3>2 DEF Lodged, FateAt, Due
      <4>2. Sent(r) => Fates(r)' = 1
        BY <1>1, <1>3, <4>1, SentOnce DEF Fates
      <4>3. QED
        BY <4>1, <4>2 DEF FateAt, Sent, Due
    <3>9. Lodged(r, "frqueue", 0, 1)'
      BY <3>5, <3>6, <3>7, <3>8 DEF Lodged
    <3>10. QED
      BY <2>3, <3>9
  <2>4. CASE t # r
    <3>1. MailKept(t)
      BY <1>2, <1>5, <2>4 DEF MailKept, InMail
    <3>2. FateKept(t)
      BY <1>3, <2>4 DEF FateKept, Fates
    <3>3. \A i \in Nat : InFree(t, i)' <=> i >= 2 /\ i - 1 \in Nat /\ InFree(t, i - 1)
      BY <1>5, <2>4
    <3>4. QED
      BY <1>5, <2>2, <3>1, <3>2, <3>3, TaskPushed
  <2>5. QED
    BY <2>3, <2>4
<1>7. QED
  BY <1>6 DEF TaskInv

LEMMA AcceptTasks ==
  ASSUME IInv, AcceptRequest PROVE TaskInv'
<1> USE DEF netVars, mailVars, loopVars, queueVars, timerVars, slotVars, workVars
<1>1. TypeOK /\ TaskInv /\ MailInv
  BY DEF IInv
<1>2. PICK c \in freeCtx : \E e \in Runnable :
        /\ e = [rnbl |-> c, req |-> reqs[ni], type |-> types[ni], category |-> "PACKET",
                 timestamp |-> cur_time]
        /\ types[ni] \in Types /\ tskq'[types[ni]] = Append(tskq[types[ni]], e)
        /\ \A y \in Types : y # types[ni] => tskq'[y] = tskq[y]
  BY <1>1, AcceptedEntries
<1>3. PICK e \in Runnable :
        /\ e.req = reqs[ni]
        /\ types[ni] \in Types /\ tskq'[types[ni]] = Append(tskq[types[ni]], e)
        /\ \A y \in Types : y # types[ni] => tskq'[y] = tskq[y]
  BY <1>2
<1>4. PICK r \in Tasks : r = e.req
  BY DEF Runnable
<1>5. PICK u \in Types : u = types[ni]
  BY <1>3
<1>6. tskq[u] \in Seq(Runnable)
  BY <1>1 DEF TypeOK
<1>7. PICK n \in Nat : n = Len(tskq[u])
  BY <1>6
<1>8. /\ Len(tskq'[u]) = n + 1 /\ tskq'[u][n + 1] = e
      /\ \A i \in 1..n : tskq'[u][i] = tskq[u][i]
  BY <1>3, <1>5, <1>6, <1>7, Appended
<1>9. /\ ni' = ni + 1 /\ dpc = "accept" /\ ni <= cnt
      /\ UNCHANGED <<dpc, di, cur_time, netVars, answered, lost, mailVars, frqueue, slotVars,
                     workVars>>
  BY DEF AcceptRequest
<1>10. ni \in Nat /\ cnt \in Nat /\ ni \in Pending
  <2>1. ni \in Pending
    BY <1>1, <1>9, NewTask
  <2>2. QED
    BY <1>1, <2>1, Sizes DEF TypeOK
<1>11. \A i \in Nat : i \in 1..(n + 1) <=> (i \in 1..n \/ i = n + 1)
  BY <1>7
<1>12. ASSUME NEW t \in Tasks
       PROVE  /\ RxKept(t) /\ RecvKept(t) /\ ReturnKept(t) /\ FreeKept(t)
              /\ CoreKept(t) /\ DueKept(t) /\ FateKept(t)
              /\ \A z \in Nat : InMail(t, z)' <=> InMail(t, z) /\ z # ni
              /\ \A v : \A z \in Nat : InQueue(t, v, z)' <=> \/ InQueue(t, v, z)
                                                             \/ v = u /\ z = n + 1 /\ t = r
  <2>1. ASSUME NEW z \in Nat PROVE InMail(t, z)' <=> InMail(t, z) /\ z # ni
    <3>1. Pending = ni..cnt /\ Pending' = (ni + 1)..cnt
      BY <1>9 DEF Pending
    <3>2. z \in (ni + 1)..cnt <=> z \in ni..cnt /\ z # ni
      BY <1>10
    <3>3. QED
      BY <1>9, <3>1, <3>2 DEF InMail
  <2>2. ASSUME NEW v, NEW z \in Nat
        PROVE  InQueue(t, v, z)' <=> \/ InQueue(t, v, z)
                                     \/ v = u /\ z = n + 1 /\ t = r
    <3>1. CASE v = u
      BY <1>4, <1>7, <1>8, <1>11, <3>1 DEF InQueue
    <3>2. CASE v # u
      BY <1>3, <1>5, <3>2 DEF InQueue
    <3>3. QED
      BY <3>1, <3>2
  <2>3. /\ RxKept(t) /\ RecvKept(t) /\ ReturnKept(t) /\ FreeKept(t)
        /\ CoreKept(t) /\ DueKept(t) /\ FateKept(t)
    BY <1>9, Unmoved
  <2>4. QED
    BY <2>1, <2>2, <2>3
<1>13. ASSUME NEW t \in Tasks PROVE \E x, y : \E z \in Nat : Lodged(t, x, y, z)'
  <2>1. PICK x, y : \E z \in Nat : Lodged(t, x, y, z)
    BY <1>1 DEF TaskInv
  <2>2. PICK z \in Nat : Lodged(t, x, y, z)
    BY <2>1
  <2>3. CASE t = r
    <3>1. TaskAt(r, "mailbox", 0, ni)
      BY <1>3, <1>4, <1>10 DEF TaskAt, InMail
    <3>2. Lodged(r, "mailbox", 0, ni) /\ Alone(r, "mailbox", 0, ni)
      BY <1>1, <1>10, <3>1, Found DEF Lodged
    <3>3. n + 1 \in Nat
      BY <1>7
    <3>4. \A v : \A i \in Nat : InQueue(r, v, i)' <=> v = u /\ i = n + 1
      BY <1>12, <3>2 DEF Alone
    <3>5. \A i \in Nat : ~InMail(r, i)'
      BY <1>12, <3>2 DEF Alone
    <3>6. Alone(r, "tskq", u, n + 1)'
      BY <1>12, <3>2, <3>4, <3>5 DEF Alone, RxKept, RecvKept, CoreKept, ReturnKept, FreeKept
    <3>7. TaskAt(r, "tskq", u, n + 1)'
      BY <3>3, <3>4 DEF TaskAt
    <3>8. Lodged(r, "tskq", u, n + 1)'
      BY <1>10, <1>12, <3>2, <3>3, <3>6, <3>7, TaskMoves DEF Due
    <3>9. QED
      BY <2>3, <3>3, <3>8
  <2>4. CASE t # r
    <3>1. MailKept(t)
      BY <1>3, <1>4, <1>12, <2>4 DEF MailKept, InMail
    <3>2. QueueKept(t)
      BY <1>12, <2>4 DEF QueueKept
    <3>3. QED
      BY <1>12, <2>2, <3>1, <3>2, TaskStays
  <2>5. QED
    BY <2>3, <2>4
<1>14. QED
  BY <1>13 DEF TaskInv

LEMMA ReturnTasks ==
  ASSUME IInv, ReturnFinished PROVE TaskInv'
<1> USE DEF netVars, mailVars, loopVars, queueVars, timerVars, slotVars, workVars
<1>1. TypeOK /\ TaskInv /\ MailInv
  BY DEF IInv
<1>2. frqueue \in Seq(Tasks) /\ cnt \in Nat /\ ni \in Nat /\ free_cnt \in Nat
  BY <1>1, Sizes DEF TypeOK
<1>3. PICK l \in Nat : l = Len(frqueue)
  BY <1>2
<1>4. PICK n \in 0..l : n = AtMostBatch(l) /\ n \in 0..Batch
  BY <1>3, BatchSize
<1>5. n \in Nat /\ n <= l /\ n <= Batch
  BY <1>3, <1>4, Sizes
<1>6. /\ dpc = "accept" /\ ni > cnt /\ free_cnt = 0 /\ free_cnt' = n /\ cnt' = 0
      /\ dpc' = "clock" /\ reqs' = Place(SubSeq(frqueue, 1, n), reqs)
      /\ frqueue' = SubSeq(frqueue, n + 1, l)
      /\ UNCHANGED <<netVars, answered, lost, tskq, slotVars, workVars>>
  <2>1. free_cnt = 0
    BY <1>1 DEF ReturnFinished, MailInv
  <2>2. QED
    BY <1>3, <1>4, <1>5, <2>1 DEF ReturnFinished
<1>7. /\ Len(SubSeq(frqueue, 1, n)) = n /\ \A i \in 1..n : SubSeq(frqueue, 1, n)[i] = frqueue[i]
      /\ Len(frqueue') = l - n /\ \A i \in 1..(l - n) : frqueue'[i] = frqueue[i + n]
  BY <1>2, <1>3, <1>4, <1>6, Split
<1>8. \A i \in 1..n : i \in Slots /\ reqs'[i] = frqueue[i]
  BY <1>5, <1>6, <1>7, Sizes DEF Place
<1>9. ASSUME NEW t \in Tasks
      PROVE  /\ RxKept(t) /\ RecvKept(t) /\ QueueKept(t) /\ CoreKept(t) /\ DueKept(t)
             /\ MailKept(t) /\ FateKept(t)
  <2>1. Pending = ni..cnt /\ Pending' = 1..0
    BY <1>6 DEF Pending
  <2>2. \A z \in Nat : z \notin ni..cnt
    BY <1>2, <1>6
  <2>3. MailKept(t)
    BY <2>1, <2>2 DEF MailKept, InMail
  <2>4. QED
    BY <1>6, <2>3, Unmoved
<1>10. ASSUME NEW t \in Tasks, NEW z \in Nat
       PROVE  /\ ~InReturn(t, z)
              /\ InReturn(t, z)' <=> InFree(t, z) /\ z <= n
              /\ InFree(t, z)' <=> z >= 1 /\ InFree(t, z + n)
  <2>1. ~InReturn(t, z)
    BY <1>6 DEF InReturn
  <2>2. /\ z \in 1..n <=> z \in 1..l /\ z <= n
        /\ z \in 1..(l - n) <=> z >= 1 /\ z + n \in 1..l
    BY <1>3, <1>5
  <2>3. InReturn(t, z)' <=> InFree(t, z) /\ z <= n
    BY <1>3, <1>6, <1>8, <2>2 DEF InReturn, InFree
  <2>4. InFree(t, z)' <=> z >= 1 /\ InFree(t, z + n)
    BY <1>3, <1>7, <2>2 DEF InFree
  <2>5. QED
    BY <2>1, <2>3, <2>4
<1>11. ASSUME NEW t \in Tasks PROVE \E x, y : \E z \in Nat : Lodged(t, x, y, z)'
  <2>1. PICK x, y : \E z \in Nat : Lodged(t, x, y, z)
    BY <1>1 DEF TaskInv
  <2>2. PICK z \in Nat : Lodged(t, x, y, z)
    BY <2>1
  <2>3. CASE x = "frqueue"
    <3>1. Alone(t, "frqueue", 0, z) /\ InFree(t, z) /\ y = 0
      BY <2>2, <2>3 DEF Lodged, TaskAt
    <3>2. \A i \in Nat : i + n \in Nat /\ (i + n = z <=> i = z - n)
      BY <1>5
    <3>3. CASE z <= n
      <4>1. \A i \in Nat : ~InFree(t, i)'
        BY <1>5, <1>10, <3>1, <3>2, <3>3 DEF Alone
      <4>2. \A i \in Nat : InReturn(t, i)' => i = z
        BY <1>10, <3>1 DEF Alone
      <4>3. Alone(t, "returned", 0, z)'
        BY <1>9, <3>1, <4>1, <4>2 DEF Alone, MailKept, RxKept, RecvKept, QueueKept, CoreKept
      <4>4. TaskAt(t, "returned", 0, z)'
        BY <1>10, <3>1, <3>3 DEF TaskAt
      <4>5. Lodged(t, "returned", 0, z)'
        BY <1>9, <2>2, <2>3, <4>3, <4>4, TaskMoves DEF Due
      <4>6. QED
        BY <4>5
    <3>4. CASE z > n
      <4>1. PICK j \in Nat : j = z - n /\ j >= 1 /\ j + n = z
        BY <1>5, <3>4
      <4>2. \A i \in Nat : InFree(t, i)' => i = j
        BY <1>5, <1>10, <3>1, <3>2, <4>1 DEF Alone
      <4>3. \A i \in Nat : ~InReturn(t, i)'
        BY <1>5, <1>10, <3>1, <3>4 DEF Alone
      <4>4. Alone(t, "frqueue", 0, j)'
        BY <1>9, <3>1, <4>2, <4>3 DEF Alone, MailKept, RxKept, RecvKept, QueueKept, CoreKept
      <4>5. TaskAt(t, "frqueue", 0, j)'
        BY <1>10, <3>1, <4>1 DEF TaskAt
      <4>6. Lodged(t, "frqueue", 0, j)'
        BY <1>9, <2>2, <2>3, <4>4, <4>5, TaskMoves DEF Due
      <4>7. QED
        BY <4>6
    <3>5. QED
      BY <1>5, <3>3, <3>4
  <2>4. CASE x # "frqueue"
    <3>1. \A i \in Nat : ~InFree(t, i) /\ i + n \in Nat
      BY <1>5, <2>2, <2>4 DEF Lodged, Alone
    <3>2. FreeKept(t) /\ ReturnKept(t)
      BY <1>10, <3>1 DEF FreeKept, ReturnKept
    <3>3. QED
      BY <1>9, <2>2, <3>2, TaskStays
  <2>5. QED
    BY <2>3, <2>4
<1>12. QED
  BY <1>11 DEF TaskInv

LEMMA RequeueTasks ==
  ASSUME IInv, NEW w \in Workers, HandlePreempted(w) PROVE TaskInv'
<1> USE DEF netVars, mailVars, loopVars, queueVars, timerVars, slotVars, workVars
<1>1. TypeOK /\ TaskInv /\ SlotInv
  BY DEF IInv
<1>2. PICK e \in Runnable :
        /\ e = worker_responses[w] /\ e.type \in Types
        /\ \A v \in Workers : InService(v)' <=> InService(v) /\ v # w
        /\ \A y \in Types : y # e.type => tskq'[y] = tskq[y]
        /\ tskq'[e.type] = Requeued(e)
  BY <1>1, PreemptedEntries
<1>3. PICK r \in Tasks : r = e.req
  BY DEF Runnable
<1>4. PICK u \in Types : u = e.type
  BY <1>2
<1>5. InService(w) /\ r = dispatcher_requests[w].req /\ wpc[w] = "poll"
  BY <1>1, <1>2, <1>3, TakeResponse DEF HandlePreempted
<1>6. /\ UNCHANGED <<netVars, answered, lost, mailVars, loopVars, frqueue, dispatcher_requests,
                     workVars>>
      /\ response_flag' = [response_flag EXCEPT ![w] = "PROCESSED"]
      /\ response_flag[w] = "PREEMPTED"
  BY DEF HandlePreempted, Processed
<1>7. /\ \A v \in Workers : v # w => (Unanswered(v)' <=> Unanswered(v))
      /\ Unanswered(w)
  BY <1>1, <1>5, <1>6 DEF InService, Unanswered, TypeOK
<1>8. PICK n \in Nat : n = Len(tskq[e.type])
  <2>1. tskq[u] \in Seq(Runnable)
    BY <1>1 DEF TypeOK
  <2>2. QED
    BY <1>4, <2>1
<1>9. Len(tskq'[u]) = n + 1
  BY <1>1, <1>2, <1>4, <1>8, RequeueTask
<1>10. ASSUME NEW t \in Tasks
       PROVE  /\ RxKept(t) /\ RecvKept(t) /\ MailKept(t) /\ ReturnKept(t)
              /\ FreeKept(t) /\ FateKept(t)
              /\ \A v : InCore(t, v)' <=> InCore(t, v) /\ v # w
              /\ \A v : v # u => \A z \in Nat : InQueue(t, v, z)' <=> InQueue(t, v, z)
  <2>1. \A v : InCore(t, v)' <=> InCore(t, v) /\ v # w
    BY <1>2, <1>6 DEF InCore
  <2>2. ASSUME NEW v, v # u, NEW z \in Nat PROVE InQueue(t, v, z)' <=> InQueue(t, v, z)
    BY <1>2, <1>4, <2>2 DEF InQueue
  <2>3. /\ RxKept(t) /\ RecvKept(t) /\ MailKept(t) /\ ReturnKept(t)
        /\ FreeKept(t) /\ FateKept(t)
    BY <1>6, Unmoved
  <2>4. QED
    BY <2>1, <2>2, <2>3
<1>a. ASSUME HeadFirst[e.type]
      PROVE  Requeued(e)[1] = e /\ \A i \in 2..(n + 1) : Requeued(e)[i] = tskq[e.type][i - 1]
  BY <1>1, <1>8, <1>a, RequeuedFirst
<1>b. ASSUME ~HeadFirst[e.type]
      PROVE  Requeued(e)[n + 1] = e /\ \A i \in 1..n : Requeued(e)[i] = tskq[e.type][i]
  BY <1>1, <1>8, <1>b, RequeuedLast
\* Where e is now, and what became of the rest of its queue.
<1> DEFINE k == IF HeadFirst[e.type] THEN 1 ELSE n + 1
           Was(z) == IF HeadFirst[e.type] THEN z - 1 ELSE z
<1>11. k \in 1..(n + 1) /\ k \in Nat /\ tskq'[u][k] = e
  <2>1. CASE HeadFirst[e.type]
    <3>1. Requeued(e)[1] = e
      BY <1>a, <2>1
    <3>2. QED
      BY <1>2, <1>4, <2>1, <3>1
  <2>2. CASE ~HeadFirst[e.type]
    <3>1. Requeued(e)[n + 1] = e
      BY <1>b, <2>2
    <3>2. QED
      BY <1>2, <1>4, <2>2, <3>1
  <2>3. QED
    BY <2>1, <2>2
<1>12. ASSUME NEW z \in 1..(n + 1), z # k
       PROVE  Was(z) \in 1..n /\ Was(z) \in Nat /\ tskq'[u][z] = tskq[u][Was(z)]
  <2>1. CASE HeadFirst[e.type]
    <3>1. \A i \in 2..(n + 1) : Requeued(e)[i] = tskq[e.type][i - 1]
      BY <1>a, <2>1
    <3>2. z \in 2..(n + 1) /\ z - 1 \in 1..n /\ z - 1 \in Nat
      BY <1>12, <2>1
    <3>3. QED
      BY <1>2, <1>4, <2>1, <3>1, <3>2
  <2>2. CASE ~HeadFirst[e.type]
    <3>1. \A i \in 1..n : Requeued(e)[i] = tskq[e.type][i]
      BY <1>b, <2>2
    <3>2. z \in 1..n /\ z \in Nat
      BY <1>12, <2>2
    <3>3. QED
      BY <1>2, <1>4, <2>2, <3>1, <3>2
  <2>3. QED
    BY <2>1, <2>2
<1>13. ASSUME NEW z \in 1..n
       PROVE  \E i \in 1..(n + 1) : /\ i \in Nat /\ i # k /\ Was(i) = z
                                    /\ \A j \in 1..(n + 1) : j # k /\ Was(j) = z => j = i
  <2>1. CASE HeadFirst[e.type]
    <3>1. /\ z + 1 \in 1..(n + 1) /\ z + 1 \in Nat /\ z + 1 # k /\ Was(z + 1) = z
          /\ \A j \in 1..(n + 1) : Was(j) = z => j = z + 1
      BY <2>1
    <3>2. QED
      BY <3>1
  <2>2. CASE ~HeadFirst[e.type]
    <3>1. /\ z \in 1..(n + 1) /\ z \in Nat /\ z # k /\ Was(z) = z
          /\ \A j \in 1..(n + 1) : Was(j) = z => j = z
      BY <2>2
    <3>2. QED
      BY <3>1
  <2>3. QED
    BY <2>1, <2>2
<1>14. \A z \in 1..(n + 1) : z \in Nat
  OBVIOUS
<1> HIDE DEF k, Was
<1>15. ASSUME NEW t \in Tasks PROVE \E x, y : \E z \in Nat : Lodged(t, x, y, z)'
  <2>1. PICK x, y : \E z \in Nat : Lodged(t, x, y, z)
    BY <1>1 DEF TaskInv
  <2>2. PICK z \in Nat : Lodged(t, x, y, z)
    BY <2>1
  <2>3. CASE t = r
    <3>1. TaskAt(r, "core", w, 0)
      BY <1>5 DEF TaskAt, InCore
    <3>2. Lodged(r, "core", w, 0) /\ Alone(r, "core", w, 0)
      BY <1>1, <3>1, Found DEF Lodged
    <3>3. \A i \in Nat : ~InQueue(r, u, i)
      BY <3>2 DEF Alone
    <3>4. \A i \in Nat : InQueue(r, u, i)' <=> i = k
      <4>1. ASSUME NEW i \in Nat, InQueue(r, u, i)', i # k PROVE FALSE
        <5>1. i \in 1..(n + 1) /\ tskq'[u][i].req = r
          BY <1>9, <4>1 DEF InQueue
        <5>2. Was(i) \in 1..n /\ Was(i) \in Nat /\ tskq[u][Was(i)].req = r
          BY <1>12, <4>1, <5>1
        <5>3. InQueue(r, u, Was(i))
          BY <1>4, <1>8, <5>2 DEF InQueue
        <5>4. QED
          BY <3>3, <5>2, <5>3
      <4>2. InQueue(r, u, k)'
        BY <1>3, <1>9, <1>11 DEF InQueue
      <4>3. QED
        BY <1>11, <4>1, <4>2
    <3>5. \A v : \A i \in Nat : InQueue(r, v, i)' => v = u /\ i = k
      BY <1>10, <3>2, <3>4 DEF Alone
    <3>6. \A v : ~InCore(r, v)'
      BY <1>10, <3>2 DEF Alone
    <3>7. Alone(r, "tskq", u, k)'
      BY <1>10, <3>2, <3>5, <3>6 DEF Alone, RxKept, RecvKept, MailKept, ReturnKept, FreeKept
    <3>8. TaskAt(r, "tskq", u, k)'
      BY <1>11, <3>4 DEF TaskAt
    <3>9. Lodged(r, "tskq", u, k)'
      BY <1>7, <1>10, <1>11, <3>2, <3>7, <3>8, TaskMoves DEF Due
    <3>10. QED
      BY <1>11, <2>3, <3>9
  <2>4. CASE t # r
    <3>1. ~InCore(t, w)
      BY <1>5, <2>4 DEF InCore
    <3>2. CoreKept(t) /\ DueKept(t)
      BY <1>7, <1>10, <3>1 DEF CoreKept, DueKept, InCore
    <3>3. ASSUME NEW i \in Nat
          PROVE  InQueue(t, u, i)' <=> /\ i \in 1..(n + 1) /\ i # k
                                       /\ Was(i) \in Nat /\ InQueue(t, u, Was(i))
      <4>1. CASE i \in 1..(n + 1) /\ i # k
        <5>1. Was(i) \in 1..n /\ Was(i) \in Nat /\ tskq'[u][i] = tskq[u][Was(i)]
          BY <1>12, <4>1
        <5>2. QED
          BY <1>4, <1>8, <1>9, <4>1, <5>1 DEF InQueue
      <4>2. CASE ~(i \in 1..(n + 1) /\ i # k)
        BY <1>3, <1>9, <1>11, <2>4, <4>2 DEF InQueue
      <4>3. QED
        BY <4>1, <4>2
    <3>4. CASE x = "tskq" /\ y = u
      <4>1. Alone(t, "tskq", u, z) /\ InQueue(t, u, z) /\ z \in 1..n
        BY <1>4, <1>8, <2>2, <3>4 DEF Lodged, TaskAt, InQueue
      <4>2. PICK i \in 1..(n + 1) : /\ i \in Nat /\ i # k /\ Was(i) = z
                                    /\ \A j \in 1..(n + 1) : j # k /\ Was(j) = z => j = i
        BY <1>13, <4>1
      <4>3. InQueue(t, u, i)'
        BY <3>3, <4>1, <4>2
      <4>4. \A j \in Nat : InQueue(t, u, j)' => j = i
        BY <3>3, <4>1, <4>2 DEF Alone
      <4>5. \A v : \A j \in Nat : InQueue(t, v, j)' => v = u /\ j = i
        BY <1>10, <4>1, <4>4 DEF Alone
      <4>6. Alone(t, "tskq", u, i)'
        BY <1>10, <3>2, <4>1, <4>5 DEF Alone, RxKept, RecvKept, MailKept, ReturnKept, FreeKept,
           CoreKept
      <4>7. TaskAt(t, "tskq", u, i)'
        BY <4>3 DEF TaskAt
      <4>8. Lodged(t, "tskq", u, i)'
        BY <1>10, <2>2, <3>4, <4>2, <4>6, <4>7, TaskMoves DEF Due
      <4>9. QED
        BY <4>2, <4>8
    <3>5. CASE ~(x = "tskq" /\ y = u)
      <4>1. \A i \in Nat : ~InQueue(t, u, i)
        BY <2>2, <3>5 DEF Lodged, Alone
      <4>2. QueueKept(t)
        BY <1>10, <3>3, <4>1 DEF QueueKept
      <4>3. QED
        BY <1>10, <2>2, <3>2, <4>2, TaskStays
    <3>6. QED
      BY <3>4, <3>5
  <2>5. QED
    BY <2>3, <2>4
<1>16. QED
  BY <1>15 DEF TaskInv

LEMMA DispatchTasks ==
  ASSUME IInv, NEW w \in Workers, DispatchRequest(w) PROVE TaskInv'
<1> USE DEF netVars, mailVars, loopVars, queueVars, timerVars, slotVars, workVars
<1>1. TypeOK /\ TaskInv /\ SlotInv
  BY DEF IInv
<1>2. PICK u \in Types :
        /\ tskq[u] # <<>>
        /\ tskq'[u] = Tail(tskq[u]) /\ \A y \in Types : y # u => tskq'[y] = tskq[y]
        /\ dispatcher_requests'[w] = tskq[u][1]
        /\ \A v \in Workers : v # w => dispatcher_requests'[v] = dispatcher_requests[v]
  BY <1>1, DispatchedEntries
<1>3. /\ \A v \in Workers : InService(v)' <=> InService(v) \/ v = w
      /\ ~InService(w)
  BY <1>1, DispatchedEntries
<1>4. PICK n : n = Len(tskq[u])
  OBVIOUS
<1>5. /\ n \in Nat \ {0} /\ tskq[u][1] \in Runnable /\ Len(tskq'[u]) = n - 1
      /\ \A i \in 1..(n - 1) : tskq'[u][i] = tskq[u][i + 1]
  BY <1>1, <1>2, <1>4, TakeTask
<1>6. PICK r \in Tasks : r = tskq[u][1].req
  BY <1>5 DEF Runnable
<1>7. /\ UNCHANGED <<netVars, answered, lost, mailVars, frqueue, workVars>>
      /\ response_flag' = [response_flag EXCEPT ![w] = "RUNNING"]
      /\ response_flag[w] = "PROCESSED" /\ ni' = ni
      /\ dpc = "worker" /\ dpc' # "accept"
  BY DEF DispatchRequest, AtWorker, NextTurn
<1>8. wpc[w] = "poll"
  BY <1>1, <1>7 DEF SlotInv, SlotOf, TypeOK
<1>9. /\ \A v \in Workers : v # w => (Unanswered(v)' <=> Unanswered(v))
      /\ Unanswered(w)'
  BY <1>1, <1>7, <1>8 DEF InService, Unanswered, TypeOK
<1>10. ASSUME NEW t \in Tasks
       PROVE  /\ RxKept(t) /\ RecvKept(t) /\ MailKept(t) /\ ReturnKept(t)
              /\ FreeKept(t) /\ FateKept(t) /\ DueKept(t)
              /\ \A v : InCore(t, v)' <=> InCore(t, v) \/ (v = w /\ t = r)
              /\ \A v : v # u => \A z \in Nat : InQueue(t, v, z)' <=> InQueue(t, v, z)
              /\ \A z \in Nat : InQueue(t, u, z)' <=> z >= 1 /\ InQueue(t, u, z + 1)
  <2>1. ASSUME NEW v PROVE InCore(t, v)' <=> InCore(t, v) \/ (v = w /\ t = r)
    <3>1. CASE v = w
      BY <1>2, <1>3, <1>6, <3>1 DEF InCore
    <3>2. CASE v # w
      BY <1>2, <1>3, <3>2 DEF InCore
    <3>3. QED
      BY <3>1, <3>2
  <2>2. ASSUME NEW v, v # u, NEW z \in Nat PROVE InQueue(t, v, z)' <=> InQueue(t, v, z)
    BY <1>2, <2>2 DEF InQueue
  <2>3. ASSUME NEW z \in Nat PROVE InQueue(t, u, z)' <=> z >= 1 /\ InQueue(t, u, z + 1)
    <3>1. z \in 1..(n - 1) <=> z >= 1 /\ z + 1 \in 1..n
      BY <1>5
    <3>2. QED
      BY <1>4, <1>5, <3>1 DEF InQueue
  <2>4. /\ RxKept(t) /\ RecvKept(t) /\ ReturnKept(t) /\ FreeKept(t) /\ FateKept(t)
    BY <1>7, Unmoved
  <2>5. MailKept(t)
    BY <1>7 DEF MailKept, InMail, Pending
  <2>6. DueKept(t)
    BY <1>3, <1>9 DEF DueKept, InCore
  <2>7. QED
    BY <2>1, <2>2, <2>3, <2>4, <2>5, <2>6
<1>11. ASSUME NEW t \in Tasks PROVE \E x, y : \E z \in Nat : Lodged(t, x, y, z)'
  <2>1. PICK x, y : \E z \in Nat : Lodged(t, x, y, z)
    BY <1>1 DEF TaskInv
  <2>2. PICK z \in Nat : Lodged(t, x, y, z)
    BY <2>1
  <2>3. CASE t = r
    <3>1. TaskAt(r, "tskq", u, 1)
      BY <1>4, <1>5, <1>6 DEF TaskAt, InQueue
    <3>2. Lodged(r, "tskq", u, 1) /\ Alone(r, "tskq", u, 1)
      BY <1>1, <3>1, Found DEF Lodged
    <3>3. \A i \in Nat : i >= 1 => i + 1 \in Nat /\ i + 1 # 1
      OBVIOUS
    <3>4. \A v : \A i \in Nat : ~InQueue(r, v, i)'
      BY <1>10, <3>2, <3>3 DEF Alone
    <3>5. \A v : InCore(r, v)' <=> v = w
      BY <1>10, <3>2 DEF Alone
    <3>6. Alone(r, "core", w, 0)'
      BY <1>10, <3>2, <3>4, <3>5 DEF Alone, RxKept, RecvKept, MailKept, ReturnKept, FreeKept
    <3>7. TaskAt(r, "core", w, 0)'
      BY <3>5 DEF TaskAt
    <3>8. Lodged(r, "core", w, 0)'
      BY <1>9, <1>10, <3>2, <3>6, <3>7, TaskMoves DEF Due
    <3>9. QED
      BY <2>3, <3>8
  <2>4. CASE t # r
    <3>1. CoreKept(t) /\ ~InQueue(t, u, 1)
      BY <1>6, <1>10, <2>4 DEF CoreKept, InQueue
    <3>2. CASE x = "tskq" /\ y = u
      <4>1. Alone(t, "tskq", u, z) /\ InQueue(t, u, z) /\ z >= 1 /\ z # 1
        BY <2>2, <3>1, <3>2 DEF Lodged, TaskAt, InQueue
      <4>2. PICK j \in Nat : j + 1 = z /\ j >= 1 /\ \A i \in Nat : i + 1 = z => i = j
        <5>1. z - 1 \in Nat /\ (z - 1) + 1 = z /\ z - 1 >= 1 /\ \A i \in Nat : i + 1 = z => i = z - 1
          BY <4>1
        <5>2. QED
          BY <5>1
      <4>3. \A i \in Nat : i + 1 \in Nat
        OBVIOUS
      <4>4. \A v : \A i \in Nat : InQueue(t, v, i)' => v = u /\ i = j
        BY <1>10, <4>1, <4>2, <4>3 DEF Alone
      <4>5. Alone(t, "tskq", u, j)'
        BY <1>10, <3>1, <4>1, <4>4 DEF Alone, RxKept, RecvKept, MailKept, ReturnKept, FreeKept,
           CoreKept
      <4>6. TaskAt(t, "tskq", u, j)'
        BY <1>10, <4>1, <4>2 DEF TaskAt
      <4>7. Lodged(t, "tskq", u, j)'
        BY <1>10, <2>2, <3>2, <4>5, <4>6, TaskMoves DEF Due
      <4>8. QED
        BY <4>7
    <3>3. CASE ~(x = "tskq" /\ y = u)
      <4>1. \A i \in Nat : ~InQueue(t, u, i) /\ i + 1 \in Nat
        BY <2>2, <3>3 DEF Lodged, Alone
      <4>2. QueueKept(t)
        BY <1>10, <4>1 DEF QueueKept
      <4>3. QED
        BY <1>10, <2>2, <3>1, <4>2, TaskStays
    <3>4. QED
      BY <3>2, <3>3
  <2>5. QED
    BY <2>3, <2>4
<1>12. QED
  BY <1>11 DEF TaskInv

LEMMA ReplyTasks ==
  ASSUME IInv, NEW w \in Workers, SendReply(w) PROVE TaskInv'
<1> USE DEF netVars, mailVars, loopVars, queueVars, timerVars, slotVars, workVars
<1>1. TypeOK /\ TaskInv /\ SlotInv
  BY DEF IInv
<1>2. /\ wpc[w] = "work" /\ wpc' = [wpc EXCEPT ![w] = "done"]
      /\ finished' = [finished EXCEPT ![w] = TRUE]
      /\ UNCHANGED <<netVars, lost, mailVars, loopVars, queueVars, slotVars, job>>
  BY DEF SendReply, Goto
<1>3. /\ response_flag[w] = "RUNNING" /\ InService(w) /\ dispatcher_requests[w] \in Runnable
      /\ job[cont[w]] = dispatcher_requests[w].req
  BY <1>1, <1>2 DEF SlotInv, SlotOf, InService
<1>4. PICK r \in Tasks : r = dispatcher_requests[w].req
  BY <1>3 DEF Runnable
<1>5. answered' = [answered EXCEPT ![r] = @ + 1]
  BY <1>3, <1>4 DEF SendReply
<1>6. /\ \A v \in Workers : v # w => (Unanswered(v)' <=> Unanswered(v))
      /\ Unanswered(w) /\ ~Unanswered(w)'
  BY <1>1, <1>2, <1>3 DEF InService, Unanswered, TypeOK
<1>7. ASSUME NEW t \in Tasks
      PROVE  /\ RxKept(t) /\ RecvKept(t) /\ MailKept(t) /\ ReturnKept(t)
             /\ QueueKept(t) /\ FreeKept(t) /\ CoreKept(t)
  BY <1>2, Unmoved
<1>8. ASSUME NEW t \in Tasks PROVE \E x, y : \E z \in Nat : Lodged(t, x, y, z)'
  <2>1. PICK x, y : \E z \in Nat : Lodged(t, x, y, z)
    BY <1>1 DEF TaskInv
  <2>2. PICK z \in Nat : Lodged(t, x, y, z)
    BY <2>1
  <2>3. CASE t = r
    <3>1. TaskAt(r, "core", w, 0)
      BY <1>3, <1>4 DEF TaskAt, InCore
    <3>2. Lodged(r, "core", w, 0)
      BY <1>1, <3>1, Found
    <3>3. Alone(r, "core", w, 0)'
      BY <1>7, <3>2 DEF Lodged, Alone, RxKept, RecvKept, MailKept, ReturnKept, QueueKept,
         FreeKept, CoreKept
    <3>4. TaskAt(r, "core", w, 0)'
      BY <1>7, <3>1 DEF TaskAt, CoreKept
    <3>5. Alive(r, "core")'
      BY <1>2, <3>2 DEF Lodged, Alive
    <3>6. FateAt(r, "core", w)'
      <4>1. kind[r] # Null /\ kind' = kind /\ (Sent(r) => Fates(r) = 0)
        BY <1>2, <1>6, <3>2 DEF Lodged, FateAt, Due
      <4>2. Sent(r) => Fates(r)' = 1
        BY <1>1, <1>2, <1>5, <4>1, SentOnce DEF Fates, TypeOK
      <4>3. QED
        BY <1>6, <4>1, <4>2 DEF FateAt, Sent, Due
    <3>7. QED
      BY <2>3, <3>3, <3>4, <3>5, <3>6 DEF Lodged
  <2>4. CASE t # r
    <3>1. DueKept(t)
      BY <1>4, <1>6, <2>4 DEF DueKept, InCore
    <3>2. FateKept(t)
      BY <1>1, <1>2, <1>5, <2>4 DEF FateKept, Fates, TypeOK
    <3>3. QED
      BY <1>7, <2>2, <3>1, <3>2, TaskStays
  <2>5. QED
    BY <2>3, <2>4
<1>9. QED
  BY <1>8 DEF TaskInv

\* A worker that takes its slot, is interrupted, or reports owes what it owed.
LEMMA WorkedAnswers ==
  ASSUME TypeOK, SlotInv, NEW w \in Workers,
         TakeRequest(w) \/ PreemptHandler(w) \/ FinishRequest(w)
  PROVE  \A v \in Workers : /\ InService(v)' <=> InService(v)
                            /\ Unanswered(v)' <=> Unanswered(v)
<1> USE DEF netVars, mailVars, loopVars, queueVars, timerVars, slotVars, workVars
<1>1. \A v \in Workers : v # w => /\ response_flag'[v] = response_flag[v]
                                  /\ wpc'[v] = wpc[v] /\ finished'[v] = finished[v]
  BY DEF TakeRequest, PreemptHandler, FinishRequest, Goto, TypeOK
<1>2. CASE TakeRequest(w)
  <2>1. /\ response_flag[w] = "RUNNING" /\ response_flag' = response_flag
        /\ wpc[w] = "poll" /\ wpc'[w] = "work"
    BY <1>2 DEF TakeRequest, Goto, SlotInv, SlotOf, TypeOK
  <2>2. QED
    BY <1>1, <2>1 DEF InService, Unanswered
<1>3. CASE PreemptHandler(w)
  <2>1. /\ response_flag[w] = "RUNNING" /\ response_flag' = response_flag
        /\ wpc[w] = "work" /\ ~finished'[w]
    BY <1>3 DEF PreemptHandler, Goto, SlotInv, SlotOf
  <2>2. QED
    BY <1>1, <2>1 DEF InService, Unanswered
<1>4. CASE FinishRequest(w)
  <2>1. /\ response_flag[w] = "RUNNING" /\ response_flag'[w] = Outcome(w)
        /\ wpc[w] = "done" /\ wpc'[w] = "poll"
    BY <1>4 DEF FinishRequest, Goto, SlotInv, SlotOf, TypeOK
  <2>2. QED
    BY <1>1, <2>1 DEF InService, Unanswered, Outcome
<1>5. QED
  BY <1>2, <1>3, <1>4

LEMMA TaskStep == ASSUME IInv, [Next]_vars PROVE TaskInv'
<1> USE DEF netVars, mailVars, loopVars, queueVars, timerVars, slotVars, workVars
<1>1. TypeOK /\ TaskInv /\ SlotInv
  BY DEF IInv
<1>2. ASSUME \A t \in Tasks : MailKept(t) /\ DueKept(t),
             UNCHANGED <<rxq, recv_mbufs, reqs, free_cnt, frqueue, tskq, dispatcher_requests>>,
             \A v \in Workers : InService(v)' <=> InService(v),
             UNCHANGED <<kind, answered, lost, live>>
      PROVE  TaskInv'
  <2>1. ASSUME NEW t \in Tasks PROVE \E x, y : \E z \in Nat : Lodged(t, x, y, z)'
    <3>1. PICK x, y : \E z \in Nat : Lodged(t, x, y, z)
      BY <1>1 DEF TaskInv
    <3>2. PICK z \in Nat : Lodged(t, x, y, z)
      BY <3>1
    <3>3. CoreKept(t)
      BY <1>2 DEF CoreKept, InCore
    <3>4. Lodged(t, x, y, z)'
      BY <1>2, <3>2, <3>3, TaskStays, Unmoved
    <3>5. QED
      BY <3>4
  <2>2. QED
    BY <2>1 DEF TaskInv
<1>3. ASSUME UNCHANGED <<rxq, recv_mbufs, reqs, cnt, free_cnt, frqueue, tskq, slotVars, wpc,
                         finished, kind, answered, lost, live>>,
             \/ UNCHANGED <<dpc, ni>>
             \/ dpc # "accept" /\ dpc' # "accept"
      PROVE  TaskInv'
  <2>1. \A t \in Tasks : MailKept(t)
    BY <1>3 DEF MailKept, InMail, Pending
  <2>2. \A t \in Tasks : DueKept(t)
    BY <1>3, Unmoved
  <2>3. QED
    BY <1>2, <1>3, <2>1, <2>2 DEF InService
<1>4. CASE LookAtMailbox
  <2>1. UNCHANGED <<rxq, recv_mbufs, reqs, cnt, free_cnt, frqueue, tskq, slotVars, wpc,
                    finished, kind, answered, lost, live>>
    BY <1>4 DEF LookAtMailbox
  <2>2. Pending' = Pending
    BY <1>4 DEF LookAtMailbox, Pending
  <2>3. \A t \in Tasks : MailKept(t) /\ DueKept(t)
    BY <2>1, <2>2, Unmoved DEF MailKept, InMail
  <2>4. QED
    BY <1>2, <2>1, <2>3 DEF InService
<1>5. ASSUME NEW w \in Workers, TakeRequest(w) \/ PreemptHandler(w) \/ FinishRequest(w)
      PROVE  TaskInv'
  <2>1. UNCHANGED <<rxq, recv_mbufs, reqs, cnt, free_cnt, dpc, ni, frqueue, tskq,
                    dispatcher_requests, kind, answered, lost, live>>
    BY <1>5 DEF TakeRequest, PreemptHandler, FinishRequest
  <2>2. \A v \in Workers : /\ InService(v)' <=> InService(v)
                           /\ Unanswered(v)' <=> Unanswered(v)
    BY <1>1, <1>5, WorkedAnswers
  <2>3. \A t \in Tasks : MailKept(t) /\ DueKept(t)
    BY <2>1, <2>2, Unmoved DEF DueKept, InCore
  <2>4. QED
    BY <1>2, <2>1, <2>2, <2>3
<1>6. CASE UNCHANGED vars
  BY <1>3, <1>6 DEF vars
<1>7. CASE StartTurn \/ \E w \in Workers : SkipWorker(w) \/ PreemptWorker(w) \/ NothingToDispatch(w)
  BY <1>3, <1>7 DEF StartTurn, SkipWorker, PreemptWorker, NothingToDispatch, AtWorker, NextTurn
<1>8. QED
  BY <1>4, <1>5, <1>6, <1>7, SendTasks, ReceiveTasks, PostTasks, FinishTasks, DropTasks,
     AcceptTasks, ReturnTasks, RequeueTasks, DispatchTasks, ReplyTasks
     DEF Next, NetworkerNext, DispatcherNext, WorkerNext

-----------------------------------------------------------------------------
(* The invariant.                                                           *)

LEMMA NoneServed ==
  ASSUME Init PROVE \A w \in Workers : ~InService(w)
  BY DEF Init, InService

LEMMA InitTyped == ASSUME Init PROVE TypeOK
<1>1. /\ 0 \in Workers /\ 0 \in Types /\ 0 \in Time /\ MaxTime \in Time /\ 0 \in 0..Batch
      /\ 1 \in 1..(Batch + 1)
  BY Sizes, ShinjukuSizes DEF Workers, Types, Time
<1>2. <<>> \in Seq(Tasks) /\ <<>> \in Seq(Runnable)
  OBVIOUS
<1>3. /\ kind \in [Tasks -> Types \cup {Null}]
      /\ rxq \in Seq(Tasks) /\ recv_mbufs \in Seq(Tasks)
      /\ answered \in [Tasks -> Nat] /\ lost \subseteq Tasks /\ live \subseteq Tasks
      /\ npc \in {"recv", "wait"}
      /\ cnt \in 0..Batch /\ free_cnt \in 0..Batch
      /\ reqs \in [Slots -> Tasks \cup {Null}] /\ types \in [Slots -> Types]
  BY <1>1, <1>2 DEF Init
<1>4. /\ dpc \in {"clock", "worker", "networker", "accept"}
      /\ di \in Workers /\ ni \in 1..(Batch + 1) /\ cur_time \in Time
      /\ timestamps \in [Workers -> Time] /\ preempt_check \in [Workers -> BOOLEAN]
      /\ tskq \in [Types -> Seq(Runnable)]
      /\ frqueue \in Seq(Tasks) /\ freeCtx \subseteq Contexts
      /\ queue_length \in [Types -> Nat]
  BY <1>1, <1>2 DEF Init
<1>5. \A y \in Types : \A i \in DOMAIN tskq[y] : tskq[y][i].type = y
  BY DEF Init
<1>6. /\ request_flag \in [Workers -> {"WAITING", "ACTIVE"}]
      /\ response_flag \in [Workers -> {"RUNNING", "FINISHED", "PREEMPTED", "PROCESSED"}]
      /\ dispatcher_requests \in [Workers -> Runnable \cup {NoContent}]
      /\ worker_responses \in [Workers -> Runnable \cup {NoContent}]
      /\ \A w \in Workers :
           request_flag[w] # "ACTIVE" /\ response_flag[w] \notin {"FINISHED", "PREEMPTED"}
      /\ ipi \in [Workers -> BOOLEAN]
      /\ wpc \in [Workers -> {"poll", "work", "done"}]
      /\ cont \in [Workers -> Contexts \cup {Null}] /\ finished \in [Workers -> BOOLEAN]
      /\ job \in [Contexts -> Tasks \cup {Null}]
  BY DEF Init
<1>7. QED
  BY <1>3, <1>4, <1>5, <1>6 DEF TypeOK

LEMMA InitInv == Init => IInv
<1> SUFFICES ASSUME Init PROVE IInv
  OBVIOUS
<1>1. TypeOK
  BY InitTyped
<1>2. SlotInv
  BY NoneServed DEF Init, SlotInv, SlotOf, InService
<1>3. MailInv /\ Pending = 1..0
  BY Sizes DEF Init, MailInv, Pending
<1>4. NetInv
  BY Sizes DEF Init, NetInv
<1>5. \A y \in Types : Len(tskq[y]) = 0
  BY DEF Init
<1>6. \A e : ~Entry(e)
  BY <1>5, NoneServed DEF Entry
<1>7. EntryInv /\ ContextInv
  BY <1>6 DEF Init, EntryInv, ContextInv
<1>8. LengthInv
  <2>1. \A y \in Types : Serving(y) = {}
    BY NoneServed DEF Serving
  <2>2. Cardinality({}) = 0
    BY FS_EmptySet
  <2>3. \A y \in Types : queue_length[y] = 0
    BY DEF Init
  <2>4. \A y \in Types : Cardinality(Serving(y)) = 0
    BY <2>1, <2>2
  <2>5. QED
    BY <1>5, <2>3, <2>4 DEF LengthInv
<1>9. ASSUME NEW t \in Tasks PROVE Lodged(t, "nowhere", 0, 0)
  <2>1. /\ Len(rxq) = 0 /\ Len(recv_mbufs) = 0 /\ Len(frqueue) = 0 /\ free_cnt = 0
        /\ kind[t] = Null /\ answered[t] = 0 /\ lost = {} /\ live = {}
    BY DEF Init
  <2>2. Alone(t, "nowhere", 0, 0)
    <3>1. \A i \in Nat : ~InRx(t, i) /\ ~InRecv(t, i) /\ ~InReturn(t, i) /\ ~InFree(t, i)
      BY <2>1 DEF InRx, InRecv, InReturn, InFree
    <3>2. \A i \in Nat : ~InMail(t, i)
      BY <1>3 DEF InMail
    <3>3. \A v : ~InCore(t, v) /\ \A i \in Nat : ~InQueue(t, v, i)
      BY <1>5, NoneServed DEF InQueue, InCore
    <3>4. QED
      BY <3>1, <3>2, <3>3 DEF Alone
  <2>3. Alive(t, "nowhere") /\ FateAt(t, "nowhere", 0)
    BY <2>1 DEF Alive, FateAt, Fates, Sent
  <2>4. QED
    BY <2>2, <2>3 DEF Lodged
<1>10. TaskInv
  BY <1>9 DEF TaskInv
<1>11. QED
  BY <1>1, <1>2, <1>3, <1>4, <1>7, <1>8, <1>10 DEF IInv

LEMMA NextInv == IInv /\ [Next]_vars => IInv'
<1> SUFFICES ASSUME IInv, [Next]_vars PROVE IInv'
  OBVIOUS
<1>1. QED
  BY TypeStep, SlotStep, MailStep, NetStep, EntryStep, ContextStep, LengthStep, TaskStep
     DEF IInv

LEMMA Inductive == Spec => []IInv
  BY InitInv, NextInv, PTL DEF Spec

-----------------------------------------------------------------------------
(* The theorems.                                                            *)

\* Every queue entry and every slot that is handed over can be run: it has a
\* request, a context and a type whose queue exists, whatever core preempted it.
THEOREM TypeCorrect == Spec => []TypeOK
<1>1. IInv => TypeOK
  BY DEF IInv
<1>2. QED
  BY <1>1, Inductive, PTL

\* handle_context resumes a task on any core, with the context and the request
\* its slot names.
THEOREM ServesItsSlotCorrect == Spec => []ServesItsSlot
<1>1. IInv => ServesItsSlot
  <2> SUFFICES ASSUME IInv, NEW w \in Workers, wpc[w] \in {"work", "done"}
               PROVE  /\ cont[w] = dispatcher_requests[w].rnbl
                      /\ job[cont[w]] = dispatcher_requests[w].req
                      /\ kind[job[cont[w]]] = dispatcher_requests[w].type
    BY DEF ServesItsSlot
  <2>1. /\ InService(w) /\ cont[w] = dispatcher_requests[w].rnbl
        /\ job[dispatcher_requests[w].rnbl] = dispatcher_requests[w].req
    BY DEF IInv, SlotInv, SlotOf, InService
  <2>2. Entry(dispatcher_requests[w])
    BY <2>1 DEF Entry
  <2>3. QED
    BY <2>1, <2>2 DEF IInv, EntryInv, Linked
<1>2. QED
  BY <1>1, Inductive, PTL

\* The places a task is counted in, from where it is.
LEMMA Counted ==
  ASSUME TypeOK, NEW t \in Tasks, NEW x, NEW y, NEW z \in Nat, Lodged(t, x, y, z)
  PROVE  /\ {i \in DOMAIN rxq : rxq[i] = t} = IF x = "rx" THEN {z} ELSE {}
         /\ {i \in DOMAIN recv_mbufs : recv_mbufs[i] = t} = IF x = "recv" THEN {z} ELSE {}
         /\ {p \in Queued : p[1].req = t}
              = IF x = "tskq" THEN {<<tskq[y][z], <<"tskq", y, z>>>>} ELSE {}
         /\ {p \in Running : p[1].req = t}
              = IF x = "core" THEN {<<dispatcher_requests[y], <<"core", y, 0>>>>} ELSE {}
         /\ {p \in Waiting : p[1] = t}
              = IF x = "mailbox" THEN {<<t, <<"mailbox", 0, z>>>>} ELSE {}
         /\ {p \in Returned : p[1] = t}
              = IF x = "returned" THEN {<<t, <<"returned", 0, z>>>>}
                ELSE IF x = "frqueue" THEN {<<t, <<"frqueue", 0, z>>>>} ELSE {}
<1>1. /\ DOMAIN rxq = 1..Len(rxq) /\ DOMAIN recv_mbufs = 1..Len(recv_mbufs)
      /\ DOMAIN frqueue = 1..Len(frqueue)
      /\ \A v \in Types : DOMAIN tskq[v] = 1..Len(tskq[v]) /\ Len(tskq[v]) \in Nat
      /\ cnt \in Nat /\ ni \in Nat /\ free_cnt \in Nat
  BY Sizes DEF TypeOK
<1>2. Alone(t, x, y, z) /\ (TaskAt(t, x, y, z) \/ x = "nowhere")
  BY DEF Lodged
<1>3. {i \in DOMAIN rxq : rxq[i] = t} = IF x = "rx" THEN {z} ELSE {}
  BY <1>1, <1>2 DEF Alone, TaskAt, InRx
<1>4. {i \in DOMAIN recv_mbufs : recv_mbufs[i] = t} = IF x = "recv" THEN {z} ELSE {}
  BY <1>1, <1>2 DEF Alone, TaskAt, InRecv
<1>5. {p \in Queued : p[1].req = t}
        = IF x = "tskq" THEN {<<tskq[y][z], <<"tskq", y, z>>>>} ELSE {}
  <2>1. ASSUME NEW p \in Queued, p[1].req = t
        PROVE  x = "tskq" /\ p = <<tskq[y][z], <<"tskq", y, z>>>>
    <3>1. PICK v \in Types : \E i \in 1..Len(tskq[v]) : p = <<tskq[v][i], <<"tskq", v, i>>>>
      BY <1>1, <2>1 DEF Queued
    <3>2. PICK i \in 1..Len(tskq[v]) : p = <<tskq[v][i], <<"tskq", v, i>>>>
      BY <3>1
    <3>3. InQueue(t, v, i) /\ i \in Nat
      BY <1>1, <2>1, <3>2 DEF InQueue
    <3>4. QED
      BY <1>2, <3>2, <3>3 DEF Alone
  <2>2. ASSUME x = "tskq"
        PROVE  <<tskq[y][z], <<"tskq", y, z>>>> \in Queued /\ tskq[y][z].req = t
    <3>1. y \in Types /\ z \in 1..Len(tskq[y]) /\ tskq[y][z].req = t
      BY <1>2, <2>2 DEF TaskAt, InQueue
    <3>2. QED
      BY <1>1, <3>1 DEF Queued
  <2>3. QED
    BY <2>1, <2>2
<1>6. {p \in Running : p[1].req = t}
        = IF x = "core" THEN {<<dispatcher_requests[y], <<"core", y, 0>>>>} ELSE {}
  <2>1. ASSUME NEW p \in Running, p[1].req = t
        PROVE  x = "core" /\ p = <<dispatcher_requests[y], <<"core", y, 0>>>>
    <3>1. PICK w \in Workers : InService(w) /\ p = <<dispatcher_requests[w], <<"core", w, 0>>>>
      BY <2>1 DEF Running
    <3>2. InCore(t, w)
      BY <2>1, <3>1 DEF InCore
    <3>3. QED
      BY <1>2, <3>1, <3>2 DEF Alone
  <2>2. ASSUME x = "core"
        PROVE  /\ <<dispatcher_requests[y], <<"core", y, 0>>>> \in Running
               /\ dispatcher_requests[y].req = t
    BY <1>2, <2>2 DEF TaskAt, InCore, Running
  <2>3. QED
    BY <2>1, <2>2
<1>7. {p \in Waiting : p[1] = t}
        = IF x = "mailbox" THEN {<<t, <<"mailbox", 0, z>>>>} ELSE {}
  <2>1. \A i \in Pending : i \in Nat
    BY <1>1 DEF Pending
  <2>2. ASSUME NEW p \in Waiting, p[1] = t
        PROVE  x = "mailbox" /\ p = <<t, <<"mailbox", 0, z>>>>
    BY <1>2, <2>1, <2>2 DEF Waiting, Alone, InMail
  <2>3. ASSUME x = "mailbox"
        PROVE  <<t, <<"mailbox", 0, z>>>> \in Waiting
    BY <1>2, <2>3 DEF TaskAt, InMail, Waiting
  <2>4. QED
    BY <2>2, <2>3
<1>8. {p \in Returned : p[1] = t}
        = IF x = "returned" THEN {<<t, <<"returned", 0, z>>>>}
          ELSE IF x = "frqueue" THEN {<<t, <<"frqueue", 0, z>>>>} ELSE {}
  <2>1. /\ \A i \in 1..free_cnt : i \in Nat
        /\ \A i \in 1..Len(frqueue) : i \in Nat
    BY <1>1
  <2>2. ASSUME NEW p \in Returned, p[1] = t
        PROVE  \/ x = "returned" /\ p = <<t, <<"returned", 0, z>>>>
               \/ x = "frqueue" /\ p = <<t, <<"frqueue", 0, z>>>>
    BY <1>1, <1>2, <2>1, <2>2 DEF Returned, Alone, InReturn, InFree
  <2>3. x = "returned" => <<t, <<"returned", 0, z>>>> \in Returned
    BY <1>2 DEF TaskAt, InReturn, Returned
  <2>4. x = "frqueue" => <<t, <<"frqueue", 0, z>>>> \in Returned
    BY <1>1, <1>2 DEF TaskAt, InFree, Returned
  <2>5. QED
    BY <2>2, <2>3, <2>4
<1>9. QED
  BY <1>3, <1>4, <1>5, <1>6, <1>7, <1>8

\* Nothing is answered twice or forgotten by rq_update, the dispatcher and the
\* workers: a task is on its way, or answered once, or lost once.
THEOREM ExactlyOneFateCorrect == Spec => []ExactlyOneFate
<1>1. IInv => ExactlyOneFate
  <2> SUFFICES ASSUME IInv, NEW t \in Tasks, Sent(t) PROVE Outstanding(t) + Fates(t) = 1
    BY DEF ExactlyOneFate
  <2>1. TypeOK /\ TaskInv
    BY DEF IInv
  <2>2. PICK x, y : \E z \in Nat : Lodged(t, x, y, z)
    BY <2>1 DEF TaskInv
  <2>3. PICK z \in Nat : Lodged(t, x, y, z)
    BY <2>2
  <2>4. Fates(t) = IF Due(x, y) THEN 0 ELSE 1
    BY <2>3 DEF Lodged, FateAt
  <2> DEFINE answering == {w \in Workers : Unanswered(w) /\ dispatcher_requests[w].req = t}
  <2>5. answering = IF x = "core" /\ Unanswered(y) THEN {y} ELSE {}
    <3>1. \A w \in Workers : Unanswered(w) /\ dispatcher_requests[w].req = t =>
            x = "core" /\ y = w
      BY <2>3 DEF Lodged, Alone, InCore, Unanswered
    <3>2. x = "core" => y \in Workers /\ dispatcher_requests[y].req = t
      BY <2>3 DEF Lodged, TaskAt, InCore
    <3>3. QED
      BY <3>1, <3>2
  <2>6. /\ Cardinality({i \in DOMAIN rxq : rxq[i] = t}) = IF x = "rx" THEN 1 ELSE 0
        /\ Cardinality({i \in DOMAIN recv_mbufs : recv_mbufs[i] = t})
             = IF x = "recv" THEN 1 ELSE 0
        /\ Cardinality({p \in Queued : p[1].req = t}) = IF x = "tskq" THEN 1 ELSE 0
        /\ Cardinality({p \in Waiting : p[1] = t}) = IF x = "mailbox" THEN 1 ELSE 0
    <3>1. /\ {i \in DOMAIN rxq : rxq[i] = t} = IF x = "rx" THEN {z} ELSE {}
          /\ {i \in DOMAIN recv_mbufs : recv_mbufs[i] = t} = IF x = "recv" THEN {z} ELSE {}
          /\ {p \in Queued : p[1].req = t}
               = IF x = "tskq" THEN {<<tskq[y][z], <<"tskq", y, z>>>>} ELSE {}
          /\ {p \in Waiting : p[1] = t}
               = IF x = "mailbox" THEN {<<t, <<"mailbox", 0, z>>>>} ELSE {}
      BY <2>1, <2>3, Counted
    <3>2. Cardinality({}) = 0 /\ \A e : Cardinality({e}) = 1
      BY FS_EmptySet, FS_Singleton
    <3>3. Cardinality({i \in DOMAIN rxq : rxq[i] = t}) = IF x = "rx" THEN 1 ELSE 0
      BY <3>1, <3>2
    <3>4. Cardinality({i \in DOMAIN recv_mbufs : recv_mbufs[i] = t})
             = IF x = "recv" THEN 1 ELSE 0
      BY <3>1, <3>2
    <3>5. Cardinality({p \in Queued : p[1].req = t}) = IF x = "tskq" THEN 1 ELSE 0
      BY <3>1, <3>2
    <3>6. Cardinality({p \in Waiting : p[1] = t}) = IF x = "mailbox" THEN 1 ELSE 0
      BY <3>1, <3>2
    <3>7. QED
      BY <3>3, <3>4, <3>5, <3>6
  <2>7. Cardinality(answering) = IF x = "core" /\ Unanswered(y) THEN 1 ELSE 0
    BY <2>5, FS_EmptySet, FS_Singleton
  <2> HIDE DEF answering
  <2>8. Outstanding(t) = IF Due(x, y) THEN 1 ELSE 0
    <3>1. Outstanding(t) = (IF x = "rx" THEN 1 ELSE 0) + (IF x = "recv" THEN 1 ELSE 0)
            + (IF x = "tskq" THEN 1 ELSE 0) + (IF x = "mailbox" THEN 1 ELSE 0)
            + (IF x = "core" /\ Unanswered(y) THEN 1 ELSE 0)
      BY <2>6, <2>7 DEF Outstanding, answering
    <3>2. QED
      BY <3>1 DEF Due
  <2>9. QED
    BY <2>4, <2>8
<1>2. QED
  BY <1>1, Inductive, PTL

LEMMA RequestsOwned == ASSUME IInv PROVE RequestOwned
<1> SUFFICES ASSUME NEW t \in Tasks
             PROVE  Cardinality(RequestPlaces(t)) = IF t \in live THEN 1 ELSE 0
  BY DEF RequestOwned
<1>1. TypeOK /\ TaskInv
  BY DEF IInv
<1>2. PICK x, y : \E z \in Nat : Lodged(t, x, y, z)
  BY <1>1 DEF TaskInv
<1>3. PICK z \in Nat : Lodged(t, x, y, z)
  BY <1>2
<1>4. RequestPlaces(t) =
        ({p \in Queued : p[1].req = t} \cup {p \in Running : p[1].req = t})
          \cup ({p \in Returned : p[1] = t} \cup {p \in Waiting : p[1] = t})
  BY DEF RequestPlaces
<1>5. \/ x \in {"rx", "recv", "nowhere"}
      \/ x \in {"tskq", "core", "mailbox", "returned", "frqueue"}
  BY <1>3 DEF Lodged, TaskAt
<1>6. CASE x \in {"rx", "recv", "nowhere"}
  <2>1. t \notin live
    BY <1>3, <1>6 DEF Lodged, Alive
  <2>2. RequestPlaces(t) = {}
    BY <1>1, <1>3, <1>4, <1>6, Counted
  <2>3. QED
    BY <2>1, <2>2, FS_EmptySet
<1>7. CASE x \in {"tskq", "core", "mailbox", "returned", "frqueue"}
  <2>1. t \in live
    BY <1>3, <1>7 DEF Lodged, Alive
  <2>2. \E e : RequestPlaces(t) = {e}
    <3>1. /\ {p \in Queued : p[1].req = t}
               = IF x = "tskq" THEN {<<tskq[y][z], <<"tskq", y, z>>>>} ELSE {}
          /\ {p \in Running : p[1].req = t}
               = IF x = "core" THEN {<<dispatcher_requests[y], <<"core", y, 0>>>>} ELSE {}
          /\ {p \in Waiting : p[1] = t}
               = IF x = "mailbox" THEN {<<t, <<"mailbox", 0, z>>>>} ELSE {}
          /\ {p \in Returned : p[1] = t}
               = IF x = "returned" THEN {<<t, <<"returned", 0, z>>>>}
                 ELSE IF x = "frqueue" THEN {<<t, <<"frqueue", 0, z>>>>} ELSE {}
      BY <1>1, <1>3, Counted
    <3>2. CASE x = "tskq"
      BY <1>4, <3>1, <3>2
    <3>3. CASE x = "core"
      BY <1>4, <3>1, <3>3
    <3>4. CASE x = "mailbox"
      BY <1>4, <3>1, <3>4
    <3>5. CASE x = "returned"
      BY <1>4, <3>1, <3>5
    <3>6. CASE x = "frqueue"
      BY <1>4, <3>1, <3>6
    <3>7. QED
      BY <1>7, <3>2, <3>3, <3>4, <3>5, <3>6
  <2>3. QED
    BY <2>1, <2>2, FS_Singleton
<1>8. QED
  BY <1>5, <1>6, <1>7

LEMMA PlacedEntry ==
  ASSUME TypeOK, NEW p
  PROVE  p \in Queued \cup Running => Entry(p[1])
<1>1. \A v \in Types : DOMAIN tskq[v] = 1..Len(tskq[v])
  BY DEF TypeOK
<1>2. p \in Queued => Entry(p[1])
  BY <1>1 DEF Queued, Entry
<1>3. p \in Running => Entry(p[1])
  BY DEF Running, Entry
<1>4. QED
  BY <1>2, <1>3

LEMMA EntryPlaced ==
  ASSUME TypeOK, NEW e, Entry(e)
  PROVE  \E p \in Queued \cup Running : p[1] = e
<1>1. \A v \in Types : DOMAIN tskq[v] = 1..Len(tskq[v])
  BY DEF TypeOK
<1>2. CASE \E y \in Types : \E i \in 1..Len(tskq[y]) : e = tskq[y][i]
  <2>1. PICK y \in Types : \E i \in 1..Len(tskq[y]) : e = tskq[y][i]
    BY <1>2
  <2>2. PICK i \in DOMAIN tskq[y] : e = tskq[y][i]
    BY <1>1, <2>1
  <2>3. <<tskq[y][i], <<"tskq", y, i>>>> \in Queued
    BY <2>2 DEF Queued
  <2>4. QED
    BY <2>2, <2>3
<1>3. CASE \E w \in Workers : InService(w) /\ e = dispatcher_requests[w]
  <2>1. PICK w \in Workers : InService(w) /\ e = dispatcher_requests[w]
    BY <1>3
  <2>2. <<dispatcher_requests[w], <<"core", w, 0>>>> \in Running
    BY <2>1 DEF Running
  <2>3. QED
    BY <2>1, <2>2
<1>4. QED
  BY <1>2, <1>3 DEF Entry

LEMMA ContextsOwned == ASSUME IInv PROVE ContextOwned
<1> SUFFICES ASSUME NEW c \in Contexts
             PROVE  Cardinality({p \in Queued \cup Running : p[1].rnbl = c})
                      + Cardinality({c} \cap freeCtx) = 1
  BY DEF ContextOwned
<1>1. TypeOK /\ TaskInv /\ ContextInv /\ SlotInv
  BY DEF IInv
<1> DEFINE held == {p \in Queued \cup Running : p[1].rnbl = c}
<1>2. CASE c \in freeCtx
  <2>1. held = {}
    BY <1>1, <1>2, PlacedEntry DEF ContextInv
  <2>2. {c} \cap freeCtx = {c}
    BY <1>2
  <2>3. Cardinality(held) = 0 /\ Cardinality({c} \cap freeCtx) = 1
    BY <2>1, <2>2, FS_EmptySet, FS_Singleton
  <2>4. QED
    BY <2>3
<1>3. CASE c \notin freeCtx
  <2>1. {c} \cap freeCtx = {}
    BY <1>3
  <2>2. PICK e : Entry(e) /\ e.rnbl = c
    BY <1>1, <1>3 DEF ContextInv
  <2>3. PICK t \in Tasks : t = e.req
    BY <1>1, <2>2, EntryRunnable
  <2>4. PICK x, y : \E z \in Nat : Lodged(t, x, y, z)
    BY <1>1 DEF TaskInv
  <2>5. PICK z \in Nat : Lodged(t, x, y, z)
    BY <2>4
  <2>6. \A p \in held : p \in Queued \cup Running /\ p[1].req = t
    BY <1>1, <2>2, <2>3, PlacedEntry DEF ContextInv
  <2>7. \E p : {q \in Queued \cup Running : q[1].req = t} \subseteq {p}
    <3>1. {q \in Queued \cup Running : q[1].req = t}
            = {q \in Queued : q[1].req = t} \cup {q \in Running : q[1].req = t}
      OBVIOUS
    <3>2. QED
      BY <1>1, <2>5, <3>1, Counted
  <2>8. held # {}
    BY <1>1, <2>2, EntryPlaced
  <2>9. \E p : held = {p}
    BY <2>6, <2>7, <2>8
  <2>10. Cardinality(held) = 1 /\ Cardinality({c} \cap freeCtx) = 0
    BY <2>1, <2>9, FS_EmptySet, FS_Singleton
  <2>11. QED
    BY <2>10
<1>4. QED
  BY <1>2, <1>3

LEMMA LengthsExact == ASSUME IInv PROVE QueueLengthExact
<1> SUFFICES ASSUME NEW y \in Types
             PROVE  queue_length[y] =
                      Len(tskq[y]) + Cardinality({p \in Running : p[1].type = y})
  BY DEF QueueLengthExact
<1> DEFINE T == {p \in Running : p[1].type = y}
           f == [w \in Serving(y) |-> <<dispatcher_requests[w], <<"core", w, 0>>>>]
<1>1. IsFiniteSet(Serving(y))
  BY Sizes, FS_Subset DEF Serving
<1>2. f \in Bijection(Serving(y), T)
  <2>1. \A w \in Serving(y) : f[w] \in T
    BY DEF Serving, Running
  <2>2. \A v, w \in Serving(y) : f[v] = f[w] => v = w
    OBVIOUS
  <2>3. \A p \in T : \E w \in Serving(y) : f[w] = p
    BY DEF Serving, Running
  <2>4. f \in [Serving(y) -> T]
    BY <2>1
  <2> HIDE DEF f, T
  <2>5. QED
    BY <2>2, <2>3, <2>4 DEF Bijection, Injection, Surjection, IsInjective
<1>3. Cardinality(T) = Cardinality(Serving(y))
  BY <1>1, <1>2, FS_Bijection DEF ExistsBijection
<1>4. queue_length[y] = Len(tskq[y]) + Cardinality(Serving(y))
  BY DEF IInv, LengthInv
<1>5. QED
  BY <1>3, <1>4

\* Across HandleFinished, HandlePreempted and DispatchRequest, whichever cores a
\* task runs on, its request and its context have one holder, none is freed
\* twice, and queue_length counts what is queued and in service.
THEOREM AccountedCorrect == Spec => []Accounted
<1>1. IInv => Accounted
  BY RequestsOwned, ContextsOwned, LengthsExact DEF Accounted
<1>2. QED
  BY <1>1, Inductive, PTL

-----------------------------------------------------------------------------
(* Waiting times.                                                           *)

\* A task of queue y that has not begun.
Fresh(y, e) == e.category = "PACKET" /\ \E i \in 1..Len(tskq[y]) : e = tskq[y][i]

\* Nothing queued before a task that has not begun arrived after it: new tasks
\* go to the tail, and a preempted one has been ahead of all of them.
OrderInv ==
  \A y \in Types : \A i, j \in 1..Len(tskq[y]) :
    i < j /\ tskq[y][j].category = "PACKET" => tskq[y][i].timestamp <= tskq[y][j].timestamp

ClockInv == \A e : Entry(e) => e.timestamp <= cur_time

\* What worker w was given had arrived before all that wait for its queue now,
\* and no other queue had waited longer for its objective.
SlotTimes(w) ==
  LET slot == dispatcher_requests[w]
      dispatched == timestamps[w] IN
  InService(w) =>
    /\ dispatched <= cur_time
    /\ \A e : Fresh(slot.type, e) => slot.timestamp <= e.timestamp
    /\ \A y \in Types : \A e : Fresh(y, e) /\ e.timestamp < dispatched =>
         (dispatched - e.timestamp) * Slo[slot.type]
           <= (dispatched - slot.timestamp) * Slo[y]

TimesInv == OrderInv /\ ClockInv /\ \A w \in Workers : SlotTimes(w)

LEMMA Times ==
  ASSUME TypeOK, SlotInv
  PROVE  /\ cur_time \in Nat /\ \A w \in Workers : timestamps[w] \in Nat
         /\ \A e : Entry(e) => e \in Runnable /\ e.timestamp \in Nat /\ e.type \in Types
         /\ \A y \in Types : \A i \in 1..Len(tskq[y]) :
              Entry(tskq[y][i]) /\ tskq[y][i].type = y
         /\ \A y \in Types : \A e : Fresh(y, e) => Entry(e)
<1>1. \A n \in Time : n \in Nat
  BY Sizes
<1>2. cur_time \in Nat /\ \A w \in Workers : timestamps[w] \in Nat
  BY <1>1 DEF TypeOK
<1>3. \A e : Entry(e) => e \in Runnable /\ e.timestamp \in Nat /\ e.type \in Types
  BY <1>1, EntryRunnable
<1>4. \A y \in Types : \A i \in 1..Len(tskq[y]) : Entry(tskq[y][i]) /\ tskq[y][i].type = y
  BY DEF Entry, TypeOK
<1>5. \A y \in Types : \A e : Fresh(y, e) => Entry(e)
  BY DEF Fresh, Entry
<1>6. QED
  BY <1>2, <1>3, <1>4, <1>5

\* A step that gives worker w nothing, and its queues nothing new.
LEMMA SlotTimesKept ==
  ASSUME TypeOK, SlotInv, NEW w \in Workers, SlotTimes(w), InService(w)' => InService(w),
         dispatcher_requests'[w] = dispatcher_requests[w], timestamps'[w] = timestamps[w],
         cur_time' \in Nat, cur_time <= cur_time',
         \A y \in Types : \A e : Fresh(y, e)' => Fresh(y, e)
  PROVE  SlotTimes(w)'
<1> SUFFICES ASSUME InService(w)' PROVE SlotTimes(w)'
  BY DEF SlotTimes
<1>1. dispatcher_requests[w].type \in Types /\ cur_time \in Nat /\ timestamps[w] \in Nat
  BY Times DEF Entry
<1>2. timestamps[w] <= cur_time
  BY DEF SlotTimes
<1>3. timestamps'[w] <= cur_time'
  BY <1>1, <1>2
<1>4. QED
  BY <1>1, <1>3 DEF SlotTimes

LEMMA StillTimes ==
  ASSUME TypeOK, SlotInv, TimesInv, UNCHANGED <<tskq, dispatcher_requests, timestamps>>,
         \A w \in Workers : InService(w)' => InService(w),
         \A e : Entry(e)' => Entry(e),
         cur_time' \in Nat, cur_time <= cur_time'
  PROVE  TimesInv'
<1>1. \A y, e : Fresh(y, e)' <=> Fresh(y, e)
  BY DEF Fresh
<1>2. \A w \in Workers : SlotTimes(w)'
  BY <1>1, SlotTimesKept DEF TimesInv
<1>3. OrderInv'
  BY DEF TimesInv, OrderInv
<1>4. ClockInv'
  <2>1. ASSUME NEW e, Entry(e) PROVE e.timestamp <= cur_time'
    <3>1. e.timestamp \in Nat /\ cur_time \in Nat /\ e.timestamp <= cur_time
      BY <2>1, Times DEF TimesInv, ClockInv
    <3>2. QED
      BY <3>1
  <2>2. QED
    BY <2>1 DEF ClockInv
<1>5. QED
  BY <1>2, <1>3, <1>4 DEF TimesInv

LEMMA RequeueTimes ==
  ASSUME IInv, TimesInv, NEW w \in Workers, HandlePreempted(w) PROVE TimesInv'
<1>1. TypeOK /\ SlotInv
  BY DEF IInv
<1>2. PICK e \in Runnable :
        /\ e = worker_responses[w] /\ e.type \in Types
        /\ \A f : Entry(f)' => Entry(f) \/ f = e
        /\ \A v \in Workers : InService(v)' <=> InService(v) /\ v # w
        /\ \A y \in Types : y # e.type => tskq'[y] = tskq[y]
        /\ tskq'[e.type] = Requeued(e)
  BY <1>1, PreemptedEntries
<1>3. PICK u \in Types : u = e.type
  BY <1>2
<1>4. /\ InService(w) /\ e.timestamp = dispatcher_requests[w].timestamp
      /\ u = dispatcher_requests[w].type /\ e.category = "CONTEXT"
  BY <1>1, <1>2, <1>3, TakeResponse DEF HandlePreempted
<1>5. UNCHANGED <<cur_time, dispatcher_requests, timestamps>>
  BY DEF HandlePreempted, loopVars, Processed
<1>6. Entry(dispatcher_requests[w])
  BY <1>4 DEF Entry
<1>7. tskq[u] \in Seq(Runnable)
  BY <1>1 DEF TypeOK
<1>8. PICK n \in Nat : n = Len(tskq[e.type])
  BY <1>3, <1>7
<1>9. Len(tskq'[u]) = n + 1
  BY <1>1, <1>2, <1>3, <1>8, RequeueTask
<1>10. ASSUME HeadFirst[e.type]
       PROVE  /\ \A f : Fresh(u, f)' => Fresh(u, f)
              /\ \A i, j \in 1..(n + 1) : i < j /\ tskq'[u][j].category = "PACKET" =>
                   tskq'[u][i].timestamp <= tskq'[u][j].timestamp
  <2>1. tskq'[u][1] = e /\ \A i \in 2..(n + 1) : tskq'[u][i] = tskq[u][i - 1]
    <3>1. /\ Requeued(e)[1] = e
          /\ \A i \in 2..(n + 1) : Requeued(e)[i] = tskq[e.type][i - 1]
      BY <1>1, <1>8, <1>10, RequeuedFirst
    <3>2. QED
      BY <1>2, <1>3, <3>1
  <2>2. \A i \in 1..(n + 1) : i = 1 \/ (i \in 2..(n + 1) /\ i - 1 \in 1..n)
    BY <1>8
  <2>3. \A f : Fresh(u, f)' => Fresh(u, f)
    BY <1>3, <1>4, <1>8, <1>9, <2>1, <2>2 DEF Fresh
  <2>4. ASSUME NEW i \in 1..(n + 1), NEW j \in 1..(n + 1), i < j,
               tskq'[u][j].category = "PACKET"
        PROVE  tskq'[u][i].timestamp <= tskq'[u][j].timestamp
    <3>1. j \in 2..(n + 1) /\ j - 1 \in 1..n /\ tskq'[u][j] = tskq[u][j - 1]
      BY <1>8, <2>1, <2>4
    <3>2. CASE i = 1
      <4>1. Fresh(u, tskq[u][j - 1])
        BY <1>3, <1>8, <2>4, <3>1 DEF Fresh
      <4>2. dispatcher_requests[w].timestamp <= tskq[u][j - 1].timestamp
        BY <1>4, <4>1 DEF TimesInv, SlotTimes
      <4>3. QED
        BY <1>4, <2>1, <3>1, <3>2, <4>2
    <3>3. CASE i # 1
      <4>1. i - 1 \in 1..n /\ i - 1 < j - 1 /\ tskq'[u][i] = tskq[u][i - 1]
        BY <1>8, <2>1, <2>4, <3>3
      <4>2. QED
        BY <1>3, <1>8, <2>4, <3>1, <4>1 DEF TimesInv, OrderInv
    <3>4. QED
      BY <3>2, <3>3
  <2>5. QED
    BY <2>3, <2>4
<1>11. ASSUME ~HeadFirst[e.type]
       PROVE  /\ \A f : Fresh(u, f)' => Fresh(u, f)
              /\ \A i, j \in 1..(n + 1) : i < j /\ tskq'[u][j].category = "PACKET" =>
                   tskq'[u][i].timestamp <= tskq'[u][j].timestamp
  <2>1. tskq'[u][n + 1] = e /\ \A i \in 1..n : tskq'[u][i] = tskq[u][i]
    <3>1. Requeued(e)[n + 1] = e /\ \A i \in 1..n : Requeued(e)[i] = tskq[e.type][i]
      BY <1>1, <1>8, <1>11, RequeuedLast
    <3>2. QED
      BY <1>2, <1>3, <3>1
  <2>2. \A i \in 1..(n + 1) : i = n + 1 \/ i \in 1..n
    BY <1>8
  <2>3. \A f : Fresh(u, f)' => Fresh(u, f)
    BY <1>3, <1>4, <1>8, <1>9, <2>1, <2>2 DEF Fresh
  <2>4. ASSUME NEW i \in 1..(n + 1), NEW j \in 1..(n + 1), i < j,
               tskq'[u][j].category = "PACKET"
        PROVE  tskq'[u][i].timestamp <= tskq'[u][j].timestamp
    <3>1. j # n + 1
      BY <1>4, <2>1, <2>4
    <3>2. i \in 1..n /\ j \in 1..n
      BY <1>8, <2>4, <3>1
    <3>3. QED
      BY <1>3, <1>8, <2>1, <2>4, <3>2 DEF TimesInv, OrderInv
  <2>5. QED
    BY <2>3, <2>4
<1>12. /\ \A f : Fresh(u, f)' => Fresh(u, f)
       /\ \A i, j \in 1..(n + 1) : i < j /\ tskq'[u][j].category = "PACKET" =>
            tskq'[u][i].timestamp <= tskq'[u][j].timestamp
  <2>1. CASE HeadFirst[e.type]
    BY <1>10, <2>1
  <2>2. CASE ~HeadFirst[e.type]
    BY <1>11, <2>2
  <2>3. QED
    BY <2>1, <2>2
<1>13. \A y \in Types : \A f : Fresh(y, f)' => Fresh(y, f)
  BY <1>2, <1>3, <1>12 DEF Fresh
<1>14. OrderInv'
  BY <1>2, <1>3, <1>9, <1>12 DEF TimesInv, OrderInv
<1>15. ClockInv'
  BY <1>2, <1>4, <1>5, <1>6 DEF TimesInv, ClockInv
<1>16. ASSUME NEW v \in Workers PROVE SlotTimes(v)'
  <2>1. cur_time \in Nat /\ cur_time <= cur_time
    BY <1>1, Times
  <2>2. QED
    BY <1>1, <1>2, <1>5, <1>13, <2>1, SlotTimesKept DEF TimesInv
<1>17. QED
  BY <1>14, <1>15, <1>16 DEF TimesInv

LEMMA Scaled ==
  ASSUME NEW a \in Int, NEW b \in Int, NEW s \in Nat, a <= b PROVE a * s <= b * s
<1>1. PICK d \in Nat : b = a + d
  BY b - a \in Nat /\ b = a + (b - a)
<1>2. b * s = a * s + d * s
  BY <1>1
<1>3. d * s \in Nat /\ a * s \in Int
  BY <1>1
<1>4. QED
  BY <1>2, <1>3

\* The head of a queue is as old as anything in it that has not begun.
LEMMA HeadOldest ==
  ASSUME TypeOK, SlotInv, OrderInv, NEW y \in Types, NEW f, Fresh(y, f)
  PROVE  tskq[y] # <<>> /\ tskq[y][1].timestamp <= f.timestamp
<1>1. PICK n \in Nat : n = Len(tskq[y])
  BY DEF TypeOK
<1>2. PICK j \in 1..n : f = tskq[y][j] /\ f.category = "PACKET"
  BY <1>1 DEF Fresh
<1>3. 1 \in 1..n /\ n # 0
  BY <1>1, <1>2
<1>4. tskq[y] # <<>>
  BY <1>1, <1>3
<1>5. f.timestamp \in Nat
  BY <1>1, <1>2, Times DEF Fresh
<1>6. CASE j = 1
  BY <1>2, <1>4, <1>5, <1>6
<1>7. CASE j # 1
  <2>1. 1 < j
    BY <1>1, <1>2, <1>7
  <2>2. QED
    BY <1>1, <1>2, <1>3, <1>4, <2>1 DEF OrderInv
<1>8. QED
  BY <1>6, <1>7

LEMMA DispatchTimes ==
  ASSUME IInv, TimesInv, NEW w \in Workers, DispatchRequest(w) PROVE TimesInv'
<1>1. TypeOK /\ SlotInv /\ OrderInv
  BY DEF IInv, TimesInv
<1>2. /\ \A f : Entry(f)' <=> Entry(f)
      /\ \A v \in Workers : InService(v)' <=> InService(v) \/ v = w
  BY <1>1, DispatchedEntries
<1>3. PICK u \in Types :
        /\ SmartQueue(u) /\ tskq[u] # <<>>
        /\ tskq'[u] = Tail(tskq[u])
        /\ \A z \in Types : z # u => tskq'[z] = tskq[z]
        /\ dispatcher_requests'[w] = tskq[u][1]
        /\ \A v \in Workers : v # w => dispatcher_requests'[v] = dispatcher_requests[v]
  BY <1>1, DispatchedEntries
<1>4. cur_time' = cur_time /\ timestamps' = [timestamps EXCEPT ![w] = cur_time]
  BY DEF DispatchRequest, NextTurn
<1>5. /\ timestamps'[w] = cur_time
      /\ \A v \in Workers : v # w => timestamps'[v] = timestamps[v]
  BY <1>1, <1>4 DEF TypeOK
<1>6. cur_time \in Nat /\ cur_time <= cur_time
  BY <1>1, Times
<1>7. PICK n \in Nat : n = Len(tskq[u]) - 1
  BY <1>1, <1>3, TakeTask
<1>8. /\ n + 1 = Len(tskq[u]) /\ Len(tskq'[u]) = n
      /\ \A i \in 1..n : tskq'[u][i] = tskq[u][i + 1]
  <2>1. /\ Len(tskq[u]) \in Nat /\ Len(Tail(tskq[u])) = Len(tskq[u]) - 1
        /\ \A i \in 1..(Len(tskq[u]) - 1) : Tail(tskq[u])[i] = tskq[u][i + 1]
    BY <1>1, <1>3, TakeTask
  <2>2. QED
    BY <1>3, <1>7, <2>1
<1>9. \A i \in 1..n : i + 1 \in 1..(n + 1)
  BY <1>7
<1>10. \A f : Fresh(u, f)' => Fresh(u, f)
  BY <1>8, <1>9 DEF Fresh
<1>11. ASSUME NEW y \in Types, NEW f, Fresh(y, f)' PROVE Fresh(y, f)
  <2>1. CASE y = u
    BY <1>10, <1>11, <2>1
  <2>2. CASE y # u
    <3>1. tskq'[y] = tskq[y]
      BY <1>3, <2>2
    <3>2. QED
      BY <1>11, <3>1 DEF Fresh
  <2>3. QED
    BY <2>1, <2>2
<1>12. \A i, j \in 1..n : i < j /\ tskq'[u][j].category = "PACKET" =>
         tskq'[u][i].timestamp <= tskq'[u][j].timestamp
  <2>1. ASSUME NEW i \in 1..n, NEW j \in 1..n, i < j, tskq[u][j + 1].category = "PACKET"
        PROVE  tskq[u][i + 1].timestamp <= tskq[u][j + 1].timestamp
    <3>1. i + 1 < j + 1
      BY <1>7, <2>1
    <3>2. QED
      BY <1>1, <1>8, <1>9, <2>1, <3>1 DEF OrderInv
  <2>2. \A i \in 1..n : tskq'[u][i] = tskq[u][i + 1]
    BY <1>8
  <2>3. QED
    BY <2>1, <2>2
<1>13. OrderInv'
  BY <1>1, <1>3, <1>8, <1>12 DEF OrderInv
<1>14. ClockInv'
  BY <1>2, <1>4 DEF TimesInv, ClockInv
<1>15. ASSUME NEW v \in Workers, v # w PROVE SlotTimes(v)'
  <2>1. SlotTimes(v) /\ (InService(v)' => InService(v))
    BY <1>2, <1>15 DEF TimesInv
  <2>2. dispatcher_requests'[v] = dispatcher_requests[v] /\ timestamps'[v] = timestamps[v]
    BY <1>3, <1>5, <1>15
  <2>3. QED
    BY <1>1, <1>4, <1>6, <1>11, <2>1, <2>2, SlotTimesKept
<1>16. SlotTimes(w)'
  <2>1. tskq[u][1].type = u /\ tskq[u][1].timestamp \in Nat
    <3>1. 1 \in 1..Len(tskq[u])
      BY <1>7, <1>8
    <3>2. QED
      BY <1>1, <3>1, Times
  <2>2. ASSUME NEW f, Fresh(u, f)' PROVE tskq[u][1].timestamp <= f.timestamp
    BY <1>1, <1>10, <2>2, HeadOldest
  <2>3. ASSUME NEW y \in Types, NEW f, Fresh(y, f)'
        PROVE  (cur_time - f.timestamp) * Slo[u]
                 <= (cur_time - tskq[u][1].timestamp) * Slo[y]
    <3>1. Fresh(y, f)
      BY <1>11, <2>3
    <3>2. tskq[y] # <<>> /\ tskq[y][1].timestamp <= f.timestamp
      BY <1>1, <3>1, HeadOldest
    <3>3. 1 \in 1..Len(tskq[y])
      BY <1>1, <3>2, TakeTask
    <3>4. f.timestamp \in Nat /\ tskq[y][1].timestamp \in Nat
      BY <1>1, <3>1, <3>3, Times
    <3>5. Slo[u] \in Nat /\ Slo[y] \in Nat
      BY ShinjukuSizes
    <3>6. /\ Waited(y) = cur_time - tskq[y][1].timestamp
          /\ Waited(u) = cur_time - tskq[u][1].timestamp
      BY DEF Waited
    <3>7. /\ Waited(y) \in Int /\ Waited(u) \in Int
          /\ cur_time - f.timestamp \in Int /\ cur_time - f.timestamp <= Waited(y)
      BY <1>6, <2>1, <3>2, <3>4, <3>6
    <3>8. (cur_time - f.timestamp) * Slo[u] <= Waited(y) * Slo[u]
      BY <3>5, <3>7, Scaled
    <3>9. \/ Waited(y) * Slo[u] < Waited(u) * Slo[y]
          \/ Waited(y) * Slo[u] = Waited(u) * Slo[y] /\ u <= y
      BY <1>3, <3>2 DEF SmartQueue
    <3>10. /\ (cur_time - f.timestamp) * Slo[u] \in Int
           /\ Waited(y) * Slo[u] \in Int /\ Waited(u) * Slo[y] \in Int
      BY <3>5, <3>7
    <3>11. (cur_time - f.timestamp) * Slo[u] <= Waited(u) * Slo[y]
      BY <3>8, <3>9, <3>10
    <3>12. QED
      BY <3>6, <3>11
  <2>4. QED
    BY <1>3, <1>4, <1>5, <1>6, <2>1, <2>2, <2>3 DEF SlotTimes
<1>17. QED
  BY <1>13, <1>14, <1>15, <1>16 DEF TimesInv

LEMMA AcceptTimes == ASSUME IInv, TimesInv, AcceptRequest PROVE TimesInv'
<1>1. TypeOK /\ SlotInv /\ MailInv
  BY DEF IInv
<1>2. PICK c \in freeCtx : \E e \in Runnable :
        /\ e = [rnbl |-> c, req |-> reqs[ni], type |-> types[ni], category |-> "PACKET",
                timestamp |-> cur_time]
        /\ types[ni] \in Types
        /\ tskq'[types[ni]] = Append(tskq[types[ni]], e)
        /\ \A y \in Types : y # types[ni] => tskq'[y] = tskq[y]
        /\ \A f : Entry(f)' <=> Entry(f) \/ f = e
  BY <1>1, AcceptedEntries
<1>3. PICK e \in Runnable :
        /\ e.timestamp = cur_time /\ types[ni] \in Types
        /\ tskq'[types[ni]] = Append(tskq[types[ni]], e)
        /\ \A y \in Types : y # types[ni] => tskq'[y] = tskq[y]
        /\ \A f : Entry(f)' <=> Entry(f) \/ f = e
  BY <1>2
<1>4. PICK u \in Types : u = types[ni]
  BY <1>3
<1>5. /\ cur_time' = cur_time /\ UNCHANGED <<timestamps, dispatcher_requests>>
      /\ \A v \in Workers : InService(v)' <=> InService(v)
  BY DEF AcceptRequest, timerVars, slotVars, InService
<1>6. cur_time \in Nat
  BY <1>1, Times
<1>7. tskq[u] \in Seq(Runnable)
  BY <1>1 DEF TypeOK
<1>8. PICK n \in Nat : n = Len(tskq[u])
  BY <1>7
<1>9. /\ Len(tskq'[u]) = n + 1 /\ tskq'[u][n + 1] = e
      /\ \A i \in 1..n : tskq'[u][i] = tskq[u][i]
  BY <1>3, <1>4, <1>7, <1>8, Appended
<1>10. \A i \in 1..(n + 1) : i \in 1..n \/ i = n + 1
  BY <1>8
<1>11. ASSUME NEW y \in Types, NEW f, Fresh(y, f)' PROVE Fresh(y, f) \/ f = e
  <2>1. CASE y = u
    <3>1. \A i \in 1..(n + 1) : tskq'[u][i] = e \/ \E j \in 1..n : tskq'[u][i] = tskq[u][j]
      BY <1>9, <1>10
    <3>2. QED
      BY <1>8, <1>9, <1>11, <2>1, <3>1 DEF Fresh
  <2>2. CASE y # u
    <3>1. tskq'[y] = tskq[y]
      BY <1>3, <1>4, <2>2
    <3>2. QED
      BY <1>11, <3>1 DEF Fresh
  <2>3. QED
    BY <2>1, <2>2
<1>12. ClockInv'
  BY <1>3, <1>5, <1>6 DEF TimesInv, ClockInv
<1>13. OrderInv'
  <2>1. ASSUME NEW i \in 1..(n + 1), NEW j \in 1..(n + 1), i < j,
               tskq'[u][j].category = "PACKET"
        PROVE  tskq'[u][i].timestamp <= tskq'[u][j].timestamp
    <3>1. i \in 1..n /\ tskq'[u][i] = tskq[u][i]
      BY <1>8, <1>9, <2>1
    <3>2. CASE j = n + 1
      <4>1. Entry(tskq[u][i])
        BY <1>1, <1>8, <3>1, Times
      <4>2. tskq[u][i].timestamp <= cur_time
        BY <4>1 DEF TimesInv, ClockInv
      <4>3. QED
        BY <1>3, <1>9, <3>1, <3>2, <4>2
    <3>3. CASE j \in 1..n
      BY <1>8, <1>9, <2>1, <3>1, <3>3 DEF TimesInv, OrderInv
    <3>4. QED
      BY <1>10, <3>2, <3>3
  <2>2. QED
    BY <1>3, <1>4, <1>9, <2>1 DEF TimesInv, OrderInv
<1>14. ASSUME NEW v \in Workers, InService(v) PROVE SlotTimes(v)'
  <2>1. PICK s \in Runnable : s = dispatcher_requests[v] /\ Entry(s) /\ s.type \in Types
    <3>1. Entry(dispatcher_requests[v])
      BY <1>14 DEF Entry
    <3>2. QED
      BY <1>1, <3>1, Times
  <2>2. s.timestamp <= cur_time
    BY <2>1 DEF TimesInv, ClockInv
  <2>3. /\ timestamps[v] <= cur_time
        /\ \A f : Fresh(s.type, f) => s.timestamp <= f.timestamp
        /\ \A y \in Types : \A f : Fresh(y, f) /\ f.timestamp < timestamps[v] =>
             (timestamps[v] - f.timestamp) * Slo[s.type]
               <= (timestamps[v] - s.timestamp) * Slo[y]
    BY <1>14, <2>1 DEF TimesInv, SlotTimes
  <2>4. ~(e.timestamp < timestamps[v]) /\ s.timestamp <= e.timestamp
    BY <1>1, <1>3, <1>6, <2>2, <2>3, Times
  <2>5. \A f : Fresh(s.type, f)' => s.timestamp <= f.timestamp
    BY <1>11, <2>1, <2>3, <2>4
  <2>6. ASSUME NEW y \in Types, NEW f, Fresh(y, f)', f.timestamp < timestamps[v]
        PROVE  Fresh(y, f)
    BY <1>11, <2>4, <2>6
  <2>7. /\ timestamps'[v] = timestamps[v] /\ dispatcher_requests'[v] = s
        /\ cur_time' = cur_time
    BY <1>5, <2>1
  <2>8. QED
    BY <2>3, <2>5, <2>6, <2>7 DEF SlotTimes
<1>15. ASSUME NEW v \in Workers, ~InService(v) PROVE SlotTimes(v)'
  BY <1>5, <1>15 DEF SlotTimes
<1>16. QED
  BY <1>12, <1>13, <1>14, <1>15 DEF TimesInv

LEMMA TimesStep == ASSUME IInv, TimesInv, [Next]_vars PROVE TimesInv'
<1>1. TypeOK /\ SlotInv
  BY DEF IInv
<1>2. cur_time \in Nat
  BY <1>1, Times
<1>3. cur_time' \in Nat /\ cur_time <= cur_time'
  <2>1. CASE StartTurn
    BY <1>2, <2>1 DEF StartTurn
  <2>2. CASE UNCHANGED cur_time
    BY <1>2, <2>2
  <2>3. StartTurn \/ UNCHANGED cur_time
    BY DEF Next, SendPacket, NetworkerNext, Receive, PostBatch, DispatcherNext,
       LookAtMailbox, DropRequest, AcceptRequest, ReturnFinished, SkipWorker,
       PreemptWorker, HandleFinished, HandlePreempted, NothingToDispatch,
       DispatchRequest, NextTurn, WorkerNext, TakeRequest, PreemptHandler, SendReply,
       FinishRequest, vars, loopVars
  <2>4. QED
    BY <2>1, <2>2, <2>3
<1>4. (\E w \in Workers : DispatchRequest(w)) \/ UNCHANGED timestamps
  BY DEF Next, SendPacket, NetworkerNext, Receive, PostBatch, DispatcherNext, StartTurn,
     LookAtMailbox, DropRequest, AcceptRequest, ReturnFinished, SkipWorker,
     PreemptWorker, HandleFinished, HandlePreempted, Processed, NothingToDispatch,
     WorkerNext, TakeRequest, PreemptHandler, SendReply, FinishRequest, vars, timerVars
<1>5. CASE Still /\ UNCHANGED timestamps
  <2>1. /\ \A e : Entry(e)' <=> Entry(e)
        /\ UNCHANGED <<tskq, dispatcher_requests, timestamps>>
        /\ \A w \in Workers : InService(w)' => InService(w)
    BY <1>5, StillEntries DEF Still
  <2>2. QED
    BY <1>1, <1>3, <2>1, StillTimes
<1>6. CASE \E w \in Workers : TakeRequest(w)
  <2>1. UNCHANGED <<tskq, dispatcher_requests, response_flag, timestamps>>
    BY <1>6 DEF TakeRequest, queueVars, timerVars
  <2>2. \A w \in Workers : InService(w)' <=> InService(w)
    BY <2>1 DEF InService
  <2>3. \A e : Entry(e)' <=> Entry(e)
    BY <2>1, <2>2, EntriesKept
  <2>4. QED
    BY <1>1, <1>3, <2>1, <2>2, <2>3, StillTimes
<1>7. ASSUME NEW w \in Workers, HandleFinished(w) PROVE TimesInv'
  <2>1. /\ \A e : Entry(e)' => Entry(e)
        /\ \A v \in Workers : InService(v)' => InService(v)
    BY <1>1, <1>7, FinishedEntries
  <2>2. UNCHANGED <<tskq, dispatcher_requests, timestamps>>
    BY <1>7 DEF HandleFinished, Processed
  <2>3. QED
    BY <1>1, <1>3, <2>1, <2>2, StillTimes
<1>8. CASE AcceptRequest
  BY <1>8, AcceptTimes
<1>9. ASSUME NEW w \in Workers, HandlePreempted(w) PROVE TimesInv'
  BY <1>9, RequeueTimes
<1>10. ASSUME NEW w \in Workers, DispatchRequest(w) PROVE TimesInv'
  BY <1>10, DispatchTimes
<1>11. QED
  BY <1>4, <1>5, <1>6, <1>7, <1>8, <1>9, <1>10, StillOrMoves

LEMMA InitTimes == ASSUME Init PROVE TimesInv
<1>1. \A y \in Types : tskq[y] = <<>> /\ Len(tskq[y]) = 0
  BY DEF Init
<1>2. \A w \in Workers : ~InService(w)
  BY DEF Init, InService
<1>3. \A i \in 1..0 : FALSE
  OBVIOUS
<1>4. \A e : ~Entry(e)
  BY <1>1, <1>2, <1>3 DEF Entry
<1>5. OrderInv
  BY <1>1, <1>3 DEF OrderInv
<1>6. QED
  BY <1>2, <1>4, <1>5 DEF TimesInv, ClockInv, SlotTimes

LEMMA TimesKept == Spec => []TimesInv
<1>1. Init => TimesInv
  BY InitTimes
<1>2. IInv /\ TimesInv /\ [Next]_vars => TimesInv'
  BY TimesStep
<1>3. QED
  BY <1>1, <1>2, Inductive, PTL DEF Spec

\* smart_tskq_dequeue takes the head of the queue that has waited longest for its
\* objective: a task that has not begun since had not waited longer than the one
\* that was dispatched, also when tasks were preempted, requeued and resumed.
THEOREM ServedByObjectiveCorrect == Spec => []ServedByObjective
<1>1. ASSUME IInv, TimesInv, NEW p \in Running, NEW q \in Queued
      PROVE  LET w == p[2][2]
                 dispatched == timestamps[w] IN
             q[1].category = "PACKET" /\ q[1].timestamp < dispatched =>
               (dispatched - q[1].timestamp) * Slo[p[1].type]
                 <= (dispatched - p[1].timestamp) * Slo[q[1].type]
  <2>1. PICK w \in Workers : InService(w) /\ p = <<dispatcher_requests[w], <<"core", w, 0>>>>
    BY DEF Running
  <2>2. p[1] = dispatcher_requests[w] /\ p[2][2] = w
    BY <2>1
  <2>3. PICK y \in Types : q \in {<<tskq[y][i], <<"tskq", y, i>>>> : i \in DOMAIN tskq[y]}
    BY DEF Queued
  <2>4. PICK i \in DOMAIN tskq[y] : q = <<tskq[y][i], <<"tskq", y, i>>>>
    BY <2>3
  <2>5. i \in 1..Len(tskq[y]) /\ tskq[y][i].type = y
    BY <1>1, <2>4 DEF IInv, TypeOK
  <2>6. q[1] = tskq[y][i] /\ q[1].type = y
    BY <2>4, <2>5
  <2>7. q[1].category = "PACKET" => Fresh(y, q[1])
    BY <2>5, <2>6 DEF Fresh
  <2>8. QED
    BY <1>1, <2>1, <2>2, <2>6, <2>7 DEF TimesInv, SlotTimes
<1>2. IInv /\ TimesInv => ServedByObjective
  BY <1>1 DEF ServedByObjective
<1>3. QED
  BY <1>2, Inductive, TimesKept, PTL

-----------------------------------------------------------------------------
(* The parts of the queue of a type.                                        *)

Marks == Tasks \cup {Null}

\* What a queue entry adds to the tasks that have not begun, and to those that have.
Mark(e)    == IF e.category = "PACKET" THEN e.req ELSE Null
MarkAll(s) == [i \in DOMAIN s |-> Mark(s[i])]
Resumed(s) == {s[i].req : i \in {j \in DOMAIN s : s[j].category = "CONTEXT"}}

\* The parts in their order: what the tasks in T have in the task queue u, the
\* mailbox m, the batch r and the receive queue x.
Line(u, m, r, x, T) == Chain(<<>>, Among(u, T), Among(m, T), Among(r, T), Among(x, T))

LEMMA LineIs ==
  ASSUME NEW S, NEW u \in Seq(S), NEW m \in Seq(S), NEW r \in Seq(S), NEW x \in Seq(S), NEW T
  PROVE  Among(u \o m \o r \o x, T) = Line(u, m, r, x, T)
<1>1. Join(u, m) \in Seq(S)
  BY JoinType
<1>2. Join(Join(u, m), r) \in Seq(S)
  BY <1>1, JoinType
<1>3. PICK b, c, d, e :
        /\ b = Among(u, T) /\ c = Among(m, T) /\ d = Among(r, T) /\ e = Among(x, T)
  OBVIOUS
<1>4. b \in Seq(S) /\ c \in Seq(S) /\ d \in Seq(S) /\ e \in Seq(S)
  BY <1>3, AmongType
<1>5. Among(Join(u, m), T) = Join(b, c)
  BY <1>3, AmongJoin
<1>6. Among(Join(Join(u, m), r), T) = Join(Join(b, c), d)
  BY <1>1, <1>3, <1>5, AmongJoin
<1>7. Among(Join(Join(Join(u, m), r), x), T) = Join(Join(Join(b, c), d), e)
  BY <1>2, <1>3, <1>6, AmongJoin
<1>8. Join(Join(Join(b, c), d), e) = Join(b, Join(Join(c, d), e))
  <2>1. Join(Join(b, c), d) = Join(b, Join(c, d)) /\ Join(c, d) \in Seq(S)
    BY <1>4, JoinAssociative, JoinType
  <2>2. PICK p : p = Join(c, d)
    OBVIOUS
  <2>3. p \in Seq(S)
    BY <2>1, <2>2
  <2>4. Join(Join(b, p), e) = Join(b, Join(p, e))
    BY <1>4, <2>3, JoinAssociative
  <2>5. QED
    BY <2>1, <2>2, <2>4
<1>9. Join(Join(c, d), e) = Join(c, Join(d, e))
  BY <1>4, JoinAssociative
<1>10. Join(<<>>, b) = b
  BY <1>4, JoinEmpty
<1>11. Line(u, m, r, x, T) = Join(b, Join(c, Join(d, e)))
  BY <1>3, <1>10 DEF Line, Chain
<1>12. Among(u \o m \o r \o x, T) = Among(Join(Join(Join(u, m), r), x), T)
  BY DEF Join
<1>13. QED
  BY <1>7, <1>8, <1>9, <1>11, <1>12

\* The parts are sequences of tasks, with Null for what is no task that waits.
Parts ==
  /\ Mailbox \in Seq(Marks) /\ Len(Mailbox) = Batch
  /\ recv_mbufs \in Seq(Marks) /\ rxq \in Seq(Marks)
  /\ \A y \in Types : Unbegun(y) \in Seq(Marks)

LEMMA MarksTyped ==
  ASSUME NEW s \in Seq(Runnable) PROVE MarkAll(s) \in Seq(Marks) /\ Len(MarkAll(s)) = Len(s)
<1>1. PICK n \in Nat : n = Len(s) /\ DOMAIN s = 1..n
  OBVIOUS
<1>2. \A i \in 1..n : s[i] \in Runnable
  BY <1>1
<1>3. \A e \in Runnable : Mark(e) \in Marks
  BY DEF Runnable, Mark, Marks
<1>4. MarkAll(s) \in [1..n -> Marks]
  BY <1>1, <1>2, <1>3 DEF MarkAll
<1>5. QED
  BY <1>1, <1>4

LEMMA UnbegunIs == \A y : Unbegun(y) = MarkAll(tskq[y])
  BY DEF Unbegun, MarkAll, Mark

LEMMA PartsTyped == TypeOK => Parts
<1> SUFFICES ASSUME TypeOK PROVE Parts
  OBVIOUS
<1>1. Mailbox \in [1..Batch -> Marks] /\ Batch \in Nat
  BY Sizes DEF TypeOK, Mailbox, Marks
<1>2. Mailbox \in Seq(Marks) /\ Len(Mailbox) = Batch
  BY <1>1
<1>3. recv_mbufs \in Seq(Marks) /\ rxq \in Seq(Marks)
  BY DEF TypeOK, Marks
<1>4. ASSUME NEW y \in Types PROVE Unbegun(y) \in Seq(Marks)
  <2>1. tskq[y] \in Seq(Runnable)
    BY DEF TypeOK
  <2>2. MarkAll(tskq[y]) \in Seq(Marks)
    BY <2>1, MarksTyped
  <2>3. QED
    BY <2>2, UnbegunIs
<1>5. QED
  BY <1>2, <1>3, <1>4 DEF Parts

LEMMA PartsNext == TypeOK' => Parts'
  BY PartsTyped, PTL

InLine == \A y \in Types :
  NotBegun(y) = Line(Unbegun(y), Mailbox, recv_mbufs, rxq, TasksOf(y))

LEMMA QueueInLine == TypeOK => InLine
<1> SUFFICES ASSUME TypeOK, NEW y \in Types
             PROVE  NotBegun(y) = Line(Unbegun(y), Mailbox, recv_mbufs, rxq, TasksOf(y))
  BY DEF InLine
<1>1. PICK u, m, r, x, T :
        /\ u = Unbegun(y) /\ m = Mailbox /\ r = recv_mbufs /\ x = rxq /\ T = TasksOf(y)
  OBVIOUS
<1>2. u \in Seq(Marks) /\ m \in Seq(Marks) /\ r \in Seq(Marks) /\ x \in Seq(Marks)
  BY <1>1, PartsTyped DEF Parts
<1>3. Among(u \o m \o r \o x, T) = Line(u, m, r, x, T)
  BY <1>2, LineIs
<1>4. QED
  BY <1>1, <1>3 DEF NotBegun

LEMMA InLineNext == TypeOK' => InLine'
  BY QueueInLine, PTL

\* All that waits in the queue of a type is a task of it.
LEMMA QueueTyped == ASSUME TypeOK, NEW y \in Types PROVE NotBegun(y) \in Seq(TasksOf(y))
<1>1. PICK u, m, r, x, T :
        /\ u = Unbegun(y) /\ m = Mailbox /\ r = recv_mbufs /\ x = rxq /\ T = TasksOf(y)
  OBVIOUS
<1>2. u \in Seq(Marks) /\ m \in Seq(Marks) /\ r \in Seq(Marks) /\ x \in Seq(Marks)
  BY <1>1, PartsTyped DEF Parts
<1>3. /\ Among(u, T) \in Seq(T) /\ Among(m, T) \in Seq(T) /\ Among(r, T) \in Seq(T)
      /\ Among(x, T) \in Seq(T)
  BY <1>2, AmongType
<1>4. <<>> \in Seq(T)
  OBVIOUS
<1>5. Line(u, m, r, x, T) \in Seq(T)
  BY <1>3, <1>4, ChainType DEF Line
<1>6. QED
  BY <1>1, <1>5, QueueInLine DEF InLine

\* Marks and resumed tasks of a queue that is put together.
LEMMA MarksOne ==
  ASSUME NEW e \in Runnable
  PROVE  /\ MarkAll(One(e)) = One(Mark(e))
         /\ Resumed(One(e)) = IF e.category = "CONTEXT" THEN {e.req} ELSE {}
<1>1. DOMAIN One(e) = {1} /\ One(e)[1] = e
  BY DEF One
<1>2. MarkAll(One(e)) = [i \in {1} |-> Mark(e)]
  BY <1>1 DEF MarkAll
<1>3. One(Mark(e)) = [i \in {1} |-> Mark(e)]
  BY DEF One
<1>4. Resumed(One(e)) = IF e.category = "CONTEXT" THEN {e.req} ELSE {}
  BY <1>1 DEF Resumed
<1>5. QED
  BY <1>2, <1>3, <1>4

LEMMA SequencesEqual ==
  ASSUME NEW S, NEW s \in Seq(S), NEW t \in Seq(S), Len(s) = Len(t),
         \A i \in 1..Len(s) : s[i] = t[i]
  PROVE  s = t
  OBVIOUS

LEMMA MarksJoin ==
  ASSUME NEW s \in Seq(Runnable), NEW t \in Seq(Runnable)
  PROVE  /\ MarkAll(Join(s, t)) = Join(MarkAll(s), MarkAll(t))
         /\ Resumed(Join(s, t)) = Resumed(s) \cup Resumed(t)
<1>1. PICK j : j = Join(s, t)
  OBVIOUS
<1>2. j \in Seq(Runnable)
  BY <1>1, JoinType
<1>3. PICK l \in Nat, n \in Nat : l = Len(s) /\ n = Len(t)
  OBVIOUS
<1>4. DOMAIN s = 1..l /\ DOMAIN t = 1..n
  BY <1>3
<1>5. /\ Len(j) = l + n
      /\ \A i \in 1..l : j[i] = s[i]
      /\ \A i \in 1..n : j[i + l] = t[i]
  BY <1>1, <1>3, JoinElements
<1>6. DOMAIN j = 1..(l + n)
  BY <1>2, <1>5
<1>7. /\ \A i \in 1..(l + n) : i \in 1..l \/ (i - l \in 1..n /\ (i - l) + l = i)
      /\ \A i \in 1..l : i \in 1..(l + n)
      /\ \A i \in 1..n : i + l \in 1..(l + n)
  BY <1>3
<1>8. PICK p, q, k : p = MarkAll(s) /\ q = MarkAll(t) /\ k = MarkAll(j)
  OBVIOUS
<1>9. /\ p \in Seq(Marks) /\ Len(p) = l
  BY <1>3, <1>8, MarksTyped
<1>10. q \in Seq(Marks) /\ Len(q) = n
  BY <1>3, <1>8, MarksTyped
<1>11. k \in Seq(Marks) /\ Len(k) = l + n
  BY <1>2, <1>5, <1>8, MarksTyped
<1>12. PICK a : a = Join(p, q)
  OBVIOUS
<1>13. a \in Seq(Marks)
  BY <1>9, <1>10, <1>12, JoinType
<1>14. /\ Len(a) = l + n
       /\ \A i \in 1..l : a[i] = p[i]
       /\ \A i \in 1..n : a[i + l] = q[i]
  <2>1. p \in Seq(Marks) /\ q \in Seq(Marks)
    BY <1>9, <1>10
  <2>2. /\ Len(Join(p, q)) = Len(p) + Len(q)
        /\ \A i \in 1..Len(p) : Join(p, q)[i] = p[i]
        /\ \A i \in 1..Len(q) : Join(p, q)[i + Len(p)] = q[i]
    BY <2>1, JoinElements
  <2>3. QED
    BY <1>9, <1>10, <1>12, <2>2
<1>15. ASSUME NEW i \in 1..(l + n) PROVE k[i] = a[i]
  <2>1. k[i] = Mark(j[i])
    BY <1>6, <1>8 DEF MarkAll
  <2>2. CASE i \in 1..l
    BY <1>4, <1>5, <1>8, <1>14, <2>1, <2>2 DEF MarkAll
  <2>3. ASSUME NEW h \in 1..n, h + l = i PROVE k[i] = a[i]
    BY <1>4, <1>5, <1>8, <1>14, <2>1, <2>3 DEF MarkAll
  <2>4. QED
    BY <1>7, <2>2, <2>3
<1>16. k = a
  BY <1>11, <1>13, <1>14, <1>15, SequencesEqual
<1>17. Resumed(j) = Resumed(s) \cup Resumed(t)
  <2>1. \A x : x \in Resumed(j) <=> \E i \in 1..(l + n) : j[i].category = "CONTEXT" /\ j[i].req = x
    BY <1>6 DEF Resumed
  <2>2. \A x : x \in Resumed(s) <=> \E i \in 1..l : s[i].category = "CONTEXT" /\ s[i].req = x
    BY <1>4 DEF Resumed
  <2>3. \A x : x \in Resumed(t) <=> \E i \in 1..n : t[i].category = "CONTEXT" /\ t[i].req = x
    BY <1>4 DEF Resumed
  <2>4. ASSUME NEW x, x \in Resumed(j) PROVE x \in Resumed(s) \cup Resumed(t)
    <3>1. PICK i \in 1..(l + n) : j[i].category = "CONTEXT" /\ j[i].req = x
      BY <2>1, <2>4
    <3>2. CASE i \in 1..l
      BY <1>5, <2>2, <3>1, <3>2
    <3>3. ASSUME NEW h \in 1..n, h + l = i PROVE x \in Resumed(t)
      BY <1>5, <2>3, <3>1, <3>3
    <3>4. QED
      BY <1>7, <3>2, <3>3
  <2>5. \A x \in Resumed(s) : x \in Resumed(j)
    BY <1>5, <1>7, <2>1, <2>2
  <2>6. \A x \in Resumed(t) : x \in Resumed(j)
    BY <1>5, <1>7, <2>1, <2>3
  <2>7. QED
    BY <2>4, <2>5, <2>6
<1>18. QED
  BY <1>1, <1>8, <1>12, <1>16, <1>17

\* The tasks that have begun: those put back, and those a worker owes.
Owed == {dispatcher_requests[w].req : w \in {v \in Workers : Unanswered(v)}}

LEMMA BegunIs == ASSUME TypeOK PROVE Begun = (UNION {Resumed(tskq[y]) : y \in Types}) \cup Owed
<1>1. \A y \in Types : DOMAIN tskq[y] = 1..Len(tskq[y])
  BY DEF TypeOK
<1>2. ASSUME NEW t
      PROVE  t \in {p[1].req : p \in {q \in Queued : q[1].category = "CONTEXT"}}
               <=> \E y \in Types : \E i \in DOMAIN tskq[y] :
                     tskq[y][i].category = "CONTEXT" /\ tskq[y][i].req = t
  <2>1. \A p : p \in Queued <=>
          \E y \in Types : \E i \in DOMAIN tskq[y] : p = <<tskq[y][i], <<"tskq", y, i>>>>
    BY DEF Queued
  <2>2. ASSUME NEW p \in Queued, p[1].category = "CONTEXT", p[1].req = t
        PROVE  \E y \in Types : \E i \in DOMAIN tskq[y] :
                 tskq[y][i].category = "CONTEXT" /\ tskq[y][i].req = t
    <3>1. PICK y \in Types : \E i \in DOMAIN tskq[y] : p = <<tskq[y][i], <<"tskq", y, i>>>>
      BY <2>1
    <3>2. PICK i \in DOMAIN tskq[y] : p = <<tskq[y][i], <<"tskq", y, i>>>>
      BY <3>1
    <3>3. p[1] = tskq[y][i]
      BY <3>2
    <3>4. QED
      BY <2>2, <3>3
  <2>3. ASSUME NEW y \in Types, NEW i \in DOMAIN tskq[y],
               tskq[y][i].category = "CONTEXT", tskq[y][i].req = t
        PROVE  \E p \in Queued : p[1].category = "CONTEXT" /\ p[1].req = t
    <3>1. PICK p : p = <<tskq[y][i], <<"tskq", y, i>>>>
      OBVIOUS
    <3>2. p \in Queued /\ p[1] = tskq[y][i]
      BY <2>1, <3>1
    <3>3. QED
      BY <2>3, <3>2
  <2>4. QED
    BY <2>2, <2>3
<1>3. \A t : t \in UNION {Resumed(tskq[y]) : y \in Types}
        <=> \E y \in Types : \E i \in DOMAIN tskq[y] :
              tskq[y][i].category = "CONTEXT" /\ tskq[y][i].req = t
  BY DEF Resumed
<1>4. QED
  <2>1. PICK A, B : /\ A = {p[1].req : p \in {q \in Queued : q[1].category = "CONTEXT"}}
                    /\ B = UNION {Resumed(tskq[y]) : y \in Types}
    OBVIOUS
  <2>2. A = B
    BY <1>2, <1>3, <2>1
  <2>3. QED
    BY <2>1, <2>2 DEF Begun, Owed

-----------------------------------------------------------------------------
(* What is neither in a receive queue nor in a batch is a request.          *)

RequestsLive == live \cap Fragments = {}

LEMMA LiveInit == Init => RequestsLive
  BY DEF Init, RequestsLive

LEMMA LiveStep == IInv /\ RequestsLive /\ [Next]_vars => RequestsLive'
<1> SUFFICES ASSUME IInv, RequestsLive, [Next]_vars PROVE RequestsLive'
  OBVIOUS
<1> USE DEF netVars, mailVars, loopVars, queueVars, timerVars, slotVars, workVars, vars
<1>1. CASE PostBatch
  <2>1. recv_mbufs \in Seq(Tasks)
    BY DEF IInv, TypeOK
  <2>2. PICK s : s = recv_mbufs
    OBVIOUS
  <2>3. PICK n \in 0..Len(s) : \E f \in [1..n -> 1..Len(s)] : Batched(s, n, f)
    BY <2>1, <2>2, CompletedBatch
  <2>4. PICK f \in [1..n -> 1..Len(s)] : Batched(s, n, f)
    BY <2>3
  <2>5. ASSUME NEW k \in 1..n PROVE Completed(s)[k] \notin Fragments
    <3>1. Completed(s)[k] = s[f[k]]
      BY <2>4 DEF Batched
    <3>2. f[k] \in 1..Len(s)
      OBVIOUS
    <3>3. s[f[k]] \notin Fragments <=> \E j \in 1..n : f[j] = f[k]
      BY <2>4, <3>2 DEF Batched
    <3>4. QED
      BY <3>1, <3>3
  <2>6. DOMAIN Completed(s) = 1..n
    <3>1. Completed(s) \in Seq(Tasks) /\ Len(Completed(s)) = n
      BY <2>4 DEF Batched
    <3>2. PICK d : d = Completed(s)
      OBVIOUS
    <3>3. d \in Seq(Tasks) /\ Len(d) = n
      BY <3>1, <3>2
    <3>4. QED
      BY <3>2, <3>3
  <2>7. live' = (live \ {reqs[i] : i \in 1..free_cnt})
                \cup {Completed(s)[i] : i \in DOMAIN Completed(s)}
    BY <1>1, <2>2 DEF PostBatch
  <2>8. QED
    BY <2>5, <2>6, <2>7 DEF RequestsLive
<1>2. CASE UNCHANGED live
  BY <1>2 DEF RequestsLive
<1>3. UNCHANGED live \/ PostBatch
  BY DEF Next, NetworkerNext, DispatcherNext, WorkerNext, SendPacket, Receive, StartTurn,
     LookAtMailbox, DropRequest, AcceptRequest, ReturnFinished, SkipWorker, PreemptWorker,
     HandleFinished, HandlePreempted, NothingToDispatch, DispatchRequest, TakeRequest,
     PreemptHandler, SendReply, FinishRequest
<1>4. QED
  BY <1>1, <1>2, <1>3

LEMMA FoundSent ==
  ASSUME IInv, RequestsLive, NEW t \in Tasks, NEW x, NEW y, NEW z \in Nat, TaskAt(t, x, y, z),
         x \notin {"rx", "recv"}
  PROVE  Sent(t) /\ Lodged(t, x, y, z)
<1>1. Lodged(t, x, y, z)
  BY Found DEF IInv
<1>2. x # "nowhere"
  BY DEF TaskAt
<1>3. t \in live /\ kind[t] # Null
  BY <1>1, <1>2 DEF Lodged, Alive, FateAt
<1>4. QED
  BY <1>1, <1>3 DEF Sent, RequestsLive

-----------------------------------------------------------------------------
(* The steps of TypedQueues.                                                *)

LEMMA StepNone ==
  ASSUME \A y \in Types : NotBegun(y)' = NotBegun(y), Begun' = Begun, Ended' = Ended,
         Dropped' = Dropped
  PROVE  [Queues!Next]_(Queues!vars)
  BY DEF Queues!vars

LEMMA StepArrive ==
  ASSUME NEW y \in Types, NEW t \in Tasks, Queues!Fresh(t),
         NotBegun(y)' = Append(NotBegun(y), t),
         \A v \in Types : v # y => NotBegun(v)' = NotBegun(v),
         Begun' = Begun, Ended' = Ended, Dropped' = Dropped
  PROVE  [Queues!Next]_(Queues!vars)
<1>1. Queues!Arrive(y, t)
  BY DEF Queues!Arrive
<1>2. QED
  BY <1>1 DEF Queues!Next

LEMMA StepRefuse ==
  ASSUME NEW t \in Tasks, Queues!Fresh(t), Dropped' = Dropped \cup {t},
         \A y \in Types : NotBegun(y)' = NotBegun(y), Begun' = Begun, Ended' = Ended
  PROVE  [Queues!Next]_(Queues!vars)
<1>1. Queues!Refuse(t)
  BY DEF Queues!Refuse
<1>2. QED
  BY <1>1 DEF Queues!Next

LEMMA StepBegin ==
  ASSUME NEW y \in Types, NotBegun(y) # <<>>, NotBegun(y)' = Tail(NotBegun(y)),
         Begun' = Begun \cup {Head(NotBegun(y))},
         \A v \in Types : v # y => NotBegun(v)' = NotBegun(v),
         Ended' = Ended, Dropped' = Dropped
  PROVE  [Queues!Next]_(Queues!vars)
<1>1. Queues!Begin(y)
  BY DEF Queues!Begin
<1>2. QED
  BY <1>1 DEF Queues!Next

LEMMA StepDrop ==
  ASSUME NEW y \in Types, NEW h, Leaves(h, NotBegun(y), NotBegun(y)'),
         Dropped' = Dropped \cup {h},
         \A v \in Types : v # y => NotBegun(v)' = NotBegun(v),
         Begun' = Begun, Ended' = Ended
  PROVE  [Queues!Next]_(Queues!vars)
<1>1. PICK u, v : u = NotBegun(y) /\ v = NotBegun(y)'
  OBVIOUS
<1>2. Leaves(h, u, v)
  BY <1>1
<1>3. PICK i \in DOMAIN u : u[i] = h /\ SubSeq(u, 1, i - 1) \o SubSeq(u, i + 1, Len(u)) = v
  BY <1>2 DEF Leaves
<1>4. Queues!Drop(y, i)
  BY <1>1, <1>3 DEF Queues!Drop
<1>5. QED
  BY <1>1, <1>3, <1>4 DEF Queues!Next

LEMMA StepEnd ==
  ASSUME NEW t \in Begun, Begun' = Begun \ {t}, Ended' = Ended \cup {t}, Dropped' = Dropped,
         \A y \in Types : NotBegun(y)' = NotBegun(y)
  PROVE  [Queues!Next]_(Queues!vars)
<1>1. Queues!End(t)
  BY DEF Queues!End
<1>2. QED
  BY <1>1 DEF Queues!Next

\* Nothing is sent, answered or given up.
LEMMA FatesStay ==
  ASSUME UNCHANGED <<kind, answered, lost>>
  PROVE  /\ Ended' = Ended /\ Dropped' = Dropped
         /\ \A y \in Types : TasksOf(y)' = TasksOf(y)
<1>1. \A t \in Tasks : (Sent(t)' <=> Sent(t)) /\ Fates(t)' = Fates(t)
  BY DEF Sent, Fates
<1>2. Ended' = Ended
  BY <1>1 DEF Ended
<1>3. Dropped' = Dropped
  BY DEF Dropped, Sent
<1>4. \A y \in Types : TasksOf(y)' = TasksOf(y)
  BY DEF TasksOf, Sent
<1>5. QED
  BY <1>2, <1>3, <1>4

\* No worker begins a task, or ends one.
LEMMA OwedStay ==
  ASSUME \A w \in Workers : Unanswered(w)' <=> Unanswered(w),
         \A w \in Workers : Unanswered(w) =>
           dispatcher_requests'[w].req = dispatcher_requests[w].req
  PROVE  Owed' = Owed
  BY DEF Owed

LEMMA BegunNext ==
  TypeOK' => Begun' = (UNION {Resumed(tskq'[y]) : y \in Types}) \cup Owed'
<1>1. ASSUME TypeOK
      PROVE  Begun = (UNION {Resumed(tskq[y]) : y \in Types}) \cup Owed
  BY <1>1, BegunIs
<1>2. TypeOK => Begun = (UNION {Resumed(tskq[y]) : y \in Types}) \cup Owed
  BY <1>1
<1>3. (TypeOK => Begun = (UNION {Resumed(tskq[y]) : y \in Types}) \cup Owed)'
  BY <1>2, PTL
<1>4. QED
  BY <1>3 DEF Resumed

LEMMA BegunStay ==
  ASSUME TypeOK, TypeOK', UNCHANGED tskq, Owed' = Owed PROVE Begun' = Begun
<1>1. Begun = (UNION {Resumed(tskq[y]) : y \in Types}) \cup Owed
  BY BegunIs
<1>2. Begun' = (UNION {Resumed(tskq'[y]) : y \in Types}) \cup Owed'
  BY BegunNext
<1>3. QED
  BY <1>1, <1>2

-----------------------------------------------------------------------------
(* The steps of the cores that move no task.                                *)

LEMMA SameQueues ==
  ASSUME UNCHANGED <<kind, rxq, recv_mbufs, reqs, tskq>>, Pending' = Pending
  PROVE  \A y \in Types : NotBegun(y)' = NotBegun(y)
<1>1. Mailbox' = Mailbox
  BY DEF Mailbox
<1>2. ASSUME NEW y \in Types PROVE TasksOf(y)' = TasksOf(y) /\ Unbegun(y)' = Unbegun(y)
  BY DEF TasksOf, Sent, Unbegun
<1>3. QED
  BY <1>1, <1>2 DEF NotBegun

LEMMA StillQueues ==
  ASSUME IInv, IInv', UNCHANGED <<kind, rxq, recv_mbufs, reqs, tskq, answered, lost>>,
         Pending' = Pending, \A w \in Workers : Unanswered(w)' <=> Unanswered(w),
         \A w \in Workers : Unanswered(w) =>
           dispatcher_requests'[w].req = dispatcher_requests[w].req
  PROVE  [Queues!Next]_(Queues!vars)
<1>1. Begun' = Begun
  BY OwedStay, BegunStay DEF IInv
<1>2. QED
  BY <1>1, SameQueues, FatesStay, StepNone

\* handle_worker frees the context of a task that was answered before.
LEMMA FinishedQueues ==
  ASSUME IInv, IInv', NEW w \in Workers, HandleFinished(w)
  PROVE  [Queues!Next]_(Queues!vars)
<1> USE DEF netVars, mailVars, loopVars, queueVars, timerVars, slotVars, workVars
<1>1. /\ response_flag \in [Workers -> {"RUNNING", "FINISHED", "PREEMPTED", "PROCESSED"}]
      /\ response_flag[w] = "FINISHED"
      /\ response_flag' = [response_flag EXCEPT ![w] = "PROCESSED"]
      /\ UNCHANGED <<kind, rxq, recv_mbufs, reqs, cnt, ni, dpc, tskq, answered, lost, wpc,
                     finished, dispatcher_requests>>
  BY DEF IInv, TypeOK, HandleFinished, Processed
<1>2. \A v \in Workers : Unanswered(v)' <=> Unanswered(v)
  BY <1>1 DEF Unanswered, InService
<1>3. Pending' = Pending
  BY <1>1 DEF Pending
<1>4. QED
  BY <1>1, <1>2, <1>3, StillQueues

LEMMA WorkedQueues ==
  ASSUME IInv, IInv', NEW w \in Workers, TakeRequest(w) \/ PreemptHandler(w) \/ FinishRequest(w)
  PROVE  [Queues!Next]_(Queues!vars)
<1> USE DEF netVars, mailVars, loopVars, queueVars, timerVars, slotVars, workVars
<1>1. \A v \in Workers : Unanswered(v)' <=> Unanswered(v)
  BY WorkedAnswers DEF IInv
<1>2. /\ UNCHANGED <<kind, rxq, recv_mbufs, reqs, cnt, ni, dpc, tskq, answered, lost>>
      /\ UNCHANGED dispatcher_requests
  BY DEF TakeRequest, PreemptHandler, FinishRequest
<1>3. Pending' = Pending
  BY <1>2 DEF Pending
<1>4. QED
  BY <1>1, <1>2, <1>3, StillQueues

\* The dispatcher passes on to the next worker, to the mailbox, or to its next
\* turn, and gives the mailbox back when it has emptied it.
LEMMA PassedQueues ==
  ASSUME IInv, IInv',
         \/ StartTurn \/ LookAtMailbox \/ ReturnFinished
         \/ \E w \in Workers : SkipWorker(w) \/ PreemptWorker(w) \/ NothingToDispatch(w)
  PROVE  [Queues!Next]_(Queues!vars)
<1> USE DEF netVars, mailVars, loopVars, queueVars, timerVars, slotVars, workVars
<1>1. /\ UNCHANGED <<kind, rxq, recv_mbufs, tskq, answered, lost, response_flag, wpc, finished>>
      /\ UNCHANGED dispatcher_requests
  BY DEF StartTurn, LookAtMailbox, ReturnFinished, SkipWorker, PreemptWorker,
     NothingToDispatch
<1>2. \A v \in Workers : Unanswered(v)' <=> Unanswered(v)
  BY <1>1 DEF Unanswered, InService
<1>3. cnt \in Nat /\ ni \in Nat /\ (dpc = "accept" => cnt # 0)
  BY DEF IInv, TypeOK, MailInv
<1>4. CASE ReturnFinished
  <2>1. Pending = {} /\ Pending' = {}
    <3>1. dpc = "accept" /\ ni > cnt /\ dpc' = "clock" /\ cnt' = 0
      BY <1>4 DEF ReturnFinished
    <3>2. QED
      BY <1>3, <3>1 DEF Pending
  <2>2. \A y \in Types : NotBegun(y)' = NotBegun(y)
    <3>1. Mailbox' = Mailbox
      BY <2>1 DEF Mailbox
    <3>2. ASSUME NEW y \in Types PROVE TasksOf(y)' = TasksOf(y) /\ Unbegun(y)' = Unbegun(y)
      BY <1>1 DEF TasksOf, Sent, Unbegun
    <3>3. QED
      BY <1>1, <3>1, <3>2 DEF NotBegun
  <2>3. Begun' = Begun
    BY <1>1, <1>2, OwedStay, BegunStay DEF IInv
  <2>4. QED
    BY <1>1, <2>2, <2>3, FatesStay, StepNone
<1>5. CASE LookAtMailbox
  <2>1. Pending' = Pending
    <3>1. /\ dpc = "networker" /\ cnt' = cnt /\ ni' = 1
          /\ dpc' = IF cnt = 0 THEN "clock" ELSE "accept"
      BY <1>5 DEF LookAtMailbox
    <3>2. QED
      BY <3>1 DEF Pending
  <2>2. UNCHANGED reqs
    BY <1>5 DEF LookAtMailbox
  <2>3. QED
    BY <1>1, <1>2, <2>1, <2>2, StillQueues
<1>6. CASE StartTurn \/ \E w \in Workers : SkipWorker(w) \/ PreemptWorker(w) \/ NothingToDispatch(w)
  <2>1. dpc # "accept" /\ dpc' # "accept" /\ UNCHANGED <<cnt, reqs>>
    BY <1>6 DEF StartTurn, SkipWorker, PreemptWorker, NothingToDispatch, AtWorker, NextTurn
  <2>2. Pending' = Pending
    BY <2>1 DEF Pending
  <2>3. QED
    BY <1>1, <1>2, <2>1, <2>2, StillQueues
<1>7. QED
  BY <1>4, <1>5, <1>6

-----------------------------------------------------------------------------
(* The packets arrive.                                                      *)

\* The packet sent, which was nowhere before.
SentTo(t, y) ==
  /\ t \in Tasks /\ kind[t] = Null /\ kind' = [kind EXCEPT ![t] = y]
  /\ \/ rxq' = Append(rxq, t) /\ lost' = lost
     \/ rxq' = rxq /\ lost' = lost \cup {t}
  /\ UNCHANGED <<recv_mbufs, reqs, cnt, dpc, ni, tskq, answered, dispatcher_requests,
                 response_flag, wpc, finished>>
  /\ Fates(t) = 0 /\ t \notin Begun
  /\ \A i \in 1..Len(Mailbox) : Mailbox[i] # t
  /\ \A i \in 1..Len(recv_mbufs) : recv_mbufs[i] # t
  /\ \A i \in 1..Len(rxq) : rxq[i] # t
  /\ \A z \in Types : \A i \in 1..Len(Unbegun(z)) : Unbegun(z)[i] # t

LEMMA SentPacket ==
  ASSUME IInv, NEW y \in Types, SendPacket(y) PROVE \E t : SentTo(t, y)
<1> USE DEF netVars, mailVars, loopVars, queueVars, timerVars, slotVars, workVars
<1>1. PICK t \in Tasks :
        /\ kind[t] = Null /\ kind' = [kind EXCEPT ![t] = y]
        /\ \/ rxq' = Append(rxq, t) /\ lost' = lost
           \/ rxq' = rxq /\ lost' = lost \cup {t}
  BY DEF SendPacket
<1>2. UNCHANGED <<recv_mbufs, reqs, cnt, dpc, ni, tskq, answered, dispatcher_requests,
                  response_flag, wpc, finished>>
  BY DEF SendPacket
<1>3. TypeOK /\ TaskInv /\ Parts
  BY PartsTyped DEF IInv
<1>4. PICK x, v, z : z \in Nat /\ Lodged(t, x, v, z)
  BY <1>3 DEF TaskInv
<1>5. x = "nowhere" /\ Fates(t) = 0 /\ Alone(t, x, v, z)
  BY <1>1, <1>4 DEF Lodged, FateAt
<1>6. /\ \A i \in Nat : ~InRx(t, i) /\ ~InRecv(t, i) /\ ~InMail(t, i)
      /\ \A w : ~InCore(t, w)
      /\ \A w : \A i \in Nat : ~InQueue(t, w, i)
  BY <1>5 DEF Alone
<1>7. \A i \in 1..Len(rxq) : rxq[i] # t
  BY <1>6 DEF InRx
<1>8. \A i \in 1..Len(recv_mbufs) : recv_mbufs[i] # t
  BY <1>6 DEF InRecv
<1>9. t # Null
  BY Sizes
<1>10. \A i \in 1..Len(Mailbox) : Mailbox[i] # t
  <2>1. ASSUME NEW i \in 1..Len(Mailbox) PROVE Mailbox[i] # t
    <3>1. i \in Slots /\ i \in Nat
      BY <1>3, Sizes DEF Parts
    <3>2. QED
      BY <1>6, <1>9, <3>1 DEF InMail, Mailbox
  <2>2. QED
    BY <2>1
<1>11. ASSUME NEW q \in Types, NEW i \in 1..Len(Unbegun(q)) PROVE Unbegun(q)[i] # t
  <2>1. tskq[q] \in Seq(Runnable)
    BY <1>3 DEF TypeOK
  <2>2. Len(Unbegun(q)) = Len(tskq[q])
    BY <2>1, MarksTyped, UnbegunIs
  <2>3. Unbegun(q)[i] = Mark(tskq[q][i])
    <3>1. i \in DOMAIN tskq[q]
      BY <2>1, <2>2
    <3>2. QED
      BY <3>1 DEF Unbegun, Mark
  <2>4. tskq[q][i].req # t
    BY <1>6, <2>1, <2>2 DEF InQueue
  <2>5. QED
    BY <1>9, <2>3, <2>4 DEF Mark
<1>12. t \notin Begun
  <2>1. ASSUME NEW q \in Types PROVE t \notin Resumed(tskq[q])
    <3>1. tskq[q] \in Seq(Runnable)
      BY <1>3 DEF TypeOK
    <3>2. ASSUME NEW i \in DOMAIN tskq[q] PROVE tskq[q][i].req # t
      <4>1. i \in Nat /\ i \in 1..Len(tskq[q])
        BY <3>1
      <4>2. QED
        BY <1>6, <4>1 DEF InQueue
    <3>3. QED
      BY <3>2 DEF Resumed
  <2>2. t \notin Owed
    BY <1>6 DEF Owed, Unanswered, InCore
  <2>3. QED
    BY <1>3, <2>1, <2>2, BegunIs
<1>13. SentTo(t, y)
  BY <1>1, <1>2, <1>5, <1>7, <1>8, <1>10, <1>11, <1>12 DEF SentTo
<1>14. QED
  BY <1>13

\* Among the packets of before, each type's are the same.
LEMMA SentOthers ==
  ASSUME IInv, NEW t, NEW y, SentTo(t, y), NEW v \in Types,
         NEW s \in Seq(Marks), \A i \in 1..Len(s) : s[i] # t
  PROVE  Among(s, TasksOf(v)') = Among(s, TasksOf(v))
<1>1. PICK T, R : T = TasksOf(v) /\ R = TasksOf(v)'
  OBVIOUS
<1>2. kind \in [Tasks -> Types \cup {Null}]
  BY DEF IInv, TypeOK
<1>3. \A u \in Tasks : u # t => kind'[u] = kind[u]
  BY <1>2 DEF SentTo
<1>4. \A u : u # t => (u \in R <=> u \in T)
  BY <1>1, <1>3 DEF TasksOf, Sent
<1>5. \A i \in 1..Len(s) : s[i] \in R <=> s[i] \in T
  BY <1>4
<1>6. Among(s, R) = Among(s, T)
  BY <1>5, AmongSame
<1>7. QED
  BY <1>1, <1>6

\* A packet is queued for its type, or not at all.
LEMMA SentLine ==
  ASSUME IInv, IInv', NEW t, NEW y \in Types, SentTo(t, y), NEW v \in Types
  PROVE  /\ rxq' = Append(rxq, t) /\ v = y /\ t \notin Fragments =>
              NotBegun(v)' = Append(NotBegun(v), t)
         /\ rxq' = rxq \/ v # y \/ t \in Fragments => NotBegun(v)' = NotBegun(v)
<1>1. /\ Parts /\ InLine /\ InLine' /\ TypeOK
  BY PartsTyped, QueueInLine, InLineNext DEF IInv
<1>2. Unbegun(v)' = Unbegun(v) /\ Mailbox' = Mailbox /\ recv_mbufs' = recv_mbufs
  BY DEF SentTo, Unbegun, Mailbox, Pending
<1>3. PICK u, m, r, x, z, T, R :
        /\ u = Unbegun(v) /\ m = Mailbox /\ r = recv_mbufs /\ x = rxq /\ z = rxq'
        /\ T = TasksOf(v) /\ R = TasksOf(v)'
  OBVIOUS
<1>4. /\ u \in Seq(Marks) /\ m \in Seq(Marks) /\ r \in Seq(Marks) /\ x \in Seq(Marks)
      /\ t \in Marks
  BY <1>1, <1>3 DEF Parts, SentTo, Marks
<1>5. NotBegun(v) = Line(u, m, r, x, T)
  BY <1>1, <1>3 DEF InLine
<1>6. NotBegun(v)' = Line(u, m, r, z, R)
  BY <1>1, <1>2, <1>3 DEF InLine
<1>7. PICK a, b, c, d :
        /\ a = Among(u, T) /\ b = Among(m, T) /\ c = Among(r, T) /\ d = Among(x, T)
  OBVIOUS
<1>8. a \in Seq(Marks) /\ b \in Seq(Marks) /\ c \in Seq(Marks) /\ d \in Seq(Marks)
  BY <1>4, <1>7, AmongType
<1>9. Among(u, R) = a /\ Among(m, R) = b /\ Among(r, R) = c /\ Among(x, R) = d
  <2>1. /\ \A i \in 1..Len(u) : u[i] # t
        /\ \A i \in 1..Len(m) : m[i] # t
        /\ \A i \in 1..Len(r) : r[i] # t
        /\ \A i \in 1..Len(x) : x[i] # t
    BY <1>3 DEF SentTo
  <2>2. \A s \in Seq(Marks) : (\A i \in 1..Len(s) : s[i] # t) => Among(s, R) = Among(s, T)
    BY <1>3, SentOthers
  <2>3. QED
    BY <1>4, <1>7, <2>1, <2>2
<1>10. t \in R <=> v = y /\ t \notin Fragments
  <2>1. kind'[t] = y /\ y # Null /\ t \in Tasks
    BY <1>1, Sizes DEF SentTo, TypeOK
  <2>2. QED
    BY <1>3, <2>1 DEF TasksOf, Sent
<1>11. z = x \/ z = Append(x, t)
  BY <1>3 DEF SentTo
<1>12. CASE z = x
  <2>1. NotBegun(v)' = NotBegun(v)
    BY <1>5, <1>6, <1>7, <1>9, <1>12 DEF Line
  <2>2. z # Append(x, t)
    BY <1>4, <1>12
  <2>3. QED
    BY <1>3, <2>1, <2>2
<1>13. CASE z = Append(x, t)
  <2>1. z = Join(x, One(t))
    BY <1>4, <1>13, JoinLast
  <2>2. PICK o : o = One(t)
    OBVIOUS
  <2>3. o \in Seq(Marks)
    BY <1>4, <2>2, OneLaw
  <2>4. Among(z, R) = Join(d, Among(o, R))
    BY <1>4, <1>9, <2>1, <2>2, <2>3, AmongJoin
  <2>5. Among(o, R) = IF t \in R THEN o ELSE <<>>
    BY <1>4, <2>2, AmongSingle
  <2>6. PICK e : e = <<>>
    OBVIOUS
  <2>e. e \in Seq(Marks) /\ a \in Seq(Marks)
    BY <1>8, <2>6
  <2>b. b \in Seq(Marks) /\ c \in Seq(Marks) /\ d \in Seq(Marks)
    BY <1>8
  <2>7. CASE t \in R
    <3>1. NotBegun(v)' = Chain(e, a, b, c, Join(d, o))
      BY <1>6, <1>9, <2>4, <2>5, <2>6, <2>7 DEF Line
    <3>2. Chain(e, a, b, c, Join(d, o)) = Join(Chain(e, a, b, c, d), o)
      BY <2>3, <2>e, <2>b, ChainEntered
    <3>3. NotBegun(v) = Chain(e, a, b, c, d)
      BY <1>5, <1>7, <2>6 DEF Line
    <3>4. PICK q : q = NotBegun(v)
      OBVIOUS
    <3>5. q \in Seq(Marks)
      BY <2>e, <2>b, <3>3, <3>4, ChainType
    <3>6. Append(q, t) = Join(q, o)
      BY <1>4, <2>2, <3>5, JoinLast
    <3>7. z # x
      BY <1>4, <1>13
    <3>8. QED
      BY <1>3, <1>10, <2>7, <3>1, <3>2, <3>3, <3>4, <3>6, <3>7
  <2>8. CASE t \notin R
    <3>1. NotBegun(v)' = Chain(<<>>, a, b, c, Join(d, <<>>))
      BY <1>6, <1>9, <2>4, <2>5, <2>8 DEF Line
    <3>2. Join(d, <<>>) = d
      BY <1>8, JoinEmpty
    <3>3. NotBegun(v)' = NotBegun(v)
      BY <1>5, <1>7, <3>1, <3>2 DEF Line
    <3>4. QED
      BY <1>10, <2>8, <3>3
  <2>9. QED
    BY <2>7, <2>8
<1>14. QED
  BY <1>11, <1>12, <1>13

LEMMA SentQueues ==
  ASSUME IInv, IInv', NEW y \in Types, SendPacket(y)
  PROVE  [Queues!Next]_(Queues!vars)
<1>1. PICK t : SentTo(t, y)
  BY SentPacket
<1>2. /\ t \in Tasks /\ kind[t] = Null /\ Fates(t) = 0 /\ t \notin Begun
      /\ UNCHANGED <<answered, tskq>>
  BY <1>1 DEF SentTo
<1>3. TypeOK /\ TypeOK'
  BY DEF IInv
<1>4. answered[t] \in Nat /\ t \notin lost /\ answered[t] = 0
  BY <1>2, <1>3, SentOnce
<1>5. \A u \in Tasks : u # t => (Sent(u)' <=> Sent(u)) /\ (u \in lost' <=> u \in lost)
  BY <1>1, <1>3 DEF SentTo, Sent, TypeOK
<1>6. ~Sent(t) /\ (Sent(t)' <=> t \notin Fragments)
  <2>1. kind'[t] = y /\ y # Null
    BY <1>1, <1>3, Sizes DEF SentTo, TypeOK
  <2>2. QED
    BY <1>2, <2>1 DEF Sent
<1>7. Ended' = Ended
  <2>1. ASSUME NEW u \in Tasks, u # t PROVE u \in Ended' <=> u \in Ended
    <3>1. Fates(u)' = Fates(u)
      BY <1>2, <1>5, <2>1 DEF Fates
    <3>2. QED
      BY <1>5, <2>1, <3>1 DEF Ended
  <2>2. t \notin Ended
    BY <1>2 DEF Ended
  <2>3. t \notin Ended'
    <3>1. CASE t \in lost'
      BY <3>1 DEF Ended
    <3>2. CASE t \notin lost'
      <4>1. Fates(t)' = 0
        BY <1>2, <1>4, <3>2 DEF Fates
      <4>2. QED
        BY <4>1 DEF Ended
    <3>3. QED
      BY <3>1, <3>2
  <2>4. QED
    BY <2>1, <2>2, <2>3 DEF Ended
<1>8. lost \subseteq Tasks /\ lost' \subseteq Tasks
  BY <1>3 DEF TypeOK
<1>9. Dropped' = IF t \in lost' /\ t \notin Fragments THEN Dropped \cup {t} ELSE Dropped
  <2>1. ASSUME NEW u \in Tasks, u # t PROVE u \in Dropped' <=> u \in Dropped
    BY <1>5, <2>1 DEF Dropped
  <2>2. t \notin Dropped /\ (t \in Dropped' <=> t \in lost' /\ t \notin Fragments)
    BY <1>6 DEF Dropped
  <2>3. Dropped \subseteq Tasks /\ Dropped' \subseteq Tasks
    BY <1>8 DEF Dropped
  <2>4. QED
    BY <1>2, <2>1, <2>2, <2>3
<1>10. Begun' = Begun
  <2>1. \A v \in Workers : Unanswered(v)' <=> Unanswered(v)
    BY <1>1 DEF SentTo, Unanswered, InService
  <2>2. UNCHANGED dispatcher_requests
    BY <1>1 DEF SentTo
  <2>3. QED
    BY <1>2, <1>3, <2>1, <2>2, OwedStay, BegunStay
<1>11. Queues!Fresh(t)
  <2>1. ASSUME NEW v \in Types, NEW i \in DOMAIN NotBegun(v) PROVE NotBegun(v)[i] # t
    <3>1. NotBegun(v)[i] \in TasksOf(v)
      BY <1>3, QueueTyped
    <3>2. QED
      BY <1>6, <3>1 DEF TasksOf
  <2>2. t \notin Ended /\ t \notin Dropped
    BY <1>2, <1>6 DEF Ended, Dropped
  <2>3. QED
    BY <1>2, <2>1, <2>2 DEF Queues!Fresh
<1>12. CASE t \in Fragments
  <2>1. \A v \in Types : NotBegun(v)' = NotBegun(v)
    BY <1>1, <1>12, SentLine
  <2>2. QED
    BY <1>7, <1>9, <1>10, <1>12, <2>1, StepNone
<1>13. CASE t \notin Fragments /\ rxq' = rxq /\ lost' = lost \cup {t}
  <2>1. \A v \in Types : NotBegun(v)' = NotBegun(v)
    BY <1>1, <1>13, SentLine
  <2>2. Dropped' = Dropped \cup {t}
    BY <1>9, <1>13
  <2>3. QED
    BY <1>2, <1>7, <1>10, <1>11, <2>1, <2>2, StepRefuse
<1>14. CASE t \notin Fragments /\ rxq' = Append(rxq, t) /\ lost' = lost
  <2>1. NotBegun(y)' = Append(NotBegun(y), t)
    BY <1>1, <1>14, SentLine
  <2>2. \A v \in Types : v # y => NotBegun(v)' = NotBegun(v)
    BY <1>1, SentLine
  <2>3. Dropped' = Dropped
    BY <1>4, <1>9, <1>14
  <2>4. QED
    BY <1>2, <1>7, <1>10, <1>11, <2>1, <2>2, <2>3, StepArrive
<1>15. QED
  BY <1>1, <1>12, <1>13, <1>14 DEF SentTo

LEMMA NoneAmong == ASSUME NEW T PROVE Among(<<>>, T) = <<>>
<1>1. PICK e : e = <<>>
  OBVIOUS
<1>2. e \in Seq(Marks) /\ \A i \in 1..Len(e) : e[i] \notin T
  BY <1>1
<1>3. Among(e, T) = <<>>
  BY <1>2, AmongNone
<1>4. QED
  BY <1>1, <1>3

\* The networker takes the oldest packets of its receive queue into its batch.
LEMMA ReceivedQueues ==
  ASSUME IInv, IInv', Receive PROVE [Queues!Next]_(Queues!vars)
<1> USE DEF netVars, mailVars, loopVars, queueVars, timerVars, slotVars, workVars
<1>1. /\ Parts /\ Parts' /\ InLine /\ InLine' /\ NetInv /\ TypeOK /\ TypeOK'
  BY PartsTyped, PartsNext, QueueInLine, InLineNext DEF IInv
<1>2. /\ npc = "recv"
      /\ UNCHANGED <<kind, reqs, cnt, ni, dpc, tskq, answered, lost, response_flag, wpc,
                     finished, dispatcher_requests>>
      /\ recv_mbufs' = SubSeq(rxq, 1, AtMostBatch(Len(rxq)))
      /\ rxq' = SubSeq(rxq, AtMostBatch(Len(rxq)) + 1, Len(rxq))
  BY DEF Receive
<1>3. PICK x, r, y : x = rxq /\ r = recv_mbufs' /\ y = rxq'
  OBVIOUS
<1>4. x \in Seq(Marks) /\ r \in Seq(Marks) /\ y \in Seq(Marks)
  BY <1>1, <1>3 DEF Parts
<1>5. x = Join(r, y)
  <2>1. PICK n : n = AtMostBatch(Len(x))
    OBVIOUS
  <2>2. n \in 0..Len(x)
    BY <1>4, <2>1, BatchSize
  <2>3. n \in Nat /\ n <= Len(x)
    BY <2>2
  <2>4. x = Join(SubSeq(x, 1, n), SubSeq(x, n + 1, Len(x)))
    BY <1>4, <2>3, JoinSplit
  <2>5. QED
    BY <1>2, <1>3, <2>1, <2>4
<1>6. recv_mbufs = <<>>
  BY <1>1, <1>2 DEF NetInv
<1>7. ASSUME NEW v \in Types PROVE NotBegun(v)' = NotBegun(v)
  <2>1. Unbegun(v)' = Unbegun(v) /\ Mailbox' = Mailbox /\ TasksOf(v)' = TasksOf(v)
    BY <1>2 DEF Unbegun, Mailbox, Pending, TasksOf, Sent
  <2>2. PICK u, m, T : u = Unbegun(v) /\ m = Mailbox /\ T = TasksOf(v)
    OBVIOUS
  <2>3. u \in Seq(Marks) /\ m \in Seq(Marks)
    BY <1>1, <2>2 DEF Parts
  <2>4. PICK e, a, b, c, d :
          /\ e = <<>> /\ a = Among(u, T) /\ b = Among(m, T) /\ c = Among(r, T)
          /\ d = Among(y, T)
    OBVIOUS
  <2>5. e \in Seq(Marks) /\ a \in Seq(Marks)
    BY <2>3, <2>4, AmongType
  <2>6. b \in Seq(Marks) /\ c \in Seq(Marks) /\ d \in Seq(Marks)
    BY <1>4, <2>3, <2>4, AmongType
  <2>7. Among(x, T) = Join(c, d)
    BY <1>4, <1>5, <2>4, AmongJoin
  <2>8. Among(recv_mbufs, T) = <<>>
    BY <1>6, NoneAmong
  <2>9. NotBegun(v) = Chain(e, a, b, <<>>, Join(c, d))
    BY <1>1, <1>3, <2>2, <2>4, <2>7, <2>8 DEF InLine, Line
  <2>10. NotBegun(v)' = Chain(e, a, b, c, d)
    BY <1>1, <1>3, <2>1, <2>2, <2>4 DEF InLine, Line
  <2>11. Chain(e, a, b, <<>>, Join(c, d)) = Chain(e, a, b, c, d)
    BY <2>5, <2>6, ChainFromFifth
  <2>12. QED
    BY <2>9, <2>10, <2>11
<1>8. Begun' = Begun
  <2>1. \A v \in Workers : Unanswered(v)' <=> Unanswered(v)
    BY <1>2 DEF Unanswered, InService
  <2>2. QED
    BY <1>1, <1>2, <2>1, OwedStay, BegunStay
<1>9. QED
  BY <1>2, <1>7, <1>8, FatesStay, StepNone

\* Rq_update of the packets of a batch leaves the requests, in their order.
LEMMA CompletedAmong ==
  ASSUME NEW s \in Seq(Tasks), Len(s) <= Batch, NEW T, T \subseteq Tasks \ Fragments,
         NEW m \in Seq(Marks), Len(m) = Batch,
         \A i \in 1..Batch :
           m[i] = IF i <= Len(Completed(s)) THEN Completed(s)[i] ELSE Null
  PROVE  Among(m, T) = Among(s, T)
<1>1. PICK n \in 0..Len(s) : \E f \in [1..n -> 1..Len(s)] : Batched(s, n, f)
  BY CompletedBatch
<1>2. PICK f \in [1..n -> 1..Len(s)] : Batched(s, n, f)
  BY <1>1
<1>3. PICK d : d = Completed(s)
  OBVIOUS
<1>4. d \in Seq(Tasks) /\ Len(d) = n
  BY <1>2, <1>3 DEF Batched
<1>5. d \in Seq(Marks) /\ s \in Seq(Marks) /\ n \in Nat /\ n <= Batch /\ Batch \in Nat
  BY <1>4, Sizes DEF Marks
<1>6. Null \notin T
  BY Sizes
<1>7. Among(d, T) = Among(s, T)
  <2>1. \A j, k \in 1..n : j < k => f[j] < f[k]
    BY <1>2 DEF Batched
  <2>2. \A i \in 1..Len(s) : s[i] \in T => \E k \in 1..n : f[k] = i
    BY <1>2 DEF Batched
  <2>3. \A k \in 1..n : d[k] = s[f[k]]
    BY <1>2, <1>3 DEF Batched
  <2>4. Selects(d, s, T, n, f)
    BY <1>4, <2>1, <2>2, <2>3 DEF Selects
  <2>5. QED
    BY <1>5, <2>4, AmongSelected
<1>8. Among(d, T) = Among(m, T)
  <2>1. PICK g : g = [k \in 1..n |-> k]
    OBVIOUS
  <2>2. g \in [1..n -> 1..Len(m)] /\ \A k \in 1..n : g[k] = k
    BY <1>5, <2>1
  <2>3. \A j, k \in 1..n : j < k => g[j] < g[k]
    BY <2>2
  <2>4. \A i \in 1..Len(m) : m[i] \in T => \E k \in 1..n : g[k] = i
    <3>1. ASSUME NEW i \in 1..Len(m), m[i] \in T PROVE i \in 1..n /\ g[i] = i
      <4>1. i <= n
        BY <1>3, <1>4, <1>6, <3>1
      <4>2. i \in 1..n
        BY <1>5, <4>1
      <4>3. QED
        BY <2>2, <4>2
    <3>2. QED
      BY <3>1
  <2>5. \A k \in 1..n : d[k] = m[g[k]]
    <3>1. ASSUME NEW k \in 1..n PROVE d[k] = m[g[k]]
      <4>1. k \in 1..Batch /\ k <= Len(Completed(s)) /\ g[k] = k
        BY <1>3, <1>4, <1>5, <2>2
      <4>2. QED
        BY <1>3, <4>1
    <3>2. QED
      BY <3>1
  <2>6. Selects(d, m, T, n, g)
    BY <1>4, <2>2, <2>3, <2>4, <2>5 DEF Selects
  <2>7. QED
    BY <1>5, <2>6, AmongSelected
<1>9. QED
  BY <1>7, <1>8

\* The networker puts the requests of its batch into the mailbox, which is empty.
LEMMA PostedQueues ==
  ASSUME IInv, IInv', PostBatch PROVE [Queues!Next]_(Queues!vars)
<1> USE DEF netVars, mailVars, loopVars, queueVars, timerVars, slotVars, workVars
<1>1. /\ Parts /\ Parts' /\ InLine /\ InLine' /\ NetInv /\ MailInv /\ TypeOK /\ TypeOK'
  BY PartsTyped, PartsNext, QueueInLine, InLineNext DEF IInv
<1>2. /\ cnt = 0 /\ recv_mbufs' = <<>>
      /\ reqs' = Place(Completed(recv_mbufs), reqs) /\ cnt' = Len(Completed(recv_mbufs))
      /\ UNCHANGED <<kind, rxq, ni, dpc, tskq, answered, lost, response_flag, wpc,
                     finished, dispatcher_requests>>
  BY DEF PostBatch
<1>3. PICK s, m, n, x : s = recv_mbufs /\ m = Mailbox /\ n = Mailbox' /\ x = rxq
  OBVIOUS
<1>4. s \in Seq(Tasks) /\ Len(s) <= Batch
  BY <1>1, <1>3 DEF TypeOK, NetInv
<1>5. /\ m \in Seq(Marks) /\ n \in Seq(Marks) /\ Len(m) = Batch /\ Len(n) = Batch
      /\ x \in Seq(Marks) /\ s \in Seq(Marks)
  BY <1>1, <1>3 DEF Parts
<1>6. dpc # "accept"
  BY <1>1, <1>2 DEF MailInv
<1>7. \A i \in 1..Batch : m[i] = Null
  <2>1. Pending = {}
    BY <1>2, <1>6 DEF Pending
  <2>2. QED
    BY <1>3, <2>1, Sizes DEF Mailbox
<1>8. \A i \in 1..Batch :
        n[i] = IF i <= Len(Completed(s)) THEN Completed(s)[i] ELSE Null
  <2>1. Pending' = 1..Len(Completed(s))
    BY <1>2, <1>3, <1>6 DEF Pending
  <2>2. Len(Completed(s)) \in Nat
    BY <1>1, <1>2, <1>3, Sizes DEF TypeOK
  <2>3. \A i \in Slots : reqs'[i] = IF i <= Len(Completed(s)) THEN Completed(s)[i] ELSE reqs[i]
    BY <1>2, <1>3 DEF Place
  <2>4. \A i \in 1..Batch : i \in Slots /\ i \in Nat /\ i >= 1
    BY Sizes
  <2>5. QED
    BY <1>3, <2>1, <2>2, <2>3, <2>4 DEF Mailbox
<1>9. ASSUME NEW v \in Types PROVE NotBegun(v)' = NotBegun(v)
  <2>1. Unbegun(v)' = Unbegun(v) /\ TasksOf(v)' = TasksOf(v)
    BY <1>2 DEF Unbegun, TasksOf, Sent
  <2>2. PICK u, T : u = Unbegun(v) /\ T = TasksOf(v)
    OBVIOUS
  <2>3. u \in Seq(Marks) /\ T \subseteq Tasks \ Fragments /\ Null \notin T
    BY <1>1, <2>2, Sizes DEF Parts, TasksOf, Sent
  <2>4. PICK e, a, c, d :
          e = <<>> /\ a = Among(u, T) /\ c = Among(s, T) /\ d = Among(x, T)
    OBVIOUS
  <2>5. e \in Seq(Marks) /\ a \in Seq(Marks)
    BY <2>3, <2>4, AmongType
  <2>6. c \in Seq(Marks) /\ d \in Seq(Marks)
    BY <1>5, <2>4, AmongType
  <2>7. Among(n, T) = c
    BY <1>4, <1>5, <1>8, <2>3, <2>4, CompletedAmong
  <2>8. Among(m, T) = e
    <3>1. \A i \in 1..Len(m) : m[i] \notin T
      BY <1>5, <1>7, <2>3
    <3>2. QED
      BY <1>5, <2>4, <3>1, AmongNone
  <2>9. NotBegun(v) = Chain(e, a, e, c, d)
    BY <1>1, <1>3, <2>2, <2>4, <2>8 DEF InLine, Line
  <2>10. NotBegun(v)' = Chain(e, a, c, e, d)
    <3>1. Among(recv_mbufs', T) = e
      BY <1>2, <2>4, NoneAmong
    <3>2. QED
      BY <1>1, <1>2, <1>3, <2>1, <2>2, <2>4, <2>7, <3>1 DEF InLine, Line
  <2>11. Chain(e, a, e, Join(c, e), d) = Chain(e, a, Join(e, c), e, d)
    BY <2>5, <2>6, ChainFromFourth
  <2>12. Join(c, e) = c /\ Join(e, c) = c
    BY <2>4, <2>6, JoinEmpty
  <2>13. QED
    BY <2>9, <2>10, <2>11, <2>12
<1>10. Begun' = Begun
  <2>1. \A v \in Workers : Unanswered(v)' <=> Unanswered(v)
    BY <1>2 DEF Unanswered, InService
  <2>2. QED
    BY <1>1, <1>2, <2>1, OwedStay, BegunStay
<1>11. QED
  BY <1>2, <1>9, <1>10, FatesStay, StepNone

-----------------------------------------------------------------------------
(* The dispatcher empties the mailbox.                                      *)

\* The request handle_networker is at, which it takes out of the mailbox.
TakenFor(h, y) ==
  /\ h = reqs[ni] /\ y = types[ni] /\ h \in Tasks /\ y \in Types /\ ni \in Nat
  /\ InMail(h, ni) /\ Sent(h) /\ kind[h] = y
  /\ Swapped(Mailbox, ni, Null, Mailbox')
  /\ ni \in 1..Len(Mailbox) /\ Mailbox[ni] = h
  /\ \A i \in 1..(ni - 1) : Mailbox[i] = Null
  /\ UNCHANGED <<kind, rxq, recv_mbufs, dispatcher_requests>>
  /\ \A v \in Workers : Unanswered(v)' <=> Unanswered(v)

LEMMA MailboxTaken ==
  ASSUME IInv, RequestsLive, DropRequest \/ AcceptRequest PROVE TakenFor(reqs[ni], types[ni])
<1> USE DEF netVars, mailVars, loopVars, queueVars, timerVars, slotVars, workVars
<1>1. /\ dpc = "accept" /\ dpc' = "accept" /\ ni <= cnt /\ ni' = ni + 1
      /\ UNCHANGED <<kind, rxq, recv_mbufs, cnt, reqs, dispatcher_requests, response_flag,
                     wpc, finished>>
  BY DEF DropRequest, AcceptRequest
<1>2. TypeOK /\ MailInv /\ Parts
  BY PartsTyped DEF IInv
<1>3. PICK h, k, n : h = reqs[ni] /\ k = ni /\ n = cnt
  OBVIOUS
<1>4. /\ k \in 1..n /\ k \in Slots /\ k \in Pending /\ h \in Tasks /\ types[k] \in Types
      /\ kind[h] = types[k]
  BY <1>1, <1>2, <1>3, NewTask
<1>5. n \in 0..Batch /\ k \in Nat /\ n \in Nat
  BY <1>2, <1>3, <1>4 DEF TypeOK
<1>6. InMail(h, k)
  BY <1>3, <1>4 DEF InMail
<1>7. Sent(h)
  <2>1. TaskAt(h, "mailbox", 0, k)
    BY <1>6 DEF TaskAt
  <2>2. QED
    BY <1>4, <1>5, <2>1, FoundSent
<1>8. Pending = k..n /\ Pending' = (k + 1)..n
  BY <1>1, <1>3 DEF Pending
<1>9. Len(Mailbox) = Batch /\ k \in 1..Batch
  BY <1>2, <1>4, Sizes DEF Parts
<1>10. Mailbox[k] = h /\ \A i \in 1..(k - 1) : Mailbox[i] = Null
  <2>1. ASSUME NEW i \in 1..(k - 1) PROVE Mailbox[i] = Null
    <3>1. i \in Slots /\ i \notin Pending
      BY <1>5, <1>8, <1>9, Sizes
    <3>2. QED
      BY <3>1 DEF Mailbox
  <2>2. Mailbox[k] = h
    BY <1>3, <1>4 DEF Mailbox
  <2>3. QED
    BY <2>1, <2>2
<1>11. Mailbox' = [Mailbox EXCEPT ![k] = Null]
  <2>1. \A i \in Slots : i \in Pending' <=> i \in Pending /\ i # k
    BY <1>5, <1>8, Sizes
  <2>2. QED
    BY <1>1, <2>1 DEF Mailbox
<1>12. Swapped(Mailbox, k, Null, Mailbox')
  BY <1>11 DEF Swapped
<1>13. \A v \in Workers : Unanswered(v)' <=> Unanswered(v)
  BY <1>1 DEF Unanswered, InService
<1>14. k \in 1..Len(Mailbox)
  BY <1>9
<1>15. QED
  BY <1>1, <1>3, <1>4, <1>5, <1>6, <1>7, <1>10, <1>12, <1>13, <1>14 DEF TakenFor

\* It is the first request of the mailbox of its type, and of no other.
LEMMA MailboxFirst ==
  ASSUME Parts, Parts', NEW h, NEW y, TakenFor(h, y), NEW v \in Types
  PROVE  Among(Mailbox, TasksOf(v))
           = IF v = y THEN Join(One(h), Among(Mailbox', TasksOf(v)))
                      ELSE Among(Mailbox', TasksOf(v))
<1>1. PICK m, n, k, T : m = Mailbox /\ n = Mailbox' /\ k = ni /\ T = TasksOf(v)
  OBVIOUS
<1>2. m \in Seq(Marks) /\ n \in Seq(Marks) /\ k \in 1..Len(m) /\ h \in Marks
  BY <1>1 DEF Parts, TakenFor, Marks
<1>3. Null \in Marks /\ Null \notin T
  BY <1>1, Sizes DEF TasksOf, Marks
<1>4. m[k] = h /\ \A i \in 1..(k - 1) : m[i] \notin T
  BY <1>1, <1>3 DEF TakenFor
<1>5. Swapped(m, k, Null, n)
  BY <1>1 DEF TakenFor
<1>6. Among(m, T) = Join(Among(One(m[k]), T), Among(n, T))
  <2>1. m \in Seq(Marks)
    BY <1>2
  <2>2. k \in 1..Len(m)
    BY <1>2
  <2>3. NoneBefore(m, k, T)
    BY <1>4 DEF NoneBefore
  <2>4. Null \in Marks
    BY <1>3
  <2>5. Null \notin T
    BY <1>3
  <2>6. QED
    BY <1>5, <2>1, <2>2, <2>3, <2>4, <2>5, AmongTaken
<1>7. Among(One(h), T) = IF h \in T THEN One(h) ELSE <<>>
  BY <1>2, AmongSingle
<1>8. h \in T <=> v = y
  BY <1>1 DEF TakenFor, TasksOf
<1>9. Among(n, T) \in Seq(Marks)
  BY <1>2, AmongType
<1>10. Join(<<>>, Among(n, T)) = Among(n, T)
  BY <1>9, JoinEmpty
<1>11. CASE v = y
  BY <1>1, <1>4, <1>6, <1>7, <1>8, <1>11
<1>12. CASE v # y
  BY <1>1, <1>4, <1>6, <1>7, <1>8, <1>10, <1>12
<1>13. QED
  BY <1>11, <1>12

\* An accepted request goes to the end of the task queue of its type.
LEMMA AcceptedQueues ==
  ASSUME IInv, IInv', RequestsLive, AcceptRequest PROVE [Queues!Next]_(Queues!vars)
<1> USE DEF netVars, mailVars, loopVars, queueVars, timerVars, slotVars, workVars
<1>1. /\ Parts /\ Parts' /\ InLine /\ InLine' /\ MailInv /\ TypeOK /\ TypeOK'
  BY PartsTyped, PartsNext, QueueInLine, InLineNext DEF IInv
<1>2. PICK h, y : h = reqs[ni] /\ y = types[ni]
  OBVIOUS
<1>3. TakenFor(h, y)
  BY <1>2, MailboxTaken
<1>4. PICK c \in freeCtx : \E e \in Runnable :
        /\ e = [rnbl |-> c, req |-> reqs[ni], type |-> types[ni], category |-> "PACKET",
                timestamp |-> cur_time]
        /\ tskq'[types[ni]] = Append(tskq[types[ni]], e)
        /\ \A z \in Types : z # types[ni] => tskq'[z] = tskq[z]
  BY <1>1, AcceptedEntries
<1>5. PICK e \in Runnable :
        /\ e.req = h /\ e.category = "PACKET"
        /\ tskq'[y] = Append(tskq[y], e)
        /\ \A z \in Types : z # y => tskq'[z] = tskq[z]
  BY <1>2, <1>4
<1>6. y \in Types /\ h \in Marks
  BY <1>3 DEF TakenFor, Marks
<1>7. PICK l, o : l = tskq[y] /\ o = One(e)
  OBVIOUS
<1>8. l \in Seq(Runnable) /\ o \in Seq(Runnable)
  BY <1>1, <1>6, <1>7, OneLaw DEF TypeOK
<1>9. tskq'[y] = Join(l, o)
  BY <1>5, <1>7, <1>8, JoinLast
<1>10. MarkAll(o) = One(h) /\ Resumed(o) = {}
  BY <1>5, <1>7, MarksOne DEF Mark
<1>11. MarkAll(tskq'[y]) = Join(MarkAll(l), One(h)) /\ Resumed(tskq'[y]) = Resumed(l)
  <2>1. /\ MarkAll(Join(l, o)) = Join(MarkAll(l), MarkAll(o))
        /\ Resumed(Join(l, o)) = Resumed(l) \cup Resumed(o)
    BY <1>8, MarksJoin
  <2>2. QED
    BY <1>9, <1>10, <2>1
<1>12. \A z \in Types : Resumed(tskq'[z]) = Resumed(tskq[z])
  BY <1>5, <1>7, <1>11
<1>13. ASSUME NEW v \in Types PROVE NotBegun(v)' = NotBegun(v)
  <2>1. PICK u, z, m, n, r, x, T :
          /\ u = Unbegun(v) /\ z = Unbegun(v)' /\ m = Mailbox /\ n = Mailbox'
          /\ r = recv_mbufs /\ x = rxq /\ T = TasksOf(v)
    OBVIOUS
  <2>2. rxq' = x /\ recv_mbufs' = r /\ TasksOf(v)' = T
    BY <1>3, <2>1 DEF TakenFor, TasksOf, Sent
  <2>3. u \in Seq(Marks) /\ z \in Seq(Marks)
    BY <1>1, <2>1 DEF Parts
  <2>4. m \in Seq(Marks) /\ n \in Seq(Marks) /\ r \in Seq(Marks) /\ x \in Seq(Marks)
    BY <1>1, <2>1 DEF Parts
  <2>5. PICK f, a, b, g, d :
          /\ f = <<>> /\ a = Among(u, T) /\ b = Among(n, T) /\ g = Among(r, T)
          /\ d = Among(x, T)
    OBVIOUS
  <2>6. f \in Seq(Marks) /\ a \in Seq(Marks)
    BY <2>3, <2>5, AmongType
  <2>7. b \in Seq(Marks) /\ g \in Seq(Marks) /\ d \in Seq(Marks)
    BY <2>4, <2>5, AmongType
  <2>8. Among(m, T) = IF v = y THEN Join(One(h), b) ELSE b
    BY <1>1, <1>3, <2>1, <2>5, MailboxFirst
  <2>9. NotBegun(v) = Chain(f, a, Among(m, T), g, d)
    BY <1>1, <2>1, <2>5 DEF InLine, Line
  <2>10. NotBegun(v)' = Chain(f, Among(z, T), b, g, d)
    BY <1>1, <2>1, <2>2, <2>5 DEF InLine, Line
  <2>11. u = MarkAll(tskq[v]) /\ z = MarkAll(tskq'[v])
    <3>1. z = MarkAll(tskq'[v])
      BY <2>1 DEF Unbegun, MarkAll, Mark
    <3>2. QED
      BY <2>1, <3>1, UnbegunIs
  <2>12. CASE v = y
    <3>1. PICK p : p = One(h)
      OBVIOUS
    <3>2. p \in Seq(Marks)
      BY <1>6, <3>1, OneLaw
    <3>3. z = Join(u, p)
      BY <1>7, <1>11, <2>11, <2>12, <3>1
    <3>4. Among(p, T) = p
      <4>1. h \in T
        BY <1>3, <2>1, <2>12 DEF TakenFor, TasksOf
      <4>2. QED
        BY <1>6, <3>1, <4>1, AmongSingle
    <3>5. Among(z, T) = Join(a, p)
      BY <2>3, <2>5, <3>2, <3>3, <3>4, AmongJoin
    <3>6. Chain(f, a, Join(p, b), g, d) = Chain(f, Join(a, p), b, g, d)
      BY <2>6, <2>7, <3>2, ChainFromThird
    <3>7. QED
      BY <2>8, <2>9, <2>10, <2>12, <3>1, <3>5, <3>6
  <2>13. CASE v # y
    <3>1. z = u
      BY <1>5, <2>11, <2>13
    <3>2. QED
      BY <2>5, <2>8, <2>9, <2>10, <2>13, <3>1
  <2>14. QED
    BY <2>12, <2>13
<1>14. Begun' = Begun
  <2>1. Owed' = Owed
    BY <1>3, OwedStay DEF TakenFor
  <2>2. Begun = (UNION {Resumed(tskq[z]) : z \in Types}) \cup Owed
    BY <1>1, BegunIs
  <2>3. Begun' = (UNION {Resumed(tskq'[z]) : z \in Types}) \cup Owed'
    BY <1>1, BegunNext
  <2>4. QED
    BY <1>12, <2>1, <2>2, <2>3
<1>15. UNCHANGED <<kind, answered, lost>>
  BY DEF AcceptRequest
<1>16. QED
  BY <1>13, <1>14, <1>15, FatesStay, StepNone

\* A request that finds no context leaves the queue of its type, from the place
\* behind all that came before it.
LEMMA DroppedQueues ==
  ASSUME IInv, IInv', RequestsLive, DropRequest PROVE [Queues!Next]_(Queues!vars)
<1> USE DEF netVars, mailVars, loopVars, queueVars, timerVars, slotVars, workVars
<1>1. /\ Parts /\ Parts' /\ InLine /\ InLine' /\ TypeOK /\ TypeOK'
  BY PartsTyped, PartsNext, QueueInLine, InLineNext DEF IInv
<1>2. PICK h, y : h = reqs[ni] /\ y = types[ni]
  OBVIOUS
<1>3. TakenFor(h, y)
  BY <1>2, MailboxTaken
<1>4. /\ y \in Types /\ h \in Tasks /\ h \in Marks /\ Sent(h) /\ lost' = lost \cup {h}
      /\ UNCHANGED <<kind, tskq, answered>>
  BY <1>2, <1>3 DEF TakenFor, DropRequest, Marks
<1>5. ASSUME NEW v \in Types
      PROVE  IF v = y THEN Leaves(h, NotBegun(v), NotBegun(v)')
                      ELSE NotBegun(v)' = NotBegun(v)
  <2>1. PICK u, m, n, r, x, T :
          /\ u = Unbegun(v) /\ m = Mailbox /\ n = Mailbox' /\ r = recv_mbufs
          /\ x = rxq /\ T = TasksOf(v)
    OBVIOUS
  <2>2. Unbegun(v)' = u /\ rxq' = x /\ recv_mbufs' = r /\ TasksOf(v)' = T
    BY <1>3, <1>4, <2>1 DEF TakenFor, TasksOf, Sent, Unbegun
  <2>3. u \in Seq(Marks) /\ m \in Seq(Marks) /\ n \in Seq(Marks) /\ r \in Seq(Marks)
        /\ x \in Seq(Marks)
    BY <1>1, <2>1 DEF Parts
  <2>4. PICK f, a, b, g, d :
          /\ f = <<>> /\ a = Among(u, T) /\ b = Among(n, T) /\ g = Among(r, T)
          /\ d = Among(x, T)
    OBVIOUS
  <2>5. f \in Seq(Marks) /\ a \in Seq(Marks)
    BY <2>3, <2>4, AmongType
  <2>6. b \in Seq(Marks) /\ g \in Seq(Marks) /\ d \in Seq(Marks)
    BY <2>3, <2>4, AmongType
  <2>7. Among(m, T) = IF v = y THEN Join(One(h), b) ELSE b
    BY <1>1, <1>3, <2>1, <2>4, MailboxFirst
  <2>8. NotBegun(v) = Chain(f, a, Among(m, T), g, d)
    BY <1>1, <2>1, <2>4 DEF InLine, Line
  <2>9. NotBegun(v)' = Chain(f, a, b, g, d)
    BY <1>1, <2>1, <2>2, <2>4 DEF InLine, Line
  <2>10. CASE v = y
    <3>1. Leaves(h, Chain(f, a, Join(One(h), b), g, d), Chain(f, a, b, g, d))
      BY <1>4, <2>5, <2>6, ChainWithout
    <3>2. QED
      BY <2>7, <2>8, <2>9, <2>10, <3>1
  <2>11. CASE v # y
    BY <2>7, <2>8, <2>9, <2>11
  <2>12. QED
    BY <2>10, <2>11
<1>6. Leaves(h, NotBegun(y), NotBegun(y)')
  BY <1>4, <1>5
<1>7. \A v \in Types : v # y => NotBegun(v)' = NotBegun(v)
  BY <1>5
<1>8. Begun' = Begun
  <2>1. Owed' = Owed
    BY <1>3, OwedStay DEF TakenFor
  <2>2. QED
    BY <1>1, <1>4, <2>1, BegunStay
<1>9. Fates(h) = 0
  <2>1. ni \in Nat /\ TaskAt(h, "mailbox", 0, ni)
    BY <1>3 DEF TakenFor, TaskAt
  <2>2. Lodged(h, "mailbox", 0, ni)
    BY <1>4, <2>1, Found DEF IInv
  <2>3. QED
    BY <1>4, <2>2 DEF Lodged, FateAt, Due
<1>10. \A u \in Tasks : Sent(u)' <=> Sent(u)
  BY <1>4 DEF Sent
<1>11. Ended' = Ended
  <2>1. ASSUME NEW u \in Tasks, u # h PROVE u \in Ended' <=> u \in Ended
    <3>1. Fates(u)' = Fates(u)
      BY <1>4, <2>1 DEF Fates
    <3>2. QED
      BY <1>4, <1>10, <2>1, <3>1 DEF Ended
  <2>2. h \notin Ended /\ h \notin Ended'
    BY <1>4, <1>9 DEF Ended
  <2>3. QED
    BY <2>1, <2>2 DEF Ended
<1>12. Dropped' = Dropped \cup {h}
  <2>1. lost \subseteq Tasks
    BY <1>1 DEF TypeOK
  <2>2. QED
    BY <1>4, <1>10, <2>1 DEF Dropped
<1>13. QED
  BY <1>4, <1>6, <1>7, <1>8, <1>11, <1>12, StepDrop

-----------------------------------------------------------------------------
(* The tasks begin, and begin again.                                        *)

\* What a queue entry has marked is a task of the queue's type.
LEMMA EntrySent ==
  ASSUME IInv, RequestsLive, NEW y \in Types, NEW i \in 1..Len(tskq[y])
  PROVE  /\ tskq[y][i] \in Runnable /\ tskq[y][i].req \in TasksOf(y)
<1>1. TypeOK /\ EntryInv
  BY DEF IInv
<1>2. PICK e : e = tskq[y][i]
  OBVIOUS
<1>3. tskq[y] \in Seq(Runnable) /\ i \in DOMAIN tskq[y] /\ i \in Nat
  BY <1>1 DEF TypeOK
<1>4. e \in Runnable /\ e.type = y
  BY <1>1, <1>2, <1>3 DEF TypeOK
<1>5. PICK t : t = e.req
  OBVIOUS
<1>6. t \in Tasks
  BY <1>4, <1>5 DEF Runnable
<1>7. TaskAt(t, "tskq", y, i)
  BY <1>2, <1>5 DEF TaskAt, InQueue
<1>8. Sent(t)
  BY <1>3, <1>6, <1>7, FoundSent
<1>9. kind[t] = y
  <2>1. Entry(e)
    BY <1>2 DEF Entry
  <2>2. QED
    BY <1>1, <1>4, <1>5, <2>1 DEF EntryInv, Linked
<1>10. QED
  BY <1>2, <1>4, <1>5, <1>6, <1>8, <1>9 DEF TasksOf

\* The queues of the types by what changes: their task queues.
LEMMA OnlyUnbegun ==
  ASSUME IInv, IInv', UNCHANGED <<kind, rxq, recv_mbufs, reqs>>, Pending' = Pending
  PROVE  \A v \in Types : \E e, b, c, d \in Seq(Marks) :
           /\ e = <<>>
           /\ NotBegun(v)  = Chain(e, Among(MarkAll(tskq[v]), TasksOf(v)), b, c, d)
           /\ NotBegun(v)' = Chain(e, Among(MarkAll(tskq'[v]), TasksOf(v)), b, c, d)
<1> SUFFICES ASSUME NEW v \in Types
             PROVE  \E e, b, c, d \in Seq(Marks) :
           /\ e = <<>>
           /\ NotBegun(v)  = Chain(e, Among(MarkAll(tskq[v]), TasksOf(v)), b, c, d)
           /\ NotBegun(v)' = Chain(e, Among(MarkAll(tskq'[v]), TasksOf(v)), b, c, d)
  OBVIOUS
<1>1. Parts /\ InLine /\ InLine'
  BY PartsTyped, QueueInLine, InLineNext DEF IInv
<1>2. Mailbox' = Mailbox /\ TasksOf(v)' = TasksOf(v)
  BY DEF Mailbox, TasksOf, Sent
<1>3. PICK m, r, x, T : m = Mailbox /\ r = recv_mbufs /\ x = rxq /\ T = TasksOf(v)
  OBVIOUS
<1>4. m \in Seq(Marks) /\ r \in Seq(Marks) /\ x \in Seq(Marks)
  BY <1>1, <1>3 DEF Parts
<1>5. PICK e, b, c, d :
        /\ e = <<>> /\ b = Among(m, T) /\ c = Among(r, T) /\ d = Among(x, T)
  OBVIOUS
<1>6. e \in Seq(Marks) /\ b \in Seq(Marks) /\ c \in Seq(Marks) /\ d \in Seq(Marks)
  BY <1>4, <1>5, AmongType
<1>7. Unbegun(v) = MarkAll(tskq[v]) /\ Unbegun(v)' = MarkAll(tskq'[v])
  <2>1. Unbegun(v)' = MarkAll(tskq'[v])
    BY DEF Unbegun, MarkAll, Mark
  <2>2. QED
    BY <2>1, UnbegunIs
<1>8. NotBegun(v) = Chain(e, Among(MarkAll(tskq[v]), T), b, c, d)
  BY <1>1, <1>3, <1>5, <1>7 DEF InLine, Line
<1>9. NotBegun(v)' = Chain(e, Among(MarkAll(tskq'[v]), T), b, c, d)
  BY <1>1, <1>2, <1>3, <1>5, <1>7 DEF InLine, Line
<1>10. QED
  <2>1. e \in Seq(Marks) /\ b \in Seq(Marks) /\ c \in Seq(Marks) /\ d \in Seq(Marks)
    BY <1>6
  <2>2. e = <<>> /\ T = TasksOf(v)
    BY <1>3, <1>5
  <2> USE <2>1
  <2> WITNESS e \in Seq(Marks), b \in Seq(Marks), c \in Seq(Marks), d \in Seq(Marks)
  <2>3. QED
    BY <1>8, <1>9, <2>2

\* A preempted task goes back to its task queue, where it counts as begun.
LEMMA RequeuedQueues ==
  ASSUME IInv, IInv', NEW w \in Workers, HandlePreempted(w)
  PROVE  [Queues!Next]_(Queues!vars)
<1> USE DEF netVars, mailVars, loopVars, queueVars, timerVars, slotVars, workVars
<1>1. /\ TypeOK /\ TypeOK' /\ SlotInv
  BY DEF IInv
<1>2. /\ response_flag \in [Workers -> {"RUNNING", "FINISHED", "PREEMPTED", "PROCESSED"}]
      /\ response_flag[w] = "PREEMPTED"
      /\ response_flag' = [response_flag EXCEPT ![w] = "PROCESSED"]
      /\ UNCHANGED <<kind, rxq, recv_mbufs, reqs, cnt, ni, dpc, answered, lost, wpc, finished,
                     dispatcher_requests>>
  BY <1>1 DEF TypeOK, HandlePreempted, Processed
<1>3. PICK e \in Runnable :
        /\ e = worker_responses[w] /\ e.type \in Types
        /\ \A y \in Types : y # e.type => tskq'[y] = tskq[y]
        /\ tskq'[e.type] = Requeued(e)
  BY <1>1, PreemptedEntries
<1>4. /\ e.category = "CONTEXT" /\ e.req = dispatcher_requests[w].req /\ wpc[w] = "poll"
      /\ InService(w)
  BY <1>1, <1>2, <1>3, TakeResponse
<1>5. PICK y, l, o : y = e.type /\ l = tskq[y] /\ o = One(e)
  OBVIOUS
<1>6. y \in Types /\ l \in Seq(Runnable) /\ o \in Seq(Runnable)
  BY <1>1, <1>3, <1>5, OneLaw DEF TypeOK
<1>7. tskq'[y] = Join(o, l) \/ tskq'[y] = Join(l, o)
  <2>1. Append(l, e) = Join(l, o)
    BY <1>5, <1>6, JoinLast
  <2>2. Requeued(e) = IF HeadFirst[y] THEN Join(o, l) ELSE Append(l, e)
    BY <1>5 DEF Requeued, Join, One
  <2>3. QED
    BY <1>3, <1>5, <2>1, <2>2
<1>8. MarkAll(o) = One(Null) /\ Resumed(o) = {e.req}
  BY <1>4, <1>5, MarksOne DEF Mark
<1>9. PICK u, n : u = MarkAll(l) /\ n = One(Null)
  OBVIOUS
<1>10. u \in Seq(Marks) /\ n \in Seq(Marks) /\ Null \in Marks
  BY <1>6, <1>9, MarksTyped, OneLaw DEF Marks
<1>11. /\ MarkAll(tskq'[y]) = Join(n, u) \/ MarkAll(tskq'[y]) = Join(u, n)
       /\ Resumed(tskq'[y]) = Resumed(l) \cup {e.req}
  <2>1. /\ MarkAll(Join(l, o)) = Join(u, n)
        /\ Resumed(Join(l, o)) = Resumed(l) \cup Resumed(o)
    BY <1>6, <1>8, <1>9, MarksJoin
  <2>2. /\ MarkAll(Join(o, l)) = Join(n, u)
        /\ Resumed(Join(o, l)) = Resumed(o) \cup Resumed(l)
    BY <1>6, <1>8, <1>9, MarksJoin
  <2>3. CASE tskq'[y] = Join(o, l)
    BY <1>8, <2>2, <2>3
  <2>4. CASE tskq'[y] = Join(l, o)
    BY <1>8, <2>1, <2>4
  <2>5. QED
    BY <1>7, <2>3, <2>4
<1>12. ASSUME NEW v \in Types PROVE NotBegun(v)' = NotBegun(v)
  <2>1. Pending' = Pending
    BY <1>2 DEF Pending
  <2>2. PICK f, b, c, d \in Seq(Marks) :
          /\ NotBegun(v)  = Chain(f, Among(MarkAll(tskq[v]), TasksOf(v)), b, c, d)
          /\ NotBegun(v)' = Chain(f, Among(MarkAll(tskq'[v]), TasksOf(v)), b, c, d)
    BY <1>2, <2>1, OnlyUnbegun
  <2>3. PICK T, a, k : T = TasksOf(v) /\ a = Among(u, T) /\ k = Among(n, T)
    OBVIOUS
  <2>4. a \in Seq(Marks) /\ Null \notin T
    BY <1>10, <2>3, AmongType, Sizes DEF TasksOf
  <2>5. k = <<>>
    BY <1>9, <1>10, <2>3, <2>4, AmongSingle
  <2>6. Among(Join(n, u), T) = Join(k, a) /\ Among(Join(u, n), T) = Join(a, k)
    BY <1>10, <2>3, AmongJoin
  <2>7. Join(k, a) = a /\ Join(a, k) = a
    BY <2>4, <2>5, JoinEmpty
  <2>8. CASE v = y
    BY <1>5, <1>9, <1>11, <2>2, <2>3, <2>6, <2>7, <2>8
  <2>9. CASE v # y
    BY <1>3, <1>5, <2>2, <2>9
  <2>10. QED
    BY <2>8, <2>9
<1>13. Begun' = Begun
  <2>1. Owed = Owed' \cup {e.req}
    <3>1. Unanswered(w) /\ ~Unanswered(w)'
      BY <1>2, <1>4 DEF Unanswered, InService
    <3>2. \A v \in Workers : v # w => (Unanswered(v)' <=> Unanswered(v))
      BY <1>2 DEF Unanswered, InService
    <3>3. \A x : x \in Owed <=> \E v \in Workers : Unanswered(v) /\ dispatcher_requests[v].req = x
      BY DEF Owed
    <3>4. \A x : x \in Owed' <=> \E v \in Workers : Unanswered(v)' /\ dispatcher_requests[v].req = x
      BY <1>2 DEF Owed
    <3>5. QED
      BY <1>4, <3>1, <3>2, <3>3, <3>4
  <2>2. Begun = (UNION {Resumed(tskq[z]) : z \in Types}) \cup Owed
    BY <1>1, BegunIs
  <2>3. Begun' = (UNION {Resumed(tskq'[z]) : z \in Types}) \cup Owed'
    BY <1>1, BegunNext
  <2>4. UNION {Resumed(tskq'[z]) : z \in Types}
          = (UNION {Resumed(tskq[z]) : z \in Types}) \cup {e.req}
    <3>1. \A z \in Types : z # y => Resumed(tskq'[z]) = Resumed(tskq[z])
      BY <1>3, <1>5
    <3>2. Resumed(tskq'[y]) = Resumed(tskq[y]) \cup {e.req}
      BY <1>5, <1>11
    <3>3. QED
      BY <1>6, <3>1, <3>2
  <2>5. QED
    BY <2>1, <2>2, <2>3, <2>4
<1>14. QED
  BY <1>2, <1>12, <1>13, FatesStay, StepNone

\* The dispatcher hands the first entry of a task queue to worker w.
HandedOut(w, y, e, t) ==
  /\ y \in Types /\ e \in Runnable /\ e.req \in TasksOf(y) /\ t \in Seq(Runnable)
  /\ tskq[y] = Join(One(e), t) /\ tskq'[y] = t
  /\ \A z \in Types : z # y => tskq'[z] = tskq[z]
  /\ Owed' = Owed \cup {e.req}

LEMMA DispatchedFirst ==
  ASSUME IInv, RequestsLive, NEW w \in Workers, DispatchRequest(w)
  PROVE  \E y, e, t : HandedOut(w, y, e, t)
<1> USE DEF netVars, mailVars, loopVars, queueVars, timerVars, slotVars, workVars
<1>1. TypeOK /\ SlotInv
  BY DEF IInv
<1>2. PICK y \in Types :
        /\ tskq[y] # <<>> /\ tskq'[y] = Tail(tskq[y])
        /\ \A z \in Types : z # y => tskq'[z] = tskq[z]
        /\ dispatcher_requests'[w] = tskq[y][1]
        /\ \A v \in Workers : v # w => dispatcher_requests'[v] = dispatcher_requests[v]
  BY <1>1, DispatchedEntries
<1>3. PICK l, e, t : l = tskq[y] /\ e = tskq[y][1] /\ t = Tail(tskq[y])
  OBVIOUS
<1>4. l \in Seq(Runnable) /\ Len(l) \in Nat \ {0} /\ t \in Seq(Runnable)
  BY <1>1, <1>2, <1>3, TakeTask DEF TypeOK
<1>5. e \in Runnable /\ e.req \in TasksOf(y)
  <2>1. 1 \in 1..Len(tskq[y])
    BY <1>3, <1>4
  <2>2. QED
    BY <1>3, <2>1, EntrySent
<1>6. l = Join(One(e), t)
  <2>1. l # <<>> /\ e = Head(l) /\ t = Tail(l)
    BY <1>2, <1>3, <1>4
  <2>2. l = <<e>> \o t
    BY <1>4, <2>1
  <2>3. QED
    BY <2>2 DEF Join, One
<1>7. /\ response_flag \in [Workers -> {"RUNNING", "FINISHED", "PREEMPTED", "PROCESSED"}]
      /\ response_flag[w] = "PROCESSED"
      /\ response_flag' = [response_flag EXCEPT ![w] = "RUNNING"]
      /\ UNCHANGED <<wpc, finished>> /\ wpc[w] = "poll"
  <2>1. /\ response_flag[w] = "PROCESSED"
        /\ response_flag' = [response_flag EXCEPT ![w] = "RUNNING"]
        /\ UNCHANGED <<wpc, finished>>
    BY DEF DispatchRequest
  <2>2. wpc[w] = "poll"
    <3>1. wpc[w] \in {"poll", "work", "done"}
      BY <1>1 DEF TypeOK
    <3>2. SlotOf(w)
      BY <1>1 DEF SlotInv
    <3>3. wpc[w] \in {"work", "done"} => response_flag[w] = "RUNNING"
      BY <3>2 DEF SlotOf
    <3>4. QED
      BY <2>1, <3>1, <3>3
  <2>3. QED
    BY <1>1, <2>1, <2>2 DEF TypeOK
<1>8. Owed' = Owed \cup {e.req}
  <2>1. ~Unanswered(w) /\ Unanswered(w)'
    BY <1>7 DEF Unanswered, InService
  <2>2. \A v \in Workers : v # w => (Unanswered(v)' <=> Unanswered(v))
    BY <1>7 DEF Unanswered, InService
  <2>3. \A x : x \in Owed <=> \E v \in Workers : Unanswered(v) /\ dispatcher_requests[v].req = x
    BY DEF Owed
  <2>4. \A x : x \in Owed' <=> \E v \in Workers : Unanswered(v)' /\ dispatcher_requests'[v].req = x
    BY DEF Owed
  <2>5. dispatcher_requests'[w].req = e.req
    BY <1>2, <1>3
  <2>6. QED
    BY <1>2, <2>1, <2>2, <2>3, <2>4, <2>5
<1>9. HandedOut(w, y, e, t)
  BY <1>2, <1>3, <1>4, <1>5, <1>6, <1>8 DEF HandedOut
<1>10. QED
  BY <1>9

\* Handed out, a task begins, unless it did before it was preempted.
LEMMA DispatchedQueues ==
  ASSUME IInv, IInv', RequestsLive, NEW w \in Workers, DispatchRequest(w)
  PROVE  [Queues!Next]_(Queues!vars)
<1> USE DEF netVars, mailVars, loopVars, queueVars, timerVars, slotVars, workVars
<1>1. TypeOK /\ TypeOK'
  BY DEF IInv
<1>2. UNCHANGED <<kind, rxq, recv_mbufs, reqs, cnt, ni, answered, lost>>
  BY DEF DispatchRequest, NextTurn
<1>3. Pending' = Pending
  <2>1. dpc # "accept" /\ dpc' # "accept"
    BY DEF DispatchRequest, AtWorker, NextTurn
  <2>2. QED
    BY <1>2, <2>1 DEF Pending
<1>4. PICK y, e, t : HandedOut(w, y, e, t)
  BY DispatchedFirst
<1>5. PICK o, r : o = One(e) /\ r = e.req
  OBVIOUS
<1>6. /\ y \in Types /\ o \in Seq(Runnable) /\ t \in Seq(Runnable) /\ r \in TasksOf(y)
      /\ r \in Tasks
  BY <1>4, <1>5, OneLaw DEF HandedOut, TasksOf
<1>7. /\ tskq[y] = Join(o, t) /\ tskq'[y] = t
      /\ \A z \in Types : z # y => tskq'[z] = tskq[z]
      /\ Owed' = Owed \cup {r}
  BY <1>4, <1>5 DEF HandedOut
<1>8. /\ MarkAll(o) = One(Mark(e)) /\ Resumed(o) = IF e.category = "CONTEXT" THEN {r} ELSE {}
      /\ e.category \in {"PACKET", "CONTEXT"}
  <2>1. e \in Runnable
    BY <1>4 DEF HandedOut
  <2>2. MarkAll(One(e)) = One(Mark(e))
    BY <2>1, MarksOne
  <2>3. Resumed(One(e)) = IF e.category = "CONTEXT" THEN {e.req} ELSE {}
    BY <2>1, MarksOne
  <2>4. QED
    BY <1>5, <2>1, <2>2, <2>3 DEF Runnable
<1>9. PICK h, u : h = MarkAll(o) /\ u = MarkAll(t)
  OBVIOUS
<1>10. h \in Seq(Marks) /\ u \in Seq(Marks) /\ r \in Marks /\ Null \in Marks
  BY <1>6, <1>9, MarksTyped DEF Marks
<1>11. /\ MarkAll(tskq[y]) = Join(h, u)
       /\ Resumed(tskq[y]) = Resumed(o) \cup Resumed(t)
  BY <1>6, <1>7, <1>9, MarksJoin
<1>12. /\ Begun = (UNION {Resumed(tskq[z]) : z \in Types}) \cup Owed
       /\ Begun' = (UNION {Resumed(tskq'[z]) : z \in Types}) \cup (Owed \cup {r})
  <2>1. Begun' = (UNION {Resumed(tskq'[z]) : z \in Types}) \cup Owed'
    BY <1>1, BegunNext
  <2>2. QED
    BY <1>1, <1>7, <2>1, BegunIs
<1>13. \A z \in Types : z # y => Resumed(tskq'[z]) = Resumed(tskq[z])
  BY <1>7
<1>14. UNION {Resumed(tskq[z]) : z \in Types}
         = (UNION {Resumed(tskq'[z]) : z \in Types}) \cup Resumed(o)
  <2>1. Resumed(tskq[y]) = Resumed(tskq'[y]) \cup Resumed(o)
    BY <1>7, <1>11
  <2>2. QED
    BY <1>6, <1>13, <2>1
<1>15. Begun' = Begun \cup {r}
  <2>1. Resumed(o) \subseteq {r}
    BY <1>8
  <2>2. QED
    BY <1>12, <1>14, <2>1
<1>16. \A v \in Types : v # y => NotBegun(v)' = NotBegun(v)
  <2>1. ASSUME NEW v \in Types, v # y PROVE NotBegun(v)' = NotBegun(v)
    <3>1. PICK f, b, c, d \in Seq(Marks) :
            /\ NotBegun(v)  = Chain(f, Among(MarkAll(tskq[v]), TasksOf(v)), b, c, d)
            /\ NotBegun(v)' = Chain(f, Among(MarkAll(tskq'[v]), TasksOf(v)), b, c, d)
      BY <1>2, <1>3, OnlyUnbegun
    <3>2. QED
      BY <1>7, <2>1, <3>1
  <2>2. QED
    BY <2>1
<1>17. PICK f, b, c, d \in Seq(Marks) :
         /\ f = <<>>
         /\ NotBegun(y)  = Chain(f, Among(Join(h, u), TasksOf(y)), b, c, d)
         /\ NotBegun(y)' = Chain(f, Among(u, TasksOf(y)), b, c, d)
  <2>1. PICK f, b, c, d \in Seq(Marks) :
          /\ f = <<>>
          /\ NotBegun(y)  = Chain(f, Among(MarkAll(tskq[y]), TasksOf(y)), b, c, d)
          /\ NotBegun(y)' = Chain(f, Among(MarkAll(tskq'[y]), TasksOf(y)), b, c, d)
    BY <1>2, <1>3, <1>6, OnlyUnbegun
  <2>2. MarkAll(tskq'[y]) = u
    BY <1>7, <1>9
  <2>3. QED
    BY <1>11, <2>1, <2>2
<1>18. PICK T, p, a : T = TasksOf(y) /\ p = Among(h, T) /\ a = Among(u, T)
  OBVIOUS
<1>19. p \in Seq(Marks) /\ a \in Seq(Marks)
  BY <1>10, <1>18, AmongType
<1>20. Among(Join(h, u), T) = Join(p, a)
  BY <1>10, <1>18, AmongJoin
<1>21. CASE e.category = "PACKET"
  <2>1. h = One(r)
    BY <1>5, <1>8, <1>9, <1>21 DEF Mark
  <2>2. p = One(r)
    BY <1>6, <1>10, <1>18, <2>1, AmongSingle
  <2>3. b \in Seq(Marks) /\ c \in Seq(Marks) /\ d \in Seq(Marks)
    BY <1>17
  <2>4. Chain(<<>>, Join(p, a), b, c, d) = Chain(p, a, b, c, d)
    BY <1>19, <2>3, ChainFromSecond
  <2>5. Chain(p, a, b, c, d) = Join(p, Chain(<<>>, a, b, c, d))
    BY <1>19, <2>3, ChainLeft
  <2>6. PICK q, n : q = NotBegun(y) /\ n = NotBegun(y)'
    OBVIOUS
  <2>7. q = Join(One(r), n)
    BY <1>17, <1>18, <1>20, <2>2, <2>4, <2>5, <2>6
  <2>8. n \in Seq(Marks)
    <3>1. f \in Seq(Marks)
      BY <1>17
    <3>2. Chain(f, a, b, c, d) \in Seq(Marks)
      BY <1>19, <2>3, <3>1, ChainType
    <3>3. QED
      BY <1>17, <1>18, <2>6, <3>2
  <2>9. q # <<>> /\ Head(q) = r /\ Tail(q) = n
    BY <1>10, <2>7, <2>8, JoinHead
  <2>10. /\ NotBegun(y) # <<>> /\ NotBegun(y)' = Tail(NotBegun(y))
         /\ Begun' = Begun \cup {Head(NotBegun(y))}
    BY <1>15, <2>6, <2>9
  <2>11. Ended' = Ended /\ Dropped' = Dropped
    BY <1>2, FatesStay
  <2>12. QED
    BY <1>6, <1>16, <2>10, <2>11, StepBegin
<1>22. CASE e.category = "CONTEXT"
  <2>1. h = One(Null)
    BY <1>8, <1>9, <1>22 DEF Mark
  <2>2. Null \notin T
    BY <1>18, Sizes DEF TasksOf
  <2>3. p = <<>>
    BY <1>10, <1>18, <2>1, <2>2, AmongSingle
  <2>4. Join(p, a) = a
    BY <1>19, <2>3, JoinEmpty
  <2>5. NotBegun(y)' = NotBegun(y)
    BY <1>17, <1>18, <1>20, <2>4
  <2>6. Begun' = Begun
    <3>1. r \in Begun
      BY <1>8, <1>12, <1>14, <1>22
    <3>2. QED
      BY <1>15, <3>1
  <2>7. \A v \in Types : NotBegun(v)' = NotBegun(v)
    BY <1>16, <2>5
  <2>8. QED
    BY <1>2, <2>6, <2>7, FatesStay, StepNone
<1>23. QED
  BY <1>8, <1>21, <1>22

-----------------------------------------------------------------------------
(* The tasks end.                                                           *)

LEMMA RepliedQueues ==
  ASSUME IInv, IInv', RequestsLive, NEW w \in Workers, SendReply(w)
  PROVE  [Queues!Next]_(Queues!vars)
<1> USE DEF netVars, mailVars, loopVars, queueVars, timerVars, slotVars, workVars
<1>1. TypeOK /\ TypeOK' /\ SlotInv
  BY DEF IInv
<1>2. /\ wpc[w] = "work" /\ wpc' = [wpc EXCEPT ![w] = "done"]
      /\ finished' = [finished EXCEPT ![w] = TRUE]
      /\ answered' = [answered EXCEPT ![job[cont[w]]] = @ + 1]
      /\ UNCHANGED <<kind, rxq, recv_mbufs, reqs, cnt, ni, dpc, lost, tskq, response_flag,
                     dispatcher_requests>>
  BY DEF SendReply, Goto
<1>3. PICK r : r = dispatcher_requests[w].req
  OBVIOUS
<1>4. /\ response_flag[w] = "RUNNING" /\ dispatcher_requests[w] \in Runnable
      /\ job[cont[w]] = r
  <2>1. SlotOf(w)
    BY <1>1 DEF SlotInv
  <2>2. response_flag[w] = "RUNNING" /\ job[cont[w]] = r
    BY <1>2, <1>3, <2>1 DEF SlotOf
  <2>3. QED
    BY <2>1, <2>2 DEF SlotOf, InService
<1>5. r \in Tasks
  BY <1>3, <1>4 DEF Runnable
<1>6. Unanswered(w) /\ ~Unanswered(w)'
  <2>1. wpc'[w] = "done" /\ finished'[w]
    BY <1>1, <1>2 DEF TypeOK
  <2>2. QED
    BY <1>2, <1>4, <2>1 DEF Unanswered, InService
<1>7. \A v \in Workers : v # w => (Unanswered(v)' <=> Unanswered(v))
  BY <1>1, <1>2 DEF Unanswered, InService, TypeOK
<1>8. InCore(r, w)
  BY <1>3, <1>6 DEF InCore, Unanswered
<1>9. Sent(r) /\ Lodged(r, "core", w, 0)
  <2>1. TaskAt(r, "core", w, 0)
    BY <1>8 DEF TaskAt
  <2>2. QED
    BY <1>5, <2>1, FoundSent
<1>10. Fates(r) = 0 /\ Alone(r, "core", w, 0)
  BY <1>6, <1>9 DEF Lodged, FateAt, Due
<1>11. answered[r] = 0 /\ r \notin lost
  BY <1>1, <1>5, <1>10, SentOnce
<1>12. \A v \in Workers : Unanswered(v) /\ dispatcher_requests[v].req = r => v = w
  <2>1. \A v : InCore(r, v) => v = w
    BY <1>10 DEF Alone
  <2>2. QED
    BY <2>1 DEF InCore, Unanswered
<1>13. \A y \in Types : r \notin Resumed(tskq[y])
  <2>1. ASSUME NEW y \in Types, NEW i \in DOMAIN tskq[y] PROVE tskq[y][i].req # r
    <3>1. tskq[y] \in Seq(Runnable)
      BY <1>1 DEF TypeOK
    <3>2. i \in Nat /\ i \in 1..Len(tskq[y])
      BY <3>1
    <3>3. ~InQueue(r, y, i)
      BY <1>10, <3>2 DEF Alone
    <3>4. QED
      BY <3>2, <3>3 DEF InQueue
  <2>2. QED
    BY <2>1 DEF Resumed
<1>14. Owed' = Owed \ {r} /\ r \in Owed
  <2>1. \A x : x \in Owed <=> \E v \in Workers : Unanswered(v) /\ dispatcher_requests[v].req = x
    BY DEF Owed
  <2>2. \A x : x \in Owed' <=> \E v \in Workers : Unanswered(v)' /\ dispatcher_requests[v].req = x
    BY <1>2 DEF Owed
  <2>3. QED
    BY <1>3, <1>6, <1>7, <1>12, <2>1, <2>2
<1>15. Begun' = Begun \ {r} /\ r \in Begun
  <2>1. Begun = (UNION {Resumed(tskq[z]) : z \in Types}) \cup Owed
    BY <1>1, BegunIs
  <2>2. Begun' = (UNION {Resumed(tskq'[z]) : z \in Types}) \cup Owed'
    BY <1>1, BegunNext
  <2>3. tskq' = tskq
    BY <1>2
  <2>4. QED
    BY <1>13, <1>14, <2>1, <2>2, <2>3
<1>16. answered' = [answered EXCEPT ![r] = answered[r] + 1]
  BY <1>2, <1>4
<1>17. /\ answered \in [Tasks -> Nat] /\ answered'[r] = 1
       /\ \A t \in Tasks : t # r => answered'[t] = answered[t]
  BY <1>1, <1>5, <1>11, <1>16 DEF TypeOK
<1>18. Fates(r)' = 1
  BY <1>2, <1>11, <1>17 DEF Fates
<1>19. \A t \in Tasks : Sent(t)' <=> Sent(t)
  BY <1>2 DEF Sent
<1>20. Ended' = Ended \cup {r}
  <2>1. ASSUME NEW t \in Tasks, t # r PROVE t \in Ended' <=> t \in Ended
    <3>1. Fates(t)' = Fates(t)
      BY <1>2, <1>17, <2>1 DEF Fates
    <3>2. QED
      BY <1>2, <1>19, <3>1 DEF Ended
  <2>2. r \in Ended'
    <3>1. Fates(r)' > 0
      BY <1>18
    <3>2. r \in Tasks /\ Sent(r)' /\ r \notin lost'
      BY <1>2, <1>5, <1>9, <1>11, <1>19
    <3>3. QED
      BY <3>1, <3>2 DEF Ended
  <2>3. Ended \subseteq Tasks /\ Ended' \subseteq Tasks
    BY DEF Ended
  <2>4. QED
    BY <1>5, <2>1, <2>2, <2>3
<1>21. Dropped' = Dropped
  BY <1>2 DEF Dropped, Sent
<1>22. \A y \in Types : NotBegun(y)' = NotBegun(y)
  <2>1. Pending' = Pending
    BY <1>2 DEF Pending
  <2>2. QED
    BY <1>2, <2>1, SameQueues
<1>23. QED
  BY <1>15, <1>20, <1>21, <1>22, StepEnd

-----------------------------------------------------------------------------
(* Every step is one of TypedQueues, or none.                               *)

LEMMA QueueStep ==
  IInv /\ IInv' /\ RequestsLive /\ [Next]_vars => [Queues!Next]_(Queues!vars)
<1> SUFFICES ASSUME IInv, IInv', RequestsLive, [Next]_vars
             PROVE  [Queues!Next]_(Queues!vars)
  OBVIOUS
<1>1. CASE \E y \in Types : SendPacket(y)
  BY <1>1, SentQueues
<1>2. CASE NetworkerNext
  BY <1>2, ReceivedQueues, PostedQueues DEF NetworkerNext
<1>3. CASE DispatcherNext
  <2>1. CASE \/ StartTurn \/ LookAtMailbox \/ ReturnFinished
             \/ \E w \in Workers : SkipWorker(w) \/ PreemptWorker(w) \/ NothingToDispatch(w)
    BY <2>1, PassedQueues
  <2>2. CASE DropRequest
    BY <2>2, DroppedQueues
  <2>3. CASE AcceptRequest
    BY <2>3, AcceptedQueues
  <2>4. CASE \E w \in Workers : HandleFinished(w) \/ HandlePreempted(w) \/ DispatchRequest(w)
    BY <2>4, FinishedQueues, RequeuedQueues, DispatchedQueues
  <2>5. QED
    BY <1>3, <2>1, <2>2, <2>3, <2>4 DEF DispatcherNext
<1>4. CASE \E w \in Workers : WorkerNext(w)
  BY <1>4, WorkedQueues, RepliedQueues DEF WorkerNext
<1>5. CASE UNCHANGED vars
  <2> USE <1>5 DEF vars, netVars, mailVars, loopVars, queueVars, timerVars, slotVars, workVars
  <2>1. /\ UNCHANGED <<kind, rxq, recv_mbufs, reqs, tskq, answered, lost>>
        /\ UNCHANGED <<cnt, ni, dpc, response_flag, wpc, finished, dispatcher_requests>>
    OBVIOUS
  <2>2. Pending' = Pending
    BY <2>1 DEF Pending
  <2>3. \A w \in Workers : Unanswered(w)' <=> Unanswered(w)
    BY <2>1 DEF Unanswered, InService
  <2>4. QED
    BY <2>1, <2>2, <2>3, StillQueues
<1>6. QED
  BY <1>1, <1>2, <1>3, <1>4, <1>5 DEF Next

LEMMA InitQueues == Init => Queues!Init
<1> SUFFICES ASSUME Init PROVE Queues!Init
  OBVIOUS
<1>1. TypeOK
  BY InitTyped
<1>2. \A t \in Tasks : ~Sent(t)
  BY DEF Init, Sent
<1>3. ASSUME NEW y \in Types PROVE NotBegun(y) = <<>>
  <2>1. NotBegun(y) \in Seq(TasksOf(y))
    BY <1>1, QueueTyped
  <2>2. TasksOf(y) = {}
    BY <1>2 DEF TasksOf
  <2>3. QED
    BY <2>1, <2>2
<1>4. Begun = {}
  <2>1. Owed = {}
    BY NoneServed DEF Owed, Unanswered
  <2>2. \A y \in Types : Resumed(tskq[y]) = {}
    BY DEF Init, Resumed
  <2>3. QED
    BY <1>1, <2>1, <2>2, BegunIs
<1>5. Ended = {} /\ Dropped = {}
  BY <1>2 DEF Ended, Dropped, Init
<1>6. QED
  BY <1>3, <1>4, <1>5 DEF Queues!Init

\* The tasks of each type begin in the order they arrive, whichever cores serve
\* them and however often they are preempted, and each ends once: answered by
\* generic_work, dropped by eth_recv, or given up when context_alloc fails.
THEOREM ImplementsTypedQueuesCorrect == Spec => ImplementsTypedQueues
<1>1. Spec => []IInv
  BY Inductive
<1>2. IInv /\ RequestsLive /\ [Next]_vars => RequestsLive'
  BY LiveStep
<1>3. Init => RequestsLive /\ Queues!Init
  BY LiveInit, InitQueues
<1>4. IInv /\ IInv' /\ RequestsLive /\ [Next]_vars => [Queues!Next]_(Queues!vars)
  BY QueueStep
<1>5. QED
  BY <1>1, <1>2, <1>3, <1>4, PTL DEF Spec, ImplementsTypedQueues, Queues!Spec
=============================================================================

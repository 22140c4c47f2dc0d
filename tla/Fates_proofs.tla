---------------------------- MODULE Fates_proofs ----------------------------
(***************************************************************************)
(* What becomes of each task, for every number of workers, contexts and     *)
(* tasks, every batch size and every setting of the flags: until it has one *)
(* fate, a reply or a loss, exactly one queue, slot or packet still leads   *)
(* to it, and afterwards none does.                                         *)
(*                                                                         *)
(* Two facts carry the argument.  RequestsInv says that the request of a    *)
(* task is in one place, so the step that settles the task takes away all   *)
(* that could settle it again; and finished is set by the reply alone, so a *)
(* preempted task goes back to its queue unanswered.                        *)
(*                                                                         *)
(* At the end, each worker core is shown to be a first-in first-out queue   *)
(* of its own (WorkerQueues), with preempted tasks put back at the head: a  *)
(* step leaves the tasks a worker is to answer as they are, or appends one,  *)
(* or takes one out.                                                        *)
(***************************************************************************)
EXTENDS HorusServer_proofs, Selection_proofs

-----------------------------------------------------------------------------
(* What still leads to an answer, and what an answer is.                    *)

\* A packet of task t is on its way to rq_update.
Arrives(t) ==
  \/ \E i \in 1..Len(rxq) : rxq[i] = t
  \/ \E i \in 1..Len(recv_mbufs) : recv_mbufs[i] = t

\* Worker w runs task t, or is about to.
Answering(t, w) == w \in Workers /\ Unanswered(w) /\ dispatcher_requests[w].req = t

Open(t) ==
  \/ Arrives(t)
  \/ \E z : InMail(t, z)
  \/ \E y, z : InQueue(t, y, z)
  \/ \E w : Answering(t, w)

\* A reply to task t waits in a transmit queue.
ReplyAt(t, y, z) == y \in Workers /\ z \in 1..Len(txq[y]) /\ txq[y][z].task = t

NoReply(t) == \A y, z : ~ReplyAt(t, y, z)

OneReply(t) ==
  \E y, z : ReplyAt(t, y, z) /\ \A v, i : ReplyAt(t, v, i) => v = y /\ i = z

NoFate(t) == t \notin lost /\ answered[t] = 0 /\ NoReply(t)

OneFate(t) ==
  \/ t \in lost /\ answered[t] = 0 /\ NoReply(t)
  \/ t \notin lost /\ answered[t] = 1 /\ NoReply(t)
  \/ t \notin lost /\ answered[t] = 0 /\ OneReply(t)

\* What is known of one task.
Settled(t) ==
  /\ hdr[t] = Null => NoFate(t)
  /\ hdr[t] # Null /\ hdr[t].kind = "task" => IF Open(t) THEN NoFate(t) ELSE OneFate(t)

FateInv == \A t \in Tasks : Settled(t)

\* A worker that has not replied yet has not set finished.
FreshWork == \A w \in Workers : wpc[w] \in {"work", "reply"} => ~finished[w]

FatesInv == RequestsInv /\ FreshWork /\ FateInv

ArriveKept(t) == Arrives(t)' <=> Arrives(t)
AnswerKept(t) == \A w : Answering(t, w)' <=> Answering(t, w)

LEMMA OpenKept ==
  ASSUME NEW t, ArriveKept(t), MailKept(t), QueueKept(t), AnswerKept(t)
  PROVE  Open(t)' <=> Open(t)
  BY DEF Open, ArriveKept, MailKept, QueueKept, AnswerKept

\* A task a step does not settle, and whose packet it does not send.
LEMMA SettledStays ==
  ASSUME NEW t, Settled(t), hdr'[t] = hdr[t], Open(t)' <=> Open(t),
         NoFate(t) => NoFate(t)', OneFate(t) => OneFate(t)'
  PROVE  Settled(t)'
  BY DEF Settled

\* No reply and no loss.
LEMMA FateStays ==
  ASSUME NEW t, UNCHANGED <<txq, answered, lost>>
  PROVE  (NoFate(t) => NoFate(t)') /\ (OneFate(t) => OneFate(t)')
<1>1. \A y, z : ReplyAt(t, y, z)' <=> ReplyAt(t, y, z)
  BY DEF ReplyAt
<1>2. QED
  BY <1>1 DEF NoFate, OneFate, NoReply, OneReply

\* A request that is alive no longer arrives, and is a task's.
LEMMA LiveSent ==
  ASSUME FatesInv, NEW t \in Tasks, t \in live
  PROVE  hdr[t] # Null /\ hdr[t].kind = "task" /\ ~Arrives(t)
  BY DEF FatesInv, RequestsInv, ArrivesOnce, CellInv, IsTask, Arrives

LEMMA InCoreAnswering ==
  ASSUME NEW t, NEW w, Answering(t, w) PROVE InCore(t, w)
  BY DEF Answering, InCore, Unanswered

-----------------------------------------------------------------------------
(* The steps.                                                               *)

\* A step that changes nothing of this.
LEMMA NothingSettled ==
  ASSUME FateInv, UNCHANGED <<hdr, rxq, recv_mbufs, reqs, tskq, dispatcher_requests,
                              txq, answered, lost>>,
         Pending' = Pending, \A w \in Workers : Unanswered(w)' <=> Unanswered(w)
  PROVE  FateInv'
<1>1. ASSUME NEW t \in Tasks PROVE Settled(t)'
  <2>1. ArriveKept(t) /\ MailKept(t) /\ QueueKept(t) /\ AnswerKept(t)
    BY DEF ArriveKept, MailKept, QueueKept, AnswerKept, Arrives, InMail, InQueue, Answering
  <2>2. QED
    BY <2>1, OpenKept, FateStays, SettledStays DEF FateInv
<1>2. QED
  BY <1>1 DEF FateInv

\* The NIC takes a packet, or drops it: it is the fate of no other.
LEMMA SentFates ==
  ASSUME FatesInv, NEW w \in Workers, NEW kind \in {"task", "other"},
         NEW type \in {WORKER_STATE_IDLE, WORKER_STATE_BUSY}, Send(kind, w, type)
  PROVE  FateInv'
<1> USE DEF leafVars, slotVars, sharedVars, netVars, mailVars, dispVars, workVars
<1>1. PICK t \in Unsent :
        /\ hdr' = [hdr EXCEPT ![t] = [kind |-> kind, core |-> w, type |-> type]]
        /\ EthRecv(t)
        /\ UNCHANGED <<answered, netVars, mailVars, dispVars, sharedVars, workVars>>
  BY DEF Send
<1>2. LeafTypeOK /\ NetworkerInv /\ ArrivesOnce /\ RequestSomewhere
  BY DEF FatesInv, RequestsInv, OwnersInv, IInv, TypeOK
<1>3. /\ t \in Tasks /\ hdr[t] = Null /\ t \notin live /\ Nowhere(t)
      /\ \A i \in 1..Len(rxq) : rxq[i] # t
      /\ \A i \in 1..Len(recv_mbufs) : recv_mbufs[i] # t
  BY <1>1, <1>2 DEF Unsent, ArrivesOnce, NetworkerInv, RequestSomewhere, Somewhere
<1>4. Pending' = Pending
  BY <1>1 DEF Pending
<1>5. \A u : MailKept(u) /\ QueueKept(u) /\ AnswerKept(u)
  BY <1>1, <1>4 DEF MailKept, QueueKept, AnswerKept, InMail, InQueue, Answering, Unanswered,
     InService
<1>6. \A u, y, z : ReplyAt(u, y, z)' <=> ReplyAt(u, y, z)
  BY <1>1 DEF ReplyAt
<1>7. \A u : u # t => (u \in lost' <=> u \in lost)
  BY <1>1 DEF EthRecv
<1>8. \A u : u # t => ArriveKept(u)
  <2>1. CASE UNCHANGED rxq
    BY <1>1, <2>1 DEF ArriveKept, Arrives
  <2>2. CASE rxq' = Append(rxq, t)
    <3>1. PICK n \in Nat : n = Len(rxq)
      BY <1>2 DEF LeafTypeOK
    <3>2. /\ Len(rxq') = n + 1 /\ rxq'[n + 1] = t
          /\ \A i \in 1..n : rxq'[i] = rxq[i]
      BY <1>2, <1>3, <2>2, <3>1, Appended DEF LeafTypeOK
    <3>3. QED
      BY <1>1, <3>1, <3>2 DEF ArriveKept, Arrives
  <2>3. QED
    BY <1>1, <2>1, <2>2 DEF EthRecv
<1>9. ASSUME NEW u \in Tasks, u # t PROVE Settled(u)'
  <2>1. hdr'[u] = hdr[u] /\ (Open(u)' <=> Open(u))
    BY <1>1, <1>2, <1>5, <1>8, <1>9, OpenKept DEF LeafTypeOK
  <2>2. (NoFate(u) => NoFate(u)') /\ (OneFate(u) => OneFate(u)')
    BY <1>1, <1>6, <1>7, <1>9 DEF NoFate, OneFate, NoReply, OneReply
  <2>3. QED
    BY <2>1, <2>2, SettledStays DEF FatesInv, FateInv
<1>10. Settled(t)'
  <2>1. NoFate(t)
    BY <1>3 DEF FatesInv, FateInv, Settled
  <2>2. hdr'[t] # Null
    <3>1. [kind |-> kind, core |-> w, type |-> type] \in Header
      BY DEF Header
    <3>2. QED
      BY <1>1, <1>2, <1>3, <3>1, NullAssumption DEF LeafTypeOK
  <2>3. answered'[t] = 0 /\ NoReply(t)'
    BY <1>1, <1>6, <2>1 DEF NoFate, NoReply
  <2>4. CASE rxq' = Append(rxq, t) /\ UNCHANGED lost
    <3>1. PICK n \in Nat : n = Len(rxq)
      BY <1>2 DEF LeafTypeOK
    <3>2. n + 1 \in 1..Len(rxq') /\ rxq'[n + 1] = t
      BY <1>2, <1>3, <2>4, <3>1, Appended DEF LeafTypeOK
    <3>3. Open(t)' /\ NoFate(t)'
      BY <2>1, <2>3, <2>4, <3>2 DEF Open, Arrives, NoFate
    <3>4. QED
      BY <2>2, <3>3 DEF Settled
  <2>5. CASE lost' = lost \cup {t} /\ UNCHANGED rxq
    <3>1. ~Open(t)'
      BY <1>1, <1>3, <1>5, <2>5, InCoreAnswering DEF Open, Arrives, MailKept, QueueKept,
           AnswerKept, Nowhere, Alone
    <3>2. OneFate(t)'
      BY <2>3, <2>5 DEF OneFate
    <3>3. QED
      BY <2>2, <3>1, <3>2 DEF Settled
  <2>6. QED
    BY <1>1, <2>4, <2>5 DEF EthRecv
<1>11. QED
  BY <1>9, <1>10 DEF FateInv

\* The networker takes packets from its receive queue: none is lost between
\* the queue and recv_mbufs.
LEMMA ReceivedPackets == ASSUME IInv, Receive, NEW t PROVE ArriveKept(t)
<1>1. LeafTypeOK /\ NetTypeOK /\ NetworkerInv
  BY DEF IInv, TypeOK
<1>2. PICK n \in Slots :
        /\ n <= Len(rxq) /\ recv_mbufs' = SubSeq(rxq, 1, n)
        /\ rxq' = SubSeq(rxq, n + 1, Len(rxq))
  BY DEF Receive
<1>3. PICK l \in Nat : l = Len(rxq)
  BY <1>1 DEF LeafTypeOK
<1>4. n \in Nat /\ n <= l
  BY <1>2, <1>3, SizeAssumption DEF Slots
<1>5. /\ Len(recv_mbufs') = n /\ \A i \in 1..n : recv_mbufs'[i] = rxq[i]
      /\ Len(rxq') = l - n /\ \A i \in 1..(l - n) : rxq'[i] = rxq[i + n]
  <2>1. rxq \in Seq(Tasks)
    BY <1>1 DEF LeafTypeOK
  <2>2. QED
    BY <1>2, <1>3, <1>4, <2>1
<1>6. \A i \in 1..(l - n) : i + n \in 1..l
  BY <1>4
<1>7. \A i \in 1..l : i \in 1..n \/ (i - n \in 1..(l - n) /\ (i - n) + n = i)
  BY <1>4
<1>8. Len(recv_mbufs) = 0
  BY <1>1 DEF Receive, NetworkerInv
<1>9. ASSUME NEW i \in 1..l, rxq[i] = t PROVE Arrives(t)'
  BY <1>5, <1>7, <1>9 DEF Arrives
<1>10. ASSUME Arrives(t)' PROVE \E i \in 1..l : rxq[i] = t
  <2>1. CASE \E i \in 1..n : recv_mbufs'[i] = t
    BY <1>4, <1>5, <2>1
  <2>2. CASE \E i \in 1..(l - n) : rxq'[i] = t
    BY <1>5, <1>6, <2>2
  <2>3. QED
    BY <1>5, <1>10, <2>1, <2>2 DEF Arrives
<1>11. QED
  BY <1>3, <1>8, <1>9, <1>10 DEF ArriveKept, Arrives

LEMMA ReceivedFates == ASSUME FatesInv, Receive PROVE FateInv'
<1> USE DEF leafVars, slotVars, sharedVars, netVars, mailVars, dispVars, workVars
<1>1. IInv /\ Pending' = Pending
  BY DEF Receive, Pending, FatesInv, RequestsInv, OwnersInv
<1>2. ASSUME NEW t \in Tasks PROVE Settled(t)'
  <2>1. MailKept(t) /\ QueueKept(t) /\ AnswerKept(t)
    BY <1>1 DEF Receive, MailKept, QueueKept, AnswerKept, InMail, InQueue, Answering,
       Unanswered, InService
  <2>2. Open(t)' <=> Open(t)
    BY <1>1, <2>1, OpenKept, ReceivedPackets
  <2>3. UNCHANGED <<hdr, txq, answered, lost>>
    BY DEF Receive
  <2>4. QED
    BY <2>2, <2>3, FateStays, SettledStays DEF FatesInv, FateInv
<1>3. QED
  BY <1>2 DEF FateInv

\* What rq_update does to the packets and the mailbox: only the packet it reads
\* stops arriving, and that one is put into the mailbox if it is a task's.
UpdatedBy(r) ==
  /\ r = Head(recv_mbufs) /\ Arrives(r) /\ \A t : t # r => ArriveKept(t)
  /\ IF IsTask(r)
     THEN \E k : \A t, z : InMail(t, z)' <=> InMail(t, z) \/ (t = r /\ z = k)
     ELSE \A t : MailKept(t)

LEMMA UpdatedPackets == ASSUME IInv, RqUpdate PROVE \E r \in Tasks : UpdatedBy(r)
<1> USE DEF leafVars, slotVars, sharedVars, netVars, mailVars, dispVars, workVars
<1>1. /\ NetTypeOK /\ NetworkerInv /\ npc = "fill" /\ npc' = "fill"
      /\ Pending = 1..nj /\ Pending' = 1..nj' /\ nj \in Nat /\ nj + 1 \in Slots
  BY SizeAssumption DEF RqUpdate, Pending, IInv, NetworkerInv, TypeOK, NetTypeOK, Slots
<1>2. PICK n \in Nat \ {0}, r \in Tasks :
        n = Len(recv_mbufs) /\ r = recv_mbufs[1] /\ r = Head(recv_mbufs)
  BY <1>1 DEF NetTypeOK, RqUpdate
<1>3. Len(recv_mbufs') = n - 1 /\ \A i \in 1..(n - 1) : recv_mbufs'[i] = recv_mbufs[i + 1]
  BY <1>1, <1>2 DEF NetTypeOK, RqUpdate
<1>4. \A i \in 1..n : i = 1 \/ (i - 1 \in 1..(n - 1) /\ (i - 1) + 1 = i)
  OBVIOUS
<1>5. \A i \in 1..(n - 1) : i + 1 \in 1..n
  OBVIOUS
<1>6. UNCHANGED rxq
  BY DEF RqUpdate
<1>7. Arrives(r)
  BY <1>2 DEF Arrives
<1>8. ASSUME NEW t, t # r PROVE ArriveKept(t)
  <2>1. ASSUME NEW i \in 1..n, recv_mbufs[i] = t PROVE \E j \in 1..(n - 1) : recv_mbufs'[j] = t
    BY <1>2, <1>3, <1>4, <1>8, <2>1
  <2>2. ASSUME NEW i \in 1..(n - 1), recv_mbufs'[i] = t PROVE \E j \in 1..n : recv_mbufs[j] = t
    BY <1>3, <1>5, <2>2
  <2>3. QED
    BY <1>2, <1>3, <1>6, <2>1, <2>2 DEF ArriveKept, Arrives
<1>9. PICK k \in Nat : k = nj
  BY <1>1
<1>10. CASE IsTask(r)
  <2>1. /\ reqs' = [reqs EXCEPT ![k + 1] = r] /\ nj' = k + 1
    BY <1>2, <1>9, <1>10 DEF RqUpdate
  <2>2. reqs'[k + 1] = r /\ \A i \in 1..k : reqs'[i] = reqs[i]
    BY <1>1, <1>9, <2>1 DEF NetTypeOK, Slots
  <2>3. \A t, z : InMail(t, z)' <=> InMail(t, z) \/ (t = r /\ z = k + 1)
    BY <1>1, <1>9, <2>1, <2>2 DEF InMail
  <2>4. QED
    BY <1>2, <1>7, <1>8, <1>10, <2>3 DEF UpdatedBy
<1>11. CASE ~IsTask(r)
  <2>1. UNCHANGED <<reqs, nj>>
    BY <1>2, <1>11 DEF RqUpdate
  <2>2. \A t : MailKept(t)
    BY <1>1, <2>1 DEF MailKept, InMail
  <2>3. QED
    BY <1>2, <1>7, <1>8, <1>11, <2>2 DEF UpdatedBy
<1>12. QED
  BY <1>10, <1>11

\* rq_update makes a request of a task's packet, which leads to the answer from
\* then on; the packet of another message was never going to be answered.
LEMMA UpdatedFates == ASSUME FatesInv, RqUpdate PROVE FateInv'
<1> USE DEF leafVars, slotVars, sharedVars, netVars, mailVars, dispVars, workVars
<1>1. PICK r \in Tasks : UpdatedBy(r)
  BY UpdatedPackets DEF FatesInv, RequestsInv, OwnersInv
<1>2. UNCHANGED <<hdr, tskq, dispatcher_requests, response_flag, wpc, finished, txq,
                  answered, lost>>
  BY DEF RqUpdate
<1>3. ASSUME NEW t PROVE QueueKept(t) /\ AnswerKept(t)
  BY <1>2 DEF QueueKept, AnswerKept, InQueue, Answering, Unanswered, InService
<1>4. ASSUME NEW t \in Tasks, t # r PROVE Settled(t)'
  <2>1. ArriveKept(t) /\ MailKept(t)
    BY <1>1, <1>4 DEF UpdatedBy, MailKept
  <2>2. Open(t)' <=> Open(t)
    BY <1>3, <2>1, OpenKept
  <2>3. QED
    BY <1>2, <2>2, FateStays, SettledStays DEF FatesInv, FateInv
<1>5. Settled(r)'
  <2>1. CASE IsTask(r)
    <3>1. Open(r) /\ Open(r)'
      BY <1>1, <2>1 DEF UpdatedBy, Open
    <3>2. QED
      BY <1>2, <3>1, FateStays, SettledStays DEF FatesInv, FateInv
  <2>2. CASE ~IsTask(r)
    BY <1>2, <2>2, FateStays DEF IsTask, FatesInv, FateInv, Settled
  <2>3. QED
    BY <2>1, <2>2
<1>6. QED
  BY <1>4, <1>5 DEF FateInv

\* A request no context is free for is given up: it was only in the mailbox.
LEMMA DroppedFates == ASSUME FatesInv, DropRequest PROVE FateInv'
<1> USE DEF leafVars, slotVars, sharedVars, netVars, mailVars, dispVars, workVars
<1>1. PICK r, m : r = reqs[ni] /\ m = ni
  OBVIOUS
<1>2. IInv /\ RequestSomewhere
  BY DEF FatesInv, RequestsInv, OwnersInv
<1>3. /\ m \in 1..cnt /\ cnt \in Nat /\ npc # "fill" /\ r \in Tasks /\ r \in live
      /\ Alone(r, "mailbox", 0, m)
  BY <1>1, <1>2, NextRequest DEF DropRequest
<1>4. /\ UNCHANGED <<hdr, rxq, recv_mbufs, npc, cnt, reqs, tskq, dispatcher_requests,
                     response_flag, wpc, finished, txq, answered>>
      /\ dpc = "accept" /\ dpc' = "accept" /\ ni' = ni + 1 /\ lost' = lost \cup {r}
  BY <1>1 DEF DropRequest
<1>5. \A t, z : InMail(t, z)' <=> InMail(t, z) /\ ~(t = r /\ z = m)
  BY <1>1, <1>3, <1>4, MailTaken
<1>6. ASSUME NEW t PROVE ArriveKept(t) /\ QueueKept(t) /\ AnswerKept(t)
  BY <1>4 DEF ArriveKept, QueueKept, AnswerKept, Arrives, InQueue, Answering, Unanswered,
     InService
<1>7. \A t, y, z : ReplyAt(t, y, z)' <=> ReplyAt(t, y, z)
  BY <1>4 DEF ReplyAt
<1>8. ASSUME NEW t \in Tasks, t # r PROVE Settled(t)'
  <2>1. Open(t)' <=> Open(t)
    BY <1>5, <1>6, <1>8, OpenKept DEF MailKept
  <2>2. (NoFate(t) => NoFate(t)') /\ (OneFate(t) => OneFate(t)')
    BY <1>4, <1>7, <1>8 DEF NoFate, OneFate, NoReply, OneReply
  <2>3. QED
    BY <1>4, <2>1, <2>2, SettledStays DEF FatesInv, FateInv
<1>9. Settled(r)'
  <2>1. hdr[r] # Null /\ hdr[r].kind = "task" /\ ~Arrives(r)
    BY <1>3, LiveSent
  <2>2. InMail(r, m)
    BY <1>1, <1>3, <1>4 DEF InMail, Pending
  <2>3. NoFate(r)
    BY <1>3, <2>1, <2>2 DEF FatesInv, FateInv, Settled, Open
  <2>4. ~Open(r)'
    BY <1>3, <1>5, <1>6, <2>1, InCoreAnswering DEF Open, Alone, ArriveKept, QueueKept,
         AnswerKept
  <2>5. OneFate(r)'
    BY <1>4, <1>7, <2>3 DEF NoFate, OneFate, NoReply
  <2>6. QED
    BY <1>4, <2>1, <2>4, <2>5 DEF Settled
<1>10. QED
  BY <1>8, <1>9 DEF FateInv

\* An accepted one waits in a queue.
LEMMA EnqueuedFates == ASSUME FatesInv, EnqueueRequest PROVE FateInv'
<1> USE DEF leafVars, slotVars, sharedVars, netVars, mailVars, dispVars, workVars
<1>1. IInv /\ RequestSomewhere
  BY DEF FatesInv, RequestsInv, OwnersInv
<1>2. PICK r \in Tasks, m \in 1..cnt, k \in Workers, e \in Runnable, n \in Nat :
        /\ r = reqs[ni] /\ m = ni /\ k = types[ni] /\ n = Len(tskq[k])
        /\ e = [rnbl |-> acont, req |-> reqs[ni], type |-> types[ni], category |-> "PACKET"]
  <2>1. \A w \in Workers : Len(tskq[w]) \in Nat
    BY <1>1 DEF IInv, TypeOK, DispTypeOK
  <2>2. QED
    BY <1>1, <2>1, EnqueueTask
<1>3. /\ dpc = "mark" /\ e.req = r /\ TskqEnqueueTail(k, e) /\ dpc' = "accept" /\ ni' = ni + 1
      /\ UNCHANGED <<hdr, rxq, recv_mbufs, npc, cnt, reqs, dispatcher_requests,
                     response_flag, wpc, finished, txq, answered, lost>>
  BY <1>2 DEF EnqueueRequest
<1>4. ni <= cnt
  BY <1>1, <1>3 DEF IInv, MailboxInv
<1>5. cnt \in Nat /\ npc # "fill"
  BY <1>1, <1>3, <1>4, NextRequest
<1>6. \A t, z : InMail(t, z)' <=> InMail(t, z) /\ ~(t = r /\ z = m)
  BY <1>2, <1>3, <1>5, MailTaken
<1>7. AppendedBy(r, k, n + 1)
  BY <1>1, <1>2, <1>3, RequestAppended DEF IInv, TypeOK, DispTypeOK
<1>8. ASSUME NEW t PROVE ArriveKept(t) /\ AnswerKept(t)
  BY <1>3 DEF ArriveKept, AnswerKept, Arrives, Answering, Unanswered, InService
<1>9. InMail(r, m)
  BY <1>2, <1>3, <1>5 DEF InMail, Pending
<1>10. ASSUME NEW t \in Tasks PROVE Open(t)' <=> Open(t)
  <2>1. CASE t = r
    BY <1>7, <1>9, <2>1 DEF Open, AppendedBy
  <2>2. CASE t # r
    BY <1>6, <1>7, <1>8, <2>2, OpenKept DEF MailKept, QueueKept, AppendedBy
  <2>3. QED
    BY <2>1, <2>2
<1>11. QED
  BY <1>3, <1>10, FateStays, SettledStays DEF FatesInv, FateInv

\* Handing finished requests back overwrites mailbox places already dealt with.
LEMMA ReturnedFates == ASSUME FatesInv, ReturnFinished PROVE FateInv'
<1> USE DEF leafVars, slotVars, sharedVars, netVars, mailVars, dispVars, workVars
<1>1. /\ dpc = "accept" /\ dpc' = "release" /\ ni > cnt
      /\ UNCHANGED <<hdr, rxq, recv_mbufs, npc, cnt, tskq, dispatcher_requests,
                     response_flag, wpc, finished, txq, answered, lost>>
  BY DEF ReturnFinished
<1>2. npc # "fill" /\ ni \in Nat /\ cnt \in Nat
  BY <1>1 DEF FatesInv, RequestsInv, OwnersInv, IInv, HandOffInv, MailboxHandOff, TypeOK,
     NetTypeOK, DispTypeOK
<1>3. Pending = {} /\ Pending' = {}
  BY <1>1, <1>2 DEF Pending
<1>4. ASSUME NEW t PROVE ArriveKept(t) /\ MailKept(t) /\ QueueKept(t) /\ AnswerKept(t)
  BY <1>1, <1>3 DEF ArriveKept, MailKept, QueueKept, AnswerKept, Arrives, InMail, InQueue,
     Answering, Unanswered, InService
<1>5. QED
  BY <1>1, <1>4, OpenKept, FateStays, SettledStays DEF FatesInv, FateInv

\* A finished response is for a task that was answered when it finished ...
LEMMA FinishedFates ==
  ASSUME FatesInv, NEW w \in Workers, HandleFinished(w) PROVE FateInv'
<1> USE DEF leafVars, slotVars, sharedVars, netVars, mailVars, dispVars, workVars
<1>1. /\ ~InService(w)' /\ response_flag[w] = "FINISHED"
      /\ \A v \in Workers \ {w} :
           response_flag'[v] = response_flag[v] /\ InService(v)' = InService(v)
  BY TakeResponse DEF HandleFinished, FatesInv, RequestsInv, OwnersInv
<1>2. UNCHANGED <<hdr, rxq, recv_mbufs, npc, dpc, nj, ni, cnt, reqs, tskq,
                  dispatcher_requests, wpc, finished, txq, answered, lost>>
  BY DEF HandleFinished
<1>3. \A v \in Workers : Unanswered(v)' <=> Unanswered(v)
  BY <1>1, <1>2 DEF Unanswered
<1>4. QED
  BY <1>2, <1>3, NothingSettled DEF FatesInv, Pending

\* ... and a preempted one for a task that goes back to its queue unanswered.
LEMMA PreemptedFates ==
  ASSUME FatesInv, NEW w \in Workers, HandlePreempted(w) PROVE FateInv'
<1> USE DEF leafVars, slotVars, sharedVars, netVars, mailVars, dispVars, workVars
<1>1. IInv /\ SlotKept /\ RequestSomewhere
  BY DEF FatesInv, RequestsInv, OwnersInv
<1>2. PICK r, e, n : r = worker_responses[w].req /\ e = worker_responses[w] /\ n = Len(tskq[w])
  OBVIOUS
<1>3. /\ r \in Tasks /\ Alone(r, "core", w, 0)
      /\ \A t : MailKept(t) /\ ReturnKept(t)
  BY <1>1, <1>2, ResponseTaken
<1>4. /\ InService(w) /\ ~InService(w)' /\ response_flag[w] = "PREEMPTED"
      /\ \A v \in Workers \ {w} :
           response_flag'[v] = response_flag[v] /\ InService(v)' = InService(v)
      /\ Runs(e, w) /\ e.req = dispatcher_requests[w].req /\ wpc[w] \notin Using
  BY <1>1, <1>2, TakeResponse DEF HandlePreempted, IInv, HandOffInv, SlotOwner
<1>5. UNCHANGED <<hdr, rxq, recv_mbufs, dispatcher_requests, wpc, finished, txq, answered,
                  lost>>
  BY DEF HandlePreempted
<1>6. Answering(r, w)
  BY <1>2, <1>4 DEF Answering, Unanswered, Using
<1>7. ASSUME NEW t, t # r PROVE AnswerKept(t)
  BY <1>2, <1>4, <1>5, <1>7 DEF AnswerKept, Answering, Unanswered
<1>8. \A t : ArriveKept(t)
  BY <1>5 DEF ArriveKept, Arrives
<1>9. /\ \E y, z : InQueue(r, y, z)'
      /\ \A t : t # r => ((\E y, z : InQueue(t, y, z)') <=> (\E y, z : InQueue(t, y, z)))
  <2>1. e.type = w /\ e \in Runnable /\ tskq \in [Workers -> Seq(Runnable)]
    BY <1>1, <1>4 DEF Runs, IInv, TypeOK, DispTypeOK
  <2>2. CASE RequeueHead
    <3>1. PrependedBy(r, w)
      BY <1>2, <2>1, <2>2, RequestPrepended DEF HandlePreempted
    <3>2. ASSUME NEW t, t # r, NEW y, NEW z, InQueue(t, y, z)'
          PROVE  \E v, i : InQueue(t, v, i)
      BY <3>1, <3>2 DEF PrependedBy
    <3>3. ASSUME NEW t, t # r, NEW y, NEW z, InQueue(t, y, z)
          PROVE  \E v, i : InQueue(t, v, i)'
      BY <3>1, <3>3 DEF PrependedBy
    <3>4. QED
      BY <3>1, <3>2, <3>3 DEF PrependedBy
  <2>3. CASE ~RequeueHead
    <3>1. AppendedBy(r, w, n + 1)
      BY <1>2, <2>1, <2>3, RequestAppended DEF HandlePreempted
    <3>2. QED
      BY <3>1 DEF AppendedBy
  <2>4. QED
    BY <2>2, <2>3
<1>10. ASSUME NEW t \in Tasks PROVE Open(t)' <=> Open(t)
  <2>1. CASE t = r
    BY <1>6, <1>9, <2>1 DEF Open
  <2>2. CASE t # r
    BY <1>3, <1>7, <1>8, <1>9, <2>2 DEF Open, ArriveKept, MailKept, AnswerKept
  <2>3. QED
    BY <2>1, <2>2
<1>11. QED
  BY <1>5, <1>10, FateStays, SettledStays DEF FatesInv, FateInv

\* A dispatched task leaves its queue for its core.
LEMMA DispatchedFates ==
  ASSUME FatesInv, NEW w \in Workers, DispatchRequest(w) PROVE FateInv'
<1> USE DEF leafVars, slotVars, sharedVars, netVars, mailVars, dispVars, workVars
<1>1. IInv
  BY DEF FatesInv, RequestsInv, OwnersInv
<1>2. PICK r : r = tskq[w][1].req
  OBVIOUS
<1>3. TakenBy(r, w)
  BY <1>1, <1>2, RequestTaken
<1>4. /\ ~InService(w) /\ InService(w)' /\ response_flag'[w] = "RUNNING" /\ wpc[w] \in Idling
      /\ \A v \in Workers \ {w} :
           /\ response_flag'[v] = response_flag[v] /\ InService(v)' = InService(v)
           /\ dispatcher_requests'[v] = dispatcher_requests[v]
      /\ dispatcher_requests'[w].req = r
  BY <1>1, <1>2, TakeTask
<1>5. /\ UNCHANGED <<hdr, rxq, recv_mbufs, npc, nj, ni, cnt, reqs, wpc, finished, txq,
                     answered, lost>>
      /\ dpc = "worker" /\ dpc' = "activate"
  BY DEF DispatchRequest, AtWorker
<1>6. Pending' = Pending
  BY <1>5 DEF Pending
<1>7. Answering(r, w)'
  BY <1>4, <1>5 DEF Answering, Unanswered, Idling
<1>8. ASSUME NEW t, t # r PROVE AnswerKept(t)
  BY <1>4, <1>5, <1>8 DEF AnswerKept, Answering, Unanswered
<1>9. \A t : ArriveKept(t) /\ MailKept(t)
  BY <1>5, <1>6 DEF ArriveKept, Arrives, MailKept, InMail
<1>10. ASSUME NEW t, t # r
       PROVE  (\E y, z : InQueue(t, y, z)') <=> (\E y, z : InQueue(t, y, z))
  <2>1. ASSUME NEW y, NEW z, InQueue(t, y, z)' PROVE \E v, i : InQueue(t, v, i)
    BY <1>3, <2>1 DEF TakenBy
  <2>2. ASSUME NEW y, NEW z, InQueue(t, y, z) PROVE \E v, i : InQueue(t, v, i)'
    <3>1. ~(y = w /\ z = 1)
      BY <1>2, <1>10, <2>2 DEF InQueue
    <3>2. QED
      BY <1>3, <2>2, <3>1 DEF TakenBy
  <2>3. QED
    BY <2>1, <2>2
<1>11. ASSUME NEW t \in Tasks PROVE Open(t)' <=> Open(t)
  <2>1. CASE t = r
    BY <1>3, <1>7, <2>1 DEF Open, TakenBy
  <2>2. CASE t # r
    BY <1>8, <1>9, <1>10, <2>2 DEF Open, ArriveKept, MailKept, AnswerKept
  <2>3. QED
    BY <2>1, <2>2
<1>12. QED
  BY <1>5, <1>11, FateStays, SettledStays DEF FatesInv, FateInv

\* The reply of a worker, or its loss, is the fate of the task in its slot:
\* no queue, slot or packet leads to that task any more.
LEMMA RepliedFates ==
  ASSUME FatesInv, NEW w \in Workers, SendReply(w) PROVE FateInv'
<1> USE DEF leafVars, slotVars, sharedVars, netVars, mailVars, dispVars, workVars
<1>1. /\ IInv /\ SlotKept /\ SlotAddressed /\ RequestSomewhere /\ WorkTypeOK /\ HandOffTypes
      /\ SlotOwner /\ SlotContent
  BY DEF FatesInv, RequestsInv, OwnersInv, IInv, HandOffInv, TypeOK
<1>2. PICK r : r = dispatcher_requests[w].req
  OBVIOUS
<1>3. wpc[w] = "reply" /\ response_flag[w] = "RUNNING"
  BY <1>1 DEF SendReply, Goto, SlotOwner, Using
<1>4. InService(w) /\ Unanswered(w) /\ job[cont[w]] = r /\ r \in Tasks
  BY <1>1, <1>2, <1>3 DEF InService, Unanswered, SlotKept, SlotAddressed, SlotContent, Using,
     Runs, Runnable
<1>5. /\ finished'[w] = TRUE /\ wpc'[w] = "finish"
      /\ \A v \in Workers \ {w} : wpc'[v] = wpc[v] /\ finished'[v] = finished[v]
      /\ UNCHANGED <<hdr, rxq, recv_mbufs, npc, dpc, nj, ni, cnt, reqs, tskq,
                     dispatcher_requests, response_flag, answered>>
  BY <1>1 DEF SendReply, Goto, WorkTypeOK
<1>6. r \in live /\ Alone(r, "core", w, 0)
  BY <1>1, <1>2, <1>4, FoundRequest DEF RequestAt, InCore
<1>7. ~Unanswered(w)'
  BY <1>5 DEF Unanswered
<1>8. \A v \in Workers \ {w} : Unanswered(v)' <=> Unanswered(v)
  BY <1>5 DEF Unanswered, InService
<1>9. \A t : ArriveKept(t) /\ MailKept(t) /\ QueueKept(t)
  BY <1>5 DEF ArriveKept, MailKept, QueueKept, Arrives, InMail, InQueue, Pending
<1>10. ASSUME NEW t, t # r PROVE AnswerKept(t)
  BY <1>2, <1>5, <1>7, <1>8, <1>10 DEF AnswerKept, Answering
<1>11. NoFate(r) /\ hdr[r] # Null /\ hdr[r].kind = "task"
  <2>1. Open(r)
    BY <1>2, <1>4 DEF Open, Answering
  <2>2. QED
    BY <1>4, <1>6, <2>1, LiveSent DEF FatesInv, FateInv, Settled
<1>12. ~Open(r)'
  <2>1. \A v : ~Answering(r, v)'
    <3>1. ASSUME NEW v \in Workers, v # w PROVE ~Answering(r, v)
      BY <1>6, <3>1, InCoreAnswering DEF Alone
    <3>2. QED
      BY <1>5, <1>7, <1>8, <3>1 DEF Answering
  <2>2. QED
    BY <1>4, <1>6, <1>9, <2>1, LiveSent DEF Open, Alone, ArriveKept, MailKept, QueueKept
<1>13. \/ UNCHANGED txq /\ lost' = lost \cup {r}
       \/ UNCHANGED lost
          /\ \E e \in Reply : e.task = r /\ txq' = [txq EXCEPT ![w] = Append(@, e)]
  <2>1. [task |-> r, qlen |-> new_qlen[w], idle |-> new_qlen[w] = 0 /\ worker_state[w] > 0]
          \in Reply
    BY <1>1, <1>4 DEF Reply, WorkTypeOK
  <2>2. QED
    BY <1>4, <2>1 DEF SendReply
<1>14. /\ OneFate(r)'
       /\ \A t : t # r => (NoFate(t) => NoFate(t)') /\ (OneFate(t) => OneFate(t)')
  <2>1. CASE UNCHANGED txq /\ lost' = lost \cup {r}
    <3>1. \A t, y, z : ReplyAt(t, y, z)' <=> ReplyAt(t, y, z)
      BY <2>1 DEF ReplyAt
    <3>2. OneFate(r)'
      BY <1>5, <1>11, <2>1, <3>1 DEF NoFate, OneFate, NoReply
    <3>3. \A t : t # r => (NoFate(t) => NoFate(t)') /\ (OneFate(t) => OneFate(t)')
      BY <1>5, <2>1, <3>1 DEF NoFate, OneFate, NoReply, OneReply
    <3>4. QED
      BY <3>2, <3>3
  <2>2. ASSUME NEW e \in Reply, e.task = r, UNCHANGED lost,
               txq' = [txq EXCEPT ![w] = Append(@, e)]
        PROVE  /\ OneFate(r)'
               /\ \A t : t # r => (NoFate(t) => NoFate(t)') /\ (OneFate(t) => OneFate(t)')
    <3>1. txq[w] \in Seq(Reply)
      BY <1>1 DEF WorkTypeOK
    <3>2. PICK n \in Nat : n = Len(txq[w])
      BY <3>1
    <3>3. /\ Len(txq'[w]) = n + 1 /\ txq'[w][n + 1] = e
          /\ \A i \in 1..n : txq'[w][i] = txq[w][i]
          /\ \A v \in Workers \ {w} : txq'[v] = txq[v]
      BY <1>1, <2>2, <3>1, <3>2, Appended DEF WorkTypeOK
    <3>4. ASSUME NEW t, NEW y, NEW z
          PROVE  ReplyAt(t, y, z)' <=> ReplyAt(t, y, z) \/ (t = r /\ y = w /\ z = n + 1)
      BY <2>2, <3>2, <3>3 DEF ReplyAt
    <3>5. OneReply(r)'
      BY <1>11, <3>4 DEF NoFate, NoReply, OneReply
    <3>6. OneFate(r)'
      BY <1>5, <1>11, <2>2, <3>5 DEF NoFate, OneFate
    <3>7. \A t : t # r => (NoFate(t) => NoFate(t)') /\ (OneFate(t) => OneFate(t)')
      BY <1>5, <2>2, <3>4 DEF NoFate, OneFate, NoReply, OneReply
    <3>8. QED
      BY <3>6, <3>7
  <2>3. QED
    BY <1>13, <2>1, <2>2
<1>15. ASSUME NEW t \in Tasks PROVE Settled(t)'
  <2>1. CASE t = r
    BY <1>5, <1>11, <1>12, <1>14, <2>1 DEF Settled
  <2>2. CASE t # r
    BY <1>5, <1>9, <1>10, <1>14, <2>2, OpenKept, SettledStays DEF FatesInv, FateInv
  <2>3. QED
    BY <2>1, <2>2
<1>16. QED
  BY <1>15 DEF FateInv

\* process_send answers each task that has a reply in the queue, once.
LEMMA FlushedFates ==
  ASSUME FatesInv, NEW w \in Workers, ProcessSend(w) PROVE FateInv'
<1> USE DEF leafVars, slotVars, sharedVars, netVars, mailVars, dispVars, workVars
<1>1. LeafTypeOK /\ WorkTypeOK /\ HandOffTypes
  BY DEF FatesInv, RequestsInv, OwnersInv, IInv, HandOffInv, TypeOK
<1>2. /\ wpc[w] = "loop" /\ wpc'[w] = "poll"
      /\ \A v \in Workers \ {w} : wpc'[v] = wpc[v] /\ txq'[v] = txq[v]
      /\ txq'[w] = <<>>
      /\ UNCHANGED <<hdr, rxq, lost, recv_mbufs, npc, dpc, nj, ni, cnt, reqs, tskq,
                     dispatcher_requests, response_flag, finished>>
  BY <1>1 DEF ProcessSend, Goto, WorkTypeOK
<1>3. \A v \in Workers : Unanswered(v)' <=> Unanswered(v)
  BY <1>1, <1>2 DEF Unanswered, InService
<1>4. ASSUME NEW t PROVE Open(t)' <=> Open(t)
  <2>1. ArriveKept(t) /\ MailKept(t) /\ QueueKept(t) /\ AnswerKept(t)
    BY <1>2, <1>3 DEF ArriveKept, MailKept, QueueKept, AnswerKept, Arrives, InMail, InQueue,
         Pending, Answering
  <2>2. QED
    BY <2>1, OpenKept
<1>5. DOMAIN txq[w] = 1..Len(txq[w])
  BY <1>1 DEF WorkTypeOK
<1>6. \A t, y, z : ReplyAt(t, y, z)' <=> ReplyAt(t, y, z) /\ y # w
  BY <1>2 DEF ReplyAt
<1> DEFINE In(t) == {i \in DOMAIN txq[w] : txq[w][i].task = t}
<1>7. \A t \in Tasks : answered'[t] = answered[t] + Cardinality(In(t))
  BY DEF ProcessSend
<1>8. \A t, i : i \in In(t) <=> ReplyAt(t, w, i)
  BY <1>5 DEF ReplyAt
<1> HIDE DEF In
<1>9. ASSUME NEW t \in Tasks PROVE Settled(t)'
  <2>1. CASE \A i : ~ReplyAt(t, w, i)
    <3>1. In(t) = {}
      BY <1>8, <2>1
    <3>2. answered'[t] = answered[t]
      <4>1. Cardinality(In(t)) = 0 /\ answered[t] \in Nat
        BY <1>1, <3>1, FS_EmptySet DEF LeafTypeOK
      <4>2. QED
        BY <1>7, <4>1
    <3>3. \A y, z : ReplyAt(t, y, z)' <=> ReplyAt(t, y, z)
      BY <1>6, <2>1
    <3>4. (NoFate(t) => NoFate(t)') /\ (OneFate(t) => OneFate(t)')
      BY <1>2, <3>2, <3>3 DEF NoFate, OneFate, NoReply, OneReply
    <3>5. QED
      BY <1>2, <1>4, <3>4, SettledStays DEF FatesInv, FateInv
  <2>2. ASSUME NEW i, ReplyAt(t, w, i) PROVE Settled(t)'
    <3>1. ~NoFate(t)
      BY <2>2 DEF NoFate, NoReply
    <3>2. OneFate(t) => OneFate(t)'
      <4>1. SUFFICES ASSUME OneFate(t) PROVE OneFate(t)'
        OBVIOUS
      <4>2. /\ t \notin lost /\ answered[t] = 0
            /\ \A v, j : ReplyAt(t, v, j) => v = w /\ j = i
        BY <2>2, <4>1 DEF OneFate, NoReply, OneReply
      <4>3. In(t) = {i}
        BY <1>8, <2>2, <4>2
      <4>4. answered'[t] = 1
        <5>1. Cardinality(In(t)) = 1
          BY <4>3, FS_Singleton
        <5>2. QED
          BY <1>7, <4>2, <5>1
      <4>5. NoReply(t)'
        BY <1>6, <4>2 DEF NoReply
      <4>6. QED
        BY <1>2, <4>2, <4>4, <4>5 DEF OneFate
    <3>3. QED
      BY <1>2, <1>4, <3>1, <3>2, SettledStays DEF FatesInv, FateInv
  <2>3. QED
    BY <2>1, <2>2
<1>10. QED
  BY <1>9 DEF FateInv

\* Taking, starting, preempting and reporting a task answer none.
LEMMA WorkedAnswers ==
  ASSUME IInv, FreshWork, NEW w \in Workers, WorkerNext(w), ~SendReply(w), ~ProcessSend(w)
  PROVE  \A v \in Workers :
           (InService(v)' <=> InService(v)) /\ (Unanswered(v)' <=> Unanswered(v))
<1> USE DEF leafVars, slotVars, sharedVars, netVars, mailVars, dispVars, workVars
<1>1. WorkTypeOK /\ SharedTypeOK /\ HandOffTypes /\ SlotOwner
  BY DEF IInv, HandOffInv, TypeOK
<1>2. \A v \in Workers \ {w} :
        wpc'[v] = wpc[v] /\ finished'[v] = finished[v] /\ response_flag'[v] = response_flag[v]
  BY <1>1 DEF WorkerNext, InitWorker, ResetWorkerState, TakeRequest, StartRequest,
     PreemptHandler, ReadQueueLength, FillResponse, PublishResponse, Goto, WorkTypeOK,
     SharedTypeOK
<1>3. (InService(w)' <=> InService(w)) /\ (Unanswered(w)' <=> Unanswered(w))
  <2>1. CASE InitWorker(w)
    BY <1>1, <2>1 DEF InitWorker, Goto, Unanswered, InService, SharedTypeOK, HandOffTypes
  <2>2. CASE ResetWorkerState(w) \/ TakeRequest(w) \/ ReadQueueLength(w) \/ FillResponse(w)
    BY <1>1, <2>2 DEF ResetWorkerState, TakeRequest, ReadQueueLength, FillResponse, Goto,
         Unanswered, InService, HandOffTypes
  <2>3. CASE StartRequest(w)
    BY <1>1, <2>3 DEF StartRequest, Goto, Unanswered, InService, HandOffTypes
  <2>4. CASE PreemptHandler(w)
    BY <1>1, <2>4 DEF PreemptHandler, Goto, Unanswered, InService, HandOffTypes, FreshWork
  <2>5. CASE PublishResponse(w)
    BY <1>1, <2>5 DEF PublishResponse, Goto, Unanswered, InService, HandOffTypes, SlotOwner,
         Using, SharedTypeOK, WorkTypeOK, Outcome
  <2>6. QED
    BY <2>1, <2>2, <2>3, <2>4, <2>5 DEF WorkerNext
<1>4. QED
  BY <1>2, <1>3 DEF Unanswered, InService

LEMMA WorkedFates ==
  ASSUME FatesInv, NEW w \in Workers, WorkerNext(w), ~SendReply(w), ~ProcessSend(w)
  PROVE  FateInv'
<1> USE DEF leafVars, slotVars, sharedVars, netVars, mailVars, dispVars, workVars
<1>1. UNCHANGED <<hdr, rxq, recv_mbufs, npc, dpc, nj, ni, cnt, reqs, tskq,
                  dispatcher_requests, txq, answered, lost>>
  BY DEF WorkerNext, InitWorker, ResetWorkerState, TakeRequest, StartRequest,
     PreemptHandler, ReadQueueLength, FillResponse, PublishResponse
<1>2. \A v \in Workers : Unanswered(v)' <=> Unanswered(v)
  BY WorkedAnswers DEF FatesInv, RequestsInv, OwnersInv
<1>3. QED
  BY <1>1, <1>2, NothingSettled DEF FatesInv, Pending

\* No other step settles a task, or opens one.
LEMMA FateStep == FatesInv /\ [Next]_vars => FateInv'
<1> SUFFICES ASSUME FatesInv, [Next]_vars PROVE FateInv'
  OBVIOUS
<1> USE DEF slotVars, sharedVars, leafVars, netVars, mailVars, dispVars, workVars
<1>1. HandOffTypes /\ SlotOwner /\ MailboxHandOff /\ NetworkerInv /\ FateInv
  BY DEF FatesInv, RequestsInv, OwnersInv, IInv, HandOffInv
<1>2. CASE LeafNext
  <2>1. 0 \in Workers
    BY SizeAssumption DEF Workers
  <2>2. QED
    BY <1>2, <2>1, SentFates DEF LeafNext, SelectIdle, SelectRandom, SendOther
<1>3. CASE UNCHANGED vars
  BY <1>1, <1>3, NothingSettled DEF vars, Unanswered, InService, Pending
<1>4. CASE FreeFinished \/ PostPointers
  <2>1. Pending' = Pending
    <3>1. CASE FreeFinished
      BY <1>1, <3>1 DEF FreeFinished, Pending, MailboxHandOff, NetworkerInv
    <3>2. CASE PostPointers
      BY <1>1, <3>2 DEF PostPointers, Pending, MailboxHandOff
    <3>3. QED
      BY <1>4, <3>1, <3>2
  <2>2. QED
    BY <1>1, <1>4, <2>1, NothingSettled DEF FreeFinished, PostPointers, Unanswered, InService
<1>5. CASE NoPackets \/ BeginPackets \/ AcceptRequest \/ ReleasePointers
  <2>1. Pending' = Pending
    BY <1>1, <1>5 DEF NoPackets, BeginPackets, AcceptRequest, ReleasePointers, Pending,
         MailboxHandOff
  <2>2. QED
    BY <1>1, <1>5, <2>1, NothingSettled DEF NoPackets, BeginPackets, AcceptRequest,
         ReleasePointers, ContextAlloc, EnterCore, Unanswered, InService
<1>6. ASSUME NEW w \in Workers,
             SkipWorker(w) \/ PreemptWorker(w) \/ NothingToDispatch(w) \/ ActivateRequest(w)
      PROVE  FateInv'
  <2>1. /\ UNCHANGED <<hdr, rxq, recv_mbufs, reqs, tskq, dispatcher_requests, response_flag,
                       wpc, finished, txq, answered, lost, npc, nj, ni, cnt>>
        /\ dpc \in {"worker", "activate"} /\ dpc' \in {"worker", "networker"}
    BY <1>6 DEF SkipWorker, PreemptWorker, NothingToDispatch, ActivateRequest, AtWorker,
         NextTurn
  <2>2. Pending' = Pending
    BY <2>1 DEF Pending
  <2>3. QED
    BY <1>1, <2>1, <2>2, NothingSettled DEF Unanswered, InService
<1>7. ASSUME NEW w \in Workers, WorkerNext(w) PROVE FateInv'
  BY <1>7, RepliedFates, FlushedFates, WorkedFates
<1>8. CASE NetworkerNext
  BY <1>4, <1>8, ReceivedFates, UpdatedFates DEF NetworkerNext
<1>9. CASE HandleNetworker
  BY <1>5, <1>9, DroppedFates, EnqueuedFates, ReturnedFates DEF HandleNetworker
<1>10. ASSUME NEW w \in Workers, HandleWorker(w) PROVE FateInv'
  BY <1>6, <1>10, FinishedFates, PreemptedFates, DispatchedFates DEF HandleWorker
<1>11. QED
  BY <1>2, <1>3, <1>7, <1>8, <1>9, <1>10 DEF Next, DispatcherNext

\* finished is cleared before a task runs and set by its reply.
LEMMA FreshWorkStep == IInv /\ FreshWork /\ [Next]_vars => FreshWork'
<1> SUFFICES ASSUME IInv, FreshWork, [Next]_vars PROVE FreshWork'
  OBVIOUS
<1> USE DEF slotVars, sharedVars, leafVars, netVars, mailVars, dispVars, workVars
<1>1. WorkTypeOK
  BY DEF IInv, TypeOK
<1>2. ASSUME NEW w \in Workers, WorkerNext(w) PROVE FreshWork'
  BY <1>1, <1>2 DEF WorkerNext, InitWorker, ResetWorkerState, ProcessSend, TakeRequest,
     StartRequest, PreemptHandler, ReadQueueLength, SendReply, FillResponse,
     PublishResponse, Goto, FreshWork, WorkTypeOK
<1>3. CASE UNCHANGED <<wpc, finished>>
  BY <1>3 DEF FreshWork
<1>4. QED
  BY <1>2, <1>3
     DEF Next, LeafNext, SelectIdle, SelectRandom, SendOther, Send, NetworkerNext, Receive,
           FreeFinished, RqUpdate, PostPointers, DispatcherNext,
           HandleNetworker, NoPackets, BeginPackets, DropRequest, AcceptRequest,
           EnqueueRequest, ReturnFinished, ReleasePointers, HandleWorker, SkipWorker,
           PreemptWorker, HandleFinished, HandlePreempted, NothingToDispatch,
           DispatchRequest, ActivateRequest, vars

LEMMA InitFates == Init => FatesInv
<1> SUFFICES ASSUME Init PROVE FatesInv
  OBVIOUS
<1>1. FateInv
  BY DEF Init, FateInv, Settled, NoFate, NoReply, ReplyAt
<1>2. FreshWork
  BY FlagAssumption DEF Init, FreshWork
<1>3. QED
  BY <1>1, <1>2, InitRequests DEF FatesInv

LEMMA NextFates == FatesInv /\ [Next]_vars => FatesInv'
<1> SUFFICES ASSUME FatesInv, [Next]_vars PROVE FatesInv'
  OBVIOUS
<1>1. IInv /\ FreshWork /\ RequestsInv
  BY DEF FatesInv, RequestsInv, OwnersInv
<1>2. QED
  BY <1>1, NextRequests, FateStep, FreshWorkStep DEF FatesInv

LEMMA Fated == Spec => []FatesInv
  BY InitFates, NextFates, PTL DEF Spec

-----------------------------------------------------------------------------
(* The counts of Outstanding and Fates.                                     *)

\* A set whose members are all equal.
LEMMA AtMostOne ==
  ASSUME NEW S, \A x \in S : \A y \in S : x = y
  PROVE  IsFiniteSet(S) /\ Cardinality(S) = IF S = {} THEN 0 ELSE 1
<1>1. CASE S = {}
  BY <1>1, FS_EmptySet
<1>2. ASSUME NEW x \in S PROVE IsFiniteSet(S) /\ Cardinality(S) = 1
  <2>1. S = {x}
    BY <1>2
  <2>2. QED
    BY <2>1, FS_Singleton
<1>3. QED
  BY <1>1, <1>2

\* The replies to a task, as Fates counts them.
LEMMA FatesCount ==
  ASSUME FatesInv, NEW t \in Tasks
  PROVE  (NoFate(t) => Fates(t) = 0) /\ (OneFate(t) => Fates(t) = 1)
<1> DEFINE In(w) == {<<w, i>> : i \in {j \in DOMAIN txq[w] : txq[w][j].task = t}}
           R == UNION {In(w) : w \in Workers}
<1>1. \A w \in Workers : DOMAIN txq[w] = 1..Len(txq[w])
  BY DEF FatesInv, RequestsInv, OwnersInv, IInv, TypeOK, WorkTypeOK
<1>2. ASSUME NEW w \in Workers, NEW p
      PROVE  p \in In(w) <=> \E z : p = <<w, z>> /\ ReplyAt(t, w, z)
  BY <1>1 DEF ReplyAt
<1>3. Fates(t) = answered[t] + Cardinality(R) + IF t \in lost THEN 1 ELSE 0
  BY DEF Fates
<1> HIDE DEF In
<1>4. \A p : p \in R <=> \E y, z : p = <<y, z>> /\ ReplyAt(t, y, z)
  BY <1>2 DEF ReplyAt
<1> HIDE DEF R
<1>5. NoReply(t) => Cardinality(R) = 0
  <2>1. NoReply(t) => R = {}
    BY <1>4 DEF NoReply
  <2>2. QED
    BY <2>1, FS_EmptySet
<1>6. OneReply(t) => Cardinality(R) = 1
  <2>1. SUFFICES ASSUME NEW y, NEW z, ReplyAt(t, y, z),
                        \A v, i : ReplyAt(t, v, i) => v = y /\ i = z
                 PROVE  Cardinality(R) = 1
    BY DEF OneReply
  <2>2. R = {<<y, z>>}
    BY <1>4, <2>1
  <2>3. QED
    BY <2>2, FS_Singleton
<1>7. QED
  BY <1>3, <1>5, <1>6 DEF NoFate, OneFate

\* The packets of a task, of which there is at most one.
LEMMA ArrivingCount ==
  ASSUME FatesInv, NEW t \in Tasks
  PROVE  Arriving(t) = IF Arrives(t) THEN 1 ELSE 0
<1> DEFINE A == {i \in DOMAIN rxq : rxq[i] = t}
           B == {i \in DOMAIN recv_mbufs : recv_mbufs[i] = t}
<1>1. /\ DOMAIN rxq = 1..Len(rxq) /\ DOMAIN recv_mbufs = 1..Len(recv_mbufs)
      /\ ArrivesOnce
  BY DEF FatesInv, RequestsInv, OwnersInv, IInv, TypeOK, LeafTypeOK, NetTypeOK
<1>2. /\ \A i \in A : \A j \in A : i = j
      /\ \A i \in B : \A j \in B : i = j
      /\ A = {} \/ B = {}
      /\ Arrives(t) <=> A # {} \/ B # {}
  BY <1>1 DEF ArrivesOnce, Arrives
<1>3. Arriving(t) = Cardinality(A) + Cardinality(B)
  BY DEF Arriving
<1> HIDE DEF A, B
<1>4. /\ Cardinality(A) = IF A = {} THEN 0 ELSE 1
      /\ Cardinality(B) = IF B = {} THEN 0 ELSE 1
  BY <1>2, AtMostOne
<1>5. QED
  BY <1>2, <1>3, <1>4

\* What Outstanding counts, by where the request of the task is.
LEMMA OutstandingCount ==
  ASSUME FatesInv, NEW t \in Tasks
  PROVE  Outstanding(t) = IF Open(t) THEN 1 ELSE 0
<1> DEFINE P == {p \in RequestPlaces(t) : p[1] \in {"mailbox", "tskq"}}
           U == {w \in Workers : Unanswered(w) /\ dispatcher_requests[w].req = t}
<1>1. /\ Somewhere(t)
      /\ \A p : p \in RequestPlaces(t) <=>
                  \E x, y, z : p = <<x, y, z>> /\ RequestAt(t, x, y, z)
  BY RequestPlacesAt DEF FatesInv, RequestsInv, OwnersInv, RequestSomewhere
<1>2. \A p : p \in P <=> \E x, y, z : /\ p = <<x, y, z>> /\ x \in {"mailbox", "tskq"}
                                      /\ RequestAt(t, x, y, z)
  BY <1>1
<1>3. \A w : w \in U <=> Answering(t, w)
  BY DEF Answering
<1>4. Outstanding(t) = Arriving(t) + Cardinality(P) + Cardinality(U)
  BY DEF Outstanding
<1> HIDE DEF P, U
<1>5. P # {} <=> (\E z : InMail(t, z)) \/ (\E y, z : InQueue(t, y, z))
  <2>1. ASSUME NEW z, InMail(t, z) PROVE <<"mailbox", 0, z>> \in P
    BY <1>2, <2>1 DEF RequestAt
  <2>2. ASSUME NEW y, NEW z, InQueue(t, y, z) PROVE <<"tskq", y, z>> \in P
    BY <1>2, <2>2 DEF RequestAt
  <2>3. ASSUME NEW p \in P PROVE (\E z : InMail(t, z)) \/ (\E y, z : InQueue(t, y, z))
    BY <1>2, <2>3 DEF RequestAt
  <2>4. QED
    BY <2>1, <2>2, <2>3
<1>6. Open(t) <=> Arrives(t) \/ P # {} \/ U # {}
  BY <1>3, <1>5 DEF Open
<1>7. CASE t \notin live
  <2>1. P = {} /\ U = {}
    BY <1>1, <1>3, <1>5, <1>7, InCoreAnswering DEF Somewhere, Nowhere, Alone
  <2>2. Cardinality(P) = 0 /\ Cardinality(U) = 0
    BY <2>1, FS_EmptySet
  <2>3. QED
    BY <1>4, <1>6, <2>1, <2>2, ArrivingCount
<1>8. CASE t \in live
  <2>1. PICK k, v, i : Placed(t, k, v, i)
    BY <1>1, <1>8 DEF Somewhere
  <2>2. \A x, y, z : RequestAt(t, x, y, z) => x = k /\ y = v /\ z = i
    BY <2>1 DEF Placed, Alone, RequestAt
  <2>3. \A p \in P : p = <<k, v, i>> /\ k \in {"mailbox", "tskq"}
    BY <1>2, <2>2
  <2>4. \A w \in U : w = v /\ k = "core"
    BY <1>3, <2>1, InCoreAnswering DEF Placed, Alone
  <2>5. /\ Cardinality(P) = IF P = {} THEN 0 ELSE 1
        /\ Cardinality(U) = IF U = {} THEN 0 ELSE 1
    BY <2>3, <2>4, AtMostOne
  <2>6. P = {} \/ U = {}
    BY <2>3, <2>4
  <2>7. ~Arrives(t)
    BY <1>8, LiveSent
  <2>8. QED
    BY <1>4, <1>6, <2>5, <2>6, <2>7, ArrivingCount
<1>9. QED
  BY <1>7, <1>8

-----------------------------------------------------------------------------
(* The theorems about fates.                                                *)

\* Every task packet the NIC took has exactly one fate, or exactly one queue,
\* slot or packet that leads to it: no task is answered twice, answered after
\* it was given up, or forgotten, through any preemption, full queue, empty
\* context pool or failed udp_send_one.
THEOREM ExactlyOneFateCorrect == Spec => []ExactlyOneFate
<1>1. ASSUME FatesInv, NEW t \in Tasks, hdr[t] # Null, hdr[t].kind = "task"
      PROVE  Outstanding(t) + Fates(t) = 1
  <2>1. IF Open(t) THEN NoFate(t) ELSE OneFate(t)
    BY <1>1 DEF FatesInv, FateInv, Settled
  <2>2. QED
    BY <1>1, <2>1, FatesCount, OutstandingCount
<1>2. FatesInv => ExactlyOneFate
  BY <1>1 DEF ExactlyOneFate
<1>3. QED
  BY <1>2, Fated, PTL

\* A request in frqueue or handed back to the networker belongs to a task that
\* was answered or given up, so its mbuf can be reused.
THEOREM AnsweredBeforeReturnedCorrect == Spec => []AnsweredBeforeReturned
<1>1. ASSUME FatesInv, NEW t \in Tasks, NEW p \in RequestPlaces(t),
             p[1] \in {"frqueue", "returned"}
      PROVE  Fates(t) = 1
  <2>1. IInv /\ RequestSomewhere
    BY <1>1 DEF FatesInv, RequestsInv, OwnersInv
  <2>2. PICK x, y, z : p = <<x, y, z>> /\ RequestAt(t, x, y, z)
    BY <1>1, <2>1, RequestPlacesAt
  <2>3. x \in {"frqueue", "returned"}
    BY <1>1, <2>2
  <2>4. t \in live /\ Alone(t, x, y, z)
    BY <2>1, <2>2, FoundRequest
  <2>5. ~Open(t) /\ hdr[t] # Null /\ hdr[t].kind = "task"
    BY <1>1, <2>3, <2>4, LiveSent, InCoreAnswering DEF Open, Alone
  <2>6. OneFate(t)
    BY <1>1, <2>5 DEF FatesInv, FateInv, Settled
  <2>7. QED
    BY <1>1, <2>6, FatesCount
<1>2. FatesInv => AnsweredBeforeReturned
  BY <1>1 DEF AnsweredBeforeReturned
<1>3. QED
  BY <1>2, Fated, PTL

-----------------------------------------------------------------------------
(* Every worker is in the leaf's idle list, or will report itself idle.     *)

\* An idle-selected task for worker w is on its way to the dispatcher, or an
\* idle report of w on its way to the leaf.
Coming(t)   == Arrives(t) \/ \E z : InMail(t, z)
Chosen(t, w) == AddressedTo(t, w) /\ hdr[t].type = WORKER_STATE_IDLE
Selected(w) == \E t \in Tasks : Chosen(t, w) /\ Coming(t)
Reported(w) == \E i \in 1..Len(txq[w]) : txq[w][i].idle
LostFor(w)  == \E t \in lost : AddressedTo(t, w)

Back(w) == idleList[w] > 0 \/ Selected(w) \/ Reported(w) \/ LostFor(w)

\* The task of worker w has been answered, and the dispatcher does not know.
Answered(w) == InService(w) /\ ~Unanswered(w)

\* Worker w is booked as removed from the idle list, and it still has a task
\* whose reply will find queue_length 1: the last one has not been answered.
StillDue(w) ==
  worker_state[w] = WORKER_STATE_IDLE /\ ~(Answered(w) /\ queue_length[w] = 1)

BackOrDue(w) == Back(w) \/ StillDue(w)

\* Only tasks are idle-selected.
OthersBusy ==
  \A t \in Tasks : hdr[t] # Null /\ hdr[t].kind # "task" => hdr[t].type # WORKER_STATE_IDLE

\* What a worker read of queue_length is not out of date when it matters.
LastReply == \A w \in Workers : wpc[w] = "reply" /\ queue_length[w] = 1 => new_qlen[w] = 0

AllStarted == \A w \in Workers : wpc[w] \notin {"init", "boot"}

IdleInv ==
  /\ Booted /\ FatesInv /\ AllStarted /\ OthersBusy /\ LastReply
  /\ \A w \in Workers : BackOrDue(w)

\* A worker in service has its task counted.
LEMMA ServedCounted ==
  ASSUME IInv, NEW w \in Workers
  PROVE  /\ queue_length[w] \in Nat /\ Len(tskq[w]) \in Nat
         /\ InService(w) => queue_length[w] >= Len(tskq[w]) + 1
         /\ InService(w) /\ dpc = "mark" /\ types[ni] = w => queue_length[w] > 1
<1>1. Len(tskq[w]) \in Nat /\ queue_length[w] = Len(tskq[w]) + Served(w) + Counted(w)
  BY DEF IInv, TypeOK, DispTypeOK, QueueLengthExact
<1>2. Served(w) \in {0, 1} /\ Counted(w) \in {0, 1}
  BY DEF Served, Counted
<1>3. InService(w) => Served(w) = 1
  BY DEF Served
<1>4. dpc = "mark" /\ types[ni] = w => Counted(w) = 1
  BY DEF Counted
<1>5. QED
  BY <1>1, <1>2, <1>3, <1>4

LEMMA LostKept ==
  ASSUME FatesInv, [Next]_vars, lost \subseteq lost', NEW w, LostFor(w) PROVE LostFor(w)'
<1>1. PICK t \in lost : AddressedTo(t, w)
  BY DEF LostFor
<1>2. t \in Tasks /\ IInv
  BY DEF FatesInv, RequestsInv, OwnersInv, IInv, TypeOK, LeafTypeOK
<1>3. AddressedTo(t, w)'
  BY <1>1, <1>2, AddressKept
<1>4. QED
  BY <1>1, <1>3 DEF LostFor

\* A step that takes no report and no entry of the idle list away, and no
\* idle-selected task it does not lose.
LEMMA BackKept ==
  ASSUME FatesInv, [Next]_vars, NEW w \in Workers, Back(w), idleList'[w] >= idleList[w],
         Reported(w) => Reported(w)', lost \subseteq lost',
         \A t \in Tasks : Chosen(t, w) /\ Coming(t) => Coming(t)' \/ t \in lost'
  PROVE  Back(w)'
<1>1. IInv /\ idleList \in [Workers -> Nat] /\ idleList' \in [Workers -> Nat]
  BY LeafTypeStep DEF FatesInv, RequestsInv, OwnersInv, IInv, TypeOK, LeafTypeOK
<1>2. CASE idleList[w] > 0
  BY <1>1, <1>2 DEF Back
<1>3. CASE Selected(w)
  <2>1. PICK t \in Tasks : Chosen(t, w) /\ Coming(t)
    BY <1>3 DEF Selected
  <2>2. Chosen(t, w)'
    BY <1>1, <2>1, AddressKept, HeaderKept DEF Chosen, AddressedTo
  <2>3. QED
    BY <2>1, <2>2 DEF Selected, LostFor, Back, Chosen
<1>4. QED
  BY <1>2, <1>3, LostKept DEF Back

\* Such a step that tells worker w nothing about its tasks either.
LEMMA BothKept ==
  ASSUME IdleInv, [Next]_vars, NEW w \in Workers, idleList'[w] >= idleList[w],
         Reported(w) => Reported(w)', lost \subseteq lost',
         \A t \in Tasks : Chosen(t, w) /\ Coming(t) => Coming(t)' \/ t \in lost',
         worker_state'[w] = worker_state[w], queue_length'[w] = queue_length[w],
         Answered(w)' => Answered(w)
  PROVE  BackOrDue(w)'
  BY BackKept DEF IdleInv, BackOrDue, StillDue

LEMMA ComingKept ==
  ASSUME NEW t, ArriveKept(t), MailKept(t) PROVE Coming(t)' <=> Coming(t)
  BY DEF Coming, ArriveKept, MailKept

\* The leaf sends a packet: if it selected the worker as idle, the packet that
\* says so is in the receive queue, or lost.
LEMMA SentBack ==
  ASSUME IdleInv, [Next]_vars, LeafNext
  PROVE  OthersBusy' /\ \A w \in Workers : BackOrDue(w)'
<1> USE DEF leafVars, slotVars, sharedVars, netVars, mailVars, dispVars, workVars
<1>1. FatesInv /\ IInv /\ LeafTypeOK /\ 0 \in Workers
  BY SizeAssumption DEF IdleInv, FatesInv, RequestsInv, OwnersInv, IInv, TypeOK, Workers
<1>2. PICK t \in Unsent, k \in {"task", "other"}, v \in Workers,
           ty \in {WORKER_STATE_IDLE, WORKER_STATE_BUSY} :
        /\ hdr' = [hdr EXCEPT ![t] = [kind |-> k, core |-> v, type |-> ty]]
        /\ EthRecv(t) /\ (k # "task" => ty = WORKER_STATE_BUSY)
        /\ \/ UNCHANGED idleList
           \/ /\ idleList' = [idleList EXCEPT ![v] = @ - 1]
              /\ k = "task" /\ ty = WORKER_STATE_IDLE
        /\ UNCHANGED <<netVars, mailVars, dispVars, sharedVars, workVars>>
  BY <1>1 DEF LeafNext, SelectIdle, SelectRandom, SendOther, Send
<1>3. t \in Tasks /\ hdr[t] = Null
  BY <1>2 DEF Unsent
<1>4. hdr' \in [Tasks -> Header \cup {Null}] /\ [kind |-> k, core |-> v, type |-> ty] \in Header
  BY <1>1, <1>2 DEF LeafTypeOK, Header
<1>5. /\ hdr'[t] = [kind |-> k, core |-> v, type |-> ty] /\ hdr'[t] # Null
      /\ \A u \in Tasks \ {t} : hdr'[u] = hdr[u]
  BY <1>1, <1>2, <1>3, <1>4, NullAssumption DEF LeafTypeOK
<1>6. OthersBusy'
  BY <1>2, <1>5 DEF IdleInv, OthersBusy, WORKER_STATE_BUSY, WORKER_STATE_IDLE
<1>7. \A u : Arrives(u) => Arrives(u)'
  <2>1. CASE UNCHANGED rxq
    BY <1>2, <2>1 DEF Arrives
  <2>2. CASE rxq' = Append(rxq, t)
    <3>1. /\ Len(rxq') = Len(rxq) + 1 /\ Len(rxq) \in Nat
          /\ \A i \in 1..Len(rxq) : rxq'[i] = rxq[i]
      BY <1>1, <1>3, <2>2, Appended DEF LeafTypeOK
    <3>2. \A i \in 1..Len(rxq) : i \in 1..Len(rxq')
      BY <3>1
    <3>3. QED
      BY <1>2, <3>1, <3>2 DEF Arrives
  <2>3. QED
    BY <1>2, <2>1, <2>2 DEF EthRecv
<1>8. Arrives(t)' \/ t \in lost'
  <2>1. CASE rxq' = Append(rxq, t)
    <3>1. Len(rxq') = Len(rxq) + 1 /\ Len(rxq) \in Nat /\ rxq'[Len(rxq) + 1] = t
      BY <1>1, <1>3, <2>1, Appended DEF LeafTypeOK
    <3>2. Len(rxq) + 1 \in 1..Len(rxq')
      BY <3>1
    <3>3. QED
      BY <3>1, <3>2 DEF Arrives
  <2>2. QED
    BY <1>2, <2>1 DEF EthRecv
<1>9. Pending' = Pending /\ UNCHANGED reqs /\ lost \subseteq lost'
  BY <1>2 DEF Pending, EthRecv
<1>10. \A u : Coming(u) => Coming(u)'
  BY <1>7, <1>9 DEF Coming, InMail
<1>11. ASSUME NEW w \in Workers PROVE BackOrDue(w)'
  <2>1. CASE StillDue(w)
    BY <1>2, <2>1 DEF BackOrDue, StillDue, Answered, InService, Unanswered
  <2>2. CASE Back(w) /\ idleList'[w] = idleList[w]
    <3>1. idleList[w] \in Nat /\ (Reported(w) => Reported(w)')
      BY <1>1, <1>2 DEF LeafTypeOK, Reported
    <3>2. Back(w)'
      BY <1>1, <1>9, <1>10, <2>2, <3>1, BackKept
    <3>3. QED
      BY <3>2 DEF BackOrDue
  <2>3. CASE idleList'[w] # idleList[w]
    <3>1. w = v /\ ty = WORKER_STATE_IDLE
      BY <1>1, <1>2, <2>3 DEF LeafTypeOK
    <3>2. AddressedTo(t, w)' /\ hdr'[t].type = WORKER_STATE_IDLE
      BY <1>5, <3>1 DEF AddressedTo
    <3>3. Back(w)'
      BY <1>3, <1>8, <3>2 DEF Back, Selected, LostFor, Coming, Chosen
    <3>4. QED
      BY <3>3 DEF BackOrDue
  <2>4. QED
    BY <2>1, <2>2, <2>3 DEF IdleInv, BackOrDue
<1>12. QED
  BY <1>6, <1>11

-----------------------------------------------------------------------------
(* The steps.                                                               *)

\* rq_update passes every idle-selected packet on: those are tasks.
LEMMA NetworkerBack ==
  ASSUME IdleInv, [Next]_vars, NetworkerNext, NEW w \in Workers PROVE BackOrDue(w)'
<1> USE DEF leafVars, slotVars, sharedVars, netVars, mailVars, dispVars, workVars
<1>1. /\ FatesInv /\ IInv /\ LeafTypeOK /\ NetTypeOK /\ MailboxHandOff /\ NetworkerInv
      /\ OthersBusy
  BY DEF IdleInv, FatesInv, RequestsInv, OwnersInv, IInv, TypeOK, HandOffInv
<1>2. UNCHANGED <<hdr, idleList, lost, txq, worker_state, queue_length, response_flag, wpc,
                  finished, dpc, ni>>
  BY DEF NetworkerNext, Receive, FreeFinished, RqUpdate, PostPointers
<1>3. /\ idleList'[w] >= idleList[w] /\ (Reported(w) => Reported(w)') /\ lost \subseteq lost'
      /\ (Answered(w)' => Answered(w))
  BY <1>1, <1>2 DEF LeafTypeOK, Reported, Answered, InService, Unanswered
<1>4. ASSUME NEW t \in Tasks, Chosen(t, w), Coming(t) PROVE Coming(t)'
  <2>1. CASE Receive
    <3>1. MailKept(t)
      BY <1>2, <2>1 DEF Receive, MailKept, InMail, Pending
    <3>2. QED
      BY <1>1, <1>4, <2>1, <3>1, ReceivedPackets, ComingKept
  <2>2. CASE RqUpdate
    <3>1. PICK r \in Tasks : UpdatedBy(r)
      BY <1>1, <2>2, UpdatedPackets
    <3>2. CASE IsTask(r)
      BY <1>4, <3>1, <3>2 DEF UpdatedBy, Coming, ArriveKept
    <3>3. CASE ~IsTask(r)
      <4>1. t # r
        BY <1>1, <1>4, <3>3 DEF OthersBusy, Chosen, AddressedTo, IsTask
      <4>2. QED
        BY <1>4, <3>1, <3>3, <4>1, ComingKept DEF UpdatedBy
    <3>4. QED
      BY <3>2, <3>3
  <2>3. CASE FreeFinished
    <3>1. Pending' = Pending
      BY <1>1, <1>2, <2>3 DEF FreeFinished, Pending, MailboxHandOff, NetworkerInv
    <3>2. QED
      BY <1>4, <2>3, <3>1 DEF FreeFinished, Coming, Arrives, InMail
  <2>4. CASE PostPointers
    <3>1. Pending' = Pending
      BY <1>1, <1>2, <2>4 DEF PostPointers, Pending, MailboxHandOff
    <3>2. QED
      BY <1>4, <2>4, <3>1 DEF PostPointers, Coming, Arrives, InMail
  <2>5. QED
    BY <2>1, <2>2, <2>3, <2>4 DEF NetworkerNext
<1>5. QED
  BY <1>2, <1>3, <1>4, BothKept

\* handle_networker books every idle-selected task it queues, and gives up those
\* it returns.
LEMMA AcceptedBack ==
  ASSUME IdleInv, [Next]_vars, HandleNetworker, ~EnqueueRequest, NEW w \in Workers
  PROVE  BackOrDue(w)'
<1> USE DEF leafVars, slotVars, sharedVars, netVars, mailVars, dispVars, workVars
<1>1. /\ FatesInv /\ IInv /\ LeafTypeOK /\ NetTypeOK /\ DispTypeOK /\ SharedTypeOK
      /\ MailboxHandOff /\ RequestSomewhere
  BY DEF IdleInv, FatesInv, RequestsInv, OwnersInv, IInv, TypeOK, HandOffInv
<1>2. /\ UNCHANGED <<hdr, rxq, recv_mbufs, npc, nj, idleList, txq, worker_state,
                     response_flag, wpc, finished>>
      /\ lost \subseteq lost'
  BY DEF HandleNetworker, NoPackets, BeginPackets, DropRequest, AcceptRequest,
     EnqueueRequest, ReturnFinished, ReleasePointers
<1>3. /\ idleList'[w] >= idleList[w] /\ (Reported(w) => Reported(w)')
      /\ (Answered(w)' => Answered(w))
  BY <1>1, <1>2 DEF LeafTypeOK, Reported, Answered, InService, Unanswered
<1>4. ASSUME NEW t \in Tasks, Coming(t) PROVE Coming(t)' \/ t \in lost'
  <2>1. CASE NoPackets \/ BeginPackets \/ AcceptRequest \/ ReleasePointers
    <3>1. Pending' = Pending /\ UNCHANGED reqs
      BY <1>1, <1>2, <2>1 DEF NoPackets, BeginPackets, AcceptRequest, ReleasePointers,
         Pending, MailboxHandOff
    <3>2. QED
      BY <1>2, <1>4, <3>1 DEF Coming, Arrives, InMail
  <2>2. CASE DropRequest
    <3>1. \A z : InMail(t, z)' <=> InMail(t, z) /\ ~(t = reqs[ni] /\ z = ni)
      BY <1>1, <2>2, NextRequest, MailTaken DEF DropRequest
    <3>2. CASE t = reqs[ni]
      BY <2>2, <3>2 DEF DropRequest
    <3>3. CASE t # reqs[ni]
      BY <1>2, <1>4, <3>1, <3>3 DEF Coming, Arrives
    <3>4. QED
      BY <3>2, <3>3
  <2>3. CASE ReturnFinished
    <3>1. npc # "fill" /\ dpc = "accept" /\ ni > cnt
      BY <1>1, <2>3 DEF ReturnFinished, MailboxHandOff
    <3>2. Pending = {}
      BY <1>1, <3>1 DEF Pending, NetTypeOK, DispTypeOK
    <3>3. QED
      BY <1>2, <1>4, <3>2 DEF Coming, Arrives, InMail
  <2>4. QED
    BY <2>1, <2>2, <2>3 DEF HandleNetworker
<1>5. CASE queue_length'[w] = queue_length[w]
  BY <1>2, <1>3, <1>4, <1>5, BothKept
<1>6. CASE queue_length'[w] # queue_length[w]
  <2>1. AcceptRequest
    BY <1>6 DEF HandleNetworker, NoPackets, BeginPackets, DropRequest, AcceptRequest,
       EnqueueRequest, ReturnFinished, ReleasePointers
  <2>2. queue_length'[w] = queue_length[w] + 1
    BY <1>1, <1>6, <2>1 DEF AcceptRequest, EnterCore, SharedTypeOK
  <2>3. InService(w) => queue_length'[w] > 1
    BY <1>1, <2>2, ServedCounted
  <2>4. Back(w) => Back(w)'
    BY <1>1, <1>2, <1>3, <1>4, BackKept
  <2>5. StillDue(w) => StillDue(w)'
    BY <1>2, <1>3, <2>3 DEF StillDue, Answered
  <2>6. QED
    BY <2>4, <2>5 DEF IdleInv, BackOrDue
<1>7. QED
  BY <1>5, <1>6

\* An idle-selected task that enters its queue is booked before the leaf could
\* miss it: a task the worker still serves is counted too.
LEMMA EnqueuedBack ==
  ASSUME IdleInv, [Next]_vars, EnqueueRequest, NEW w \in Workers PROVE BackOrDue(w)'
<1> USE DEF leafVars, slotVars, sharedVars, netVars, mailVars, dispVars, workVars
<1>1. /\ FatesInv /\ IInv /\ LeafTypeOK /\ NetTypeOK /\ SharedTypeOK /\ RequestSomewhere
      /\ MailAddressed
  BY DEF IdleInv, FatesInv, RequestsInv, OwnersInv, IInv, TypeOK
<1>2. PICK r, k : r = reqs[ni] /\ k = types[ni]
  OBVIOUS
<1>3. /\ UNCHANGED <<hdr, rxq, recv_mbufs, npc, cnt, reqs, idleList, txq, lost, queue_length,
                     response_flag, wpc, finished>>
      /\ dpc = "mark" /\ dpc' = "accept" /\ ni' = ni + 1 /\ BookSelection(k, hdr[r].type)
  BY <1>2 DEF EnqueueRequest
<1>4. ni \in 1..cnt /\ r \in Tasks /\ k \in Workers /\ AddressedTo(r, k)
  BY <1>1, <1>2, <1>3, EnqueueTask DEF MailAddressed
<1>5. Answered(w)' <=> Answered(w)
  BY <1>3 DEF Answered, InService, Unanswered
<1>6. CASE Chosen(r, w)
  <2>1. k = w /\ worker_state'[w] = WORKER_STATE_IDLE
    BY <1>1, <1>3, <1>4, <1>6 DEF Chosen, AddressedTo, BookSelection, SharedTypeOK
  <2>2. InService(w) => queue_length'[w] > 1
    BY <1>1, <1>2, <1>3, <2>1, ServedCounted
  <2>3. QED
    BY <1>5, <2>1, <2>2 DEF BackOrDue, StillDue, Answered
<1>7. CASE ~Chosen(r, w)
  <2>1. worker_state'[w] = worker_state[w]
    BY <1>1, <1>3, <1>4, <1>7 DEF Chosen, BookSelection, SharedTypeOK
  <2>2. idleList'[w] >= idleList[w] /\ (Reported(w) => Reported(w)')
    BY <1>1, <1>3 DEF LeafTypeOK, Reported
  <2>3. \A t, z : InMail(t, z)' <=> InMail(t, z) /\ ~(t = r /\ z = ni)
    <3>1. cnt \in Nat /\ npc # "fill"
      BY <1>1, <1>3, <1>4, NextRequest DEF NetTypeOK
    <3>2. QED
      BY <1>2, <1>3, <1>4, <3>1, MailTaken
  <2>4. ASSUME NEW t \in Tasks, Chosen(t, w), Coming(t) PROVE Coming(t)'
    BY <1>3, <1>7, <2>3, <2>4 DEF Coming, Arrives
  <2>5. QED
    BY <1>3, <1>5, <2>1, <2>2, <2>4, BothKept
<1>8. QED
  BY <1>6, <1>7

\* handle_finished ends the worker's booking only with its last task, and that
\* one has been answered.
LEMMA HandledBack ==
  ASSUME IdleInv, [Next]_vars, NEW v \in Workers, HandleWorker(v), NEW w \in Workers
  PROVE  BackOrDue(w)'
<1> USE DEF leafVars, slotVars, sharedVars, netVars, mailVars, dispVars, workVars
<1>1. /\ FatesInv /\ IInv /\ LeafTypeOK /\ SharedTypeOK /\ SlotKept
      /\ HandOffTypes /\ SlotOwner
  BY DEF IdleInv, FatesInv, RequestsInv, OwnersInv, IInv, TypeOK, HandOffInv
<1>2. /\ UNCHANGED <<hdr, rxq, recv_mbufs, npc, nj, ni, cnt, reqs, idleList, txq, lost, wpc,
                     finished>>
      /\ dpc \in {"worker", "activate"} /\ dpc' \in {"worker", "activate", "networker"}
  BY DEF HandleWorker, SkipWorker, PreemptWorker, HandleFinished, HandlePreempted,
     NothingToDispatch, DispatchRequest, ActivateRequest, AtWorker, NextTurn
<1>3. idleList'[w] >= idleList[w] /\ (Reported(w) => Reported(w)') /\ lost \subseteq lost'
  BY <1>1, <1>2 DEF LeafTypeOK, Reported
<1>4. \A t : Coming(t)' <=> Coming(t)
  <2>1. Pending' = Pending
    BY <1>2 DEF Pending
  <2>2. QED
    BY <1>2, <2>1 DEF Coming, Arrives, InMail
<1>5. CASE ~HandleFinished(v)
  <2>1. UNCHANGED <<queue_length, worker_state>>
    BY <1>5 DEF HandleWorker, SkipWorker, PreemptWorker, HandlePreempted, NothingToDispatch,
         DispatchRequest, ActivateRequest
  <2>2. response_flag'[w] \in {response_flag[w], "PROCESSED"} \/ Unanswered(w)'
    <3>1. CASE DispatchRequest(v)
      BY <1>1, <1>2, <3>1, TakeTask DEF Unanswered, Idling
    <3>2. CASE ~DispatchRequest(v)
      BY <1>1, <1>5, <3>2 DEF HandleWorker, SkipWorker, PreemptWorker, HandlePreempted,
           NothingToDispatch, ActivateRequest, Processed, SharedTypeOK
    <3>3. QED
      BY <3>1, <3>2
  <2>3. Answered(w)' => Answered(w)
    BY <1>2, <2>2 DEF Answered, InService, Unanswered
  <2>4. QED
    BY <1>3, <1>4, <2>1, <2>3, BothKept
<1>6. CASE HandleFinished(v)
  <2>1. /\ InService(v) /\ ~InService(v)' /\ response_flag[v] = "FINISHED"
        /\ \A y \in Workers \ {v} : response_flag'[y] = response_flag[y]
        /\ LeaveCore(v)
    BY <1>1, <1>6, TakeResponse DEF HandleFinished, Runs
  <2>2. CASE w # v
    <3>1. queue_length'[w] = queue_length[w] /\ worker_state'[w] = worker_state[w]
      BY <1>1, <2>1, <2>2 DEF LeaveCore, SharedTypeOK
    <3>2. Answered(w)' => Answered(w)
      BY <1>2, <2>1, <2>2 DEF Answered, InService, Unanswered
    <3>3. QED
      BY <1>3, <1>4, <3>1, <3>2, BothKept
  <2>3. CASE w = v
    <3>1. Back(w) => Back(w)'
      BY <1>1, <1>3, <1>4, BackKept
    <3>2. StillDue(w) => StillDue(w)'
      <4>1. SUFFICES ASSUME StillDue(w) PROVE StillDue(w)'
        OBVIOUS
      <4>2. Answered(w) /\ ~Answered(w)'
        BY <2>1, <2>3 DEF Answered, Unanswered
      <4>3. queue_length[w] \in Nat /\ queue_length[w] > 1
        BY <1>1, <2>1, <2>3, <4>1, <4>2, ServedCounted DEF StillDue
      <4>4. worker_state' = worker_state
        BY <2>1, <2>3, <4>3 DEF LeaveCore
      <4>5. QED
        BY <4>1, <4>2, <4>4 DEF StillDue
    <3>3. QED
      BY <3>1, <3>2 DEF IdleInv, BackOrDue
  <2>4. QED
    BY <2>2, <2>3
<1>7. QED
  BY <1>5, <1>6

\* process_send turns a report into an entry of the leaf's idle list.
LEMMA FlushedBack ==
  ASSUME IdleInv, [Next]_vars, NEW w \in Workers, ProcessSend(w) PROVE BackOrDue(w)'
<1> USE DEF leafVars, slotVars, sharedVars, netVars, mailVars, dispVars, workVars
<1>1. FatesInv /\ IInv /\ LeafTypeOK /\ WorkTypeOK
  BY DEF IdleInv, FatesInv, RequestsInv, OwnersInv, IInv, TypeOK
<1>2. /\ UNCHANGED <<hdr, rxq, recv_mbufs, npc, dpc, nj, ni, cnt, reqs, lost, queue_length,
                     worker_state, response_flag, finished>>
      /\ wpc[w] = "loop" /\ wpc'[w] = "poll"
  BY <1>1 DEF ProcessSend, Goto, WorkTypeOK
<1> DEFINE R == {i \in DOMAIN txq[w] : txq[w][i].idle}
<1>3. idleList'[w] = idleList[w] + Cardinality(R) /\ idleList[w] \in Nat
  BY <1>1 DEF ProcessSend, LeafTypeOK
<1>4. /\ DOMAIN txq[w] = 1..Len(txq[w]) /\ IsFiniteSet(R) /\ Cardinality(R) \in Nat
      /\ Reported(w) <=> R # {}
  <2>1. Len(txq[w]) \in Nat /\ DOMAIN txq[w] = 1..Len(txq[w])
    BY <1>1 DEF WorkTypeOK
  <2>2. IsFiniteSet(1..Len(txq[w])) /\ R \subseteq 1..Len(txq[w])
    BY <2>1, FS_Interval
  <2>3. IsFiniteSet(R) /\ Cardinality(R) \in Nat
    BY <2>2, FS_Subset, FS_CardinalityType
  <2>4. QED
    BY <2>1, <2>3 DEF Reported
<1>5. R = {} <=> Cardinality(R) = 0
  BY <1>4, FS_EmptySet
<1> HIDE DEF R
<1>6. CASE Reported(w)
  <2>1. idleList'[w] > 0
    BY <1>3, <1>4, <1>5, <1>6
  <2>2. QED
    BY <2>1 DEF BackOrDue, Back
<1>7. CASE ~Reported(w)
  <2>1. idleList'[w] >= idleList[w]
    BY <1>3, <1>4
  <2>2. \A t : Coming(t)' <=> Coming(t)
    BY <1>2 DEF Coming, Arrives, InMail, Pending
  <2>3. Answered(w)' <=> Answered(w)
    BY <1>2 DEF Answered, InService, Unanswered
  <2>4. QED
    BY <1>2, <1>7, <2>1, <2>2, <2>3, BothKept
<1>8. QED
  BY <1>6, <1>7

\* The reply to the last task of a worker reports it idle, or its loss explains
\* why the worker is missing from the list.
LEMMA RepliedBack ==
  ASSUME IdleInv, [Next]_vars, NEW w \in Workers, SendReply(w) PROVE BackOrDue(w)'
<1> USE DEF leafVars, slotVars, sharedVars, netVars, mailVars, dispVars, workVars
<1>1. /\ FatesInv /\ IInv /\ LeafTypeOK /\ WorkTypeOK /\ SharedTypeOK /\ SlotOwner
      /\ SlotKept /\ SlotAddressed /\ SlotContent /\ LastReply
  BY DEF IdleInv, FatesInv, RequestsInv, OwnersInv, IInv, TypeOK, HandOffInv
<1>2. PICK r, e, n :
        /\ r = job[cont[w]] /\ n = Len(txq[w])
        /\ e = [task |-> r, qlen |-> new_qlen[w],
                idle |-> new_qlen[w] = 0 /\ worker_state[w] > 0]
  OBVIOUS
<1>3. /\ UNCHANGED <<hdr, rxq, recv_mbufs, npc, dpc, nj, ni, cnt, reqs, idleList,
                     queue_length, worker_state, response_flag, job, cont>>
      /\ wpc[w] = "reply" /\ response_flag[w] = "RUNNING"
  BY <1>1 DEF SendReply, Goto, SlotOwner, Using
<1>4. r \in Tasks /\ AddressedTo(r, w)
  BY <1>1, <1>2, <1>3 DEF InService, SlotKept, SlotAddressed, SlotContent, Using, Runs, Runnable
<1>5. \/ lost' = lost /\ txq' = [txq EXCEPT ![w] = Append(@, e)]
      \/ lost' = lost \cup {r} /\ txq' = txq
  BY <1>2 DEF SendReply
<1>6. e \in Reply /\ txq[w] \in Seq(Reply) /\ n \in Nat
  <2>1. /\ new_qlen[w] \in 0..(QlenMod - 1) /\ txq[w] \in Seq(Reply) /\ n \in Nat
        /\ (new_qlen[w] = 0 /\ worker_state[w] > 0) \in BOOLEAN
    BY <1>1, <1>2 DEF WorkTypeOK
  <2>2. [task |-> r, qlen |-> new_qlen[w], idle |-> new_qlen[w] = 0 /\ worker_state[w] > 0]
          \in Reply
    BY <1>4, <2>1 DEF Reply
  <2>3. QED
    BY <1>2, <2>1, <2>2
<1>7. CASE queue_length[w] = 1 /\ worker_state[w] = WORKER_STATE_IDLE
  <2>1. e.idle
    <3>1. new_qlen[w] = 0 /\ worker_state[w] > 0
      BY <1>1, <1>3, <1>7 DEF LastReply, WORKER_STATE_IDLE
    <3>2. e.idle = (new_qlen[w] = 0 /\ worker_state[w] > 0)
      BY <1>2
    <3>3. QED
      BY <3>1, <3>2
  <2>2. CASE lost' = lost /\ txq' = [txq EXCEPT ![w] = Append(@, e)]
    <3>1. txq'[w] = Append(txq[w], e)
      BY <1>1, <2>2 DEF WorkTypeOK
    <3>2. Len(txq'[w]) = n + 1 /\ txq'[w][n + 1] = e
      BY <1>2, <1>6, <3>1, Appended
    <3>3. n + 1 \in 1..Len(txq'[w])
      BY <1>6, <3>2
    <3>4. Reported(w)'
      BY <2>1, <3>2, <3>3 DEF Reported
    <3>5. QED
      BY <3>4 DEF BackOrDue, Back
  <2>3. CASE lost' = lost \cup {r}
    <3>1. LostFor(w)'
      BY <1>3, <1>4, <2>3 DEF LostFor, AddressedTo
    <3>2. QED
      BY <3>1 DEF BackOrDue, Back
  <2>4. QED
    BY <1>5, <2>2, <2>3
<1>8. CASE ~(queue_length[w] = 1 /\ worker_state[w] = WORKER_STATE_IDLE)
  <2>1. \A i \in 1..n : i \in 1..Len(txq'[w]) /\ txq'[w][i] = txq[w][i]
    <3>1. CASE txq' = [txq EXCEPT ![w] = Append(@, e)]
      <4>1. txq'[w] = Append(txq[w], e)
        BY <1>1, <3>1 DEF WorkTypeOK
      <4>2. Len(txq'[w]) = n + 1 /\ \A i \in 1..n : txq'[w][i] = txq[w][i]
        BY <1>2, <1>6, <4>1, Appended
      <4>3. QED
        BY <1>6, <4>2
    <3>2. QED
      BY <1>2, <1>5, <3>1
  <2>2. (Reported(w) => Reported(w)') /\ lost \subseteq lost' /\ idleList'[w] >= idleList[w]
    <3>1. ASSUME NEW i \in 1..n, txq[w][i].idle PROVE Reported(w)'
      BY <2>1, <3>1 DEF Reported
    <3>2. Reported(w) => Reported(w)'
      BY <1>2, <3>1 DEF Reported
    <3>3. QED
      BY <1>1, <1>3, <1>5, <3>2 DEF LeafTypeOK
  <2>3. \A t : Coming(t)' <=> Coming(t)
    BY <1>3 DEF Coming, Arrives, InMail, Pending
  <2>4. Back(w) => Back(w)'
    BY <1>1, <2>2, <2>3, BackKept
  <2>5. StillDue(w) => StillDue(w)'
    BY <1>3, <1>8 DEF StillDue
  <2>6. QED
    BY <2>4, <2>5 DEF IdleInv, BackOrDue
<1>9. QED
  BY <1>7, <1>8

\* The other steps of a worker report nothing, and once init_worker is over no
\* worker resets its worker_state.
LEMMA WorkedBack ==
  ASSUME IdleInv, [Next]_vars, NEW v \in Workers, WorkerNext(v), NEW w \in Workers
  PROVE  BackOrDue(w)'
<1> USE DEF leafVars, slotVars, sharedVars, netVars, mailVars, dispVars, workVars
<1>1. /\ FatesInv /\ IInv /\ LeafTypeOK /\ WorkTypeOK /\ SharedTypeOK /\ FreshWork
      /\ AllStarted
  BY DEF IdleInv, FatesInv, RequestsInv, OwnersInv, IInv, TypeOK
<1>2. ~InitWorker(v) /\ ~ResetWorkerState(v)
  BY <1>1 DEF InitWorker, ResetWorkerState, Goto, AllStarted
<1>3. /\ UNCHANGED <<hdr, rxq, recv_mbufs, npc, dpc, nj, ni, cnt, reqs, queue_length,
                     worker_state>>
      /\ lost \subseteq lost'
  BY <1>2 DEF WorkerNext, ProcessSend, TakeRequest, StartRequest, PreemptHandler,
     ReadQueueLength, SendReply, FillResponse, PublishResponse
<1>4. \A t : Coming(t)' <=> Coming(t)
  BY <1>3 DEF Coming, Arrives, InMail, Pending
<1>5. CASE w # v
  <2>1. /\ idleList'[w] = idleList[w] /\ txq'[w] = txq[w] /\ wpc'[w] = wpc[w]
        /\ finished'[w] = finished[w] /\ response_flag'[w] = response_flag[w]
    BY <1>1, <1>2, <1>5 DEF WorkerNext, ProcessSend, TakeRequest, StartRequest,
       PreemptHandler, ReadQueueLength, SendReply, FillResponse, PublishResponse, Goto,
       LeafTypeOK, WorkTypeOK, SharedTypeOK
  <2>2. /\ idleList'[w] >= idleList[w] /\ (Reported(w) => Reported(w)')
        /\ (Answered(w)' => Answered(w))
    BY <1>1, <2>1 DEF LeafTypeOK, Reported, Answered, InService, Unanswered
  <2>3. QED
    BY <1>3, <1>4, <2>2, BothKept
<1>6. CASE w = v /\ ~ProcessSend(v) /\ ~SendReply(v)
  <2>1. UNCHANGED <<idleList, txq>>
    BY <1>2, <1>6 DEF WorkerNext, TakeRequest, StartRequest, PreemptHandler,
       ReadQueueLength, FillResponse, PublishResponse
  <2>2. idleList'[w] >= idleList[w] /\ (Reported(w) => Reported(w)')
    BY <1>1, <2>1 DEF LeafTypeOK, Reported
  <2>3. Answered(w)' => Answered(w)
    BY <1>1, <1>6, WorkedAnswers DEF Answered
  <2>4. QED
    BY <1>3, <1>4, <2>2, <2>3, BothKept
<1>7. QED
  BY <1>5, <1>6, FlushedBack, RepliedBack

LEMMA BackStep == IdleInv /\ [Next]_vars => \A w \in Workers : BackOrDue(w)'
<1> SUFFICES ASSUME IdleInv, [Next]_vars, NEW w \in Workers PROVE BackOrDue(w)'
  OBVIOUS
<1>1. CASE UNCHANGED vars
  <2>1. UNCHANGED <<idleList, txq, lost, hdr, rxq, recv_mbufs, reqs, npc, nj, dpc, ni, cnt,
                    worker_state, queue_length, wpc, response_flag, finished>>
    BY <1>1 DEF vars, leafVars, netVars, mailVars, dispVars, slotVars, sharedVars, workVars
  <2>2. (BackOrDue(w))' <=> BackOrDue(w)
    BY <2>1 DEF BackOrDue, Back, Selected, Chosen, Coming, Arrives, InMail, Pending, Reported,
       LostFor, AddressedTo, StillDue, Answered, InService, Unanswered
  <2>3. QED
    BY <2>2 DEF IdleInv
<1>2. QED
  BY <1>1, SentBack, NetworkerBack, AcceptedBack, EnqueuedBack, HandledBack, WorkedBack
     DEF Next, DispatcherNext, HandleNetworker

\* queue_length of a core that has read it changes only by tasks it is not
\* serving: it never comes down to 1 behind the core's back.
LEMMA LastReplyStep == IdleInv /\ [Next]_vars => LastReply'
<1> SUFFICES ASSUME IdleInv, [Next]_vars PROVE LastReply'
  OBVIOUS
<1> USE DEF leafVars, slotVars, sharedVars, netVars, mailVars, dispVars, workVars
<1>1. /\ IInv /\ WorkTypeOK /\ SharedTypeOK /\ HandOffTypes /\ SlotOwner /\ SlotKept
      /\ LastReply
  BY DEF IdleInv, FatesInv, RequestsInv, OwnersInv, IInv, TypeOK, HandOffInv
<1>2. ASSUME NEW v \in Workers, ReadQueueLength(v) PROVE LastReply'
  <2>1. /\ UNCHANGED queue_length
        /\ \A w \in Workers \ {v} : wpc'[w] = wpc[w] /\ new_qlen'[w] = new_qlen[w]
        /\ new_qlen'[v] = (queue_length[v] - 1) % QlenMod
    BY <1>1, <1>2 DEF ReadQueueLength, Goto, WorkTypeOK
  <2>2. queue_length[v] = 1 => new_qlen'[v] = 0
    BY <2>1 DEF QlenMod
  <2>3. QED
    BY <1>1, <2>1, <2>2 DEF LastReply
<1>3. CASE AcceptRequest
  <2>1. UNCHANGED <<wpc, new_qlen>> /\ EnterCore(types[ni])
    BY <1>3 DEF AcceptRequest
  <2>2. ASSUME NEW w \in Workers, wpc[w] = "reply", queue_length'[w] = 1
        PROVE  queue_length[w] = 1
    <3>1. InService(w)
      BY <1>1, <2>2 DEF InService, SlotOwner, Using
    <3>2. queue_length[w] \in Nat /\ queue_length[w] >= 1
      BY <1>1, <3>1, ServedCounted
    <3>3. queue_length'[w] \in {queue_length[w], queue_length[w] + 1}
      BY <1>1, <2>1 DEF EnterCore, SharedTypeOK
    <3>4. QED
      BY <2>2, <3>2, <3>3
  <2>3. QED
    BY <1>1, <2>1, <2>2 DEF LastReply
<1>4. ASSUME NEW v \in Workers, HandleFinished(v) PROVE LastReply'
  <2>1. UNCHANGED <<wpc, new_qlen>> /\ LeaveCore(v) /\ wpc[v] # "reply"
    BY <1>1, <1>4, TakeResponse DEF HandleFinished, Runs, SlotOwner, Using
  <2>2. \A w \in Workers \ {v} : queue_length'[w] = queue_length[w]
    BY <1>1, <2>1 DEF LeaveCore, SharedTypeOK
  <2>3. QED
    BY <1>1, <2>1, <2>2 DEF LastReply
<1>5. CASE UNCHANGED <<wpc, new_qlen, queue_length>>
  BY <1>1, <1>5 DEF LastReply
<1>6. ASSUME NEW v \in Workers, WorkerNext(v), ~ReadQueueLength(v) PROVE LastReply'
  <2>1. /\ UNCHANGED <<queue_length, new_qlen>> /\ wpc'[v] # "reply"
        /\ \A w \in Workers \ {v} : wpc'[w] = wpc[w]
    BY <1>1, <1>6 DEF WorkerNext, InitWorker, ResetWorkerState, ProcessSend, TakeRequest,
       StartRequest, PreemptHandler, SendReply, FillResponse, PublishResponse, Goto,
       WorkTypeOK
  <2>2. QED
    BY <1>1, <2>1 DEF LastReply
<1>7. QED
  BY <1>2, <1>3, <1>4, <1>5, <1>6
     DEF Next, LeafNext, SelectIdle, SelectRandom, SendOther, Send, NetworkerNext, Receive,
           FreeFinished, RqUpdate, PostPointers, DispatcherNext,
           HandleNetworker, NoPackets, BeginPackets, DropRequest, AcceptRequest,
           EnqueueRequest, ReturnFinished, ReleasePointers, HandleWorker, SkipWorker,
           PreemptWorker, HandlePreempted, NothingToDispatch, DispatchRequest,
           ActivateRequest, vars

\* A worker that ran init_worker does not run it again.
LEMMA AllStartedStep == IInv /\ AllStarted /\ [Next]_vars => AllStarted'
<1> SUFFICES ASSUME IInv, AllStarted, [Next]_vars PROVE AllStarted'
  OBVIOUS
<1> USE DEF leafVars, slotVars, sharedVars, netVars, mailVars, dispVars, workVars
<1>1. ASSUME NEW w \in Workers, WorkerNext(w) PROVE AllStarted'
  BY <1>1 DEF WorkerNext, InitWorker, ResetWorkerState, ProcessSend, TakeRequest,
     StartRequest, PreemptHandler, ReadQueueLength, SendReply, FillResponse,
     PublishResponse, Goto, AllStarted, IInv, TypeOK, WorkTypeOK
<1>2. CASE UNCHANGED wpc
  BY <1>2 DEF AllStarted
<1>3. QED
  BY <1>1, <1>2
     DEF Next, LeafNext, SelectIdle, SelectRandom, SendOther, Send, NetworkerNext, Receive,
           FreeFinished, RqUpdate, PostPointers, DispatcherNext,
           HandleNetworker, NoPackets, BeginPackets, DropRequest, AcceptRequest,
           EnqueueRequest, ReturnFinished, ReleasePointers, HandleWorker, SkipWorker,
           PreemptWorker, HandleFinished, HandlePreempted, NothingToDispatch,
           DispatchRequest, ActivateRequest, vars

LEMMA OthersBusyStep == IdleInv /\ [Next]_vars => OthersBusy'
<1> SUFFICES ASSUME IdleInv, [Next]_vars PROVE OthersBusy'
  OBVIOUS
<1> USE DEF leafVars, slotVars, sharedVars, netVars, mailVars, dispVars, workVars
<1>1. CASE LeafNext
  BY <1>1, SentBack
<1>2. CASE UNCHANGED hdr
  BY <1>2 DEF IdleInv, OthersBusy
<1>3. QED
  BY <1>1, <1>2
     DEF Next, NetworkerNext, Receive, FreeFinished, RqUpdate, PostPointers, DispatcherNext,
           HandleNetworker, NoPackets, BeginPackets, DropRequest, AcceptRequest,
           EnqueueRequest, ReturnFinished, ReleasePointers, HandleWorker, SkipWorker,
           PreemptWorker, HandleFinished, HandlePreempted, NothingToDispatch,
           DispatchRequest, ActivateRequest, WorkerNext, InitWorker, ResetWorkerState,
           ProcessSend, TakeRequest, StartRequest, PreemptHandler, ReadQueueLength,
           SendReply, FillResponse, PublishResponse, vars

LEMMA InitIdle == Booted /\ Init => IdleInv
<1> SUFFICES ASSUME Booted, Init PROVE IdleInv
  OBVIOUS
<1>1. FatesInv
  BY InitFates
<1>2. AllStarted /\ LastReply /\ OthersBusy
  BY DEF Init, AllStarted, LastReply, OthersBusy
<1>3. \A w \in Workers : BackOrDue(w)
  BY DEF Init, BackOrDue, Back
<1>4. QED
  BY <1>1, <1>2, <1>3 DEF IdleInv

LEMMA NextIdle == IdleInv /\ [Next]_vars => IdleInv'
<1> SUFFICES ASSUME IdleInv, [Next]_vars PROVE IdleInv'
  OBVIOUS
<1>1. FatesInv /\ IInv /\ AllStarted /\ Booted
  BY DEF IdleInv, FatesInv, RequestsInv, OwnersInv
<1>2. QED
  BY <1>1, NextFates, AllStartedStep, OthersBusyStep, LastReplyStep, BackStep DEF IdleInv

\* When every worker has run init_worker before the first packet, a worker is in
\* the leaf's idle list, or booked to report itself idle, or a packet or reply
\* on its way says so, unless a task for it was lost: dispatch.h's worker_state
\* never forgets a worker by an interleaving of the three cores.
THEOREM IdleAccountedCorrect == Booted /\ Spec => []IdleAccounted
<1>1. ASSUME IdleInv, NEW w \in Workers, Selected(w) PROVE IdleInFlight(w)
  <2>1. PICK t \in Tasks : Chosen(t, w) /\ Coming(t)
    BY <1>1 DEF Selected
  <2>2. FatesInv /\ IInv
    BY <1>1 DEF IdleInv, FatesInv, RequestsInv, OwnersInv
  <2>3. CASE Arrives(t)
    <3>1. Arriving(t) > 0
      BY <2>2, <2>3, ArrivingCount
    <3>2. QED
      BY <2>1, <3>1 DEF IdleInFlight, Chosen, AddressedTo
  <2>4. ASSUME NEW z, InMail(t, z) PROVE IdleInFlight(w)
    <3>1. <<"mailbox", 0, z>> \in RequestPlaces(t)
      BY <2>2, <2>4, RequestPlacesAt DEF RequestAt
    <3>2. \E p \in RequestPlaces(t) : p[1] = "mailbox"
      BY <3>1
    <3>3. QED
      BY <2>1, <3>2 DEF IdleInFlight, Chosen, AddressedTo
  <2>5. QED
    BY <2>1, <2>3, <2>4 DEF Coming
<1>2. ASSUME IdleInv, NEW w \in Workers, Reported(w) PROVE IdleInFlight(w)
  <2>1. DOMAIN txq[w] = 1..Len(txq[w])
    BY <1>2 DEF IdleInv, FatesInv, RequestsInv, OwnersInv, IInv, TypeOK, WorkTypeOK
  <2>2. QED
    BY <1>2, <2>1 DEF Reported, IdleInFlight
<1>3. ASSUME IdleInv, NEW w \in Workers, ~IdleInFlight(w)
      PROVE  \/ idleList[w] > 0 \/ worker_state[w] = WORKER_STATE_IDLE
             \/ \E t \in lost : hdr[t].core = w
  BY <1>1, <1>2, <1>3 DEF IdleInv, BackOrDue, Back, StillDue, LostFor, AddressedTo
<1>4. IdleInv => IdleAccounted
  BY <1>3 DEF IdleAccounted
<1>5. QED
  BY <1>4, InitIdle, NextIdle, PTL DEF Spec

-----------------------------------------------------------------------------
(* The parts of a queue.                                                    *)

Marks == Tasks \cup {Null}

\* The task worker w serves, and those that wait in its queue.
Slot(w)   == IF Unanswered(w) THEN One(dispatcher_requests[w].req) ELSE <<>>
Queued(w) == [i \in DOMAIN tskq[w] |-> tskq[w][i].req]

\* The parts in their order: the two above, then what the tasks in T have in the
\* mailbox m, the batch r and the receive queue x.
Line(a, q, m, r, x, T) == Chain(a, q, Among(m, T), Among(r, T), Among(x, T))

\* The same, as QueueOf writes it.
Written(a, q, m, r, x, T) == a \o q \o Among(m \o r \o x, T)

LEMMA LineIs ==
  ASSUME NEW S, NEW a \in Seq(S), NEW q \in Seq(S), NEW m \in Seq(S), NEW r \in Seq(S),
         NEW x \in Seq(S), NEW T
  PROVE  Written(a, q, m, r, x, T) = Line(a, q, m, r, x, T)
<1>1. Join(m, r) \in Seq(S)
  BY JoinType
<1>2. /\ Among(m, T) \in Seq(S) /\ Among(r, T) \in Seq(S) /\ Among(x, T) \in Seq(S)
  BY AmongType
<1>3. Among(Join(Join(m, r), x), T) = Join(Join(Among(m, T), Among(r, T)), Among(x, T))
  BY <1>1, AmongJoin
<1>4. Written(a, q, m, r, x, T) = Join(Join(a, q), Among(Join(Join(m, r), x), T))
  BY DEF Join, Written
<1>5. QED
  BY <1>2, <1>3, <1>4, ChainWritten DEF Line

\* The parts are sequences of tasks, with Null in the mailbox for its gaps.
Parts ==
  /\ Mailbox \in Seq(Marks) /\ Len(Mailbox) = Batch
  /\ recv_mbufs \in Seq(Marks) /\ rxq \in Seq(Marks)
  /\ \A w \in Workers : Slot(w) \in Seq(Marks) /\ Queued(w) \in Seq(Marks)

LEMMA PartsTyped == IInv => Parts
<1> SUFFICES ASSUME IInv PROVE Parts
  OBVIOUS
<1>1. LeafTypeOK /\ NetTypeOK /\ DispTypeOK /\ SharedTypeOK
  BY DEF IInv, TypeOK
<1>2. Mailbox \in [1..Batch -> Marks] /\ Batch \in Nat
  BY <1>1, SizeAssumption DEF NetTypeOK, Mailbox, Marks, Slots
<1>3. Mailbox \in Seq(Marks) /\ Len(Mailbox) = Batch
  BY <1>2
<1>4. recv_mbufs \in Seq(Marks) /\ rxq \in Seq(Marks)
  BY <1>1 DEF LeafTypeOK, NetTypeOK, Marks
<1>5. ASSUME NEW w \in Workers PROVE Slot(w) \in Seq(Marks)
  <2>1. dispatcher_requests[w].req \in Marks
    BY <1>1 DEF SharedTypeOK, Content, Marks
  <2>2. One(dispatcher_requests[w].req) \in Seq(Marks)
    BY <2>1, OneLaw
  <2>3. QED
    BY <2>2 DEF Slot
<1>6. ASSUME NEW w \in Workers PROVE Queued(w) \in Seq(Marks)
  <2>1. tskq[w] \in Seq(Runnable)
    BY <1>1 DEF DispTypeOK
  <2>2. PICK n \in Nat : n = Len(tskq[w]) /\ DOMAIN tskq[w] = 1..n
    BY <2>1
  <2>a. \A i \in 1..n : tskq[w][i] \in Runnable
    BY <2>1, <2>2
  <2>b. \A e \in Runnable : e.req \in Marks
    BY DEF Runnable, Marks
  <2>3. \A i \in 1..n : tskq[w][i].req \in Marks
    BY <2>a, <2>b
  <2>4. Queued(w) \in [1..n -> Marks]
    BY <2>2, <2>3 DEF Queued
  <2>5. QED
    BY <2>4
<1>7. QED
  BY <1>3, <1>4, <1>5, <1>6 DEF Parts

LEMMA PartsNext == ASSUME IInv' PROVE Parts'
  BY PartsTyped, PTL

\* QueueOf by its parts.
InLine == \A w \in Workers :
  QueueOf(w) = Line(Slot(w), Queued(w), Mailbox, recv_mbufs, rxq, TasksFor(w))

LEMMA QueueInLine == Parts => InLine
<1> SUFFICES ASSUME Parts, NEW w \in Workers
             PROVE  QueueOf(w) = Line(Slot(w), Queued(w), Mailbox, recv_mbufs, rxq, TasksFor(w))
  BY DEF InLine
<1>1. QueueOf(w) = Written(Slot(w), Queued(w), Mailbox, recv_mbufs, rxq, TasksFor(w))
  BY DEF QueueOf, Slot, Queued, One, Written
<1>2. PICK a, q, m, r, x, T :
        /\ a = Slot(w) /\ q = Queued(w) /\ m = Mailbox /\ r = recv_mbufs /\ x = rxq
        /\ T = TasksFor(w)
  OBVIOUS
<1>3. /\ a \in Seq(Marks) /\ q \in Seq(Marks) /\ m \in Seq(Marks) /\ r \in Seq(Marks)
      /\ x \in Seq(Marks)
  BY <1>2 DEF Parts
<1>4. Written(a, q, m, r, x, T) = Line(a, q, m, r, x, T)
  BY <1>3, LineIs
<1>5. QED
  BY <1>1, <1>2, <1>4

LEMMA InLineNow == IInv => InLine
  BY PartsTyped, QueueInLine

LEMMA InLineNext == IInv' => InLine'
  BY InLineNow, PTL

\* All that is queued for a worker is a task for it.
LEMMA QueueTyped == ASSUME FatesInv, NEW w \in Workers PROVE QueueOf(w) \in Seq(TasksFor(w))
<1>1. /\ IInv /\ RequestSomewhere /\ SlotKept /\ SlotAddressed /\ QueueAddressed /\ CellInv
      /\ Parts /\ InLine /\ DispTypeOK
  BY PartsTyped, InLineNow DEF FatesInv, RequestsInv, OwnersInv, IInv, TypeOK
<1>2. PICK T : T = TasksFor(w)
  OBVIOUS
<1>3. \A t \in Tasks : t \in live /\ AddressedTo(t, w) => t \in T
  BY <1>1, <1>2 DEF CellInv, AddressedTo, TasksFor, IsTask
<1>4. Slot(w) \in Seq(T)
  <2>1. CASE Unanswered(w)
    <3>1. PICK t : t = dispatcher_requests[w].req
      OBVIOUS
    <3>2. InService(w) /\ t \in Tasks /\ AddressedTo(t, w)
      BY <1>1, <2>1, <3>1, ServiceContent DEF Unanswered, SlotAddressed, Runs, Runnable
    <3>3. t \in live
      <4>1. RequestAt(t, "core", w, 0)
        BY <3>1, <3>2 DEF RequestAt, InCore
      <4>2. QED
        BY <1>1, <3>2, <4>1, FoundRequest
    <3>4. One(t) \in Seq(T)
      BY <1>3, <3>2, <3>3, OneLaw
    <3>5. QED
      BY <2>1, <3>1, <3>4 DEF Slot
  <2>2. CASE ~Unanswered(w)
    BY <2>2 DEF Slot
  <2>3. QED
    BY <2>1, <2>2
<1>5. Queued(w) \in Seq(T)
  <2>1. PICK n \in Nat : n = Len(tskq[w]) /\ DOMAIN tskq[w] = 1..n
    BY <1>1 DEF DispTypeOK
  <2>2. ASSUME NEW i \in 1..n PROVE tskq[w][i].req \in T
    <3>1. PICK t : t = tskq[w][i].req
      OBVIOUS
    <3>2. Runs(tskq[w][i], w) /\ AddressedTo(t, w)
      BY <1>1, <2>1, <3>1 DEF IInv, QueueContent, QueueAddressed
    <3>3. t \in Tasks
      BY <3>1, <3>2 DEF Runs, Runnable
    <3>4. RequestAt(t, "tskq", w, i)
      BY <2>1, <3>1 DEF RequestAt, InQueue
    <3>5. t \in live
      BY <1>1, <3>3, <3>4, FoundRequest
    <3>6. QED
      BY <1>3, <3>1, <3>2, <3>3, <3>5
  <2>3. Queued(w) \in [1..n -> T]
    BY <2>1, <2>2 DEF Queued
  <2>4. QED
    BY <2>3
<1>6. /\ Among(Mailbox, T) \in Seq(T) /\ Among(recv_mbufs, T) \in Seq(T)
      /\ Among(rxq, T) \in Seq(T)
  BY <1>1, AmongType DEF Parts
<1>7. Line(Slot(w), Queued(w), Mailbox, recv_mbufs, rxq, T) \in Seq(T)
  BY <1>4, <1>5, <1>6, ChainType DEF Line
<1>8. QED
  BY <1>1, <1>2, <1>7 DEF InLine

-----------------------------------------------------------------------------
(* The steps of WorkerQueues.                                               *)

LEMMA StepNone ==
  ASSUME \A v \in Workers : QueueOf(v)' = QueueOf(v), AnsweredTasks' = AnsweredTasks,
         lost' = lost
  PROVE  [Queues!Next]_(Queues!vars)
  BY DEF Queues!vars

LEMMA StepSubmit ==
  ASSUME NEW w \in Workers, NEW t \in Tasks, Queues!Fresh(t),
         QueueOf(w)' = Append(QueueOf(w), t),
         \A v \in Workers : v # w => QueueOf(v)' = QueueOf(v),
         AnsweredTasks' = AnsweredTasks, lost' = lost
  PROVE  [Queues!Next]_(Queues!vars)
<1>1. Queues!Submit(w, t)
  BY DEF Queues!Submit
<1>2. QED
  BY <1>1 DEF Queues!Next

LEMMA StepRefuse ==
  ASSUME NEW t \in Tasks, Queues!Fresh(t), lost' = lost \cup {t},
         \A v \in Workers : QueueOf(v)' = QueueOf(v), AnsweredTasks' = AnsweredTasks
  PROVE  [Queues!Next]_(Queues!vars)
<1>1. Queues!Refuse(t)
  BY DEF Queues!Refuse
<1>2. QED
  BY <1>1 DEF Queues!Next

LEMMA StepAnswer ==
  ASSUME NEW w \in Workers, QueueOf(w) # <<>>, QueueOf(w)' = Tail(QueueOf(w)),
         AnsweredTasks' = AnsweredTasks \cup {Head(QueueOf(w))},
         \A v \in Workers : v # w => QueueOf(v)' = QueueOf(v), lost' = lost
  PROVE  [Queues!Next]_(Queues!vars)
<1>1. Queues!Answer(w)
  BY DEF Queues!Answer
<1>2. QED
  BY <1>1 DEF Queues!Next

LEMMA StepDrop ==
  ASSUME NEW w \in Workers, NEW i \in DOMAIN QueueOf(w),
         QueueOf(w)' = Queues!Without(QueueOf(w), i), lost' = lost \cup {QueueOf(w)[i]},
         \A v \in Workers : v # w => QueueOf(v)' = QueueOf(v), AnsweredTasks' = AnsweredTasks
  PROVE  [Queues!Next]_(Queues!vars)
<1>1. Queues!Drop(w, i)
  BY DEF Queues!Drop
<1>2. QED
  BY <1>1 DEF Queues!Next

\* Nothing is answered or given up.
LEMMA AnsweredStay ==
  ASSUME UNCHANGED <<answered, txq, lost>> PROVE AnsweredTasks' = AnsweredTasks
  BY DEF AnsweredTasks, Fates

\* What one worker is queued by its parts.
LEMMA SameParts ==
  ASSUME UNCHANGED <<hdr, rxq, recv_mbufs, reqs, tskq, dispatcher_requests>>,
         Pending' = Pending, \A w \in Workers : Unanswered(w)' <=> Unanswered(w)
  PROVE  \A v \in Workers : QueueOf(v)' = QueueOf(v)
<1>1. Mailbox' = Mailbox
  BY DEF Mailbox
<1>2. ASSUME NEW v \in Workers PROVE TasksFor(v)' = TasksFor(v)
  BY DEF TasksFor, IsTask
<1>3. QED
  BY <1>1, <1>2 DEF QueueOf

-----------------------------------------------------------------------------
(* The packets arrive.                                                      *)

\* The packet sent, which was nowhere before.
SentBy(t, kind, w, type) ==
  /\ t \in Tasks /\ hdr[t] = Null
  /\ hdr' = [hdr EXCEPT ![t] = [kind |-> kind, core |-> w, type |-> type]]
  /\ hdr'[t] # Null /\ hdr'[t].kind = kind /\ hdr'[t].core = w
  /\ EthRecv(t)
  /\ UNCHANGED <<answered, netVars, mailVars, dispVars, sharedVars, workVars>>
  /\ \A i \in 1..Len(Mailbox) : Mailbox[i] # t
  /\ \A i \in 1..Len(recv_mbufs) : recv_mbufs[i] # t
  /\ \A i \in 1..Len(rxq) : rxq[i] # t
  /\ NoFate(t)

LEMMA SentPacket ==
  ASSUME FatesInv, NEW w \in Workers, NEW kind \in {"task", "other"},
         NEW type \in {WORKER_STATE_IDLE, WORKER_STATE_BUSY}, Send(kind, w, type)
  PROVE  \E t : SentBy(t, kind, w, type)
<1>1. PICK t \in Unsent :
        /\ hdr' = [hdr EXCEPT ![t] = [kind |-> kind, core |-> w, type |-> type]]
        /\ EthRecv(t)
        /\ UNCHANGED <<answered, netVars, mailVars, dispVars, sharedVars, workVars>>
  BY DEF Send
<1>2. /\ LeafTypeOK /\ NetworkerInv /\ ArrivesOnce /\ RequestSomewhere /\ Parts /\ FateInv
  BY PartsTyped DEF FatesInv, RequestsInv, OwnersInv, IInv, TypeOK
<1>3. /\ t \in Tasks /\ hdr[t] = Null /\ Nowhere(t) /\ NoFate(t)
      /\ \A i \in 1..Len(rxq) : rxq[i] # t
      /\ \A i \in 1..Len(recv_mbufs) : recv_mbufs[i] # t
  BY <1>1, <1>2 DEF Unsent, ArrivesOnce, NetworkerInv, RequestSomewhere, Somewhere, FateInv,
     Settled
<1>4. ASSUME NEW i \in 1..Len(Mailbox) PROVE Mailbox[i] # t
  <2>1. i \in Slots
    BY <1>2 DEF Parts, Slots
  <2>2. ~InMail(t, i) /\ t # Null
    BY <1>3, NullAssumption DEF Nowhere, Alone
  <2>3. QED
    BY <2>1, <2>2 DEF Mailbox, InMail
<1>5. hdr'[t] # Null /\ hdr'[t].kind = kind /\ hdr'[t].core = w
  <2>1. [kind |-> kind, core |-> w, type |-> type] \in Header
    BY DEF Header
  <2>2. QED
    BY <1>1, <1>2, <1>3, <2>1, NullAssumption DEF LeafTypeOK
<1>6. SentBy(t, kind, w, type)
  BY <1>1, <1>3, <1>4, <1>5 DEF SentBy
<1>7. QED
  BY <1>6

\* Among the packets of before, each worker's are the same.
LEMMA SentOthers ==
  ASSUME FatesInv, NEW t, NEW kind, NEW w, NEW type, SentBy(t, kind, w, type), NEW v \in Workers,
         NEW s \in Seq(Marks), \A i \in 1..Len(s) : s[i] # t
  PROVE  Among(s, TasksFor(v)') = Among(s, TasksFor(v))
<1>1. PICK T, R : T = TasksFor(v) /\ R = TasksFor(v)'
  OBVIOUS
<1>2. hdr \in [Tasks -> Header \cup {Null}]
  BY DEF FatesInv, RequestsInv, OwnersInv, IInv, TypeOK, LeafTypeOK
<1>3. \A u \in Tasks : u # t => hdr'[u] = hdr[u]
  BY <1>2 DEF SentBy
<1>4. \A u : u # t => (u \in R <=> u \in T)
  BY <1>1, <1>3 DEF TasksFor, IsTask
<1>5. \A i \in 1..Len(s) : s[i] \in R <=> s[i] \in T
  BY <1>4
<1>6. Among(s, R) = Among(s, T)
  BY <1>5, AmongSame
<1>7. QED
  BY <1>1, <1>6

\* A packet is queued for its worker, or not at all.
LEMMA SentLine ==
  ASSUME FatesInv, FatesInv', NEW t, NEW kind \in {"task", "other"}, NEW w \in Workers, NEW type,
         SentBy(t, kind, w, type), NEW v \in Workers
  PROVE  /\ rxq' = Append(rxq, t) /\ v = w /\ kind = "task" =>
              QueueOf(v)' = Append(QueueOf(v), t)
         /\ rxq' = rxq \/ v # w \/ kind # "task" => QueueOf(v)' = QueueOf(v)
<1> USE DEF leafVars, slotVars, sharedVars, netVars, mailVars, dispVars, workVars
<1>1. /\ Parts /\ InLine /\ InLine' /\ LeafTypeOK
  BY PartsTyped, InLineNow, InLineNext DEF FatesInv, RequestsInv, OwnersInv, IInv, TypeOK
<1>2. /\ Slot(v)' = Slot(v) /\ Queued(v)' = Queued(v) /\ Mailbox' = Mailbox
      /\ recv_mbufs' = recv_mbufs
  BY DEF SentBy, Slot, Queued, Mailbox, Pending, Unanswered, InService
<1>3. PICK a, q, m, r, x, y, T, R :
        /\ a = Slot(v) /\ q = Queued(v) /\ m = Mailbox /\ r = recv_mbufs /\ x = rxq /\ y = rxq'
        /\ T = TasksFor(v) /\ R = TasksFor(v)'
  OBVIOUS
<1>4. /\ a \in Seq(Marks) /\ q \in Seq(Marks) /\ m \in Seq(Marks) /\ r \in Seq(Marks)
      /\ x \in Seq(Marks) /\ t \in Marks
  BY <1>1, <1>3 DEF Parts, SentBy, Marks
<1>5. QueueOf(v) = Line(a, q, m, r, x, T)
  BY <1>1, <1>3 DEF InLine
<1>6. QueueOf(v)' = Line(a, q, m, r, y, R)
  BY <1>1, <1>2, <1>3 DEF InLine
<1>7. Among(m, R) = Among(m, T) /\ Among(r, R) = Among(r, T) /\ Among(x, R) = Among(x, T)
  <2>1. /\ \A i \in 1..Len(m) : m[i] # t
        /\ \A i \in 1..Len(r) : r[i] # t
        /\ \A i \in 1..Len(x) : x[i] # t
    BY <1>3 DEF SentBy
  <2>2. \A s \in Seq(Marks) : (\A i \in 1..Len(s) : s[i] # t) => Among(s, R) = Among(s, T)
    BY <1>3, SentOthers
  <2>3. QED
    BY <1>4, <2>1, <2>2
<1>8. t \in R <=> v = w /\ kind = "task"
  BY <1>3 DEF SentBy, TasksFor, IsTask
<1>9. y = x \/ y = Append(x, t)
  BY <1>3 DEF SentBy, EthRecv
<1>10. CASE y = x
  <2>1. QueueOf(v)' = QueueOf(v)
    BY <1>5, <1>6, <1>7, <1>10 DEF Line
  <2>2. y # Append(x, t)
    BY <1>4, <1>10
  <2>3. QED
    BY <1>3, <2>1, <2>2
<1>11. CASE y = Append(x, t)
  <2>1. y = Join(x, One(t))
    BY <1>4, <1>11, JoinLast
  <2>2. PICK o : o = One(t)
    OBVIOUS
  <2>3. o \in Seq(Marks)
    BY <1>4, <2>2, OneLaw
  <2>4. Among(y, R) = Join(Among(x, R), Among(o, R))
    BY <1>4, <2>1, <2>2, <2>3, AmongJoin
  <2>5. Among(o, R) = IF t \in R THEN o ELSE <<>>
    BY <1>4, <2>2, AmongSingle
  <2>6. /\ Among(m, T) \in Seq(Marks) /\ Among(r, T) \in Seq(Marks)
        /\ Among(x, T) \in Seq(Marks)
    BY <1>4, AmongType
  <2>7. CASE t \in R
    <3>1. QueueOf(v)' = Chain(a, q, Among(m, T), Among(r, T), Join(Among(x, T), o))
      BY <1>6, <1>7, <2>4, <2>5, <2>7 DEF Line
    <3>2. QueueOf(v)' = Join(QueueOf(v), o)
      <4>1. PICK b, c, d : b = Among(m, T) /\ c = Among(r, T) /\ d = Among(x, T)
        OBVIOUS
      <4>2. b \in Seq(Marks) /\ c \in Seq(Marks) /\ d \in Seq(Marks)
        BY <2>6, <4>1
      <4>a. a \in Seq(Marks) /\ q \in Seq(Marks)
        BY <1>4
      <4>3. Chain(a, q, b, c, Join(d, o)) = Join(Chain(a, q, b, c, d), o)
        BY <2>3, <4>2, <4>a, ChainEntered
      <4>4. QED
        BY <1>5, <3>1, <4>1, <4>3 DEF Line
    <3>3. QueueOf(v) \in Seq(Marks)
      BY <1>4, <1>5, <2>6, ChainType DEF Line
    <3>4. QueueOf(v)' = Append(QueueOf(v), t)
      BY <1>4, <2>2, <3>2, <3>3, JoinLast
    <3>5. y # x
      BY <1>4, <1>11
    <3>6. QED
      BY <1>3, <1>8, <2>7, <3>4, <3>5
  <2>8. CASE t \notin R
    <3>1. QueueOf(v)' = Chain(a, q, Among(m, T), Among(r, T), Join(Among(x, T), <<>>))
      BY <1>6, <1>7, <2>4, <2>5, <2>8 DEF Line
    <3>2. Join(Among(x, T), <<>>) = Among(x, T)
      BY <2>6, JoinEmpty
    <3>3. QueueOf(v)' = QueueOf(v)
      BY <1>5, <3>1, <3>2 DEF Line
    <3>4. QED
      BY <1>8, <2>8, <3>3
  <2>9. QED
    BY <2>7, <2>8
<1>12. QED
  BY <1>9, <1>10, <1>11

LEMMA SentQueues ==
  ASSUME FatesInv, FatesInv', NEW w \in Workers, NEW kind \in {"task", "other"},
         NEW type \in {WORKER_STATE_IDLE, WORKER_STATE_BUSY}, Send(kind, w, type)
  PROVE  [Queues!Next]_(Queues!vars)
<1>1. PICK t : SentBy(t, kind, w, type)
  BY SentPacket
<1>2. t \in Tasks /\ t \notin lost
  BY <1>1 DEF SentBy, NoFate
<1>3. t \notin AnsweredTasks /\ \A u \in Tasks : u # t => (u \in lost' <=> u \in lost)
  <2>1. Fates(t) = 0
    BY <1>1, FatesCount DEF SentBy
  <2>2. QED
    BY <1>1, <2>1 DEF AnsweredTasks, SentBy, EthRecv
<1>4. AnsweredTasks' = AnsweredTasks
  <2>1. ASSUME NEW u \in Tasks, u # t PROVE u \in AnsweredTasks' <=> u \in AnsweredTasks
    <3>1. Fates(u)' = Fates(u)
      BY <1>1, <1>3, <2>1 DEF Fates, SentBy, workVars
    <3>2. QED
      BY <1>3, <2>1, <3>1 DEF AnsweredTasks
  <2>2. t \notin AnsweredTasks'
    <3>1. CASE lost' = lost
      <4>1. Fates(t)' = Fates(t)
        BY <1>1, <3>1 DEF Fates, SentBy, workVars
      <4>2. QED
        BY <1>3, <3>1, <4>1 DEF AnsweredTasks
    <3>2. CASE t \in lost'
      BY <3>2 DEF AnsweredTasks
    <3>3. QED
      BY <1>1, <3>1, <3>2 DEF SentBy, EthRecv
  <2>3. QED
    BY <1>3, <2>1, <2>2 DEF AnsweredTasks
<1>5. Queues!Fresh(t)
  <2>1. ASSUME NEW v \in Workers, NEW i \in DOMAIN QueueOf(v) PROVE QueueOf(v)[i] # t
    <3>1. QueueOf(v)[i] \in TasksFor(v)
      BY QueueTyped
    <3>2. QED
      BY <1>1, <3>1 DEF TasksFor, SentBy
  <2>2. QED
    BY <1>2, <1>3, <2>1 DEF Queues!Fresh
<1>6. CASE lost' = lost \cup {t} /\ rxq' = rxq
  <2>1. \A v \in Workers : QueueOf(v)' = QueueOf(v)
    BY <1>1, <1>6, SentLine
  <2>2. QED
    BY <1>2, <1>4, <1>5, <1>6, <2>1, StepRefuse
<1>7. CASE lost' = lost /\ rxq' = Append(rxq, t)
  <2>1. CASE kind = "task"
    <3>1. QueueOf(w)' = Append(QueueOf(w), t)
      BY <1>1, <1>7, <2>1, SentLine
    <3>2. \A v \in Workers : v # w => QueueOf(v)' = QueueOf(v)
      BY <1>1, SentLine
    <3>3. QED
      BY <1>2, <1>4, <1>5, <1>7, <3>1, <3>2, StepSubmit
  <2>2. CASE kind # "task"
    <3>1. \A v \in Workers : QueueOf(v)' = QueueOf(v)
      BY <1>1, <2>2, SentLine
    <3>2. QED
      BY <1>4, <1>7, <3>1, StepNone
  <2>3. QED
    BY <2>1, <2>2
<1>8. QED
  BY <1>1, <1>6, <1>7 DEF SentBy, EthRecv

\* The networker takes the oldest packets of its receive queue into its batch.
LEMMA ReceivedQueues ==
  ASSUME FatesInv, FatesInv', Receive PROVE \A v \in Workers : QueueOf(v)' = QueueOf(v)
<1> USE DEF leafVars, slotVars, sharedVars, netVars, mailVars, dispVars, workVars
<1> SUFFICES ASSUME NEW v \in Workers PROVE QueueOf(v)' = QueueOf(v)
  OBVIOUS
<1>1. Parts /\ Parts' /\ InLine /\ InLine' /\ NetworkerInv /\ LeafTypeOK
  BY PartsTyped, PartsNext, InLineNow, InLineNext
     DEF FatesInv, RequestsInv, OwnersInv, IInv, TypeOK
<1>2. PICK n \in Slots :
        /\ n <= Len(rxq) /\ recv_mbufs' = SubSeq(rxq, 1, n)
        /\ rxq' = SubSeq(rxq, n + 1, Len(rxq))
  BY DEF Receive
<1>3. n \in Nat
  BY SizeAssumption DEF Slots
<1>4. /\ Slot(v)' = Slot(v) /\ Queued(v)' = Queued(v) /\ Mailbox' = Mailbox
      /\ TasksFor(v)' = TasksFor(v) /\ recv_mbufs = <<>>
  BY <1>1 DEF Receive, Slot, Queued, Mailbox, Pending, Unanswered, InService, TasksFor, IsTask,
     NetworkerInv
<1>5. PICK a, q, m, x, r, y, T :
        /\ a = Slot(v) /\ q = Queued(v) /\ m = Mailbox /\ x = rxq /\ r = recv_mbufs'
        /\ y = rxq' /\ T = TasksFor(v)
  OBVIOUS
<1>6. a \in Seq(Marks) /\ q \in Seq(Marks) /\ m \in Seq(Marks) /\ x \in Seq(Marks)
  BY <1>1, <1>5 DEF Parts
<1>7. r \in Seq(Marks) /\ y \in Seq(Marks)
  BY <1>1, <1>5 DEF Parts
<1>8. x = Join(r, y)
  BY <1>2, <1>3, <1>5, <1>6, JoinSplit
<1>9. PICK b, c, d : b = Among(m, T) /\ c = Among(r, T) /\ d = Among(y, T)
  OBVIOUS
<1>10. Among(x, T) = Join(c, d)
  BY <1>7, <1>8, <1>9, AmongJoin
<1>11. Among(<<>>, T) = <<>>
  <2>1. <<>> \in Seq(Marks) /\ \A i \in 1..Len(<<>>) : <<>>[i] \notin T
    OBVIOUS
  <2>2. QED
    BY <2>1, AmongNone
<1>12. QueueOf(v) = Chain(a, q, b, <<>>, Join(c, d))
  BY <1>1, <1>4, <1>5, <1>9, <1>10, <1>11 DEF InLine, Line
<1>13. QueueOf(v)' = Chain(a, q, b, c, d)
  BY <1>1, <1>4, <1>5, <1>9 DEF InLine, Line
<1>14. b \in Seq(Marks) /\ c \in Seq(Marks) /\ d \in Seq(Marks)
  BY <1>6, <1>7, <1>9, AmongType
<1>15. a \in Seq(Marks) /\ q \in Seq(Marks)
  BY <1>6
<1>16. Chain(a, q, b, <<>>, Join(c, d)) = Chain(a, q, b, c, d)
  BY <1>14, <1>15, ChainFromFifth
<1>17. QED
  BY <1>12, <1>13, <1>16

\* rq_update puts the request of the oldest packet behind those of the mailbox.
LEMMA UpdatedQueues ==
  ASSUME FatesInv, FatesInv', RqUpdate PROVE \A v \in Workers : QueueOf(v)' = QueueOf(v)
<1> USE DEF leafVars, slotVars, sharedVars, netVars, mailVars, dispVars, workVars
<1> SUFFICES ASSUME NEW v \in Workers PROVE QueueOf(v)' = QueueOf(v)
  OBVIOUS
<1>1. Parts /\ Parts' /\ InLine /\ InLine' /\ NetworkerInv /\ NetTypeOK
  BY PartsTyped, PartsNext, InLineNow, InLineNext
     DEF FatesInv, RequestsInv, OwnersInv, IInv, TypeOK
<1>2. /\ npc = "fill" /\ npc' = "fill" /\ Pending = 1..nj /\ Pending' = 1..nj'
      /\ nj \in Nat /\ nj + 1 \in Slots
  BY <1>1, SizeAssumption DEF RqUpdate, Pending, NetworkerInv, NetTypeOK, Slots
<1>3. PICK t, k : t = Head(recv_mbufs) /\ k = nj + 1
  OBVIOUS
<1>4. PICK a, q, m, n, r, s, x, T :
        /\ a = Slot(v) /\ q = Queued(v) /\ m = Mailbox /\ n = Mailbox' /\ r = recv_mbufs
        /\ s = recv_mbufs' /\ x = rxq /\ T = TasksFor(v)
  OBVIOUS
<1>5. /\ Slot(v)' = a /\ Queued(v)' = q /\ rxq' = x /\ TasksFor(v)' = T
  BY <1>4 DEF RqUpdate, Slot, Queued, Unanswered, InService, TasksFor, IsTask
<1>6. a \in Seq(Marks) /\ q \in Seq(Marks)
  BY <1>1, <1>4 DEF Parts
<1>7. m \in Seq(Marks) /\ r \in Seq(Marks) /\ s \in Seq(Marks) /\ x \in Seq(Marks)
  BY <1>1, <1>4 DEF Parts
<1>8. t \in Tasks /\ r = Join(One(t), s)
  <2>1. r \in Seq(Tasks) /\ r # <<>>
    BY <1>1, <1>4 DEF NetTypeOK, RqUpdate
  <2>2. s = Tail(r) /\ t = Head(r)
    BY <1>3, <1>4 DEF RqUpdate
  <2>3. t \in Tasks /\ r = <<t>> \o s
    BY <2>1, <2>2
  <2>4. QED
    BY <2>3 DEF Join, One
<1>9. PICK o, b, c, d :
        /\ o = Among(One(t), T) /\ b = Among(m, T) /\ c = Among(s, T) /\ d = Among(x, T)
  OBVIOUS
<1>10. t \in Marks /\ One(t) \in Seq(Marks)
  BY <1>8, OneLaw DEF Marks
<1>11. o \in Seq(Marks) /\ b \in Seq(Marks) /\ c \in Seq(Marks) /\ d \in Seq(Marks)
  BY <1>7, <1>9, <1>10, AmongType
<1>12. Among(r, T) = Join(o, c)
  BY <1>7, <1>8, <1>9, <1>10, AmongJoin
<1>13. Among(n, T) = Join(b, o)
  <2>1. CASE IsTask(t)
    <3>1. k \in Slots /\ k = nj + 1 /\ reqs' = [reqs EXCEPT ![k] = t] /\ nj' = nj + 1
      BY <1>2, <1>3, <2>1 DEF RqUpdate
    <3>2. Pending' = Pending \cup {k}
      BY <1>2, <3>1
    <3>3. n = [m EXCEPT ![k] = t]
      BY <1>1, <1>4, <3>1, <3>2 DEF Mailbox, NetTypeOK
    <3>4. k \in 1..Len(m) /\ \A i \in k..Len(m) : m[i] = Null
      <4>1. Len(m) = Batch /\ k \in 1..Batch
        BY <1>1, <1>4, <3>1 DEF Parts, Slots
      <4>2. \A i \in k..Batch : i \in Slots /\ i \notin Pending
        BY <1>2, <3>1, SizeAssumption DEF Slots
      <4>3. QED
        BY <1>4, <4>1, <4>2 DEF Mailbox
    <3>5. Null \notin T
      BY <1>4, NullAssumption DEF TasksFor
    <3>6. \A i \in k..Len(m) : m[i] \notin T
      BY <3>4, <3>5
    <3>7. Among([m EXCEPT ![k] = t], T) = Join(Among(m, T), Among(One(t), T))
      BY <1>7, <1>10, <3>4, <3>6, AmongPut
    <3>8. QED
      BY <1>9, <3>3, <3>7
  <2>2. CASE ~IsTask(t)
    <3>1. UNCHANGED <<reqs, nj>>
      BY <1>3, <2>2 DEF RqUpdate
    <3>2. n = m
      BY <1>2, <1>4, <3>1 DEF Mailbox
    <3>3. t \notin T
      BY <1>4, <2>2 DEF TasksFor
    <3>4. o = <<>>
      BY <1>9, <1>10, <3>3, AmongSingle
    <3>5. QED
      BY <1>9, <1>11, <3>2, <3>4, JoinEmpty
  <2>3. QED
    BY <2>1, <2>2
<1>14. QueueOf(v) = Chain(a, q, b, Join(o, c), d)
  BY <1>1, <1>4, <1>9, <1>12 DEF InLine, Line
<1>15. QueueOf(v)' = Chain(a, q, Join(b, o), c, d)
  BY <1>1, <1>4, <1>5, <1>9, <1>13 DEF InLine, Line
<1>16. Chain(a, q, b, Join(o, c), d) = Chain(a, q, Join(b, o), c, d)
  BY <1>6, <1>11, ChainFromFourth
<1>17. QED
  BY <1>14, <1>15, <1>16

-----------------------------------------------------------------------------
(* The dispatcher empties the mailbox.                                      *)

\* The request handle_networker is at, which it takes out of the mailbox.
TakenFor(r, w) ==
  /\ r = reqs[ni] /\ w = types[ni] /\ r \in Tasks /\ w \in Workers
  /\ hdr[r] # Null /\ IsTask(r) /\ hdr[r].core = w
  /\ Mailbox' = [Mailbox EXCEPT ![ni] = Null]
  /\ ni \in 1..Len(Mailbox) /\ Mailbox[ni] = r
  /\ \A i \in 1..(ni - 1) : Mailbox[i] = Null
  /\ UNCHANGED <<hdr, rxq, recv_mbufs, dispatcher_requests>>
  /\ \A v \in Workers : Unanswered(v)' <=> Unanswered(v)

LEMMA MailboxTaken ==
  ASSUME FatesInv, DropRequest \/ EnqueueRequest PROVE TakenFor(reqs[ni], types[ni])
<1> USE DEF leafVars, slotVars, sharedVars, netVars, mailVars, dispVars, workVars
<1>1. /\ dpc \in {"accept", "mark"} /\ dpc' = "accept" /\ ni' = ni + 1
      /\ UNCHANGED <<hdr, rxq, recv_mbufs, npc, cnt, reqs, dispatcher_requests, response_flag,
                     wpc, finished>>
  BY DEF DropRequest, EnqueueRequest
<1>2. /\ IInv /\ RequestSomewhere /\ Parts /\ MailAddressed /\ CellInv /\ NetTypeOK
      /\ MailboxInv
  BY PartsTyped DEF FatesInv, RequestsInv, OwnersInv, IInv, TypeOK
<1>3. ni <= cnt
  BY <1>2 DEF DropRequest, EnqueueRequest, MailboxInv
<1>4. PICK r, k, n : r = reqs[ni] /\ k = ni /\ n = cnt
  OBVIOUS
<1>5. k \in 1..n /\ n \in Nat /\ npc # "fill" /\ r \in Tasks /\ r \in live
  BY <1>1, <1>2, <1>3, <1>4, NextRequest
<1>6. hdr[r] # Null /\ IsTask(r) /\ hdr[r].core = types[k]
  BY <1>1, <1>2, <1>4, <1>5 DEF MailAddressed, AddressedTo, CellInv, IsTask
<1>7. Pending = k..n /\ Pending' = (k + 1)..n
  BY <1>1, <1>4, <1>5 DEF Pending
<1>8. n <= Batch /\ Len(Mailbox) = Batch /\ Batch \in Nat
  BY <1>2, <1>4, SizeAssumption DEF NetTypeOK, Parts
<1>9. k \in 1..Len(Mailbox) /\ k \in Slots /\ types[k] \in Workers
  BY <1>2, <1>5, <1>8 DEF Slots, NetTypeOK
<1>10. Mailbox[k] = r /\ \A i \in 1..(k - 1) : Mailbox[i] = Null
  BY <1>4, <1>5, <1>7, <1>8, <1>9 DEF Mailbox, Slots
<1>11. Mailbox' = [Mailbox EXCEPT ![k] = Null]
  <2>1. \A i \in Slots : i \in Pending' <=> i \in Pending /\ i # k
    BY <1>5, <1>7 DEF Slots
  <2>2. QED
    BY <1>1, <2>1 DEF Mailbox
<1>12. \A v \in Workers : Unanswered(v)' <=> Unanswered(v)
  BY <1>1 DEF Unanswered, InService
<1>13. QED
  BY <1>1, <1>4, <1>5, <1>6, <1>9, <1>10, <1>11, <1>12 DEF TakenFor

\* It is the first request of the mailbox for its worker, and for no other.
LEMMA MailboxFirst ==
  ASSUME Parts, Parts', NEW r, NEW w, TakenFor(r, w), NEW v \in Workers
  PROVE  Among(Mailbox, TasksFor(v))
           = IF v = w THEN Join(One(r), Among(Mailbox', TasksFor(v)))
                      ELSE Among(Mailbox', TasksFor(v))
<1>1. PICK m, n, k, T : m = Mailbox /\ n = Mailbox' /\ k = ni /\ T = TasksFor(v)
  OBVIOUS
<1>2. m \in Seq(Marks) /\ n \in Seq(Marks) /\ k \in 1..Len(m) /\ r \in Marks
  BY <1>1 DEF Parts, TakenFor, Marks
<1>3. Null \in Marks /\ Null \notin T
  BY <1>1, NullAssumption DEF TasksFor, Marks
<1>4. n = [m EXCEPT ![k] = Null] /\ m[k] = r /\ \A i \in 1..(k - 1) : m[i] \notin T
  BY <1>1, <1>3 DEF TakenFor
<1>5. Among(m, T) = Join(Among(One(m[k]), T), Among(n, T))
  <2>1. m \in Seq(Marks)
    BY <1>2
  <2>2. k \in 1..Len(m)
    BY <1>2
  <2>3. NoneBefore(m, k, T)
    BY <1>4 DEF NoneBefore
  <2>4. Swapped(m, k, Null, n)
    BY <1>4 DEF Swapped
  <2>5. Null \in Marks
    BY <1>3
  <2>6. Null \notin T
    BY <1>3
  <2>7. QED
    BY <2>1, <2>2, <2>3, <2>4, <2>5, <2>6, AmongTaken
<1>6. Among(m, T) = Join(Among(One(r), T), Among(n, T))
  BY <1>4, <1>5
<1>7. Among(One(r), T) = IF r \in T THEN One(r) ELSE <<>>
  BY <1>2, AmongSingle
<1>8. r \in T <=> v = w
  BY <1>1 DEF TakenFor, TasksFor
<1>9. Among(n, T) \in Seq(Marks)
  BY <1>2, AmongType
<1>10. Join(<<>>, Among(n, T)) = Among(n, T)
  BY <1>9, JoinEmpty
<1>11. CASE v = w
  BY <1>1, <1>6, <1>7, <1>8, <1>11
<1>12. CASE v # w
  BY <1>1, <1>6, <1>7, <1>8, <1>10, <1>12
<1>13. QED
  BY <1>11, <1>12

\* An accepted request goes to the end of its worker's queue.
LEMMA EnqueuedQueues ==
  ASSUME FatesInv, FatesInv', EnqueueRequest PROVE \A v \in Workers : QueueOf(v)' = QueueOf(v)
<1> USE DEF leafVars, slotVars, sharedVars, netVars, mailVars, dispVars, workVars
<1> SUFFICES ASSUME NEW v \in Workers PROVE QueueOf(v)' = QueueOf(v)
  OBVIOUS
<1>1. IInv /\ Parts /\ Parts' /\ InLine /\ InLine' /\ DispTypeOK
  BY PartsTyped, PartsNext, InLineNow, InLineNext
     DEF FatesInv, RequestsInv, OwnersInv, IInv, TypeOK
<1>2. PICK h, w : h = reqs[ni] /\ w = types[ni]
  OBVIOUS
<1>3. TakenFor(h, w)
  BY <1>2, MailboxTaken
<1>4. PICK e \in Runnable :
        e = [rnbl |-> acont, req |-> reqs[ni], type |-> types[ni], category |-> "PACKET"]
  BY <1>1, EnqueueTask
<1>5. TskqEnqueueTail(w, e) /\ e.req = h
  BY <1>2, <1>4 DEF EnqueueRequest
<1>6. PICK a, q, m, n, r, x, T, z :
        /\ a = Slot(v) /\ q = Queued(v) /\ m = Mailbox /\ n = Mailbox' /\ r = recv_mbufs
        /\ x = rxq /\ T = TasksFor(v) /\ z = Queued(v)'
  OBVIOUS
<1>7. Slot(v)' = a /\ rxq' = x /\ recv_mbufs' = r /\ TasksFor(v)' = T
  BY <1>3, <1>6 DEF TakenFor, Slot, TasksFor, IsTask
<1>8. a \in Seq(Marks) /\ q \in Seq(Marks) /\ z \in Seq(Marks)
  BY <1>1, <1>6 DEF Parts
<1>9. m \in Seq(Marks) /\ n \in Seq(Marks) /\ r \in Seq(Marks) /\ x \in Seq(Marks)
  BY <1>1, <1>6 DEF Parts
<1>10. PICK b, c, d : b = Among(n, T) /\ c = Among(r, T) /\ d = Among(x, T)
  OBVIOUS
<1>11. b \in Seq(Marks) /\ c \in Seq(Marks) /\ d \in Seq(Marks)
  BY <1>9, <1>10, AmongType
<1>12. Among(m, T) = IF v = w THEN Join(One(h), b) ELSE b
  BY <1>1, <1>3, <1>6, <1>10, MailboxFirst
<1>13. QueueOf(v) = Chain(a, q, Among(m, T), c, d)
  BY <1>1, <1>6, <1>10 DEF InLine, Line
<1>14. QueueOf(v)' = Chain(a, z, b, c, d)
  BY <1>1, <1>6, <1>7, <1>10 DEF InLine, Line
<1>15. CASE v = w
  <2>1. h \in Marks /\ One(h) \in Seq(Marks)
    BY <1>3, OneLaw DEF TakenFor, Marks
  <2>2. z = Join(q, One(h))
    <3>1. PICK l \in Nat : l = Len(tskq[v]) /\ DOMAIN tskq[v] = 1..l /\ tskq[v] \in Seq(Runnable)
      BY <1>1 DEF DispTypeOK
    <3>2. tskq'[v] = Append(tskq[v], e)
      BY <1>1, <1>5, <1>15 DEF TskqEnqueueTail, DispTypeOK
    <3>3. /\ Len(tskq'[v]) = l + 1 /\ tskq'[v][l + 1] = e
          /\ \A i \in 1..l : tskq'[v][i] = tskq[v][i]
      BY <3>1, <3>2, Appended
    <3>4. DOMAIN tskq'[v] = 1..(l + 1)
      BY <3>1, <3>2
    <3>5. /\ Len(q) = l /\ \A i \in 1..l : q[i] = tskq[v][i].req
      BY <1>6, <3>1 DEF Queued
    <3>6. /\ Len(z) = l + 1 /\ \A i \in 1..(l + 1) : z[i] = tskq'[v][i].req
      BY <1>6, <3>1, <3>4 DEF Queued
    <3>7. /\ Append(q, h) \in Seq(Marks) /\ Len(Append(q, h)) = l + 1
          /\ \A i \in 1..l : Append(q, h)[i] = q[i]
          /\ Append(q, h)[l + 1] = h
      BY <1>8, <2>1, <3>5, Appended
    <3>8. \A i \in 1..(l + 1) : z[i] = Append(q, h)[i]
      <4>1. \A i \in 1..(l + 1) : i \in 1..l \/ i = l + 1
        OBVIOUS
      <4>2. QED
        BY <1>5, <3>3, <3>5, <3>6, <3>7, <4>1
    <3>9. z = Append(q, h)
      BY <1>8, <3>6, <3>7, <3>8, SeqEqual
    <3>10. QED
      BY <1>8, <2>1, <3>9, JoinLast
  <2>3. PICK o : o = One(h)
    OBVIOUS
  <2>4. o \in Seq(Marks)
    BY <2>1, <2>3
  <2>5. a \in Seq(Marks) /\ q \in Seq(Marks)
    BY <1>8
  <2>6. Chain(a, q, Join(o, b), c, d) = Chain(a, Join(q, o), b, c, d)
    BY <1>11, <2>4, <2>5, ChainFromThird
  <2>7. QED
    BY <1>12, <1>13, <1>14, <1>15, <2>2, <2>3, <2>6
<1>16. CASE v # w
  <2>1. tskq'[v] = tskq[v]
    BY <1>1, <1>5, <1>16 DEF TskqEnqueueTail, DispTypeOK
  <2>2. z = q
    BY <1>6, <2>1 DEF Queued
  <2>3. QED
    BY <1>12, <1>13, <1>14, <1>16, <2>2
<1>17. QED
  BY <1>15, <1>16

\* A request that finds no context leaves its worker's queue, from the place
\* behind all that its worker was given before.
LEMMA DroppedQueues ==
  ASSUME FatesInv, FatesInv', DropRequest PROVE [Queues!Next]_(Queues!vars)
<1> USE DEF leafVars, slotVars, sharedVars, netVars, mailVars, dispVars, workVars
<1>1. IInv /\ RequestSomewhere /\ Parts /\ Parts' /\ InLine /\ InLine' /\ FateInv
  BY PartsTyped, PartsNext, InLineNow, InLineNext DEF FatesInv, RequestsInv, OwnersInv
<1>2. PICK h, w : h = reqs[ni] /\ w = types[ni]
  OBVIOUS
<1>3. TakenFor(h, w)
  BY <1>2, MailboxTaken
<1>4. /\ w \in Workers /\ h \in Tasks /\ h \in Marks /\ lost' = lost \cup {h}
  BY <1>2, <1>3 DEF TakenFor, DropRequest, Marks
<1>5. ASSUME NEW v \in Workers
      PROVE  IF v = w THEN \E k \in DOMAIN QueueOf(v) :
                             /\ QueueOf(v)[k] = h
                             /\ QueueOf(v)' = Queues!Without(QueueOf(v), k)
                      ELSE QueueOf(v)' = QueueOf(v)
  <2>1. PICK a, q, m, n, r, x, T :
          /\ a = Slot(v) /\ q = Queued(v) /\ m = Mailbox /\ n = Mailbox' /\ r = recv_mbufs
          /\ x = rxq /\ T = TasksFor(v)
    OBVIOUS
  <2>2. /\ Slot(v)' = a /\ Queued(v)' = q /\ rxq' = x /\ recv_mbufs' = r /\ TasksFor(v)' = T
    BY <1>3, <2>1 DEF TakenFor, Slot, Queued, TasksFor, IsTask, DropRequest
  <2>3. a \in Seq(Marks) /\ q \in Seq(Marks)
    BY <1>1, <2>1 DEF Parts
  <2>4. m \in Seq(Marks) /\ n \in Seq(Marks) /\ r \in Seq(Marks) /\ x \in Seq(Marks)
    BY <1>1, <2>1 DEF Parts
  <2>5. PICK b, c, d : b = Among(n, T) /\ c = Among(r, T) /\ d = Among(x, T)
    OBVIOUS
  <2>6. b \in Seq(Marks) /\ c \in Seq(Marks) /\ d \in Seq(Marks)
    BY <2>4, <2>5, AmongType
  <2>7. Among(m, T) = IF v = w THEN Join(One(h), b) ELSE b
    BY <1>1, <1>3, <2>1, <2>5, MailboxFirst
  <2>8. QueueOf(v) = Chain(a, q, Among(m, T), c, d)
    BY <1>1, <2>1, <2>5 DEF InLine, Line
  <2>9. QueueOf(v)' = Chain(a, q, b, c, d)
    BY <1>1, <2>1, <2>2, <2>5 DEF InLine, Line
  <2>10. CASE v = w
    <3>1. PICK u : u = QueueOf(v)
      OBVIOUS
    <3>2. u = Chain(a, q, Join(One(h), b), c, d)
      BY <2>7, <2>8, <2>10, <3>1
    <3>3. Leaves(h, u, Chain(a, q, b, c, d))
      BY <1>4, <2>3, <2>6, <3>2, ChainWithout
    <3>4. PICK k \in DOMAIN u : u[k] = h /\ Queues!Without(u, k) = Chain(a, q, b, c, d)
      BY <3>3 DEF Leaves, Queues!Without
    <3>5. QED
      BY <2>9, <2>10, <3>1, <3>4
  <2>11. CASE v # w
    BY <2>7, <2>8, <2>9, <2>11
  <2>12. QED
    BY <2>10, <2>11
<1>6. AnsweredTasks' = AnsweredTasks
  <2>1. NoFate(h)
    <3>1. InMail(h, ni)
      <4>1. ni \in Slots /\ Mailbox[ni] = h /\ h # Null
        BY <1>1, <1>3, <1>4, NullAssumption DEF TakenFor, Parts, Slots
      <4>2. QED
        BY <4>1 DEF Mailbox, InMail
    <3>2. Open(h)
      BY <3>1 DEF Open
    <3>3. QED
      BY <1>1, <1>3, <1>4, <3>2 DEF FateInv, Settled, TakenFor, IsTask
  <2>2. Fates(h) = 0
    BY <1>4, <2>1, FatesCount
  <2>3. ASSUME NEW u \in Tasks, u # h PROVE u \in AnsweredTasks' <=> u \in AnsweredTasks
    <3>1. Fates(u)' = Fates(u)
      BY <1>4, <2>3 DEF Fates, DropRequest
    <3>2. QED
      BY <1>4, <2>3, <3>1 DEF AnsweredTasks
  <2>4. h \notin AnsweredTasks /\ h \notin AnsweredTasks'
    BY <1>4, <2>2 DEF AnsweredTasks
  <2>5. QED
    BY <2>3, <2>4 DEF AnsweredTasks
<1>7. PICK k \in DOMAIN QueueOf(w) :
        QueueOf(w)[k] = h /\ QueueOf(w)' = Queues!Without(QueueOf(w), k)
  BY <1>4, <1>5
<1>8. \A v \in Workers : v # w => QueueOf(v)' = QueueOf(v)
  BY <1>5
<1>9. QED
  BY <1>4, <1>6, <1>7, <1>8, StepDrop

\* Handing finished requests back happens when the mailbox holds no other.
LEMMA ReturnedQueues ==
  ASSUME FatesInv, ReturnFinished PROVE \A v \in Workers : QueueOf(v)' = QueueOf(v)
<1> USE DEF leafVars, slotVars, sharedVars, netVars, mailVars, dispVars, workVars
<1>1. /\ dpc = "accept" /\ dpc' = "release" /\ ni > cnt
      /\ UNCHANGED <<hdr, rxq, recv_mbufs, npc, cnt, tskq, dispatcher_requests,
                     response_flag, wpc, finished>>
  BY DEF ReturnFinished
<1>2. npc # "fill" /\ ni \in Nat /\ cnt \in Nat
  BY <1>1 DEF FatesInv, RequestsInv, OwnersInv, IInv, HandOffInv, MailboxHandOff, TypeOK,
     NetTypeOK, DispTypeOK
<1>3. Pending = {} /\ Pending' = {}
  BY <1>1, <1>2 DEF Pending
<1>4. Mailbox' = Mailbox
  BY <1>3 DEF Mailbox
<1>5. QED
  BY <1>1, <1>4 DEF QueueOf, Unanswered, InService, TasksFor, IsTask

-----------------------------------------------------------------------------
(* The dispatcher and the worker exchange a task.                           *)

\* A response that is finished is for a task already answered.
LEMMA FinishedQueues ==
  ASSUME FatesInv, NEW w \in Workers, HandleFinished(w)
  PROVE  \A v \in Workers : QueueOf(v)' = QueueOf(v)
<1> USE DEF leafVars, slotVars, sharedVars, netVars, mailVars, dispVars, workVars
<1>1. /\ ~InService(w)' /\ response_flag[w] = "FINISHED"
      /\ \A v \in Workers \ {w} :
           response_flag'[v] = response_flag[v] /\ InService(v)' = InService(v)
  BY TakeResponse DEF HandleFinished, FatesInv, RequestsInv, OwnersInv
<1>2. UNCHANGED <<hdr, rxq, recv_mbufs, npc, dpc, nj, ni, cnt, reqs, tskq,
                  dispatcher_requests, wpc, finished>>
  BY DEF HandleFinished
<1>3. \A v \in Workers : Unanswered(v)' <=> Unanswered(v)
  BY <1>1, <1>2 DEF Unanswered
<1>4. QED
  BY <1>2, <1>3, SameParts DEF Pending

\* The first element of a queue, and the others.
LEMMA FirstOf ==
  ASSUME NEW s \in Seq(Runnable), NEW t \in Seq(Runnable), NEW n \in Nat, Len(s) = n,
         Len(t) = n + 1, \A i \in 1..n : t[i + 1] = s[i]
  PROVE  [i \in DOMAIN t |-> t[i].req] = Join(One(t[1].req), [i \in DOMAIN s |-> s[i].req])
<1>1. PICK p, q, x : /\ p = [i \in DOMAIN t |-> t[i].req] /\ q = [i \in DOMAIN s |-> s[i].req]
                     /\ x = t[1].req
  OBVIOUS
<1>2. DOMAIN s = 1..n /\ DOMAIN t = 1..(n + 1)
  OBVIOUS
<1>3. \A e \in Runnable : e.req \in Tasks
  BY DEF Runnable
<1>4. (\A i \in 1..n : s[i] \in Runnable) /\ \A i \in 1..(n + 1) : t[i] \in Runnable
  BY <1>2
<1>5. q \in [1..n -> Tasks] /\ p \in [1..(n + 1) -> Tasks] /\ x \in Tasks
  BY <1>1, <1>2, <1>3, <1>4
<1>6. q \in Seq(Tasks) /\ Len(q) = n
  BY <1>5
<1>7. p \in Seq(Tasks) /\ Len(p) = n + 1
  BY <1>5
<1>8. PICK u : u = <<x>> \o q
  OBVIOUS
<1>9. u \in Seq(Tasks)
  BY <1>5, <1>6, <1>8
<1>10. Len(u) = n + 1 /\ u[1] = x /\ \A i \in 1..n : u[i + 1] = q[i]
  <2>1. q \in Seq(Tasks) /\ x \in Tasks
    BY <1>5, <1>6
  <2>2. /\ Len(<<x>> \o q) = Len(q) + 1 /\ (<<x>> \o q)[1] = x
        /\ \A i \in 1..Len(q) : (<<x>> \o q)[i + 1] = q[i]
    BY <2>1, Prepended
  <2>3. QED
    BY <1>6, <1>8, <2>2
<1>11. p[1] = x /\ \A i \in 1..n : p[i + 1] = q[i]
  BY <1>1, <1>2
<1>12. \A i \in 1..(n + 1) : i = 1 \/ (i - 1 \in 1..n /\ (i - 1) + 1 = i)
  OBVIOUS
<1>13. ASSUME NEW i \in 1..(n + 1) PROVE p[i] = u[i]
  <2>1. CASE i = 1
    BY <1>10, <1>11, <2>1
  <2>2. ASSUME NEW j \in 1..n, j + 1 = i PROVE p[i] = u[i]
    <3>1. p[j + 1] = q[j] /\ u[j + 1] = q[j]
      BY <1>10, <1>11
    <3>2. QED
      BY <2>2, <3>1
  <2>3. QED
    BY <1>12, <2>1, <2>2
<1>14. p = u
  BY <1>7, <1>9, <1>10, <1>13, SeqEqual
<1>15. QED
  BY <1>1, <1>8, <1>14 DEF Join, One

\* Task r of worker w moves between the head of the queue and the slot.
MovedBetween(r, w, a, q, b, p) ==
  a = One(r) /\ b = <<>> /\ p = Join(One(r), q) /\ r \in Tasks /\ w \in Workers

\* What the move leaves alone.
OthersStay(w) ==
  /\ UNCHANGED <<hdr, rxq, recv_mbufs, reqs>> /\ Pending' = Pending
  /\ \A v \in Workers \ {w} : Slot(v)' = Slot(v) /\ Queued(v)' = Queued(v)

LEMMA MovedQueues ==
  ASSUME FatesInv, FatesInv', NEW w \in Workers, NEW r, OthersStay(w),
         \/ MovedBetween(r, w, Slot(w), Queued(w), Slot(w)', Queued(w)')
         \/ MovedBetween(r, w, Slot(w)', Queued(w)', Slot(w), Queued(w))
  PROVE  \A v \in Workers : QueueOf(v)' = QueueOf(v)
<1> SUFFICES ASSUME NEW v \in Workers PROVE QueueOf(v)' = QueueOf(v)
  OBVIOUS
<1>1. Parts /\ Parts' /\ InLine /\ InLine'
  BY PartsTyped, PartsNext, InLineNow, InLineNext DEF FatesInv, RequestsInv, OwnersInv
<1>2. Mailbox' = Mailbox /\ TasksFor(v)' = TasksFor(v)
  BY DEF OthersStay, Mailbox, TasksFor, IsTask
<1>3. PICK a, q, b, p, m, s, x, T :
        /\ a = Slot(v) /\ q = Queued(v) /\ b = Slot(v)' /\ p = Queued(v)' /\ T = TasksFor(v)
        /\ m = Among(Mailbox, T) /\ s = Among(recv_mbufs, T) /\ x = Among(rxq, T)
  OBVIOUS
<1>4. QueueOf(v) = Chain(a, q, m, s, x)
  BY <1>1, <1>3 DEF InLine, Line
<1>5. QueueOf(v)' = Chain(b, p, m, s, x)
  BY <1>1, <1>2, <1>3 DEF InLine, Line, OthersStay
<1>6. CASE v # w
  BY <1>3, <1>4, <1>5, <1>6 DEF OthersStay
<1>7. CASE v = w
  <2>1. m \in Seq(Marks) /\ s \in Seq(Marks) /\ x \in Seq(Marks)
    BY <1>1, <1>3, AmongType DEF Parts
  <2>2. q \in Seq(Marks) /\ p \in Seq(Marks)
    BY <1>1, <1>3 DEF Parts
  <2>3. MovedBetween(r, v, a, q, b, p) \/ MovedBetween(r, v, b, p, a, q)
    BY <1>3, <1>7
  <2>4. PICK o : o = One(r)
    OBVIOUS
  <2>5. r \in Marks
    BY <2>3 DEF MovedBetween, Marks
  <2>6. o \in Seq(Marks)
    BY <2>4, <2>5, OneLaw
  <2>7. Chain(<<>>, Join(o, q), m, s, x) = Chain(o, q, m, s, x)
    BY <2>1, <2>2, <2>6, ChainFromSecond
  <2>8. Chain(<<>>, Join(o, p), m, s, x) = Chain(o, p, m, s, x)
    BY <2>1, <2>2, <2>6, ChainFromSecond
  <2>9. CASE MovedBetween(r, v, a, q, b, p)
    BY <1>4, <1>5, <2>4, <2>7, <2>9 DEF MovedBetween
  <2>10. CASE MovedBetween(r, v, b, p, a, q)
    BY <1>4, <1>5, <2>4, <2>8, <2>10 DEF MovedBetween
  <2>11. QED
    BY <2>3, <2>9, <2>10
<1>8. QED
  BY <1>6, <1>7

\* A preempted task goes back to the head of its queue.
LEMMA PreemptedQueues ==
  ASSUME FatesInv, FatesInv', RequeueHead, NEW w \in Workers, HandlePreempted(w)
  PROVE  \A v \in Workers : QueueOf(v)' = QueueOf(v)
<1> USE DEF leafVars, slotVars, sharedVars, netVars, mailVars, dispVars, workVars
<1>1. IInv /\ SlotKept /\ DispTypeOK /\ HandOffTypes /\ SlotOwner
  BY DEF FatesInv, RequestsInv, OwnersInv, IInv, TypeOK, HandOffInv
<1>2. PICK r, e : r = worker_responses[w].req /\ e = worker_responses[w]
  OBVIOUS
<1>3. /\ InService(w) /\ ~InService(w)' /\ response_flag[w] = "PREEMPTED"
      /\ \A v \in Workers \ {w} :
           response_flag'[v] = response_flag[v] /\ InService(v)' = InService(v)
      /\ Runs(e, w) /\ e.req = dispatcher_requests[w].req /\ wpc[w] \notin Using
  BY <1>1, <1>2, TakeResponse DEF HandlePreempted, SlotOwner
<1>4. /\ UNCHANGED <<hdr, rxq, recv_mbufs, reqs, npc, nj, cnt, dpc, ni, dispatcher_requests,
                     wpc, finished>>
  BY DEF HandlePreempted
<1>5. e.type = w /\ e \in Runnable /\ e.req = r /\ r \in Tasks
  BY <1>2, <1>3 DEF Runs, Runnable
<1>6. tskq' = [tskq EXCEPT ![w] = <<e>> \o @]
  BY <1>2, <1>5 DEF HandlePreempted, TskqEnqueueHead
<1>7. OthersStay(w)
  <2>1. Pending' = Pending
    BY <1>4 DEF Pending
  <2>2. \A v \in Workers \ {w} : Slot(v)' = Slot(v) /\ Queued(v)' = Queued(v)
    BY <1>1, <1>3, <1>4, <1>6 DEF DispTypeOK, Slot, Queued, Unanswered
  <2>3. QED
    BY <1>4, <2>1, <2>2 DEF OthersStay
<1>8. Slot(w) = One(r) /\ Slot(w)' = <<>>
  BY <1>2, <1>3 DEF Slot, Unanswered, Using
<1>9. Queued(w)' = Join(One(r), Queued(w))
  <2>1. PICK s, t : s = tskq[w] /\ t = tskq'[w]
    OBVIOUS
  <2>2. s \in Seq(Runnable)
    BY <1>1, <2>1 DEF DispTypeOK
  <2>3. PICK n \in Nat : n = Len(s)
    BY <2>2
  <2>4. t = <<e>> \o s
    BY <1>1, <1>6, <2>1 DEF DispTypeOK
  <2>5. t \in Seq(Runnable)
    BY <1>5, <2>2, <2>4
  <2>6. Len(t) = n + 1 /\ t[1] = e /\ \A i \in 1..n : t[i + 1] = s[i]
    BY <1>5, <2>2, <2>3, <2>4, Prepended
  <2>7. [i \in DOMAIN t |-> t[i].req] = Join(One(t[1].req), [i \in DOMAIN s |-> s[i].req])
    BY <2>2, <2>3, <2>5, <2>6, FirstOf
  <2>8. QED
    BY <1>5, <2>1, <2>6, <2>7 DEF Queued
<1>10. MovedBetween(r, w, Slot(w), Queued(w), Slot(w)', Queued(w)')
  BY <1>5, <1>8, <1>9 DEF MovedBetween
<1>11. QED
  BY <1>7, <1>10, MovedQueues

\* A dispatched task leaves the head of its queue for its core.
LEMMA DispatchedQueues ==
  ASSUME FatesInv, FatesInv', NEW w \in Workers, DispatchRequest(w)
  PROVE  \A v \in Workers : QueueOf(v)' = QueueOf(v)
<1> USE DEF leafVars, slotVars, sharedVars, netVars, mailVars, dispVars, workVars
<1>1. IInv /\ IInv' /\ DispTypeOK /\ DispTypeOK'
  BY DEF FatesInv, RequestsInv, OwnersInv, IInv, TypeOK
<1>2. PICK s, t, r : s = tskq'[w] /\ t = tskq[w] /\ r = tskq[w][1].req
  OBVIOUS
<1>3. /\ ~InService(w) /\ InService(w)' /\ response_flag'[w] = "RUNNING" /\ wpc[w] \in Idling
      /\ \A v \in Workers \ {w} :
           /\ response_flag'[v] = response_flag[v] /\ InService(v)' = InService(v)
           /\ dispatcher_requests'[v] = dispatcher_requests[v]
           /\ tskq'[v] = tskq[v]
      /\ dispatcher_requests'[w].req = r
  BY <1>1, <1>2, TakeTask
<1>4. /\ UNCHANGED <<hdr, rxq, recv_mbufs, npc, nj, ni, cnt, reqs, wpc, finished>>
      /\ dpc = "worker" /\ dpc' = "activate"
  BY DEF DispatchRequest, AtWorker
<1>5. OthersStay(w)
  <2>1. Pending' = Pending
    BY <1>4 DEF Pending
  <2>2. \A v \in Workers \ {w} : Slot(v)' = Slot(v) /\ Queued(v)' = Queued(v)
    BY <1>3, <1>4 DEF Slot, Queued, Unanswered
  <2>3. QED
    BY <1>4, <2>1, <2>2 DEF OthersStay
<1>6. Slot(w) = <<>> /\ Slot(w)' = One(r)
  BY <1>3, <1>4 DEF Slot, Unanswered, Idling
<1>7. s \in Seq(Runnable) /\ t \in Seq(Runnable)
  BY <1>1, <1>2 DEF DispTypeOK
<1>8. PICK n \in Nat : n = Len(s)
  BY <1>7
<1>9. Len(t) = n + 1
  <2>1. Len(t) \in Nat /\ n = Len(t) - 1
    BY <1>1, <1>2, <1>8, TakeTask
  <2>2. QED
    BY <1>8, <2>1
<1>10. \A i \in 1..n : t[i + 1] = s[i]
  <2>1. \A i \in 2..(n + 1) : s[i - 1] = t[i]
    BY <1>1, <1>2, <1>9, TakeTask
  <2>2. \A i \in 1..n : i + 1 \in 2..(n + 1) /\ (i + 1) - 1 = i
    BY <1>8
  <2>3. QED
    BY <2>1, <2>2
<1>11. [i \in DOMAIN t |-> t[i].req] = Join(One(t[1].req), [i \in DOMAIN s |-> s[i].req])
  BY <1>7, <1>8, <1>9, <1>10, FirstOf
<1>12. Queued(w) = Join(One(r), Queued(w)')
  BY <1>2, <1>11 DEF Queued
<1>13. r \in Tasks
  BY <1>1, <1>2, TakeTask DEF Runnable
<1>14. MovedBetween(r, w, Slot(w)', Queued(w)', Slot(w), Queued(w))
  BY <1>6, <1>12, <1>13 DEF MovedBetween
<1>15. QED
  BY <1>5, <1>14, MovedQueues

-----------------------------------------------------------------------------
(* A worker answers.                                                        *)

\* The replies to a task that wait in the transmit queues are finitely many.
RepliesTo(t) == UNION {{<<w, i>> : i \in {j \in DOMAIN txq[w] : txq[w][j].task = t}}
                        : w \in Workers}

LEMMA RepliesFinite == ASSUME WorkTypeOK, NEW t PROVE IsFiniteSet(RepliesTo(t))
<1> DEFINE In(w) == {<<w, i>> : i \in {j \in DOMAIN txq[w] : txq[w][j].task = t}}
           S == {In(w) : w \in Workers}
           f == [w \in Workers |-> In(w)]
<1>1. ASSUME NEW w \in Workers PROVE IsFiniteSet(In(w))
  <2>1. PICK n \in Nat : DOMAIN txq[w] = 1..n
    BY DEF WorkTypeOK
  <2>2. IsFiniteSet({w}) /\ IsFiniteSet(1..n)
    <3>1. 1 \in Int /\ n \in Int
      OBVIOUS
    <3>2. QED
      BY <3>1, FS_Singleton, FS_Interval
  <2>3. IsFiniteSet({w} \X (1..n))
    BY <2>2, FS_Product
  <2>4. In(w) \subseteq {w} \X (1..n)
    BY <2>1
  <2>5. QED
    BY <2>3, <2>4, FS_Subset
<1>2. IsFiniteSet(Workers)
  <2>1. 0 \in Int /\ NumWorkers - 1 \in Int
    BY SizeAssumption
  <2>2. QED
    BY <2>1, FS_Interval DEF Workers
<1>3. IsFiniteSet(S)
  <2>1. f \in Surjection(Workers, S)
    BY DEF Surjection
  <2>2. QED
    BY <1>2, <2>1, FS_Surjection
<1>4. \A x \in S : IsFiniteSet(x)
  BY <1>1
<1>5. IsFiniteSet(UNION S)
  BY <1>3, <1>4, FS_UNION
<1>6. QED
  BY <1>5 DEF RepliesTo

\* The tasks answered: those with a reply, on the wire or about to be.
AnsweredKnown ==
  \A t \in Tasks : t \in AnsweredTasks <=> t \notin lost /\ (answered[t] # 0 \/ ~NoReply(t))

LEMMA AnsweredIs == IInv => AnsweredKnown
<1> SUFFICES ASSUME IInv, NEW t \in Tasks
             PROVE  t \in AnsweredTasks <=> t \notin lost /\ (answered[t] # 0 \/ ~NoReply(t))
  BY DEF AnsweredKnown
<1>1. WorkTypeOK /\ LeafTypeOK
  BY DEF IInv, TypeOK
<1>2. PICK n, k : n = answered[t] /\ k = Cardinality(RepliesTo(t))
  OBVIOUS
<1>3. n \in Nat
  BY <1>1, <1>2 DEF LeafTypeOK
<1>4. k \in Nat /\ (k = 0 <=> RepliesTo(t) = {})
  BY <1>1, <1>2, RepliesFinite, FS_EmptySet, FS_CardinalityType
<1>5. RepliesTo(t) = {} <=> NoReply(t)
  <2>1. \A w \in Workers : DOMAIN txq[w] = 1..Len(txq[w])
    BY <1>1 DEF WorkTypeOK
  <2> DEFINE In(w) == {<<w, i>> : i \in {j \in DOMAIN txq[w] : txq[w][j].task = t}}
  <2>2. ASSUME NEW w \in Workers, NEW p
        PROVE  p \in In(w) <=> \E z : p = <<w, z>> /\ ReplyAt(t, w, z)
    BY <2>1 DEF ReplyAt
  <2>3. RepliesTo(t) = UNION {In(w) : w \in Workers}
    BY DEF RepliesTo
  <2> HIDE DEF In
  <2>4. \A p : p \in RepliesTo(t) <=> \E y, z : p = <<y, z>> /\ ReplyAt(t, y, z)
    BY <2>2, <2>3 DEF ReplyAt
  <2>5. QED
    BY <2>4 DEF NoReply
<1>6. t \notin lost => Fates(t) = n + k
  BY <1>2, <1>3, <1>4 DEF Fates, RepliesTo
<1>7. QED
  BY <1>2, <1>3, <1>4, <1>5, <1>6 DEF AnsweredTasks

LEMMA AnsweredNext == IInv' => AnsweredKnown'
  BY AnsweredIs, PTL

\* process_send answers no task that had no reply, and the reply counts before
\* and after.
LEMMA FlushedQueues ==
  ASSUME FatesInv, FatesInv', NEW w \in Workers, ProcessSend(w)
  PROVE  [Queues!Next]_(Queues!vars)
<1> USE DEF leafVars, slotVars, sharedVars, netVars, mailVars, dispVars, workVars
<1>1. /\ LeafTypeOK /\ WorkTypeOK /\ HandOffTypes /\ AnsweredKnown /\ AnsweredKnown'
      /\ LeafTypeOK'
  BY AnsweredIs, AnsweredNext DEF FatesInv, RequestsInv, OwnersInv, IInv, HandOffInv, TypeOK
<1>2. /\ wpc[w] = "loop" /\ wpc'[w] = "poll"
      /\ \A v \in Workers \ {w} : wpc'[v] = wpc[v] /\ txq'[v] = txq[v]
      /\ txq'[w] = <<>>
      /\ UNCHANGED <<hdr, rxq, lost, recv_mbufs, npc, dpc, nj, ni, cnt, reqs, tskq,
                     dispatcher_requests, response_flag, finished>>
  BY <1>1 DEF ProcessSend, Goto, WorkTypeOK
<1>3. \A v \in Workers : Unanswered(v)' <=> Unanswered(v)
  BY <1>1, <1>2 DEF Unanswered, InService
<1>4. \A v \in Workers : QueueOf(v)' = QueueOf(v)
  BY <1>2, <1>3, SameParts DEF Pending
<1>5. \A t, y, z : ReplyAt(t, y, z)' <=> ReplyAt(t, y, z) /\ y # w
  BY <1>2 DEF ReplyAt
<1>6. ASSUME NEW t \in Tasks
      PROVE  (answered'[t] # 0 \/ ~NoReply(t)') <=> (answered[t] # 0 \/ ~NoReply(t))
  <2>1. PICK I : I = {i \in DOMAIN txq[w] : txq[w][i].task = t}
    OBVIOUS
  <2>2. answered'[t] = answered[t] + Cardinality(I) /\ answered[t] \in Nat
    BY <1>1, <2>1 DEF ProcessSend, LeafTypeOK
  <2>3. PICK n \in Nat : DOMAIN txq[w] = 1..n /\ Len(txq[w]) = n
    BY <1>1 DEF WorkTypeOK
  <2>4. IsFiniteSet(I)
    <3>1. IsFiniteSet(1..n)
      <4>1. 1 \in Int /\ n \in Int
        OBVIOUS
      <4>2. QED
        BY <4>1, FS_Interval
    <3>2. I \subseteq 1..n
      BY <2>1, <2>3
    <3>3. QED
      BY <3>1, <3>2, FS_Subset
  <2>5. Cardinality(I) \in Nat /\ (Cardinality(I) = 0 <=> I = {})
    BY <2>4, FS_EmptySet, FS_CardinalityType
  <2>6. I = {} <=> \A z : ~ReplyAt(t, w, z)
    BY <2>1, <2>3 DEF ReplyAt
  <2>7. NoReply(t) <=> NoReply(t)' /\ I = {}
    BY <1>5, <2>6 DEF NoReply
  <2>8. QED
    BY <2>2, <2>5, <2>7
<1>7. AnsweredTasks' = AnsweredTasks
  BY <1>1, <1>2, <1>6 DEF AnsweredKnown, AnsweredTasks
<1>8. QED
  BY <1>2, <1>4, <1>7, StepNone

\* The reply of a worker, or its loss, takes the task at the head of its queue.
LEMMA RepliedQueues ==
  ASSUME FatesInv, FatesInv', NEW w \in Workers, SendReply(w)
  PROVE  [Queues!Next]_(Queues!vars)
<1> USE DEF leafVars, slotVars, sharedVars, netVars, mailVars, dispVars, workVars
<1>1. /\ IInv /\ SlotKept /\ SlotAddressed /\ RequestSomewhere /\ WorkTypeOK /\ HandOffTypes
      /\ SlotOwner /\ SlotContent /\ LeafTypeOK
  BY DEF FatesInv, RequestsInv, OwnersInv, IInv, HandOffInv, TypeOK
<1>2. Parts /\ Parts' /\ InLine /\ InLine' /\ AnsweredKnown /\ AnsweredKnown'
  BY PartsTyped, PartsNext, InLineNow, InLineNext, AnsweredIs, AnsweredNext
     DEF FatesInv, RequestsInv, OwnersInv
<1>3. PICK r : r = dispatcher_requests[w].req
  OBVIOUS
<1>4. wpc[w] = "reply" /\ response_flag[w] = "RUNNING"
  BY <1>1 DEF SendReply, Goto, SlotOwner, Using
<1>5. InService(w) /\ Unanswered(w) /\ job[cont[w]] = r /\ r \in Tasks
  BY <1>1, <1>3, <1>4 DEF InService, Unanswered, SlotKept, SlotAddressed, SlotContent, Using,
     Runs, Runnable
<1>6. /\ finished'[w] = TRUE /\ wpc'[w] = "finish"
      /\ \A v \in Workers \ {w} : wpc'[v] = wpc[v] /\ finished'[v] = finished[v]
      /\ UNCHANGED <<hdr, rxq, recv_mbufs, npc, dpc, nj, ni, cnt, reqs, tskq,
                     dispatcher_requests, response_flag, answered>>
  BY <1>1 DEF SendReply, Goto, WorkTypeOK
<1>7. Slot(w) = One(r) /\ Slot(w)' = <<>>
  BY <1>3, <1>5, <1>6 DEF Slot, Unanswered
<1>8. /\ \A v \in Workers \ {w} : Slot(v)' = Slot(v)
      /\ \A v \in Workers : Queued(v)' = Queued(v) /\ TasksFor(v)' = TasksFor(v)
      /\ Mailbox' = Mailbox
  BY <1>6 DEF Slot, Queued, Unanswered, InService, TasksFor, IsTask, Mailbox, Pending
<1>9. \A v \in Workers : v # w => QueueOf(v)' = QueueOf(v)
  BY <1>2, <1>6, <1>8 DEF InLine
<1>10. QueueOf(w)' \in Seq(Marks) /\ QueueOf(w) = Join(One(r), QueueOf(w)')
  <2>1. PICK q, m, s, x, T :
          /\ q = Queued(w) /\ T = TasksFor(w)
          /\ m = Among(Mailbox, T) /\ s = Among(recv_mbufs, T) /\ x = Among(rxq, T)
    OBVIOUS
  <2>2. m \in Seq(Marks) /\ s \in Seq(Marks) /\ x \in Seq(Marks)
    BY <1>2, <2>1, AmongType DEF Parts
  <2>3. q \in Seq(Marks)
    BY <1>2, <2>1 DEF Parts
  <2>4. PICK o : o = One(r)
    OBVIOUS
  <2>5. r \in Marks
    BY <1>5 DEF Marks
  <2>6. o \in Seq(Marks)
    BY <2>4, <2>5, OneLaw
  <2>7. QueueOf(w) = Chain(o, q, m, s, x)
    BY <1>2, <1>7, <2>1, <2>4 DEF InLine, Line
  <2>8. QueueOf(w)' = Chain(<<>>, q, m, s, x)
    BY <1>2, <1>6, <1>7, <1>8, <2>1 DEF InLine, Line
  <2>9. Chain(o, q, m, s, x) = Join(o, Chain(<<>>, q, m, s, x))
    BY <2>2, <2>3, <2>6, ChainLeft
  <2>10. <<>> \in Seq(Marks)
    OBVIOUS
  <2>11. Chain(<<>>, q, m, s, x) \in Seq(Marks)
    BY <2>2, <2>3, <2>10, ChainType
  <2>12. QED
    BY <2>4, <2>7, <2>8, <2>9, <2>11
<1>11. /\ QueueOf(w) # <<>> /\ Head(QueueOf(w)) = r /\ QueueOf(w)' = Tail(QueueOf(w))
  <2>1. PICK u, p : u = QueueOf(w) /\ p = QueueOf(w)'
    OBVIOUS
  <2>2. p \in Seq(Marks) /\ r \in Marks
    BY <1>5, <1>10, <2>1 DEF Marks
  <2>3. Join(One(r), p) # <<>> /\ Head(Join(One(r), p)) = r /\ Tail(Join(One(r), p)) = p
    BY <2>2, JoinHead
  <2>4. QED
    BY <1>10, <2>1, <2>3
<1>12. NoFate(r)
  <2>1. r \in live
    BY <1>1, <1>3, <1>5, FoundRequest DEF RequestAt, InCore
  <2>2. Open(r)
    BY <1>3, <1>5 DEF Open, Answering
  <2>3. QED
    BY <1>5, <2>1, <2>2, LiveSent DEF FatesInv, FateInv, Settled
<1>13. CASE UNCHANGED txq /\ lost' = lost \cup {r}
  <2>1. AnsweredTasks' = AnsweredTasks
    <3>1. \A t, y, z : ReplyAt(t, y, z)' <=> ReplyAt(t, y, z)
      BY <1>13 DEF ReplyAt
    <3>2. \A t : NoReply(t)' <=> NoReply(t)
      BY <3>1 DEF NoReply
    <3>3. \A t \in Tasks : t # r => (t \in AnsweredTasks' <=> t \in AnsweredTasks)
      BY <1>2, <1>6, <1>13, <3>2 DEF AnsweredKnown
    <3>4. r \notin AnsweredTasks /\ r \notin AnsweredTasks'
      BY <1>2, <1>5, <1>12, <1>13 DEF AnsweredKnown, NoFate
    <3>5. QED
      BY <3>3, <3>4 DEF AnsweredTasks
  <2>2. Leaves(r, QueueOf(w), QueueOf(w)')
    <3>1. PICK u, p : u = QueueOf(w) /\ p = QueueOf(w)'
      OBVIOUS
    <3>2. p \in Seq(Marks) /\ r \in Marks
      BY <1>5, <1>10, <3>1 DEF Marks
    <3>3. <<>> \in Seq(Marks)
      OBVIOUS
    <3>4. Leaves(r, Join(<<>>, Join(One(r), p)), Join(<<>>, p))
      BY <3>2, <3>3, JoinWithout
    <3>5. One(r) \in Seq(Marks)
      BY <3>2, OneLaw
    <3>6. Join(One(r), p) \in Seq(Marks)
      BY <3>2, <3>5, JoinType
    <3>7. Join(<<>>, Join(One(r), p)) = Join(One(r), p)
      BY <3>6, JoinEmpty
    <3>8. Join(<<>>, p) = p
      BY <3>2, JoinEmpty
    <3>9. QED
      BY <1>10, <3>1, <3>4, <3>7, <3>8
  <2>3. PICK k \in DOMAIN QueueOf(w) :
          QueueOf(w)[k] = r /\ QueueOf(w)' = Queues!Without(QueueOf(w), k)
    BY <2>2 DEF Leaves, Queues!Without
  <2>4. QED
    BY <1>9, <1>13, <2>1, <2>3, StepDrop
<1>14. ASSUME NEW e, e.task = r, UNCHANGED lost, txq' = [txq EXCEPT ![w] = Append(@, e)],
              e \in Reply
       PROVE  [Queues!Next]_(Queues!vars)
  <2>1. txq[w] \in Seq(Reply)
    BY <1>1 DEF WorkTypeOK
  <2>2. PICK n \in Nat : n = Len(txq[w])
    BY <2>1
  <2>3. /\ Len(txq'[w]) = n + 1 /\ txq'[w][n + 1] = e
        /\ \A i \in 1..n : txq'[w][i] = txq[w][i]
        /\ \A v \in Workers \ {w} : txq'[v] = txq[v]
    BY <1>1, <1>14, <2>1, <2>2, Appended DEF WorkTypeOK
  <2>4. ASSUME NEW t, NEW y, NEW z
        PROVE  ReplyAt(t, y, z)' <=> ReplyAt(t, y, z) \/ (t = r /\ y = w /\ z = n + 1)
    BY <1>14, <2>2, <2>3 DEF ReplyAt
  <2>5. ~NoReply(r)' /\ \A t : t # r => (NoReply(t)' <=> NoReply(t))
    BY <2>4 DEF NoReply
  <2>6. \A t \in Tasks : t # r => (t \in AnsweredTasks' <=> t \in AnsweredTasks)
    BY <1>2, <1>6, <1>14, <2>5 DEF AnsweredKnown
  <2>7. r \in AnsweredTasks'
    BY <1>2, <1>5, <1>12, <1>14, <2>5 DEF AnsweredKnown, NoFate
  <2>8. AnsweredTasks' = AnsweredTasks \cup {r}
    BY <1>5, <2>6, <2>7 DEF AnsweredTasks
  <2>9. QED
    BY <1>9, <1>11, <1>14, <2>8, StepAnswer
<1>15. \/ UNCHANGED txq /\ lost' = lost \cup {r}
       \/ UNCHANGED lost
          /\ \E e \in Reply : e.task = r /\ txq' = [txq EXCEPT ![w] = Append(@, e)]
  <2>1. [task |-> r, qlen |-> new_qlen[w], idle |-> new_qlen[w] = 0 /\ worker_state[w] > 0]
          \in Reply
    BY <1>1, <1>5 DEF Reply, WorkTypeOK
  <2>2. QED
    BY <1>5, <2>1 DEF SendReply
<1>16. QED
  BY <1>13, <1>14, <1>15

-----------------------------------------------------------------------------
(* Every step.                                                              *)

\* A core that is not preempted replies before it reports.
NeverPreempted ==
  ~Preemption => \A w \in Workers :
    /\ ~ipi[w]
    /\ response_flag[w] # "PREEMPTED"
    /\ wpc[w] \in {"finish", "publish"} => finished[w]

LEMMA NeverPreemptedInit == Init => NeverPreempted
  BY DEF Init, NeverPreempted

LEMMA NeverPreemptedStep == IInv /\ NeverPreempted /\ [Next]_vars => NeverPreempted'
<1> SUFFICES ASSUME IInv, NeverPreempted, [Next]_vars, ~Preemption PROVE NeverPreempted'
  BY DEF NeverPreempted
<1> USE DEF leafVars, slotVars, sharedVars, netVars, mailVars, dispVars, workVars
<1>1. WorkTypeOK /\ SharedTypeOK
  BY DEF IInv, TypeOK
<1>2. CASE LeafNext \/ NetworkerNext \/ HandleNetworker \/ UNCHANGED vars
  <2>1. UNCHANGED <<ipi, response_flag, wpc, finished>>
    BY <1>2 DEF LeafNext, SelectIdle, SelectRandom, SendOther, Send, NetworkerNext, Receive,
         FreeFinished, RqUpdate, PostPointers, HandleNetworker, NoPackets, BeginPackets,
         DropRequest, AcceptRequest, EnqueueRequest, ReturnFinished, ReleasePointers, vars
  <2>2. QED
    BY <2>1 DEF NeverPreempted
<1>3. ASSUME NEW w \in Workers, HandleWorker(w) PROVE NeverPreempted'
  <2>1. UNCHANGED <<ipi, wpc, finished>>
    BY <1>3 DEF HandleWorker, SkipWorker, PreemptWorker, HandleFinished, HandlePreempted,
         NothingToDispatch, DispatchRequest, ActivateRequest
  <2>2. \A v \in Workers : response_flag'[v] \in {response_flag[v], "PROCESSED", "RUNNING"}
    BY <1>1, <1>3 DEF HandleWorker, SkipWorker, PreemptWorker, HandleFinished, HandlePreempted,
         NothingToDispatch, DispatchRequest, ActivateRequest, Processed, SharedTypeOK
  <2>3. QED
    BY <2>1, <2>2 DEF NeverPreempted
<1>4. ASSUME NEW w \in Workers, WorkerNext(w) PROVE NeverPreempted'
  <2>1. CASE InitWorker(w) \/ ResetWorkerState(w) \/ ProcessSend(w) \/ TakeRequest(w)
    BY <1>1, <2>1 DEF InitWorker, ResetWorkerState, ProcessSend, TakeRequest, Goto, WorkTypeOK,
         SharedTypeOK, NeverPreempted
  <2>2. CASE StartRequest(w) \/ ReadQueueLength(w)
    BY <1>1, <2>2 DEF StartRequest, ReadQueueLength, Goto, WorkTypeOK, NeverPreempted
  <2>3. CASE PreemptHandler(w)
    BY <2>3 DEF PreemptHandler, NeverPreempted
  <2>4. CASE SendReply(w)
    BY <1>1, <2>4 DEF SendReply, Goto, WorkTypeOK, NeverPreempted
  <2>5. CASE FillResponse(w)
    BY <1>1, <2>5 DEF FillResponse, Goto, WorkTypeOK, NeverPreempted
  <2>6. CASE PublishResponse(w)
    BY <1>1, <2>6 DEF PublishResponse, Outcome, Goto, WorkTypeOK, SharedTypeOK, NeverPreempted
  <2>7. QED
    BY <1>4, <2>1, <2>2, <2>3, <2>4, <2>5, <2>6 DEF WorkerNext
<1>5. QED
  BY <1>2, <1>3, <1>4 DEF Next, DispatcherNext

\* A step that touches neither the places of tasks nor their replies.
LEMMA PlacesStay ==
  ASSUME UNCHANGED <<hdr, rxq, recv_mbufs, reqs, tskq, dispatcher_requests, answered, txq,
                     lost>>,
         Pending' = Pending, \A w \in Workers : Unanswered(w)' <=> Unanswered(w)
  PROVE  [Queues!Next]_(Queues!vars)
<1>1. \A v \in Workers : QueueOf(v)' = QueueOf(v)
  BY SameParts
<1>2. AnsweredTasks' = AnsweredTasks
  BY AnsweredStay
<1>3. QED
  BY <1>1, <1>2, StepNone

\* A step that moves tasks within their queues.
LEMMA RepliesStay ==
  ASSUME \A v \in Workers : QueueOf(v)' = QueueOf(v), UNCHANGED <<answered, txq, lost>>
  PROVE  [Queues!Next]_(Queues!vars)
  BY AnsweredStay, StepNone

LEMMA QueueStep ==
  (Preemption => RequeueHead) /\ FatesInv /\ FatesInv' /\ NeverPreempted /\ [Next]_vars
    => [Queues!Next]_(Queues!vars)
<1> SUFFICES ASSUME Preemption => RequeueHead, FatesInv, FatesInv', NeverPreempted, [Next]_vars
             PROVE  [Queues!Next]_(Queues!vars)
  OBVIOUS
<1> USE DEF slotVars, sharedVars, leafVars, netVars, mailVars, dispVars, workVars
<1>1. HandOffTypes /\ SlotOwner /\ MailboxHandOff /\ NetworkerInv
  BY DEF FatesInv, RequestsInv, OwnersInv, IInv, HandOffInv
<1>2. CASE LeafNext
  <2>1. 0 \in Workers
    BY SizeAssumption DEF Workers
  <2>2. QED
    BY <1>2, <2>1, SentQueues DEF LeafNext, SelectIdle, SelectRandom, SendOther
<1>3. CASE UNCHANGED vars
  BY <1>1, <1>3, PlacesStay DEF vars, Unanswered, InService, Pending
<1>4. CASE FreeFinished \/ PostPointers
  <2>1. Pending' = Pending
    <3>1. CASE FreeFinished
      BY <1>1, <3>1 DEF FreeFinished, Pending, MailboxHandOff, NetworkerInv
    <3>2. CASE PostPointers
      BY <1>1, <3>2 DEF PostPointers, Pending, MailboxHandOff
    <3>3. QED
      BY <1>4, <3>1, <3>2
  <2>2. QED
    BY <1>1, <1>4, <2>1, PlacesStay DEF FreeFinished, PostPointers, Unanswered, InService
<1>5. CASE NoPackets \/ BeginPackets \/ AcceptRequest \/ ReleasePointers
  <2>1. Pending' = Pending
    BY <1>1, <1>5 DEF NoPackets, BeginPackets, AcceptRequest, ReleasePointers, Pending,
         MailboxHandOff
  <2>2. QED
    BY <1>1, <1>5, <2>1, PlacesStay DEF NoPackets, BeginPackets, AcceptRequest,
         ReleasePointers, ContextAlloc, EnterCore, Unanswered, InService
<1>6. ASSUME NEW w \in Workers,
             SkipWorker(w) \/ PreemptWorker(w) \/ NothingToDispatch(w) \/ ActivateRequest(w)
      PROVE  [Queues!Next]_(Queues!vars)
  <2>1. /\ UNCHANGED <<hdr, rxq, recv_mbufs, reqs, tskq, dispatcher_requests, response_flag,
                       wpc, finished, txq, answered, lost, npc, nj, ni, cnt>>
        /\ dpc \in {"worker", "activate"} /\ dpc' \in {"worker", "networker"}
    BY <1>6 DEF SkipWorker, PreemptWorker, NothingToDispatch, ActivateRequest, AtWorker,
         NextTurn
  <2>2. Pending' = Pending
    BY <2>1 DEF Pending
  <2>3. QED
    BY <1>1, <2>1, <2>2, PlacesStay DEF Unanswered, InService
<1>7. ASSUME NEW w \in Workers, WorkerNext(w) PROVE [Queues!Next]_(Queues!vars)
  <2>1. CASE SendReply(w)
    BY <2>1, RepliedQueues
  <2>2. CASE ProcessSend(w)
    BY <2>2, FlushedQueues
  <2>3. CASE ~SendReply(w) /\ ~ProcessSend(w)
    <3>1. UNCHANGED <<hdr, rxq, recv_mbufs, npc, dpc, nj, ni, cnt, reqs, tskq,
                      dispatcher_requests, txq, answered, lost>>
      BY <1>7, <2>3 DEF WorkerNext, InitWorker, ResetWorkerState, TakeRequest, StartRequest,
           PreemptHandler, ReadQueueLength, FillResponse, PublishResponse
    <3>2. \A v \in Workers : Unanswered(v)' <=> Unanswered(v)
      BY <1>7, <2>3, WorkedAnswers DEF FatesInv, RequestsInv, OwnersInv
    <3>3. QED
      BY <3>1, <3>2, PlacesStay DEF Pending
  <2>4. QED
    BY <2>1, <2>2, <2>3
<1>8. CASE Receive \/ RqUpdate
  <2>1. \A v \in Workers : QueueOf(v)' = QueueOf(v)
    BY <1>8, ReceivedQueues, UpdatedQueues
  <2>2. UNCHANGED <<answered, txq, lost>>
    BY <1>8 DEF Receive, RqUpdate
  <2>3. QED
    BY <2>1, <2>2, RepliesStay
<1>9. CASE EnqueueRequest \/ ReturnFinished
  <2>1. \A v \in Workers : QueueOf(v)' = QueueOf(v)
    BY <1>9, EnqueuedQueues, ReturnedQueues
  <2>2. UNCHANGED <<answered, txq, lost>>
    BY <1>9 DEF EnqueueRequest, ReturnFinished
  <2>3. QED
    BY <2>1, <2>2, RepliesStay
<1>10. CASE HandleNetworker
  BY <1>5, <1>9, <1>10, DroppedQueues DEF HandleNetworker
<1>11. ASSUME NEW w \in Workers, HandleFinished(w) \/ HandlePreempted(w) \/ DispatchRequest(w)
       PROVE  [Queues!Next]_(Queues!vars)
  <2>1. HandlePreempted(w) => RequeueHead
    BY DEF HandlePreempted, NeverPreempted
  <2>2. \A v \in Workers : QueueOf(v)' = QueueOf(v)
    BY <1>11, <2>1, FinishedQueues, PreemptedQueues, DispatchedQueues
  <2>3. UNCHANGED <<answered, txq, lost>>
    BY <1>11 DEF HandleFinished, HandlePreempted, DispatchRequest
  <2>4. QED
    BY <2>2, <2>3, RepliesStay
<1>12. ASSUME NEW w \in Workers, HandleWorker(w) PROVE [Queues!Next]_(Queues!vars)
  BY <1>6, <1>11, <1>12 DEF HandleWorker
<1>13. QED
  BY <1>2, <1>3, <1>4, <1>7, <1>8, <1>10, <1>12 DEF Next, NetworkerNext, DispatcherNext

LEMMA InitQueues == Init => Queues!Init
<1> SUFFICES ASSUME Init PROVE Queues!Init
  OBVIOUS
<1>1. FatesInv
  BY InitFates
<1>2. ASSUME NEW w \in Workers PROVE QueueOf(w) = <<>>
  <2>1. PICK u : u = QueueOf(w)
    OBVIOUS
  <2>2. TasksFor(w) = {}
    BY DEF Init, TasksFor
  <2>3. u \in Seq({})
    BY <1>1, <2>1, <2>2, QueueTyped
  <2>4. u = <<>>
    BY <2>3
  <2>5. QED
    BY <2>1, <2>4
<1>3. AnsweredTasks = {}
  <2>1. AnsweredKnown
    BY <1>1, AnsweredIs DEF FatesInv, RequestsInv, OwnersInv
  <2>2. \A t \in Tasks : answered[t] = 0 /\ NoReply(t)
    BY DEF Init, NoReply, ReplyAt
  <2>3. QED
    BY <2>1, <2>2 DEF AnsweredKnown, AnsweredTasks
<1>4. lost = {}
  BY DEF Init
<1>5. QED
  BY <1>2, <1>3, <1>4 DEF Queues!Init

\* The property ImplementsWorkerQueues of the runs: each worker core is a
\* first-in first-out queue of its own, in which nothing overtakes and from
\* which nothing disappears but by a reply or a loss, provided that preempted
\* tasks, if there are any, go back to the head of their queue.
THEOREM ImplementsWorkerQueuesCorrect ==
  (Preemption => RequeueHead) /\ Spec => ImplementsWorkerQueues
<1> SUFFICES ASSUME Preemption => RequeueHead PROVE Spec => ImplementsWorkerQueues
  OBVIOUS
<1>1. Init => Queues!Init
  BY InitQueues
<1>2. Spec => []NeverPreempted
  <2>1. FatesInv => IInv
    BY DEF FatesInv, RequestsInv, OwnersInv
  <2>2. FatesInv /\ NeverPreempted /\ [Next]_vars => NeverPreempted'
    BY <2>1, NeverPreemptedStep
  <2>3. QED
    BY <2>2, NeverPreemptedInit, Fated, PTL DEF Spec
<1>3. FatesInv /\ FatesInv' /\ NeverPreempted /\ [Next]_vars => [Queues!Next]_(Queues!vars)
  BY QueueStep
<1>4. QED
  BY <1>1, <1>2, <1>3, Fated, PTL DEF Spec, ImplementsWorkerQueues, Queues!Spec

=============================================================================

----------------------------- MODULE Reassembly -----------------------------
(***************************************************************************)
(* rq_update of inc/ix/dispatch.h: the packets of a request may arrive in    *)
(* any order among those of others; a doubly linked list of cells keeps the  *)
(* incomplete ones.  A packet also names, by its dst_id, the worker the leaf *)
(* chose, and a PKT_TYPE_WORKER_ID packet gives the workers new IDs.         *)
(* A message stands for its client_id and req_id.                            *)
(***************************************************************************)
EXTENDS Integers, Sequences, FiniteSets, FiniteSetsExt

CONSTANTS
  Msgs,      \* the messages clients send
  Length,    \* pkts_length of each, in packets
  Cells,     \* the elements of rq_mempool
  NumPorts,  \* CFG.num_ports
  FirstIds,  \* the first worker IDs the control plane gives, as sent
  Null,
  Lossy,     \* the messages among them that may lose packets in the network
  Quiet      \* IDs change only while no message is under way

\* The packets a message may have: the size of request.mbufs.
MaxPackets == 8

ASSUME ReassemblyAssumption ==
  /\ NumPorts \in Nat \ {0}
  /\ Length \in [Msgs -> 1..MaxPackets]
  /\ FirstIds \subseteq Nat
  /\ IsFiniteSet(Cells)
  /\ Lossy \subseteq Msgs /\ Quiet \in BOOLEAN

Ports == 0..(NumPorts - 1)

\* A request_cell, and the worker the leaf chose for a message.
RequestCell == [msg : Msgs, remaining : 1..255, mbufs : SUBSET (0..(MaxPackets - 1)),
                next : Cells \cup {Null}, prev : Cells \cup {Null}]
Choice == [worker : Ports, id : Nat]

ASSUME ReassemblyNull == Null \notin Cells \cup FirstIds \cup RequestCell \cup Choice

\* core_id after `*core_id = -1`: it is a uint8_t.
NoCore == 255

Whole(m) == 0..(Length[m] - 1)

VARIABLES
  ids,       \* the first ID the leaf addresses the workers by
  dst,       \* the worker chosen for each message begun, and its dst_id
  unsent,    \* the packets of each message still to be sent
  wire,      \* packets under way
  idPacket,  \* the first ID in a PKT_TYPE_WORKER_ID under way, or Null
  ports,     \* CFG.ports
  head,      \* rq->head
  cell,      \* the request_cell of each element, Null for a free one
  out        \* what rq_update returned so far, and the core_id it set

netVars == <<ids, dst, unsent, wire, idPacket>>
vars == <<netVars, ports, head, cell, out>>

\* The leaf numbers workers from 0, shinjuku.conf from 1.
Numbered(first) == [i \in Ports |-> first + 1 + i]

Init ==
  /\ ids \in FirstIds
  /\ ports = Numbered(ids)
  /\ dst = [m \in Msgs |-> Null]
  /\ unsent = [m \in Msgs |-> Whole(m)]
  /\ wire = {}
  /\ idPacket = Null
  /\ head = Null
  /\ cell = [c \in Cells |-> Null]
  /\ out = <<>>

-----------------------------------------------------------------------------
\* Every packet of every message sent from has been through rq_update.
Idle == wire = {} /\ \A m \in Msgs : unsent[m] \in {{}, Whole(m)}

\* The leaf picks a worker for a message with its first packet.
Send(m, s) ==
  /\ s \in unsent[m]
  /\ Quiet => idPacket = Null
  /\ IF dst[m] = Null
     THEN \E w \in Ports : dst' = [dst EXCEPT ![m] = [worker |-> w, id |-> ids + w]]
     ELSE UNCHANGED dst
  /\ unsent' = [unsent EXCEPT ![m] = @ \ {s}]
  /\ wire' = wire \cup {<<m, s>>}
  /\ UNCHANGED <<ids, idPacket, ports, head, cell, out>>

Lose(p) ==
  /\ p \in wire /\ p[1] \in Lossy
  /\ wire' = wire \ {p}
  /\ UNCHANGED <<ids, dst, unsent, idPacket, ports, head, cell, out>>

Renumber(first) ==
  /\ first # ids /\ idPacket = Null
  /\ Quiet => Idle
  /\ idPacket' = first
  /\ UNCHANGED <<ids, dst, unsent, wire, ports, head, cell, out>>

-----------------------------------------------------------------------------
\* The n-th cell of the list.
at[n \in 0..Cardinality(Cells)] ==
  IF n = 0 THEN head
  ELSE LET c == at[n - 1]
       IN IF c = Null \/ cell[c] = Null THEN Null ELSE cell[c].next

Listed == {at[n] : n \in DOMAIN at} \ {Null}

\* The cells whose client_id and req_id are those of the packet.
Matching(m) == {c \in Listed : cell[c].msg = m}

\* Fault: the ID on the wire is taken for the configured one.
CoreOfUnconverted(m) ==
  LET matches == {i \in Ports : ports[i] = dst[m].id}
  IN IF matches = {} THEN NoCore ELSE Max(matches)

\* The last worker whose ID matches.  `core_id == -1` tests the pointer, so a
\* packet that matches none keeps the -1.
CoreOf(m) ==
  LET matches == {i \in Ports : ports[i] = dst[m].id + 1}
  IN IF matches = {} THEN NoCore ELSE Max(matches)

Return(m, pkts) == out' = Append(out, [msg |-> m, core |-> CoreOf(m), mbufs |-> pkts])

Take(m, s) ==
  /\ <<m, s>> \in wire
  /\ wire' = wire \ {<<m, s>>}
  /\ UNCHANGED <<ids, dst, unsent, idPacket, ports>>

\* PKT_TYPE_WORKER_ID; the acknowledgement the networker sends for it tells
\* the leaf to use the new IDs.
SetWorkerIds ==
  /\ idPacket # Null
  /\ ports' = Numbered(idPacket)
  /\ ids' = idPacket
  /\ idPacket' = Null
  /\ UNCHANGED <<dst, unsent, wire, head, cell, out>>

SinglePacket(m, s) ==
  /\ Take(m, s)
  /\ Length[m] = 1
  /\ Return(m, {s})
  /\ UNCHANGED <<head, cell>>

\* Fault: the packet that starts the cell is not counted.
NewCellWhole(m, s) ==
  [msg |-> m, remaining |-> Length[m], mbufs |-> {s}, next |-> head, prev |-> Null]

NewCell(m, s) ==
  [msg |-> m, remaining |-> Length[m] - 1, mbufs |-> {s}, next |-> head, prev |-> Null]

\* The new cell becomes the first of the list, empty or not.
LinkFirst(c, m, s) ==
  /\ head' = c
  /\ cell' = [d \in Cells |->
       IF d = c THEN NewCell(m, s)
       ELSE IF d = head THEN [cell[d] EXCEPT !.prev = c]
       ELSE cell[d]]

\* The first packet of a message to arrive; mempool_alloc is not tested for
\* NULL, and the cells of the model suffice for the messages.
FirstPacket(m, s) ==
  /\ Take(m, s)
  /\ Length[m] > 1 /\ Matching(m) = {}
  /\ \E c \in Cells : cell[c] = Null /\ LinkFirst(c, m, s)
  /\ UNCHANGED out

\* Fault: pkts_remaining is counted down for a new cell only.
AddPacketUncounted(m, s) ==
  /\ Take(m, s)
  /\ \E c \in Matching(m) :
       /\ cell[c].remaining > 1
       /\ cell' = [cell EXCEPT ![c].mbufs = @ \cup {s}]
  /\ UNCHANGED <<head, out>>

\* Fault: a cell whose last packet has arrived stays on the list.
AddPacketStays(m, s) ==
  /\ Take(m, s)
  /\ \E c \in Matching(m) :
       cell' = [cell EXCEPT ![c].mbufs = @ \cup {s}, ![c].remaining = @ - 1]
  /\ UNCHANGED <<head, out>>

\* A packet that is neither the first nor the last of its message.
AddPacket(m, s) ==
  /\ Take(m, s)
  /\ \E c \in Matching(m) :
       /\ cell[c].remaining > 1
       /\ cell' = [cell EXCEPT ![c].mbufs = @ \cup {s}, ![c].remaining = @ - 1]
  /\ UNCHANGED <<head, out>>

\* Fault: the first cell of the list is taken out by its neighbours alone.
UnlinkKeepsHead(c) ==
  /\ UNCHANGED head
  /\ cell' = [d \in Cells |->
       IF d = c THEN Null
       ELSE IF d = cell[c].prev THEN [cell[d] EXCEPT !.next = cell[c].next]
       ELSE IF d = cell[c].next THEN [cell[d] EXCEPT !.prev = cell[c].prev]
       ELSE cell[d]]

\* The cell leaves the list and goes back to rq_mempool.
Unlink(c) ==
  /\ head' = IF cell[c].prev = Null THEN cell[c].next ELSE head
  /\ cell' = [d \in Cells |->
       IF d = c THEN Null
       ELSE IF d = cell[c].prev THEN [cell[d] EXCEPT !.next = cell[c].next]
       ELSE IF d = cell[c].next THEN [cell[d] EXCEPT !.prev = cell[c].prev]
       ELSE cell[d]]

\* The last packet: the request is complete.
CompleteRequest(m, s) ==
  /\ Take(m, s)
  /\ \E c \in Matching(m) :
       /\ cell[c].remaining = 1
       /\ Return(m, cell[c].mbufs \cup {s})
       /\ Unlink(c)

RqUpdate(m, s) ==
  SinglePacket(m, s) \/ FirstPacket(m, s) \/ AddPacket(m, s) \/ CompleteRequest(m, s)

Next ==
  \/ SetWorkerIds
  \/ \E first \in FirstIds : Renumber(first)
  \/ \E m \in Msgs : \E s \in Whole(m) : Send(m, s) \/ Lose(<<m, s>>) \/ RqUpdate(m, s)

Spec == Init /\ [][Next]_vars

-----------------------------------------------------------------------------
\* A cell that stays on the list still waits for a packet, and mbufs holds
\* packets of its own message.
TypeOK ==
  /\ ids \in FirstIds /\ idPacket \in FirstIds \cup {Null}
  /\ dst \in [Msgs -> Choice \cup {Null}]
  /\ unsent \in [Msgs -> SUBSET Nat] /\ wire \subseteq Msgs \X Nat
  /\ \A m \in Msgs : unsent[m] \subseteq Whole(m)
  /\ ports \in [Ports -> Nat]
  /\ head \in Cells \cup {Null}
  /\ cell \in [Cells -> RequestCell \cup {Null}]
  /\ \A c \in Cells : cell[c] # Null => cell[c].mbufs \subseteq Whole(cell[c].msg)
  /\ out \in Seq([msg : Msgs, core : Ports \cup {NoCore}, mbufs : SUBSET Nat])

\* The list ends, its back links mirror its forward ones, and it holds every
\* cell taken from the pool: whichever cell a last packet takes out, nothing
\* behind it is lost and no free cell stays linked.
ListWellFormed ==
  /\ at[Cardinality(Cells)] = Null
  /\ Listed = {c \in Cells : cell[c] # Null}
  /\ \A c \in Listed :
       /\ cell[c].prev = Null <=> c = head
       /\ cell[c].next # Null => cell[cell[c].next].prev = c

\* pkts_remaining counts what mbufs lacks, and a message has one cell.
RemainingExact ==
  /\ \A c \in Listed : cell[c].remaining = Length[cell[c].msg] - Cardinality(cell[c].mbufs)
  /\ \A c, d \in Listed : cell[c].msg = cell[d].msg => c = d

\* Everything rq_update has returned.
Returned == {out[i] : i \in DOMAIN out}

\* A message goes to the worker the leaf chose for it, through every change of
\* the worker IDs, as long as they change between messages (Quiet).
DeliveredToAddressee == \A r \in Returned : r.core = dst[r.msg].worker

\* dispatch.h:421: a packet whose dst_id matches no worker goes to a random one.
AlwaysAssigned == \A r \in Returned : r.core \in Ports

\* The packets of a message that went through rq_update.
Arrived(m) ==
  UNION ({r.mbufs : r \in {q \in Returned : q.msg = m}}
         \cup {cell[c].mbufs : c \in {d \in Cells : cell[d] # Null /\ cell[d].msg = m}})

Abstract == INSTANCE Assembly WITH
  got <- [m \in Msgs |-> Arrived(m)],
  done <- [i \in DOMAIN out |-> out[i].msg]

\* See Assembly.
ImplementsAssembly == Abstract!Spec
=============================================================================

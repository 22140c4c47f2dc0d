---------------------------- MODULE WorkerQueues ----------------------------
(***************************************************************************)
(* What a Horus server promises to the switches in front of it: each worker *)
(* core is a first-in first-out queue of its own.  A task submitted to a    *)
(* worker is answered by that worker, once, after every task submitted to   *)
(* it before, unless it is dropped; what one worker is sent never delays or *)
(* reorders what another one is.                                            *)
(***************************************************************************)
EXTENDS Naturals, Sequences

CONSTANTS Worker, Task

VARIABLES
  queue,    \* the unanswered tasks of each worker, oldest first
  done,     \* the tasks answered
  dropped   \* the tasks given up

vars == <<queue, done, dropped>>

Init ==
  /\ queue = [w \in Worker |-> <<>>]
  /\ done = {}
  /\ dropped = {}

Fresh(t) ==
  /\ t \notin done \cup dropped
  /\ \A w \in Worker : \A i \in DOMAIN queue[w] : queue[w][i] # t

Submit(w, t) ==
  /\ Fresh(t)
  /\ queue' = [queue EXCEPT ![w] = Append(@, t)]
  /\ UNCHANGED <<done, dropped>>

Refuse(t) ==
  /\ Fresh(t)
  /\ dropped' = dropped \cup {t}
  /\ UNCHANGED <<queue, done>>

Answer(w) ==
  /\ queue[w] # <<>>
  /\ done' = done \cup {Head(queue[w])}
  /\ queue' = [queue EXCEPT ![w] = Tail(@)]
  /\ UNCHANGED dropped

Without(s, i) == SubSeq(s, 1, i - 1) \o SubSeq(s, i + 1, Len(s))

Drop(w, i) ==
  /\ dropped' = dropped \cup {queue[w][i]}
  /\ queue' = [queue EXCEPT ![w] = Without(@, i)]
  /\ UNCHANGED done

Next ==
  \/ \E t \in Task : Refuse(t) \/ \E w \in Worker : Submit(w, t)
  \/ \E w \in Worker : Answer(w) \/ \E i \in DOMAIN queue[w] : Drop(w, i)

Spec == Init /\ [][Next]_vars
=============================================================================

---------------------------- MODULE TypedQueues ----------------------------
(***************************************************************************)
(* What the plain server promises: the tasks of each type begin in the      *)
(* order they arrive.  One that has begun may end before or after any other *)
(* that has, since cores work side by side and preemption takes turns.      *)
(***************************************************************************)
EXTENDS Naturals, Sequences

CONSTANTS Type, Task

VARIABLES
  waiting,  \* the tasks of each type that have not begun, oldest first
  running,  \* those that have
  done, dropped

vars == <<waiting, running, done, dropped>>

Init ==
  /\ waiting = [y \in Type |-> <<>>]
  /\ running = {} /\ done = {} /\ dropped = {}

Fresh(t) ==
  /\ t \notin running \cup done \cup dropped
  /\ \A y \in Type : \A i \in DOMAIN waiting[y] : waiting[y][i] # t

Arrive(y, t) ==
  /\ Fresh(t)
  /\ waiting' = [waiting EXCEPT ![y] = Append(@, t)]
  /\ UNCHANGED <<running, done, dropped>>

Refuse(t) ==
  /\ Fresh(t)
  /\ dropped' = dropped \cup {t}
  /\ UNCHANGED <<waiting, running, done>>

Begin(y) ==
  /\ waiting[y] # <<>>
  /\ running' = running \cup {Head(waiting[y])}
  /\ waiting' = [waiting EXCEPT ![y] = Tail(@)]
  /\ UNCHANGED <<done, dropped>>

Drop(y, i) ==
  /\ dropped' = dropped \cup {waiting[y][i]}
  /\ waiting' = [waiting EXCEPT
                   ![y] = SubSeq(@, 1, i - 1) \o SubSeq(@, i + 1, Len(@))]
  /\ UNCHANGED <<running, done>>

End(t) ==
  /\ running' = running \ {t}
  /\ \/ done' = done \cup {t} /\ UNCHANGED dropped
     \/ dropped' = dropped \cup {t} /\ UNCHANGED done
  /\ UNCHANGED waiting

Next ==
  \/ \E t \in Task : Refuse(t) \/ \E y \in Type : Arrive(y, t)
  \/ \E y \in Type : Begin(y) \/ \E i \in DOMAIN waiting[y] : Drop(y, i)
  \/ \E t \in running : End(t)

Spec == Init /\ [][Next]_vars
=============================================================================

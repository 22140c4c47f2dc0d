------------------------------- MODULE Timers -------------------------------
(***************************************************************************)
(* What the timer service of a core promises: an armed timer that its owner *)
(* leaves alone fires less than Early microseconds before its time and at   *)
(* most Late after it, and no timer is disarmed in any other way.           *)
(***************************************************************************)
EXTENDS Integers

CONSTANTS
  Timer,
  Longest,  \* the longest delay
  Early, Late,
  Never     \* the time of a timer that is not armed

VARIABLES
  now,
  due,      \* the time each timer is to fire at
  serving   \* the service, not an owner, has the core

vars == <<now, due, serving>>

Init == now \in Nat /\ due = [t \in Timer |-> Never] /\ serving = FALSE

\* No time passes over a timer that has waited long enough.
Tick ==
  /\ \A t \in Timer : due[t] # Never => now < due[t] + Late
  /\ now' = now + 1
  /\ UNCHANGED <<due, serving>>

Arm(t) == \E d \in 1..Longest : due' = [due EXCEPT ![t] = now + d]

Disarm(t) == due' = [due EXCEPT ![t] = Never]

\* timer_add, timer_mod and timer_del.
Set(t) ==
  /\ ~serving
  /\ Arm(t) \/ Disarm(t)
  /\ UNCHANGED <<now, serving>>

\* A timer is disarmed as its handler is called, which may arm it again.
Fire(t) ==
  /\ serving
  /\ due[t] # Never /\ due[t] < now + Early
  /\ Arm(t) \/ Disarm(t)
  /\ UNCHANGED <<now, serving>>

Serve == serving' = ~serving /\ UNCHANGED <<now, due>>

Next == Tick \/ Serve \/ \E t \in Timer : Set(t) \/ Fire(t)

Spec == Init /\ [][Next]_vars
=============================================================================

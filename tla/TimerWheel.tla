----------------------------- MODULE TimerWheel -----------------------------
(***************************************************************************)
(* The timer wheels of one core (dp/core/timer.c): WheelCount wheels of Size *)
(* buckets, the first with a bucket for each MinDelay microseconds, each     *)
(* other with one for each turn of the wheel below it.                      *)
(*                                                                         *)
(* timer_run is taken apart: the clock goes on while it runs, and so does    *)
(* every handler that arms its own timer again.  now_us is the time read at  *)
(* the start of the last run, so it is behind the clock whenever a timer is  *)
(* armed.  The loop of the IX system calls (sys_bpoll) runs the timers;     *)
(* the loops of the Horus cores never do.                                   *)
(***************************************************************************)
EXTENDS Integers, FiniteSets

CONSTANTS
  Timer,
  MinDelay,    \* MIN_DELAY_US, 1 << MIN_DELAY_SHIFT
  Size,        \* WHEEL_SIZE, 1 << WHEEL_SHIFT
  WheelCount,  \* WHEEL_COUNT
  Delays,      \* the delays timers are armed with (see Fits)
  Starts,      \* the time when the core is initialised
  Polled,      \* the core's loop calls timer_run
  Lag,         \* bound on the time the cursor is behind the clock
  MaxTime,     \* bound of the model: where the clock stops
  None

\* The time of one bucket of a wheel, 1 << WHEEL_IDX_TO_SHIFT(idx).
Unit[idx \in Nat] == IF idx = 0 THEN MinDelay ELSE Size * Unit[idx - 1]

MaxDelay == Unit[WheelCount]

ASSUME WheelSizes ==
  /\ {MinDelay, WheelCount, Lag} \subseteq Nat \ {0}
  /\ Size \in Nat \ {0, 1}
  /\ Delays \subseteq 1..(MaxDelay - 1)  \* __timer_add panics beyond
  /\ Starts \subseteq Nat /\ MaxTime \in Nat
  /\ Polled \in BOOLEAN
  /\ None \notin Nat \cup (Nat \X Nat)

VARIABLES
  now,        \* rdtsc() / cycles_per_us
  now_us, timer_pos,
  expires,    \* of each timer
  pending,    \* the timers with link.prev # NULL
  bucket,     \* the wheel and offset whose list holds the timer, or None
  pc, pos, wheel, todo   \* timer_run and its loops; todo is what is left of a list

runVars == <<pc, pos, wheel, todo>>
vars == <<now, now_us, timer_pos, expires, pending, bucket, runVars>>

-----------------------------------------------------------------------------
\* WHEEL_OFFSET
Offset(val, idx) == (val \div Unit[idx]) % Size

\* The wheel for a delay of n, whose highest bit is 63 - clz64(n).
Index(n) == CHOOSE idx \in 0..n : Unit[idx] <= n /\ n < Unit[idx + 1]

\* Fault: the delay is not rounded up to the next bucket.
PlaceUnrounded(e) ==
  LET index == Index(e + MinDelay - now_us)
  IN <<index, Offset(e, index)>>

\* timer_insert: the bucket of a timer that expires at e.
Place(e) ==
  LET expire_us == e + MinDelay
      index == Index(expire_us - now_us)
  IN <<index, Offset(expire_us, index)>>

Insert(t, e) ==
  /\ expires' = [expires EXCEPT ![t] = e]
  /\ pending' = pending \cup {t}
  /\ bucket' = [bucket EXCEPT ![t] = Place(e)]

\* __timer_del
Delete(t) ==
  /\ pending' = pending \ {t}
  /\ bucket' = [bucket EXCEPT ![t] = None]
  /\ UNCHANGED expires

List(idx, off) == {t \in Timer : bucket[t] = <<idx, off>>}

Init ==
  /\ now \in Starts
  /\ now_us = now /\ timer_pos = now
  /\ expires = [t \in Timer |-> 0]
  /\ pending = {}
  /\ bucket = [t \in Timer |-> None]
  /\ pc = "idle" /\ pos = 0 /\ wheel = 0 /\ todo = {}

\* The position of the cursor: the next bucket timer_run will come to.
Cursor == IF pc = "idle" THEN timer_pos ELSE pos

Tick ==
  /\ now < MaxTime
  /\ Polled => now - Cursor < Lag
  /\ now' = now + 1
  /\ UNCHANGED <<now_us, timer_pos, expires, pending, bucket, runVars>>

-----------------------------------------------------------------------------
(* The owners of the timers, between two runs.                              *)

\* timer_mod, which is timer_add for a timer that is not pending.
Mod(t) ==
  /\ pc = "idle"
  /\ \E d \in Delays : Insert(t, now + d)
  /\ UNCHANGED <<now, now_us, timer_pos, runVars>>

Del(t) ==
  /\ pc = "idle"
  /\ t \in pending
  /\ Delete(t)
  /\ UNCHANGED <<now, now_us, timer_pos, runVars>>

-----------------------------------------------------------------------------
(* timer_run.                                                               *)

StartRun ==
  /\ Polled
  /\ pc = "idle"
  /\ now_us' = now
  /\ pos' = timer_pos
  /\ pc' = "turn"
  /\ UNCHANGED <<now, timer_pos, expires, pending, bucket, wheel, todo>>

\* The lists that timer_collapse and timer_run_bucket go through.
Enter(where, idx) ==
  /\ pc' = where
  /\ wheel' = idx
  /\ todo' = List(idx, Offset(pos, idx))

Turn ==
  /\ pc = "turn"
  /\ pos <= now_us
  /\ IF Offset(pos, 0) = 0 THEN Enter("collapse", 1) ELSE Enter("bucket", 0)
  /\ UNCHANGED <<now, now_us, timer_pos, expires, pending, bucket, pos>>

EndRun ==
  /\ pc = "turn"
  /\ pos > now_us
  /\ timer_pos' = pos
  /\ pc' = "idle"
  /\ UNCHANGED <<now, now_us, expires, pending, bucket, pos, wheel, todo>>

\* The handler of a timer just unlinked, which may arm it again.
Handler(t) == Delete(t) \/ \E d \in Delays : Insert(t, now + d)

\* Fault: a timer fires when its wheel is collapsed, expired or not.
ReinsertFires(t) ==
  /\ pc = "collapse" /\ t \in todo
  /\ todo' = todo \ {t}
  /\ Handler(t)
  /\ UNCHANGED <<now, now_us, timer_pos, pc, pos, wheel>>

\* timer_reinsert_bucket, one timer: an expired one fires at once.
Reinsert(t) ==
  /\ pc = "collapse" /\ t \in todo
  /\ todo' = todo \ {t}
  /\ IF expires[t] <= now_us THEN Handler(t) ELSE Insert(t, expires[t])
  /\ UNCHANGED <<now, now_us, timer_pos, pc, pos, wheel>>

\* Fault: the wheels above are collapsed on every turn but the one that is due.
NextWheelInverted ==
  /\ pc = "collapse" /\ todo = {}
  /\ IF wheel + 1 < WheelCount /\ Offset(pos, wheel) # 0
     THEN Enter("collapse", wheel + 1) ELSE Enter("bucket", 0)
  /\ UNCHANGED <<now, now_us, timer_pos, expires, pending, bucket, pos>>

\* timer_collapse goes up a wheel when this one is at its start.
NextWheel ==
  /\ pc = "collapse" /\ todo = {}
  /\ IF wheel + 1 < WheelCount /\ Offset(pos, wheel) = 0
     THEN Enter("collapse", wheel + 1) ELSE Enter("bucket", 0)
  /\ UNCHANGED <<now, now_us, timer_pos, expires, pending, bucket, pos>>

\* timer_run_bucket, one timer, whatever its time.
Run(t) ==
  /\ pc = "bucket" /\ t \in todo
  /\ todo' = todo \ {t}
  /\ Handler(t)
  /\ UNCHANGED <<now, now_us, timer_pos, pc, pos, wheel>>

\* h->head = NULL: what a handler has put into this list is not in it any more,
\* but still counts as pending (see Fits).
EndBucket ==
  /\ pc = "bucket" /\ todo = {}
  /\ bucket' = [t \in Timer |->
                  IF bucket[t] = <<0, Offset(pos, 0)>> THEN None ELSE bucket[t]]
  /\ pos' = pos + MinDelay
  /\ pc' = "turn"
  /\ UNCHANGED <<now, now_us, timer_pos, expires, pending, wheel, todo>>

Next ==
  \/ Tick \/ StartRun \/ Turn \/ EndRun \/ NextWheel \/ EndBucket
  \/ \E t \in Timer : Mod(t) \/ Del(t) \/ Reinsert(t) \/ Run(t)

Spec == Init /\ [][Next]_vars

-----------------------------------------------------------------------------
(* Properties.                                                              *)

\* The delays for which the wheels work.  A longer one passes the test of
\* __timer_add but gets an index beyond the last wheel when MinDelay and the time
\* since now_us are added.  A handler must not arm its timer for the bucket a turn
\* of the first wheel ahead of the cursor, which EndBucket empties: the delay must
\* exceed that turn, or fall short of it by what the cursor is behind the clock.
Fits ==
  \A d \in Delays :
    /\ d + 2 * MinDelay + Lag < MaxDelay
    /\ d + MinDelay >= Size * MinDelay \/ d + 2 * MinDelay + Lag <= Size * MinDelay

Wheels == 0..(WheelCount - 1)

\* Every pending timer is in a list of a wheel that exists.
InRange == \A t \in pending : bucket[t] # None => bucket[t][1] \in Wheels

\* timer_run has still to go through the list of wheel i it stands at.
ToVisit(i) ==
  /\ \A j \in 0..(i - 1) : Offset(Cursor, j) = 0
  /\ \/ pc \in {"idle", "turn"}
     \/ pc = "collapse" /\ (i = 0 \/ wheel < i)

\* A pending timer is in a list that timer_run comes to when its time has come,
\* and not a turn of that wheel before, and that it does not empty unread,
\* however owners, handlers and timer_collapse move it between the wheels.
Filed ==
  \A t \in Timer :
    /\ t \in pending <=> bucket[t] # None
    /\ t \in pending =>
         LET i      == bucket[t][1]
             expire == expires[t] + MinDelay
             ahead  == expire \div Unit[i] - Cursor \div Unit[i]
         IN /\ i \in Wheels
            /\ bucket[t][2] = Offset(expire, i)
            /\ ahead >= IF t \in todo \/ ToVisit(i) THEN 0 ELSE 1
            /\ expire < now_us + Unit[i + 1]
            /\ pc = "bucket" /\ i = 0 /\ t \notin todo => ahead % Size # 0

\* After a run no timer is left that was to fire two buckets before it.
Punctual ==
  pc = "idle" => \A t \in pending : expires[t] + 2 * MinDelay > now_us

Service == INSTANCE Timers WITH
  Longest <- MaxDelay - 1, Early <- Size * MinDelay,
  Late <- 2 * MinDelay + Lag, Never <- None,
  due <- [t \in Timer |-> IF t \in pending THEN expires[t] ELSE None],
  serving <- pc # "idle"

\* Timers fire on time, and only timers that are due (see Timers).
ImplementsTimers == Service!Spec
=============================================================================

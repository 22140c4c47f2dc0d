------------------------------ MODULE Assembly ------------------------------
(***************************************************************************)
(* What rq_update promises the networker: a message is returned once, at the *)
(* arrival of its last packet and with all its packets, whatever order the   *)
(* packets of several messages arrive in.                                    *)
(***************************************************************************)
EXTENDS Naturals, Sequences

CONSTANTS Msgs, Length

VARIABLES
  got,    \* the packets of each message that have arrived
  done    \* the messages returned, in that order

vars == <<got, done>>

Whole(m) == 0..(Length[m] - 1)

Init == got = [m \in Msgs |-> {}] /\ done = <<>>

Arrive(m, s) ==
  /\ s \in Whole(m) \ got[m]
  /\ got' = [got EXCEPT ![m] = @ \cup {s}]
  /\ done' = IF got'[m] = Whole(m) THEN Append(done, m) ELSE done

Next == \E m \in Msgs : \E s \in Whole(m) : Arrive(m, s)

Spec == Init /\ [][Next]_vars
=============================================================================

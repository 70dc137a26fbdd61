------------------------------ MODULE AudioPipe ------------------------------
(***************************************************************************)
(* What a playback plugin with a FIFO promises: the listener receives the  *)
(* units the application submitted, each once and in order, and no more    *)
(* than Cap of them wait on the way.  The k-th unit submitted since the    *)
(* stream was opened is the number k.                                      *)
(***************************************************************************)
EXTENDS Integers, Sequences

CONSTANT Cap

VARIABLES submitted, received

Init == submitted = 0 /\ received = <<>>

(* The stream is opened: nothing of an earlier one is delivered any more.  *)
Open == submitted' = 0 /\ received' = <<>>

Submit ==
  /\ \E n \in 1 .. Cap : submitted' = submitted + n
  /\ submitted' - Len(received) <= Cap
  /\ UNCHANGED received

Deliver ==
  /\ \E n \in 1 .. submitted - Len(received) :
       received' = received \o [i \in 1 .. n |-> Len(received) + i]
  /\ UNCHANGED submitted

Next == Open \/ Submit \/ Deliver

Spec == Init /\ [][Next]_<<submitted, received>>
=============================================================================

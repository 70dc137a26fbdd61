------------------------------ MODULE DelayLine ------------------------------
(***************************************************************************)
(* What a delay promises: the i-th frame that comes out since the stream   *)
(* was prepared is the one that went in delay frames before, or silence, 0,*)
(* while there is none, however the stream is cut.  Frames are numbered    *)
(* through, so that those of an earlier stream (up to first) differ from   *)
(* those of this one.                                                      *)
(***************************************************************************)
EXTENDS Integers, Sequences

VARIABLES delay, first, out

Init == delay \in Nat /\ first = 0 /\ out = <<>>

Delayed(i) == IF i > delay THEN first + i - delay ELSE 0

(* The stream is prepared anew: no frame of the last one is heard again.   *)
Reset ==
  /\ first' = first + Len(out) /\ out' = <<>>
  /\ UNCHANGED delay

Transfer ==
  /\ Len(out') >= Len(out)
  /\ out' = [i \in 1 .. Len(out') |-> IF i <= Len(out) THEN out[i] ELSE Delayed(i)]
  /\ UNCHANGED <<delay, first>>

Next == Reset \/ Transfer

Spec == Init /\ [][Next]_<<delay, first, out>>
=============================================================================

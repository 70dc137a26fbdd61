----------------------------- MODULE MCPulsePcm -----------------------------
(* PulsePcm with a buffer of three units and a period of two.              *)
EXTENDS PulsePcm

Quiet == [playback |-> TRUE, fails |-> FALSE, refuses |-> FALSE, pauses |-> FALSE, streams |-> 1]
Again == {[Quiet EXCEPT !.streams = 2]}

(* Streams prepared twice, in both directions; a connection or a stream    *)
(* that may fail anywhere; calls refused; a stream that is paused.         *)
MCEnvs ==
  Again \cup {[Quiet EXCEPT !.playback = FALSE, !.streams = 2],
              [Quiet EXCEPT !.fails = TRUE, !.streams = 2],
              [Quiet EXCEPT !.playback = FALSE, !.fails = TRUE],
              [Quiet EXCEPT !.refuses = TRUE], [Quiet EXCEPT !.pauses = TRUE]}
=============================================================================

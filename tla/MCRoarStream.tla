---------------------------- MODULE MCRoarStream ----------------------------
(* RoarStream with a buffer of three units that is drained two at a time.  *)
EXTENDS RoarStream

Env(gate, vioFails, createFails, threads) ==
  [gate |-> gate, vioFails |-> vioFails, createFails |-> createFails, threads |-> threads,
   rehw |-> FALSE, frame |-> 1, units |-> 4]
(* hw_params while the stream is open; frames as long as the buffer.       *)
Rehw == [Env(TRUE, FALSE, FALSE, 1) EXCEPT !.rehw = TRUE, !.units = 2]
Threes == [Env(TRUE, FALSE, FALSE, 1) EXCEPT !.frame = 3, !.units = 6]

(* The stream restarted once; a caller that ignores avail; a stream that   *)
(* fails and is given up.                                                  *)
MCEnvs == {Env(TRUE, FALSE, FALSE, 2), Env(FALSE, FALSE, TRUE, 1), Env(TRUE, TRUE, FALSE, 1),
           Rehw, Threes}

OneRehw == {Rehw}
OneThrees == {Threes}
OneStream == {Env(TRUE, FALSE, FALSE, 1)}
(* Three streams, each of which fails; and of their interleavings those in *)
(* which every thread is in roar_reset when the next one is created, and   *)
(* roar_vio_write takes nothing.                                           *)
ThreeStreams == {[Env(TRUE, TRUE, FALSE, 3) EXCEPT !.units = 2]}
StoredOpened(t) ==
  thr[t].pc \in {"reset_active", "reset_bufptr", "reset_rest", "reset_done", "detach", "exited"}
EachResetting ==
  /\ server = <<>> /\ accepted <= 1
  /\ \A t \in Threads \ {1} : thr[t].pc # "none" => StoredOpened(t - 1)
=============================================================================

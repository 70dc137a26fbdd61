---------------------------- MODULE MCDelayLines ----------------------------
(* DelayLines with lines of up to three frames.  Left out: the rows of     *)
(* do_upmix that write six channels to a slave of eight.                   *)
EXTENDS DelayLines

MCPlugins ==
  {[kind |-> "upmix", size |-> s, channels |-> c, slave |-> v, channel |-> h] :
     s \in {0, 1, 3}, c \in {2, 3}, v \in {4, 6}, h \in 0 .. 3}
  \cup {[kind |-> "upmix", size |-> 2, channels |-> c, slave |-> v, channel |-> h] :
          c \in {1, 2, 8}, v \in {8}, h \in 0 .. 7}
  \cup {[kind |-> "upmix", size |-> 2, channels |-> c, slave |-> 6, channel |-> h] :
          c \in 1 .. 8, h \in 0 .. 5}
  \cup [kind : {"downmix"}, size : {4}, tap : 0 .. 3]
  \cup [kind : {"speex"}, size : {1, 3}, dsp : {"none", "preprocess", "echo"}]
=============================================================================

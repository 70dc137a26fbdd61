----------------------------- MODULE MCPulseCtl -----------------------------
(* PulseCtl with the switch of the source and the volume of the sink.      *)
EXTENDS PulseCtl

MCTouched == {1, 2}

(* What the callers of pulse_read_integer take its success for: a value    *)
(* the element has had during the call, errors of the server included.     *)
ReadFreshAlways ==
  [][call.op = "read" /\ view' # view => view'[call.elem] \in during]_vars
=============================================================================

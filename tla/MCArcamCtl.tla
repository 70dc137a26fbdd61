------------------------------ MODULE MCArcamCtl ------------------------------
(* Two handles, two writes, and an amplifier that is muted to begin with. *)
EXTENDS ArcamCtl

MCSettings == {[f \in Field |-> 0]}
=============================================================================

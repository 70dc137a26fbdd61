----------------------------- MODULE MCArcamParser -----------------------------
(* Streams of up to three items: frames (one with a parameter that looks like  *)
(* the start of a frame, one with an error result), a byte of noise, and frames *)
(* cut off in their first bytes.                                               *)
EXTENDS ArcamParser

Frame(c, r, p) == <<"A", "V", "_", c, r, "zone", p, "CR">>
Items == {Frame("mute", "OK", "on"), Frame("volume", "OK", "A"), Frame("volume", "error", "A"),
          <<"noise">>, <<"A">>, <<"A", "V">>}
MCByte == {"A", "V", "_", "CR", "OK", "error", "mute", "volume", "zone", "on", "noise"}
MCStreams == UNION {[1..n -> Items] : n \in 1..3}
=============================================================================

------------------------------ MODULE MCJackPcm ------------------------------
(* JackPcm with a buffer that is not a multiple of a cycle's frames, in    *)
(* both directions, with ports that may fail to connect.                   *)
EXTENDS JackPcm

MCEnvs == [playback : BOOLEAN, fails : {TRUE}]
=============================================================================

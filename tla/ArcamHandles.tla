----------------------------- MODULE ArcamHandles -----------------------------
(* What the two modules of the Arcam plugin's handles share: ArcamServer is  *)
(* about their threads and connections, ArcamCtl about what they read, write *)
(* and report, and ArcamProofs extends both.                                 *)
CONSTANT Handle     \* mixer handles, each in a process of its own
=============================================================================

------------------------------ MODULE MCA52Pcm ------------------------------
(* A52Pcm with frames of three units; transfers of any size, or of periods;*)
(* a slave that blocks, or takes what it has room for.                     *)
EXTENDS A52Pcm

Blocking == [block : {TRUE}, whole : BOOLEAN]
NonBlocking == [block : {FALSE}, whole : {FALSE}]
MCEnvs == Blocking \cup NonBlocking
=============================================================================

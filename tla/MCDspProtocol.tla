----------------------------- MODULE MCDspProtocol -----------------------------
(* Two PCMs and a mixer, two of the three at a time, and two device nodes.      *)
EXTENDS DspProtocol

\* OwnReply of a PLAY whose messages come when they like: not so of this code
\* (DspLate.cfg).
OwnReplyAlways == [][\A c \in Client : Read(c) /\ node[c] \notin loose => ReadsOwn(c)]_vars

\* What a PCM takes its task for between calls, of a task that may refuse to be
\* initialised: not so of this code (DspInit.cfg).
StateAgreesAlways == \A p \in Pcm : InStep(node[p]) => StateAgrees(p)
=============================================================================

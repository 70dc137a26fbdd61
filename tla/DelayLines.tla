----------------------------- MODULE DelayLines -----------------------------
(***************************************************************************)
(* The filter plugins that keep frames of one transfer for a later one:    *)
(* upmix (mix/pcm_upmix.c), vdownmix (mix/pcm_vdownmix.c) and speex        *)
(* (speex/pcm_speex.c).  alsa-lib's extplug calls init when the stream is  *)
(* prepared and transfer with pieces of any size, in one thread.           *)
(*                                                                         *)
(* The frames that go in are numbered from 1; silence is 0.  A behaviour   *)
(* follows one plugin, and of its output one part: a channel of upmix, a   *)
(* tap of vdownmix's filters, the samples of speex (whose library changes  *)
(* them in place).                                                         *)
(* (UsbAndDelayProofs extends this module and UsbStream: no name is in     *)
(* both.)                                                                  *)
(***************************************************************************)
EXTENDS Integers, Sequences

CONSTANTS
  MaxFrames,    \* bound: frames that go in
  Plugins       \* the plugins a behaviour may follow, see plugin

(* size: of mix->delayline, of rbuf, or of spx->buf (parms.frames)         *)
Upmix == [kind : {"upmix"}, size : Nat, channels : 1 .. 8, slave : {4, 6, 8}, channel : 0 .. 7]
Downmix == [kind : {"downmix"}, size : Nat \ {0}, tap : Nat]
Speex == [kind : {"speex"}, size : Nat \ {0}, dsp : {"none", "preprocess", "echo"}]

ASSUME DelayBounds == MaxFrames \in Nat
ASSUME DelayPlugins ==
  \A p \in Plugins :
    \/ p \in Upmix /\ p.channel < p.slave
    \/ p \in Downmix /\ p.tap < p.size
    \/ p \in Speex

VARIABLES
  plugin,       \* fixed: the plugin and the part of its output
  line,         \* mix->delayline, mix->rbuf or spx->buf
  curpos,       \* mix->curpos, spx->filled
  processed,    \* spx->processed
  outbuf,       \* spx->outbuf
  left,         \* count, or fr: frames the transfer still has to process
  first,        \* frames that went in before the last init
  out           \* what came out since

lineVars == <<plugin, line, curpos, processed, outbuf, left, first, out>>

Size == plugin.size
Zeroes == [i \in 0 .. Size - 1 |-> 0]
In(i) == first + Len(out) + i       \* the i-th frame from here on
Lesser(a, b) == IF a < b THEN a ELSE b

LineInit ==
  /\ plugin \in Plugins
  /\ line = Zeroes /\ curpos = 0 /\ processed = FALSE /\ outbuf = Zeroes
  /\ left = 0 /\ first = 0 /\ out = <<>>

-----------------------------------------------------------------------------
(* upmix_init, vdownmix_init and spx_init                                  *)
InitStream ==
  /\ left = 0
  /\ line' = Zeroes /\ curpos' = 0 /\ processed' = FALSE /\ outbuf' = Zeroes
  /\ first' = first + Len(out) /\ out' = <<>>
  /\ UNCHANGED <<plugin, left>>

-----------------------------------------------------------------------------
(* upmix: where each channel of the slave comes from.  Copied from a       *)
(* channel of the input; delayed, from one of the front channels; or the   *)
(* average of both.  Channels count from 0.                                *)
Copied(c) == [from |-> "copied", of |-> c]
DelayedCopy(c) == [from |-> "delayed", of |-> c]
Average == [from |-> "average", of |-> 0]

Copies(n) == [c \in 0 .. n - 1 |-> Copied(c)]
FrontAgain(n) == [c \in n .. n + 1 |-> Copied(c - n)]
Delayed == [c \in 2 .. 3 |-> DelayedCopy(c - 2)]
Averages == [c \in 4 .. 5 |-> Average]
Both(f, g) == [c \in DOMAIN f \cup DOMAIN g |-> IF c \in DOMAIN f THEN f[c] ELSE g[c]]

upmix_1_to(slave) == [c \in 0 .. slave - 1 |-> Copied(0)]
upmix_2_to_40 == Both(Copies(2), Delayed)
upmix_2_to_51 == Both(upmix_2_to_40, Averages)
upmix_2_to_71 == Both(upmix_2_to_51, FrontAgain(6))
upmix_3_to_40 == Both(Copies(2), Delayed)
upmix_3_to_51 == Both(upmix_3_to_40, FrontAgain(4))
upmix_4_to_40 == Copies(4)
upmix_4_to_51 == Both(Copies(4), FrontAgain(4))
upmix_5_to_51 == Both(Copies(5), [c \in {5} |-> Copied(4)])
upmix_6_to_51 == Copies(6)
upmix_8_to_71 == Copies(8)

do_upmix == <<
  <<upmix_1_to(4), upmix_1_to(6), upmix_1_to(8)>>,
  <<upmix_2_to_40, upmix_2_to_51, upmix_2_to_71>>,
  <<upmix_3_to_40, upmix_3_to_51, upmix_3_to_51>>,
  <<upmix_4_to_40, upmix_4_to_51, upmix_4_to_51>>,
  <<upmix_4_to_40, upmix_5_to_51, upmix_5_to_51>>,
  <<upmix_4_to_40, upmix_6_to_51, upmix_6_to_51>>,
  <<upmix_4_to_40, upmix_6_to_51, upmix_6_to_51>>,
  <<upmix_4_to_40, upmix_6_to_51, upmix_8_to_71>> >>

(* upmix_init takes the row of the input and the column of the slave.      *)
RouteOf(channels, slave) ==
  do_upmix[channels][IF slave = 6 THEN 2 ELSE IF slave = 8 THEN 3 ELSE 1]
Route == RouteOf(plugin.channels, plugin.slave)

(* delayed_copy: the first frames out of the line, the others from the     *)
(* input; the last ones of the input into the line, at the same place.     *)
OutOfLine(n) ==
  LET d == Lesser(Size, n)
  IN [i \in 1 .. n |-> IF i <= d THEN line[(curpos + i - 1) % Size] ELSE In(i - d)]

FirstFrames(n, p) == In(p + 1)                                     \* mutant
LastFrames(n, p) == In(n - Lesser(Size, n) + p + 1)

IntoLine(n) ==
  [i \in 0 .. Size - 1 |->
     LET p == (i - curpos) % Size
     IN IF p < Lesser(Size, n) THEN LastFrames(n, p) ELSE line[i]]

Inputs(n) == [i \in 1 .. n |-> In(i)]

(* upmix_transfer.  A channel without a route is not written: what is heard*)
(* on it is whatever was there, -1.                                        *)
UpmixTransfer ==
  /\ plugin.kind = "upmix"
  /\ \E n \in 1 .. MaxFrames - first - Len(out) :
       LET delays == Size > 0 /\ \E c \in DOMAIN Route : Route[c].from = "delayed"
       IN /\ out' = out \o
               (IF plugin.channel \notin DOMAIN Route THEN [i \in 1 .. n |-> -1]
                ELSE IF Size > 0 /\ Route[plugin.channel].from = "delayed" THEN OutOfLine(n)
                ELSE Inputs(n))
          /\ line' = IF delays THEN IntoLine(n) ELSE line
          /\ curpos' = IF delays THEN (curpos + Lesser(Size, n)) % Size ELSE curpos
  /\ UNCHANGED <<plugin, processed, outbuf, left, first>>

-----------------------------------------------------------------------------
(* vdownmix_transfer and spx_transfer take the frames they are given and   *)
(* work through them in a loop.                                            *)
Transfer ==
  /\ plugin.kind \in {"downmix", "speex"} /\ left = 0
  /\ left' \in 1 .. MaxFrames - first - Len(out)
  /\ UNCHANGED <<plugin, line, curpos, processed, outbuf, first, out>>

(* The frame goes into the ring, then every tap reads what went in as many *)
(* frames before as its delay.                                             *)
DownmixFrame ==
  /\ plugin.kind = "downmix" /\ left > 0
  /\ line' = [line EXCEPT ![curpos] = In(1)]
  /\ out' = Append(out, line'[(curpos + Size - plugin.tap) % Size])
  /\ curpos' = (curpos + 1) % Size
  /\ left' = left - 1
  /\ UNCHANGED <<plugin, processed, outbuf, first>>

(* Neither a preprocessor nor an echo canceller: a copy.                   *)
SpeexCopy ==
  /\ plugin.kind = "speex" /\ plugin.dsp = "none" /\ left > 0
  /\ out' = out \o Inputs(left)
  /\ left' = 0
  /\ UNCHANGED <<plugin, line, curpos, processed, outbuf, first>>

(* A chunk goes no further than the end of the buffer.  What was processed *)
(* there comes out, then the input goes in; a full buffer is processed, in *)
(* place or, by the echo canceller, into outbuf.                           *)
SpeexChunk ==
  /\ plugin.kind = "speex" /\ plugin.dsp # "none" /\ left > 0
  /\ LET chunk == IF curpos + left > Size THEN Size - curpos ELSE left
         databuf == IF plugin.dsp = "echo" THEN outbuf ELSE line
         stored == [i \in 0 .. Size - 1 |->
                      IF i \in curpos .. curpos + chunk - 1 THEN In(i - curpos + 1) ELSE line[i]]
         full == curpos + chunk = Size
     IN /\ out' = out \o [i \in 1 .. chunk |-> IF processed THEN databuf[curpos + i - 1] ELSE 0]
        /\ line' = stored
        /\ outbuf' = IF full /\ plugin.dsp = "echo" THEN stored ELSE outbuf
        /\ processed' = (processed \/ full)
        /\ curpos' = IF full THEN 0 ELSE curpos + chunk
        /\ left' = left - chunk
  /\ UNCHANGED <<plugin, first>>

LineNext == InitStream \/ UpmixTransfer \/ Transfer \/ DownmixFrame \/ SpeexCopy \/ SpeexChunk

LineSpec == LineInit /\ [][LineNext]_lineVars

-----------------------------------------------------------------------------
(* What the documents say of the delay: rear left and right of upmix are   *)
(* the front channels "with a certain delay" (doc/upmix.txt:18), where the *)
(* input has two or three channels; the frames of speex are "the latency of*)
(* the filter" (doc/speexdsp.txt); a tap of vdownmix is its delay.         *)
Delay ==
  CASE plugin.kind = "upmix" ->
         IF plugin.channels \in {2, 3} /\ plugin.channel \in {2, 3} THEN Size ELSE 0
    [] plugin.kind = "downmix" -> plugin.tap
    [] plugin.kind = "speex" -> IF plugin.dsp = "none" THEN 0 ELSE Size

(* Each plugin is a delay: transfers cut anywhere, shorter or longer than  *)
(* the line, round its end, and a stream prepared anew, make no frame lost,*)
(* doubled, early or late, and none of an earlier stream is heard.         *)
Line == INSTANCE DelayLine WITH delay <- Delay
ImplementsDelayLine == Line!Spec
=============================================================================

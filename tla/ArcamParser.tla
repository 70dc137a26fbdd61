------------------------------ MODULE ArcamParser ------------------------------
(* arcam_av_receive (arcam-av/arcam_av.c): the answers of the amplifier, frames *)
(* of eight bytes A V _ command result param1 param2 CR, are picked out of what *)
(* read() returns.  The position in the frame and the fields read so far are    *)
(* static and outlive a call that runs out of bytes.                            *)
(* (ArcamProofs extends this module and ArcamServer: no name is in both.)       *)
EXTENDS Naturals, Sequences, FiniteSets, SequencesExt

CONSTANTS Byte,      \* what one byte may be
          Streams    \* what may arrive: sequences of items, each a sequence of bytes

ASSUME StreamsAssumption == \A s \in Streams : FlattenSeq(s) \in Seq(Byte)

VARIABLES wire,      \* bytes on the serial line
          buffer,    \* bytes read and not examined yet
          index,     \* position in the frame
          fields,    \* received_command, received_param1 and received_param2
          messages,  \* what arcam_av_update was given so far
          items      \* all that arrives

parserVars == <<wire, buffer, index, fields, messages, items>>

FrameSize == 8

ParserInit ==
    /\ items \in Streams
    /\ wire = FlattenSeq(items) /\ buffer = <<>>
    /\ index = 0 /\ fields = <<"none", "none", "none">>
    /\ messages = <<>>

\* The byte a position of the frame asks for; any byte will do at the others.
Expected == (0 :> "A") @@ (1 :> "V") @@ (2 :> "_") @@ (4 :> "OK") @@ (7 :> "CR")
Fits(i, b) == i \in DOMAIN Expected => b = Expected[i]

\* Mutant: a byte that does not fit is used up.
AfterDropped(i, b) == IF Fits(i, b) THEN i + 1 ELSE 0
\* A byte that does not fit is looked at again as the first of a frame.
After(i, b) == IF Fits(i, b) THEN i + 1 ELSE IF Fits(0, b) THEN 1 ELSE 0

FieldAt == (3 :> 1) @@ (5 :> 2) @@ (6 :> 3)

\* Mutant: a full buffer is asked for wherever the frame stands.
WantedFull == FrameSize
Wanted == FrameSize - index

\* read(): at least one byte, at most what the frame still wants.
Read ==
    /\ index < FrameSize /\ buffer = <<>> /\ wire # <<>>
    /\ \E n \in 1..Wanted :
        /\ n <= Len(wire)
        /\ buffer' = SubSeq(wire, 1, n)
        /\ wire' = SubSeq(wire, n + 1, Len(wire))
    /\ UNCHANGED <<index, fields, messages, items>>

\* One turn of the inner loop, with the second look at a byte that does not fit.
Examine ==
    /\ buffer # <<>>
    /\ index' = After(index, Head(buffer))
    /\ fields' = IF index \in DOMAIN FieldAt
                 THEN [fields EXCEPT ![FieldAt[index]] = Head(buffer)] ELSE fields
    /\ buffer' = Tail(buffer)
    /\ UNCHANGED <<wire, messages, items>>

\* The frame is complete: return it, and start over at the next call.
Return ==
    /\ index = FrameSize /\ buffer = <<>>
    /\ index' = 0
    /\ messages' = Append(messages, fields)
    /\ UNCHANGED <<wire, buffer, fields, items>>

ParserNext == Read \/ Examine \/ Return
ParserSpec == ParserInit /\ [][ParserNext]_parserVars /\ WF_parserVars(ParserNext)

-----------------------------------------------------------------------------
\* The position and what is left to examine never exceed a frame: nothing is
\* written past buffer[8], and a complete frame leaves no byte behind to be lost.
ParserTypeOK ==
    /\ index \in 0..FrameSize
    /\ Len(buffer) + index <= FrameSize
    /\ index = FrameSize => buffer = <<>>

\* A reference decoder that is told where the frames are: the fields of the frames
\* among the items whose result is OK, in order.
IsFrame(item) == /\ Len(item) = FrameSize /\ SubSeq(item, 1, 3) = <<"A", "V", "_">>
                 /\ item[5] = "OK" /\ item[8] = "CR"
Decoded == LET frames == SelectSeq(items, IsFrame)
           IN [i \in DOMAIN frames |-> <<frames[i][4], frames[i][6], frames[i][7]>>]

\* However the bytes are cut into reads, arcam_av_update gets the complete frames
\* and nothing else, in order: not the answers that report an error, and none is
\* lost behind noise or behind a frame cut off in its first two bytes.  (No message is
\* ever taken back: they are a prefix of these all along.)
AllDelivered == <>[](messages = Decoded)
=============================================================================

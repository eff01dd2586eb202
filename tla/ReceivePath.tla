---------------------------- MODULE ReceivePath ----------------------------
(***************************************************************************)
(* A capture from gen_pitch_pcap.py through the filters of NiStream into   *)
(* the parser of LvParser, as run() of check_parser_variants.py connects   *)
(* them: in each cycle what leaves the UDP stage, if anything, is one      *)
(* element for the parser.                                                 *)
(*                                                                         *)
(* The capture is a sequence of units; a unit is the sequence of its       *)
(* messages' lengths.  Messages and units that reach the parser are        *)
(* numbered by their place, and a message's type is its place in the unit. *)
(***************************************************************************)
EXTENDS NiStream

CONSTANTS
    Clears,        \* the parser's variant, see LvParser
    Units          \* the units of the capture; their frames have different lengths

ASSUME ClearsAssumption == Clears \subseteq {"taken", "header", "short"}

VARIABLES buf, L, state, total, hdr_len, msgs    \* the parser's

P == INSTANCE LvParser

parser == <<buf, L, state, total, hdr_len, msgs>>
allvars == <<vars, parser>>

---------------------------------------------------------------------------
\* The capture.

UNIT_HEADER == 8     \* SequencedUnitHeader: length, count, unit, sequence number
TO_PAYLOAD == 42     \* Ethernet, IPv4 and UDP header

SumOf(lens) == FoldSeq(LAMBDA x, y : x + y, 0, lens)
getLength(unit) == UNIT_HEADER + SumOf(unit)

\* build: a message that would make the payload too long starts the next unit;
\* the unit begun last is not in the capture.
AddMessage(max_payload, acc, m) ==
    IF getLength(acc.hdr) + m > max_payload
    THEN [frames |-> Append(acc.frames, acc.hdr), hdr |-> <<m>>]
    ELSE [acc EXCEPT !.hdr = Append(@, m)]

Build(max_payload, feed) ==
    FoldLeft(LAMBDA acc, m : AddMessage(max_payload, acc, m),
             [frames |-> <<>>, hdr |-> <<>>], feed).frames

\* write_outputs puts the headers in front and pads nothing; NiStream's assumption
\* on frames says that a unit has at least 18 bytes.
FrameLength(unit) == TO_PAYLOAD + getLength(unit)

\* A frame's length tells which unit it holds.
ASSUME UnitsAssumption ==
    /\ \A u, v \in Units : FrameLength(u) = FrameLength(v) => u = v
    /\ \A f \in Frames : \E u \in Units : FrameLength(u) = f.len

\* The unit in a frame of each length.
Contents == [n \in {FrameLength(u) : u \in Units} |-> CHOOSE u \in Units : FrameLength(u) = n]
UnitOf(f) == Contents[f.len]

\* get_all_bytes: a message's first byte is its length, the second here its place.
HeaderBytes(unit) == <<getLength(unit) % 256, getLength(unit) \div 256, Len(unit), 1, 255, 255, 255, 255>>
MessageBytes(unit, i) == [j \in 1 .. unit[i] |-> CASE j = 1 -> unit[i] [] j = 2 -> i [] OTHER -> 40 + j]
UnitBytes(unit) == HeaderBytes(unit) \o FlattenSeq([i \in 1 .. Len(unit) |-> MessageBytes(unit, i)])

Payloads == [n \in DOMAIN Contents |-> UnitBytes(Contents[n])]

\* What a byte of the stream holds: 0 where a word is padded, and 255 in a
\* later fragment, which nothing but the port of an earlier one brought here.
Value(byte) ==
    LET f == frames[byte[1]]
        i == byte[2] + 1 - TO_PAYLOAD
    IN  IF ~f.first THEN 255 ELSE IF i \in DOMAIN Payloads[f.len] THEN Payloads[f.len][i] ELSE 0

---------------------------------------------------------------------------
\* The UDP stage's output as the parser's FIFO element.

Element(in) ==
    LET bytes == IF HandsOn(in) THEN SelectSeq(in.lane, LAMBDA b : b # NoByte) ELSE <<>>
    IN  [bytes |-> [i \in DOMAIN bytes |-> Value(bytes[i])],
         valid |-> HandsOn(in),
         eof   |-> in.eof /\ Accepts(in),
         frame |-> IF bytes = <<>> THEN 0 ELSE Head(bytes)[1]]

Parse == \E e \in {Element(Ip4Out)} : IF e.valid \/ e.eof THEN P!Step(e) ELSE UNCHANGED parser

ParseWord == WordCycle /\ Parse
ParseIdle == IdleCycle /\ Parse
ParseDeliver(f) == Deliver(f) /\ UNCHANGED parser

PathInit == Init /\ P!Init
PathNext == ParseWord \/ ParseIdle \/ \E f \in Frames : ParseDeliver(f)

\* The clock runs.
PathSpec == PathInit /\ [][PathNext]_allvars /\ WF_allvars(ParseWord \/ ParseIdle)

---------------------------------------------------------------------------
\* The payload of the frame has this many bytes in front of its last word.
BeforeLastWord(unit) ==
    LET padded == PadBeats(FrameLength(unit)) - TO_PAYLOAD IN WORD * ((padded - 1) \div WORD)

\* The last message begins in the last word, behind the end of the one before.
TailInLastWord(unit) == Len(unit) > 1 /\ getLength(Front(unit)) >= BeforeLastWord(unit)

DueOf(k) ==
    LET unit == UnitOf(frames[k])
    IN  [i \in 1 .. Len(unit) - (IF TailInLastWord(unit) THEN 1 ELSE 0) |-> <<k, SubSeq(MessageBytes(unit, i), 1, IF unit[i] < WORD THEN unit[i] ELSE WORD)>>]

TakenOf(k) == SelectSeq(msgs, LAMBDA m : m[1] = k)

\* Whatever the lengths of units and frames, and whatever came before and was
\* rejected, or cut short by fragmentation, the parser starts each unit at its
\* header and takes its messages in order; only a last message that begins in
\* the frame's last word is dropped, by the clear at the end of the frame.
MessagesExact == \A k \in 1 .. Len(frames) : Datagram(k) => IsPrefix(TakenOf(k), DueOf(k))

\* ... and every other message is taken in the end, whenever frames stop coming:
\* none waits for another frame to push it out.
AllTaken == []<>(\A k \in 1 .. Len(frames) : Datagram(k) => TakenOf(k) = DueOf(k))

\* "Only consecutive Time/End-of-Session/Unit-Clear messages at a frame end are
\* affected": of every other unit all messages are taken in the end.
SHORT == 6

ShortPairAtEnd(unit) == Len(unit) > 1 /\ \A i \in Len(unit) - 1 .. Len(unit) : unit[i] = SHORT

OnlyShortPairsAffected ==
    []<>(\A k \in 1 .. Len(frames) :
            Datagram(k) /\ ~ShortPairAtEnd(UnitOf(frames[k]))
                => Len(TakenOf(k)) = Len(UnitOf(frames[k])))
============================================================================

------------------------------- MODULE Xgmii -------------------------------
(***************************************************************************)
(* What axis2xgmii.v and xgmii2axis.v share (xgmii_includes.vh): words of  *)
(* eight lanes and the frame check sequence.  A lane is a tuple of its     *)
(* kind and, for a byte of a frame, the frame's number and the byte's      *)
(* place in it; control characters and preamble have a kind only.  The CRC *)
(* register is the pair of frame and number of bytes it covers: two of     *)
(* them are equal when the bytes are, which is what a CRC is for.          *)
(***************************************************************************)
EXTENDS Naturals, Sequences

LANES == 8

I == <<"I", 0, 0, 0>>          \* idle
S == <<"S", 0, 0, 0>>          \* start
T == <<"T", 0, 0, 0>>          \* terminate
E == <<"E", 0, 0, 0>>          \* error
Preamble == <<"P", 0, 0, 0>>
Junk == <<"junk", 0, 0, 0>>    \* a lane without TKEEP

Byte(k, place) == <<"byte", k, place, 0>>
IsControl(ch) == ch \in {I, S, T, E}

Lanes(ch, n) == [i \in 1 .. n |-> ch]
QW_IDLE == Lanes(I, LANES)
PREAMBLE_LANE0 == <<S>> \o Lanes(Preamble, 7)
PREAMBLE_LANE4 == Lanes(I, 4) \o <<S>> \o Lanes(Preamble, 3)
PREAMBLE_LANE4_END == Lanes(Preamble, 4)

sof_lane0(d) == d[1] = S
sof_lane4(d) == d[5] = S

\* Lower and upper half of a word, and the first n lanes.
Low(d)  == SubSeq(d, 1, 4)
High(d) == SubSeq(d, 5, 8)
First(d, n) == SubSeq(d, 1, n)

CRC_PRESET == <<0, 0>>
CRC_OTHER == <<0, 1>>          \* of bytes that are not the start of one frame

\* crc1B .. crc8B: the register after more bytes.
Crc(crc, bytes) ==
    LET k == IF crc = CRC_PRESET THEN bytes[1][2] ELSE crc[1]
    IN  IF crc # CRC_OTHER /\ \A i \in 1 .. Len(bytes) : bytes[i] = Byte(k, crc[2] + i - 1)
        THEN <<k, crc[2] + Len(bytes)>>
        ELSE CRC_OTHER

\* The four bytes that go over the wire.
Fcs(crc) == [j \in 1 .. 4 |-> <<"fcs", crc[1], crc[2], j>>]
============================================================================

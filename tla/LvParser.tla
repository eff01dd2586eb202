----------------------------- MODULE LvParser -----------------------------
(***************************************************************************)
(* The LabVIEW parser, as ip_export/netlist_sim/parser_model.py and the    *)
(* variants of check_parser_variants.py have it: a buffer of NB words, to  *)
(* which every element of the filters' output adds up to eight bytes, and  *)
(* from whose front one header or one message goes per element.  Bytes are *)
(* numbers; word w of the buffer is buf[8 * w + 1] to buf[8 * w + 8],      *)
(* most significant byte first.                                            *)
(*                                                                         *)
(* The variants differ in when the end of a frame empties the buffer:      *)
(* A = {"taken"}, B = A with "header", C = B with "short".                 *)
(***************************************************************************)
EXTENDS Naturals, Sequences, SequencesExt, Bitwise

CONSTANT Clears     \* places where the end of a frame empties the buffer: "taken", "header", "short"

VARIABLES
    buf, L,            \* buffer and the number of bytes in use, 8 bits
    state,             \* "HDR" or "MSG"
    total, hdr_len,    \* bytes of the unit taken, and to be taken
    msgs               \* history: frame and first8 of the messages taken

NB == 9
WORD == 8
ZeroWord == [i \in 1 .. WORD |-> 0]
EmptyBuffer == [i \in 1 .. NB * WORD |-> 0]

\* Beyond the array a word reads as zero.
WordAt(b, w) == IF w < NB THEN SubSeq(b, WORD * w + 1, WORD * w + WORD) ELSE ZeroWord

\* u64.be of the bytes enabled, the others zero.
zero_out_and_convert(bytes) ==
    [i \in 1 .. WORD |-> IF i <= Len(bytes) THEN bytes[i] ELSE 0]

\* Byte i of the buffer, counted from 0, after the word u was added behind the
\* first len bytes: within the word it starts in it is ORed to what is there,
\* in the next one it replaces everything.  Beyond the array nothing happens.
ByteAfterAdd(b, len, u, i) ==
    LET idx == len \div WORD
        r   == len % WORD
        w   == i \div WORD
        at  == i % WORD
    IN  CASE r = 0 /\ w = idx -> u[at + 1]
          [] r # 0 /\ w = idx /\ at >= r -> b[i + 1] | u[at - r + 1]
          [] r # 0 /\ w = idx + 1 -> IF at < r THEN u[WORD - r + at + 1] ELSE 0
          [] OTHER -> b[i + 1]

add_data_to_buffer(b, len, bytes) ==
    IF bytes = <<>> /\ len % WORD = 0 THEN b
    ELSE LET u == zero_out_and_convert(bytes)
         IN  [i \in 1 .. NB * WORD |-> ByteAfterAdd(b, len, u, i - 1)]

\* Bytes that stay when whole words are dropped: all, up to a word; the 8-bit
\* shift count of LabVIEW makes it none for most of what is longer.
KeptOfWord(diff) == LET sh == (264 - diff) % 32 IN IF sh < WORD THEN WORD - sh ELSE 0

\* The first word of the buffer after start bytes were dropped; nothing else of
\* it survives.
CompressedWord(b, len, start) ==
    LET diff == (256 + len - start) % 256
        s    == start % WORD
        w0   == WordAt(b, start \div WORD)
        w1   == WordAt(b, start \div WORD + 1)
        aligned(i) == IF diff # 0 /\ i <= KeptOfWord(diff) THEN w0[i] ELSE 0
        joined(i)  == IF i <= WORD - s THEN w0[s + i]
                      ELSE IF i - (WORD - s) <= len % WORD THEN w1[i - (WORD - s)] ELSE 0
    IN  [i \in 1 .. WORD |-> IF s = 0 THEN aligned(i) ELSE joined(i)]

\* (mutant) The second word is never looked at.
CompressFirstWord(b, len, start) ==
    [i \in 1 .. NB * WORD |->
        IF i + (start % WORD) <= WORD THEN WordAt(b, start \div WORD)[i + (start % WORD)] ELSE 0]

compress_buffer(b, len, start) == CompressedWord(b, len, start) \o SubSeq(EmptyBuffer, WORD + 1, NB * WORD)

---------------------------------------------------------------------------
\* One element: the bytes it adds, none when it is not valid, whether the frame
\* ends with it, and the number of that frame.  What follows sees the buffer
\* with the bytes added.

Added(e)  == IF e.valid THEN add_data_to_buffer(buf, L, e.bytes) ELSE buf
Length(e) == (L + Len(e.bytes)) % 256
ln(e) == Added(e)[1]

\* Length, type and what else of the message is in its first eight bytes.
first8(e) == SubSeq(Added(e), 1, IF ln(e) < WORD THEN ln(e) ELSE WORD)

\* (mutant) The end of a frame in the middle of a message leaves its bytes.
KeepShort(e) == Length(e)

LengthInHeader(e) == IF e.eof /\ "header" \in Clears THEN 0 ELSE Length(e)
LengthShort(e)    == IF e.eof /\ "short" \in Clears THEN 0 ELSE Length(e)

ReadHeader(e) ==
    /\ state = "HDR" /\ Length(e) >= 8
    /\ hdr_len' = Added(e)[1] + 256 * Added(e)[2]
    /\ buf' = compress_buffer(Added(e), Length(e), 8)
    /\ L' = Length(e) - 8
    /\ total' = 8 /\ state' = "MSG"
    /\ UNCHANGED msgs

AwaitHeader(e) ==
    /\ state = "HDR" /\ Length(e) < 8
    /\ buf' = Added(e)
    /\ L' = LengthInHeader(e)
    /\ UNCHANGED <<state, total, hdr_len, msgs>>

\* Even the end of the frame goes unnoticed.
NoBytes(e) ==
    /\ state = "MSG" /\ Length(e) = 0
    /\ buf' = Added(e) /\ L' = 0
    /\ UNCHANGED <<state, total, hdr_len, msgs>>

\* A message that is in the buffer from its first to its last byte; done compares
\* its end with the length of the unit.
TakeMessage(e) ==
    /\ state = "MSG" /\ Length(e) # 0 /\ Length(e) >= ln(e)
    /\ msgs' = Append(msgs, <<e.frame, first8(e)>>)
    /\ buf' = compress_buffer(Added(e), Length(e), ln(e))
    /\ total' = total + ln(e)
    /\ LET done == total + ln(e) >= hdr_len
       IN  /\ state' = IF done \/ e.eof THEN "HDR" ELSE "MSG"
           /\ L' = IF (done \/ e.eof) /\ "taken" \in Clears THEN 0 ELSE Length(e) - ln(e)
    /\ UNCHANGED hdr_len

AwaitMessage(e) ==
    /\ state = "MSG" /\ Length(e) # 0 /\ Length(e) < ln(e)
    /\ buf' = Added(e)
    /\ L' = LengthShort(e)
    /\ state' = IF e.eof THEN "HDR" ELSE "MSG"
    /\ UNCHANGED <<total, hdr_len, msgs>>

Step(e) == ReadHeader(e) \/ AwaitHeader(e) \/ NoBytes(e) \/ TakeMessage(e) \/ AwaitMessage(e)

Init ==
    /\ buf = EmptyBuffer /\ L = 0 /\ state = "HDR" /\ total = 0 /\ hdr_len = 0 /\ msgs = <<>>
============================================================================

---------------------------- MODULE BatsParser ----------------------------
(***************************************************************************)
(* The PITCH parser, docs/kr260/bats.parser.v: every clock cycle it        *)
(* appends the input word, if there is one, to a byte buffer and then      *)
(* takes the Sequenced Unit header or one whole message off its front.     *)
(*                                                                         *)
(* A byte is a number and stands for what the parser reads at its place: a *)
(* header is HDR bytes with the message count in byte 2 and the sequence   *)
(* number in byte 4, a message starts with its length and its type and has *)
(* its content (order, seconds) in byte 2.  The upstream UDP stage is      *)
(* external: it offers the words of one datagram after the other, when     *)
(* ready_for_udp_input allows, and loses the rest of a datagram when the   *)
(* whole IP is reset.                                                      *)
(***************************************************************************)
EXTENDS Naturals, Sequences, SequencesExt

CONSTANTS
    WORD,          \* bytes of an input word (8)
    HDR,           \* bytes of a Sequenced Unit header (8)
    BUF_BYTES,     \* bytes of the buffer (72)
    SEQ_RANGE,     \* sequence numbers wrap here (2^32)
    Datagrams,     \* [seq, msgs] the feed may send
    MaxDatagrams,  \* bound: datagrams sent
    MaxResets,     \* bound: resets after the first
    CutShort       \* those of Datagrams that may be cut short, with eof.bad

ASSUME SizeAssumption ==
    /\ WORD \in Nat \ {0} /\ BUF_BYTES \in Nat /\ HDR \in 5 .. BUF_BYTES
    /\ WORD <= BUF_BYTES /\ SEQ_RANGE \in Nat \ {0}

VARIABLES
    state,          \* BATS.Parser.States
    buffer,         \* its first buffer_length bytes
    total_counter,  \* messages left in the unit, 16 bits
    next_seq_no,
    seconds_r,      \* from the last Time message
    recv_time_r,    \* time stamp of the last word: the number of its datagram
    cmd,            \* OrderBook.Command of this cycle, <<>> if cmd_valid is low
    wire,           \* words of the current datagram the parser has not got yet
    due,            \* history: messages of the stream not parsed yet
    clock,          \* history: seconds of the last Time message that was due
    flushed,        \* history: a malformed message was flushed
    datagrams,      \* history: datagrams sent
    resets          \* history: resets

parser == <<state, buffer, total_counter, next_seq_no, seconds_r, recv_time_r, cmd>>
vars == <<parser, wire, due, clock, flushed, datagrams, resets>>

MSG_TIME == 32          \* 0x20
AddOrder == {33, 34, 47}
OrderExecuted == {35, 36}

---------------------------------------------------------------------------
\* The wire.

Zeros(n) == [i \in 1 .. n |-> 0]
HeaderBytes(d) == <<0, 0, Len(d.msgs), 1, d.seq>> \o Zeros(HDR - 5)
MessageBytes(m) == <<m.len, m.type, m.val>> \o Zeros(m.len - 3)
Bytes(d) == HeaderBytes(d) \o FlattenSeq([i \in 1 .. Len(d.msgs) |-> MessageBytes(d.msgs[i])])

\* A datagram as words; eof is on the last one.
Words(bytes, bad) ==
    LET n == (Len(bytes) + WORD - 1) \div WORD
        last(i) == IF i = n THEN Len(bytes) ELSE i * WORD
    IN  [i \in 1 .. n |-> [bytes |-> SubSeq(bytes, (i - 1) * WORD + 1, last(i)),
                           eof_bad |-> bad /\ i = n]]

\* Whatever a datagram says, it says it in numbers.
ASSUME FeedAssumption ==
    \A d \in Datagrams : d.seq \in Nat /\ d.msgs \in Seq([len : Nat, type : Nat, val : Nat])

\* What the bytes of a feed can say: the count of a unit is one byte, and a
\* message has its length, its type and its content, or a length of zero.
COUNT_MAX == 255

WellFormed ==
    \A d \in Datagrams :
        /\ Len(d.msgs) <= COUNT_MAX
        /\ \A i \in 1 .. Len(d.msgs) : d.msgs[i].len = 0 \/ d.msgs[i].len >= 3

\* A unit without messages is a heartbeat.  Feeds have them, and the parser does
\* not cope with them (see ReadyForNextUnit): what holds without them says so.
NoHeartbeats == \A d \in Datagrams : d.msgs # <<>>

\* What a datagram obliges the parser to.
Messages(d, number) ==
    [i \in 1 .. Len(d.msgs) |->
        [seq |-> (d.seq + i - 1) % SEQ_RANGE, type |-> d.msgs[i].type,
         val |-> d.msgs[i].val, datagram |-> number]]

\* The next datagram comes in: whole, or cut short and marked bad.
Send(d) ==
    /\ wire = <<>> /\ datagrams < MaxDatagrams
    /\ \/ wire' = Words(Bytes(d), FALSE)
       \/ /\ d \in CutShort
          /\ \E n \in 1 .. Len(Bytes(d)) : wire' = Words(SubSeq(Bytes(d), 1, n), TRUE)
    /\ due' = due \o Messages(d, datagrams + 1)
    /\ datagrams' = datagrams + 1
    /\ UNCHANGED <<parser, clock, flushed, resets>>

---------------------------------------------------------------------------
\* One cycle: in is the word taken this cycle, NoWord when data.valid is low.

NoWord == [bytes |-> <<>>, eof_bad |-> FALSE]

\* (mutants) Ready while there is any room; ready one byte too late.
ReadyWhileRoom == state # "Reset" /\ Len(buffer) < BUF_BYTES
ReadyLate      == state # "Reset" /\ Len(buffer) < BUF_BYTES - WORD

ready_for_udp_input == state # "Reset" /\ Len(buffer) <= BUF_BYTES - WORD

\* add.data.to.buffer and compress.buffer
abuf(in) == buffer \o in.bytes
compress_buffer(b, consume) == SubSeq(b, consume + 1, Len(b))

\* new.uxx.be, for the byte that stands for a field; beyond the bytes held the
\* buffer is zero.
new_uxx_be(in, at) == IF at < Len(abuf(in)) THEN abuf(in)[at + 1] ELSE 0

hdr_ready(in) == Len(abuf(in)) >= HDR
msg_length(in) == new_uxx_be(in, 0)
msg_type(in) == new_uxx_be(in, 1)
msg_known(in) == Len(abuf(in)) >= 2
msg_malformed(in) == msg_known(in) /\ (msg_length(in) = 0 \/ msg_length(in) > BUF_BYTES)
msg_ready(in) == msg_known(in) /\ ~msg_malformed(in) /\ Len(abuf(in)) >= msg_length(in)

\* A bad end of frame flushes the buffer, whatever else the cycle does.
NextBuffer(in, b) == buffer' = IF in.eof_bad THEN <<>> ELSE b
NextState(in, s)  == state'  = IF in.eof_bad THEN "ReadHdr" ELSE s

\* "Entire message should be available now": what is still due loses its head,
\* and all of it when the buffer is flushed.
Settle(in, owed) == due' = IF in.eof_bad THEN <<>> ELSE owed

ReadHeader(in) ==
    /\ state = "ReadHdr" /\ hdr_ready(in)
    /\ total_counter' = new_uxx_be(in, 2)
    /\ next_seq_no' = new_uxx_be(in, 4) % SEQ_RANGE
    /\ NextState(in, "ReadMsg")
    /\ NextBuffer(in, compress_buffer(abuf(in), HDR))
    /\ cmd' = <<>>
    /\ Settle(in, due)
    /\ UNCHANGED <<seconds_r, clock, flushed>>

AwaitHeader(in) ==
    /\ state = "ReadHdr" /\ ~hdr_ready(in)
    /\ NextState(in, "ReadHdr")
    /\ NextBuffer(in, abuf(in))
    /\ cmd' = <<>>
    /\ Settle(in, due)
    /\ UNCHANGED <<total_counter, next_seq_no, seconds_r, clock, flushed>>

FlushMalformed(in) ==
    /\ state = "ReadMsg" /\ msg_malformed(in)
    /\ state' = "ReadHdr" /\ buffer' = <<>> /\ cmd' = <<>> /\ due' = <<>> /\ flushed' = TRUE
    /\ UNCHANGED <<total_counter, next_seq_no, seconds_r, clock>>

\* The command of a message: seconds and sequence number are the registers'.
Command(in) ==
    [type |-> msg_type(in), val |-> new_uxx_be(in, 2), seconds |-> seconds_r,
     seq |-> next_seq_no, recv |-> recv_time_r]

\* (mutant) The unit ends a message early.
UnitOverEarly == total_counter <= 2

\* The last message of a unit, the counter reading one, ends it.
UnitOver == total_counter <= 1
SeqAfter(n) == (n + 1) % SEQ_RANGE

ReadMessage(in) ==
    /\ state = "ReadMsg" /\ msg_ready(in)
    /\ cmd' = IF msg_type(in) \in AddOrder \cup OrderExecuted THEN Command(in) ELSE <<>>
    /\ seconds_r' = IF msg_type(in) = MSG_TIME THEN new_uxx_be(in, 2) ELSE seconds_r
    /\ next_seq_no' = SeqAfter(next_seq_no)
    /\ total_counter' = (total_counter + 65535) % 65536
    /\ NextState(in, IF UnitOver THEN "ReadHdr" ELSE "ReadMsg")
    /\ NextBuffer(in, compress_buffer(abuf(in), msg_length(in)))
    /\ clock' = IF due # <<>> /\ Head(due).type = MSG_TIME THEN Head(due).val ELSE clock
    /\ Settle(in, IF due = <<>> THEN due ELSE Tail(due))
    /\ UNCHANGED flushed

AwaitMessage(in) ==
    /\ state = "ReadMsg" /\ ~msg_malformed(in) /\ ~msg_ready(in)
    /\ NextState(in, "ReadMsg")
    /\ NextBuffer(in, abuf(in))
    /\ cmd' = <<>>
    /\ Settle(in, due)
    /\ UNCHANGED <<total_counter, next_seq_no, seconds_r, clock, flushed>>

KeepBuffering(in) ==
    /\ state = "Noop"
    /\ NextState(in, "Noop")
    /\ NextBuffer(in, abuf(in))
    /\ cmd' = <<>>
    /\ Settle(in, due)
    /\ UNCHANGED <<total_counter, next_seq_no, seconds_r, clock, flushed>>

Cycle(in) ==
    \/ ReadHeader(in) \/ AwaitHeader(in) \/ FlushMalformed(in)
    \/ ReadMessage(in) \/ AwaitMessage(in) \/ KeepBuffering(in)

\* (mutant) The time of the last word of a datagram only.
LatchAtEof == IF Len(wire) = 1 THEN datagrams ELSE recv_time_r

\* The time stamp that comes with the word.
ds_timestamp == datagrams

\* A cycle with data.valid ...
WordCycle ==
    /\ wire # <<>> /\ ready_for_udp_input
    /\ Cycle(Head(wire))
    /\ wire' = Tail(wire)
    /\ recv_time_r' = ds_timestamp
    /\ UNCHANGED <<datagrams, resets>>

\* ... and one without: the stream pauses, or the parser is not ready.
IdleCycle ==
    /\ Cycle(NoWord)
    /\ UNCHANGED <<wire, recv_time_r, datagrams, resets>>

\* The reset input: it only forces the state; what comes in meanwhile is lost.
PressReset ==
    /\ resets <= MaxResets
    /\ state' = "Reset" /\ cmd' = <<>>
    /\ wire' = <<>> /\ due' = <<>> /\ resets' = resets + 1
    /\ UNCHANGED <<buffer, total_counter, next_seq_no, seconds_r, recv_time_r, clock, flushed, datagrams>>

LeaveReset ==
    /\ state = "Reset"
    /\ state' = "ReadHdr" /\ buffer' = <<>>
    /\ total_counter' = 0 /\ next_seq_no' = 0 /\ seconds_r' = 0 /\ cmd' = <<>>
    /\ clock' = 0
    /\ UNCHANGED <<recv_time_r, wire, due, flushed, datagrams, resets>>

\* Registers power up as zero, and state zero is Noop: the parser waits for
\* its first reset.
Init ==
    /\ state = "Noop" /\ buffer = <<>> /\ total_counter = 0 /\ next_seq_no = 0
    /\ seconds_r = 0 /\ recv_time_r = 0 /\ cmd = <<>>
    /\ wire = <<>> /\ due = <<>> /\ clock = 0 /\ flushed = FALSE /\ datagrams = 0 /\ resets = 0

Clock == WordCycle \/ IdleCycle \/ LeaveReset

Next == Clock \/ PressReset \/ \E d \in Datagrams : Send(d)

Spec == Init /\ [][Next]_vars

\* The clock runs, and an offered word is taken when the parser is ready.
FairSpec == Spec /\ WF_vars(Clock) /\ SF_vars(WordCycle)

---------------------------------------------------------------------------
\* ready_for_udp_input is enough of a promise: the buffer never overflows, not
\* even between appending a word and taking a message off the front.
BufferBounded ==
    /\ Len(buffer) <= BUF_BYTES
    /\ wire # <<>> /\ ready_for_udp_input => Len(abuf(Head(wire))) <= BUF_BYTES

\* cmd_valid is high after this cycle.
Emits == cmd' # <<>> /\ datagrams' = datagrams

\* Each command is the next message due, with its own sequence number and the
\* time of the last Time message before it; a message is never skipped,
\* repeated or made up, however words and messages straddle each other, until a
\* malformed message (or a heartbeat) makes the parser lose its place.  A bad end
\* of frame writes off all that is due, messages of an earlier datagram that are
\* still in the buffer included, as the flush does.
EmitsWhatIsDue ==
    [][Emits /\ ~flushed =>
          /\ due # <<>>
          /\ cmd'.type = Head(due).type /\ cmd'.val = Head(due).val
          /\ cmd'.seq = Head(due).seq /\ cmd'.seconds = clock]_vars

\* The receive time of a command is never that of an earlier datagram, although
\* the register lags the word that completes the message; it may be that of a
\* later one, whose words came in meanwhile.  (Once the parser lost
\* its place, what it emits is of no message, and of no datagram.)
RecvTimeOfOwnDatagram ==
    [][Emits /\ ~flushed /\ due # <<>> => cmd'.recv >= Head(due).datagram]_vars

\* "A good eof needs no flush - total_counter already returns the state machine
\* to Read.Sequenced.Unit.Header after the unit's last message": when all that
\* was sent is parsed the parser waits for a header.  False of a heartbeat, whose
\* header takes the parser to the message state like any other, where it will read
\* the next header as a message; true of feeds without heartbeats.
ReadyForNextUnit == state = "ReadMsg" /\ wire = <<>> /\ ~flushed => buffer # <<>>

\* Once the parser was reset, and until a malformed message makes it lose its
\* place, every message is parsed or flushed in the end: the parser never waits
\* for bytes it will not take.
AllParsed ==
    \A n \in 1 .. MaxDatagrams :
        datagrams = n ~> (due = <<>> \/ datagrams > n \/ state = "Noop" \/ flushed)
============================================================================

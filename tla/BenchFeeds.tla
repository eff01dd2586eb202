---------------------------- MODULE BenchFeeds -----------------------------
(***************************************************************************)
(* What the simulation benches feed the IPs with: the units that are built *)
(* in a MyList with the calls of bats_loader.py, by bats_parser_tb.sv or   *)
(* by tests_bats_loader.py, and the frames of a capture that poc_ip.sv     *)
(* takes from the EthernetFrame of poc_ip.py.                              *)
(*                                                                         *)
(* A byte is <<k, n>>: byte n of the k-th message or frame; a header's     *)
(* bytes are <<0, value>>.  cboe_pitch, which makes the messages, and      *)
(* scapy, which reads captures, are external.  A word is the sequence of   *)
(* its eight bytes, most significant first; byte enables are numbers.  A   *)
(* bench has one thread, so a loop over words is one step.                 *)
(***************************************************************************)
EXTENDS Naturals, Sequences, SequencesExt

CONSTANTS
    MaxCalls,     \* bound: calls that add to a unit
    Captures,     \* captures, sequences of frame lengths
    Unreadable,   \* a capture scapy cannot read
    Missing       \* the path of no capture

ASSUME CapturesAssumption == Captures \subseteq Seq(Nat)

VARIABLES
    pc,        \* where the bench is
    _data,     \* MyList: the bytes
    calls,     \* calls that may have added a message
    loaded,    \* history: numbers and lengths of the messages that were, in order
    headed,    \* history: a header was put in front of them
    _packets,  \* Pcap
    frame,     \* frames fed
    byteorder, \* what the bench passes as order
    bus        \* history: bytes the IP took, and ends of frames

unit == <<_data, calls, loaded, headed>>
capture == <<_packets, frame, byteorder>>
vars == <<pc, unit, capture, bus>>

ZERO == <<0, 0>>
LAST == <<0, "tlast">>

\* The bytes of a word whose enable bit is set, bit 7 being the first.
Enabled(word, enables) ==
    FlattenSeq([n \in 1 .. 8 |-> IF (enables \div 2 ^ (8 - n)) % 2 = 1 THEN <<word[n]>> ELSE <<>>])

---------------------------------------------------------------------------
\* MyList.

append(list, value) == Append(list, value)
append_list(list, in_list) == list \o in_list
prepend_list(list, in_list) == in_list \o list

get_num_words(list) == Len(list) \div 8 + IF Len(list) % 8 > 0 THEN 1 ELSE 0

\* Only the last word may have fewer than eight bytes; it is padded with zeros.
Stop(list, index) == IF index * 8 + 8 > Len(list) THEN Len(list) ELSE index * 8 + 8
NumZeros(list, index) == 8 - (Stop(list, index) - index * 8)

get_word(list, index) ==
    SubSeq(list, index * 8 + 1, Stop(list, index)) \o [n \in 1 .. NumZeros(list, index) |-> ZERO]

\* (mutant) The mask of the value it logs.
EnablesOfNibble(list, index) == (255 * 2 ^ NumZeros(list, index)) % 16

get_byte_enables(list, index) == (255 * 2 ^ NumZeros(list, index)) % 256

---------------------------------------------------------------------------
\* A bench or a test that builds a unit.

Bytes(k, len) == [n \in 1 .. len |-> <<k, n>>]

\* A call of cboe_pitch either returns the message or raises; then the wrapper
\* returns 1, which bats_parser_tb.sv does not look at, and the list stays as it
\* was.
Wrapper(len, prepend) ==
    /\ pc = "load" /\ calls < MaxCalls
    /\ calls' = calls + 1
    /\ \/ LET out_a == Bytes(calls', len)
          IN  IF prepend
              THEN _data' = prepend_list(_data, out_a) /\ loaded' = <<<<calls', len>>>> \o loaded
              ELSE _data' = append_list(_data, out_a) /\ loaded' = Append(loaded, <<calls', len>>)
       \/ UNCHANGED <<_data, loaded>>
    /\ UNCHANGED <<pc, headed, capture, bus>>

get_time(prepend)                         == Wrapper(6, prepend)
get_add_order_long(prepend)               == Wrapper(34, prepend)
get_add_order_short(prepend)              == Wrapper(26, prepend)
get_add_order_expanded(prepend)           == Wrapper(41, prepend)
get_order_executed(prepend)               == Wrapper(26, prepend)
get_order_executed_at_price_size(prepend) == Wrapper(38, prepend)
get_reduce_size_long(prepend)             == Wrapper(18, prepend)
get_reduce_size_short(prepend)            == Wrapper(16, prepend)
get_modify_order_long(prepend)            == Wrapper(27, prepend)
get_modify_order_short(prepend)           == Wrapper(19, prepend)
get_delete_order(prepend)                 == Wrapper(14, prepend)
get_trade_long(prepend)                   == Wrapper(41, prepend)
get_trade_short(prepend)                  == Wrapper(33, prepend)
get_trade_expanded(prepend)               == Wrapper(43, prepend)

\* Test #1 of the bench puts single values into the list.
AppendValue ==
    /\ pc = "load" /\ calls < MaxCalls
    /\ calls' = calls + 1
    /\ _data' = append(_data, <<calls', 1>>) /\ loaded' = Append(loaded, <<calls', 1>>)
    /\ UNCHANGED <<pc, headed, capture, bus>>

\* SequencedUnitHeader, external: the length in the first two bytes counts the
\* header too.
HEADER == 8
Header(len) == <<<<0, (HEADER + len) % 256>>, <<0, (HEADER + len) \div 256>>>> \o [n \in 1 .. HEADER - 2 |-> <<0, n>>]

get_seq_unit_hdr ==
    /\ pc = "load"
    /\ pc' = "built"
    /\ \/ _data' = Header(Len(_data)) \o _data /\ headed' = TRUE
       \/ UNCHANGED <<_data, headed>>
    /\ UNCHANGED <<calls, loaded, capture, bus>>

\* The list read back word by word, each with its enables, as
\* tests_bats_loader.py does with lists of some lengths.
ReadUnit ==
    /\ pc = "built"
    /\ bus' = FlattenSeq([j \in 1 .. get_num_words(_data) |->
                             Enabled(get_word(_data, j - 1), get_byte_enables(_data, j - 1))])
    /\ pc' = "read"
    /\ UNCHANGED <<unit, capture>>

\* Test #4 drives two words whatever the list holds, with enables written out in
\* the bench; but before it does it asserts that the header was made and that
\* the list has 14 bytes.  A failed assertion is reported and the bench goes on.
\* Its unit is a single Time message; any other is one it reports.
FeedUnit ==
    /\ pc = "built"
    /\ bus' = Enabled(get_word(_data, 0), 255) \o Enabled(get_word(_data, 1), 252)
    /\ pc' = IF headed /\ Len(_data) = 14 THEN "fed" ELSE "reported"
    /\ UNCHANGED <<unit, capture>>

\* my_list = new()
NewList ==
    /\ pc \in {"read", "fed", "reported"}
    /\ pc' = "load" /\ _data' = <<>> /\ calls' = 0 /\ loaded' = <<>> /\ headed' = FALSE /\ bus' = <<>>
    /\ UNCHANGED capture

---------------------------------------------------------------------------
\* A bench that replays a capture.  An EthernetFrame is its _raw_bytes.

get_number_of_words(raw) == Len(raw) \div 8 + IF Len(raw) % 8 > 0 THEN 1 ELSE 0

IsLastWord(raw, index) == index + 1 = get_number_of_words(raw)

\* int.from_bytes: in little-endian order the first byte is the last lane.
from_bytes(bytes, order) == IF order = 1 THEN Reverse(bytes) ELSE bytes

\* The last word has as many bytes as are over: none, when the length is a
\* multiple of eight.
frame_get_word(raw, index, order) ==
    LET num_bytes == Len(raw) % 8
        ret == SubSeq(raw, index * 8 + 1, index * 8 + num_bytes) \o [n \in 1 .. 8 - num_bytes |-> ZERO]
    IN  IF IsLastWord(raw, index) THEN from_bytes(ret, order)
        ELSE from_bytes(SubSeq(raw, index * 8 + 1, index * 8 + 8), order)

\* (mutant) The enables of the little-endian order for both.
TkeepUnshifted(raw, index, order) == IF IsLastWord(raw, index) THEN 2 ^ (Len(raw) % 8) - 1 ELSE 255

get_word_tkeep(raw, index, order) ==
    LET num_bytes == Len(raw) % 8
        unshifted == 2 ^ num_bytes - 1
    IN  IF ~IsLastWord(raw, index) THEN 255
        ELSE IF order = 0 THEN unshifted * 2 ^ (8 - num_bytes) ELSE unshifted

\* Without the file the constructor raises; a file scapy cannot read is an empty
\* capture.
OpenPcap(file) ==
    /\ pc = "open"
    /\ pc' = IF file = Missing THEN "raised" ELSE "replay"
    /\ _packets' = IF file \in {Missing, Unreadable} THEN <<>> ELSE file
    /\ byteorder' \in {0, 1}
    /\ UNCHANGED <<unit, frame, bus>>

get_frame(index) == Bytes(index, _packets[index])

\* The bytes of one beat in the order of the frame.
Beat(raw, index, order) ==
    LET kept == Enabled(frame_get_word(raw, index, order), get_word_tkeep(raw, index, order))
    IN  from_bytes(kept, order)

FeedFrame ==
    /\ pc = "replay" /\ frame < Len(_packets)
    /\ frame' = frame + 1
    /\ LET raw == get_frame(frame')
       IN  bus' = bus \o FlattenSeq([j \in 1 .. get_number_of_words(raw) |-> Beat(raw, j - 1, byteorder)])
                      \o <<LAST>>
    /\ UNCHANGED <<pc, unit, _packets, byteorder>>

---------------------------------------------------------------------------
Init ==
    /\ pc \in {"load", "open"}
    /\ _data = <<>> /\ calls = 0 /\ loaded = <<>> /\ headed = FALSE
    /\ _packets = <<>> /\ frame = 0 /\ byteorder = 0
    /\ bus = <<>>

Load ==
    \/ \E prepend \in BOOLEAN :
          \/ get_time(prepend)
          \/ get_add_order_long(prepend) \/ get_add_order_short(prepend) \/ get_add_order_expanded(prepend)
          \/ get_order_executed(prepend) \/ get_order_executed_at_price_size(prepend)
          \/ get_reduce_size_long(prepend) \/ get_reduce_size_short(prepend)
          \/ get_modify_order_long(prepend) \/ get_modify_order_short(prepend)
          \/ get_delete_order(prepend)
          \/ get_trade_long(prepend) \/ get_trade_short(prepend) \/ get_trade_expanded(prepend)
    \/ AppendValue

Next ==
    \/ Load \/ get_seq_unit_hdr \/ ReadUnit \/ FeedUnit \/ NewList
    \/ \E file \in Captures \cup {Unreadable, Missing} : OpenPcap(file)
    \/ FeedFrame

Spec == Init /\ [][Next]_vars

---------------------------------------------------------------------------
\* A unit that is read word by word holds the messages of the calls that
\* succeeded, the prepended ones first and the last of them in front, behind a
\* header that counts exactly the bytes there are: words and enables agree
\* whatever the lengths, and a call that fails leaves nothing behind.  So does
\* what Test #4 gives the parser, unless the bench has reported its unit.
UnitFed ==
    LET messages == FlattenSeq([n \in DOMAIN loaded |-> Bytes(loaded[n][1], loaded[n][2])])
    IN  pc \in {"read", "fed"} =>
            /\ SubSeq(bus, Len(bus) - Len(messages) + 1, Len(bus)) = messages
            /\ IF headed
               THEN Len(bus) = HEADER + Len(messages) /\ bus[1][2] + 256 * bus[2][2] = Len(bus)
               ELSE Len(bus) = Len(messages)

\* The bytes of each frame reach the IP in their order, in either byte order,
\* with tlast behind them; but a frame that fills its last word loses that one,
\* for get_word and get_word_tkeep take it to be empty.
FramesFed ==
    pc = "replay" =>
        bus = FlattenSeq([k \in 1 .. frame |->
                 Bytes(k, IF _packets[k] % 8 = 0 THEN _packets[k] - 8 ELSE _packets[k]) \o <<LAST>>])
============================================================================

----------------------------- MODULE NiStream -----------------------------
(***************************************************************************)
(* The receive path in front of the parser, as the cycle-accurate model    *)
(* ip_export/netlist_sim/ni_stream_model.py has it: MAC filter, IPv4       *)
(* subframe finder, IPv4 filter and UDP state machine, one after the       *)
(* other.  One step is one clock cycle; the registers keep the names (fbN) *)
(* they have there.  A byte is the pair of its frame's number and its      *)
(* place in the frame, so that what the filters compare it with is an      *)
(* attribute of the frame.                                                 *)
(*                                                                         *)
(* The frames come in as in run() and pad_beats of                         *)
(* check_parser_variants.py: the words of a frame in consecutive cycles,   *)
(* any number of idle cycles between two frames, none included.  The words *)
(* of idle cycles are never looked at and are blank here; the bad end of   *)
(* frame travels as the good one does and is left out, as run() does.      *)
(***************************************************************************)
EXTENDS Naturals, Sequences, SequencesExt

CONSTANTS
    Frames,      \* frames the network may deliver, see Frame
    MaxFrames    \* bound: frames delivered

\* dest: for our MAC address; v4: IPv4 with a plain header; ip: for our IP
\* address; udp, first, port: protocol 17, fragment offset 0, our port; more:
\* "more fragments"; ident: Identification.
Frame == [len : Nat, dest : BOOLEAN, v4 : BOOLEAN, ip : BOOLEAN, udp : BOOLEAN,
          first : BOOLEAN, port : BOOLEAN, more : BOOLEAN, ident : Nat]

\* Of a frame, 14 bytes are the Ethernet header; it has no padding.  For an IPv4
\* packet of less than 46 bytes FindSubframe enters the small-packet path, and its
\* next step raises NotImplementedError: there are no such frames here.
ASSUME FramesAssumption == Frames \subseteq Frame /\ \A f \in Frames : f.len >= 60

VARIABLES
    frames,      \* history: frames delivered
    wire,        \* words of the current frame still to come
    mac, sub, ip4, udp,    \* registers of the four stages
    got          \* history: bytes and ends of frame handed to the parser

vars == <<frames, wire, mac, sub, ip4, udp, got>>

WORD == 8
NoByte == <<0, 0>>       \* a lane without byte enable
EndOfFrame == <<0, 1>>
Blank == [i \in 1 .. WORD |-> NoByte]
Idle == [lane |-> Blank, valid |-> FALSE, eof |-> FALSE]

\* The byte is the one at a place of a frame that has the attribute.
Is(byte, place, attr) == byte # NoByte /\ byte[2] = place /\ frames[byte[1]][attr]

\* The last n bytes of the older word and the first of the newer.
Window(older, newer, n) == SubSeq(older, WORD - n + 1, WORD) \o SubSeq(newer, 1, WORD - n)

---------------------------------------------------------------------------
\* Words of a frame.  (mutant) Only a full last word is padded.

PadFullOnly(len) == IF len % WORD = 0 THEN len + 1 ELSE len

\* pad_beats: a last word with 7 or 8 bytes is filled and followed by another
\* with a single byte.
PadBeats(len) ==
    IF len % WORD \in {7, 0} THEN WORD * ((len + WORD - 1) \div WORD) + 1 ELSE len

Words(k, len) ==
    LET n == (len + WORD - 1) \div WORD
        byte(place) == IF place < len THEN <<k, place>> ELSE NoByte
    IN  [w \in 1 .. n |-> [lane  |-> [i \in 1 .. WORD |-> byte(WORD * (w - 1) + i - 1)],
                           valid |-> TRUE,
                           eof   |-> w = n]]

---------------------------------------------------------------------------
\* MacFilter.  States: 0 Idle, 1 Wait For Last, 2 Purge.

MacInit == [fb0 |-> 0, fb1 |-> FALSE, fb2 |-> "none", fb7 |-> FALSE,
            fb8 |-> FALSE, fb9 |-> FALSE, fb10 |-> FALSE,
            fb20 |-> Blank, fb21 |-> Blank, fb23 |-> <<"dest", "src">>, fb24 |-> Blank]

MacOut == [lane |-> IF mac.fb7 THEN mac.fb24 ELSE Blank, valid |-> mac.fb7, eof |-> mac.fb9]

\* The last word has bytes that do not fit into the window it completes.
MacSpills(in) == \E i \in 7 .. 8 : in.lane[i] # NoByte

MacMatch(in) == in.valid /\ Is(in.lane[1], 0, "dest")

MacState(in) ==
    CASE mac.fb0 = 0 -> IF in.valid THEN 1 ELSE 0
      [] mac.fb0 = 1 -> IF ~in.eof THEN 1 ELSE IF mac.fb1 /\ MacSpills(in) THEN 2 ELSE 0
      [] OTHER -> 0

MacAccepted(in) ==
    CASE mac.fb0 = 0 -> MacMatch(in)
      [] mac.fb0 = 1 -> mac.fb1 /\ ~in.eof
      [] OTHER -> FALSE

MacRole(in) ==
    CASE mac.fb0 = 0 -> IF MacMatch(in) THEN "dest" ELSE "none"
      [] mac.fb0 = 1 -> IF in.valid /\ mac.fb1 THEN Head(mac.fb23) ELSE "none"
      [] OTHER -> "pd"

MacSchedule ==
    CASE mac.fb0 = 0 -> <<"src", "pd">>
      [] mac.fb0 = 1 -> <<mac.fb23[2], "pd">>
      [] OTHER -> mac.fb23

MacEof(in) ==
    CASE mac.fb0 = 0 -> in.eof /\ MacMatch(in)
      [] mac.fb0 = 1 -> in.eof /\ ~MacSpills(in) /\ mac.fb1
      [] OTHER -> mac.fb10

\* What follows the 14 bytes of the Ethernet header is 2 bytes off the words;
\* the histories shift with valid words only.
MacNext(in) ==
    [fb0 |-> MacState(in), fb1 |-> MacAccepted(in), fb2 |-> MacRole(in),
     fb7 |-> mac.fb2 = "pd",
     fb8 |-> MacEof(in), fb9 |-> mac.fb8, fb10 |-> in.eof,
     fb20 |-> IF in.valid THEN in.lane ELSE mac.fb20,
     fb21 |-> IF in.valid THEN mac.fb20 ELSE mac.fb21,
     fb23 |-> MacSchedule,
     fb24 |-> Window(mac.fb21, mac.fb20, 2)]

---------------------------------------------------------------------------
\* FindSubframe: a word later, as it came.  State 2 is the path of packets of 46
\* bytes or more; state 1, for shorter ones, is out by FramesAssumption.

SubInit == [fb0 |-> 0, out |-> Idle]

SubState(in) ==
    CASE in.valid /\ in.eof -> 0
      [] sub.fb0 = 0 /\ in.valid /\ Is(in.lane[1], 14, "v4") -> 2
      [] OTHER -> sub.fb0

SubNext(in) == [fb0 |-> SubState(in), out |-> in]

---------------------------------------------------------------------------
\* Ipv4Filter.  States: 0 to 2 wait for the first, second and third word,
\* 3 Wait For Last, 4 Purge.

Ip4Init == [fb0 |-> 0, fb1 |-> FALSE, fb2 |-> "none", fb6 |-> FALSE,
            fb7 |-> FALSE, fb8 |-> FALSE, fb9 |-> FALSE,
            fb18 |-> Blank, fb19 |-> Blank, fb22 |-> <<"h1", "h2", "dip">>,
            fb23 |-> Blank, fb5 |-> Blank, fb4 |-> Blank]

Ip4Out == [lane |-> ip4.fb23, valid |-> ip4.fb6, eof |-> ip4.fb8]

\* The header of the last datagram, from its first two latched words.
HdrUdp   == Is(ip4.fb4[2], 23, "udp")
HdrFirst == Is(ip4.fb5[7], 20, "first")
HdrMore  == Is(ip4.fb5[7], 20, "more")
HdrIdent == IF ip4.fb5[5] = NoByte THEN 0 ELSE frames[ip4.fb5[5][1]].ident

Adv == Head(ip4.fb22) # "pd"
Ip4First(in) == in.valid /\ Is(in.lane[1], 14, "v4")
Ip4Match(in) == in.valid /\ Adv /\ Is(in.lane[1], 30, "ip")
Ip4Spills(in) == \E i \in 5 .. 8 : in.lane[i] # NoByte

\* (mutant) No purge: what the last word spills is not flushed.
Ip4StateNoPurge(in) ==
    CASE ip4.fb0 = 0 -> IF in.eof \/ ~in.valid THEN 0 ELSE IF Ip4First(in) THEN 1 ELSE 3
      [] ip4.fb0 = 1 -> IF in.eof THEN 0 ELSE IF in.valid /\ Adv THEN 2 ELSE 1
      [] ip4.fb0 = 2 -> IF ~in.eof /\ in.valid /\ Adv THEN 3 ELSE 2
      [] OTHER -> IF in.eof THEN 0 ELSE ip4.fb0

Ip4State(in) ==
    CASE ip4.fb0 = 0 -> IF in.eof \/ ~in.valid THEN 0 ELSE IF Ip4First(in) THEN 1 ELSE 3
      [] ip4.fb0 = 1 -> IF in.eof THEN 0 ELSE IF in.valid /\ Adv THEN 2 ELSE 1
      [] ip4.fb0 = 2 -> IF ~in.eof /\ in.valid /\ Adv THEN 3 ELSE 2
      [] ip4.fb0 = 3 -> IF ~in.eof THEN 3 ELSE IF ip4.fb1 /\ Ip4Spills(in) THEN 4 ELSE 0
      [] OTHER -> 0

Ip4Accepted(in) ==
    CASE ip4.fb0 = 2 -> Ip4Match(in)
      [] ip4.fb0 = 3 -> ip4.fb1
      [] OTHER -> FALSE

Ip4Role(in) ==
    CASE ip4.fb0 = 0 -> IF Ip4First(in) THEN "h1" ELSE "none"
      [] ip4.fb0 = 1 -> IF in.valid THEN Head(ip4.fb22) ELSE "none"
      [] ip4.fb0 = 2 -> IF Ip4Match(in) THEN Head(ip4.fb22) ELSE "none"
      [] ip4.fb0 = 3 -> IF in.valid /\ ip4.fb1 THEN Head(ip4.fb22) ELSE "none"
      [] OTHER -> "pd"

Ip4Schedule ==
    IF ip4.fb0 \in {0, 4} THEN <<"h2", "dip", "pd">> ELSE Append(Tail(ip4.fb22), "pd")

Ip4Eof(in) ==
    CASE ip4.fb0 = 2 -> in.eof /\ Ip4Match(in)
      [] ip4.fb0 = 3 -> in.eof /\ ~Ip4Spills(in) /\ ip4.fb1
      [] ip4.fb0 = 4 -> ip4.fb9
      [] OTHER -> FALSE

\* What follows the 20 bytes of the IPv4 header is 4 bytes off the words; the
\* histories shift in every cycle.
Ip4Next(in) ==
    [fb0 |-> Ip4State(in), fb1 |-> Ip4Accepted(in), fb2 |-> Ip4Role(in),
     fb6 |-> ip4.fb2 = "pd",
     fb7 |-> Ip4Eof(in), fb8 |-> ip4.fb7, fb9 |-> in.eof,
     fb18 |-> in.lane, fb19 |-> ip4.fb18, fb22 |-> Ip4Schedule,
     fb23 |-> Window(ip4.fb19, ip4.fb18, 4),
     fb5 |-> IF ip4.fb2 = "h1" THEN ip4.fb18 ELSE ip4.fb5,
     fb4 |-> IF ip4.fb2 = "h2" THEN ip4.fb18 ELSE ip4.fb4]

---------------------------------------------------------------------------
\* UdpRx: fb0 accepted, fb2 packet active, fb3 previous Identification, fb4
\* expecting fragments.

UdpInit == [fb0 |-> FALSE, fb2 |-> FALSE, fb3 |-> 0, fb4 |-> FALSE]

\* The first word of a datagram for our port, or of a fragment.
ForUs(in)    == Is(in.lane[3], 36, "port") /\ HdrUdp /\ HdrFirst
Fragment == udp.fb4 /\ HdrIdent = udp.fb3

Accepts(in) == IF udp.fb2 THEN udp.fb0 ELSE in.valid /\ (ForUs(in) \/ Fragment)

\* All words of an accepted packet but the UDP header.
HandsOn(in) == in.valid /\ Accepts(in) /\ (udp.fb2 \/ ~ForUs(in))

UdpNext(in) ==
    [fb0 |-> Accepts(in),
     fb2 |-> IF udp.fb2 THEN ~(in.valid /\ in.eof) ELSE in.valid /\ ~in.eof,
     fb3 |-> HdrIdent,
     fb4 |-> IF ~udp.fb2 /\ Accepts(in) THEN HdrMore ELSE udp.fb4]

\* What the parser's FIFO gets: the enabled bytes, then the end of frame.
Handed(in) ==
    (IF HandsOn(in) THEN SelectSeq(in.lane, LAMBDA b : b # NoByte) ELSE <<>>)
      \o (IF in.eof /\ Accepts(in) THEN <<EndOfFrame>> ELSE <<>>)

---------------------------------------------------------------------------
Cycle(in) ==
    /\ mac' = MacNext(in)
    /\ sub' = SubNext(MacOut)
    /\ ip4' = Ip4Next(sub.out)
    /\ udp' = UdpNext(Ip4Out)
    /\ got' = got \o Handed(Ip4Out)
    /\ UNCHANGED frames

Deliver(f) ==
    /\ wire = <<>> /\ Len(frames) < MaxFrames
    /\ frames' = Append(frames, f)
    /\ wire' = Words(Len(frames) + 1, PadBeats(f.len))
    /\ UNCHANGED <<mac, sub, ip4, udp, got>>

WordCycle == wire # <<>> /\ wire' = Tail(wire) /\ Cycle(Head(wire))
IdleCycle == wire = <<>> /\ wire' = wire /\ Cycle(Idle)

Init ==
    /\ frames = <<>> /\ wire = <<>> /\ got = <<>>
    /\ mac = MacInit /\ sub = SubInit /\ ip4 = Ip4Init /\ udp = UdpInit

---------------------------------------------------------------------------
\* The frames that pass the four filters: for our addresses, and for our port
\* or, after one that has more fragments to come, a fragment.
Passes == [k \in 1 .. Len(frames) |-> frames[k].dest /\ frames[k].v4 /\ frames[k].ip]
Datagram(k) == Passes[k] /\ frames[k].udp /\ frames[k].first /\ frames[k].port

Expecting[k \in 0 .. MaxFrames] ==
    IF k = 0 THEN FALSE
    ELSE IF Passes[k] /\ (Datagram(k) \/ Expecting[k - 1]) THEN frames[k].more
    ELSE Expecting[k - 1]

\* The UDP payload of frame k from byte 42 on (a later fragment's, from byte
\* 34), with what pad_beats added, and one end of frame.
Payload(k) ==
    LET from == IF Datagram(k) THEN 42 ELSE 34
        len  == PadBeats(frames[k].len)
    IN  IF Datagram(k) \/ (Passes[k] /\ Expecting[k - 1])
        THEN Append([i \in 1 .. len - from |-> <<k, from + i - 1>>], EndOfFrame)
        ELSE <<>>

Due == FlattenSeq([k \in 1 .. Len(frames) |-> Payload(k)])

\* What reaches the parser is the payload of the frames that pass, byte by byte
\* and in order, each closed by its end of frame, whatever the lengths of the
\* frames, however close they follow each other and whatever was rejected
\* between them.
PayloadExact == IsPrefix(got, Due)

\* ... and all of it gets there, whenever frames stop coming: no frame is needed
\* to push it out.
PipeDrains == []<>(got = Due)
============================================================================

--------------------------- MODULE CapturePoller ---------------------------
(***************************************************************************)
(* One capture FIFO and the thread that drains it: fifo_poller of          *)
(* apps/poc_server/main.cpp and of scripts/fifo_server.py, register access *)
(* by register access, while the stream keeps writing.                     *)
(*                                                                         *)
(* The FIFO (PG080, receive only, store and forward) is external.  As the  *)
(* poller uses it, it has a memory of 32-bit words, two per stream beat,   *)
(* and a list of the byte lengths of the complete frames in it; RDFO       *)
(* counts words, reading RLR takes a length off the list (0 if there is    *)
(* none), reading RDFD takes a word.  A reset empties both; the frame that *)
(* is coming in meanwhile is lost, or what is still to come of it is       *)
(* stored as a frame of its own.                                           *)
(***************************************************************************)
EXTENDS Naturals, Sequences

CONSTANTS
    BEAT,        \* bytes of a stream beat (8)
    DEPTH,       \* words the FIFO holds
    MAX_BYTES,   \* longest plausible frame (4096)
    Lengths,     \* byte lengths of the frames the stream sends
    MaxFrames,   \* bound: frames sent
    MaxGlitches  \* bound: implausible values of RLR

Beats(len) == (len + BEAT - 1) \div BEAT

ASSUME SizeAssumption == BEAT \in Nat \ {0} /\ DEPTH \in Nat /\ MAX_BYTES \in Nat
ASSUME FitAssumption ==
    \A len \in Lengths : len \in 1 .. MAX_BYTES /\ 2 * Beats(len) <= DEPTH

VARIABLES
    rx,          \* words in the FIFO: <<frame, word of the frame>>
    lens,        \* lengths of the complete frames in it
    incoming,    \* frame on the stream: [id, len, from, beat]
    pc,          \* the poller
    len,         \* length of the frame being read
    want,        \* words of it still to read
    words,       \* words of it read
    published,   \* frames handed to the broker, or printed
    g_stop,
    lengthOf,    \* history: lengths of the frames sent so far
    lost,        \* history: frames a reset cost
    glitches     \* history: implausible lengths read

fifo == <<rx, lens, incoming>>
poller == <<pc, len, want, words, published>>
history == <<lengthOf, lost, glitches>>
vars == <<fifo, poller, g_stop, history>>

NoFrame == [id |-> 0, len |-> 0, from |-> 0, beat |-> 0]

---------------------------------------------------------------------------
\* The stream.

NextFrame ==
    /\ incoming = NoFrame /\ Len(lengthOf) < MaxFrames
    /\ \E n \in Lengths :
          /\ incoming' = [id |-> Len(lengthOf) + 1, len |-> n, from |-> 1, beat |-> 1]
          /\ lengthOf' = Append(lengthOf, n)
    /\ UNCHANGED <<rx, lens, poller, g_stop, lost, glitches>>

\* One beat is stored, low word first; TLAST completes the frame.
StoreBeat ==
    LET f == incoming
    IN  /\ f # NoFrame /\ Len(rx) + 2 <= DEPTH
        /\ rx' = rx \o << <<f.id, 2 * f.beat - 1>>, <<f.id, 2 * f.beat>> >>
        /\ IF f.beat = Beats(f.len)
           THEN /\ lens' = Append(lens, f.len - BEAT * (f.from - 1))
                /\ incoming' = NoFrame
           ELSE /\ incoming' = [f EXCEPT !.beat = @ + 1]
                /\ UNCHANGED lens
        /\ UNCHANGED <<poller, g_stop, history>>

\* Frames with words in the FIFO, and the one that is coming in.
Stored == {rx[i][1] : i \in 1 .. Len(rx)}

\* What a reset leaves of the FIFO.
ResetRx ==
    /\ rx' = <<>> /\ lens' = <<>>
    /\ \/ incoming' = NoFrame
       \/ incoming # NoFrame /\ incoming' = [incoming EXCEPT !.from = incoming.beat]
    /\ lost' = lost \cup Stored \cup (IF incoming = NoFrame THEN {} ELSE {incoming.id})

---------------------------------------------------------------------------
\* fifo_poller.

Step(at, to) == pc = at /\ pc' = to

\* SRR and RDFR each empty the receive side; clearing ISR does not touch it.
WriteSRR ==
    /\ Step("srr", "rdfr") /\ ResetRx
    /\ UNCHANGED <<len, want, words, published, g_stop, lengthOf, glitches>>

WriteRDFR ==
    /\ Step("rdfr", "isr") /\ ResetRx
    /\ UNCHANGED <<len, want, words, published, g_stop, lengthOf, glitches>>

ClearISR ==
    /\ Step("isr", "test")
    /\ UNCHANGED <<fifo, len, want, words, published, g_stop, history>>

TestStop ==
    /\ Step("test", IF g_stop THEN "done" ELSE "rdfo")
    /\ UNCHANGED <<fifo, len, want, words, published, g_stop, history>>

\* (mutants) Leave when the FIFO is empty; go on after an implausible length
\* without a reset; count a beat too many when the last one is full.
LeaveWhenEmpty == "done"
ResyncWithoutReset == "test"
BeatTooMany(n) == 2 * (n \div BEAT + 1)

WhenEmpty == "test"                          \* sleep, then look again
Resync == "rdfr"
WordsToRead(n) == 2 * Beats(n)               \* two reads rebuild one beat
Plausible(n) == n # 0 /\ n <= MAX_BYTES

ReadRDFO ==
    /\ Step("rdfo", IF Len(rx) = 0 THEN WhenEmpty ELSE "rlr")
    /\ UNCHANGED <<fifo, len, want, words, published, g_stop, history>>

\* Words are there and no complete frame: try again later.
ReadRLRZero ==
    /\ lens = <<>> /\ Step("rlr", "test")
    /\ UNCHANGED <<fifo, len, want, words, published, g_stop, history>>

\* The length of the next frame; or, the FIFO and the poller being out of step,
\* one that makes no sense.
ReadRLR ==
    /\ lens # <<>> /\ Step("rlr", "check")
    /\ lens' = Tail(lens)
    /\ \/ len' = Head(lens) /\ UNCHANGED glitches
       \/ /\ glitches < MaxGlitches /\ glitches' = glitches + 1
          /\ len' \in {0, MAX_BYTES + 1}
    /\ UNCHANGED <<rx, incoming, want, words, published, g_stop, lengthOf, lost>>

\* A length that makes no sense: reset the FIFO and resync.
LoseSync ==
    /\ ~Plausible(len) /\ Step("check", Resync)
    /\ UNCHANGED <<fifo, len, want, words, published, g_stop, history>>

StartFrame ==
    /\ Plausible(len) /\ Step("check", "read")
    /\ want' = WordsToRead(len) /\ words' = <<>>
    /\ UNCHANGED <<fifo, len, published, g_stop, history>>

\* (mutant) The stop flag is tested between the words of a frame.
ReadRDFDUntilStop ==
    /\ pc = "read" /\ want > 0 /\ rx # <<>>
    /\ pc' = IF g_stop THEN "done" ELSE "read"
    /\ words' = Append(words, Head(rx)) /\ rx' = Tail(rx) /\ want' = want - 1
    /\ UNCHANGED <<lens, incoming, len, published, g_stop, history>>

ReadRDFD ==
    /\ Step("read", "read") /\ want > 0 /\ rx # <<>>
    /\ words' = Append(words, Head(rx)) /\ rx' = Tail(rx) /\ want' = want - 1
    /\ UNCHANGED <<lens, incoming, len, published, g_stop, history>>

Publish ==
    /\ Step("read", "test") /\ want = 0
    /\ published' = Append(published, [len |-> len, words |-> words])
    /\ words' = <<>>
    /\ UNCHANGED <<fifo, len, want, g_stop, history>>

Poll ==
    \/ WriteSRR \/ WriteRDFR \/ ClearISR \/ TestStop \/ ReadRDFO
    \/ ReadRLRZero \/ ReadRLR \/ LoseSync \/ StartFrame \/ ReadRDFD \/ Publish

Signal ==
    /\ ~g_stop /\ g_stop' = TRUE
    /\ UNCHANGED <<fifo, poller, history>>

Init ==
    /\ rx = <<>> /\ lens = <<>> /\ incoming = NoFrame
    /\ pc = "srr" /\ len = 0 /\ want = 0 /\ words = <<>> /\ published = <<>>
    /\ g_stop = FALSE /\ lengthOf = <<>> /\ lost = {} /\ glitches = 0

Next == NextFrame \/ StoreBeat \/ Poll \/ Signal

Spec == Init /\ [][Next]_vars

\* The thread runs, and a beat is stored when there is room.
FairSpec == Spec /\ WF_vars(Poll) /\ WF_vars(StoreBeat)

---------------------------------------------------------------------------
\* RDFD is never read when the FIFO is empty (the bus would fault).
NeverReadsEmpty == pc = "read" /\ want > 0 => rx # <<>>

\* A published frame is one frame of the stream from its first to its last word,
\* none left out and none of a neighbour's; it lacks its beginning only if a
\* reset came in the middle of it.
FramesIntact ==
    \A i \in 1 .. Len(published) :
        LET p  == published[i]
            id == p.words[1][1]
            n  == 2 * Beats(lengthOf[id])
            cut == n - Len(p.words)
        IN  /\ \A k \in 1 .. Len(p.words) : p.words[k] = <<id, cut + k>>
            /\ 2 * p.len = 2 * lengthOf[id] - BEAT * cut
            /\ cut > 0 => id \in lost
            /\ \A j \in 1 .. i - 1 : published[j].words[1][1] < id

\* Every frame sent is published, in the FIFO, being read, coming in, or was
\* there when the FIFO was reset.
NoFrameVanishes ==
    1 .. Len(lengthOf) \subseteq
        lost \cup Stored \cup {incoming.id}
             \cup {published[i].words[1][1] : i \in 1 .. Len(published)}
             \cup (IF pc = "read" /\ words # <<>> THEN {words[1][1]} ELSE {})

\* Whatever the stream sends is published in the end, unless a reset cost it or
\* the poller was stopped.
AllDrained ==
    \A id \in 1 .. MaxFrames :
        Len(lengthOf) = id
          ~> \/ g_stop \/ id \in lost
             \/ \E i \in 1 .. Len(published) : published[i].words[1][1] = id
============================================================================

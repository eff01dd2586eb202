# A TLA+ model of Market.Data.PoC

This directory models the parts of the KR260 market data system whose behaviour
depends on order, timing and limits: the threads of the frame server, the
register protocol with the capture FIFOs, the echo FIFO on the AXI bus, the
PITCH parser, the receive path up to the LabVIEW parser, the XGMII adapters, and
the benches that feed and judge the simulations. TLC checks each on a small
instance; TLAPS proves safety properties of the echo FIFO, the frame server, the
capture poller, the PITCH parser, the transmit adapter and the filter bench for
every value of their constants.

`PROJECT.json` has the same information by name: for every definition the source
lines it stands for, for every run its properties, for every property a wrong
version of the code that it rejects, and the list of hazards.

## 1. The system

```
10GbE -> PCS -> xgmii2axis -> MAC / IPv4 / UDP filter -> FIFO -> bats.parser
      -> orderbook.command -> CMD, DEBUG, MDEBUG FIFOs (PG080)
      -> poc_server or fifo_server.py -> TCP subscribers

MM2S DMA -> transmit FIFO -> axis2xgmii -> PCS loopback -> xgmii2axis   (poc_inject)
CPU -> AXI4-Lite -> simple_fifo (echo test), my_state (buttons)
```

| Component | State | Operations | Talks to |
|---|---|---|---|
| Frame server: `apps/poc_server/main.cpp`, `scripts/fifo_server.py` | subscriber list under one mutex; per subscriber a bounded queue under its own; frame counter per poller; stop flag | drain, publish (fan out), subscribe, register, take lines, send, leave, accept, signal, shutdown | a poller thread per FIFO, a thread per subscriber, main thread |
| Capture poller: `fifo_poller` in both | length and words of the frame being read | reset, test RDFO, read RLR, read RDFD, resynchronise, publish | the PG080 FIFO, which the stream writes to all the time |
| Echo FIFO: `vivado/ip/simple_fifo.v` | storage, two pointers, latches and ready/valid of five AXI channels | push, pop, count, status, clear, reset | CPU over AXI4-Lite, reads and writes independently |
| PITCH parser: `docs/kr260/bats.parser.v`, `compress.buffer.v` | 72-byte buffer, state, messages left in the unit, sequence number, seconds, receive time | append word, read header, read message, flush, end of frame, reset | UDP stage (held off by `ready_for_udp_input`), order book |
| Receive filters: `ip_export/netlist_sim/ni_stream_model.py` | pipeline registers of four stages | one clock cycle of MAC filter, subframe finder, IPv4 filter, UDP stage | xgmii2axis in front, parser behind |
| XGMII adapters: `vivado/ip/axis2xgmii.v`, `xgmii2axis.v` | state machine, the beat in flight, CRCs, deficit idle count | one clock cycle | stream on one side, PCS on the other |
| Parser golden model: `parser_model.py`, `check_parser_variants.py` | nine-word buffer and its length, state, bytes of the unit taken and to be taken | one FIFO element: append, take a header or a message, clear at the end of a frame | the filters' output |
| Capture generator: `gen_pitch_pcap.py` | the unit being filled | add a message, start the next unit | pcap file, replayed by the above |
| Filter bench: `filter_tb.sv`, `filter_msg_gen.py` | commands to send, log of commands by key, orders of listed securities, count of expected commands | load, write the watch list, log and send, receive and log, report | filter IP; SystemVerilog calls Python objects |
| Bench loaders: `bats_loader.py`, `poc_ip.py` and their test benches | a byte list; a capture and the position in it | append or prepend a message, put the header in front, give word and enables by index | cboe_pitch, scapy; parser IP and whole design under simulation |
| Button accumulator: `vivado/ip/my_state.v` | 64-bit sum, previous buttons | clock | CPU, which reads two halves |
| Host self-tests and injector: `apps/mktdata_poc_*/main.c`, `apps/poc_inject` | spin counters, DMA descriptors | write, read back, wait | echo FIFO, my_state, DMA |
| Command line tools | files, sockets | read, convert, print | |

What is hard in it, and what makes each part correct:

* **Frame server.** Pollers, subscribers and the main thread interleave around two
  kinds of mutex. Correct means: a subscriber gets the frames it asked for, in
  order, once, from when it was registered, except what a full queue costs; one
  that leaves during a fan-out is not visited any more; a subscriber that does not read holds up
  neither the pollers nor the shutdown.
* **Capture poller.** RDFO, RLR and RDFD are three reads while the FIFO is being
  written; reading RDFD empty faults the bus; one read too many puts lengths and
  words out of step for good. Correct means: what is published is one frame of
  the stream, and no frame disappears except through a reset.
* **Echo FIFO.** Five channels handshake independently and one always block
  assigns the pointers in several places. Correct means: it behaves as a bounded
  queue behind four registers.
* **Parser.** Messages straddle words, words arrive faster than messages are
  taken, datagrams end early. Correct means: the commands are the messages of the
  feed, one by one; the buffer never overflows; the parser never waits for bytes
  it refuses.
* **Receive filters.** Two realignments (14 and 20 header bytes in 8-byte words),
  frames back to back, rejected frames and fragments. Correct means: the parser
  gets exactly the payload of the frames that pass, each with its end of frame.
* **Parser golden model.** The buffer is shifted by words with an 8-bit count and
  emptied at the end of a frame, except where the variants differ. Correct means:
  every message of every unit is taken once, in order, and nothing of one frame is
  taken for a part of the next.
* **Filter bench.** The expectation is computed by the bench itself from what it
  sends; results are told apart by a key; one object carries all commands; what the
  filter shows while nobody looks is gone. Correct means: the count is what the
  filter lets through, a result is that of its own command, and the bench ends.
* **Bench loaders.** Words, byte enables and number of words are three functions of
  the same list. Correct means: the device gets the bytes of the messages and
  nothing else.
* **XGMII adapters.** Eight end lanes, two start lanes, an FCS that straddles
  words, a gap that must be 12 bytes on average. Correct means: what is sent comes
  back, byte by byte.

## 2. Modules

| Module | Models | Lines of code behind it |
|---|---|---|
| `FifoContract` | the register map of the echo FIFO: the abstract specification | header of `simple_fifo.v` |
| `SimpleFifo` | the slave, one step per clock edge; implements `FifoContract` | `simple_fifo.v` |
| `SimpleFifoProofs` | theorems about it | |
| `FrameServer`, `MCFrameServer` | both servers; the constant `Servers` says which may run, the variable `server` which does | `main.cpp`, `fifo_server.py` |
| `FrameServerProofs` | theorems about it | |
| `CapturePoller` | one poller and its FIFO, one step per register access or stream beat | `main.cpp`, `fifo_server.py` |
| `CapturePollerProofs` | theorems about it | |
| `BatsParser`, `MCBatsParser` | the parser, one step per clock edge; the feeds | `bats.parser.v`, `compress.buffer.v` |
| `Concatenation` | lemmas about the concatenation of the members of a sequence | |
| `BatsParserProofs` | theorems about the parser, with these lemmas | |
| `NiStream` | the four filters, one step per cycle | `ni_stream_model.py`, `pad_beats` |
| `LvParser` | the LabVIEW parser, one step per FIFO element, the variants A, B and C as a constant | `parser_model.py`, `check_parser_variants.py` |
| `ReceivePath`, `MCReceivePath` | composes the two above with captures made by `gen_pitch_pcap.py`; the frames | `run` in `check_parser_variants.py`, `gen_pitch_pcap.py` |
| `Xgmii` | characters, words, CRC | `xgmii_includes.vh` |
| `Axis2Xgmii`, `Xgmii2Axis` | the two adapters as functions from registers to registers | the two Verilog files |
| `Loopback` | composes them, one step per clock edge | design of the loopback test |
| `LoopbackProofs` | theorems about the gap and about the frames that come back | |
| `FilterBench`, `MCFilterBench` | the filter bench and the Python objects it calls, one step per clock period; the configurations | `filter_tb.sv`, `filter_msg_gen.py` |
| `FilterBenchProofs` | theorems about it | |
| `BenchFeeds`, `MCBenchFeeds` | what the two simulation benches drive into the devices, and what is read back of a list; the captures | `bats_loader.py`, `poc_ip.py`, `bats_parser_tb.sv`, `tests_bats_loader.py`, `poc_ip.sv` |
| `BenchFeedsProofs` | theorems about it, with the lemmas of `Concatenation` | |

How state and actions correspond to the code:

**SimpleFifo.** A variable per register and per bus signal the master drives.
`Clock` is the always block: `AwChannel`, `WChannel`, `BChannel`, `ArChannel`,
`RChannel` and `Pointers` are its blocks, all computed from the values before the
edge, the later assignment winning where two hit a pointer. `Master` moves the
inputs under the AXI rules (a valid beat stays until it is taken). `Reset` may
come at any edge. `ClearAlone` says whether the master keeps a clear apart from
reads.

**FrameServer.** A step is what a thread does between two points where another
can interfere. Poller: `Drain` (a frame and its number), `LockBroker`, one
`Offer` per subscriber (that subscriber's mutex), `UnlockBroker`. Subscriber:
`Subscribe`, `SendHello`, `Register`, `LoopAgain`, `Take` (poc_server swaps the
whole queue out, fifo_server.py takes a line), `SendLine` or `SendFails`,
`Unregister`. Main: `Accept`, `StopAccepting`, `JoinPollers`, `Exit`; `Signal` at
any moment. What differs between the two servers is marked with `Python`. A
`Broker::add` or `Broker::remove` holds the broker mutex for one step; `holder` is
the poller that has it for its fan-out, so that `QuietExit` speaks of pollers only.
`wait_for` may return at any time, as its timeout of a second lets it: the notify is
not modelled. `sent`, `since` and `dropped` are history. The drawing of a frame out
of the hardware is `CapturePoller`'s subject.

**CapturePoller.** The FIFO (external) is its words, the lengths of its complete
frames and the frame coming in; a reset empties it, and of the frame coming in the
rest is lost or becomes a frame of its own. `TestStop`, `ReadRDFO`, `ReadRLR`,
`StartFrame`/`LoseSync`, `ReadRDFD`, `Publish` follow the loop; `WriteSRR`,
`WriteRDFR`, `ClearISR` are the three writes of the reset, with the stream going
on between them. `ReadRLRZero` and the implausible length are the two answers the
code defends against.

**BatsParser.** `Cycle(w)` is the state machine with the word `w` or none; a byte
is the number the parser reads at its place. The content of a message is one byte.
`due` and `clock` are the feed as the parser should see it. A datagram that is
marked bad is cut short. `flushed` says that a malformed message made the parser
lose its place; the properties of the commands end there. `WellFormed` is what the
bytes of a feed can say (a count is one byte); `NoHeartbeats` excludes units of no
messages, which the parser does not cope with (run `parser_heartbeat`). A bad end of
frame writes off all that is `due`, messages of an earlier datagram that are still in
the buffer included, because the flush drops them too. Of the receive time only the
lower bound is a property: words of a later datagram may come in before the message
is complete, and then its time is given.

**NiStream.** Registers keep their names `fbN`. A byte is the pair of its frame
and its place; a comparison with our address, protocol or port is an attribute of
the frame. Bad ends of frame travel like good ones and are left out. There are no
frames with an IP packet of less than 46 bytes (`FramesAssumption`): for them
`FindSubframe` raises `NotImplementedError`. The module has
registers and their next values; `ReceivePath` supplies the specification.

**LvParser, ReceivePath.** `Step(e)` is one FIFO element: `add_data_to_buffer`, then
a header or a message taken with `compress_buffer`, then the clears of the variant
(`Clears`). The buffer is modelled byte by byte, because what is lost in it is the
point. In each cycle of the filters the output of the UDP stage is one element, as
`run` connects them. A unit is the sequence of its messages' lengths; `Build` packs
them as `build` of the generator does; no frame is padded, as `write_outputs`
does not, and the captures hold no unit of a single Time message, whose packet would
be too short for the source's `FindSubframe`. So the clear in the header state, which is for
the padding of short frames, has nothing to clear in this run of variant C; the clear in the middle of a message is what fragments need.

**FilterBench.** `Load` is the constructor with its two paths; `SendCommand` the
send loop's `get_next_command`, `log_command_send` and one clock period;
`Receive`, `WaitForValid`, `MissEdge` and `ReceiveBlind` the receive loop. The bench
returns to it in the very time step of a clock edge. If the simulator runs the edge
first (`MissEdge`), the wait passes on the valid bit of a command whose edge is over,
and the next edge is logged without another look: with the next command if one
is shown (`Receive`), otherwise with whatever the bus holds, zeros or a command of before
(`ReceiveBlind`), which times that one anew, or raises KeyError, and counts.
`blind` is the history of those edges. `RaiseAttributeError`
is the exception of the set that was never made; what was assigned before it stays
assigned. The filter IP (external) is a queue that holds each command for any
time. An `OBCommand` is filled field by field, numbers and symbols are converted
by two maps that undo each other.

**BenchFeeds.** One action per message wrapper of `bats_loader.py`, with
the length of the message it makes; it may raise, and then returns 1 and leaves the
list alone. `get_word`, `get_byte_enables`, `get_num_words` and their counterparts
of `EthernetFrame` are operators, the word and enable arithmetic done on numbers.
`ReadUnit` reads a list back word by word, as `tests_bats_loader.py` does with lists of
some lengths; `FeedUnit` is Test #4 of `bats_parser_tb.sv`, which drives two words
with enables written out in the bench, after it has asserted that the header was made
and that there are 14 bytes (a failed assertion is reported, and the bench goes on).
A bench has one thread, so the loop over the words is one step.

**Axis2Xgmii, Xgmii2Axis.** The states of the code that differ only in the number
of bytes of the last beat are one state with that number. The CRC is the frame and
the number of bytes it covers, so two are equal only when the bytes are.

## 3. Runs

TLC explores every run completely.

| Run | Bounds | Distinct states | Shows |
|---|---|---|---|
| `fifo` | 2 entries, one word value, pushes, pops and clears | 24 k | with clears apart from reads: `KeepsContract` (implements `FifoContract`), `NoBeatSwallowed`, `WithinDepth`, `ReadAnswerStable`, `AccessesAnswered`; `TypeOK` |
| `server` | 2 FIFOs, 2 subscribers, queues of 2, 2 frames per FIFO, symmetry | 3.4 M | `QueueBounded`, `StreamOrdered`, `CleanStart`, `NothingLost`, `QuietExit`, `ClosedForgotten` |
| `server_live` | either server; 2 FIFOs, 1 subscriber, queue of 2, 2 frames | 102 k | `PollersNeverWait`, `StopEnds`, `Delivered`; `NeverFurtherBehind` for fifo_server.py |
| `poller` | 6 words, frames of 8, 12 and 20 bytes, 3 frames, 1 implausible length | 60 k | `NeverReadsEmpty`, `FramesIntact`, `NoFrameVanishes`, `AllDrained` |
| `parser` | 2 datagrams out of 8: mixed, dense (up to 46 messages), long (63 and 65 bytes) and malformed ones, some cut short; 1 reset | 105 k | `EmitsWhatIsDue`, `RecvTimeOfOwnDatagram`, `BufferBounded`, `AllParsed` |
| `parser_long` | a message of 70 bytes | | violated: `AllParsed` |
| `parser_heartbeat` | a heartbeat and a unit of two messages | | violated: `ReadyForNextUnit` |
| `receive` | variant C; 3 frames out of a generated capture (all lengths mod 8), one that each filter rejects, two fragments | 159 k | `PayloadExact`, `PipeDrains`, `MessagesExact`, `AllTaken` |
| `receive_tail` | variant C; 2 frames of the capture | | violated: `OnlyShortPairsAffected` |
| `loopback` | lengths 17 to 24, an aborted frame, no end | 1.8 M | `FramesIntact`, `GapKept`, `AllReceived` |
| `feeds` | units of 3 calls out of 15, appended or prepended, any of which may fail; captures of up to 4 frames, both byte orders | 67 k | `UnitFed`, `FramesFed` |
| `filter` | 5 configurations and none; 5 commands; the filter holds a command for up to 7 cycles | 35 k | `CountsRight`, `ResultsTrue`, `FinishedSawAll`, `KeyFound`, `Ends` |

`TypeOK` is checked for the echo FIFO. `FrameServer`'s is proved instead, and
the types of `CapturePoller` are part of its inductive invariant.

**Why the bounds are enough.** A queue of 2 is the smallest that can be empty,
partly full and full; two subscribers and two FIFOs are the smallest numbers for
which one is visited before the other and one publishes while the other waits; two
frames per FIFO overrun a queue of two. For the echo FIFO, the server, the
capture poller and the parser's buffer the proofs remove the bounds, and also the restriction of `fifo` to
one word and to reads of DATA. The capture FIFO of 6 words just holds the longest frame, so the
stream is held up in the middle of one; 12 and 20 bytes end in half a beat. The
parser has the sizes of the hardware (8, 8, 72 bytes). Sequence numbers wrap at 4,
which `MixedFeed` does; what one datagram leaves to the next takes two. In `receive`
the longest interaction between frames is that of neighbours (registers hold words
of at most two frames, the parser what the last one left) and, for fragments, of
one frame between two halves: three. In `filter` a delay of 7 cycles is longer than
any configuration, so the filter may show everything during the send loop, nothing
until it is over, or some of it at any cycle; the configurations hold an order of
an unlisted security, one used after its deletion, and one whose number comes back.
In `feeds` three calls give a unit every remainder of the length, and the captures
have every remainder too. In `loopback` a frame of three beats
passes every state, at most two frames are under way, the lengths give every
combination of start and end lane, and the deficit runs through all its values
because the run has no end.

**Deadlock** is checked except in the runs of the frame server, of the poller and
of the two benches, whose programs end.

**Symmetry.** `server` checks safety only; FIFOs and connections are
compared with each other and nothing else.

### Fairness

* `SimpleFifo!LiveSpec`: the clock runs; the master takes answers again and again
  and completes an access it began. Without it a bus may wait for ever by the
  master's fault.
* `FrameServer!FairSpec`: weak fairness of the pollers' way through the broker and
  of the main thread, which the scheduler gives them. A poller is not obliged to
  find a frame. **No** fairness of subscribers: they may stall in a send for ever.
  `Delivered` assumes it as a premise of its own, for subscribers that read. The
  broker mutex is not fair; with a bounded number of frames nobody competes
  for it for ever, so starvation by an endless stream of other frames is not
  excluded by this run. Nor does it tell a notify that comes late or never from one
  that comes: what that costs is the second of `wait_for`.
* `CapturePoller!FairSpec`: the thread runs, and the stream stores a beat when
  there is room.
* `BatsParser!FairSpec`, `ReceivePath!PathSpec`: the clock runs; in the former, the
  UDP stage gives its word when it is allowed to again and again. Frames need not
  come.
* `FilterBench!Spec`: the simulation goes on while anything happens. That
  includes the filter, which shows a command after `MaxDelay` cycles at the latest.

### What the failing runs say

* `parser_long`: messages of up to 72 bytes count as well formed, words are refused
  from 65 buffered bytes on. A message of 66 to 72 bytes that does not begin at a
  word boundary is never completed and never flushed. No message type the parser
  decodes is that long.
* `parser_heartbeat`: bats.parser.v:27-28 says that the message counter returns the
  state machine to the unit header after a unit. A unit without messages has no message
  to do so: its header takes the parser to the message state like any other, and there
  it reads the next header as a message. The feeds of the repository's tests have
  such heartbeats (todo.txt:48).
* `receive_tail`: the notes on variant C say that only two short messages at the end
  of a frame are affected by its clear. The clear drops every message that begins in
  the frame's last word: a unit of a message of 26 bytes and a Time message, in a
  frame of 82 bytes, loses the Time message.

Other facts met on the way, which the models state and no run needs to fail for:
when a pop is carried out on the edge that clears the echo FIFO, its assignment to
`rp` comes later in the block and wins, and the FIFO then reports words nobody
pushed; a CPU that waits for each access never does this (`ClearAlone`). `gen_messages` fills the
nanoseconds from the column of the seconds. The filter bench still expects commands
for orders it saw deleted (`CountsRight` says by how much) and waits for ever
then; it also does when the filter shows a command during the send loop. After an edge
it missed it logs the next one whatever is on the bus. The gap behind an aborted frame
can be 9 bytes, or 8 behind one cut in lane 4, without `dic` being touched: `GapKept`
does not charge what it lacks, and holds what was owed before against the next gap.
`EthernetFrame` takes the last word of a frame whose length is a multiple of eight
to be empty and drops its bytes (`FramesFed`). poc_server's swap of the queue lets a subscriber be up
to twice `QUEUE_MAX` lines behind, where fifo_server.py allows one more than
`QUEUE_MAX` (`NeverFurtherBehind`). The UDP stage's comparison of Identifications
never discriminates, because its reference is reloaded in every cycle; the
reference in `PayloadExact` follows the code. Without `pad_beats`, frames whose
length is 7 or 0 mod 8 get duplicated bytes, which is the boundary bug the padding
is there for; with it the MAC filter's Purge state is never entered.

### Assumptions on the environment

One poller per FIFO, as a comment demands. The words of a frame reach the filters
in consecutive cycles (`xgmii2axis` leaves no gap; the IPv4 filter's history shifts
in every cycle and a gap would corrupt the payload). IP packets have at least 46
bytes, below which the source raises `NotImplementedError`. The
transmit FIFO does not run dry inside a frame (`axis2xgmii` does not look at TVALID
there), and a frame has more than two beats. Loopback's PCS hands every word on.

## 4. Proofs

`SimpleFifoProofs`, `FrameServerProofs`, `CapturePollerProofs`, `BatsParserProofs`,
`LoopbackProofs`, `FilterBenchProofs` and `BenchFeedsProofs`, all obligations discharged by Z3, Zenon and LS4. They assume what the modules' named
ASSUMEs say of the constants and the hypotheses named below, and nothing else; a
hypothesis on a constant that is not an ASSUME of its module (`WellFormed`,
`NoHeartbeats`, `KeysUnique`) is one of the MC module, so that TLC sees that the run's instance meets it.

**Echo FIFO**, for every depth, word set and choice of registers:

* `TypeCorrect`, `BeatsKept` (`NoBeatSwallowed`), `AnswersHeld` (`ReadAnswerStable`):
  from the assumptions on the constants alone.
* `DepthBound` (`WithinDepth`), `FifoKeepsContract` (`Spec => KeepsContract`): if
  `ClearAlone`. `FifoInv` is the inductive invariant: types, `NoBeatSwallowed`,
  `WithinDepth`, and `ClearApart`, which says that a clear and a read are never in
  flight together. It is needed because only with it do no two blocks assign `rp`
  on one edge. The refinement maps the queue to the words from `rp` on; lemmas say
  what a push, a pop and a clear do to those words when the pointers wrap, and an
  edge that carries a write and a read is one of the two orders.

**Frame server**, for any number of FIFOs, subscribers and frames, any queue
length, both variants: `TypeCorrect`, `QueuesBounded`, `ClosedAreForgotten`,
`ExitIsQuiet`, `StreamsOrdered`, `StartsClean`,
`NoFrameLost`, `BehindIsBounded` (`NeverFurtherBehind`: in fifo_server.py a batch has
at most one line). Two layers:

* `BrokerInv`: only the holder of the mutex is in the fan-out, and whom it still has
  to visit is in the list (`Mutex`); the forwarding loop runs only for connections
  in the list (`Registered`); a poller that was joined is done (`Joined`); queues
  are bounded. It gives the theorems about the broker.
* `StreamInv`: nothing is queued for a connection before it is registered, and no
  line of the last batch is left when the next is taken (`Fresh`); no stream is
  ahead of what was published, and a subscriber still to be visited has not got the
  frame being published (`History`); and the three stream properties themselves.
  `History` is what makes the order inductive: an offered frame is newer than all
  in the stream. `StreamStep` says that a step leaves a stream alone but for the
  line an offer appends (taking and sending only move lines inside it), `Advance`
  how far a step moves the pollers, `ConnectionStep` what it may do to the rest of
  a connection.

**Capture poller**, for every size of beat, FIFO and frame, any number of frames and
of implausible lengths:

* `ReadsNeverEmpty` (`NeverReadsEmpty`). The property is far from inductive: it
  needs that each length in the list has its words behind it. `EnoughWords` says so
  with a function `last` that gives, for each length, the word its frame ends with
  at the latest; a step that stores, claims or reads words moves all of `last`
  (`Shift`), one that closes a frame lengthens it (`LastBeat`), one that reads a
  length drops its front (`LengthRead`). `BeatsOfRest` is the arithmetic of a frame
  that a reset cut: its length is still the number of its words.
* `NoFrameDropped` (`NoFrameVanishes`). Reading a word takes it off the FIFO, and
  only because the words of a frame lie together is its frame still to be found.
  `Framed` has `last` exact and says that no block mixes frames; it holds while FIFO
  and poller are in step (`InStep`), that is, except between an implausible length and
  the reset that answers it.
* `FramesHandedOnIntact` (`FramesIntact`). `Line` is the words read followed by those
  in the FIFO, so that reading RDFD leaves it alone. `InOrder` says of any two of its
  words that the later one is of a later frame or as many words further in the same;
  `Arriving`, that the frame coming in continues it. `CutAt` cuts the line where the
  lengths in the FIFO end and says that each piece ends with the last word of its
  frame (`Whole`); order and last word give every word of the piece. `Earlier` keeps
  what was handed on before all that is still in the line.

**BATS parser**, for every size of word, header and buffer and every feed:

* `BufferNeverOverflows` (`BufferBounded`). `BufferInv` adds to the bound that every
  word on the wire has at most `WORD` bytes, which is what `ready_for_udp_input` counts
  on: `WordsAreShort` proves it of a datagram cut into words, `CycleShrinks` that
  a cycle leaves no more in the buffer than it put together there.

* `EveryCommandIsDue` (`EmitsWhatIsDue`), `EveryCommandTimely`
  (`RecvTimeOfOwnDatagram`) and `ReadyWithoutHeartbeats` (`ReadyForNextUnit`, which the
  run `parser_heartbeat` refutes in general), if `WellFormed` and `NoHeartbeats`. The
  parser sees words and the feed has messages, and neither ends where the other
  does. `StreamInv` therefore speaks of one unbounded stream of bytes `F` and its
  messages `G`: message `k` ends at byte `stop[k]`, `left[k]` messages of its unit
  follow, and word `k` begins at byte `at[k]`. Five clauses tie the state to it:
  `Script`, the bytes from where the parser is spell the messages, with a header
  before each unit; `Queue`, these messages are `due`; `HeldAt`, the buffer is the
  stretch of `F` from `b` to the next word; `Arriving`, the words on the wire are the
  stretch behind it; `Placed`, `b` is the end of the message taken last, or of the
  header behind it. `Timely` adds that no byte of a later datagram was taken yet than
  the receive time tells. A step chooses a new stream: taking a message or a header
  only moves `m` and `b` (`MessageTaken`, `HeaderTaken`), a word moves on in `at`
  (`WordTaken`), a datagram writes new bytes behind what is on the way
  (`OldWritten`, `NewWritten`), the end of a bad one starts again with nothing
  (`NothingLeft`). `StreamInv` quantifies over functions on the naturals, so that TLC
  cannot evaluate it; the clauses were found from the runs' properties.
* `Concatenation` carries what a datagram's bytes and words are. The library's
  induction theorems take an operator as a parameter, which no prover here can
  instantiate; `SetInduction` is induction over a set of numbers, derived from the
  smallest element of its complement. With it `Concatenated` says of the
  concatenation of a sequence of sequences where in it each of them lies.

**Transmit adapter**, for every set of frame lengths, aborted frames and however the
frames follow each other:

* `GapNeverShort` (`GapKept`: of the gaps behind whole frames; of one behind an aborted
  frame, what it lacks is not charged, see `FORGIVEN`). What the gaps are short of is measured on the wire, a
  cycle after it was decided; `dic` is written when the terminate goes out, before the
  gap it speaks of has passed. `DicTrue` says for each state what `dic` covers: inside
  a frame what is owed, between frames what a frame would leave owed that starts as soon
  as this state lets it, given the gap so far and the word still to be measured. The
  lemmas `MeasureData`, `MeasureStart`, `MeasureEnd`, `MeasureError` say what each kind
  of word does to the measurement, `Closing` in which lane a frame of each length
  ends, and one lemma per state that an edge keeps `DicTrue`. TLC checked `DicTrue` on
  the `loopback` instance before it was proved.

**Both adapters**, for every set of frame and abort lengths above 16 bytes and however
the frames follow each other:

* `FramesComeBack` (`FramesIntact`), `NoneMissing` (`AllReceived`). Neither property says
  anything of the registers a frame passes, so neither is anywhere near inductive.
  `LoopInv` does: there are never more than two frames on their way, an older one that is
  leaving the receiver and a newer one, and `due` is those of the two that are to come
  back. `Between`, `Begun` and `Inside` are where the newer one is: not on the wire, its
  preamble sent, or inside, its word that begins at place `at` on the wire. `Sent` is that
  word, whatever lane the frame started in: bytes, FCS, terminate and idle each have
  a place. `TxInside` has, state by state, what the transmitter holds of the bytes
  behind `at`, `RxInside` what the receiver holds of those before it: the two beats in
  its registers and what came out before them are the frame's bytes without a gap
  (`Beats`), and its CRC registers cover the frame as far as the word (`Checks`).
  `RxBetween` follows the last beat of the older frame from register to register, and
  `Stale` says that what an aborted frame leaves there is not the start of one to come
  back (an abort in the second word of a frame that starts in lane 4 delivers it,
  marked bad). `Ready` ties TREADY to the state, because the FIFO may begin a frame
  only where the transmitter can take one.
* The argument: one lemma per kind of word says what it does to the receiver
  (`DataWordEdge`, `EndWordEdge` for the terminate in every lane, `AbortEdge`,
  `IdleWordEdge`, `StartWordEdge`), and one per state what word the transmitter makes
  (`BodyLane0`, `BodyLane4`, `Lane4Begins`, `FinalWord`, `HalfFinalWord`,
  `TerminateWord`, `RestWord`). Both speak of the same `at`, so a clock edge is one of
  each (`InsideKept`, `BegunKept`, `BetweenKept`). `FcsRight` is where the FCS that
  straddles two words is found, `BeatAdded` where the bytes received grow. The types of
  the registers come from the invariant of the gap. TLC checked `LoopInv`, its
  quantifiers bounded, with frames of 19 and 21 bytes and an aborted one of 20 before it
  was proved.

**Filter bench**, for every set of configurations, every delay of the filter:

* `KeysAreFound` (`KeyFound`): `RaiseInv` says that what the filter holds or shows was
  logged under its key, so `log_command_receive` finds it; only at an edge where nothing
  was shown may it look for another.
* `CountsRightHolds`: `CountInv` relates the two sides: the filter knows exactly the
  orders of listed securities opened and not deleted since, the bench those and the
  deleted ones; `Stale` is the difference, command by command (`StaleNext`).
* `FinishedSawAllHolds`: with `SeenInv`, which counts what the loop received, from
  `CountsRight`: every edge logged blind is behind one whose command was not seen, so the
  bench cannot reach its count while the filter still has a command, or after it counted
  one that never comes.

* `ResultsTrueHolds` (`ResultsTrue`), if `KeysUnique`: no two commands of a
  configuration have order and sequence number in common. `ResultsInv` says that what
  the filter holds, shows and has shown are different commands (`Apart`) and that each
  log entry has the time its command was sent and, once received, the time it was
  shown at or that of a blind edge.

**Bench feeds**, for any number of calls, messages and captures, both byte orders:

* `UnitFedWhole` (`UnitFed`, of lists read back word by word and of Test #4's two words),
  `FramesFedExact` (`FramesFed`). `Masks` says which bytes
  of a word the arithmetic of `get_byte_enables` and `get_word_tkeep` marks, for
  every number of bytes in the last word, and `EnabledPart` that these are the bytes
  the IP takes. `CutFlattened` puts the cut list together again (`UnitOnBus`); for a
  frame in little-endian order the word and what is taken of it are turned round, and
  the last bytes of the turned word are the first of the frame's (`LastPart`,
  `FrameOnBus`). `UnitInv` relates the list to the calls that succeeded
  (`FlattenAppend`, `FlattenPrepend`, `HeaderOf`), `ReplayInv` the bus to the frames fed.

**Only model-checked**: liveness (`AccessesAnswered`, `PollersNeverWait`,
`StopEnds`, `Delivered`, `AllDrained`, `AllParsed`, `PipeDrains`, `AllTaken`, `Ends`),
which this prover does not do; and so far what folds over frames or messages compute in
the receive path: `PayloadExact` of `NiStream`, and `MessagesExact`, whose parser
computes with the `Bitwise` module, which the prover cannot read.

## 5. Not modelled

* `poc_server reset`: three writes to a GPIO in straight-line code.
* Formatting of frames (`print_frame`, `json_frame`) and option parsing.
* In `bats.parser.v`: the fields of the messages, the debug stream, `parse_time`.
  `AddOrder.v`, `Time.v`, `add.data.to.buffer.v` and `new.uxx.be.v` are not in the
  repository. In the LabVIEW parser: the DEBUG records.
* `MyList` exists three times with the same text; one is modelled. `get_idx`,
  `to_array` and the like are called by no bench but for assertions.
* `parse.py` (two copies): text of a VHDL entity in, text out, in one pass.
* In the adapters: a reset after power-up. (One of the receiver in the middle of a
  frame clears `tvalid_i` and not `tvalid_d0`, so that a beat without TLAST
  follows.) Frame counters and `len` are only written.
* Command line tools, Vivado scripts, generated netlists, LabVIEW binaries.

## 6. Plan

Done, in this order: `SimpleFifo` with its contract and proofs, `FrameServer` with
its proofs, `CapturePoller`, `BatsParser`, `NiStream`, the XGMII adapters, `LvParser`
and `ReceivePath`, `FilterBench` with its proofs, `BenchFeeds`, the proofs of
`CapturePoller` and `BatsParser`, the deficit idle count of `Loopback`, the proofs of
`BenchFeeds`, the frames of `Loopback`.

Next modules:

1. `HostSelfTest`: the echo test of `mktdata_poc_{test,bm,rtos}` on top of
   `FifoContract`, with its spin limits, and the descriptor loop of `poc_inject`.
2. `MyState`: the accumulator and a host that reads it in two halves.
3. A reset of the XGMII receiver in the middle of a frame.

Next theorem, with the lemmas of `Concatenation`: `PayloadExact` of `NiStream`.

--------------------------- MODULE MCBatsParser ---------------------------
(***************************************************************************)
(* BatsParser for TLC, with the sizes of the hardware.  The feeds differ   *)
(* in what they stress.                                                    *)
(***************************************************************************)
EXTENDS BatsParser

Time(s)      == [len |-> 6, type |-> 32, val |-> s]
Add(id)      == [len |-> 26, type |-> 34, val |-> id]
Executed(id) == [len |-> 26, type |-> 35, val |-> id]
Other(len)   == [len |-> len, type |-> 45, val |-> 0]

\* Messages that straddle words and header, and a sequence number that wraps.
MixedFeed == {
    [seq |-> 2, msgs |-> <<Time(1), Add(1), Executed(2)>>],
    [seq |-> 3, msgs |-> <<Time(2), Other(11), Add(3)>>],
    [seq |-> 0, msgs |-> <<Executed(4)>>] }

\* Short messages come in faster than one per cycle: the buffer fills up; and
\* the longest messages that always fit.
DenseFeed == {
    [seq |-> 0, msgs |-> [i \in 1 .. 46 |-> IF i % 4 = 0 THEN Time(i) ELSE Other(6)]],
    [seq |-> 1, msgs |-> <<Time(1), Add(1), Other(65), Executed(2)>>],
    [seq |-> 2, msgs |-> <<Other(63), Other(65), Add(3)>>] }

\* And messages the parser takes for malformed, with a length of zero and one
\* beyond the buffer.
RoughFeed == DenseFeed \cup {
    [seq |-> 0, msgs |-> <<Add(1), Other(0), Time(1)>>],
    [seq |-> 3, msgs |-> <<Time(2), Other(73), Executed(2)>>] }

AllFeeds == MixedFeed \cup RoughFeed

\* A message of 70 bytes, which the parser takes for well formed.
LongFeed == { [seq |-> 0, msgs |-> <<Time(1), Other(70)>>] }

\* A heartbeat: a unit without messages.
HeartbeatFeed == { [seq |-> 0, msgs |-> <<>>], [seq |-> 0, msgs |-> <<Time(1), Add(1)>>] }

\* All of them can be said in bytes.
ASSUME FeedsWellFormed == WellFormed
ASSUME HeartbeatsApart == NoHeartbeats \/ Datagrams = HeartbeatFeed
============================================================================

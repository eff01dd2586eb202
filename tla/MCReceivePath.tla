--------------------------- MODULE MCReceivePath ---------------------------
(***************************************************************************)
(* Captures for ReceivePath: frames with every length of the last word,    *)
(* one frame that each filter rejects, and the halves of a fragmented      *)
(* datagram.                                                               *)
(***************************************************************************)
EXTENDS ReceivePath

\* Lengths of PITCH messages: Time 6, DeleteOrder 14, ReduceSize 16 and 18,
\* ModifyOrder 19, AddOrder 26, Trade 33.  No unit is a single Time message, whose
\* packet would be too short for the source's model of FindSubframe.
Captured ==
    UNION { Range(Build(20, <<6, 6, 14>>)), Range(Build(26, <<18, 14>>)),
            Range(Build(26, <<14, 16, 19, 33, 6>>)),
            Range(Build(45, <<19, 18, 26, 6, 33, 33>>)), Range(Build(41, <<6, 6, 19, 33, 26>>)) }

Good(unit) == [len |-> FrameLength(unit), dest |-> TRUE, v4 |-> TRUE, ip |-> TRUE, udp |-> TRUE,
               first |-> TRUE, port |-> TRUE, more |-> FALSE, ident |-> FrameLength(unit)]

Rejected == {[Good(<<6, 6>>) EXCEPT !.dest = FALSE], [Good(<<14>>) EXCEPT !.v4 = FALSE],
             [Good(<<16>>) EXCEPT !.ip = FALSE],   [Good(<<6, 6>>) EXCEPT !.udp = FALSE],
             [Good(<<14>>) EXCEPT !.port = FALSE]}

Fragments == {[Good(<<14>>) EXCEPT !.more = TRUE],
              [Good(<<6, 6>>) EXCEPT !.first = FALSE, !.port = FALSE]}

MixedFrames == {Good(u) : u \in Captured} \cup Rejected \cup Fragments
CaptureOnly == {Good(u) : u \in Captured}
============================================================================

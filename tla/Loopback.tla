----------------------------- MODULE Loopback -----------------------------
(***************************************************************************)
(* The transmit and the receive adapter back to back, as in the local      *)
(* loopback poc_inject tests with: frames from the transmit FIFO go out    *)
(* through axis2xgmii and come back through xgmii2axis.  The PCS between   *)
(* them is external and taken to hand each word on.                        *)
(*                                                                         *)
(* The transmit FIFO is external too: it starts a frame at any cycle that  *)
(* can take one, and has each further beat ready when it is asked for (the *)
(* adapter does not look at TVALID inside a frame).  TUSER marks the last  *)
(* beat of a frame that is aborted.  Frame numbers are reused, so that a   *)
(* run has no end.                                                         *)
(***************************************************************************)
EXTENDS Axis2Xgmii, Xgmii2Axis

CONSTANTS
    Lengths,     \* lengths of the frames that are sent
    Aborted,     \* lengths of the frames that are aborted with their last beat
    IDS          \* frame numbers in use

\* A frame that starts in lane 4 has its TLAST looked at from the third beat
\* on; the minimum Ethernet frame has eight.
ASSUME LengthAssumption == \A n \in Lengths \cup Aborted : n \in Nat /\ n > 2 * LANES
ASSUME IdsAssumption == IDS \in Nat \ {0}

VARIABLES
    axis,        \* beats of the current frame still to be sent
    id,          \* number of the last frame
    due,         \* history: frames to come back, oldest first: [id, len]
    part,        \* history: bytes received of the current frame
    gap,         \* history: bytes since the last terminate character
    owed         \* history: bytes by which the gaps were too short

vars == <<tx, rx, axis, id, due, part, gap, owed>>

---------------------------------------------------------------------------
\* A frame as beats.
FrameBytes(k, len) == [i \in 1 .. len |-> Byte(k, i - 1)]

BeatsOf(k, len, abort) ==
    LET n == (len + LANES - 1) \div LANES
        place(b, i) == LANES * (b - 1) + i - 1
    IN  [b \in 1 .. n |->
            [valid |-> TRUE,
             data  |-> [i \in 1 .. LANES |-> IF place(b, i) < len THEN Byte(k, place(b, i)) ELSE Junk],
             keep  |-> IF b < n THEN LANES ELSE len - LANES * (n - 1),
             last  |-> b = n,
             user  |-> abort /\ b = n]]

Queue(len, abort) ==
    /\ axis = <<>> /\ tx.TREADY /\ Len(due) < IDS
    /\ id' = (id % IDS) + 1
    /\ axis' = BeatsOf(IF abort THEN 0 ELSE id', len, abort)
    /\ due' = IF abort THEN due ELSE Append(due, [id |-> id', len |-> len])
    /\ UNCHANGED <<tx, rx, part, gap, owed>>

---------------------------------------------------------------------------
\* Observers: the frame being received and the gap on the wire.

Keep(beat) == SubSeq(beat.data, 1, beat.keep)
Received == part \o Keep(rx.out)

Observe ==
    /\ part' = IF ~rx.out.valid THEN part ELSE IF rx.out.last THEN <<>> ELSE Received
    /\ due' = IF rx.out.valid /\ rx.out.last /\ rx.out.user THEN Tail(due) ELSE due

LONG == 16      \* a gap this long owes nothing, however much was owed before

\* The deficit idle count leaves the gap behind an aborted frame out: QW_IDLE
\* does not touch dic, and the next frame may start 9 bytes behind the terminate
\* in lane 7, or 8 behind a frame cut at the error in lane 4, which has none.
\* That shortfall is left out here too: the gap is counted from FORGIVEN, so
\* that one up to such a start is a gap of 12.
FORGIVEN == 12 - LANES

Measure(d) ==
    LET lane(ch) == CHOOSE i \in 1 .. LANES : d[i] = ch
        has(ch) == \E i \in 1 .. LANES : d[i] = ch
        total == gap + lane(S) - 1
        debt == owed + 12
    IN  CASE has(E) -> gap' = FORGIVEN /\ UNCHANGED owed
          [] has(S) -> gap' = 0 /\ owed' = IF debt > total THEN debt - total ELSE 0
          [] has(T) /\ ~has(E) -> gap' = LANES + 1 - lane(T) /\ UNCHANGED owed
          [] d = QW_IDLE -> gap' = (IF gap + LANES > LONG THEN LONG ELSE gap + LANES) /\ UNCHANGED owed
          [] OTHER -> UNCHANGED <<gap, owed>>

\* One clock edge.
Cycle ==
    /\ tx' = TxNext(IF axis = <<>> THEN NoBeat ELSE Head(axis))
    /\ axis' = IF axis # <<>> /\ tx.TREADY THEN Tail(axis) ELSE axis
    /\ rx' = RxNext(tx.d)
    /\ Observe
    /\ Measure(tx.d)
    /\ UNCHANGED id

Init ==
    /\ tx = TxReset /\ rx = RxReset
    /\ axis = <<>> /\ id = 0 /\ due = <<>> /\ part = <<>> /\ gap = LONG /\ owed = 0

Next ==
    \/ Cycle
    \/ \E len \in Lengths : Queue(len, FALSE)
    \/ \E len \in Aborted : Queue(len, TRUE)

Spec == Init /\ [][Next]_vars

---------------------------------------------------------------------------
\* "Back on S2MM byte-identical": a frame that comes back with its FCS found
\* right is the oldest one not back yet, from its first byte to its last, for
\* every lane it may start and end in; and none comes back as bad but those
\* that were aborted.
FramesIntact ==
    rx.out.valid /\ rx.out.last =>
        IF rx.out.user
        THEN due # <<>> /\ Received = FrameBytes(Head(due).id, Head(due).len)
        ELSE \A i \in 1 .. Len(due) : Byte(due[i].id, 0) # Received[1]

\* The gap between a whole frame and the next one is 12 bytes on average: the
\* deficit idle count never lets these gaps fall more than 3 bytes behind in
\* all, and none of them below 9.  The shorter ones behind aborted frames are
\* not charged, but neither do they make the count forget what was owed before.
GapKept == owed <= 3

\* Every frame that is not aborted comes back, and every frame that was begun
\* is ended: when both adapters are idle and nothing is on the wire, none is
\* missing, however close behind each other they were.
Quiet ==
    /\ axis = <<>> /\ tx.fsm = "IDLE_L0" /\ tx.d = QW_IDLE
    /\ rx.fsm = "IDLE" /\ ~rx.tvalid_d0 /\ ~rx.tvalid_i /\ ~rx.out.valid

AllReceived == Quiet => due = <<>> /\ part = <<>>
============================================================================

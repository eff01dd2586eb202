---------------------------- MODULE Axis2Xgmii ----------------------------
(***************************************************************************)
(* The transmit adapter, vivado/ip/axis2xgmii.v: stream beats in, XGMII    *)
(* words out, with preamble, FCS and an inter-frame gap that is kept at 12 *)
(* bytes on average by the deficit idle count dic.  One step is one clock  *)
(* edge.  The states that differ only in how many bytes the last beat has  *)
(* are one state here (L0_FIN, L4_FIN, T_LANE with the lane beside it).    *)
(***************************************************************************)
EXTENDS Xgmii

VARIABLE tx      \* the registers

TxReset == [fsm |-> "SRES", TREADY |-> FALSE, d |-> QW_IDLE, dic |-> 0,
            tdata_i |-> Lanes(Junk, LANES), tkeep_i |-> 0, aux_dw |-> Lanes(Junk, 4),
            crc_32 |-> CRC_PRESET, crcs |-> Lanes(CRC_PRESET, 7),
            fcs |-> Lanes(Junk, 4), lane |-> 0]

\* A beat of the stream; TVALID is low when there is none.
NoBeat == [valid |-> FALSE, data |-> Lanes(Junk, LANES), keep |-> 0, last |-> FALSE, user |-> FALSE]

\* The FCS of a frame whose last beat has n bytes.
TxFcs(n) == Fcs(IF n = LANES THEN tx.crc_32 ELSE tx.crcs[n])

\* Beat by beat.
Latch(in) == [tx EXCEPT !.tdata_i = in.data, !.tkeep_i = in.keep]

Start(in, preamble, to) ==
    [Latch(in) EXCEPT !.d = preamble, !.crc_32 = Crc(CRC_PRESET, in.data), !.fsm = to]

TxIdle(in) ==
    IF in.valid
    THEN Start(in, PREAMBLE_LANE0, "ST_LANE0")
    ELSE [Latch(in) EXCEPT !.d = QW_IDLE, !.dic = IF @ = 0 THEN 0 ELSE @ - 1]

TxHalfIdle(in) ==
    IF in.valid
    THEN Start(in, PREAMBLE_LANE4, "ST_LANE4")
    ELSE [Latch(in) EXCEPT !.d = QW_IDLE, !.fsm = "IDLE_L0"]

\* The beat before goes out; an aborted frame ends with an error character.
Body(in, word, aborted, final) ==
    [Latch(in) EXCEPT
        !.TREADY = ~in.user /\ ~in.last,
        !.d      = IF in.user THEN aborted ELSE word,
        !.crc_32 = Crc(tx.crc_32, in.data),
        !.crcs   = [n \in 1 .. 7 |-> Crc(tx.crc_32, First(in.data, n))],
        !.fsm    = IF in.user THEN "QW_IDLE" ELSE IF in.last THEN final ELSE @]

TxLane0(in) ==
    Body(in, tx.tdata_i, [tx.tdata_i EXCEPT ![1] = E, ![8] = T], "L0_FIN")

TxLane4Start(in) ==
    LET word == PREAMBLE_LANE4_END \o Low(tx.tdata_i)
    IN  [Latch(in) EXCEPT
            !.aux_dw = High(tx.tdata_i),
            !.crc_32 = Crc(tx.crc_32, in.data),
            !.d      = IF in.user THEN [word EXCEPT ![1] = E, ![8] = T] ELSE word,
            !.TREADY = IF in.user THEN FALSE ELSE @,
            !.fsm    = IF in.user THEN "QW_IDLE" ELSE "ST_LANE4_D"]

TxLane4(in) ==
    LET word == tx.aux_dw \o Low(tx.tdata_i)
    IN  [Body(in, word, [word EXCEPT ![5] = E], "L4_FIN") EXCEPT !.aux_dw = High(tx.tdata_i)]

TxQwIdle == [tx EXCEPT !.d = QW_IDLE, !.TREADY = TRUE, !.fsm = "IDLE_L0"]

\* The last beat, its n bytes in lanes 0 .. n-1: FCS and terminate follow.
TxFin0 ==
    LET n == tx.tkeep_i
    IN  [tx EXCEPT
            !.d    = First(First(tx.tdata_i, n) \o TxFcs(n) \o <<T>> \o QW_IDLE, LANES),
            !.fcs  = TxFcs(n),
            !.lane = (n + 4) % 8,
            !.fsm  = "T_LANE"]

\* The same behind the half beat that is still to be sent: more than four
\* bytes make another word.
TxFin4 ==
    LET n == tx.tkeep_i
        rest == tx.aux_dw \o First(tx.tdata_i, n)
    IN  IF n > 4
        THEN [tx EXCEPT
                !.d       = First(rest, LANES),
                !.tdata_i = High(@) \o High(@),
                !.tkeep_i = n - 4,
                !.crcs    = [i \in 1 .. 7 |->
                                IF n = LANES THEN IF i = 4 THEN tx.crc_32 ELSE @[i]
                                ELSE IF i < 4 THEN @[i + 4] ELSE @[i]],
                !.fsm     = "L0_FIN"]
        ELSE [tx EXCEPT
                !.d    = First(rest \o TxFcs(n), LANES),
                !.fcs  = TxFcs(n),
                !.lane = n,
                !.fsm  = "T_LANE"]

\* (mutant) The deficit is forgotten.
DicForgotten(lane) == 0

\* Starting the next frame four lanes sooner leaves the gap short of 12 by
\* lane % 4; up to three bytes may be owed.
DeficitFits(lane) == tx.dic + (lane % 4) <= 3
Dic(lane) == IF DeficitFits(lane) THEN tx.dic + (lane % 4) ELSE (tx.dic + (lane % 4)) - 4

\* Terminate in the given lane; from lane 5 on it is already out.
TxTerminate ==
    LET n == tx.lane
        soon == DeficitFits(n)
        to == CASE n < 4 -> IF soon THEN "DW_IDLE" ELSE "QW_IDLE"
                [] n = 4 -> "QW_IDLE"
                [] n > 4 -> IF soon THEN "IDLE_L0" ELSE "DW_IDLE"
    IN  [tx EXCEPT
            !.d = IF n > 4 THEN QW_IDLE
                  ELSE First(SubSeq(tx.fcs, 5 - n, 4) \o <<T>> \o QW_IDLE, LANES),
            !.dic = Dic(n),
            !.TREADY = IF to = "QW_IDLE" THEN @ ELSE TRUE,
            !.fsm = to]

TxNext(in) ==
    CASE tx.fsm = "SRES"       -> [tx EXCEPT !.dic = 0, !.TREADY = TRUE, !.fsm = "IDLE_L0"]
      [] tx.fsm = "IDLE_L0"    -> TxIdle(in)
      [] tx.fsm = "DW_IDLE"    -> TxHalfIdle(in)
      [] tx.fsm = "QW_IDLE"    -> TxQwIdle
      [] tx.fsm = "ST_LANE0"   -> TxLane0(in)
      [] tx.fsm = "ST_LANE4"   -> TxLane4Start(in)
      [] tx.fsm = "ST_LANE4_D" -> TxLane4(in)
      [] tx.fsm = "L0_FIN"     -> TxFin0
      [] tx.fsm = "L4_FIN"     -> TxFin4
      [] tx.fsm = "T_LANE"     -> TxTerminate
============================================================================

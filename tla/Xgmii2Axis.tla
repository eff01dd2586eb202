---------------------------- MODULE Xgmii2Axis ----------------------------
(***************************************************************************)
(* The receive adapter, vivado/ip/xgmii2axis.v: XGMII words in, stream     *)
(* beats out, without preamble and FCS; TUSER on the last beat tells       *)
(* whether the FCS was right.  A frame starts in lane 0 or in lane 4 and   *)
(* ends in any lane, and whether the bytes before its FCS end in the word  *)
(* of the terminate character or in the one before decides when TLAST is   *)
(* due.  len, c_reg and the frame counters are written and never read and  *)
(* are left out; lv_* and zy_* carry the same beats.                       *)
(***************************************************************************)
EXTENDS Xgmii

VARIABLE rx      \* the registers; out is lv_T* and zy_T*

NoOutput == [valid |-> FALSE, data |-> Lanes(Junk, LANES), keep |-> 0, last |-> FALSE, user |-> FALSE]

RxReset == [fsm |-> "SRES", out |-> NoOutput, synch |-> FALSE,
            tdata_i |-> Lanes(Junk, LANES), tkeep_i |-> 0, last_tkeep_i |-> 0,
            tvalid_i |-> FALSE, tlast_i |-> FALSE, tuser_i |-> FALSE,
            tdata_d0 |-> Lanes(Junk, LANES), tvalid_d0 |-> FALSE,
            d_reg |-> QW_IDLE, inbound_frame |-> FALSE, aux_dw |-> Lanes(Junk, 4),
            crc_32 |-> CRC_PRESET, crcs |-> [n \in 4 .. 7 |-> CRC_PRESET],
            rcved_crc |-> Lanes(Junk, 4), calcted_crc |-> CRC_PRESET, chk_tchar |-> FALSE]

\* The lanes before the first control character; what follows must be control
\* characters only, as the values of xgmii_c in the code's case say.
DataLanes(d) == IF \E i \in 1 .. LANES : IsControl(d[i])
                THEN (CHOOSE i \in 1 .. LANES :
                          IsControl(d[i]) /\ \A j \in 1 .. i - 1 : ~IsControl(d[j])) - 1
                ELSE LANES
CleanEnd(d) == \A i \in DataLanes(d) + 1 .. LANES : IsControl(d[i])

\* The output block: nothing until the adapter was seen between two frames.
Output(r) ==
    IF ~rx.inbound_frame \/ rx.synch
    THEN [r EXCEPT !.synch = TRUE,
                   !.out = [valid |-> rx.tvalid_i, data |-> rx.tdata_i, keep |-> rx.tkeep_i,
                            last |-> rx.tlast_i, user |-> rx.tuser_i]]
    ELSE [r EXCEPT !.out.valid = FALSE]

\* tdata_i follows tdata_d0 by a cycle in every state.
Shift == [rx EXCEPT !.tdata_i = rx.tdata_d0, !.tvalid_i = rx.tvalid_d0]

StateAtStart(d, otherwise) ==
    IF sof_lane0(d) THEN "ST_LANE0" ELSE IF sof_lane4(d) THEN "ST_LANE4" ELSE otherwise

RxIdle(d) ==
    [Shift EXCEPT !.tvalid_d0 = FALSE, !.tlast_i = FALSE, !.tuser_i = FALSE,
                  !.crc_32 = CRC_PRESET, !.d_reg = d,
                  !.inbound_frame = sof_lane0(d) \/ sof_lane4(d),
                  !.fsm = StateAtStart(d, "IDLE")]

\* What both data states do with a word: data is the beat it completes.
RxWord(d, data) ==
    [Shift EXCEPT !.tdata_d0 = data, !.tvalid_d0 = TRUE, !.tkeep_i = LANES,
                  !.d_reg = d,
                  !.crc_32 = Crc(rx.crc_32, d),
                  !.crcs = [n \in 4 .. 7 |-> Crc(rx.crc_32, First(d, n))]]

\* The frame ended with the beat before: that one gets TLAST.
LastWas(r, keep, good) ==
    [r EXCEPT !.tkeep_i = keep, !.tvalid_d0 = FALSE, !.tlast_i = TRUE,
              !.tuser_i = good, !.fsm = "IDLE"]

\* The frame ends with the beat of this word: FIN or FINL4 gives it TLAST.
LastIs(r, keep, rcved, calcted, tchar, to) ==
    [r EXCEPT !.last_tkeep_i = keep, !.rcved_crc = rcved, !.calcted_crc = calcted,
              !.chk_tchar = tchar, !.fsm = to]

\* Control characters where none may be.
Broken(r) ==
    [r EXCEPT !.tlast_i = TRUE, !.tvalid_d0 = FALSE, !.tvalid_i = TRUE, !.fsm = "IDLE"]

\* (mutant) The CRC register itself, which already covers bytes of the FCS.
CrcNewest(n) == rx.crc_32

\* The FCS in the last bytes of the word before and the first n of this one.
FcsBefore(d, n) == SubSeq(rx.d_reg \o d, n + 5, n + 8)
CrcBefore(n) == IF n = 4 THEN rx.crc_32 ELSE rx.crcs[n + 4]

RxLane0(d) ==
    LET r == [RxWord(d, d) EXCEPT !.tlast_i = FALSE, !.tuser_i = FALSE]
        n == DataLanes(d)
    IN  CASE n = LANES -> r
          [] CleanEnd(d) /\ n <= 4 ->
                LastWas(r, n + 4, FcsBefore(d, n) = Fcs(CrcBefore(n)) /\ d[n + 1] = T)
          [] CleanEnd(d) /\ n \in 5 .. 7 ->
                LastIs(r, n - 4, SubSeq(d, n - 3, n), Crc(rx.crc_32, First(d, n - 4)),
                       d[n + 1] = T, "FIN")
          [] OTHER -> Broken(r)

RxLane4Start(d) ==
    [Shift EXCEPT !.tlast_i = FALSE, !.tuser_i = FALSE,
                  !.crc_32 = Crc(rx.crc_32, High(d)), !.aux_dw = High(d),
                  !.fsm = IF DataLanes(d) = LANES THEN "D_LANE4" ELSE "IDLE"]

RxLane4(d) ==
    LET r == [RxWord(d, rx.aux_dw \o Low(d)) EXCEPT !.aux_dw = High(d)]
        n == DataLanes(d)
    IN  CASE n = LANES -> r
          [] CleanEnd(d) /\ n = 0 ->
                LastWas(r, LANES, rx.tuser_i \/ (FcsBefore(d, 0) = Fcs(CrcBefore(0)) /\ d[1] = T))
          [] CleanEnd(d) /\ n \in 1 .. 3 ->
                LastIs(r, n, FcsBefore(d, n), rx.crcs[n + 4], d[n + 1] = T, "FINL4")
          [] CleanEnd(d) /\ n \in 4 .. 7 ->
                LastIs(r, n, SubSeq(d, n - 3, n),
                       IF n = 4 THEN rx.crc_32 ELSE Crc(rx.crc_32, First(d, n - 4)),
                       d[n + 1] = T, "FIN")
          [] OTHER -> Broken(r)

\* (mutant) The word behind the end of a frame is taken for idle.
StateAfterFinNone(d) == "IDLE"

\* A frame may start right behind the one that ends; after FIN the code only
\* looks for one in lane 4.
StateAfterFin(d) == IF rx.fsm = "FINL4" THEN StateAtStart(d, "IDLE")
                    ELSE IF sof_lane4(d) THEN "ST_LANE4" ELSE "IDLE"

RxFin(d) ==
    [Shift EXCEPT !.tkeep_i = rx.last_tkeep_i, !.tlast_i = TRUE, !.tvalid_d0 = FALSE,
                  !.crc_32 = CRC_PRESET,
                  !.tuser_i = @ \/ (rx.rcved_crc = Fcs(rx.calcted_crc) /\ rx.chk_tchar),
                  !.fsm = StateAfterFin(d)]

RxNext(d) ==
    Output(CASE rx.fsm = "SRES"     -> [Shift EXCEPT !.fsm = "IDLE"]
             [] rx.fsm = "IDLE"     -> RxIdle(d)
             [] rx.fsm = "ST_LANE0" -> RxLane0(d)
             [] rx.fsm = "ST_LANE4" -> RxLane4Start(d)
             [] rx.fsm = "D_LANE4"  -> RxLane4(d)
             [] rx.fsm \in {"FIN", "FINL4"} -> RxFin(d))
============================================================================

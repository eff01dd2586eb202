-------------------------- MODULE LoopbackProofs --------------------------
(***************************************************************************)
(* The loopback, for every set of frame lengths and whatever the transmit  *)
(* FIFO does.  First the deficit idle count of axis2xgmii.v: the gaps      *)
(* measured on the wire behind whole frames are what the register dic      *)
(* accounts for.  Then the frames: where two of them are in the registers  *)
(* of both adapters, in every state, from which it follows that they come  *)
(* back as they went.                                                      *)
(***************************************************************************)
EXTENDS Loopback, SequenceTheorems, TLAPS

---------------------------------------------------------------------------
\* The words on the wire, by what the measurement of the gap tells apart.

KINDS == {"I", "S", "T", "E", "P", "junk", "byte", "fcs"}
Character == KINDS \X Nat \X Nat \X Nat
Plain == {ch \in Character : ch[1] \notin {"S", "T", "E"}}
CrcValue == Nat \X Nat

Words(n, chars) == {w \in Seq(chars) : Len(w) = n}

\* No start, terminate or error character.
DataWord == Words(LANES, Plain)

\* Terminate in the given lane, and nothing else the gap depends on.
EndWord(d, lane) ==
    /\ d \in Words(LANES, Character)
    /\ d[lane + 1] = T
    /\ \A i \in 1 .. LANES : i # lane + 1 => d[i] \in Plain

\* An aborted frame.
ErrorWord(d) ==
    /\ d \in Words(LANES, Character)
    /\ \E i \in 1 .. LANES : d[i] = E
    /\ \A i \in 1 .. LANES : d[i] # S

---------------------------------------------------------------------------
\* The strengthening that makes GapKept inductive.

FSM == {"SRES", "IDLE_L0", "DW_IDLE", "QW_IDLE", "ST_LANE0", "ST_LANE4",
        "ST_LANE4_D", "L0_FIN", "L4_FIN", "T_LANE"}

Registers ==
    [fsm : FSM, TREADY : BOOLEAN, d : Words(LANES, Character), dic : 0 .. 3,
     tdata_i : DataWord, tkeep_i : 0 .. LANES, aux_dw : Words(4, Plain),
     crc_32 : CrcValue, crcs : [1 .. 7 -> CrcValue],
     fcs : Words(4, Plain), lane : 0 .. 7]

\* A beat of the FIFO; the last of a frame has at least one byte.
Beat ==
    {b \in [valid : BOOLEAN, data : DataWord, keep : 0 .. LANES, last : BOOLEAN, user : BOOLEAN] :
        b.last => b.keep # 0}

TypeOK ==
    /\ tx \in Registers
    /\ tx.fsm \in {"L0_FIN", "L4_FIN"} => tx.tkeep_i # 0
    /\ axis \in Seq(Beat)
    /\ id \in Nat
    /\ gap \in 0 .. LONG
    /\ owed \in Nat

\* A frame that started after so many bytes would leave no more owed than
\* the deficit idle count says.
Covered(total) == owed + 12 <= tx.dic + total

\* What the deficit idle count says is owed, state by state: inside a frame
\* it is what is owed; between two frames it is what will be owed when the
\* next one starts as soon as this state lets it.
DicTrue ==
    \/ tx.fsm \in {"SRES", "IDLE_L0"} /\ tx.d = QW_IDLE /\ Covered(gap + LANES)
    \/ tx.fsm = "DW_IDLE" /\ tx.d = QW_IDLE /\ Covered(gap + LANES + 4)
    \/ tx.fsm = "DW_IDLE" /\ \E n \in 0 .. 3 : EndWord(tx.d, n) /\ Covered(LANES - n + 4)
    \/ tx.fsm = "QW_IDLE" /\ \E n \in 0 .. 4 : EndWord(tx.d, n) /\ Covered(2 * LANES - n)
    \/ tx.fsm = "QW_IDLE" /\ ErrorWord(tx.d) /\ owed <= tx.dic
    \/ tx.fsm = "ST_LANE0" /\ tx.d = PREAMBLE_LANE0 /\ Covered(gap)
    \/ tx.fsm = "ST_LANE4" /\ tx.d = PREAMBLE_LANE4 /\ Covered(gap + 4)
    \/ tx.fsm \in {"ST_LANE0", "ST_LANE4_D", "L0_FIN", "L4_FIN"} /\ tx.d \in DataWord /\ owed <= tx.dic
    \/ tx.fsm = "T_LANE" /\ tx.lane <= 4 /\ tx.d \in DataWord /\ owed <= tx.dic
    \/ tx.fsm = "T_LANE" /\ tx.lane > 4 /\ EndWord(tx.d, tx.lane) /\ owed <= tx.dic

GapInv == TypeOK /\ DicTrue /\ GapKept
---------------------------------------------------------------------------
\* Words.

\* Start, terminate and error differ from each other and from all the others.
LEMMA Characters ==
  /\ I \in Plain /\ Preamble \in Plain /\ Junk \in Plain
  /\ S \in Character /\ T \in Character /\ E \in Character
  /\ S \notin Plain /\ T \notin Plain /\ E \notin Plain
  /\ S # T /\ S # E /\ T # E
  /\ Plain \subseteq Character
  BY DEF Plain, Character, KINDS, I, Preamble, Junk, S, T, E

LEMMA BytesArePlain == \A k, place \in Nat : Byte(k, place) \in Plain
  BY DEF Plain, Character, KINDS, Byte

LEMMA TupleIsWord ==
  ASSUME NEW C, NEW n \in Nat, NEW w \in [1 .. n -> C]
  PROVE  w \in Words(n, C)
<1>1. w \in Seq(C)
  BY SeqDef
<1>2. Len(w) = n
  BY <1>1, LenProperties
<1> QED BY <1>1, <1>2 DEF Words

LEMMA LanesIsWord ==
  ASSUME NEW C, NEW ch \in C, NEW n \in Nat
  PROVE  Lanes(ch, n) \in Words(n, C) /\ \A i \in 1 .. n : Lanes(ch, n)[i] = ch
<1>1. Lanes(ch, n) \in [1 .. n -> C]
  BY DEF Lanes
<1> QED BY <1>1, TupleIsWord DEF Lanes

\* Both parts of a concatenation keep their lanes.
JoinedLanes(u, m, v, n, C) ==
    /\ u \o v \in Words(m + n, C)
    /\ \A i \in 1 .. m : (u \o v)[i] = u[i]
    /\ \A i \in 1 .. n : (u \o v)[m + i] = v[i]

LEMMA Joined ==
  ASSUME NEW C, NEW m \in Nat, NEW n \in Nat, NEW u \in Words(m, C), NEW v \in Words(n, C)
  PROVE  JoinedLanes(u, m, v, n, C)
<1>1. u \in Seq(C) /\ v \in Seq(C) /\ Len(u) = m /\ Len(v) = n
  BY DEF Words
<1> QED BY <1>1 DEF JoinedLanes, Words

LEMMA OneLane ==
  ASSUME NEW C, NEW n \in Nat, NEW w \in Words(n, C), NEW i \in 1 .. n, NEW ch \in C
  PROVE  [w EXCEPT ![i] = ch] \in Words(n, C)
<1>1. w \in Seq(C) /\ i \in 1 .. Len(w) /\ Len(w) = n
  BY DEF Words
<1> QED BY <1>1, ExceptSeq DEF Words

LEMMA Cut ==
  ASSUME NEW C, NEW m \in Nat, NEW n \in 0 .. m, NEW u \in Words(m, C)
  PROVE  First(u, n) \in Words(n, C) /\ \A i \in 1 .. n : First(u, n)[i] = u[i]
<1>1. u \in Seq(C) /\ Len(u) = m
  BY DEF Words
<1>2. SubSeq(u, 1, n) \in Seq(C) /\ Len(SubSeq(u, 1, n)) = n
  BY <1>1
<1>3. \A i \in 1 .. n : SubSeq(u, 1, n)[i] = u[i]
  BY <1>1
<1> QED BY <1>2, <1>3 DEF Words, First

LEMMA WordLanes ==
  ASSUME NEW C, NEW n \in Nat, NEW w \in Words(n, C), NEW i \in 1 .. n
  PROVE  w[i] \in C
  BY DEF Words

LEMMA Halves ==
  ASSUME NEW w \in DataWord
  PROVE  Low(w) \in Words(4, Plain) /\ High(w) \in Words(4, Plain)
<1>1. w \in Seq(Plain) /\ Len(w) = 8
  BY DEF DataWord, Words, LANES
<1>2. \A i \in 1 .. 8 : w[i] \in Plain
  BY WordLanes DEF DataWord, LANES
<1>3. SubSeq(w, 1, 4) \in Seq(Plain) /\ Len(SubSeq(w, 1, 4)) = 4
  <2>1. \A i \in 1 .. 4 : w[i] \in Plain
    BY <1>2
  <2> QED BY <2>1, SubSeqProperties
<1>4. SubSeq(w, 5, 8) \in Seq(Plain) /\ Len(SubSeq(w, 5, 8)) = 4
  <2>1. \A i \in 5 .. 8 : w[i] \in Plain
    BY <1>2
  <2> QED BY <2>1, SubSeqProperties
<1> QED BY <1>3, <1>4 DEF Words, Low, High

\* The same lanes among more characters.
LEMMA PlainWord ==
  ASSUME NEW n \in Nat, NEW w \in Words(n, Plain)
  PROVE  w \in Words(n, Character)
<1>1. w \in Seq(Plain) /\ Len(w) = n
  BY DEF Words
<1> QED BY <1>1, Characters DEF Words

LEMMA IdleWord == QW_IDLE \in DataWord
  BY LanesIsWord, Characters DEF QW_IDLE, DataWord, LANES

\* A frame starts in the given lane.
StartWord(d, lane) ==
    /\ d \in Words(LANES, Character)
    /\ d[lane + 1] = S
    /\ \A i \in 1 .. LANES : i # lane + 1 => d[i] \in Plain

LEMMA PreambleWords == StartWord(PREAMBLE_LANE0, 0) /\ StartWord(PREAMBLE_LANE4, 4)
<1>1. SUFFICES ASSUME NEW three, NEW seven, NEW four,
                      three = Lanes(Preamble, 3), seven = Lanes(Preamble, 7), four = Lanes(I, 4)
               PROVE  /\ StartWord(<<S>> \o seven, 0)
                      /\ StartWord(four \o <<S>> \o three, 4)
  BY DEF PREAMBLE_LANE0, PREAMBLE_LANE4
<1>2. ASSUME NEW ch \in Plain, NEW n \in Nat
      PROVE  /\ Lanes(ch, n) \in Words(n, Character)
             /\ \A i \in 1 .. n : Lanes(ch, n)[i] \in Plain
  <2>1. ch \in Character
    BY Characters
  <2> QED BY <2>1, LanesIsWord
<1>3. Preamble \in Plain /\ I \in Plain /\ 3 \in Nat /\ 7 \in Nat /\ 4 \in Nat /\ 1 \in Nat /\ 5 \in Nat
  BY Characters
<1>4. three \in Words(3, Character) /\ \A i \in 1 .. 3 : three[i] \in Plain
  BY <1>1, <1>2, <1>3
<1>5. seven \in Words(7, Character) /\ \A i \in 1 .. 7 : seven[i] \in Plain
  BY <1>1, <1>2, <1>3
<1>6. four \in Words(4, Character) /\ \A i \in 1 .. 4 : four[i] \in Plain
  BY <1>1, <1>2, <1>3
<1>7. <<S>> \in Words(1, Character) /\ <<S>>[1] = S
  BY Characters DEF Words
<1>8. StartWord(<<S>> \o seven, 0)
  <2>1. JoinedLanes(<<S>>, 1, seven, 7, Character)
    BY <1>3, <1>5, <1>7, Joined, Zenon
  <2>2. \A i \in 1 .. 8 : i # 1 => i - 1 \in 1 .. 7 /\ 1 + (i - 1) = i
    OBVIOUS
  <2>3. SUFFICES ASSUME NEW word, word = <<S>> \o seven
                 PROVE  StartWord(word, 0)
    OBVIOUS
  <2>4. /\ word \in Words(1 + 7, Character)
        /\ \A i \in 1 .. 1 : word[i] = <<S>>[i]
        /\ \A i \in 1 .. 7 : word[1 + i] = seven[i]
    BY <2>1, <2>3, Zenon DEF JoinedLanes
  <2>5. \A i \in 1 .. 8 : i # 1 => word[i] \in Plain
    BY <1>5, <2>2, <2>4
  <2> QED BY <1>7, <2>4, <2>5 DEF StartWord, LANES
<1>9. StartWord(four \o <<S>> \o three, 4)
  <2>1. SUFFICES ASSUME NEW front, front = four \o <<S>>
                 PROVE  StartWord(front \o three, 4)
    OBVIOUS
  <2>2. JoinedLanes(four, 4, <<S>>, 1, Character)
    BY <1>3, <1>6, <1>7, Joined, Zenon
  <2>3. /\ front \in Words(4 + 1, Character)
        /\ \A i \in 1 .. 4 : front[i] = four[i]
        /\ \A i \in 1 .. 1 : front[4 + i] = <<S>>[i]
    BY <2>1, <2>2, Zenon DEF JoinedLanes
  <2>4. /\ front \in Words(5, Character)
        /\ \A i \in 1 .. 4 : front[i] \in Plain
        /\ front[5] = S
    BY <1>6, <1>7, <2>3
  <2>5. SUFFICES ASSUME NEW word, word = front \o three
                 PROVE  StartWord(word, 4)
    OBVIOUS
  <2>6. JoinedLanes(front, 5, three, 3, Character)
    BY <1>3, <1>4, <2>4, Joined, Zenon
  <2>7. /\ word \in Words(5 + 3, Character)
        /\ \A i \in 1 .. 5 : word[i] = front[i]
        /\ \A i \in 1 .. 3 : word[5 + i] = three[i]
    BY <2>5, <2>6, Zenon DEF JoinedLanes
  <2>8. \A i \in 1 .. 8 : i > 5 => i - 5 \in 1 .. 3 /\ 5 + (i - 5) = i
    OBVIOUS
  <2>9. \A i \in 1 .. 8 : i > 5 => word[i] \in Plain
    BY <1>4, <2>7, <2>8
  <2>10. \A i \in 1 .. 4 : word[i] \in Plain
    BY <2>4, <2>7
  <2>11. \A i \in 1 .. 8 : i # 5 => i \in 1 .. 4 \/ i > 5
    OBVIOUS
  <2>12. \A i \in 1 .. 8 : i # 5 => word[i] \in Plain
    BY <2>9, <2>10, <2>11
  <2> QED BY <2>4, <2>7, <2>12 DEF StartWord, LANES
<1> QED BY <1>8, <1>9

---------------------------------------------------------------------------
\* What the measurement makes of each kind of word.

LEMMA LaneOf ==
  ASSUME NEW d, NEW ch, NEW k \in 1 .. LANES, d[k] = ch,
         \A i \in 1 .. LANES : d[i] = ch => i = k
  PROVE  (CHOOSE i \in 1 .. LANES : d[i] = ch) = k
  OBVIOUS

LEMMA MeasureData ==
  ASSUME NEW d \in DataWord, Measure(d), gap \in 0 .. LONG
  PROVE  /\ owed' = owed
         /\ gap' \in 0 .. LONG
         /\ d = QW_IDLE => gap' = IF gap + LANES > LONG THEN LONG ELSE gap + LANES
<1>1. \A i \in 1 .. LANES : d[i] # S /\ d[i] # T /\ d[i] # E
  <2>1. \A i \in 1 .. LANES : d[i] \in Plain
    BY WordLanes DEF DataWord, LANES
  <2> QED BY <2>1, Characters
<1> QED BY <1>1 DEF Measure, LONG, LANES

LEMMA MeasureStart ==
  ASSUME NEW lane \in 0 .. 7, NEW d, StartWord(d, lane), Measure(d), gap \in 0 .. LONG, owed \in Nat
  PROVE  /\ gap' = 0
         /\ owed' = IF owed + 12 > gap + lane THEN owed + 12 - (gap + lane) ELSE 0
<1>1. /\ d[lane + 1] = S /\ lane + 1 \in 1 .. LANES
      /\ \A i \in 1 .. LANES : d[i] = S => i = lane + 1
      /\ \A i \in 1 .. LANES : d[i] # E
  BY Characters DEF StartWord, LANES
<1>2. (CHOOSE i \in 1 .. LANES : d[i] = S) = lane + 1
  BY <1>1, LaneOf
<1>3. d # QW_IDLE
  BY <1>1, IdleWord, WordLanes, Characters DEF DataWord, LANES
<1>4. ~\E i \in 1 .. LANES : d[i] = T
  BY Characters DEF StartWord
<1> QED BY <1>1, <1>2, <1>3, <1>4 DEF Measure, LONG

LEMMA MeasureEnd ==
  ASSUME NEW lane \in 0 .. 7, NEW d, EndWord(d, lane), Measure(d)
  PROVE  gap' = LANES - lane /\ owed' = owed
<1>1. /\ d[lane + 1] = T /\ lane + 1 \in 1 .. LANES
      /\ \A i \in 1 .. LANES : d[i] = T => i = lane + 1
      /\ \A i \in 1 .. LANES : d[i] # E /\ d[i] # S
  BY Characters DEF EndWord, LANES
<1>2. (CHOOSE i \in 1 .. LANES : d[i] = T) = lane + 1
  BY <1>1, LaneOf
<1>3. d # QW_IDLE
  BY <1>1, IdleWord, WordLanes, Characters DEF DataWord, LANES
<1> QED BY <1>1, <1>2, <1>3 DEF Measure, LANES

LEMMA MeasureError ==
  ASSUME NEW d, ErrorWord(d), Measure(d)
  PROVE  gap' = FORGIVEN /\ owed' = owed
<1>1. /\ \E i \in 1 .. LANES : d[i] = E
      /\ \A i \in 1 .. LANES : d[i] # S
  BY DEF ErrorWord
<1>2. d # QW_IDLE
  BY <1>1, IdleWord, WordLanes, Characters DEF DataWord, LANES
<1> QED BY <1>1, <1>2 DEF Measure
---------------------------------------------------------------------------
\* The registers the FCS comes from stay what they are declared.

LEMMA CrcIsValue ==
  ASSUME NEW crc \in CrcValue, NEW n \in Nat, NEW bytes \in Words(n, Plain), n # 0
  PROVE  Crc(crc, bytes) \in CrcValue
<1>1. bytes[1] \in Plain /\ Len(bytes) = n
  BY WordLanes DEF Words
<1>2. bytes[1][2] \in Nat
  BY <1>1 DEF Plain, Character
<1>3. crc[1] \in Nat /\ crc[2] \in Nat
  BY DEF CrcValue
<1>4. CRC_OTHER \in CrcValue
  BY DEF CRC_OTHER, CrcValue
<1>5. \A k \in Nat : <<k, crc[2] + Len(bytes)>> \in CrcValue
  BY <1>1, <1>3 DEF CrcValue
<1> QED BY <1>2, <1>3, <1>4, <1>5 DEF Crc

LEMMA CrcPreset == CRC_PRESET \in CrcValue
  BY DEF CRC_PRESET, CrcValue

LEMMA FcsIsWord ==
  ASSUME NEW crc \in CrcValue
  PROVE  Fcs(crc) \in Words(4, Plain)
<1>1. crc[1] \in Nat /\ crc[2] \in Nat
  BY DEF CrcValue
<1>2. \A j \in 1 .. 4 : <<"fcs", crc[1], crc[2], j>> \in Plain
  BY <1>1 DEF Plain, Character, KINDS
<1>3. Fcs(crc) \in [1 .. 4 -> Plain]
  BY <1>2 DEF Fcs
<1> QED BY <1>3, TupleIsWord

LEMMA TxFcsIsWord ==
  ASSUME tx \in Registers, NEW n \in 1 .. LANES
  PROVE  TxFcs(n) \in Words(4, Plain)
<1>1. tx.crc_32 \in CrcValue /\ \A i \in 1 .. 7 : tx.crcs[i] \in CrcValue
  BY DEF Registers
<1>2. n = LANES \/ n \in 1 .. 7
  BY DEF LANES
<1> QED BY <1>1, <1>2, FcsIsWord DEF TxFcs

---------------------------------------------------------------------------
\* What the transmit FIFO hands over.

LEMMA NoBeatIsBeat == NoBeat \in Beat
<1>1. Lanes(Junk, LANES) \in DataWord
  BY LanesIsWord, Characters DEF DataWord, LANES
<1> QED BY <1>1 DEF NoBeat, Beat, LANES

\* The beats of a frame: the last has 1 to 8 bytes, each of the others 8.
LEMMA FrameIsBeats ==
  ASSUME NEW k \in Nat, NEW len \in Nat, len # 0, NEW abort \in BOOLEAN
  PROVE  BeatsOf(k, len, abort) \in Seq(Beat)
<1> DEFINE n == (len + LANES - 1) \div LANES
           place(b, i) == LANES * (b - 1) + i - 1
           lanes(b) == [i \in 1 .. LANES |-> IF place(b, i) < len THEN Byte(k, place(b, i)) ELSE Junk]
           beat(b) == [valid |-> TRUE, data |-> lanes(b),
                       keep |-> IF b < n THEN LANES ELSE len - LANES * (n - 1),
                       last |-> b = n, user |-> abort /\ b = n]
<1>1. n \in Nat /\ len - LANES * (n - 1) \in 1 .. LANES
  BY DEF LANES
<1>2. ASSUME NEW b \in 1 .. n
      PROVE  beat(b) \in Beat
  <2>1. \A i \in 1 .. LANES : place(b, i) \in Nat
    BY <1>1 DEF LANES
  <2>2. \A i \in 1 .. LANES : (IF place(b, i) < len THEN Byte(k, place(b, i)) ELSE Junk) \in Plain
    BY <2>1, BytesArePlain, Characters
  <2>3. lanes(b) \in [1 .. LANES -> Plain]
    BY <2>2
  <2>4. lanes(b) \in DataWord
    BY <2>3, TupleIsWord DEF DataWord, LANES
  <2> HIDE DEF lanes
  <2> QED BY <1>1, <2>4 DEF Beat, LANES
<1>3. BeatsOf(k, len, abort) = [b \in 1 .. n |-> beat(b)]
  BY DEF BeatsOf
<1> HIDE DEF n, beat
<1>4. [b \in 1 .. n |-> beat(b)] \in [1 .. n -> Beat]
  BY <1>2
<1> QED BY <1>1, <1>3, <1>4, SeqDef
---------------------------------------------------------------------------
\* The words the transmitter makes.

\* An error character in a word of data.
LEMMA AbortedWords ==
  ASSUME NEW w \in DataWord
  PROVE  ErrorWord([w EXCEPT ![1] = E, ![8] = T]) /\ ErrorWord([w EXCEPT ![5] = E])
<1>1. w \in Words(8, Character) /\ \A i \in 1 .. 8 : w[i] # S
  BY WordLanes, PlainWord, Characters DEF DataWord, LANES
<1>2. /\ [w EXCEPT ![1] = E] \in Words(8, Character)
      /\ [w EXCEPT ![5] = E] \in Words(8, Character)
  <2>1. 1 \in 1 .. 8 /\ 5 \in 1 .. 8 /\ 8 \in Nat
    OBVIOUS
  <2> QED BY <1>1, <2>1, OneLane, Characters, Zenon
<1>3. [w EXCEPT ![1] = E, ![8] = T] \in Words(8, Character)
  <2>1. SUFFICES ASSUME NEW v \in Words(8, Character)
                 PROVE  [v EXCEPT ![8] = T] \in Words(8, Character)
    BY <1>2
  <2>2. 8 \in 1 .. 8 /\ 8 \in Nat
    OBVIOUS
  <2> QED BY <2>2, OneLane, Characters, Zenon
<1>4. DOMAIN w = 1 .. 8
  BY <1>1, LenProperties DEF Words
<1>5. ErrorWord([w EXCEPT ![1] = E, ![8] = T])
  <2>1. [w EXCEPT ![1] = E, ![8] = T][1] = E
    BY <1>4
  <2>2. \A i \in 1 .. 8 : [w EXCEPT ![1] = E, ![8] = T][i] # S
    BY <1>1, <1>4, Characters
  <2> QED BY <1>3, <2>1, <2>2 DEF ErrorWord, LANES
<1>6. ErrorWord([w EXCEPT ![5] = E])
  <2>1. [w EXCEPT ![5] = E][5] = E
    BY <1>4
  <2>2. \A i \in 1 .. 8 : [w EXCEPT ![5] = E][i] # S
    BY <1>1, <1>4, Characters
  <2> QED BY <1>2, <2>1, <2>2 DEF ErrorWord, LANES
<1> QED BY <1>5, <1>6

\* The rest of a frame and its FCS, then terminate: a word that ends the
\* frame when terminate still fits, else a word of data.
LEMMA Closing ==
  ASSUME NEW m \in Nat, NEW u \in Words(m, Plain)
  PROVE  LET word == First(u \o <<T>> \o QW_IDLE, LANES)
         IN  /\ m < LANES => EndWord(word, m)
             /\ m >= LANES => word \in DataWord
<1>1. SUFFICES ASSUME NEW v, v = u \o <<T>>,
                      NEW w, w = v \o QW_IDLE,
                      NEW word, word = First(w, LANES)
               PROVE  /\ m < LANES => EndWord(word, m)
                      /\ m >= LANES => word \in DataWord
  OBVIOUS
<1>2. u \in Words(m, Character) /\ \A i \in 1 .. m : u[i] \in Plain
  BY PlainWord, WordLanes
<1>3. <<T>> \in Words(1, Character) /\ <<T>>[1] = T
  BY Characters DEF Words
<1>4. 1 \in Nat /\ 8 \in Nat /\ m + 1 \in Nat
  OBVIOUS
<1>5. JoinedLanes(u, m, <<T>>, 1, Character)
  BY <1>2, <1>3, <1>4, Joined, Zenon
<1>6. /\ v \in Words(m + 1, Character)
      /\ \A i \in 1 .. m : v[i] = u[i]
      /\ \A i \in 1 .. 1 : v[m + i] = <<T>>[i]
  BY <1>1, <1>5, Zenon DEF JoinedLanes
<1>7. QW_IDLE \in Words(8, Character) /\ \A i \in 1 .. 8 : QW_IDLE[i] \in Plain
  BY IdleWord, PlainWord, WordLanes DEF DataWord, LANES
<1>8. JoinedLanes(v, m + 1, QW_IDLE, 8, Character)
  BY <1>4, <1>6, <1>7, Joined, Zenon
<1>9. /\ w \in Words(m + 1 + 8, Character)
      /\ \A i \in 1 .. m + 1 : w[i] = v[i]
      /\ \A i \in 1 .. 8 : w[m + 1 + i] = QW_IDLE[i]
  BY <1>1, <1>8, Zenon DEF JoinedLanes
<1>10. PICK len \in Nat : len = m + 1 + 8 /\ 8 \in 0 .. len
  OBVIOUS
<1>11. word \in Words(8, Character) /\ \A i \in 1 .. 8 : word[i] = w[i]
  <2>1. w \in Words(len, Character)
    BY <1>9, <1>10
  <2>2. word = First(w, 8)
    BY <1>1 DEF LANES
  <2> QED BY <1>10, <2>1, <2>2, Cut, Zenon
<1>12. \A i \in 1 .. 8 : i <= m => word[i] \in Plain
  BY <1>2, <1>6, <1>9, <1>11
<1>13. m < 8 => word[m + 1] = T
  BY <1>3, <1>6, <1>9, <1>11
<1>14. \A i \in 1 .. 8 : i > m + 1 => word[i] \in Plain
  <2>1. \A i \in 1 .. 8 : i > m + 1 => i - (m + 1) \in 1 .. 8 /\ m + 1 + (i - (m + 1)) = i
    OBVIOUS
  <2> QED BY <1>7, <1>9, <1>11, <2>1
<1>15. ASSUME m < 8 PROVE EndWord(word, m)
  BY <1>11, <1>12, <1>13, <1>14, <1>15 DEF EndWord, LANES
<1>16. ASSUME m >= 8 PROVE word \in DataWord
  <2>1. \A i \in 1 .. 8 : word[i] \in Plain
    BY <1>12, <1>16
  <2>2. Len(word) = 8 /\ DOMAIN word = 1 .. 8 /\ word \in [1 .. 8 -> Character]
    BY <1>11, LenProperties DEF Words
  <2>3. word \in [1 .. 8 -> Plain]
    BY <2>1, <2>2
  <2> QED BY <2>3, TupleIsWord DEF DataWord, LANES
<1> QED BY <1>15, <1>16 DEF LANES

\* Two parts of a frame in one word.
LEMMA DataJoined ==
  ASSUME NEW m \in Nat, NEW n \in Nat, NEW u \in Words(m, Plain), NEW v \in Words(n, Plain)
  PROVE  /\ u \o v \in Words(m + n, Plain)
         /\ m + n >= LANES => First(u \o v, LANES) \in DataWord
<1>1. u \o v \in Words(m + n, Plain)
  BY Joined, Zenon DEF JoinedLanes
<1>2. ASSUME m + n >= 8 PROVE First(u \o v, 8) \in Words(8, Plain)
  <2>1. 8 \in 0 .. m + n /\ m + n \in Nat
    BY <1>2
  <2> QED BY <1>1, <2>1, Cut
<1> QED BY <1>1, <1>2 DEF DataWord, LANES
---------------------------------------------------------------------------
\* One clock edge, by the state of the transmitter.

Edge(in) == tx' = TxNext(in) /\ Measure(tx.d)

\* What every edge keeps.
TxKept ==
    /\ tx' \in Registers
    /\ tx'.fsm \in {"L0_FIN", "L4_FIN"} => tx'.tkeep_i # 0

GapInvKept ==
    /\ TxKept
    /\ gap' \in 0 .. LONG
    /\ owed' \in Nat /\ owed' <= 3
    /\ DicTrue'

LEMMA TxRegisters ==
  ASSUME tx \in Registers
  PROVE  /\ tx.fsm \in FSM /\ tx.d \in Words(LANES, Character) /\ tx.dic \in 0 .. 3
         /\ tx.tdata_i \in DataWord /\ tx.tkeep_i \in 0 .. LANES /\ tx.aux_dw \in Words(4, Plain)
         /\ tx.crc_32 \in CrcValue /\ tx.crcs \in [1 .. 7 -> CrcValue]
         /\ tx.fcs \in Words(4, Plain) /\ tx.lane \in 0 .. 7 /\ tx.TREADY \in BOOLEAN
  BY DEF Registers

LEMMA BeatFields ==
  ASSUME NEW in \in Beat
  PROVE  /\ in.data \in DataWord /\ in.keep \in 0 .. LANES
         /\ in.last \in BOOLEAN /\ in.user \in BOOLEAN /\ in.valid \in BOOLEAN
         /\ in.last => in.keep # 0
  BY DEF Beat

\* The beat that starts a frame, and the one the CRC takes in next.
LEMMA CrcOfBeat ==
  ASSUME NEW in \in Beat, NEW crc \in CrcValue
  PROVE  /\ Crc(crc, in.data) \in CrcValue
         /\ [n \in 1 .. 7 |-> Crc(crc, First(in.data, n))] \in [1 .. 7 -> CrcValue]
<1>1. in.data \in Words(8, Plain)
  BY BeatFields DEF DataWord, LANES
<1>2. Crc(crc, in.data) \in CrcValue
  BY <1>1, CrcIsValue
<1>3. ASSUME NEW n \in 1 .. 7
      PROVE  Crc(crc, First(in.data, n)) \in CrcValue
  <2>1. First(in.data, n) \in Words(n, Plain)
    BY <1>1, Cut
  <2> QED BY <2>1, CrcIsValue
<1> QED BY <1>2, <1>3

\* Between two frames: the next one starts in lane 0.
LEMMA IdleEdge ==
  ASSUME GapInv, tx.fsm \in {"SRES", "IDLE_L0"}, NEW in \in Beat, Edge(in)
  PROVE  GapInvKept
<1>1. tx \in Registers /\ gap \in 0 .. LONG /\ owed \in Nat /\ owed <= 3
  BY DEF GapInv, TypeOK, GapKept
<1>2. tx.d = QW_IDLE /\ Covered(gap + LANES)
  BY DEF GapInv, DicTrue
<1>3. /\ owed' = owed /\ gap' \in 0 .. LONG
      /\ gap' = IF gap + LANES > LONG THEN LONG ELSE gap + LANES
  BY <1>1, <1>2, IdleWord, MeasureData DEF Edge
<1>4. QW_IDLE \in Words(LANES, Character) /\ PREAMBLE_LANE0 \in Words(LANES, Character)
  BY <1>1, <1>2, TxRegisters, PreambleWords DEF StartWord
<1>5. CASE tx.fsm = "SRES"
  <2>1. tx' = [tx EXCEPT !.dic = 0, !.TREADY = TRUE, !.fsm = "IDLE_L0"]
    BY <1>5 DEF Edge, TxNext
  <2>2. tx' \in Registers /\ tx'.fsm = "IDLE_L0" /\ tx'.d = QW_IDLE /\ tx'.dic = 0
    <3>1. 0 \in 0 .. 3 /\ "IDLE_L0" \in FSM
      BY DEF FSM
    <3>2. tx' \in Registers
      BY <1>1, <2>1, <3>1 DEF Registers
    <3>3. tx'.fsm = "IDLE_L0" /\ tx'.d = tx.d /\ tx'.dic = 0
      BY <1>1, <2>1 DEF Registers
    <3> QED BY <1>2, <3>2, <3>3
  <2>3. owed' + 12 <= 0 + (gap' + LANES)
    BY <1>1, <1>3, <2>2 DEF LONG, LANES
  <2> QED BY <1>1, <1>3, <2>2, <2>3 DEF GapInvKept, TxKept, DicTrue, Covered
<1>6. CASE tx.fsm = "IDLE_L0" /\ in.valid
  <2>1. tx' = Start(in, PREAMBLE_LANE0, "ST_LANE0")
    BY <1>6 DEF Edge, TxNext, TxIdle
  <2>2. /\ tx' \in Registers
        /\ tx'.fsm = "ST_LANE0" /\ tx'.d = PREAMBLE_LANE0 /\ tx'.dic = tx.dic
    BY <1>1, <1>4, <2>1, BeatFields, CrcOfBeat, CrcPreset DEF Start, Latch, Registers, FSM
  <2>3. owed' + 12 <= tx.dic + gap'
    BY <1>1, <1>2, <1>3, TxRegisters DEF Covered, LONG, LANES
  <2> QED BY <1>1, <1>3, <2>2, <2>3 DEF GapInvKept, TxKept, DicTrue, Covered
<1>7. CASE tx.fsm = "IDLE_L0" /\ ~in.valid
  <2>1. PICK less \in 0 .. 3 : tx' = [Latch(in) EXCEPT !.d = QW_IDLE, !.dic = less]
    <3>1. tx' = [Latch(in) EXCEPT !.d = QW_IDLE, !.dic = IF @ = 0 THEN 0 ELSE @ - 1]
      BY <1>7 DEF Edge, TxNext, TxIdle
    <3>2. Latch(in).dic = tx.dic
      BY <1>1 DEF Latch, Registers
    <3>3. (IF tx.dic = 0 THEN 0 ELSE tx.dic - 1) \in 0 .. 3
      BY <1>1, TxRegisters
    <3>4. Latch(in) = [Latch(in) EXCEPT !.dic = Latch(in).dic]
      BY <1>1 DEF Latch, Registers
    <3>5. tx' = [Latch(in) EXCEPT !.d = QW_IDLE, !.dic = IF tx.dic = 0 THEN 0 ELSE tx.dic - 1]
      BY <1>1, <3>1, <3>2 DEF Latch, Registers
    <3> QED BY <3>3, <3>5
  <2>2. /\ tx' \in Registers
        /\ tx'.fsm = "IDLE_L0" /\ tx'.d = QW_IDLE /\ tx'.dic \in Nat
    <3>1. tx' \in Registers
      BY <1>1, <1>4, <2>1, BeatFields DEF Latch, Registers
    <3>2. tx'.fsm = "IDLE_L0" /\ tx'.d = QW_IDLE /\ tx'.dic = less
      BY <1>1, <1>7, <2>1 DEF Latch, Registers
    <3> QED BY <3>1, <3>2
  <2>3. owed' + 12 <= tx'.dic + (gap' + LANES)
    BY <1>1, <1>3, <2>2 DEF LONG, LANES
  <2> QED BY <1>1, <1>3, <2>2, <2>3 DEF GapInvKept, TxKept, DicTrue, Covered
<1> QED BY <1>5, <1>6, <1>7

\* Four lanes later: the next one starts in lane 4.
LEMMA HalfIdleEdge ==
  ASSUME GapInv, tx.fsm = "DW_IDLE", NEW in \in Beat, Edge(in)
  PROVE  GapInvKept
<1>1. tx \in Registers /\ gap \in 0 .. LONG /\ owed \in Nat /\ owed <= 3
  BY DEF GapInv, TypeOK, GapKept
<1>2. /\ owed' = owed /\ gap' \in 4 .. LONG
      /\ owed + 12 <= tx.dic + gap' + 4
  <2>1. CASE tx.d = QW_IDLE /\ Covered(gap + LANES + 4)
    BY <1>1, <2>1, IdleWord, MeasureData, TxRegisters DEF Edge, Covered, LONG, LANES
  <2>2. ASSUME NEW n \in 0 .. 3, EndWord(tx.d, n), Covered(LANES - n + 4)
        PROVE  /\ owed' = owed /\ gap' \in 4 .. LONG
               /\ owed + 12 <= tx.dic + gap' + 4
    <3>1. gap' = LANES - n /\ owed' = owed
      BY <2>2, MeasureEnd DEF Edge
    <3> QED BY <1>1, <2>2, <3>1, TxRegisters DEF Covered, LONG, LANES
  <2>3. \/ tx.d = QW_IDLE /\ Covered(gap + LANES + 4)
        \/ \E n \in 0 .. 3 : EndWord(tx.d, n) /\ Covered(LANES - n + 4)
    BY DEF GapInv, DicTrue
  <2> QED BY <2>1, <2>2, <2>3
<1>3. QW_IDLE \in Words(LANES, Character) /\ PREAMBLE_LANE4 \in Words(LANES, Character)
  BY IdleWord, PlainWord, PreambleWords DEF StartWord, DataWord, LANES
<1>4. CASE in.valid
  <2>1. tx' = Start(in, PREAMBLE_LANE4, "ST_LANE4")
    BY <1>4 DEF Edge, TxNext, TxHalfIdle
  <2>2. /\ tx' \in Registers
        /\ tx'.fsm = "ST_LANE4" /\ tx'.d = PREAMBLE_LANE4 /\ tx'.dic = tx.dic
    BY <1>1, <1>3, <2>1, BeatFields, CrcOfBeat, CrcPreset DEF Start, Latch, Registers, FSM
  <2>3. owed' + 12 <= tx.dic + (gap' + 4)
    BY <1>1, <1>2, TxRegisters DEF LONG
  <2> QED BY <1>1, <1>2, <2>2, <2>3 DEF GapInvKept, TxKept, DicTrue, Covered, LONG
<1>5. CASE ~in.valid
  <2>1. tx' = [Latch(in) EXCEPT !.d = QW_IDLE, !.fsm = "IDLE_L0"]
    BY <1>5 DEF Edge, TxNext, TxHalfIdle
  <2>2. /\ tx' \in Registers
        /\ tx'.fsm = "IDLE_L0" /\ tx'.d = QW_IDLE /\ tx'.dic = tx.dic
    BY <1>1, <1>3, <2>1, BeatFields DEF Latch, Registers, FSM
  <2>3. owed' + 12 <= tx.dic + (gap' + LANES)
    BY <1>1, <1>2, TxRegisters DEF LONG, LANES
  <2> QED BY <1>1, <1>2, <2>2, <2>3 DEF GapInvKept, TxKept, DicTrue, Covered, LONG
<1> QED BY <1>4, <1>5, BeatFields

\* The word after the terminate or the error character, kept idle.
LEMMA WordIdleEdge ==
  ASSUME GapInv, tx.fsm = "QW_IDLE", NEW in \in Beat, Edge(in)
  PROVE  GapInvKept
<1>1. tx \in Registers /\ gap \in 0 .. LONG /\ owed \in Nat /\ owed <= 3
  BY DEF GapInv, TypeOK, GapKept
<1>2. owed' = owed /\ gap' \in 0 .. LONG /\ owed + 12 <= tx.dic + gap' + LANES
  <2>1. CASE ErrorWord(tx.d) /\ owed <= tx.dic
    <3>1. gap' = 4 /\ owed' = owed
      BY <2>1, MeasureError DEF Edge, FORGIVEN, LANES
    <3> QED BY <1>1, <2>1, <3>1, TxRegisters DEF LONG, LANES
  <2>2. ASSUME NEW n \in 0 .. 4, EndWord(tx.d, n), Covered(2 * LANES - n)
        PROVE  /\ owed' = owed /\ gap' \in 0 .. LONG
               /\ owed + 12 <= tx.dic + gap' + LANES
    <3>1. gap' = LANES - n /\ owed' = owed
      BY <2>2, MeasureEnd DEF Edge
    <3> QED BY <1>1, <2>2, <3>1, TxRegisters DEF Covered, LONG, LANES
  <2>3. \/ ErrorWord(tx.d) /\ owed <= tx.dic
        \/ \E n \in 0 .. 4 : EndWord(tx.d, n) /\ Covered(2 * LANES - n)
    BY DEF GapInv, DicTrue
  <2> QED BY <2>1, <2>2, <2>3
<1>3. QW_IDLE \in Words(LANES, Character)
  BY IdleWord, PlainWord DEF DataWord, LANES
<1>4. tx' = [tx EXCEPT !.d = QW_IDLE, !.TREADY = TRUE, !.fsm = "IDLE_L0"]
  BY DEF Edge, TxNext, TxQwIdle
<1>5. /\ tx' \in Registers
      /\ tx'.fsm = "IDLE_L0" /\ tx'.d = QW_IDLE /\ tx'.dic = tx.dic
  BY <1>1, <1>3, <1>4 DEF Registers, FSM
<1>6. owed' + 12 <= tx.dic + (gap' + LANES)
  BY <1>1, <1>2, TxRegisters DEF LONG, LANES
<1> QED BY <1>1, <1>2, <1>5, <1>6 DEF GapInvKept, TxKept, DicTrue, Covered, LONG
\* Once the start character is measured, what is owed is what the deficit
\* idle count says, until the frame has ended.
LEMMA InFrame ==
  ASSUME GapInv, Measure(tx.d),
         tx.fsm \in {"ST_LANE0", "ST_LANE4", "ST_LANE4_D", "L0_FIN", "L4_FIN"}
  PROVE  owed' \in Nat /\ owed' <= tx.dic /\ gap' \in 0 .. LONG
<1>1. tx \in Registers /\ gap \in 0 .. LONG /\ owed \in Nat /\ owed <= 3 /\ tx.dic \in 0 .. 3
  BY TxRegisters DEF GapInv, TypeOK, GapKept
<1>2. CASE tx.d = PREAMBLE_LANE0 /\ Covered(gap)
  <2>1. gap' = 0 /\ owed' = IF owed + 12 > gap + 0 THEN owed + 12 - (gap + 0) ELSE 0
    BY <1>1, <1>2, PreambleWords, MeasureStart
  <2> QED BY <1>1, <1>2, <2>1 DEF Covered, LONG
<1>3. CASE tx.d = PREAMBLE_LANE4 /\ Covered(gap + 4)
  <2>1. gap' = 0 /\ owed' = IF owed + 12 > gap + 4 THEN owed + 12 - (gap + 4) ELSE 0
    BY <1>1, <1>3, PreambleWords, MeasureStart
  <2> QED BY <1>1, <1>3, <2>1 DEF Covered, LONG
<1>4. CASE tx.d \in DataWord /\ owed <= tx.dic
  BY <1>1, <1>4, MeasureData
<1>5. \/ tx.d = PREAMBLE_LANE0 /\ Covered(gap)
      \/ tx.d = PREAMBLE_LANE4 /\ Covered(gap + 4)
      \/ tx.d \in DataWord /\ owed <= tx.dic
  BY DEF GapInv, DicTrue
<1> QED BY <1>2, <1>3, <1>4, <1>5

\* A beat inside a frame: the beat before goes out, or the abort does.
BodyKept(r, in, final) ==
    /\ r \in Registers /\ r.dic = tx.dic /\ r.tkeep_i = in.keep
    /\ in.user => r.fsm = "QW_IDLE" /\ ErrorWord(r.d)
    /\ ~in.user => r.d \in DataWord /\ r.fsm = IF in.last THEN final ELSE tx.fsm

LEMMA BodyRegisters ==
  ASSUME tx \in Registers, NEW in \in Beat,
         NEW word \in DataWord, NEW aborted, ErrorWord(aborted),
         NEW final \in {"L0_FIN", "L4_FIN"}
  PROVE  BodyKept(Body(in, word, aborted, final), in, final)
<1> DEFINE r == Body(in, word, aborted, final)
<1>1. PICK d, fsm :
        /\ in.user => d = aborted /\ fsm = "QW_IDLE"
        /\ ~in.user => d = word /\ fsm = IF in.last THEN final ELSE tx.fsm
        /\ d = IF in.user THEN aborted ELSE word
        /\ fsm = IF in.user THEN "QW_IDLE" ELSE IF in.last THEN final ELSE tx.fsm
  BY Zenon
<1>2. PICK crc, crcs :
        /\ crc = Crc(tx.crc_32, in.data)
        /\ crcs = [n \in 1 .. 7 |-> Crc(tx.crc_32, First(in.data, n))]
        /\ crc \in CrcValue /\ crcs \in [1 .. 7 -> CrcValue]
  BY TxRegisters, CrcOfBeat
<1>3. PICK ready \in BOOLEAN : ready = (~in.user /\ ~in.last)
  OBVIOUS
<1>4. r = [tx EXCEPT !.tdata_i = in.data, !.tkeep_i = in.keep, !.TREADY = ready,
                     !.d = d, !.crc_32 = crc, !.crcs = crcs, !.fsm = fsm]
  BY <1>1, <1>2, <1>3 DEF r, Body, Latch, Registers
<1> HIDE DEF r
<1>5. d \in Words(LANES, Character) /\ fsm \in FSM
  BY <1>1, PlainWord, TxRegisters DEF ErrorWord, DataWord, LANES, FSM
<1>6. r \in Registers
  BY <1>2, <1>3, <1>4, <1>5, BeatFields DEF Registers
<1>7. r.dic = tx.dic /\ r.tkeep_i = in.keep /\ r.d = d /\ r.fsm = fsm
  BY <1>4 DEF Registers
<1>8. BodyKept(r, in, final)
  BY <1>1, <1>6, <1>7 DEF BodyKept
<1> QED BY <1>8 DEF r

LEMMA BodyEdge ==
  ASSUME GapInv, tx.fsm \in {"ST_LANE0", "ST_LANE4_D"}, NEW in \in Beat, Edge(in)
  PROVE  GapInvKept
<1>1. tx \in Registers /\ tx.dic \in 0 .. 3 /\ tx.tdata_i \in DataWord /\ tx.aux_dw \in Words(4, Plain)
  BY TxRegisters DEF GapInv, TypeOK
<1>2. owed' \in Nat /\ owed' <= tx.dic /\ gap' \in 0 .. LONG
  BY InFrame DEF Edge
<1>3. /\ tx' \in Registers /\ tx'.dic = tx.dic /\ tx'.tkeep_i = in.keep
      /\ in.user => tx'.fsm = "QW_IDLE" /\ ErrorWord(tx'.d)
      /\ ~in.user /\ in.last => tx'.d \in DataWord /\ tx'.fsm \in {"L0_FIN", "L4_FIN"}
      /\ ~in.user /\ ~in.last => tx'.d \in DataWord /\ tx'.fsm \in {"ST_LANE0", "ST_LANE4_D"}
  <2>1. CASE tx.fsm = "ST_LANE0"
    <3>1. tx' = Body(in, tx.tdata_i, [tx.tdata_i EXCEPT ![1] = E, ![8] = T], "L0_FIN")
      BY <2>1 DEF Edge, TxNext, TxLane0
    <3>2. ErrorWord([tx.tdata_i EXCEPT ![1] = E, ![8] = T])
      BY <1>1, AbortedWords
    <3>3. "L0_FIN" \in {"L0_FIN", "L4_FIN"}
      OBVIOUS
    <3>4. BodyKept(tx', in, "L0_FIN")
      BY <1>1, <3>1, <3>2, <3>3, BodyRegisters, Zenon
    <3> QED BY <2>1, <3>4 DEF BodyKept
  <2>2. CASE tx.fsm = "ST_LANE4_D"
    <3>1. PICK word, r :
            /\ word = tx.aux_dw \o Low(tx.tdata_i)
            /\ r = Body(in, word, [word EXCEPT ![5] = E], "L4_FIN")
            /\ tx' = [r EXCEPT !.aux_dw = High(tx.tdata_i)]
      BY <2>2 DEF Edge, TxNext, TxLane4
    <3>2. Low(tx.tdata_i) \in Words(4, Plain) /\ High(tx.tdata_i) \in Words(4, Plain)
      BY <1>1, Halves
    <3>3. word \in DataWord
      <4>1. word \in Words(4 + 4, Plain)
        BY <1>1, <3>1, <3>2, DataJoined
      <4> QED BY <4>1 DEF DataWord, LANES
    <3>4. ErrorWord([word EXCEPT ![5] = E])
      BY <3>3, AbortedWords
    <3>5. BodyKept(r, in, "L4_FIN")
      <4>1. "L4_FIN" \in {"L0_FIN", "L4_FIN"}
        OBVIOUS
      <4> QED BY <1>1, <3>1, <3>3, <3>4, <4>1, BodyRegisters, Zenon
    <3>6. /\ tx' \in Registers /\ tx'.dic = r.dic /\ tx'.tkeep_i = r.tkeep_i
          /\ tx'.fsm = r.fsm /\ tx'.d = r.d
      BY <3>1, <3>2, <3>5 DEF Registers, BodyKept
    <3> QED BY <2>2, <3>5, <3>6 DEF BodyKept
  <2> QED BY <2>1, <2>2
<1>4. in.user \in BOOLEAN /\ in.last \in BOOLEAN /\ (in.last => in.keep # 0)
  BY BeatFields
<1>5. TxKept
  BY <1>3, <1>4 DEF TxKept
<1>6. owed' <= 3 /\ owed' <= tx'.dic
  BY <1>1, <1>2, <1>3
<1>7. DicTrue'
  BY <1>3, <1>4, <1>6 DEF DicTrue
<1> QED BY <1>2, <1>5, <1>6, <1>7 DEF GapInvKept

\* A frame that started in lane 4: its preamble ends in the next word.
LEMMA HalfStartEdge ==
  ASSUME GapInv, tx.fsm = "ST_LANE4", NEW in \in Beat, Edge(in)
  PROVE  GapInvKept
<1>1. tx \in Registers /\ tx.dic \in 0 .. 3 /\ tx.tdata_i \in DataWord
  BY TxRegisters DEF GapInv, TypeOK
<1>2. owed' \in Nat /\ owed' <= tx.dic /\ gap' \in 0 .. LONG
  BY InFrame DEF Edge
<1>3. PICK word, aborted :
        /\ word = PREAMBLE_LANE4_END \o Low(tx.tdata_i)
        /\ aborted = [word EXCEPT ![1] = E, ![8] = T]
        /\ tx' = [Latch(in) EXCEPT
                    !.aux_dw = High(tx.tdata_i),
                    !.crc_32 = Crc(tx.crc_32, in.data),
                    !.d      = IF in.user THEN aborted ELSE word,
                    !.TREADY = IF in.user THEN FALSE ELSE @,
                    !.fsm    = IF in.user THEN "QW_IDLE" ELSE "ST_LANE4_D"]
  BY DEF Edge, TxNext, TxLane4Start
<1>4. Low(tx.tdata_i) \in Words(4, Plain) /\ High(tx.tdata_i) \in Words(4, Plain)
  BY <1>1, Halves
<1>5. word \in DataWord
  <2>1. PREAMBLE_LANE4_END \in Words(4, Plain)
    BY LanesIsWord, Characters DEF PREAMBLE_LANE4_END
  <2>2. word \in Words(4 + 4, Plain)
    BY <1>3, <1>4, <2>1, DataJoined
  <2> QED BY <2>2 DEF DataWord, LANES
<1>6. ErrorWord(aborted)
  BY <1>3, <1>5, AbortedWords
<1>7. word \in Words(LANES, Character) /\ aborted \in Words(LANES, Character)
  BY <1>5, <1>6, PlainWord DEF DataWord, LANES, ErrorWord
<1>8. Crc(tx.crc_32, in.data) \in CrcValue
  BY <1>1, TxRegisters, CrcOfBeat
<1>9. CASE in.user
  <2>1. tx' = [Latch(in) EXCEPT
                 !.aux_dw = High(tx.tdata_i), !.crc_32 = Crc(tx.crc_32, in.data),
                 !.d = aborted, !.TREADY = FALSE, !.fsm = "QW_IDLE"]
    BY <1>3, <1>9
  <2>2. tx' \in Registers /\ tx'.fsm = "QW_IDLE" /\ tx'.d = aborted /\ tx'.dic = tx.dic
    BY <1>1, <1>4, <1>7, <1>8, <2>1, BeatFields DEF Latch, Registers, FSM
  <2>3. owed' <= tx'.dic /\ owed' <= 3
    BY <1>1, <1>2, <2>2
  <2> QED BY <1>1, <1>2, <1>6, <2>2, <2>3 DEF GapInvKept, TxKept, DicTrue
<1>10. CASE ~in.user
  <2>1. PICK ready \in BOOLEAN :
          tx' = [Latch(in) EXCEPT
                   !.aux_dw = High(tx.tdata_i), !.crc_32 = Crc(tx.crc_32, in.data),
                   !.d = word, !.TREADY = ready, !.fsm = "ST_LANE4_D"]
    <3>1. Latch(in).TREADY \in BOOLEAN
      BY <1>1 DEF Latch, Registers
    <3> QED BY <1>1, <1>3, <1>10, <3>1 DEF Latch, Registers
  <2>2. tx' \in Registers /\ tx'.fsm = "ST_LANE4_D" /\ tx'.d = word /\ tx'.dic = tx.dic
    BY <1>1, <1>4, <1>7, <1>8, <2>1, BeatFields DEF Latch, Registers, FSM
  <2>3. owed' <= tx'.dic /\ owed' <= 3
    BY <1>1, <1>2, <2>2
  <2> QED BY <1>2, <1>5, <2>2, <2>3 DEF GapInvKept, TxKept, DicTrue
<1> QED BY <1>9, <1>10, BeatFields
\* The last beat, in lane 0: the FCS behind it, and terminate when it fits.
LEMMA FinalEdge ==
  ASSUME GapInv, tx.fsm = "L0_FIN", NEW in \in Beat, Edge(in)
  PROVE  GapInvKept
<1>1. /\ tx \in Registers /\ tx.dic \in 0 .. 3 /\ tx.tdata_i \in DataWord
      /\ tx.tkeep_i \in 1 .. LANES
  BY TxRegisters DEF GapInv, TypeOK, LANES
<1>2. owed' \in Nat /\ owed' <= tx.dic /\ gap' \in 0 .. LONG
  BY InFrame DEF Edge
<1>30. PICK n \in 1 .. LANES : n = tx.tkeep_i
  BY <1>1
<1>3. PICK rest, word :
        /\ rest = First(tx.tdata_i, n) \o TxFcs(n)
        /\ word = First(rest \o <<T>> \o QW_IDLE, LANES)
        /\ tx' = [tx EXCEPT !.d = word, !.fcs = TxFcs(n), !.lane = (n + 4) % 8, !.fsm = "T_LANE"]
  BY <1>30 DEF Edge, TxNext, TxFin0
<1>4. TxFcs(n) \in Words(4, Plain)
  BY <1>1, TxFcsIsWord
<1>5. rest \in Words(n + 4, Plain)
  <2>1. First(tx.tdata_i, n) \in Words(n, Plain)
    BY <1>1, Cut DEF DataWord, LANES
  <2> QED BY <1>3, <1>4, <2>1, DataJoined
<1>6. /\ n + 4 < LANES => EndWord(word, n + 4)
      /\ n + 4 >= LANES => word \in DataWord
  <2>1. n + 4 \in Nat
    OBVIOUS
  <2> QED BY <1>3, <1>5, <2>1, Closing
<1>7. /\ n + 4 < LANES => (n + 4) % 8 = n + 4
      /\ n + 4 >= LANES => (n + 4) % 8 = n - 4
      /\ (n + 4) % 8 \in 0 .. 7
  BY DEF LANES
<1>8. word \in Words(LANES, Character)
  BY <1>6, PlainWord DEF EndWord, DataWord, LANES
<1>9. PICK lane \in 0 .. 7 : lane = (n + 4) % 8
  BY <1>7
<1>10. /\ tx' \in Registers /\ tx'.fsm = "T_LANE" /\ tx'.d = word
       /\ tx'.lane = lane /\ tx'.dic = tx.dic
  <2>1. tx' = [tx EXCEPT !.d = word, !.fcs = TxFcs(n), !.lane = lane, !.fsm = "T_LANE"]
    BY <1>3, <1>9
  <2> QED BY <1>1, <1>4, <1>8, <2>1 DEF Registers, FSM
<1>11. owed' <= tx'.dic /\ owed' <= 3
  BY <1>1, <1>2, <1>10
<1>12. \/ lane <= 4 /\ word \in DataWord
       \/ lane > 4 /\ EndWord(word, lane)
  <2>1. CASE n + 4 < LANES
    BY <1>6, <1>7, <1>9, <2>1
  <2>2. CASE n + 4 >= LANES
    BY <1>6, <1>7, <1>9, <2>2 DEF LANES
  <2> QED BY <2>1, <2>2 DEF LANES
<1> QED BY <1>2, <1>10, <1>11, <1>12 DEF GapInvKept, TxKept, DicTrue

\* The last beat behind a half word: a word of data either way.
LEMMA HalfFinalEdge ==
  ASSUME GapInv, tx.fsm = "L4_FIN", NEW in \in Beat, Edge(in)
  PROVE  GapInvKept
<1>1. /\ tx \in Registers /\ tx.dic \in 0 .. 3 /\ tx.tdata_i \in DataWord
      /\ tx.tkeep_i \in 1 .. LANES /\ tx.aux_dw \in Words(4, Plain)
  BY TxRegisters DEF GapInv, TypeOK, LANES
<1>2. owed' \in Nat /\ owed' <= tx.dic /\ gap' \in 0 .. LONG
  BY InFrame DEF Edge
<1>3. PICK n \in 1 .. LANES : n = tx.tkeep_i
  BY <1>1
<1> DEFINE rest == tx.aux_dw \o First(tx.tdata_i, n)
<1>4. rest \in Words(4 + n, Plain)
  <2>1. First(tx.tdata_i, n) \in Words(n, Plain)
    BY <1>1, Cut DEF DataWord, LANES
  <2> QED BY <1>1, <2>1, DataJoined
<1>5. CASE n > 4
  <2> DEFINE word == First(rest, LANES)
             more == High(tx.tdata_i) \o High(tx.tdata_i)
             crcs == [i \in 1 .. 7 |->
                        IF n = LANES THEN IF i = 4 THEN tx.crc_32 ELSE tx.crcs[i]
                        ELSE IF i < 4 THEN tx.crcs[i + 4] ELSE tx.crcs[i]]
  <2>1. tx' = [tx EXCEPT !.d = word, !.tdata_i = more, !.tkeep_i = n - 4,
                         !.crcs = crcs, !.fsm = "L0_FIN"]
    <3>1. tx' = TxFin4
      BY DEF Edge, TxNext
    <3>2. tx.tkeep_i > 4
      BY <1>3, <1>5
    <3> QED BY <1>3, <3>1, <3>2, Zenon DEF TxFin4
  <2>2. word \in DataWord
    <3>1. LANES \in 0 .. 4 + n /\ 4 + n \in Nat
      BY <1>5 DEF LANES
    <3> HIDE DEF rest
    <3> QED BY <1>4, <3>1, Cut DEF DataWord
  <2>3. more \in DataWord
    <3>1. High(tx.tdata_i) \in Words(4, Plain)
      BY <1>1, Halves
    <3>2. more \in Words(4 + 4, Plain)
      BY <3>1, DataJoined
    <3> HIDE DEF more
    <3> QED BY <3>2 DEF DataWord, LANES
  <2>4. crcs \in [1 .. 7 -> CrcValue]
    <3>1. tx.crc_32 \in CrcValue /\ \A i \in 1 .. 7 : tx.crcs[i] \in CrcValue
      BY <1>1, TxRegisters
    <3> QED BY <3>1
  <2> HIDE DEF word, more, crcs
  <2>5. /\ tx' \in Registers /\ tx'.fsm = "L0_FIN" /\ tx'.d = word
        /\ tx'.tkeep_i = n - 4 /\ tx'.dic = tx.dic
    <3>1. word \in Words(LANES, Character)
      BY <2>2, PlainWord DEF DataWord, LANES
    <3>2. n - 4 \in 0 .. LANES
      BY <1>5 DEF LANES
    <3> QED BY <1>1, <2>1, <2>3, <2>4, <3>1, <3>2 DEF Registers, FSM
  <2>6. owed' <= tx'.dic /\ owed' <= 3 /\ tx'.tkeep_i # 0
    BY <1>1, <1>2, <1>5, <2>5
  <2> QED BY <1>2, <2>2, <2>5, <2>6 DEF GapInvKept, TxKept, DicTrue
<1>6. CASE n <= 4
  <2> DEFINE word == First(rest \o TxFcs(n), LANES)
  <2>1. tx' = [tx EXCEPT !.d = word, !.fcs = TxFcs(n), !.lane = n, !.fsm = "T_LANE"]
    <3>1. tx' = TxFin4
      BY DEF Edge, TxNext
    <3>2. ~(tx.tkeep_i > 4)
      BY <1>3, <1>6
    <3> QED BY <1>3, <3>1, <3>2, Zenon DEF TxFin4
  <2>2. TxFcs(n) \in Words(4, Plain)
    BY <1>1, TxFcsIsWord
  <2>3. word \in DataWord
    <3>1. 4 + n \in Nat /\ 4 + n + 4 >= LANES
      BY DEF LANES
    <3> HIDE DEF rest
    <3> QED BY <1>4, <2>2, <3>1, DataJoined
  <2>4. /\ tx' \in Registers /\ tx'.fsm = "T_LANE" /\ tx'.d = word
        /\ tx'.lane = n /\ tx'.dic = tx.dic
    <3>1. word \in Words(LANES, Character)
      BY <2>3, PlainWord DEF DataWord, LANES
    <3>2. n \in 0 .. 7
      BY <1>6
    <3> QED BY <1>1, <2>1, <2>2, <3>1, <3>2 DEF Registers, FSM
  <2>5. owed' <= tx'.dic /\ owed' <= 3
    BY <1>1, <1>2, <2>4
  <2> QED BY <1>2, <1>6, <2>3, <2>4, <2>5 DEF GapInvKept, TxKept, DicTrue
<1> QED BY <1>5, <1>6

\* The lane of the terminate and the deficit decide where the next frame may
\* start and what is owed then.
LEMMA TerminateEdge ==
  ASSUME GapInv, tx.fsm = "T_LANE", NEW in \in Beat, Edge(in)
  PROVE  GapInvKept
<1>1. /\ tx \in Registers /\ tx.dic \in 0 .. 3 /\ tx.fcs \in Words(4, Plain)
      /\ gap \in 0 .. LONG /\ owed \in Nat /\ owed <= 3
  BY TxRegisters DEF GapInv, TypeOK, GapKept
<1>2. PICK n \in 0 .. 7 : n = tx.lane
  BY <1>1, TxRegisters
<1>3. PICK dic \in 0 .. 3 :
        /\ dic = Dic(n)
        /\ DeficitFits(n) => dic = tx.dic + (n % 4)
        /\ ~DeficitFits(n) => dic + 4 = tx.dic + (n % 4)
  <2>1. n % 4 \in 0 .. 3
    OBVIOUS
  <2> QED BY <1>1, <2>1 DEF Dic, DeficitFits
<1>4. /\ n < 4 => n % 4 = n
      /\ n = 4 => n % 4 = 0
      /\ n > 4 => n % 4 = n - 4
  OBVIOUS
<1>5. n = 4 => DeficitFits(n)
  BY <1>1, <1>4 DEF DeficitFits
<1>6. ASSUME NEW ready \in BOOLEAN, NEW word \in Words(LANES, Character), NEW to \in FSM,
             tx' = [tx EXCEPT !.d = word, !.dic = dic, !.TREADY = ready, !.fsm = to]
      PROVE  tx' \in Registers /\ tx'.d = word /\ tx'.dic = dic /\ tx'.fsm = to
  BY <1>1, <1>6 DEF Registers
<1>7. tx' = TxTerminate /\ tx.TREADY \in BOOLEAN
  BY <1>1, TxRegisters DEF Edge, TxNext
<1>8. QW_IDLE \in Words(LANES, Character)
  BY IdleWord, PlainWord DEF DataWord, LANES
<1> DEFINE to == CASE n < 4 -> IF DeficitFits(n) THEN "DW_IDLE" ELSE "QW_IDLE"
                   [] n = 4 -> "QW_IDLE"
                   [] n > 4 -> IF DeficitFits(n) THEN "IDLE_L0" ELSE "DW_IDLE"
           final == First(SubSeq(tx.fcs, 5 - n, 4) \o <<T>> \o QW_IDLE, LANES)
<1>9. tx' = [tx EXCEPT !.d = IF n > 4 THEN QW_IDLE ELSE final, !.dic = Dic(n),
                       !.TREADY = IF to = "QW_IDLE" THEN tx.TREADY ELSE TRUE, !.fsm = to]
  BY <1>2, <1>7, Zenon DEF TxTerminate
<1>10. /\ n < 4 /\ DeficitFits(n) => to = "DW_IDLE"
       /\ n < 4 /\ ~DeficitFits(n) => to = "QW_IDLE"
       /\ n = 4 => to = "QW_IDLE"
       /\ n > 4 /\ DeficitFits(n) => to = "IDLE_L0"
       /\ n > 4 /\ ~DeficitFits(n) => to = "DW_IDLE"
  OBVIOUS
<1> HIDE DEF to, final
<1>11. CASE n <= 4
  <2>1. SubSeq(tx.fcs, 5 - n, 4) \in Words(n, Plain)
    <3>1. \A i \in 5 - n .. 4 : tx.fcs[i] \in Plain
      BY <1>1, <1>11, WordLanes
    <3> QED BY <1>11, <3>1, SubSeqProperties DEF Words
  <2>2. EndWord(final, n)
    BY <1>11, <2>1, Closing DEF LANES, final
  <2>3. final \in Words(LANES, Character)
    BY <2>2 DEF EndWord
  <2>4. tx.d \in DataWord /\ owed <= tx.dic
    BY <1>2, <1>11 DEF GapInv, DicTrue
  <2>5. owed' = owed /\ gap' \in 0 .. LONG
    BY <1>1, <2>4, MeasureData DEF Edge
  <2>6. CASE n < 4 /\ DeficitFits(n)
    <3>1. tx' = [tx EXCEPT !.d = final, !.dic = dic, !.TREADY = TRUE, !.fsm = "DW_IDLE"]
      <4>1. ~(n > 4) /\ to = "DW_IDLE"
        BY <1>10, <2>6
      <4> QED BY <1>3, <1>9, <4>1
    <3>2. tx' \in Registers /\ tx'.d = final /\ tx'.dic = dic /\ tx'.fsm = "DW_IDLE"
      BY <1>6, <2>3, <3>1 DEF FSM
    <3>3. owed' + 12 <= tx'.dic + (LANES - n + 4)
      BY <1>1, <1>3, <1>4, <2>4, <2>5, <2>6, <3>2 DEF LANES
    <3>4. n \in 0 .. 3
      BY <2>6
    <3> QED BY <1>1, <2>2, <2>5, <3>2, <3>3, <3>4 DEF GapInvKept, TxKept, DicTrue, Covered
  <2>7. CASE n = 4 \/ ~DeficitFits(n)
    <3>1. tx' = [tx EXCEPT !.d = final, !.dic = dic, !.TREADY = tx.TREADY, !.fsm = "QW_IDLE"]
      <4>1. ~(n > 4) /\ to = "QW_IDLE"
        BY <1>10, <1>11, <2>7
      <4> QED BY <1>3, <1>9, <4>1
    <3>2. tx' \in Registers /\ tx'.d = final /\ tx'.dic = dic /\ tx'.fsm = "QW_IDLE"
      BY <1>6, <1>7, <2>3, <3>1 DEF FSM
    <3>3. owed' + 12 <= tx'.dic + (2 * LANES - n)
      BY <1>1, <1>3, <1>4, <1>5, <1>11, <2>4, <2>5, <2>7, <3>2 DEF LANES
    <3>4. n \in 0 .. 4
      BY <1>11
    <3> QED BY <1>1, <2>2, <2>5, <3>2, <3>3, <3>4 DEF GapInvKept, TxKept, DicTrue, Covered
  <2> QED BY <1>11, <2>6, <2>7
<1>12. CASE n > 4
  <2>1. EndWord(tx.d, n) /\ owed <= tx.dic
    BY <1>2, <1>12 DEF GapInv, DicTrue
  <2>2. owed' = owed /\ gap' = LANES - n
    BY <2>1, MeasureEnd DEF Edge
  <2>3. CASE DeficitFits(n)
    <3>1. tx' = [tx EXCEPT !.d = QW_IDLE, !.dic = dic, !.TREADY = TRUE, !.fsm = "IDLE_L0"]
      BY <1>3, <1>9, <1>10, <1>12, <2>3
    <3>2. tx' \in Registers /\ tx'.d = QW_IDLE /\ tx'.dic = dic /\ tx'.fsm = "IDLE_L0"
      BY <1>6, <1>8, <3>1 DEF FSM
    <3>3. owed' + 12 <= tx'.dic + (gap' + LANES) /\ gap' \in 0 .. LONG
      BY <1>1, <1>3, <1>4, <1>12, <2>1, <2>2, <2>3, <3>2 DEF LANES, LONG
    <3> QED BY <1>1, <2>2, <3>2, <3>3 DEF GapInvKept, TxKept, DicTrue, Covered
  <2>4. CASE ~DeficitFits(n)
    <3>1. tx' = [tx EXCEPT !.d = QW_IDLE, !.dic = dic, !.TREADY = TRUE, !.fsm = "DW_IDLE"]
      BY <1>3, <1>9, <1>10, <1>12, <2>4
    <3>2. tx' \in Registers /\ tx'.d = QW_IDLE /\ tx'.dic = dic /\ tx'.fsm = "DW_IDLE"
      BY <1>6, <1>8, <3>1 DEF FSM
    <3>3. owed' + 12 <= tx'.dic + (gap' + LANES + 4) /\ gap' \in 0 .. LONG
      BY <1>1, <1>3, <1>4, <1>12, <2>1, <2>2, <2>4, <3>2 DEF LANES, LONG
    <3> QED BY <1>1, <2>2, <3>2, <3>3 DEF GapInvKept, TxKept, DicTrue, Covered
  <2> QED BY <2>3, <2>4
<1> QED BY <1>11, <1>12
---------------------------------------------------------------------------
\* The FIFO begins a frame.
LEMMA QueueKeeps ==
  ASSUME GapInv, NEW len \in Lengths \cup Aborted, NEW abort \in BOOLEAN, Queue(len, abort)
  PROVE  GapInv'
<1>1. len \in Nat /\ len # 0
  BY LengthAssumption DEF LANES
<1>2. id' \in Nat
  BY IdsAssumption DEF Queue, GapInv, TypeOK
<1>3. axis' \in Seq(Beat)
  <2>1. axis' = BeatsOf(IF abort THEN 0 ELSE id', len, abort)
    BY DEF Queue
  <2>2. (IF abort THEN 0 ELSE id') \in Nat
    BY <1>2
  <2> QED BY <1>1, <2>1, <2>2, FrameIsBeats
<1>4. tx' = tx /\ gap' = gap /\ owed' = owed
  BY DEF Queue
<1> QED BY <1>2, <1>3, <1>4 DEF GapInv, TypeOK, DicTrue, Covered, GapKept

LEMMA CycleKeeps ==
  ASSUME GapInv, Cycle
  PROVE  GapInv'
<1>1. PICK in \in Beat : Edge(in)
  <2>1. tx' = TxNext(IF axis = <<>> THEN NoBeat ELSE Head(axis)) /\ Measure(tx.d)
    BY DEF Cycle
  <2>2. axis \in Seq(Beat)
    BY DEF GapInv, TypeOK
  <2>3. (IF axis = <<>> THEN NoBeat ELSE Head(axis)) \in Beat
    BY <2>2, NoBeatIsBeat, HeadTailProperties
  <2> QED BY <2>1, <2>3 DEF Edge
<1>2. GapInvKept
  <2>1. tx.fsm \in FSM
    BY TxRegisters DEF GapInv, TypeOK
  <2> QED BY <1>1, <2>1, IdleEdge, HalfIdleEdge, WordIdleEdge, BodyEdge, HalfStartEdge,
             FinalEdge, HalfFinalEdge, TerminateEdge DEF FSM
<1>3. axis' \in Seq(Beat)
  <2>1. axis \in Seq(Beat) /\ (axis # <<>> => Tail(axis) \in Seq(Beat))
    BY HeadTailProperties DEF GapInv, TypeOK
  <2> QED BY <2>1 DEF Cycle
<1>4. id' \in Nat
  BY DEF Cycle, GapInv, TypeOK
<1> QED BY <1>2, <1>3, <1>4 DEF GapInvKept, TxKept, GapInv, TypeOK, GapKept

\* Reset: both adapters idle, the deficit idle count zero, nothing owed.
LEMMA GapInvInit == Init => GapInv
<1> SUFFICES ASSUME Init PROVE GapInv
  OBVIOUS
<1>1. QW_IDLE \in Words(LANES, Character) /\ Lanes(Junk, LANES) \in DataWord
  BY IdleWord, PlainWord, LanesIsWord, Characters DEF DataWord, LANES
<1>2. Lanes(Junk, 4) \in Words(4, Plain) /\ Lanes(CRC_PRESET, 7) \in [1 .. 7 -> CrcValue]
  BY LanesIsWord, Characters, CrcPreset DEF Lanes
<1>3. tx \in Registers /\ tx.fsm = "SRES" /\ tx.d = QW_IDLE /\ tx.dic = 0
  BY <1>1, <1>2, CrcPreset DEF Init, TxReset, Registers, FSM, LANES
<1>4. axis = <<>> /\ id = 0 /\ gap = 16 /\ owed = 0
  BY DEF Init, LONG
<1>5. TypeOK
  BY <1>3, <1>4 DEF TypeOK, LONG
<1>6. DicTrue
  BY <1>3, <1>4 DEF DicTrue, Covered, LANES
<1> QED BY <1>4, <1>5, <1>6 DEF GapInv, GapKept

\* The gap behind a whole frame is 12 bytes on average, whatever lanes the frames
\* end in and whenever the next one comes: what these gaps are short of is never
\* more than the deficit idle count of axis2xgmii.v allows, 3 bytes, aborted
\* frames between them or not.  The gaps behind aborted frames are not charged.
THEOREM GapNeverShort == Spec => []GapKept
<1>1. GapInv /\ [Next]_vars => GapInv'
  <2> SUFFICES ASSUME GapInv, [Next]_vars PROVE GapInv'
    OBVIOUS
  <2>1. CASE Cycle
    BY <2>1, CycleKeeps
  <2>2. ASSUME NEW len \in Lengths, Queue(len, FALSE) PROVE GapInv'
    BY <2>2, QueueKeeps
  <2>3. ASSUME NEW len \in Aborted, Queue(len, TRUE) PROVE GapInv'
    BY <2>3, QueueKeeps
  <2>4. CASE UNCHANGED vars
    BY <2>4 DEF vars, GapInv, TypeOK, DicTrue, Covered, GapKept
  <2> QED BY <2>1, <2>2, <2>3, <2>4 DEF Next
<1>2. GapInv => GapKept
  BY DEF GapInv
<1> QED BY <1>1, <1>2, GapInvInit, PTL DEF Spec
---------------------------------------------------------------------------
\* What is on the wire behind the preamble of frame k: its bytes, its FCS,
\* terminate and idle, each at its place.

Place(k, len, place) ==
    IF place < 0 THEN Preamble
    ELSE IF place < len THEN Byte(k, place)
    ELSE IF place < len + 4 THEN <<"fcs", k, len, place - len + 1>>
    ELSE IF place = len + 4 THEN T
    ELSE I

\* The word, and the half of one, that begins at a place.
Sent(k, len, at) == [i \in 1 .. LANES |-> Place(k, len, at + i - 1)]
HalfSent(k, len, at) == [i \in 1 .. 4 |-> Place(k, len, at + i - 1)]

\* The CRC register after the first n bytes of frame k.
Covers(crc, k, n) == crc = IF n = 0 THEN CRC_PRESET ELSE <<k, n>>

\* A frame still to come back; the number 0 stands for none, and for one that
\* is aborted.
Pending(k, len) == IF k = 0 THEN <<>> ELSE <<[id |-> k, len |-> len]>>
Stream(k, len) == BeatsOf(k, len, k = 0)

---------------------------------------------------------------------------
\* The receiver: what it has of the older of two frames.

\* Bytes that have left it, those on its output included.
Left == IF rx.out.valid THEN Received ELSE part
Open == ~(rx.out.valid /\ rx.out.last)

\* Bytes that are not the start of a frame to come back.
Foreign(bytes) == \A k \in Nat \ {0} : bytes[1] # Byte(k, 0)

\* What the frame comes back as.
Back(k, len, good, bytes) ==
    IF good THEN k # 0 /\ bytes = FrameBytes(k, len) ELSE k = 0 /\ Foreign(bytes)

\* Its last beat, from register to register.
LastInD0(k, len) ==
    /\ Open /\ rx.tvalid_i /\ rx.tkeep_i = LANES /\ ~rx.tlast_i /\ ~rx.tuser_i
    /\ rx.tvalid_d0 /\ rx.chk_tchar /\ rx.rcved_crc = Fcs(rx.calcted_crc)
    /\ Back(k, len, TRUE, (Left \o SubSeq(rx.tdata_i, 1, LANES)) \o SubSeq(rx.tdata_d0, 1, rx.last_tkeep_i))
LastInI(k, len) ==
    /\ Open /\ rx.tvalid_i /\ rx.tlast_i /\ ~rx.tvalid_d0
    /\ Back(k, len, rx.tuser_i, Left \o SubSeq(rx.tdata_i, 1, rx.tkeep_i))
LastOut(k, len) ==
    /\ rx.out.valid /\ rx.out.last /\ ~rx.tvalid_i /\ ~rx.tvalid_d0
    /\ Back(k, len, rx.out.user, Received)
Gone(k) == k = 0 /\ ~rx.out.valid /\ ~rx.tvalid_i /\ ~rx.tvalid_d0 /\ part = <<>>

\* The data register holds a word nothing was made of, or no start of a frame.
Stale == rx.tdata_d0 \in Words(LANES, Character) /\ Foreign(rx.tdata_d0)

RxBetween(k, len) ==
    /\ Stale
    /\ \/ rx.fsm = "SRES" /\ Gone(k)
       \/ rx.fsm = "IDLE" /\ (LastInI(k, len) \/ LastOut(k, len) \/ Gone(k))
       \/ rx.fsm \in {"FIN", "FINL4"} /\ LastInD0(k, len)

---------------------------------------------------------------------------
\* The receiver inside a frame, before the word that begins at place at.

\* The bytes before place top have gone through it, beat by beat.
Beats(k, len, top) ==
    /\ Open /\ ~rx.tlast_i /\ ~rx.tuser_i /\ rx.tkeep_i = LANES
    /\ rx.tvalid_d0 /\ rx.tdata_d0 = Sent(k, len, top - LANES)
    /\ (rx.tvalid_i <=> top > LANES)
    /\ top > LANES => rx.tdata_i = Sent(k, len, top - 2 * LANES)
    /\ Left = FrameBytes(k, IF top > LANES THEN top - 2 * LANES ELSE 0)

Checks(k, len, at) ==
    /\ rx.d_reg = Sent(k, len, at - LANES)
    /\ at <= len => rx.crc_32 = <<k, at>>
    /\ \A n \in 4 .. 7 : at - LANES + n <= len => rx.crcs[n] = <<k, at - LANES + n>>

\* (ok, olen) is the frame before.
RxInside(ok, olen, k, len, at) ==
    \/ /\ at = 0 /\ rx.fsm = "ST_LANE0" /\ rx.crc_32 = CRC_PRESET
       /\ LastOut(ok, olen) \/ Gone(ok)
    \/ /\ at = 0 - 4 /\ rx.fsm = "ST_LANE4" /\ rx.crc_32 = CRC_PRESET /\ Stale
       /\ LastInI(ok, olen) \/ LastOut(ok, olen) \/ Gone(ok)
    \/ /\ at = 4 /\ rx.fsm = "D_LANE4" /\ rx.crc_32 = <<k, 4>> /\ Stale
       /\ ~rx.tlast_i /\ ~rx.tuser_i /\ rx.aux_dw = HalfSent(k, len, 0)
       /\ LastOut(ok, olen) \/ Gone(ok)
    \/ /\ at >= 8 /\ at % 8 = 0 /\ rx.fsm = "ST_LANE0" /\ ok = 0
       /\ Beats(k, len, at) /\ Checks(k, len, at)
    \/ /\ at >= 12 /\ at % 8 = 4 /\ rx.fsm = "D_LANE4" /\ ok = 0
       /\ Beats(k, len, at - 4) /\ Checks(k, len, at) /\ rx.aux_dw = HalfSent(k, len, at - 4)

---------------------------------------------------------------------------
\* The transmitter, its first word at place at on the wire.

\* It has taken b beats of the frame, the last of them still in its registers.
Taken(k, len, b) ==
    /\ b \in 1 .. Len(Stream(k, len)) - 1
    /\ axis = SubSeq(Stream(k, len), b + 1, Len(Stream(k, len)))
    /\ tx.tdata_i = Stream(k, len)[b].data
    /\ tx.crc_32 = <<k, LANES * b>>

\* It still has the last n bytes of the frame, and the FCS.
Closes(k, len, n) ==
    /\ k # 0 /\ axis = <<>>
    /\ tx.tkeep_i = n /\ n \in 1 .. LANES
    /\ \A i \in 1 .. n : tx.tdata_i[i] = Byte(k, len - n + i - 1)
    /\ TxFcs(n) = Fcs(<<k, len>>)

TxInside(k, len, at) ==
    \/ /\ tx.fsm = "ST_LANE0" /\ at >= 0 /\ at % 8 = 0
       /\ \E b \in Nat : at = LANES * (b - 2) /\ Taken(k, len, b)
    \/ /\ tx.fsm = "ST_LANE4_D" /\ at >= 0 - 4 /\ tx.aux_dw = HalfSent(k, len, at + LANES)
       /\ \E b \in Nat : at = LANES * (b - 2) - 4 /\ Taken(k, len, b)
    \/ tx.fsm = "L4_FIN" /\ at % 8 = 4 /\ tx.aux_dw = HalfSent(k, len, at + LANES) /\ at + 12 < len /\ Closes(k, len, len - (at + 12))
    \/ tx.fsm = "L0_FIN" /\ at + 8 < len /\ Closes(k, len, len - (at + 8))
    \/ /\ tx.fsm = "T_LANE" /\ k # 0 /\ axis = <<>> /\ tx.fcs = Fcs(<<k, len>>)
       /\ \/ tx.lane <= 4 /\ len + 4 - (at + LANES) = tx.lane
          \/ tx.lane > 4 /\ len + 4 - at = tx.lane

\* The transmit FIFO has a frame for it, or none.
Queued(k, len) ==
    \/ k = 0 /\ axis = <<>>
    \/ len > 2 * LANES /\ axis = Stream(k, len)

\* The word that aborts a frame begun in lane 0 or in lane 4.
Aborts(d, at) ==
    /\ d \in Words(LANES, Character)
    /\ \/ at % 8 = 0 /\ d[1] = E /\ ~IsControl(d[2])
       \/ at % 8 = 4 /\ d[5] = E /\ ~IsControl(d[6]) /\ \A i \in 1 .. 4 : d[i] = Place(0, at + 8, at + i - 1)

READY == {"IDLE_L0", "DW_IDLE", "ST_LANE0", "ST_LANE4", "ST_LANE4_D"}

\* Where two frames are, the older (ok, olen) and the newer (k, len).
Between(ok, olen, k, len) ==
    /\ Queued(k, len) /\ (tx.fsm \in {"SRES", "QW_IDLE"} => axis = <<>>)
    /\ \/ /\ tx.fsm \in {"SRES", "IDLE_L0", "DW_IDLE"} /\ tx.d = QW_IDLE
          /\ tx.fsm = "SRES" <=> rx.fsm = "SRES"
          /\ RxBetween(ok, olen)
       \/ /\ tx.fsm \in {"DW_IDLE", "QW_IDLE"} /\ ok # 0 /\ olen > 2 * LANES
          /\ \E at \in Int :
                /\ tx.d = Sent(ok, olen, at) /\ RxInside(0, 0, ok, olen, at)
                /\ olen + 4 - at \in 0 .. (IF tx.fsm = "DW_IDLE" THEN 3 ELSE 4)
       \/ /\ tx.fsm = "QW_IDLE"
          /\ \E at \in Int : Aborts(tx.d, at) /\ \E l \in Nat : at < l /\ at >= 4 /\ RxInside(ok, olen, 0, l, at)

Begun(ok, olen, k, len) ==
    /\ len > 2 * LANES /\ Taken(k, len, 1)
    /\ \/ tx.fsm = "ST_LANE0" /\ tx.d = PREAMBLE_LANE0 /\ rx.fsm = "IDLE"
       \/ tx.fsm = "ST_LANE4" /\ tx.d = PREAMBLE_LANE4 /\ rx.fsm \in {"IDLE", "FINL4"}
    /\ RxBetween(ok, olen)

Inside(ok, olen, k, len) ==
    /\ len > 2 * LANES
    /\ \E at \in Int : /\ tx.d = Sent(k, len, at) /\ at <= len + 4
                       /\ TxInside(k, len, at) /\ RxInside(ok, olen, k, len, at)

---------------------------------------------------------------------------
\* The strengthening: there are never more than two frames on their way, and
\* each register of both adapters has its part of them.

Placed ==
    \E ok, olen, k, len \in Nat :
        /\ due = Pending(ok, olen) \o Pending(k, len)
        /\ Between(ok, olen, k, len) \/ Begun(ok, olen, k, len) \/ Inside(ok, olen, k, len)

\* TREADY of the transmitter is the state it is in.
Ready == tx.TREADY <=> tx.fsm \in READY

\* The receiver's output is open whenever a frame is in it.
RXFIELDS == {"fsm", "out", "synch", "tdata_i", "tkeep_i", "last_tkeep_i", "tvalid_i", "tlast_i", "tuser_i",
             "tdata_d0", "tvalid_d0", "d_reg", "inbound_frame", "aux_dw", "crc_32", "crcs",
             "rcved_crc", "calcted_crc", "chk_tchar"}
Sound == DOMAIN rx = RXFIELDS /\ (rx.synch \/ ~rx.inbound_frame)

LoopInv == Sound /\ Ready /\ Placed

---------------------------------------------------------------------------
\* The words of a frame.

\* Control characters stand behind the FCS and nowhere else.
LEMMA PlaceIsCharacter ==
  ASSUME NEW k \in Nat, NEW len \in Nat, NEW place \in Int
  PROVE  /\ Place(k, len, place) \in Character
         /\ IsControl(Place(k, len, place)) <=> place >= len + 4
<1>1. CASE place < 0
  BY <1>1 DEF Place, Preamble, Character, KINDS, IsControl, I, S, T, E
<1>2. CASE place \in Nat /\ place < len
  BY <1>2 DEF Place, Byte, Character, KINDS, IsControl, I, S, T, E
<1>3. CASE place \in Nat /\ place >= len /\ place < len + 4
  <2>1. Place(k, len, place) = <<"fcs", k, len, place - len + 1>> /\ place - len + 1 \in Nat
    BY <1>3 DEF Place
  <2> QED BY <1>3, <2>1 DEF Character, KINDS, IsControl, I, S, T, E
<1>4. CASE place \in Nat /\ place >= len + 4
  <2>1. Place(k, len, place) \in {T, I}
    BY <1>4 DEF Place
  <2> QED BY <1>4, <2>1 DEF Character, KINDS, IsControl, I, T
<1> QED BY <1>1, <1>2, <1>3, <1>4

\* The lanes of a word are its places.
LEMMA SentLanes ==
  ASSUME NEW k \in Nat, NEW len \in Nat, NEW at \in Int
  PROVE  /\ Sent(k, len, at) \in Words(8, Character)
         /\ \A i \in 1 .. 8 : Sent(k, len, at)[i] = Place(k, len, at + i - 1)
         /\ HalfSent(k, len, at) \in Words(4, Character)
         /\ \A i \in 1 .. 4 : HalfSent(k, len, at)[i] = Place(k, len, at + i - 1)
<1>1. \A i \in Nat : at + i - 1 \in Int
  OBVIOUS
<1>2. \A i \in 1 .. 8 : Place(k, len, at + i - 1) \in Character
  BY <1>1, PlaceIsCharacter
<1>3. Sent(k, len, at) \in [1 .. 8 -> Character] /\ HalfSent(k, len, at) \in [1 .. 4 -> Character]
  BY <1>2 DEF Sent, HalfSent, LANES
<1>4. Sent(k, len, at) \in Words(8, Character) /\ HalfSent(k, len, at) \in Words(4, Character)
  BY <1>3, TupleIsWord
<1> QED BY <1>4 DEF Sent, HalfSent, LANES

HalfSpelt(u, k, len, at) ==
    u \in Words(4, Character) /\ \A i \in 1 .. 4 : u[i] = Place(k, len, at + i - 1)

LEMMA HalfLanes ==
  ASSUME NEW k \in Nat, NEW len \in Nat, NEW at \in Int, NEW u, u = HalfSent(k, len, at)
  PROVE  HalfSpelt(u, k, len, at)
  BY SentLanes DEF HalfSpelt

\* Words with the same characters are the same.
LEMMA SameWord ==
  ASSUME NEW C, NEW n \in Nat, NEW u \in Words(n, C), NEW v \in Words(n, C),
         \A i \in 1 .. n : u[i] = v[i]
  PROVE  u = v
  BY SeqEqual DEF Words

\* A part of a word is a word.
LEMMA WordPart ==
  ASSUME NEW C, NEW m \in Nat, NEW u \in Words(m, C), NEW a \in 1 .. m, NEW b \in 0 .. m, a <= b + 1
  PROVE  /\ SubSeq(u, a, b) \in Words(b + 1 - a, C)
         /\ \A i \in 1 .. b + 1 - a : SubSeq(u, a, b)[i] = u[a + i - 1]
<1>1. \A i \in a .. b : u[i] \in C
  BY WordLanes
<1>2. /\ SubSeq(u, a, b) \in Seq(C) /\ Len(SubSeq(u, a, b)) = (IF a <= b THEN b - a + 1 ELSE 0)
      /\ \A i \in 1 .. b - a + 1 : SubSeq(u, a, b)[i] = u[a + i - 1]
  BY <1>1, SubSeqProperties
<1>3. b + 1 - a = b - a + 1 /\ (~(a <= b) => b + 1 - a = 0)
  OBVIOUS
<1> QED BY <1>2, <1>3 DEF Words

\* The same by its length.
Piece(v, u, a, n, C) == v \in Words(n, C) /\ \A i \in 1 .. n : v[i] = u[a + i - 1]

LEMMA WordPiece ==
  ASSUME NEW C, NEW m \in Nat, NEW u \in Words(m, C), NEW a \in 1 .. m, NEW b \in 0 .. m,
         NEW n \in Nat, b + 1 = a + n, NEW v, v = SubSeq(u, a, b)
  PROVE  Piece(v, u, a, n, C)
<1>1. n = b + 1 - a /\ a <= b + 1
  OBVIOUS
<1>2. /\ SubSeq(u, a, b) \in Words(b + 1 - a, C)
      /\ \A i \in 1 .. b + 1 - a : SubSeq(u, a, b)[i] = u[a + i - 1]
  BY <1>1, WordPart
<1> QED BY <1>1, <1>2 DEF Piece

\* A word is two halves, and a frame that starts in lane 4 puts the halves of
\* two words into one.
LEMMA SentHalves ==
  ASSUME NEW k \in Nat, NEW len \in Nat, NEW at \in Int
  PROVE  /\ Low(Sent(k, len, at)) = HalfSent(k, len, at)
         /\ High(Sent(k, len, at)) = HalfSent(k, len, at + 4)
         /\ HalfSent(k, len, at) \o HalfSent(k, len, at + 4) = Sent(k, len, at)
<1> DEFINE w == Sent(k, len, at)
           u == HalfSent(k, len, at)
           v == HalfSent(k, len, at + 4)
<1>1. at + 4 \in Int
  OBVIOUS
<1>2. /\ w \in Words(8, Character) /\ \A i \in 1 .. 8 : w[i] = Place(k, len, at + i - 1)
      /\ u \in Words(4, Character) /\ \A i \in 1 .. 4 : u[i] = Place(k, len, at + i - 1)
  BY SentLanes
<1>3. v \in Words(4, Character) /\ \A i \in 1 .. 4 : v[i] = Place(k, len, at + 4 + i - 1)
  BY <1>1, SentLanes
<1>4. \A i \in 1 .. 4 : v[i] = w[4 + i]
  <2>1. \A i \in 1 .. 4 : 4 + i \in 1 .. 8 /\ at + 4 + i - 1 = at + (4 + i) - 1
    OBVIOUS
  <2> QED BY <1>2, <1>3, <2>1
<1>5. \A i \in 1 .. 4 : u[i] = w[i]
  BY <1>2
<1> HIDE DEF w, u, v
<1>6. SubSeq(w, 1, 4) = u
  <2>1. SubSeq(w, 1, 4) \in Words(4 + 1 - 1, Character) /\ \A i \in 1 .. 4 + 1 - 1 : SubSeq(w, 1, 4)[i] = w[1 + i - 1]
    BY <1>2, WordPart
  <2>2. SubSeq(w, 1, 4) \in Words(4, Character) /\ \A i \in 1 .. 4 : SubSeq(w, 1, 4)[i] = u[i]
    BY <1>5, <2>1
  <2> QED BY <1>2, <2>2, SameWord
<1>7. SubSeq(w, 5, 8) = v
  <2>1. SubSeq(w, 5, 8) \in Words(8 + 1 - 5, Character) /\ \A i \in 1 .. 8 + 1 - 5 : SubSeq(w, 5, 8)[i] = w[5 + i - 1]
    BY <1>2, WordPart
  <2>2. \A i \in 1 .. 4 : SubSeq(w, 5, 8)[i] = v[i]
    BY <1>4, <2>1
  <2>3. SubSeq(w, 5, 8) \in Words(4, Character)
    BY <2>1
  <2> QED BY <1>3, <2>2, <2>3, SameWord
<1>8. u \o v = w
  <2>1. JoinedLanes(u, 4, v, 4, Character)
    BY <1>2, <1>3, Joined
  <2>2. u \o v \in Words(8, Character)
    BY <2>1 DEF JoinedLanes
  <2>3. \A i \in 1 .. 8 : (u \o v)[i] = w[i]
    <3>1. \A i \in 1 .. 8 : i \in 1 .. 4 \/ (i - 4 \in 1 .. 4 /\ i = 4 + (i - 4))
      OBVIOUS
    <3>2. \A i \in 1 .. 4 : (u \o v)[i] = w[i] /\ (u \o v)[4 + i] = w[4 + i]
      BY <1>4, <1>5, <2>1 DEF JoinedLanes
    <3> QED BY <3>1, <3>2
  <2> QED BY <1>2, <2>2, <2>3, SameWord
<1> QED BY <1>6, <1>7, <1>8 DEF Low, High, w, u, v

\* A word is data up to the terminate character, and control behind it.
LEMMA DataLanesOf ==
  ASSUME NEW d, NEW n \in 0 .. 8, \A i \in 1 .. 8 : IsControl(d[i]) <=> i > n
  PROVE  DataLanes(d) = n /\ CleanEnd(d)
<1>1. CASE n = 8
  BY <1>1 DEF DataLanes, CleanEnd, LANES
<1>2. CASE n < 8
  <2>1. n + 1 \in 1 .. 8 /\ IsControl(d[n + 1]) /\ \A j \in 1 .. n : ~IsControl(d[j])
    BY <1>2
  <2>2. \A i \in 1 .. 8 : IsControl(d[i]) /\ (\A j \in 1 .. i - 1 : ~IsControl(d[j])) => i = n + 1
    <3> TAKE i \in 1 .. 8
    <3> SUFFICES ASSUME IsControl(d[i]), \A j \in 1 .. i - 1 : ~IsControl(d[j]) PROVE i = n + 1
      OBVIOUS
    <3>1. i > n
      OBVIOUS
    <3>2. ~(n + 1 \in 1 .. i - 1)
      BY <2>1
    <3> QED BY <2>1, <3>1, <3>2
  <2>3. (CHOOSE i \in 1 .. 8 : IsControl(d[i]) /\ \A j \in 1 .. i - 1 : ~IsControl(d[j])) = n + 1
    <3>1. (n + 1) - 1 = n
      OBVIOUS
    <3> QED BY <2>1, <2>2, <3>1
  <2>4. DataLanes(d) = n
    BY <2>1, <2>3 DEF DataLanes, LANES
  <2> QED BY <2>4 DEF CleanEnd, LANES
<1> QED BY <1>1, <1>2

\* DataLanes finds the terminate character of a frame.
LEMMA SentDataLanes ==
  ASSUME NEW k \in Nat, NEW len \in Nat, NEW at \in Int, NEW n \in Int, n = len + 4 - at, n >= 0
  PROVE  /\ CleanEnd(Sent(k, len, at))
         /\ n >= 8 => DataLanes(Sent(k, len, at)) = 8
         /\ n < 8 => DataLanes(Sent(k, len, at)) = n /\ Sent(k, len, at)[n + 1] = T
<1> DEFINE d == Sent(k, len, at)
<1>1. \A i \in 1 .. 8 : d[i] = Place(k, len, at + i - 1) /\ at + i - 1 \in Int
  <2>1. \A i \in 1 .. 8 : d[i] = Place(k, len, at + i - 1)
    BY SentLanes
  <2> HIDE DEF d
  <2> QED BY <2>1
<1>2. \A i \in 1 .. 8 : IsControl(d[i]) <=> at + i - 1 >= len + 4
  BY <1>1, PlaceIsCharacter
<1>3. CASE n >= 8
  <2>1. \A i \in 1 .. 8 : IsControl(d[i]) <=> i > 8
    BY <1>2, <1>3
  <2> HIDE DEF d
  <2>2. DataLanes(d) = 8 /\ CleanEnd(d)
    BY <2>1, DataLanesOf
  <2> QED BY <1>3, <2>2 DEF d
<1>4. CASE n < 8
  <2>1. \A i \in 1 .. 8 : IsControl(d[i]) <=> i > n
    BY <1>2, <1>4
  <2>2. n \in 0 .. 8 /\ n + 1 \in 1 .. 8 /\ at + (n + 1) - 1 = len + 4
    BY <1>4
  <2>3. d[n + 1] = T
    <3>1. d[n + 1] = Place(k, len, len + 4)
      BY <1>1, <2>2
    <3> QED BY <3>1 DEF Place
  <2> HIDE DEF d
  <2>4. DataLanes(d) = n /\ CleanEnd(d)
    BY <2>1, <2>2, DataLanesOf
  <2> QED BY <1>4, <2>3, <2>4 DEF d
<1> QED BY <1>3, <1>4

---------------------------------------------------------------------------
\* The CRC register and the FCS.

\* The register goes on over the bytes that come next in its frame.
LEMMA CrcGrows ==
  ASSUME NEW k \in Nat, NEW p \in Nat, p # 1, NEW crc, Covers(crc, k, p),
         NEW n \in Nat \ {0}, NEW bytes \in Words(n, Character),
         \A i \in 1 .. n : bytes[i] = Byte(k, p + i - 1)
  PROVE  Crc(crc, bytes) = <<k, p + n>>
<1>1. Len(bytes) = n /\ 1 \in 1 .. n
  BY DEF Words
<1>2. p = 0 => bytes[1][2] = k
  BY <1>1 DEF Byte
<1>3. /\ p = 0 => crc = <<0, 0>> /\ crc[2] = 0
      /\ p # 0 => crc = <<k, p>> /\ crc[1] = k /\ crc[2] = p
  BY DEF Covers, CRC_PRESET
<1>4. crc # <<0, 1>> /\ (p # 0 => crc # <<0, 0>>)
  <2>1. <<0, 0>> # <<0, 1>>
    OBVIOUS
  <2>2. p # 0 => <<k, p>> # <<0, 1>> /\ <<k, p>> # <<0, 0>>
    OBVIOUS
  <2> QED BY <1>3, <2>1, <2>2
<1>5. crc[2] = p /\ (IF crc = CRC_PRESET THEN bytes[1][2] ELSE crc[1]) = k
  BY <1>2, <1>3, <1>4 DEF CRC_PRESET
<1> QED BY <1>1, <1>4, <1>5 DEF Crc, CRC_OTHER

\* The bytes at a place of the frame.
LEMMA SentBytes ==
  ASSUME NEW k \in Nat, NEW len \in Nat, NEW at \in Nat, NEW n \in 1 .. 8, at + n <= len
  PROVE  /\ First(Sent(k, len, at), n) \in Words(n, Character)
         /\ \A i \in 1 .. n : /\ First(Sent(k, len, at), n)[i] = Byte(k, at + i - 1)
                              /\ Sent(k, len, at)[i] = Byte(k, at + i - 1)
<1>1. /\ Sent(k, len, at) \in Words(8, Character)
      /\ \A i \in 1 .. 8 : Sent(k, len, at)[i] = Place(k, len, at + i - 1)
  BY SentLanes
<1>2. \A i \in 1 .. n : Sent(k, len, at)[i] = Byte(k, at + i - 1)
  <2> TAKE i \in 1 .. n
  <2>1. i \in 1 .. 8 /\ at + i - 1 \in Nat /\ at + i - 1 < len
    OBVIOUS
  <2>2. Sent(k, len, at)[i] = Place(k, len, at + i - 1)
    BY <1>1, <2>1
  <2> QED BY <2>1, <2>2 DEF Place
<1>3. First(Sent(k, len, at), n) \in Words(n, Character) /\ \A i \in 1 .. n : First(Sent(k, len, at), n)[i] = Sent(k, len, at)[i]
  <2>1. n \in 0 .. 8 /\ 8 \in Nat
    OBVIOUS
  <2> QED BY <1>1, <2>1, Cut, Zenon
<1> QED BY <1>2, <1>3

\* ... and so over the bytes at a place.
Extends(crc, k, len, at, n) ==
    /\ Crc(crc, First(Sent(k, len, at), n)) = <<k, at + n>>
    /\ n = 8 => Crc(crc, Sent(k, len, at)) = <<k, at + n>>

LEMMA CrcExtends ==
  ASSUME NEW k \in Nat, NEW len \in Nat, NEW at \in Nat, at # 1, NEW crc, Covers(crc, k, at),
         NEW n \in 1 .. 8, at + n <= len
  PROVE  Extends(crc, k, len, at, n)
<1>1. /\ First(Sent(k, len, at), n) \in Words(n, Character)
      /\ \A i \in 1 .. n : /\ First(Sent(k, len, at), n)[i] = Byte(k, at + i - 1)
                           /\ Sent(k, len, at)[i] = Byte(k, at + i - 1)
  BY SentBytes
<1>2. Sent(k, len, at) \in Words(8, Character)
  BY SentLanes
<1>3. n \in Nat \ {0}
  OBVIOUS
<1>4. Crc(crc, First(Sent(k, len, at), n)) = <<k, at + n>>
  BY <1>1, <1>3, CrcGrows
<1>5. n = 8 => Crc(crc, Sent(k, len, at)) = <<k, at + n>>
  <2>1. SUFFICES ASSUME n = 8 PROVE Crc(crc, Sent(k, len, at)) = <<k, at + n>>
    OBVIOUS
  <2>2. PICK bytes : bytes = Sent(k, len, at)
    OBVIOUS
  <2>3. bytes \in Words(n, Character) /\ \A i \in 1 .. n : bytes[i] = Byte(k, at + i - 1)
    BY <1>1, <1>2, <2>1, <2>2
  <2>4. Crc(crc, bytes) = <<k, at + n>>
    BY <1>3, <2>3, CrcGrows
  <2> QED BY <2>2, <2>4
<1> QED BY <1>4, <1>5 DEF Extends

LEMMA CrcSent ==
  ASSUME NEW k \in Nat, NEW len \in Nat, NEW at \in Nat, at # 1, NEW crc, Covers(crc, k, at),
         NEW n \in 1 .. 8, at + n <= len
  PROVE  /\ Crc(crc, First(Sent(k, len, at), n)) = <<k, at + n>>
         /\ n = 8 => Crc(crc, Sent(k, len, at)) = <<k, at + n>>
<1>1. Extends(crc, k, len, at, n)
  BY CrcExtends
<1> QED BY <1>1 DEF Extends

\* The FCS of a frame is what is on the wire behind its bytes.
LEMMA FcsLanes ==
  ASSUME NEW k \in Nat, NEW len \in Nat
  PROVE  /\ Fcs(<<k, len>>) \in Words(4, Character)
         /\ \A j \in 1 .. 4 : Fcs(<<k, len>>)[j] = Place(k, len, len + j - 1)
<1>1. \A j \in 1 .. 4 : Fcs(<<k, len>>)[j] = <<"fcs", k, len, j>>
  BY DEF Fcs
<1>2. \A j \in 1 .. 4 : Place(k, len, len + j - 1) = <<"fcs", k, len, j>>
  <2> TAKE j \in 1 .. 4
  <2>1. len + j - 1 >= len /\ len + j - 1 < len + 4 /\ len + j - 1 - len + 1 = j /\ ~(len + j - 1 < 0)
    OBVIOUS
  <2> QED BY <2>1 DEF Place
<1>3. <<k, len>> \in CrcValue
  BY DEF CrcValue
<1> QED BY <1>1, <1>2, <1>3, FcsIsWord, PlainWord

\* Four lanes at the place of the FCS are the FCS.
LEMMA FcsFound ==
  ASSUME NEW k \in Nat, NEW len \in Nat, NEW w \in Words(4, Character),
         \A j \in 1 .. 4 : w[j] = Place(k, len, len + j - 1)
  PROVE  w = Fcs(<<k, len>>)
  BY FcsLanes, SameWord

\* The FCS in one word, and in two.
LEMMA FcsInWord ==
  ASSUME NEW k \in Nat, NEW len \in Nat, NEW at \in Int, NEW n \in 4 .. 7, at + n - 4 = len
  PROVE  SubSeq(Sent(k, len, at), n - 3, n) = Fcs(<<k, len>>)
<1> DEFINE w == Sent(k, len, at)
<1>1. w \in Words(8, Character) /\ \A i \in 1 .. 8 : w[i] = Place(k, len, at + i - 1)
  BY SentLanes
<1> HIDE DEF w
<1>2. n - 3 \in 1 .. 8 /\ n \in 0 .. 8 /\ n - 3 <= n + 1 /\ n + 1 - (n - 3) = 4 /\ 8 \in Nat
  OBVIOUS
<1>3. /\ SubSeq(w, n - 3, n) \in Words(4, Character)
      /\ \A i \in 1 .. 4 : SubSeq(w, n - 3, n)[i] = w[n - 3 + i - 1]
  <2>1. PICK a \in 1 .. 8, b \in 0 .. 8, four \in Nat : a = n - 3 /\ b = n /\ four = 4
    BY <1>2
  <2>2. PICK v : v = SubSeq(w, a, b)
    OBVIOUS
  <2>3. b + 1 = a + four /\ 8 \in Nat
    BY <2>1
  <2>4. Piece(v, w, a, four, Character)
    BY <1>1, <2>2, <2>3, WordPiece
  <2>5. v = SubSeq(w, n - 3, n)
    BY <2>1, <2>2
  <2> QED BY <2>1, <2>4, <2>5 DEF Piece
<1>4. \A i \in 1 .. 4 : n - 3 + i - 1 \in 1 .. 8 /\ at + (n - 3 + i - 1) - 1 = len + i - 1
  OBVIOUS
<1>5. \A i \in 1 .. 4 : SubSeq(w, n - 3, n)[i] = Place(k, len, len + i - 1)
  BY <1>1, <1>3, <1>4
<1> QED BY <1>3, <1>5, FcsFound DEF w

LEMMA FcsInTwoWords ==
  ASSUME NEW k \in Nat, NEW len \in Nat, NEW at \in Int, NEW n \in 0 .. 4, at + n - 4 = len
  PROVE  SubSeq(Sent(k, len, at - 8) \o Sent(k, len, at), n + 5, n + 8) = Fcs(<<k, len>>)
<1> DEFINE u == Sent(k, len, at - 8)
           v == Sent(k, len, at)
           w == u \o v
<1>1. v \in Words(8, Character) /\ \A i \in 1 .. 8 : v[i] = Place(k, len, at + i - 1)
  BY SentLanes
<1>2. u \in Words(8, Character) /\ \A i \in 1 .. 8 : u[i] = Place(k, len, at - 8 + i - 1)
  <2>1. at - 8 \in Int
    OBVIOUS
  <2> QED BY <2>1, SentLanes
<1> HIDE DEF u, v
<1>3. JoinedLanes(u, 8, v, 8, Character)
  BY <1>1, <1>2, Joined
<1>4. /\ w \in Words(16, Character)
      /\ \A i \in 1 .. 8 : w[i] = u[i] /\ w[8 + i] = v[i]
  <2>1. 8 + 8 = 16
    OBVIOUS
  <2>2. w \in Words(8 + 8, Character) /\ \A i \in 1 .. 8 : w[i] = u[i] /\ w[8 + i] = v[i]
    BY <1>3, Zenon DEF JoinedLanes, w
  <2> QED BY <2>1, <2>2
<1> HIDE DEF w
<1>5. \A i \in 1 .. 16 : w[i] = Place(k, len, at - 8 + i - 1)
  <2> TAKE i \in 1 .. 16
  <2>1. CASE i <= 8
    <3>1. i \in 1 .. 8
      BY <2>1
    <3> QED BY <1>2, <1>4, <3>1
  <2>2. CASE i > 8
    <3>1. i - 8 \in 1 .. 8 /\ 8 + (i - 8) = i /\ at + (i - 8) - 1 = at - 8 + i - 1
      BY <2>2
    <3>2. w[8 + (i - 8)] = v[i - 8] /\ v[i - 8] = Place(k, len, at + (i - 8) - 1)
      BY <1>1, <1>4, <3>1
    <3> QED BY <3>1, <3>2
  <2> QED BY <2>1, <2>2
<1>6. n + 5 \in 1 .. 16 /\ n + 8 \in 0 .. 16 /\ n + 5 <= n + 8 + 1 /\ n + 8 + 1 - (n + 5) = 4 /\ 16 \in Nat
  OBVIOUS
<1>7. /\ SubSeq(w, n + 5, n + 8) \in Words(4, Character)
      /\ \A i \in 1 .. 4 : SubSeq(w, n + 5, n + 8)[i] = w[n + 5 + i - 1]
  <2>1. PICK a \in 1 .. 16, b \in 0 .. 16, four \in Nat : a = n + 5 /\ b = n + 8 /\ four = 4
    BY <1>6
  <2>2. PICK x : x = SubSeq(w, a, b)
    OBVIOUS
  <2>3. b + 1 = a + four /\ 16 \in Nat
    BY <2>1
  <2>4. Piece(x, w, a, four, Character)
    BY <1>4, <2>2, <2>3, WordPiece
  <2>5. x = SubSeq(w, n + 5, n + 8)
    BY <2>1, <2>2
  <2> QED BY <2>1, <2>4, <2>5 DEF Piece
<1>8. \A i \in 1 .. 4 : n + 5 + i - 1 \in 1 .. 16 /\ at - 8 + (n + 5 + i - 1) - 1 = len + i - 1
  OBVIOUS
<1>9. \A i \in 1 .. 4 : SubSeq(w, n + 5, n + 8)[i] = Place(k, len, len + i - 1)
  BY <1>5, <1>7, <1>8
<1> QED BY <1>7, <1>9, FcsFound DEF u, v, w

---------------------------------------------------------------------------
\* The bytes received grow by the bytes of a beat.
LEMMA FrameGrows ==
  ASSUME NEW k \in Nat, NEW len \in Nat, NEW at \in Nat, NEW n \in 1 .. 8, at + n <= len
  PROVE  FrameBytes(k, at) \o SubSeq(Sent(k, len, at), 1, n) = FrameBytes(k, at + n)
<1> DEFINE u == FrameBytes(k, at)
           v == First(Sent(k, len, at), n)
           w == FrameBytes(k, at + n)
<1>1. ASSUME NEW m \in Nat
      PROVE  FrameBytes(k, m) \in Words(m, Character) /\ \A i \in 1 .. m : FrameBytes(k, m)[i] = Byte(k, i - 1)
  <2>1. \A i \in 1 .. m : Byte(k, i - 1) \in Character
    BY BytesArePlain, Characters
  <2>2. FrameBytes(k, m) \in [1 .. m -> Character]
    BY <2>1 DEF FrameBytes
  <2>3. FrameBytes(k, m) \in Words(m, Character)
    BY <2>2, TupleIsWord
  <2> QED BY <2>3 DEF FrameBytes
<1>2. v \in Words(n, Character) /\ \A i \in 1 .. n : v[i] = Byte(k, at + i - 1)
  BY SentBytes
<1>3. /\ u \in Words(at, Character) /\ \A i \in 1 .. at : u[i] = Byte(k, i - 1)
      /\ w \in Words(at + n, Character) /\ \A i \in 1 .. at + n : w[i] = Byte(k, i - 1)
  <2>1. at + n \in Nat
    OBVIOUS
  <2> QED BY <1>1, <2>1
<1> HIDE DEF u, v, w
<1>4. JoinedLanes(u, at, v, n, Character)
  <2>1. n \in Nat
    OBVIOUS
  <2> QED BY <1>2, <1>3, <2>1, Joined
<1>5. ASSUME NEW i \in 1 .. at + n
      PROVE  (u \o v)[i] = w[i]
  <2>1. CASE i \in 1 .. at
    BY <1>3, <1>4, <2>1 DEF JoinedLanes
  <2>2. CASE ~(i \in 1 .. at)
    <3>1. i - at \in 1 .. n /\ at + (i - at) = i /\ at + (i - at) - 1 = i - 1
      BY <2>2
    <3>2. (u \o v)[at + (i - at)] = v[i - at]
      BY <1>4, <3>1, Zenon DEF JoinedLanes
    <3> QED BY <1>2, <1>3, <3>1, <3>2
  <2> QED BY <2>1, <2>2
<1>6. u \o v \in Words(at + n, Character) /\ at + n \in Nat
  BY <1>4 DEF JoinedLanes
<1>7. u \o v = w
  BY <1>3, <1>5, <1>6, SameWord
<1> QED BY <1>7 DEF u, v, w, First


\* A beat with n bytes fits into the frame at a place.
Fits(k, len, at, n) == k \in Nat /\ len \in Nat /\ at \in Nat /\ n \in 1 .. 8 /\ at + n <= len

Joins(k, len, at, n) == FrameBytes(k, at) \o SubSeq(Sent(k, len, at), 1, n) = FrameBytes(k, at + n)

\* The same for any number of bytes, and for a whole beat.
LEMMA PartGrows ==
  ASSUME NEW k, NEW len, NEW at, NEW n, Fits(k, len, at, n)
  PROVE  Joins(k, len, at, n)
<1>1. k \in Nat /\ len \in Nat /\ at \in Nat /\ n \in 1 .. 8 /\ at + n <= len
  BY DEF Fits
<1> QED BY <1>1, FrameGrows, Zenon DEF Joins

LEMMA BeatGrows ==
  ASSUME NEW k \in Nat, NEW len \in Nat, NEW at \in Nat, at + 8 <= len
  PROVE  FrameBytes(k, at) \o SubSeq(Sent(k, len, at), 1, 8) = FrameBytes(k, at + 8)
<1>1. PICK n \in 1 .. 8 : n = 8
  OBVIOUS
<1>2. at + n <= len
  BY <1>1
<1>3. FrameBytes(k, at) \o SubSeq(Sent(k, len, at), 1, n) = FrameBytes(k, at + n)
  BY <1>2, FrameGrows
<1> QED BY <1>1, <1>3, Zenon

---------------------------------------------------------------------------
\* One clock edge of the receiver.

RxClock(d) == rx' = RxNext(d) /\ Observe

\* The frame that is still to come back, once its last beat is out.
Popped(k) == IF Open THEN k ELSE 0

\* All but the output and what opens it.
SameRegisters(q, r) ==
    /\ q.fsm = r.fsm /\ q.d_reg = r.d_reg /\ q.aux_dw = r.aux_dw
    /\ q.tdata_i = r.tdata_i /\ q.tvalid_i = r.tvalid_i /\ q.tlast_i = r.tlast_i
    /\ q.tuser_i = r.tuser_i /\ q.tkeep_i = r.tkeep_i /\ q.last_tkeep_i = r.last_tkeep_i
    /\ q.tdata_d0 = r.tdata_d0 /\ q.tvalid_d0 = r.tvalid_d0
    /\ q.crc_32 = r.crc_32 /\ q.crcs = r.crcs
    /\ q.rcved_crc = r.rcved_crc /\ q.calcted_crc = r.calcted_crc /\ q.chk_tchar = r.chk_tchar

\* What every edge does with the output.
OutputMoves ==
    /\ Sound'
    /\ rx'.out.valid = rx.tvalid_i /\ rx'.out.last = rx.tlast_i /\ rx'.out.user = rx.tuser_i
    /\ Open => part' = Left /\ due' = due
    /\ ~Open => part' = <<>> /\ due' = IF rx.out.user THEN Tail(due) ELSE due
    /\ rx.tvalid_i => /\ Left' = part' \o SubSeq(rx.tdata_i, 1, rx.tkeep_i)
                      /\ Received' = part' \o SubSeq(rx.tdata_i, 1, rx.tkeep_i)
    /\ ~rx.tvalid_i => Left' = part'

\* The output block passes tdata_i on.
LEMMA OutputBlock ==
  ASSUME Sound, NEW r, DOMAIN r = RXFIELDS, rx' = Output(r), Observe
  PROVE  OutputMoves /\ SameRegisters(rx', r)
<1> DEFINE out == [valid |-> rx.tvalid_i, data |-> rx.tdata_i, keep |-> rx.tkeep_i,
                   last |-> rx.tlast_i, user |-> rx.tuser_i]
<1>1. rx' = [r EXCEPT !.synch = TRUE, !.out = out]
  BY DEF Output, Sound
<1>2. DOMAIN rx' = RXFIELDS
  BY <1>1
<1>3. rx'.synch /\ rx'.out = out
  BY <1>1 DEF RXFIELDS
<1>4. SameRegisters(rx', r)
  BY <1>1 DEF RXFIELDS, SameRegisters
<1>5. /\ rx'.out.valid = rx.tvalid_i /\ rx'.out.last = rx.tlast_i /\ rx'.out.user = rx.tuser_i
      /\ rx'.out.data = rx.tdata_i /\ rx'.out.keep = rx.tkeep_i
  BY <1>3
<1>6. Received' = part' \o SubSeq(rx.tdata_i, 1, rx.tkeep_i)
  BY <1>5 DEF Received, Keep
<1>7. /\ rx.tvalid_i => Left' = Received'
      /\ ~rx.tvalid_i => Left' = part'
  BY <1>5 DEF Left
<1>8. /\ Open => part' = Left /\ due' = due
      /\ ~Open => part' = <<>> /\ due' = IF rx.out.user THEN Tail(due) ELSE due
  BY DEF Observe, Open, Left
<1> QED BY <1>2, <1>3, <1>4, <1>5, <1>6, <1>7, <1>8 DEF OutputMoves, Sound

\* A queue of two without its first.
LEMMA TailBehindOne ==
  ASSUME NEW f, NEW g
  PROVE  Tail(<<f>> \o <<g>>) = <<g>> /\ <<>> \o <<g>> = <<g>>
<1>1. <<f>> \in Seq({f, g}) /\ <<g>> \in Seq({f, g}) /\ <<>> \in Seq({f, g})
  OBVIOUS
<1>2. PICK w : w = <<f>> \o <<g>>
  OBVIOUS
<1>3. w \in Seq({f, g}) /\ Len(w) = 2 /\ w[2] = g
  BY <1>1, <1>2, ConcatProperties
<1>4. w # <<>>
  BY <1>3
<1>5. /\ Tail(w) \in Seq({f, g}) /\ Len(Tail(w)) = Len(w) - 1
      /\ \A i \in 1 .. Len(Tail(w)) : Tail(w)[i] = w[i + 1]
  BY <1>3, <1>4, HeadTailProperties
<1>6. Tail(w) = <<g>>
  <2>1. Len(Tail(w)) = 1 /\ \A i \in 1 .. 1 : Tail(w)[i] = g
    <3>1. PICK t : t = Tail(w)
      OBVIOUS
    <3>2. Len(t) = 2 - 1 /\ \A i \in 1 .. Len(t) : t[i] = w[i + 1]
      BY <1>3, <1>5, <3>1
    <3>3. Len(t) = 1 /\ t[1] = w[1 + 1]
      BY <3>2
    <3>4. t[1] = g
      BY <1>3, <3>3
    <3> QED BY <3>1, <3>3, <3>4
  <2>2. Len(<<g>>) = 1 /\ \A i \in 1 .. 1 : <<g>>[i] = g
    OBVIOUS
  <2>3. PICK v : v = <<g>>
    OBVIOUS
  <2>4. PICK u : u = Tail(w)
    OBVIOUS
  <2>5. u \in Seq({f, g}) /\ v \in Seq({f, g}) /\ Len(u) = Len(v) /\ \A i \in 1 .. Len(u) : u[i] = v[i]
    BY <1>1, <1>5, <2>1, <2>2, <2>3, <2>4
  <2>6. u = v
    BY <2>5, SeqEqual
  <2> QED BY <2>3, <2>4, <2>6
<1>7. <<>> \o <<g>> = <<g>>
  BY <1>1, ConcatEmptySeq
<1> QED BY <1>2, <1>6, <1>7

DueStep(ok, olen, k, len) ==
    /\ ok \in Nat /\ olen \in Nat /\ k \in Nat /\ len \in Nat
    /\ due = Pending(ok, olen) \o Pending(k, len)
    /\ Open \/ LastOut(ok, olen)
    /\ OutputMoves

\* The oldest frame is due no longer when its last beat is out.
LEMMA DueMoves ==
  ASSUME NEW ok, NEW olen, NEW k, NEW len, DueStep(ok, olen, k, len), NEW ok2, ok2 = Popped(ok)
  PROVE  /\ ok2 \in Nat
         /\ due' = Pending(ok2, olen) \o Pending(k, len)
<1>0. /\ ok \in Nat /\ olen \in Nat /\ k \in Nat /\ len \in Nat
      /\ due = Pending(ok, olen) \o Pending(k, len)
      /\ Open \/ LastOut(ok, olen)
      /\ OutputMoves
  BY DEF DueStep
<1>1. CASE Open
  BY <1>0, <1>1 DEF Popped, OutputMoves
<1>2. CASE ~Open /\ rx.out.user
  <2>1. due' = Tail(due) /\ ok2 = 0 /\ ok # 0
    BY <1>0, <1>2 DEF OutputMoves, Popped, LastOut, Back
  <2>2. PICK f : Pending(ok, olen) = <<f>>
    BY <2>1 DEF Pending
  <2>3. CASE k = 0
    BY <1>0, <2>1, <2>2, <2>3 DEF Pending
  <2>4. CASE k # 0
    <3>1. PICK g : Pending(k, len) = <<g>>
      BY <2>4 DEF Pending
    <3>2. due = <<f>> \o <<g>> /\ Tail(<<f>> \o <<g>>) = <<g>> /\ <<>> \o <<g>> = <<g>>
      BY <1>0, <2>2, <3>1, TailBehindOne
    <3>3. ok2 = 0 /\ Pending(ok2, olen) = <<>>
      BY <2>1 DEF Pending
    <3>4. due' = <<g>>
      BY <2>1, <3>2, Zenon
    <3>5. Pending(ok2, olen) \o Pending(k, len) = <<g>>
      BY <3>1, <3>2, <3>3, Zenon
    <3>6. ok2 \in Nat
      BY <3>3
    <3> QED BY <3>4, <3>5, <3>6, Zenon
  <2> QED BY <2>3, <2>4
<1>3. CASE ~Open /\ ~rx.out.user
  <2>1. due' = due /\ ok2 = 0 /\ ok = 0
    BY <1>0, <1>3 DEF OutputMoves, Popped, LastOut, Back
  <2> QED BY <1>0, <2>1
<1> QED BY <1>1, <1>2, <1>3

\* The last beat goes from register to register.
LEMMA LastMoves ==
  ASSUME NEW ok \in Nat, NEW olen \in Nat, NEW ok2, ok2 = Popped(ok), OutputMoves,
         rx'.tdata_i = rx.tdata_d0, (rx'.tvalid_i <=> rx.tvalid_d0)
  PROVE  /\ LastInI(ok, olen) /\ ~rx'.tvalid_d0 => LastOut(ok2, olen)'
         /\ LastOut(ok, olen) \/ Gone(ok) => /\ ok2 = 0 /\ part' = <<>>
                                             /\ ~rx'.tvalid_d0 => Gone(ok2)'
         /\ LastInD0(ok, olen) /\ ~rx'.tvalid_d0 /\ rx'.tlast_i /\ rx'.tuser_i /\ rx'.tkeep_i = rx.last_tkeep_i
              => LastInI(ok2, olen)'
<1>1. ASSUME LastInI(ok, olen), ~rx'.tvalid_d0 PROVE LastOut(ok2, olen)'
  <2>1. Open /\ rx.tvalid_i /\ rx.tlast_i /\ ~rx.tvalid_d0 /\ ok2 = ok
    BY <1>1 DEF LastInI, Popped
  <2>2. Received' = Left \o SubSeq(rx.tdata_i, 1, rx.tkeep_i) /\ rx'.out.user = rx.tuser_i
    BY <2>1 DEF OutputMoves
  <2>3. Back(ok, olen, rx'.out.user, Received')
    BY <1>1, <2>2 DEF LastInI
  <2> QED BY <1>1, <2>1, <2>3 DEF LastOut, OutputMoves
<1>2. ASSUME LastOut(ok, olen) \/ Gone(ok)
      PROVE  ok2 = 0 /\ part' = <<>> /\ (~rx'.tvalid_d0 => Gone(ok2)')
  <2>1. CASE LastOut(ok, olen)
    BY <2>1 DEF LastOut, Gone, Popped, Open, OutputMoves
  <2>2. CASE Gone(ok)
    BY <2>2 DEF Gone, Popped, Open, Left, OutputMoves
  <2> QED BY <1>2, <2>1, <2>2
<1>3. ASSUME LastInD0(ok, olen), ~rx'.tvalid_d0, rx'.tlast_i, rx'.tuser_i, rx'.tkeep_i = rx.last_tkeep_i
      PROVE  LastInI(ok2, olen)'
  <2>1. Open /\ rx.tvalid_i /\ ~rx.tlast_i /\ rx.tvalid_d0 /\ rx.tkeep_i = 8 /\ ok2 = ok
    BY <1>3 DEF LastInD0, Popped, LANES
  <2>2. Left' = Left \o SubSeq(rx.tdata_i, 1, LANES) /\ rx'.out.last = FALSE
    BY <2>1 DEF OutputMoves, LANES
  <2>3. Back(ok, olen, TRUE, Left' \o SubSeq(rx'.tdata_i, 1, rx'.tkeep_i))
    BY <1>3, <2>2 DEF LastInD0
  <2>4. Open'
    BY <2>2 DEF Open
  <2> QED BY <1>3, <2>1, <2>3, <2>4 DEF LastInI, Back
<1> QED BY <1>1, <1>2, <1>3

---------------------------------------------------------------------------
\* Between two frames.

\* tdata_i follows tdata_d0.
LEMMA ShiftFields ==
  ASSUME Sound
  PROVE  /\ DOMAIN Shift = RXFIELDS
         /\ Shift.tdata_i = rx.tdata_d0 /\ Shift.tvalid_i = rx.tvalid_d0
         /\ Shift.tuser_i = rx.tuser_i /\ Shift.tlast_i = rx.tlast_i
         /\ Shift.tdata_d0 = rx.tdata_d0 /\ Shift.tvalid_d0 = rx.tvalid_d0
         /\ Shift.aux_dw = rx.aux_dw /\ Shift.d_reg = rx.d_reg
  BY DEF Sound, Shift, RXFIELDS

\* An edge that puts no beat into tdata_d0.
LEMMA RestEdge ==
  ASSUME Sound, NEW d, NEW ok \in Nat, NEW olen \in Nat, NEW ok2, ok2 = Popped(ok),
         RxClock(d), RxBetween(ok, olen)
  PROVE  /\ OutputMoves /\ ~rx'.tvalid_d0 /\ Stale'
         /\ Open \/ LastOut(ok, olen)
         /\ rx.fsm = "SRES" => rx'.fsm = "IDLE" /\ Gone(ok2)'
         /\ rx.fsm = "IDLE" => /\ rx'.fsm = StateAtStart(d, "IDLE") /\ rx'.crc_32 = CRC_PRESET
                               /\ LastOut(ok2, olen)' \/ Gone(ok2)'
         /\ rx.fsm \in {"FIN", "FINL4"} => /\ rx'.fsm = StateAfterFin(d) /\ rx'.crc_32 = CRC_PRESET
                                           /\ LastInI(ok2, olen)'
<1>1. rx.fsm \in {"SRES", "IDLE", "FIN", "FINL4"} /\ Stale
  BY DEF RxBetween
<1>2. Open \/ LastOut(ok, olen)
  BY DEF RxBetween, LastInD0, LastInI, LastOut, Gone, Open
<1>3. CASE rx.fsm = "SRES"
  <2> DEFINE r == [Shift EXCEPT !.fsm = "IDLE"]
  <2>1. rx' = Output(r)
    BY <1>3 DEF RxClock, RxNext
  <2>2. DOMAIN r = RXFIELDS /\ r.fsm = "IDLE" /\ r.tdata_i = rx.tdata_d0 /\ r.tvalid_i = rx.tvalid_d0
        /\ r.tdata_d0 = rx.tdata_d0 /\ r.tvalid_d0 = rx.tvalid_d0
    BY ShiftFields DEF RXFIELDS
  <2> HIDE DEF r
  <2>3. OutputMoves /\ SameRegisters(rx', r)
    BY <2>1, <2>2, OutputBlock DEF RxClock
  <2>4. ~rx.tvalid_d0 /\ Gone(ok)
    BY <1>3 DEF RxBetween, Gone
  <2>5. ~rx'.tvalid_d0 /\ Stale'
    BY <1>1, <2>2, <2>3, <2>4 DEF SameRegisters, Stale
  <2>6. Gone(ok2)'
    BY <2>2, <2>3, <2>4, <2>5, LastMoves DEF SameRegisters
  <2> QED BY <1>2, <1>3, <2>2, <2>3, <2>5, <2>6 DEF SameRegisters
<1>4. CASE rx.fsm = "IDLE"
  <2> DEFINE r == RxIdle(d)
  <2>1. rx' = Output(r)
    BY <1>4 DEF RxClock, RxNext
  <2>2. DOMAIN r = RXFIELDS /\ r.fsm = StateAtStart(d, "IDLE") /\ r.crc_32 = CRC_PRESET
        /\ r.tdata_i = rx.tdata_d0 /\ r.tvalid_i = rx.tvalid_d0
        /\ r.tdata_d0 = rx.tdata_d0 /\ r.tvalid_d0 = FALSE
    BY ShiftFields DEF RXFIELDS, RxIdle
  <2> HIDE DEF r
  <2>3. OutputMoves /\ SameRegisters(rx', r)
    BY <2>1, <2>2, OutputBlock DEF RxClock
  <2>4. LastInI(ok, olen) \/ LastOut(ok, olen) \/ Gone(ok)
    BY <1>4 DEF RxBetween
  <2>5. ~rx'.tvalid_d0 /\ Stale'
    BY <1>1, <2>2, <2>3 DEF SameRegisters, Stale
  <2>6. LastOut(ok2, olen)' \/ Gone(ok2)'
    BY <2>2, <2>3, <2>4, <2>5, LastMoves DEF SameRegisters
  <2> QED BY <1>2, <1>4, <2>2, <2>3, <2>5, <2>6 DEF SameRegisters
<1>5. CASE rx.fsm \in {"FIN", "FINL4"}
  <2> DEFINE r == RxFin(d)
  <2>1. rx' = Output(r)
    BY <1>5 DEF RxClock, RxNext
  <2>2. DOMAIN r = RXFIELDS /\ r.fsm = StateAfterFin(d) /\ r.crc_32 = CRC_PRESET
        /\ r.tdata_i = rx.tdata_d0 /\ r.tvalid_i = rx.tvalid_d0
        /\ r.tdata_d0 = rx.tdata_d0 /\ r.tvalid_d0 = FALSE
        /\ r.tlast_i = TRUE /\ r.tkeep_i = rx.last_tkeep_i
        /\ r.tuser_i = (rx.tuser_i \/ (rx.rcved_crc = Fcs(rx.calcted_crc) /\ rx.chk_tchar))
    BY ShiftFields DEF RXFIELDS, RxFin
  <2> HIDE DEF r
  <2>3. OutputMoves /\ SameRegisters(rx', r)
    BY <2>1, <2>2, OutputBlock DEF RxClock
  <2>4. LastInD0(ok, olen)
    BY <1>5 DEF RxBetween
  <2>5. ~rx'.tvalid_d0 /\ Stale'
    BY <1>1, <2>2, <2>3 DEF SameRegisters, Stale
  <2>6. rx'.tlast_i /\ rx'.tuser_i /\ rx'.tkeep_i = rx.last_tkeep_i
    BY <2>2, <2>3, <2>4 DEF SameRegisters, LastInD0
  <2>7. LastInI(ok2, olen)'
    BY <2>2, <2>3, <2>4, <2>5, <2>6, LastMoves DEF SameRegisters
  <2> QED BY <1>2, <1>5, <2>2, <2>3, <2>5, <2>7 DEF SameRegisters
<1> QED BY <1>1, <1>3, <1>4, <1>5

---------------------------------------------------------------------------
\* Inside a frame.

\* A beat more is in.
LEMMA BeatMoves ==
  ASSUME NEW k \in Nat, NEW len \in Nat, NEW top \in Nat, top % 8 = 0, NEW ok \in Nat, NEW olen \in Nat,
         NEW ok2, ok2 = Popped(ok), OutputMoves,
         rx'.tdata_i = rx.tdata_d0, (rx'.tvalid_i <=> rx.tvalid_d0),
         \/ top = 0 /\ ~rx.tvalid_d0 /\ (LastOut(ok, olen) \/ Gone(ok))
         \/ top >= LANES /\ ok = 0 /\ Beats(k, len, top),
         top <= len + LANES
  PROVE  /\ ok2 = 0 /\ Open'
         /\ Left' = FrameBytes(k, IF top > LANES THEN top - LANES ELSE 0)
         /\ (rx'.tvalid_i <=> top > 0)
         /\ top > 0 => rx'.tdata_i = Sent(k, len, top - LANES)
<1>1. CASE top = 0 /\ ~rx.tvalid_d0 /\ (LastOut(ok, olen) \/ Gone(ok))
  <2>1. ok2 = 0 /\ part' = <<>>
    BY <1>1, LastMoves
  <2>2. ~rx.tvalid_i
    BY <1>1 DEF LastOut, Gone
  <2>3. Left' = <<>> /\ Open'
    BY <2>1, <2>2 DEF OutputMoves, Open
  <2>4. FrameBytes(k, 0) = <<>>
    BY DEF FrameBytes
  <2> QED BY <1>1, <2>1, <2>3, <2>4 DEF LANES
<1>2. CASE top >= LANES /\ ok = 0 /\ Beats(k, len, top)
  <2>1. /\ Open /\ ~rx.tlast_i /\ rx.tkeep_i = 8 /\ rx.tvalid_d0 /\ rx.tdata_d0 = Sent(k, len, top - 8)
        /\ (rx.tvalid_i <=> top > 8) /\ (top > 8 => rx.tdata_i = Sent(k, len, top - 16))
        /\ Left = FrameBytes(k, IF top > 8 THEN top - 16 ELSE 0)
    BY <1>2 DEF Beats, LANES
  <2>2. ok2 = 0 /\ Open' /\ part' = Left
    BY <1>2, <2>1 DEF Popped, OutputMoves, Open
  <2>3. CASE top > 8
    <3>1. Left' = FrameBytes(k, top - 16) \o SubSeq(Sent(k, len, top - 16), 1, 8)
      BY <2>1, <2>2, <2>3 DEF OutputMoves
    <3>2. CASE top >= 16
      <4>1. top - 16 \in Nat /\ (top - 16) + 8 <= len /\ (top - 16) + 8 = top - 8 /\ 8 \in 1 .. 8
        BY <3>2 DEF LANES
      <4>2. PICK p \in Nat : p = top - 16 /\ p + 8 <= len /\ p + 8 = top - 8
        BY <4>1
      <4>3. Left' = FrameBytes(k, p + 8)
        <5>1. FrameBytes(k, p) \o SubSeq(Sent(k, len, p), 1, 8) = FrameBytes(k, p + 8)
          <6>1. PICK n \in 1 .. 8 : n = 8
            OBVIOUS
          <6>2. Fits(k, len, p, n)
            BY <4>2, <6>1 DEF Fits
          <6>3. Joins(k, len, p, n)
            BY <6>2, PartGrows
          <6> QED BY <6>1, <6>3 DEF Joins
        <5>2. Left' = FrameBytes(k, p) \o SubSeq(Sent(k, len, p), 1, 8)
          BY <3>1, <4>2, Zenon
        <5> QED BY <5>1, <5>2
      <4> QED BY <1>2, <2>1, <2>2, <2>3, <4>2, <4>3 DEF LANES
    <3> QED BY <2>3, <3>2
  <2>4. CASE ~(top > 8)
    <3>1. Left' = FrameBytes(k, 0)
      BY <2>1, <2>2, <2>4 DEF OutputMoves
    <3> QED BY <1>2, <2>1, <2>2, <2>4, <3>1 DEF LANES
  <2> QED BY <2>3, <2>4
<1> QED BY <1>1, <1>2

---------------------------------------------------------------------------
\* The receiver gets the word of a frame that begins at place at.

\* What has come before the beat at place top.
Ahead(ok, olen, k, len, top) ==
    \/ top = 0 /\ ~rx.tvalid_d0 /\ (LastOut(ok, olen) \/ Gone(ok))
    \/ top >= LANES /\ ok = 0 /\ Beats(k, len, top)

\* What all the places inside a frame have in common.
LEMMA InsideFacts ==
  ASSUME NEW ok \in Nat, NEW olen \in Nat, NEW k \in Nat, NEW len \in Nat, NEW at \in Int,
         RxInside(ok, olen, k, len, at)
  PROVE  /\ Open \/ LastOut(ok, olen)
         /\ \/ /\ rx.fsm = "ST_LANE4" /\ at = 0 - 4 /\ rx.crc_32 = CRC_PRESET /\ Stale /\ ~rx.tvalid_d0
               /\ LastInI(ok, olen) \/ LastOut(ok, olen) \/ Gone(ok)
            \/ /\ rx.fsm = "ST_LANE0" /\ at \in Nat /\ at % 8 = 0
               /\ at <= len => Covers(rx.crc_32, k, at)
               /\ Ahead(ok, olen, k, len, at)
               /\ at > 0 => Checks(k, len, at)
            \/ /\ rx.fsm = "D_LANE4" /\ at \in Nat /\ at % 8 = 4 /\ at - 4 \in Nat /\ (at - 4) % 8 = 0
               /\ at <= len => Covers(rx.crc_32, k, at)
               /\ ~rx.tlast_i /\ ~rx.tuser_i /\ rx.aux_dw = HalfSent(k, len, at - 4)
               /\ Ahead(ok, olen, k, len, at - 4)
               /\ at > 4 => Checks(k, len, at)
               /\ at = 4 => Stale
<1>1. LastInI(ok, olen) \/ LastOut(ok, olen) \/ Gone(ok) => ~rx.tvalid_d0 /\ (Open \/ LastOut(ok, olen))
  BY DEF LastInI, LastOut, Gone, Open
<1>2. CASE at = 0 /\ rx.fsm = "ST_LANE0" /\ rx.crc_32 = CRC_PRESET /\ (LastOut(ok, olen) \/ Gone(ok))
  <2>1. at \in Nat /\ at % 8 = 0 /\ ~(at > 0)
    BY <1>2
  <2> QED BY <1>1, <1>2, <2>1 DEF Ahead, Covers
<1>3. CASE /\ at = 0 - 4 /\ rx.fsm = "ST_LANE4" /\ rx.crc_32 = CRC_PRESET /\ Stale
           /\ LastInI(ok, olen) \/ LastOut(ok, olen) \/ Gone(ok)
  BY <1>1, <1>3
<1>4. CASE /\ at = 4 /\ rx.fsm = "D_LANE4" /\ rx.crc_32 = <<k, 4>> /\ Stale
           /\ ~rx.tlast_i /\ ~rx.tuser_i /\ rx.aux_dw = HalfSent(k, len, 0)
           /\ LastOut(ok, olen) \/ Gone(ok)
  <2>1. at \in Nat /\ at % 8 = 4 /\ at - 4 = 0 /\ 0 \in Nat /\ 0 % 8 = 0 /\ ~(at > 4) /\ at # 0
    BY <1>4
  <2> QED BY <1>1, <1>4, <2>1 DEF Ahead, Covers
<1>5. CASE /\ at >= 8 /\ at % 8 = 0 /\ rx.fsm = "ST_LANE0" /\ ok = 0
           /\ Beats(k, len, at) /\ Checks(k, len, at)
  <2>1. at \in Nat /\ at # 0
    BY <1>5
  <2> QED BY <1>5, <2>1 DEF Ahead, Covers, Checks, Beats, LANES
<1>6. CASE /\ at >= 12 /\ at % 8 = 4 /\ rx.fsm = "D_LANE4" /\ ok = 0
           /\ Beats(k, len, at - 4) /\ Checks(k, len, at) /\ rx.aux_dw = HalfSent(k, len, at - 4)
  <2>1. at \in Nat /\ at # 0 /\ at # 4 /\ at - 4 \in Nat /\ at - 4 >= 8
    BY <1>6
  <2>2. (at - 4) % 8 = 0
    BY <1>6
  <2> QED BY <1>6, <2>1, <2>2 DEF Ahead, Covers, Checks, Beats, LANES
<1> QED BY <1>2, <1>3, <1>4, <1>5, <1>6 DEF RxInside

\* The CRC registers of the FCS that ends in the next word.
CrcsOf(d) == [n \in 4 .. 7 |-> Crc(rx.crc_32, First(d, n))]

\* The registers behind a word of data.
LEMMA WordFields ==
  ASSUME Sound, NEW d, NEW data
  PROVE  /\ DOMAIN RxWord(d, data) = RXFIELDS /\ RxWord(d, data).fsm = rx.fsm
         /\ RxWord(d, data).tdata_i = rx.tdata_d0 /\ RxWord(d, data).tvalid_i = rx.tvalid_d0
         /\ RxWord(d, data).tdata_d0 = data /\ RxWord(d, data).tvalid_d0 /\ RxWord(d, data).tkeep_i = 8
         /\ RxWord(d, data).tuser_i = rx.tuser_i /\ RxWord(d, data).tlast_i = rx.tlast_i
         /\ RxWord(d, data).d_reg = d /\ RxWord(d, data).crc_32 = Crc(rx.crc_32, d)
         /\ RxWord(d, data).crcs = CrcsOf(d)
         /\ RxWord(d, data).aux_dw = rx.aux_dw
<1>1. DOMAIN rx = RXFIELDS
  BY DEF Sound
<1> QED BY <1>1 DEF RxWord, CrcsOf, Shift, RXFIELDS, LANES

\* The CRC registers cover the frame as far as the word.
LEMMA ChecksMove ==
  ASSUME NEW k \in Nat, NEW len \in Nat, NEW at \in Nat, at # 1, at <= len => Covers(rx.crc_32, k, at),
         rx'.d_reg = Sent(k, len, at), rx'.crc_32 = Crc(rx.crc_32, Sent(k, len, at)),
         rx'.crcs = CrcsOf(Sent(k, len, at))
  PROVE  Checks(k, len, at + 8)'
<1> DEFINE d == Sent(k, len, at)
<1>1. ASSUME NEW n \in 1 .. 8, at + n <= len
      PROVE  /\ Crc(rx.crc_32, First(d, n)) = <<k, at + n>>
             /\ n = 8 => Crc(rx.crc_32, d) = <<k, at + n>>
  <2>1. at <= len
    BY <1>1
  <2>2. Covers(rx.crc_32, k, at)
    BY <2>1
  <2>3. PICK crc : crc = rx.crc_32
    OBVIOUS
  <2>4. Covers(crc, k, at)
    BY <2>2, <2>3
  <2>5. /\ Crc(crc, First(Sent(k, len, at), n)) = <<k, at + n>>
        /\ n = 8 => Crc(crc, Sent(k, len, at)) = <<k, at + n>>
    <3>1. Extends(crc, k, len, at, n)
      BY <1>1, <2>4, CrcExtends
    <3> QED BY <3>1 DEF Extends
  <2> QED BY <2>3, <2>5, Zenon
<1> HIDE DEF d
<1>2. at + 8 <= len => rx'.crc_32 = <<k, at + 8>>
  <2>1. PICK n \in 1 .. 8 : n = 8
    OBVIOUS
  <2>2. rx'.crc_32 = Crc(rx.crc_32, d)
    BY DEF d
  <2> QED BY <1>1, <2>1, <2>2
<1>3. \A n \in 4 .. 7 : at + n <= len => rx'.crcs[n] = <<k, at + n>>
  <2> TAKE n \in 4 .. 7
  <2>1. n \in 1 .. 8
    OBVIOUS
  <2>2. rx'.crcs[n] = Crc(rx.crc_32, First(d, n))
    BY DEF d, CrcsOf
  <2> QED BY <1>1, <2>1, <2>2
<1>4. at + 8 - 8 = at
  OBVIOUS
<1> QED BY <1>2, <1>3, <1>4 DEF Checks, LANES

\* An edge that takes a word of data: the beat at place top is the next.
Takes(ok, olen, k, len, top) ==
    /\ ok \in Nat /\ olen \in Nat /\ k \in Nat /\ len \in Nat
    /\ top \in Nat /\ top % 8 = 0 /\ top <= len + 8
    /\ Ahead(ok, olen, k, len, top)
    /\ OutputMoves
    /\ rx'.tdata_i = rx.tdata_d0 /\ (rx'.tvalid_i <=> rx.tvalid_d0)

\* The beat in tdata_d0 goes to tdata_i, and its frame is the only one.
LEMMA BeatTaken ==
  ASSUME NEW ok, NEW olen, NEW k, NEW len, NEW top, Takes(ok, olen, k, len, top)
  PROVE  /\ Popped(ok) = 0 /\ Open'
         /\ Left' = FrameBytes(k, IF top > 8 THEN top - 8 ELSE 0)
         /\ (rx'.tvalid_i <=> top > 0)
         /\ top > 0 => rx'.tdata_i = Sent(k, len, top - 8)
<1>1. PICK ok2 : ok2 = Popped(ok)
  OBVIOUS
<1>2. /\ ok2 = 0 /\ Open'
      /\ Left' = FrameBytes(k, IF top > 8 THEN top - 8 ELSE 0)
      /\ (rx'.tvalid_i <=> top > 0)
      /\ top > 0 => rx'.tdata_i = Sent(k, len, top - 8)
  BY <1>1, BeatMoves DEF Takes, Ahead, LANES
<1> QED BY <1>1, <1>2

\* The next beat behind it.
LEMMA BeatAdded ==
  ASSUME NEW ok, NEW olen, NEW k, NEW len, NEW top, Takes(ok, olen, k, len, top),
         rx'.tdata_d0 = Sent(k, len, top), rx'.tvalid_d0, rx'.tkeep_i = 8, ~rx'.tlast_i, ~rx'.tuser_i
  PROVE  Popped(ok) = 0 /\ Beats(k, len, top + 8)'
<1>1. /\ Popped(ok) = 0 /\ Open'
      /\ Left' = FrameBytes(k, IF top > 8 THEN top - 8 ELSE 0)
      /\ (rx'.tvalid_i <=> top > 0)
      /\ top > 0 => rx'.tdata_i = Sent(k, len, top - 8)
  BY BeatTaken
<1>2. top \in Nat /\ top % 8 = 0
  BY DEF Takes
<1>3. PICK next \in Nat : next = top + 8
  BY <1>2
<1>4. next - 8 = top /\ (next > 8 <=> top > 0) /\ next - 16 = top - 8
  BY <1>2, <1>3
<1>5. rx'.tdata_d0 = Sent(k, len, next - 8) /\ (rx'.tvalid_i <=> next > 8)
  BY <1>1, <1>4
<1>6. next > 8 => rx'.tdata_i = Sent(k, len, next - 16)
  BY <1>1, <1>4
<1>8. Left' = FrameBytes(k, IF next > 8 THEN next - 16 ELSE 0)
  <2>1. CASE top > 8
    BY <1>1, <1>4, <2>1
  <2>2. CASE top = 0 \/ top = 8
    BY <1>1, <1>4, <2>2
  <2>3. top > 8 \/ top = 0 \/ top = 8
    BY <1>2
  <2> QED BY <2>1, <2>2, <2>3
<1>7. Beats(k, len, next)'
  BY <1>1, <1>5, <1>6, <1>8 DEF Beats, LANES
<1> QED BY <1>1, <1>3, <1>7

\* A word of data: the receiver is one word further inside the frame.
LEMMA DataWordEdge ==
  ASSUME Sound, NEW ok \in Nat, NEW olen \in Nat, NEW k \in Nat, NEW len \in Nat, NEW at \in Int,
         NEW ok2, ok2 = Popped(ok), RxClock(Sent(k, len, at)),
         RxInside(ok, olen, k, len, at), len > 16, at + 8 <= len + 4
  PROVE  /\ OutputMoves /\ (Open \/ LastOut(ok, olen))
         /\ RxInside(ok2, olen, k, len, at + 8)'
<1> DEFINE d == Sent(k, len, at)
<1>1. DataLanes(d) = 8
  <2>1. PICK n \in Int : n = len + 4 - at
    OBVIOUS
  <2> QED BY <2>1, SentDataLanes
<1>2. Low(d) = HalfSent(k, len, at) /\ High(d) = HalfSent(k, len, at + 4)
  BY SentHalves
<1> HIDE DEF d
<1>3. rx' = Output(CASE rx.fsm = "SRES"     -> [Shift EXCEPT !.fsm = "IDLE"]
                     [] rx.fsm = "IDLE"     -> RxIdle(d)
                     [] rx.fsm = "ST_LANE0" -> RxLane0(d)
                     [] rx.fsm = "ST_LANE4" -> RxLane4Start(d)
                     [] rx.fsm = "D_LANE4"  -> RxLane4(d)
                     [] rx.fsm \in {"FIN", "FINL4"} -> RxFin(d))
      /\ Observe
  BY DEF RxClock, RxNext, d
<1>4. CASE /\ rx.fsm = "ST_LANE4" /\ at = 0 - 4 /\ rx.crc_32 = CRC_PRESET /\ Stale /\ ~rx.tvalid_d0
           /\ LastInI(ok, olen) \/ LastOut(ok, olen) \/ Gone(ok)
  <2> DEFINE r == RxLane4Start(d)
  <2>1. rx' = Output(r)
    BY <1>3, <1>4
  <2>2. /\ DOMAIN r = RXFIELDS /\ r.fsm = "D_LANE4" /\ r.crc_32 = Crc(CRC_PRESET, High(d)) /\ r.aux_dw = High(d)
        /\ r.tdata_i = rx.tdata_d0 /\ r.tvalid_i = rx.tvalid_d0 /\ ~r.tlast_i /\ ~r.tuser_i
        /\ r.tdata_d0 = rx.tdata_d0 /\ r.tvalid_d0 = rx.tvalid_d0
    BY <1>1, <1>4, ShiftFields DEF RxLane4Start, RXFIELDS, LANES
  <2> HIDE DEF r
  <2>3. OutputMoves /\ SameRegisters(rx', r)
    BY <1>3, <2>1, <2>2, OutputBlock
  <2>4. High(d) = HalfSent(k, len, 0)
    BY <1>2, <1>4
  <2>5. Crc(CRC_PRESET, High(d)) = <<k, 4>>
    <3>1. HalfSent(k, len, 0) \in Words(4, Character) /\ \A i \in 1 .. 4 : HalfSent(k, len, 0)[i] = Place(k, len, 0 + i - 1)
      <4>1. PICK z \in Int : z = 0
        OBVIOUS
      <4>2. PICK u : u = HalfSent(k, len, z)
        OBVIOUS
      <4>3. HalfSpelt(u, k, len, z)
        BY <4>2, HalfLanes
      <4> QED BY <4>1, <4>2, <4>3 DEF HalfSpelt
    <3>2. \A i \in 1 .. 4 : HalfSent(k, len, 0)[i] = Byte(k, 0 + i - 1)
      BY <3>1 DEF Place
    <3>3. Covers(CRC_PRESET, k, 0) /\ 4 \in Nat \ {0} /\ 0 \in Nat /\ 0 # 1
      BY DEF Covers
    <3>4. Crc(CRC_PRESET, HalfSent(k, len, 0)) = <<k, 0 + 4>>
      BY <3>1, <3>2, <3>3, CrcGrows
    <3> QED BY <2>4, <3>4
  <2>6. /\ rx'.fsm = "D_LANE4" /\ rx'.crc_32 = <<k, 4>> /\ rx'.aux_dw = HalfSent(k, len, 0)
        /\ ~rx'.tlast_i /\ ~rx'.tuser_i /\ ~rx'.tvalid_d0
        /\ rx'.tdata_d0 = rx.tdata_d0 /\ rx'.tdata_i = rx.tdata_d0 /\ rx'.tvalid_i = rx.tvalid_d0
    BY <1>4, <2>2, <2>3, <2>4, <2>5 DEF SameRegisters
  <2>7. Stale'
    BY <1>4, <2>6 DEF Stale
  <2>8. LastOut(ok2, olen)' \/ Gone(ok2)'
    BY <1>4, <2>3, <2>6, LastMoves
  <2>9. Open \/ LastOut(ok, olen)
    BY InsideFacts
  <2>10. at + 8 = 4
    BY <1>4
  <2> QED BY <2>3, <2>6, <2>7, <2>8, <2>9, <2>10 DEF RxInside
<1>5. CASE /\ rx.fsm = "ST_LANE0" /\ at \in Nat /\ at % 8 = 0
           /\ at <= len => Covers(rx.crc_32, k, at)
           /\ Ahead(ok, olen, k, len, at)
  <2> DEFINE w == RxWord(d, d)
             r == [w EXCEPT !.tlast_i = FALSE, !.tuser_i = FALSE]
  <2>1. rx' = Output(r)
    BY <1>1, <1>3, <1>5 DEF RxLane0, LANES
  <2>2. /\ DOMAIN r = RXFIELDS /\ r.fsm = "ST_LANE0" /\ ~r.tlast_i /\ ~r.tuser_i
        /\ r.tdata_i = rx.tdata_d0 /\ r.tvalid_i = rx.tvalid_d0
        /\ r.tdata_d0 = d /\ r.tvalid_d0 /\ r.tkeep_i = 8
        /\ r.d_reg = d /\ r.crc_32 = Crc(rx.crc_32, d)
        /\ r.crcs = CrcsOf(d)
    <3>1. /\ DOMAIN w = RXFIELDS /\ w.fsm = rx.fsm
          /\ w.tdata_i = rx.tdata_d0 /\ w.tvalid_i = rx.tvalid_d0
          /\ w.tdata_d0 = d /\ w.tvalid_d0 /\ w.tkeep_i = 8
          /\ w.d_reg = d /\ w.crc_32 = Crc(rx.crc_32, d)
          /\ w.crcs = CrcsOf(d)
      BY WordFields
    <3> QED BY <1>5, <3>1 DEF RXFIELDS
  <2> HIDE DEF w, r
  <2>3. OutputMoves /\ SameRegisters(rx', r)
    BY <1>3, <2>1, <2>2, OutputBlock
  <2>4. /\ rx'.fsm = "ST_LANE0" /\ ~rx'.tlast_i /\ ~rx'.tuser_i
        /\ rx'.tdata_i = rx.tdata_d0 /\ rx'.tvalid_i = rx.tvalid_d0
        /\ rx'.tdata_d0 = d /\ rx'.tvalid_d0 /\ rx'.tkeep_i = 8
        /\ rx'.d_reg = d /\ rx'.crc_32 = Crc(rx.crc_32, d)
        /\ rx'.crcs = CrcsOf(d)
    BY <2>2, <2>3 DEF SameRegisters
  <2>5. ok2 = 0 /\ Beats(k, len, at + 8)'
    <3>1. at <= len + 8 /\ rx'.tdata_d0 = Sent(k, len, at) /\ rx'.tvalid_d0
      BY <2>4 DEF d
    <3>2. Takes(ok, olen, k, len, at)
      BY <1>5, <2>3, <2>4, <3>1 DEF Takes
    <3> QED BY <2>4, <3>1, <3>2, BeatAdded
  <2>6. Checks(k, len, at + 8)'
    <3>1. at # 1
      BY <1>5
    <3> QED BY <1>5, <2>4, <3>1, ChecksMove DEF d
  <2>7. Open \/ LastOut(ok, olen)
    BY InsideFacts
  <2>8. at + 8 >= 8 /\ (at + 8) % 8 = 0
    BY <1>5
  <2> QED BY <2>3, <2>4, <2>5, <2>6, <2>7, <2>8 DEF RxInside
<1>6. CASE /\ rx.fsm = "D_LANE4" /\ at \in Nat /\ at % 8 = 4 /\ at - 4 \in Nat /\ (at - 4) % 8 = 0
           /\ at <= len => Covers(rx.crc_32, k, at)
           /\ ~rx.tlast_i /\ ~rx.tuser_i /\ rx.aux_dw = HalfSent(k, len, at - 4)
           /\ Ahead(ok, olen, k, len, at - 4)
  <2> DEFINE data == rx.aux_dw \o Low(d)
             w == RxWord(d, data)
             r == [w EXCEPT !.aux_dw = High(d)]
  <2>1. rx' = Output(r)
    BY <1>1, <1>3, <1>6 DEF RxLane4, LANES
  <2>2. data = Sent(k, len, at - 4)
    <3>1. at - 4 \in Int /\ (at - 4) + 4 = at
      BY <1>6
    <3>2. HalfSent(k, len, at - 4) \o HalfSent(k, len, (at - 4) + 4) = Sent(k, len, at - 4)
      BY <3>1, SentHalves
    <3> QED BY <1>2, <1>6, <3>1, <3>2
  <2>3. /\ DOMAIN r = RXFIELDS /\ r.fsm = "D_LANE4" /\ ~r.tlast_i /\ ~r.tuser_i
        /\ r.tdata_i = rx.tdata_d0 /\ r.tvalid_i = rx.tvalid_d0
        /\ r.tdata_d0 = data /\ r.tvalid_d0 /\ r.tkeep_i = 8 /\ r.aux_dw = High(d)
        /\ r.d_reg = d /\ r.crc_32 = Crc(rx.crc_32, d)
        /\ r.crcs = CrcsOf(d)
    <3> HIDE DEF data
    <3>1. /\ DOMAIN w = RXFIELDS /\ w.fsm = rx.fsm
          /\ w.tdata_i = rx.tdata_d0 /\ w.tvalid_i = rx.tvalid_d0
          /\ w.tdata_d0 = data /\ w.tvalid_d0 /\ w.tkeep_i = 8
          /\ w.tuser_i = rx.tuser_i /\ w.tlast_i = rx.tlast_i
          /\ w.d_reg = d /\ w.crc_32 = Crc(rx.crc_32, d)
          /\ w.crcs = CrcsOf(d)
      BY WordFields
    <3> QED BY <1>6, <3>1 DEF RXFIELDS
  <2> HIDE DEF data, w, r
  <2>4. OutputMoves /\ SameRegisters(rx', r)
    BY <1>3, <2>1, <2>3, OutputBlock
  <2>5. /\ rx'.fsm = "D_LANE4" /\ ~rx'.tlast_i /\ ~rx'.tuser_i
        /\ rx'.tdata_i = rx.tdata_d0 /\ rx'.tvalid_i = rx.tvalid_d0
        /\ rx'.tdata_d0 = Sent(k, len, at - 4) /\ rx'.tvalid_d0 /\ rx'.tkeep_i = 8
        /\ rx'.aux_dw = HalfSent(k, len, at + 4)
        /\ rx'.d_reg = d /\ rx'.crc_32 = Crc(rx.crc_32, d)
        /\ rx'.crcs = CrcsOf(d)
    BY <1>2, <2>2, <2>3, <2>4 DEF SameRegisters
  <2>6. ok2 = 0 /\ Beats(k, len, at + 4)'
    <3>1. PICK top \in Nat : top = at - 4 /\ top % 8 = 0 /\ top + 8 = at + 4 /\ top <= len + 8
      BY <1>6
    <3>2. Ahead(ok, olen, k, len, top) /\ rx'.tdata_d0 = Sent(k, len, top)
      BY <1>6, <2>5, <3>1
    <3>3. Takes(ok, olen, k, len, top)
      BY <2>4, <2>5, <3>1, <3>2 DEF Takes
    <3>4. ok2 = 0 /\ Beats(k, len, top + 8)'
      BY <2>5, <3>2, <3>3, BeatAdded
    <3> QED BY <3>1, <3>4
  <2>7. Checks(k, len, at + 8)'
    <3>1. at # 1
      BY <1>6
    <3> QED BY <1>6, <2>5, <3>1, ChecksMove DEF d
  <2>8. Open \/ LastOut(ok, olen)
    BY InsideFacts
  <2>9. at + 8 >= 12 /\ (at + 8) % 8 = 4 /\ at + 8 - 4 = at + 4
    BY <1>6
  <2> QED BY <2>4, <2>5, <2>6, <2>7, <2>8, <2>9 DEF RxInside
<1> QED BY <1>4, <1>5, <1>6, InsideFacts

---------------------------------------------------------------------------
\* The receiver gets the end of a frame.

\* The word of the end is not the start of a frame.
LEMMA StaleWord ==
  ASSUME NEW k \in Nat, NEW len \in Nat, NEW at \in Nat, at # 0
  PROVE  Sent(k, len, at) \in Words(8, Character) /\ Foreign(Sent(k, len, at))
<1>1. Sent(k, len, at) \in Words(8, Character) /\ Sent(k, len, at)[1] = Place(k, len, at)
  <2>1. at \in Int /\ at + 1 - 1 = at /\ 1 \in 1 .. 8
    OBVIOUS
  <2> QED BY <2>1, SentLanes
<1>2. \A j \in Nat \ {0} : Place(k, len, at) # Byte(j, 0)
  BY DEF Place, Byte, T, I
<1> QED BY <1>1, <1>2 DEF Foreign

\* With TLAST at once ...
LEMMA EndsInI ==
  ASSUME NEW ok, NEW olen, NEW k, NEW len, NEW top, Takes(ok, olen, k, len, top), k # 0,
         top >= 16, NEW m \in 1 .. 8, top - 8 + m = len,
         ~rx'.tvalid_d0, rx'.tlast_i, rx'.tuser_i, rx'.tkeep_i = m
  PROVE  Popped(ok) = 0 /\ LastInI(k, len)'
<1>1. /\ Popped(ok) = 0 /\ Open'
      /\ Left' = FrameBytes(k, IF top > 8 THEN top - 8 ELSE 0)
      /\ (rx'.tvalid_i <=> top > 0)
      /\ top > 0 => rx'.tdata_i = Sent(k, len, top - 8)
  BY BeatTaken
<1>2. top \in Nat /\ k \in Nat /\ len \in Nat
  BY DEF Takes
<1>3. PICK p \in Nat : p = top - 8 /\ p + m = len
  BY <1>2
<1>4. Left' = FrameBytes(k, p) /\ rx'.tdata_i = Sent(k, len, p) /\ rx'.tvalid_i
  BY <1>1, <1>2, <1>3
<1>5. FrameBytes(k, p) \o SubSeq(Sent(k, len, p), 1, m) = FrameBytes(k, p + m)
  <2>1. Fits(k, len, p, m)
    BY <1>2, <1>3 DEF Fits
  <2>2. Joins(k, len, p, m)
    BY <2>1, PartGrows
  <2> QED BY <2>2, Zenon DEF Joins
<1>6. Left' \o SubSeq(rx'.tdata_i, 1, rx'.tkeep_i) = FrameBytes(k, len)
  BY <1>3, <1>4, <1>5
<1>7. Back(k, len, rx'.tuser_i, Left' \o SubSeq(rx'.tdata_i, 1, rx'.tkeep_i))
  BY <1>6 DEF Back
<1> QED BY <1>1, <1>4, <1>7 DEF LastInI

\* ... or one cycle later.
LEMMA EndsInD0 ==
  ASSUME NEW ok, NEW olen, NEW k, NEW len, NEW top, Takes(ok, olen, k, len, top), k # 0,
         top >= 16, NEW m \in 1 .. 8, top + m = len,
         rx'.tdata_d0 = Sent(k, len, top), rx'.tvalid_d0, rx'.tkeep_i = 8, ~rx'.tlast_i, ~rx'.tuser_i,
         rx'.last_tkeep_i = m, rx'.chk_tchar, rx'.rcved_crc = Fcs(rx'.calcted_crc)
  PROVE  Popped(ok) = 0 /\ LastInD0(k, len)'
<1>1. /\ Popped(ok) = 0 /\ Open'
      /\ Left' = FrameBytes(k, IF top > 8 THEN top - 8 ELSE 0)
      /\ (rx'.tvalid_i <=> top > 0)
      /\ top > 0 => rx'.tdata_i = Sent(k, len, top - 8)
  BY BeatTaken
<1>2. top \in Nat /\ k \in Nat /\ len \in Nat
  BY DEF Takes
<1>3. PICK p \in Nat : p = top - 8 /\ p + 8 = top /\ p + 8 <= len
  BY <1>2
<1>4. Left' = FrameBytes(k, p) /\ rx'.tdata_i = Sent(k, len, p) /\ rx'.tvalid_i
  BY <1>1, <1>2, <1>3
<1>5. FrameBytes(k, p) \o SubSeq(Sent(k, len, p), 1, 8) = FrameBytes(k, p + 8)
  <2>1. PICK n \in 1 .. 8 : n = 8
    OBVIOUS
  <2>2. Fits(k, len, p, n)
    BY <1>2, <1>3, <2>1 DEF Fits
  <2>3. Joins(k, len, p, n)
    BY <2>2, PartGrows
  <2> QED BY <2>1, <2>3 DEF Joins
<1>6. FrameBytes(k, top) \o SubSeq(Sent(k, len, top), 1, m) = FrameBytes(k, top + m)
  <2>1. Fits(k, len, top, m)
    BY <1>2 DEF Fits
  <2>2. Joins(k, len, top, m)
    BY <2>1, PartGrows
  <2> QED BY <2>2, Zenon DEF Joins
<1>7. (Left' \o SubSeq(rx'.tdata_i, 1, 8)) \o SubSeq(rx'.tdata_d0, 1, rx'.last_tkeep_i) = FrameBytes(k, len)
  BY <1>3, <1>4, <1>5, <1>6
<1>8. Back(k, len, TRUE, (Left' \o SubSeq(rx'.tdata_i, 1, 8)) \o SubSeq(rx'.tdata_d0, 1, rx'.last_tkeep_i))
  BY <1>7 DEF Back
<1> QED BY <1>1, <1>4, <1>8 DEF LastInD0, LANES

\* Its FCS is found right, wherever in its last two words it is.
RightFcs(d, n) ==
    /\ n <= 4 => FcsBefore(d, n) = Fcs(CrcBefore(n))
    /\ n <= 3 => FcsBefore(d, n) = Fcs(rx.crcs[n + 4])
    /\ n = 4 => SubSeq(d, n - 3, n) = Fcs(rx.crc_32)
    /\ n > 4 => SubSeq(d, n - 3, n) = Fcs(Crc(rx.crc_32, First(d, n - 4)))

EndsAt(k, len, at, n) ==
    k \in Nat /\ len \in Nat /\ at \in Nat /\ at >= 8 /\ n \in 0 .. 7 /\ n = len + 4 - at

\* It is the FCS and the CRC of the frame.
LEMMA FcsRight ==
  ASSUME NEW k, NEW len, NEW at, NEW n, EndsAt(k, len, at, n), Checks(k, len, at)
  PROVE  RightFcs(Sent(k, len, at), n)
<1>0. k \in Nat /\ len \in Nat /\ at \in Nat /\ at >= 8 /\ n \in 0 .. 7 /\ n = len + 4 - at
  BY DEF EndsAt
<1>1. at \in Int /\ at + n - 4 = len
  BY <1>0
<1>2. n <= 4 => FcsBefore(Sent(k, len, at), n) = Fcs(<<k, len>>)
  <2> SUFFICES ASSUME n <= 4 PROVE FcsBefore(Sent(k, len, at), n) = Fcs(<<k, len>>)
    OBVIOUS
  <2>1. n \in 0 .. 4
    BY <1>0
  <2>2. rx.d_reg = Sent(k, len, at - 8)
    BY DEF Checks, LANES
  <2>3. SubSeq(Sent(k, len, at - 8) \o Sent(k, len, at), n + 5, n + 8) = Fcs(<<k, len>>)
    BY <1>0, <1>1, <2>1, FcsInTwoWords, Zenon
  <2> QED BY <2>2, <2>3, Zenon DEF FcsBefore
<1>3. n <= 3 => rx.crcs[n + 4] = <<k, len>>
  <2> SUFFICES ASSUME n <= 3 PROVE rx.crcs[n + 4] = <<k, len>>
    OBVIOUS
  <2>1. n + 4 \in 4 .. 7 /\ at - 8 + (n + 4) = len
    BY <1>0, <1>1
  <2> QED BY <1>0, <2>1 DEF Checks, LANES
<1>4. n >= 4 => at <= len /\ rx.crc_32 = <<k, at>>
  BY <1>0 DEF Checks
<1>5. n = 4 => rx.crc_32 = <<k, len>>
  BY <1>0, <1>1, <1>4
<1>6. n >= 4 => SubSeq(Sent(k, len, at), n - 3, n) = Fcs(<<k, len>>)
  <2> SUFFICES ASSUME n >= 4 PROVE SubSeq(Sent(k, len, at), n - 3, n) = Fcs(<<k, len>>)
    OBVIOUS
  <2>1. n \in 4 .. 7
    BY <1>0
  <2> QED BY <1>0, <1>1, <2>1, FcsInWord
<1>7. n > 4 => Crc(rx.crc_32, First(Sent(k, len, at), n - 4)) = <<k, len>>
  <2> SUFFICES ASSUME n > 4 PROVE Crc(rx.crc_32, First(Sent(k, len, at), n - 4)) = <<k, len>>
    OBVIOUS
  <2>1. PICK m \in 1 .. 8 : m = n - 4
    BY <1>0
  <2>2. PICK crc : crc = rx.crc_32
    OBVIOUS
  <2>3. Covers(crc, k, at) /\ at + m <= len /\ at # 1 /\ at + m = len
    BY <1>0, <1>1, <1>4, <2>1, <2>2 DEF Covers
  <2>4. Crc(crc, First(Sent(k, len, at), m)) = <<k, at + m>>
    BY <1>0, <2>3, CrcSent
  <2> QED BY <2>1, <2>2, <2>3, <2>4
<1>8. n <= 4 => CrcBefore(n) = <<k, len>>
  BY <1>0, <1>3, <1>5 DEF CrcBefore
<1>9. n <= 4 => FcsBefore(Sent(k, len, at), n) = Fcs(CrcBefore(n))
  BY <1>2, <1>8, Zenon
<1>10. n <= 3 => FcsBefore(Sent(k, len, at), n) = Fcs(rx.crcs[n + 4])
  <2>1. n <= 3 => n <= 4
    BY <1>0
  <2> QED BY <1>2, <1>3, <2>1, Zenon
<1>11. n = 4 => SubSeq(Sent(k, len, at), n - 3, n) = Fcs(rx.crc_32)
  <2>1. n = 4 => n >= 4
    BY <1>0
  <2> QED BY <1>5, <1>6, <2>1, Zenon
<1>12. n > 4 => SubSeq(Sent(k, len, at), n - 3, n) = Fcs(Crc(rx.crc_32, First(Sent(k, len, at), n - 4)))
  <2>1. n > 4 => n >= 4
    BY <1>0
  <2> QED BY <1>6, <1>7, <2>1, Zenon
<1> QED BY <1>9, <1>10, <1>11, <1>12, Zenon DEF RightFcs

\* The edges that follow, by what they leave in the registers.
LastBeatIn(ok, olen, k, len, top, r) ==
    /\ Sound /\ Observe
    /\ ok \in Nat /\ olen \in Nat /\ k \in Nat /\ len \in Nat /\ k # 0
    /\ top \in Nat /\ top % 8 = 0 /\ top >= 16 /\ top <= len + 8
    /\ Ahead(ok, olen, k, len, top)
    /\ DOMAIN r = RXFIELDS /\ r.tdata_i = rx.tdata_d0 /\ r.tvalid_i = rx.tvalid_d0
    /\ r.tdata_d0 = Sent(k, len, top)

\* LastWas: the beat in tdata_d0 was the last.
LEMMA WasLast ==
  ASSUME NEW ok, NEW olen, NEW k, NEW len, NEW top, NEW r, LastBeatIn(ok, olen, k, len, top, r),
         NEW keep \in 1 .. 8, top - 8 + keep = len, rx' = Output(LastWas(r, keep, TRUE))
  PROVE  OutputMoves /\ Popped(ok) = 0 /\ rx'.fsm = "IDLE" /\ RxBetween(k, len)'
<1>9. /\ Sound /\ Observe /\ ok \in Nat /\ olen \in Nat /\ k \in Nat /\ len \in Nat /\ k # 0
      /\ top \in Nat /\ top % 8 = 0 /\ top >= 16 /\ top <= len + 8 /\ Ahead(ok, olen, k, len, top)
      /\ DOMAIN r = RXFIELDS /\ r.tdata_i = rx.tdata_d0 /\ r.tvalid_i = rx.tvalid_d0
      /\ r.tdata_d0 = Sent(k, len, top)
  BY DEF LastBeatIn
<1>1. PICK w : w = LastWas(r, keep, TRUE)
  OBVIOUS
<1>2. /\ DOMAIN w = RXFIELDS /\ w.fsm = "IDLE" /\ w.tkeep_i = keep /\ ~w.tvalid_d0 /\ w.tlast_i /\ w.tuser_i
      /\ w.tdata_i = r.tdata_i /\ w.tvalid_i = r.tvalid_i /\ w.tdata_d0 = r.tdata_d0
  BY <1>1, <1>9 DEF LastWas, RXFIELDS
<1>3. OutputMoves /\ SameRegisters(rx', w)
  BY <1>1, <1>2, <1>9, OutputBlock
<1>4. /\ rx'.fsm = "IDLE" /\ rx'.tkeep_i = keep /\ ~rx'.tvalid_d0 /\ rx'.tlast_i /\ rx'.tuser_i
      /\ rx'.tdata_i = rx.tdata_d0 /\ rx'.tvalid_i = rx.tvalid_d0 /\ rx'.tdata_d0 = Sent(k, len, top)
  BY <1>2, <1>3, <1>9 DEF SameRegisters
<1>5. Takes(ok, olen, k, len, top)
  BY <1>3, <1>4, <1>9 DEF Takes
<1>6. Popped(ok) = 0 /\ LastInI(k, len)'
  BY <1>4, <1>5, <1>9, EndsInI
<1>7. Stale'
  <2>1. top # 0
    BY <1>9
  <2>2. Sent(k, len, top) \in Words(8, Character) /\ Foreign(Sent(k, len, top))
    BY <1>9, <2>1, StaleWord
  <2> QED BY <1>4, <2>2 DEF Stale, Foreign, LANES
<1> QED BY <1>3, <1>4, <1>6, <1>7 DEF RxBetween

EdgeIsLast(len, top, r, keep, rcved, calcted, to) ==
    /\ keep \in 1 .. 8 /\ top + keep = len
    /\ r.tvalid_d0 /\ ~r.tlast_i /\ ~r.tuser_i /\ r.tkeep_i = 8
    /\ rcved = Fcs(calcted) /\ to \in {"FIN", "FINL4"}
    /\ rx' = Output(LastIs(r, keep, rcved, calcted, TRUE, to))

\* LastIs: the beat of this word is.
LEMMA IsLast ==
  ASSUME NEW ok, NEW olen, NEW k, NEW len, NEW top, NEW r, LastBeatIn(ok, olen, k, len, top, r),
         NEW keep, NEW rcved, NEW calcted, NEW to,
         EdgeIsLast(len, top, r, keep, rcved, calcted, to)
  PROVE  OutputMoves /\ Popped(ok) = 0 /\ rx'.fsm = to /\ RxBetween(k, len)'
<1>8. /\ keep \in 1 .. 8 /\ top + keep = len
      /\ r.tvalid_d0 /\ ~r.tlast_i /\ ~r.tuser_i /\ r.tkeep_i = 8
      /\ rcved = Fcs(calcted) /\ to \in {"FIN", "FINL4"}
      /\ rx' = Output(LastIs(r, keep, rcved, calcted, TRUE, to))
  BY DEF EdgeIsLast
<1>9. /\ Sound /\ Observe /\ ok \in Nat /\ olen \in Nat /\ k \in Nat /\ len \in Nat /\ k # 0
      /\ top \in Nat /\ top % 8 = 0 /\ top >= 16 /\ top <= len + 8 /\ Ahead(ok, olen, k, len, top)
      /\ DOMAIN r = RXFIELDS /\ r.tdata_i = rx.tdata_d0 /\ r.tvalid_i = rx.tvalid_d0
      /\ r.tdata_d0 = Sent(k, len, top)
  BY DEF LastBeatIn
<1>1. PICK w : w = LastIs(r, keep, rcved, calcted, TRUE, to)
  OBVIOUS
<1>2. /\ DOMAIN w = RXFIELDS /\ w.fsm = to /\ w.last_tkeep_i = keep /\ w.rcved_crc = rcved /\ w.calcted_crc = calcted
      /\ w.chk_tchar /\ w.tkeep_i = r.tkeep_i /\ w.tvalid_d0 = r.tvalid_d0 /\ w.tlast_i = r.tlast_i
      /\ w.tuser_i = r.tuser_i /\ w.tdata_i = r.tdata_i /\ w.tvalid_i = r.tvalid_i /\ w.tdata_d0 = r.tdata_d0
  BY <1>1, <1>9 DEF LastIs, RXFIELDS
<1>3. OutputMoves /\ SameRegisters(rx', w)
  BY <1>1, <1>2, <1>8, <1>9, OutputBlock
<1>0. rx'.rcved_crc = Fcs(rx'.calcted_crc)
  <2>1. rx'.rcved_crc = rcved /\ rx'.calcted_crc = calcted
    BY <1>2, <1>3, <1>9 DEF SameRegisters
  <2> QED BY <1>8, <2>1, Zenon
<1>4. /\ rx'.fsm = to /\ rx'.last_tkeep_i = keep
      /\ rx'.chk_tchar /\ rx'.tkeep_i = 8 /\ rx'.tvalid_d0 /\ ~rx'.tlast_i /\ ~rx'.tuser_i
      /\ rx'.tdata_i = rx.tdata_d0 /\ rx'.tvalid_i = rx.tvalid_d0 /\ rx'.tdata_d0 = Sent(k, len, top)
  <2>1. /\ rx'.fsm = to /\ rx'.last_tkeep_i = keep /\ rx'.tkeep_i = 8
        /\ rx'.tdata_i = rx.tdata_d0 /\ rx'.tdata_d0 = Sent(k, len, top)
    BY <1>2, <1>3, <1>8, <1>9 DEF SameRegisters
  <2>2. /\ rx'.chk_tchar /\ rx'.tvalid_d0 /\ ~rx'.tlast_i /\ ~rx'.tuser_i
        /\ rx'.tvalid_i = rx.tvalid_d0
    BY <1>2, <1>3, <1>8, <1>9 DEF SameRegisters
  <2> QED BY <2>1, <2>2
<1>5. Takes(ok, olen, k, len, top)
  BY <1>3, <1>4, <1>9 DEF Takes
<1>6. Popped(ok) = 0 /\ LastInD0(k, len)'
  BY <1>0, <1>4, <1>5, <1>8, <1>9, EndsInD0
<1>7. Stale'
  <2>1. top # 0
    BY <1>9
  <2>2. Sent(k, len, top) \in Words(8, Character) /\ Foreign(Sent(k, len, top))
    BY <1>9, <2>1, StaleWord
  <2> QED BY <1>4, <2>2 DEF Stale, Foreign, LANES
<1> QED BY <1>3, <1>4, <1>6, <1>7, <1>8 DEF RxBetween

\* The word with the terminate character, whatever lane it is in: the frame is
\* between the registers and the output, its FCS found right.
LEMMA EndWordEdge ==
  ASSUME Sound, NEW ok \in Nat, NEW olen \in Nat, NEW k \in Nat \ {0}, NEW len \in Nat, len > 16, NEW at \in Int,
         RxClock(Sent(k, len, at)), RxInside(ok, olen, k, len, at), NEW n \in 0 .. 7, n = len + 4 - at
  PROVE  /\ OutputMoves /\ (Open \/ LastOut(ok, olen)) /\ Popped(ok) = 0
         /\ RxBetween(k, len)' /\ rx'.fsm # "SRES"
         /\ n <= 3 => rx'.fsm \in {"IDLE", "FINL4"}
<1> DEFINE d == Sent(k, len, at)
<1>1. DataLanes(d) = n /\ CleanEnd(d) /\ d[n + 1] = T
  <2>1. n \in Int /\ n >= 0 /\ n < 8 /\ k \in Nat
    OBVIOUS
  <2> QED BY <2>1, SentDataLanes
<1>2. Low(d) = HalfSent(k, len, at)
  BY SentHalves
<1>3. at \in Nat /\ at > 12 /\ at + n - 4 = len
  OBVIOUS
<1>4. rx' = Output(CASE rx.fsm = "SRES"     -> [Shift EXCEPT !.fsm = "IDLE"]
                     [] rx.fsm = "IDLE"     -> RxIdle(d)
                     [] rx.fsm = "ST_LANE0" -> RxLane0(d)
                     [] rx.fsm = "ST_LANE4" -> RxLane4Start(d)
                     [] rx.fsm = "D_LANE4"  -> RxLane4(d)
                     [] rx.fsm \in {"FIN", "FINL4"} -> RxFin(d))
      /\ Observe
  BY DEF RxClock, RxNext
<1>5. /\ Open \/ LastOut(ok, olen)
      /\ \/ /\ rx.fsm = "ST_LANE0" /\ at % 8 = 0
            /\ Ahead(ok, olen, k, len, at) /\ Checks(k, len, at)
         \/ /\ rx.fsm = "D_LANE4" /\ at % 8 = 4
            /\ ~rx.tlast_i /\ ~rx.tuser_i /\ rx.aux_dw = HalfSent(k, len, at - 4)
            /\ Ahead(ok, olen, k, len, at - 4) /\ Checks(k, len, at)
  BY <1>3, InsideFacts
<1>6. ASSUME Checks(k, len, at)
      PROVE  /\ n <= 4 => FcsBefore(d, n) = Fcs(CrcBefore(n))
             /\ n <= 3 => FcsBefore(d, n) = Fcs(rx.crcs[n + 4])
             /\ n = 4 => SubSeq(d, n - 3, n) = Fcs(rx.crc_32)
             /\ n > 4 => SubSeq(d, n - 3, n) = Fcs(Crc(rx.crc_32, First(d, n - 4)))
  <2>1. EndsAt(k, len, at, n)
    BY <1>3 DEF EndsAt
  <2>2. RightFcs(d, n)
    BY <1>6, <2>1, FcsRight
  <2> QED BY <2>2 DEF RightFcs
<1> HIDE DEF d
<1>7. CASE /\ rx.fsm = "ST_LANE0" /\ at % 8 = 0
           /\ Ahead(ok, olen, k, len, at) /\ Checks(k, len, at)
  <2> DEFINE w == RxWord(d, d)
             r == [w EXCEPT !.tlast_i = FALSE, !.tuser_i = FALSE]
  <2>1. /\ DOMAIN r = RXFIELDS /\ ~r.tlast_i /\ ~r.tuser_i
        /\ r.tdata_i = rx.tdata_d0 /\ r.tvalid_i = rx.tvalid_d0
        /\ r.tdata_d0 = d /\ r.tvalid_d0 /\ r.tkeep_i = 8
    <3>1. /\ DOMAIN w = RXFIELDS
          /\ w.tdata_i = rx.tdata_d0 /\ w.tvalid_i = rx.tvalid_d0
          /\ w.tdata_d0 = d /\ w.tvalid_d0 /\ w.tkeep_i = 8
      BY WordFields
    <3> HIDE DEF w
    <3> QED BY <3>1 DEF RXFIELDS
  <2>2. at >= 16 /\ at <= len + 8
    BY <1>3, <1>7
  <2>3. RxLane0(d) = IF n <= 4 THEN LastWas(r, n + 4, FcsBefore(d, n) = Fcs(CrcBefore(n)) /\ d[n + 1] = T)
                     ELSE LastIs(r, n - 4, SubSeq(d, n - 3, n), Crc(rx.crc_32, First(d, n - 4)), d[n + 1] = T, "FIN")
    <3> HIDE DEF r
    <3>1. RxLane0(d) = CASE DataLanes(d) = LANES -> r
          [] CleanEnd(d) /\ DataLanes(d) <= 4 ->
                LastWas(r, DataLanes(d) + 4, FcsBefore(d, DataLanes(d)) = Fcs(CrcBefore(DataLanes(d))) /\ d[DataLanes(d) + 1] = T)
          [] CleanEnd(d) /\ DataLanes(d) \in 5 .. 7 ->
                LastIs(r, DataLanes(d) - 4, SubSeq(d, DataLanes(d) - 3, DataLanes(d)), Crc(rx.crc_32, First(d, DataLanes(d) - 4)),
                       d[DataLanes(d) + 1] = T, "FIN")
          [] OTHER -> Broken(r)
      BY DEF RxLane0, r
    <3>2. n # LANES /\ (n <= 4 \/ n \in 5 .. 7) /\ ~(n <= 4 /\ n \in 5 .. 7)
      BY DEF LANES
    <3> QED BY <1>1, <3>1, <3>2
  <2> HIDE DEF w, r
  <2>4. CASE n <= 4
    <3>1. rx' = Output(LastWas(r, n + 4, TRUE))
      <4>1. (FcsBefore(d, n) = Fcs(CrcBefore(n)) /\ d[n + 1] = T) = TRUE
        BY <1>1, <1>6, <1>7, <2>4
      <4> QED BY <1>4, <1>7, <2>3, <2>4, <4>1
    <3>2. PICK keep \in 1 .. 8 : keep = n + 4 /\ at - 8 + keep = len
      BY <1>3, <2>4
    <3>3. rx' = Output(LastWas(r, keep, TRUE)) /\ r.tdata_d0 = Sent(k, len, at)
      BY <2>1, <3>1, <3>2 DEF d
    <3>4. LastBeatIn(ok, olen, k, len, at, r)
      BY <1>3, <1>4, <1>7, <2>1, <2>2, <3>3 DEF LastBeatIn
    <3>5. OutputMoves /\ Popped(ok) = 0 /\ rx'.fsm = "IDLE" /\ RxBetween(k, len)'
      BY <3>2, <3>3, <3>4, WasLast
    <3> QED BY <1>5, <3>5
  <2>5. CASE n > 4
    <3>1. PICK calcted : calcted = Crc(rx.crc_32, First(d, n - 4))
      OBVIOUS
    <3>2. PICK rcved : rcved = SubSeq(d, n - 3, n)
      OBVIOUS
    <3>3. rcved = Fcs(calcted)
      BY <1>6, <1>7, <2>5, <3>1, <3>2
    <3>4. PICK keep \in 1 .. 8 : keep = n - 4 /\ at + keep = len
      BY <1>3, <2>5
    <3>5. rx' = Output(LastIs(r, keep, rcved, calcted, TRUE, "FIN")) /\ r.tdata_d0 = Sent(k, len, at)
      <4>1. (d[n + 1] = T) = TRUE
        BY <1>1
      <4>2. rx' = Output(RxLane0(d))
        BY <1>4, <1>7
      <4>3. RxLane0(d) = LastIs(r, n - 4, SubSeq(d, n - 3, n), Crc(rx.crc_32, First(d, n - 4)), d[n + 1] = T, "FIN")
        BY <2>3, <2>5
      <4>4. RxLane0(d) = LastIs(r, keep, rcved, calcted, TRUE, "FIN")
        BY <3>1, <3>2, <3>4, <4>1, <4>3
      <4> QED BY <2>1, <4>2, <4>4 DEF d
    <3>6. LastBeatIn(ok, olen, k, len, at, r)
      BY <1>3, <1>4, <1>7, <2>1, <2>2, <3>5 DEF LastBeatIn
    <3>7. OutputMoves /\ Popped(ok) = 0 /\ rx'.fsm = "FIN" /\ RxBetween(k, len)'
      <4>1. EdgeIsLast(len, at, r, keep, rcved, calcted, "FIN")
        BY <2>1, <3>3, <3>4, <3>5 DEF EdgeIsLast
      <4> QED BY <3>6, <4>1, IsLast
    <3> QED BY <1>5, <2>5, <3>7
  <2> QED BY <2>4, <2>5
<1>8. CASE /\ rx.fsm = "D_LANE4" /\ at % 8 = 4
           /\ ~rx.tlast_i /\ ~rx.tuser_i /\ rx.aux_dw = HalfSent(k, len, at - 4)
           /\ Ahead(ok, olen, k, len, at - 4) /\ Checks(k, len, at)
  <2> DEFINE data == rx.aux_dw \o Low(d)
             w == RxWord(d, data)
             r == [w EXCEPT !.aux_dw = High(d)]
  <2>1. PICK top \in Nat : top = at - 4 /\ top % 8 = 0 /\ top >= 16 /\ top <= len + 8 /\ top + n = len
    BY <1>3, <1>8
  <2>2. data = Sent(k, len, top)
    <3>1. top \in Int /\ top + 4 = at
      BY <2>1
    <3>2. HalfSent(k, len, top) \o HalfSent(k, len, top + 4) = Sent(k, len, top)
      BY <3>1, SentHalves
    <3> QED BY <1>2, <1>8, <2>1, <3>1, <3>2
  <2>3. /\ DOMAIN r = RXFIELDS /\ ~r.tlast_i /\ ~r.tuser_i
        /\ r.tdata_i = rx.tdata_d0 /\ r.tvalid_i = rx.tvalid_d0
        /\ r.tdata_d0 = data /\ r.tvalid_d0 /\ r.tkeep_i = 8
    <3> HIDE DEF data
    <3>1. /\ DOMAIN w = RXFIELDS
          /\ w.tdata_i = rx.tdata_d0 /\ w.tvalid_i = rx.tvalid_d0
          /\ w.tdata_d0 = data /\ w.tvalid_d0 /\ w.tkeep_i = 8
          /\ w.tlast_i = rx.tlast_i /\ w.tuser_i = rx.tuser_i
      BY WordFields
    <3> HIDE DEF w
    <3> QED BY <1>8, <3>1 DEF RXFIELDS
  <2>4. rx' = Output(RxLane4(d))
    BY <1>4, <1>8
  <2>5. RxLane4(d) = IF n = 0 THEN LastWas(r, LANES, rx.tuser_i \/ (FcsBefore(d, 0) = Fcs(CrcBefore(0)) /\ d[1] = T))
                     ELSE IF n <= 3 THEN LastIs(r, n, FcsBefore(d, n), rx.crcs[n + 4], d[n + 1] = T, "FINL4")
                     ELSE LastIs(r, n, SubSeq(d, n - 3, n),
                                 IF n = 4 THEN rx.crc_32 ELSE Crc(rx.crc_32, First(d, n - 4)), d[n + 1] = T, "FIN")
    <3> HIDE DEF r
    <3>1. RxLane4(d) = CASE DataLanes(d) = LANES -> r
          [] CleanEnd(d) /\ DataLanes(d) = 0 ->
                LastWas(r, LANES, rx.tuser_i \/ (FcsBefore(d, 0) = Fcs(CrcBefore(0)) /\ d[1] = T))
          [] CleanEnd(d) /\ DataLanes(d) \in 1 .. 3 ->
                LastIs(r, DataLanes(d), FcsBefore(d, DataLanes(d)), rx.crcs[DataLanes(d) + 4], d[DataLanes(d) + 1] = T, "FINL4")
          [] CleanEnd(d) /\ DataLanes(d) \in 4 .. 7 ->
                LastIs(r, DataLanes(d), SubSeq(d, DataLanes(d) - 3, DataLanes(d)),
                       IF DataLanes(d) = 4 THEN rx.crc_32 ELSE Crc(rx.crc_32, First(d, DataLanes(d) - 4)),
                       d[DataLanes(d) + 1] = T, "FIN")
          [] OTHER -> Broken(r)
      BY DEF RxLane4, r
    <3>2. n # LANES /\ (n = 0 \/ n \in 1 .. 3 \/ n \in 4 .. 7)
      BY DEF LANES
    <3> QED BY <1>1, <3>1, <3>2
  <2> HIDE DEF data, w, r
  <2>6. Ahead(ok, olen, k, len, top) /\ r.tdata_d0 = Sent(k, len, top)
    BY <1>8, <2>1, <2>2, <2>3
  <2>11. LastBeatIn(ok, olen, k, len, top, r)
    BY <1>4, <2>1, <2>3, <2>6 DEF LastBeatIn
  <2>7. CASE n = 0
    <3>1. (rx.tuser_i \/ (FcsBefore(d, 0) = Fcs(CrcBefore(0)) /\ d[1] = T)) = TRUE
      <4>1. n <= 4
        BY <2>7
      <4>2. FcsBefore(d, 0) = Fcs(CrcBefore(0))
        BY <1>6, <1>8, <2>7, <4>1
      <4>3. d[1] = T
        BY <1>1, <2>7
      <4> QED BY <4>2, <4>3
    <3>2. PICK keep \in 1 .. 8 : keep = LANES /\ top - 8 + keep = len
      BY <2>1, <2>7 DEF LANES
    <3>3. rx' = Output(LastWas(r, keep, TRUE))
      BY <2>4, <2>5, <2>7, <3>1, <3>2
    <3>4. OutputMoves /\ Popped(ok) = 0 /\ rx'.fsm = "IDLE" /\ RxBetween(k, len)'
      BY <2>11, <3>2, <3>3, WasLast
    <3> QED BY <1>5, <3>4
  <2>8. CASE n \in 1 .. 3
    <3>1. PICK calcted : calcted = rx.crcs[n + 4]
      OBVIOUS
    <3>2. PICK rcved : rcved = FcsBefore(d, n)
      OBVIOUS
    <3>3. rcved = Fcs(calcted)
      BY <1>6, <1>8, <2>8, <3>1, <3>2
    <3>4. PICK keep \in 1 .. 8 : keep = n /\ top + keep = len
      BY <2>1, <2>8
    <3>5. rx' = Output(LastIs(r, keep, rcved, calcted, TRUE, "FINL4"))
      <4>1. (d[n + 1] = T) = TRUE /\ n # 0 /\ n <= 3
        BY <1>1, <2>8
      <4> QED BY <2>4, <2>5, <3>1, <3>2, <3>4, <4>1
    <3>6. OutputMoves /\ Popped(ok) = 0 /\ rx'.fsm = "FINL4" /\ RxBetween(k, len)'
      <4>1. EdgeIsLast(len, top, r, keep, rcved, calcted, "FINL4")
        BY <2>3, <3>3, <3>4, <3>5 DEF EdgeIsLast
      <4> QED BY <2>11, <4>1, IsLast
    <3> QED BY <1>5, <3>6
  <2>9. CASE n \in 4 .. 7
    <3>1. PICK calcted : calcted = IF n = 4 THEN rx.crc_32 ELSE Crc(rx.crc_32, First(d, n - 4))
      OBVIOUS
    <3>2. PICK rcved : rcved = SubSeq(d, n - 3, n)
      OBVIOUS
    <3>3. rcved = Fcs(calcted)
      BY <1>6, <1>8, <2>9, <3>1, <3>2
    <3>4. PICK keep \in 1 .. 8 : keep = n /\ top + keep = len
      BY <2>1, <2>9
    <3>5. rx' = Output(LastIs(r, keep, rcved, calcted, TRUE, "FIN"))
      <4>1. (d[n + 1] = T) = TRUE /\ n # 0 /\ ~(n <= 3)
        BY <1>1, <2>9
      <4> QED BY <2>4, <2>5, <3>1, <3>2, <3>4, <4>1
    <3>6. OutputMoves /\ Popped(ok) = 0 /\ rx'.fsm = "FIN" /\ RxBetween(k, len)'
      <4>1. EdgeIsLast(len, top, r, keep, rcved, calcted, "FIN")
        BY <2>3, <3>3, <3>4, <3>5 DEF EdgeIsLast
      <4> QED BY <2>11, <4>1, IsLast
    <3> QED BY <1>5, <2>9, <3>6
  <2>10. n = 0 \/ n \in 1 .. 3 \/ n \in 4 .. 7
    OBVIOUS
  <2> QED BY <2>7, <2>8, <2>9, <2>10
<1> QED BY <1>5, <1>7, <1>8

---------------------------------------------------------------------------
\* The receiver gets the word that aborts a frame.

\* An error character ends the data lanes and makes no clean end.
LEMMA FirstControl ==
  ASSUME NEW d, NEW n \in 0 .. 6, IsControl(d[n + 1]), \A i \in 1 .. n : ~IsControl(d[i]), ~IsControl(d[n + 2])
  PROVE  DataLanes(d) = n /\ ~CleanEnd(d)
<1>1. n + 1 \in 1 .. 8
  OBVIOUS
<1>2. \A i \in 1 .. 8 : IsControl(d[i]) /\ (\A j \in 1 .. i - 1 : ~IsControl(d[j])) => i = n + 1
  <2> TAKE i \in 1 .. 8
  <2> SUFFICES ASSUME IsControl(d[i]), \A j \in 1 .. i - 1 : ~IsControl(d[j]) PROVE i = n + 1
    OBVIOUS
  <2>1. i > n
    OBVIOUS
  <2>2. ~(n + 1 \in 1 .. i - 1)
    OBVIOUS
  <2> QED BY <1>1, <2>1, <2>2
<1>3. (CHOOSE i \in 1 .. 8 : IsControl(d[i]) /\ \A j \in 1 .. i - 1 : ~IsControl(d[j])) = n + 1
  <2>1. (n + 1) - 1 = n
    OBVIOUS
  <2> QED BY <1>1, <1>2, <2>1
<1>4. DataLanes(d) = n
  BY <1>1, <1>3 DEF DataLanes, LANES
<1>5. n + 2 \in n + 1 .. 8
  OBVIOUS
<1> QED BY <1>4, <1>5 DEF CleanEnd, LANES

\* What is behind an error character.
LEMMA WasBroken ==
  ASSUME Sound, Observe, NEW ok \in Nat, NEW olen \in Nat, NEW l \in Nat, NEW top \in Nat,
         top % 8 = 0, top <= l, Ahead(ok, olen, 0, l, top), top = 0 => Stale,
         NEW r, DOMAIN r = RXFIELDS, r.tdata_i = rx.tdata_d0, r.tdata_d0 \in Words(8, Character), Foreign(r.tdata_d0),
         ~r.tuser_i, r.tkeep_i = 8, rx' = Output(Broken(r))
  PROVE  OutputMoves /\ Popped(ok) = 0 /\ rx'.fsm = "IDLE" /\ RxBetween(0, l)'
<1>1. PICK w : w = Broken(r)
  OBVIOUS
<1>2. /\ DOMAIN w = RXFIELDS /\ w.fsm = "IDLE" /\ w.tlast_i /\ ~w.tvalid_d0 /\ w.tvalid_i
      /\ w.tdata_i = r.tdata_i /\ w.tdata_d0 = r.tdata_d0 /\ w.tuser_i = r.tuser_i /\ w.tkeep_i = r.tkeep_i
  BY <1>1 DEF Broken, RXFIELDS
<1>3. OutputMoves /\ SameRegisters(rx', w)
  BY <1>1, <1>2, OutputBlock
<1>4. /\ rx'.fsm = "IDLE" /\ rx'.tlast_i /\ ~rx'.tvalid_d0 /\ rx'.tvalid_i /\ ~rx'.tuser_i
      /\ rx'.tdata_i = rx.tdata_d0 /\ rx'.tdata_d0 = r.tdata_d0 /\ rx'.tkeep_i = 8
  BY <1>2, <1>3 DEF SameRegisters
<1>5. Stale'
  BY <1>4 DEF Stale, Foreign, LANES
<1>6. Popped(ok) = 0 /\ Open' /\ Foreign(Left' \o SubSeq(rx'.tdata_i, 1, 8))
  <2>1. CASE top = 0
    <3>1. ~rx.tvalid_d0 /\ (LastOut(ok, olen) \/ Gone(ok))
      BY <2>1 DEF Ahead, LANES
    <3>2. ~rx.tvalid_i /\ Popped(ok) = 0 /\ part' = <<>>
      BY <1>3, <3>1 DEF LastOut, Gone, Popped, Open, Left, OutputMoves
    <3>3. Open' /\ Left' = <<>>
      BY <1>3, <3>2 DEF OutputMoves, Open
    <3>4. rx.tdata_d0 \in Words(8, Character) /\ Foreign(rx.tdata_d0)
      BY <2>1 DEF Stale, LANES
    <3>5. PICK v : v = rx.tdata_d0 /\ v \in Words(8, Character) /\ Foreign(v)
      BY <3>4
    <3>6. SubSeq(v, 1, 8) \in Seq(Character) /\ SubSeq(v, 1, 8)[1] = v[1]
      <4>1. PICK a \in 1 .. 8, n \in 0 .. 8 : a = 1 /\ n = 8
        OBVIOUS
      <4>2. PICK u : u = SubSeq(v, a, n)
        OBVIOUS
      <4>3. n + 1 = a + n /\ n \in Nat /\ 8 \in Nat
        BY <4>1
      <4>4. Piece(u, v, a, n, Character)
        BY <3>5, <4>2, <4>3, WordPiece
      <4>5. u \in Seq(Character) /\ u[1] = v[1]
        BY <4>1, <4>4 DEF Piece, Words
      <4> QED BY <4>1, <4>2, <4>5
    <3>7. <<>> \o SubSeq(v, 1, 8) = SubSeq(v, 1, 8)
      BY <3>6, ConcatEmptySeq
    <3>8. Foreign(<<>> \o SubSeq(v, 1, 8))
      BY <3>5, <3>6, <3>7 DEF Foreign
    <3>9. rx'.tdata_i = v
      BY <1>4, <3>5
    <3> QED BY <3>2, <3>3, <3>8, <3>9
  <2>2. CASE top >= 8
    <3>1. ok = 0 /\ Beats(0, l, top) /\ rx.tvalid_d0
      BY <2>2 DEF Ahead, Beats, LANES
    <3>2. Takes(ok, olen, 0, l, top)
      <4>1. 0 \in Nat /\ top <= l + 8
        OBVIOUS
      <4> QED BY <1>3, <1>4, <3>1, <4>1 DEF Takes
    <3>3. /\ Popped(ok) = 0 /\ Open'
          /\ Left' = FrameBytes(0, IF top > 8 THEN top - 8 ELSE 0)
          /\ (rx'.tvalid_i <=> top > 0)
          /\ top > 0 => rx'.tdata_i = Sent(0, l, top - 8)
      BY <3>2, BeatTaken
    <3>4. PICK p \in Nat : p = top - 8 /\ p + 8 = top /\ p + 8 <= l
      BY <2>2
    <3>5. Left' = FrameBytes(0, p) /\ rx'.tdata_i = Sent(0, l, p)
      BY <2>2, <3>3, <3>4
    <3>6. FrameBytes(0, p) \o SubSeq(Sent(0, l, p), 1, 8) = FrameBytes(0, p + 8)
      <4>1. PICK k \in Nat : k = 0
        OBVIOUS
      <4>2. FrameBytes(k, p) \o SubSeq(Sent(k, l, p), 1, 8) = FrameBytes(k, p + 8)
        BY <3>4, BeatGrows
      <4> QED BY <4>1, <4>2
    <3>7. FrameBytes(0, p + 8)[1] = Byte(0, 0)
      BY <2>2, <3>4 DEF FrameBytes
    <3>8. Foreign(FrameBytes(0, p + 8))
      BY <3>7 DEF Foreign, Byte
    <3>9. Left' \o SubSeq(rx'.tdata_i, 1, 8) = FrameBytes(0, p + 8)
      BY <3>5, <3>6, Zenon
    <3> QED BY <3>3, <3>8, <3>9
  <2> QED BY <2>1, <2>2
<1>7. Back(0, l, rx'.tuser_i, Left' \o SubSeq(rx'.tdata_i, 1, rx'.tkeep_i))
  BY <1>4, <1>6 DEF Back
<1>8. LastInI(0, l)'
  BY <1>4, <1>6, <1>7 DEF LastInI
<1> QED BY <1>3, <1>4, <1>5, <1>6, <1>8 DEF RxBetween

\* The word of an error character: TLAST goes to the output without TUSER.
LEMMA AbortEdge ==
  ASSUME Sound, NEW ok \in Nat, NEW olen \in Nat, NEW l \in Nat, NEW at \in Int, at >= 4, at < l, NEW d, Aborts(d, at),
         RxClock(d), RxInside(ok, olen, 0, l, at)
  PROVE  /\ OutputMoves /\ (Open \/ LastOut(ok, olen)) /\ Popped(ok) = 0
         /\ RxBetween(0, l)' /\ rx'.fsm = "IDLE"
<1>1. rx' = Output(CASE rx.fsm = "SRES"     -> [Shift EXCEPT !.fsm = "IDLE"]
                     [] rx.fsm = "IDLE"     -> RxIdle(d)
                     [] rx.fsm = "ST_LANE0" -> RxLane0(d)
                     [] rx.fsm = "ST_LANE4" -> RxLane4Start(d)
                     [] rx.fsm = "D_LANE4"  -> RxLane4(d)
                     [] rx.fsm \in {"FIN", "FINL4"} -> RxFin(d))
      /\ Observe
  BY DEF RxClock, RxNext
<1>2. /\ Open \/ LastOut(ok, olen)
      /\ \/ /\ rx.fsm = "ST_LANE0" /\ at % 8 = 0 /\ Ahead(ok, olen, 0, l, at)
         \/ /\ rx.fsm = "D_LANE4" /\ at % 8 = 4 /\ (at - 4) % 8 = 0
            /\ ~rx.tlast_i /\ ~rx.tuser_i /\ rx.aux_dw = HalfSent(0, l, at - 4)
            /\ Ahead(ok, olen, 0, l, at - 4) /\ (at = 4 => Stale)
  <2>1. PICK k \in Nat : k = 0
    OBVIOUS
  <2>2. RxInside(ok, olen, k, l, at)
    BY <2>1
  <2> QED BY <2>1, <2>2, InsideFacts
<1>3. d \in Words(8, Character)
  BY DEF Aborts, LANES
<1>4. CASE rx.fsm = "ST_LANE0" /\ at % 8 = 0 /\ Ahead(ok, olen, 0, l, at)
  <2> DEFINE w == RxWord(d, d)
             r == [w EXCEPT !.tlast_i = FALSE, !.tuser_i = FALSE]
  <2>1. /\ DOMAIN r = RXFIELDS /\ ~r.tuser_i /\ r.tdata_i = rx.tdata_d0 /\ r.tdata_d0 = d /\ r.tkeep_i = 8
    <3>1. DOMAIN w = RXFIELDS /\ w.tdata_i = rx.tdata_d0 /\ w.tdata_d0 = d /\ w.tkeep_i = 8
      BY WordFields
    <3> HIDE DEF w
    <3> QED BY <3>1 DEF RXFIELDS
  <2>2. d[1] = E /\ ~IsControl(d[2])
    BY <1>4 DEF Aborts
  <2>3. DataLanes(d) = 0 /\ ~CleanEnd(d)
    <3>1. PICK n \in 0 .. 6 : n = 0
      OBVIOUS
    <3>2. IsControl(d[n + 1]) /\ (\A i \in 1 .. n : ~IsControl(d[i])) /\ ~IsControl(d[n + 2])
      BY <2>2, <3>1 DEF IsControl
    <3> QED BY <3>1, <3>2, FirstControl
  <2>4. Foreign(d)
    BY <2>2 DEF Foreign, E, Byte
  <2>5. rx' = Output(Broken(r))
    <3> HIDE DEF r
    <3>1. RxLane0(d) = CASE DataLanes(d) = LANES -> r
          [] CleanEnd(d) /\ DataLanes(d) <= 4 ->
                LastWas(r, DataLanes(d) + 4, FcsBefore(d, DataLanes(d)) = Fcs(CrcBefore(DataLanes(d))) /\ d[DataLanes(d) + 1] = T)
          [] CleanEnd(d) /\ DataLanes(d) \in 5 .. 7 ->
                LastIs(r, DataLanes(d) - 4, SubSeq(d, DataLanes(d) - 3, DataLanes(d)), Crc(rx.crc_32, First(d, DataLanes(d) - 4)),
                       d[DataLanes(d) + 1] = T, "FIN")
          [] OTHER -> Broken(r)
      BY DEF RxLane0, r
    <3>2. RxLane0(d) = Broken(r)
      BY <2>3, <3>1 DEF LANES
    <3> QED BY <1>1, <1>4, <3>2
  <2> HIDE DEF w, r
  <2>6. at \in Nat /\ at # 0 /\ at <= l
    OBVIOUS
  <2>7. OutputMoves /\ Popped(ok) = 0 /\ rx'.fsm = "IDLE" /\ RxBetween(0, l)'
    BY <1>1, <1>3, <1>4, <2>1, <2>4, <2>5, <2>6, WasBroken
  <2> QED BY <1>2, <2>7
<1>5. CASE /\ rx.fsm = "D_LANE4" /\ at % 8 = 4 /\ (at - 4) % 8 = 0
           /\ ~rx.tlast_i /\ ~rx.tuser_i /\ rx.aux_dw = HalfSent(0, l, at - 4)
           /\ Ahead(ok, olen, 0, l, at - 4) /\ (at = 4 => Stale)
  <2> DEFINE data == rx.aux_dw \o Low(d)
             w == RxWord(d, data)
             r == [w EXCEPT !.aux_dw = High(d)]
  <2>1. /\ DOMAIN r = RXFIELDS /\ ~r.tuser_i /\ r.tdata_i = rx.tdata_d0 /\ r.tdata_d0 = data /\ r.tkeep_i = 8
    <3> HIDE DEF data
    <3>1. DOMAIN w = RXFIELDS /\ w.tdata_i = rx.tdata_d0 /\ w.tdata_d0 = data /\ w.tkeep_i = 8 /\ w.tuser_i = rx.tuser_i
      BY WordFields
    <3> HIDE DEF w
    <3> QED BY <1>5, <3>1 DEF RXFIELDS
  <2>2. /\ d[5] = E /\ ~IsControl(d[6]) /\ \A i \in 1 .. 4 : d[i] = Place(0, at + 8, at + i - 1)
    BY <1>5 DEF Aborts
  <2>3. DataLanes(d) = 4 /\ ~CleanEnd(d)
    <3>1. PICK n \in 0 .. 6 : n = 4
      OBVIOUS
    <3>2. \A i \in 1 .. 4 : ~IsControl(d[i])
      <4> TAKE i \in 1 .. 4
      <4>1. at + i - 1 \in Nat /\ at + i - 1 < at + 8 /\ ~(at + i - 1 < 0)
        OBVIOUS
      <4>2. d[i] = Byte(0, at + i - 1)
        BY <2>2, <4>1 DEF Place
      <4> QED BY <4>2 DEF IsControl, Byte, I, S, T, E
    <3>3. IsControl(d[n + 1]) /\ (\A i \in 1 .. n : ~IsControl(d[i])) /\ ~IsControl(d[n + 2])
      BY <2>2, <3>1, <3>2 DEF IsControl
    <3> QED BY <3>1, <3>3, FirstControl
  <2>4. PICK top \in Nat : top = at - 4 /\ top % 8 = 0 /\ top <= l /\ (top = 0 => at = 4)
    BY <1>5
  <2>5. data \in Words(8, Character) /\ Foreign(data)
    <3>1. PICK k \in Nat : k = 0
      OBVIOUS
    <3>2. PICK u : u = rx.aux_dw
      OBVIOUS
    <3>3. u \in Words(4, Character) /\ u[1] = Place(0, l, top)
      <4>1. top \in Int /\ u = HalfSent(k, l, top) /\ 1 \in 1 .. 4 /\ top + 1 - 1 = top
        BY <1>5, <2>4, <3>1, <3>2
      <4>2. HalfSpelt(u, k, l, top)
        BY <4>1, HalfLanes
      <4>3. u \in Words(4, Character) /\ u[1] = Place(k, l, top + 1 - 1)
        BY <4>1, <4>2, Zenon DEF HalfSpelt
      <4> QED BY <3>1, <4>1, <4>3
    <3>4. PICK v : v = Low(d)
      OBVIOUS
    <3>5. v \in Words(4, Character)
      <4>1. 8 \in Nat /\ 4 \in 0 .. 8
        OBVIOUS
      <4>2. First(d, 4) \in Words(4, Character)
        BY <1>3, <4>1, Cut, Zenon
      <4> QED BY <3>4, <4>2 DEF First, Low
    <3>6. JoinedLanes(u, 4, v, 4, Character)
      BY <3>3, <3>5, Joined
    <3>7. u \o v \in Words(8, Character) /\ (u \o v)[1] = u[1]
      <4>1. 4 + 4 = 8 /\ 1 \in 1 .. 4
        OBVIOUS
      <4>2. u \o v \in Words(4 + 4, Character) /\ \A i \in 1 .. 4 : (u \o v)[i] = u[i]
        BY <3>6, Zenon DEF JoinedLanes
      <4> QED BY <4>1, <4>2, Zenon
    <3>8. Foreign(u \o v)
      <4>1. \A j \in Nat \ {0} : Place(0, l, top) # Byte(j, 0)
        BY DEF Place, Byte, T, I
      <4> QED BY <3>3, <3>7, <4>1 DEF Foreign
    <3> QED BY <3>2, <3>4, <3>7, <3>8
  <2>6. rx' = Output(Broken(r))
    <3> HIDE DEF r
    <3>1. RxLane4(d) = CASE DataLanes(d) = LANES -> r
          [] CleanEnd(d) /\ DataLanes(d) = 0 ->
                LastWas(r, LANES, rx.tuser_i \/ (FcsBefore(d, 0) = Fcs(CrcBefore(0)) /\ d[1] = T))
          [] CleanEnd(d) /\ DataLanes(d) \in 1 .. 3 ->
                LastIs(r, DataLanes(d), FcsBefore(d, DataLanes(d)), rx.crcs[DataLanes(d) + 4], d[DataLanes(d) + 1] = T, "FINL4")
          [] CleanEnd(d) /\ DataLanes(d) \in 4 .. 7 ->
                LastIs(r, DataLanes(d), SubSeq(d, DataLanes(d) - 3, DataLanes(d)),
                       IF DataLanes(d) = 4 THEN rx.crc_32 ELSE Crc(rx.crc_32, First(d, DataLanes(d) - 4)),
                       d[DataLanes(d) + 1] = T, "FIN")
          [] OTHER -> Broken(r)
      BY DEF RxLane4, r
    <3>2. RxLane4(d) = Broken(r)
      BY <2>3, <3>1 DEF LANES
    <3> QED BY <1>1, <1>5, <3>2
  <2> HIDE DEF data, w, r
  <2>7. Ahead(ok, olen, 0, l, top) /\ (top = 0 => Stale)
    BY <1>5, <2>4
  <2>8. OutputMoves /\ Popped(ok) = 0 /\ rx'.fsm = "IDLE" /\ RxBetween(0, l)'
    BY <1>1, <2>1, <2>4, <2>5, <2>6, <2>7, WasBroken
  <2> QED BY <1>2, <2>8
<1> QED BY <1>2, <1>4, <1>5

---------------------------------------------------------------------------
\* The receiver gets idle, or the start of a frame.

\* The start characters of both preambles.
LEMMA StartOfFrame ==
  /\ ~sof_lane0(QW_IDLE) /\ ~sof_lane4(QW_IDLE)
  /\ sof_lane0(PREAMBLE_LANE0)
  /\ ~sof_lane0(PREAMBLE_LANE4) /\ sof_lane4(PREAMBLE_LANE4)
<1>1. QW_IDLE[1] = I /\ QW_IDLE[5] = I
  <2>1. PICK n \in Nat : n = 8
    OBVIOUS
  <2>2. \A i \in 1 .. n : Lanes(I, n)[i] = I
    BY DEF Lanes
  <2>3. 1 \in 1 .. n /\ 5 \in 1 .. n
    BY <2>1
  <2> QED BY <2>1, <2>2, <2>3 DEF QW_IDLE, LANES
<1>2. I # S
  BY DEF I, S
<1>3. PREAMBLE_LANE0[1] = S
  <2>1. PREAMBLE_LANE0[0 + 1] = S
    BY PreambleWords, Zenon DEF StartWord
  <2> QED BY <2>1
<1>4. PREAMBLE_LANE4[5] = S
  <2>1. PREAMBLE_LANE4[4 + 1] = S
    BY PreambleWords, Zenon DEF StartWord
  <2> QED BY <2>1
<1>5. PREAMBLE_LANE4[1] # S
  <2>1. \A i \in 1 .. 8 : i # 4 + 1 => PREAMBLE_LANE4[i] \in Plain
    BY PreambleWords, Zenon DEF StartWord, LANES
  <2>2. 1 \in 1 .. 8 /\ 1 # 4 + 1
    OBVIOUS
  <2> QED BY <2>1, <2>2, Characters
<1> QED BY <1>1, <1>2, <1>3, <1>4, <1>5 DEF sof_lane0, sof_lane4

\* Idle: what is left of a frame moves on to the output.
LEMMA IdleWordEdge ==
  ASSUME Sound, NEW ok \in Nat, NEW olen \in Nat, NEW ok2, ok2 = Popped(ok), RxClock(QW_IDLE), RxBetween(ok, olen)
  PROVE  /\ OutputMoves /\ (Open \/ LastOut(ok, olen))
         /\ RxBetween(ok2, olen)' /\ rx'.fsm = "IDLE"
<1>1. PICK d : d = QW_IDLE
  OBVIOUS
<1>2. ~sof_lane0(d) /\ ~sof_lane4(d) /\ RxClock(d)
  BY <1>1, StartOfFrame
<1>3. /\ OutputMoves /\ ~rx'.tvalid_d0 /\ Stale'
      /\ Open \/ LastOut(ok, olen)
      /\ rx.fsm = "SRES" => rx'.fsm = "IDLE" /\ Gone(ok2)'
      /\ rx.fsm = "IDLE" => /\ rx'.fsm = StateAtStart(d, "IDLE") /\ rx'.crc_32 = CRC_PRESET
                            /\ LastOut(ok2, olen)' \/ Gone(ok2)'
      /\ rx.fsm \in {"FIN", "FINL4"} => /\ rx'.fsm = StateAfterFin(d) /\ rx'.crc_32 = CRC_PRESET
                                        /\ LastInI(ok2, olen)'
  BY <1>2, RestEdge
<1>4. StateAtStart(d, "IDLE") = "IDLE" /\ StateAfterFin(d) = "IDLE"
  BY <1>2 DEF StateAtStart, StateAfterFin
<1>5. rx.fsm \in {"SRES", "IDLE", "FIN", "FINL4"}
  BY DEF RxBetween
<1>6. rx'.fsm = "IDLE" /\ (LastInI(ok2, olen)' \/ LastOut(ok2, olen)' \/ Gone(ok2)')
  BY <1>3, <1>4, <1>5
<1> QED BY <1>3, <1>6 DEF RxBetween

\* A preamble: the same, and the receiver is at the first word of a frame.
LEMMA StartWordEdge ==
  ASSUME Sound, NEW ok \in Nat, NEW olen \in Nat, NEW k \in Nat, NEW len \in Nat, NEW ok2, ok2 = Popped(ok),
         NEW d, NEW at,
         \/ d = PREAMBLE_LANE0 /\ at = 0 /\ rx.fsm = "IDLE"
         \/ d = PREAMBLE_LANE4 /\ at = 0 - 4 /\ rx.fsm \in {"IDLE", "FINL4"},
         RxClock(d), RxBetween(ok, olen)
  PROVE  /\ OutputMoves /\ (Open \/ LastOut(ok, olen))
         /\ RxInside(ok2, olen, k, len, at)'
<1>1. /\ OutputMoves /\ ~rx'.tvalid_d0 /\ Stale'
      /\ Open \/ LastOut(ok, olen)
      /\ rx.fsm = "SRES" => rx'.fsm = "IDLE" /\ Gone(ok2)'
      /\ rx.fsm = "IDLE" => /\ rx'.fsm = StateAtStart(d, "IDLE") /\ rx'.crc_32 = CRC_PRESET
                            /\ LastOut(ok2, olen)' \/ Gone(ok2)'
      /\ rx.fsm \in {"FIN", "FINL4"} => /\ rx'.fsm = StateAfterFin(d) /\ rx'.crc_32 = CRC_PRESET
                                        /\ LastInI(ok2, olen)'
  BY RestEdge
<1>2. CASE d = PREAMBLE_LANE0 /\ at = 0 /\ rx.fsm = "IDLE"
  <2>1. StateAtStart(d, "IDLE") = "ST_LANE0"
    BY <1>2, StartOfFrame DEF StateAtStart
  <2>2. rx'.fsm = "ST_LANE0" /\ rx'.crc_32 = CRC_PRESET /\ (LastOut(ok2, olen)' \/ Gone(ok2)')
    BY <1>1, <1>2, <2>1
  <2> QED BY <1>1, <1>2, <2>2 DEF RxInside
<1>3. CASE d = PREAMBLE_LANE4 /\ at = 0 - 4 /\ rx.fsm \in {"IDLE", "FINL4"}
  <2>1. ~sof_lane0(d) /\ sof_lane4(d)
    BY <1>3, StartOfFrame
  <2>2. StateAtStart(d, "IDLE") = "ST_LANE4" /\ (rx.fsm = "FINL4" => StateAfterFin(d) = "ST_LANE4")
    BY <2>1 DEF StateAtStart, StateAfterFin
  <2>3. rx'.fsm = "ST_LANE4" /\ rx'.crc_32 = CRC_PRESET /\ (LastInI(ok2, olen)' \/ LastOut(ok2, olen)' \/ Gone(ok2)')
    BY <1>1, <1>3, <2>2
  <2> QED BY <1>1, <1>3, <2>3 DEF RxInside
<1> QED BY <1>2, <1>3

---------------------------------------------------------------------------
\* Pieces of a frame.

\* A piece of m characters, the first at place at.
Spells(u, m, k, len, at) ==
    /\ m \in Nat /\ k \in Nat /\ len \in Nat /\ at \in Int
    /\ u \in Words(m, Character)
    /\ \A i \in 1 .. m : u[i] = Place(k, len, at + i - 1)

\* Two pieces in a row, the start of one, and one as long as a word.
LEMMA SpellsJoin ==
  ASSUME NEW u, NEW m, NEW v, NEW n, NEW k, NEW len, NEW at, NEW then, then = at + m,
         Spells(u, m, k, len, at), Spells(v, n, k, len, then)
  PROVE  Spells(u \o v, m + n, k, len, at)
<1>1. /\ m \in Nat /\ n \in Nat /\ k \in Nat /\ len \in Nat /\ at \in Int
      /\ u \in Words(m, Character) /\ \A i \in 1 .. m : u[i] = Place(k, len, at + i - 1)
      /\ v \in Words(n, Character) /\ \A i \in 1 .. n : v[i] = Place(k, len, then + i - 1)
  BY DEF Spells
<1>2. JoinedLanes(u, m, v, n, Character)
  BY <1>1, Joined
<1>3. ASSUME NEW i \in 1 .. m + n
      PROVE  (u \o v)[i] = Place(k, len, at + i - 1)
  <2>1. CASE i \in 1 .. m
    BY <1>1, <1>2, <2>1 DEF JoinedLanes
  <2>2. CASE ~(i \in 1 .. m)
    <3>1. i - m \in 1 .. n /\ m + (i - m) = i /\ then + (i - m) - 1 = at + i - 1
      BY <1>1, <2>2
    <3>2. (u \o v)[m + (i - m)] = v[i - m]
      BY <1>2, <3>1, Zenon DEF JoinedLanes
    <3> QED BY <1>1, <3>1, <3>2
  <2> QED BY <2>1, <2>2
<1>4. u \o v \in Words(m + n, Character) /\ m + n \in Nat
  BY <1>1, <1>2 DEF JoinedLanes
<1> QED BY <1>1, <1>3, <1>4 DEF Spells

LEMMA SpellsFirst ==
  ASSUME NEW u, NEW m, NEW k, NEW len, NEW at, Spells(u, m, k, len, at), NEW n \in 0 .. m
  PROVE  Spells(First(u, n), n, k, len, at)
<1>1. /\ m \in Nat /\ k \in Nat /\ len \in Nat /\ at \in Int /\ n \in Nat
      /\ u \in Words(m, Character) /\ \A i \in 1 .. m : u[i] = Place(k, len, at + i - 1)
  BY DEF Spells
<1>2. First(u, n) \in Words(n, Character) /\ \A i \in 1 .. n : First(u, n)[i] = u[i]
  BY <1>1, Cut
<1>3. \A i \in 1 .. n : First(u, n)[i] = Place(k, len, at + i - 1)
  BY <1>1, <1>2
<1> QED BY <1>1, <1>2, <1>3 DEF Spells

LEMMA SpellsSent ==
  ASSUME NEW u, NEW k, NEW len, NEW at, Spells(u, 8, k, len, at)
  PROVE  u = Sent(k, len, at)
<1>1. /\ k \in Nat /\ len \in Nat /\ at \in Int
      /\ u \in Words(8, Character) /\ \A i \in 1 .. 8 : u[i] = Place(k, len, at + i - 1)
  BY DEF Spells
<1>2. /\ Sent(k, len, at) \in Words(8, Character)
      /\ \A i \in 1 .. 8 : Sent(k, len, at)[i] = Place(k, len, at + i - 1)
  BY <1>1, SentLanes
<1>3. PICK w : w = Sent(k, len, at)
  OBVIOUS
<1>4. PICK n \in Nat : n = 8
  OBVIOUS
<1>5. u \in Words(n, Character) /\ w \in Words(n, Character) /\ \A i \in 1 .. n : u[i] = w[i]
  BY <1>1, <1>2, <1>3, <1>4
<1> QED BY <1>3, <1>5, SameWord

\* Halves of words and the FCS are pieces.
LEMMA HalfSpells ==
  ASSUME NEW k \in Nat, NEW len \in Nat, NEW at \in Int
  PROVE  Spells(HalfSent(k, len, at), 4, k, len, at)
<1>1. /\ HalfSent(k, len, at) \in Words(4, Character)
      /\ \A i \in 1 .. 4 : HalfSent(k, len, at)[i] = Place(k, len, at + i - 1)
  BY SentLanes
<1> QED BY <1>1 DEF Spells

LEMMA FcsSpells ==
  ASSUME NEW k \in Nat, NEW len \in Nat
  PROVE  Spells(Fcs(<<k, len>>), 4, k, len, len)
<1>1. /\ Fcs(<<k, len>>) \in Words(4, Character)
      /\ \A j \in 1 .. 4 : Fcs(<<k, len>>)[j] = Place(k, len, len + j - 1)
  BY FcsLanes
<1>2. 4 \in Nat /\ len \in Int
  OBVIOUS
<1> QED BY <1>1, <1>2 DEF Spells

\* The last bytes of a frame.
LEMMA BytesSpell ==
  ASSUME NEW w \in DataWord, NEW n \in 1 .. 8, NEW k \in Nat, NEW len \in Nat, NEW at \in Nat, at + n <= len,
         \A i \in 1 .. n : w[i] = Byte(k, at + i - 1)
  PROVE  Spells(First(w, n), n, k, len, at)
<1>1. w \in Words(8, Character)
  BY PlainWord DEF DataWord, LANES
<1>2. First(w, n) \in Words(n, Character) /\ \A i \in 1 .. n : First(w, n)[i] = w[i]
  <2>1. n \in 0 .. 8 /\ 8 \in Nat
    OBVIOUS
  <2> QED BY <1>1, <2>1, Cut, Zenon
<1>3. ASSUME NEW i \in 1 .. n
      PROVE  First(w, n)[i] = Place(k, len, at + i - 1)
  <2>1. at + i - 1 \in Nat /\ at + i - 1 < len /\ ~(at + i - 1 < 0)
    OBVIOUS
  <2>2. Place(k, len, at + i - 1) = Byte(k, at + i - 1)
    BY <2>1 DEF Place
  <2> QED BY <1>2, <2>2
<1>4. n \in Nat /\ at \in Int
  OBVIOUS
<1> QED BY <1>2, <1>3, <1>4 DEF Spells

\* Terminate and idle behind the FCS.
LEMMA SpellsEnd ==
  ASSUME NEW u, NEW m, NEW k, NEW len, NEW at, Spells(u, m, k, len, at), at + m = len + 4
  PROVE  First(u \o <<T>> \o QW_IDLE, LANES) = Sent(k, len, at)
<1>1. m \in Nat /\ k \in Nat /\ len \in Nat /\ at \in Int
  BY DEF Spells
<1>2. PICK one : one = <<T>>
  OBVIOUS
<1>3. PICK place \in Int : place = at + m
  BY <1>1
<1>4. Spells(one, 1, k, len, place)
  <2>1. Place(k, len, place) = T
    BY <1>1, <1>3 DEF Place
  <2>2. one \in Words(1, Character) /\ one[1] = T
    BY <1>2, Characters DEF Words
  <2>3. \A i \in 1 .. 1 : one[i] = Place(k, len, place + i - 1)
    BY <1>3, <2>1, <2>2
  <2> QED BY <1>1, <1>3, <2>2, <2>3 DEF Spells
<1>5. Spells(u \o one, m + 1, k, len, at)
  <2>1. PICK n : n = 1
    OBVIOUS
  <2>2. Spells(u \o one, m + n, k, len, at)
    BY <1>3, <1>4, <2>1, SpellsJoin
  <2> QED BY <2>1, <2>2
<1>6. PICK idle : idle = QW_IDLE
  OBVIOUS
<1>7. PICK after \in Int : after = at + (m + 1)
  BY <1>1
<1>8. Spells(idle, 8, k, len, after)
  <2>1. \A i \in 1 .. 8 : Place(k, len, after + i - 1) = I
    BY <1>1, <1>7 DEF Place
  <2>2. PICK n \in Nat : n = 8
    OBVIOUS
  <2>3. I \in Character
    BY Characters
  <2>4. Lanes(I, n) \in Words(n, Character) /\ \A i \in 1 .. n : Lanes(I, n)[i] = I
    BY <2>3, LanesIsWord
  <2>5. idle = Lanes(I, n)
    BY <1>6, <2>2 DEF QW_IDLE, LANES
  <2> QED BY <1>1, <1>7, <2>1, <2>2, <2>4, <2>5 DEF Spells
<1>9. PICK w, l : w = (u \o one) \o idle /\ l = (m + 1) + 8
  OBVIOUS
<1>10. Spells(w, l, k, len, at)
  <2>1. PICK v, n, n8 : v = u \o one /\ n = m + 1 /\ n8 = 8
    OBVIOUS
  <2>2. Spells(v \o idle, n + n8, k, len, at)
    BY <1>5, <1>7, <1>8, <2>1, SpellsJoin
  <2> QED BY <1>9, <2>1, <2>2
<1>11. PICK n \in 0 .. l : n = 8
  BY <1>1, <1>9
<1>12. Spells(First(w, n), n, k, len, at)
  BY <1>10, SpellsFirst
<1>13. First(w, n) = Sent(k, len, at)
  BY <1>11, <1>12, SpellsSent
<1> QED BY <1>2, <1>6, <1>9, <1>11, <1>13, Zenon DEF LANES

---------------------------------------------------------------------------
\* The beats of a frame.

BeatCount(len) == (len + LANES - 1) \div LANES

\* The beat that begins with byte 8 * (b - 1).
IsBeat(k, len, b, beat) ==
    /\ beat.valid
    /\ beat.last <=> b = BeatCount(len)
    /\ beat.user <=> k = 0 /\ b = BeatCount(len)
    /\ b < BeatCount(len) => beat.data = Sent(k, len, LANES * (b - 1))
    /\ b = BeatCount(len) =>
          /\ beat.keep = len - LANES * (b - 1)
          /\ \A i \in 1 .. beat.keep : beat.data[i] = Byte(k, LANES * (b - 1) + i - 1)

\* A frame has three beats at least.
LEMMA Counting ==
  ASSUME NEW len \in Nat, len > 16
  PROVE  /\ BeatCount(len) \in Nat /\ BeatCount(len) >= 3
         /\ 8 * (BeatCount(len) - 1) < len /\ len <= 8 * BeatCount(len)
  BY DEF BeatCount, LANES

\* The beats the FIFO hands over are those of the frame.
LEMMA StreamBeats ==
  ASSUME NEW k \in Nat, NEW len \in Nat, len > 16
  PROVE  /\ Stream(k, len) \in Seq(Beat) /\ Len(Stream(k, len)) = BeatCount(len)
         /\ \A b \in 1 .. BeatCount(len) : IsBeat(k, len, b, Stream(k, len)[b])
<1> DEFINE n == BeatCount(len)
           place(b, i) == LANES * (b - 1) + i - 1
           lanes(b) == [i \in 1 .. LANES |-> IF place(b, i) < len THEN Byte(k, place(b, i)) ELSE Junk]
           beat(b) == [valid |-> TRUE, data |-> lanes(b),
                       keep |-> IF b < n THEN LANES ELSE len - LANES * (n - 1),
                       last |-> b = n, user |-> k = 0 /\ b = n]
<1>1. n \in Nat /\ n >= 3 /\ 8 * (n - 1) < len /\ len <= 8 * n
  BY Counting
<1>2. Stream(k, len) = [b \in 1 .. n |-> beat(b)]
  BY DEF Stream, BeatsOf, BeatCount
<1>3. Stream(k, len) \in Seq(Beat)
  <2>1. PICK abort \in BOOLEAN : abort = (k = 0)
    OBVIOUS
  <2>2. BeatsOf(k, len, abort) \in Seq(Beat)
    BY FrameIsBeats
  <2> QED BY <2>1, <2>2 DEF Stream
<1>4. Len(Stream(k, len)) = n
  <2>1. PICK s : s = Stream(k, len)
    OBVIOUS
  <2>2. DOMAIN s = 1 .. n /\ DOMAIN s = 1 .. Len(s) /\ Len(s) \in Nat
    <3> HIDE DEF beat, n
    <3> QED BY <1>2, <1>3, <2>1, LenProperties
  <2>3. Len(s) = n
    <3> HIDE DEF n
    <3> QED BY <1>1, <2>2
  <2> QED BY <2>1, <2>3
<1>5. ASSUME NEW b \in 1 .. n
      PROVE  IsBeat(k, len, b, beat(b))
  <2>1. PICK at \in Nat : at = 8 * (b - 1)
    OBVIOUS
  <2>2. ASSUME b < n PROVE lanes(b) = Sent(k, len, at)
    <3>1. at + 8 <= len
      <4> HIDE DEF n
      <4> QED BY <1>1, <2>1, <2>2
    <3>2. ASSUME NEW i \in 1 .. 8
          PROVE  Place(k, len, at + i - 1) = IF place(b, i) < len THEN Byte(k, place(b, i)) ELSE Junk
      <4>1. place(b, i) = at + i - 1 /\ place(b, i) < len /\ ~(place(b, i) < 0)
        BY <2>1, <3>1 DEF LANES
      <4> QED BY <4>1 DEF Place
    <3> QED BY <3>2 DEF Sent, LANES
  <2>3. ASSUME NEW i \in 1 .. LANES, place(b, i) < len PROVE lanes(b)[i] = Byte(k, place(b, i))
    BY <2>3
  <2>4. b = n => len - LANES * (n - 1) \in 1 .. LANES /\ \A i \in 1 .. len - LANES * (n - 1) : place(b, i) < len
    <3> HIDE DEF n
    <3> QED BY <1>1 DEF LANES
  <2> HIDE DEF n, lanes
  <2>5. b = n => beat(b).keep = len - LANES * (b - 1)
    OBVIOUS
  <2>6. b = n => \A i \in 1 .. len - LANES * (b - 1) : lanes(b)[i] = Byte(k, LANES * (b - 1) + i - 1)
    BY <2>3, <2>4 DEF LANES
  <2>7. /\ beat(b).valid /\ (beat(b).last <=> b = n) /\ (beat(b).user <=> k = 0 /\ b = n)
        /\ beat(b).data = lanes(b)
    OBVIOUS
  <2> HIDE DEF beat
  <2> QED BY <2>1, <2>2, <2>5, <2>6, <2>7 DEF IsBeat, n, LANES
<1>6. \A b \in 1 .. n : Stream(k, len)[b] = beat(b)
  <2> HIDE DEF beat, n
  <2> QED BY <1>2
<1> HIDE DEF n, beat
<1>7. \A b \in 1 .. n : IsBeat(k, len, b, Stream(k, len)[b])
  BY <1>5, <1>6
<1> QED BY <1>3, <1>4, <1>7 DEF n

\* The FIFO hands over the next beat.
LEMMA NextBeat ==
  ASSUME NEW s \in Seq(Beat), NEW b \in 0 .. Len(s) - 1, NEW q, q = SubSeq(s, b + 1, Len(s))
  PROVE  /\ q # <<>> /\ Head(q) = s[b + 1]
         /\ Tail(q) = SubSeq(s, b + 2, Len(s))
         /\ b + 1 = Len(s) => Tail(q) = <<>>
<1>1. Len(s) \in Nat /\ \A i \in 1 .. Len(s) : s[i] \in Beat
  OBVIOUS
<1>2. /\ q \in Seq(Beat) /\ Len(q) = Len(s) - b
      /\ \A i \in 1 .. Len(s) - b : q[i] = s[b + i]
  <2>1. \A i \in b + 1 .. Len(s) : s[i] \in Beat
    BY <1>1
  <2>2. /\ SubSeq(s, b + 1, Len(s)) \in Seq(Beat)
        /\ Len(SubSeq(s, b + 1, Len(s))) = IF b + 1 <= Len(s) THEN Len(s) - (b + 1) + 1 ELSE 0
        /\ \A i \in 1 .. Len(s) - (b + 1) + 1 : SubSeq(s, b + 1, Len(s))[i] = s[b + 1 + i - 1]
    BY <1>1, <2>1, SubSeqProperties
  <2>3. PICK m \in Nat : m = Len(s) - b /\ m = Len(s) - (b + 1) + 1 /\ b + 1 <= Len(s)
    <3>1. Len(s) - b \in Nat /\ Len(s) - b = Len(s) - (b + 1) + 1 /\ b + 1 <= Len(s)
      BY <1>1
    <3> QED BY <3>1
  <2>4. q \in Seq(Beat) /\ Len(q) = m /\ \A i \in 1 .. m : q[i] = s[b + 1 + i - 1]
    BY <2>2, <2>3
  <2>5. \A i \in 1 .. m : b + 1 + i - 1 = b + i
    OBVIOUS
  <2>6. \A i \in 1 .. m : q[i] = s[b + i]
    BY <2>4, <2>5
  <2> QED BY <2>3, <2>4, <2>6
<1>3. q # <<>>
  BY <1>1, <1>2
<1>4. /\ Head(q) = q[1] /\ Tail(q) \in Seq(Beat) /\ Len(Tail(q)) = Len(q) - 1
      /\ \A i \in 1 .. Len(Tail(q)) : Tail(q)[i] = q[i + 1]
  BY <1>2, <1>3, HeadTailProperties
<1>5. PICK t : t = Tail(q)
  OBVIOUS
<1>6. PICK u : u = SubSeq(s, b + 2, Len(s))
  OBVIOUS
<1>7. /\ u \in Seq(Beat) /\ Len(u) = Len(s) - b - 1
      /\ \A i \in 1 .. Len(s) - b - 1 : u[i] = s[b + 1 + i]
  <2>1. \A i \in b + 2 .. Len(s) : s[i] \in Beat
    BY <1>1
  <2>2. /\ SubSeq(s, b + 2, Len(s)) \in Seq(Beat)
        /\ Len(SubSeq(s, b + 2, Len(s))) = IF b + 2 <= Len(s) THEN Len(s) - (b + 2) + 1 ELSE 0
        /\ \A i \in 1 .. Len(s) - (b + 2) + 1 : SubSeq(s, b + 2, Len(s))[i] = s[b + 2 + i - 1]
    BY <1>1, <2>1, SubSeqProperties
  <2>3. PICK m \in Nat : m = Len(s) - b - 1 /\ m = Len(s) - (b + 2) + 1 /\ (~(b + 2 <= Len(s)) => m = 0)
    <3>1. Len(s) - b - 1 \in Nat /\ Len(s) - b - 1 = Len(s) - (b + 2) + 1 /\ (~(b + 2 <= Len(s)) => Len(s) - b - 1 = 0)
      BY <1>1
    <3> QED BY <3>1
  <2>4. u \in Seq(Beat) /\ Len(u) = m /\ \A i \in 1 .. m : u[i] = s[b + 2 + i - 1]
    BY <1>6, <2>2, <2>3
  <2>5. \A i \in 1 .. m : b + 2 + i - 1 = b + 1 + i
    OBVIOUS
  <2>6. \A i \in 1 .. m : u[i] = s[b + 1 + i]
    BY <2>4, <2>5
  <2> QED BY <2>3, <2>4, <2>6
<1>8. t = u
  <2>1. Len(t) = Len(u) /\ Len(t) = Len(s) - b - 1
    BY <1>1, <1>2, <1>4, <1>5, <1>7
  <2>2. \A i \in 1 .. Len(t) : t[i] = u[i]
    <3> TAKE i \in 1 .. Len(t)
    <3>1. i + 1 \in 1 .. Len(s) - b /\ b + (i + 1) = b + 1 + i /\ i \in 1 .. Len(s) - b - 1
      BY <1>1, <2>1
    <3>2. t[i] = q[i + 1] /\ q[i + 1] = s[b + (i + 1)] /\ u[i] = s[b + 1 + i]
      BY <1>2, <1>4, <1>5, <1>7, <3>1
    <3> QED BY <3>1, <3>2
  <2>3. t \in Seq(Beat) /\ u \in Seq(Beat)
    BY <1>4, <1>5, <1>7
  <2> QED BY <2>1, <2>2, <2>3, SeqEqual
<1>9. Head(q) = s[b + 1]
  <2>1. 1 \in 1 .. Len(s) - b
    BY <1>1
  <2> QED BY <1>2, <1>4, <2>1
<1>10. b + 1 = Len(s) => Tail(q) = <<>>
  <2>1. b + 1 = Len(s) => Len(t) = 0
    <3>1. Len(t) = Len(s) - b - 1
      BY <1>7, <1>8
    <3> QED BY <1>1, <3>1
  <2>2. t \in Seq(Beat)
    BY <1>4, <1>5
  <2> QED BY <1>5, <2>1, <2>2, EmptySeq
<1> QED BY <1>3, <1>5, <1>6, <1>8, <1>9, <1>10

---------------------------------------------------------------------------
\* One clock edge of the transmitter.

TxClock ==
    /\ tx' = TxNext(IF axis = <<>> THEN NoBeat ELSE Head(axis))
    /\ axis' = IF axis # <<>> /\ tx.TREADY THEN Tail(axis) ELSE axis

TxCrcs(data) == [n \in 1 .. 7 |-> Crc(tx.crc_32, First(data, n))]

\* It takes beat b + 1 of a frame.
Fed(k, len, b, in) ==
    /\ k \in Nat /\ len \in Nat /\ len > 16 /\ b \in Nat /\ b >= 1 /\ b < BeatCount(len)
    /\ in \in Beat /\ IsBeat(k, len, b + 1, in) /\ tx' = TxNext(in)
    /\ tx.tdata_i = Sent(k, len, 8 * (b - 1)) /\ tx.crc_32 = <<k, 8 * b>>
    /\ axis' = SubSeq(Stream(k, len), b + 2, Len(Stream(k, len)))
    /\ b + 1 = BeatCount(len) => axis' = <<>>

\* A beat is there whenever the transmitter takes one inside a frame.
LEMMA BeatFed ==
  ASSUME Ready, TxClock, NEW k \in Nat, NEW len \in Nat, len > 16, NEW b, Taken(k, len, b), tx.fsm \in READY
  PROVE  \E in \in Beat : Fed(k, len, b, in)
<1>1. PICK s : s = Stream(k, len)
  OBVIOUS
<1>2. PICK n : n = BeatCount(len)
  OBVIOUS
<1>3. n \in Nat /\ n >= 3
  BY <1>2, Counting
<1>4. s \in Seq(Beat) /\ Len(s) = n /\ \A i \in 1 .. n : IsBeat(k, len, i, s[i])
  BY <1>1, <1>2, StreamBeats
<1>5. /\ b \in 1 .. n - 1 /\ axis = SubSeq(s, b + 1, Len(s))
      /\ tx.tdata_i = s[b].data /\ tx.crc_32 = <<k, 8 * b>>
  BY <1>1, <1>4 DEF Taken, LANES
<1>6. /\ axis # <<>> /\ Head(axis) = s[b + 1] /\ Tail(axis) = SubSeq(s, b + 2, Len(s))
      /\ b + 1 = Len(s) => Tail(axis) = <<>>
  <2>1. b \in 0 .. Len(s) - 1
    BY <1>3, <1>4, <1>5
  <2>2. PICK q : q = axis
    OBVIOUS
  <2>3. /\ q # <<>> /\ Head(q) = s[b + 1] /\ Tail(q) = SubSeq(s, b + 2, Len(s))
        /\ b + 1 = Len(s) => Tail(q) = <<>>
    BY <1>4, <1>5, <2>1, <2>2, NextBeat
  <2> QED BY <2>2, <2>3
<1>7. PICK in : in = s[b + 1]
  OBVIOUS
<1>8. tx' = TxNext(in) /\ axis' = Tail(axis)
  BY <1>6, <1>7 DEF TxClock, Ready
<1>9. b + 1 \in 1 .. n /\ b \in 1 .. n /\ b < n /\ b \in Nat /\ b >= 1
  BY <1>3, <1>5
<1>10. in \in Beat /\ IsBeat(k, len, b + 1, in)
  BY <1>4, <1>7, <1>9
<1>11. tx.tdata_i = Sent(k, len, 8 * (b - 1))
  <2>1. IsBeat(k, len, b, s[b])
    BY <1>4, <1>9
  <2> QED BY <1>2, <1>5, <1>9, <2>1 DEF IsBeat, LANES
<1>12. /\ axis' = SubSeq(Stream(k, len), b + 2, Len(Stream(k, len)))
       /\ b + 1 = BeatCount(len) => axis' = <<>>
  BY <1>1, <1>2, <1>4, <1>6, <1>8
<1>13. Fed(k, len, b, in)
  BY <1>2, <1>5, <1>8, <1>9, <1>10, <1>11, <1>12 DEF Fed
<1> QED BY <1>10, <1>13

\* The beat that is in the registers now: one of the middle of the frame ...
LEMMA BeatLatched ==
  ASSUME NEW k, NEW len, NEW b, NEW in, Fed(k, len, b, in), NEW next, next = b + 1, next < BeatCount(len),
         tx'.tdata_i = in.data, tx'.crc_32 = Crc(tx.crc_32, in.data)
  PROVE  Taken(k, len, next)'
<1>1. /\ k \in Nat /\ len \in Nat /\ len > 16 /\ b \in Nat /\ b >= 1
      /\ IsBeat(k, len, next, in) /\ tx.crc_32 = <<k, 8 * b>>
      /\ axis' = SubSeq(Stream(k, len), b + 2, Len(Stream(k, len)))
  BY DEF Fed
<1>2. PICK n : n = BeatCount(len)
  OBVIOUS
<1>3. n \in Nat /\ 8 * (n - 1) < len
  BY <1>1, <1>2, Counting
<1>4. PICK s : s = Stream(k, len)
  OBVIOUS
<1>5. Len(s) = n /\ \A i \in 1 .. n : IsBeat(k, len, i, s[i])
  BY <1>1, <1>2, <1>4, StreamBeats
<1>6. next \in 1 .. n - 1 /\ next \in 1 .. n /\ next + 1 = b + 2 /\ next < n
  BY <1>1, <1>2, <1>3
<1>7. PICK at \in Nat : at = 8 * b
  BY <1>1
<1>8. in.data = Sent(k, len, at) /\ s[next].data = Sent(k, len, at)
  <2>1. IsBeat(k, len, next, s[next]) /\ 8 * (next - 1) = at
    BY <1>1, <1>5, <1>6, <1>7
  <2> QED BY <1>1, <1>2, <1>6, <2>1 DEF IsBeat, LANES
<1>9. Crc(tx.crc_32, in.data) = <<k, 8 * next>>
  <2>1. PICK m \in 1 .. 8 : m = 8
    OBVIOUS
  <2>2. at # 1 /\ at + m <= len /\ at + m = 8 * next /\ at # 0
    BY <1>1, <1>2, <1>3, <1>7, <2>1
  <2>3. Covers(tx.crc_32, k, at)
    BY <1>1, <1>7, <2>2 DEF Covers
  <2>4. PICK crc : crc = tx.crc_32
    OBVIOUS
  <2>5. Crc(crc, Sent(k, len, at)) = <<k, at + m>>
    BY <1>1, <2>1, <2>2, <2>3, <2>4, CrcSent
  <2> QED BY <1>8, <2>2, <2>4, <2>5
<1>10. axis' = SubSeq(s, next + 1, Len(s))
  BY <1>1, <1>4, <1>6
<1> QED BY <1>4, <1>5, <1>6, <1>8, <1>9, <1>10 DEF Taken, LANES

\* ... or the last.
LEMMA LastLatched ==
  ASSUME NEW k, NEW len, NEW b, NEW in, Fed(k, len, b, in), b + 1 = BeatCount(len), k # 0,
         tx'.tdata_i = in.data, tx'.tkeep_i = in.keep,
         tx'.crc_32 = Crc(tx.crc_32, in.data), tx'.crcs = TxCrcs(in.data),
         NEW n, n = len - 8 * b
  PROVE  n \in 1 .. 8 /\ Closes(k, len, n)'
<1>1. /\ k \in Nat /\ len \in Nat /\ len > 16 /\ b \in Nat /\ b >= 1
      /\ in \in Beat /\ IsBeat(k, len, b + 1, in) /\ tx.crc_32 = <<k, 8 * b>>
      /\ axis' = <<>>
  BY DEF Fed
<1>2. n \in 1 .. 8 /\ n \in Nat \ {0}
  BY <1>1, Counting
<1>3. PICK at \in Nat : at = 8 * b /\ at # 0 /\ at # 1 /\ at + n = len
  <2>1. 8 * b \in Nat /\ 8 * b # 0 /\ 8 * b # 1 /\ 8 * b + n = len
    BY <1>1
  <2> QED BY <2>1
<1>4. in.keep = n /\ \A i \in 1 .. n : in.data[i] = Byte(k, at + i - 1)
  <2>1. PICK p \in Nat : p = b + 1 /\ p - 1 = b
    <3>1. b + 1 \in Nat /\ (b + 1) - 1 = b
      BY <1>1
    <3> QED BY <3>1
  <2>2. p = BeatCount(len) /\ IsBeat(k, len, p, in)
    BY <1>1, <2>1
  <2>3. /\ in.keep = len - 8 * (p - 1)
        /\ \A i \in 1 .. in.keep : in.data[i] = Byte(k, 8 * (p - 1) + i - 1)
    BY <2>2 DEF IsBeat, LANES
  <2> QED BY <1>3, <2>1, <2>3
<1>5. in.data \in Words(8, Character)
  <2>1. in.data \in DataWord
    BY <1>1, BeatFields
  <2> QED BY <2>1, PlainWord DEF DataWord, LANES
<1>6. PICK crc : crc = tx.crc_32
  OBVIOUS
<1>7. Covers(crc, k, at)
  BY <1>1, <1>3, <1>6 DEF Covers
<1>8. PICK bytes : bytes = First(in.data, n)
  OBVIOUS
<1>9. bytes \in Words(n, Character) /\ \A i \in 1 .. n : bytes[i] = Byte(k, at + i - 1)
  <2>1. n \in 0 .. 8 /\ 8 \in Nat
    BY <1>2
  <2>2. bytes \in Words(n, Character) /\ \A i \in 1 .. n : bytes[i] = in.data[i]
    BY <1>5, <1>8, <2>1, Cut, Zenon
  <2> QED BY <1>4, <2>2
<1>10. Crc(crc, bytes) = <<k, len>>
  <2>1. Crc(crc, bytes) = <<k, at + n>>
    BY <1>1, <1>2, <1>3, <1>7, <1>9, CrcGrows
  <2> QED BY <1>3, <2>1
<1>13. /\ axis' = <<>> /\ tx'.tkeep_i = n
       /\ \A i \in 1 .. n : tx'.tdata_i[i] = Byte(k, len - n + i - 1)
  <2>1. len - n = at
    BY <1>1, <1>2, <1>3
  <2> QED BY <1>1, <1>4, <2>1
<1>11. CASE n = 8
  <2>1. Crc(crc, in.data) = <<k, at + n>>
    <3>1. in.data \in Words(n, Character)
      BY <1>5, <1>11
    <3>2. PICK w : w = in.data
      OBVIOUS
    <3>3. Crc(crc, w) = <<k, at + n>>
      BY <1>1, <1>2, <1>3, <1>4, <1>7, <3>1, <3>2, CrcGrows
    <3> QED BY <3>2, <3>3
  <2>2. TxFcs(n)' = Fcs(<<k, len>>)
    BY <1>3, <1>6, <1>11, <2>1 DEF TxFcs, LANES
  <2> QED BY <1>2, <1>13, <2>2 DEF Closes, LANES
<1>12. CASE n \in 1 .. 7
  <2>1. tx'.crcs[n] = <<k, len>>
    BY <1>6, <1>8, <1>10, <1>12 DEF TxCrcs
  <2>2. n # LANES
    BY <1>12 DEF LANES
  <2>3. TxFcs(n)' = Fcs(<<k, len>>)
    BY <2>1, <2>2 DEF TxFcs
  <2> QED BY <1>2, <1>13, <2>3 DEF Closes, LANES
<1> QED BY <1>2, <1>11, <1>12

---------------------------------------------------------------------------
\* The transmitter inside a frame.

\* The registers behind a beat.
LEMMA BodyFields ==
  ASSUME tx \in Registers, NEW in, NEW word, NEW aborted, NEW final
  PROVE  LET r == Body(in, word, aborted, final)
         IN  /\ DOMAIN r = DOMAIN tx
             /\ r.tdata_i = in.data /\ r.tkeep_i = in.keep /\ r.aux_dw = tx.aux_dw
             /\ r.crc_32 = Crc(tx.crc_32, in.data) /\ r.crcs = TxCrcs(in.data)
             /\ r.TREADY <=> ~in.user /\ ~in.last
             /\ r.d = IF in.user THEN aborted ELSE word
             /\ r.fsm = IF in.user THEN "QW_IDLE" ELSE IF in.last THEN final ELSE tx.fsm
<1>1. PICK d, fsm :
        /\ d = IF in.user THEN aborted ELSE word
        /\ fsm = IF in.user THEN "QW_IDLE" ELSE IF in.last THEN final ELSE tx.fsm
  BY Zenon
<1>2. PICK crc, crcs : crc = Crc(tx.crc_32, in.data) /\ crcs = TxCrcs(in.data)
  OBVIOUS
<1>3. PICK ready \in BOOLEAN : ready = (~in.user /\ ~in.last)
  OBVIOUS
<1>4. PICK r : r = [tx EXCEPT !.tdata_i = in.data, !.tkeep_i = in.keep, !.TREADY = ready,
                              !.d = d, !.crc_32 = crc, !.crcs = crcs, !.fsm = fsm]
  OBVIOUS
<1>5. Body(in, word, aborted, final) = r
  BY <1>1, <1>2, <1>3, <1>4 DEF Body, Latch, Registers, TxCrcs
<1>6. DOMAIN tx = {"fsm", "TREADY", "d", "dic", "tdata_i", "tkeep_i", "aux_dw", "crc_32", "crcs", "fcs", "lane"}
  BY DEF Registers
<1>7. /\ DOMAIN r = DOMAIN tx /\ r.tdata_i = in.data /\ r.tkeep_i = in.keep /\ r.aux_dw = tx.aux_dw
      /\ r.crc_32 = crc /\ r.crcs = crcs /\ r.d = d /\ r.fsm = fsm
  BY <1>4, <1>6
<1>8. r.TREADY = ready
  BY <1>4, <1>6
<1> QED BY <1>1, <1>2, <1>3, <1>5, <1>7, <1>8

\* Beats inside a frame.
LEMMA BeatAborted ==
  ASSUME NEW len \in Nat, NEW at \in Nat, NEW w, w = Sent(0, len, at)
  PROVE  /\ at % 8 = 0 /\ at < len => Aborts([w EXCEPT ![1] = E, ![8] = T], at)
         /\ at % 8 = 4 /\ at + 4 < len => Aborts([w EXCEPT ![5] = E], at)
<1>1. w \in Words(8, Character) /\ \A i \in 1 .. 8 : w[i] = Place(0, len, at + i - 1)
  <2>1. PICK k \in Nat : k = 0
    OBVIOUS
  <2>2. at \in Int
    OBVIOUS
  <2>3. Sent(k, len, at) \in Words(8, Character) /\ \A i \in 1 .. 8 : Sent(k, len, at)[i] = Place(k, len, at + i - 1)
    BY <2>2, SentLanes
  <2> QED BY <2>1, <2>3
<1>2. /\ at < len => ~IsControl(Place(0, len, at + 1))
      /\ at + 4 < len => ~IsControl(Place(0, len, at + 5))
  <2>1. PICK k \in Nat : k = 0
    OBVIOUS
  <2>2. PICK p \in Int : p = at + 1
    OBVIOUS
  <2>3. PICK q \in Int : q = at + 5
    OBVIOUS
  <2>4. /\ IsControl(Place(k, len, p)) <=> p >= len + 4
        /\ IsControl(Place(k, len, q)) <=> q >= len + 4
    BY PlaceIsCharacter
  <2> QED BY <2>1, <2>2, <2>3, <2>4
<1>3. DOMAIN w = 1 .. 8
  BY <1>1, LenProperties DEF Words
<1>4. [w EXCEPT ![1] = E, ![8] = T] \in Words(8, Character) /\ [w EXCEPT ![5] = E] \in Words(8, Character)
  <2>1. 1 \in 1 .. 8 /\ 5 \in 1 .. 8 /\ 8 \in 1 .. 8 /\ 8 \in Nat
    OBVIOUS
  <2>2. /\ [w EXCEPT ![1] = E] \in Words(8, Character)
        /\ [w EXCEPT ![5] = E] \in Words(8, Character)
    BY <1>1, <2>1, OneLane, Characters, Zenon
  <2>3. SUFFICES ASSUME NEW v \in Words(8, Character)
                 PROVE  [v EXCEPT ![8] = T] \in Words(8, Character)
    BY <2>2
  <2> QED BY <2>1, OneLane, Characters, Zenon
<1>5. ASSUME at % 8 = 0, at < len PROVE Aborts([w EXCEPT ![1] = E, ![8] = T], at)
  <2>1. w[2] = Place(0, len, at + 1)
    <3>1. 2 \in 1 .. 8 /\ at + 2 - 1 = at + 1
      OBVIOUS
    <3> QED BY <1>1, <3>1
  <2>2. [w EXCEPT ![1] = E, ![8] = T][1] = E /\ [w EXCEPT ![1] = E, ![8] = T][2] = w[2]
    BY <1>3
  <2> QED BY <1>2, <1>4, <1>5, <2>1, <2>2 DEF Aborts, LANES
<1>6. ASSUME at % 8 = 4, at + 4 < len PROVE Aborts([w EXCEPT ![5] = E], at)
  <2>1. w[6] = Place(0, len, at + 5)
    <3>1. 6 \in 1 .. 8 /\ at + 6 - 1 = at + 5
      OBVIOUS
    <3> QED BY <1>1, <3>1
  <2>2. /\ [w EXCEPT ![5] = E][5] = E /\ [w EXCEPT ![5] = E][6] = w[6]
        /\ \A i \in 1 .. 4 : [w EXCEPT ![5] = E][i] = w[i]
    BY <1>3
  <2>3. ASSUME NEW i \in 1 .. 4
        PROVE  w[i] = Place(0, at + 8, at + i - 1)
    <3>1. i \in 1 .. 8 /\ at + i - 1 < len /\ at + i - 1 < at + 8 /\ ~(at + i - 1 < 0)
      BY <1>6
    <3>2. w[i] = Place(0, len, at + i - 1)
      BY <1>1, <3>1
    <3> QED BY <3>1, <3>2 DEF Place
  <2> QED BY <1>2, <1>4, <1>6, <2>1, <2>2, <2>3 DEF Aborts, LANES
<1> QED BY <1>5, <1>6

\* What a word of a frame is followed by.
BodyNext(k, len, at) ==
    \/ tx.d = Sent(k, len, at) /\ TxInside(k, len, at)
    \/ k = 0 /\ axis = <<>> /\ tx.fsm = "QW_IDLE" /\ Aborts(tx.d, at) /\ at >= 4 /\ at < len

\* The beat before goes out in one word.
LEMMA BodyLane0 ==
  ASSUME tx \in Registers, NEW k, NEW len, NEW b, NEW in, Fed(k, len, b, in), tx.fsm = "ST_LANE0",
         NEW at \in Nat, at = 8 * (b - 1), k = 0 => b > 1 \/ b + 1 < BeatCount(len)
  PROVE  BodyNext(k, len, at)' /\ Ready'
<1>1. /\ k \in Nat /\ len \in Nat /\ len > 16 /\ b \in Nat /\ b >= 1 /\ b < BeatCount(len)
      /\ IsBeat(k, len, b + 1, in) /\ tx' = TxNext(in) /\ tx.tdata_i = Sent(k, len, at)
      /\ b + 1 = BeatCount(len) => axis' = <<>>
  BY DEF Fed
<1>2. PICK word, aborted : word = tx.tdata_i /\ aborted = [word EXCEPT ![1] = E, ![8] = T]
  OBVIOUS
<1>3. tx' = Body(in, word, aborted, "L0_FIN")
  BY <1>1, <1>2 DEF TxNext, TxLane0
<1>4. /\ tx'.tdata_i = in.data /\ tx'.tkeep_i = in.keep
      /\ tx'.crc_32 = Crc(tx.crc_32, in.data) /\ tx'.crcs = TxCrcs(in.data)
      /\ tx'.TREADY <=> ~in.user /\ ~in.last
      /\ tx'.d = IF in.user THEN aborted ELSE word
      /\ tx'.fsm = IF in.user THEN "QW_IDLE" ELSE IF in.last THEN "L0_FIN" ELSE tx.fsm
  BY <1>3, BodyFields
<1>5. PICK next \in Nat : next = b + 1
  <2>1. b + 1 \in Nat
    BY <1>1
  <2> QED BY <2>1
<1>6. (in.last <=> next = BeatCount(len)) /\ (in.user <=> k = 0 /\ next = BeatCount(len))
  BY <1>1, <1>5 DEF IsBeat
<1>7. BeatCount(len) \in Nat /\ 8 * (BeatCount(len) - 1) < len
  BY <1>1, Counting
<1>8. CASE next # BeatCount(len)
  <2>1. next < BeatCount(len)
    BY <1>1, <1>5, <1>7, <1>8
  <2>2. Taken(k, len, next)'
    BY <1>4, <1>5, <2>1, BeatLatched
  <2>3. ~in.user /\ ~in.last
    BY <1>6, <1>8
  <2>4. tx'.fsm = "ST_LANE0" /\ tx'.d = Sent(k, len, at) /\ tx'.TREADY
    BY <1>1, <1>2, <1>4, <2>3
  <2>5. at % 8 = 0 /\ at >= 0 /\ at = LANES * (next - 2)
    BY <1>1, <1>5 DEF LANES
  <2>6. TxInside(k, len, at)'
    BY <2>2, <2>4, <2>5 DEF TxInside
  <2> QED BY <2>4, <2>6 DEF BodyNext, Ready, READY
<1>9. CASE next = BeatCount(len) /\ k # 0
  <2>1. PICK n : n = len - 8 * b
    OBVIOUS
  <2>2. n \in 1 .. 8 /\ Closes(k, len, n)'
    BY <1>4, <1>5, <1>9, <2>1, LastLatched
  <2>3. ~in.user /\ in.last
    BY <1>6, <1>9
  <2>4. tx'.fsm = "L0_FIN" /\ tx'.d = Sent(k, len, at) /\ ~tx'.TREADY
    BY <1>1, <1>2, <1>4, <2>3
  <2>5. at + 8 < len /\ len - (at + 8) = n
    BY <1>1, <1>5, <1>7, <1>9, <2>1
  <2>6. TxInside(k, len, at)'
    BY <2>2, <2>4, <2>5 DEF TxInside
  <2> QED BY <2>4, <2>6 DEF BodyNext, Ready, READY
<1>10. CASE next = BeatCount(len) /\ k = 0
  <2>1. in.user
    BY <1>6, <1>10
  <2>2. tx'.fsm = "QW_IDLE" /\ tx'.d = aborted /\ ~tx'.TREADY /\ axis' = <<>>
    BY <1>1, <1>4, <1>5, <1>10, <2>1
  <2>3. at % 8 = 0 /\ at >= 4 /\ at < len
    BY <1>1, <1>5, <1>7, <1>10
  <2>4. Aborts(aborted, at)
    <3>1. word = Sent(0, len, at)
      BY <1>1, <1>2, <1>10
    <3> QED BY <1>1, <1>2, <2>3, <3>1, BeatAborted
  <2> QED BY <1>10, <2>2, <2>3, <2>4 DEF BodyNext, Ready, READY
<1> QED BY <1>8, <1>9, <1>10

\* The same four lanes later.
LEMMA BodyLane4 ==
  ASSUME tx \in Registers, NEW k, NEW len, NEW b, NEW in, Fed(k, len, b, in), tx.fsm = "ST_LANE4_D",
         NEW at \in Nat, at = 8 * (b - 1) - 4, tx.aux_dw = HalfSent(k, len, at)
  PROVE  BodyNext(k, len, at)' /\ Ready'
<1>1. /\ k \in Nat /\ len \in Nat /\ len > 16 /\ b \in Nat /\ b >= 1 /\ b < BeatCount(len)
      /\ IsBeat(k, len, b + 1, in) /\ tx' = TxNext(in) /\ tx.tdata_i = Sent(k, len, 8 * (b - 1))
      /\ b + 1 = BeatCount(len) => axis' = <<>>
  BY DEF Fed
<1>2. PICK then \in Int : then = at + 4
  OBVIOUS
<1>3. tx.tdata_i = Sent(k, len, then)
  BY <1>1, <1>2
<1>4. PICK word, aborted, r :
        /\ word = tx.aux_dw \o Low(tx.tdata_i) /\ aborted = [word EXCEPT ![5] = E]
        /\ r = Body(in, word, aborted, "L4_FIN")
  OBVIOUS
<1>5. word = Sent(k, len, at)
  <2>1. Low(tx.tdata_i) = HalfSent(k, len, then)
    <3>1. Low(Sent(k, len, then)) = HalfSent(k, len, then)
      BY <1>1, SentHalves
    <3> QED BY <1>3, <3>1, Zenon
  <2>2. HalfSent(k, len, at) \o HalfSent(k, len, at + 4) = Sent(k, len, at)
    <3>1. at \in Int
      OBVIOUS
    <3> QED BY <1>1, <3>1, SentHalves
  <2> QED BY <1>2, <1>4, <2>1, <2>2
<1>6. High(tx.tdata_i) = HalfSent(k, len, then + 4)
  <2>1. High(Sent(k, len, then)) = HalfSent(k, len, then + 4)
    BY <1>1, SentHalves
  <2> QED BY <1>3, <2>1, Zenon
<1>7. tx' = [r EXCEPT !.aux_dw = High(tx.tdata_i)]
  BY <1>1, <1>4 DEF TxNext, TxLane4
<1>8. /\ DOMAIN r = DOMAIN tx /\ r.tdata_i = in.data /\ r.tkeep_i = in.keep
      /\ r.crc_32 = Crc(tx.crc_32, in.data) /\ r.crcs = TxCrcs(in.data)
      /\ r.TREADY <=> ~in.user /\ ~in.last
      /\ r.d = IF in.user THEN aborted ELSE word
      /\ r.fsm = IF in.user THEN "QW_IDLE" ELSE IF in.last THEN "L4_FIN" ELSE tx.fsm
  BY <1>4, BodyFields
<1>9. DOMAIN tx = {"fsm", "TREADY", "d", "dic", "tdata_i", "tkeep_i", "aux_dw", "crc_32", "crcs", "fcs", "lane"}
  BY DEF Registers
<1>10. /\ tx'.tdata_i = r.tdata_i /\ tx'.tkeep_i = r.tkeep_i /\ tx'.crc_32 = r.crc_32 /\ tx'.crcs = r.crcs
       /\ tx'.TREADY = r.TREADY /\ tx'.d = r.d /\ tx'.fsm = r.fsm
       /\ tx'.aux_dw = High(tx.tdata_i)
  BY <1>7, <1>8, <1>9
<1>11. /\ tx'.tdata_i = in.data /\ tx'.tkeep_i = in.keep
       /\ tx'.crc_32 = Crc(tx.crc_32, in.data) /\ tx'.crcs = TxCrcs(in.data)
       /\ tx'.aux_dw = HalfSent(k, len, at + 8)
  <2>1. then + 4 = at + 8
    BY <1>2
  <2> QED BY <1>6, <1>8, <1>10, <2>1
<1>12. /\ tx'.TREADY <=> ~in.user /\ ~in.last
       /\ tx'.d = IF in.user THEN aborted ELSE word
       /\ tx'.fsm = IF in.user THEN "QW_IDLE" ELSE IF in.last THEN "L4_FIN" ELSE "ST_LANE4_D"
  BY <1>8, <1>10
<1>13. PICK next \in Nat : next = b + 1
  <2>1. b + 1 \in Nat
    BY <1>1
  <2> QED BY <2>1
<1>14. (in.last <=> next = BeatCount(len)) /\ (in.user <=> k = 0 /\ next = BeatCount(len))
  BY <1>1, <1>13 DEF IsBeat
<1>15. BeatCount(len) \in Nat /\ 8 * (BeatCount(len) - 1) < len
  BY <1>1, Counting
<1>16. CASE next # BeatCount(len)
  <2>1. next < BeatCount(len)
    BY <1>1, <1>13, <1>15, <1>16
  <2>2. Taken(k, len, next)'
    BY <1>11, <1>13, <2>1, BeatLatched
  <2>3. ~in.user /\ ~in.last
    BY <1>14, <1>16
  <2>4. tx'.fsm = "ST_LANE4_D" /\ tx'.d = Sent(k, len, at) /\ tx'.TREADY
    BY <1>5, <1>12, <2>3
  <2>5. at >= 0 - 4 /\ at = LANES * (next - 2) - 4 /\ tx'.aux_dw = HalfSent(k, len, at + LANES)
    BY <1>1, <1>11, <1>13 DEF LANES
  <2>6. TxInside(k, len, at)'
    BY <2>2, <2>4, <2>5 DEF TxInside
  <2> QED BY <2>4, <2>6 DEF BodyNext, Ready, READY
<1>17. CASE next = BeatCount(len) /\ k # 0
  <2>1. PICK n : n = len - 8 * b
    OBVIOUS
  <2>2. n \in 1 .. 8 /\ Closes(k, len, n)'
    BY <1>11, <1>13, <1>17, <2>1, LastLatched
  <2>3. ~in.user /\ in.last
    BY <1>14, <1>17
  <2>4. tx'.fsm = "L4_FIN" /\ tx'.d = Sent(k, len, at) /\ ~tx'.TREADY
    BY <1>5, <1>12, <2>3
  <2>5. at + 12 < len /\ len - (at + 12) = n /\ at % 8 = 4 /\ tx'.aux_dw = HalfSent(k, len, at + LANES)
    BY <1>1, <1>11, <1>13, <1>15, <1>17, <2>1 DEF LANES
  <2>6. TxInside(k, len, at)'
    BY <2>2, <2>4, <2>5 DEF TxInside
  <2> QED BY <2>4, <2>6 DEF BodyNext, Ready, READY
<1>18. CASE next = BeatCount(len) /\ k = 0
  <2>1. in.user
    BY <1>14, <1>18
  <2>2. tx'.fsm = "QW_IDLE" /\ tx'.d = aborted /\ ~tx'.TREADY /\ axis' = <<>>
    BY <1>1, <1>12, <1>13, <1>18, <2>1
  <2>3. at % 8 = 4 /\ at >= 4 /\ at < len /\ at + 4 < len
    BY <1>1, <1>13, <1>15, <1>18
  <2>4. Aborts(aborted, at)
    <3>1. word = Sent(0, len, at)
      BY <1>5, <1>18
    <3> QED BY <1>1, <1>4, <2>3, <3>1, BeatAborted
  <2> QED BY <1>18, <2>2, <2>3, <2>4 DEF BodyNext, Ready, READY
<1> QED BY <1>16, <1>17, <1>18

\* The preamble of a frame that starts in lane 4 ends in the word of its first
\* bytes.
LEMMA Lane4Begins ==
  ASSUME tx \in Registers, NEW k, NEW len, NEW in, Fed(k, len, 1, in), tx.fsm = "ST_LANE4", Ready,
         NEW at, at = 0 - 4
  PROVE  tx'.d = Sent(k, len, at) /\ TxInside(k, len, at)' /\ Ready'
<1>0. PICK b \in Nat : b = 1
  OBVIOUS
<1>1. /\ k \in Nat /\ len \in Nat /\ len > 16 /\ b + 1 < BeatCount(len) /\ Fed(k, len, b, in)
      /\ IsBeat(k, len, b + 1, in) /\ tx' = TxNext(in) /\ tx.tdata_i = Sent(k, len, 8 * (b - 1))
  <2>1. Fed(k, len, b, in)
    BY <1>0
  <2>2. k \in Nat /\ len \in Nat /\ len > 16 /\ IsBeat(k, len, b + 1, in) /\ tx' = TxNext(in)
        /\ tx.tdata_i = Sent(k, len, 8 * (b - 1))
    BY <2>1 DEF Fed
  <2> QED BY <1>0, <2>1, <2>2, Counting
<1>2. PICK zero \in Nat : zero = 0
  OBVIOUS
<1>3. tx.tdata_i = Sent(k, len, zero)
  <2>1. 8 * (b - 1) = zero
    BY <1>0, <1>2
  <2> QED BY <1>1, <2>1
<1>4. ~in.user
  BY <1>1 DEF IsBeat
<1>5. PICK word : word = PREAMBLE_LANE4_END \o Low(tx.tdata_i)
  OBVIOUS
<1>6. tx' = [Latch(in) EXCEPT !.aux_dw = High(tx.tdata_i), !.crc_32 = Crc(tx.crc_32, in.data),
                              !.d = word, !.TREADY = tx.TREADY, !.fsm = "ST_LANE4_D"]
  <2>1. tx' = [Latch(in) EXCEPT
                 !.aux_dw = High(tx.tdata_i), !.crc_32 = Crc(tx.crc_32, in.data),
                 !.d = word, !.TREADY = @, !.fsm = "ST_LANE4_D"]
    BY <1>1, <1>4, <1>5 DEF TxNext, TxLane4Start
  <2>2. Latch(in).TREADY = tx.TREADY
    BY DEF Latch, Registers
  <2> QED BY <2>1, <2>2 DEF Latch, Registers
<1>7. /\ tx'.fsm = "ST_LANE4_D" /\ tx'.d = word /\ tx'.aux_dw = High(tx.tdata_i)
      /\ tx'.tdata_i = in.data /\ tx'.crc_32 = Crc(tx.crc_32, in.data)
  BY <1>6 DEF Latch, Registers
<1>8. tx'.TREADY = tx.TREADY
  BY <1>6 DEF Latch, Registers
<1>9. word = Sent(k, len, at)
  <2>1. at \in Int /\ zero \in Int /\ at + 4 = zero
    BY <1>2
  <2>2. PREAMBLE_LANE4_END = HalfSent(k, len, at)
    <3>1. \A i \in 1 .. 4 : Place(k, len, at + i - 1) = Preamble
      BY DEF Place
    <3> QED BY <3>1 DEF PREAMBLE_LANE4_END, Lanes, HalfSent
  <2>3. Low(tx.tdata_i) = HalfSent(k, len, zero)
    <3>1. Low(Sent(k, len, zero)) = HalfSent(k, len, zero)
      BY <1>1, <2>1, SentHalves
    <3> QED BY <1>3, <3>1, Zenon
  <2>4. HalfSent(k, len, at) \o HalfSent(k, len, at + 4) = Sent(k, len, at)
    BY <1>1, <2>1, SentHalves
  <2> QED BY <1>5, <2>1, <2>2, <2>3, <2>4
<1>10. tx'.aux_dw = HalfSent(k, len, at + LANES)
  <2>1. High(tx.tdata_i) = HalfSent(k, len, zero + 4)
    <3>1. zero \in Int
      OBVIOUS
    <3>2. High(Sent(k, len, zero)) = HalfSent(k, len, zero + 4)
      BY <1>1, <3>1, SentHalves
    <3> QED BY <1>3, <3>2, Zenon
  <2>2. zero + 4 = at + LANES
    BY <1>2 DEF LANES
  <2> QED BY <1>7, <2>1, <2>2
<1>11. PICK next \in Nat : next = b + 1
  OBVIOUS
<1>12. Taken(k, len, next)'
  BY <1>1, <1>7, <1>11, BeatLatched
<1>13. at >= 0 - 4 /\ at = LANES * (next - 2) - 4
  BY <1>0, <1>11 DEF LANES
<1>14. TxInside(k, len, at)'
  BY <1>7, <1>10, <1>12, <1>13 DEF TxInside
<1>15. Ready'
  BY <1>7, <1>8 DEF Ready, READY
<1> QED BY <1>7, <1>9, <1>14, <1>15

\* The end of a frame that began in lane 0 ...
LEMMA FinalWord ==
  ASSUME tx \in Registers, TxClock, Ready, tx.fsm = "L0_FIN", NEW k \in Nat, NEW len \in Nat, NEW at \in Nat,
         NEW m, m = len - at, Closes(k, len, m)
  PROVE  tx'.d = Sent(k, len, at) /\ TxInside(k, len, at)' /\ Ready'
<1>1. /\ k # 0 /\ axis = <<>> /\ tx.tkeep_i = m /\ m \in 1 .. 8
      /\ \A i \in 1 .. m : tx.tdata_i[i] = Byte(k, len - m + i - 1)
      /\ TxFcs(m) = Fcs(<<k, len>>)
  BY DEF Closes, LANES
<1>2. PICK n \in 1 .. 8 : n = m
  BY <1>1
<1>3. PICK rest, word :
        /\ rest = First(tx.tdata_i, n) \o TxFcs(n)
        /\ word = First(rest \o <<T>> \o QW_IDLE, LANES)
        /\ tx' = [tx EXCEPT !.d = word, !.fcs = TxFcs(n), !.lane = (n + 4) % 8, !.fsm = "T_LANE"]
  BY <1>1, <1>2 DEF TxClock, TxNext, TxFin0
<1>4. Spells(rest, n + 4, k, len, at)
  <2>1. tx.tdata_i \in DataWord /\ at + n <= len /\ \A i \in 1 .. n : tx.tdata_i[i] = Byte(k, at + i - 1)
    <3>1. len - m = at
      BY <1>1
    <3> QED BY <1>1, <1>2, <3>1, TxRegisters
  <2>2. PICK u, v : u = First(tx.tdata_i, n) /\ v = Fcs(<<k, len>>)
    OBVIOUS
  <2>3. Spells(u, n, k, len, at)
    BY <2>1, <2>2, BytesSpell
  <2>4. Spells(v, 4, k, len, len)
    BY <2>2, FcsSpells
  <2>5. PICK four : four = 4
    OBVIOUS
  <2>6. len = at + n
    BY <1>1, <1>2
  <2>7. Spells(u \o v, n + four, k, len, at)
    BY <2>3, <2>4, <2>5, <2>6, SpellsJoin
  <2>8. rest = u \o v
    BY <1>1, <1>2, <1>3, <2>2
  <2> QED BY <2>5, <2>7, <2>8
<1>5. word = Sent(k, len, at)
  <2>1. PICK l : l = n + 4
    OBVIOUS
  <2>2. at + l = len + 4
    BY <1>1, <1>2, <2>1
  <2>3. Spells(rest, l, k, len, at)
    BY <1>4, <2>1
  <2> QED BY <1>3, <2>2, <2>3, SpellsEnd
<1>6. PICK lane \in 0 .. 7 : /\ lane = (n + 4) % 8
                             /\ lane <= 4 => len + 4 - (at + 8) = lane
                             /\ lane > 4 => len + 4 - at = lane
  <2>1. (n + 4) % 8 = IF n < 4 THEN n + 4 ELSE n - 4
    OBVIOUS
  <2> QED BY <1>1, <1>2, <2>1
<1>7. tx'.d = word /\ tx'.fcs = Fcs(<<k, len>>) /\ tx'.lane = lane /\ tx'.fsm = "T_LANE"
  BY <1>1, <1>2, <1>3, <1>6 DEF Registers
<1>8. axis' = <<>> /\ tx'.TREADY = tx.TREADY
  BY <1>1, <1>3 DEF TxClock, Registers
<1>9. TxInside(k, len, at)'
  BY <1>1, <1>6, <1>7, <1>8 DEF TxInside, LANES
<1>10. Ready'
  BY <1>7, <1>8 DEF Ready, READY
<1> QED BY <1>5, <1>7, <1>9, <1>10

\* ... or in lane 4.
LEMMA HalfFinalWord ==
  ASSUME tx \in Registers, TxClock, Ready, tx.fsm = "L4_FIN", NEW k \in Nat, NEW len \in Nat, NEW at \in Nat, at % 8 = 4,
         tx.aux_dw = HalfSent(k, len, at), NEW m, m = len - (at + 4), Closes(k, len, m)
  PROVE  tx'.d = Sent(k, len, at) /\ TxInside(k, len, at)' /\ Ready'
<1>1. /\ k # 0 /\ axis = <<>> /\ tx.tkeep_i = m /\ m \in 1 .. 8
      /\ \A i \in 1 .. m : tx.tdata_i[i] = Byte(k, len - m + i - 1)
      /\ TxFcs(m) = Fcs(<<k, len>>)
  BY DEF Closes, LANES
<1>2. PICK n \in 1 .. 8 : n = m
  BY <1>1
<1>3. PICK then \in Nat : then = at + 4
  OBVIOUS
<1>4. PICK rest : rest = tx.aux_dw \o First(tx.tdata_i, n)
  OBVIOUS
<1>5. tx.tdata_i \in DataWord /\ \A i \in 1 .. n : tx.tdata_i[i] = Byte(k, then + i - 1)
  <2>1. len - m = then
    BY <1>1, <1>3
  <2> QED BY <1>1, <1>2, <2>1, TxRegisters
<1>6. Spells(rest, 4 + n, k, len, at)
  <2>1. PICK u, v, four : u = tx.aux_dw /\ v = First(tx.tdata_i, n) /\ four = 4
    OBVIOUS
  <2>2. Spells(v, n, k, len, then)
    <3>1. then + n <= len
      BY <1>1, <1>2, <1>3
    <3> QED BY <1>5, <2>1, <3>1, BytesSpell
  <2>3. Spells(u, 4, k, len, at)
    <3>1. at \in Int
      OBVIOUS
    <3> QED BY <2>1, <3>1, HalfSpells
  <2>4. Spells(u \o v, four + n, k, len, at)
    BY <1>3, <2>1, <2>2, <2>3, SpellsJoin
  <2> QED BY <1>4, <2>1, <2>4
<1>7. axis' = <<>>
  BY <1>1 DEF TxClock
<1>8. CASE n > 4
  <2>1. PICK word, more, crcs, left :
          /\ word = First(rest, LANES) /\ left = n - 4
          /\ more = High(tx.tdata_i) \o High(tx.tdata_i)
          /\ crcs = [i \in 1 .. 7 |->
                       IF n = LANES THEN IF i = 4 THEN tx.crc_32 ELSE tx.crcs[i]
                       ELSE IF i < 4 THEN tx.crcs[i + 4] ELSE tx.crcs[i]]
    OBVIOUS
  <2>2. tx' = [tx EXCEPT !.d = word, !.tdata_i = more, !.tkeep_i = left, !.crcs = crcs, !.fsm = "L0_FIN"]
    <3>1. tx' = TxFin4
      BY DEF TxClock, TxNext
    <3>2. tx.tkeep_i > 4 /\ tx.tkeep_i = n
      BY <1>1, <1>2, <1>8
    <3> QED BY <1>4, <2>1, <3>1, <3>2, Zenon DEF TxFin4
  <2>3. /\ tx'.d = word /\ tx'.tdata_i = more /\ tx'.tkeep_i = left /\ tx'.crcs = crcs /\ tx'.fsm = "L0_FIN"
        /\ tx'.TREADY = tx.TREADY /\ tx'.crc_32 = tx.crc_32
    BY <2>2 DEF Registers
  <2>4. word = Sent(k, len, at)
    <3>1. PICK l, p : l = 4 + n /\ p = 8
      OBVIOUS
    <3>2. p \in 0 .. l
      BY <1>8, <3>1
    <3>3. Spells(First(rest, p), p, k, len, at)
      BY <1>6, <3>1, <3>2, SpellsFirst
    <3> QED BY <2>1, <3>1, <3>3, SpellsSent DEF LANES
  <2>5. left \in 1 .. 4 /\ left \in 1 .. 7 /\ left # LANES /\ at + 8 < len /\ len - (at + 8) = left
    BY <1>1, <1>2, <1>8, <2>1 DEF LANES
  <2>6. \A i \in 1 .. left : more[i] = Byte(k, len - left + i - 1)
    <3>1. High(tx.tdata_i) \in Words(4, Plain)
      BY <1>5, Halves
    <3>2. PICK v : v = High(tx.tdata_i)
      OBVIOUS
    <3>3. JoinedLanes(v, 4, v, 4, Plain)
      BY <3>1, <3>2, Joined
    <3>4. \A i \in 1 .. 4 : more[i] = v[i]
      BY <2>1, <3>2, <3>3 DEF JoinedLanes
    <3>5. \A i \in 1 .. 4 : v[i] = tx.tdata_i[4 + i]
      <4>1. PICK w \in Words(8, Plain) : w = tx.tdata_i
        BY <1>5 DEF DataWord, LANES
      <4>2. PICK a \in 1 .. 8, b \in 0 .. 8, four \in Nat : a = 5 /\ b = 8 /\ four = 4 /\ b + 1 = a + four
        OBVIOUS
      <4>3. v = SubSeq(w, a, b) /\ 8 \in Nat
        BY <3>2, <4>1, <4>2 DEF High
      <4>4. Piece(v, w, a, four, Plain)
        BY <4>1, <4>2, <4>3, WordPiece
      <4>5. \A i \in 1 .. 4 : v[i] = w[5 + i - 1] /\ 5 + i - 1 = 4 + i
        BY <4>2, <4>4 DEF Piece
      <4> QED BY <4>1, <4>5
    <3> TAKE i \in 1 .. left
    <3>6. i \in 1 .. 4 /\ 4 + i \in 1 .. n /\ then + (4 + i) - 1 = len - left + i - 1
      BY <1>1, <1>2, <1>3, <2>1, <2>5
    <3>7. more[i] = v[i] /\ v[i] = tx.tdata_i[4 + i] /\ tx.tdata_i[4 + i] = Byte(k, then + (4 + i) - 1)
      BY <1>5, <3>4, <3>5, <3>6
    <3> QED BY <3>6, <3>7
  <2>7. TxFcs(left)' = Fcs(<<k, len>>)
    <3>1. crcs[left] = IF n = LANES THEN tx.crc_32 ELSE tx.crcs[n]
      <4>1. CASE n = LANES
        <5>1. left = 4
          BY <2>1, <4>1 DEF LANES
        <5> QED BY <2>1, <4>1, <5>1
      <4>2. CASE n # LANES
        <5>1. left < 4 /\ left + 4 = n
          BY <2>1, <4>2 DEF LANES
        <5> QED BY <2>1, <2>5, <4>2, <5>1
      <4> QED BY <4>1, <4>2
    <3>2. Fcs(crcs[left]) = Fcs(<<k, len>>)
      BY <1>1, <1>2, <3>1 DEF TxFcs
    <3>3. TxFcs(left)' = Fcs(crcs[left])
      BY <2>3, <2>5, Zenon DEF TxFcs
    <3> QED BY <3>2, <3>3
  <2>8. Closes(k, len, left)'
    BY <1>1, <1>7, <2>3, <2>5, <2>6, <2>7 DEF Closes, LANES
  <2>9. TxInside(k, len, at)'
    BY <2>3, <2>5, <2>8 DEF TxInside, LANES
  <2>10. Ready'
    BY <2>3 DEF Ready, READY
  <2> QED BY <2>3, <2>4, <2>9, <2>10
<1>9. CASE n <= 4
  <2>1. PICK word : word = First(rest \o TxFcs(n), LANES)
    OBVIOUS
  <2>2. tx' = [tx EXCEPT !.d = word, !.fcs = TxFcs(n), !.lane = n, !.fsm = "T_LANE"]
    <3>1. tx' = TxFin4
      BY DEF TxClock, TxNext
    <3>2. ~(tx.tkeep_i > 4) /\ tx.tkeep_i = n
      BY <1>1, <1>2, <1>9
    <3> QED BY <1>4, <2>1, <3>1, <3>2, Zenon DEF TxFin4
  <2>3. tx'.d = word /\ tx'.fcs = Fcs(<<k, len>>) /\ tx'.lane = n /\ tx'.fsm = "T_LANE" /\ tx'.TREADY = tx.TREADY
    BY <1>1, <1>2, <2>2 DEF Registers
  <2>4. word = Sent(k, len, at)
    <3>1. PICK v, l, four : v = Fcs(<<k, len>>) /\ l = 4 + n /\ four = 4
      OBVIOUS
    <3>2. Spells(v, four, k, len, len) /\ Spells(rest, l, k, len, at) /\ len = at + l
      <4>1. Spells(v, 4, k, len, len)
        BY <3>1, FcsSpells
      <4>2. len = at + l
        BY <1>1, <1>2, <3>1
      <4> QED BY <1>6, <3>1, <4>1, <4>2
    <3>3. Spells(rest \o v, l + four, k, len, at)
      BY <3>2, SpellsJoin
    <3>4. PICK p, q : p = 8 /\ q = l + four
      OBVIOUS
    <3>5. p \in 0 .. q
      BY <3>1, <3>4
    <3>6. Spells(First(rest \o v, p), p, k, len, at)
      BY <3>3, <3>4, <3>5, SpellsFirst
    <3>7. word = First(rest \o v, p)
      BY <1>1, <1>2, <2>1, <3>1, <3>4 DEF LANES
    <3> QED BY <3>4, <3>6, <3>7, SpellsSent
  <2>5. n <= 4 /\ len + 4 - (at + LANES) = n
    BY <1>1, <1>2, <1>9 DEF LANES
  <2>6. TxInside(k, len, at)'
    BY <1>1, <1>7, <2>3, <2>5 DEF TxInside
  <2>7. Ready'
    BY <2>3 DEF Ready, READY
  <2> QED BY <2>3, <2>4, <2>6, <2>7
<1> QED BY <1>8, <1>9

\* Terminate: in the word that is out already, or in the next.
Ended ==
    /\ axis = <<>> /\ tx.d = QW_IDLE /\ tx.fsm \in {"IDLE_L0", "DW_IDLE"}
Ending(k, len, at) ==
    /\ axis = <<>> /\ tx.fsm \in {"DW_IDLE", "QW_IDLE"} /\ tx.d = Sent(k, len, at)
    /\ len + 4 - at \in 0 .. (IF tx.fsm = "DW_IDLE" THEN 3 ELSE 4)

\* The FCS is out, and terminate behind it.
LEMMA TerminateWord ==
  ASSUME tx \in Registers, TxClock, Ready, tx.fsm = "T_LANE", NEW k \in Nat, NEW len \in Nat, NEW at \in Nat,
         axis = <<>>, tx.fcs = Fcs(<<k, len>>)
  PROVE  /\ Ready'
         /\ tx.lane > 4 => Ended'
         /\ tx.lane <= 4 /\ len + 4 - at = tx.lane => Ending(k, len, at)'
<1>1. PICK n \in 0 .. 7 : n = tx.lane
  BY TxRegisters
<1> DEFINE to == CASE n < 4 -> IF DeficitFits(n) THEN "DW_IDLE" ELSE "QW_IDLE"
                   [] n = 4 -> "QW_IDLE"
                   [] n > 4 -> IF DeficitFits(n) THEN "IDLE_L0" ELSE "DW_IDLE"
           final == First(SubSeq(tx.fcs, 5 - n, 4) \o <<T>> \o QW_IDLE, LANES)
<1>2. tx' = [tx EXCEPT !.d = IF n > 4 THEN QW_IDLE ELSE final, !.dic = Dic(n),
                       !.TREADY = IF to = "QW_IDLE" THEN tx.TREADY ELSE TRUE, !.fsm = to]
  <2>1. tx' = TxTerminate
    BY DEF TxClock, TxNext
  <2> QED BY <1>1, <2>1, Zenon DEF TxTerminate
<1>3. /\ n < 4 => to \in {"DW_IDLE", "QW_IDLE"}
      /\ n = 4 => to = "QW_IDLE"
      /\ n > 4 => to \in {"IDLE_L0", "DW_IDLE"}
  OBVIOUS
<1>4. PICK w : w = final
  OBVIOUS
<1>5. PICK s : s = to
  OBVIOUS
<1>6. tx'.d = (IF n > 4 THEN QW_IDLE ELSE w) /\ tx'.fsm = s
  <2> HIDE DEF to, final
  <2> QED BY <1>2, <1>4, <1>5 DEF Registers
<1>7. /\ s = "QW_IDLE" => tx'.TREADY = tx.TREADY
      /\ s # "QW_IDLE" => tx'.TREADY
  <2> HIDE DEF to, final
  <2> QED BY <1>2, <1>5 DEF Registers
<1>8. Ready'
  <2>1. s \in {"DW_IDLE", "QW_IDLE", "IDLE_L0"}
    BY <1>3, <1>5
  <2>2. ~tx.TREADY
    BY DEF Ready, READY
  <2> HIDE DEF to, final
  <2> QED BY <1>6, <1>7, <2>1, <2>2 DEF Ready, READY
<1>9. axis' = <<>>
  BY DEF TxClock
<1>10. ASSUME n > 4 PROVE Ended'
  BY <1>3, <1>5, <1>6, <1>9, <1>10 DEF Ended
<1>11. ASSUME n <= 4, len + 4 - at = n PROVE Ending(k, len, at)'
  <2>1. PICK u : u = SubSeq(tx.fcs, 5 - n, 4)
    OBVIOUS
  <2>2. Spells(u, n, k, len, at)
    <3>1. PICK v : v = Fcs(<<k, len>>)
      OBVIOUS
    <3>2. v \in Words(4, Character) /\ \A j \in 1 .. 4 : v[j] = Place(k, len, len + j - 1)
      BY <3>1, FcsLanes
    <3>3. CASE n = 0
      <4>1. u = <<>>
        BY <2>1, <3>1, <3>2, <3>3 DEF Words
      <4>2. at \in Int /\ u \in Words(n, Character)
        BY <3>3, <4>1 DEF Words
      <4> QED BY <3>3, <4>2 DEF Spells
    <3>4. CASE n # 0
      <4>1. PICK a \in 1 .. 4 : a = 5 - n
        BY <1>11, <3>4
      <4>2. PICK b \in 0 .. 4 : b = 4 /\ b + 1 = a + n
        BY <1>11, <4>1
      <4>3. u = SubSeq(v, a, b)
        BY <2>1, <3>1, <4>1, <4>2
      <4>4. Piece(u, v, a, n, Character)
        <5>1. 4 \in Nat /\ n \in Nat
          OBVIOUS
        <5> QED BY <3>2, <4>2, <4>3, <5>1, WordPiece
      <4>5. u \in Words(n, Character) /\ \A i \in 1 .. n : u[i] = v[a + i - 1]
        BY <4>4 DEF Piece
      <4>6. \A i \in 1 .. n : a + i - 1 \in 1 .. 4 /\ len + (a + i - 1) - 1 = at + i - 1
        BY <1>11, <4>1
      <4>7. \A i \in 1 .. n : u[i] = Place(k, len, at + i - 1)
        BY <3>2, <4>5, <4>6
      <4>8. n \in Nat /\ at \in Int
        OBVIOUS
      <4> QED BY <4>5, <4>7, <4>8 DEF Spells
    <3> QED BY <3>3, <3>4
  <2>3. at + n = len + 4
    BY <1>11
  <2>4. w = Sent(k, len, at)
    <3>1. w = First(u \o <<T>> \o QW_IDLE, LANES)
      BY <1>4, <2>1
    <3> QED BY <2>2, <2>3, <3>1, SpellsEnd
  <2>5. n <= 4 /\ ~(n > 4) /\ (s = "DW_IDLE" => n <= 3) /\ s \in {"DW_IDLE", "QW_IDLE"}
    BY <1>3, <1>5, <1>11
  <2> HIDE DEF to, final
  <2> QED BY <1>6, <1>9, <1>11, <2>4, <2>5 DEF Ending
<1> QED BY <1>1, <1>8, <1>10, <1>11

---------------------------------------------------------------------------
\* Both adapters.

\* Inside a frame, every state of the transmitter sends the next word of it.
LEMMA InsideWord ==
  ASSUME tx \in Registers, TxClock, Ready, NEW k \in Nat, NEW len \in Nat, len > 16, NEW at \in Int,
         TxInside(k, len, at), NEW next, next = at + 8
  PROVE  /\ Ready'
         /\ \/ at + 8 <= len + 4 /\ BodyNext(k, len, next)'
            \/ at + 8 <= len + 4 /\ next > 16 /\ k # 0 /\ Ending(k, len, next)'
            \/ len + 4 - at \in 0 .. 7 /\ k # 0 /\ Ended'
<1>1. CASE /\ tx.fsm = "ST_LANE0" /\ at >= 0 /\ at % 8 = 0
           /\ \E b \in Nat : at = LANES * (b - 2) /\ Taken(k, len, b)
  <2>1. PICK b \in Nat : at = LANES * (b - 2) /\ Taken(k, len, b)
    BY <1>1
  <2>2. tx.fsm \in READY
    BY <1>1 DEF READY
  <2>3. PICK in \in Beat : Fed(k, len, b, in)
    BY <2>1, <2>2, BeatFed
  <2>4. PICK place \in Nat : place = next /\ place = 8 * (b - 1) /\ b > 1
    <3>1. next \in Nat /\ next = 8 * (b - 1) /\ b > 1
      BY <1>1, <2>1 DEF LANES
    <3> QED BY <3>1
  <2>5. BodyNext(k, len, place)' /\ Ready'
    BY <1>1, <2>3, <2>4, BodyLane0
  <2>6. at + 8 <= len + 4
    <3>1. b < BeatCount(len)
      BY <2>3 DEF Fed
    <3> QED BY <2>4, <3>1, Counting
  <2> QED BY <2>4, <2>5, <2>6
<1>2. CASE /\ tx.fsm = "ST_LANE4_D" /\ at >= 0 - 4 /\ tx.aux_dw = HalfSent(k, len, at + LANES)
           /\ \E b \in Nat : at = LANES * (b - 2) - 4 /\ Taken(k, len, b)
  <2>1. PICK b \in Nat : at = LANES * (b - 2) - 4 /\ Taken(k, len, b)
    BY <1>2
  <2>2. tx.fsm \in READY
    BY <1>2 DEF READY
  <2>3. PICK in \in Beat : Fed(k, len, b, in)
    BY <2>1, <2>2, BeatFed
  <2>4. PICK place \in Nat : place = next /\ place = 8 * (b - 1) - 4
    <3>1. next \in Nat /\ next = 8 * (b - 1) - 4
      BY <1>2, <2>1 DEF LANES
    <3> QED BY <3>1
  <2>5. tx.aux_dw = HalfSent(k, len, place)
    BY <1>2, <2>4 DEF LANES
  <2>6. BodyNext(k, len, place)' /\ Ready'
    BY <1>2, <2>3, <2>4, <2>5, BodyLane4
  <2>7. at + 8 <= len + 4
    <3>1. b < BeatCount(len)
      BY <2>3 DEF Fed
    <3> QED BY <2>4, <3>1, Counting
  <2> QED BY <2>4, <2>6, <2>7
<1>3. CASE tx.fsm = "L4_FIN" /\ at % 8 = 4 /\ tx.aux_dw = HalfSent(k, len, at + LANES) /\ at + 12 < len /\ Closes(k, len, len - (at + 12))
  <2>1. PICK m : m = len - (at + 12)
    OBVIOUS
  <2>2. m \in 1 .. 8 /\ Closes(k, len, m)
    BY <1>3, <2>1 DEF Closes, LANES
  <2>3. PICK place \in Nat : place = next /\ place % 8 = 4 /\ m = len - (place + 4)
    <3>1. at + 8 \in Nat /\ (at + 8) % 8 = 4 /\ m = len - ((at + 8) + 4)
      BY <1>3, <2>1, <2>2
    <3> QED BY <3>1
  <2>4. tx'.d = Sent(k, len, place) /\ TxInside(k, len, place)' /\ Ready'
    <3>1. tx.aux_dw = HalfSent(k, len, place)
      BY <1>3, <2>3 DEF LANES
    <3> QED BY <1>3, <2>2, <2>3, <3>1, HalfFinalWord
  <2> QED BY <1>3, <2>3, <2>4 DEF BodyNext
<1>4. CASE tx.fsm = "L0_FIN" /\ at + 8 < len /\ Closes(k, len, len - (at + 8))
  <2>1. PICK m : m = len - (at + 8)
    OBVIOUS
  <2>2. m \in 1 .. 8 /\ Closes(k, len, m)
    BY <1>4, <2>1 DEF Closes, LANES
  <2>3. PICK place \in Nat : place = next /\ m = len - place
    <3>1. at + 8 \in Nat /\ m = len - (at + 8)
      BY <2>1, <2>2
    <3> QED BY <3>1
  <2>4. tx'.d = Sent(k, len, place) /\ TxInside(k, len, place)' /\ Ready'
    BY <1>4, <2>2, <2>3, FinalWord
  <2> QED BY <1>4, <2>3, <2>4 DEF BodyNext
<1>5. CASE /\ tx.fsm = "T_LANE" /\ k # 0 /\ axis = <<>> /\ tx.fcs = Fcs(<<k, len>>)
           /\ \/ tx.lane <= 4 /\ len + 4 - (at + LANES) = tx.lane
              \/ tx.lane > 4 /\ len + 4 - at = tx.lane
  <2>1. PICK n \in 0 .. 7 : n = tx.lane
    BY TxRegisters
  <2>2. PICK place \in Nat : place = next /\ place > 16
    <3>1. at + 8 \in Nat /\ at + 8 > 16
      BY <1>5, <2>1 DEF LANES
    <3> QED BY <3>1
  <2>3. /\ Ready'
        /\ tx.lane > 4 => Ended'
        /\ tx.lane <= 4 /\ len + 4 - place = tx.lane => Ending(k, len, place)'
    BY <1>5, TerminateWord
  <2>4. CASE tx.lane <= 4 /\ len + 4 - (at + LANES) = tx.lane
    <3>1. at + 8 <= len + 4 /\ len + 4 - place = tx.lane
      BY <2>1, <2>2, <2>4 DEF LANES
    <3> QED BY <1>5, <2>2, <2>3, <2>4, <3>1
  <2>5. CASE tx.lane > 4 /\ len + 4 - at = tx.lane
    BY <1>5, <2>1, <2>3, <2>5
  <2> QED BY <1>5, <2>4, <2>5
<1> QED BY <1>1, <1>2, <1>3, <1>4, <1>5 DEF TxInside

\* One of two frames.
LEMMA PendingAlone ==
  ASSUME NEW k, NEW len
  PROVE  /\ Pending(0, 0) \o Pending(k, len) = Pending(k, len)
         /\ Pending(k, len) \o Pending(0, 0) = Pending(k, len)
<1>1. PICK q : q = Pending(k, len)
  OBVIOUS
<1>2. PICK f : f = [id |-> k, len |-> len]
  OBVIOUS
<1>3. q \in Seq({f})
  <2>1. q = <<>> \/ q = <<f>>
    BY <1>1, <1>2 DEF Pending
  <2>2. <<>> \in Seq({f}) /\ <<f>> \in Seq({f})
    OBVIOUS
  <2>3. CASE q = <<>>
    BY <2>2, <2>3
  <2>4. CASE q = <<f>>
    BY <2>2, <2>4, Zenon
  <2> QED BY <2>1, <2>3, <2>4
<1>4. <<>> \o q = q /\ q \o <<>> = q
  BY <1>3, ConcatEmptySeq
<1> QED BY <1>1, <1>4 DEF Pending

Clock == TxClock /\ RxClock(tx.d)
LoopKept == Sound' /\ Ready' /\ Placed'

\* Both are inside a frame.
LEMMA InsideKept ==
  ASSUME tx \in Registers, Sound, Ready, Clock,
         NEW ok \in Nat, NEW olen \in Nat, NEW k \in Nat, NEW len \in Nat,
         due = Pending(ok, olen) \o Pending(k, len), Inside(ok, olen, k, len)
  PROVE  LoopKept
<1>1. PICK at \in Int : /\ len > 16 /\ tx.d = Sent(k, len, at)
                        /\ TxInside(k, len, at) /\ RxInside(ok, olen, k, len, at)
  BY DEF Inside, LANES
<1>2. TxClock /\ RxClock(Sent(k, len, at))
  BY <1>1 DEF Clock
<1>3. PICK next \in Int : next = at + 8
  OBVIOUS
<1>4. /\ Ready'
      /\ \/ at + 8 <= len + 4 /\ BodyNext(k, len, next)'
         \/ at + 8 <= len + 4 /\ next > 16 /\ k # 0 /\ Ending(k, len, next)'
         \/ len + 4 - at \in 0 .. 7 /\ k # 0 /\ Ended'
  BY <1>1, <1>2, <1>3, InsideWord
<1>5. PICK ok2 : ok2 = Popped(ok)
  OBVIOUS
<1>6. ASSUME at + 8 <= len + 4
      PROVE  /\ Sound' /\ ok2 \in Nat /\ RxInside(ok2, olen, k, len, next)'
             /\ due' = Pending(ok2, olen) \o Pending(k, len)
  <2>1. OutputMoves /\ (Open \/ LastOut(ok, olen)) /\ RxInside(ok2, olen, k, len, next)'
    BY <1>1, <1>2, <1>3, <1>5, <1>6, DataWordEdge
  <2>2. DueStep(ok, olen, k, len)
    BY <2>1 DEF DueStep
  <2>3. ok2 \in Nat /\ due' = Pending(ok2, olen) \o Pending(k, len)
    BY <1>5, <2>2, DueMoves
  <2> QED BY <2>1, <2>3 DEF OutputMoves
<1>7. CASE at + 8 <= len + 4 /\ tx'.d = Sent(k, len, next) /\ TxInside(k, len, next)'
  <2>1. next <= len + 4
    BY <1>3, <1>7
  <2>2. Inside(ok2, olen, k, len)'
    BY <1>1, <1>6, <1>7, <2>1 DEF Inside, LANES
  <2> QED BY <1>4, <1>6, <1>7, <2>2 DEF LoopKept, Placed
<1>8. CASE /\ at + 8 <= len + 4 /\ k = 0 /\ axis' = <<>> /\ tx'.fsm = "QW_IDLE"
           /\ Aborts(tx'.d, next) /\ next >= 4 /\ next < len
  <2>1. RxInside(ok2, olen, 0, len, next)'
    BY <1>6, <1>8
  <2>2. Queued(k, len)' /\ (tx'.fsm \in {"SRES", "QW_IDLE"} => axis' = <<>>)
    BY <1>8 DEF Queued
  <2>3. Between(ok2, olen, k, len)'
    BY <1>8, <2>1, <2>2 DEF Between
  <2> QED BY <1>4, <1>6, <1>8, <2>3 DEF LoopKept, Placed
<1>9. CASE at + 8 <= len + 4 /\ next > 16 /\ k # 0 /\ Ending(k, len, next)'
  <2>1. ok2 = 0 /\ RxInside(0, 0, k, len, next)'
    BY <1>6, <1>9 DEF RxInside
  <2>2. due' = Pending(k, len) \o Pending(0, 0)
    <3>1. due' = Pending(0, 0) \o Pending(k, len)
      BY <1>6, <1>9, <2>1 DEF Pending
    <3> QED BY <3>1, PendingAlone
  <2>3. /\ axis' = <<>> /\ tx'.fsm \in {"DW_IDLE", "QW_IDLE"} /\ tx'.d = Sent(k, len, next)
        /\ len + 4 - next \in 0 .. (IF tx'.fsm = "DW_IDLE" THEN 3 ELSE 4)
    BY <1>9 DEF Ending
  <2>4. Queued(0, 0)'
    BY <2>3 DEF Queued
  <2>5. Between(k, len, 0, 0)'
    BY <1>1, <1>9, <2>1, <2>3, <2>4 DEF Between, LANES
  <2>6. Placed'
    BY <2>2, <2>5 DEF Placed
  <2> QED BY <1>4, <1>6, <1>9, <2>6 DEF LoopKept
<1>10. CASE len + 4 - at \in 0 .. 7 /\ k # 0 /\ Ended'
  <2>1. PICK n \in 0 .. 7 : n = len + 4 - at
    BY <1>10
  <2>2. /\ OutputMoves /\ (Open \/ LastOut(ok, olen)) /\ Popped(ok) = 0
        /\ RxBetween(k, len)' /\ rx'.fsm # "SRES"
    BY <1>1, <1>2, <1>10, <2>1, EndWordEdge
  <2>3. due' = Pending(k, len) \o Pending(0, 0)
    <3>1. DueStep(ok, olen, k, len)
      BY <2>2 DEF DueStep
    <3>2. due' = Pending(ok2, olen) \o Pending(k, len) /\ ok2 = 0
      BY <1>5, <2>2, <3>1, DueMoves
    <3>3. due' = Pending(0, 0) \o Pending(k, len)
      BY <3>2 DEF Pending
    <3> QED BY <3>3, PendingAlone
  <2>4. axis' = <<>> /\ tx'.d = QW_IDLE /\ tx'.fsm \in {"IDLE_L0", "DW_IDLE"}
    BY <1>10 DEF Ended
  <2>5. Queued(0, 0)'
    BY <2>4 DEF Queued
  <2>6. Between(k, len, 0, 0)'
    BY <2>2, <2>4, <2>5 DEF Between
  <2>7. Placed'
    BY <2>3, <2>6 DEF Placed
  <2> QED BY <1>4, <2>2, <2>7 DEF LoopKept, OutputMoves
<1> QED BY <1>4, <1>7, <1>8, <1>9, <1>10 DEF BodyNext

\* Between two frames the transmitter goes idle or begins one.
Rests(k) == k = 0 /\ axis = <<>> /\ tx.fsm = "IDLE_L0" /\ tx.d = QW_IDLE
Begins(k, len) ==
    /\ len > 16 /\ Taken(k, len, 1)
    /\ \/ tx.fsm = "ST_LANE0" /\ tx.d = PREAMBLE_LANE0
       \/ tx.fsm = "ST_LANE4" /\ tx.d = PREAMBLE_LANE4

\* The FIFO has no frame, or the transmitter begins it.
LEMMA RestWord ==
  ASSUME tx \in Registers, TxClock, Ready, NEW k \in Nat, NEW len \in Nat, Queued(k, len),
         tx.fsm \in {"SRES", "IDLE_L0", "DW_IDLE", "QW_IDLE"},
         tx.fsm \in {"SRES", "QW_IDLE"} => axis = <<>>, tx.fsm = "SRES" => tx.d = QW_IDLE
  PROVE  /\ Ready'
         /\ Rests(k)' \/ Begins(k, len)'
         /\ tx'.fsm = "ST_LANE0" => tx.fsm = "IDLE_L0"
         /\ tx'.fsm = "ST_LANE4" => tx.fsm = "DW_IDLE"
<1>1. CASE axis = <<>>
  <2>1. k = 0
    <3>1. ASSUME len > 2 * LANES, axis = Stream(k, len) PROVE FALSE
      <4>1. len > 16
        BY <3>1 DEF LANES
      <4>2. PICK s : s = Stream(k, len)
        OBVIOUS
      <4>3. Len(s) >= 3 /\ s = <<>>
        BY <1>1, <3>1, <4>1, <4>2, StreamBeats, Counting
      <4> QED BY <4>3
    <3> QED BY <3>1 DEF Queued
  <2>2. tx' = TxNext(NoBeat) /\ axis' = <<>>
    BY <1>1 DEF TxClock
  <2>3. ~NoBeat.valid
    BY DEF NoBeat
  <2>4. CASE tx.fsm = "SRES"
    <3>1. tx' = [tx EXCEPT !.dic = 0, !.TREADY = TRUE, !.fsm = "IDLE_L0"]
      BY <2>2, <2>4 DEF TxNext
    <3>2. tx'.fsm = "IDLE_L0" /\ tx'.TREADY /\ tx'.d = QW_IDLE
      BY <2>4, <3>1 DEF Registers
    <3> QED BY <2>1, <2>2, <3>2 DEF Rests, Ready, READY
  <2>5. CASE tx.fsm = "IDLE_L0"
    <3>1. PICK dic : tx' = [Latch(NoBeat) EXCEPT !.d = QW_IDLE, !.dic = dic]
      <4>1. tx' = TxIdle(NoBeat)
        BY <2>2, <2>5 DEF TxNext
      <4>2. tx' = [Latch(NoBeat) EXCEPT !.d = QW_IDLE, !.dic = IF @ = 0 THEN 0 ELSE @ - 1]
        BY <2>3, <4>1 DEF TxIdle
      <4>3. PICK l : l = Latch(NoBeat)
        OBVIOUS
      <4>4. tx' = [l EXCEPT !.d = QW_IDLE, !.dic = IF l.dic = 0 THEN 0 ELSE l.dic - 1]
        BY <4>2, <4>3 DEF Latch, Registers
      <4> QED BY <4>3, <4>4
    <3>2. tx'.fsm = "IDLE_L0" /\ tx'.d = QW_IDLE
      BY <2>5, <3>1 DEF Latch, Registers
    <3>3. tx'.TREADY = tx.TREADY
      BY <3>1 DEF Latch, Registers
    <3> QED BY <2>1, <2>2, <2>5, <3>2, <3>3 DEF Rests, Ready, READY
  <2>6. CASE tx.fsm = "DW_IDLE"
    <3>1. tx' = [Latch(NoBeat) EXCEPT !.d = QW_IDLE, !.fsm = "IDLE_L0"]
      BY <2>2, <2>3, <2>6 DEF TxNext, TxHalfIdle
    <3>2. tx'.fsm = "IDLE_L0" /\ tx'.d = QW_IDLE
      BY <3>1 DEF Latch, Registers
    <3>3. tx'.TREADY = tx.TREADY
      BY <3>1 DEF Latch, Registers
    <3> QED BY <2>1, <2>2, <2>6, <3>2, <3>3 DEF Rests, Ready, READY
  <2>7. CASE tx.fsm = "QW_IDLE"
    <3>1. tx' = [tx EXCEPT !.d = QW_IDLE, !.TREADY = TRUE, !.fsm = "IDLE_L0"]
      BY <2>2, <2>7 DEF TxNext, TxQwIdle
    <3>2. tx'.fsm = "IDLE_L0" /\ tx'.d = QW_IDLE /\ tx'.TREADY
      BY <3>1 DEF Registers
    <3> QED BY <2>1, <2>2, <3>2 DEF Rests, Ready, READY
  <2> QED BY <2>4, <2>5, <2>6, <2>7
<1>2. CASE axis # <<>>
  <2>1. tx.fsm \in {"IDLE_L0", "DW_IDLE"}
    BY <1>2
  <2>2. len > 16 /\ axis = Stream(k, len)
    BY <1>2 DEF Queued, LANES
  <2>3. tx' = TxNext(Head(axis)) /\ axis' = Tail(axis)
    BY <1>2, <2>1 DEF TxClock, Ready, READY
  <2>4. PICK s : s = Stream(k, len)
    OBVIOUS
  <2>5. s \in Seq(Beat) /\ Len(s) >= 3 /\ Len(s) \in Nat /\ IsBeat(k, len, 1, s[1]) /\ 1 < BeatCount(len) /\ Len(s) = BeatCount(len)
    <3>1. 1 \in 1 .. BeatCount(len) /\ BeatCount(len) \in Nat /\ BeatCount(len) >= 3 /\ 1 < BeatCount(len)
      BY <2>2, Counting
    <3> QED BY <2>2, <2>4, <3>1, StreamBeats
  <2>6. Head(axis) = s[1] /\ axis' = SubSeq(s, 2, Len(s))
    <3>1. PICK b \in 0 .. Len(s) - 1 : b = 0
      BY <2>5
    <3>2. SubSeq(s, 1, Len(s)) = s
      <4>1. PICK u : u = SubSeq(s, 1, Len(s))
        OBVIOUS
      <4>2. u \in Seq(Beat) /\ Len(u) = Len(s) /\ \A i \in 1 .. Len(s) : u[i] = s[i]
        BY <2>5, <4>1
      <4> QED BY <2>5, <4>1, <4>2, SeqEqual
    <3>3. s = SubSeq(s, b + 1, Len(s))
      BY <3>1, <3>2
    <3>4. Head(s) = s[b + 1] /\ Tail(s) = SubSeq(s, b + 2, Len(s))
      BY <2>5, <3>3, NextBeat
    <3> QED BY <2>2, <2>3, <2>4, <3>1, <3>4
  <2>7. PICK in : in = Head(axis)
    OBVIOUS
  <2>8. in = s[1] /\ in.valid /\ in.data = Sent(k, len, 0)
    <3>1. 8 * (1 - 1) = 0
      OBVIOUS
    <3> QED BY <2>5, <2>6, <2>7, <3>1 DEF IsBeat, LANES
  <2>9. Crc(CRC_PRESET, in.data) = <<k, 8>>
    <3>1. PICK at \in Nat : at = 0
      OBVIOUS
    <3>2. PICK m \in 1 .. 8 : m = 8
      OBVIOUS
    <3>3. PICK crc : crc = CRC_PRESET
      OBVIOUS
    <3>4. Covers(crc, k, at) /\ at # 1 /\ at + m <= len /\ at + m = 8
      BY <2>2, <3>1, <3>2, <3>3 DEF Covers
    <3>5. Crc(crc, Sent(k, len, at)) = <<k, at + m>>
      BY <3>2, <3>4, CrcSent
    <3> QED BY <2>8, <3>1, <3>3, <3>4, <3>5
  <2>10. ASSUME NEW preamble, NEW to, tx' = Start(in, preamble, to)
         PROVE  /\ Taken(k, len, 1)' /\ tx'.d = preamble /\ tx'.fsm = to
                /\ tx'.TREADY = tx.TREADY
    <3>1. PICK crc : crc = Crc(CRC_PRESET, in.data)
      OBVIOUS
    <3>2. tx' = [Latch(in) EXCEPT !.d = preamble, !.crc_32 = crc, !.fsm = to]
      BY <2>10, <3>1 DEF Start
    <3>3. tx'.d = preamble /\ tx'.fsm = to /\ tx'.crc_32 = crc /\ tx'.tdata_i = in.data
      BY <3>2 DEF Latch, Registers
    <3>4. tx'.TREADY = tx.TREADY
      BY <3>2 DEF Latch, Registers
    <3>5. crc = <<k, LANES * 1>> /\ 1 \in 1 .. Len(s) - 1 /\ 1 + 1 = 2
      BY <2>5, <2>9, <3>1 DEF LANES
    <3>6. Taken(k, len, 1)'
      BY <2>4, <2>6, <2>8, <3>3, <3>5 DEF Taken
    <3> QED BY <3>3, <3>4, <3>6
  <2>11. CASE tx.fsm = "IDLE_L0"
    <3>1. tx' = Start(in, PREAMBLE_LANE0, "ST_LANE0")
      BY <2>3, <2>7, <2>8, <2>11 DEF TxNext, TxIdle
    <3>2. Taken(k, len, 1)' /\ tx'.d = PREAMBLE_LANE0 /\ tx'.fsm = "ST_LANE0"
      BY <2>10, <3>1
    <3>3. tx'.TREADY = tx.TREADY
      BY <2>10, <3>1
    <3> QED BY <2>2, <2>11, <3>2, <3>3 DEF Begins, Ready, READY
  <2>12. CASE tx.fsm = "DW_IDLE"
    <3>1. tx' = Start(in, PREAMBLE_LANE4, "ST_LANE4")
      BY <2>3, <2>7, <2>8, <2>12 DEF TxNext, TxHalfIdle
    <3>2. Taken(k, len, 1)' /\ tx'.d = PREAMBLE_LANE4 /\ tx'.fsm = "ST_LANE4"
      BY <2>10, <3>1
    <3>3. tx'.TREADY = tx.TREADY
      BY <2>10, <3>1
    <3> QED BY <2>2, <2>12, <3>2, <3>3 DEF Begins, Ready, READY
  <2> QED BY <2>1, <2>11, <2>12
<1> QED BY <1>1, <1>2

\* A preamble is on its way to the receiver.
LEMMA BegunKept ==
  ASSUME tx \in Registers, Sound, Ready, Clock,
         NEW ok \in Nat, NEW olen \in Nat, NEW k \in Nat, NEW len \in Nat,
         due = Pending(ok, olen) \o Pending(k, len), Begun(ok, olen, k, len)
  PROVE  LoopKept
<1>1. /\ len > 16 /\ Taken(k, len, 1) /\ RxBetween(ok, olen) /\ TxClock /\ RxClock(tx.d)
      /\ tx.fsm \in {"ST_LANE0", "ST_LANE4"}
  BY DEF Begun, Clock, LANES
<1>2. PICK in \in Beat : Fed(k, len, 1, in)
  <2>1. PICK b : b = 1
    OBVIOUS
  <2>2. tx.fsm \in READY /\ Taken(k, len, b)
    BY <1>1, <2>1 DEF READY
  <2>3. \E in \in Beat : Fed(k, len, b, in)
    BY <1>1, <2>2, BeatFed
  <2> QED BY <2>1, <2>3
<1>3. PICK ok2 : ok2 = Popped(ok)
  OBVIOUS
<1>4. ASSUME NEW at \in Int, at <= 0,
             tx'.d = Sent(k, len, at), TxInside(k, len, at)', Ready',
             OutputMoves, Open \/ LastOut(ok, olen), RxInside(ok2, olen, k, len, at)'
      PROVE  LoopKept
  <2>1. DueStep(ok, olen, k, len)
    BY <1>4 DEF DueStep
  <2>2. ok2 \in Nat /\ due' = Pending(ok2, olen) \o Pending(k, len)
    BY <1>3, <2>1, DueMoves
  <2>3. Inside(ok2, olen, k, len)'
    BY <1>1, <1>4 DEF Inside, LANES
  <2>4. Placed'
    BY <2>2, <2>3 DEF Placed
  <2> QED BY <1>4, <2>4 DEF LoopKept, OutputMoves
<1>5. CASE tx.fsm = "ST_LANE0"
  <2>1. tx.d = PREAMBLE_LANE0 /\ rx.fsm = "IDLE"
    BY <1>5 DEF Begun
  <2>2. PICK at \in Nat : at = 0
    OBVIOUS
  <2>3. PICK d : d = tx.d
    OBVIOUS
  <2>4. OutputMoves /\ (Open \/ LastOut(ok, olen)) /\ RxInside(ok2, olen, k, len, at)'
    BY <1>1, <1>3, <2>1, <2>2, <2>3, StartWordEdge
  <2>5. BodyNext(k, len, at)' /\ Ready'
    <3>1. PICK b : b = 1
      OBVIOUS
    <3>2. Fed(k, len, b, in) /\ at = 8 * (b - 1) /\ b + 1 < BeatCount(len)
      BY <1>1, <1>2, <2>2, <3>1, Counting
    <3> QED BY <1>5, <3>2, BodyLane0
  <2>6. tx'.d = Sent(k, len, at) /\ TxInside(k, len, at)'
    BY <2>2, <2>5 DEF BodyNext
  <2> QED BY <1>4, <2>2, <2>4, <2>5, <2>6
<1>6. CASE tx.fsm = "ST_LANE4"
  <2>1. tx.d = PREAMBLE_LANE4 /\ rx.fsm \in {"IDLE", "FINL4"}
    BY <1>6 DEF Begun
  <2>2. PICK at \in Int : at = 0 - 4
    OBVIOUS
  <2>3. PICK d : d = tx.d
    OBVIOUS
  <2>4. OutputMoves /\ (Open \/ LastOut(ok, olen)) /\ RxInside(ok2, olen, k, len, at)'
    BY <1>1, <1>3, <2>1, <2>2, <2>3, StartWordEdge
  <2>5. tx'.d = Sent(k, len, at) /\ TxInside(k, len, at)' /\ Ready'
    BY <1>2, <1>6, <2>2, Lane4Begins
  <2> QED BY <1>4, <2>2, <2>4, <2>5
<1> QED BY <1>1, <1>5, <1>6

\* The receiver is between two frames, or gets the word that ends one.
LEMMA BetweenKept ==
  ASSUME tx \in Registers, Sound, Ready, Clock,
         NEW ok \in Nat, NEW olen \in Nat, NEW k \in Nat, NEW len \in Nat,
         due = Pending(ok, olen) \o Pending(k, len), Between(ok, olen, k, len)
  PROVE  LoopKept
<1>1. /\ Queued(k, len) /\ (tx.fsm \in {"SRES", "QW_IDLE"} => axis = <<>>)
      /\ TxClock /\ RxClock(tx.d)
  BY DEF Between, Clock
<1>2. PICK ok2 : ok2 = Popped(ok)
  OBVIOUS
<1>3. /\ tx.fsm \in {"SRES", "IDLE_L0", "DW_IDLE", "QW_IDLE"}
      /\ tx.fsm = "SRES" => tx.d = QW_IDLE
  BY DEF Between
<1>4. /\ Ready'
      /\ Rests(k)' \/ Begins(k, len)'
      /\ tx'.fsm = "ST_LANE0" => tx.fsm = "IDLE_L0"
      /\ tx'.fsm = "ST_LANE4" => tx.fsm = "DW_IDLE"
  BY <1>1, <1>3, RestWord
<1>5. ASSUME NEW ok3 \in Nat, NEW olen3 \in Nat, Sound',
             due' = Pending(ok3, olen3) \o Pending(k, len), RxBetween(ok3, olen3)',
             rx'.fsm # "SRES", tx.fsm = "IDLE_L0" => rx'.fsm = "IDLE",
             tx.fsm = "DW_IDLE" => rx'.fsm \in {"IDLE", "FINL4"}
      PROVE  LoopKept
  <2>1. CASE Rests(k)'
    <3>1. Queued(k, len)'
      BY <2>1 DEF Rests, Queued
    <3>2. Between(ok3, olen3, k, len)'
      BY <1>5, <2>1, <3>1 DEF Rests, Between
    <3>3. Placed'
      BY <1>5, <3>2 DEF Placed
    <3> QED BY <1>4, <1>5, <3>3 DEF LoopKept
  <2>2. CASE Begins(k, len)'
    <3>1. Begun(ok3, olen3, k, len)'
      BY <1>4, <1>5, <2>2 DEF Begins, Begun, LANES
    <3>2. Placed'
      BY <1>5, <3>1 DEF Placed
    <3> QED BY <1>4, <1>5, <3>2 DEF LoopKept
  <2> QED BY <1>4, <2>1, <2>2
<1>6. CASE tx.d = QW_IDLE /\ RxBetween(ok, olen)
  <2>1. /\ OutputMoves /\ (Open \/ LastOut(ok, olen))
        /\ RxBetween(ok2, olen)' /\ rx'.fsm = "IDLE"
    BY <1>1, <1>2, <1>6, IdleWordEdge
  <2>2. DueStep(ok, olen, k, len)
    BY <2>1 DEF DueStep
  <2>3. ok2 \in Nat /\ due' = Pending(ok2, olen) \o Pending(k, len)
    BY <1>2, <2>2, DueMoves
  <2>4. Sound'
    BY <2>1 DEF OutputMoves
  <2> QED BY <1>5, <2>1, <2>3, <2>4
<1>7. CASE /\ tx.fsm \in {"DW_IDLE", "QW_IDLE"} /\ ok # 0 /\ olen > 2 * LANES
           /\ \E at \in Int :
                 /\ tx.d = Sent(ok, olen, at) /\ RxInside(0, 0, ok, olen, at)
                 /\ olen + 4 - at \in 0 .. (IF tx.fsm = "DW_IDLE" THEN 3 ELSE 4)
  <2>1. PICK at \in Int :
          /\ tx.d = Sent(ok, olen, at) /\ RxInside(0, 0, ok, olen, at)
          /\ olen + 4 - at \in 0 .. (IF tx.fsm = "DW_IDLE" THEN 3 ELSE 4)
    BY <1>7
  <2>2. PICK n \in 0 .. 7 : n = olen + 4 - at /\ (tx.fsm = "DW_IDLE" => n <= 3)
    <3>1. olen + 4 - at \in 0 .. 7 /\ (tx.fsm = "DW_IDLE" => olen + 4 - at <= 3)
      BY <2>1
    <3> QED BY <3>1
  <2>3. at > 12 /\ olen > 16
    BY <1>7, <2>1 DEF LANES
  <2>4. /\ OutputMoves /\ RxBetween(ok, olen)' /\ rx'.fsm # "SRES"
        /\ n <= 3 => rx'.fsm \in {"IDLE", "FINL4"}
    <3>1. PICK none \in Nat : none = 0
      OBVIOUS
    <3>2. RxClock(Sent(ok, olen, at)) /\ RxInside(none, none, ok, olen, at) /\ ok \in Nat \ {0}
      BY <1>1, <1>7, <2>1, <3>1
    <3> QED BY <2>2, <2>3, <3>2, EndWordEdge
  <2>5. Open
    BY <2>1, <2>3 DEF RxInside, Beats
  <2>6. due' = due
    BY <2>4, <2>5 DEF OutputMoves
  <2>7. Sound'
    BY <2>4 DEF OutputMoves
  <2> QED BY <1>5, <1>7, <2>2, <2>4, <2>6, <2>7
<1>8. CASE /\ tx.fsm = "QW_IDLE"
           /\ \E at \in Int : Aborts(tx.d, at) /\ \E l \in Nat : at < l /\ at >= 4 /\ RxInside(ok, olen, 0, l, at)
  <2>1. PICK at \in Int, l \in Nat : Aborts(tx.d, at) /\ at < l /\ at >= 4 /\ RxInside(ok, olen, 0, l, at)
    BY <1>8
  <2>2. PICK d : d = tx.d
    OBVIOUS
  <2>3. /\ OutputMoves /\ (Open \/ LastOut(ok, olen)) /\ Popped(ok) = 0
        /\ RxBetween(0, l)' /\ rx'.fsm = "IDLE"
    BY <1>1, <2>1, <2>2, AbortEdge
  <2>4. DueStep(ok, olen, k, len)
    BY <2>3 DEF DueStep
  <2>5. due' = Pending(ok2, olen) \o Pending(k, len)
    BY <1>2, <2>4, DueMoves
  <2>6. due' = Pending(0, l) \o Pending(k, len)
    BY <1>2, <2>3, <2>5 DEF Pending
  <2>7. Sound'
    BY <2>3 DEF OutputMoves
  <2>8. PICK none \in Nat : none = 0
    OBVIOUS
  <2>9. due' = Pending(none, l) \o Pending(k, len) /\ RxBetween(none, l)'
    BY <2>3, <2>6, <2>8
  <2> QED BY <1>5, <1>8, <2>3, <2>7, <2>9
<1> QED BY <1>6, <1>7, <1>8 DEF Between

---------------------------------------------------------------------------
\* The steps.

\* A clock edge.
LEMMA LoopCycleKeeps ==
  ASSUME GapInv, LoopInv, Cycle
  PROVE  LoopInv'
<1>1. tx \in Registers /\ Sound /\ Ready
  BY DEF GapInv, TypeOK, LoopInv
<1>2. Clock
  BY DEF Cycle, Clock, TxClock, RxClock
<1>3. PICK ok \in Nat, olen \in Nat, k \in Nat, len \in Nat :
        /\ due = Pending(ok, olen) \o Pending(k, len)
        /\ Between(ok, olen, k, len) \/ Begun(ok, olen, k, len) \/ Inside(ok, olen, k, len)
  BY DEF LoopInv, Placed
<1>4. LoopKept
  BY <1>1, <1>2, <1>3, BetweenKept, BegunKept, InsideKept
<1> QED BY <1>4 DEF LoopKept, LoopInv

\* A frame of which beats are still to be taken keeps the FIFO busy.
LEMMA StreamLeft ==
  ASSUME NEW k \in Nat, NEW len \in Nat, len > 16
  PROVE  /\ Stream(k, len) # <<>>
         /\ \A b : Taken(k, len, b) => axis # <<>>
<1>1. PICK s : s = Stream(k, len)
  OBVIOUS
<1>2. s \in Seq(Beat) /\ Len(s) >= 3 /\ Len(s) \in Nat
  BY <1>1, StreamBeats, Counting
<1>3. s # <<>>
  BY <1>2
<1>4. ASSUME NEW b, Taken(k, len, b) PROVE axis # <<>>
  <2>1. b \in 1 .. Len(s) - 1 /\ axis = SubSeq(s, b + 1, Len(s))
    BY <1>1, <1>4 DEF Taken
  <2>2. b \in 0 .. Len(s) - 1
    BY <1>2, <2>1
  <2> QED BY <1>2, <2>1, <2>2, NextBeat
<1> QED BY <1>1, <1>3, <1>4

\* What the FIFO does leaves the adapters as they are.
LEMMA RxStays ==
  ASSUME rx' = rx, part' = part, NEW ok, NEW olen, NEW k, NEW len, NEW at
  PROVE  /\ RxBetween(ok, olen)' <=> RxBetween(ok, olen)
         /\ RxInside(ok, olen, k, len, at)' <=> RxInside(ok, olen, k, len, at)
<1>1. Received' = Received /\ Left' = Left /\ (Open' <=> Open)
  BY DEF Received, Left, Open
<1>2. /\ LastInD0(ok, olen)' <=> LastInD0(ok, olen)
      /\ LastInI(ok, olen)' <=> LastInI(ok, olen)
      /\ LastOut(ok, olen)' <=> LastOut(ok, olen)
      /\ Gone(ok)' <=> Gone(ok)
      /\ Stale' <=> Stale
  BY <1>1 DEF LastInD0, LastInI, LastOut, Gone, Stale
<1>3. /\ \A top : Beats(k, len, top)' <=> Beats(k, len, top)
      /\ Checks(k, len, at)' <=> Checks(k, len, at)
  BY <1>1 DEF Beats, Checks
<1>4. RxBetween(ok, olen)' <=> RxBetween(ok, olen)
  BY <1>2 DEF RxBetween
<1>5. RxInside(ok, olen, k, len, at)' <=> RxInside(ok, olen, k, len, at)
  BY <1>2, <1>3 DEF RxInside
<1> QED BY <1>4, <1>5

\* The FIFO begins a frame only when it has none and the one before is over.
LEMMA LoopQueueKeeps ==
  ASSUME GapInv, LoopInv, NEW len2 \in Lengths \cup Aborted, NEW abort \in BOOLEAN, Queue(len2, abort)
  PROVE  LoopInv'
<1>1. len2 \in Nat /\ len2 > 16
  BY LengthAssumption DEF LANES
<1>2. id' \in Nat /\ id' # 0
  BY IdsAssumption DEF Queue, GapInv, TypeOK
<1>3. PICK k2 \in Nat : k2 = (IF abort THEN 0 ELSE id')
  BY <1>2
<1>4. axis = <<>> /\ tx.fsm \in READY
  BY DEF Queue, LoopInv, Ready
<1>5. axis' = Stream(k2, len2)
  <2>1. axis' = BeatsOf(k2, len2, abort)
    BY <1>3 DEF Queue
  <2>2. abort = (k2 = 0)
    BY <1>2, <1>3
  <2> QED BY <2>1, <2>2 DEF Stream
<1>6. PICK ok \in Nat, olen \in Nat, k \in Nat, len \in Nat :
        /\ due = Pending(ok, olen) \o Pending(k, len)
        /\ Between(ok, olen, k, len) \/ Begun(ok, olen, k, len) \/ Inside(ok, olen, k, len)
  BY DEF LoopInv, Placed
<1>7. Between(ok, olen, k, len)
  <2>1. ~Begun(ok, olen, k, len)
    BY <1>4, StreamLeft DEF Begun, LANES
  <2>2. ~Inside(ok, olen, k, len)
    <3>1. SUFFICES ASSUME NEW at \in Int, len > 16, TxInside(k, len, at) PROVE FALSE
      BY DEF Inside, LANES
    <3>2. \A b : ~Taken(k, len, b)
      BY <1>4, <3>1, StreamLeft
    <3> QED BY <1>4, <3>1, <3>2 DEF TxInside, READY
  <2> QED BY <1>6, <2>1, <2>2
<1>8. k = 0
  <2>1. Queued(k, len)
    BY <1>7 DEF Between
  <2> QED BY <1>4, <2>1, StreamLeft DEF Queued, LANES
<1>9. due' = Pending(ok, olen) \o Pending(k2, len2)
  <2>1. PICK q : q = Pending(ok, olen)
    OBVIOUS
  <2>2. due = q
    <3>1. due = q \o <<>>
      BY <1>6, <1>8, <2>1 DEF Pending
    <3>2. Pending(ok, olen) \o Pending(0, 0) = Pending(ok, olen)
      BY PendingAlone
    <3> QED BY <2>1, <3>1, <3>2 DEF Pending
  <2>3. CASE abort
    <3>1. due' = q
      BY <2>2, <2>3 DEF Queue
    <3>2. k2 = 0
      BY <1>3, <2>3
    <3>3. Pending(ok, olen) \o Pending(0, 0) = Pending(ok, olen)
      BY PendingAlone
    <3> QED BY <2>1, <3>1, <3>2, <3>3 DEF Pending
  <2>4. CASE ~abort
    <3>1. PICK f : f = [id |-> k2, len |-> len2]
      OBVIOUS
    <3>2. due' = Append(q, f) /\ k2 # 0
      BY <1>2, <1>3, <2>2, <2>4, <3>1 DEF Queue
    <3>3. PICK g : g = [id |-> ok, len |-> olen]
      OBVIOUS
    <3>4. q \in Seq({f, g}) /\ f \in {f, g}
      <4>1. q = <<>> \/ q = <<g>>
        BY <2>1, <3>3 DEF Pending
      <4>2. <<>> \in Seq({f, g}) /\ <<g>> \in Seq({f, g})
        OBVIOUS
      <4> QED BY <4>1, <4>2, Zenon
    <3>5. Append(q, f) = q \o <<f>>
      BY <3>4, AppendIsConcat
    <3>6. Pending(k2, len2) = <<f>>
      BY <3>1, <3>2 DEF Pending
    <3> QED BY <2>1, <3>2, <3>5, <3>6
  <2> QED BY <2>3, <2>4
<1>10. tx' = tx /\ rx' = rx /\ part' = part
  BY DEF Queue
<1>11. Between(ok, olen, k2, len2)'
  <2>1. Queued(k2, len2)'
    BY <1>1, <1>5 DEF Queued, LANES
  <2>2. tx'.fsm \notin {"SRES", "QW_IDLE"}
    BY <1>4, <1>10 DEF READY
  <2>3. \/ /\ tx.fsm \in {"SRES", "IDLE_L0", "DW_IDLE"} /\ tx.d = QW_IDLE
           /\ tx.fsm = "SRES" <=> rx.fsm = "SRES"
           /\ RxBetween(ok, olen)
        \/ /\ tx.fsm \in {"DW_IDLE", "QW_IDLE"} /\ ok # 0 /\ olen > 2 * LANES
           /\ \E at \in Int :
                /\ tx.d = Sent(ok, olen, at) /\ RxInside(0, 0, ok, olen, at)
                /\ olen + 4 - at \in 0 .. (IF tx.fsm = "DW_IDLE" THEN 3 ELSE 4)
    BY <1>7, <2>2, <1>10 DEF Between
  <2>4. RxBetween(ok, olen)' <=> RxBetween(ok, olen)
    BY <1>10, RxStays
  <2>5. \A at : RxInside(0, 0, ok, olen, at)' <=> RxInside(0, 0, ok, olen, at)
    BY <1>10, RxStays
  <2> QED BY <1>10, <2>1, <2>2, <2>3, <2>4, <2>5 DEF Between
<1>12. Sound' /\ Ready'
  BY <1>10 DEF LoopInv, Sound, Ready
<1> QED BY <1>1, <1>3, <1>9, <1>11, <1>12 DEF LoopInv, Placed

\* Nothing happens.
LEMMA LoopStutterKeeps ==
  ASSUME LoopInv, UNCHANGED vars
  PROVE  LoopInv'
<1>1. /\ tx' = tx /\ rx' = rx /\ axis' = axis /\ due' = due /\ part' = part
  BY DEF vars
<1>2. PICK ok \in Nat, olen \in Nat, k \in Nat, len \in Nat :
        /\ due = Pending(ok, olen) \o Pending(k, len)
        /\ Between(ok, olen, k, len) \/ Begun(ok, olen, k, len) \/ Inside(ok, olen, k, len)
  BY DEF LoopInv, Placed
<1>3. /\ RxBetween(ok, olen)' <=> RxBetween(ok, olen)
      /\ \A a, b, c, d, at : RxInside(a, b, c, d, at)' <=> RxInside(a, b, c, d, at)
      /\ \A b : Taken(k, len, b)' <=> Taken(k, len, b)
      /\ Queued(k, len)' <=> Queued(k, len)
  <2>1. \A b : Taken(k, len, b)' <=> Taken(k, len, b)
    BY <1>1 DEF Taken
  <2>2. Queued(k, len)' <=> Queued(k, len)
    BY <1>1 DEF Queued
  <2> QED BY <1>1, <2>1, <2>2, RxStays
<1>4. \A at : TxInside(k, len, at)' <=> TxInside(k, len, at)
  <2>1. \A n : TxFcs(n)' = TxFcs(n)
    BY <1>1 DEF TxFcs
  <2>2. \A n : Closes(k, len, n)' <=> Closes(k, len, n)
    BY <1>1, <2>1 DEF Closes
  <2> QED BY <1>1, <1>3, <2>2 DEF TxInside
<1>5. /\ Between(ok, olen, k, len) => Between(ok, olen, k, len)'
      /\ Begun(ok, olen, k, len) => Begun(ok, olen, k, len)'
      /\ Inside(ok, olen, k, len) => Inside(ok, olen, k, len)'
  <2>1. Between(ok, olen, k, len) => Between(ok, olen, k, len)'
    BY <1>1, <1>3 DEF Between
  <2>2. Begun(ok, olen, k, len) => Begun(ok, olen, k, len)'
    BY <1>1, <1>3 DEF Begun
  <2>3. Inside(ok, olen, k, len) => Inside(ok, olen, k, len)'
    BY <1>1, <1>3, <1>4 DEF Inside
  <2> QED BY <2>1, <2>2, <2>3
<1>6. Placed'
  BY <1>1, <1>2, <1>5 DEF Placed
<1> QED BY <1>1, <1>6 DEF LoopInv, Sound, Ready

\* Reset: no frame anywhere.
LEMMA LoopInvInit == Init => LoopInv
<1> SUFFICES ASSUME Init PROVE LoopInv
  OBVIOUS
<1>1. /\ tx.fsm = "SRES" /\ ~tx.TREADY /\ tx.d = QW_IDLE
      /\ axis = <<>> /\ due = <<>> /\ part = <<>>
  BY DEF Init, TxReset
<1>2. /\ rx.fsm = "SRES" /\ ~rx.out.valid /\ ~rx.tvalid_i /\ ~rx.tvalid_d0
      /\ rx.tdata_d0 = Lanes(Junk, LANES) /\ ~rx.inbound_frame /\ DOMAIN rx = RXFIELDS
  BY DEF Init, RxReset, NoOutput, RXFIELDS
<1>3. Stale
  <2>1. PICK w : w = Lanes(Junk, LANES)
    OBVIOUS
  <2>2. Junk \in Character
    BY Characters
  <2>3. w \in Words(LANES, Character) /\ \A i \in 1 .. LANES : w[i] = Junk
    BY <2>1, <2>2, LanesIsWord DEF LANES
  <2>4. w[1] = Junk
    BY <2>3 DEF LANES
  <2>5. Foreign(w)
    BY <2>4 DEF Foreign, Byte, Junk
  <2> QED BY <1>2, <2>1, <2>3, <2>5 DEF Stale
<1>4. Between(0, 0, 0, 0)
  <2>1. RxBetween(0, 0)
    BY <1>1, <1>2, <1>3 DEF RxBetween, Gone
  <2> QED BY <1>1, <1>2, <2>1 DEF Between, Queued
<1>5. due = Pending(0, 0) \o Pending(0, 0)
  BY <1>1, PendingAlone DEF Pending
<1>6. Placed
  BY <1>4, <1>5 DEF Placed
<1> QED BY <1>1, <1>2, <1>6 DEF LoopInv, Sound, Ready, READY
---------------------------------------------------------------------------
\* What comes out.

\* A last beat on the output is the older frame's.
LEMMA LastIsDue ==
  ASSUME LoopInv, ~Open
  PROVE  \E ok, olen, k, len \in Nat : due = Pending(ok, olen) \o Pending(k, len) /\ LastOut(ok, olen)
<1>1. PICK ok \in Nat, olen \in Nat, k \in Nat, len \in Nat :
        /\ due = Pending(ok, olen) \o Pending(k, len)
        /\ Between(ok, olen, k, len) \/ Begun(ok, olen, k, len) \/ Inside(ok, olen, k, len)
  BY DEF LoopInv, Placed
<1>2. RxBetween(ok, olen) => LastOut(ok, olen)
  BY DEF RxBetween, LastInI, LastInD0, Gone, Open
<1>3. \A a, b, at : RxInside(ok, olen, a, b, at) => LastOut(ok, olen)
  BY DEF RxInside, LastInI, Gone, Beats, Open
<1>4. CASE Between(ok, olen, k, len)
  <2>1. CASE \E at \in Int :
               /\ olen > 2 * LANES /\ RxInside(0, 0, ok, olen, at)
               /\ olen + 4 - at \in 0 .. (IF tx.fsm = "DW_IDLE" THEN 3 ELSE 4)
    <3>1. PICK at \in Int : at > 12 /\ RxInside(0, 0, ok, olen, at)
      BY <2>1 DEF LANES
    <3> QED BY <3>1 DEF RxInside, Beats
  <2>2. CASE RxBetween(ok, olen)
    BY <1>1, <1>2, <2>2
  <2>3. CASE \E at \in Int, l \in Nat : RxInside(ok, olen, 0, l, at)
    BY <1>1, <1>3, <2>3
  <2> QED BY <1>4, <2>1, <2>2, <2>3 DEF Between
<1>5. CASE Begun(ok, olen, k, len)
  BY <1>1, <1>2, <1>5 DEF Begun
<1>6. CASE Inside(ok, olen, k, len)
  BY <1>1, <1>3, <1>6 DEF Inside
<1> QED BY <1>1, <1>4, <1>5, <1>6

\* A last beat that is good ends the oldest frame due, and one that is bad is of
\* no frame due.
LEMMA LoopIntact == LoopInv => FramesIntact
<1> SUFFICES ASSUME LoopInv, rx.out.valid, rx.out.last
             PROVE  IF rx.out.user
                    THEN due # <<>> /\ Received = FrameBytes(Head(due).id, Head(due).len)
                    ELSE \A i \in 1 .. Len(due) : Byte(due[i].id, 0) # Received[1]
  BY DEF FramesIntact
<1>1. PICK ok \in Nat, olen \in Nat, k \in Nat, len \in Nat :
        due = Pending(ok, olen) \o Pending(k, len) /\ LastOut(ok, olen)
  BY LastIsDue DEF Open
<1>2. PICK f, g : f = [id |-> ok, len |-> olen] /\ g = [id |-> k, len |-> len]
  OBVIOUS
<1>3. CASE rx.out.user
  <2>1. ok # 0 /\ Received = FrameBytes(ok, olen)
    BY <1>1, <1>3 DEF LastOut, Back
  <2>2. due = <<f>> \o Pending(k, len)
    BY <1>1, <1>2, <2>1 DEF Pending
  <2>3. PICK t : t = Pending(k, len)
    OBVIOUS
  <2>4. due # <<>> /\ Head(due) = f
    <3>1. t = <<>> \/ t = <<g>>
      BY <1>2, <2>3 DEF Pending
    <3>2. <<f>> \in Seq({f, g}) /\ <<g>> \in Seq({f, g}) /\ <<>> \in Seq({f, g})
      OBVIOUS
    <3>3. t \in Seq({f, g})
      BY <3>1, <3>2, Zenon
    <3>4. due = <<f>> \o t
      BY <2>2, <2>3
    <3>5. due \in Seq({f, g}) /\ Len(due) # 0 /\ due[1] = f
      BY <3>2, <3>3, <3>4, ConcatProperties
    <3> QED BY <3>5
  <2>5. f.id = ok /\ f.len = olen
    BY <1>2
  <2> QED BY <1>3, <2>1, <2>4, <2>5
<1>4. CASE ~rx.out.user
  <2>1. ok = 0 /\ Foreign(Received)
    BY <1>1, <1>4 DEF LastOut, Back
  <2>2. due = Pending(k, len)
    <3>1. due = Pending(0, 0) \o Pending(k, len)
      BY <1>1, <2>1 DEF Pending
    <3> QED BY <3>1, PendingAlone
  <2>3. due = <<>> \/ (k # 0 /\ due = <<g>>)
    BY <1>2, <2>2 DEF Pending
  <2>4. g.id = k
    BY <1>2
  <2>5. ASSUME NEW i \in 1 .. Len(due) PROVE due[i].id \in Nat \ {0}
    BY <2>3, <2>4
  <2> QED BY <1>4, <2>1, <2>5 DEF Foreign
<1> QED BY <1>3, <1>4

\* When both are idle, neither of the two frames is anywhere.
LEMMA LoopAllReceived == LoopInv => AllReceived
<1> SUFFICES ASSUME LoopInv, Quiet PROVE due = <<>> /\ part = <<>>
  BY DEF AllReceived
<1>1. /\ axis = <<>> /\ tx.fsm = "IDLE_L0"
      /\ rx.fsm = "IDLE" /\ ~rx.tvalid_i /\ ~rx.out.valid
  BY DEF Quiet
<1>2. PICK ok \in Nat, olen \in Nat, k \in Nat, len \in Nat :
        /\ due = Pending(ok, olen) \o Pending(k, len)
        /\ Between(ok, olen, k, len) \/ Begun(ok, olen, k, len) \/ Inside(ok, olen, k, len)
  BY DEF LoopInv, Placed
<1>3. Queued(k, len) /\ RxBetween(ok, olen)
  BY <1>1, <1>2 DEF Between, Begun, Inside, TxInside
<1>4. k = 0
  BY <1>1, <1>3, StreamLeft DEF Queued, LANES
<1>5. ok = 0 /\ part = <<>>
  BY <1>1, <1>3 DEF RxBetween, LastInI, LastOut, Gone
<1>6. due = Pending(0, 0) \o Pending(0, 0)
  BY <1>2, <1>4, <1>5 DEF Pending
<1> QED BY <1>5, <1>6, PendingAlone DEF Pending

\* Together with the invariant of the gap, which has the types of the registers.
LEMMA LoopInvariant ==
  ASSUME GapInv, LoopInv, [Next]_vars
  PROVE  GapInv' /\ LoopInv'
<1>1. CASE Cycle
  BY <1>1, CycleKeeps, LoopCycleKeeps
<1>2. ASSUME NEW len \in Lengths, Queue(len, FALSE) PROVE GapInv' /\ LoopInv'
  BY <1>2, QueueKeeps, LoopQueueKeeps
<1>3. ASSUME NEW len \in Aborted, Queue(len, TRUE) PROVE GapInv' /\ LoopInv'
  BY <1>3, QueueKeeps, LoopQueueKeeps
<1>4. CASE UNCHANGED vars
  <2>1. GapInv'
    BY <1>4 DEF vars, GapInv, TypeOK, DicTrue, Covered, GapKept
  <2> QED BY <1>4, <2>1, LoopStutterKeeps
<1> QED BY <1>1, <1>2, <1>3, <1>4 DEF Next

LEMMA LoopAlways == Spec => [](GapInv /\ LoopInv)
<1>1. Init => GapInv /\ LoopInv
  BY GapInvInit, LoopInvInit
<1>2. (GapInv /\ LoopInv) /\ [Next]_vars => (GapInv /\ LoopInv)'
  BY LoopInvariant
<1> QED BY <1>1, <1>2, PTL DEF Spec

\* The frames come back byte-identical: whatever lane a frame starts in, whatever
\* lane it ends in and however close the next one follows, xgmii2axis.v marks its
\* last beat good and what came out before it is the oldest frame axis2xgmii.v was
\* given; and a frame it marks bad is none of those.
THEOREM FramesComeBack == Spec => []FramesIntact
<1>1. LoopInv => FramesIntact
  BY LoopIntact
<1> QED BY <1>1, LoopAlways, PTL

\* None is lost: when both adapters and the wire between them are idle, every frame
\* that was not aborted has come back and no part of one is left over.
THEOREM NoneMissing == Spec => []AllReceived
<1>1. LoopInv => AllReceived
  BY LoopAllReceived
<1> QED BY <1>1, LoopAlways, PTL
============================================================================

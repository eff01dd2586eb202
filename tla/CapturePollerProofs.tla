------------------------ MODULE CapturePollerProofs ------------------------
(***************************************************************************)
(* Proofs about CapturePoller, for every size of beat, FIFO and frame.     *)
(***************************************************************************)
EXTENDS CapturePoller, SequenceTheorems, TLAPS

---------------------------------------------------------------------------
\* Beats of a frame, and of what is left of one after its first beats.

LEMMA BeatsBounds ==
    ASSUME NEW n \in Nat
    PROVE  /\ Beats(n) \in Nat
           /\ BEAT * Beats(n) < n + BEAT
           /\ n <= BEAT * Beats(n)
<1>. DEFINE y == n + BEAT - 1
<1>1. BEAT \in Nat /\ BEAT > 0 /\ y \in Nat
  BY SizeAssumption
<1>2. y \div BEAT \in Nat /\ y = BEAT * (y \div BEAT) + (y % BEAT) /\ y % BEAT \in 0 .. BEAT - 1
  BY <1>1
<1>. QED BY <1>1, <1>2 DEF Beats

LEMMA Quotient ==
    ASSUME NEW a \in Int, NEW b \in Int,
           BEAT * a < BEAT * (b + 1), BEAT * b < BEAT * (a + 1)
    PROVE  a = b
<1>1. BEAT \in Nat /\ BEAT > 0
  BY SizeAssumption
<1>2. CASE a > b
  <2>1. BEAT * (a - (b + 1)) >= 0
    BY <1>1, <1>2
  <2>. QED BY <1>1, <2>1
<1>3. CASE a < b
  <2>1. BEAT * (b - (a + 1)) >= 0
    BY <1>1, <1>3
  <2>. QED BY <1>1, <2>1
<1>. QED BY <1>2, <1>3

LEMMA BeatsOfRest ==
    ASSUME NEW n \in Nat, NEW m \in Nat, m < Beats(n)
    PROVE  /\ n - BEAT * m \in Nat \ {0}
           /\ Beats(n - BEAT * m) = Beats(n) - m
<1>1. BEAT \in Nat /\ BEAT > 0
  BY SizeAssumption
<1>. DEFINE r == n - BEAT * m
            q == Beats(n)
<1>2. q \in Nat /\ BEAT * q < n + BEAT /\ n <= BEAT * q
  BY BeatsBounds
<1>3. BEAT * m + BEAT <= BEAT * q
  <2>1. BEAT * (q - (m + 1)) >= 0
    BY <1>1, <1>2
  <2>. QED BY <1>1, <1>2, <2>1
<1>4. r \in Nat \ {0}
  BY <1>1, <1>2, <1>3
<1>5. Beats(r) \in Nat /\ BEAT * Beats(r) < r + BEAT /\ r <= BEAT * Beats(r)
  BY <1>4, BeatsBounds
<1>. DEFINE s == Beats(r)
<1>. HIDE DEF q, s
<1>6. q - m \in Int /\ s \in Int
  BY <1>2, <1>5 DEF s
<1>7. BEAT * (q - m) < BEAT * (s + 1) /\ BEAT * s < BEAT * ((q - m) + 1)
  <2>1. BEAT * (q - m) = BEAT * q - BEAT * m /\ BEAT * (s + 1) = BEAT * s + BEAT
        /\ BEAT * ((q - m) + 1) = BEAT * q - BEAT * m + BEAT
    BY <1>1, <1>2, <1>6
  <2>2. BEAT * q \in Int /\ BEAT * m \in Int /\ BEAT * s \in Int
    BY <1>1, <1>2, <1>6
  <2>. QED BY <1>1, <1>2, <1>5, <2>1, <2>2 DEF s
<1>8. q - m = s
  BY <1>6, <1>7, Quotient
<1>. QED BY <1>4, <1>8 DEF q, s

---------------------------------------------------------------------------
\* The FIFO holds the words of the frame being read, then those of each complete
\* frame, then those of the frame that is coming in.

Frame == [id : Nat, len : Lengths, from : Nat, beat : Nat]

TypeInv ==
    /\ rx \in Seq(Nat \X Nat) /\ lens \in Seq(Nat) /\ lengthOf \in Seq(Lengths)
    /\ len \in Nat /\ want \in Nat
    /\ \/ incoming = NoFrame
       \/ /\ incoming \in Frame /\ incoming.from >= 1
          /\ incoming.from <= incoming.beat /\ incoming.beat <= Beats(incoming.len)

WordsIn == IF incoming = NoFrame THEN 0 ELSE 2 * (incoming.beat - incoming.from)

\* Words the poller is about to read without asking again.
Claimed ==
    IF pc = "read" THEN want ELSE IF pc = "check" /\ Plausible(len) THEN WordsToRead(len) ELSE 0

\* last[j]: the word the j-th complete frame ends with.
Holds(last) ==
    /\ last[0] = Claimed
    /\ \A j \in 1 .. Len(lens) : last[j] = last[j - 1] + WordsToRead(lens[j])
    /\ \A j \in 0 .. Len(lens) : last[j] + WordsIn <= Len(rx)

EnoughWords == \E last \in [0 .. Len(lens) -> Int] : Holds(last)

ReadInv == TypeInv /\ EnoughWords

LEMMA TypeStep ==
    ASSUME TypeInv, [Next]_vars
    PROVE  TypeInv'
<1>. USE DEF TypeInv
<1>1. \A n \in Lengths : n \in Nat /\ Beats(n) \in Nat /\ Beats(n) >= 1
  <2>1. ASSUME NEW n \in Lengths
        PROVE  n \in Nat /\ Beats(n) \in Nat /\ Beats(n) >= 1
    <3>1. n \in Nat /\ n >= 1
      BY SizeAssumption, FitAssumption
    <3>2. Beats(n) \in Nat /\ n <= BEAT * Beats(n)
      BY <3>1, BeatsBounds
    <3>3. Beats(n) # 0
      BY <3>1, <3>2, SizeAssumption
    <3>. QED BY <3>1, <3>2, <3>3
  <2>. QED BY <2>1
<1>2. CASE NextFrame
  <2>1. PICK n \in Lengths :
          /\ incoming' = [id |-> Len(lengthOf) + 1, len |-> n, from |-> 1, beat |-> 1]
          /\ lengthOf' = Append(lengthOf, n)
    BY <1>2 DEF NextFrame
  <2>2. incoming' \in Frame
    BY <2>1 DEF Frame
  <2>. QED BY <1>1, <1>2, <2>1, <2>2 DEF NextFrame, poller
<1>3. CASE StoreBeat
  <2>1. /\ incoming # NoFrame /\ incoming \in Frame /\ incoming.len \in Lengths
        /\ incoming.beat \in Nat /\ incoming.from \in Nat /\ incoming.id \in Nat
    BY <1>3 DEF StoreBeat, Frame
  <2>2. rx' \in Seq(Nat \X Nat)
    BY <1>3, <2>1, SMTT(30) DEF StoreBeat
  <2>3. CASE incoming.beat = Beats(incoming.len)
    <3>1. lens' = Append(lens, incoming.len - BEAT * (incoming.from - 1)) /\ incoming' = NoFrame
      BY <1>3, <2>3 DEF StoreBeat
    <3>2. incoming.len - BEAT * (incoming.from - 1) \in Nat
      BY <1>1, <2>1, <2>3, BeatsOfRest
    <3>. QED BY <1>3, <2>2, <3>1, <3>2 DEF StoreBeat, poller, history
  <2>4. CASE incoming.beat # Beats(incoming.len)
    <3>1. incoming' = [incoming EXCEPT !.beat = @ + 1] /\ lens' = lens
      BY <1>3, <2>4 DEF StoreBeat
    <3>2. UNCHANGED <<lengthOf, len, want>>
      BY <1>3 DEF StoreBeat, poller, history
    <3>3. /\ incoming.from >= 1 /\ incoming.from <= incoming.beat
          /\ incoming.beat <= Beats(incoming.len) /\ Beats(incoming.len) \in Nat
      BY <1>1, <2>1
    <3>. HIDE DEF TypeInv
    <3>4. incoming' \in Frame
      BY <2>1, <3>1 DEF Frame
    <3>5. /\ incoming'.beat = incoming.beat + 1
          /\ incoming'.from = incoming.from /\ incoming'.len = incoming.len
      BY <2>1, <3>1 DEF Frame
    <3>6. incoming.beat + 1 <= Beats(incoming.len) /\ incoming.from <= incoming.beat + 1
      BY <2>1, <2>4, <3>3
    <3>. QED BY <2>2, <3>1, <3>2, <3>3, <3>4, <3>5, <3>6 DEF TypeInv
  <2>. QED BY <2>3, <2>4
<1>4. CASE WriteSRR \/ WriteRDFR
  <2>1. ResetRx /\ UNCHANGED <<len, want, lengthOf>>
    BY <1>4 DEF WriteSRR, WriteRDFR
  <2>2. CASE incoming' = NoFrame
    BY <2>1, <2>2 DEF ResetRx
  <2>3. CASE incoming # NoFrame /\ incoming' = [incoming EXCEPT !.from = incoming.beat]
    <3>1. /\ incoming' \in Frame /\ incoming'.beat = incoming.beat
          /\ incoming'.from = incoming.beat /\ incoming'.len = incoming.len
          /\ incoming.from \in Nat /\ incoming.beat \in Nat
      BY <2>3 DEF Frame
    <3>. QED BY <2>1, <2>3, <3>1 DEF ResetRx
  <2>. QED BY <2>1, <2>2, <2>3 DEF ResetRx
<1>5. CASE ReadRLR
  BY <1>5, SizeAssumption DEF ReadRLR
<1>6. CASE StartFrame
  <2>1. want' = 2 * Beats(len) /\ UNCHANGED <<fifo, len, history>>
    BY <1>6 DEF StartFrame, WordsToRead
  <2>2. Beats(len) \in Nat
    BY BeatsBounds
  <2>3. want' \in Nat
    BY <2>1, <2>2
  <2>. QED BY <2>1, <2>3 DEF fifo, history
<1>7. CASE ReadRDFD
  BY <1>7 DEF ReadRDFD, history
<1>8. CASE ClearISR \/ TestStop \/ ReadRDFO \/ ReadRLRZero \/ LoseSync \/ Publish
  BY <1>8 DEF ClearISR, TestStop, ReadRDFO, ReadRLRZero, LoseSync, Publish, fifo, history
<1>9. CASE Signal \/ UNCHANGED vars
  BY <1>9 DEF Signal, vars, fifo, poller, history
<1>. QED BY <1>2, <1>3, <1>4, <1>5, <1>6, <1>7, <1>8, <1>9 DEF Next, Poll

LEMMA WordsToReadType == \A n \in Nat : WordsToRead(n) \in Nat
<1>1. ASSUME NEW n \in Nat PROVE WordsToRead(n) \in Nat
  <2>1. Beats(n) \in Nat
    BY BeatsBounds
  <2>. QED BY <2>1 DEF WordsToRead
<1>. QED BY <1>1

LEMMA Counts ==
    ASSUME TypeInv
    PROVE  /\ Claimed \in Nat /\ WordsIn \in Nat /\ Len(lens) \in Nat /\ Len(rx) \in Nat
           /\ \A n \in 1 .. Len(lens) : WordsToRead(lens[n]) \in Nat
<1>1. Claimed \in Nat
  BY WordsToReadType DEF TypeInv, Claimed
<1>2. WordsIn \in Nat
  BY DEF TypeInv, WordsIn, Frame
<1>3. ASSUME NEW n \in 1 .. Len(lens) PROVE WordsToRead(lens[n]) \in Nat
  <2>1. lens[n] \in Nat
    BY DEF TypeInv
  <2>. QED BY <2>1, WordsToReadType, Zenon
<1>. QED BY <1>1, <1>2, <1>3 DEF TypeInv

\* The list of lengths stays, and the FIFO gains what is claimed or comes in.
LEMMA Shift ==
    ASSUME TypeInv, EnoughWords, lens' = lens,
           Claimed' \in Int, WordsIn' \in Int, Len(rx') \in Int,
           Claimed' - Claimed + WordsIn' - WordsIn <= Len(rx') - Len(rx)
    PROVE  EnoughWords'
<1>1. PICK last \in [0 .. Len(lens) -> Int] : Holds(last)
  BY DEF EnoughWords
<1>. DEFINE d == Claimed' - Claimed
            next == [j \in 0 .. Len(lens) |-> last[j] + d]
<1>2. /\ Claimed \in Nat /\ WordsIn \in Nat /\ Len(lens) \in Nat /\ Len(rx) \in Nat
      /\ \A n \in 1 .. Len(lens) : WordsToRead(lens[n]) \in Nat
  BY Counts, Zenon
<1>3. d \in Int /\ Claimed' = Claimed + d
  <2>1. \A a, b \in Int : a - b \in Int /\ a = b + (a - b)
    OBVIOUS
  <2>2. Claimed \in Int
    BY <1>2
  <2>. QED BY <2>1, <2>2, Zenon
<1>. HIDE DEF d
<1>4. next \in [0 .. Len(lens) -> Int]
  BY <1>3
<1>5. /\ next[0] = Claimed'
      /\ \A j \in 1 .. Len(lens) : next[j] = next[j - 1] + WordsToRead(lens[j])
      /\ \A j \in 0 .. Len(lens) : next[j] + WordsIn' <= Len(rx')
  <2>1. next[0] = Claimed'
    BY <1>1, <1>2, <1>3 DEF Holds, d
  <2>2. ASSUME NEW j \in 1 .. Len(lens) PROVE next[j] = next[j - 1] + WordsToRead(lens[j])
    <3>1. j \in 0 .. Len(lens) /\ j - 1 \in 0 .. Len(lens) /\ last[j] = last[j - 1] + WordsToRead(lens[j])
      BY <1>1, <1>2, SMTT(30) DEF Holds
    <3>2. next[j] = last[j] + d /\ next[j - 1] = last[j - 1] + d /\ last[j - 1] \in Int
      BY <3>1
    <3>3. WordsToRead(lens[j]) \in Int
      BY <1>2
    <3>. HIDE DEF next
    <3>. QED BY <1>3, <3>1, <3>2, <3>3
  <2>3. ASSUME NEW j \in 0 .. Len(lens) PROVE next[j] + WordsIn' <= Len(rx')
    <3>1. last[j] + WordsIn <= Len(rx) /\ last[j] \in Int
      BY <1>1 DEF Holds
    <3>2. next[j] = last[j] + d
      OBVIOUS
    <3>. HIDE DEF next
    <3>. QED BY <1>2, <1>3, <3>1, <3>2
  <2>. QED BY <2>1, <2>2, <2>3
<1>. HIDE DEF next
<1>. QED BY <1>4, <1>5 DEF EnoughWords, Holds

\* The length that closes a frame is that of the words the FIFO has of it.
LEMMA WordsOfRest ==
    ASSUME TypeInv, incoming # NoFrame, incoming.beat = Beats(incoming.len),
           incoming.len \in Nat, incoming.from \in Nat, incoming.beat \in Nat, incoming.from >= 1,
           incoming.from <= incoming.beat
    PROVE  LET rest == incoming.len - BEAT * (incoming.from - 1)
           IN  rest \in Nat /\ WordsToRead(rest) = WordsIn + 2
<1>. DEFINE rest == incoming.len - BEAT * (incoming.from - 1)
<1>1. incoming.from - 1 \in Nat /\ incoming.from - 1 < Beats(incoming.len)
  OBVIOUS
<1>2. rest \in Nat /\ Beats(rest) = incoming.beat - (incoming.from - 1)
  BY <1>1, BeatsOfRest
<1>. HIDE DEF rest
<1>3. WordsToRead(rest) = WordsIn + 2
  BY <1>2 DEF WordsToRead, WordsIn
<1>. QED BY <1>2, <1>3 DEF rest

\* A frame is complete.
LEMMA LastBeat ==
    ASSUME TypeInv, EnoughWords, StoreBeat, incoming.beat = Beats(incoming.len)
    PROVE  EnoughWords'
<1>1. PICK last \in [0 .. Len(lens) -> Int] : Holds(last)
  BY DEF EnoughWords
<1>. DEFINE L == Len(lens)
            rest == incoming.len - BEAT * (incoming.from - 1)
            next == [j \in 0 .. L + 1 |-> IF j = L + 1 THEN last[L] + WordsToRead(rest) ELSE last[j]]
<1>2. /\ Claimed \in Nat /\ WordsIn \in Nat /\ L \in Nat /\ Len(rx) \in Nat /\ rx \in Seq(Nat \X Nat)
  BY Counts DEF TypeInv
<1>3. /\ incoming # NoFrame /\ incoming' = NoFrame /\ lens' = Append(lens, rest)
      /\ rx' = rx \o << <<incoming.id, 2 * incoming.beat - 1>>, <<incoming.id, 2 * incoming.beat>> >>
      /\ UNCHANGED poller
  BY DEF StoreBeat
<1>4. /\ incoming.len \in Nat /\ incoming.beat \in Nat /\ incoming.from \in Nat
      /\ incoming.id \in Nat /\ incoming.from >= 1 /\ incoming.from <= incoming.beat
  BY <1>3, FitAssumption, SizeAssumption, SMTT(30) DEF TypeInv, Frame
<1>5. rest \in Nat /\ WordsToRead(rest) = WordsIn + 2
  BY <1>3, <1>4, WordsOfRest
<1>. HIDE DEF rest
<1>6. Claimed' = Claimed /\ WordsIn' = 0 /\ Len(rx') = Len(rx) + 2
  BY <1>2, <1>3, <1>4 DEF Claimed, WordsIn, poller
<1>7. /\ Len(lens') = L + 1 /\ lens'[L + 1] = rest
      /\ \A j \in 1 .. L : lens'[j] = lens[j]
  BY <1>3, <1>5 DEF TypeInv
<1>. HIDE DEF L
<1>8. next \in [0 .. L + 1 -> Int]
  BY <1>1, <1>2, <1>5, SMTT(30) DEF L
<1>9. next[0] = Claimed'
  BY <1>1, <1>2, <1>6 DEF Holds
<1>10. ASSUME NEW j \in 1 .. L + 1 PROVE next[j] = next[j - 1] + WordsToRead(lens'[j])
  <2>1. CASE j = L + 1
    BY <1>2, <1>7, <2>1
  <2>2. CASE j \in 1 .. L
    <3>1. last[j] = last[j - 1] + WordsToRead(lens[j])
      BY <1>1, <2>2 DEF Holds, L
    <3>. QED BY <1>2, <1>7, <2>2, <3>1
  <2>. QED BY <1>2, <2>1, <2>2
<1>11. ASSUME NEW j \in 0 .. L + 1 PROVE next[j] + WordsIn' <= Len(rx')
  <2>1. \A n \in 0 .. L : last[n] + WordsIn <= Len(rx) /\ last[n] \in Int
    BY <1>1 DEF Holds, L
  <2>2. CASE j = L + 1
    <3>1. next[j] = last[L] + (WordsIn + 2)
      BY <1>5, <2>2
    <3>2. last[L] + WordsIn <= Len(rx) /\ last[L] \in Int
      BY <1>2, <2>1
    <3>. QED BY <1>2, <1>6, <3>1, <3>2
  <2>3. CASE j \in 0 .. L
    BY <1>2, <1>6, <2>1, <2>3
  <2>. QED BY <1>2, <2>2, <2>3
<1>. HIDE DEF next
<1>. QED BY <1>7, <1>8, <1>9, <1>10, <1>11 DEF EnoughWords, Holds

\* A length is read: its words are claimed, or nothing is.
LEMMA LengthRead ==
    ASSUME TypeInv, EnoughWords, ReadRLR
    PROVE  EnoughWords'
<1>1. PICK last \in [0 .. Len(lens) -> Int] : Holds(last)
  BY DEF EnoughWords
<1>. DEFINE L == Len(lens)
            n == lens[1]
<1>2. /\ Claimed = 0 /\ WordsIn \in Nat /\ L \in Nat /\ L >= 1 /\ Len(rx) \in Nat /\ n \in Nat
      /\ pc = "rlr" /\ pc' = "check" /\ lens' = Tail(lens) /\ UNCHANGED <<rx, incoming>>
      /\ \/ len' = n
         \/ len' \in {0, MAX_BYTES + 1}
  BY Counts DEF TypeInv, ReadRLR, Step, Claimed
<1>3. WordsToRead(n) \in Nat
  BY <1>2, WordsToReadType
<1>4. /\ Len(lens') = L - 1 /\ \A j \in 1 .. L - 1 : lens'[j] = lens[j + 1]
  BY <1>2 DEF TypeInv
<1>5. Claimed' \in {0, WordsToRead(n)} /\ WordsIn' = WordsIn /\ Len(rx') = Len(rx)
  BY <1>2, SizeAssumption DEF Claimed, Plausible, WordsIn
<1>. DEFINE d == WordsToRead(n) - Claimed'
            next == [j \in 0 .. L - 1 |-> last[j + 1] - d]
<1>6. d \in Nat /\ Claimed' \in Int /\ Claimed' = WordsToRead(n) - d
  BY <1>3, <1>5
<1>. HIDE DEF d, n, L
<1>7. \A j \in 0 .. L : last[j] \in Int /\ last[j] + WordsIn <= Len(rx)
  BY <1>1 DEF Holds, L
<1>8. next \in [0 .. L - 1 -> Int]
  <2>1. \A j \in 0 .. L - 1 : j + 1 \in 0 .. L
    BY <1>2
  <2>. QED BY <1>6, <1>7, <2>1
<1>9. next[0] = Claimed'
  <2>1. last[1] = last[0] + WordsToRead(n) /\ last[0] = 0
    BY <1>1, <1>2 DEF Holds, L, n
  <2>2. 0 \in 0 .. L - 1 /\ 0 + 1 = 1
    BY <1>2
  <2>. QED BY <1>3, <1>6, <2>1, <2>2
<1>10. ASSUME NEW j \in 1 .. L - 1 PROVE next[j] = next[j - 1] + WordsToRead(lens'[j])
  <2>1. /\ j + 1 \in 1 .. L /\ (j + 1) - 1 = j /\ (j - 1) + 1 = j
        /\ j \in 0 .. L - 1 /\ j - 1 \in 0 .. L - 1 /\ j \in 0 .. L
    BY <1>2
  <2>2. last[j + 1] = last[j] + WordsToRead(lens[j + 1])
    BY <1>1, <2>1 DEF Holds, L
  <2>3. WordsToRead(lens[j + 1]) \in Int
    BY <2>1, Counts DEF L
  <2>. QED BY <1>4, <1>6, <1>7, <2>1, <2>2, <2>3
<1>11. ASSUME NEW j \in 0 .. L - 1 PROVE next[j] + WordsIn' <= Len(rx')
  <2>1. j + 1 \in 0 .. L
    BY <1>2
  <2>. QED BY <1>2, <1>5, <1>6, <1>7, <2>1, SMTT(30)
<1>. HIDE DEF next
<1>. QED BY <1>4, <1>8, <1>9, <1>10, <1>11 DEF EnoughWords, Holds
LEMMA EnoughStep ==
    ASSUME ReadInv, [Next]_vars
    PROVE  EnoughWords'
<1>1. TypeInv /\ EnoughWords /\ TypeInv'
  BY TypeStep DEF ReadInv
<1>2. /\ Claimed \in Nat /\ WordsIn \in Nat /\ Len(lens) \in Nat /\ Len(rx) \in Nat
      /\ rx \in Seq(Nat \X Nat)
  BY <1>1, Counts DEF TypeInv
<1>3. ASSUME UNCHANGED <<rx, lens>>, Claimed' = Claimed, WordsIn' = WordsIn
      PROVE  EnoughWords'
  <2>1. Len(rx') = Len(rx)
    BY <1>3
  <2>2. Claimed' \in Int /\ WordsIn' \in Int /\ Len(rx') \in Int
    BY <1>2, <1>3, <2>1
  <2>3. Claimed' - Claimed + WordsIn' - WordsIn <= Len(rx') - Len(rx)
    BY <1>2, <1>3, <2>1
  <2>. QED BY <1>1, <1>3, <2>2, <2>3, Shift
<1>4. CASE NextFrame
  <2>1. /\ UNCHANGED <<rx, lens, pc, want, len>> /\ incoming = NoFrame
        /\ incoming'.from = 1 /\ incoming'.beat = 1 /\ incoming' # NoFrame
    BY <1>4 DEF NextFrame, poller, NoFrame
  <2>2. Claimed' = Claimed /\ WordsIn' = WordsIn
    BY <2>1 DEF Claimed, WordsIn
  <2>. QED BY <1>3, <2>1, <2>2
<1>5. CASE StoreBeat
  <2>1. CASE incoming.beat = Beats(incoming.len)
    BY <1>1, <1>5, <2>1, LastBeat
  <2>2. CASE incoming.beat # Beats(incoming.len)
    <3>1. /\ incoming # NoFrame /\ incoming \in Frame /\ incoming' = [incoming EXCEPT !.beat = @ + 1]
          /\ lens' = lens /\ UNCHANGED poller
          /\ rx' = rx \o << <<incoming.id, 2 * incoming.beat - 1>>, <<incoming.id, 2 * incoming.beat>> >>
      BY <1>1, <1>5, <2>2 DEF StoreBeat, TypeInv
    <3>2. /\ incoming.beat \in Nat /\ incoming.from \in Nat
          /\ incoming'.beat = incoming.beat + 1 /\ incoming'.from = incoming.from
          /\ incoming.from >= 1 /\ incoming.beat >= 1 /\ incoming.id \in Nat
      BY <1>1, <3>1 DEF Frame, TypeInv
    <3>3. incoming' # NoFrame
      BY <3>2 DEF NoFrame
    <3>4. Claimed' = Claimed /\ WordsIn' = WordsIn + 2
      BY <3>1, <3>2, <3>3 DEF Claimed, WordsIn, poller
    <3>5. Len(rx') = Len(rx) + 2
      BY <1>2, <3>1, <3>2
    <3>6. Claimed' \in Int /\ WordsIn' \in Int /\ Len(rx') \in Int
      BY <1>2, <3>4, <3>5
    <3>7. Claimed' - Claimed + WordsIn' - WordsIn <= Len(rx') - Len(rx)
      BY <1>2, <3>4, <3>5
    <3>. QED BY <1>1, <3>1, <3>6, <3>7, Shift
  <2>. QED BY <2>1, <2>2
<1>6. CASE WriteSRR \/ WriteRDFR
  <2>1. ResetRx /\ pc' # "read" /\ pc' # "check"
    BY <1>6 DEF WriteSRR, WriteRDFR, Step
  <2>2. Claimed' = 0
    BY <2>1 DEF Claimed
  <2>3. WordsIn' = 0
    <3>1. CASE incoming' = NoFrame
      BY <3>1 DEF WordsIn
    <3>2. CASE incoming # NoFrame /\ incoming' = [incoming EXCEPT !.from = incoming.beat]
      <4>1. incoming \in Frame
        BY <1>1, <3>2 DEF TypeInv
      <4>2. incoming'.from = incoming'.beat /\ incoming'.beat \in Nat
        BY <3>2, <4>1 DEF Frame
      <4>. QED BY <4>2 DEF WordsIn
    <3>. QED BY <2>1, <3>1, <3>2 DEF ResetRx
  <2>. DEFINE none == [j \in 0 .. 0 |-> 0]
  <2>4. lens' = <<>> /\ rx' = <<>> /\ Len(lens') = 0 /\ Len(rx') = 0
    BY <2>1 DEF ResetRx
  <2>5. none \in [0 .. Len(lens') -> Int] /\ none[0] = 0
    BY <2>4
  <2>6. none[0] = Claimed'
    BY <2>2, <2>5
  <2>7. \A j \in 1 .. Len(lens') : none[j] = none[j - 1] + WordsToRead(lens'[j])
    BY <2>4
  <2>8. \A j \in 0 .. Len(lens') : none[j] + WordsIn' <= Len(rx')
    <3>1. \A j \in 0 .. Len(lens') : none[j] = 0
      BY <2>4
    <3>. HIDE DEF none
    <3>. QED BY <2>3, <2>4, <3>1
  <2>. HIDE DEF none
  <2>. QED BY <2>5, <2>6, <2>7, <2>8 DEF EnoughWords, Holds
<1>7. CASE ReadRLR
  BY <1>1, <1>7, LengthRead
<1>8. CASE ClearISR \/ TestStop \/ ReadRDFO \/ ReadRLRZero
  <2>1. /\ UNCHANGED <<rx, lens, incoming, want, len>>
        /\ pc # "read" /\ pc # "check" /\ pc' # "read" /\ pc' # "check"
    BY <1>8 DEF ClearISR, TestStop, ReadRDFO, ReadRLRZero, Step, fifo, WhenEmpty
  <2>. QED BY <1>3, <2>1 DEF Claimed, WordsIn
<1>9. CASE LoseSync
  <2>1. /\ UNCHANGED <<rx, lens, incoming, want, len>> /\ ~Plausible(len)
        /\ pc = "check" /\ pc' # "read" /\ pc' # "check"
    BY <1>9 DEF LoseSync, Step, fifo, Resync
  <2>. QED BY <1>3, <2>1 DEF Claimed, WordsIn
<1>10. CASE StartFrame
  <2>1. /\ UNCHANGED <<rx, lens, incoming, len>> /\ Plausible(len)
        /\ pc = "check" /\ pc' = "read" /\ want' = WordsToRead(len)
    BY <1>10 DEF StartFrame, Step, fifo
  <2>. QED BY <1>3, <2>1 DEF Claimed, WordsIn
<1>11. CASE ReadRDFD
  <2>1. /\ UNCHANGED <<lens, incoming>> /\ pc = "read" /\ pc' = "read"
        /\ want > 0 /\ want' = want - 1 /\ rx' = Tail(rx) /\ rx # <<>>
    BY <1>11 DEF ReadRDFD, Step
  <2>2. Len(rx') = Len(rx) - 1
    BY <1>2, <2>1
  <2>3. Claimed' = Claimed - 1 /\ WordsIn' = WordsIn
    BY <2>1 DEF Claimed, WordsIn
  <2>4. Claimed' \in Int /\ WordsIn' \in Int /\ Len(rx') \in Int
    BY <1>2, <2>2, <2>3
  <2>5. Claimed' - Claimed + WordsIn' - WordsIn <= Len(rx') - Len(rx)
    BY <1>2, <2>2, <2>3
  <2>. QED BY <1>1, <2>1, <2>4, <2>5, Shift
<1>12. CASE Publish
  <2>1. /\ UNCHANGED <<rx, lens, incoming>> /\ pc = "read" /\ pc' = "test" /\ want = 0
    BY <1>12 DEF Publish, Step, fifo
  <2>. QED BY <1>3, <2>1 DEF Claimed, WordsIn
<1>13. CASE Signal \/ UNCHANGED vars
  <2>1. UNCHANGED <<rx, lens, incoming, pc, want, len>>
    BY <1>13 DEF Signal, vars, fifo, poller
  <2>. QED BY <1>3, <2>1 DEF Claimed, WordsIn
<1>. QED BY <1>4, <1>5, <1>6, <1>7, <1>8, <1>9, <1>10, <1>11, <1>12, <1>13 DEF Next, Poll, ReadInv

LEMMA ReadInit == Init => ReadInv
<1>. SUFFICES ASSUME Init PROVE ReadInv
  OBVIOUS
<1>1. TypeInv
  BY DEF Init, TypeInv
<1>2. Claimed = 0 /\ WordsIn = 0 /\ Len(lens) = 0 /\ Len(rx) = 0
  BY DEF Init, Claimed, WordsIn
<1>. DEFINE none == [j \in 0 .. 0 |-> 0]
<1>3. none \in [0 .. Len(lens) -> Int] /\ \A j \in 0 .. Len(lens) : none[j] = 0
  BY <1>2
<1>. HIDE DEF none
<1>4. Holds(none)
  BY <1>2, <1>3 DEF Holds
<1>. QED BY <1>1, <1>3, <1>4 DEF ReadInv, EnoughWords

\* The FIFO has every word the length just read promised, whatever the sizes, the
\* frames, the resets and the stop signal: fifo_poller never reads RDFD when the
\* FIFO is empty.
THEOREM ReadsNeverEmpty == Spec => []NeverReadsEmpty
<1>1. Init => ReadInv
  BY ReadInit
<1>2. ReadInv /\ [Next]_vars => ReadInv'
  BY TypeStep, EnoughStep DEF ReadInv
<1>3. ReadInv => NeverReadsEmpty
  <2>. SUFFICES ASSUME ReadInv, pc = "read", want > 0
                PROVE  rx # <<>>
    BY DEF NeverReadsEmpty
  <2>1. PICK last \in [0 .. Len(lens) -> Int] : Holds(last)
    BY DEF ReadInv, EnoughWords
  <2>2. /\ Claimed \in Nat /\ WordsIn \in Nat /\ Len(lens) \in Nat /\ want \in Nat
    BY Counts DEF ReadInv, TypeInv
  <2>3. last[0] = want /\ last[0] + WordsIn <= Len(rx)
    BY <2>1, <2>2 DEF Holds, Claimed
  <2>. QED BY <2>2, <2>3
<1>. QED BY <1>1, <1>2, <1>3, PTL DEF Spec
---------------------------------------------------------------------------
\* While the poller and the FIFO are in step, the words of a frame lie together:
\* first what is left of the frame being read, then one block for each length,
\* then the frame that is coming in.

InStep == pc # "rdfr" /\ (pc = "check" => Plausible(len))

\* last[j]: the word the j-th block ends with.
Blocks(last) ==
    /\ last[0] = Claimed
    /\ \A j \in 1 .. Len(lens) : last[j] = last[j - 1] + WordsToRead(lens[j])
    /\ last[Len(lens)] + WordsIn = Len(rx)
    /\ \A j \in 0 .. Len(lens) : last[j] <= Len(rx)
    /\ \A j, k \in 0 .. Len(lens) : j <= k => last[j] <= last[k]

OneFrameEach(last) ==
    /\ \A a, b \in 1 .. last[0] : rx[a][1] = rx[b][1]
    /\ \A j \in 1 .. Len(lens) : \A a, b \in last[j - 1] + 1 .. last[j] : rx[a][1] = rx[b][1]
    /\ \A a \in last[Len(lens)] + 1 .. Len(rx) : rx[a][1] = incoming.id
    /\ pc = "read" /\ words # <<>> => \A a \in 1 .. last[0] : rx[a][1] = words[1][1]

Framed == \E last \in [0 .. Len(lens) -> Nat] : Blocks(last) /\ OneFrameEach(last)

Frames == ReadInv /\ words \in Seq(Nat \X Nat) /\ (InStep => Framed)

LEMMA WordsStep ==
    ASSUME ReadInv, words \in Seq(Nat \X Nat), [Next]_vars
    PROVE  words' \in Seq(Nat \X Nat)
<1>1. CASE ReadRDFD
  <2>1. rx \in Seq(Nat \X Nat) /\ rx # <<>> /\ words' = Append(words, Head(rx))
    BY <1>1 DEF ReadRDFD, ReadInv, TypeInv
  <2>. QED BY <2>1
<1>2. CASE ~ReadRDFD
  <2>1. words' \in {words, <<>>}
    BY <1>2 DEF Next, Poll, NextFrame, StoreBeat, WriteSRR, WriteRDFR, ClearISR, TestStop, ReadRDFO,
                ReadRLRZero, ReadRLR, LoseSync, StartFrame, Publish, Signal, vars, poller
  <2>2. <<>> \in Seq(Nat \X Nat)
    OBVIOUS
  <2>. QED BY <2>1, <2>2, Zenon
<1>. QED BY <1>1, <1>2

\* Nothing of the FIFO changes, nor what the poller has claimed and read of it.
LEMMA FramedSame ==
    ASSUME TypeInv, Framed, UNCHANGED <<rx, lens, incoming>>, Claimed' = Claimed,
           pc' = "read" => words' = <<>> \/ (pc = "read" /\ words' = words)
    PROVE  Framed'
<1>1. PICK last \in [0 .. Len(lens) -> Nat] : Blocks(last) /\ OneFrameEach(last)
  BY DEF Framed
<1>2. WordsIn' = WordsIn
  BY DEF WordsIn
<1>3. last[0] = Claimed' /\ last[Len(lens')] + WordsIn' = Len(rx')
  BY <1>1, <1>2 DEF Blocks
<1>4. Blocks(last)'
  BY <1>1, <1>3 DEF Blocks
<1>5. OneFrameEach(last)'
  BY <1>1 DEF OneFrameEach
<1>. QED BY <1>1, <1>4, <1>5 DEF Framed

\* A beat of the stream leaves what is in the FIFO and puts two words of its frame behind it.
LEMMA BeatStored ==
    ASSUME TypeInv, StoreBeat
    PROVE  /\ Len(rx') = Len(rx) + 2
           /\ \A a \in 1 .. Len(rx) : rx'[a] = rx[a]
           /\ \A a \in Len(rx) + 1 .. Len(rx') : rx'[a][1] = incoming.id
<1>. DEFINE id == incoming.id
            w == << <<id, 2 * incoming.beat - 1>>, <<id, 2 * incoming.beat>> >>
<1>1. rx' = rx \o w /\ rx \in Seq(Nat \X Nat)
  BY DEF StoreBeat, TypeInv
<1>2. w \in Seq(Nat \X Nat) /\ Len(w) = 2 /\ w[1][1] = id /\ w[2][1] = id
  <2>1. id \in Nat /\ incoming.beat \in Nat /\ incoming.beat >= 1
    BY DEF StoreBeat, TypeInv, Frame
  <2>. QED BY <2>1
<1>. HIDE DEF w
<1>3. Len(rx') = Len(rx) + 2 /\ Len(rx) \in Nat
  <2>1. Len(rx') = Len(rx) + Len(w)
    BY <1>1, <1>2, ConcatProperties, Zenon
  <2>. QED BY <1>1, <1>2, <2>1
<1>4. \A a \in 1 .. Len(rx) + 2 : rx'[a] = IF a <= Len(rx) THEN rx[a] ELSE w[a - Len(rx)]
  <2>1. \A a \in 1 .. Len(rx) + Len(w) : rx'[a] = IF a <= Len(rx) THEN rx[a] ELSE w[a - Len(rx)]
    BY <1>1, <1>2, ConcatProperties, Zenon
  <2>. QED BY <1>2, <2>1
<1>5. \A a \in 1 .. Len(rx) : rx'[a] = rx[a]
  BY <1>3, <1>4
<1>6. ASSUME NEW a \in Len(rx) + 1 .. Len(rx) + 2 PROVE rx'[a][1] = id
  <2>1. rx'[a] = w[a - Len(rx)] /\ a - Len(rx) \in {1, 2}
    BY <1>3, <1>4
  <2>. QED BY <1>2, <2>1
<1>7. \A a \in Len(rx) + 1 .. Len(rx') : rx'[a][1] = id
  BY <1>3, <1>6, Zenon
<1>. QED BY <1>3, <1>5, <1>7, Zenon

LEMMA FramedStoreBeat ==
    ASSUME TypeInv, Framed, StoreBeat, incoming.beat # Beats(incoming.len)
    PROVE  Framed'
<1>1. PICK last \in [0 .. Len(lens) -> Nat] : Blocks(last) /\ OneFrameEach(last)
  BY DEF Framed
<1>2. /\ Claimed \in Nat /\ WordsIn \in Nat /\ Len(lens) \in Nat /\ Len(rx) \in Nat
      /\ rx \in Seq(Nat \X Nat)
  BY Counts DEF TypeInv
<1>3. /\ incoming # NoFrame /\ incoming \in Frame /\ incoming' = [incoming EXCEPT !.beat = @ + 1]
      /\ lens' = lens /\ UNCHANGED <<pc, len, want, words>>
      /\ rx' = rx \o << <<incoming.id, 2 * incoming.beat - 1>>, <<incoming.id, 2 * incoming.beat>> >>
  BY DEF StoreBeat, TypeInv, poller
<1>4. /\ incoming.beat \in Nat /\ incoming.from \in Nat /\ incoming.id \in Nat
      /\ incoming'.beat = incoming.beat + 1 /\ incoming'.from = incoming.from
      /\ incoming'.id = incoming.id /\ incoming.beat >= 1
  BY <1>3 DEF Frame, TypeInv
<1>5. Claimed' = Claimed /\ WordsIn' = WordsIn + 2
  <2>1. incoming' # NoFrame
    BY <1>4 DEF NoFrame
  <2>2. Claimed' = Claimed
    BY <1>3 DEF Claimed
  <2>3. WordsIn' = 2 * ((incoming.beat + 1) - incoming.from)
    BY <1>4, <2>1 DEF WordsIn
  <2>4. WordsIn = 2 * (incoming.beat - incoming.from)
    BY <1>3 DEF WordsIn
  <2>. QED BY <1>4, <2>2, <2>3, <2>4
<1>6. /\ Len(rx') = Len(rx) + 2
      /\ \A a \in 1 .. Len(rx) : rx'[a] = rx[a]
      /\ \A a \in Len(rx) + 1 .. Len(rx') : rx'[a][1] = incoming.id
  BY BeatStored
<1>7. \A j \in 0 .. Len(lens) : last[j] \in Nat /\ last[j] <= Len(rx)
  BY <1>1 DEF Blocks
<1>8. Blocks(last)'
  <2>1. last[Len(lens)] + WordsIn = Len(rx) /\ last[Len(lens)] \in Nat
    BY <1>1, <1>2 DEF Blocks
  <2>2. last[Len(lens)] + WordsIn' = Len(rx')
    BY <1>2, <1>5, <1>6, <2>1
  <2>3. \A j \in 0 .. Len(lens) : last[j] <= Len(rx')
    BY <1>2, <1>6, <1>7
  <2>. QED BY <1>1, <1>3, <1>5, <2>2, <2>3 DEF Blocks
<1>9. OneFrameEach(last)'
  <2>1. \A a \in 1 .. last[0] : a \in 1 .. Len(rx)
    BY <1>2, <1>7
  <2>2. \A j \in 1 .. Len(lens) : \A a \in last[j - 1] + 1 .. last[j] : a \in 1 .. Len(rx)
    <3>1. ASSUME NEW j \in 1 .. Len(lens), NEW a \in last[j - 1] + 1 .. last[j]
          PROVE  a \in 1 .. Len(rx)
      <4>1. j \in 0 .. Len(lens) /\ j - 1 \in 0 .. Len(lens)
        BY <1>2
      <4>. QED BY <1>2, <1>7, <4>1
    <3>. QED BY <3>1
  <2>3. \A a \in last[Len(lens)] + 1 .. Len(rx') : rx'[a][1] = incoming.id
    <3>1. ASSUME NEW a \in last[Len(lens)] + 1 .. Len(rx') PROVE rx'[a][1] = incoming.id
      <4>1. last[Len(lens)] \in Nat /\ a \in Nat /\ a >= 1
        BY <1>2, <1>6, <1>7
      <4>2. CASE a \in Len(rx) + 1 .. Len(rx')
        BY <1>6, <4>2
      <4>3. CASE a <= Len(rx)
        <5>1. a \in last[Len(lens)] + 1 .. Len(rx) /\ a \in 1 .. Len(rx)
          BY <1>2, <4>1, <4>3
        <5>. QED BY <1>1, <1>6, <5>1 DEF OneFrameEach
      <4>. QED BY <1>2, <1>6, <4>1, <4>2, <4>3
    <3>. QED BY <3>1
  <2>4. \A a, b \in 1 .. last[0] : rx'[a][1] = rx'[b][1]
    BY <1>1, <1>6, <2>1 DEF OneFrameEach
  <2>5. \A j \in 1 .. Len(lens) : \A a, b \in last[j - 1] + 1 .. last[j] : rx'[a][1] = rx'[b][1]
    <3>1. ASSUME NEW j \in 1 .. Len(lens), NEW a \in last[j - 1] + 1 .. last[j],
                 NEW b \in last[j - 1] + 1 .. last[j]
          PROVE  rx'[a][1] = rx'[b][1]
      <4>1. rx'[a] = rx[a] /\ rx'[b] = rx[b]
        BY <1>6, <2>2
      <4>2. rx[a][1] = rx[b][1]
        BY <1>1 DEF OneFrameEach
      <4>. QED BY <4>1, <4>2, Zenon
    <3>. QED BY <3>1
  <2>6. pc = "read" /\ words # <<>> => \A a \in 1 .. last[0] : rx'[a][1] = words[1][1]
    BY <1>1, <1>6, <2>1 DEF OneFrameEach
  <2>. QED BY <1>3, <1>4, <2>3, <2>4, <2>5, <2>6 DEF OneFrameEach
<1>. QED BY <1>1, <1>3, <1>8, <1>9 DEF Framed
\* The block of a frame that is complete.
LEMMA FramedLastBeat ==
    ASSUME TypeInv, Framed, StoreBeat, incoming.beat = Beats(incoming.len)
    PROVE  Framed'
<1>1. PICK last \in [0 .. Len(lens) -> Nat] : Blocks(last) /\ OneFrameEach(last)
  BY DEF Framed
<1>. DEFINE L == Len(lens)
            rest == incoming.len - BEAT * (incoming.from - 1)
<1>2. /\ Claimed \in Nat /\ WordsIn \in Nat /\ L \in Nat /\ Len(rx) \in Nat /\ rx \in Seq(Nat \X Nat)
  BY Counts DEF TypeInv
<1>3. /\ incoming # NoFrame /\ incoming' = NoFrame /\ lens' = Append(lens, rest)
      /\ rx' = rx \o << <<incoming.id, 2 * incoming.beat - 1>>, <<incoming.id, 2 * incoming.beat>> >>
      /\ UNCHANGED <<pc, len, want, words>>
  BY DEF StoreBeat, poller
<1>4. /\ incoming.len \in Nat /\ incoming.beat \in Nat /\ incoming.from \in Nat
      /\ incoming.id \in Nat /\ incoming.from >= 1 /\ incoming.from <= incoming.beat
  BY <1>3, FitAssumption, SizeAssumption, SMTT(30) DEF TypeInv, Frame
<1>5. rest \in Nat /\ WordsToRead(rest) = WordsIn + 2
  BY <1>3, <1>4, WordsOfRest
<1>. HIDE DEF rest
<1>6. Claimed' = Claimed /\ WordsIn' = 0
  BY <1>3 DEF Claimed, WordsIn
<1>7. /\ Len(lens') = L + 1 /\ lens'[L + 1] = rest
      /\ \A j \in 1 .. L : lens'[j] = lens[j]
  BY <1>3, <1>5 DEF TypeInv
<1>8. /\ Len(rx') = Len(rx) + 2
      /\ \A a \in 1 .. Len(rx) : rx'[a] = rx[a]
      /\ \A a \in Len(rx) + 1 .. Len(rx') : rx'[a][1] = incoming.id
  BY BeatStored
<1>9. /\ \A j \in 0 .. L : last[j] \in Nat /\ last[j] <= Len(rx)
      /\ last[L] + WordsIn = Len(rx) /\ last[0] = Claimed
      /\ \A j, k \in 0 .. L : j <= k => last[j] <= last[k]
      /\ \A j \in 1 .. L : last[j] = last[j - 1] + WordsToRead(lens[j])
  BY <1>1 DEF Blocks
<1>10. /\ \A a, b \in 1 .. last[0] : rx[a][1] = rx[b][1]
       /\ \A j \in 1 .. L : \A a, b \in last[j - 1] + 1 .. last[j] : rx[a][1] = rx[b][1]
       /\ \A a \in last[L] + 1 .. Len(rx) : rx[a][1] = incoming.id
       /\ pc = "read" /\ words # <<>> => \A a \in 1 .. last[0] : rx[a][1] = words[1][1]
  BY <1>1 DEF OneFrameEach
<1>. HIDE DEF L
<1>11. PICK next \in [0 .. L + 1 -> Nat] :
          next[L + 1] = Len(rx) + 2 /\ \A j \in 0 .. L : next[j] = last[j]
  <2>. DEFINE longer == [j \in 0 .. L + 1 |-> IF j = L + 1 THEN Len(rx) + 2 ELSE last[j]]
  <2>1. /\ longer \in [0 .. L + 1 -> Nat] /\ longer[L + 1] = Len(rx) + 2
        /\ \A j \in 0 .. L : longer[j] = last[j]
    BY <1>2, <1>9
  <2>. HIDE DEF longer
  <2>. QED BY <2>1
<1>12. Blocks(next)'
  <2>1. next[0] = Claimed'
    BY <1>2, <1>6, <1>9, <1>11
  <2>2. ASSUME NEW j \in 1 .. L + 1 PROVE next[j] = next[j - 1] + WordsToRead(lens'[j])
    <3>1. CASE j = L + 1
      <4>1. next[j - 1] = last[L] /\ next[j] = Len(rx) + 2 /\ WordsToRead(lens'[j]) = WordsIn + 2
        BY <1>2, <1>5, <1>7, <1>11, <3>1
      <4>2. last[L] \in Nat /\ last[L] + WordsIn = Len(rx)
        BY <1>2, <1>9
      <4>3. \A m, n \in Nat : (m + n) + 2 = m + (n + 2)
        OBVIOUS
      <4>. QED BY <1>2, <4>1, <4>2, <4>3, Zenon
    <3>2. CASE j \in 1 .. L
      <4>0. j - 1 \in 0 .. L /\ j \in 0 .. L
        BY <1>2, <3>2
      <4>1. next[j - 1] = last[j - 1] /\ next[j] = last[j]
        BY <1>11, <4>0
      <4>2. lens'[j] = lens[j]
        BY <1>7, <3>2
      <4>3. last[j] = last[j - 1] + WordsToRead(lens[j])
        BY <1>9, <3>2
      <4>. QED BY <4>1, <4>2, <4>3
    <3>. QED BY <1>2, <3>1, <3>2
  <2>3. next[L + 1] + WordsIn' = Len(rx')
    BY <1>2, <1>6, <1>8, <1>11
  <2>4. ASSUME NEW j \in 0 .. L + 1 PROVE next[j] <= Len(rx')
    <3>1. CASE j = L + 1
      BY <1>2, <1>8, <1>11, <3>1
    <3>2. CASE j \in 0 .. L
      BY <1>2, <1>8, <1>9, <1>11, <3>2
    <3>. QED BY <1>2, <3>1, <3>2
  <2>5. ASSUME NEW j \in 0 .. L + 1, NEW k \in 0 .. L + 1, j <= k PROVE next[j] <= next[k]
    <3>1. CASE k = L + 1
      <4>1. next[j] <= Len(rx) + 2 /\ next[j] \in Nat
        BY <1>2, <1>8, <2>4
      <4>. QED BY <1>11, <3>1, <4>1
    <3>2. CASE k # L + 1
      <4>1. j \in 0 .. L /\ k \in 0 .. L
        BY <1>2, <2>5, <3>2
      <4>. QED BY <1>9, <1>11, <2>5, <4>1
    <3>. QED BY <3>1, <3>2
  <2>. QED BY <1>7, <2>1, <2>2, <2>3, <2>4, <2>5 DEF Blocks
<1>13. OneFrameEach(next)'
  <2>1. next[0] = last[0] /\ \A a \in 1 .. last[0] : a \in 1 .. Len(rx)
    BY <1>2, <1>9, <1>11
  <2>2. \A a, b \in 1 .. next[0] : rx'[a][1] = rx'[b][1]
    BY <1>8, <1>10, <2>1
  <2>3. ASSUME NEW j \in 1 .. L + 1, NEW a \in next[j - 1] + 1 .. next[j], NEW b \in next[j - 1] + 1 .. next[j]
        PROVE  rx'[a][1] = rx'[b][1]
    <3>1. CASE j = L + 1
      <4>1. ASSUME NEW e \in next[j - 1] + 1 .. next[j] PROVE rx'[e][1] = incoming.id
        <5>1. next[j - 1] = last[L] /\ next[j] = Len(rx) + 2 /\ last[L] \in Nat
          BY <1>2, <1>9, <1>11, <3>1
        <5>2. CASE e <= Len(rx)
          <6>1. e \in last[L] + 1 .. Len(rx) /\ e \in 1 .. Len(rx)
            BY <1>2, <5>1, <5>2
          <6>. QED BY <1>8, <1>10, <6>1
        <5>3. CASE e > Len(rx)
          <6>1. e \in Len(rx) + 1 .. Len(rx')
            BY <1>2, <1>8, <5>1, <5>3
          <6>. QED BY <1>8, <6>1
        <5>. QED BY <1>2, <5>1, <5>2, <5>3
      <4>2. rx'[a][1] = incoming.id /\ rx'[b][1] = incoming.id
        BY <4>1
      <4>. QED BY <4>2
    <3>2. CASE j \in 1 .. L
      <4>0. j - 1 \in 0 .. L /\ j \in 0 .. L
        BY <1>2, <3>2
      <4>1. /\ next[j - 1] = last[j - 1] /\ next[j] = last[j]
            /\ last[j - 1] \in Nat /\ last[j] \in Nat /\ last[j] <= Len(rx)
        BY <1>9, <1>11, <4>0
      <4>2. a \in 1 .. Len(rx) /\ b \in 1 .. Len(rx)
        <5>1. a \in last[j - 1] + 1 .. last[j] /\ b \in last[j - 1] + 1 .. last[j]
          BY <4>1
        <5>2. \A lo, hi, n \in Nat : hi <= n => \A e \in lo + 1 .. hi : e \in 1 .. n
          OBVIOUS
        <5>. QED BY <1>2, <4>1, <5>1, <5>2, Zenon
      <4>3. rx[a][1] = rx[b][1]
        BY <1>10, <3>2, <4>1
      <4>4. rx'[a] = rx[a] /\ rx'[b] = rx[b]
        BY <1>8, <4>2
      <4>. QED BY <4>3, <4>4, Zenon
    <3>. QED BY <1>2, <3>1, <3>2
  <2>4. \A a \in next[L + 1] + 1 .. Len(rx') : rx'[a][1] = incoming'.id
    BY <1>2, <1>8, <1>11
  <2>5. pc = "read" /\ words # <<>> => \A a \in 1 .. next[0] : rx'[a][1] = words[1][1]
    BY <1>8, <1>10, <2>1
  <2>6. Len(lens') = L + 1 /\ pc' = pc /\ words' = words
    BY <1>3, <1>7
  <2>7. /\ \A j \in 1 .. Len(lens') : \A a, b \in next[j - 1] + 1 .. next[j] : rx'[a][1] = rx'[b][1]
        /\ \A a \in next[Len(lens')] + 1 .. Len(rx') : rx'[a][1] = incoming'.id
    BY <2>3, <2>4, <2>6
  <2>8. pc' = "read" /\ words' # <<>> => \A a \in 1 .. next[0] : rx'[a][1] = words'[1][1]
    BY <2>5, <2>6
  <2>. QED BY <2>2, <2>7, <2>8, Zenon DEF OneFrameEach
<1>. QED BY <1>7, <1>11, <1>12, <1>13 DEF Framed

\* The first block becomes what is claimed.
LEMMA FramedLengthRead ==
    ASSUME TypeInv, Framed, ReadRLR, InStep'
    PROVE  Framed'
<1>1. PICK last \in [0 .. Len(lens) -> Nat] : Blocks(last) /\ OneFrameEach(last)
  BY DEF Framed
<1>. DEFINE L == Len(lens)
            M == L - 1
<1>2. /\ pc = "rlr" /\ pc' = "check" /\ L \in Nat /\ L >= 1 /\ lens' = Tail(lens)
      /\ len' = lens[1] /\ Plausible(lens[1]) /\ UNCHANGED <<rx, incoming>>
      /\ M \in Nat /\ L = M + 1
  BY SizeAssumption DEF TypeInv, ReadRLR, Step, InStep, Plausible
<1>3. /\ Claimed = 0 /\ Claimed' = WordsToRead(lens[1]) /\ WordsIn' = WordsIn /\ WordsIn \in Nat
      /\ Len(rx) \in Nat
  BY <1>2, Counts DEF Claimed, WordsIn
<1>4. Len(lens') = M /\ \A j \in 1 .. M : lens'[j] = lens[j + 1]
  BY <1>2 DEF TypeInv
<1>5. /\ \A j \in 0 .. L : last[j] \in Nat /\ last[j] <= Len(rx)
      /\ last[L] + WordsIn = Len(rx) /\ last[0] = 0
      /\ \A j, k \in 0 .. L : j <= k => last[j] <= last[k]
      /\ \A j \in 1 .. L : last[j] = last[j - 1] + WordsToRead(lens[j])
  BY <1>1, <1>3 DEF Blocks
<1>6. /\ \A j \in 1 .. L : \A a, b \in last[j - 1] + 1 .. last[j] : rx[a][1] = rx[b][1]
      /\ \A a \in last[L] + 1 .. Len(rx) : rx[a][1] = incoming.id
  BY <1>1 DEF OneFrameEach
<1>7. WordsToRead(lens[1]) \in Nat
  BY <1>2, Counts
<1>. HIDE DEF L, M
<1>8. \A j \in 0 .. M : j + 1 \in 1 .. L /\ j + 1 \in 0 .. L
  BY <1>2
<1>9. PICK next \in [0 .. M -> Nat] : \A j \in 0 .. M : next[j] = last[j + 1]
  <2>. DEFINE shorter == [j \in 0 .. M |-> last[j + 1]]
  <2>1. shorter \in [0 .. M -> Nat] /\ \A j \in 0 .. M : shorter[j] = last[j + 1]
    BY <1>5, <1>8
  <2>. HIDE DEF shorter
  <2>. QED BY <2>1
<1>10. Blocks(next)'
  <2>1. next[0] = Claimed'
    BY <1>2, <1>3, <1>5, <1>7, <1>9
  <2>2. ASSUME NEW j \in 1 .. M PROVE next[j] = next[j - 1] + WordsToRead(lens'[j])
    <3>1. /\ j + 1 \in 1 .. L /\ (j + 1) - 1 = j /\ (j - 1) + 1 = j
          /\ j \in 0 .. M /\ j - 1 \in 0 .. M
      BY <1>2
    <3>2. next[j] = last[j + 1] /\ next[j - 1] = last[j] /\ lens'[j] = lens[j + 1]
      BY <1>4, <1>9, <3>1
    <3>3. last[j + 1] = last[j] + WordsToRead(lens[j + 1])
      BY <1>5, <3>1
    <3>. QED BY <3>2, <3>3
  <2>3. next[M] + WordsIn' = Len(rx')
    BY <1>2, <1>3, <1>5, <1>9
  <2>4. \A j \in 0 .. M : next[j] <= Len(rx')
    BY <1>2, <1>5, <1>8, <1>9
  <2>5. ASSUME NEW j \in 0 .. M, NEW k \in 0 .. M, j <= k PROVE next[j] <= next[k]
    <3>1. j + 1 \in 0 .. L /\ k + 1 \in 0 .. L /\ j + 1 <= k + 1
      BY <1>8, <2>5
    <3>. QED BY <1>5, <1>9, <3>1
  <2>. QED BY <1>4, <2>1, <2>2, <2>3, <2>4, <2>5 DEF Blocks
<1>11. OneFrameEach(next)'
  <2>1. \A a, b \in 1 .. next[0] : rx[a][1] = rx[b][1]
    <3>1. next[0] = last[1] /\ 1 \in 1 .. L /\ 1 - 1 = 0 /\ last[0] + 1 = 1
      BY <1>2, <1>5, <1>9
    <3>2. \A a, b \in last[1 - 1] + 1 .. last[1] : rx[a][1] = rx[b][1]
      BY <1>6, <3>1, Zenon
    <3>. QED BY <3>1, <3>2
  <2>2. ASSUME NEW j \in 1 .. M, NEW a \in next[j - 1] + 1 .. next[j], NEW b \in next[j - 1] + 1 .. next[j]
        PROVE  rx[a][1] = rx[b][1]
    <3>1. j + 1 \in 1 .. L /\ next[j - 1] = last[j] /\ next[j] = last[j + 1] /\ (j + 1) - 1 = j
      BY <1>2, <1>9
    <3>. QED BY <1>6, <3>1
  <2>3. \A a \in next[M] + 1 .. Len(rx) : rx[a][1] = incoming.id
    BY <1>2, <1>6, <1>9
  <2>4. Len(lens') = M /\ rx' = rx /\ incoming' = incoming /\ pc' # "read"
    BY <1>2, <1>4
  <2>5. /\ \A a, b \in 1 .. next[0] : rx'[a][1] = rx'[b][1]
        /\ \A j \in 1 .. Len(lens') : \A a, b \in next[j - 1] + 1 .. next[j] : rx'[a][1] = rx'[b][1]
        /\ \A a \in next[Len(lens')] + 1 .. Len(rx') : rx'[a][1] = incoming'.id
    BY <2>1, <2>2, <2>3, <2>4
  <2>. QED BY <2>4, <2>5, Zenon DEF OneFrameEach
<1>. QED BY <1>4, <1>9, <1>10, <1>11 DEF Framed
\* One word less in front.
LEMMA FramedReadRDFD ==
    ASSUME TypeInv, Framed, words \in Seq(Nat \X Nat), ReadRDFD
    PROVE  Framed' /\ rx[1][1] = words'[1][1]
<1>1. PICK last \in [0 .. Len(lens) -> Nat] : Blocks(last) /\ OneFrameEach(last)
  BY DEF Framed
<1>. DEFINE L == Len(lens)
<1>2. /\ pc = "read" /\ pc' = "read" /\ L \in Nat /\ rx \in Seq(Nat \X Nat) /\ rx # <<>>
      /\ want > 0 /\ want' = want - 1 /\ want \in Nat
      /\ rx' = Tail(rx) /\ words' = Append(words, rx[1]) /\ UNCHANGED <<lens, incoming>>
  BY DEF TypeInv, ReadRDFD, Step
<1>3. /\ Len(rx) \in Nat /\ Len(rx') = Len(rx) - 1
      /\ \A a \in 1 .. Len(rx) - 1 : rx'[a] = rx[a + 1]
  BY <1>2
<1>4. Claimed = want /\ Claimed' = want - 1 /\ WordsIn' = WordsIn /\ WordsIn \in Nat
  BY <1>2, Counts DEF Claimed, WordsIn
<1>5. /\ \A j \in 0 .. L : last[j] \in Nat /\ last[j] <= Len(rx)
      /\ last[L] + WordsIn = Len(rx) /\ last[0] = want
      /\ \A j, k \in 0 .. L : j <= k => last[j] <= last[k]
      /\ \A j \in 1 .. L : last[j] = last[j - 1] + WordsToRead(lens[j])
  BY <1>1, <1>4 DEF Blocks
<1>6. /\ \A a, b \in 1 .. last[0] : rx[a][1] = rx[b][1]
      /\ \A j \in 1 .. L : \A a, b \in last[j - 1] + 1 .. last[j] : rx[a][1] = rx[b][1]
      /\ \A a \in last[L] + 1 .. Len(rx) : rx[a][1] = incoming.id
      /\ words # <<>> => \A a \in 1 .. last[0] : rx[a][1] = words[1][1]
  BY <1>1, <1>2 DEF OneFrameEach
<1>. HIDE DEF L
<1>7. ASSUME NEW j \in 0 .. L PROVE last[j] - 1 \in Nat
  <2>1. 0 \in 0 .. L /\ 0 <= j
    BY <1>2
  <2>2. last[0] <= last[j] /\ last[j] \in Nat
    BY <1>5, <2>1
  <2>3. \A m, n \in Nat : n > 0 /\ n <= m => m - 1 \in Nat
    OBVIOUS
  <2>. QED BY <1>2, <1>5, <2>2, <2>3, Zenon
<1>8. PICK next \in [0 .. L -> Nat] : \A j \in 0 .. L : next[j] = last[j] - 1
  <2>. DEFINE less == [j \in 0 .. L |-> last[j] - 1]
  <2>1. less \in [0 .. L -> Nat] /\ \A j \in 0 .. L : less[j] = last[j] - 1
    BY <1>7
  <2>. HIDE DEF less
  <2>. QED BY <2>1
<1>9. Blocks(next)'
  <2>1. next[0] = want - 1
    BY <1>2, <1>5, <1>8
  <2>2. ASSUME NEW j \in 1 .. L PROVE next[j] = next[j - 1] + WordsToRead(lens[j])
    <3>1. j \in 0 .. L /\ j - 1 \in 0 .. L
      BY <1>2
    <3>2. /\ next[j] = last[j] - 1 /\ next[j - 1] = last[j - 1] - 1
          /\ last[j] = last[j - 1] + WordsToRead(lens[j])
          /\ last[j - 1] \in Nat
      BY <1>5, <1>8, <3>1
    <3>3. WordsToRead(lens[j]) \in Nat
      BY Counts DEF L
    <3>. QED BY <3>2, <3>3
  <2>3. next[L] + WordsIn' = Len(rx')
    <3>1. next[L] = last[L] - 1 /\ last[L] \in Nat
      BY <1>2, <1>5, <1>8, SMTT(30)
    <3>. QED BY <1>3, <1>4, <1>5, <3>1
  <2>4. ASSUME NEW j \in 0 .. L PROVE next[j] <= Len(rx')
    BY <1>3, <1>5, <1>8, SMTT(30)
  <2>5. ASSUME NEW j \in 0 .. L, NEW k \in 0 .. L, j <= k PROVE next[j] <= next[k]
    BY <1>5, <1>8, <2>5, SMTT(30)
  <2>. QED BY <1>2, <1>4, <2>1, <2>2, <2>3, <2>4, <2>5 DEF Blocks, L
<1>10. rx[1][1] = words'[1][1]
  <2>1. 1 \in 1 .. last[0]
    BY <1>2, <1>5
  <2>2. CASE words = <<>>
    BY <1>2, <2>2
  <2>3. CASE words # <<>>
    <3>1. words'[1] = words[1]
      BY <1>2, <2>3
    <3>. QED BY <1>6, <2>1, <2>3, <3>1
  <2>. QED BY <2>2, <2>3
<1>11. OneFrameEach(next)'
  <2>1. ASSUME NEW a \in 1 .. next[0] PROVE rx'[a][1] = rx[1][1]
    <3>1. next[0] = want - 1 /\ last[0] = want /\ want <= Len(rx)
      BY <1>2, <1>5, <1>8
    <3>2. a \in 1 .. Len(rx) - 1 /\ a + 1 \in 1 .. last[0] /\ 1 \in 1 .. last[0]
      BY <1>2, <1>3, <3>1
    <3>. QED BY <1>3, <1>6, <3>2
  <2>3. ASSUME NEW j \in 1 .. L, NEW a \in next[j - 1] + 1 .. next[j], NEW b \in next[j - 1] + 1 .. next[j]
        PROVE  rx'[a][1] = rx'[b][1]
    <3>1. j \in 0 .. L /\ j - 1 \in 0 .. L
      BY <1>2
    <3>2. /\ next[j] = last[j] - 1 /\ next[j - 1] = last[j - 1] - 1
          /\ last[j] \in Nat /\ last[j - 1] \in Nat /\ last[j] <= Len(rx)
          /\ last[j] - 1 \in Nat /\ last[j - 1] - 1 \in Nat
      BY <1>5, <1>7, <1>8, <3>1
    <3>3. \A e \in next[j - 1] + 1 .. next[j] :
             e + 1 \in last[j - 1] + 1 .. last[j] /\ e \in 1 .. Len(rx) - 1
      <4>1. \A lo, hi, n \in Nat : lo - 1 \in Nat /\ hi <= n =>
               \A e \in (lo - 1) + 1 .. hi - 1 : e + 1 \in lo + 1 .. hi /\ e \in 1 .. n - 1
        OBVIOUS
      <4>. QED BY <1>3, <3>2, <4>1, Zenon
    <3>4. rx'[a] = rx[a + 1] /\ rx'[b] = rx[b + 1]
      BY <1>3, <3>3
    <3>5. rx[a + 1][1] = rx[b + 1][1]
      BY <1>6, <3>3, SMTT(30)
    <3>. QED BY <3>4, <3>5, Zenon
  <2>4. ASSUME NEW a \in next[L] + 1 .. Len(rx') PROVE rx'[a][1] = incoming.id
    <3>1. next[L] = last[L] - 1 /\ last[L] \in Nat /\ last[L] - 1 \in Nat
      <4>1. L \in 0 .. L
        BY <1>2
      <4>. QED BY <1>5, <1>7, <1>8, <4>1, Zenon
    <3>2. a + 1 \in last[L] + 1 .. Len(rx) /\ a \in 1 .. Len(rx) - 1
      BY <1>3, <3>1
    <3>. QED BY <1>3, <1>6, <3>2
  <2>5. \A a \in 1 .. next[0] : rx'[a][1] = words'[1][1]
    BY <1>10, <2>1, Zenon
  <2>6. \A a, b \in 1 .. next[0] : rx'[a][1] = rx'[b][1]
    BY <2>5, Zenon
  <2>. QED BY <1>2, <2>3, <2>4, <2>5, <2>6 DEF OneFrameEach, L
<1>. QED BY <1>2, <1>8, <1>9, <1>10, <1>11 DEF Framed, L

LEMMA FramedStep ==
    ASSUME Frames, [Next]_vars, InStep'
    PROVE  Framed'
<1>1. TypeInv /\ words \in Seq(Nat \X Nat) /\ (InStep => Framed)
  BY DEF Frames, ReadInv
<1>2. CASE NextFrame
  <2>1. /\ UNCHANGED <<rx, lens, pc, len, want, words>> /\ incoming = NoFrame
        /\ incoming' # NoFrame /\ incoming'.from = 1 /\ incoming'.beat = 1
    BY <1>2 DEF NextFrame, poller, NoFrame
  <2>2. Framed
    BY <1>1, <2>1 DEF InStep
  <2>3. PICK last \in [0 .. Len(lens) -> Nat] : Blocks(last) /\ OneFrameEach(last)
    BY <2>2 DEF Framed
  <2>4. Claimed' = Claimed /\ WordsIn = 0 /\ WordsIn' = 0 /\ Len(rx) \in Nat /\ Len(lens) \in Nat
    BY <1>1, <2>1 DEF Claimed, WordsIn, TypeInv
  <2>5. Blocks(last)'
    BY <2>1, <2>3, <2>4 DEF Blocks
  <2>6. last[Len(lens)] = Len(rx)
    <3>1. last[Len(lens)] \in Nat /\ last[Len(lens)] + WordsIn = Len(rx)
      BY <2>3, <2>4 DEF Blocks
    <3>. QED BY <2>4, <3>1
  <2>7. \A a \in last[Len(lens)] + 1 .. Len(rx) : FALSE
    BY <2>4, <2>6
  <2>8. OneFrameEach(last)'
    BY <2>1, <2>3, <2>7 DEF OneFrameEach
  <2>. QED BY <2>1, <2>3, <2>5, <2>8 DEF Framed
<1>3. CASE StoreBeat
  <2>1. Framed
    BY <1>1, <1>3 DEF StoreBeat, InStep, poller
  <2>. QED BY <1>1, <1>3, <2>1, FramedStoreBeat, FramedLastBeat
<1>4. CASE WriteSRR
  BY <1>4 DEF WriteSRR, Step, InStep
<1>5. CASE WriteRDFR
  <2>1. rx' = <<>> /\ lens' = <<>> /\ pc' = "isr" /\ Len(lens') = 0 /\ Len(rx') = 0
    BY <1>5 DEF WriteRDFR, ResetRx, Step
  <2>2. Claimed' = 0 /\ WordsIn' = 0
    <3>1. CASE incoming' = NoFrame
      BY <2>1, <3>1 DEF Claimed, WordsIn
    <3>2. CASE incoming # NoFrame /\ incoming' = [incoming EXCEPT !.from = incoming.beat]
      <4>1. incoming'.from = incoming'.beat /\ incoming'.beat \in Nat
        BY <1>1, <3>2 DEF TypeInv, Frame
      <4>. QED BY <2>1, <4>1 DEF Claimed, WordsIn
    <3>. QED BY <1>5, <3>1, <3>2 DEF WriteRDFR, ResetRx
  <2>3. PICK last \in [0 .. 0 -> Nat] : last[0] = 0
    <3>. DEFINE none == [j \in 0 .. 0 |-> 0]
    <3>1. none \in [0 .. 0 -> Nat] /\ none[0] = 0
      OBVIOUS
    <3>. HIDE DEF none
    <3>. QED BY <3>1
  <2>4. Blocks(last)'
    BY <2>1, <2>2, <2>3 DEF Blocks
  <2>5. OneFrameEach(last)'
    BY <2>1, <2>3 DEF OneFrameEach
  <2>. QED BY <2>1, <2>3, <2>4, <2>5 DEF Framed
<1>6. CASE ReadRLR
  <2>1. Framed
    BY <1>1, <1>6 DEF ReadRLR, Step, InStep
  <2>. QED BY <1>1, <1>6, <2>1, FramedLengthRead
<1>7. CASE ReadRDFD
  <2>1. Framed
    BY <1>1, <1>7 DEF ReadRDFD, Step, InStep
  <2>. QED BY <1>1, <1>7, <2>1, FramedReadRDFD
<1>8. CASE LoseSync
  BY <1>8 DEF LoseSync, Step, InStep, Resync
<1>9. CASE ClearISR \/ TestStop \/ ReadRDFO \/ ReadRLRZero
  <2>1. /\ UNCHANGED <<rx, lens, incoming, want, len>> /\ pc # "rdfr"
        /\ pc # "read" /\ pc # "check" /\ pc' # "read" /\ pc' # "check"
    BY <1>9 DEF ClearISR, TestStop, ReadRDFO, ReadRLRZero, Step, fifo, WhenEmpty
  <2>2. Framed /\ Claimed' = Claimed
    BY <1>1, <2>1 DEF InStep, Claimed
  <2>. QED BY <1>1, <2>1, <2>2, FramedSame
<1>10. CASE StartFrame
  <2>1. /\ UNCHANGED <<rx, lens, incoming, len>> /\ Plausible(len)
        /\ pc = "check" /\ pc' = "read" /\ want' = WordsToRead(len) /\ words' = <<>>
    BY <1>10 DEF StartFrame, Step, fifo
  <2>2. Framed /\ Claimed' = Claimed
    BY <1>1, <2>1 DEF InStep, Claimed
  <2>. QED BY <1>1, <2>1, <2>2, FramedSame
<1>11. CASE Publish
  <2>1. UNCHANGED <<rx, lens, incoming>> /\ pc = "read" /\ pc' = "test" /\ want = 0
    BY <1>11 DEF Publish, Step, fifo
  <2>2. Framed /\ Claimed' = Claimed
    BY <1>1, <2>1 DEF InStep, Claimed
  <2>. QED BY <1>1, <2>1, <2>2, FramedSame
<1>12. CASE Signal \/ UNCHANGED vars
  <2>1. UNCHANGED <<rx, lens, incoming, pc, want, len, words>>
    BY <1>12 DEF Signal, vars, fifo, poller
  <2>2. Framed /\ Claimed' = Claimed
    BY <1>1, <2>1 DEF InStep, Claimed
  <2>. QED BY <1>1, <2>1, <2>2, FramedSame
<1>. QED BY <1>2, <1>3, <1>4, <1>5, <1>6, <1>7, <1>8, <1>9, <1>10, <1>11, <1>12 DEF Next, Poll

LEMMA FramesInit == Init => Frames
<1>. SUFFICES ASSUME Init PROVE Frames
  OBVIOUS
<1>1. /\ Claimed = 0 /\ WordsIn = 0 /\ Len(lens) = 0 /\ Len(rx) = 0
      /\ words = <<>> /\ pc = "srr"
  BY DEF Init, Claimed, WordsIn
<1>2. PICK last \in [0 .. 0 -> Nat] : last[0] = 0
  <2>. DEFINE none == [j \in 0 .. 0 |-> 0]
  <2>1. none \in [0 .. 0 -> Nat] /\ none[0] = 0
    OBVIOUS
  <2>. HIDE DEF none
  <2>. QED BY <2>1
<1>3. Blocks(last) /\ OneFrameEach(last)
  BY <1>1, <1>2 DEF Blocks, OneFrameEach
<1>. QED BY <1>1, <1>2, <1>3, ReadInit DEF Frames, Framed

LEMMA FramesStep == Frames /\ [Next]_vars => Frames'
  BY TypeStep, EnoughStep, WordsStep, FramedStep DEF Frames, ReadInv
---------------------------------------------------------------------------
\* Where a frame can be found.

Read == IF pc = "read" /\ words # <<>> THEN {words[1][1]} ELSE {}
Published == {published[i].words[1][1] : i \in 1 .. Len(published)}
Found == lost \cup Stored \cup {incoming.id} \cup Published \cup Read

Publication == [len : Nat, words : Seq(Nat \X Nat)]
FoundInv == Frames /\ published \in Seq(Publication) /\ NoFrameVanishes

LEMMA PublishedStep ==
    ASSUME FoundInv, [Next]_vars
    PROVE  /\ published' \in Seq(Publication)
           /\ Published \subseteq Published'
<1>1. CASE Publish
  <2>1. published' = Append(published, [len |-> len, words |-> words]) /\ published \in Seq(Publication)
    BY <1>1 DEF Publish, FoundInv
  <2>2. [len |-> len, words |-> words] \in Publication
    BY DEF FoundInv, Frames, ReadInv, TypeInv, Publication
  <2>3. /\ published' \in Seq(Publication) /\ Len(published') = Len(published) + 1 /\ Len(published) \in Nat
        /\ \A i \in 1 .. Len(published) : published'[i] = published[i]
    BY <2>1, <2>2
  <2>. QED BY <2>3 DEF Published
<1>2. CASE ~Publish
  <2>1. published' = published
    BY <1>2 DEF Next, Poll, NextFrame, StoreBeat, WriteSRR, WriteRDFR, ClearISR, TestStop, ReadRDFO,
                ReadRLRZero, ReadRLR, LoseSync, StartFrame, ReadRDFD, Signal, vars, poller
  <2>. QED BY <2>1 DEF FoundInv, Published
<1>. QED BY <1>1, <1>2

\* A step loses no frame.
LEMMA FoundStep ==
    ASSUME FoundInv, [Next]_vars
    PROVE  /\ lengthOf' = lengthOf \/ (NextFrame /\ Len(lengthOf') = Len(lengthOf) + 1)
           /\ NextFrame => Len(lengthOf) + 1 \in Found'
           /\ \A id \in Nat \ {0} : id \in Found => id \in Found'
<1>1. /\ TypeInv /\ words \in Seq(Nat \X Nat) /\ (InStep => Framed) /\ rx \in Seq(Nat \X Nat)
      /\ Len(lengthOf) \in Nat
  BY DEF FoundInv, Frames, ReadInv, TypeInv
<1>2. Published \subseteq Published'
  BY PublishedStep
<1>3. CASE NextFrame
  <2>1. /\ incoming = NoFrame /\ incoming'.id = Len(lengthOf) + 1
        /\ Len(lengthOf') = Len(lengthOf) + 1 /\ UNCHANGED <<rx, lost, words, pc>>
    BY <1>1, <1>3 DEF NextFrame, poller, TypeInv
  <2>2. incoming.id = 0
    BY <2>1 DEF NoFrame
  <2>. QED BY <1>2, <1>3, <2>1, <2>2 DEF Found, Stored, Read
<1>4. CASE StoreBeat
  <2>1. /\ incoming # NoFrame /\ incoming \in Frame /\ incoming.id \in Nat
        /\ incoming.beat \in Nat /\ incoming.beat >= 1
        /\ rx' = rx \o << <<incoming.id, 2 * incoming.beat - 1>>, <<incoming.id, 2 * incoming.beat>> >>
        /\ UNCHANGED <<words, pc, lost, lengthOf>>
    BY <1>1, <1>4 DEF StoreBeat, TypeInv, Frame, poller, history
  <2>2. /\ Len(rx') = Len(rx) + 2 /\ Len(rx) \in Nat
        /\ \A a \in 1 .. Len(rx) : rx'[a] = rx[a]
        /\ \A a \in Len(rx) + 1 .. Len(rx') : rx'[a][1] = incoming.id
    BY <1>1, <1>4, BeatStored DEF TypeInv
  <2>3. Stored \subseteq Stored'
    BY <2>2 DEF Stored
  <2>4. incoming.id \in Stored'
    <3>1. Len(rx) + 1 \in 1 .. Len(rx') /\ rx'[Len(rx) + 1][1] = incoming.id
      BY <2>2
    <3>. QED BY <3>1 DEF Stored
  <2>5. ~NextFrame
    BY <2>1 DEF NextFrame
  <2>. QED BY <1>2, <2>1, <2>3, <2>4, <2>5 DEF Found, Read
<1>5. CASE WriteSRR \/ WriteRDFR
  <2>1. /\ lost' = lost \cup Stored \cup (IF incoming = NoFrame THEN {} ELSE {incoming.id})
        /\ pc # "read" /\ lengthOf' = lengthOf
    BY <1>5 DEF WriteSRR, WriteRDFR, ResetRx, Step
  <2>2. incoming = NoFrame => incoming.id = 0
    BY DEF NoFrame
  <2>3. pc' # pc
    BY <1>5 DEF WriteSRR, WriteRDFR, Step
  <2>4. ~NextFrame
    BY <2>3 DEF NextFrame, poller
  <2>. QED BY <1>2, <2>1, <2>2, <2>4 DEF Found, Read
<1>6. CASE ReadRDFD
  <2>1. /\ UNCHANGED <<incoming, lost, lengthOf>> /\ rx' = Tail(rx) /\ rx # <<>>
        /\ words' = Append(words, Head(rx)) /\ pc = "read" /\ pc' = "read"
    BY <1>6 DEF ReadRDFD, Step, history
  <2>2. rx[1][1] = words'[1][1]
    BY <1>1, <1>6, <2>1, FramedReadRDFD DEF InStep
  <2>3. words' # <<>> /\ (words # <<>> => words'[1] = words[1])
    <3>1. Head(rx) \in Nat \X Nat
      BY <1>1, <2>1
    <3>. QED BY <1>1, <2>1, <3>1
  <2>4. Read' = {rx[1][1]} /\ Read \subseteq Read'
    BY <2>1, <2>2, <2>3 DEF Read
  <2>5. Stored \subseteq Stored' \cup {rx[1][1]}
    <3>1. /\ Len(rx) \in Nat /\ Len(rx') = Len(rx) - 1
          /\ \A a \in 1 .. Len(rx) - 1 : rx'[a] = rx[a + 1]
      BY <1>1, <2>1
    <3>2. ASSUME NEW a \in 1 .. Len(rx), a # 1 PROVE rx[a][1] \in Stored'
      <4>1. a - 1 \in 1 .. Len(rx') /\ rx'[a - 1] = rx[a]
        BY <3>1, <3>2
      <4>. QED BY <4>1 DEF Stored
    <3>. QED BY <3>2 DEF Stored
  <2>6. ~NextFrame
    BY <2>1, <2>3 DEF NextFrame, poller
  <2>. QED BY <1>2, <2>1, <2>4, <2>5, <2>6 DEF Found
<1>7. CASE Publish
  <2>1. /\ UNCHANGED <<rx, incoming, lost, lengthOf>> /\ pc = "read" /\ pc' = "test"
        /\ published' = Append(published, [len |-> len, words |-> words])
    BY <1>7 DEF Publish, Step, fifo, history
  <2>2. Read \subseteq Published'
    <3>1. published \in Seq(Publication) /\ [len |-> len, words |-> words] \in Publication
      BY <1>1 DEF FoundInv, TypeInv, Publication
    <3>2. Len(published') \in 1 .. Len(published') /\ published'[Len(published')].words = words
      BY <2>1, <3>1
    <3>3. words[1][1] \in Published'
      BY <3>2 DEF Published
    <3>. QED BY <3>3 DEF Read
  <2>3. ~NextFrame
    BY <2>1 DEF NextFrame, poller
  <2>. QED BY <1>2, <2>1, <2>2, <2>3 DEF Found, Stored
<1>8. CASE ClearISR \/ TestStop \/ ReadRDFO \/ ReadRLRZero \/ ReadRLR \/ LoseSync \/ StartFrame
  <2>1. UNCHANGED <<rx, incoming, lost, lengthOf>> /\ pc # "read" /\ pc' # pc
    BY <1>8 DEF ClearISR, TestStop, ReadRDFO, ReadRLRZero, ReadRLR, LoseSync, StartFrame, Step, fifo,
                history, WhenEmpty, Resync
  <2>2. ~NextFrame
    BY <2>1 DEF NextFrame, poller
  <2>. QED BY <1>2, <2>1, <2>2 DEF Found, Stored, Read
<1>9. CASE Signal \/ UNCHANGED vars
  <2>1. UNCHANGED <<rx, incoming, pc, words, lost, lengthOf>>
    BY <1>9 DEF Signal, vars, fifo, poller, history
  <2>2. ~NextFrame
    BY <1>1, <2>1 DEF NextFrame, NoFrame
  <2>. QED BY <1>2, <2>1, <2>2 DEF Found, Stored, Read
<1>. QED BY <1>3, <1>4, <1>5, <1>6, <1>7, <1>8, <1>9 DEF Next, Poll

LEMMA FoundInvStep == FoundInv /\ [Next]_vars => FoundInv'
<1>. SUFFICES ASSUME FoundInv, [Next]_vars PROVE FoundInv'
  OBVIOUS
<1>1. Frames' /\ published' \in Seq(Publication)
  BY FramesStep, PublishedStep DEF FoundInv
<1>2. Len(lengthOf) \in Nat /\ 1 .. Len(lengthOf) \subseteq Found
  BY DEF FoundInv, NoFrameVanishes, Found, Published, Read, Frames, ReadInv, TypeInv
<1>3. ASSUME NEW id \in 1 .. Len(lengthOf') PROVE id \in Found'
  <2>1. CASE id \in 1 .. Len(lengthOf)
    BY <1>2, <2>1, FoundStep
  <2>2. CASE id \notin 1 .. Len(lengthOf)
    <3>1. NextFrame /\ id = Len(lengthOf) + 1
      BY <1>2, <1>3, <2>2, FoundStep
    <3>. QED BY <3>1, FoundStep
  <2>. QED BY <2>1, <2>2
<1>4. NoFrameVanishes'
  BY <1>3 DEF NoFrameVanishes, Found, Published, Read
<1>. QED BY <1>1, <1>4 DEF FoundInv

LEMMA FoundInit == Init => FoundInv
<1>. SUFFICES ASSUME Init PROVE FoundInv
  OBVIOUS
<1>1. published = <<>> /\ Len(lengthOf) = 0
  BY DEF Init
<1>2. published \in Seq(Publication) /\ NoFrameVanishes
  BY <1>1 DEF NoFrameVanishes
<1>. QED BY <1>2, FramesInit DEF FoundInv

\* Whatever the sizes, and whenever resets and implausible lengths come: a frame
\* the stream sent is published, in the FIFO, being read, coming in, or was there
\* at a reset; fifo_poller itself drops none.
THEOREM NoFrameDropped == Spec => []NoFrameVanishes
<1>1. FoundInv => NoFrameVanishes
  BY DEF FoundInv
<1>. QED BY <1>1, FoundInit, FoundInvStep, PTL DEF Spec

---------------------------------------------------------------------------
(***************************************************************************)
(* FramesIntact: what fifo_poller hands on is one frame of the stream,     *)
(* word by word, whatever the sizes.                                       *)
(*                                                                         *)
(* The words of the frame being read and those still in the FIFO are one   *)
(* line: reading RDFD moves the boundary and changes nothing else.  The    *)
(* line is cut into frames at the words the lengths in the FIFO end at;    *)
(* the last word of each piece is the last of its frame.                   *)
(***************************************************************************)

Line == words \o rx

Known(w) == w[1] \in 1 .. Len(lengthOf) /\ w[2] <= 2 * Beats(lengthOf[w[1]])

\* w comes d places after v: it is a word of a later frame, or d words later.
Follows(v, w, d) == v[1] < w[1] \/ (v[1] = w[1] /\ w[2] = v[2] + d)

InOrder ==
    /\ \A a \in 1 .. Len(Line) : Known(Line[a])
    /\ \A a, b \in 1 .. Len(Line) : a < b => Follows(Line[a], Line[b], b - a)
    /\ words # <<>> => pc = "read"

\* The frame that is coming in continues the line.
Arriving ==
    incoming # NoFrame =>
        /\ incoming.id = Len(lengthOf) /\ incoming.len = lengthOf[incoming.id]
        /\ incoming.id # 0 /\ (incoming.from > 1 => incoming.id \in lost)
        /\ \A a \in 1 .. Len(Line) :
              Follows(Line[a], <<incoming.id, 2 * incoming.beat - 1>>, Len(Line) + 1 - a)

\* A frame's last n bytes end with the e-th word of the line; what is missing
\* of it, m beats, was there at a reset.
Whole(e, n) ==
    /\ e \in 1 .. Len(Line) /\ n \in Nat /\ WordsToRead(n) \in 1 .. e
    /\ \A a \in e - WordsToRead(n) + 1 .. e : Line[a][1] = Line[e][1]
    /\ Line[e][2] = 2 * Beats(lengthOf[Line[e][1]])
    /\ \E m \in Nat :
          /\ n = lengthOf[Line[e][1]] - BEAT * m
          /\ WordsToRead(n) = Line[e][2] - 2 * m
          /\ m > 0 => Line[e][1] \in lost

\* ends[j]: the word the j-th complete frame ends with; the one being read, or
\* about to be, ends with ends[0].
CutAt(ends) ==
    /\ ends[0] = Len(words) + Claimed
    /\ pc \in {"check", "read"} => ends[0] = WordsToRead(len) /\ Whole(ends[0], len)
    /\ \A j \in 1 .. Len(lens) :
          ends[j] = ends[j - 1] + WordsToRead(lens[j]) /\ Whole(ends[j], lens[j])
    /\ ends[Len(lens)] + WordsIn = Len(Line)
    /\ \A j, k \in 0 .. Len(lens) : j <= k => ends[j] <= ends[k]
    /\ \A a \in ends[Len(lens)] + 1 .. Len(Line) : Line[a][1] = incoming.id

Cut == \E ends \in [0 .. Len(lens) -> Nat] : CutAt(ends)

\* What has been handed on came before everything else.
Earlier ==
    \A i \in 1 .. Len(published) :
        LET id == published[i].words[1][1]
        IN  /\ id \in 1 .. Len(lengthOf) /\ (incoming # NoFrame => id < incoming.id)
            /\ \A a \in 1 .. Len(Line) : id < Line[a][1]

Sound == FoundInv /\ InOrder /\ Arriving
Intact == Sound /\ (InStep => Cut) /\ Earlier /\ FramesIntact

---------------------------------------------------------------------------
\* How the line moves.

LEMMA LineType ==
    ASSUME FoundInv
    PROVE  /\ Line \in Seq(Nat \X Nat) /\ Len(Line) = Len(words) + Len(rx)
           /\ Len(words) \in Nat /\ Len(rx) \in Nat
           /\ \A a \in 1 .. Len(words) : Line[a] = words[a]
           /\ \A a \in 1 .. Len(rx) : Line[Len(words) + a] = rx[a]
<1>1. words \in Seq(Nat \X Nat) /\ rx \in Seq(Nat \X Nat)
  BY DEF FoundInv, Frames, ReadInv, TypeInv
<1>. QED BY <1>1 DEF Line

LEMMA HistoryStep ==
    ASSUME FoundInv, [Next]_vars
    PROVE  /\ lost \subseteq lost' /\ Len(lengthOf') >= Len(lengthOf) /\ Len(lengthOf) \in Nat
           /\ \A id \in 1 .. Len(lengthOf) : lengthOf'[id] = lengthOf[id] /\ lengthOf[id] \in Nat
           /\ ~NextFrame => lengthOf' = lengthOf
<1>1. lengthOf \in Seq(Nat)
  <2>1. lengthOf \in Seq(Lengths) /\ \A n \in Lengths : n \in Nat
    BY FitAssumption, SizeAssumption DEF FoundInv, Frames, ReadInv, TypeInv
  <2>. QED BY <2>1
<1>2. CASE NextFrame
  <2>1. PICK n \in Lengths : lengthOf' = Append(lengthOf, n)
    BY <1>2 DEF NextFrame
  <2>2. n \in Nat /\ lost' = lost
    BY <1>2, FitAssumption, SizeAssumption DEF NextFrame
  <2>. QED BY <1>1, <1>2, <2>1, <2>2
<1>3. CASE ~NextFrame
  <2>1. lengthOf' = lengthOf /\ lost \subseteq lost'
    BY <1>3 DEF Next, Poll, StoreBeat, WriteSRR, WriteRDFR, ResetRx, ClearISR, TestStop, ReadRDFO,
                ReadRLRZero, ReadRLR, LoseSync, StartFrame, ReadRDFD, Publish, Signal, vars, history
  <2>. QED BY <1>1, <2>1
<1>. QED BY <1>2, <1>3

LEMMA BeatAppended ==
    ASSUME NEW S, NEW p \in Seq(S), NEW q \in Seq(S), NEW v \in S, NEW w \in S
    PROVE  LET s == p \o q
               t == p \o (q \o <<v, w>>)
           IN  /\ Len(t) = Len(s) + 2 /\ Len(s) \in Nat
               /\ \A a \in 1 .. Len(s) : t[a] = s[a]
               /\ t[Len(s) + 1] = v /\ t[Len(s) + 2] = w
<1>. DEFINE s == p \o q
            t == p \o (q \o <<v, w>>)
<1>1. <<v, w>> \in Seq(S) /\ Len(<<v, w>>) = 2 /\ s \in Seq(S)
  OBVIOUS
<1>2. t = s \o <<v, w>>
  BY <1>1, ConcatAssociative
<1>3. Len(s) \in Nat
  BY <1>1
<1>. HIDE DEF s, t
<1>4. /\ Len(t) = Len(s) + 2
      /\ \A a \in 1 .. Len(s) + 2 : t[a] = IF a <= Len(s) THEN s[a] ELSE <<v, w>>[a - Len(s)]
  BY <1>1, <1>2, <1>3, ConcatProperties
<1>5. t[Len(s) + 1] = <<v, w>>[1] /\ t[Len(s) + 2] = <<v, w>>[2]
  BY <1>3, <1>4
<1>6. \A a \in 1 .. Len(s) : t[a] = s[a]
  BY <1>3, <1>4
<1>. QED BY <1>3, <1>4, <1>5, <1>6 DEF s, t

LEMMA LineStoreBeat ==
    ASSUME FoundInv, StoreBeat
    PROVE  /\ Len(Line') = Len(Line) + 2 /\ Len(Line) \in Nat
           /\ \A a \in 1 .. Len(Line) : Line'[a] = Line[a]
           /\ Line'[Len(Line) + 1] = <<incoming.id, 2 * incoming.beat - 1>>
           /\ Line'[Len(Line) + 2] = <<incoming.id, 2 * incoming.beat>>
<1>1. /\ incoming # NoFrame /\ incoming \in Frame /\ incoming.from >= 1 /\ incoming.from <= incoming.beat
      /\ rx \in Seq(Nat \X Nat) /\ words \in Seq(Nat \X Nat) /\ words' = words
  BY DEF StoreBeat, FoundInv, Frames, ReadInv, TypeInv, poller
<1>. DEFINE S == Nat \X Nat
            v == <<incoming.id, 2 * incoming.beat - 1>>
            w == <<incoming.id, 2 * incoming.beat>>
<1>2. v \in S /\ w \in S /\ rx \in Seq(S) /\ words \in Seq(S)
  BY <1>1 DEF Frame
<1>3. rx' = rx \o <<v, w>>
  BY DEF StoreBeat
<1>. HIDE DEF S, v, w
<1>4. Line = words \o rx /\ Line' = words \o (rx \o <<v, w>>)
  BY <1>1, <1>3, Zenon DEF Line
<1>5. /\ Len(Line') = Len(Line) + 2 /\ Len(Line) \in Nat
      /\ \A a \in 1 .. Len(Line) : Line'[a] = Line[a]
      /\ Line'[Len(Line) + 1] = v /\ Line'[Len(Line) + 2] = w
  BY <1>2, <1>4, BeatAppended
<1>. QED BY <1>5 DEF v, w

LEMMA BoundaryMoves ==
    ASSUME NEW S, NEW p \in Seq(S), NEW q \in Seq(S), q # <<>>
    PROVE  Append(p, Head(q)) \o Tail(q) = p \o q
<1>1. Head(q) \in S /\ Tail(q) \in Seq(S) /\ <<Head(q)>> \in Seq(S) /\ <<Head(q)>> \o Tail(q) = q
  OBVIOUS
<1>2. Append(p, Head(q)) = p \o <<Head(q)>>
  BY <1>1
<1>3. (p \o <<Head(q)>>) \o Tail(q) = p \o (<<Head(q)>> \o Tail(q))
  BY <1>1, ConcatAssociative
<1>. QED BY <1>1, <1>2, <1>3, Zenon

LEMMA LineReadRDFD ==
    ASSUME FoundInv, ReadRDFD
    PROVE  Line' = Line /\ Len(words') = Len(words) + 1
<1>1. /\ rx \in Seq(Nat \X Nat) /\ words \in Seq(Nat \X Nat) /\ rx # <<>>
      /\ words' = Append(words, Head(rx)) /\ rx' = Tail(rx)
  BY DEF ReadRDFD, FoundInv, Frames, ReadInv, TypeInv
<1>2. Line' = Line
  BY <1>1, BoundaryMoves, Zenon DEF Line
<1>. QED BY <1>1, <1>2

LEMMA LineSame ==
    ASSUME FoundInv, InOrder, [Next]_vars,
           ~StoreBeat, ~ReadRDFD, ~Publish, ~WriteSRR, ~WriteRDFR
    PROVE  Line' = Line /\ words' = words
<1>1. rx' = rx /\ words' = words
  BY DEF Next, Poll, NextFrame, ClearISR, TestStop, ReadRDFO, ReadRLRZero, ReadRLR, LoseSync,
         StartFrame, Signal, vars, poller, fifo, Step, InOrder
<1>. QED BY <1>1 DEF Line

LEMMA LineReset ==
    ASSUME FoundInv, InOrder, WriteSRR \/ WriteRDFR
    PROVE  Line' = <<>> /\ words' = <<>> /\ Len(Line') = 0
<1>1. rx' = <<>> /\ words' = <<>>
  BY DEF WriteSRR, WriteRDFR, ResetRx, Step, InOrder
<1>. QED BY <1>1 DEF Line

LEMMA LinePublish ==
    ASSUME FoundInv, Publish
    PROVE  /\ Len(Line) = Len(words) + Len(Line') /\ words' = <<>> /\ Len(words') = 0
           /\ Len(words) \in Nat /\ Len(Line') \in Nat
           /\ \A a \in 1 .. Len(Line') : Line'[a] = Line[Len(words) + a]
<1>1. rx' = rx /\ words' = <<>> /\ rx \in Seq(Nat \X Nat)
  BY DEF Publish, fifo, FoundInv, Frames, ReadInv, TypeInv
<1>2. Line' = rx
  BY <1>1 DEF Line
<1>. QED BY <1>1, <1>2, LineType

---------------------------------------------------------------------------
\* The line stays in order.

LEMMA KnownKept ==
    ASSUME FoundInv, [Next]_vars, NEW w, Known(w)
    PROVE  Known(w)'
<1>1. w[1] \in 1 .. Len(lengthOf) /\ w[2] <= 2 * Beats(lengthOf[w[1]])
  BY DEF Known
<1>2. /\ Len(lengthOf') >= Len(lengthOf) /\ Len(lengthOf) \in Nat /\ Len(lengthOf') \in Nat
      /\ lengthOf'[w[1]] = lengthOf[w[1]]
  <2>1. Len(lengthOf') \in Nat
    BY FoundInvStep DEF FoundInv, Frames, ReadInv, TypeInv
  <2>. QED BY <1>1, <2>1, HistoryStep
<1>3. w[1] \in 1 .. Len(lengthOf')
  BY <1>1, <1>2
<1>. QED BY <1>1, <1>2, <1>3 DEF Known

LEMMA IncomingFacts ==
    ASSUME Sound, incoming # NoFrame
    PROVE  /\ incoming.id \in Nat /\ incoming.id \in 1 .. Len(lengthOf) /\ incoming.id = Len(lengthOf)
           /\ incoming.len = lengthOf[incoming.id] /\ incoming.len \in Nat
           /\ incoming.from \in Nat /\ incoming.from >= 1 /\ incoming.beat \in Nat
           /\ incoming.from <= incoming.beat /\ incoming.beat <= Beats(incoming.len)
           /\ Beats(incoming.len) \in Nat
<1>1. /\ incoming \in Frame /\ incoming.from >= 1 /\ incoming.from <= incoming.beat
      /\ incoming.beat <= Beats(incoming.len) /\ Len(lengthOf) \in Nat
      /\ incoming.id = Len(lengthOf) /\ incoming.id # 0 /\ incoming.len = lengthOf[incoming.id]
  BY DEF Sound, Arriving, FoundInv, Frames, ReadInv, TypeInv
<1>2. /\ incoming.id \in Nat /\ incoming.len \in Lengths
      /\ incoming.from \in Nat /\ incoming.beat \in Nat
  BY <1>1 DEF Frame
<1>3. incoming.len \in Nat
  BY <1>2, FitAssumption, SizeAssumption
<1>. QED BY <1>1, <1>2, <1>3, BeatsBounds

LEMMA FollowsShift ==
    ASSUME NEW v \in Nat \X Nat, NEW id \in Nat, NEW x \in Nat, NEW d \in Nat, NEW k \in Nat,
           Follows(v, <<id, x>>, d)
    PROVE  Follows(v, <<id, x + k>>, d + k)
<1>1. v[1] \in Nat /\ v[2] \in Nat
  OBVIOUS
<1>2. v[1] < id \/ (v[1] = id /\ x = v[2] + d)
  BY DEF Follows
<1>3. v[1] < id \/ (v[1] = id /\ x + k = v[2] + (d + k))
  BY <1>1, <1>2
<1>. QED BY <1>3 DEF Follows

LEMMA OrderStoreBeat ==
    ASSUME Sound, StoreBeat, [Next]_vars
    PROVE  InOrder' /\ Arriving'
<1>. DEFINE N == Len(Line)
            id == incoming.id
            b == incoming.beat
<1>1. /\ incoming # NoFrame /\ UNCHANGED <<words, pc, lengthOf, lost>> /\ FoundInv
  BY DEF StoreBeat, poller, history, Sound
<1>2. /\ id \in 1 .. Len(lengthOf) /\ id = Len(lengthOf) /\ incoming.len = lengthOf[id]
      /\ b \in Nat /\ b >= 1 /\ b <= Beats(incoming.len) /\ Beats(incoming.len) \in Nat /\ id \in Nat
  BY <1>1, IncomingFacts
<1>3. /\ Len(Line') = N + 2 /\ N \in Nat /\ \A a \in 1 .. N : Line'[a] = Line[a]
      /\ Line'[N + 1] = <<id, 2 * b - 1>> /\ Line'[N + 2] = <<id, 2 * b>>
  BY <1>1, LineStoreBeat
<1>4. /\ \A a \in 1 .. N : Line[a] \in Nat \X Nat
      /\ \A a \in 1 .. N : Known(Line[a])
      /\ \A a \in 1 .. N : Follows(Line[a], <<id, 2 * b - 1>>, N + 1 - a)
      /\ \A a, e \in 1 .. N : a < e => Follows(Line[a], Line[e], e - a)
  <2>1. \A a \in 1 .. N : Line[a] \in Nat \X Nat
    <3>1. Line \in Seq(Nat \X Nat)
      BY <1>1, LineType
    <3>. QED BY <3>1
  <2>2. \A a \in 1 .. N : Follows(Line[a], <<id, 2 * b - 1>>, N + 1 - a)
    BY <1>1, Zenon DEF Sound, Arriving
  <2>3. (\A a \in 1 .. N : Known(Line[a])) /\ \A a, e \in 1 .. N : a < e => Follows(Line[a], Line[e], e - a)
    BY Zenon DEF Sound, InOrder
  <2>. QED BY <2>1, <2>2, <2>3, Zenon
<1>. HIDE DEF N, id, b
<1>5. ASSUME NEW a \in 1 .. N + 2 PROVE Known(Line[a])'
  <2>1. CASE a \in 1 .. N
    <3>1. Known(Line[a]) /\ Line'[a] = Line[a] /\ lengthOf' = lengthOf
      BY <1>1, <1>3, <1>4, <2>1
    <3>. QED BY <3>1, Zenon DEF Known
  <2>2. CASE a \in {N + 1, N + 2}
    <3>1. Line'[a][1] = id /\ Line'[a][2] <= 2 * b
      BY <1>2, <1>3, <2>2
    <3>2. Line'[a][1] \in 1 .. Len(lengthOf') /\ Line'[a][2] <= 2 * Beats(lengthOf'[Line'[a][1]])
      <4>1. 2 * b <= 2 * Beats(lengthOf[id])
        BY <1>2
      <4>2. Line'[a][2] \in Nat /\ Beats(lengthOf[id]) \in Nat
        BY <1>2, <1>3, <2>2
      <4>3. Line'[a][2] <= 2 * Beats(lengthOf[id])
        BY <1>2, <3>1, <4>1, <4>2
      <4>. QED BY <1>1, <1>2, <3>1, <4>3, Zenon
    <3>. QED BY <3>2 DEF Known
  <2>. QED BY <1>3, <2>1, <2>2
<1>6. ASSUME NEW a \in 1 .. N + 2, NEW e \in 1 .. N + 2, a < e
      PROVE  Follows(Line'[a], Line'[e], e - a)
  <2>1. CASE e \in 1 .. N
    <3>1. a \in 1 .. N
      BY <1>3, <1>6, <2>1
    <3>. QED BY <1>3, <1>4, <1>6, <2>1, <3>1
  <2>2. CASE e = N + 1
    <3>1. a \in 1 .. N /\ Line'[a] = Line[a] /\ Line'[e] = <<id, 2 * b - 1>> /\ e - a = N + 1 - a
      BY <1>3, <1>6, <2>2
    <3>2. Follows(Line[a], <<id, 2 * b - 1>>, N + 1 - a)
      BY <1>4, <3>1, Zenon
    <3>. QED BY <3>1, <3>2, Zenon
  <2>3. CASE e = N + 2 /\ a \in 1 .. N
    <3>0. Line[a] \in Nat \X Nat /\ 2 * b - 1 \in Nat /\ N + 1 - a \in Nat /\ 1 \in Nat
      BY <1>2, <1>3, <1>4, <2>3
    <3>1. Follows(Line[a], <<id, (2 * b - 1) + 1>>, (N + 1 - a) + 1)
      BY <1>2, <1>4, <2>3, <3>0, FollowsShift, Zenon
    <3>2. (2 * b - 1) + 1 = 2 * b /\ (N + 1 - a) + 1 = e - a
      BY <1>2, <1>3, <2>3
    <3>3. Line'[a] = Line[a] /\ Line'[e] = <<id, 2 * b>>
      BY <1>3, <2>3
    <3>. QED BY <3>1, <3>2, <3>3, Zenon
  <2>4. CASE e = N + 2 /\ a = N + 1
    <3>1. Line'[a] = <<id, 2 * b - 1>> /\ Line'[e] = <<id, 2 * b>> /\ e - a = 1
      BY <1>3, <2>4
    <3>. QED BY <1>2, <3>1 DEF Follows
  <2>. QED BY <1>3, <1>6, <2>1, <2>2, <2>3, <2>4
<1>7. InOrder'
  <2>1. words' # <<>> => pc' = "read"
    BY <1>1 DEF Sound, InOrder
  <2>2. \A a \in 1 .. Len(Line') : Known(Line[a])'
    BY <1>3, <1>5, Zenon
  <2>3. \A a, e \in 1 .. Len(Line') : a < e => Follows(Line'[a], Line'[e], e - a)
    BY <1>3, <1>6, Zenon
  <2>. QED BY <2>1, <2>2, <2>3, Zenon DEF InOrder, Follows
<1>8. CASE b = Beats(incoming.len)
  <2>1. incoming' = NoFrame
    BY <1>8 DEF StoreBeat, b
  <2>. QED BY <1>7, <2>1 DEF Arriving
<1>9. CASE b # Beats(incoming.len)
  <2>1. /\ incoming'.id = id /\ incoming'.beat = b + 1 /\ incoming'.len = incoming.len
        /\ incoming'.from = incoming.from
    BY <1>1, <1>9 DEF StoreBeat, b, id, Sound, FoundInv, Frames, ReadInv, TypeInv, Frame
  <2>2. ASSUME NEW a \in 1 .. N + 2 PROVE Follows(Line'[a], <<id, 2 * b + 1>>, N + 3 - a)
    <3>1. CASE a \in 1 .. N
      <4>0. Line[a] \in Nat \X Nat /\ 2 * b - 1 \in Nat /\ N + 1 - a \in Nat /\ 2 \in Nat
        BY <1>2, <1>3, <1>4, <3>1
      <4>1. Follows(Line[a], <<id, (2 * b - 1) + 2>>, (N + 1 - a) + 2)
        BY <1>2, <1>4, <3>1, <4>0, FollowsShift, Zenon
      <4>2. (2 * b - 1) + 2 = 2 * b + 1 /\ (N + 1 - a) + 2 = N + 3 - a
        BY <1>2, <1>3
      <4>. QED BY <1>3, <3>1, <4>1, <4>2
    <3>2. CASE a = N + 1 \/ a = N + 2
      BY <1>2, <1>3, <3>2 DEF Follows
    <3>. QED BY <1>3, <3>1, <3>2
  <2>3. 2 * incoming'.beat - 1 = 2 * b + 1 /\ \A a \in 1 .. N + 2 : Len(Line') + 1 - a = N + 3 - a
    BY <1>2, <1>3, <2>1
  <2>4. \A a \in 1 .. Len(Line') :
           Follows(Line'[a], <<incoming'.id, 2 * incoming'.beat - 1>>, Len(Line') + 1 - a)
    BY <1>3, <2>1, <2>2, <2>3
  <2>5. incoming.from > 1 => id \in lost
    BY <1>1 DEF Sound, Arriving, id
  <2>6. /\ incoming'.id = Len(lengthOf') /\ incoming'.len = lengthOf'[incoming'.id]
        /\ incoming'.id # 0 /\ (incoming'.from > 1 => incoming'.id \in lost')
    BY <1>1, <1>2, <2>1, <2>5
  <2>. QED BY <1>7, <2>4, <2>6, Zenon DEF Arriving, Follows
<1>. QED BY <1>7, <1>8, <1>9

LEMMA WordsAreRead ==
    ASSUME words # <<>> => pc = "read", [Next]_vars
    PROVE  words' # <<>> => pc' = "read"
<1>1. CASE ReadRDFD
  BY <1>1 DEF ReadRDFD, Step
<1>2. CASE Publish \/ StartFrame
  BY <1>2 DEF Publish, StartFrame, Step
<1>3. CASE WriteSRR \/ WriteRDFR \/ ClearISR \/ TestStop \/ ReadRDFO \/ ReadRLRZero \/ ReadRLR \/ LoseSync
  <2>1. words' = words /\ pc # "read"
    BY <1>3 DEF WriteSRR, WriteRDFR, ClearISR, TestStop, ReadRDFO, ReadRLRZero, ReadRLR, LoseSync, Step
  <2>. QED BY <2>1
<1>4. CASE NextFrame \/ StoreBeat \/ Signal \/ UNCHANGED vars
  <2>1. words' = words /\ pc' = pc
    BY <1>4 DEF NextFrame, StoreBeat, Signal, vars, poller
  <2>. QED BY <2>1
<1>. QED BY <1>1, <1>2, <1>3, <1>4 DEF Next, Poll

\* The line has not changed, nor what is coming in.
LEMMA OrderSame ==
    ASSUME Sound, [Next]_vars, ~StoreBeat, ~Publish, ~WriteSRR, ~WriteRDFR
    PROVE  InOrder' /\ Arriving'
<1>1. FoundInv /\ InOrder /\ Arriving
  BY DEF Sound
<1>2. Line' = Line
  BY <1>1, LineSame, LineReadRDFD
<1>3. InOrder'
  <2>1. \A a \in 1 .. Len(Line) : Known(Line[a])
    BY <1>1 DEF InOrder
  <2>2. ASSUME NEW a \in 1 .. Len(Line) PROVE Known(Line[a])'
    <3>1. PICK w : w = Line[a]
      OBVIOUS
    <3>2. Known(w)'
      BY <1>1, <2>1, <3>1, KnownKept
    <3>3. Line'[a] = w
      BY <1>2, <3>1
    <3>. QED BY <3>2, <3>3, Zenon DEF Known
  <2>3. words' # <<>> => pc' = "read"
    BY <1>1, WordsAreRead DEF InOrder
  <2>4. \A a, b \in 1 .. Len(Line) : a < b => Follows(Line[a], Line[b], b - a)
    BY <1>1 DEF InOrder
  <2>. QED BY <1>2, <2>2, <2>3, <2>4, Zenon DEF InOrder, Follows
<1>4. CASE NextFrame
  <2>1. /\ incoming'.id = Len(lengthOf) + 1 /\ incoming'.from = 1 /\ incoming'.len = lengthOf'[incoming'.id]
        /\ Len(lengthOf') = Len(lengthOf) + 1 /\ Len(lengthOf) \in Nat
    BY <1>1, <1>4 DEF NextFrame, FoundInv, Frames, ReadInv, TypeInv
  <2>2. ASSUME NEW a \in 1 .. Len(Line) PROVE Line[a][1] < incoming'.id
    <3>1. Line[a][1] \in 1 .. Len(lengthOf)
      BY <1>1 DEF InOrder, Known
    <3>. QED BY <2>1, <3>1
  <2>3. incoming'.id # 0 /\ ~(incoming'.from > 1)
    BY <2>1
  <2>. QED BY <1>2, <1>3, <2>1, <2>2, <2>3 DEF Arriving, Follows
<1>5. CASE ~NextFrame
  <2>1. incoming' = incoming
    BY <1>5 DEF Next, Poll, ClearISR, TestStop, ReadRDFO, ReadRLRZero, ReadRLR, LoseSync,
                StartFrame, ReadRDFD, Signal, vars, fifo
  <2>2. lengthOf' = lengthOf /\ lost \subseteq lost'
    BY <1>1, <1>5, HistoryStep
  <2>. QED BY <1>1, <1>2, <1>3, <2>1, <2>2 DEF Arriving, Follows
<1>. QED BY <1>4, <1>5

LEMMA OrderReset ==
    ASSUME Sound, WriteSRR \/ WriteRDFR
    PROVE  InOrder' /\ Arriving'
<1>1. /\ FoundInv /\ InOrder /\ Len(Line') = 0 /\ words' = <<>> /\ lengthOf' = lengthOf
      /\ lost \subseteq lost'
  BY LineReset DEF Sound, WriteSRR, WriteRDFR, ResetRx
<1>2. InOrder'
  BY <1>1 DEF InOrder
<1>3. CASE incoming' = NoFrame
  BY <1>2, <1>3 DEF Arriving
<1>4. CASE incoming # NoFrame /\ incoming' = [incoming EXCEPT !.from = incoming.beat]
  <2>1. incoming \in Frame
    BY <1>1, <1>4 DEF FoundInv, Frames, ReadInv, TypeInv
  <2>2. incoming'.id = incoming.id /\ incoming'.len = incoming.len
    BY <1>4, <2>1 DEF Frame
  <2>3. incoming.id \in lost'
    BY <1>4 DEF WriteSRR, WriteRDFR, ResetRx
  <2>4. incoming.id = Len(lengthOf) /\ incoming.len = lengthOf[incoming.id] /\ incoming.id # 0
    BY <1>4 DEF Sound, Arriving
  <2>. QED BY <1>1, <1>2, <2>2, <2>3, <2>4 DEF Arriving
<1>. QED BY <1>3, <1>4 DEF WriteSRR, WriteRDFR, ResetRx

LEMMA OrderPublish ==
    ASSUME Sound, Publish, [Next]_vars
    PROVE  InOrder' /\ Arriving'
<1>. DEFINE d == Len(words)
            M == Len(Line')
<1>1. /\ FoundInv /\ InOrder /\ Arriving /\ words' = <<>>
      /\ UNCHANGED <<incoming, lengthOf, lost>>
  BY LinePublish DEF Sound, Publish, fifo, history
<1>2. /\ Len(Line) = d + M /\ d \in Nat /\ M \in Nat
      /\ \A a \in 1 .. M : Line'[a] = Line[d + a]
  BY <1>1, LinePublish
<1>. HIDE DEF d, M
<1>3. ASSUME NEW a \in 1 .. M
      PROVE  d + a \in 1 .. Len(Line)
  BY <1>2
<1>4. ASSUME NEW a \in 1 .. M PROVE Known(Line[a])'
  <2>1. Known(Line[d + a]) /\ Line'[a] = Line[d + a]
    BY <1>1, <1>2, <1>3 DEF InOrder
  <2>. QED BY <1>1, <2>1, Zenon DEF Known
<1>5. ASSUME NEW a \in 1 .. M, NEW b \in 1 .. M, a < b
      PROVE  Follows(Line'[a], Line'[b], b - a)
  <2>1. d + a < d + b /\ (d + b) - (d + a) = b - a
    BY <1>2, <1>5
  <2>2. Follows(Line[d + a], Line[d + b], (d + b) - (d + a))
    BY <1>1, <1>3, <2>1 DEF InOrder
  <2>. QED BY <1>2, <2>1, <2>2, Zenon
<1>6. InOrder'
  BY <1>1, <1>4, <1>5, Zenon DEF InOrder, Follows, M
<1>7. ASSUME incoming # NoFrame, NEW a \in 1 .. M
      PROVE  Follows(Line'[a], <<incoming.id, 2 * incoming.beat - 1>>, M + 1 - a)
  <2>1. Len(Line) + 1 - (d + a) = M + 1 - a
    BY <1>2
  <2>2. Follows(Line[d + a], <<incoming.id, 2 * incoming.beat - 1>>, Len(Line) + 1 - (d + a))
    BY <1>1, <1>3, <1>7, Zenon DEF Arriving
  <2>. QED BY <1>2, <2>1, <2>2, Zenon
<1>8. Arriving'
  <2>. SUFFICES ASSUME incoming # NoFrame PROVE Arriving'
    BY <1>1 DEF Arriving
  <2>1. \A a \in 1 .. Len(Line') : Follows(Line'[a], <<incoming.id, 2 * incoming.beat - 1>>, Len(Line') + 1 - a)
    BY <1>7, Zenon DEF M
  <2>2. /\ incoming.id = Len(lengthOf) /\ incoming.len = lengthOf[incoming.id]
        /\ incoming.id # 0 /\ (incoming.from > 1 => incoming.id \in lost)
    BY <1>1, Zenon DEF Arriving
  <2>. QED BY <1>1, <2>1, <2>2, Zenon DEF Arriving, Follows
<1>. QED BY <1>6, <1>8

LEMMA SoundStep == Sound /\ [Next]_vars => Sound'
<1>. SUFFICES ASSUME Sound, [Next]_vars PROVE Sound'
  OBVIOUS
<1>1. FoundInv'
  BY FoundInvStep DEF Sound
<1>2. InOrder' /\ Arriving'
  BY OrderStoreBeat, OrderSame, OrderReset, OrderPublish
<1>. QED BY <1>1, <1>2 DEF Sound

---------------------------------------------------------------------------
\* The line stays cut into frames.

\* Words are added behind a whole frame and taken away before it.
LEMMA WholeKept ==
    ASSUME Sound, [Next]_vars, NEW e \in Nat, NEW n, NEW d \in Nat,
           Whole(e + d, n), WordsToRead(n) <= e, e <= Len(Line'),
           \A a \in 1 .. e : Line'[a] = Line[a + d]
    PROVE  Whole(e, n)'
<1>1. /\ e + d \in 1 .. Len(Line) /\ n \in Nat /\ WordsToRead(n) \in 1 .. e + d
      /\ Line[e + d][2] = 2 * Beats(lengthOf[Line[e + d][1]])
      /\ \A a \in (e + d) - WordsToRead(n) + 1 .. e + d : Line[a][1] = Line[e + d][1]
  BY DEF Whole
<1>2. PICK m \in Nat : /\ n = lengthOf[Line[e + d][1]] - BEAT * m
                       /\ WordsToRead(n) = Line[e + d][2] - 2 * m
                       /\ m > 0 => Line[e + d][1] \in lost
  BY DEF Whole
<1>3. WordsToRead(n) \in 1 .. e /\ e \in 1 .. e
  BY <1>1
<1>4. Line'[e] = Line[e + d] /\ e \in 1 .. Len(Line')
  <2>1. Len(Line') \in Nat
    BY FoundInvStep, LineType DEF Sound
  <2>. QED BY <1>3, <2>1
<1>5. lengthOf'[Line[e + d][1]] = lengthOf[Line[e + d][1]] /\ lost \subseteq lost'
  <2>1. Line[e + d][1] \in 1 .. Len(lengthOf)
    BY <1>1 DEF Sound, InOrder, Known
  <2>. QED BY <2>1, HistoryStep DEF Sound
<1>6. ASSUME NEW a \in e - WordsToRead(n) + 1 .. e PROVE Line'[a][1] = Line'[e][1]
  <2>1. a \in 1 .. e /\ a + d \in (e + d) - WordsToRead(n) + 1 .. e + d
    BY <1>3
  <2>2. Line[a + d][1] = Line[e + d][1]
    BY <1>1, <2>1, Zenon
  <2>3. Line'[a] = Line[a + d]
    BY <2>1
  <2>. QED BY <1>4, <2>2, <2>3, Zenon
<1>7. \E k \in Nat : /\ n = lengthOf'[Line'[e][1]] - BEAT * k
                     /\ WordsToRead(n) = Line'[e][2] - 2 * k
                     /\ k > 0 => Line'[e][1] \in lost'
  BY <1>2, <1>4, <1>5, Zenon
<1>8. Line'[e][2] = 2 * Beats(lengthOf'[Line'[e][1]])
  BY <1>1, <1>4, <1>5, Zenon
<1>. QED BY <1>1, <1>3, <1>4, <1>6, <1>7, <1>8, Zenon DEF Whole, WordsToRead, Beats

LEMMA WholeStays ==
    ASSUME Sound, [Next]_vars, NEW e \in Nat, NEW n, Whole(e, n),
           Len(Line') >= Len(Line), \A a \in 1 .. Len(Line) : Line'[a] = Line[a]
    PROVE  Whole(e, n)'
<1>1. Len(Line) \in Nat /\ Len(Line') \in Nat
  BY SoundStep DEF Sound, FoundInv, Frames, ReadInv, TypeInv, Line
<1>2. /\ e + 0 = e /\ WordsToRead(n) <= e /\ e <= Len(Line')
      /\ \A a \in 1 .. e : a + 0 = a /\ Line'[a] = Line[a]
  BY <1>1 DEF Whole
<1>3. Whole(e + 0, n) /\ \A a \in 1 .. e : Line'[a] = Line[a + 0]
  BY <1>2
<1>. QED BY <1>2, <1>3, WholeKept

LEMMA CutType ==
    ASSUME Sound, NEW ends \in [0 .. Len(lens) -> Nat], CutAt(ends)
    PROVE  /\ Len(lens) \in Nat /\ Len(Line) \in Nat /\ Len(words) \in Nat
           /\ Claimed \in Nat /\ WordsIn \in Nat
           /\ \A j \in 0 .. Len(lens) : ends[j] \in Nat /\ ends[j] <= Len(Line)
<1>1. /\ Len(lens) \in Nat /\ Len(Line) \in Nat /\ Len(words) \in Nat
      /\ Claimed \in Nat /\ WordsIn \in Nat
  BY Counts, LineType DEF Sound, FoundInv, Frames, ReadInv, TypeInv
<1>2. ASSUME NEW j \in 0 .. Len(lens) PROVE ends[j] <= Len(Line)
  <2>1. CASE j \in 1 .. Len(lens)
    BY <1>1, <2>1 DEF CutAt, Whole
  <2>2. CASE j = 0
    <3>1. ends[0] <= ends[Len(lens)] /\ ends[0] \in Nat /\ ends[Len(lens)] \in Nat
      BY <1>1 DEF CutAt
    <3>2. ends[Len(lens)] + WordsIn = Len(Line)
      BY DEF CutAt
    <3>. QED BY <1>1, <2>2, <3>1, <3>2
  <2>. QED BY <1>1, <2>1, <2>2
<1>. QED BY <1>1, <1>2

\* Nothing but words of the frame that is coming in is added, and the poller
\* reads on in the piece it has claimed.
LEMMA CutKept ==
    ASSUME Sound, [Next]_vars, Cut, lens' = lens,
           Len(words') + Claimed' = Len(words) + Claimed,
           pc' \in {"check", "read"} => pc \in {"check", "read"} /\ len' = len,
           Len(Line') >= Len(Line), \A a \in 1 .. Len(Line) : Line'[a] = Line[a],
           Len(Line) + WordsIn' = Len(Line') + WordsIn,
           incoming'.id = incoming.id \/ WordsIn = 0,
           \A a \in Len(Line) + 1 .. Len(Line') : Line'[a][1] = incoming'.id
    PROVE  Cut'
<1>1. PICK ends \in [0 .. Len(lens) -> Nat] : CutAt(ends)
  BY DEF Cut
<1>. DEFINE L == Len(lens)
            N == Len(Line)
<1>2. /\ L \in Nat /\ N \in Nat /\ WordsIn \in Nat /\ Len(Line') \in Nat /\ WordsIn' \in Nat
      /\ \A j \in 0 .. L : ends[j] \in Nat /\ ends[j] <= N
  <2>1. Sound'
    BY SoundStep
  <2>2. Len(Line') \in Nat /\ WordsIn' \in Nat
    <3>1. TypeInv' /\ words' \in Seq(Nat \X Nat)
      BY <2>1 DEF Sound, FoundInv, Frames, ReadInv
    <3>2. Len(Line') \in Nat
      BY <3>1 DEF Line, TypeInv
    <3>3. WordsIn' \in Nat
      BY <3>1 DEF TypeInv, WordsIn, Frame
    <3>. QED BY <3>2, <3>3
  <2>. QED BY <1>1, <2>2, CutType
<1>3. ASSUME NEW e \in Nat, NEW n, Whole(e, n) PROVE Whole(e, n)'
  BY <1>3, WholeStays
<1>4. /\ ends[0] = Len(words) + Claimed
      /\ pc \in {"check", "read"} => ends[0] = WordsToRead(len) /\ Whole(ends[0], len)
      /\ \A j \in 1 .. L : ends[j] = ends[j - 1] + WordsToRead(lens[j]) /\ Whole(ends[j], lens[j])
      /\ ends[L] + WordsIn = N
      /\ \A j, k \in 0 .. L : j <= k => ends[j] <= ends[k]
      /\ \A a \in ends[L] + 1 .. N : Line[a][1] = incoming.id
  BY <1>1 DEF CutAt
<1>. HIDE DEF L, N
<1>5. pc' \in {"check", "read"} => ends[0] = WordsToRead(len') /\ Whole(ends[0], len)'
  <2>. SUFFICES ASSUME pc' \in {"check", "read"}
                PROVE  ends[0] = WordsToRead(len') /\ Whole(ends[0], len)'
    OBVIOUS
  <2>1. len' = len /\ ends[0] = WordsToRead(len) /\ Whole(ends[0], len) /\ ends[0] \in Nat
    BY <1>2, <1>4
  <2>2. PICK n : n = len
    OBVIOUS
  <2>3. Whole(ends[0], n)'
    BY <1>3, <2>1, <2>2
  <2>. QED BY <2>1, <2>2, <2>3
<1>6. ASSUME NEW j \in 1 .. L
      PROVE  ends[j] = ends[j - 1] + WordsToRead(lens'[j]) /\ Whole(ends[j], lens[j])'
  <2>1. PICK n : n = lens[j]
    OBVIOUS
  <2>2. ends[j] = ends[j - 1] + WordsToRead(n) /\ Whole(ends[j], n)
    BY <1>4, <2>1, Zenon
  <2>4. ends[j] \in Nat
    BY <1>2
  <2>3. Whole(ends[j], n)' /\ lens'[j] = n
    BY <1>3, <2>1, <2>2, <2>4
  <2>. QED BY <2>2, <2>3
<1>7. ends[L] + WordsIn' = Len(Line')
  <2>1. ends[L] \in Nat
    BY <1>2
  <2>2. ends[L] + WordsIn = N
    BY <1>4, Zenon
  <2>3. N + WordsIn' = Len(Line') + WordsIn
    BY DEF N
  <2>4. N \in Nat /\ WordsIn \in Nat /\ WordsIn' \in Nat /\ Len(Line') \in Nat
    BY <1>2
  <2>5. PICK x, y, z, u, v : /\ x = ends[L] /\ y = WordsIn /\ z = N /\ u = WordsIn' /\ v = Len(Line')
    OBVIOUS
  <2>6. x \in Nat /\ y \in Nat /\ z \in Nat /\ u \in Nat /\ v \in Nat /\ x + y = z /\ z + u = v + y
    BY <2>1, <2>2, <2>3, <2>4, <2>5, Zenon
  <2>7. x + u = v
    BY <2>6
  <2>. QED BY <2>5, <2>7, Zenon
<1>8. ASSUME NEW a \in ends[L] + 1 .. Len(Line') PROVE Line'[a][1] = incoming'.id
  <2>1. ends[L] \in Nat
    BY <1>2
  <2>2. CASE a > N
    <3>1. a \in N + 1 .. Len(Line')
      BY <1>2, <2>1, <2>2
    <3>. QED BY <3>1 DEF N
  <2>3. CASE a <= N
    <3>1. a \in ends[L] + 1 .. N /\ a \in 1 .. N
      BY <1>2, <2>1, <2>3
    <3>2. WordsIn # 0
      BY <1>2, <1>4, <2>1, <3>1
    <3>3. Line'[a] = Line[a] /\ Line[a][1] = incoming.id /\ incoming'.id = incoming.id
      BY <1>4, <3>1, <3>2 DEF N
    <3>. QED BY <3>3
  <2>. QED BY <1>2, <2>1, <2>2, <2>3
<1>9. CutAt(ends)'
  <2>1. Len(lens') = L /\ ends[0] = Len(words') + Claimed'
    BY <1>4 DEF L
  <2>. QED BY <1>4, <1>5, <1>6, <1>7, <1>8, <2>1 DEF CutAt
<1>. QED BY <1>9 DEF Cut

\* The piece of a frame that is complete.
LEMMA CutLastBeat ==
    ASSUME Sound, [Next]_vars, Cut, StoreBeat, incoming.beat = Beats(incoming.len)
    PROVE  Cut'
<1>1. PICK ends \in [0 .. Len(lens) -> Nat] : CutAt(ends)
  BY DEF Cut
<1>. DEFINE L == Len(lens)
            N == Len(Line)
            id == incoming.id
            b == incoming.beat
            m == incoming.from - 1
            rest == incoming.len - BEAT * m
<1>2. /\ L \in Nat /\ N \in Nat /\ WordsIn \in Nat
      /\ \A j \in 0 .. L : ends[j] \in Nat /\ ends[j] <= N
  BY <1>1, CutType
<1>3. /\ FoundInv /\ incoming # NoFrame /\ incoming' = NoFrame /\ lens' = Append(lens, rest)
      /\ lens \in Seq(Nat) /\ UNCHANGED <<pc, len, want, words, lengthOf, lost>>
  BY DEF StoreBeat, Sound, FoundInv, Frames, ReadInv, TypeInv, poller, history
<1>4. /\ id \in Nat /\ incoming.len = lengthOf[id] /\ incoming.len \in Nat /\ b \in Nat
      /\ incoming.from \in Nat /\ incoming.from >= 1 /\ incoming.from <= b /\ b = Beats(incoming.len)
  BY <1>3, IncomingFacts
<1>5. m \in Nat /\ m < b /\ WordsIn = 2 * (b - incoming.from) /\ (m > 0 => id \in lost)
  BY <1>3, <1>4 DEF WordsIn, Sound, Arriving
<1>6. rest \in Nat /\ Beats(rest) = b - m
  BY <1>4, <1>5, BeatsOfRest, SMTT(30)
<1>7. WordsToRead(rest) = 2 * b - 2 * m /\ WordsToRead(rest) = WordsIn + 2 /\ WordsIn' = 0 /\ Claimed' = Claimed
  <2>1. WordsToRead(rest) = 2 * (b - m)
    BY <1>6 DEF WordsToRead
  <2>2. WordsIn' = 0 /\ Claimed' = Claimed
    BY <1>3 DEF WordsIn, Claimed
  <2>. QED BY <1>4, <1>5, <2>1, <2>2
<1>8. /\ Len(Line') = N + 2 /\ \A a \in 1 .. N : Line'[a] = Line[a]
      /\ Line'[N + 1] = <<id, 2 * b - 1>> /\ Line'[N + 2] = <<id, 2 * b>>
  BY <1>3, LineStoreBeat
<1>9. /\ Len(lens') = L + 1 /\ lens'[L + 1] = rest /\ \A j \in 1 .. L : lens'[j] = lens[j]
  BY <1>3, <1>6
<1>10. /\ ends[0] = Len(words) + Claimed
       /\ pc \in {"check", "read"} => ends[0] = WordsToRead(len) /\ Whole(ends[0], len)
       /\ \A j \in 1 .. L : ends[j] = ends[j - 1] + WordsToRead(lens[j]) /\ Whole(ends[j], lens[j])
       /\ ends[L] + WordsIn = N
       /\ \A j, k \in 0 .. L : j <= k => ends[j] <= ends[k]
       /\ \A a \in ends[L] + 1 .. N : Line[a][1] = id
  BY <1>1 DEF CutAt
<1>11. ASSUME NEW e \in Nat, NEW n, Whole(e, n) PROVE Whole(e, n)'
  <2>1. Len(Line') >= Len(Line)
    BY <1>2, <1>8
  <2>. QED BY <1>8, <1>11, <2>1, WholeStays
<1>. HIDE DEF L, N, id, b, m, rest
<1>12. PICK next \in [0 .. L + 1 -> Nat] :
          next[L + 1] = N + 2 /\ \A j \in 0 .. L : next[j] = ends[j]
  <2>. DEFINE longer == [j \in 0 .. L + 1 |-> IF j = L + 1 THEN N + 2 ELSE ends[j]]
  <2>1. /\ longer \in [0 .. L + 1 -> Nat] /\ longer[L + 1] = N + 2
        /\ \A j \in 0 .. L : longer[j] = ends[j]
    BY <1>2
  <2>. HIDE DEF longer
  <2>. QED BY <2>1
<1>13. ends[L] \in Nat /\ ends[L] + WordsIn = N
  BY <1>2, <1>10
<1>14. PICK e, n : e = N + 2 /\ n = rest
  OBVIOUS
<1>15. Whole(e, n)'
  <2>1. e \in 1 .. Len(Line') /\ Line'[e] = <<id, 2 * b>>
    BY <1>2, <1>8, <1>14
  <2>2. n \in Nat /\ WordsToRead(n) = WordsIn + 2 /\ WordsToRead(n) \in 1 .. e
    BY <1>2, <1>6, <1>7, <1>13, <1>14, SMTT(30)
  <2>3. ASSUME NEW a \in e - WordsToRead(n) + 1 .. e PROVE Line'[a][1] = id
    <3>1. e - WordsToRead(n) = ends[L]
      <4>1. WordsIn \in Nat /\ N \in Nat
        BY <1>2
      <4>. QED BY <1>13, <1>14, <2>2, <4>1, SMTT(30)
    <3>2. CASE a <= N
      <4>1. a \in ends[L] + 1 .. N /\ a \in 1 .. N
        BY <1>2, <1>13, <2>3, <3>1, <3>2
      <4>2. Line[a][1] = id
        BY <1>10, <4>1, Zenon
      <4>. QED BY <1>8, <4>1, <4>2
    <3>3. CASE a = N + 1 \/ a = N + 2
      BY <1>8, <3>3
    <3>. QED BY <1>2, <1>13, <1>14, <2>3, <3>1, <3>2, <3>3
  <2>4. Line'[e][1] = id /\ Line'[e][2] = 2 * Beats(lengthOf'[id])
    BY <1>3, <1>4, <2>1
  <2>5. /\ n = lengthOf'[id] - BEAT * m /\ WordsToRead(n) = Line'[e][2] - 2 * m
        /\ m > 0 => id \in lost'
    BY <1>3, <1>4, <1>5, <1>7, <1>14, <2>1 DEF rest
  <2>. QED BY <1>5, <2>1, <2>2, <2>3, <2>4, <2>5, Zenon DEF Whole, WordsToRead, Beats
<1>16. ASSUME NEW j \in 1 .. L + 1
       PROVE  next[j] = next[j - 1] + WordsToRead(lens'[j]) /\ Whole(next[j], lens[j])'
  <2>1. CASE j = L + 1
    <3>1. next[j] = e /\ lens'[j] = n /\ next[j - 1] = ends[L]
      BY <1>2, <1>9, <1>12, <1>14, <2>1
    <3>2. next[j] = next[j - 1] + WordsToRead(n)
      <4>1. WordsIn \in Nat /\ N \in Nat /\ WordsToRead(n) = WordsIn + 2
        BY <1>2, <1>7, <1>14
      <4>. QED BY <1>13, <1>14, <3>1, <4>1
    <3>. QED BY <1>15, <3>1, <3>2
  <2>2. CASE j \in 1 .. L
    <3>1. j \in 0 .. L /\ j - 1 \in 0 .. L
      BY <1>2, <2>2
    <3>2. PICK x : x = lens[j]
      OBVIOUS
    <3>3. next[j] = ends[j] /\ next[j - 1] = ends[j - 1] /\ lens'[j] = x /\ ends[j] \in Nat
      BY <1>2, <1>9, <1>12, <2>2, <3>1, <3>2
    <3>4. ends[j] = ends[j - 1] + WordsToRead(x) /\ Whole(ends[j], x)
      BY <1>10, <2>2, <3>2, Zenon
    <3>5. Whole(ends[j], x)'
      BY <1>11, <3>3, <3>4
    <3>. QED BY <3>3, <3>4, <3>5
  <2>. QED BY <1>2, <2>1, <2>2
<1>17. pc' \in {"check", "read"} => next[0] = WordsToRead(len') /\ Whole(next[0], len)'
  <2>. SUFFICES ASSUME pc' \in {"check", "read"}
                PROVE  next[0] = WordsToRead(len') /\ Whole(next[0], len)'
    OBVIOUS
  <2>1. PICK x : x = len
    OBVIOUS
  <2>2. next[0] = ends[0] /\ ends[0] \in Nat /\ len' = x
    BY <1>2, <1>3, <1>12, <2>1
  <2>3. ends[0] = WordsToRead(x) /\ Whole(ends[0], x)
    BY <1>3, <1>10, <2>1
  <2>4. Whole(ends[0], x)'
    BY <1>11, <2>2, <2>3
  <2>. QED BY <2>2, <2>3, <2>4
<1>18. ASSUME NEW j \in 0 .. L + 1, NEW k \in 0 .. L + 1, j <= k PROVE next[j] <= next[k]
  <2>1. CASE k \in 0 .. L
    <3>1. j \in 0 .. L
      BY <1>2, <1>18, <2>1
    <3>2. ends[j] <= ends[k]
      BY <1>10, <1>18, <2>1, <3>1
    <3>. QED BY <1>12, <2>1, <3>1, <3>2
  <2>2. CASE k = L + 1
    <3>1. CASE j \in 0 .. L
      BY <1>2, <1>12, <2>2, <3>1
    <3>2. CASE j = L + 1
      BY <1>2, <1>12, <2>2, <3>2
    <3>. QED BY <1>2, <3>1, <3>2
  <2>. QED BY <1>2, <2>1, <2>2
<1>19. CutAt(next)'
  <2>1. next[0] = Len(words') + Claimed'
    <3>1. next[0] = ends[0]
      BY <1>2, <1>12
    <3>. QED BY <1>3, <1>7, <1>10, <3>1
  <2>2. next[L + 1] + WordsIn' = Len(Line')
    BY <1>2, <1>7, <1>8, <1>12
  <2>3. \A a \in next[L + 1] + 1 .. Len(Line') : FALSE
    BY <1>2, <1>8, <1>12
  <2>. QED BY <1>9, <1>16, <1>17, <1>18, <2>1, <2>2, <2>3 DEF CutAt
<1>. QED BY <1>9, <1>12, <1>19 DEF Cut

\* The first piece becomes what is claimed.
LEMMA CutLengthRead ==
    ASSUME Sound, [Next]_vars, Cut, ReadRLR, InStep'
    PROVE  Cut'
<1>1. PICK ends \in [0 .. Len(lens) -> Nat] : CutAt(ends)
  BY DEF Cut
<1>. DEFINE L == Len(lens)
            M == L - 1
<1>2. /\ FoundInv /\ InOrder /\ L \in Nat /\ L >= 1 /\ M \in Nat /\ L = M + 1
      /\ pc = "rlr" /\ pc' = "check" /\ lens' = Tail(lens) /\ lens \in Seq(Nat)
      /\ len' = lens[1] /\ Plausible(lens[1]) /\ UNCHANGED <<words, incoming>>
  BY SizeAssumption DEF Sound, FoundInv, Frames, ReadInv, TypeInv, ReadRLR, Step, InStep, Plausible
<1>3. Line' = Line /\ words = <<>> /\ Len(words) = 0 /\ Len(words') = 0
  <2>1. ~StoreBeat /\ ~ReadRDFD /\ ~Publish /\ ~WriteSRR /\ ~WriteRDFR
    BY <1>2 DEF StoreBeat, ReadRDFD, Publish, WriteSRR, WriteRDFR, Step, poller
  <2>2. words = <<>>
    BY <1>2 DEF InOrder
  <2>. QED BY <1>2, <2>1, <2>2, LineSame
<1>4. /\ Claimed = 0 /\ Claimed' = WordsToRead(lens[1]) /\ WordsIn' = WordsIn
      /\ Len(lens') = M /\ \A j \in 1 .. M : lens'[j] = lens[j + 1]
  BY <1>2 DEF Claimed, WordsIn
<1>5. \A j \in 0 .. L : ends[j] \in Nat
  BY <1>1, CutType
<1>6. /\ \A j \in 1 .. L : ends[j] = ends[j - 1] + WordsToRead(lens[j]) /\ Whole(ends[j], lens[j])
      /\ ends[L] + WordsIn = Len(Line)
      /\ \A j, k \in 0 .. L : j <= k => ends[j] <= ends[k]
      /\ \A a \in ends[L] + 1 .. Len(Line) : Line[a][1] = incoming.id
  BY <1>1 DEF CutAt
<1>7. ends[0] = 0
  BY <1>1, <1>3, <1>4 DEF CutAt
<1>8. ASSUME NEW e \in Nat, NEW n, Whole(e, n) PROVE Whole(e, n)'
  <2>1. Len(Line') >= Len(Line) /\ \A a \in 1 .. Len(Line) : Line'[a] = Line[a]
    BY <1>2, <1>3, LineType
  <2>. QED BY <1>8, <2>1, WholeStays
<1>. HIDE DEF L, M
<1>9. \A j \in 0 .. M : j + 1 \in 1 .. L /\ j + 1 \in 0 .. L
  BY <1>2
<1>10. PICK next \in [0 .. M -> Nat] : \A j \in 0 .. M : next[j] = ends[j + 1]
  <2>. DEFINE shorter == [j \in 0 .. M |-> ends[j + 1]]
  <2>1. shorter \in [0 .. M -> Nat] /\ \A j \in 0 .. M : shorter[j] = ends[j + 1]
    BY <1>5, <1>9
  <2>. HIDE DEF shorter
  <2>. QED BY <2>1
<1>11. next[0] = WordsToRead(len') /\ Whole(next[0], len)'
  <2>1. PICK x : x = lens[1]
    OBVIOUS
  <2>2. next[0] = ends[1] /\ ends[1] \in Nat /\ len' = x /\ 1 \in 1 .. L /\ 1 - 1 = 0
    BY <1>2, <1>5, <1>10, <2>1
  <2>3. ends[1] = ends[0] + WordsToRead(x) /\ Whole(ends[1], x)
    BY <1>6, <2>1, <2>2, Zenon
  <2>4. WordsToRead(x) \in Nat /\ Whole(ends[1], x)'
    <3>1. x \in Nat
      BY <2>3 DEF Whole
    <3>. QED BY <1>8, <2>2, <2>3, <3>1, WordsToReadType
  <2>5. ends[1] = WordsToRead(x)
    BY <1>7, <2>3, <2>4
  <2>. QED BY <2>2, <2>4, <2>5
<1>12. ASSUME NEW j \in 1 .. M
       PROVE  next[j] = next[j - 1] + WordsToRead(lens'[j]) /\ Whole(next[j], lens[j])'
  <2>1. /\ j + 1 \in 1 .. L /\ (j + 1) - 1 = j /\ (j - 1) + 1 = j
        /\ j \in 0 .. M /\ j - 1 \in 0 .. M /\ j + 1 \in 0 .. L
    BY <1>2
  <2>2. PICK x : x = lens[j + 1]
    OBVIOUS
  <2>3. next[j] = ends[j + 1] /\ next[j - 1] = ends[j] /\ lens'[j] = x /\ ends[j + 1] \in Nat
    BY <1>4, <1>5, <1>10, <2>1, <2>2
  <2>4. ends[j + 1] = ends[j] + WordsToRead(x) /\ Whole(ends[j + 1], x)
    BY <1>6, <2>1, <2>2
  <2>5. Whole(ends[j + 1], x)'
    BY <1>8, <2>3, <2>4
  <2>. QED BY <2>3, <2>4, <2>5
<1>13. ASSUME NEW j \in 0 .. M, NEW k \in 0 .. M, j <= k PROVE next[j] <= next[k]
  <2>1. j + 1 \in 0 .. L /\ k + 1 \in 0 .. L /\ j + 1 <= k + 1
    BY <1>9, <1>13
  <2>2. ends[j + 1] <= ends[k + 1]
    BY <1>6, <2>1
  <2>. QED BY <1>10, <2>2
<1>14. next[M] = ends[L]
  BY <1>2, <1>10
<1>15. CutAt(next)'
  <2>1. next[0] = Len(words') + Claimed'
    <3>1. next[0] = WordsToRead(lens[1])
      BY <1>2, <1>11
    <3>2. \A n \in Nat : 0 + n = n
      OBVIOUS
    <3>. QED BY <1>3, <1>4, <1>10, <3>1, <3>2
  <2>2. next[M] + WordsIn' = Len(Line') /\ \A a \in next[M] + 1 .. Len(Line') : Line'[a][1] = incoming'.id
    BY <1>2, <1>3, <1>4, <1>6, <1>14
  <2>. QED BY <1>4, <1>11, <1>12, <1>13, <2>1, <2>2 DEF CutAt
<1>. QED BY <1>4, <1>10, <1>15 DEF Cut

\* The frame that has been read leaves the line.
LEMMA CutPublish ==
    ASSUME Sound, [Next]_vars, Cut, Publish
    PROVE  Cut'
<1>1. PICK ends \in [0 .. Len(lens) -> Nat] : CutAt(ends)
  BY DEF Cut
<1>. DEFINE L == Len(lens)
            d == Len(words)
            N == Len(Line)
<1>2. /\ FoundInv /\ UNCHANGED <<lens, incoming>> /\ L \in Nat /\ d \in Nat /\ N \in Nat
      /\ pc = "read" /\ pc' = "test" /\ want = 0
  BY <1>1, CutType DEF Publish, Step, fifo, Sound
<1>3. Claimed = 0 /\ Claimed' = 0 /\ WordsIn' = WordsIn /\ WordsIn \in Nat
  <2>1. WordsIn \in Nat
    BY <1>1, CutType
  <2>. QED BY <1>2, <2>1 DEF Claimed, WordsIn
<1>4. /\ N = d + Len(Line') /\ Len(words') = 0 /\ Len(Line') \in Nat
      /\ \A a \in 1 .. Len(Line') : Line'[a] = Line[d + a]
  BY <1>2, LinePublish
<1>5. \A j \in 0 .. L : ends[j] \in Nat /\ ends[j] <= N
  BY <1>1, CutType
<1>6. /\ \A j \in 1 .. L : ends[j] = ends[j - 1] + WordsToRead(lens[j]) /\ Whole(ends[j], lens[j])
      /\ ends[L] + WordsIn = N
      /\ \A j, k \in 0 .. L : j <= k => ends[j] <= ends[k]
      /\ \A a \in ends[L] + 1 .. N : Line[a][1] = incoming.id
  BY <1>1 DEF CutAt
<1>7. ends[0] = d
  BY <1>1, <1>2, <1>3 DEF CutAt
<1>. HIDE DEF L, d, N
<1>8. ASSUME NEW j \in 0 .. L PROVE ends[j] - d \in Nat /\ ends[j] - d <= Len(Line')
  <2>1. d <= ends[j] /\ ends[j] \in Nat /\ ends[j] <= N
    BY <1>2, <1>5, <1>6, <1>7
  <2>. QED BY <1>2, <1>4, <2>1
<1>9. PICK next \in [0 .. L -> Nat] : \A j \in 0 .. L : next[j] = ends[j] - d
  <2>. DEFINE shifted == [j \in 0 .. L |-> ends[j] - d]
  <2>1. shifted \in [0 .. L -> Nat] /\ \A j \in 0 .. L : shifted[j] = ends[j] - d
    BY <1>8
  <2>. HIDE DEF shifted
  <2>. QED BY <2>1
<1>10. ASSUME NEW j \in 1 .. L
       PROVE  next[j] = next[j - 1] + WordsToRead(lens'[j]) /\ Whole(next[j], lens[j])'
  <2>1. PICK n : n = lens[j]
    OBVIOUS
  <2>2. PICK e, f, g : e = next[j] /\ f = next[j - 1] /\ g = d
    OBVIOUS
  <2>3. j \in 0 .. L /\ j - 1 \in 0 .. L
    BY <1>2
  <2>4. /\ e \in Nat /\ f \in Nat /\ g \in Nat /\ e <= Len(Line')
        /\ ends[j] = e + g /\ ends[j - 1] = f + g
    <3>1. ends[j] \in Nat /\ ends[j - 1] \in Nat
      BY <1>5, <2>3
    <3>2. PICK x, y : x = ends[j] /\ y = ends[j - 1]
      OBVIOUS
    <3>3. e = x - g /\ f = y - g /\ g \in Nat /\ x \in Nat /\ y \in Nat
      BY <1>2, <1>9, <2>2, <2>3, <3>1, <3>2
    <3>4. e \in Nat /\ f \in Nat /\ e <= Len(Line')
      BY <1>8, <1>9, <2>2, <2>3
    <3>5. x = e + g /\ y = f + g
      BY <3>3, <3>4
    <3>. QED BY <3>2, <3>3, <3>4, <3>5, Zenon
  <2>5. e + g = (f + g) + WordsToRead(n) /\ Whole(e + g, n)
    BY <1>6, <2>1, <2>4
  <2>6. WordsToRead(n) \in Nat
    <3>1. n \in Nat
      BY <2>5 DEF Whole
    <3>. QED BY <3>1, WordsToReadType
  <2>7. e = f + WordsToRead(n) /\ WordsToRead(n) <= e
    BY <2>4, <2>5, <2>6, SMTT(30)
  <2>8. \A a \in 1 .. e : Line'[a] = Line[a + g]
    <3>1. \A a \in 1 .. e : a \in 1 .. Len(Line') /\ g + a = a + g
      BY <1>4, <2>4
    <3>. QED BY <1>4, <2>2, <3>1
  <2>9. Whole(e, n)'
    BY <2>4, <2>5, <2>7, <2>8, WholeKept
  <2>10. lens'[j] = n
    BY <1>2, <2>1
  <2>. QED BY <2>2, <2>7, <2>9, <2>10
<1>11. ASSUME NEW j \in 0 .. L, NEW k \in 0 .. L, j <= k PROVE next[j] <= next[k]
  <2>1. ends[j] <= ends[k] /\ ends[j] \in Nat /\ ends[k] \in Nat
    BY <1>5, <1>6, <1>11
  <2>2. next[j] = ends[j] - d /\ next[k] = ends[k] - d
    BY <1>9
  <2>. QED BY <1>2, <2>1, <2>2
<1>12. next[L] + WordsIn' = Len(Line') /\ next[0] = 0 /\ ends[L] \in Nat /\ next[L] = ends[L] - d
  <2>1. next[L] = ends[L] - d /\ ends[L] \in Nat /\ ends[L] + WordsIn = N /\ next[0] = ends[0] - d
    BY <1>2, <1>5, <1>6, <1>9
  <2>. QED BY <1>2, <1>3, <1>4, <1>7, <2>1, SMTT(30)
<1>13. ASSUME NEW a \in next[L] + 1 .. Len(Line') PROVE Line'[a][1] = incoming'.id
  <2>1. next[L] \in Nat
    BY <1>2, <1>9
  <2>2. a \in 1 .. Len(Line') /\ d + a \in ends[L] + 1 .. N
    BY <1>2, <1>4, <1>12, <2>1
  <2>3. Line[d + a][1] = incoming.id
    BY <1>6, <2>2, Zenon
  <2>. QED BY <1>2, <1>4, <2>2, <2>3
<1>14. CutAt(next)'
  <2>1. Len(lens') = L /\ next[0] = Len(words') + Claimed' /\ pc' \notin {"check", "read"}
    BY <1>2, <1>3, <1>4, <1>12 DEF L
  <2>. QED BY <1>10, <1>11, <1>12, <1>13, <2>1 DEF CutAt
<1>. QED BY <1>2, <1>9, <1>14 DEF Cut, L

LEMMA NoPieces == \E ends \in [0 .. 0 -> Nat] : ends[0] = 0
<1>. DEFINE none == [j \in 0 .. 0 |-> 0]
<1>1. none \in [0 .. 0 -> Nat] /\ none[0] = 0
  OBVIOUS
<1>. HIDE DEF none
<1>. QED BY <1>1

LEMMA CutReset ==
    ASSUME Sound, [Next]_vars, WriteRDFR
    PROVE  Cut'
<1>1. lens' = <<>> /\ Len(lens') = 0 /\ pc' = "isr" /\ Claimed' = 0
  BY DEF WriteRDFR, ResetRx, Step, Claimed
<1>2. Len(Line') = 0 /\ Len(words') = 0
  BY LineReset DEF Sound
<1>3. WordsIn' = 0
  <2>1. CASE incoming' = NoFrame
    BY <2>1 DEF WordsIn
  <2>2. CASE incoming # NoFrame /\ incoming' = [incoming EXCEPT !.from = incoming.beat]
    <3>1. incoming'.from = incoming'.beat /\ incoming'.beat \in Nat
      BY <2>2 DEF Sound, FoundInv, Frames, ReadInv, TypeInv, Frame
    <3>. QED BY <3>1 DEF WordsIn
  <2>. QED BY <2>1, <2>2 DEF WriteRDFR, ResetRx
<1>4. PICK ends \in [0 .. 0 -> Nat] : ends[0] = 0
  BY NoPieces
<1>5. CutAt(ends)'
  BY <1>1, <1>2, <1>3, <1>4 DEF CutAt
<1>. QED BY <1>1, <1>4, <1>5 DEF Cut

LEMMA CutStep ==
    ASSUME Sound, [Next]_vars, InStep => Cut, InStep'
    PROVE  Cut'
<1>. DEFINE Steady == /\ Cut /\ UNCHANGED <<lens, incoming>> /\ Line' = Line
                      /\ Len(words') + Claimed' = Len(words) + Claimed
                      /\ pc' \in {"check", "read"} => pc \in {"check", "read"} /\ len' = len
<1>1. /\ FoundInv /\ InOrder /\ TypeInv /\ words \in Seq(Nat \X Nat) /\ Len(words) \in Nat
      /\ Len(Line) \in Nat
  BY LineType DEF Sound, FoundInv, Frames, ReadInv
<1>2. CASE Steady
  <2>1. WordsIn' = WordsIn /\ WordsIn \in Nat
    BY <1>1, <1>2, Counts DEF WordsIn
  <2>2. /\ Len(Line') >= Len(Line) /\ Len(Line) + WordsIn' = Len(Line') + WordsIn
        /\ \A a \in 1 .. Len(Line) : Line'[a] = Line[a]
        /\ \A a \in Len(Line) + 1 .. Len(Line') : Line'[a][1] = incoming'.id
    BY <1>1, <1>2, <2>1
  <2>. QED BY <1>2, <2>1, <2>2, CutKept
<1>3. CASE NextFrame
  <2>1. /\ UNCHANGED <<rx, lens, pc, len, want, words>> /\ incoming = NoFrame
        /\ incoming' # NoFrame /\ incoming'.from = 1 /\ incoming'.beat = 1
    BY <1>3 DEF NextFrame, poller, NoFrame
  <2>2. Cut /\ Line' = Line /\ Claimed' = Claimed /\ WordsIn = 0 /\ WordsIn' = 0
    BY <2>1 DEF InStep, Line, Claimed, WordsIn
  <2>3. /\ Len(Line') >= Len(Line) /\ Len(Line) + WordsIn' = Len(Line') + WordsIn
        /\ \A a \in 1 .. Len(Line) : Line'[a] = Line[a]
        /\ \A a \in Len(Line) + 1 .. Len(Line') : Line'[a][1] = incoming'.id
    BY <1>1, <2>2
  <2>. QED BY <2>1, <2>2, <2>3, CutKept
<1>4. CASE StoreBeat /\ incoming.beat = Beats(incoming.len)
  <2>1. Cut
    BY <1>4 DEF StoreBeat, InStep, poller
  <2>. QED BY <1>4, <2>1, CutLastBeat
<1>5. CASE StoreBeat /\ incoming.beat # Beats(incoming.len)
  <2>1. /\ incoming # NoFrame /\ incoming \in Frame /\ incoming' = [incoming EXCEPT !.beat = @ + 1]
        /\ UNCHANGED <<lens, pc, len, want, words>>
    BY <1>1, <1>5 DEF StoreBeat, TypeInv, poller
  <2>2. /\ incoming'.beat = incoming.beat + 1 /\ incoming'.from = incoming.from
        /\ incoming'.id = incoming.id /\ incoming.beat \in Nat /\ incoming.from \in Nat
        /\ incoming.from >= 1
    BY <1>1, <2>1 DEF TypeInv, Frame
  <2>3. WordsIn' = WordsIn + 2 /\ WordsIn \in Nat /\ Claimed' = Claimed /\ Cut
    <3>1. incoming' # NoFrame
      BY <2>2 DEF NoFrame
    <3>2. WordsIn' = 2 * ((incoming.beat + 1) - incoming.from) /\ WordsIn = 2 * (incoming.beat - incoming.from)
      BY <2>1, <2>2, <3>1 DEF WordsIn
    <3>3. Claimed' = Claimed /\ Cut /\ WordsIn \in Nat
      BY <1>1, <2>1, Counts DEF Claimed, InStep
    <3>. QED BY <2>2, <3>2, <3>3
  <2>4. /\ Len(Line') = Len(Line) + 2 /\ \A a \in 1 .. Len(Line) : Line'[a] = Line[a]
        /\ Line'[Len(Line) + 1][1] = incoming.id /\ Line'[Len(Line) + 2][1] = incoming.id
    BY <1>1, <1>5, LineStoreBeat
  <2>5. /\ Len(Line') >= Len(Line) /\ Len(Line) + WordsIn' = Len(Line') + WordsIn
        /\ \A a \in Len(Line) + 1 .. Len(Line') : a = Len(Line) + 1 \/ a = Len(Line) + 2
    BY <1>1, <2>3, <2>4
  <2>6. \A a \in Len(Line) + 1 .. Len(Line') : Line'[a][1] = incoming'.id
    BY <2>2, <2>4, <2>5
  <2>. QED BY <2>1, <2>2, <2>3, <2>4, <2>5, <2>6, CutKept
<1>6. CASE WriteSRR \/ LoseSync
  BY <1>6 DEF WriteSRR, LoseSync, Step, InStep, Resync
<1>7. CASE WriteRDFR
  BY <1>7, CutReset
<1>8. CASE ReadRLR
  <2>1. Cut
    BY <1>8 DEF ReadRLR, Step, InStep
  <2>. QED BY <1>8, <2>1, CutLengthRead
<1>9. CASE ReadRDFD
  <2>1. /\ UNCHANGED <<lens, incoming, len>> /\ pc = "read" /\ pc' = "read"
        /\ want \in Nat /\ want > 0 /\ want' = want - 1
    BY <1>1, <1>9 DEF ReadRDFD, Step, TypeInv
  <2>2. Cut /\ Claimed = want /\ Claimed' = want - 1
    BY <2>1 DEF InStep, Claimed
  <2>3. Line' = Line /\ Len(words') = Len(words) + 1
    BY <1>1, <1>9, LineReadRDFD
  <2>4. Len(words') + Claimed' = Len(words) + Claimed
    BY <1>1, <2>1, <2>2, <2>3
  <2>. QED BY <1>2, <2>1, <2>2, <2>3, <2>4
<1>10. CASE Publish
  <2>1. Cut
    BY <1>10 DEF Publish, Step, InStep
  <2>. QED BY <1>10, <2>1, CutPublish
<1>11. CASE ClearISR \/ TestStop \/ ReadRDFO \/ ReadRLRZero
  <2>1. /\ UNCHANGED <<rx, words, lens, incoming>> /\ pc # "rdfr"
        /\ pc \notin {"read", "check"} /\ pc' \notin {"read", "check"}
    BY <1>11 DEF ClearISR, TestStop, ReadRDFO, ReadRLRZero, Step, fifo, WhenEmpty
  <2>2. Cut /\ Claimed' = 0 /\ Claimed = 0 /\ Line' = Line
    BY <2>1 DEF InStep, Claimed, Line
  <2>. QED BY <1>2, <2>1, <2>2
<1>12. CASE StartFrame
  <2>1. /\ UNCHANGED <<rx, lens, incoming, len>> /\ Plausible(len) /\ words' = <<>> /\ words = <<>>
        /\ pc = "check" /\ pc' = "read" /\ want' = WordsToRead(len)
    BY <1>1, <1>12 DEF StartFrame, Step, fifo, InOrder
  <2>2. Cut /\ Claimed' = Claimed /\ Line' = Line
    BY <2>1 DEF InStep, Claimed, Line
  <2>. QED BY <1>2, <2>1, <2>2
<1>13. CASE Signal \/ UNCHANGED vars
  <2>1. UNCHANGED <<rx, lens, incoming, pc, want, len, words>>
    BY <1>13 DEF Signal, vars, fifo, poller
  <2>2. Cut /\ Claimed' = Claimed /\ Line' = Line
    BY <2>1 DEF InStep, Claimed, Line
  <2>. QED BY <1>2, <2>1, <2>2
<1>. QED BY <1>3, <1>4, <1>5, <1>6, <1>7, <1>8, <1>9, <1>10, <1>11, <1>12, <1>13 DEF Next, Poll

---------------------------------------------------------------------------
\* What is handed on.

Exact(p) ==
    LET id  == p.words[1][1]
        cut == 2 * Beats(lengthOf[id]) - Len(p.words)
    IN  /\ \A k \in 1 .. Len(p.words) : p.words[k] = <<id, cut + k>>
        /\ 2 * p.len = 2 * lengthOf[id] - BEAT * cut
        /\ cut > 0 => id \in lost

\* A piece that ends the words read is a frame, and nothing of it follows.
LEMMA PieceIsFrame ==
    ASSUME Sound, Cut, Publish
    PROVE  /\ Exact([len |-> len, words |-> words]) /\ words[1] = Line[1]
           /\ 1 \in 1 .. Len(words) /\ words[1][1] \in 1 .. Len(lengthOf)
           /\ incoming # NoFrame => words[1][1] < incoming.id
           /\ \A a \in 1 .. Len(Line) : a > Len(words) => words[1][1] < Line[a][1]
<1>1. PICK ends \in [0 .. Len(lens) -> Nat] : CutAt(ends)
  BY DEF Cut
<1>. DEFINE e == Len(words)
            N == Len(Line)
            id == Line[e][1]
<1>2. /\ FoundInv /\ InOrder /\ Arriving /\ pc = "read" /\ want = 0 /\ TypeInv
      /\ words \in Seq(Nat \X Nat)
  BY DEF Publish, Step, Sound, FoundInv, Frames, ReadInv
<1>3. /\ e \in Nat /\ N \in Nat /\ e <= N /\ N = e + Len(rx) /\ Len(rx) \in Nat
      /\ \A a \in 1 .. e : Line[a] = words[a]
      /\ \A a \in 1 .. N : Line[a] \in Nat \X Nat
  <2>1. Line \in Seq(Nat \X Nat)
    BY <1>2, LineType
  <2>2. \A a \in 1 .. N : Line[a] \in Nat \X Nat
    BY <2>1
  <2>. QED BY <1>2, <2>2, LineType
<1>4. e = WordsToRead(len) /\ Whole(e, len)
  <2>1. ends[0] = e /\ ends[0] = WordsToRead(len) /\ Whole(ends[0], len)
    BY <1>1, <1>2, <1>3 DEF CutAt, Claimed
  <2>. QED BY <2>1
<1>5. /\ e \in 1 .. N /\ \A a \in 1 .. e : Line[a][1] = id
      /\ Line[e][2] = 2 * Beats(lengthOf[id])
  <2>1. /\ e \in 1 .. N /\ Line[e][2] = 2 * Beats(lengthOf[id])
        /\ \A a \in e - WordsToRead(len) + 1 .. e : Line[a][1] = id
    BY <1>4, Zenon DEF Whole
  <2>2. (e - WordsToRead(len)) + 1 = 1
    BY <1>3, <1>4
  <2>. QED BY <2>1, <2>2
<1>6. PICK m \in Nat : /\ len = lengthOf[id] - BEAT * m
                       /\ e = Line[e][2] - 2 * m
                       /\ m > 0 => id \in lost
  BY <1>4 DEF Whole
<1>7. id \in 1 .. Len(lengthOf) /\ id \in Nat /\ Line[e][2] \in Nat
  BY <1>2, <1>3, <1>5 DEF InOrder, Known
<1>8. lengthOf[id] \in Nat /\ Beats(lengthOf[id]) \in Nat /\ BEAT \in Nat
  <2>1. lengthOf[id] \in Lengths
    BY <1>2, <1>7 DEF TypeInv
  <2>2. lengthOf[id] \in Nat
    BY <2>1, FitAssumption, SizeAssumption
  <2>. QED BY <2>2, BeatsBounds, SizeAssumption
<1>9. \A a, b \in 1 .. N : a < b => Follows(Line[a], Line[b], b - a)
  BY <1>2 DEF InOrder
<1>. HIDE DEF e, N, id
<1>10. ASSUME NEW k \in 1 .. e PROVE words[k] = <<id, (2 * Beats(lengthOf[id]) - e) + k>>
  <2>1. k \in 1 .. N /\ Line[k] = words[k] /\ Line[k] \in Nat \X Nat /\ Line[k][1] = id
    BY <1>3, <1>5
  <2>2. Line[e][2] = Line[k][2] + (e - k)
    <3>1. CASE k = e
      BY <1>3, <1>7, <3>1
    <3>2. CASE k < e
      <4>1. Follows(Line[k], Line[e], e - k) /\ Line[e][1] = id
        BY <1>5, <1>9, <2>1, <3>2 DEF id
      <4>. QED BY <1>7, <2>1, <4>1 DEF Follows
    <3>. QED BY <1>3, <3>1, <3>2
  <2>3. Line[k][2] = (2 * Beats(lengthOf[id]) - e) + k
    <3>1. Line[k][2] \in Nat
      BY <2>1
    <3>2. e \in Nat /\ k \in Nat /\ Line[e][2] = 2 * Beats(lengthOf[id])
      BY <1>3, <1>5
    <3>. QED BY <1>8, <2>2, <3>1, <3>2
  <2>4. Line[k] = <<Line[k][1], Line[k][2]>>
    BY <2>1
  <2>. QED BY <2>1, <2>3, <2>4, Zenon
<1>11. 1 \in 1 .. e /\ words[1] = Line[1] /\ words[1][1] = id
  BY <1>3, <1>5
<1>12. Exact([len |-> len, words |-> words])
  <2>1. 2 * Beats(lengthOf[id]) - e = 2 * m
    BY <1>3, <1>5, <1>6, <1>8
  <2>2. 2 * len = 2 * lengthOf[id] - BEAT * (2 * m)
    <3>1. BEAT * (2 * m) = 2 * (BEAT * m) /\ BEAT * m \in Nat
      BY <1>8
    <3>. QED BY <1>6, <1>8, <3>1
  <2>3. 2 * m > 0 => id \in lost
    BY <1>6
  <2>. QED BY <1>10, <1>11, <2>1, <2>2, <2>3, Zenon DEF Exact, e
<1>13. ASSUME NEW a \in 1 .. N, a > e PROVE id < Line[a][1]
  <2>1. /\ e \in 1 .. N /\ e < a /\ Line[e][1] = id /\ Line[a] \in Nat \X Nat
        /\ Known(Line[a])
    BY <1>2, <1>3, <1>5, <1>13 DEF id, InOrder, N
  <2>2. Follows(Line[e], Line[a], a - e)
    BY <1>9, <2>1
  <2>3. ~(Line[a][1] = id /\ Line[a][2] = Line[e][2] + (a - e))
    <3>1. Line[a][1] = id => Line[a][2] <= 2 * Beats(lengthOf[id])
      BY <2>1 DEF Known
    <3>2. Line[e][2] + (a - e) > 2 * Beats(lengthOf[id])
      BY <1>3, <1>5, <1>7, <1>8, <2>1
    <3>3. Line[a][2] \in Nat
      BY <2>1
    <3>. QED BY <1>3, <1>7, <1>8, <3>1, <3>2, <3>3, SMTT(30)
  <2>. QED BY <2>1, <2>2, <2>3 DEF Follows
<1>14. ASSUME incoming # NoFrame PROVE id < incoming.id
  <2>1. /\ incoming.beat \in Nat /\ incoming.beat <= Beats(incoming.len) /\ incoming.id \in Nat
        /\ incoming.len = lengthOf[incoming.id]
    BY <1>14, IncomingFacts
  <2>2. Follows(Line[e], <<incoming.id, 2 * incoming.beat - 1>>, N + 1 - e)
    BY <1>2, <1>5, <1>14, Zenon DEF Arriving, N
  <2>3. id < incoming.id \/ (id = incoming.id /\ 2 * incoming.beat - 1 = Line[e][2] + (N + 1 - e))
    BY <2>2 DEF Follows, id
  <2>4. ASSUME id = incoming.id PROVE 2 * incoming.beat - 1 < Line[e][2] + (N + 1 - e)
    <3>1. incoming.beat <= Beats(lengthOf[id])
      BY <2>1, <2>4
    <3>. QED BY <1>3, <1>5, <1>8, <2>1, <3>1
  <2>5. N + 1 - e \in Int /\ Line[e][2] \in Int
    BY <1>3, <1>7
  <2>. QED BY <2>1, <2>3, <2>4, <2>5
<1>. QED BY <1>7, <1>11, <1>12, <1>13, <1>14 DEF e, N

\* What has been handed on stays as it is, and the line only grows behind it.
LEMMA PublishedKept ==
    ASSUME Intact, [Next]_vars, ~Publish
    PROVE  Earlier' /\ FramesIntact'
<1>1. Sound /\ Earlier /\ FramesIntact /\ FoundInv /\ InOrder
  BY DEF Intact, Sound
<1>2. published' = published
  BY DEF Next, Poll, NextFrame, StoreBeat, WriteSRR, WriteRDFR, ClearISR, TestStop, ReadRDFO,
         ReadRLRZero, ReadRLR, LoseSync, StartFrame, ReadRDFD, Signal, vars, poller
<1>3. /\ lost \subseteq lost' /\ Len(lengthOf') >= Len(lengthOf) /\ Len(lengthOf) \in Nat
      /\ Len(lengthOf') \in Nat
      /\ \A id \in 1 .. Len(lengthOf) : lengthOf'[id] = lengthOf[id]
  BY <1>1, HistoryStep, FoundInvStep DEF FoundInv, Frames, ReadInv, TypeInv
<1>4. FramesIntact'
  <2>1. ASSUME NEW i \in 1 .. Len(published)
        PROVE  LET p  == published[i]
                   id == p.words[1][1]
                   cut == 2 * Beats(lengthOf'[id]) - Len(p.words)
               IN  /\ \A k \in 1 .. Len(p.words) : p.words[k] = <<id, cut + k>>
                   /\ 2 * p.len = 2 * lengthOf'[id] - BEAT * cut
                   /\ cut > 0 => id \in lost'
                   /\ \A j \in 1 .. i - 1 : published[j].words[1][1] < id
    <3>1. lengthOf'[published[i].words[1][1]] = lengthOf[published[i].words[1][1]]
      BY <1>1, <1>3 DEF Earlier
    <3>. QED BY <1>1, <1>3, <3>1 DEF FramesIntact
  <2>. QED BY <1>2, <2>1, Zenon DEF FramesIntact, Beats
<1>5. ASSUME NEW i \in 1 .. Len(published)
      PROVE  LET id == published[i].words[1][1]
             IN  /\ id \in 1 .. Len(lengthOf') /\ (incoming' # NoFrame => id < incoming'.id)
                 /\ \A a \in 1 .. Len(Line') : id < Line'[a][1]
  <2>. DEFINE id == published[i].words[1][1]
  <2>1. /\ id \in 1 .. Len(lengthOf) /\ (incoming # NoFrame => id < incoming.id)
        /\ \A a \in 1 .. Len(Line) : id < Line[a][1]
    BY <1>1 DEF Earlier
  <2>. HIDE DEF id
  <2>2. id \in 1 .. Len(lengthOf')
    BY <1>3, <2>1
  <2>3. CASE NextFrame
    <3>1. Line' = Line /\ incoming'.id = Len(lengthOf) + 1
      BY <2>3 DEF NextFrame, poller, Line
    <3>2. id < incoming'.id
      BY <1>3, <2>1, <3>1
    <3>. QED BY <2>1, <2>2, <3>1, <3>2 DEF id
  <2>4. CASE StoreBeat
    <3>1. /\ Len(Line') = Len(Line) + 2 /\ \A a \in 1 .. Len(Line) : Line'[a] = Line[a]
          /\ Line'[Len(Line) + 1][1] = incoming.id /\ Line'[Len(Line) + 2][1] = incoming.id
          /\ Len(Line) \in Nat
      BY <1>1, <2>4, LineStoreBeat
    <3>2. incoming # NoFrame /\ (incoming' = NoFrame \/ incoming'.id = incoming.id)
      <4>1. incoming # NoFrame /\ incoming \in Frame
        BY <1>1, <2>4 DEF StoreBeat, FoundInv, Frames, ReadInv, TypeInv
      <4>2. incoming' = NoFrame \/ incoming' = [incoming EXCEPT !.beat = @ + 1]
        BY <2>4 DEF StoreBeat
      <4>. QED BY <4>1, <4>2 DEF Frame
    <3>3. ASSUME NEW a \in 1 .. Len(Line') PROVE id < Line'[a][1]
      <4>1. CASE a \in 1 .. Len(Line)
        BY <2>1, <3>1, <4>1
      <4>2. CASE a = Len(Line) + 1 \/ a = Len(Line) + 2
        BY <2>1, <3>1, <3>2, <4>2
      <4>. QED BY <3>1, <4>1, <4>2
    <3>. QED BY <2>1, <2>2, <3>2, <3>3 DEF id
  <2>5. CASE WriteSRR \/ WriteRDFR
    <3>1. Len(Line') = 0
      BY <1>1, <2>5, LineReset
    <3>2. incoming' = NoFrame \/ (incoming # NoFrame /\ incoming'.id = incoming.id)
      <4>1. CASE incoming # NoFrame /\ incoming' = [incoming EXCEPT !.from = incoming.beat]
        <5>1. incoming \in Frame
          BY <1>1, <4>1 DEF FoundInv, Frames, ReadInv, TypeInv
        <5>. QED BY <4>1, <5>1 DEF Frame
      <4>. QED BY <2>5, <4>1 DEF WriteSRR, WriteRDFR, ResetRx
    <3>. QED BY <2>1, <2>2, <3>1, <3>2 DEF id
  <2>6. CASE ~NextFrame /\ ~StoreBeat /\ ~WriteSRR /\ ~WriteRDFR
    <3>1. Line' = Line
      BY <1>1, <2>6, LineSame, LineReadRDFD
    <3>2. incoming' = incoming
      BY <2>6 DEF Next, Poll, ClearISR, TestStop, ReadRDFO, ReadRLRZero, ReadRLR, LoseSync,
                  StartFrame, ReadRDFD, Signal, vars, fifo
    <3>. QED BY <2>1, <2>2, <3>1, <3>2 DEF id
  <2>. QED BY <2>3, <2>4, <2>5, <2>6
<1>6. Earlier'
  BY <1>2, <1>5, Zenon DEF Earlier
<1>. QED BY <1>4, <1>6

LEMMA FrameHandedOn ==
    ASSUME Intact, [Next]_vars, Publish
    PROVE  Earlier' /\ FramesIntact'
<1>. DEFINE p == [len |-> len, words |-> words]
            M == Len(published)
            id == words[1][1]
<1>1. /\ Sound /\ Cut /\ Earlier /\ FramesIntact /\ FoundInv /\ published \in Seq(Publication)
      /\ p \in Publication /\ UNCHANGED <<incoming, lengthOf, lost>> /\ published' = Append(published, p)
  <2>1. Cut
    BY DEF Intact, Publish, Step, InStep
  <2>. QED BY <2>1 DEF Intact, Sound, FoundInv, Frames, ReadInv, TypeInv, Publication, Publish, fifo, history
<1>2. /\ Exact(p) /\ words[1] = Line[1] /\ 1 \in 1 .. Len(words) /\ id \in 1 .. Len(lengthOf)
      /\ incoming # NoFrame => id < incoming.id
      /\ \A a \in 1 .. Len(Line) : a > Len(words) => id < Line[a][1]
  BY <1>1, PieceIsFrame
<1>3. p.words = words /\ p.words[1][1] = id
  OBVIOUS
<1>4. /\ Len(Line) = Len(words) + Len(Line') /\ Len(words) \in Nat /\ Len(Line') \in Nat
      /\ \A a \in 1 .. Len(Line') : Line'[a] = Line[Len(words) + a]
  BY <1>1, LinePublish
<1>5. \A i \in 1 .. M : /\ published[i].words[1][1] \in 1 .. Len(lengthOf)
                        /\ incoming # NoFrame => published[i].words[1][1] < incoming.id
                        /\ \A a \in 1 .. Len(Line) : published[i].words[1][1] < Line[a][1]
  BY <1>1 DEF Earlier
<1>6. /\ M \in Nat /\ Len(published') = M + 1 /\ published'[M + 1] = p
      /\ \A i \in 1 .. M : published'[i] = published[i]
  BY <1>1
<1>7. \A i \in 1 .. M : Exact(published[i]) /\ \A j \in 1 .. i - 1 : published[j].words[1][1] < published[i].words[1][1]
  BY <1>1 DEF FramesIntact, Exact
<1>. HIDE DEF p, M, id
<1>8. \A a \in 1 .. Len(Line') : Len(words) + a \in 1 .. Len(Line) /\ Len(words) + a > Len(words)
  BY <1>4
<1>9. 1 \in 1 .. Len(Line)
  BY <1>2, <1>4
<1>10. \A i \in 1 .. M : published[i].words[1][1] < id
  BY <1>2, <1>5, <1>9 DEF id
<1>11. Earlier'
  <2>1. ASSUME NEW i \in 1 .. M + 1
        PROVE  /\ published'[i].words[1][1] \in 1 .. Len(lengthOf)
               /\ incoming # NoFrame => published'[i].words[1][1] < incoming.id
               /\ \A a \in 1 .. Len(Line') : published'[i].words[1][1] < Line'[a][1]
    <3>1. CASE i \in 1 .. M
      BY <1>4, <1>5, <1>6, <1>8, <3>1
    <3>2. CASE i = M + 1
      BY <1>2, <1>3, <1>4, <1>6, <1>8, <3>2
    <3>. QED BY <1>6, <3>1, <3>2
  <2>. QED BY <1>1, <1>6, <2>1 DEF Earlier
<1>12. FramesIntact'
  <2>1. ASSUME NEW i \in 1 .. M + 1
        PROVE  /\ Exact(published'[i])
               /\ \A j \in 1 .. i - 1 : published'[j].words[1][1] < published'[i].words[1][1]
    <3>1. CASE i \in 1 .. M
      <4>1. published'[i] = published[i] /\ \A j \in 1 .. i - 1 : published'[j] = published[j]
        BY <1>6, <3>1
      <4>. QED BY <1>7, <3>1, <4>1
    <3>2. CASE i = M + 1
      <4>1. published'[i] = p /\ \A j \in 1 .. i - 1 : j \in 1 .. M /\ published'[j] = published[j]
        BY <1>6, <3>2
      <4>. QED BY <1>2, <1>3, <1>10, <4>1
    <3>. QED BY <1>6, <3>1, <3>2
  <2>. QED BY <1>1, <1>6, <2>1, Zenon DEF FramesIntact, Exact, Beats
<1>. QED BY <1>11, <1>12

\* For every size of beat, FIFO and frame, and whenever resets and implausible
\* lengths come: a frame fifo_poller hands on is one frame of the stream, its
\* words in order and none of a neighbour's; only its beginning can be missing,
\* and only if a reset came in the middle of it.
THEOREM FramesHandedOnIntact == Spec => []FramesIntact
<1>1. Init => Intact
  <2>. SUFFICES ASSUME Init PROVE Intact
    OBVIOUS
  <2>1. /\ Line = <<>> /\ Len(Line) = 0 /\ Len(published) = 0 /\ Len(words) = 0 /\ Len(lens) = 0
        /\ Claimed = 0 /\ WordsIn = 0 /\ pc = "srr" /\ words = <<>> /\ incoming = NoFrame
    BY DEF Init, Line, Claimed, WordsIn
  <2>2. PICK ends \in [0 .. 0 -> Nat] : ends[0] = 0
    BY NoPieces
  <2>3. CutAt(ends) /\ ends \in [0 .. Len(lens) -> Nat]
    BY <2>1, <2>2 DEF CutAt
  <2>4. Cut
    BY <2>3 DEF Cut
  <2>5. Sound
    BY <2>1, FoundInit DEF Sound, InOrder, Arriving
  <2>6. Earlier /\ FramesIntact
    BY <2>1 DEF Earlier, FramesIntact
  <2>. QED BY <2>4, <2>5, <2>6 DEF Intact
<1>2. Intact /\ [Next]_vars => Intact'
  <2>. SUFFICES ASSUME Intact, [Next]_vars PROVE Intact'
    OBVIOUS
  <2>1. Sound'
    BY SoundStep DEF Intact
  <2>2. (InStep => Cut)'
    BY CutStep DEF Intact
  <2>3. Earlier' /\ FramesIntact'
    BY PublishedKept, FrameHandedOn
  <2>. QED BY <2>1, <2>2, <2>3 DEF Intact
<1>3. Intact => FramesIntact
  BY DEF Intact
<1>. QED BY <1>1, <1>2, <1>3, PTL DEF Spec
============================================================================

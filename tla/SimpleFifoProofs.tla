-------------------------- MODULE SimpleFifoProofs --------------------------
(***************************************************************************)
(* What holds of simple_fifo.v for every depth, every data set and every   *)
(* bus master.                                                             *)
(***************************************************************************)
EXTENDS SimpleFifo, SequenceTheorems, TLAPS

\* Moving a pointer on stays within DEPTH_BITS + 1 bits.
LEMMA IncPointer == \A p \in Pointer : Inc(p) \in Pointer
  BY DepthAssumption DEF Pointer, Inc, Wrap

\* Both pointers are reset to a pointer value.
LEMMA ZeroPointer == 0 \in Pointer
  BY DepthAssumption DEF Pointer

\* The names of the registers the master uses are names of registers.
LEMMA RegsKnown == WriteRegs \subseteq REGS /\ ReadRegs \subseteq REGS /\ "DATA" \in REGS
  BY RegsAssumption DEF REGS

\* A pointer without its top bit indexes the storage.
LEMMA SlotIndex == \A p \in Pointer : Slot(p) \in 0 .. DEPTH - 1
  BY DepthAssumption DEF Pointer, Slot

\* The number of entries, computed modulo the pointer range, is a natural.
LEMMA CountNat ==
  ASSUME wp \in Pointer, rp \in Pointer
  PROVE  count \in 0 .. 2 * DEPTH - 1
  BY DepthAssumption DEF Pointer, count

\* Every register stays within its width (wp and rp within DEPTH_BITS + 1
\* bits, the storage within its index range) and every answer is a word.
THEOREM TypeCorrect == Spec => []TypeOK
<1>1. Init => TypeOK
  <2>1. Init => rdata \in Nat
    BY DEF Init
  <2> QED BY <2>1, ZeroPointer, RegsKnown, Zenon DEF Init, TypeOK
<1>2. TypeOK /\ [Next]_vars => TypeOK'
  <2> SUFFICES ASSUME TypeOK, [Next]_vars PROVE TypeOK'
    OBVIOUS
  <2> USE DEF TypeOK
  <2>1. CASE Clock
    <3>1. mem' \in [0 .. DEPTH - 1 -> Data]
      BY <2>1, SlotIndex DEF Clock, Pointers
    <3>2. wp' \in Pointer /\ rp' \in Pointer
      BY <2>1, ZeroPointer, IncPointer DEF Clock, Pointers
    <3>3. /\ awready' \in BOOLEAN /\ wready' \in BOOLEAN /\ bvalid' \in BOOLEAN
          /\ aw_taken' \in BOOLEAN /\ w_taken' \in BOOLEAN
          /\ aw_latched' \in REGS /\ w_data_latched' \in Data
      BY <2>1 DEF Clock, AwChannel, WChannel, BChannel
    <3>4. ReadWord \in Nat
      <4>1. empty \/ mem[Slot(rp)] \in Nat
        BY SlotIndex, DataAssumption
      <4>2. count \in Nat
        BY CountNat, DepthAssumption
      <4> QED BY <4>1, <4>2 DEF ReadWord
    <3>5. /\ arready' \in BOOLEAN /\ rvalid' \in BOOLEAN /\ rdata' \in Nat
          /\ ar_taken' \in BOOLEAN /\ ar_latched' \in REGS
      BY <2>1, <3>4 DEF Clock, ArChannel, RChannel
    <3>6. /\ awvalid' \in BOOLEAN /\ awaddr' \in REGS
          /\ wvalid' \in BOOLEAN /\ wdata' \in Data /\ bready' \in BOOLEAN
          /\ arvalid' \in BOOLEAN /\ araddr' \in REGS /\ rready' \in BOOLEAN
      BY <2>1, RegsKnown DEF Clock, Master
    <3> QED BY <3>1, <3>2, <3>3, <3>5, <3>6
  <2>2. CASE Reset
    <3>1. rdata' \in Nat
      BY <2>2 DEF Reset, ResetRegisters
    <3> QED BY <2>2, <3>1, ZeroPointer, RegsKnown, Zenon DEF Reset, ResetRegisters
  <2>3. CASE UNCHANGED vars
    BY <2>3 DEF vars, storage, writeSide, readSide, master
  <2> QED BY <2>1, <2>2, <2>3 DEF Next
<1> QED BY <1>1, <1>2, PTL DEF Spec

-----------------------------------------------------------------------------
\* No bus beat is accepted on top of one that still waits for its answer, so
\* none is swallowed when the answer clears the taken flag.
THEOREM BeatsKept == Spec => []NoBeatSwallowed
<1>1. Init => NoBeatSwallowed
  BY DEF Init, NoBeatSwallowed
<1>2. TypeOK /\ NoBeatSwallowed /\ [Next]_vars => NoBeatSwallowed'
  <2> SUFFICES ASSUME TypeOK, NoBeatSwallowed, [Next]_vars PROVE NoBeatSwallowed'
    OBVIOUS
  <2> USE DEF NoBeatSwallowed
  <2>1. CASE Clock
    <3>1. ~(awready' /\ aw_taken')
      BY <2>1 DEF Clock, AwChannel
    <3>2. ~(wready' /\ w_taken')
      BY <2>1 DEF Clock, WChannel
    <3>3. ~(arready' /\ ar_taken')
      BY <2>1 DEF Clock, ArChannel
    <3> QED BY <3>1, <3>2, <3>3
  <2>2. CASE Reset
    BY <2>2 DEF Reset, ResetRegisters
  <2>3. CASE UNCHANGED vars
    BY <2>3 DEF vars, writeSide, readSide
  <2> QED BY <2>1, <2>2, <2>3 DEF Next
<1> QED BY <1>1, <1>2, TypeCorrect, PTL DEF Spec

\* An answer that the master has not taken stays on the read channel as it is,
\* whatever the slave accepts meanwhile: the next read waits in ar_taken.
THEOREM AnswersHeld == Spec => ReadAnswerStable
<1>1. [Next]_vars => [rvalid /\ ~rready => (rvalid' /\ rdata' = rdata) \/ Reset]_vars
  <2> SUFFICES ASSUME Next, rvalid, ~rready, ~Reset PROVE rvalid' /\ rdata' = rdata
    OBVIOUS
  <2>1. RChannel
    BY DEF Next, Clock
  <2>2. ~REmit
    BY DEF REmit
  <2> QED BY <2>1, <2>2 DEF RChannel
<1> QED BY <1>1, PTL DEF Spec, ReadAnswerStable

-----------------------------------------------------------------------------
\* A clearing write and a read are never in flight together: what the
\* master promises under ClearAlone.
ClearApart == ClearAlone => ~(ClearInFlight /\ ReadInFlight)

\* The strengthening that makes WithinDepth inductive: without ClearApart a
\* clear and a pop on one edge leave wp = 0 and rp moved on.
FifoInv == TypeOK /\ NoBeatSwallowed /\ ClearApart /\ WithinDepth

\* A push onto a FIFO that is not full, and a pop from one that is not
\* empty, move the count by one; both on one edge leave it.
LEMMA CountSteps ==
  ASSUME NEW w \in Pointer, NEW r \in Pointer
  PROVE  LET n(a, b) == IF a >= b THEN a - b ELSE a - b + 2 * DEPTH
         IN  /\ n(w, r) < 2 * DEPTH - 1 => n(Inc(w), r) = n(w, r) + 1
             /\ n(w, r) > 0 => n(w, Inc(r)) = n(w, r) - 1
             /\ n(Inc(w), Inc(r)) = n(w, r)
  BY DepthAssumption DEF Pointer, Inc, Wrap

\* full and empty say what the count says.
LEMMA FullEmpty ==
  ASSUME TypeOK, WithinDepth
  PROVE  (full <=> count = DEPTH) /\ (empty <=> count = 0)
  BY DepthAssumption DEF TypeOK, WithinDepth, Pointer, full, empty, count, Slot

\* What an edge does to the count.
LEMMA CountNext ==
  ASSUME FifoInv, ClearAlone, Clock
  PROVE  /\ ~(Clear /\ Pop)
         /\ Clear => wp' = 0 /\ rp' = 0 /\ count' = 0
         /\ Push /\ ~Pop => count' = count + 1
         /\ Pop /\ ~Push /\ ~Clear => count' = count - 1
         /\ Push /\ Pop => count' = count
         /\ ~Push /\ ~Pop /\ ~Clear => count' = count
<1> USE DEF FifoInv
<1>1. ~(Clear /\ Pop)
  BY DEF ClearApart, ClearInFlight, ReadInFlight, Clear, Pop, BEmit, REmit
<1>2. ~(Clear /\ Push)
  BY DEF Clear, Push
<1>3. /\ wp' = IF Push THEN Inc(wp) ELSE IF Clear THEN 0 ELSE wp
      /\ rp' = IF Pop THEN Inc(rp) ELSE IF Clear THEN 0 ELSE rp
  BY DEF Clock, Pointers
<1>4. Push => count < 2 * DEPTH - 1
  BY FullEmpty, CountNat, DepthAssumption DEF Push, TypeOK, WithinDepth
<1>5. Pop => count > 0
  BY FullEmpty, CountNat, DepthAssumption DEF Pop, TypeOK
<1> QED BY <1>1, <1>2, <1>3, <1>4, <1>5, CountSteps DEF TypeOK, count

\* The FIFO never claims more entries than it has room for, whatever mix of
\* pushes, pops and clears the master issues, as long as it keeps clears and
\* reads apart.
THEOREM DepthBound == ClearAlone => (Spec => []WithinDepth)
<1> SUFFICES ASSUME ClearAlone PROVE Spec => []WithinDepth
  OBVIOUS
<1>1. Init => ClearApart /\ WithinDepth
  BY DepthAssumption DEF Init, ClearApart, ClearInFlight, ReadInFlight, WithinDepth, count
<1>2. FifoInv /\ [Next]_vars => ClearApart' /\ WithinDepth'
  <2> SUFFICES ASSUME FifoInv, [Next]_vars
               PROVE  ClearApart' /\ WithinDepth'
    OBVIOUS
  <2> USE DEF FifoInv
  <2>1. CASE Clock
    <3>1. ClearApart'
      BY <2>1 DEF Clock, ClearApart
    <3>2. count \in 0 .. DEPTH
      BY CountNat, DepthAssumption DEF TypeOK, WithinDepth
    <3>3. Push => count # DEPTH
      BY FullEmpty DEF Push
    <3>4. WithinDepth'
      BY <2>1, <3>2, <3>3, CountNext, DepthAssumption DEF WithinDepth
    <3> QED BY <3>1, <3>4
  <2>2. CASE Reset
    BY <2>2, DepthAssumption
    DEF Reset, ResetRegisters, ClearApart, ClearInFlight, ReadInFlight, WithinDepth, count
  <2>3. CASE UNCHANGED vars
    BY <2>3 DEF vars, storage, writeSide, readSide, master, ClearApart, ClearInFlight,
                ReadInFlight, WithinDepth, count
  <2> QED BY <2>1, <2>2, <2>3 DEF Next
<1> QED BY <1>1, <1>2, TypeCorrect, BeatsKept, PTL DEF Spec, FifoInv

-----------------------------------------------------------------------------
\* The stored words as a sequence, and how the three pointer moves change it.
LEMMA ContentsSeq ==
  ASSUME NEW m \in [0 .. DEPTH - 1 -> Data], NEW r \in Pointer, NEW n \in 0 .. DEPTH
  PROVE  /\ Contents(m, r, n) \in Seq(Data)
         /\ Len(Contents(m, r, n)) = n
         /\ n > 0 => Head(Contents(m, r, n)) = m[Slot(r)]
<1>1. \A i \in 1 .. n : Wrap(r + (i - 1)) \in Pointer
  BY DepthAssumption DEF Wrap, Pointer
<1>2. \A i \in 1 .. n : m[Slot(Wrap(r + (i - 1)))] \in Data
  BY <1>1, SlotIndex
<1>3. n > 0 => Wrap(r + (1 - 1)) = r
  BY DepthAssumption DEF Wrap, Pointer
<1> QED BY <1>2, <1>3, DepthAssumption DEF Contents

\* Writing the slot behind the last entry appends, because that slot holds
\* none of the n < DEPTH entries.
LEMMA PushAppends ==
  ASSUME NEW m \in [0 .. DEPTH - 1 -> Data], NEW r \in Pointer, NEW v \in Data,
         NEW n \in 0 .. DEPTH - 1
  PROVE  Contents([m EXCEPT ![Slot(Wrap(r + n))] = v], r, n + 1)
           = Append(Contents(m, r, n), v)
<1> DEFINE k == Slot(Wrap(r + n))
           m2 == [m EXCEPT ![k] = v]
<1>1. k \in 0 .. DEPTH - 1
  BY DepthAssumption DEF Wrap, Pointer, Slot
<1>2. \A i \in 1 .. n : /\ Slot(Wrap(r + (i - 1))) # k
                        /\ Slot(Wrap(r + (i - 1))) \in 0 .. DEPTH - 1
  BY DepthAssumption DEF Wrap, Pointer, Slot
<1>3. \A i \in 1 .. n : m2[Slot(Wrap(r + (i - 1)))] = m[Slot(Wrap(r + (i - 1)))]
  BY <1>2
<1>4. m2[Slot(Wrap(r + ((n + 1) - 1)))] = v
  BY <1>1, DepthAssumption
<1> HIDE DEF k, m2
<1>5. Contents(m, r, n) \in Seq(Data) /\ Len(Contents(m, r, n)) = n
  BY ContentsSeq, DepthAssumption
<1>6. Contents(m2, r, n + 1) = Append(Contents(m, r, n), v)
  BY <1>3, <1>4, <1>5, DepthAssumption DEF Contents
<1> QED BY <1>6 DEF k, m2

\* Moving the read pointer on drops the oldest entry.
LEMMA PopDrops ==
  ASSUME NEW m \in [0 .. DEPTH - 1 -> Data], NEW r \in Pointer, NEW n \in 1 .. DEPTH
  PROVE  Contents(m, Inc(r), n - 1) = Tail(Contents(m, r, n))
<1>1. \A i \in 1 .. n - 1 : Wrap(Inc(r) + (i - 1)) = Wrap(r + ((i + 1) - 1))
  BY DepthAssumption DEF Wrap, Pointer, Inc
<1>2. Contents(m, r, n) \in Seq(Data) /\ Len(Contents(m, r, n)) = n
  BY ContentsSeq, DepthAssumption
<1>3. Inc(r) \in Pointer /\ n - 1 \in 0 .. DEPTH
  BY IncPointer, DepthAssumption
<1>4. Contents(m, Inc(r), n - 1) \in Seq(Data) /\ Len(Contents(m, Inc(r), n - 1)) = n - 1
  BY <1>3, ContentsSeq
<1>5. Contents(m, r, n) # <<>>
  BY <1>2
<1>6. /\ Tail(Contents(m, r, n)) \in Seq(Data)
      /\ Len(Tail(Contents(m, r, n))) = n - 1
      /\ \A i \in 1 .. n - 1 : Tail(Contents(m, r, n))[i] = Contents(m, r, n)[i + 1]
  BY <1>2, <1>5, HeadTailProperties, Zenon
<1>7. \A i \in 1 .. n - 1 : Contents(m, Inc(r), n - 1)[i] = Contents(m, r, n)[i + 1]
  BY <1>1 DEF Contents
<1> DEFINE s == Contents(m, Inc(r), n - 1)
           t == Tail(Contents(m, r, n))
<1>8. /\ s \in Seq(Data) /\ t \in Seq(Data) /\ Len(s) = Len(t)
      /\ \A i \in 1 .. Len(s) : s[i] = t[i]
  BY <1>4, <1>6, <1>7
<1> HIDE DEF s, t
<1>9. s = t
  BY <1>8, SeqEqual, Zenon
<1> QED BY <1>9 DEF s, t

\* The slot a push writes is the one behind the last entry.
LEMMA PushSlot ==
  ASSUME TypeOK
  PROVE  Slot(wp) = Slot(Wrap(rp + count))
  BY DepthAssumption DEF TypeOK, Pointer, Slot, Wrap, count

\* What an edge does to the queue of stored words.
LEMMA QueueNext ==
  ASSUME FifoInv, ClearAlone, Clock
  PROVE  /\ Clear => Queue' = <<>>
         /\ Push /\ ~Pop => Queue' = Append(Queue, w_data_latched)
         /\ Pop /\ ~Push /\ ~Clear => Queue' = Tail(Queue)
         /\ Push /\ Pop => Queue' = Append(Tail(Queue), w_data_latched)
         /\ ~Push /\ ~Pop /\ ~Clear => Queue' = Queue
<1> DEFINE v == w_data_latched
           m2 == [mem EXCEPT ![Slot(wp)] = v]
<1>1. /\ mem' = IF Push THEN m2 ELSE mem
      /\ rp' = IF Pop THEN Inc(rp) ELSE IF Clear THEN 0 ELSE rp
  BY DEF Clock, Pointers
<1>2. /\ mem \in [0 .. DEPTH - 1 -> Data] /\ rp \in Pointer /\ v \in Data
      /\ count \in 0 .. DEPTH /\ m2 \in [0 .. DEPTH - 1 -> Data]
  BY CountNat, SlotIndex, DepthAssumption DEF FifoInv, TypeOK, WithinDepth
<1>3. Push => count \in 0 .. DEPTH - 1
  BY <1>2, FullEmpty, DepthAssumption DEF Push, FifoInv
<1>4. Pop => count \in 1 .. DEPTH
  BY <1>2, FullEmpty, DepthAssumption DEF Pop, FifoInv
<1>5. Push => Contents(m2, rp, count + 1) = Append(Queue, v)
  <2> SUFFICES ASSUME Push PROVE Contents(m2, rp, count + 1) = Append(Queue, v)
    OBVIOUS
  <2>1. Contents([mem EXCEPT ![Slot(Wrap(rp + count))] = v], rp, count + 1)
          = Append(Contents(mem, rp, count), v)
    BY <1>2, <1>3, PushAppends, ZenonT(30)
  <2> QED BY <2>1, PushSlot DEF FifoInv, Queue
<1>6. Pop => Contents(mem, Inc(rp), count - 1) = Tail(Queue)
  BY <1>2, <1>4, PopDrops DEF Queue
<1>7. Push /\ Pop => Contents(m2, Inc(rp), count) = Tail(Append(Queue, v))
  <2> SUFFICES ASSUME Push, Pop PROVE Contents(m2, Inc(rp), count) = Tail(Append(Queue, v))
    OBVIOUS
  <2>1. count + 1 \in 1 .. DEPTH /\ (count + 1) - 1 = count
    BY <1>3, DepthAssumption
  <2>2. Contents(m2, Inc(rp), (count + 1) - 1) = Tail(Contents(m2, rp, count + 1))
    BY <1>2, <2>1, PopDrops
  <2> QED BY <1>5, <2>1, <2>2
<1>8. Push /\ Pop => Tail(Append(Queue, v)) = Append(Tail(Queue), v)
  <2>1. Queue \in Seq(Data) /\ Len(Queue) = count
    BY <1>2, ContentsSeq DEF Queue
  <2>2. Pop => Queue # <<>>
    BY <1>4, <2>1
  <2> QED BY <2>1, <2>2, HeadTailAppend, Zenon
<1>9. Clear => Queue' = <<>>
  <2>1. Clear => count' = 0
    BY CountNext
  <2> QED BY <2>1 DEF Queue, Contents
<1>10. Queue' = Contents(mem', rp', count')
  BY DEF Queue
<1>11. ~(Clear /\ Push)
  BY DEF Clear, Push
<1> HIDE DEF m2, v
<1> QED BY <1>1, <1>5, <1>6, <1>7, <1>8, <1>9, <1>10, <1>11, CountNext DEF Queue, v

\* The word a read is answered with is what the contract returns.
LEMMA ReadWordRight ==
  ASSUME FifoInv
  PROVE  ReadWord = Contract!ReadResult(ar_latched, Queue)
<1>1. Queue \in Seq(Data) /\ Len(Queue) = count /\ count \in 0 .. DEPTH
  BY ContentsSeq, CountNat, DepthAssumption DEF FifoInv, TypeOK, WithinDepth, Queue
<1>2. count > 0 => Head(Queue) = mem[Slot(rp)]
  BY <1>1, ContentsSeq DEF FifoInv, TypeOK, Queue
<1>3. (full <=> count = DEPTH) /\ (empty <=> count = 0)
  BY FullEmpty DEF FifoInv
<1>4. empty <=> Queue = <<>>
  BY <1>1, <1>3
<1> QED BY <1>1, <1>2, <1>3, <1>4 DEF ReadWord, Contract!ReadResult, Contract!Status

\* Every edge is a step of the contract: nothing, a write, a read, or both
\* in the order that a full FIFO (write first: the push is refused) or any
\* other (read first: the read sees the queue before the write) dictates.
LEMMA ClockRefines ==
  ASSUME FifoInv, ClearAlone, Clock
  PROVE  Contract!ContractNext
<1> DEFINE wr == aw_latched
           v  == w_data_latched
           rr == ar_latched
<1>1. Queue \in Seq(Data) /\ Len(Queue) = count /\ count \in 0 .. DEPTH
  BY ContentsSeq, CountNat, DepthAssumption DEF FifoInv, TypeOK, WithinDepth, Queue
<1>2. /\ full <=> Len(Queue) = DEPTH
      /\ ~full <=> Len(Queue) < DEPTH
      /\ empty <=> Queue = <<>>
  BY <1>1, FullEmpty, DepthAssumption DEF FifoInv
<1>3. Contract!AccessesKept
  BY DEF FifoInv, TypeOK, NoBeatSwallowed, Clock, AwChannel, WChannel, ArChannel, AwFire,
         WFire, ArFire, Contract!AccessesKept
<1>4. (BEmit <=> Contract!WriteDone) /\ (REmit <=> Contract!ReadDone)
  BY DEF FifoInv, TypeOK, Clock, AwChannel, WChannel, ArChannel, BEmit, REmit,
         Contract!WriteDone, Contract!ReadDone
<1>5. rdata' = IF REmit THEN Contract!ReadResult(rr, Queue) ELSE rdata
  BY ReadWordRight DEF Clock, RChannel
<1>6. ~(Clear /\ Pop)
  BY CountNext
<1>7. Contract!Serve
  <2>1. CASE ~BEmit /\ ~REmit
    <3>1. ~Push /\ ~Pop /\ ~Clear
      BY <2>1 DEF Push, Pop, Clear
    <3> QED BY <1>4, <1>5, <2>1, <3>1, QueueNext DEF Contract!Serve
  <2>2. CASE BEmit /\ ~REmit
    <3>1. ~Pop
      BY <2>2 DEF Pop
    <3>2. Queue' = Contract!AfterWrite(wr, v, Queue)
      BY <1>2, <2>2, <3>1, QueueNext DEF Push, Clear, Contract!AfterWrite
    <3> QED BY <1>4, <1>5, <2>2, <3>2 DEF Contract!Serve, Contract!Write
  <2>3. CASE ~BEmit /\ REmit
    <3>1. ~Push /\ ~Clear
      BY <2>3 DEF Push, Clear
    <3>2. Queue' = Contract!AfterRead(rr, Queue)
      BY <1>2, <2>3, <3>1, QueueNext DEF Pop, Contract!AfterRead
    <3> QED BY <1>4, <1>5, <2>3, <3>2 DEF Contract!Serve, Contract!Read
  <2>4. CASE BEmit /\ REmit /\ full /\ wr # "CLEAR"
    <3>1. Contract!AfterWrite(wr, v, Queue) = Queue
      BY <1>2, <2>4 DEF Contract!AfterWrite
    <3>2. ~Push /\ ~Clear
      BY <2>4 DEF Push, Clear
    <3>3. Queue' = Contract!AfterRead(rr, Queue)
      BY <1>2, <2>4, <3>2, QueueNext DEF Pop, Contract!AfterRead
    <3>4. Contract!WriteThenRead
      BY <1>5, <2>4, <3>1, <3>3 DEF Contract!WriteThenRead
    <3> QED BY <1>4, <2>4, <3>4 DEF Contract!Serve
  <2>5. CASE BEmit /\ REmit /\ wr = "CLEAR"
    <3>1. Contract!AfterWrite(wr, v, Contract!AfterRead(rr, Queue)) = <<>>
      BY <2>5 DEF Contract!AfterWrite
    <3>2. Queue' = <<>>
      BY <2>5, QueueNext DEF Clear
    <3>3. Contract!ReadThenWrite
      BY <1>5, <2>5, <3>1, <3>2 DEF Contract!ReadThenWrite
    <3> QED BY <1>4, <2>5, <3>3 DEF Contract!Serve
  <2>6. CASE BEmit /\ REmit /\ ~full
    <3>1. Queue # <<>> => Tail(Queue) \in Seq(Data) /\ Len(Tail(Queue)) = Len(Queue) - 1
      BY <1>1, HeadTailProperties, Zenon
    <3>2. Len(Contract!AfterRead(rr, Queue)) < DEPTH
      BY <1>1, <1>2, <2>6, <3>1, DepthAssumption DEF Contract!AfterRead
    <3>3. Queue' = Contract!AfterWrite(wr, v, Contract!AfterRead(rr, Queue))
      BY <1>2, <1>6, <2>6, <3>2, QueueNext
      DEF Push, Pop, Clear, Contract!AfterWrite, Contract!AfterRead
    <3>4. Contract!ReadThenWrite
      BY <1>5, <2>6, <3>3 DEF Contract!ReadThenWrite
    <3> QED BY <1>4, <2>6, <3>4 DEF Contract!Serve
  <2> QED BY <2>1, <2>2, <2>3, <2>4, <2>5, <2>6
<1> QED BY <1>3, <1>7 DEF Contract!ContractNext

\* simple_fifo.v implements the queue its register map describes, for every
\* depth and data set, under a master that keeps clears and reads apart.
THEOREM FifoKeepsContract == ClearAlone => (Spec => KeepsContract)
<1> SUFFICES ASSUME ClearAlone PROVE Spec => KeepsContract
  OBVIOUS
<1>1. Init => Contract!ContractInit
  BY DepthAssumption DEF Init, Contract!ContractInit, Queue, Contents, count
<1>2. FifoInv /\ [Next]_vars => [Contract!ContractNext]_(Contract!contractVars)
  <2> SUFFICES ASSUME FifoInv, [Next]_vars
               PROVE  Contract!ContractNext \/ UNCHANGED Contract!contractVars
    OBVIOUS
  <2>1. CASE Clock
    BY <2>1, ClockRefines
  <2>2. CASE Reset
    BY <2>2, DepthAssumption DEF Reset, ResetRegisters, Contract!ContractNext,
       Contract!HardReset, Queue, Contents, count
  <2>3. CASE UNCHANGED vars
    BY <2>3 DEF vars, storage, writeSide, readSide, Contract!contractVars, Queue, count
  <2> QED BY <2>1, <2>2, <2>3 DEF Next
<1>3. Spec => []FifoInv
  <2>1. Init => ClearApart
    BY DEF Init, ClearApart, ClearInFlight, ReadInFlight
  <2>2. ClearApart /\ [Next]_vars => ClearApart'
    BY DEF Next, Clock, Reset, ResetRegisters, vars, writeSide, readSide, master,
           ClearApart, ClearInFlight, ReadInFlight
  <2> QED BY <2>1, <2>2, TypeCorrect, BeatsKept, DepthBound, PTL DEF Spec, FifoInv
<1> QED BY <1>1, <1>2, <1>3, PTL DEF Spec, KeepsContract, Contract!ContractSpec
=============================================================================

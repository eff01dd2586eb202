---------------------------- MODULE SimpleFifo ----------------------------
(***************************************************************************)
(* vivado/ip/simple_fifo.v, register by register.  One step of Clock is    *)
(* one rising edge of s_axi_aclk: every register takes its next value from *)
(* the values before the edge, as the non-blocking assignments of the      *)
(* single always block do.  Where two assignments in that block can hit    *)
(* the same register on one edge, the later one wins, here as there.       *)
(*                                                                         *)
(* The bus master is the environment: it keeps an address or a data beat   *)
(* asserted until it is taken, raises its ready inputs when it likes, and  *)
(* is otherwise free.  With ClearAlone it also keeps reads and clearing    *)
(* writes apart, as a single CPU thread does that waits for each access.   *)
(***************************************************************************)
EXTENDS Naturals, Sequences

CONSTANTS
    DEPTH,        \* entries: 1 << DEPTH_BITS
    Data,         \* the words the master pushes
    WriteRegs,    \* the registers it writes
    ReadRegs,     \* the registers it reads
    ClearAlone    \* TRUE: no read is in flight while a clear is

ASSUME DepthAssumption == DEPTH \in Nat \ {0}
ASSUME DataAssumption  == Data \subseteq Nat /\ Data # {}
ASSUME RegsAssumption  == WriteRegs \cup ReadRegs \subseteq
                              {"DATA", "COUNT", "STATUS", "CLEAR"}
ASSUME ClearAssumption == ClearAlone \in BOOLEAN

VARIABLES
    mem, wp, rp,                          \* storage and pointers
    awready, wready, bvalid,              \* write-side outputs
    aw_taken, w_taken,                    \* beats latched, not yet answered
    aw_latched, w_data_latched,
    arready, rvalid, rdata,               \* read-side outputs
    ar_taken, ar_latched,
    awvalid, awaddr, wvalid, wdata, bready,   \* driven by the master
    arvalid, araddr, rready

storage == <<mem, wp, rp>>
writeSide == <<awready, wready, bvalid, aw_taken, w_taken, aw_latched,
               w_data_latched>>
readSide == <<arready, rvalid, rdata, ar_taken, ar_latched>>
master == <<awvalid, awaddr, wvalid, wdata, bready, arvalid, araddr, rready>>
vars == <<storage, writeSide, readSide, master>>

\* Address bits [3:2], by the name of the register they select.
REGS == {"DATA", "COUNT", "STATUS", "CLEAR"}

---------------------------------------------------------------------------
\* Pointers have one bit more than an index, so they run over 0 .. 2*DEPTH-1
\* and wrap there; the slot is what is left without the top bit.

Pointer == 0 .. (2 * DEPTH - 1)
Wrap(p) == IF p >= 2 * DEPTH THEN p - 2 * DEPTH ELSE p
IncNoWrap(p) == p + 1
Inc(p)  == Wrap(p + 1)
Slot(p) == IF p < DEPTH THEN p ELSE p - DEPTH

empty == wp = rp
FullOneEarly == (IF wp >= rp THEN wp - rp ELSE wp - rp + 2 * DEPTH) = DEPTH - 1
full  == Slot(wp) = Slot(rp) /\ (wp < DEPTH) # (rp < DEPTH)
count == IF wp >= rp THEN wp - rp ELSE wp - rp + 2 * DEPTH

---------------------------------------------------------------------------
\* Conditions of the always block, over the values before the edge.

AwFire == awvalid /\ awready
WFire  == wvalid /\ wready
ArFire == arvalid /\ arready
BEmit  == aw_taken /\ w_taken /\ ~bvalid
REmitOverwrites == ar_taken
REmit  == ar_taken /\ ~rvalid
PushWhenFull == BEmit /\ aw_latched = "DATA"
Push   == BEmit /\ aw_latched = "DATA" /\ ~full
Clear  == BEmit /\ aw_latched = "CLEAR"
Pop    == REmit /\ ar_latched = "DATA" /\ ~empty

\* AW handshake: take the beat, or offer to.
AwChannel ==
    /\ aw_latched' = IF AwFire THEN awaddr ELSE aw_latched
    /\ awready'    = (~AwFire /\ (awready \/ ~aw_taken))
    /\ aw_taken'   = (~BEmit /\ (aw_taken \/ AwFire))

\* W handshake.
WChannel ==
    /\ w_data_latched' = IF WFire THEN wdata ELSE w_data_latched
    /\ wready'         = (~WFire /\ (wready \/ ~w_taken))
    /\ w_taken'        = (~BEmit /\ (w_taken \/ WFire))

BChannelSticky == bvalid' = (BEmit \/ bvalid)

BChannel == bvalid' = (BEmit \/ (bvalid /\ ~bready))

ArChannelEager ==
    /\ ar_latched' = IF ArFire THEN araddr ELSE ar_latched
    /\ arready'    = ~ArFire
    /\ ar_taken'   = (~REmit /\ (ar_taken \/ ArFire))

\* AR handshake.
ArChannel ==
    /\ ar_latched' = IF ArFire THEN araddr ELSE ar_latched
    /\ arready'    = (~ArFire /\ (arready \/ ~ar_taken))
    /\ ar_taken'   = (~REmit /\ (ar_taken \/ ArFire))

\* The word a read puts on the bus.
ReadWord ==
    CASE ar_latched = "DATA"   -> IF empty THEN 0 ELSE mem[Slot(rp)]
      [] ar_latched = "COUNT"  -> count
      [] ar_latched = "STATUS" -> (IF full THEN 2 ELSE 0) + (IF empty THEN 1 ELSE 0)
      [] OTHER                 -> 0

RChannel ==
    /\ rdata'  = IF REmit THEN ReadWord ELSE rdata
    /\ rvalid' = (REmit \/ (rvalid /\ ~rready))

\* Both emit blocks assign rp; the read side comes later in the block.
Pointers ==
    /\ wp' = IF Push THEN Inc(wp) ELSE IF Clear THEN 0 ELSE wp
    /\ rp' = IF Pop THEN Inc(rp) ELSE IF Clear THEN 0 ELSE rp
    /\ mem' = IF Push THEN [mem EXCEPT ![Slot(wp)] = w_data_latched] ELSE mem

---------------------------------------------------------------------------
\* The master.  A valid beat is held until taken; otherwise anything goes.
\* What it drives while nobody looks (the address without valid, ready
\* without an answer to take) has no effect and is pinned.

ClearInFlight == \/ awvalid /\ awaddr = "CLEAR"
                 \/ aw_taken /\ aw_latched = "CLEAR"
ReadInFlight  == arvalid \/ ar_taken

Master ==
    /\ IF awvalid /\ ~awready
       THEN UNCHANGED <<awvalid, awaddr>>
       ELSE awvalid' \in BOOLEAN /\ awaddr' \in (IF awvalid' THEN WriteRegs ELSE {"DATA"})
    /\ IF wvalid /\ ~wready
       THEN UNCHANGED <<wvalid, wdata>>
       ELSE wvalid' \in BOOLEAN /\ IF wvalid' THEN wdata' \in Data ELSE wdata' = wdata
    /\ IF arvalid /\ ~arready
       THEN UNCHANGED <<arvalid, araddr>>
       ELSE arvalid' \in BOOLEAN /\ araddr' \in (IF arvalid' THEN ReadRegs ELSE {"DATA"})
    /\ bready' \in (IF bvalid' THEN BOOLEAN ELSE {FALSE})
    /\ rready' \in (IF rvalid' THEN BOOLEAN ELSE {FALSE})

Clock ==
    /\ AwChannel /\ WChannel /\ BChannel
    /\ ArChannel /\ RChannel
    /\ Pointers
    /\ Master
    /\ ClearAlone => ~(ClearInFlight' /\ ReadInFlight')

\* s_axi_aresetn low on an edge: everything but the storage and the latches.
ResetRegisters ==
    /\ wp' = 0 /\ rp' = 0
    /\ awready' = FALSE /\ wready' = FALSE /\ bvalid' = FALSE
    /\ aw_taken' = FALSE /\ w_taken' = FALSE
    /\ arready' = FALSE /\ rvalid' = FALSE /\ rdata' = 0
    /\ ar_taken' = FALSE
    /\ UNCHANGED <<mem, aw_latched, w_data_latched, ar_latched>>

\* The bus shares the reset, so the master drops its beats as well.
Reset ==
    /\ ResetRegisters
    /\ awvalid' = FALSE /\ wvalid' = FALSE /\ arvalid' = FALSE
    /\ awaddr' = "DATA" /\ wdata' = wdata /\ araddr' = "DATA"
    /\ bready' = FALSE /\ rready' = FALSE

\* After power-on reset; storage and latches hold anything.
Init ==
    /\ mem \in [0 .. DEPTH - 1 -> Data]
    /\ wp = 0 /\ rp = 0
    /\ awready = FALSE /\ wready = FALSE /\ bvalid = FALSE
    /\ aw_taken = FALSE /\ w_taken = FALSE
    /\ aw_latched \in WriteRegs /\ w_data_latched \in Data
    /\ arready = FALSE /\ rvalid = FALSE /\ rdata = 0
    /\ ar_taken = FALSE /\ ar_latched \in ReadRegs
    /\ awvalid = FALSE /\ awaddr = "DATA" /\ wvalid = FALSE /\ wdata \in Data
    /\ bready = FALSE /\ arvalid = FALSE /\ araddr = "DATA" /\ rready = FALSE

Next == Clock \/ Reset

Spec == Init /\ [][Next]_vars

---------------------------------------------------------------------------
\* Every register stays within its width and every bus signal is driven.
TypeOK ==
    /\ mem \in [0 .. DEPTH - 1 -> Data]
    /\ wp \in Pointer /\ rp \in Pointer
    /\ awready \in BOOLEAN /\ wready \in BOOLEAN /\ bvalid \in BOOLEAN
    /\ aw_taken \in BOOLEAN /\ w_taken \in BOOLEAN
    /\ aw_latched \in REGS /\ w_data_latched \in Data
    /\ arready \in BOOLEAN /\ rvalid \in BOOLEAN /\ rdata \in Nat
    /\ ar_taken \in BOOLEAN /\ ar_latched \in REGS
    /\ awvalid \in BOOLEAN /\ awaddr \in REGS
    /\ wvalid \in BOOLEAN /\ wdata \in Data /\ bready \in BOOLEAN
    /\ arvalid \in BOOLEAN /\ araddr \in REGS /\ rready \in BOOLEAN

\* A channel never offers to take a beat while it still holds one.  If it
\* did, the emit blocks, which come later in the always block and clear the
\* taken flags, would swallow the new beat: a bus access without an answer.
NoBeatSwallowed ==
    /\ ~(awready /\ aw_taken)
    /\ ~(wready /\ w_taken)
    /\ ~(arready /\ ar_taken)

\* The pointers are never further apart than the storage is deep, whatever
\* mix of pushes, pops and clears the two bus directions carry out on the
\* same edge.
WithinDepth == count <= DEPTH

\* A read answer stays on the bus, unchanged, until the master takes it,
\* whatever other reads and writes are accepted meanwhile.
ReadAnswerStable ==
    [][rvalid /\ ~rready => (rvalid' /\ rdata' = rdata) \/ Reset]_vars

\* The n words stored from pointer r on, and the words in the FIFO.
Contents(m, r, n) == [i \in 1 .. n |-> m[Slot(Wrap(r + (i - 1)))]]
Queue == Contents(mem, rp, count)

Contract == INSTANCE FifoContract
              WITH q <- Queue,
                   wpend <- aw_taken /\ w_taken, wreg <- aw_latched, wval <- w_data_latched,
                   rpend <- ar_taken, rreg <- ar_latched

\* simple_fifo.v keeps the promise of its register map: each access the bus
\* delivers is carried out on a bounded queue, exactly once, as the register
\* and word it was issued with, two on one edge in one of the two orders.
KeepsContract == Contract!ContractSpec

\* A master that does its part: the clock runs, answers are taken again and
\* again, and an address beat is followed by its data beat and vice versa.
LiveSpec ==
    /\ Spec
    /\ WF_vars(Clock)
    /\ SF_vars(Clock /\ rready') /\ SF_vars(Clock /\ bready')
    /\ SF_vars(Clock /\ awvalid') /\ SF_vars(Clock /\ wvalid')

\* No bus access hangs: an address on the read channel is accepted (or
\* dropped by a reset), and an accepted read or write is answered.  A bus
\* that hangs here stalls the CPU.
AccessesAnswered ==
    /\ arvalid ~> (ArFire \/ ~arvalid)
    /\ awvalid ~> (AwFire \/ ~awvalid)
    /\ ar_taken ~> ~ar_taken
    /\ aw_taken ~> ~aw_taken
===========================================================================

--------------------------- MODULE FifoContract ---------------------------
(***************************************************************************)
(* What the register map in the header of vivado/ip/simple_fifo.v promises *)
(* to software: a bounded queue behind four registers.  An access is       *)
(* pending from when the bus has delivered it until it is carried out.     *)
(* The bus has independent write and read channels, so one clock edge may  *)
(* carry out a write and a read; the promise is that such a pair behaves   *)
(* as the two accesses made one after the other, in one of the two orders. *)
(***************************************************************************)
EXTENDS Naturals, Sequences

CONSTANTS DEPTH      \* entries the FIFO holds

VARIABLES q,                    \* the queued words, oldest first
          rdata,                \* the word the last read returned
          wpend, wreg, wval,    \* the pending write, its register and word
          rpend, rreg           \* the pending read and its register

contractVars == <<q, rdata, wpend, wreg, wval, rpend, rreg>>

\* Writing v at register r: DATA pushes unless full, CLEAR empties the
\* queue, the two read-only registers ignore the write.
AfterWrite(r, v, s) ==
    CASE r = "DATA"  -> IF Len(s) < DEPTH THEN Append(s, v) ELSE s
      [] r = "CLEAR" -> <<>>
      [] OTHER       -> s

\* Reading register r: what comes back, and what is left.
Status(n) == (IF n = DEPTH THEN 2 ELSE 0) + (IF n = 0 THEN 1 ELSE 0)

ReadResult(r, s) ==
    CASE r = "DATA"   -> IF s = <<>> THEN 0 ELSE Head(s)
      [] r = "COUNT"  -> Len(s)
      [] r = "STATUS" -> Status(Len(s))
      [] OTHER        -> 0

AfterRead(r, s) == IF r = "DATA" /\ s # <<>> THEN Tail(s) ELSE s

ContractInit == q = <<>> /\ rdata = 0 /\ ~wpend /\ ~rpend

\* An access that stays pending stays what it was.
AccessesKept ==
    /\ wpend /\ wpend' => UNCHANGED <<wreg, wval>>
    /\ rpend /\ rpend' => UNCHANGED rreg

WriteDone == wpend /\ ~wpend'
ReadDone  == rpend /\ ~rpend'

Write == q' = AfterWrite(wreg, wval, q) /\ rdata' = rdata

Read == q' = AfterRead(rreg, q) /\ rdata' = ReadResult(rreg, q)

WriteThenRead ==
    LET s == AfterWrite(wreg, wval, q)
    IN  q' = AfterRead(rreg, s) /\ rdata' = ReadResult(rreg, s)

ReadThenWrite ==
    /\ q' = AfterWrite(wreg, wval, AfterRead(rreg, q))
    /\ rdata' = ReadResult(rreg, q)

Serve ==
    \/ ~WriteDone /\ ~ReadDone /\ UNCHANGED <<q, rdata>>
    \/ WriteDone /\ ~ReadDone /\ Write
    \/ ~WriteDone /\ ReadDone /\ Read
    \/ WriteDone /\ ReadDone /\ (WriteThenRead \/ ReadThenWrite)

HardReset == q' = <<>> /\ rdata' = 0 /\ ~wpend' /\ ~rpend'

ContractNext == (AccessesKept /\ Serve) \/ HardReset

ContractSpec == ContractInit /\ [][ContractNext]_contractVars
===========================================================================

-------------------------------- MODULE Dma --------------------------------
(***************************************************************************)
(* The DMA controller (platform/basic/dma.h): software writes src, dst,    *)
(* len and op; a thread copies block by block, giving up the processor     *)
(* after every transaction, and raises an interrupt.                       *)
(*                                                                         *)
(* Memory cells hold where their content came from.  Software writes only  *)
(* the two operations that exist and ranges inside the memory.             *)
(***************************************************************************)
EXTENDS Integers, FiniteSets

CONSTANTS
  DmaMem,              \* number of memory cells
  DmaBuffer,           \* buffer.size()
  DmaSrcs, DmaDsts, DmaLens,
  DmaMaxStarts         \* bound on the operations software starts

ASSUME DmaAssumption ==
  /\ DmaMem \in Nat /\ DmaBuffer \in Nat \ {0} /\ DmaMaxStarts \in Nat
  /\ DmaSrcs \subseteq Nat /\ DmaDsts \subseteq Nat /\ DmaLens \subseteq Nat
  /\ \A a \in DmaSrcs \union DmaDsts, n \in DmaLens : a + n <= DmaMem

VARIABLES
  dmaSrc, dmaDst, dmaLen, dmaOp,   \* the registers
  dmaMem,          \* memory
  dmaPc,           \* "wait", "read" or "write": what the thread does next
  dmaN, dmaOff,    \* cells left and offset of _perform_memcpy
  dmaBuf,          \* buffer, as a function of the offset in the block
  dmaEvent,        \* run_event is notified
  dmaIrq,          \* the gateway was triggered and software has not seen it
  dmaStarts,       \* writes of op so far
  dmaJob,          \* history: registers and memory when the thread started
  dmaQuiet         \* history: no register was written since

dmaVars == <<dmaSrc, dmaDst, dmaLen, dmaOp, dmaMem, dmaPc, dmaN, dmaOff,
             dmaBuf, dmaEvent, dmaIrq, dmaStarts, dmaJob, dmaQuiet>>

dmaRegs == <<dmaSrc, dmaDst, dmaLen, dmaOp>>
dmaThread == <<dmaPc, dmaN, dmaOff, dmaBuf, dmaMem, dmaJob>>

DmaInit ==
  /\ dmaSrc = 0 /\ dmaDst = 0 /\ dmaLen = 0 /\ dmaOp = "NOP"
  /\ dmaMem = [a \in 0 .. DmaMem - 1 |-> a]
  /\ dmaPc = "wait" /\ dmaN = 0 /\ dmaOff = 0 /\ dmaBuf = <<>>
  /\ dmaEvent = FALSE /\ dmaIrq = FALSE
  /\ dmaStarts = 0
  /\ dmaJob = <<>> /\ dmaQuiet = FALSE

-----------------------------------------------------------------------------

\* transport: a write of op notifies the thread, whatever it is doing.
DmaWriteOp(op) ==
  /\ dmaStarts < DmaMaxStarts
  /\ dmaStarts' = dmaStarts + 1
  /\ dmaOp' = op
  /\ dmaEvent' = TRUE
  /\ dmaQuiet' = FALSE
  /\ UNCHANGED <<dmaSrc, dmaDst, dmaLen, dmaIrq, dmaThread>>

DmaWriteRegisters(s, d, n) ==
  /\ dmaStarts < DmaMaxStarts
  /\ dmaSrc' = s /\ dmaDst' = d /\ dmaLen' = n
  /\ dmaQuiet' = FALSE
  /\ UNCHANGED <<dmaOp, dmaEvent, dmaIrq, dmaStarts, dmaThread>>

DmaBlockAtLeast == IF dmaN >= DmaBuffer THEN DmaBuffer ELSE 0

\* The block the thread copies next: a full buffer while more than one is left.
DmaBlock == IF dmaN > DmaBuffer THEN DmaBuffer ELSE dmaN

\* The event occurs.  A thread that is not waiting for it never learns.
DmaEventOccurs ==
  /\ dmaEvent
  /\ dmaEvent' = FALSE
  /\ IF dmaPc # "wait"
     THEN UNCHANGED <<dmaThread, dmaQuiet, dmaIrq>>
     ELSE /\ dmaJob' = [src |-> dmaSrc, dst |-> dmaDst, len |-> dmaLen,
                        mem |-> dmaMem]
          /\ dmaQuiet' = TRUE
          /\ IF dmaOp = "NOP"
             THEN dmaIrq' = TRUE /\ UNCHANGED <<dmaPc, dmaN, dmaOff>>
             ELSE dmaPc' = "read" /\ dmaN' = dmaLen /\ dmaOff' = 0
                  /\ UNCHANGED dmaIrq
          /\ UNCHANGED <<dmaMem, dmaBuf>>
  /\ UNCHANGED <<dmaRegs, dmaStarts>>

\* _copy_block: src and dst are read for every transaction.
DmaRead ==
  /\ dmaPc = "read"
  /\ dmaBuf' = [i \in 0 .. DmaBlock - 1 |-> dmaMem[dmaSrc + dmaOff + i]]
  /\ dmaPc' = "write"
  /\ UNCHANGED <<dmaRegs, dmaMem, dmaN, dmaOff, dmaEvent, dmaIrq, dmaStarts,
                 dmaJob, dmaQuiet>>

DmaWrite ==
  /\ dmaPc = "write"
  /\ dmaMem' = [a \in DOMAIN dmaMem |->
                  IF a - dmaDst - dmaOff \in DOMAIN dmaBuf
                  THEN dmaBuf[a - dmaDst - dmaOff] ELSE dmaMem[a]]
  /\ dmaBuf' = <<>>
  /\ IF dmaN > DmaBuffer
     THEN /\ dmaN' = dmaN - DmaBuffer /\ dmaOff' = dmaOff + DmaBuffer
          /\ dmaPc' = "read"
          /\ UNCHANGED dmaIrq
     ELSE /\ dmaN' = 0 /\ dmaOff' = 0 /\ dmaPc' = "wait"
          /\ dmaIrq' = TRUE
  /\ UNCHANGED <<dmaRegs, dmaEvent, dmaStarts, dmaJob, dmaQuiet>>

\* Software sees the interrupt.
DmaSeeIrq ==
  /\ dmaIrq
  /\ dmaIrq' = FALSE
  /\ UNCHANGED <<dmaRegs, dmaEvent, dmaStarts, dmaQuiet, dmaThread>>

DmaStep ==
  \/ \E op \in {"NOP", "MEMCPY"} : DmaWriteOp(op)
  \/ \E s \in DmaSrcs, d \in DmaDsts, n \in DmaLens : DmaWriteRegisters(s, d, n)
  \/ DmaEventOccurs
  \/ DmaRead
  \/ DmaWrite
  \/ DmaSeeIrq

DmaSpec == DmaInit /\ [][DmaStep]_dmaVars

-----------------------------------------------------------------------------

DmaOverlap(j) == j.src < j.dst + j.len /\ j.dst < j.src + j.len

DmaCopied(j) == [a \in DOMAIN j.mem |->
  IF a \in j.dst .. j.dst + j.len - 1 THEN j.mem[a - j.dst + j.src] ELSE j.mem[a]]

\* When the thread is done with a copy during which no register was written,
\* the destination holds the source and no other cell changed, for every
\* length around the block size (0, one block, one more), however the
\* transactions interleave with software.
DmaCopyExact ==
  dmaPc = "wait" /\ dmaQuiet /\ dmaOp = "MEMCPY" /\ ~DmaOverlap(dmaJob)
    => dmaMem = DmaCopied(dmaJob)
=============================================================================

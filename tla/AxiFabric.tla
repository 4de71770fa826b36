----------------------------- MODULE AxiFabric ------------------------------
(***************************************************************************)
(* What the two halves of the AXI fabric (msftDvIp_cheri_axi_fabric.sv)    *)
(* share: the interfaces and the FIFO that every channel goes through.     *)
(***************************************************************************)
EXTENDS Integers, Sequences, FiniteSets, FiniteSetsExt

CONSTANTS
  NMGR,             \* managers: 0 = core, 1 = DMA in the design
  NSUB,             \* subordinates; the last one is the default
  AXI_FIFO_SIZE     \* entries of every channel FIFO (2 in the design)

ASSUME SizeAssumption ==
  NMGR \in Nat \ {0} /\ NSUB \in Nat \ {0} /\ AXI_FIFO_SIZE \in Nat \ {0}

Managers == 0 .. NMGR - 1
Subs     == 0 .. NSUB - 1
DefSub   == NSUB - 1
ExtSubs  == Subs \ {DefSub}
None     == -1

(* msftDvIp_axi_fifo: wrAck and rdAck, and the queue after an edge.        *)

wrAck(q) == Len(q) < AXI_FIFO_SIZE
rdAck(q) == q # <<>>

\* Mutant: a write that coincides with a read is dropped.
FifoEdge_OnePort(q, wrReq, wdata, rdReq) ==
  IF rdReq /\ rdAck(q) THEN Tail(q)
  ELSE IF wrReq /\ wrAck(q) THEN Append(q, wdata) ELSE q
FifoEdge(q, wrReq, wdata, rdReq) ==
  LET popped == IF rdReq /\ rdAck(q) THEN Tail(q) ELSE q
  IN  IF wrReq /\ wrAck(q) THEN Append(popped, wdata) ELSE popped
=============================================================================

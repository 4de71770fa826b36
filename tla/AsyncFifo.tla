----------------------------- MODULE AsyncFifo ------------------------------
(***************************************************************************)
(* A FIFO between two clock domains, as the Ethernet MAC uses prim_fifo_   *)
(* async (external): each side sees its own pointer at once and the other  *)
(* side's two edges of its own clock later, so the writer may believe the  *)
(* FIFO fuller, and the reader emptier, than it is.                        *)
(*                                                                         *)
(* A FIFO is a record: its entries q, and how many of the latest pops      *)
(* (pushes) the two flops of the writer's (reader's) synchroniser have not *)
(* seen.                                                                   *)
(***************************************************************************)
LOCAL INSTANCE Naturals
LOCAL INSTANCE Sequences

EmptyFifo == [q |-> <<>>, pops |-> <<0, 0>>, pushes |-> <<0, 0>>]

wdepth(f) == Len(f.q) + f.pops[2]
rdepth(f) == Len(f.q) - f.pushes[2]
rvalid(f) == rdepth(f) > 0

One(b) == IF b THEN 1 ELSE 0

\* An edge of the writer's clock; an entry that does not fit is lost.
WriteEdge(f, depth, wvalid, entry) ==
  LET push == wvalid /\ wdepth(f) < depth
  IN [q |-> IF push THEN Append(f.q, entry) ELSE f.q,
      pops |-> <<0, f.pops[1]>>,
      pushes |-> <<f.pushes[1] + One(push), f.pushes[2] + One(push)>>]

\* An edge of the reader's clock.
ReadEdge(f, rready) ==
  LET pop == rready /\ rvalid(f)
  IN [q |-> IF pop THEN Tail(f.q) ELSE f.q,
      pops |-> <<f.pops[1] + One(pop), f.pops[2] + One(pop)>>,
      pushes |-> <<0, f.pushes[1]>>]
=============================================================================

------------------------------- MODULE EthRx --------------------------------
(***************************************************************************)
(* The receive half of the Ethernet MAC (msftDvIp_eth_mac_lite.sv): the    *)
(* PHY's nibbles cross a FIFO into the system clock, a state machine finds *)
(* the frame in them, checks it and collects it in one of two buffers.     *)
(*                                                                         *)
(* RxEdge is an edge of the system clock, RxPhyEdge one of the PHY's       *)
(* receive clock.  A frame is what the PHY delivers between two falls of   *)
(* phy_dv; a nibble is a part of its preamble or a position in its data.   *)
(* The four address matchers are one; an own frame is one it matches.      *)
(*                                                                         *)
(* The driver waits for the interrupt (external), clears it, and empties   *)
(* the buffers as the hardware tests do (eth_lib.c).  Left out: the early  *)
(* interrupt, the counters, and MDIO.                                      *)
(***************************************************************************)
EXTENDS Integers, Sequences, SequencesExt, AsyncFifo

CONSTANTS
  RxDepth,     \* nibbles of the FIFO (16)
  RxPreLen,    \* nibbles of the preamble with its delimiter, as the PHY delivers it
  WordLen,     \* nibbles in a word of the buffer (8)
  AddrLen,     \* nibbles of an address (12)
  Kinds,       \* the frames on the line
  Filters,     \* the filters the driver configures: subset of {"fcs", "addr"}
  RxGap,       \* least number of idle clocks of the PHY between frames
  RxRatio      \* system clocks per clock of the PHY

\* own: addressed to this station; fcs: its check sequence is right; er: the
\* position at which the PHY signals an error, -1 for none; sfd: it has a
\* delimiter, without which it is noise.
KindSet == [len : Nat, own : BOOLEAN, fcs : BOOLEAN, er : Int, sfd : BOOLEAN]

ASSUME RxAssumption ==
  /\ {RxDepth, RxPreLen, WordLen, AddrLen, RxGap, RxRatio} \subseteq Nat \ {0}
  /\ RxPreLen > 1
  /\ \A k \in Kinds : /\ k \in KindSet /\ k.er \in -1..k.len-1
                      /\ IF k.sfd THEN k.len \in AddrLen..4095
                         ELSE k.len = 0 /\ k.own /\ ~k.fcs

VARIABLES
  rx_fcs_filt, rx_addr_filt,                                     \* configuration
  rx_fifo_wvalid, rx_fifo_wdata, phy_dv_q, rx_fifo, rx_slots,    \* PHY clock
  rx_fsm, cur_rx_buf, rx_prev_nibl, rx_nibl_cnt, rx_ram_p0, rx_ram_p0_wdata, rx_ram,
  rx_addr_match, rx_fcs32, rx_err_acc, rx_stat, rx_err, rx_len, rx_intr_stat,
  rx_clks,          \* system clocks since the last PHY clock
  coming, line, rest, \* the PHY: frames that have begun and are not dealt with, how
                      \* much of the last it has delivered (none if idle), idle
                      \* clocks since
  rxpc, rxbuf,      \* the driver
  got               \* history: the frame the status of a buffer was set for

rxVars == <<rx_fcs_filt, rx_addr_filt, rx_fifo_wvalid, rx_fifo_wdata, phy_dv_q, rx_fifo,
            rx_slots, rx_fsm, cur_rx_buf, rx_prev_nibl, rx_nibl_cnt, rx_ram_p0,
            rx_ram_p0_wdata, rx_ram, rx_addr_match, rx_fcs32, rx_err_acc, rx_stat, rx_err,
            rx_len, rx_intr_stat, rx_clks, coming, line, rest, rxpc, rxbuf, got>>

RxBuffers == {0, 1}
NoSender == -1      \* frames are named 0 and 1: one differs from the next
Entry(er, dv, kind, of, k) == [er |-> er, dv |-> dv, kind |-> kind, of |-> of, at |-> k]
Eof == Entry(FALSE, FALSE, "none", NoSender, 0)
NoData == [of |-> NoSender, at |-> 0]
NoWord == [i \in 0..WordLen-1 |-> NoData]
Words == 0 .. Max({k.len : k \in Kinds}) \div WordLen
Junk == [w \in Words |-> NoWord]
NoWrite == [cs |-> FALSE, buf |-> 0, word |-> 0]
NoKind == [len |-> 0, own |-> FALSE, fcs |-> FALSE, er |-> -1, sfd |-> FALSE]

Incoming(s, kind) == [of |-> s, kind |-> kind]
NoFrame == Incoming(0, NoKind)

RxInit ==
  /\ \E on \in Filters : rx_fcs_filt = ("fcs" \in on) /\ rx_addr_filt = ("addr" \in on)
  /\ rx_fifo_wvalid = FALSE /\ rx_fifo_wdata = Eof /\ phy_dv_q = FALSE
  /\ rx_fifo = EmptyFifo /\ rx_slots = [i \in 1..RxDepth |-> Eof]
  /\ rx_fsm = "IDLE" /\ cur_rx_buf = 0 /\ rx_prev_nibl = "none" /\ rx_nibl_cnt = 0
  /\ rx_ram_p0 = NoWrite /\ rx_ram_p0_wdata = NoWord
  /\ rx_ram = [b \in RxBuffers |-> Junk]
  /\ rx_addr_match = FALSE /\ rx_fcs32 = [of |-> NoSender, n |-> 0] /\ rx_err_acc = FALSE
  /\ rx_stat = {} /\ rx_err = [b \in RxBuffers |-> FALSE] /\ rx_len = [b \in RxBuffers |-> 0]
  /\ rx_intr_stat = FALSE /\ rx_clks = 0
  /\ coming = <<>> /\ line = [of |-> 0, n |-> 0] /\ rest = RxGap
  /\ rxpc = "sleep" /\ rxbuf = 0
  /\ got = [b \in RxBuffers |-> NoFrame]

-----------------------------------------------------------------------------
(* Wires                                                                   *)

\* The frame a nibble belongs to.
KindOf(s) == LET named == {i \in DOMAIN coming : coming[i].of = s}
             IN IF named = {} THEN NoKind ELSE coming[Min(named)].kind

\* The FIFO shows the slot at its read pointer whether or not it is valid:
\* when it is empty, the entry written RxDepth entries ago.
rx_rdata == IF rx_fifo.q # <<>> THEN Head(rx_fifo.q) ELSE rx_slots[1]
rx_eof == rvalid(rx_fifo) /\ ~rx_rdata.dv
rx_fifo_rready == rx_fsm \in {"HUNT", "DATA", "OVR"}
DataNibble == rx_fsm = "DATA" /\ rvalid(rx_fifo) /\ rx_rdata.dv

rx_fcs_err == ~ /\ rx_fcs32.of # NoSender
                /\ LET k == KindOf(rx_fcs32.of) IN rx_fcs32.n = k.len /\ k.fcs
rx_frame_good == /\ rx_fsm = "DONE"
                 /\ rx_addr_filt => rx_addr_match
                 /\ rx_fcs_filt => ~rx_fcs_err /\ ~rx_err_acc

-----------------------------------------------------------------------------
(* The state machine                                                       *)

rx_fsm_d ==
  CASE rx_fsm = "IDLE" -> IF ~rvalid(rx_fifo) THEN "IDLE"
                          ELSE IF rx_stat # RxBuffers THEN "HUNT" ELSE "OVR"
    [] rx_fsm = "HUNT" -> IF rx_eof THEN "DONE"
                          ELSE IF /\ rvalid(rx_fifo) /\ rx_rdata.kind = "d"
                                  /\ rx_prev_nibl = "5" /\ ~rx_rdata.er
                               THEN "DATA" ELSE "HUNT"
    [] rx_fsm = "DATA" -> IF rx_eof THEN "DONE" ELSE "DATA"
    [] rx_fsm = "DONE" -> "IDLE"
    [] rx_fsm = "OVR" -> IF rx_eof THEN "IDLE" ELSE "OVR"

BufferEdge ==
  cur_rx_buf' = IF rx_fsm = "IDLE" /\ rvalid(rx_fifo) /\ 0 \notin rx_stat THEN 0
                ELSE IF rx_fsm = "IDLE" /\ rvalid(rx_fifo) /\ 1 \notin rx_stat THEN 1
                ELSE cur_rx_buf

NibbleEdge ==
  /\ rx_prev_nibl' = IF rx_fsm # "HUNT" THEN "none"
                     ELSE IF rvalid(rx_fifo) THEN rx_rdata.kind ELSE rx_prev_nibl
  /\ rx_nibl_cnt' = IF rx_fsm # "DATA" THEN 0
                    ELSE IF DataNibble THEN rx_nibl_cnt + 1 ELSE rx_nibl_cnt
  /\ rx_ram_p0_wdata' =
       IF rx_fsm # "DATA" THEN NoWord
       ELSE IF ~DataNibble THEN rx_ram_p0_wdata
       ELSE [rx_ram_p0_wdata EXCEPT ![rx_nibl_cnt % WordLen] =
                                      [of |-> rx_rdata.of, at |-> rx_rdata.at]]

\* Mutant: only full words are written.
WordEdge_FullOnly(freed) ==
  /\ rx_ram_p0' = [cs |-> /\ rx_fsm = "DATA" /\ rvalid(rx_fifo)
                          /\ rx_nibl_cnt % WordLen = WordLen - 1,
                   buf |-> cur_rx_buf, word |-> rx_nibl_cnt \div WordLen]
  /\ rx_ram' = [b \in RxBuffers |->
                  IF b \in freed THEN Junk
                  ELSE IF rx_ram_p0.cs /\ rx_ram_p0.buf = b
                  THEN [rx_ram[b] EXCEPT ![rx_ram_p0.word] = rx_ram_p0_wdata]
                  ELSE rx_ram[b]]

\* A word is written on the next edge, when it is full or the frame ends in it.
WordEdge(freed) ==
  /\ rx_ram_p0' = [cs |-> /\ rx_fsm = "DATA" /\ rvalid(rx_fifo)
                          /\ \/ rx_nibl_cnt % WordLen = WordLen - 1
                             \/ rx_eof /\ rx_nibl_cnt % WordLen # 0,
                   buf |-> cur_rx_buf, word |-> rx_nibl_cnt \div WordLen]
  /\ rx_ram' = [b \in RxBuffers |->
                  IF b \in freed THEN Junk
                  ELSE IF rx_ram_p0.cs /\ rx_ram_p0.buf = b
                  THEN [rx_ram[b] EXCEPT ![rx_ram_p0.word] = rx_ram_p0_wdata]
                  ELSE rx_ram[b]]

\* The check sequence, as the data it is right for, and the two filters.
Own(nibble) == KindOf(nibble.of).own \/ nibble.at # AddrLen - 1
\* Mutant: an error signalled in a frame is remembered in the next.
CheckEdge_ErrKept ==
  /\ rx_fcs32' = IF rx_fsm = "HUNT" THEN [of |-> NoSender, n |-> 0]
                 ELSE IF ~DataNibble THEN rx_fcs32
                 ELSE IF rx_rdata.at = rx_fcs32.n /\ rx_fcs32.of \in {NoSender, rx_rdata.of}
                      THEN [of |-> rx_rdata.of, n |-> rx_fcs32.n + 1]
                      ELSE [of |-> NoSender, n |-> -1]
  /\ rx_addr_match' = IF rx_fsm = "HUNT" THEN TRUE
                      ELSE IF DataNibble /\ rx_nibl_cnt < AddrLen
                      THEN rx_addr_match /\ rx_rdata.at = rx_nibl_cnt /\ Own(rx_rdata)
                      ELSE rx_addr_match
  /\ rx_err_acc' = (rx_err_acc \/ (rx_fsm = "DATA" /\ rx_rdata.dv /\ rx_rdata.er))

CheckEdge ==
  /\ rx_fcs32' = IF rx_fsm = "HUNT" THEN [of |-> NoSender, n |-> 0]
                 ELSE IF ~DataNibble THEN rx_fcs32
                 ELSE IF rx_rdata.at = rx_fcs32.n /\ rx_fcs32.of \in {NoSender, rx_rdata.of}
                      THEN [of |-> rx_rdata.of, n |-> rx_fcs32.n + 1]
                      ELSE [of |-> NoSender, n |-> -1]
  /\ rx_addr_match' = IF rx_fsm = "HUNT" THEN TRUE
                      ELSE IF DataNibble /\ rx_nibl_cnt < AddrLen
                      THEN rx_addr_match /\ rx_rdata.at = rx_nibl_cnt /\ Own(rx_rdata)
                      ELSE rx_addr_match
  /\ rx_err_acc' = IF rx_fsm = "DONE" THEN FALSE
                   ELSE rx_err_acc \/ (rx_fsm = "DATA" /\ rx_rdata.dv /\ rx_rdata.er)

\* Mutant: only a frame in the first buffer interrupts.
StatusEdge_First(release, clear, freed) ==
  /\ rx_stat' = (rx_stat \cup (IF rx_frame_good THEN {cur_rx_buf} ELSE {})) \ release
  /\ rx_intr_stat' = (~clear /\ (rx_intr_stat \/ (rx_frame_good /\ cur_rx_buf = 0)))
  /\ rx_err' = [b \in RxBuffers |->
                  IF b \in freed THEN FALSE
                  ELSE IF rx_fsm = "DONE" /\ cur_rx_buf = b THEN rx_err_acc \/ rx_fcs_err
                  ELSE rx_err[b]]
  /\ rx_len' = [b \in RxBuffers |->
                  IF b \in freed THEN 0
                  ELSE IF rx_fsm = "DONE" /\ cur_rx_buf = b THEN rx_nibl_cnt ELSE rx_len[b]]

\* What the driver clears wins over what the machine sets.
StatusEdge(release, clear, freed) ==
  /\ rx_stat' = (rx_stat \cup (IF rx_frame_good THEN {cur_rx_buf} ELSE {})) \ release
  /\ rx_intr_stat' = (~clear /\ (rx_intr_stat \/ rx_frame_good))
  /\ rx_err' = [b \in RxBuffers |->
                  IF b \in freed THEN FALSE
                  ELSE IF rx_fsm = "DONE" /\ cur_rx_buf = b THEN rx_err_acc \/ rx_fcs_err
                  ELSE rx_err[b]]
  /\ rx_len' = [b \in RxBuffers |->
                  IF b \in freed THEN 0
                  ELSE IF rx_fsm = "DONE" /\ cur_rx_buf = b THEN rx_nibl_cnt ELSE rx_len[b]]

-----------------------------------------------------------------------------
(* The driver                                                              *)

RxDriver ==
  \/ rxpc = "sleep" /\ rx_intr_stat /\ rxpc' = "clear" /\ UNCHANGED rxbuf
  \/ rxpc = "clear" /\ rxpc' = "find0" /\ UNCHANGED rxbuf
  \/ /\ rxpc = "find0"
     /\ IF 0 \in rx_stat THEN rxpc' = "release" /\ rxbuf' = 0
                          ELSE rxpc' = "find1" /\ UNCHANGED rxbuf
  \/ /\ rxpc = "find1"
     /\ IF 1 \in rx_stat THEN rxpc' = "release" /\ rxbuf' = 1
                          ELSE rxpc' = "sleep" /\ UNCHANGED rxbuf
  \/ rxpc = "release" /\ rxpc' = "find0" /\ UNCHANGED rxbuf

-----------------------------------------------------------------------------
(* Edges of the two clocks                                                 *)

Release(acts) == IF acts /\ rxpc = "release" THEN {rxbuf} ELSE {}

\* Buffers whose content, length and error flag nobody looks at any more.  The
\* model forgets them, which can hide nothing: no property accepts Junk.
Freed(acts) ==
  Release(acts) \cup (IF rx_fsm = "DONE" /\ ~rx_frame_good THEN {cur_rx_buf} ELSE {})

RxEdge(acts) ==
  /\ rx_clks < RxRatio /\ rx_clks' = rx_clks + 1
  /\ IF acts THEN RxDriver ELSE UNCHANGED <<rxpc, rxbuf>>
  /\ rx_fsm' = rx_fsm_d
  /\ BufferEdge /\ NibbleEdge /\ WordEdge(Freed(acts)) /\ CheckEdge
  /\ StatusEdge(Release(acts), acts /\ rxpc = "clear", Freed(acts))
  /\ rx_fifo' = ReadEdge(rx_fifo, rx_fifo_rready)
  /\ coming' = IF rx_fsm \in {"DONE", "OVR"} /\ rx_fsm' = "IDLE" THEN Tail(coming) ELSE coming
  /\ got' = [b \in RxBuffers |->
               IF rx_frame_good /\ b = cur_rx_buf THEN Head(coming)
               ELSE IF b \in Release(acts) THEN NoFrame ELSE got[b]]
  /\ UNCHANGED <<rx_fcs_filt, rx_addr_filt, rx_fifo_wvalid, rx_fifo_wdata, phy_dv_q,
                 rx_slots, line, rest>>

\* The PHY: nibble i of a frame, counted from 1, and how many there are.
PhyNibble(k, s, i) ==
  IF i < RxPreLen THEN Entry(FALSE, TRUE, "5", NoSender, 0)
  ELSE IF i = RxPreLen THEN Entry(FALSE, TRUE, "d", NoSender, 0)
  ELSE Entry(k.er = i - RxPreLen - 1, TRUE, "data", s, i - RxPreLen - 1)
PhyLength(k) == IF k.sfd THEN RxPreLen + k.len ELSE RxPreLen - 1

Begin(k) ==
  /\ line.n = 0 /\ rest = RxGap
  /\ line' = [of |-> 1 - line.of, n |-> 1]
  /\ coming' = Append(coming, Incoming(1 - line.of, k))
  /\ rest' = 0
Continue ==
  /\ line.n # 0
  /\ line' = [line EXCEPT !.n = IF line.n = PhyLength(Last(coming).kind) THEN 0 ELSE @ + 1]
  /\ UNCHANGED <<rest, coming>>
Idle ==
  /\ line.n = 0 /\ rest' = (IF rest < RxGap THEN rest + 1 ELSE rest)
  /\ UNCHANGED <<line, coming>>
Phy == (\E k \in Kinds : Begin(k)) \/ Continue \/ Idle

phy_dv == line'.n # 0

\* The first entry without phy_dv marks the end of the frame.
ValidEdge == rx_fifo_wvalid' = (phy_dv \/ phy_dv_q)

RxPhyEdge ==
  /\ rx_clks = RxRatio /\ rx_clks' = 0
  /\ Phy
  /\ ValidEdge
  /\ rx_fifo_wdata' = IF phy_dv THEN PhyNibble(Last(coming').kind, line'.of, line'.n) ELSE Eof
  /\ phy_dv_q' = phy_dv
  /\ rx_fifo' = WriteEdge(rx_fifo, RxDepth, rx_fifo_wvalid, rx_fifo_wdata)
  /\ rx_slots' = IF Len(rx_fifo'.q) > Len(rx_fifo.q)
                 THEN Append(Tail(rx_slots), rx_fifo_wdata) ELSE rx_slots
  /\ UNCHANGED <<rx_fcs_filt, rx_addr_filt, rx_fsm, cur_rx_buf, rx_prev_nibl, rx_nibl_cnt,
                 rx_ram_p0, rx_ram_p0_wdata, rx_ram, rx_addr_match, rx_fcs32, rx_err_acc,
                 rx_stat, rx_err, rx_len, rx_intr_stat, rxpc, rxbuf, got>>

RxNext == RxPhyEdge \/ \E acts \in BOOLEAN : RxEdge(acts)

-----------------------------------------------------------------------------
(* Properties                                                              *)

\* The machine deals with every frame on the line, one after the other and
\* once, at the latest while the next arrives: none is lost in the FIFO, split,
\* or joined with the next.  It accepts a frame exactly if the filters that are
\* on let it through, whatever was on the line before.
Settled == /\ rx_fsm = "IDLE" /\ rx_fifo.q = <<>> /\ line.n = 0
           /\ ~rx_fifo_wvalid /\ ~phy_dv_q
EachFrameJudged ==
  /\ Len(coming) <= 2
  /\ Settled => coming = <<>>
  /\ rx_fsm \in {"HUNT", "DATA", "DONE", "OVR"} => coming # <<>>
  /\ rx_fcs32.of # NoSender /\ rx_fsm \in {"DATA", "DONE"} => rx_fcs32.of = Head(coming).of
  /\ rx_fsm = "DONE" =>
       LET k == Head(coming).kind
       IN rx_frame_good <=> /\ rx_addr_filt => k.own
                            /\ rx_fcs_filt => k.fcs /\ k.er = -1

\* While the status of a buffer is set, whatever the line carries, the buffer
\* holds the whole frame it was set for, with its length and error flag.
DeliveredWhole ==
  \A b \in rx_stat :
    LET k == got[b].kind
    IN /\ rx_len[b] = k.len
       /\ rx_err[b] <=> ~k.fcs \/ k.er # -1
       /\ \A i \in 0..k.len-1 :
            rx_ram[b][i \div WordLen][i % WordLen] = [of |-> got[b].of, at |-> i]
=============================================================================

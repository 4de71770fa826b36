------------------------------- MODULE EthTx --------------------------------
(***************************************************************************)
(* The transmit half of the Ethernet MAC (msftDvIp_eth_mac_lite.sv): two   *)
(* buffers the driver fills, the state machine that turns a buffer into    *)
(* nibbles, and the FIFO through which they reach the PHY's clock.         *)
(*                                                                         *)
(* TxEdge is an edge of the system clock, TxPhyEdge one of the PHY's       *)
(* transmit clock.  A nibble is what it stands for: a part of the          *)
(* preamble, a position in a buffer's content, or a position in the check  *)
(* sequence of the data it was computed over.  The driver is send_tx_frame *)
(* of the hardware tests (eth_lib.c), called over and over.                *)
(*                                                                         *)
(* Left out: the collision flags, which change no other state, and the     *)
(* transmit interrupt, which that driver does not use.                     *)
(***************************************************************************)
EXTENDS Integers, Sequences, AsyncFifo

CONSTANTS
  TxDepth, PreLen, FcsLen,  \* nibbles: FIFO, preamble with its delimiter, check sequence
  FillBelow,   \* the machine writes while it sees fewer entries
  StartAbove,  \* the PHY side starts when it sees more
  TxIfgMax,    \* TX_IFG_MAX
  CntRange,    \* 2 ^ width of tx_nibl_cnt
  TxLens,      \* bytes of the frames sent
  TxRatio,     \* system clocks per clock of the PHY
  MinGap       \* clocks of the PHY the line is idle between frames (9.6 us)

ASSUME TxAssumption ==
  /\ {TxDepth, PreLen, FcsLen, FillBelow, StartAbove, TxIfgMax, CntRange, TxRatio, MinGap}
       \subseteq Nat \ {0}
  \* Shorter frames without preamble never leave the FIFO.
  /\ \A n \in TxLens : n \in Nat /\ 2 * n > StartAbove /\ 2 * n <= CntRange

VARIABLES
  tx_raw_mode, tx_len, tx_stat, tx_ram,      \* registers and buffers
  tx_fsm, cur_tx_buf, tx_nibl_cnt, tx_nibl_req_q, tx_ram_q, tx_hwdata_cnt,
  tx_ifg_cnt, tx_fcs32, tx_fifo,             \* system clock
  tx_fifo_rready,                            \* PHY clock
  tx_clks,           \* system clocks since the last PHY clock
  txpc, txbuf,       \* the driver
  asked,             \* history: frame a buffer was handed over with, until taken
  due, sent, whole,  \* history: frame taken last, its nibbles on the line, and
                     \* whether the line has carried whole frames only
  gap                \* history: idle clocks on the line, up to MinGap

txVars == <<tx_raw_mode, tx_len, tx_stat, tx_ram, tx_fsm, cur_tx_buf, tx_nibl_cnt,
            tx_nibl_req_q, tx_ram_q, tx_hwdata_cnt, tx_ifg_cnt, tx_fcs32, tx_fifo,
            tx_fifo_rready, tx_clks, txpc, txbuf, asked, due, sent, whole, gap>>

Buffers == {0, 1}
NoId == -1
Ids == 0..3      \* contents: two per buffer, so that a new one differs from the last
Fresh(b) == 2 * b + (1 - (tx_ram[b] % 2))

NothingDue == [of |-> NoId, len |-> 0, raw |-> FALSE]
Nibble(kind, of, at, over) == [kind |-> kind, of |-> of, at |-> at, over |-> over]
Pre  == Nibble("5", NoId, 0, 0)
Sfd  == Nibble("d", NoId, 0, 0)
Data(id, i) == Nibble("data", id, i, 0)

TxInit ==
  /\ tx_raw_mode \in BOOLEAN
  /\ tx_len = [b \in Buffers |-> 0] /\ tx_stat = {} /\ tx_ram = [b \in Buffers |-> 2 * b]
  /\ tx_fsm = "IDLE" /\ cur_tx_buf = 0 /\ tx_nibl_cnt = 0 /\ tx_nibl_req_q = FALSE
  /\ tx_ram_q = Data(0, 0) /\ tx_hwdata_cnt = 0 /\ tx_ifg_cnt = 0
  /\ tx_fcs32 = [of |-> NoId, n |-> 0]
  /\ tx_fifo = EmptyFifo /\ tx_fifo_rready = FALSE /\ tx_clks = 0
  /\ txpc = "idle" /\ txbuf = 0
  /\ asked = [b \in Buffers |-> NothingDue] /\ due = NothingDue /\ sent = 0 /\ whole = TRUE
  /\ gap = MinGap

-----------------------------------------------------------------------------
(* Wires                                                                   *)

tx_nibl_cnt_max == (2 * tx_len[cur_tx_buf] - 1) % CntRange
\* Mutant: a nibble is asked for whether or not the FIFO has room.
tx_nibl_req_NoRoom == tx_fsm = "DATA"
tx_nibl_req == tx_fsm = "DATA" /\ wdepth(tx_fifo) < FillBelow
tx_hwdata_req == ~tx_raw_mode /\ tx_fsm \in {"PRE", "FCS"} /\ wdepth(tx_fifo) < FillBelow
tx_fifo_wvalid == tx_nibl_req_q \/ tx_hwdata_req
tx_fifo_wdata ==
  CASE tx_nibl_req_q -> tx_ram_q
    [] ~tx_nibl_req_q /\ tx_fsm = "PRE" -> IF tx_hwdata_cnt < PreLen - 1 THEN Pre ELSE Sfd
    [] OTHER -> Nibble("fcs", tx_fcs32.of, tx_hwdata_cnt, tx_fcs32.n)

phy_tx_en == rvalid(tx_fifo) /\ tx_fifo_rready

-----------------------------------------------------------------------------
(* The state machine                                                       *)

tx_fsm_d(phy_crs) ==
  CASE tx_fsm = "IDLE" -> IF tx_stat # {} /\ ~phy_crs THEN "PRE" ELSE "IDLE"
    [] tx_fsm = "PRE" ->
         IF tx_raw_mode \/ (tx_hwdata_cnt >= PreLen - 1 /\ tx_hwdata_req) THEN "DATA" ELSE "PRE"
    [] tx_fsm = "DATA" ->
         IF tx_nibl_cnt >= tx_nibl_cnt_max /\ tx_nibl_req THEN "WAIT1" ELSE "DATA"
    [] tx_fsm = "WAIT1" -> "FCS"
    [] tx_fsm = "FCS" ->
         IF tx_raw_mode \/ (tx_hwdata_cnt >= FcsLen - 1 /\ tx_hwdata_req) THEN "DONE" ELSE "FCS"
    [] tx_fsm = "DONE" -> "IFG"
    [] tx_fsm = "IFG" -> IF tx_ifg_cnt = TxIfgMax THEN "IDLE" ELSE "IFG"

\* Mutant: the buffer is given back as soon as it is taken.
StatEdge_Early(start) ==
  tx_stat' = (tx_stat \ (IF tx_fsm = "PRE" THEN {cur_tx_buf} ELSE {})) \cup start

\* The driver's write sets a buffer's status even on the edge that clears it.
StatEdge(start) ==
  tx_stat' = (tx_stat \ (IF tx_fsm = "DONE" THEN {cur_tx_buf} ELSE {})) \cup start

\* Mutant: the buffer is chosen again while it is being sent.
CurEdge_Always ==
  cur_tx_buf' = IF 0 \in tx_stat THEN 0 ELSE IF 1 \in tx_stat THEN 1 ELSE cur_tx_buf

CurEdge ==
  cur_tx_buf' = IF tx_fsm = "IDLE" /\ 0 \in tx_stat THEN 0
                ELSE IF tx_fsm = "IDLE" /\ 1 \in tx_stat THEN 1 ELSE cur_tx_buf

\* Mutant: the gap is counted from the start of the frame.
CountersEdge_GapEarly ==
  /\ tx_nibl_cnt' = IF tx_fsm = "DONE" THEN 0
                    ELSE IF tx_nibl_req THEN (tx_nibl_cnt + 1) % CntRange ELSE tx_nibl_cnt
  /\ tx_hwdata_cnt' = IF tx_fsm \notin {"PRE", "FCS"} THEN 0
                      ELSE IF tx_hwdata_req THEN tx_hwdata_cnt + 1 ELSE tx_hwdata_cnt
  /\ tx_ifg_cnt' = IF tx_fsm = "IDLE" \/ tx_ifg_cnt = TxIfgMax THEN 0 ELSE tx_ifg_cnt + 1

CountersEdge ==
  /\ tx_nibl_cnt' = IF tx_fsm = "DONE" THEN 0
                    ELSE IF tx_nibl_req THEN (tx_nibl_cnt + 1) % CntRange ELSE tx_nibl_cnt
  /\ tx_hwdata_cnt' = IF tx_fsm \notin {"PRE", "FCS"} THEN 0
                      ELSE IF tx_hwdata_req THEN tx_hwdata_cnt + 1 ELSE tx_hwdata_cnt
  /\ tx_ifg_cnt' = IF tx_fsm = "IFG" THEN tx_ifg_cnt + 1 ELSE 0

\* The check sequence, as the data it is right for.
FcsEdge ==
  tx_fcs32' = IF tx_fsm = "PRE" THEN [of |-> NoId, n |-> 0]
              ELSE IF ~tx_nibl_req_q THEN tx_fcs32
              ELSE IF tx_fifo_wdata.at = tx_fcs32.n /\ tx_fcs32.of \in {NoId, tx_fifo_wdata.of}
                   THEN [of |-> tx_fifo_wdata.of, n |-> tx_fcs32.n + 1]
                   ELSE [of |-> NoId, n |-> -1]

TxMacEdge(phy_crs, start) ==
  /\ tx_fsm' = tx_fsm_d(phy_crs)
  /\ StatEdge(start)
  /\ CurEdge
  /\ CountersEdge
  /\ tx_nibl_req_q' = tx_nibl_req
  /\ tx_ram_q' = IF tx_fsm = "DATA" THEN Data(tx_ram[cur_tx_buf], tx_nibl_cnt) ELSE tx_ram_q
  /\ FcsEdge
  /\ tx_fifo' = WriteEdge(tx_fifo, TxDepth, tx_fifo_wvalid, tx_fifo_wdata)

-----------------------------------------------------------------------------
(* The driver, as fast or as slow as it likes: one access per step, except *)
(* that filling a buffer and writing its length are one                    *)

Quiet == UNCHANGED <<tx_ram, tx_len>>
Goto(pc) == txpc' = pc /\ UNCHANGED txbuf

TxDriver ==
  \/ txpc = "idle" /\ Goto("poll9") /\ Quiet
  \/ txpc = "poll9" /\ Goto(IF 0 \in tx_stat THEN "poll11" ELSE "choose") /\ Quiet
  \/ txpc = "poll11" /\ Goto(IF 1 \in tx_stat THEN "poll9" ELSE "choose") /\ Quiet
  \/ txpc = "choose" /\ txpc' = "fill" /\ txbuf' = (IF 0 \in tx_stat THEN 1 ELSE 0) /\ Quiet
  \/ /\ txpc = "fill" /\ Goto("start")
     /\ tx_ram' = [tx_ram EXCEPT ![txbuf] = Fresh(txbuf)]
     /\ \E n \in TxLens : tx_len' = [tx_len EXCEPT ![txbuf] = n]
  \/ txpc = "start" /\ Goto("idle") /\ Quiet
TxRest == UNCHANGED <<txpc, txbuf>> /\ Quiet

Start(acts) == IF acts /\ txpc = "start" THEN {txbuf} ELSE {}

-----------------------------------------------------------------------------
(* Edges of the two clocks                                                 *)

TxEdge(acts, phy_crs) ==
  /\ tx_clks < TxRatio /\ tx_clks' = tx_clks + 1
  /\ IF acts THEN TxDriver ELSE TxRest
  /\ TxMacEdge(phy_crs, Start(acts))
  /\ LET taken == IF tx_fsm = "IDLE" /\ tx_fsm' = "PRE" THEN {cur_tx_buf'} ELSE {}
     IN /\ asked' = [b \in Buffers |->
                       IF b \in Start(acts)
                       THEN [of |-> tx_ram[b], len |-> 2 * tx_len[b], raw |-> tx_raw_mode]
                       ELSE IF b \in taken THEN NothingDue ELSE asked[b]]
        /\ due' = IF taken = {} THEN due ELSE asked[cur_tx_buf']
  /\ UNCHANGED <<tx_raw_mode, tx_fifo_rready, sent, whole, gap>>

\* The nibbles of a frame on the line.
Total(f) == IF f.raw THEN f.len ELSE PreLen + f.len + FcsLen
OnLine(f, i) ==
  LET k == IF f.raw THEN i ELSE i - PreLen
  IN CASE k < -1 -> Pre
       [] k = -1 -> Sfd
       [] k \in 0..f.len-1 -> Data(f.of, k)
       [] OTHER -> Nibble("fcs", f.of, k - f.len, f.len)

ReadyEdge ==
  tx_fifo_rready' = IF rdepth(tx_fifo) > StartAbove THEN TRUE
                    ELSE IF ~rvalid(tx_fifo) THEN FALSE ELSE tx_fifo_rready

TxPhyEdge ==
  /\ tx_clks = TxRatio /\ tx_clks' = 0
  /\ ReadyEdge
  /\ tx_fifo' = ReadEdge(tx_fifo, tx_fifo_rready)
  /\ IF phy_tx_en
     THEN /\ whole' = (whole /\ sent < Total(due) /\ Head(tx_fifo.q) = OnLine(due, sent))
          /\ sent' = sent + 1 /\ gap' = 0
     ELSE /\ whole' = (whole /\ sent \in {0, Total(due)})
          /\ sent' = 0 /\ gap' = IF gap < MinGap THEN gap + 1 ELSE gap
  /\ UNCHANGED <<tx_raw_mode, tx_len, tx_stat, tx_ram, tx_fsm, cur_tx_buf, tx_nibl_cnt,
                 tx_nibl_req_q, tx_ram_q, tx_hwdata_cnt, tx_ifg_cnt, tx_fcs32,
                 txpc, txbuf, asked, due>>

\* The carrier matters to an idle machine only.
Carrier == IF tx_fsm = "IDLE" THEN BOOLEAN ELSE {FALSE}

TxNext == TxPhyEdge \/ \E acts \in BOOLEAN, phy_crs \in Carrier : TxEdge(acts, phy_crs)

-----------------------------------------------------------------------------
(* Properties                                                              *)

\* What appears on the line between two pauses is a frame the driver handed
\* over, with the content and length it had then: preamble, data, check
\* sequence of exactly this data, without a pause inside.
FramesWhole == whole

\* A buffer's status is set exactly while its frame waits or is being written
\* to the FIFO: no frame is sent twice or not at all.
Sending(b) == cur_tx_buf = b /\ tx_fsm \in {"PRE", "DATA", "WAIT1", "FCS", "DONE"}
EachFrameOnce ==
  \A b \in Buffers : /\ asked[b] # NothingDue => b \in tx_stat /\ ~Sending(b)
                     /\ b \in tx_stat /\ ~Sending(b) => asked[b] # NothingDue

\* The driver's polling of two registers one after the other never leads it
\* to a buffer the machine will read.
BufferOwned ==
  txpc \in {"fill", "start"} => txbuf \notin tx_stat /\ ~Sending(txbuf)

\* Between two frames the line is idle for the inter-frame gap of 9.6 us.
GapKept == [][sent = 0 /\ sent' > 0 => gap >= MinGap]_txVars
=============================================================================

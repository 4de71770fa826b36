----------------------------- MODULE EthProofs ------------------------------
(***************************************************************************)
(* The Ethernet MAC, for any frames, FIFOs and delays.                     *)
(*                                                                         *)
(* First the protocol between send_tx_frame and the transmitter: the       *)
(* driver owns the buffer it fills, and each frame it hands over is taken  *)
(* once, whatever the clocks do.  Then what is on the line: each frame     *)
(* whole, without a pause inside and after its gap, when the PHY's clock   *)
(* is slow enough.  Last the receiver: each frame is judged by its own     *)
(* content, and delivered whole.                                           *)
(***************************************************************************)
EXTENDS EthMac, NaturalLemmas, TLAPS

-----------------------------------------------------------------------------
(* The buffers                                                             *)

Busy == {"PRE", "DATA", "WAIT1", "FCS", "DONE"}

\* The types the argument needs.
Types ==
  /\ tx_stat \subseteq Buffers /\ cur_tx_buf \in Buffers /\ txbuf \in Buffers
  /\ tx_ram \in [Buffers -> Ids]
  /\ tx_fsm \in Busy \cup {"IDLE", "IFG"}
  /\ txpc \in {"idle", "poll9", "poll11", "choose", "fill", "start"}

\* The buffer being sent has its status set until the machine is done with it.
BusyInv == tx_fsm \in Busy => cur_tx_buf \in tx_stat

\* Once a poll has found a buffer free, one is: only the driver sets a status.
PollInv == txpc = "choose" => tx_stat # Buffers

IInv == Types /\ BusyInv /\ PollInv /\ BufferOwned /\ EachFrameOnce

protocol == <<tx_stat, cur_tx_buf, txbuf, tx_ram, tx_fsm, txpc, asked>>

LEMMA Start0 == Init => IInv
  BY DEF Init, TxInit, IInv, Types, BusyInv, PollInv, BufferOwned, EachFrameOnce, Sending,
         Busy, Buffers, Ids, NothingDue, NoId

\* What an edge of the system clock does to the state of the machine.
LEMMA MachineStep ==
  ASSUME IInv, NEW acts \in BOOLEAN, NEW phy_crs \in BOOLEAN, TxMacEdge(phy_crs, Start(acts))
  PROVE  /\ tx_fsm' \in Busy \cup {"IDLE", "IFG"}
         /\ cur_tx_buf' \in Buffers
         /\ tx_stat' \subseteq Buffers
         /\ tx_stat' \subseteq tx_stat \cup Start(acts)
         /\ BusyInv'
         /\ tx_fsm' \in Busy /\ tx_fsm # "IDLE" => tx_fsm \in Busy /\ cur_tx_buf' = cur_tx_buf
         /\ tx_fsm' \in Busy /\ tx_fsm = "IDLE" => tx_fsm' = "PRE" /\ cur_tx_buf' \in tx_stat
         /\ tx_fsm = "DONE" => tx_stat' = (tx_stat \ {cur_tx_buf}) \cup Start(acts)
         /\ tx_fsm # "DONE" => tx_stat' = tx_stat \cup Start(acts)
         /\ tx_fsm \in Busy /\ tx_fsm # "DONE" => tx_fsm' \in Busy
         /\ tx_fsm = "DONE" => tx_fsm' = "IFG"
<1>1. Start(acts) \subseteq Buffers
  BY DEF Start, IInv, Types
<1>2. tx_fsm' = tx_fsm_d(phy_crs) /\ StatEdge(Start(acts)) /\ CurEdge
  BY DEF TxMacEdge
<1>3. tx_stat' = (tx_stat \ (IF tx_fsm = "DONE" THEN {cur_tx_buf} ELSE {})) \cup Start(acts)
  BY <1>2 DEF StatEdge
<1>4. tx_fsm' \in Busy \cup {"IDLE", "IFG"}
  BY <1>2 DEF tx_fsm_d, IInv, Types, Busy
<1>5. cur_tx_buf' \in Buffers
  BY <1>2 DEF CurEdge, IInv, Types, Buffers
<1>6. tx_fsm' \in Busy /\ tx_fsm # "IDLE" => tx_fsm \in Busy /\ tx_fsm # "DONE" /\ cur_tx_buf' = cur_tx_buf
  BY <1>2 DEF tx_fsm_d, CurEdge, IInv, Types, Busy
<1>7. tx_fsm' \in Busy /\ tx_fsm = "IDLE" => tx_fsm' = "PRE" /\ cur_tx_buf' \in tx_stat
  BY <1>2 DEF tx_fsm_d, CurEdge, IInv, Types, Busy, Buffers
<1>8. BusyInv'
  BY <1>3, <1>6, <1>7 DEF BusyInv, IInv
<1>9. /\ tx_fsm \in Busy /\ tx_fsm # "DONE" => tx_fsm' \in Busy
      /\ tx_fsm = "DONE" => tx_fsm' = "IFG"
  BY <1>2 DEF tx_fsm_d, Busy
<1>. QED
  BY <1>1, <1>3, <1>4, <1>5, <1>6, <1>7, <1>8, <1>9 DEF IInv, Types

\* What it does to the state of the driver.
LEMMA DriverStep ==
  ASSUME IInv, NEW acts \in BOOLEAN, IF acts THEN TxDriver ELSE TxRest
  PROVE  /\ txbuf' \in Buffers
         /\ txpc' \in {"idle", "poll9", "poll11", "choose", "fill", "start"}
         /\ tx_ram' \in [Buffers -> Ids]
         /\ txpc' = "choose" => tx_stat # Buffers /\ Start(acts) = {}
         /\ txpc' \in {"fill", "start"} => txbuf' \notin tx_stat /\ Start(acts) = {}
         /\ \A b \in Start(acts) : b = txbuf /\ txpc = "start" /\ txbuf \notin tx_stat
<1>1. Start(acts) = IF acts /\ txpc = "start" THEN {txbuf} ELSE {}
  BY DEF Start
<1>2. \A b \in Start(acts) : b = txbuf /\ txpc = "start" /\ txbuf \notin tx_stat
  BY <1>1 DEF IInv, BufferOwned
<1>3. CASE ~acts
  BY <1>1, <1>2, <1>3 DEF TxRest, Quiet, IInv, Types, PollInv, BufferOwned
<1>4. CASE acts
  <2>1. TxDriver
    BY <1>4
  <2>2. CASE txpc = "fill"
    <3>1. /\ txpc' = "start" /\ txbuf' = txbuf
          /\ tx_ram' = [tx_ram EXCEPT ![txbuf] = Fresh(txbuf)]
      BY <2>1, <2>2 DEF TxDriver, Goto
    <3>2. Fresh(txbuf) \in Ids
      BY DEF Fresh, Ids, IInv, Types, Buffers
    <3>. QED
      BY <1>1, <1>2, <2>2, <3>1, <3>2 DEF IInv, Types, BufferOwned
  <2>3. CASE txpc = "choose"
    BY <1>1, <1>2, <2>1, <2>3 DEF TxDriver, Quiet, IInv, Types, PollInv, Buffers
  <2>4. CASE txpc \notin {"fill", "choose"}
    BY <1>1, <1>2, <2>1, <2>4 DEF TxDriver, Goto, Quiet, IInv, Types, Buffers
  <2>. QED
    BY <2>2, <2>3, <2>4
<1>. QED
  BY <1>3, <1>4

\* A frame handed over is a frame.
LEMMA AskedIsFrame ==
  ASSUME Types, NEW b \in Buffers
  PROVE  [of |-> tx_ram[b], len |-> 2 * tx_len[b], raw |-> tx_raw_mode] # NothingDue
BY DEF Types, NothingDue, NoId, Ids

LEMMA EdgeStep ==
  ASSUME IInv, NEW acts \in BOOLEAN, NEW phy_crs \in BOOLEAN, TxEdge(acts, phy_crs)
  PROVE  IInv'
<1>1. TxMacEdge(phy_crs, Start(acts)) /\ IF acts THEN TxDriver ELSE TxRest
  BY DEF TxEdge
<1>2. /\ tx_fsm' \in Busy \cup {"IDLE", "IFG"}
      /\ cur_tx_buf' \in Buffers
      /\ tx_stat' \subseteq Buffers
      /\ tx_stat' \subseteq tx_stat \cup Start(acts)
      /\ BusyInv'
  BY <1>1, MachineStep
<1>3. /\ tx_fsm' \in Busy /\ tx_fsm # "IDLE" => tx_fsm \in Busy /\ cur_tx_buf' = cur_tx_buf
      /\ tx_fsm' \in Busy /\ tx_fsm = "IDLE" => tx_fsm' = "PRE" /\ cur_tx_buf' \in tx_stat
      /\ tx_fsm = "DONE" => tx_stat' = (tx_stat \ {cur_tx_buf}) \cup Start(acts)
      /\ tx_fsm # "DONE" => tx_stat' = tx_stat \cup Start(acts)
      /\ tx_fsm \in Busy /\ tx_fsm # "DONE" => tx_fsm' \in Busy
      /\ tx_fsm = "DONE" => tx_fsm' = "IFG"
  BY <1>1, MachineStep
<1>4. /\ txbuf' \in Buffers
      /\ txpc' \in {"idle", "poll9", "poll11", "choose", "fill", "start"}
      /\ tx_ram' \in [Buffers -> Ids]
      /\ txpc' = "choose" => tx_stat # Buffers /\ Start(acts) = {}
      /\ txpc' \in {"fill", "start"} => txbuf' \notin tx_stat /\ Start(acts) = {}
      /\ \A b \in Start(acts) : b = txbuf /\ txpc = "start" /\ txbuf \notin tx_stat
  BY <1>1, DriverStep
<1>5. Types'
  BY <1>2, <1>4 DEF Types
<1>6. PollInv'
  BY <1>2, <1>4 DEF PollInv, IInv, Types
<1>7. BufferOwned'
  BY <1>2, <1>4 DEF BufferOwned, BusyInv, Sending, Busy
<1>8. EachFrameOnce'
  <2>1. PICK taken : /\ taken = IF tx_fsm = "IDLE" /\ tx_fsm' = "PRE" THEN {cur_tx_buf'} ELSE {}
                     /\ asked' = [b \in Buffers |->
                          IF b \in Start(acts)
                          THEN [of |-> tx_ram[b], len |-> 2 * tx_len[b], raw |-> tx_raw_mode]
                          ELSE IF b \in taken THEN NothingDue ELSE asked[b]]
    BY DEF TxEdge
  <2>2. SUFFICES ASSUME NEW b \in Buffers
                 PROVE  asked'[b] # NothingDue <=> b \in tx_stat' /\ ~Sending(b)'
    BY DEF EachFrameOnce
  <2>3. asked[b] # NothingDue <=> b \in tx_stat /\ ~(cur_tx_buf = b /\ tx_fsm \in Busy)
    BY DEF IInv, EachFrameOnce, Sending, Busy
  <2>4. Sending(b)' <=> cur_tx_buf' = b /\ tx_fsm' \in Busy
    BY DEF Sending, Busy
  <2>5. CASE b \in Start(acts)      \* handed over on this edge, and not being sent
    <3>1. asked'[b] # NothingDue
      BY <2>1, <2>5, AskedIsFrame DEF IInv
    <3>2. b \in tx_stat' /\ b \notin tx_stat
      BY <1>3, <1>4, <2>5
    <3>3. ~(cur_tx_buf' = b /\ tx_fsm' \in Busy)
      BY <1>3, <3>2 DEF IInv, BusyInv
    <3>. QED
      BY <2>4, <3>1, <3>2, <3>3
  <2>6. CASE b \notin Start(acts) /\ b \in taken      \* taken on this edge
    BY <1>3, <2>1, <2>4, <2>6 DEF Busy
  <2>7. CASE b \notin Start(acts) /\ b \notin taken
    <3>1. asked'[b] = asked[b]
      BY <2>1, <2>7
    <3>2. Sending(b)' => cur_tx_buf = b /\ tx_fsm \in Busy
      BY <1>3, <2>1, <2>4, <2>7
    <3>3. CASE tx_fsm = "DONE"
      BY <1>3, <2>3, <2>4, <2>7, <3>1, <3>3 DEF Busy
    <3>4. CASE tx_fsm # "DONE"
      <4>1. b \in tx_stat' <=> b \in tx_stat
        BY <1>3, <2>7, <3>4
      <4>2. cur_tx_buf = b /\ tx_fsm \in Busy => Sending(b)'
        BY <1>3, <2>4, <3>4 DEF Busy
      <4>. QED
        BY <2>3, <3>1, <3>2, <4>1, <4>2
    <3>. QED
      BY <3>3, <3>4
  <2>. QED
    BY <2>5, <2>6, <2>7
<1>. QED
  BY <1>2, <1>5, <1>6, <1>7, <1>8 DEF IInv

LEMMA Stutter == ASSUME IInv, UNCHANGED protocol PROVE IInv'
BY DEF IInv, Types, BusyInv, PollInv, BufferOwned, EachFrameOnce, Sending, Busy, protocol

\* The strengthening is an invariant: every edge of either clock preserves it.
THEOREM Invariance == Spec => []IInv
<1>1. IInv /\ [Next]_vars => IInv'
  <2>. SUFFICES ASSUME IInv, [Next]_vars PROVE IInv'
    OBVIOUS
  <2>1. CASE Transmit
    <3>1. CASE TxPhyEdge
      BY <3>1, Stutter DEF TxPhyEdge, protocol
    <3>2. CASE \E acts \in BOOLEAN, phy_crs \in Carrier : TxEdge(acts, phy_crs)
      BY <3>2, EdgeStep DEF Carrier
    <3>. QED
      BY <2>1, <3>1, <3>2 DEF Transmit, TxNext
  <2>2. CASE Receive
    BY <2>2, Stutter DEF Receive, txVars, protocol
  <2>3. CASE UNCHANGED vars
    BY <2>3, Stutter DEF vars, txVars, protocol
  <2>. QED
    BY <2>1, <2>2, <2>3 DEF Next
<1>. QED
  BY Start0, <1>1, PTL DEF Spec

\* The driver polls two registers one after the other while the machine clears
\* them, and yet fills only a buffer the machine will not read.
THEOREM DriverOwnsBuffer == Spec => []BufferOwned
BY Invariance, PTL DEF IInv

\* A frame handed over waits in its buffer or has been taken, once, until the
\* buffer is free again.
THEOREM FramesTakenOnce == Spec => []EachFrameOnce
BY Invariance, PTL DEF IInv

-----------------------------------------------------------------------------
(* The line                                                                *)

\* The PHY's clock is slow enough for the FIFO never to run dry or over.
SlowTxPhy == TxRatio >= 4 /\ FillBelow >= 3 /\ FillBelow < TxDepth

\* The machine pauses long enough for the FIFO to run empty, for the line to be
\* idle for g clocks, and the three it takes to see the next frame.
Pause(g) == g \in 1 .. MinGap - 3 /\ TxRatio * (FillBelow + 4 + g) <= TxIfgMax

\* Nibbles of the frame taken last that have been written to the FIFO, and that
\* have left it.
Base == IF due.raw THEN 0 ELSE PreLen
Made == CASE tx_fsm = "PRE" -> tx_hwdata_cnt
          [] tx_fsm = "DATA" -> Base + tx_nibl_cnt - One(tx_nibl_req_q)
          [] tx_fsm = "WAIT1" -> Base + due.len - 1
          [] tx_fsm = "FCS" -> Base + due.len + tx_hwdata_cnt
          [] OTHER -> Total(due)
Queued == Len(tx_fifo.q)
Left == Made - Queued

\* What the PHY's side sees of the FIFO, what it sees after its next clock, and
\* what has been written since its last.
Visible == Queued - tx_fifo.pushes[2]
Soon == Queued - tx_fifo.pushes[1]
New == tx_fifo.pushes[1]

\* Clocks of the PHY until the frame appears on the line.
Wait == IF tx_fifo_rready THEN 0
        ELSE IF Visible > StartAbove THEN 1 ELSE IF Soon > StartAbove THEN 2 ELSE 3

Frames == [of : Ids, len : {2 * n : n \in TxLens}, raw : BOOLEAN]
Handed(b) == [of |-> tx_ram[b], len |-> 2 * tx_len[b], raw |-> tx_raw_mode]

Nibbles == [kind : {"5", "d", "data", "fcs"}, of : Ids \cup {NoId}, at : Nat, over : Nat]

TxTypes ==
  /\ tx_fifo.q \in Seq(Nibbles)
  /\ tx_raw_mode \in BOOLEAN /\ tx_fifo_rready \in BOOLEAN /\ tx_nibl_req_q \in BOOLEAN
  /\ tx_len \in [Buffers -> TxLens \cup {0}]
  /\ tx_clks \in 0 .. TxRatio
  /\ tx_nibl_cnt \in Nat /\ tx_hwdata_cnt \in Nat /\ tx_ifg_cnt \in Nat
  /\ sent \in Nat /\ gap \in 0 .. MinGap

\* What the driver handed over is still in the buffer while it is needed.
HandedInv ==
  /\ \A b \in tx_stat : tx_len[b] \in TxLens /\ (~Sending(b) => asked[b] = Handed(b))
  /\ txpc = "start" => tx_len[txbuf] \in TxLens
  /\ tx_fsm \in Busy => due = Handed(cur_tx_buf) /\ due \in Frames
  /\ due \in Frames \/ (due = NothingDue /\ tx_fsm = "IDLE" /\ tx_fifo.q = <<>>)

\* How far the machine is.
CountInv ==
  /\ tx_nibl_req_q => tx_fsm \in {"DATA", "WAIT1"}
  /\ tx_fsm \in {"IFG", "IDLE", "PRE"} => tx_nibl_cnt = 0
  /\ tx_fsm \in {"IFG", "IDLE", "WAIT1"} => tx_hwdata_cnt = 0
  /\ tx_fsm \in {"PRE", "FCS"} /\ due.raw => tx_hwdata_cnt = 0
  /\ tx_fsm = "PRE" => tx_hwdata_cnt < PreLen
  /\ tx_fsm = "FCS" => tx_hwdata_cnt < FcsLen
  /\ tx_fsm = "DATA" => tx_nibl_cnt < due.len /\ (tx_nibl_req_q => tx_nibl_cnt > 0)
  /\ tx_fsm = "WAIT1" => tx_nibl_req_q
  /\ tx_fsm \notin {"IFG", "IDLE"} => tx_ifg_cnt = 0
  /\ tx_fsm = "IFG" => tx_ifg_cnt <= TxIfgMax

\* What is in the registers between the buffer and the FIFO.
PipeInv ==
  /\ tx_nibl_req_q => tx_ram_q = Data(due.of, Made - Base)
  /\ tx_fsm \in {"DATA", "WAIT1", "FCS"} =>
       LET n == IF tx_fsm = "FCS" THEN due.len ELSE Made - Base
       IN tx_fcs32 = IF n = 0 THEN [of |-> NoId, n |-> 0] ELSE [of |-> due.of, n |-> n]

\* The FIFO holds the nibbles between what has been written and what has left.
ContentInv ==
  /\ Left \in 0 .. Total(due)
  /\ \A i \in 1 .. Queued : tx_fifo.q[i] = OnLine(due, Left + i - 1)

LevelInv ==
  /\ tx_fifo.pushes[1] \in Nat /\ tx_fifo.pushes[2] \in Nat
  /\ tx_fifo.pushes[1] <= tx_fifo.pushes[2] /\ tx_fifo.pushes[2] <= Queued
  /\ tx_fifo.pops[1] \in {0, 1} /\ tx_fifo.pops[2] \in {0, 1}
  /\ tx_fifo.pops[1] <= tx_fifo.pops[2]
  /\ tx_clks >= 1 => tx_fifo.pops[1] = 0
  /\ tx_clks >= 2 => tx_fifo.pops[2] = 0
  /\ wdepth(tx_fifo) + One(tx_nibl_req_q) <= FillBelow + 1

\* The line.
SentInv ==
  /\ sent = Left \/ (sent = 0 /\ Left = Total(due))
  /\ ~tx_fifo_rready => sent = 0
  /\ tx_fifo.q = <<>> /\ gap > 0 => ~tx_fifo_rready /\ sent = 0

\* Once on the line, a frame does not pause: until the machine has written it all
\* the FIFO does not run low.
FlowInv ==
  tx_fifo_rready =>
    /\ Made < Total(due) \/ tx_fifo.q # <<>> => Visible >= 1
    /\ Made < Total(due) \/ New > 0 => Soon >= 2
    /\ Made < Total(due) /\ New = 0 /\ tx_clks >= 3 =>
         Queued >= FillBelow \/ (tx_clks = 3 /\ tx_nibl_req_q)

\* Clocks of the PHY until the line has been idle for g, at most.
Need(g) == IF tx_fifo.q # <<>> THEN Queued + Wait + g
           ELSE IF gap < g THEN g - gap ELSE 0
PauseInv(g) ==
  /\ tx_fsm = "IFG" => TxRatio * Need(g) <= TxIfgMax - tx_ifg_cnt + tx_clks
  /\ tx_fsm = "IDLE" => Need(g) = 0
  /\ Left = 0 => gap + Wait >= g + 3

TxIInv(g) == IInv /\ TxTypes /\ HandedInv /\ CountInv /\ PipeInv /\ ContentInv /\ LevelInv
             /\ SentInv /\ FlowInv /\ PauseInv(g) /\ FramesWhole

LEMMA TxSizes ==
  /\ TxDepth \in Nat /\ PreLen \in Nat /\ FcsLen \in Nat /\ FillBelow \in Nat /\ StartAbove \in Nat
  /\ TxIfgMax \in Nat /\ CntRange \in Nat /\ TxRatio \in Nat /\ MinGap \in Nat
  /\ TxDepth > 0 /\ PreLen > 0 /\ FcsLen > 0 /\ FillBelow > 0 /\ StartAbove > 0
  /\ TxIfgMax > 0 /\ CntRange > 0 /\ TxRatio > 0 /\ MinGap > 0
  BY TxAssumption

USE TxSizes

LEMMA FrameLengths ==
  ASSUME NEW f \in Frames
  PROVE  /\ f.of \in Ids /\ f.raw \in BOOLEAN /\ f.len \in Nat
         /\ f.len > StartAbove /\ f.len <= CntRange
<1>1. PICK n \in TxLens : f.len = 2 * n  BY DEF Frames
<1>2. n \in Nat /\ 2 * n > StartAbove /\ 2 * n <= CntRange  BY TxAssumption
<1>3. f.of \in Ids /\ f.raw \in BOOLEAN  BY DEF Frames
<1>. QED  BY <1>1, <1>2, <1>3

\* The frame taken last.
LEMMA Taking ==
  ASSUME HandedInv
  PROVE  /\ due.len \in Nat /\ due.raw \in BOOLEAN /\ Base \in Nat /\ Total(due) \in Nat
         /\ Total(due) > 0
         /\ due.raw => Base = 0 /\ Total(due) = due.len
         /\ ~due.raw => Base = PreLen /\ Total(due) = PreLen + due.len + FcsLen
         /\ due \in Frames => due.of \in Ids /\ due.len > StartAbove /\ due.len <= CntRange
                              /\ Total(due) > StartAbove
         /\ tx_fsm # "IDLE" => due \in Frames
<1>1. CASE due \in Frames
  <2>1. due.of \in Ids /\ due.raw \in BOOLEAN /\ due.len \in Nat /\ due.len > StartAbove /\ due.len <= CntRange
    BY <1>1, FrameLengths
  <2>2. CASE due.raw  BY <1>1, <2>1, <2>2 DEF Base, Total
  <2>3. CASE ~due.raw  BY <1>1, <2>1, <2>3 DEF Base, Total
  <2>. QED  BY <2>1, <2>2, <2>3
<1>2. CASE due \notin Frames
  <2>1. due = NothingDue /\ tx_fsm = "IDLE"  BY <1>2 DEF HandedInv
  <2>. QED  BY <1>2, <2>1 DEF NothingDue, Base, Total
<1>. QED  BY <1>1, <1>2

\* The nibbles of a frame, part by part.
LEMMA Parts ==
  ASSUME HandedInv, due \in Frames
  PROVE  /\ ~due.raw => /\ \A i \in Nat : i < PreLen - 1 => OnLine(due, i) = Pre
                        /\ OnLine(due, PreLen - 1) = Sfd
                        /\ \A j \in Nat : j < FcsLen =>
                             OnLine(due, Base + due.len + j) = Nibble("fcs", due.of, j, due.len)
         /\ \A j \in Nat : j < due.len => OnLine(due, Base + j) = Data(due.of, j)
<1>1. /\ due.len \in Nat /\ due.raw \in BOOLEAN
      /\ due.raw => Base = 0
      /\ ~due.raw => Base = PreLen
  BY Taking
<1>2. ASSUME NEW i \in Int
      PROVE  LET k == IF due.raw THEN i ELSE i - PreLen
             IN /\ k < -1 => OnLine(due, i) = Pre
                /\ k = -1 => OnLine(due, i) = Sfd
                /\ k \in 0 .. due.len - 1 => OnLine(due, i) = Data(due.of, k)
                /\ k >= due.len => OnLine(due, i) = Nibble("fcs", due.of, k - due.len, due.len)
  <2> DEFINE k == IF due.raw THEN i ELSE i - PreLen
  <2>1. k \in Int  OBVIOUS
  <2>2. OnLine(due, i) = CASE k < -1 -> Pre
                           [] k = -1 -> Sfd
                           [] k \in 0..due.len-1 -> Data(due.of, k)
                           [] OTHER -> Nibble("fcs", due.of, k - due.len, due.len)
    BY DEF OnLine
  <2> HIDE DEF k
  <2>3. /\ k < -1 => OnLine(due, i) = Pre
        /\ k = -1 => OnLine(due, i) = Sfd
        /\ k \in 0 .. due.len - 1 => OnLine(due, i) = Data(due.of, k)
        /\ k >= due.len => OnLine(due, i) = Nibble("fcs", due.of, k - due.len, due.len)
    <3>1. CASE k < -1  BY <1>1, <2>1, <2>2, <3>1
    <3>2. CASE k = -1  BY <1>1, <2>1, <2>2, <3>2
    <3>3. CASE k \in 0 .. due.len - 1  BY <1>1, <2>1, <2>2, <3>3
    <3>4. CASE k >= due.len  BY <1>1, <2>1, <2>2, <3>4
    <3>. QED  BY <1>1, <2>1, <3>1, <3>2, <3>3, <3>4
  <2>. QED  BY <2>3 DEF k
<1>3. ASSUME ~due.raw, NEW i \in Nat, i < PreLen - 1 PROVE OnLine(due, i) = Pre
  BY <1>2, <1>3
<1>4. ASSUME ~due.raw PROVE OnLine(due, PreLen - 1) = Sfd
  <2>1. PreLen - 1 \in Int /\ PreLen - 1 - PreLen = -1  OBVIOUS
  <2>. QED  BY <1>2, <1>4, <2>1
<1>5. ASSUME ~due.raw, NEW j \in Nat, j < FcsLen
      PROVE  OnLine(due, Base + due.len + j) = Nibble("fcs", due.of, j, due.len)
  <2> DEFINE i == Base + due.len + j  k == i - PreLen
  <2>1. i \in Int /\ k >= due.len /\ k - due.len = j  BY <1>1, <1>5
  <2> HIDE DEF i
  <2>2. OnLine(due, i) = Nibble("fcs", due.of, k - due.len, due.len)  BY <1>2, <1>5, <2>1
  <2>. QED  BY <2>1, <2>2 DEF i
<1>6. ASSUME NEW j \in Nat, j < due.len
      PROVE  OnLine(due, Base + j) = Data(due.of, j)
  <2> DEFINE i == Base + j  k == IF due.raw THEN i ELSE i - PreLen
  <2>1. i \in Int /\ k = j /\ k \in 0 .. due.len - 1  BY <1>1, <1>6
  <2> HIDE DEF i
  <2>2. OnLine(due, i) = Data(due.of, k)  BY <1>2, <2>1
  <2>. QED  BY <2>1, <2>2 DEF i
<1>. QED  BY <1>3, <1>4, <1>5, <1>6

\* How much has been written, by the state of the machine.
LEMMA Counted ==
  ASSUME TxTypes, HandedInv, CountInv
  PROVE  /\ Made \in Nat /\ Made <= Total(due)
         /\ tx_fsm = "PRE" => /\ Made = tx_hwdata_cnt /\ Made < Total(due)
                              /\ IF due.raw THEN Made = 0 ELSE Made < PreLen
         /\ tx_fsm = "DATA" => /\ Made = Base + tx_nibl_cnt - One(tx_nibl_req_q)
                               /\ Made - Base \in Nat /\ Made - Base < due.len /\ Made < Total(due)
         /\ tx_fsm = "WAIT1" => /\ Made = Base + due.len - 1 /\ Made < Total(due)
                                /\ Made - Base = due.len - 1 /\ due.len - 1 \in Nat
         /\ tx_fsm = "FCS" => /\ Made = Base + due.len + tx_hwdata_cnt
                              /\ IF due.raw THEN Made = Total(due) ELSE Made < Total(due)
         /\ tx_fsm \in {"IDLE", "DONE", "IFG"} => Made = Total(due)
<1>1. /\ due.len \in Nat /\ due.raw \in BOOLEAN /\ Base \in Nat /\ Total(due) \in Nat
      /\ Total(due) > 0
      /\ due.raw => Base = 0 /\ Total(due) = due.len
      /\ ~due.raw => Base = PreLen /\ Total(due) = PreLen + due.len + FcsLen
      /\ tx_fsm # "IDLE" => due.len > 0
  BY Taking
<1>2. tx_hwdata_cnt \in Nat /\ tx_nibl_cnt \in Nat /\ tx_nibl_req_q \in BOOLEAN  BY DEF TxTypes
<1> HIDE DEF Base, Total
<1>3. CASE tx_fsm = "PRE"
  <2>1. Made = tx_hwdata_cnt  BY <1>3 DEF Made
  <2>2. tx_hwdata_cnt < PreLen /\ (due.raw => tx_hwdata_cnt = 0)  BY <1>3 DEF CountInv
  <2>. QED  BY <1>1, <1>2, <1>3, <2>1, <2>2
<1>4. CASE tx_fsm = "DATA"
  <2>1. Made = Base + tx_nibl_cnt - One(tx_nibl_req_q)  BY <1>4 DEF Made
  <2>2. tx_nibl_cnt < due.len /\ (tx_nibl_req_q => tx_nibl_cnt > 0)  BY <1>4 DEF CountInv
  <2>3. One(tx_nibl_req_q) \in {0, 1} /\ (One(tx_nibl_req_q) = 1 => tx_nibl_cnt > 0)
    BY <2>2 DEF One
  <2> HIDE DEF One
  <2>. QED  BY <1>1, <1>2, <1>4, <2>1, <2>2, <2>3
<1>5. CASE tx_fsm = "WAIT1"
  <2>1. Made = Base + due.len - 1  BY <1>5 DEF Made
  <2>. QED  BY <1>1, <1>5, <2>1
<1>6. CASE tx_fsm = "FCS"
  <2>1. Made = Base + due.len + tx_hwdata_cnt  BY <1>6 DEF Made
  <2>2. tx_hwdata_cnt < FcsLen /\ (due.raw => tx_hwdata_cnt = 0)  BY <1>6 DEF CountInv
  <2>. QED  BY <1>1, <1>2, <1>6, <2>1, <2>2
<1>7. CASE tx_fsm \notin {"PRE", "DATA", "WAIT1", "FCS"}
  <2>1. Made = Total(due)  BY <1>7 DEF Made
  <2>. QED  BY <1>1, <1>7, <2>1
<1>. QED  BY <1>3, <1>4, <1>5, <1>6, <1>7

\* A nibble that is written fits, is the next of the frame, and what it is.
LEMMA Writes ==
  ASSUME TxTypes, HandedInv, CountInv, PipeInv, LevelInv, SlowTxPhy
  PROVE  /\ tx_fifo_wvalid \in BOOLEAN
         /\ tx_fifo_wvalid <=> \/ tx_nibl_req_q
                               \/ /\ tx_fsm \in {"PRE", "FCS"} /\ ~due.raw
                                  /\ wdepth(tx_fifo) < FillBelow
         /\ tx_fifo_wvalid => /\ wdepth(tx_fifo) < TxDepth /\ Made < Total(due)
                              /\ tx_fifo_wdata = OnLine(due, Made) /\ tx_fifo_wdata \in Nibbles
<1>1. /\ due.len \in Nat /\ due.raw \in BOOLEAN /\ Base \in Nat
      /\ due.raw => Base = 0
      /\ ~due.raw => Base = PreLen
      /\ tx_fsm # "IDLE" => due \in Frames /\ due.of \in Ids
  BY Taking
<1>2. tx_fsm \in Busy => tx_raw_mode = due.raw  BY DEF HandedInv, Handed
<1>3. tx_nibl_req_q \in BOOLEAN /\ tx_raw_mode \in BOOLEAN /\ tx_hwdata_cnt \in Nat  BY DEF TxTypes
<1>4. wdepth(tx_fifo) \in Int
  <2>1. Len(tx_fifo.q) \in Nat  BY DEF TxTypes
  <2>2. tx_fifo.pops[2] \in {0, 1}  BY DEF LevelInv
  <2>. QED  BY <2>1, <2>2 DEF wdepth
<1>5. tx_fifo_wvalid <=> \/ tx_nibl_req_q
                         \/ /\ tx_fsm \in {"PRE", "FCS"} /\ ~due.raw
                            /\ wdepth(tx_fifo) < FillBelow
  BY <1>2 DEF tx_fifo_wvalid, tx_hwdata_req, Busy
<1>6. CASE tx_nibl_req_q
  <2>1. tx_fsm \in {"DATA", "WAIT1"}  BY <1>6 DEF CountInv
  <2>2. Made - Base \in Nat /\ Made - Base < due.len /\ Made < Total(due) /\ Made \in Nat
    <3>1. CASE tx_fsm = "DATA"  BY <3>1, Counted
    <3>2. CASE tx_fsm = "WAIT1"  BY <1>1, <3>2, Counted
    <3>. QED  BY <2>1, <3>1, <3>2
  <2>3. tx_fifo_wdata = Data(due.of, Made - Base)  BY <1>6 DEF tx_fifo_wdata, PipeInv
  <2>4. OnLine(due, Base + (Made - Base)) = Data(due.of, Made - Base)
    BY <1>1, <2>1, <2>2, Parts
  <2>5. Base + (Made - Base) = Made  BY <1>1, <2>2
  <2>6. Data(due.of, Made - Base) \in Nibbles  BY <1>1, <2>1, <2>2 DEF Data, Nibble, Nibbles
  <2>7. wdepth(tx_fifo) < TxDepth
    <3>1. wdepth(tx_fifo) + 1 <= FillBelow + 1  BY <1>6 DEF LevelInv, One
    <3>. QED  BY <1>4, <3>1 DEF SlowTxPhy
  <2>. QED  BY <1>5, <1>6, <2>2, <2>3, <2>4, <2>5, <2>6, <2>7 DEF tx_fifo_wvalid
<1>7. CASE ~tx_nibl_req_q /\ tx_fsm = "PRE" /\ ~due.raw /\ wdepth(tx_fifo) < FillBelow
  <2>1. Made = tx_hwdata_cnt /\ Made \in Nat /\ Made < PreLen /\ Made < Total(due)
    BY <1>1, <1>7, Counted
  <2>2. tx_fifo_wdata = IF Made < PreLen - 1 THEN Pre ELSE Sfd
    BY <1>7, <2>1 DEF tx_fifo_wdata
  <2>3. OnLine(due, Made) = IF Made < PreLen - 1 THEN Pre ELSE Sfd
    <3>1. CASE Made < PreLen - 1  BY <1>1, <1>7, <2>1, <3>1, Parts
    <3>2. CASE ~(Made < PreLen - 1)
      <4>1. Made = PreLen - 1  BY <2>1, <3>2
      <4>. QED  BY <1>1, <1>7, <3>2, <4>1, Parts
    <3>. QED  BY <3>1, <3>2
  <2>4. Pre \in Nibbles /\ Sfd \in Nibbles  BY DEF Pre, Sfd, Nibble, Nibbles
  <2>5. wdepth(tx_fifo) < TxDepth  BY <1>4, <1>7 DEF SlowTxPhy
  <2>6. tx_fifo_wdata \in Nibbles  BY <2>2, <2>4
  <2>. QED  BY <1>5, <1>7, <2>1, <2>2, <2>3, <2>5, <2>6 DEF tx_fifo_wvalid
<1>8. CASE ~tx_nibl_req_q /\ tx_fsm = "FCS" /\ ~due.raw /\ wdepth(tx_fifo) < FillBelow
  <2>1. Made = Base + due.len + tx_hwdata_cnt /\ Made < Total(due) /\ tx_hwdata_cnt < FcsLen
    BY <1>1, <1>8, Counted DEF CountInv
  <2>2. tx_fcs32 = [of |-> due.of, n |-> due.len]
    <3>1. due.len # 0  BY <1>1, <1>8, FrameLengths
    <3>. QED  BY <1>8, <3>1 DEF PipeInv
  <2>3. tx_fifo_wdata = Nibble("fcs", due.of, tx_hwdata_cnt, due.len)
    BY <1>8, <2>2 DEF tx_fifo_wdata
  <2>4. OnLine(due, Made) = Nibble("fcs", due.of, tx_hwdata_cnt, due.len)
    BY <1>1, <1>3, <1>8, <2>1, Parts
  <2>5. wdepth(tx_fifo) < TxDepth  BY <1>4, <1>8 DEF SlowTxPhy
  <2>6. Nibble("fcs", due.of, tx_hwdata_cnt, due.len) \in Nibbles
    BY <1>1, <1>3, <1>8 DEF Nibble, Nibbles
  <2>. QED  BY <1>5, <1>8, <2>1, <2>3, <2>4, <2>5, <2>6 DEF tx_fifo_wvalid
<1>. QED  BY <1>5, <1>6, <1>7, <1>8 DEF tx_fifo_wvalid

\* What an edge of the system clock does to the FIFO: nothing is lost.
LEMMA EdgeWrites ==
  ASSUME TxTypes, HandedInv, CountInv, PipeInv, LevelInv, SlowTxPhy,
         NEW acts \in BOOLEAN, NEW phy_crs \in BOOLEAN, TxEdge(acts, phy_crs)
  PROVE  /\ tx_fifo'.q = IF tx_fifo_wvalid THEN Append(tx_fifo.q, OnLine(due, Made)) ELSE tx_fifo.q
         /\ tx_fifo'.pushes[1] = tx_fifo.pushes[1] + One(tx_fifo_wvalid)
         /\ tx_fifo'.pushes[2] = tx_fifo.pushes[2] + One(tx_fifo_wvalid)
         /\ tx_fifo'.pops[1] = 0 /\ tx_fifo'.pops[2] = tx_fifo.pops[1]
         /\ tx_fifo'.q \in Seq(Nibbles) /\ Queued \in Nat /\ Queued' = Queued + One(tx_fifo_wvalid)
         /\ Visible' = Visible /\ Soon' = Soon /\ New' = New + One(tx_fifo_wvalid)
<1>1. tx_fifo' = WriteEdge(tx_fifo, TxDepth, tx_fifo_wvalid, tx_fifo_wdata)
  BY DEF TxEdge, TxMacEdge
<1>2. tx_fifo.q \in Seq(Nibbles) /\ Queued \in Nat  BY DEF TxTypes, Queued
<1>3. tx_fifo.pushes[1] \in Nat /\ tx_fifo.pushes[2] \in Nat  BY DEF LevelInv
<1>4. CASE tx_fifo_wvalid
  <2>1. wdepth(tx_fifo) < TxDepth /\ tx_fifo_wdata = OnLine(due, Made) /\ tx_fifo_wdata \in Nibbles
    BY <1>4, Writes
  <2>2. tx_fifo' = [q |-> Append(tx_fifo.q, tx_fifo_wdata), pops |-> <<0, tx_fifo.pops[1]>>,
                    pushes |-> <<tx_fifo.pushes[1] + 1, tx_fifo.pushes[2] + 1>>]
    BY <1>1, <1>4, <2>1 DEF WriteEdge, One
  <2>3. tx_fifo'.q = Append(tx_fifo.q, tx_fifo_wdata)  BY <2>2
  <2>4. tx_fifo'.q \in Seq(Nibbles) /\ Len(tx_fifo'.q) = Len(tx_fifo.q) + 1  BY <1>2, <2>1, <2>3
  <2>5. /\ tx_fifo'.pushes[1] = tx_fifo.pushes[1] + 1 /\ tx_fifo'.pushes[2] = tx_fifo.pushes[2] + 1
        /\ tx_fifo'.pops[1] = 0 /\ tx_fifo'.pops[2] = tx_fifo.pops[1]
    BY <2>2
  <2>6. One(tx_fifo_wvalid) = 1  BY <1>4 DEF One
  <2>7. Queued' = Queued + 1  BY <2>4 DEF Queued
  <2>8. Visible' = Visible
    <3>1. Visible' = Queued' - tx_fifo'.pushes[2]  BY DEF Visible
    <3> DEFINE p == tx_fifo.pushes[2]  pp == tx_fifo'.pushes[2]
    <3>2. p \in Nat /\ pp = p + One(tx_fifo_wvalid)  BY <1>3, <2>5, <2>6
    <3>3. Visible = Queued - p  BY DEF Visible
    <3> HIDE DEF p, pp
    <3>. QED  BY <1>2, <2>6, <2>7, <3>1, <3>2, <3>3 DEF pp
  <2>9. Soon' = Soon
    <3>1. Soon' = Queued' - tx_fifo'.pushes[1]  BY DEF Soon
    <3> DEFINE p == tx_fifo.pushes[1]  pp == tx_fifo'.pushes[1]
    <3>2. p \in Nat /\ pp = p + One(tx_fifo_wvalid)  BY <1>3, <2>5, <2>6
    <3>3. Soon = Queued - p  BY DEF Soon
    <3> HIDE DEF p, pp
    <3>. QED  BY <1>2, <2>6, <2>7, <3>1, <3>2, <3>3 DEF pp
  <2>10. New' = New + 1  BY <2>5 DEF New
  <2>. QED  BY <1>2, <1>4, <2>1, <2>3, <2>4, <2>5, <2>6, <2>7, <2>8, <2>9, <2>10
<1>5. CASE ~tx_fifo_wvalid
  <2>2. tx_fifo' = [q |-> tx_fifo.q, pops |-> <<0, tx_fifo.pops[1]>>,
                    pushes |-> <<tx_fifo.pushes[1] + 0, tx_fifo.pushes[2] + 0>>]
    BY <1>1, <1>5 DEF WriteEdge, One
  <2>3. tx_fifo'.q = tx_fifo.q  BY <2>2
  <2>5. /\ tx_fifo'.pushes[1] = tx_fifo.pushes[1] /\ tx_fifo'.pushes[2] = tx_fifo.pushes[2]
        /\ tx_fifo'.pops[1] = 0 /\ tx_fifo'.pops[2] = tx_fifo.pops[1]
    BY <1>3, <2>2
  <2>6. One(tx_fifo_wvalid) = 0  BY <1>5 DEF One
  <2>7. Queued' = Queued  BY <2>3 DEF Queued
  <2>8. Visible' = Visible
    <3>1. Visible' = Queued' - tx_fifo'.pushes[2]  BY DEF Visible
    <3> DEFINE p == tx_fifo.pushes[2]  pp == tx_fifo'.pushes[2]
    <3>2. p \in Nat /\ pp = p + One(tx_fifo_wvalid)  BY <1>3, <2>5, <2>6
    <3>3. Visible = Queued - p  BY DEF Visible
    <3> HIDE DEF p, pp
    <3>. QED  BY <1>2, <2>6, <2>7, <3>1, <3>2, <3>3 DEF pp
  <2>9. Soon' = Soon
    <3>1. Soon' = Queued' - tx_fifo'.pushes[1]  BY DEF Soon
    <3> DEFINE p == tx_fifo.pushes[1]  pp == tx_fifo'.pushes[1]
    <3>2. p \in Nat /\ pp = p + One(tx_fifo_wvalid)  BY <1>3, <2>5, <2>6
    <3>3. Soon = Queued - p  BY DEF Soon
    <3> HIDE DEF p, pp
    <3>. QED  BY <1>2, <2>6, <2>7, <3>1, <3>2, <3>3 DEF pp
  <2>10. New' = New  BY <2>5 DEF New
  <2>11. New \in Nat  BY <1>3 DEF New
  <2>. QED  BY <1>2, <1>3, <1>5, <2>3, <2>5, <2>6, <2>7, <2>8, <2>9, <2>10, <2>11
<1>. QED  BY <1>4, <1>5

\* A remainder of a number below the divisor is the number.
LEMMA Below ==
  ASSUME NEW m \in Nat \ {0}, NEW x \in 0 .. m - 1
  PROVE  x % m = x
<1>1. (m * 0 + x) % m = x  BY Remainder
<1>2. m * 0 + x = x  OBVIOUS
<1>. QED  BY <1>1, <1>2

\* The machine takes one step; what it has counted grows by what it wrote.
LEMMA Advances ==
  ASSUME IInv, TxTypes, HandedInv, CountInv, PipeInv, LevelInv, SlowTxPhy,
         NEW acts \in BOOLEAN, NEW phy_crs \in BOOLEAN, TxEdge(acts, phy_crs),
         tx_fsm \notin {"IDLE", "IFG"}, due' = due
  PROVE  /\ CountInv' /\ tx_fsm' # "IDLE" /\ (tx_fsm' = "IFG" => tx_fsm = "DONE")
         /\ tx_fsm' = "PRE" => tx_fsm = "PRE"
         /\ Made' = Made + One(tx_fifo_wvalid)
<1>1. /\ due.len \in Nat /\ due.raw \in BOOLEAN /\ Base \in Nat /\ Total(due) \in Nat
      /\ due.raw => Base = 0 /\ Total(due) = due.len
      /\ ~due.raw => Base = PreLen /\ Total(due) = PreLen + due.len + FcsLen
      /\ due.len > StartAbove /\ due.len <= CntRange
  BY Taking
<1>2. tx_hwdata_cnt \in Nat /\ tx_nibl_cnt \in Nat /\ tx_nibl_req_q \in BOOLEAN  BY DEF TxTypes
<1>3. Base' = Base /\ Total(due)' = Total(due)  BY DEF Base, Total
<1>4. /\ tx_nibl_cnt' = IF tx_fsm = "DONE" THEN 0
                        ELSE IF tx_nibl_req THEN (tx_nibl_cnt + 1) % CntRange ELSE tx_nibl_cnt
      /\ tx_hwdata_cnt' = IF tx_fsm \notin {"PRE", "FCS"} THEN 0
                          ELSE IF tx_hwdata_req THEN tx_hwdata_cnt + 1 ELSE tx_hwdata_cnt
      /\ tx_ifg_cnt' = IF tx_fsm = "IFG" THEN tx_ifg_cnt + 1 ELSE 0
      /\ tx_nibl_req_q' = tx_nibl_req
  BY DEF TxEdge, TxMacEdge, CountersEdge
<1>5. tx_fsm' = tx_fsm_d(phy_crs)  BY DEF TxEdge, TxMacEdge
<1>6. tx_ifg_cnt' = 0  BY <1>4
<1>7. tx_fsm \in Busy  BY DEF IInv, Types
<1>8. tx_raw_mode = due.raw /\ due = Handed(cur_tx_buf)  BY <1>7 DEF HandedInv, Handed
<1>9. /\ tx_fsm # "DATA" => ~tx_nibl_req
      /\ tx_nibl_req_q => tx_fsm \in {"DATA", "WAIT1"}
  BY DEF tx_nibl_req, CountInv
<1> HIDE DEF Total, Base
<1>10. CASE tx_fsm = "PRE"
  <2>1. Made = tx_hwdata_cnt /\ tx_hwdata_cnt < PreLen /\ (due.raw => tx_hwdata_cnt = 0) /\ tx_nibl_cnt = 0
    BY <1>10, Counted DEF CountInv
  <2>2. tx_nibl_cnt' = 0 /\ tx_nibl_req_q' = FALSE  BY <1>4, <1>9, <1>10, <2>1
  <2>3. tx_fifo_wvalid <=> tx_hwdata_req  BY <1>9, <1>10 DEF tx_fifo_wvalid
  <2>4. due.raw => ~tx_hwdata_req  BY <1>8 DEF tx_hwdata_req
  <2>5. tx_hwdata_cnt' = tx_hwdata_cnt + One(tx_fifo_wvalid)  BY <1>2, <1>4, <1>10, <2>3 DEF One
  <2>6. tx_fsm' = IF due.raw \/ (tx_hwdata_cnt >= PreLen - 1 /\ tx_hwdata_req) THEN "DATA" ELSE "PRE"
    BY <1>5, <1>8, <1>10 DEF tx_fsm_d
  <2>7. One(tx_nibl_req_q)' = 0  BY <2>2 DEF One
  <2>8. CASE tx_fsm' = "PRE"
    <3>1. Made' = tx_hwdata_cnt'  BY <2>8 DEF Made
    <3>2. ~due.raw /\ (tx_hwdata_cnt >= PreLen - 1 => ~tx_hwdata_req)  BY <2>6, <2>8
    <3>3. tx_hwdata_cnt' < PreLen
      <4>1. CASE tx_hwdata_req  BY <1>2, <2>1, <2>3, <2>5, <3>2, <4>1 DEF One
      <4>2. CASE ~tx_hwdata_req  BY <1>2, <2>1, <2>3, <2>5, <4>2 DEF One
      <4>. QED  BY <4>1, <4>2
    <3>. QED  BY <1>6, <1>10, <2>1, <2>2, <2>5, <2>8, <3>1, <3>2, <3>3 DEF CountInv
  <2>9. CASE tx_fsm' = "DATA"
    <3>1. Made' = Base + tx_nibl_cnt' - One(tx_nibl_req_q)'  BY <1>3, <2>9 DEF Made
    <3>2. Made' = Made + One(tx_fifo_wvalid)
      <4>1. CASE due.raw  BY <1>1, <1>2, <2>1, <2>2, <2>3, <2>4, <2>7, <3>1, <4>1 DEF One
      <4>2. CASE ~due.raw
        <5>1. tx_hwdata_cnt = PreLen - 1 /\ tx_fifo_wvalid  BY <1>2, <2>1, <2>3, <2>6, <2>9, <4>2
        <5>. QED  BY <1>1, <2>1, <2>2, <2>7, <3>1, <4>2, <5>1 DEF One
      <4>. QED  BY <4>1, <4>2
    <3>. QED  BY <1>1, <1>6, <2>2, <2>9, <3>2 DEF CountInv
  <2>. QED  BY <2>6, <2>8, <2>9
<1>11. CASE tx_fsm = "DATA"
  <2>1. Made = Base + tx_nibl_cnt - One(tx_nibl_req_q) /\ tx_nibl_cnt < due.len
    BY <1>11, Counted DEF CountInv
  <2>2. tx_fifo_wvalid <=> tx_nibl_req_q  BY <1>11 DEF tx_fifo_wvalid, tx_hwdata_req
  <2>3. One(tx_fifo_wvalid) = One(tx_nibl_req_q) /\ One(tx_nibl_req_q) \in Nat  BY <2>2 DEF One
  <2>4. tx_nibl_cnt_max = due.len - 1
    <3>1. due.len = 2 * tx_len[cur_tx_buf]  BY <1>8 DEF Handed
    <3>2. due.len - 1 \in 0 .. CntRange - 1  BY <1>1
    <3>3. (due.len - 1) % CntRange = due.len - 1  BY <3>2, Below
    <3>. QED  BY <3>1, <3>3 DEF tx_nibl_cnt_max
  <2>5. tx_fsm' = IF tx_nibl_cnt >= due.len - 1 /\ tx_nibl_req THEN "WAIT1" ELSE "DATA"
    BY <1>5, <1>11, <2>4 DEF tx_fsm_d
  <2>6. tx_hwdata_cnt' = 0  BY <1>4, <1>11
  <2>7. CASE tx_fsm' = "WAIT1"
    <3>1. tx_nibl_cnt = due.len - 1 /\ tx_nibl_req  BY <1>1, <1>2, <2>1, <2>5, <2>7
    <3>2. Made' = Base + due.len - 1  BY <1>3, <2>7 DEF Made
    <3>3. Made' = Made + One(tx_fifo_wvalid)  BY <1>1, <2>1, <2>3, <3>1, <3>2
    <3>. QED  BY <1>4, <1>6, <2>6, <2>7, <3>1, <3>3 DEF CountInv
  <2>8. CASE tx_fsm' = "DATA"
    <3>1. Made' = Base + tx_nibl_cnt' - One(tx_nibl_req_q)'  BY <1>3, <2>8 DEF Made
    <3>2. tx_nibl_cnt' = tx_nibl_cnt + One(tx_nibl_req_q)' /\ tx_nibl_cnt' < due.len
      <4>1. CASE tx_nibl_req
        <5>1. tx_nibl_cnt + 1 < due.len  BY <1>1, <1>2, <2>1, <2>5, <2>8, <4>1
        <5>2. tx_nibl_cnt + 1 \in 0 .. CntRange - 1  BY <1>1, <1>2, <5>1
        <5>3. (tx_nibl_cnt + 1) % CntRange = tx_nibl_cnt + 1  BY <5>2, Below
        <5>. QED  BY <1>4, <1>11, <4>1, <5>1, <5>3 DEF One
      <4>2. CASE ~tx_nibl_req  BY <1>2, <1>4, <1>11, <2>1, <4>2 DEF One
      <4>. QED  BY <4>1, <4>2
    <3>3. One(tx_nibl_req_q)' \in Nat /\ (tx_nibl_req_q' => One(tx_nibl_req_q)' = 1)  BY DEF One
    <3>4. Made' = Made + One(tx_fifo_wvalid)  BY <1>1, <1>2, <2>1, <2>3, <3>1, <3>2, <3>3
    <3>5. tx_nibl_req_q' => tx_nibl_cnt' > 0
      <4>1. SUFFICES ASSUME tx_nibl_req_q' PROVE tx_nibl_cnt' > 0  OBVIOUS
      <4>2. tx_nibl_cnt' = tx_nibl_cnt + 1  BY <3>2, <3>3, <4>1
      <4>. QED  BY <1>2, <4>2
    <3>. QED  BY <1>6, <2>8, <3>2, <3>4, <3>5 DEF CountInv
  <2>. QED  BY <2>5, <2>7, <2>8
<1>12. CASE tx_fsm = "WAIT1"
  <2>1. tx_fsm' = "FCS"  BY <1>5, <1>12 DEF tx_fsm_d
  <2>2. Made = Base + due.len - 1 /\ tx_nibl_req_q  BY <1>12, Counted DEF CountInv
  <2>3. One(tx_fifo_wvalid) = 1  BY <2>2 DEF One, tx_fifo_wvalid
  <2>4. tx_hwdata_cnt' = 0 /\ tx_nibl_req_q' = FALSE  BY <1>4, <1>9, <1>12
  <2>5. Made' = Base + due.len + 0  BY <1>3, <2>1, <2>4 DEF Made
  <2>6. Made' = Made + One(tx_fifo_wvalid)  BY <1>1, <2>2, <2>3, <2>5
  <2>. QED  BY <1>6, <1>12, <2>1, <2>4, <2>6 DEF CountInv
<1>13. CASE tx_fsm = "FCS"
  <2>1. Made = Base + due.len + tx_hwdata_cnt /\ tx_hwdata_cnt < FcsLen /\ (due.raw => tx_hwdata_cnt = 0)
    BY <1>13, Counted DEF CountInv
  <2>2. tx_nibl_req_q' = FALSE  BY <1>4, <1>9, <1>13
  <2>3. tx_fifo_wvalid <=> tx_hwdata_req  BY <1>9, <1>13 DEF tx_fifo_wvalid
  <2>4. due.raw => ~tx_hwdata_req  BY <1>8 DEF tx_hwdata_req
  <2>5. tx_hwdata_cnt' = tx_hwdata_cnt + One(tx_fifo_wvalid)  BY <1>2, <1>4, <1>13, <2>3 DEF One
  <2>6. tx_fsm' = IF due.raw \/ (tx_hwdata_cnt >= FcsLen - 1 /\ tx_hwdata_req) THEN "DONE" ELSE "FCS"
    BY <1>5, <1>8, <1>13 DEF tx_fsm_d
  <2>7. CASE tx_fsm' = "FCS"
    <3>1. Made' = Base + due.len + tx_hwdata_cnt'  BY <1>3, <2>7 DEF Made
    <3>2. ~due.raw /\ (tx_hwdata_cnt >= FcsLen - 1 => ~tx_hwdata_req)  BY <2>6, <2>7
    <3>3. tx_hwdata_cnt' < FcsLen /\ Made' = Made + One(tx_fifo_wvalid)
      <4>1. CASE tx_hwdata_req  BY <1>1, <1>2, <2>1, <2>3, <2>5, <3>1, <3>2, <4>1 DEF One
      <4>2. CASE ~tx_hwdata_req  BY <1>1, <1>2, <2>1, <2>3, <2>5, <3>1, <4>2 DEF One
      <4>. QED  BY <4>1, <4>2
    <3>. QED  BY <1>6, <2>2, <2>7, <3>2, <3>3 DEF CountInv
  <2>8. CASE tx_fsm' = "DONE"
    <3>1. Made' = Total(due)  BY <1>3, <2>8 DEF Made
    <3>2. Made' = Made + One(tx_fifo_wvalid)
      <4>1. CASE due.raw  BY <1>1, <2>1, <2>3, <2>4, <3>1, <4>1 DEF One
      <4>2. CASE ~due.raw
        <5>1. tx_hwdata_cnt = FcsLen - 1 /\ tx_fifo_wvalid  BY <1>2, <2>1, <2>3, <2>6, <2>8, <4>2
        <5>. QED  BY <1>1, <2>1, <3>1, <4>2, <5>1 DEF One
      <4>. QED  BY <4>1, <4>2
    <3>. QED  BY <1>6, <2>2, <2>8, <3>2 DEF CountInv
  <2>. QED  BY <2>6, <2>7, <2>8
<1>14. CASE tx_fsm = "DONE"
  <2>1. tx_fsm' = "IFG"  BY <1>5, <1>14 DEF tx_fsm_d
  <2>2. Made = Total(due) /\ Made' = Total(due)  BY <1>3, <1>14, <2>1 DEF Made
  <2>3. One(tx_fifo_wvalid) = 0  BY <1>9, <1>14 DEF One, tx_fifo_wvalid, tx_hwdata_req
  <2>4. tx_hwdata_cnt' = 0 /\ tx_nibl_req_q' = FALSE /\ tx_nibl_cnt' = 0  BY <1>4, <1>9, <1>14
  <2>. QED  BY <1>1, <1>6, <1>14, <2>1, <2>2, <2>3, <2>4 DEF CountInv
<1>. QED  BY <1>7, <1>10, <1>11, <1>12, <1>13, <1>14 DEF Busy

\* The driver changes only the buffer it fills.
LEMMA Driving ==
  ASSUME IInv, TxTypes, HandedInv, NEW acts \in BOOLEAN, NEW phy_crs \in BOOLEAN,
         TxEdge(acts, phy_crs)
  PROVE  /\ tx_len' \in [Buffers -> TxLens \cup {0}]
         /\ \A b \in Buffers : b \in tx_stat \/ Sending(b) \/ (acts /\ txpc = "start" /\ b = txbuf) =>
              tx_ram'[b] = tx_ram[b] /\ tx_len'[b] = tx_len[b]
         /\ txpc' = "start" => tx_len'[txbuf'] \in TxLens
<1>1. /\ tx_len \in [Buffers -> TxLens \cup {0}]
      /\ txpc = "start" => tx_len[txbuf] \in TxLens
      /\ tx_ram \in [Buffers -> Ids] /\ txbuf \in Buffers
      /\ txpc \in {"fill", "start"} => txbuf \notin tx_stat /\ ~Sending(txbuf)
  BY DEF TxTypes, HandedInv, IInv, Types, BufferOwned
<1>2. CASE acts /\ txpc = "fill"
  <2>1. /\ txpc' = "start" /\ txbuf' = txbuf
        /\ tx_ram' = [tx_ram EXCEPT ![txbuf] = Fresh(txbuf)]
        /\ \E n \in TxLens : tx_len' = [tx_len EXCEPT ![txbuf] = n]
    BY <1>2 DEF TxEdge, TxDriver, Goto
  <2>2. PICK n \in TxLens : tx_len' = [tx_len EXCEPT ![txbuf] = n]  BY <2>1
  <2>. QED  BY <1>1, <1>2, <2>1, <2>2
<1>3. CASE ~(acts /\ txpc = "fill")
  <2>1. /\ tx_ram' = tx_ram /\ tx_len' = tx_len
        /\ txpc' = "start" => txpc = "start" /\ txbuf' = txbuf
    BY <1>3 DEF TxEdge, TxDriver, TxRest, Goto, Quiet
  <2>. QED  BY <1>1, <2>1
<1>. QED  BY <1>2, <1>3

\* What the machine takes is what the driver handed over.
LEMMA Takes ==
  ASSUME IInv, TxTypes, HandedInv, NEW acts \in BOOLEAN, NEW phy_crs \in BOOLEAN,
         TxEdge(acts, phy_crs), tx_fsm = "IDLE", tx_fsm' # "IDLE"
  PROVE  /\ tx_fsm' = "PRE" /\ cur_tx_buf' \in tx_stat
         /\ due' = Handed(cur_tx_buf') /\ due' \in Frames
<1>1. tx_fsm' = tx_fsm_d(phy_crs)  BY DEF TxEdge, TxMacEdge
<1>2. tx_fsm' = "PRE" /\ tx_stat # {}  BY <1>1 DEF tx_fsm_d
<1>3. tx_stat \subseteq Buffers /\ tx_ram \in [Buffers -> Ids]  BY DEF IInv, Types
<1>4. cur_tx_buf' \in tx_stat
  <2>1. cur_tx_buf' = IF tx_fsm = "IDLE" /\ 0 \in tx_stat THEN 0
                      ELSE IF tx_fsm = "IDLE" /\ 1 \in tx_stat THEN 1 ELSE cur_tx_buf
    BY DEF TxEdge, TxMacEdge, CurEdge
  <2>. QED  BY <1>2, <1>3, <2>1 DEF Buffers
<1>5. ~Sending(cur_tx_buf')  BY DEF Sending
<1>6. tx_len[cur_tx_buf'] \in TxLens /\ asked[cur_tx_buf'] = Handed(cur_tx_buf')
  BY <1>4, <1>5 DEF HandedInv
<1>7. due' = asked[cur_tx_buf']  BY <1>2 DEF TxEdge
<1>8. Handed(cur_tx_buf') \in Frames
  <2>1. tx_ram[cur_tx_buf'] \in Ids /\ tx_raw_mode \in BOOLEAN  BY <1>3, <1>4 DEF TxTypes
  <2>. QED  BY <1>6, <2>1 DEF Handed, Frames
<1>. QED  BY <1>2, <1>4, <1>6, <1>7, <1>8

LEMMA EdgeHanded ==
  ASSUME IInv, TxTypes, HandedInv, CountInv, PipeInv, LevelInv, SlowTxPhy,
         NEW acts \in BOOLEAN, NEW phy_crs \in BOOLEAN, TxEdge(acts, phy_crs)
  PROVE  /\ HandedInv'
         /\ ~(tx_fsm = "IDLE" /\ tx_fsm' # "IDLE") => due' = due
<1>1. /\ tx_stat \subseteq Buffers /\ tx_fsm \in Busy \cup {"IDLE", "IFG"} /\ txbuf \in Buffers
      /\ cur_tx_buf \in Buffers
      /\ tx_fsm \in Busy => cur_tx_buf \in tx_stat
  BY DEF IInv, Types, BusyInv
<1>2. /\ tx_stat' = (tx_stat \ (IF tx_fsm = "DONE" THEN {cur_tx_buf} ELSE {})) \cup Start(acts)
      /\ tx_fsm' = tx_fsm_d(phy_crs)
      /\ cur_tx_buf' = IF tx_fsm = "IDLE" /\ 0 \in tx_stat THEN 0
                       ELSE IF tx_fsm = "IDLE" /\ 1 \in tx_stat THEN 1 ELSE cur_tx_buf
      /\ tx_raw_mode' = tx_raw_mode
  BY DEF TxEdge, TxMacEdge, StatEdge, CurEdge
<1>3. Start(acts) = IF acts /\ txpc = "start" THEN {txbuf} ELSE {}  BY DEF Start
<1>4. /\ tx_fsm \in Busy /\ tx_fsm # "DONE" => tx_fsm' \in Busy /\ cur_tx_buf' = cur_tx_buf
      /\ tx_fsm = "DONE" => tx_fsm' = "IFG"
      /\ tx_fsm = "IFG" => tx_fsm' \in {"IFG", "IDLE"}
      /\ tx_fsm \in Busy => cur_tx_buf' = cur_tx_buf
      /\ tx_fsm = "IDLE" => tx_fsm' \in {"IDLE", "PRE"}
      /\ tx_fsm' \in Busy => tx_fsm = "IDLE" \/ tx_fsm \in Busy
  BY <1>1, <1>2 DEF tx_fsm_d, Busy
<1>5. ~(tx_fsm = "IDLE" /\ tx_fsm' # "IDLE") => due' = due  BY DEF TxEdge
<1>6. ASSUME NEW b \in tx_stat'
      PROVE  tx_len'[b] \in TxLens /\ (~Sending(b)' => asked'[b] = Handed(b)')
  <2>1. b \in Buffers  BY <1>1, <1>2, <1>3
  <2>2. asked'[b] = IF b \in Start(acts)
                    THEN [of |-> tx_ram[b], len |-> 2 * tx_len[b], raw |-> tx_raw_mode]
                    ELSE IF tx_fsm = "IDLE" /\ tx_fsm' = "PRE" /\ b = cur_tx_buf' THEN NothingDue
                    ELSE asked[b]
    BY <2>1 DEF TxEdge
  <2>3. Handed(b)' = [of |-> tx_ram'[b], len |-> 2 * tx_len'[b], raw |-> tx_raw_mode']
    BY DEF Handed
  <2>4. CASE b \in Start(acts)
    <3>1. acts /\ txpc = "start" /\ b = txbuf  BY <1>3, <2>4
    <3>2. tx_ram'[b] = tx_ram[b] /\ tx_len'[b] = tx_len[b]  BY <2>1, <3>1, Driving
    <3>3. tx_len[b] \in TxLens  BY <3>1 DEF HandedInv
    <3>. QED  BY <1>2, <2>2, <2>3, <2>4, <3>2, <3>3
  <2>5. CASE b \notin Start(acts)
    <3>1. b \in tx_stat /\ ~(tx_fsm = "DONE" /\ b = cur_tx_buf)  BY <1>2, <1>6, <2>5
    <3>2. tx_ram'[b] = tx_ram[b] /\ tx_len'[b] = tx_len[b]  BY <2>1, <3>1, Driving
    <3>3. tx_len[b] \in TxLens /\ (~Sending(b) => asked[b] = Handed(b))  BY <3>1 DEF HandedInv
    <3>4. ASSUME ~Sending(b)' PROVE asked'[b] = Handed(b)'
      <4>1. ~(tx_fsm' \in Busy /\ b = cur_tx_buf')  BY <3>4 DEF Sending, Busy
      <4>2. ~Sending(b)  BY <1>4, <3>1, <4>1 DEF Sending, Busy
      <4>3. asked'[b] = asked[b]  BY <2>2, <2>5, <4>1 DEF Busy
      <4>. QED  BY <1>2, <2>3, <3>2, <3>3, <4>2, <4>3 DEF Handed
    <3>. QED  BY <3>2, <3>3, <3>4
  <2>. QED  BY <2>4, <2>5
<1>7. txpc' = "start" => tx_len'[txbuf'] \in TxLens  BY Driving
<1>8. ASSUME tx_fsm' \in Busy
      PROVE  due' = Handed(cur_tx_buf)' /\ due' \in Frames
  <2>1. Handed(cur_tx_buf)' = [of |-> tx_ram'[cur_tx_buf'], len |-> 2 * tx_len'[cur_tx_buf'],
                               raw |-> tx_raw_mode']
    BY DEF Handed
  <2>2. CASE tx_fsm = "IDLE"
    <3>1. tx_fsm' # "IDLE"  BY <1>8 DEF Busy
    <3>2. cur_tx_buf' \in tx_stat /\ due' = Handed(cur_tx_buf') /\ due' \in Frames
      BY <2>2, <3>1, Takes
    <3>3. tx_ram'[cur_tx_buf'] = tx_ram[cur_tx_buf'] /\ tx_len'[cur_tx_buf'] = tx_len[cur_tx_buf']
      BY <1>1, <3>2, Driving
    <3>. QED  BY <1>2, <2>1, <3>2, <3>3 DEF Handed
  <2>3. CASE tx_fsm \in Busy
    <3>1. cur_tx_buf' = cur_tx_buf /\ due' = due  BY <1>4, <1>5, <2>3 DEF Busy
    <3>2. due = Handed(cur_tx_buf) /\ due \in Frames  BY <2>3 DEF HandedInv
    <3>3. tx_ram'[cur_tx_buf] = tx_ram[cur_tx_buf] /\ tx_len'[cur_tx_buf] = tx_len[cur_tx_buf]
      BY <1>1, <2>3, Driving
    <3>. QED  BY <1>2, <2>1, <3>1, <3>2, <3>3 DEF Handed
  <2>. QED  BY <1>4, <1>8, <2>2, <2>3
<1>9. due' \in Frames \/ (due' = NothingDue /\ tx_fsm' = "IDLE" /\ tx_fifo'.q = <<>>)
  <2>1. CASE tx_fsm = "IDLE" /\ tx_fsm' # "IDLE"  BY <2>1, Takes
  <2>2. CASE ~(tx_fsm = "IDLE" /\ tx_fsm' # "IDLE") /\ due \in Frames  BY <1>5, <2>2
  <2>3. CASE ~(tx_fsm = "IDLE" /\ tx_fsm' # "IDLE") /\ due \notin Frames
    <3>1. due = NothingDue /\ tx_fsm = "IDLE" /\ tx_fifo.q = <<>>  BY <2>3 DEF HandedInv
    <3>2. ~tx_fifo_wvalid  BY <3>1 DEF tx_fifo_wvalid, tx_hwdata_req, CountInv
    <3>. QED  BY <1>5, <2>3, <3>1, <3>2, EdgeWrites
  <2>. QED  BY <2>1, <2>2, <2>3
<1>. QED  BY <1>5, <1>6, <1>7, <1>8, <1>9 DEF HandedInv

LEMMA EdgeTxTypes ==
  ASSUME IInv, TxTypes, HandedInv, CountInv, PipeInv, LevelInv, SlowTxPhy,
         NEW acts \in BOOLEAN, NEW phy_crs \in BOOLEAN, TxEdge(acts, phy_crs)
  PROVE  TxTypes' /\ tx_clks' = tx_clks + 1 /\ tx_clks < TxRatio /\ tx_clks \in Nat
<1>1. tx_fifo'.q \in Seq(Nibbles)  BY EdgeWrites
<1>2. tx_len' \in [Buffers -> TxLens \cup {0}]  BY Driving
<1>3. /\ tx_raw_mode' = tx_raw_mode /\ tx_fifo_rready' = tx_fifo_rready
      /\ sent' = sent /\ gap' = gap /\ tx_clks < TxRatio /\ tx_clks' = tx_clks + 1
      /\ tx_nibl_req_q' = tx_nibl_req
      /\ tx_nibl_cnt' = IF tx_fsm = "DONE" THEN 0
                        ELSE IF tx_nibl_req THEN (tx_nibl_cnt + 1) % CntRange ELSE tx_nibl_cnt
      /\ tx_hwdata_cnt' = IF tx_fsm \notin {"PRE", "FCS"} THEN 0
                          ELSE IF tx_hwdata_req THEN tx_hwdata_cnt + 1 ELSE tx_hwdata_cnt
      /\ tx_ifg_cnt' = IF tx_fsm = "IFG" THEN tx_ifg_cnt + 1 ELSE 0
  BY DEF TxEdge, TxMacEdge, CountersEdge
<1>4. tx_nibl_req \in BOOLEAN  BY DEF tx_nibl_req
<1>5. tx_nibl_cnt \in Nat /\ tx_hwdata_cnt \in Nat /\ tx_ifg_cnt \in Nat /\ tx_clks \in 0 .. TxRatio
  BY DEF TxTypes
<1>6. (tx_nibl_cnt + 1) % CntRange \in Nat
  <2>1. (tx_nibl_cnt + 1) % CntRange \in 0 .. CntRange - 1  BY <1>5, Division
  <2>. QED  BY <2>1
<1>7. tx_nibl_cnt' \in Nat /\ tx_hwdata_cnt' \in Nat /\ tx_ifg_cnt' \in Nat /\ tx_clks' \in 0 .. TxRatio
  BY <1>3, <1>5, <1>6
<1>. QED  BY <1>1, <1>2, <1>3, <1>4, <1>5, <1>7 DEF TxTypes

\* The machine is done with a frame before it takes the next.
LEMMA EdgeCount ==
  ASSUME IInv, TxTypes, HandedInv, CountInv, PipeInv, LevelInv, SlowTxPhy,
         NEW acts \in BOOLEAN, NEW phy_crs \in BOOLEAN, TxEdge(acts, phy_crs)
  PROVE  /\ CountInv'
         /\ Made' = IF tx_fsm = "IDLE" /\ tx_fsm' # "IDLE" THEN 0 ELSE Made + One(tx_fifo_wvalid)
         /\ tx_fsm \in {"IDLE", "IFG"} => ~tx_fifo_wvalid
         /\ tx_fsm' = "IDLE" => tx_fsm = "IDLE" \/ (tx_fsm = "IFG" /\ tx_ifg_cnt = TxIfgMax)
         /\ tx_fsm' = "IFG" => \/ tx_fsm = "DONE" /\ tx_ifg_cnt' = 0
                               \/ tx_fsm = "IFG" /\ tx_ifg_cnt' = tx_ifg_cnt + 1
         /\ tx_fsm' = "PRE" => tx_fsm \in {"IDLE", "PRE"}
<1>1. tx_fsm \in Busy \cup {"IDLE", "IFG"}  BY DEF IInv, Types
<1>2. /\ tx_nibl_cnt' = IF tx_fsm = "DONE" THEN 0
                        ELSE IF tx_nibl_req THEN (tx_nibl_cnt + 1) % CntRange ELSE tx_nibl_cnt
      /\ tx_hwdata_cnt' = IF tx_fsm \notin {"PRE", "FCS"} THEN 0
                          ELSE IF tx_hwdata_req THEN tx_hwdata_cnt + 1 ELSE tx_hwdata_cnt
      /\ tx_ifg_cnt' = IF tx_fsm = "IFG" THEN tx_ifg_cnt + 1 ELSE 0
      /\ tx_nibl_req_q' = tx_nibl_req /\ tx_fsm' = tx_fsm_d(phy_crs)
  BY DEF TxEdge, TxMacEdge, CountersEdge
<1>3. tx_ifg_cnt \in Nat /\ tx_hwdata_cnt \in Nat  BY DEF TxTypes
<1>4. ~(tx_fsm = "IDLE" /\ tx_fsm' # "IDLE") => due' = due  BY EdgeHanded
<1>5. CASE tx_fsm = "IDLE"
  <2>1. tx_fsm' \in {"IDLE", "PRE"}  BY <1>2, <1>5 DEF tx_fsm_d
  <2>2. ~tx_fifo_wvalid /\ ~tx_nibl_req /\ tx_nibl_cnt = 0
    BY <1>5 DEF tx_fifo_wvalid, tx_hwdata_req, tx_nibl_req, CountInv
  <2>3. tx_nibl_cnt' = 0 /\ tx_hwdata_cnt' = 0 /\ tx_ifg_cnt' = 0 /\ tx_nibl_req_q' = FALSE
    BY <1>2, <1>5, <2>2
  <2>4. CountInv'  BY <2>1, <2>3 DEF CountInv
  <2>5. tx_fsm' # "IDLE" => Made' = 0  BY <2>1, <2>3 DEF Made
  <2>6. tx_fsm' = "IDLE" => Made' = Made + One(tx_fifo_wvalid)
    <3>1. SUFFICES ASSUME tx_fsm' = "IDLE" PROVE Made' = Made + One(tx_fifo_wvalid)  OBVIOUS
    <3>2. Made' = Total(due)' /\ Made = Total(due)  BY <1>5, <3>1 DEF Made
    <3>3. Total(due)' = Total(due)  BY <1>4, <3>1 DEF Total
    <3>4. One(tx_fifo_wvalid) = 0 /\ Total(due) \in Nat  BY <2>2, Taking DEF One
    <3>. QED  BY <3>2, <3>3, <3>4
  <2>. QED  BY <1>5, <2>1, <2>2, <2>4, <2>5, <2>6
<1>6. CASE tx_fsm = "IFG"
  <2>1. tx_fsm' = IF tx_ifg_cnt = TxIfgMax THEN "IDLE" ELSE "IFG"  BY <1>2, <1>6 DEF tx_fsm_d
  <2>2. ~tx_fifo_wvalid /\ ~tx_nibl_req /\ tx_nibl_cnt = 0 /\ tx_ifg_cnt <= TxIfgMax
    BY <1>6 DEF tx_fifo_wvalid, tx_hwdata_req, tx_nibl_req, CountInv
  <2>3. tx_nibl_cnt' = 0 /\ tx_hwdata_cnt' = 0 /\ tx_ifg_cnt' = tx_ifg_cnt + 1 /\ tx_nibl_req_q' = FALSE
    BY <1>2, <1>6, <2>2
  <2>4. tx_fsm' = "IFG" => tx_ifg_cnt' <= TxIfgMax  BY <1>3, <2>1, <2>2, <2>3
  <2>5. CountInv'  BY <2>1, <2>3, <2>4 DEF CountInv
  <2>6. Made' = Made + One(tx_fifo_wvalid)
    <3>1. Made' = Total(due)' /\ Made = Total(due)  BY <1>6, <2>1 DEF Made
    <3>2. Total(due)' = Total(due)  BY <1>4, <1>6 DEF Total
    <3>3. One(tx_fifo_wvalid) = 0 /\ Total(due) \in Nat  BY <2>2, Taking DEF One
    <3>. QED  BY <3>1, <3>2, <3>3
  <2>. QED  BY <1>6, <2>1, <2>2, <2>3, <2>5, <2>6
<1>7. CASE tx_fsm \notin {"IDLE", "IFG"}
  <2>1. /\ CountInv' /\ tx_fsm' # "IDLE" /\ (tx_fsm' = "IFG" => tx_fsm = "DONE")
        /\ tx_fsm' = "PRE" => tx_fsm = "PRE"
        /\ Made' = Made + One(tx_fifo_wvalid)
    BY <1>4, <1>7, Advances
  <2>. QED  BY <1>2, <1>7, <2>1
<1>. QED  BY <1>1, <1>5, <1>6, <1>7

\* A nibble on its way to the FIFO is the next of the frame, and the check
\* sequence is that of the nibbles that have gone this way.
LEMMA EdgePipe ==
  ASSUME IInv, TxTypes, HandedInv, CountInv, PipeInv, LevelInv, SlowTxPhy,
         NEW acts \in BOOLEAN, NEW phy_crs \in BOOLEAN, TxEdge(acts, phy_crs)
  PROVE  PipeInv'
<1>1. /\ tx_nibl_req_q' = tx_nibl_req /\ tx_fsm' = tx_fsm_d(phy_crs)
      /\ tx_ram_q' = IF tx_fsm = "DATA" THEN Data(tx_ram[cur_tx_buf], tx_nibl_cnt) ELSE tx_ram_q
      /\ tx_fcs32' = IF tx_fsm = "PRE" THEN [of |-> NoId, n |-> 0]
                     ELSE IF ~tx_nibl_req_q THEN tx_fcs32
                     ELSE IF tx_fifo_wdata.at = tx_fcs32.n /\ tx_fcs32.of \in {NoId, tx_fifo_wdata.of}
                          THEN [of |-> tx_fifo_wdata.of, n |-> tx_fcs32.n + 1]
                          ELSE [of |-> NoId, n |-> -1]
  BY DEF TxEdge, TxMacEdge, FcsEdge
<1>2. /\ tx_nibl_req_q => tx_fsm \in {"DATA", "WAIT1"}
      /\ tx_nibl_req => tx_fsm = "DATA"
      /\ tx_nibl_cnt \in Nat /\ tx_nibl_req_q \in BOOLEAN
  BY DEF CountInv, tx_nibl_req, TxTypes
<1>3. CASE tx_fsm \in {"PRE", "DATA", "WAIT1", "FCS"}
  <2>1. due' = due /\ Base' = Base  BY <1>3, EdgeHanded DEF Base
  <2>2. /\ due.len \in Nat /\ Base \in Nat /\ due.of \in Ids
        /\ Made' = Made + One(tx_fifo_wvalid)
    BY <1>3, Taking, EdgeCount
  <2>3. due = Handed(cur_tx_buf)  BY <1>3 DEF HandedInv, Busy
  <2>4. due.of = tx_ram[cur_tx_buf]  BY <2>3 DEF Handed
  <2>5. tx_fsm = "DATA" => Made' - Base = tx_nibl_cnt
    <3>1. SUFFICES ASSUME tx_fsm = "DATA" PROVE Made' - Base = tx_nibl_cnt  OBVIOUS
    <3>2. Made = Base + tx_nibl_cnt - One(tx_nibl_req_q)  BY <3>1, Counted
    <3>3. One(tx_fifo_wvalid) = One(tx_nibl_req_q)
      BY <3>1 DEF One, tx_fifo_wvalid, tx_hwdata_req
    <3>4. One(tx_nibl_req_q) \in Nat  BY DEF One
    <3>. QED  BY <1>2, <2>2, <3>2, <3>3, <3>4
  <2>6. tx_nibl_req_q' => tx_ram_q' = Data(due'.of, Made' - Base')
    BY <1>1, <1>2, <2>1, <2>4, <2>5
  <2>7. ASSUME tx_nibl_req_q
        PROVE  LET n == Made - Base
               IN /\ tx_fcs32' = [of |-> due.of, n |-> n + 1] /\ Made' - Base = n + 1 /\ n \in Nat
                  /\ tx_fsm = "WAIT1" => n + 1 = due.len
    <3> DEFINE n == Made - Base
    <3>1. n \in Nat /\ (tx_fsm = "WAIT1" => n + 1 = due.len) /\ Made \in Nat
      <4>1. CASE tx_fsm = "DATA"  BY <4>1, Counted
      <4>2. CASE tx_fsm = "WAIT1"  BY <2>2, <4>2, Counted
      <4>. QED  BY <1>2, <2>7, <4>1, <4>2
    <3>2. tx_fifo_wdata = Data(due.of, n)  BY <2>7 DEF tx_fifo_wdata, PipeInv
    <3>3. tx_fcs32 = IF n = 0 THEN [of |-> NoId, n |-> 0] ELSE [of |-> due.of, n |-> n]
      BY <1>2, <2>7 DEF PipeInv
    <3>4. Made' - Base = n + 1
      <4>1. One(tx_fifo_wvalid) = 1  BY <2>7 DEF One, tx_fifo_wvalid
      <4>. QED  BY <2>2, <3>1, <4>1
    <3> HIDE DEF n
    <3>5. tx_fifo_wdata.at = n /\ tx_fifo_wdata.of = due.of  BY <3>2 DEF Data, Nibble
    <3>6. tx_fcs32.n = n /\ tx_fcs32.of \in {NoId, due.of}
      <4>1. CASE n = 0  BY <3>3, <4>1
      <4>2. CASE n # 0  BY <3>3, <4>2
      <4>. QED  BY <4>1, <4>2
    <3>7. tx_fsm # "PRE"  BY <1>2, <2>7
    <3>8. tx_fcs32' = [of |-> due.of, n |-> n + 1]  BY <1>1, <2>7, <3>5, <3>6, <3>7
    <3>. QED  BY <3>1, <3>4, <3>8 DEF n
  <2>8. ASSUME tx_fsm' \in {"DATA", "WAIT1", "FCS"}
        PROVE  LET n == IF tx_fsm' = "FCS" THEN due.len ELSE Made' - Base
               IN tx_fcs32' = IF n = 0 THEN [of |-> NoId, n |-> 0] ELSE [of |-> due.of, n |-> n]
    <3>1. CASE tx_fsm = "PRE"
      <4>1. tx_fsm' = "DATA"  BY <1>1, <2>8, <3>1 DEF tx_fsm_d
      <4>2. tx_nibl_req_q' = FALSE /\ tx_nibl_cnt' = 0
        <5>1. tx_nibl_cnt' = IF tx_fsm = "DONE" THEN 0
                        ELSE IF tx_nibl_req THEN (tx_nibl_cnt + 1) % CntRange ELSE tx_nibl_cnt
          BY DEF TxEdge, TxMacEdge, CountersEdge
        <5>2. tx_nibl_cnt = 0  BY <3>1 DEF CountInv
        <5>. QED  BY <1>1, <1>2, <3>1, <5>1, <5>2
      <4>3. Made' = Base + tx_nibl_cnt' - One(tx_nibl_req_q)'  BY <2>1, <4>1 DEF Made
      <4>4. Made' - Base = 0  BY <2>2, <4>2, <4>3 DEF One
      <4>. QED  BY <1>1, <3>1, <4>1, <4>4
    <3>2. CASE tx_fsm = "DATA"
      <4>1. tx_fsm' # "FCS"  BY <1>1, <3>2 DEF tx_fsm_d
      <4>2. CASE tx_nibl_req_q
        <5> DEFINE n == Made - Base
        <5>1. tx_fcs32' = [of |-> due.of, n |-> n + 1] /\ Made' - Base = n + 1 /\ n \in Nat
          BY <2>7, <4>2
        <5> HIDE DEF n
        <5>2. n + 1 # 0  BY <5>1
        <5>. QED  BY <4>1, <5>1, <5>2
      <4>3. CASE ~tx_nibl_req_q
        <5>1. tx_fcs32' = tx_fcs32  BY <1>1, <3>2, <4>3
        <5>2. One(tx_fifo_wvalid) = 0  BY <3>2, <4>3 DEF One, tx_fifo_wvalid, tx_hwdata_req
        <5>3. Made \in Nat  BY Counted
        <5>4. Made' = Made  BY <2>2, <5>2, <5>3
        <5>5. tx_fcs32 = IF Made - Base = 0 THEN [of |-> NoId, n |-> 0]
                         ELSE [of |-> due.of, n |-> Made - Base]
          BY <3>2 DEF PipeInv
        <5>. QED  BY <4>1, <5>1, <5>4, <5>5
      <4>. QED  BY <4>2, <4>3
    <3>3. CASE tx_fsm = "WAIT1"
      <4>1. tx_fsm' = "FCS" /\ tx_nibl_req_q  BY <1>1, <3>3 DEF tx_fsm_d, CountInv
      <4>2. tx_fcs32' = [of |-> due.of, n |-> Made - Base + 1] /\ Made - Base + 1 = due.len
            /\ Made - Base \in Nat
        BY <2>7, <3>3, <4>1
      <4>3. due.len # 0  BY <3>3, Taking
      <4>. QED  BY <4>1, <4>2, <4>3
    <3>4. CASE tx_fsm = "FCS"
      <4>1. tx_fsm' = "FCS"  BY <1>1, <2>8, <3>4 DEF tx_fsm_d
      <4>2. tx_fcs32' = tx_fcs32  BY <1>1, <1>2, <3>4
      <4>3. tx_fcs32 = IF due.len = 0 THEN [of |-> NoId, n |-> 0] ELSE [of |-> due.of, n |-> due.len]
        BY <3>4 DEF PipeInv
      <4>. QED  BY <4>1, <4>2, <4>3
    <3>. QED  BY <1>3, <3>1, <3>2, <3>3, <3>4
  <2>. QED  BY <2>1, <2>6, <2>8 DEF PipeInv
<1>4. CASE tx_fsm \notin {"PRE", "DATA", "WAIT1", "FCS"}
  <2>1. tx_fsm' \notin {"DATA", "WAIT1", "FCS"}
    <3>1. tx_fsm \in {"IDLE", "DONE", "IFG"}  BY <1>4 DEF IInv, Types, Busy
    <3>. QED  BY <1>1, <3>1 DEF tx_fsm_d
  <2>2. ~tx_nibl_req_q'  BY <1>1, <1>2, <1>4
  <2>. QED  BY <2>1, <2>2 DEF PipeInv
<1>. QED  BY <1>3, <1>4

\* The conjuncts.
LEMMA TxFacts ==
  ASSUME NEW g \in Nat, TxIInv(g)
  PROVE  /\ IInv /\ TxTypes /\ HandedInv /\ CountInv /\ PipeInv /\ ContentInv /\ LevelInv
         /\ SentInv /\ FlowInv /\ PauseInv(g) /\ FramesWhole
  BY DEF TxIInv

\* What the state functions range over.
LEMMA TxRanges ==
  ASSUME NEW g \in Nat, TxIInv(g)
  PROVE  /\ Queued \in Nat /\ (Queued = 0 <=> tx_fifo.q = <<>>)
         /\ New \in Nat /\ Soon \in Nat /\ Visible \in Nat
         /\ Visible <= Soon /\ Soon = Queued - New /\ Visible <= Queued
         /\ Made \in Nat /\ Left \in Nat /\ Made = Left + Queued /\ Made <= Total(due)
         /\ Total(due) \in Nat /\ Total(due) > 0
         /\ Wait \in 0 .. 3 /\ Need(g) \in Nat /\ gap \in Nat /\ sent \in Nat
         /\ tx_clks \in Nat /\ tx_ifg_cnt \in Nat
<1>1. TxTypes /\ HandedInv /\ CountInv /\ ContentInv /\ LevelInv  BY DEF TxIInv
<1>2. Queued \in Nat /\ (Queued = 0 <=> tx_fifo.q = <<>>)  BY <1>1 DEF TxTypes, Queued
<1>3. tx_fifo.pushes[1] \in Nat /\ tx_fifo.pushes[2] \in Nat
      /\ tx_fifo.pushes[1] <= tx_fifo.pushes[2] /\ tx_fifo.pushes[2] <= Queued
  BY <1>1 DEF LevelInv
<1>4. New \in Nat /\ Soon \in Nat /\ Visible \in Nat
      /\ Visible <= Soon /\ Soon = Queued - New /\ Visible <= Queued
  BY <1>2, <1>3 DEF New, Soon, Visible
<1>5. Made \in Nat /\ Made <= Total(due)  BY <1>1, Counted
<1>6. Total(due) \in Nat /\ Total(due) > 0  BY <1>1, Taking
<1>7. Left \in Nat /\ Made = Left + Queued
  <2>1. Left = Made - Queued  BY DEF Left
  <2>2. Left \in 0 .. Total(due)  BY <1>1 DEF ContentInv
  <2>. QED  BY <1>2, <1>5, <1>6, <2>1, <2>2
<1>8. Wait \in 0 .. 3  BY DEF Wait
<1>9. gap \in Nat /\ sent \in Nat /\ tx_clks \in Nat /\ tx_ifg_cnt \in Nat
  BY <1>1 DEF TxTypes
<1>10. Need(g) \in Nat
  <2> HIDE DEF Wait
  <2>. QED  BY <1>2, <1>8, <1>9 DEF Need
<1>. QED  BY <1>2, <1>4, <1>5, <1>6, <1>7, <1>8, <1>9, <1>10

\* The machine is idle only once the line has been idle, and the FIFO empty.
LEMMA LineIdle ==
  ASSUME NEW g \in Nat, TxIInv(g), Pause(g), tx_fsm = "IDLE"
  PROVE  /\ tx_fifo.q = <<>> /\ Queued = 0 /\ gap >= g /\ ~tx_fifo_rready /\ sent = 0
         /\ New = 0 /\ Soon = 0 /\ Visible = 0 /\ Wait = 3
<1>1. Need(g) = 0  BY DEF TxIInv, PauseInv
<1>2. g >= 1  BY DEF Pause
<1>3. tx_fifo.q = <<>>
  <2>1. tx_fifo.q # <<>> => Need(g) = Queued + Wait + g  BY DEF Need
  <2>2. Queued \in Nat /\ Wait \in 0 .. 3  BY TxRanges
  <2> HIDE DEF Wait, Queued
  <2>. QED  BY <1>1, <1>2, <2>1, <2>2
<1>4. gap >= g
  <2>1. Need(g) = IF gap < g THEN g - gap ELSE 0  BY <1>3 DEF Need
  <2>2. gap \in Nat  BY TxRanges
  <2>. QED  BY <1>1, <2>1, <2>2
<1>5. ~tx_fifo_rready /\ sent = 0
  <2>1. gap > 0  BY <1>2, <1>4, TxRanges
  <2>. QED  BY <1>3, <2>1 DEF TxIInv, SentInv
<1>6. Queued = 0 /\ New = 0 /\ Soon = 0 /\ Visible = 0
  <2>1. Queued = 0  BY <1>3, TxRanges
  <2>. QED  BY <2>1, TxRanges
<1>7. Wait = 3
  BY <1>5, <1>6 DEF Wait
<1>. QED  BY <1>3, <1>4, <1>5, <1>6, <1>7

LEMMA EdgeContent ==
  ASSUME NEW g \in Nat, TxIInv(g), SlowTxPhy, Pause(g),
         NEW acts \in BOOLEAN, NEW phy_crs \in BOOLEAN, TxEdge(acts, phy_crs)
  PROVE  /\ ContentInv'
         /\ tx_fsm = "IDLE" /\ tx_fsm' # "IDLE" => Left' = 0 /\ Made' = 0 /\ tx_fifo'.q = <<>>
         /\ ~(tx_fsm = "IDLE" /\ tx_fsm' # "IDLE") => Left' = Left /\ Total(due)' = Total(due)
<1>1. IInv /\ TxTypes /\ HandedInv /\ CountInv /\ PipeInv /\ ContentInv /\ LevelInv  BY TxFacts
<1>2. /\ tx_fifo'.q = IF tx_fifo_wvalid THEN Append(tx_fifo.q, OnLine(due, Made)) ELSE tx_fifo.q
      /\ Queued' = Queued + One(tx_fifo_wvalid) /\ tx_fifo_wvalid \in BOOLEAN
  BY <1>1, EdgeWrites, Writes
<1>3. /\ Made' = IF tx_fsm = "IDLE" /\ tx_fsm' # "IDLE" THEN 0 ELSE Made + One(tx_fifo_wvalid)
      /\ tx_fsm \in {"IDLE", "IFG"} => ~tx_fifo_wvalid
  BY <1>1, EdgeCount
<1>4. Left' = Made' - Queued'  BY DEF Left
<1>5. Queued \in Nat /\ Made \in Nat /\ Left \in Nat /\ Made = Left + Queued  BY TxRanges
<1>6. CASE tx_fsm = "IDLE" /\ tx_fsm' # "IDLE"
  <2>1. tx_fifo'.q = <<>> /\ Queued' = 0 /\ Made' = 0
    BY <1>2, <1>3, <1>6, LineIdle DEF One
  <2>2. Left' = 0  BY <1>4, <2>1
  <2>3. Total(due)' \in Nat
    <3>1. HandedInv'  BY <1>1, EdgeHanded
    <3>2. due' \in Frames  BY <1>1, <1>6, Takes
    <3>3. due'.len \in Nat /\ due'.raw \in BOOLEAN  BY <3>2, FrameLengths
    <3>. QED  BY <3>3 DEF Total
  <2>. QED  BY <1>6, <2>1, <2>2, <2>3 DEF ContentInv
<1>7. CASE ~(tx_fsm = "IDLE" /\ tx_fsm' # "IDLE")
  <2>1. due' = due  BY <1>1, <1>7, EdgeHanded
  <2>2. Total(due)' = Total(due)  BY <2>1 DEF Total
  <2>3. One(tx_fifo_wvalid) \in Nat  BY DEF One
  <2>4. Left' = Left  BY <1>3, <1>2, <1>4, <1>5, <1>7, <2>3 DEF Left
  <2>5. Left \in 0 .. Total(due)  BY <1>1 DEF ContentInv
  <2>6. ASSUME NEW i \in 1 .. Queued' PROVE tx_fifo'.q[i] = OnLine(due, Left + i - 1)
    <3>1. CASE i <= Queued
      <4>1. i \in 1 .. Queued  BY <1>5, <2>6, <3>1
      <4>2. tx_fifo.q[i] = OnLine(due, Left + i - 1)  BY <1>1, <4>1 DEF ContentInv
      <4>3. tx_fifo.q \in Seq(Nibbles) /\ Queued = Len(tx_fifo.q)  BY <1>1 DEF TxTypes, Queued
      <4>4. tx_fifo'.q[i] = tx_fifo.q[i]
        <5>1. CASE tx_fifo_wvalid  BY <1>2, <4>1, <4>3, <5>1
        <5>2. CASE ~tx_fifo_wvalid  BY <1>2, <5>2
        <5>. QED  BY <5>1, <5>2
      <4>. QED  BY <4>2, <4>4
    <3>2. CASE ~(i <= Queued)
      <4>1. One(tx_fifo_wvalid) = 1 /\ i = Queued + 1 /\ tx_fifo_wvalid
        BY <1>2, <1>5, <2>6, <3>2 DEF One
      <4>2. tx_fifo.q \in Seq(Nibbles) /\ Queued = Len(tx_fifo.q)  BY <1>1 DEF TxTypes, Queued
      <4>3. tx_fifo'.q[i] = OnLine(due, Made)  BY <1>2, <4>1, <4>2
      <4>4. Left + i - 1 = Made  BY <1>5, <4>1
      <4>. QED  BY <4>3, <4>4
    <3>. QED  BY <3>1, <3>2
  <2>7. ASSUME NEW j \in Int PROVE OnLine(due, j)' = OnLine(due, j)
    BY <2>1 DEF OnLine
  <2>8. \A i \in 1 .. Queued' : tx_fifo'.q[i] = OnLine(due', Left' + i - 1)
    BY <2>1, <2>4, <2>6
  <2>9. Left' \in 0 .. Total(due')  BY <2>1, <2>4, <2>5
  <2>. QED  BY <1>7, <2>2, <2>4, <2>8, <2>9 DEF ContentInv
<1>. QED  BY <1>6, <1>7

LEMMA EdgeLevel ==
  ASSUME NEW g \in Nat, TxIInv(g), SlowTxPhy, Pause(g),
         NEW acts \in BOOLEAN, NEW phy_crs \in BOOLEAN, TxEdge(acts, phy_crs)
  PROVE  LevelInv'
<1>1. IInv /\ TxTypes /\ HandedInv /\ CountInv /\ PipeInv /\ LevelInv  BY TxFacts
<1> DEFINE W == One(tx_fifo_wvalid)
<1>2. /\ tx_fifo'.pushes[1] = tx_fifo.pushes[1] + W
      /\ tx_fifo'.pushes[2] = tx_fifo.pushes[2] + W
      /\ tx_fifo'.pops[1] = 0 /\ tx_fifo'.pops[2] = tx_fifo.pops[1]
      /\ Queued \in Nat /\ Queued' = Queued + W
  BY <1>1, EdgeWrites
<1>3. W \in {0, 1} /\ (W = 1 <=> tx_fifo_wvalid)  BY <1>1, Writes DEF One
<1>4. tx_clks' = tx_clks + 1 /\ tx_clks \in Nat  BY <1>1, EdgeTxTypes
<1> HIDE DEF W
<1> DEFINE p1 == tx_fifo.pushes[1]  p2 == tx_fifo.pushes[2]  o1 == tx_fifo.pops[1]  o2 == tx_fifo.pops[2]
<1>5. p1 \in Nat /\ p2 \in Nat /\ p1 <= p2 /\ p2 <= Queued /\ o1 \in {0, 1} /\ o2 \in {0, 1} /\ o1 <= o2
      /\ (tx_clks >= 1 => o1 = 0)
  BY <1>1 DEF LevelInv
<1>6. tx_fifo'.pushes[1] = p1 + W /\ tx_fifo'.pushes[2] = p2 + W /\ tx_fifo'.pops[2] = o1  BY <1>2
<1>7. wdepth(tx_fifo) = Queued + o2 /\ wdepth(tx_fifo)' = Queued' + o1
  <2>1. wdepth(tx_fifo)' = Len(tx_fifo'.q) + tx_fifo'.pops[2]  BY DEF wdepth
  <2>2. Queued' = Len(tx_fifo'.q)  BY DEF Queued
  <2>3. wdepth(tx_fifo) = Queued + o2  BY DEF wdepth, Queued
  <2>. QED  BY <1>6, <2>1, <2>2, <2>3
<1>8. wdepth(tx_fifo) + One(tx_nibl_req_q) <= FillBelow + 1  BY <1>1 DEF LevelInv
<1>9. /\ One(tx_nibl_req_q)' = IF tx_nibl_req THEN 1 ELSE 0
      /\ One(tx_nibl_req_q) = IF tx_nibl_req_q THEN 1 ELSE 0
  <2>1. tx_nibl_req_q' = tx_nibl_req  BY DEF TxEdge, TxMacEdge
  <2>. QED  BY <2>1 DEF One
<1>10. tx_fifo_wvalid <=> tx_nibl_req_q \/ (/\ tx_fsm \in {"PRE", "FCS"} /\ ~due.raw
                                            /\ wdepth(tx_fifo) < FillBelow)
  BY <1>1, Writes
<1> HIDE DEF p1, p2, o1, o2
<1>11. wdepth(tx_fifo)' + One(tx_nibl_req_q)' <= FillBelow + 1
  <2>1. Queued + W + o2 <= FillBelow + 1
        /\ (tx_nibl_req => Queued + W + o2 <= FillBelow)
    <3>1. CASE tx_nibl_req
      <4>1. tx_fsm = "DATA" /\ wdepth(tx_fifo) < FillBelow  BY <3>1 DEF tx_nibl_req
      <4>2. W <= 1  BY <1>3
      <4>. QED  BY <1>2, <1>3, <1>5, <1>7, <4>1
    <3>2. CASE ~tx_nibl_req
      <4>1. CASE tx_nibl_req_q
        <5>1. W = 1  BY <1>3, <1>10, <4>1
        <5>. QED  BY <1>2, <1>5, <1>7, <1>8, <1>9, <3>2, <4>1, <5>1
      <4>2. CASE ~tx_nibl_req_q /\ tx_fifo_wvalid
        <5>1. wdepth(tx_fifo) < FillBelow /\ W = 1  BY <1>3, <1>10, <4>2
        <5>. QED  BY <1>2, <1>5, <1>7, <3>2, <5>1
      <4>3. CASE ~tx_nibl_req_q /\ ~tx_fifo_wvalid
        <5>1. W = 0  BY <1>3, <4>3
        <5>. QED  BY <1>2, <1>5, <1>7, <1>8, <1>9, <3>2, <4>3, <5>1
      <4>. QED  BY <4>1, <4>2, <4>3
    <3>. QED  BY <3>1, <3>2
  <2>2. CASE tx_nibl_req  BY <1>2, <1>3, <1>5, <1>7, <1>9, <2>1, <2>2
  <2>3. CASE ~tx_nibl_req  BY <1>2, <1>3, <1>5, <1>7, <1>9, <2>1, <2>3
  <2>. QED  BY <2>2, <2>3
<1>12. /\ tx_fifo'.pushes[1] \in Nat /\ tx_fifo'.pushes[2] \in Nat
       /\ tx_fifo'.pushes[1] <= tx_fifo'.pushes[2] /\ tx_fifo'.pushes[2] <= Queued'
  BY <1>2, <1>3, <1>5, <1>6
<1>13. /\ tx_fifo'.pops[1] \in {0, 1} /\ tx_fifo'.pops[2] \in {0, 1}
       /\ tx_fifo'.pops[1] <= tx_fifo'.pops[2] /\ tx_fifo'.pops[1] = 0
       /\ (tx_clks' >= 2 => tx_fifo'.pops[2] = 0)
  BY <1>2, <1>4, <1>5, <1>6
<1>. QED  BY <1>11, <1>12, <1>13 DEF LevelInv

LEMMA EdgeSent ==
  ASSUME NEW g \in Nat, TxIInv(g), SlowTxPhy, Pause(g),
         NEW acts \in BOOLEAN, NEW phy_crs \in BOOLEAN, TxEdge(acts, phy_crs)
  PROVE  SentInv' /\ FramesWhole'
<1>1. IInv /\ TxTypes /\ HandedInv /\ CountInv /\ PipeInv /\ LevelInv /\ SentInv /\ FramesWhole
  BY TxFacts
<1>2. tx_fifo_rready' = tx_fifo_rready /\ sent' = sent /\ gap' = gap /\ whole' = whole
  BY DEF TxEdge
<1>3. tx_fifo'.q = <<>> => tx_fifo.q = <<>>
  <2>1. /\ tx_fifo'.q = IF tx_fifo_wvalid THEN Append(tx_fifo.q, OnLine(due, Made)) ELSE tx_fifo.q
        /\ Queued' = Queued + One(tx_fifo_wvalid) /\ tx_fifo_wvalid \in BOOLEAN
    BY <1>1, EdgeWrites, Writes
  <2>2. Queued' = Len(tx_fifo'.q)  BY DEF Queued
  <2>3. tx_fifo_wvalid => tx_fifo'.q # <<>>
    <3>1. SUFFICES ASSUME tx_fifo_wvalid, tx_fifo'.q = <<>> PROVE FALSE  OBVIOUS
    <3>2. Queued' = 0  BY <2>2, <3>1
    <3>3. Queued' = Queued + 1  BY <2>1, <3>1 DEF One
    <3>. QED  BY <3>2, <3>3, TxRanges
  <2>. QED  BY <2>1, <2>3
<1>4. sent' = Left' \/ (sent' = 0 /\ Left' = Total(due)')
  <2>1. CASE tx_fsm = "IDLE" /\ tx_fsm' # "IDLE"
    <3>1. Left' = 0  BY <2>1, EdgeContent
    <3>2. sent = 0  BY <2>1, LineIdle
    <3>. QED  BY <1>2, <3>1, <3>2
  <2>2. CASE ~(tx_fsm = "IDLE" /\ tx_fsm' # "IDLE")
    <3>1. Left' = Left /\ Total(due)' = Total(due)  BY <2>2, EdgeContent
    <3>. QED  BY <1>1, <1>2, <3>1 DEF SentInv
  <2>. QED  BY <2>1, <2>2
<1>5. (~tx_fifo_rready => sent = 0)' /\ (tx_fifo'.q = <<>> /\ gap' > 0 => ~tx_fifo_rready' /\ sent' = 0)
  BY <1>1, <1>2, <1>3 DEF SentInv
<1>. QED  BY <1>1, <1>2, <1>4, <1>5 DEF SentInv, FramesWhole

\* While a frame is on the line the machine keeps the FIFO filled.
LEMMA EdgeFlow ==
  ASSUME NEW g \in Nat, TxIInv(g), SlowTxPhy, Pause(g),
         NEW acts \in BOOLEAN, NEW phy_crs \in BOOLEAN, TxEdge(acts, phy_crs)
  PROVE  FlowInv'
<1>1. IInv /\ TxTypes /\ HandedInv /\ CountInv /\ PipeInv /\ LevelInv /\ FlowInv  BY TxFacts
<1>2. tx_fifo_rready' = tx_fifo_rready  BY DEF TxEdge
<1>3. SUFFICES ASSUME tx_fifo_rready
               PROVE  /\ Made' < Total(due)' \/ tx_fifo'.q # <<>> => Visible' >= 1
                      /\ Made' < Total(due)' \/ New' > 0 => Soon' >= 2
                      /\ Made' < Total(due)' /\ New' = 0 /\ tx_clks' >= 3 =>
                           Queued' >= FillBelow \/ (tx_clks' = 3 /\ tx_nibl_req_q')
  BY <1>2 DEF FlowInv
<1>4. ~(tx_fsm = "IDLE" /\ tx_fsm' # "IDLE") /\ tx_fsm # "IDLE"  BY <1>3, LineIdle
<1>5. Total(due)' = Total(due)  BY <1>4, EdgeContent
<1> DEFINE W == One(tx_fifo_wvalid)
<1>6. /\ tx_fifo_wvalid \in BOOLEAN
      /\ tx_fifo_wvalid <=> \/ tx_nibl_req_q
                            \/ (tx_fsm \in {"PRE", "FCS"} /\ ~due.raw /\ wdepth(tx_fifo) < FillBelow)
      /\ tx_fifo_wvalid => Made < Total(due)
  BY <1>1, Writes
<1>7. W \in {0, 1} /\ (W = 1 <=> tx_fifo_wvalid)  BY <1>6 DEF One
<1>8. /\ tx_fifo'.q = IF tx_fifo_wvalid THEN Append(tx_fifo.q, OnLine(due, Made)) ELSE tx_fifo.q
      /\ Queued' = Queued + W /\ Visible' = Visible /\ Soon' = Soon /\ New' = New + W
  BY <1>1, EdgeWrites
<1>9. Made' = Made + W  BY <1>1, <1>4, EdgeCount
<1>10. /\ Queued \in Nat /\ New \in Nat /\ Soon \in Nat /\ Visible \in Nat /\ Made \in Nat
       /\ Total(due) \in Nat /\ Made = Left + Queued /\ Left \in Nat /\ Visible <= Queued
  BY TxRanges
<1>11. tx_clks' = tx_clks + 1 /\ tx_clks \in Nat  BY <1>1, EdgeTxTypes
<1>12. /\ Made < Total(due) \/ tx_fifo.q # <<>> => Visible >= 1
       /\ Made < Total(due) \/ New > 0 => Soon >= 2
       /\ Made < Total(due) /\ New = 0 /\ tx_clks >= 3 =>
            Queued >= FillBelow \/ (tx_clks = 3 /\ tx_nibl_req_q)
  BY <1>1, <1>3 DEF FlowInv
<1> HIDE DEF W, Queued, New, Soon, Visible, Made, Left, Total
<1>13. Made' < Total(due)' => Made < Total(due)  BY <1>5, <1>7, <1>9, <1>10
<1>14. Made' < Total(due)' \/ tx_fifo'.q # <<>> => Visible' >= 1
  <2>1. tx_fifo'.q # <<>> => tx_fifo.q # <<>> \/ Made < Total(due)  BY <1>6, <1>8
  <2>. QED  BY <1>8, <1>12, <1>13, <2>1
<1>15. Made' < Total(due)' \/ New' > 0 => Soon' >= 2
  <2>1. New' > 0 => New > 0 \/ Made < Total(due)  BY <1>6, <1>7, <1>8, <1>10
  <2>. QED  BY <1>8, <1>12, <1>13, <2>1
<1>16. ASSUME Made' < Total(due)', New' = 0, tx_clks' >= 3
       PROVE  Queued' >= FillBelow \/ (tx_clks' = 3 /\ tx_nibl_req_q')
  <2>1. W = 0 /\ New = 0 /\ Queued' = Queued /\ ~tx_fifo_wvalid /\ Made < Total(due)
    BY <1>7, <1>8, <1>10, <1>13, <1>16
  <2>2. ~tx_nibl_req_q  BY <1>6, <2>1
  <2>3. CASE tx_clks >= 3
    BY <1>12, <2>1, <2>2, <2>3
  <2>4. CASE ~(tx_clks >= 3)
    <3>1. tx_clks = 2 /\ tx_clks' = 3  BY <1>11, <1>16, <2>4
    <3>2. wdepth(tx_fifo) = Queued
      <4>1. tx_fifo.pops[2] = 0  BY <1>1, <3>1 DEF LevelInv
      <4>2. wdepth(tx_fifo) = Queued + tx_fifo.pops[2]  BY DEF wdepth, Queued
      <4>. QED  BY <1>10, <4>1, <4>2
    <3>3. tx_fsm \notin {"IDLE", "DONE", "IFG", "WAIT1"}
      <4>1. tx_fsm \in {"IDLE", "DONE", "IFG"} => Made = Total(due)  BY <1>1, Counted
      <4>2. tx_fsm # "WAIT1"  BY <1>1, <2>2 DEF CountInv
      <4>. QED  BY <1>10, <2>1, <4>1, <4>2
    <3>4. CASE tx_fsm = "DATA"
      <4>1. tx_nibl_req_q' = tx_nibl_req  BY DEF TxEdge, TxMacEdge
      <4>2. tx_nibl_req \/ ~(Queued < FillBelow)  BY <3>2, <3>4 DEF tx_nibl_req
      <4>. QED  BY <1>10, <2>1, <3>1, <4>1, <4>2
    <3>5. CASE tx_fsm \in {"PRE", "FCS"}
      <4>1. ~due.raw
        <5>1. CASE tx_fsm = "PRE"
          <6>1. due.raw => Made = 0  BY <1>1, <5>1, Counted
          <6>2. Made >= 1  BY <1>10, <1>12, <2>1
          <6>. QED  BY <6>1, <6>2
        <5>2. CASE tx_fsm = "FCS"
          <6>1. due.raw => Made = Total(due)  BY <1>1, <5>2, Counted
          <6>. QED  BY <1>10, <2>1, <6>1
        <5>. QED  BY <3>5, <5>1, <5>2
      <4>2. ~(Queued < FillBelow)  BY <1>6, <2>1, <3>2, <3>5, <4>1
      <4>. QED  BY <1>10, <2>1, <4>2
    <3>6. tx_fsm \in {"PRE", "DATA", "WAIT1", "FCS", "DONE", "IDLE", "IFG"}
      BY <1>1 DEF IInv, Types, Busy
    <3>. QED  BY <3>3, <3>4, <3>5, <3>6
  <2>. QED  BY <2>3, <2>4
<1>. QED  BY <1>14, <1>15, <1>16

\* The pause after a frame is counted out before the machine is idle.
LEMMA EdgePause ==
  ASSUME NEW g \in Nat, TxIInv(g), SlowTxPhy, Pause(g),
         NEW acts \in BOOLEAN, NEW phy_crs \in BOOLEAN, TxEdge(acts, phy_crs)
  PROVE  PauseInv(g)'
<1>1. IInv /\ TxTypes /\ HandedInv /\ CountInv /\ PipeInv /\ LevelInv /\ PauseInv(g)  BY TxFacts
<1>2. tx_fifo_rready' = tx_fifo_rready /\ gap' = gap  BY DEF TxEdge
<1>3. tx_clks' = tx_clks + 1 /\ tx_clks \in Nat /\ tx_clks < TxRatio  BY <1>1, EdgeTxTypes
<1>4. /\ tx_fifo'.q = IF tx_fifo_wvalid THEN Append(tx_fifo.q, OnLine(due, Made)) ELSE tx_fifo.q
      /\ Queued' = Queued + One(tx_fifo_wvalid) /\ Visible' = Visible /\ Soon' = Soon
  BY <1>1, EdgeWrites
<1>5. Wait' = Wait  BY <1>2, <1>4 DEF Wait
<1>6. /\ Queued \in Nat /\ Wait \in 0 .. 3 /\ Need(g) \in Nat /\ gap \in Nat /\ tx_ifg_cnt \in Nat
  BY TxRanges
<1>7. g \in Nat /\ TxRatio * (FillBelow + 4 + g) <= TxIfgMax  BY DEF Pause
<1>8. ~tx_fifo_wvalid => Need(g)' = Need(g)
  <2>1. SUFFICES ASSUME ~tx_fifo_wvalid PROVE Need(g)' = Need(g)  OBVIOUS
  <2>2. tx_fifo'.q = tx_fifo.q /\ Queued' = Queued  BY <1>4, <1>6, <2>1 DEF One
  <2>3. Need(g)' = IF tx_fifo'.q # <<>> THEN Queued' + Wait' + g
                   ELSE IF gap' < g THEN g - gap' ELSE 0
    BY DEF Need
  <2>. QED  BY <1>2, <1>5, <2>2, <2>3 DEF Need
<1>9. /\ tx_fsm \in {"IDLE", "IFG"} => ~tx_fifo_wvalid
      /\ tx_fsm' = "IDLE" => tx_fsm = "IDLE" \/ (tx_fsm = "IFG" /\ tx_ifg_cnt = TxIfgMax)
      /\ tx_fsm' = "IFG" => \/ tx_fsm = "DONE" /\ tx_ifg_cnt' = 0
                            \/ tx_fsm = "IFG" /\ tx_ifg_cnt' = tx_ifg_cnt + 1
  BY <1>1, EdgeCount
<1>10. tx_fsm = "IFG" => TxRatio * Need(g) <= TxIfgMax - tx_ifg_cnt + tx_clks
  BY <1>1 DEF PauseInv
<1>11. ASSUME tx_fsm' = "IFG"
       PROVE  TxRatio * Need(g)' <= TxIfgMax - tx_ifg_cnt' + tx_clks'
  <2>1. CASE tx_fsm = "DONE" /\ tx_ifg_cnt' = 0
    <3>1. Queued' <= FillBelow + 1 /\ Queued' \in Nat
      <4>1. LevelInv' /\ TxTypes'  BY <1>1, EdgeLevel, EdgeTxTypes
      <4>2. wdepth(tx_fifo)' + One(tx_nibl_req_q)' <= FillBelow + 1 /\ tx_fifo'.pops[2] \in {0, 1}
        BY <4>1 DEF LevelInv
      <4>3. wdepth(tx_fifo)' = Queued' + tx_fifo'.pops[2]  BY DEF wdepth, Queued
      <4>4. One(tx_nibl_req_q)' \in {0, 1}  BY DEF One
      <4>5. Queued' \in Nat
        <5>1. One(tx_fifo_wvalid) \in Nat  BY DEF One
        <5>. QED  BY <1>4, <1>6, <5>1
      <4> DEFINE o == tx_fifo'.pops[2]  r == One(tx_nibl_req_q)'  w == wdepth(tx_fifo)'  q == Queued'
      <4>6. w + r <= FillBelow + 1 /\ o \in {0, 1} /\ w = q + o /\ r \in {0, 1} /\ q \in Nat
        BY <4>2, <4>3, <4>4, <4>5
      <4> HIDE DEF o, r, w, q
      <4>7. q <= FillBelow + 1 /\ q \in Nat  BY <4>6
      <4>. QED  BY <4>7 DEF q
    <3>2. Need(g)' = IF tx_fifo'.q # <<>> THEN Queued' + Wait' + g
                     ELSE IF gap' < g THEN g - gap' ELSE 0
      BY DEF Need
    <3> HIDE DEF Wait, Queued
    <3>3. Need(g)' \in Nat /\ Need(g)' <= FillBelow + 4 + g
      BY <1>2, <1>5, <1>6, <1>7, <3>1, <3>2
    <3>4. TxRatio * Need(g)' <= TxRatio * (FillBelow + 4 + g)
      <4> DEFINE x == Need(g)'  y == FillBelow + 4 + g
      <4>1. x \in Int /\ y \in Int /\ x <= y  BY <1>7, <3>3
      <4> HIDE DEF x, y
      <4>2. TxRatio * x <= TxRatio * y  BY <4>1, Monotonic
      <4>. QED  BY <4>2 DEF x, y
    <3> DEFINE a == TxRatio * Need(g)'  b == TxRatio * (FillBelow + 4 + g)
    <3>5. a <= b /\ b <= TxIfgMax /\ a \in Int /\ b \in Int  BY <1>7, <3>3, <3>4
    <3> HIDE DEF a, b
    <3>6. a <= TxIfgMax - 0 + (tx_clks + 1)  BY <1>3, <3>5
    <3>. QED  BY <1>3, <2>1, <3>6 DEF a
  <2>2. CASE tx_fsm = "IFG" /\ tx_ifg_cnt' = tx_ifg_cnt + 1
    <3>1. Need(g)' = Need(g)  BY <1>8, <1>9, <2>2
    <3>2. TxRatio * Need(g) <= TxIfgMax - tx_ifg_cnt + tx_clks  BY <1>10, <2>2
    <3>3. TxIfgMax - tx_ifg_cnt' + tx_clks' = TxIfgMax - tx_ifg_cnt + tx_clks  BY <1>3, <1>6, <2>2
    <3>. QED  BY <3>1, <3>2, <3>3
  <2>. QED  BY <1>9, <1>11, <2>1, <2>2
<1>12. ASSUME tx_fsm' = "IDLE" PROVE Need(g)' = 0
  <2>1. CASE tx_fsm = "IDLE"
    <3>1. Need(g) = 0  BY <1>1, <2>1 DEF PauseInv
    <3>. QED  BY <1>8, <1>9, <2>1, <3>1
  <2>2. CASE tx_fsm = "IFG" /\ tx_ifg_cnt = TxIfgMax
    <3>1. TxRatio * Need(g) <= tx_clks  BY <1>3, <1>10, <2>2
    <3>2. Need(g) >= 1 => TxRatio * 1 <= TxRatio * Need(g)  BY <1>6, Monotonic
    <3>3. TxRatio * Need(g) \in Int  BY <1>6
    <3>4. Need(g) = 0  BY <1>3, <1>6, <3>1, <3>2, <3>3
    <3>. QED  BY <1>8, <1>9, <2>2, <3>4
  <2>. QED  BY <1>9, <1>12, <2>1, <2>2
<1>13. ASSUME Left' = 0 PROVE gap' + Wait' >= g + 3
  <2>1. CASE tx_fsm = "IDLE" /\ tx_fsm' # "IDLE"
    <3>1. gap >= g /\ Wait = 3  BY <2>1, LineIdle
    <3>. QED  BY <1>2, <1>5, <1>6, <1>7, <3>1
  <2>2. CASE ~(tx_fsm = "IDLE" /\ tx_fsm' # "IDLE")
    <3>1. Left = 0  BY <1>13, <2>2, EdgeContent
    <3>2. gap + Wait >= g + 3  BY <1>1, <3>1 DEF PauseInv
    <3>. QED  BY <1>2, <1>5, <3>2
  <2>. QED  BY <2>1, <2>2
<1>. QED  BY <1>11, <1>12, <1>13 DEF PauseInv

\* What an edge of the PHY's clock does to the FIFO, and to what is seen of it.
LEMMA Reads ==
  ASSUME NEW g \in Nat, TxIInv(g), SlowTxPhy, TxPhyEdge
  PROVE  /\ phy_tx_en \in BOOLEAN /\ (phy_tx_en <=> tx_fifo_rready /\ Visible >= 1)
         /\ phy_tx_en => tx_fifo.q # <<>>
         /\ tx_fifo'.q = IF phy_tx_en THEN Tail(tx_fifo.q) ELSE tx_fifo.q
         /\ tx_fifo'.pops[1] = One(phy_tx_en) /\ tx_fifo'.pops[2] = One(phy_tx_en)
         /\ tx_fifo'.pushes[1] = 0 /\ tx_fifo'.pushes[2] = New
         /\ tx_fifo'.q \in Seq(Nibbles) /\ Queued' \in Nat /\ Queued' = Queued - One(phy_tx_en)
         /\ tx_fifo_rready' = IF Visible > StartAbove THEN TRUE
                              ELSE IF Visible = 0 THEN FALSE ELSE tx_fifo_rready
<1>1. TxTypes /\ LevelInv  BY DEF TxIInv
<1>2. Visible \in Nat /\ Queued \in Nat /\ (Queued = 0 <=> tx_fifo.q = <<>>) /\ Visible <= Queued
  BY TxRanges
<1>3. rdepth(tx_fifo) = Visible  BY DEF rdepth, Visible, Queued
<1>4. phy_tx_en <=> tx_fifo_rready /\ Visible >= 1
  BY <1>2, <1>3 DEF phy_tx_en, rvalid
<1>5. phy_tx_en \in BOOLEAN  BY DEF phy_tx_en, rvalid
<1>6. phy_tx_en => tx_fifo.q # <<>>  BY <1>2, <1>4
<1>7. tx_fifo.pops[1] = 0 /\ tx_fifo.pops[2] = 0
  <2>1. tx_clks >= 2 /\ tx_clks >= 1  BY DEF TxPhyEdge, SlowTxPhy
  <2>. QED  BY <1>1, <2>1 DEF LevelInv
<1>8. tx_fifo' = [q |-> IF phy_tx_en THEN Tail(tx_fifo.q) ELSE tx_fifo.q,
                  pops |-> <<tx_fifo.pops[1] + One(phy_tx_en), tx_fifo.pops[2] + One(phy_tx_en)>>,
                  pushes |-> <<0, tx_fifo.pushes[1]>>]
  <2>1. tx_fifo' = ReadEdge(tx_fifo, tx_fifo_rready)  BY DEF TxPhyEdge
  <2>2. (tx_fifo_rready /\ rvalid(tx_fifo)) = phy_tx_en  BY <1>1 DEF phy_tx_en, TxTypes, rvalid
  <2>3. ReadEdge(tx_fifo, tx_fifo_rready)
          = [q |-> IF tx_fifo_rready /\ rvalid(tx_fifo) THEN Tail(tx_fifo.q) ELSE tx_fifo.q,
             pops |-> <<tx_fifo.pops[1] + One(tx_fifo_rready /\ rvalid(tx_fifo)),
                        tx_fifo.pops[2] + One(tx_fifo_rready /\ rvalid(tx_fifo))>>,
             pushes |-> <<0, tx_fifo.pushes[1]>>]
    BY DEF ReadEdge
  <2>. QED  BY <2>1, <2>2, <2>3
<1>9. One(phy_tx_en) \in {0, 1}  BY DEF One
<1>10. tx_fifo'.pops[1] = One(phy_tx_en) /\ tx_fifo'.pops[2] = One(phy_tx_en)
       /\ tx_fifo'.pushes[1] = 0 /\ tx_fifo'.pushes[2] = New
  <2>1. /\ tx_fifo'.pops = <<tx_fifo.pops[1] + One(phy_tx_en), tx_fifo.pops[2] + One(phy_tx_en)>>
        /\ tx_fifo'.pushes = <<0, tx_fifo.pushes[1]>>
    BY <1>8
  <2>. QED  BY <1>7, <1>9, <2>1 DEF New
<1>11. tx_fifo'.q = IF phy_tx_en THEN Tail(tx_fifo.q) ELSE tx_fifo.q  BY <1>8
<1>12. tx_fifo'.q \in Seq(Nibbles) /\ Queued' \in Nat /\ Queued' = Queued - One(phy_tx_en)
  <2>1. Queued' = Len(tx_fifo'.q) /\ Queued = Len(tx_fifo.q)  BY DEF Queued
  <2>2. tx_fifo.q \in Seq(Nibbles)  BY <1>1 DEF TxTypes
  <2>3. CASE phy_tx_en
    <3>1. tx_fifo.q # <<>> /\ tx_fifo'.q = Tail(tx_fifo.q)  BY <1>6, <1>11, <2>3
    <3>2. One(phy_tx_en) = 1  BY <2>3 DEF One
    <3>. QED  BY <2>1, <2>2, <3>1, <3>2
  <2>4. CASE ~phy_tx_en
    <3>1. tx_fifo'.q = tx_fifo.q  BY <1>11, <2>4
    <3>2. One(phy_tx_en) = 0  BY <2>4 DEF One
    <3>. QED  BY <2>1, <2>2, <3>1, <3>2
  <2>. QED  BY <2>3, <2>4
<1>13. tx_fifo_rready' = IF Visible > StartAbove THEN TRUE
                         ELSE IF Visible = 0 THEN FALSE ELSE tx_fifo_rready
  <2>1. tx_fifo_rready' = IF rdepth(tx_fifo) > StartAbove THEN TRUE
                          ELSE IF ~rvalid(tx_fifo) THEN FALSE ELSE tx_fifo_rready
    BY DEF TxPhyEdge, ReadyEdge
  <2>2. rvalid(tx_fifo) <=> Visible # 0  BY <1>2, <1>3 DEF rvalid
  <2>. QED  BY <1>3, <2>1, <2>2
<1>. QED  BY <1>4, <1>5, <1>6, <1>10, <1>11, <1>12, <1>13

\* The same in terms of the frame.
LEMMA Sees ==
  ASSUME NEW g \in Nat, TxIInv(g), SlowTxPhy, TxPhyEdge
  PROVE  /\ Visible' = Soon - One(phy_tx_en) /\ Soon' = Queued' /\ New' = 0
         /\ due' = due /\ Total(due)' = Total(due) /\ Made' = Made /\ Left' = Left + One(phy_tx_en)
         /\ phy_tx_en => Left < Total(due) /\ sent = Left
         /\ tx_fifo_rready /\ ~phy_tx_en => tx_fifo.q = <<>> /\ Left = Total(due)
         /\ ~tx_fifo_rready => sent = 0
<1>1. SentInv /\ FlowInv  BY DEF TxIInv
<1> DEFINE P == One(phy_tx_en)
<1>2. P \in {0, 1} /\ (P = 1 <=> phy_tx_en)
  <2>1. phy_tx_en \in BOOLEAN  BY Reads
  <2>. QED  BY <2>1 DEF One
<1>3. /\ Queued \in Nat /\ (Queued = 0 <=> tx_fifo.q = <<>>)
      /\ New \in Nat /\ Soon \in Nat /\ Visible \in Nat /\ Soon = Queued - New
      /\ Made \in Nat /\ Left \in Nat /\ Made = Left + Queued /\ Made <= Total(due)
      /\ Total(due) \in Nat
  BY TxRanges
<1>4. /\ tx_fifo'.pushes[1] = 0 /\ tx_fifo'.pushes[2] = New /\ Queued' = Queued - P
      /\ Queued' \in Nat
      /\ phy_tx_en => Queued # 0
      /\ phy_tx_en <=> tx_fifo_rready /\ Visible >= 1
  BY <1>3, Reads
<1> HIDE DEF P
<1>5. Visible' = Soon - P
  <2>1. Visible' = Queued' - tx_fifo'.pushes[2]  BY DEF Visible
  <2> HIDE DEF Queued, New, Soon, Visible
  <2>2. Visible' = Queued - P - New  BY <1>4, <2>1
  <2>. QED  BY <1>2, <1>3, <2>2
<1>6. Soon' = Queued'
  <2>1. Soon' = Queued' - tx_fifo'.pushes[1]  BY DEF Soon
  <2> HIDE DEF Queued
  <2>. QED  BY <1>4, <2>1
<1>7. New' = 0  BY <1>4 DEF New
<1>8. due' = due /\ Total(due)' = Total(due)  BY DEF TxPhyEdge, Total
<1>9. Made' = Made  BY DEF TxPhyEdge, Made, Base, Total
<1>10. Left' = Left + P
  <2>1. Left' = Made' - Queued'  BY DEF Left
  <2>2. Queued' = Queued - P  BY <1>4
  <2>3. Queued \in Nat /\ Made \in Nat /\ Left \in Nat /\ Made = Left + Queued  BY <1>3
  <2> HIDE DEF Queued, Made, Left
  <2>4. Left' = Made - (Queued - P)  BY <1>9, <2>1, <2>2
  <2>. QED  BY <1>2, <2>3, <2>4
<1>11. phy_tx_en => Left < Total(due) /\ sent = Left
  <2>1. phy_tx_en => Left < Total(due)
    <3> HIDE DEF Queued, Made, Left, Total
    <3>. QED  BY <1>3, <1>4
  <2>2. sent = Left \/ (sent = 0 /\ Left = Total(due))  BY <1>1 DEF SentInv
  <2> HIDE DEF Left, Total
  <2>. QED  BY <1>3, <2>1, <2>2
<1>12. tx_fifo_rready /\ ~phy_tx_en => tx_fifo.q = <<>> /\ Left = Total(due)
  <2>1. SUFFICES ASSUME tx_fifo_rready, ~phy_tx_en PROVE tx_fifo.q = <<>> /\ Left = Total(due)
    OBVIOUS
  <2>2. ~(Visible >= 1)  BY <1>4, <2>1
  <2>3. ~(Made < Total(due)) /\ tx_fifo.q = <<>>  BY <1>1, <2>1, <2>2 DEF FlowInv
  <2> HIDE DEF Queued, Made, Left, Total
  <2>. QED  BY <1>3, <2>3
<1>13. ~tx_fifo_rready => sent = 0  BY <1>1 DEF SentInv
<1>. QED  BY <1>5, <1>6, <1>7, <1>8, <1>9, <1>10, <1>11, <1>12, <1>13 DEF P

\* The system clock's side stands still.
LEMMA PhyKeeps ==
  ASSUME NEW g \in Nat, TxIInv(g), SlowTxPhy, TxPhyEdge
  PROVE  IInv' /\ TxTypes' /\ HandedInv' /\ CountInv' /\ PipeInv' /\ LevelInv'
<1>1. IInv /\ TxTypes /\ HandedInv /\ CountInv /\ PipeInv /\ LevelInv  BY TxFacts
<1>2. IInv'  BY <1>1, Stutter DEF TxPhyEdge, protocol
<1>3. /\ phy_tx_en \in BOOLEAN /\ (phy_tx_en <=> tx_fifo_rready /\ Visible >= 1)
      /\ tx_fifo'.q = IF phy_tx_en THEN Tail(tx_fifo.q) ELSE tx_fifo.q
      /\ phy_tx_en => tx_fifo.q # <<>>
      /\ tx_fifo'.q \in Seq(Nibbles) /\ Queued' \in Nat /\ Queued' = Queued - One(phy_tx_en)
      /\ tx_fifo_rready' = IF Visible > StartAbove THEN TRUE
                           ELSE IF Visible = 0 THEN FALSE ELSE tx_fifo_rready
  BY Reads
<1>4. TxTypes'
  <2>1. /\ UNCHANGED <<tx_raw_mode, tx_len, tx_nibl_cnt, tx_nibl_req_q, tx_hwdata_cnt, tx_ifg_cnt>>
        /\ tx_clks' = 0
        /\ sent' = IF phy_tx_en THEN sent + 1 ELSE 0
        /\ gap' = IF phy_tx_en THEN 0 ELSE IF gap < MinGap THEN gap + 1 ELSE gap
    BY DEF TxPhyEdge
  <2>2. tx_fifo_rready' \in BOOLEAN  BY <1>1, <1>3 DEF TxTypes
  <2>3. sent' \in Nat /\ gap' \in 0 .. MinGap /\ tx_clks' \in 0 .. TxRatio
    <3>1. sent \in Nat /\ gap \in 0 .. MinGap  BY <1>1 DEF TxTypes
    <3>. QED  BY <2>1, <3>1
  <2>. QED  BY <1>1, <1>3, <2>1, <2>2, <2>3 DEF TxTypes
<1>5. HandedInv'
  <2>1. UNCHANGED <<tx_stat, tx_len, asked, tx_ram, tx_raw_mode, cur_tx_buf, tx_fsm, txpc, txbuf, due>>
    BY DEF TxPhyEdge
  <2>2. tx_fifo.q = <<>> => tx_fifo'.q = <<>>  BY <1>3
  <2>. QED  BY <1>1, <2>1, <2>2 DEF HandedInv, Handed, Sending
<1>6. CountInv'  BY <1>1 DEF TxPhyEdge, CountInv
<1>7. PipeInv'
  <2>1. Made' = Made  BY DEF TxPhyEdge, Made, Base, Total
  <2>2. Base' = Base  BY DEF TxPhyEdge, Base
  <2>3. UNCHANGED <<tx_nibl_req_q, tx_ram_q, due, tx_fsm, tx_fcs32>>  BY DEF TxPhyEdge
  <2>. QED  BY <1>1, <2>1, <2>2, <2>3 DEF PipeInv
<1>8. LevelInv'
  <2> DEFINE P == One(phy_tx_en)
  <2>1. P \in {0, 1} /\ (P = 1 <=> phy_tx_en)  BY <1>3 DEF One
  <2>2. /\ tx_fifo'.pops[1] = P /\ tx_fifo'.pops[2] = P
        /\ tx_fifo'.pushes[1] = 0 /\ tx_fifo'.pushes[2] = New /\ Queued' = Queued - P
    BY Reads
  <2> HIDE DEF P
  <2>3. /\ Queued \in Nat /\ New \in Nat /\ Soon \in Nat /\ Visible \in Nat
        /\ Visible <= Soon /\ Soon = Queued - New
    BY TxRanges
  <2>4. New <= Queued'
    <3> HIDE DEF New, Queued, Soon, Visible
    <3>. QED  BY <1>3, <2>1, <2>2, <2>3
  <2>5. wdepth(tx_fifo)' + One(tx_nibl_req_q)' <= FillBelow + 1
    <3>1. wdepth(tx_fifo)' = Queued' + tx_fifo'.pops[2]  BY DEF wdepth, Queued
    <3>2. wdepth(tx_fifo) = Queued + tx_fifo.pops[2]  BY DEF wdepth, Queued
    <3>3. tx_fifo.pops[2] = 0
      <4>1. tx_clks >= 2  BY DEF TxPhyEdge, SlowTxPhy
      <4>. QED  BY <1>1, <4>1 DEF LevelInv
    <3>4. wdepth(tx_fifo)' = wdepth(tx_fifo)
      <4> HIDE DEF Queued
      <4>1. wdepth(tx_fifo)' = Queued' + P  BY <2>2, <3>1
      <4>2. wdepth(tx_fifo) = Queued + 0  BY <3>2, <3>3
      <4>. QED  BY <2>1, <2>2, <2>3, <4>1, <4>2
    <3>5. One(tx_nibl_req_q)' = One(tx_nibl_req_q)  BY DEF TxPhyEdge, One
    <3>. QED  BY <1>1, <3>4, <3>5 DEF LevelInv
  <2>6. tx_clks' = 0  BY DEF TxPhyEdge
  <2>. QED  BY <2>1, <2>2, <2>3, <2>4, <2>5, <2>6 DEF LevelInv
<1>. QED  BY <1>2, <1>4, <1>5, <1>6, <1>7, <1>8

\* The nibble on the line is the next of the frame, and the frame ends at its end.
LEMMA PhyContent ==
  ASSUME NEW g \in Nat, TxIInv(g), SlowTxPhy, TxPhyEdge
  PROVE  ContentInv' /\ SentInv' /\ FramesWhole'
<1>1. TxTypes /\ ContentInv /\ SentInv /\ FramesWhole  BY TxFacts
<1>2. /\ phy_tx_en \in BOOLEAN /\ (phy_tx_en <=> tx_fifo_rready /\ Visible >= 1)
      /\ phy_tx_en => tx_fifo.q # <<>>
      /\ tx_fifo'.q = IF phy_tx_en THEN Tail(tx_fifo.q) ELSE tx_fifo.q
      /\ Queued' \in Nat /\ Queued' = Queued - One(phy_tx_en)
      /\ tx_fifo_rready' = IF Visible > StartAbove THEN TRUE
                           ELSE IF Visible = 0 THEN FALSE ELSE tx_fifo_rready
  BY Reads
<1>3. /\ due' = due /\ Total(due)' = Total(due) /\ Made' = Made /\ Left' = Left + One(phy_tx_en)
      /\ phy_tx_en => Left < Total(due) /\ sent = Left
      /\ tx_fifo_rready /\ ~phy_tx_en => tx_fifo.q = <<>> /\ Left = Total(due)
      /\ ~tx_fifo_rready => sent = 0
  BY Sees
<1>4. /\ Queued \in Nat /\ Left \in Nat /\ Total(due) \in Nat /\ Visible \in Nat /\ Visible <= Queued
      /\ (Queued = 0 <=> tx_fifo.q = <<>>)
  BY TxRanges
<1>5. sent = Left \/ (sent = 0 /\ Left = Total(due))  BY <1>1 DEF SentInv
<1>6. tx_fifo.q \in Seq(Nibbles) /\ Len(tx_fifo.q) = Queued  BY <1>1 DEF TxTypes, Queued
<1>7. \A i \in 1 .. Queued : tx_fifo.q[i] = OnLine(due, Left + i - 1)  BY <1>1 DEF ContentInv
<1>8. Left <= Total(due)
  <2>1. Left \in 0 .. Total(due)  BY <1>1 DEF ContentInv
  <2>. QED  BY <1>4, <2>1
<1> HIDE DEF Queued, Left, Total, Visible, phy_tx_en, Made
<1>9. CASE phy_tx_en
  <2>1. Left' = Left + 1 /\ Queued' = Queued - 1 /\ tx_fifo'.q = Tail(tx_fifo.q) /\ tx_fifo.q # <<>>
    BY <1>2, <1>3, <1>9 DEF One
  <2>2. Left < Total(due) /\ sent = Left  BY <1>3, <1>9
  <2>3. ContentInv'
    <3>1. Left' \in 0 .. Total(due)'  BY <1>3, <1>4, <2>1, <2>2
    <3>2. ASSUME NEW i \in 1 .. Queued' PROVE tx_fifo'.q[i] = OnLine(due, Left' + i - 1)
      <4>1. i + 1 \in 1 .. Queued  BY <1>2, <1>4, <2>1, <3>2
      <4>2. tx_fifo'.q[i] = tx_fifo.q[i + 1]
        <5>1. i \in 1 .. Len(tx_fifo.q) - 1  BY <1>4, <1>6, <2>1, <3>2
        <5>. QED  BY <1>6, <2>1, <5>1
      <4>3. tx_fifo.q[i + 1] = OnLine(due, Left + (i + 1) - 1)  BY <1>7, <4>1
      <4>4. Left + (i + 1) - 1 = Left' + i - 1  BY <1>4, <2>1, <4>1
      <4>. QED  BY <4>2, <4>3, <4>4
    <3>. QED  BY <1>3, <3>1, <3>2 DEF ContentInv
  <2>4. sent' = sent + 1 /\ gap' = 0
        /\ whole' = (whole /\ sent < Total(due) /\ Head(tx_fifo.q) = OnLine(due, sent))
    BY <1>9 DEF TxPhyEdge
  <2>5. Head(tx_fifo.q) = OnLine(due, sent)
    <3>1. 1 \in 1 .. Queued  BY <1>4, <2>1
    <3>2. tx_fifo.q[1] = OnLine(due, Left + 1 - 1)  BY <1>7, <3>1
    <3>3. Left + 1 - 1 = sent  BY <1>4, <2>2
    <3>. QED  BY <2>1, <3>2, <3>3
  <2>6. FramesWhole'  BY <1>1, <2>2, <2>4, <2>5 DEF FramesWhole
  <2>7. SentInv'
    <3>1. sent' = Left'  BY <2>1, <2>2, <2>4
    <3>2. tx_fifo_rready' = TRUE  BY <1>2, <1>4, <1>9
    <3>. QED  BY <2>4, <3>1, <3>2 DEF SentInv
  <2>. QED  BY <2>3, <2>6, <2>7
<1>10. CASE ~phy_tx_en
  <2>1. Left' = Left /\ Queued' = Queued /\ tx_fifo'.q = tx_fifo.q
    BY <1>2, <1>3, <1>4, <1>10 DEF One
  <2>2. sent' = 0 /\ whole' = (whole /\ sent \in {0, Total(due)})  BY <1>10 DEF TxPhyEdge
  <2>3. ContentInv'
    <3>1. \A i \in 1 .. Queued' : tx_fifo'.q[i] = OnLine(due', Left' + i - 1)
      BY <1>3, <1>7, <2>1
    <3>2. Left' \in 0 .. Total(due)'  BY <1>3, <1>4, <1>8, <2>1
    <3>. QED  BY <3>1, <3>2 DEF ContentInv
  <2>4. sent \in {0, Total(due)} /\ (0 = Left \/ Left = Total(due))
    <3>1. CASE tx_fifo_rready  BY <1>3, <1>5, <1>10, <3>1
    <3>2. CASE ~tx_fifo_rready  BY <1>3, <1>5, <3>2
    <3>. QED  BY <3>1, <3>2
  <2>5. FramesWhole'  BY <1>1, <2>2, <2>4 DEF FramesWhole
  <2>6. tx_fifo'.q = <<>> => ~tx_fifo_rready'
    <3>1. SUFFICES ASSUME tx_fifo.q = <<>> PROVE ~tx_fifo_rready'  BY <2>1
    <3>2. Visible = 0  BY <1>4, <3>1
    <3>. QED  BY <1>2, <3>2
  <2>7. SentInv'
    <3>1. sent' = Left' \/ (sent' = 0 /\ Left' = Total(due)')  BY <1>3, <2>1, <2>2, <2>4
    <3>. QED  BY <2>2, <2>6, <3>1 DEF SentInv
  <2>. QED  BY <2>3, <2>5, <2>7
<1>. QED  BY <1>2, <1>9, <1>10

\* Once on the line a frame is read without a pause, and leaves entries behind.
LEMMA PhyFlow ==
  ASSUME NEW g \in Nat, TxIInv(g), SlowTxPhy, TxPhyEdge
  PROVE  FlowInv'
<1>1. FlowInv  BY TxFacts
<1>2. /\ phy_tx_en \in BOOLEAN /\ (phy_tx_en <=> tx_fifo_rready /\ Visible >= 1)
      /\ Queued' \in Nat /\ Queued' = Queued - One(phy_tx_en)
      /\ tx_fifo_rready' = IF Visible > StartAbove THEN TRUE
                           ELSE IF Visible = 0 THEN FALSE ELSE tx_fifo_rready
  BY Reads
<1>3. /\ Visible' = Soon - One(phy_tx_en) /\ Soon' = Queued' /\ New' = 0
      /\ Total(due)' = Total(due) /\ Made' = Made
  BY Sees
<1>4. /\ Queued \in Nat /\ New \in Nat /\ Soon \in Nat /\ Visible \in Nat
      /\ Visible <= Soon /\ Soon = Queued - New /\ Visible <= Queued
      /\ Made \in Nat /\ Made <= Total(due) /\ Total(due) \in Nat
  BY TxRanges
<1>5. tx_clks = TxRatio /\ tx_clks' = 0 /\ TxRatio >= 4 /\ FillBelow >= 3
  BY DEF TxPhyEdge, SlowTxPhy
<1>6. tx_fifo'.q # <<>> => Queued' >= 1
  <2>1. Queued' = Len(tx_fifo'.q)  BY DEF Queued
  <2>2. tx_fifo'.q \in Seq(Nibbles)  BY Reads
  <2>. QED  BY <2>1, <2>2
<1> HIDE DEF Queued, Total, Visible, phy_tx_en, Made, Soon, New
<1>7. SUFFICES ASSUME tx_fifo_rready'
               PROVE  /\ Made < Total(due) \/ Queued' >= 1 => Visible' >= 1
                      /\ Made < Total(due) => Queued' >= 2
  <2>1. (Made' < Total(due)' \/ tx_fifo'.q # <<>>) => (Made < Total(due) \/ Queued' >= 1)
    BY <1>3, <1>6
  <2>2. (Made' < Total(due)' \/ New' > 0) => Made < Total(due)  BY <1>3
  <2>3. ~(tx_clks' >= 3)  BY <1>5
  <2>. QED  BY <1>3, <2>1, <2>2, <2>3 DEF FlowInv
<1>8. CASE ~tx_fifo_rready
  <2>1. Visible > StartAbove  BY <1>2, <1>4, <1>7, <1>8
  <2>2. One(phy_tx_en) = 0  BY <1>2, <1>8 DEF One
  <2>. QED  BY <1>2, <1>3, <1>4, <2>1, <2>2
<1>9. CASE tx_fifo_rready
  <2>1. Visible >= 1
    <3>1. SUFFICES ASSUME Visible = 0 PROVE FALSE  BY <1>4
    <3>2. tx_fifo_rready' = FALSE  BY <1>2, <3>1
    <3>. QED  BY <1>7, <3>2
  <2>2. One(phy_tx_en) = 1  BY <1>2, <1>9, <2>1 DEF One
  <2>3. /\ Made < Total(due) \/ New > 0 => Soon >= 2
        /\ Made < Total(due) /\ New = 0 /\ tx_clks >= 3 =>
             Queued >= FillBelow \/ (tx_clks = 3 /\ tx_nibl_req_q)
    BY <1>1, <1>9 DEF FlowInv
  <2>4. Made < Total(due) \/ Queued' >= 1 => Visible' >= 1
    <3>1. CASE Made < Total(due) \/ New > 0  BY <1>3, <1>4, <2>2, <2>3, <3>1
    <3>2. CASE ~(Made < Total(due) \/ New > 0)  BY <1>2, <1>3, <1>4, <2>2, <3>2
    <3>. QED  BY <3>1, <3>2
  <2>5. Made < Total(due) => Queued' >= 2
    <3>1. SUFFICES ASSUME Made < Total(due) PROVE Queued >= 3  BY <1>2, <1>4, <2>2
    <3>2. CASE New = 0  BY <1>4, <1>5, <2>3, <3>1, <3>2
    <3>3. CASE New # 0  BY <1>4, <2>3, <3>1, <3>3
    <3>. QED  BY <3>2, <3>3
  <2>. QED  BY <2>4, <2>5
<1>10. tx_fifo_rready \in BOOLEAN  BY DEF TxIInv, TxTypes
<1>. QED  BY <1>8, <1>9

\* A frame that waits gets nearer the line with every clock.
LEMMA WaitFalls ==
  ASSUME NEW g \in Nat, TxIInv(g), SlowTxPhy, TxPhyEdge, ~tx_fifo_rready
  PROVE  /\ Wait \in 1 .. 3 /\ Wait' \in 0 .. 3 /\ Wait' >= Wait - 1
         /\ Queued > StartAbove => Wait' = Wait - 1
<1>1. ~phy_tx_en  BY Reads
<1>2. /\ Queued' \in Nat /\ Queued' = Queued - 0
      /\ tx_fifo_rready' = IF Visible > StartAbove THEN TRUE
                           ELSE IF Visible = 0 THEN FALSE ELSE tx_fifo_rready
  BY <1>1, Reads DEF One
<1>3. Visible' = Soon - 0 /\ Soon' = Queued'  BY <1>1, Sees DEF One
<1>4. /\ Queued \in Nat /\ New \in Nat /\ Soon \in Nat /\ Visible \in Nat
      /\ Visible <= Soon /\ Soon = Queued - New
  BY TxRanges
<1>5. Wait = IF tx_fifo_rready THEN 0
             ELSE IF Visible > StartAbove THEN 1 ELSE IF Soon > StartAbove THEN 2 ELSE 3
  BY DEF Wait
<1>6. Wait' = IF tx_fifo_rready' THEN 0
              ELSE IF Visible' > StartAbove THEN 1 ELSE IF Soon' > StartAbove THEN 2 ELSE 3
  BY DEF Wait
<1> HIDE DEF Wait, Queued, Soon, Visible, New
<1>7. CASE Visible > StartAbove  BY <1>2, <1>3, <1>4, <1>5, <1>6, <1>7
<1>8. CASE ~(Visible > StartAbove) /\ Soon > StartAbove
  <2>1. ~tx_fifo_rready'  BY <1>2, <1>8
  <2>2. Wait = 2 /\ Wait' = 1  BY <1>3, <1>4, <1>5, <1>6, <1>8, <2>1
  <2>. QED  BY <2>2
<1>9. CASE ~(Visible > StartAbove) /\ ~(Soon > StartAbove)
  <2>1. ~tx_fifo_rready'  BY <1>2, <1>9
  <2>2. Wait = 3  BY <1>5, <1>9
  <2>3. Wait' = IF Queued > StartAbove THEN 2 ELSE 3  BY <1>2, <1>3, <1>4, <1>6, <1>9, <2>1
  <2>. QED  BY <2>2, <2>3
<1>. QED  BY <1>7, <1>8, <1>9

\* A frame that is written out leaves, and the line has been idle for g clocks,
\* one clock of the PHY after the other.
LEMMA NeedFalls ==
  ASSUME NEW g \in Nat, TxIInv(g), SlowTxPhy, Pause(g), TxPhyEdge, Made = Total(due)
  PROVE  Need(g)' \in Nat /\ (Need(g)' = 0 \/ Need(g)' < Need(g))
<1>1. /\ phy_tx_en \in BOOLEAN /\ (phy_tx_en <=> tx_fifo_rready /\ Visible >= 1)
      /\ tx_fifo'.q = IF phy_tx_en THEN Tail(tx_fifo.q) ELSE tx_fifo.q
      /\ phy_tx_en => tx_fifo.q # <<>>
      /\ Queued' \in Nat /\ Queued' = Queued - One(phy_tx_en)
      /\ tx_fifo_rready' = IF Visible > StartAbove THEN TRUE
                           ELSE IF Visible = 0 THEN FALSE ELSE tx_fifo_rready
  BY Reads
<1>2. /\ Queued \in Nat /\ Visible \in Nat /\ (Queued = 0 <=> tx_fifo.q = <<>>)
      /\ Wait \in 0 .. 3 /\ gap \in Nat /\ Left \in Nat /\ Made = Left + Queued
      /\ Total(due) \in Nat
  BY TxRanges
<1>3. /\ tx_fifo_rready /\ ~phy_tx_en => tx_fifo.q = <<>>
      /\ ~tx_fifo_rready => sent = 0
  BY Sees
<1>4. gap' = IF phy_tx_en THEN 0 ELSE IF gap < MinGap THEN gap + 1 ELSE gap
  BY DEF TxPhyEdge
<1>5. g \in Nat /\ g >= 1 /\ g <= MinGap - 3  BY DEF Pause
<1>6. Need(g)' = IF tx_fifo'.q # <<>> THEN Queued' + Wait' + g
                 ELSE IF gap' < g THEN g - gap' ELSE 0
  BY DEF Need
<1>7. Need(g) = IF tx_fifo.q # <<>> THEN Queued + Wait + g
                ELSE IF gap < g THEN g - gap ELSE 0
  BY DEF Need
<1>8. phy_tx_en => Wait' = 0 /\ Wait = 0  BY <1>1, <1>2 DEF Wait
<1>9. ~tx_fifo_rready => Wait \in 1 .. 3 /\ Wait' \in 0 .. 3 /\ (Queued > StartAbove => Wait' = Wait - 1)
  BY WaitFalls
<1>10. tx_fifo.q # <<>> /\ ~tx_fifo_rready => Queued > StartAbove
  <2>1. SUFFICES ASSUME tx_fifo.q # <<>>, ~tx_fifo_rready PROVE Queued > StartAbove  OBVIOUS
  <2>2. HandedInv /\ SentInv  BY DEF TxIInv
  <2>3. due \in Frames  BY <2>1, <2>2 DEF HandedInv
  <2>4. Total(due) > StartAbove  BY <2>2, <2>3, Taking
  <2>5. Queued # 0  BY <1>2, <2>1
  <2>6. 0 = Left \/ Left = Total(due)  BY <1>3, <2>1, <2>2 DEF SentInv
  <2> HIDE DEF Queued, Left, Made, Total
  <2>. QED  BY <1>2, <2>4, <2>5, <2>6
<1> HIDE DEF Queued, Left, Made, Total, Wait, Visible, phy_tx_en, Need
<1>11. CASE phy_tx_en
  <2>1. Queued' = Queued - 1 /\ Queued >= 1 /\ tx_fifo.q # <<>> /\ gap' = 0
    BY <1>1, <1>2, <1>4, <1>11 DEF One
  <2>2. Need(g) = Queued + 0 + g  BY <1>7, <1>8, <1>11, <2>1
  <2>3. CASE tx_fifo'.q # <<>>  BY <1>2, <1>5, <1>6, <1>8, <1>11, <2>1, <2>2, <2>3
  <2>4. CASE tx_fifo'.q = <<>>  BY <1>2, <1>5, <1>6, <2>1, <2>2, <2>4
  <2>. QED  BY <2>3, <2>4
<1>12. CASE ~phy_tx_en /\ tx_fifo.q = <<>>
  BY <1>1, <1>2, <1>4, <1>5, <1>6, <1>7, <1>12
<1>13. CASE ~phy_tx_en /\ tx_fifo.q # <<>>
  <2>1. ~tx_fifo_rready  BY <1>3, <1>13
  <2>2. Wait' = Wait - 1 /\ Wait \in 1 .. 3  BY <1>9, <1>10, <1>13, <2>1
  <2>3. Queued' = Queued /\ tx_fifo'.q = tx_fifo.q  BY <1>1, <1>2, <1>13 DEF One
  <2>. QED  BY <1>2, <1>5, <1>6, <1>7, <1>13, <2>2, <2>3
<1>. QED  BY <1>1, <1>11, <1>12, <1>13

LEMMA PhyPause ==
  ASSUME NEW g \in Nat, TxIInv(g), SlowTxPhy, Pause(g), TxPhyEdge
  PROVE  PauseInv(g)'
<1>1. TxTypes /\ HandedInv /\ CountInv /\ PauseInv(g)  BY TxFacts
<1>2. UNCHANGED <<tx_fsm, tx_ifg_cnt>> /\ tx_clks = TxRatio /\ tx_clks' = 0
      /\ gap' = IF phy_tx_en THEN 0 ELSE IF gap < MinGap THEN gap + 1 ELSE gap
  BY DEF TxPhyEdge
<1>3. tx_fsm \in {"IDLE", "IFG"} => Made = Total(due)  BY <1>1, Counted
<1>4. Need(g) \in Nat /\ tx_ifg_cnt \in Nat /\ gap \in Nat /\ Left \in Nat /\ Wait \in 0 .. 3
      /\ Total(due) \in Nat /\ Total(due) > 0
  BY TxRanges
<1>5. g \in Nat /\ g >= 1 /\ g <= MinGap - 3  BY DEF Pause
<1>6. ASSUME tx_fsm' = "IFG"
      PROVE  TxRatio * Need(g)' <= TxIfgMax - tx_ifg_cnt' + tx_clks'
  <2>1. tx_fsm = "IFG" /\ tx_ifg_cnt <= TxIfgMax /\ tx_ifg_cnt' = tx_ifg_cnt
    BY <1>1, <1>2, <1>6 DEF CountInv
  <2>2. Need(g)' \in Nat /\ (Need(g)' = 0 \/ Need(g)' <= Need(g) - 1)
    <3>1. Need(g)' \in Nat /\ (Need(g)' = 0 \/ Need(g)' < Need(g))
      BY <1>3, <2>1, NeedFalls
    <3> DEFINE n == Need(g)  m == Need(g)'
    <3>2. m \in Nat /\ n \in Nat /\ (m = 0 \/ m < n)  BY <1>4, <3>1
    <3> HIDE DEF n, m
    <3>3. m \in Nat /\ (m = 0 \/ m <= n - 1)  BY <3>2
    <3>. QED  BY <3>3 DEF n, m
  <2>3. TxRatio * Need(g) <= TxIfgMax - tx_ifg_cnt + TxRatio  BY <1>1, <1>2, <2>1 DEF PauseInv
  <2> DEFINE n == Need(g)  m == Need(g)'  a == TxRatio * n  b == TxRatio * m
  <2>4. a \in Int /\ b \in Int /\ a <= TxIfgMax - tx_ifg_cnt + TxRatio  BY <1>4, <2>2, <2>3
  <2>5. b = 0 \/ b <= a - TxRatio
    <3>1. CASE m = 0  BY <3>1
    <3>2. CASE m <= n - 1
      <4>1. m \in Nat /\ n \in Nat  BY <1>4, <2>2
      <4> HIDE DEF n, m
      <4>2. n - 1 \in Int /\ m \in Int  BY <4>1
      <4>3. TxRatio * m <= TxRatio * (n - 1)  BY <3>2, <4>2, Monotonic
      <4>4. TxRatio * (n - 1) = TxRatio * n - TxRatio  BY <4>1
      <4>. QED  BY <4>3, <4>4
    <3>. QED  BY <2>2, <3>1, <3>2
  <2> HIDE DEF a, b
  <2>6. b <= TxIfgMax - tx_ifg_cnt + 0  BY <1>4, <2>1, <2>4, <2>5
  <2>. QED  BY <1>2, <2>1, <2>6 DEF b
<1>7. ASSUME tx_fsm' = "IDLE" PROVE Need(g)' = 0
  <2>1. tx_fsm = "IDLE" /\ Need(g) = 0  BY <1>1, <1>2, <1>7 DEF PauseInv
  <2>2. Need(g)' \in Nat /\ (Need(g)' = 0 \/ Need(g)' < 0)
    BY <1>3, <2>1, NeedFalls
  <2> HIDE DEF Need
  <2>. QED  BY <2>2
<1>8. ASSUME Left' = 0 PROVE gap' + Wait' >= g + 3
  <2>1. Left' = Left + One(phy_tx_en) /\ phy_tx_en \in BOOLEAN  BY Reads, Sees
  <2>2. ~phy_tx_en /\ Left = 0  BY <1>4, <1>8, <2>1 DEF One
  <2>3. ~tx_fifo_rready
    <3>1. tx_fifo_rready /\ ~phy_tx_en => Left = Total(due)  BY Sees
    <3>. QED  BY <1>4, <2>2, <3>1
  <2>4. Wait \in 1 .. 3 /\ Wait' \in 0 .. 3 /\ Wait' >= Wait - 1  BY <2>3, WaitFalls
  <2>5. gap + Wait >= g + 3  BY <1>1, <2>2 DEF PauseInv
  <2> DEFINE w == Wait  ww == Wait'
  <2>6. w \in 1 .. 3 /\ ww \in 0 .. 3 /\ ww >= w - 1 /\ gap + w >= g + 3  BY <2>4, <2>5
  <2>7. gap' = IF gap < MinGap THEN gap + 1 ELSE gap  BY <1>2, <2>2
  <2> HIDE DEF w, ww
  <2>8. gap' + ww >= g + 3
    <3>1. CASE gap < MinGap  BY <1>4, <1>5, <2>6, <2>7, <3>1
    <3>2. CASE ~(gap < MinGap)  BY <1>4, <1>5, <2>6, <2>7, <3>2
    <3>. QED  BY <3>1, <3>2
  <2>. QED  BY <2>8 DEF ww
<1>. QED  BY <1>6, <1>7, <1>8 DEF PauseInv

\* Nothing has been sent.
LEMMA TxStart ==
  ASSUME NEW g \in Nat, Pause(g), Init
  PROVE  TxIInv(g)
<1>1. /\ tx_raw_mode \in BOOLEAN
      /\ tx_len = [b \in Buffers |-> 0] /\ tx_stat = {} /\ tx_fsm = "IDLE"
      /\ tx_nibl_cnt = 0 /\ tx_nibl_req_q = FALSE /\ tx_hwdata_cnt = 0 /\ tx_ifg_cnt = 0
      /\ tx_fifo = [q |-> <<>>, pops |-> <<0, 0>>, pushes |-> <<0, 0>>]
      /\ tx_fifo_rready = FALSE /\ tx_clks = 0 /\ txpc = "idle"
      /\ due = NothingDue /\ sent = 0 /\ whole = TRUE /\ gap = MinGap
  BY DEF Init, TxInit, EmptyFifo
<1>2. tx_fifo.q = <<>> /\ tx_fifo.pops = <<0, 0>> /\ tx_fifo.pushes = <<0, 0>>  BY <1>1
<1>3. /\ tx_fifo.pops[1] = 0 /\ tx_fifo.pops[2] = 0
      /\ tx_fifo.pushes[1] = 0 /\ tx_fifo.pushes[2] = 0
  BY <1>2
<1>4. Queued = 0  BY <1>2 DEF Queued
<1>5. IInv  BY Start0
<1>6. TxTypes
  <2>1. tx_fifo.q \in Seq(Nibbles)  BY <1>2
  <2>2. tx_len \in [Buffers -> TxLens \cup {0}]  BY <1>1
  <2>3. gap \in 0 .. MinGap /\ tx_clks \in 0 .. TxRatio  BY <1>1
  <2>4. /\ tx_raw_mode \in BOOLEAN /\ tx_fifo_rready \in BOOLEAN /\ tx_nibl_req_q \in BOOLEAN
        /\ tx_nibl_cnt \in Nat /\ tx_hwdata_cnt \in Nat /\ tx_ifg_cnt \in Nat /\ sent \in Nat
    BY <1>1
  <2>. QED  BY <2>1, <2>2, <2>3, <2>4 DEF TxTypes
<1>7. HandedInv  BY <1>1, <1>2 DEF HandedInv, Busy
<1>8. CountInv  BY <1>1 DEF CountInv
<1>9. PipeInv  BY <1>1 DEF PipeInv
<1>10. Left = Total(due) /\ Total(due) \in Nat /\ Total(due) > 0
  <2>1. Made = Total(due)  BY <1>1 DEF Made
  <2>2. Total(due) \in Nat /\ Total(due) > 0  BY <1>7, Taking
  <2>. QED  BY <1>4, <2>1, <2>2 DEF Left
<1>11. ContentInv  BY <1>4, <1>10 DEF ContentInv
<1>12. LevelInv
  <2>1. wdepth(tx_fifo) = 0  BY <1>3, <1>4 DEF wdepth, Queued
  <2>2. One(tx_nibl_req_q) = 0  BY <1>1 DEF One
  <2>. QED  BY <1>1, <1>3, <1>4, <2>1, <2>2 DEF LevelInv
<1>13. SentInv  BY <1>1, <1>10 DEF SentInv
<1>14. FlowInv  BY <1>1 DEF FlowInv
<1>15. PauseInv(g)
  <2>1. ~(gap < g)  BY <1>1 DEF Pause
  <2>2. Need(g) = 0  BY <1>2, <2>1 DEF Need
  <2>. QED  BY <1>1, <1>10, <2>2 DEF PauseInv
<1>16. FramesWhole  BY <1>1 DEF FramesWhole
<1>. QED
  BY <1>5, <1>6, <1>7, <1>8, <1>9, <1>11, <1>12, <1>13, <1>14, <1>15, <1>16 DEF TxIInv

LEMMA TxStutter ==
  ASSUME NEW g \in Nat, TxIInv(g), UNCHANGED txVars
  PROVE  TxIInv(g)'
<1>1. IInv'  BY Stutter DEF TxIInv, txVars, protocol
<1>2. UNCHANGED <<Made, Base, Queued, Left, Visible, Soon, New, Wait>>
  BY DEF txVars, Made, Base, Queued, Left, Visible, Soon, New, Wait, Total
<1>3. TxTypes' /\ HandedInv' /\ CountInv'
  BY DEF TxIInv, txVars, TxTypes, HandedInv, Handed, Sending, CountInv
<1>4. PipeInv' /\ ContentInv' /\ LevelInv'
  BY <1>2 DEF TxIInv, txVars, PipeInv, ContentInv, LevelInv, wdepth
<1>5. SentInv' /\ FlowInv' /\ FramesWhole'
  BY <1>2 DEF TxIInv, txVars, SentInv, FlowInv, FramesWhole
<1>6. PauseInv(g)'
  <2>1. Need(g)' = Need(g)  BY <1>2 DEF Need, txVars
  <2>. QED  BY <1>2, <2>1 DEF TxIInv, PauseInv, txVars
<1>. QED  BY <1>1, <1>3, <1>4, <1>5, <1>6 DEF TxIInv

\* Every edge of either clock preserves the invariant of the line.
LEMMA TxStep ==
  ASSUME NEW g \in Nat, SlowTxPhy, Pause(g), TxIInv(g), [Next]_vars
  PROVE  TxIInv(g)'
<1>1. CASE Transmit
  <2>1. CASE TxPhyEdge
    BY <2>1, PhyKeeps, PhyContent, PhyFlow, PhyPause DEF TxIInv
  <2>2. CASE \E acts \in BOOLEAN, phy_crs \in Carrier : TxEdge(acts, phy_crs)
    <3>1. PICK acts \in BOOLEAN, phy_crs \in BOOLEAN : TxEdge(acts, phy_crs)
      BY <2>2 DEF Carrier
    <3>2. IInv /\ TxTypes /\ HandedInv /\ CountInv /\ PipeInv /\ LevelInv  BY TxFacts
    <3>3. IInv'  BY <3>1, <3>2, EdgeStep
    <3>4. TxTypes' /\ HandedInv'  BY <3>1, <3>2, EdgeTxTypes, EdgeHanded
    <3>5. CountInv' /\ PipeInv'  BY <3>1, <3>2, EdgeCount, EdgePipe
    <3>6. ContentInv' /\ LevelInv'  BY <3>1, EdgeContent, EdgeLevel
    <3>7. SentInv' /\ FramesWhole'  BY <3>1, EdgeSent
    <3>8. FlowInv' /\ PauseInv(g)'  BY <3>1, EdgeFlow, EdgePause
    <3>. QED  BY <3>3, <3>4, <3>5, <3>6, <3>7, <3>8 DEF TxIInv
  <2>. QED  BY <1>1, <2>1, <2>2 DEF Transmit, TxNext
<1>2. CASE Receive  BY <1>2, TxStutter DEF Receive
<1>3. CASE UNCHANGED vars  BY <1>3, TxStutter DEF vars
<1>. QED  BY <1>1, <1>2, <1>3 DEF Next

\* What appears on the line between two pauses is a frame as the driver handed it
\* over, whole and without a pause inside, for frames of any length.
THEOREM FramesStayWhole ==
  ASSUME SlowTxPhy, Pause(1)
  PROVE  Spec => []FramesWhole
<1>1. 1 \in Nat  OBVIOUS
<1>2. Init => TxIInv(1)  BY <1>1, TxStart
<1>3. TxIInv(1) /\ [Next]_vars => TxIInv(1)'  BY <1>1, TxStep
<1>4. TxIInv(1) => FramesWhole  BY DEF TxIInv
<1>. QED  BY <1>2, <1>3, <1>4, PTL DEF Spec

\* A frame reaches the line only after the inter-frame gap, when the machine
\* pauses for as long as the FIFO may take to run empty and the gap after it.
THEOREM GapIsKept ==
  ASSUME SlowTxPhy, Pause(MinGap - 3)
  PROVE  Spec => GapKept
<1> DEFINE g == MinGap - 3
<1>1. g \in Nat  BY DEF Pause
<1>2. TxIInv(g) /\ [Next]_vars => [sent = 0 /\ sent' > 0 => gap >= MinGap]_txVars
  <2>. SUFFICES ASSUME TxIInv(g), [Next]_vars, sent = 0, sent' > 0, txVars' # txVars
                PROVE  gap >= MinGap
    OBVIOUS
  <2>1. TxPhyEdge
    <3>1. sent \in Nat /\ sent' # sent  BY <1>1, TxRanges
    <3>2. CASE Transmit
      <4>1. CASE \E acts \in BOOLEAN, phy_crs \in Carrier : TxEdge(acts, phy_crs)
        BY <3>1, <4>1 DEF TxEdge
      <4>. QED  BY <3>2, <4>1 DEF Transmit, TxNext
    <3>3. CASE Receive  BY <3>3 DEF Receive
    <3>4. CASE UNCHANGED vars  BY <3>4 DEF vars
    <3>. QED  BY <3>2, <3>3, <3>4 DEF Next
  <2>2. phy_tx_en  BY <2>1 DEF TxPhyEdge
  <2>3. tx_fifo_rready /\ Left = 0
    <3>1. phy_tx_en <=> tx_fifo_rready /\ Visible >= 1  BY <1>1, <2>1, Reads
    <3>2. sent = Left  BY <1>1, <2>1, <2>2, Sees
    <3>. QED  BY <2>2, <3>1, <3>2
  <2>4. Wait = 0  BY <2>3 DEF Wait
  <2>5. gap + Wait >= g + 3  BY <2>3 DEF TxIInv, PauseInv
  <2>6. gap \in Nat  BY <1>1, TxRanges
  <2>. QED  BY <2>4, <2>5, <2>6
<1>3. Init => TxIInv(g)  BY <1>1, TxStart
<1>4. TxIInv(g) /\ [Next]_vars => TxIInv(g)'  BY <1>1, TxStep
<1>. QED  BY <1>2, <1>3, <1>4, PTL DEF Spec, GapKept

-----------------------------------------------------------------------------
(* The receiver                                                            *)

HIDE TxSizes

SlowPhy == RxRatio >= 4 /\ RxDepth >= 3 /\ RxPreLen >= RxDepth

\* The frame on its way, the entries it is in the FIFO, how many of them have been
\* pushed and how many popped.
Frame == coming[1]
Given(i) == IF i <= PhyLength(Frame.kind) THEN PhyNibble(Frame.kind, Frame.of, i) ELSE Eof
Pushed == IF line.n # 0 THEN line.n - 1
          ELSE IF rest = 0 THEN PhyLength(Frame.kind) ELSE PhyLength(Frame.kind) + 1
Waiting == Len(rx_fifo.q)
Popped == Pushed - Waiting
Taken == Popped - RxPreLen

Marked(s, i) == [of |-> s, at |-> i]

RxTypes ==
  /\ rx_fcs_filt \in BOOLEAN /\ rx_addr_filt \in BOOLEAN
  /\ cur_rx_buf \in RxBuffers /\ rxbuf \in RxBuffers
  /\ rx_stat \subseteq RxBuffers
  /\ rxpc \in {"sleep", "clear", "find0", "find1", "release"}
  /\ rxpc = "release" => rxbuf \in rx_stat     \* only the driver clears a status
  /\ rx_clks \in 0..RxRatio /\ rest \in 0..RxGap
  /\ line = [of |-> line.of, n |-> line.n] /\ line.of \in {0, 1} /\ line.n \in Nat
  /\ rx_fsm \in {"IDLE", "HUNT", "DATA", "DONE", "OVR"}

\* Nothing is coming, or one frame, of which the line has delivered some.
LineInv ==
  \/ coming = <<>> /\ line.n = 0 /\ rest > 0 /\ rx_fsm = "IDLE"
  \/ /\ coming = <<[of |-> line.of, kind |-> Frame.kind]>> /\ Frame.kind \in Kinds
     /\ line.n <= PhyLength(Frame.kind)
     /\ rest > 0 => line.n = 0

\* The register before the FIFO, and the FIFO: one entry at most, two edges of
\* the system clock from being seen.
EntryInv ==
  /\ rx_fifo_wvalid \in BOOLEAN /\ phy_dv_q \in BOOLEAN
  /\ rx_fifo_wvalid <=> rest = 0
  /\ phy_dv_q <=> line.n # 0
  /\ rest = 0 => rx_fifo_wdata = IF line.n # 0 THEN Given(line.n) ELSE Eof

FifoInv ==
  /\ \/ rx_fifo.q = <<>>
     \/ coming # <<>> /\ Pushed > 0 /\ rx_fifo.q = <<Given(Pushed)>>
  /\ rx_fifo.pushes = << IF rx_clks = 0 THEN Waiting ELSE 0,
                         IF rx_clks <= 1 THEN Waiting ELSE 0>>
  /\ Len(rx_fifo.pops) = 2
  /\ rx_fifo.pops[1] \in 0 .. 1 - Waiting
  /\ rx_fifo.pops[2] \in 0 .. 1 + rx_fifo.pops[1]

\* How far the machine is, by how much it has popped.
MachineInv ==
  coming # <<>> =>
    /\ rx_fifo.q # <<>> => rx_clks <= (IF Popped = 0 /\ rx_fsm # "IDLE" THEN 3 ELSE 2)
    /\ rx_fsm = "IDLE" <=> (Popped = 0 /\ ~(rx_clks = 3 /\ rx_fifo.q # <<>>))
    /\ Popped = PhyLength(Frame.kind) + 1 => rx_fsm = "DONE"
    /\ rx_fsm = "DONE" => Popped = PhyLength(Frame.kind) + 1 /\ rx_clks = 3
    /\ rx_fsm = "HUNT" => /\ Popped < RxPreLen
                          /\ rx_prev_nibl = IF Popped = 0 THEN "none" ELSE "5"
    /\ rx_fsm = "DATA" => Frame.kind.sfd /\ Taken >= 0

\* Nothing older than the frame is in the slots it has written.
Slot == [er : BOOLEAN, dv : BOOLEAN, kind : {"none", "5", "d", "data"}, of : {NoSender, 0, 1}, at : Nat]
SlotsInv ==
  /\ rx_slots \in Seq(Slot) /\ Len(rx_slots) = RxDepth
  /\ coming # <<>> => \A i \in 1..RxDepth :
        i > RxDepth - Pushed /\ rx_slots[i].er => Frame.kind.er # -1

\* What the checks have seen.
CheckInv ==
  /\ rx_nibl_cnt \in Nat /\ rx_err_acc \in BOOLEAN /\ rx_addr_match \in BOOLEAN
  /\ rx_fsm \notin {"DATA", "DONE"} => ~rx_err_acc
  /\ rx_fsm = "DATA" \/ (rx_fsm = "DONE" /\ Frame.kind.sfd) =>
       /\ rx_err_acc => Frame.kind.er # -1
       /\ Frame.kind.er \in 0 .. rx_nibl_cnt - 1 => rx_err_acc
       /\ rx_addr_match <=> (rx_nibl_cnt >= AddrLen => Frame.kind.own)
       /\ rx_fcs32 = IF rx_nibl_cnt = 0 THEN [of |-> NoSender, n |-> 0]
                     ELSE [of |-> Frame.of, n |-> rx_nibl_cnt]
  /\ rx_fsm = "DATA" => rx_nibl_cnt = Taken
  /\ rx_fsm = "DONE" => rx_nibl_cnt = Frame.kind.len
  /\ rx_fsm = "DONE" /\ ~Frame.kind.sfd =>
       rx_addr_match /\ ~rx_err_acc /\ rx_fcs32.of = NoSender

\* Where a nibble that was counted is: in the buffer, or in the register that
\* will be written there.
Held(i) ==
  LET w == i \div WordLen
  IN IF w = rx_nibl_cnt \div WordLen \/ (rx_ram_p0.cs /\ rx_ram_p0.word = w)
     THEN rx_ram_p0_wdata[i % WordLen] ELSE rx_ram[cur_rx_buf][w][i % WordLen]

WordInv ==
  /\ DOMAIN rx_ram = RxBuffers
  /\ \A b \in RxBuffers : DOMAIN rx_ram[b] = Words
  /\ DOMAIN rx_ram_p0_wdata = 0 .. WordLen - 1
  /\ rx_fsm \in {"HUNT", "DATA", "DONE"} => cur_rx_buf \notin rx_stat
  /\ rx_ram_p0.cs \in BOOLEAN
  /\ rx_ram_p0.cs => rx_ram_p0.buf = cur_rx_buf /\ rx_fsm \in {"DATA", "DONE"}
  /\ rx_fsm = "DATA" /\ rx_ram_p0.cs =>
        rx_nibl_cnt % WordLen = 0 /\ rx_ram_p0.word = (rx_nibl_cnt \div WordLen) - 1
  /\ rx_fsm = "DONE" => (rx_nibl_cnt % WordLen # 0 => rx_ram_p0.cs)
  /\ rx_fsm = "DONE" /\ rx_ram_p0.cs => rx_ram_p0.word = rx_nibl_cnt \div WordLen
  /\ rx_fsm \in {"DATA", "DONE"} =>
        \A i \in 0 .. rx_nibl_cnt - 1 : Held(i) = Marked(Frame.of, i)

RxIInv == RxTypes /\ LineInv /\ EntryInv /\ FifoInv /\ MachineInv /\ SlotsInv /\ CheckInv
          /\ WordInv /\ DeliveredWhole

LEMMA Sizes ==
  /\ RxDepth \in Nat /\ RxPreLen \in Nat /\ WordLen \in Nat /\ AddrLen \in Nat /\ RxGap \in Nat
  /\ RxRatio \in Nat /\ RxDepth > 0 /\ RxPreLen > 1 /\ WordLen > 0 /\ AddrLen > 0
  /\ RxGap > 0 /\ RxRatio > 0
  BY RxAssumption

USE Sizes

LEMMA Lengths ==
  ASSUME NEW k \in Kinds
  PROVE  /\ k.len \in Nat /\ k.own \in BOOLEAN /\ k.fcs \in BOOLEAN /\ k.sfd \in BOOLEAN
         /\ k.er \in -1 .. k.len - 1
         /\ PhyLength(k) \in Nat /\ PhyLength(k) >= 1
         /\ k.sfd => PhyLength(k) = RxPreLen + k.len /\ k.len >= AddrLen /\ k.len <= 4095
         /\ ~k.sfd => PhyLength(k) = RxPreLen - 1 /\ k.len = 0 /\ k.own /\ ~k.fcs /\ k.er = -1
  BY RxAssumption DEF PhyLength, KindSet

\* The frame on the line, when there is one.
LEMMA TheFrame ==
  ASSUME LineInv, coming # <<>>
  PROVE  /\ Frame.kind \in Kinds /\ Frame.of = line.of /\ Len(coming) = 1
         /\ Head(coming) = Frame /\ Tail(coming) = <<>> /\ Last(coming) = Frame
         /\ line.n <= PhyLength(Frame.kind) /\ (rest > 0 => line.n = 0)
  BY DEF LineInv, Frame, Last

\* An entry, by its position in the frame.
LEMMA Entries ==
  ASSUME LineInv, coming # <<>>, NEW i \in Nat, i > 0
  PROVE  /\ i <= PhyLength(Frame.kind) => Given(i).dv
         /\ i < RxPreLen /\ i <= PhyLength(Frame.kind) => Given(i).kind = "5" /\ ~Given(i).er
         /\ i = RxPreLen /\ Frame.kind.sfd => Given(i).kind = "d" /\ ~Given(i).er
         /\ i > RxPreLen /\ i <= PhyLength(Frame.kind) =>
              /\ Frame.kind.sfd
              /\ Given(i).er <=> Frame.kind.er = i - RxPreLen - 1
              /\ Given(i).of = Frame.of /\ Given(i).at = i - RxPreLen - 1
         /\ i > PhyLength(Frame.kind) => ~Given(i).dv /\ ~Given(i).er
<1>1. Frame.kind \in Kinds  BY TheFrame
<1>2. PhyLength(Frame.kind) \in Nat /\ Frame.kind.sfd \in BOOLEAN /\ Frame.kind.len \in Nat  BY <1>1, Lengths
<1>3. /\ Frame.kind.sfd => PhyLength(Frame.kind) = RxPreLen + Frame.kind.len
      /\ ~Frame.kind.sfd => PhyLength(Frame.kind) = RxPreLen - 1
  BY <1>1, Lengths
<1>4. CASE i > PhyLength(Frame.kind)
  <2>1. Given(i) = Eof  BY <1>2, <1>4 DEF Given
  <2>. QED  BY <1>2, <1>3, <1>4, <2>1 DEF Eof, Entry
<1>5. CASE i <= PhyLength(Frame.kind)
  <2>1. Given(i) = PhyNibble(Frame.kind, Frame.of, i)  BY <1>5 DEF Given
  <2>2. CASE i < RxPreLen  BY <1>2, <1>5, <2>1, <2>2 DEF PhyNibble, Entry
  <2>3. CASE i = RxPreLen  BY <1>2, <1>5, <2>1, <2>3 DEF PhyNibble, Entry
  <2>4. CASE i > RxPreLen
    <3>1. Frame.kind.sfd  BY <1>2, <1>3, <1>5, <2>4
    <3>2. ~(i < RxPreLen) /\ i # RxPreLen  BY <2>4
    <3>3. Given(i) = Entry(Frame.kind.er = i - RxPreLen - 1, TRUE, "data", Frame.of, i - RxPreLen - 1)
      BY <2>1, <3>2 DEF PhyNibble
    <3> DEFINE e == Frame.kind.er = i - RxPreLen - 1  n == i - RxPreLen - 1
    <3>5. Given(i) = [er |-> e, dv |-> TRUE, kind |-> "data", of |-> Frame.of, at |-> n]
      BY <3>3 DEF Entry
    <3> HIDE DEF e, n
    <3>6. /\ Given(i).dv /\ Given(i).of = Frame.of /\ Given(i).at = n
          /\ Given(i).er = e
      BY <3>5
    <3>4. /\ Given(i).dv /\ Given(i).of = Frame.of /\ Given(i).at = i - RxPreLen - 1
          /\ Given(i).er <=> Frame.kind.er = i - RxPreLen - 1
      BY <3>6 DEF e, n
    <3>. QED  BY <1>2, <1>5, <2>4, <3>1, <3>2, <3>4
  <2>. QED  BY <2>2, <2>3, <2>4
<1>. QED  BY <1>4, <1>5, <1>2

\* What the machine sees of the FIFO.
Rv == rx_fifo.q # <<>> /\ rx_clks >= 2

LEMMA Counts ==
  ASSUME RxTypes, LineInv, FifoInv, coming # <<>>
  PROVE  /\ Waiting \in {0, 1} /\ (Waiting = 0 <=> rx_fifo.q = <<>>)
         /\ Pushed \in Nat /\ Popped \in Nat /\ Pushed = Popped + Waiting
         /\ Pushed <= PhyLength(Frame.kind) + 1
<1>1. Frame.kind \in Kinds /\ line.n <= PhyLength(Frame.kind)  BY TheFrame
<1>2. PhyLength(Frame.kind) \in Nat  BY <1>1, Lengths
<1>3. line.n \in Nat  BY DEF RxTypes
<1>4. Pushed \in Nat /\ Pushed <= PhyLength(Frame.kind) + 1  BY <1>1, <1>2, <1>3 DEF Pushed
<1>5. Waiting \in {0, 1} /\ (Waiting = 0 <=> rx_fifo.q = <<>>) /\ (Waiting = 1 => Pushed > 0)
  <2>1. rx_fifo.q = <<>> \/ (Pushed > 0 /\ rx_fifo.q = <<Given(Pushed)>>)  BY DEF FifoInv
  <2>3. Waiting = Len(rx_fifo.q)  BY DEF Waiting
  <2> HIDE DEF Waiting
  <2>4. CASE rx_fifo.q = <<>>  BY <2>3, <2>4
  <2>5. CASE rx_fifo.q # <<>>
    <3>1. Pushed > 0 /\ rx_fifo.q = <<Given(Pushed)>>  BY <2>1, <2>5
    <3>. QED  BY <2>3, <2>5, <3>1
  <2>. QED  BY <2>4, <2>5
<1>. QED  BY <1>4, <1>5 DEF Popped

LEMMA Seen ==
  ASSUME RxTypes, LineInv, FifoInv
  PROVE  /\ rvalid(rx_fifo) <=> Rv
         /\ Rv => coming # <<>> /\ Pushed > 0 /\ rx_rdata = Given(Pushed) /\ Pushed = Popped + 1
<1>1. rx_clks \in Nat  BY DEF RxTypes
<1>2. rx_fifo.q = <<>> \/ (coming # <<>> /\ Pushed > 0 /\ rx_fifo.q = <<Given(Pushed)>>)  BY DEF FifoInv
<1>3. rx_fifo.pushes[2] = IF rx_clks <= 1 THEN Waiting ELSE 0  BY DEF FifoInv
<1>4. Waiting = Len(rx_fifo.q)  BY DEF Waiting
<1>5. Len(<<Given(Pushed)>>) = 1 /\ Head(<<Given(Pushed)>>) = Given(Pushed)  OBVIOUS
<1>6. rvalid(rx_fifo) <=> Rv
  <2>1. CASE rx_fifo.q = <<>>
    <3>1. Waiting = 0  BY <1>4, <2>1
    <3>. QED  BY <1>3, <2>1, <3>1, <1>4 DEF rvalid, rdepth, Rv
  <2>2. CASE rx_fifo.q # <<>>
    <3>1. rx_fifo.q = <<Given(Pushed)>>  BY <1>2, <2>2
    <3>2. Waiting = 1  BY <1>4, <3>1
    <3>3. rdepth(rx_fifo) = 1 - rx_fifo.pushes[2]  BY <1>4, <3>2 DEF rdepth
    <3>. QED  BY <1>1, <1>3, <2>2, <3>2, <3>3 DEF rvalid, Rv
  <2>. QED  BY <2>1, <2>2
<1>7. ASSUME Rv PROVE coming # <<>> /\ Pushed > 0 /\ rx_rdata = Given(Pushed) /\ Pushed = Popped + 1
  <2>1. coming # <<>> /\ Pushed > 0 /\ rx_fifo.q = <<Given(Pushed)>>  BY <1>2, <1>7 DEF Rv
  <2>2. Pushed = Popped + Waiting /\ Waiting = 1  BY <1>5, <2>1, Counts DEF Waiting
  <2>. QED  BY <1>5, <1>7, <2>1, <2>2 DEF Rv, rx_rdata
<1>. QED  BY <1>6, <1>7

\* When the PHY's clock comes, the machine has dealt with what it pushed before.
LEMMA Settles ==
  ASSUME RxTypes, LineInv, FifoInv, MachineInv, SlowPhy, rx_clks = RxRatio
  PROVE  /\ rx_fifo.q = <<>> /\ rx_fifo.pushes = <<0, 0>>
         /\ rx_fifo.pops[1] \in {0, 1} /\ rx_fifo.pops[2] \in 0 .. 2
         /\ coming # <<>> => /\ Popped = Pushed /\ Pushed <= PhyLength(Frame.kind)
                             /\ Pushed \in Nat /\ rx_fsm # "DONE"
                             /\ rx_fsm = "IDLE" <=> Popped = 0
<1>1. rx_clks >= 4 /\ rx_clks \in Nat  BY DEF SlowPhy
<1>2. coming # <<>> => rx_fifo.q = <<>> /\ (rx_fsm = "IDLE" <=> Popped = 0) /\ rx_fsm # "DONE"
  BY <1>1 DEF MachineInv
<1>3. rx_fifo.q = <<>>  BY <1>2 DEF FifoInv
<1>4. Waiting = 0  BY <1>3 DEF Waiting
<1>5. rx_fifo.pushes = <<0, 0>>
  <2>1. ~(rx_clks = 0) /\ ~(rx_clks <= 1)  BY <1>1
  <2>. QED  BY <1>4, <2>1 DEF FifoInv
<1>6. rx_fifo.pops[1] \in {0, 1} /\ rx_fifo.pops[2] \in 0 .. 2
  <2>1. rx_fifo.pops[1] \in 0 .. 1 - 0 /\ rx_fifo.pops[2] \in 0 .. 1 + rx_fifo.pops[1]  BY <1>4 DEF FifoInv
  <2>. QED  BY <2>1
<1>7. ASSUME coming # <<>>
      PROVE  Popped = Pushed /\ Pushed <= PhyLength(Frame.kind) /\ Pushed \in Nat
  <2>1. Popped \in Nat /\ Pushed \in Nat /\ Pushed = Popped + Waiting /\ Pushed <= PhyLength(Frame.kind) + 1
    BY <1>7, Counts
  <2>2. Popped # PhyLength(Frame.kind) + 1  BY <1>2, <1>7 DEF MachineInv
  <2>3. PhyLength(Frame.kind) \in Nat  BY <1>7, TheFrame, Lengths
  <2>. QED  BY <1>4, <2>1, <2>2, <2>3
<1>. QED  BY <1>2, <1>3, <1>5, <1>6, <1>7

\* What an edge of the PHY's clock does to the FIFO.
LEMMA PhyPushes ==
  ASSUME RxTypes, LineInv, EntryInv, FifoInv, MachineInv, SlowPhy, RxPhyEdge
  PROVE  /\ rx_fifo'.q = IF rest = 0 THEN <<rx_fifo_wdata>> ELSE <<>>
         /\ rx_fifo'.pushes = IF rest = 0 THEN <<1, 1>> ELSE <<0, 0>>
         /\ rx_fifo'.pops = <<0, rx_fifo.pops[1]>>
         /\ rx_slots' = IF rest = 0 THEN Append(Tail(rx_slots), rx_fifo_wdata) ELSE rx_slots
<1>1. rx_clks = RxRatio  BY DEF RxPhyEdge
<1>2. rx_fifo.q = <<>> /\ rx_fifo.pushes = <<0, 0>> /\ rx_fifo.pops[1] \in {0, 1} /\ rx_fifo.pops[2] \in 0 .. 2
  BY <1>1, Settles
<1>3. rx_fifo' = WriteEdge(rx_fifo, RxDepth, rx_fifo_wvalid, rx_fifo_wdata)  BY DEF RxPhyEdge
<1>4. rx_slots' = IF Len(rx_fifo'.q) > Len(rx_fifo.q)
                 THEN Append(Tail(rx_slots), rx_fifo_wdata) ELSE rx_slots  BY DEF RxPhyEdge
<1>5. wdepth(rx_fifo) < RxDepth
  <2>1. wdepth(rx_fifo) = rx_fifo.pops[2]
    <3>1. Len(rx_fifo.q) = 0  BY <1>2
    <3>. QED  BY <1>2, <3>1 DEF wdepth
  <2>. QED  BY <1>2, <2>1 DEF SlowPhy
<1>6. CASE rest = 0
  <2>1. rx_fifo_wvalid  BY <1>6 DEF EntryInv
  <2>2. rx_fifo' = [q |-> Append(rx_fifo.q, rx_fifo_wdata), pops |-> <<0, rx_fifo.pops[1]>>,
                    pushes |-> <<rx_fifo.pushes[1] + 1, rx_fifo.pushes[2] + 1>>]
    BY <1>3, <1>5, <2>1 DEF WriteEdge, One
  <2>3. rx_fifo'.q = <<rx_fifo_wdata>>  BY <1>2, <2>2
  <2>4. rx_fifo'.pushes = <<1, 1>>  BY <1>2, <2>2
  <2>5. Len(rx_fifo'.q) > Len(rx_fifo.q)  BY <1>2, <2>3
  <2>. QED  BY <1>4, <1>6, <2>2, <2>3, <2>4, <2>5
<1>7. CASE rest # 0
  <2>1. ~rx_fifo_wvalid  BY <1>7 DEF EntryInv
  <2>2. rx_fifo' = [q |-> rx_fifo.q, pops |-> <<0, rx_fifo.pops[1]>>,
                    pushes |-> <<rx_fifo.pushes[1] + 0, rx_fifo.pushes[2] + 0>>]
    BY <1>3, <2>1 DEF WriteEdge, One
  <2>4. rx_fifo'.pushes = <<0, 0>>  BY <1>2, <2>2
  <2>5. ~(Len(rx_fifo'.q) > Len(rx_fifo.q))  BY <1>2, <2>2
  <2>. QED  BY <1>2, <1>4, <1>7, <2>2, <2>4, <2>5
<1>. QED  BY <1>6, <1>7

\* A new frame begins.
LEMMA BeginStep ==
  ASSUME RxTypes, LineInv, EntryInv, FifoInv, MachineInv, SlowPhy, RxPhyEdge,
         NEW k \in Kinds, Begin(k)
  PROVE  /\ LineInv' /\ EntryInv' /\ FifoInv'
         /\ coming = <<>> /\ coming' # <<>> /\ Pushed' = 0 /\ Popped' = 0 /\ rx_fifo'.q = <<>>
         /\ rx_slots' = rx_slots
<1>1. rx_clks = RxRatio /\ rx_clks' = 0  BY DEF RxPhyEdge
<1>2. line.n = 0 /\ rest = RxGap /\ rest' = 0 /\ line' = [of |-> 1 - line.of, n |-> 1]
      /\ coming' = Append(coming, Incoming(1 - line.of, k))
  BY DEF Begin
<1>3. rest # 0  BY <1>2
<1>4. coming = <<>>
  <2>1. SUFFICES ASSUME coming # <<>> PROVE FALSE  OBVIOUS
  <2>2. Pushed <= PhyLength(Frame.kind)  BY <1>1, <2>1, Settles
  <2>3. Pushed = PhyLength(Frame.kind) + 1  BY <1>2, <1>3 DEF Pushed
  <2>4. PhyLength(Frame.kind) \in Nat  BY <2>1, TheFrame, Lengths
  <2>. QED  BY <2>2, <2>3, <2>4
<1>5. coming' = <<[of |-> 1 - line.of, kind |-> k]>>  BY <1>2, <1>4 DEF Incoming
<1>6. Frame' = [of |-> 1 - line.of, kind |-> k] /\ Last(coming') = [of |-> 1 - line.of, kind |-> k]
  BY <1>5 DEF Frame, Last
<1>7. PhyLength(k) \in Nat /\ PhyLength(k) >= 1  BY Lengths
<1>8. LineInv'
  <2>1. coming' = <<[of |-> line'.of, kind |-> Frame'.kind]>>  BY <1>2, <1>5, <1>6
  <2>2. Frame'.kind \in Kinds /\ line'.n <= PhyLength(Frame'.kind)  BY <1>2, <1>6, <1>7
  <2>3. ~(rest' > 0)  BY <1>2
  <2>4. coming' = <<[of |-> line'.of, kind |-> coming'[1].kind]>>  BY <2>1 DEF Frame
  <2>5. coming'[1].kind \in Kinds /\ line'.n <= PhyLength(coming'[1].kind)  BY <2>2 DEF Frame
  <2>. QED  BY <2>3, <2>4, <2>5 DEF LineInv, Frame
<1>9. rx_fifo'.q = <<>> /\ rx_fifo'.pushes = <<0, 0>> /\ rx_fifo'.pops = <<0, rx_fifo.pops[1]>>
      /\ rx_slots' = rx_slots
  BY <1>3, PhyPushes
<1>10. Waiting' = 0 /\ Pushed' = 0 /\ Popped' = 0
  <2>1. Waiting' = 0  BY <1>9 DEF Waiting
  <2>2. Pushed' = 0  BY <1>2 DEF Pushed
  <2>. QED  BY <2>1, <2>2 DEF Popped
<1>11. FifoInv'
  <2>1. rx_fifo.pops[1] \in {0, 1}  BY <1>1, Settles
  <2>. QED  BY <1>1, <1>9, <1>10, <2>1 DEF FifoInv
<1>12. EntryInv'
  <2>1. phy_dv  BY <1>2 DEF phy_dv
  <2>2. rx_fifo_wvalid' /\ phy_dv_q' /\ rx_fifo_wvalid' \in BOOLEAN /\ phy_dv_q' \in BOOLEAN
    BY <2>1 DEF RxPhyEdge, ValidEdge, phy_dv, EntryInv
  <2>3. rx_fifo_wdata' = PhyNibble(Last(coming').kind, line'.of, line'.n)  BY <2>1 DEF RxPhyEdge
  <2>4. Given(line.n)' = PhyNibble(Frame'.kind, Frame'.of, line'.n)
    <3>1. line'.n <= PhyLength(Frame'.kind)  BY <1>2, <1>6, <1>7
    <3>. QED  BY <3>1 DEF Given
  <2>5. rx_fifo_wdata' = Given(line.n)'  BY <1>2, <1>6, <2>3, <2>4
  <2>6. line'.n # 0  BY <1>2
  <2>. QED  BY <1>2, <2>2, <2>5, <2>6 DEF EntryInv
<1>. QED  BY <1>4, <1>5, <1>8, <1>9, <1>10, <1>11, <1>12

\* The line goes on with the frame it has, or rests.
LEMMA LineStep ==
  ASSUME RxTypes, LineInv, EntryInv, FifoInv, MachineInv, SlowPhy, RxPhyEdge, Continue \/ Idle
  PROVE  /\ LineInv' /\ EntryInv' /\ FifoInv'
         /\ coming' = coming /\ Frame' = Frame
         /\ coming # <<>> => /\ Popped' = Popped /\ Pushed' = Pushed + 1 /\ rx_fifo'.q # <<>>
                             /\ rx_slots' = Append(Tail(rx_slots), Given(Pushed + 1))
         /\ coming = <<>> => rx_slots' = rx_slots
<1>1. rx_clks = RxRatio /\ rx_clks' = 0  BY DEF RxPhyEdge
<1>2. coming' = coming  BY DEF Continue, Idle
<1>3. Frame' = Frame /\ (\A i : Given(i)' = Given(i))  BY <1>2 DEF Frame, Given
<1>4. line.n \in Nat /\ rest \in Nat /\ rest <= RxGap /\ line = [of |-> line.of, n |-> line.n]
  BY DEF RxTypes
<1>5. rx_fifo.pops[1] \in {0, 1}  BY <1>1, Settles
<1>6. CASE coming = <<>>
  <2>1. line.n = 0 /\ rest > 0 /\ rx_fsm = "IDLE"
    BY <1>6 DEF LineInv
  <2>2. Idle  BY <2>1 DEF Continue
  <2>3. line' = line /\ rest' > 0 /\ rest' \in Nat  BY <1>4, <2>1, <2>2 DEF Idle
  <2>4. rx_fsm' = rx_fsm  BY DEF RxPhyEdge
  <2>5. LineInv'  BY <1>2, <1>6, <2>1, <2>3, <2>4 DEF LineInv
  <2>6. /\ rx_fifo'.q = <<>> /\ rx_fifo'.pushes = <<0, 0>> /\ rx_fifo'.pops = <<0, rx_fifo.pops[1]>>
        /\ rx_slots' = rx_slots
    BY <2>1, PhyPushes
  <2>7. Waiting' = 0  BY <2>6 DEF Waiting
  <2>8. FifoInv'  BY <1>1, <1>5, <2>6, <2>7 DEF FifoInv
  <2>9. ~phy_dv /\ ~phy_dv_q  BY <2>1, <2>3 DEF phy_dv, EntryInv
  <2>10. rx_fifo_wvalid' = FALSE /\ phy_dv_q' = FALSE
    BY <2>9 DEF RxPhyEdge, ValidEdge, phy_dv
  <2>11. EntryInv'
    <3>1. rest' # 0 /\ line'.n = 0  BY <2>1, <2>3
    <3>. QED  BY <2>10, <3>1 DEF EntryInv
  <2>. QED  BY <1>2, <1>3, <1>6, <2>5, <2>6, <2>8, <2>11
<1>7. CASE coming # <<>>
  <2>1. /\ Frame.kind \in Kinds /\ Frame.of = line.of /\ Last(coming) = Frame
        /\ line.n <= PhyLength(Frame.kind) /\ (rest > 0 => line.n = 0)
        /\ coming = <<[of |-> line.of, kind |-> Frame.kind]>>
    BY <1>7, TheFrame DEF LineInv
  <2>2. Popped = Pushed /\ Pushed <= PhyLength(Frame.kind) /\ Pushed \in Nat  BY <1>1, <1>7, Settles
  <2>3. PhyLength(Frame.kind) \in Nat /\ PhyLength(Frame.kind) >= 1  BY <2>1, Lengths
  <2>4. rest = 0
    <3>1. CASE rest # 0
      <4>1. line.n = 0  BY <1>4, <2>1, <3>1
      <4>2. Pushed = PhyLength(Frame.kind) + 1  BY <3>1, <4>1 DEF Pushed
      <4>. QED  BY <2>2, <2>3, <4>2
    <3>. QED  BY <3>1
  <2>5. rx_fifo_wdata = Given(Pushed + 1)
    <3>1. CASE line.n # 0
      <4>1. Pushed + 1 = line.n  BY <1>4, <3>1 DEF Pushed
      <4>. QED  BY <2>4, <3>1, <4>1 DEF EntryInv
    <3>2. CASE line.n = 0
      <4>1. Pushed = PhyLength(Frame.kind)  BY <2>4, <3>2 DEF Pushed
      <4>2. ~(Pushed + 1 <= PhyLength(Frame.kind))  BY <2>3, <4>1
      <4>. QED  BY <2>4, <3>2, <4>2 DEF EntryInv, Given
    <3>. QED  BY <3>1, <3>2
  <2>6. /\ rx_fifo'.q = <<Given(Pushed + 1)>> /\ rx_fifo'.pushes = <<1, 1>>
        /\ rx_fifo'.pops = <<0, rx_fifo.pops[1]>>
        /\ rx_slots' = Append(Tail(rx_slots), Given(Pushed + 1))
    BY <2>4, <2>5, PhyPushes
  <2>7. Pushed' = Pushed + 1 /\ line'.of = line.of /\ line' = [of |-> line'.of, n |-> line'.n]
        /\ line'.n \in Nat /\ line'.n <= PhyLength(Frame.kind)
        /\ (rest' = 0 <=> line.n # 0) /\ (line'.n # 0 => line.n # 0) /\ rest' \in Nat
    <3>1. CASE Continue
      <4>1. line.n # 0 /\ rest' = rest  BY <3>1 DEF Continue
      <4>2. line' = [line EXCEPT !.n = IF line.n = PhyLength(Frame.kind) THEN 0 ELSE line.n + 1]
        BY <2>1, <3>1 DEF Continue
      <4>3. line' = [of |-> line.of, n |-> IF line.n = PhyLength(Frame.kind) THEN 0 ELSE line.n + 1]
        BY <1>4, <4>2
      <4>4. Pushed = line.n - 1  BY <4>1 DEF Pushed
      <4>5. CASE line.n = PhyLength(Frame.kind)
        <5>1. line' = [of |-> line.of, n |-> 0]  BY <4>3, <4>5
        <5>2. Pushed' = PhyLength(Frame.kind)  BY <1>3, <2>4, <4>1, <5>1 DEF Pushed
        <5>. QED  BY <1>4, <2>3, <2>4, <4>1, <4>4, <4>5, <5>1, <5>2
      <4>6. CASE line.n # PhyLength(Frame.kind)
        <5>1. line' = [of |-> line.of, n |-> line.n + 1]  BY <4>3, <4>6
        <5>2. line'.n = line.n + 1 /\ line'.n # 0  BY <1>4, <5>1
        <5>3. Pushed' = line'.n - 1  BY <5>2 DEF Pushed
        <5>. QED  BY <1>4, <2>1, <2>3, <2>4, <4>1, <4>4, <4>6, <5>1, <5>2, <5>3
      <4>. QED  BY <4>5, <4>6
    <3>2. CASE Idle
      <4>1. line.n = 0 /\ line' = line /\ rest' = 1  BY <1>4, <2>4, <3>2 DEF Idle
      <4>2. Pushed = PhyLength(Frame.kind)  BY <2>4, <4>1 DEF Pushed
      <4>3. Pushed' = PhyLength(Frame.kind) + 1
        <5>1. line'.n = 0 /\ rest' # 0  BY <4>1
        <5>. QED  BY <1>3, <5>1 DEF Pushed
      <4>. QED  BY <1>4, <2>3, <4>1, <4>2, <4>3
    <3>. QED  BY <3>1, <3>2
  <2>8. Waiting' = 1 /\ Popped' = Popped
    <3>1. Waiting' = 1  BY <2>6 DEF Waiting
    <3>2. Popped' = Pushed' - Waiting'  BY DEF Popped
    <3>. QED  BY <2>2, <2>7, <3>1, <3>2
  <2>9. LineInv'
    <3>1. coming' = <<[of |-> line'.of, kind |-> Frame'.kind]>>  BY <1>2, <1>3, <2>1, <2>7
    <3>2. rest' > 0 => line'.n = 0  BY <2>7
    <3>. QED  BY <1>3, <2>1, <2>7, <3>1, <3>2 DEF LineInv
  <2>10. FifoInv'
    <3>1. rx_fifo'.q = <<Given(Pushed)'>>  BY <1>3, <2>6, <2>7
    <3>2. Pushed' > 0 /\ coming' # <<>>  BY <1>2, <1>7, <2>2, <2>7
    <3>. QED  BY <1>1, <1>5, <2>6, <2>8, <3>1, <3>2 DEF FifoInv
  <2>11. EntryInv'
    <3>1. phy_dv_q <=> line.n # 0  BY DEF EntryInv
    <3>2. rx_fifo_wvalid' = (phy_dv \/ phy_dv_q) /\ phy_dv_q' = phy_dv
      BY DEF RxPhyEdge, ValidEdge, phy_dv
    <3>3. rx_fifo_wdata' = IF phy_dv THEN PhyNibble(Last(coming').kind, line'.of, line'.n) ELSE Eof
      BY DEF RxPhyEdge
    <3>4. phy_dv <=> line'.n # 0  BY DEF phy_dv
    <3>5. line'.n # 0 => rx_fifo_wdata' = Given(line.n)'
      <4>1. Given(line.n)' = PhyNibble(Frame.kind, Frame.of, line'.n)  BY <1>3, <2>7 DEF Given
      <4>. QED  BY <1>2, <2>1, <2>7, <3>3, <3>4, <4>1
    <3>6. rx_fifo_wvalid' \in BOOLEAN /\ phy_dv_q' \in BOOLEAN  BY <3>2 DEF phy_dv, EntryInv
    <3>7. rx_fifo_wvalid' <=> rest' = 0  BY <2>7, <3>1, <3>2, <3>4
    <3>8. phy_dv_q' <=> line'.n # 0  BY <3>2, <3>4
    <3>9. line'.n = 0 => rx_fifo_wdata' = Eof  BY <3>3, <3>4
    <3>. QED  BY <3>5, <3>6, <3>7, <3>8, <3>9 DEF EntryInv
  <2>. QED  BY <1>2, <1>3, <1>7, <2>6, <2>7, <2>8, <2>9, <2>10, <2>11
<1>. QED  BY <1>6, <1>7

LEMMA GivenIsSlot ==
  ASSUME RxTypes, LineInv, coming # <<>>, NEW i \in Nat
  PROVE  Given(i) \in Slot
<1>1. Frame.kind \in Kinds /\ Frame.of \in {0, 1}  BY TheFrame DEF RxTypes
<1>2. PhyLength(Frame.kind) \in Nat /\ Frame.kind.sfd \in BOOLEAN /\ Frame.kind.len \in Nat  BY <1>1, Lengths
<1>3. /\ Frame.kind.sfd => PhyLength(Frame.kind) = RxPreLen + Frame.kind.len
      /\ ~Frame.kind.sfd => PhyLength(Frame.kind) = RxPreLen - 1
  BY <1>1, Lengths
<1>4. CASE ~(i <= PhyLength(Frame.kind))  BY <1>4 DEF Given, Eof, Entry, Slot
<1>5. CASE i <= PhyLength(Frame.kind)
  <2>1. Given(i) = PhyNibble(Frame.kind, Frame.of, i)  BY <1>5 DEF Given
  <2>2. CASE i < RxPreLen \/ i = RxPreLen  BY <2>1, <2>2 DEF PhyNibble, Entry, Slot
  <2>3. CASE i > RxPreLen
    <3>1. ~(i < RxPreLen) /\ i # RxPreLen  BY <2>3
    <3> DEFINE e == Frame.kind.er = i - RxPreLen - 1  n == i - RxPreLen - 1
    <3>2. Given(i) = [er |-> e, dv |-> TRUE, kind |-> "data", of |-> Frame.of, at |-> n]
      BY <2>1, <3>1 DEF PhyNibble, Entry
    <3>3. e \in BOOLEAN /\ n \in Nat  BY <2>3
    <3> HIDE DEF e, n
    <3>. QED  BY <1>1, <3>2, <3>3 DEF Slot
  <2>. QED  BY <2>2, <2>3
<1>. QED  BY <1>4, <1>5

LEMMA Shifted ==
  ASSUME NEW s \in Seq(Slot), NEW e \in Slot, Len(s) > 0
  PROVE  /\ Append(Tail(s), e) \in Seq(Slot) /\ Len(Append(Tail(s), e)) = Len(s)
         /\ \A i \in 1 .. Len(s) :
               Append(Tail(s), e)[i] = IF i = Len(s) THEN e ELSE s[i + 1]
  OBVIOUS

machine == <<rx_fcs_filt, rx_addr_filt, rx_fsm, cur_rx_buf, rx_prev_nibl, rx_nibl_cnt,
             rx_ram_p0, rx_ram_p0_wdata, rx_ram, rx_addr_match, rx_fcs32, rx_err_acc,
             rx_stat, rx_err, rx_len, rxpc, rxbuf, got>>

LEMMA PhyStep ==
  ASSUME RxIInv, SlowPhy, RxPhyEdge
  PROVE  RxIInv'
<1> USE DEF RxIInv
<1>1. rx_clks = RxRatio /\ rx_clks' = 0 /\ UNCHANGED machine
  BY DEF RxPhyEdge, machine
<1>2. coming = <<>> => rx_fsm = "IDLE"  BY DEF LineInv
<1>3. /\ rx_slots' = rx_slots => rx_slots' \in Seq(Slot) /\ Len(rx_slots') = RxDepth
      /\ coming # <<>> /\ rx_slots' = Append(Tail(rx_slots), Given(Pushed + 1)) =>
           /\ rx_slots' \in Seq(Slot) /\ Len(rx_slots') = RxDepth
           /\ \A i \in 1 .. RxDepth :
                 rx_slots'[i] = IF i = RxDepth THEN Given(Pushed + 1) ELSE rx_slots[i + 1]
  <2>1. rx_slots \in Seq(Slot) /\ Len(rx_slots) = RxDepth  BY DEF SlotsInv
  <2> DEFINE e == Given(Pushed + 1)
  <2>2. coming # <<>> => e \in Slot  BY Counts, GivenIsSlot
  <2> HIDE DEF e
  <2>3. ASSUME coming # <<>>, rx_slots' = Append(Tail(rx_slots), e)
        PROVE  /\ rx_slots' \in Seq(Slot) /\ Len(rx_slots') = RxDepth
               /\ \A i \in 1 .. RxDepth : rx_slots'[i] = IF i = RxDepth THEN e ELSE rx_slots[i + 1]
    <3> DEFINE s == Append(Tail(rx_slots), e)
    <3>1. /\ s \in Seq(Slot) /\ Len(s) = RxDepth
          /\ \A i \in 1 .. RxDepth : s[i] = IF i = RxDepth THEN e ELSE rx_slots[i + 1]
      BY <2>1, <2>2, <2>3, Shifted
    <3>. QED  BY <2>3, <3>1
  <2>. QED  BY <2>1, <2>3 DEF e
<1>4. RxTypes'
  <2>1. line' = [of |-> line'.of, n |-> line'.n] /\ line'.of \in {0, 1} /\ line'.n \in Nat /\ rest' \in 0 .. RxGap
    <3>1. /\ line = [of |-> line.of, n |-> line.n] /\ line.of \in {0, 1} /\ line.n \in Nat
          /\ rest \in 0 .. RxGap
      BY DEF RxTypes
    <3>2. CASE \E k \in Kinds : Begin(k)
      <4>1. line' = [of |-> 1 - line.of, n |-> 1] /\ rest' = 0  BY <3>2 DEF Begin
      <4>. QED  BY <3>1, <4>1
    <3>3. CASE Continue
      <4> DEFINE m == IF line.n = PhyLength(Last(coming).kind) THEN 0 ELSE line.n + 1
      <4>1. line' = [line EXCEPT !.n = m] /\ rest' = rest  BY <3>3 DEF Continue
      <4>2. m \in Nat  BY <3>1
      <4> HIDE DEF m
      <4>3. line' = [of |-> line.of, n |-> m]  BY <3>1, <4>1
      <4>. QED  BY <3>1, <4>1, <4>2, <4>3
    <3>4. CASE Idle  BY <3>1, <3>4 DEF Idle
    <3>. QED  BY <3>2, <3>3, <3>4 DEF RxPhyEdge, Phy
  <2>. QED  BY <1>1, <2>1 DEF RxTypes, machine
<1>5. CASE \E k \in Kinds : Begin(k)
  <2>1. /\ LineInv' /\ EntryInv' /\ FifoInv'
        /\ coming = <<>> /\ coming' # <<>> /\ Pushed' = 0 /\ Popped' = 0 /\ rx_fifo'.q = <<>>
        /\ rx_slots' = rx_slots
    BY <1>5, BeginStep
  <2>2. rx_fsm = "IDLE" /\ rx_fsm' = "IDLE"  BY <1>1, <1>2, <2>1 DEF machine
  <2>3. PhyLength(Frame.kind)' \in Nat
    <3>1. Frame'.kind \in Kinds  BY <2>1 DEF LineInv, Frame
    <3>. QED  BY <3>1, Lengths
  <2>4. MachineInv'  BY <1>1, <2>1, <2>2, <2>3 DEF MachineInv
  <2>5. SlotsInv'  BY <1>3, <2>1 DEF SlotsInv
  <2>6. CheckInv'  BY <1>1, <2>2 DEF CheckInv, machine
  <2>7. WordInv'  BY <1>1, <2>2 DEF WordInv, machine
  <2>8. DeliveredWhole'  BY <1>1 DEF DeliveredWhole, machine
  <2>. QED  BY <1>4, <2>1, <2>4, <2>5, <2>6, <2>7, <2>8
<1>6. CASE Continue \/ Idle
  <2>1. /\ LineInv' /\ EntryInv' /\ FifoInv'
        /\ coming' = coming /\ Frame' = Frame
        /\ coming # <<>> => /\ Popped' = Popped /\ Pushed' = Pushed + 1 /\ rx_fifo'.q # <<>>
                            /\ rx_slots' = Append(Tail(rx_slots), Given(Pushed + 1))
        /\ coming = <<>> => rx_slots' = rx_slots
    BY <1>6, LineStep
  <2>2. coming # <<>> => /\ Popped = Pushed /\ Pushed <= PhyLength(Frame.kind)
                         /\ Pushed \in Nat /\ rx_fsm # "DONE"
                         /\ rx_fsm = "IDLE" <=> Popped = 0
    BY <1>1, Settles
  <2>3. ASSUME coming # <<>> PROVE Taken' = Taken  BY <2>1, <2>3 DEF Taken
  <2>4. ASSUME coming # <<>> PROVE PhyLength(Frame.kind)' = PhyLength(Frame.kind) /\ PhyLength(Frame.kind) \in Nat
    BY <2>1, <2>4, TheFrame, Lengths
  <2>5. MachineInv'
    <3>1. SUFFICES ASSUME coming # <<>>
                   PROVE  /\ rx_clks' <= (IF Popped' = 0 /\ rx_fsm' # "IDLE" THEN 3 ELSE 2)
                          /\ rx_fsm' = "IDLE" <=> (Popped' = 0 /\ ~(rx_clks' = 3 /\ rx_fifo'.q # <<>>))
                          /\ Popped' = PhyLength(Frame.kind)' + 1 => rx_fsm' = "DONE"
                          /\ rx_fsm' # "DONE"
                          /\ rx_fsm' = "HUNT" => /\ Popped' < RxPreLen
                                                 /\ rx_prev_nibl' = IF Popped' = 0 THEN "none" ELSE "5"
                          /\ rx_fsm' = "DATA" => Frame'.kind.sfd /\ Taken' >= 0
      BY <2>1 DEF MachineInv
    <3>2. rx_fsm' = rx_fsm /\ rx_prev_nibl' = rx_prev_nibl  BY <1>1 DEF machine
    <3>3. Popped # PhyLength(Frame.kind) + 1  BY <2>2, <2>4, <3>1
    <3>4. /\ rx_fsm = "HUNT" => /\ Popped < RxPreLen
                                /\ rx_prev_nibl = IF Popped = 0 THEN "none" ELSE "5"
          /\ rx_fsm = "DATA" => Frame.kind.sfd /\ Taken >= 0
      BY <3>1 DEF MachineInv
    <3>. QED  BY <1>1, <2>1, <2>2, <2>3, <2>4, <3>1, <3>2, <3>3, <3>4
  <2>6. SlotsInv'
    <3>1. SUFFICES ASSUME coming # <<>>, NEW i \in 1 .. RxDepth, i > RxDepth - (Pushed + 1), rx_slots'[i].er
                   PROVE  Frame.kind.er # -1
      BY <1>3, <2>1 DEF SlotsInv
    <3> DEFINE e == Given(Pushed + 1)
    <3>0. rx_slots'[i] = IF i = RxDepth THEN e ELSE rx_slots[i + 1]  BY <1>3, <2>1, <3>1
    <3> HIDE DEF e
    <3>2. CASE i = RxDepth
      <4>1. Given(Pushed + 1).er  BY <3>0, <3>1, <3>2 DEF e
      <4>2. Pushed + 1 \in Nat /\ Pushed + 1 > 0  BY <2>2, <3>1
      <4>3. Pushed + 1 > RxPreLen /\ Pushed + 1 <= PhyLength(Frame.kind)
            /\ Frame.kind.er = (Pushed + 1) - RxPreLen - 1
        <5>1. PhyLength(Frame.kind) \in Nat /\ Frame.kind.sfd \in BOOLEAN
              /\ (~Frame.kind.sfd => PhyLength(Frame.kind) = RxPreLen - 1)
          BY <3>1, TheFrame, Lengths
        <5>. QED  BY <3>1, <4>1, <4>2, <5>1, Entries
      <4>. QED  BY <2>2, <3>1, <4>3
    <3>3. CASE i # RxDepth
      <4>1. rx_slots[i + 1].er /\ i + 1 \in 1 .. RxDepth  BY <3>0, <3>1, <3>3
      <4>2. i + 1 > RxDepth - Pushed  BY <2>2, <3>1
      <4>. QED  BY <3>1, <4>1, <4>2 DEF SlotsInv
    <3>. QED  BY <3>2, <3>3
  <2>7. CheckInv'
    <3>1. rx_fsm # "IDLE" => coming # <<>>  BY <1>2
    <3>2. rx_fsm # "IDLE" => Taken' = Taken  BY <2>3, <3>1
    <3>. QED  BY <1>1, <2>1, <3>2 DEF CheckInv, machine
  <2>8. WordInv'  BY <1>1, <2>1 DEF WordInv, Held, machine
  <2>9. DeliveredWhole'  BY <1>1 DEF DeliveredWhole, machine
  <2>. QED  BY <1>4, <2>1, <2>5, <2>6, <2>7, <2>8, <2>9
<1>. QED  BY <1>5, <1>6 DEF RxPhyEdge, Phy

\* What an edge of the system clock does to the FIFO.
Pops == rx_fsm \in {"HUNT", "DATA", "OVR"} /\ Rv

LEMMA EdgeFifo ==
  ASSUME RxTypes, LineInv, FifoInv, NEW acts \in BOOLEAN, RxEdge(acts)
  PROVE  /\ rx_clks' = rx_clks + 1 /\ rx_clks \in Nat /\ rx_clks < RxRatio
         /\ rx_fifo'.q = IF Pops THEN <<>> ELSE rx_fifo.q
         /\ rx_fifo'.pushes = <<0, rx_fifo.pushes[1]>>
         /\ rx_fifo'.pops = IF Pops THEN <<rx_fifo.pops[1] + 1, rx_fifo.pops[2] + 1>>
                            ELSE <<rx_fifo.pops[1], rx_fifo.pops[2]>>
<1>1. rx_clks' = rx_clks + 1 /\ rx_clks \in Nat /\ rx_clks < RxRatio  BY DEF RxEdge, RxTypes
<1>2. rx_fifo' = ReadEdge(rx_fifo, rx_fifo_rready)  BY DEF RxEdge
<1>3. Pops <=> rx_fifo_rready /\ rvalid(rx_fifo)  BY Seen DEF Pops, rx_fifo_rready
<1>4. rx_fifo.pops[1] \in Int /\ rx_fifo.pops[2] \in Int
  <2>1. Waiting \in Nat
    <3>1. CASE rx_fifo.q = <<>>  BY <3>1 DEF Waiting
    <3>2. CASE rx_fifo.q # <<>>  
      <4>1. rx_fifo.q = <<Given(Pushed)>>  BY <3>2 DEF FifoInv
      <4>. QED  BY <4>1 DEF Waiting
    <3>. QED  BY <3>1, <3>2
  <2>. QED  BY <2>1 DEF FifoInv
<1>5. CASE Pops
  <2>1. rx_fifo' = [q |-> Tail(rx_fifo.q), pops |-> <<rx_fifo.pops[1] + 1, rx_fifo.pops[2] + 1>>,
                    pushes |-> <<0, rx_fifo.pushes[1]>>]
    BY <1>2, <1>3, <1>5 DEF ReadEdge, One
  <2>2. rx_fifo.q = <<Given(Pushed)>>  BY <1>5 DEF FifoInv, Pops, Rv
  <2>3. Tail(rx_fifo.q) = <<>>  BY <2>2
  <2>. QED  BY <1>1, <1>5, <2>1, <2>3
<1>6. CASE ~Pops
  <2>1. rx_fifo' = [q |-> rx_fifo.q, pops |-> <<rx_fifo.pops[1] + 0, rx_fifo.pops[2] + 0>>,
                    pushes |-> <<0, rx_fifo.pushes[1]>>]
    BY <1>2, <1>3, <1>6 DEF ReadEdge, One
  <2>. QED  BY <1>1, <1>4, <1>6, <2>1
<1>. QED  BY <1>5, <1>6

\* Where the machine goes, by the entry it is at.
LEMMA Moves ==
  ASSUME RxTypes, LineInv, FifoInv, MachineInv, NEW acts \in BOOLEAN, RxEdge(acts), coming # <<>>
  PROVE  /\ rx_fsm = "IDLE" => ~Pops /\ rx_fsm' = IF ~Rv THEN "IDLE"
                                                 ELSE IF rx_stat # RxBuffers THEN "HUNT" ELSE "OVR"
         /\ rx_fsm = "DONE" => ~Pops /\ rx_fsm' = "IDLE"
         /\ rx_fsm \in {"HUNT", "DATA", "OVR"} /\ ~Pops => rx_fsm' = rx_fsm
         /\ Pops => /\ Popped + 1 = Pushed /\ rx_rdata = Given(Popped + 1)
                    /\ Popped <= PhyLength(Frame.kind)
                    /\ rx_clks = 2 \/ (rx_clks = 3 /\ Popped = 0)
         /\ Pops /\ Popped = PhyLength(Frame.kind) =>
              /\ rx_rdata.dv = FALSE /\ rx_clks = 2
              /\ rx_fsm' = IF rx_fsm = "OVR" THEN "IDLE" ELSE "DONE"
         /\ Pops /\ Popped # PhyLength(Frame.kind) =>
              /\ rx_rdata.dv
              /\ rx_fsm' = IF rx_fsm = "HUNT" /\ Popped + 1 = RxPreLen THEN "DATA" ELSE rx_fsm
<1>1. rvalid(rx_fifo) <=> Rv  BY Seen
<1>2. rx_fsm' = rx_fsm_d  BY DEF RxEdge
<1>3. /\ Pushed \in Nat /\ Popped \in Nat /\ Pushed <= PhyLength(Frame.kind) + 1
      /\ PhyLength(Frame.kind) \in Nat /\ PhyLength(Frame.kind) >= 1
  BY Counts, TheFrame, Lengths
<1>4. ASSUME Rv
      PROVE  /\ Popped + 1 = Pushed /\ rx_rdata = Given(Popped + 1)
             /\ Popped <= PhyLength(Frame.kind) /\ rx_fifo.q # <<>> /\ rx_clks \in Nat /\ rx_clks >= 2
  <2>1. rx_rdata = Given(Pushed) /\ Pushed = Popped + 1  BY <1>4, Seen
  <2>2. rx_fifo.q # <<>> /\ rx_clks >= 2 /\ rx_clks \in Nat  BY <1>4 DEF Rv, RxTypes
  <2>. QED  BY <1>3, <2>1, <2>2
<1>5. CASE rx_fsm = "IDLE"
  <2>1. ~Pops  BY <1>5 DEF Pops
  <2>. QED  BY <1>1, <1>2, <1>5, <2>1 DEF rx_fsm_d
<1>6. CASE rx_fsm = "DONE"
  <2>1. ~Pops  BY <1>6 DEF Pops
  <2>. QED  BY <1>2, <1>6, <2>1 DEF rx_fsm_d
<1>7. CASE rx_fsm \in {"HUNT", "DATA", "OVR"} /\ ~Pops
  <2>1. ~Rv /\ ~rvalid(rx_fifo)  BY <1>1, <1>7 DEF Pops
  <2>2. ~rx_eof  BY <2>1 DEF rx_eof
  <2>. QED  BY <1>2, <1>7, <2>1, <2>2 DEF rx_fsm_d
<1>8. CASE Pops
  <2>1. Rv /\ rvalid(rx_fifo) /\ rx_fsm \in {"HUNT", "DATA", "OVR"}  BY <1>1, <1>8 DEF Pops
  <2>2. /\ Popped + 1 = Pushed /\ rx_rdata = Given(Popped + 1) /\ Popped <= PhyLength(Frame.kind)
        /\ rx_fifo.q # <<>> /\ rx_clks \in Nat /\ rx_clks >= 2
    BY <1>4, <2>1
  <2>3. rx_clks <= (IF Popped = 0 /\ rx_fsm # "IDLE" THEN 3 ELSE 2)  BY <2>2 DEF MachineInv
  <2>4. rx_clks = 2 \/ (rx_clks = 3 /\ Popped = 0)  BY <2>2, <2>3
  <2>5. rx_eof <=> ~rx_rdata.dv  BY <2>1 DEF rx_eof
  <2>6. CASE Popped = PhyLength(Frame.kind)
    <3>1. ~rx_rdata.dv /\ rx_rdata.dv \in BOOLEAN
      <4>1. Popped + 1 > PhyLength(Frame.kind) /\ Popped + 1 \in Nat  BY <1>3, <2>6
      <4>2. rx_rdata \in Slot  BY <2>2, <4>1, GivenIsSlot
      <4>. QED  BY <1>3, <2>2, <4>1, <4>2, Entries DEF Slot
    <3>2. rx_fsm' = IF rx_fsm = "OVR" THEN "IDLE" ELSE "DONE"
      BY <1>2, <2>1, <2>5, <3>1 DEF rx_fsm_d
    <3>3. rx_clks = 2  BY <1>3, <2>4, <2>6
    <3>. QED  BY <1>3, <1>8, <2>1, <2>2, <2>4, <2>6, <3>1, <3>2, <3>3
  <2>7. CASE Popped # PhyLength(Frame.kind)
    <3>1. Popped + 1 \in Nat /\ Popped + 1 > 0 /\ Popped + 1 <= PhyLength(Frame.kind)  BY <1>3, <2>2, <2>7
    <3>2. rx_rdata.dv  BY <2>2, <3>1, Entries
    <3>3. ~rx_eof  BY <2>5, <3>2
    <3>4. CASE rx_fsm # "HUNT"  BY <1>2, <1>8, <2>1, <2>2, <2>4, <2>7, <3>2, <3>3, <3>4 DEF rx_fsm_d
    <3>5. CASE rx_fsm = "HUNT"
      <4>1. Popped < RxPreLen /\ rx_prev_nibl = IF Popped = 0 THEN "none" ELSE "5"
        BY <3>5 DEF MachineInv
      <4>2. rx_fsm' = IF rx_rdata.kind = "d" /\ rx_prev_nibl = "5" /\ ~rx_rdata.er THEN "DATA" ELSE "HUNT"
        BY <1>2, <2>1, <3>3, <3>5 DEF rx_fsm_d
      <4>3. CASE Popped + 1 = RxPreLen
        <5>1. Frame.kind.sfd  BY <1>3, <3>1, <4>3, TheFrame, Lengths
        <5>2. rx_rdata.kind = "d" /\ ~rx_rdata.er  BY <2>2, <3>1, <4>3, <5>1, Entries
        <5>3. rx_prev_nibl = "5"  BY <1>3, <4>1, <4>3
        <5>. QED  BY <1>8, <2>2, <2>4, <2>7, <3>2, <3>5, <4>2, <4>3, <5>2, <5>3
      <4>4. CASE Popped + 1 # RxPreLen
        <5>1. Popped + 1 < RxPreLen  BY <1>3, <4>1, <4>4
        <5>2. rx_rdata.kind = "5"  BY <2>2, <3>1, <5>1, Entries
        <5>. QED  BY <1>8, <2>2, <2>4, <2>7, <3>2, <3>5, <4>2, <4>4, <5>2
      <4>. QED  BY <4>3, <4>4
    <3>. QED  BY <3>4, <3>5
  <2>. QED  BY <2>6, <2>7
<1>. QED  BY <1>5, <1>6, <1>7, <1>8 DEF RxTypes

\* A frame that is done with is the only one, and all of it has been popped.
Ends == rx_fsm \in {"DONE", "OVR"} /\ rx_fsm' = "IDLE"

LEMMA EdgeEnds ==
  ASSUME RxTypes, LineInv, FifoInv, MachineInv, NEW acts \in BOOLEAN, RxEdge(acts), Ends
  PROVE  /\ coming # <<>> /\ coming' = <<>> /\ line.n = 0 /\ rest > 0 /\ rx_fifo'.q = <<>>
<1>1. coming # <<>>  BY DEF Ends, LineInv
<1>2. coming' = Tail(coming) /\ Tail(coming) = <<>>  BY <1>1, TheFrame DEF RxEdge, Ends
<1>3. /\ Pushed \in Nat /\ Popped \in Nat /\ Pushed = Popped + Waiting /\ Waiting \in {0, 1}
      /\ (Waiting = 0 <=> rx_fifo.q = <<>>)
      /\ Pushed <= PhyLength(Frame.kind) + 1 /\ PhyLength(Frame.kind) \in Nat
  BY <1>1, Counts, TheFrame, Lengths
<1>4. Pushed = PhyLength(Frame.kind) + 1 /\ rx_fifo'.q = <<>>
  <2>1. CASE rx_fsm = "DONE"
    <3>1. Popped = PhyLength(Frame.kind) + 1  BY <1>1, <2>1 DEF MachineInv
    <3>2. rx_fifo.q = <<>> /\ Pushed = PhyLength(Frame.kind) + 1  BY <1>3, <3>1
    <3>. QED  BY <3>2, EdgeFifo
  <2>2. CASE rx_fsm = "OVR"
    <3>1. Pops /\ Popped = PhyLength(Frame.kind) /\ Popped + 1 = Pushed  BY <1>1, <2>2, Moves DEF Ends
    <3>2. rx_fifo'.q = <<>>  BY <3>1, EdgeFifo
    <3>. QED  BY <3>1, <3>2
  <2>. QED  BY <2>1, <2>2 DEF Ends
<1>5. line.n = 0 /\ rest > 0
  <2>1. line.n \in Nat /\ rest \in Nat /\ line.n <= PhyLength(Frame.kind)  BY <1>1, TheFrame DEF RxTypes
  <2>2. CASE line.n # 0
    <3>1. Pushed = line.n - 1  BY <2>2 DEF Pushed
    <3>. QED  BY <1>3, <1>4, <2>1, <3>1
  <2>3. CASE line.n = 0 /\ rest = 0
    <3>1. Pushed = PhyLength(Frame.kind)  BY <2>3 DEF Pushed
    <3>. QED  BY <1>3, <1>4, <3>1
  <2>. QED  BY <2>1, <2>2, <2>3
<1>. QED  BY <1>1, <1>2, <1>4, <1>5

\* Otherwise the frame stays and the machine is one entry further or where it was.
LEMMA EdgeStays ==
  ASSUME RxTypes, LineInv, FifoInv, MachineInv, NEW acts \in BOOLEAN, RxEdge(acts), ~Ends
  PROVE  /\ coming' = coming /\ Frame' = Frame /\ Pushed' = Pushed
         /\ \A i : Given(i)' = Given(i)
         /\ coming # <<>> => /\ Waiting' = (IF Pops THEN 0 ELSE Waiting)
                             /\ Popped' = (IF Pops THEN Popped + 1 ELSE Popped)
<1>1. coming' = coming /\ line' = line /\ rest' = rest  BY DEF RxEdge, Ends
<1>2. Frame' = Frame  BY <1>1 DEF Frame
<1>3. Pushed' = Pushed /\ \A i : Given(i)' = Given(i)  BY <1>1, <1>2 DEF Pushed, Given
<1>4. ASSUME coming # <<>>
      PROVE  /\ Waiting' = (IF Pops THEN 0 ELSE Waiting)
             /\ Popped' = (IF Pops THEN Popped + 1 ELSE Popped)
  <2>1. Waiting' = Len(rx_fifo'.q) /\ Popped' = Pushed' - Waiting'  BY DEF Waiting, Popped
  <2>2. CASE Pops
    <3>1. rx_fifo'.q = <<>>  BY <2>2, EdgeFifo
    <3>2. Waiting' = 0  BY <2>1, <3>1
    <3>3. Popped + 1 = Pushed  BY <1>4, <2>2, Moves
    <3>. QED  BY <1>3, <1>4, <2>1, <2>2, <3>2, <3>3, Counts
  <2>3. CASE ~Pops
    <3>1. rx_fifo'.q = rx_fifo.q  BY <2>3, EdgeFifo
    <3>2. Waiting' = Waiting  BY <2>1, <3>1 DEF Waiting
    <3>. QED  BY <1>3, <1>4, <2>1, <2>3, <3>2, Counts DEF Popped
  <2>. QED  BY <2>2, <2>3
<1>. QED  BY <1>1, <1>2, <1>3, <1>4

LEMMA EdgeLineFifo ==
  ASSUME RxTypes, LineInv, EntryInv, FifoInv, MachineInv, NEW acts \in BOOLEAN, RxEdge(acts)
  PROVE  LineInv' /\ EntryInv' /\ FifoInv'
<1>1. /\ line' = line /\ rest' = rest /\ rx_fifo_wvalid' = rx_fifo_wvalid
      /\ rx_fifo_wdata' = rx_fifo_wdata /\ phy_dv_q' = phy_dv_q
  BY DEF RxEdge
<1>2. /\ rx_clks' = rx_clks + 1 /\ rx_clks \in Nat
      /\ rx_fifo'.q = IF Pops THEN <<>> ELSE rx_fifo.q
      /\ rx_fifo'.pushes = <<0, rx_fifo.pushes[1]>>
      /\ rx_fifo'.pops = IF Pops THEN <<rx_fifo.pops[1] + 1, rx_fifo.pops[2] + 1>>
                         ELSE <<rx_fifo.pops[1], rx_fifo.pops[2]>>
  BY EdgeFifo
<1>3. LineInv'
  <2>1. CASE Ends
    <3>1. coming' = <<>> /\ line'.n = 0 /\ rest' > 0  BY <1>1, <2>1, EdgeEnds
    <3>. QED  BY <2>1, <3>1 DEF LineInv, Ends
  <2>2. CASE ~Ends /\ coming = <<>>
    <3>1. rx_fsm = "IDLE" /\ line.n = 0 /\ rest > 0  BY <2>2 DEF LineInv
    <3>2. ~rvalid(rx_fifo)  BY <2>2, Seen
    <3>3. rx_fsm' = "IDLE"  BY <3>1, <3>2 DEF RxEdge, rx_fsm_d
    <3>4. coming' = <<>>  BY <2>2, EdgeStays
    <3>. QED  BY <1>1, <3>1, <3>3, <3>4 DEF LineInv
  <2>3. CASE ~Ends /\ coming # <<>>
    <3>1. coming' = coming /\ Frame' = Frame  BY <2>3, EdgeStays
    <3>2. /\ coming = <<[of |-> line.of, kind |-> Frame.kind]>> /\ Frame.kind \in Kinds
          /\ line.n <= PhyLength(Frame.kind) /\ (rest > 0 => line.n = 0)
      BY <2>3, TheFrame DEF LineInv
    <3>3. coming' = <<[of |-> line'.of, kind |-> Frame'.kind]>>  BY <1>1, <3>1, <3>2
    <3>. QED  BY <1>1, <3>1, <3>2, <3>3 DEF LineInv
  <2>. QED  BY <2>1, <2>2, <2>3
<1>4. EntryInv'
  <2>1. CASE rest = 0 /\ line.n # 0
    <3>1. ~Ends  BY <2>1, EdgeEnds
    <3>2. Given(line.n)' = Given(line.n)
      <4>1. Frame' = Frame  BY <3>1, EdgeStays
      <4>. QED  BY <1>1, <4>1 DEF Given
    <3>. QED  BY <1>1, <2>1, <3>2 DEF EntryInv
  <2>2. CASE ~(rest = 0 /\ line.n # 0)  BY <1>1, <2>2 DEF EntryInv
  <2>. QED  BY <2>1, <2>2
<1>5. FifoInv'
  <2>1. CASE rx_fifo'.q = <<>>
    <3>1. Waiting' = 0  BY <2>1 DEF Waiting
    <3>2. rx_fifo'.pushes = <<0, 0>>
      <4>1. CASE rx_clks = 0
        <5>1. ~Pops  BY <4>1 DEF Pops, Rv
        <5>2. rx_fifo.q = <<>>  BY <1>2, <2>1, <5>1
        <5>3. Waiting = 0  BY <5>2 DEF Waiting
        <5>4. rx_fifo.pushes[1] = 0  BY <4>1, <5>3 DEF FifoInv
        <5>. QED  BY <1>2, <5>4
      <4>2. CASE rx_clks # 0
        <5>1. rx_fifo.pushes[1] = 0  BY <4>2 DEF FifoInv
        <5>. QED  BY <1>2, <5>1
      <4>. QED  BY <4>1, <4>2
    <3>3. Len(rx_fifo'.pops) = 2 /\ rx_fifo'.pops[1] \in 0 .. 1 /\ rx_fifo'.pops[2] \in 0 .. 1 + rx_fifo'.pops[1]
      <4>1. CASE Pops
        <5>1. rx_fifo.q = <<Given(Pushed)>>  BY <4>1 DEF Pops, Rv, FifoInv
        <5>2. Waiting = 1  BY <5>1 DEF Waiting
        <5>3. rx_fifo.pops[1] = 0 /\ rx_fifo.pops[2] \in 0 .. 1  BY <5>2 DEF FifoInv
        <5>. QED  BY <1>2, <4>1, <5>3
      <4>2. CASE ~Pops
        <5>1. Waiting = 0  BY <1>2, <2>1, <4>2 DEF Waiting
        <5>2. rx_fifo.pops[1] \in 0 .. 1 /\ rx_fifo.pops[2] \in 0 .. 1 + rx_fifo.pops[1]  BY <5>1 DEF FifoInv
        <5>. QED  BY <1>2, <4>2, <5>2
      <4>. QED  BY <4>1, <4>2
    <3>4. rx_clks' # 0  BY <1>2
    <3>. QED  BY <1>2, <2>1, <3>1, <3>2, <3>3, <3>4 DEF FifoInv
  <2>2. CASE rx_fifo'.q # <<>>
    <3>1. ~Pops /\ rx_fifo'.q = rx_fifo.q  BY <1>2, <2>2
    <3>2. ~Ends  BY <2>2, EdgeEnds
    <3>3. coming # <<>> /\ Pushed > 0 /\ rx_fifo.q = <<Given(Pushed)>>  BY <2>2, <3>1 DEF FifoInv
    <3>4. Waiting = 1 /\ Waiting' = 1  BY <3>1, <3>3 DEF Waiting
    <3>5. coming' # <<>> /\ Pushed' > 0  BY <3>2, <3>3, EdgeStays
    <3>6. rx_fifo'.q = <<Given(Pushed)'>>
      <4>1. Frame' = Frame /\ Pushed' = Pushed  BY <3>2, EdgeStays
      <4>2. Given(Pushed)' = Given(Pushed)  BY <4>1 DEF Given
      <4>. QED  BY <3>1, <3>3, <4>2
    <3>7. rx_fifo'.pushes = <<0, IF rx_clks' <= 1 THEN 1 ELSE 0>> /\ rx_clks' # 0
      <4>1. rx_fifo.pushes[1] = IF rx_clks = 0 THEN 1 ELSE 0  BY <3>4 DEF FifoInv
      <4>2. rx_clks' <= 1 <=> rx_clks = 0  BY <1>2
      <4>. QED  BY <1>2, <4>1, <4>2
    <3>8. Len(rx_fifo'.pops) = 2 /\ rx_fifo'.pops[1] = 0 /\ rx_fifo'.pops[2] \in 0 .. 1
      <4>1. rx_fifo.pops[1] \in 0 .. 1 - 1 /\ rx_fifo.pops[2] \in 0 .. 1 + rx_fifo.pops[1]
        BY <3>4 DEF FifoInv
      <4>. QED  BY <1>2, <3>1, <4>1
    <3>. QED  BY <3>4, <3>5, <3>6, <3>7, <3>8 DEF FifoInv
  <2>. QED  BY <2>1, <2>2
<1>. QED  BY <1>3, <1>4, <1>5

LEMMA EdgeMachine ==
  ASSUME RxTypes, LineInv, FifoInv, MachineInv, NEW acts \in BOOLEAN, RxEdge(acts)
  PROVE  MachineInv'
<1>1. SUFFICES ASSUME coming' # <<>>
      PROVE  /\ rx_fifo'.q # <<>> => rx_clks' <= (IF Popped' = 0 /\ rx_fsm' # "IDLE" THEN 3 ELSE 2)
             /\ rx_fsm' = "IDLE" <=> (Popped' = 0 /\ ~(rx_clks' = 3 /\ rx_fifo'.q # <<>>))
             /\ Popped' = PhyLength(Frame.kind)' + 1 => rx_fsm' = "DONE"
             /\ rx_fsm' = "DONE" => Popped' = PhyLength(Frame.kind)' + 1 /\ rx_clks' = 3
             /\ rx_fsm' = "HUNT" => /\ Popped' < RxPreLen
                                    /\ rx_prev_nibl' = IF Popped' = 0 THEN "none" ELSE "5"
             /\ rx_fsm' = "DATA" => Frame'.kind.sfd /\ Taken' >= 0
  BY DEF MachineInv
<1>2. ~Ends /\ coming # <<>>
  <2>1. ~Ends  BY <1>1, EdgeEnds
  <2>. QED  BY <1>1, <2>1, EdgeStays
<1>3. /\ Frame' = Frame /\ PhyLength(Frame.kind)' = PhyLength(Frame.kind)
      /\ Popped' = (IF Pops THEN Popped + 1 ELSE Popped)
      /\ Taken' = Popped' - RxPreLen
  BY <1>2, EdgeStays DEF Taken
<1>4. /\ PhyLength(Frame.kind) \in Nat /\ PhyLength(Frame.kind) >= 1
      /\ Pushed \in Nat /\ Popped \in Nat /\ Pushed = Popped + Waiting
      /\ Pushed <= PhyLength(Frame.kind) + 1 /\ Waiting \in {0, 1}
      /\ (Waiting = 0 <=> rx_fifo.q = <<>>)
  BY <1>2, TheFrame, Lengths, Counts
<1>5. /\ rx_clks' = rx_clks + 1 /\ rx_clks \in Nat
      /\ rx_fifo'.q = IF Pops THEN <<>> ELSE rx_fifo.q
  BY EdgeFifo
<1>6. /\ rx_fifo.q # <<>> => rx_clks <= (IF Popped = 0 /\ rx_fsm # "IDLE" THEN 3 ELSE 2)
      /\ rx_fsm = "IDLE" <=> (Popped = 0 /\ ~(rx_clks = 3 /\ rx_fifo.q # <<>>))
      /\ Popped = PhyLength(Frame.kind) + 1 => rx_fsm = "DONE"
      /\ rx_fsm = "DONE" => Popped = PhyLength(Frame.kind) + 1 /\ rx_clks = 3
      /\ rx_fsm = "HUNT" => /\ Popped < RxPreLen
                            /\ rx_prev_nibl = IF Popped = 0 THEN "none" ELSE "5"
      /\ rx_fsm = "DATA" => Frame.kind.sfd /\ Taken >= 0
  BY <1>2 DEF MachineInv
<1>7. rx_prev_nibl' = IF rx_fsm # "HUNT" THEN "none"
                      ELSE IF Rv THEN rx_rdata.kind ELSE rx_prev_nibl
  BY Seen DEF RxEdge, NibbleEdge
<1>8. CASE rx_fsm = "IDLE"
  <2>1. ~Pops /\ rx_fsm' = IF ~Rv THEN "IDLE" ELSE IF rx_stat # RxBuffers THEN "HUNT" ELSE "OVR"
    BY <1>2, <1>8, Moves
  <2>2. CASE ~Rv
    <3>1. rx_fifo.q = <<>> \/ rx_clks < 2  BY <1>5, <2>2 DEF Rv
    <3>. QED  BY <1>3, <1>4, <1>5, <1>6, <1>8, <2>1, <2>2, <3>1
  <2>3. CASE Rv
    <3>1. rx_fifo.q # <<>> /\ rx_clks = 2  BY <1>5, <1>6, <1>8, <2>3 DEF Rv
    <3>2. rx_fsm' \in {"HUNT", "OVR"}  BY <2>1, <2>3
    <3>3. rx_prev_nibl' = "none"  BY <1>7, <1>8
    <3>4. Popped' = 0 /\ rx_clks' = 3 /\ rx_fifo'.q # <<>>  BY <1>3, <1>5, <1>6, <1>8, <2>1, <3>1
    <3>. QED  BY <1>3, <1>4, <3>2, <3>3, <3>4
  <2>. QED  BY <2>2, <2>3
<1>9. CASE rx_fsm = "DONE"
  <2>1. rx_fsm' = "IDLE"  BY <1>2, <1>9, Moves
  <2>. QED  BY <1>2, <1>9, <2>1 DEF Ends
<1>10. CASE rx_fsm \in {"HUNT", "DATA", "OVR"} /\ ~Pops
  <2>1. rx_fsm' = rx_fsm  BY <1>2, <1>10, Moves
  <2>2. ~Rv  BY <1>10 DEF Pops
  <2>3. rx_fifo.q = <<>> \/ rx_clks < 2  BY <1>5, <2>2 DEF Rv
  <2>4. Popped # 0  BY <1>5, <1>6, <1>10, <2>3
  <2>5. rx_prev_nibl' = IF rx_fsm = "HUNT" THEN rx_prev_nibl ELSE "none"  BY <1>7, <2>2
  <2>. QED  BY <1>3, <1>4, <1>5, <1>6, <1>10, <2>1, <2>3, <2>4, <2>5 DEF Taken
<1>11. CASE Pops
  <2>1. rx_fifo'.q = <<>> /\ Popped' = Popped + 1 /\ Rv /\ rx_fsm \in {"HUNT", "DATA", "OVR"}
    BY <1>3, <1>5, <1>11 DEF Pops
  <2>2. /\ Popped + 1 = Pushed /\ rx_rdata = Given(Popped + 1) /\ Popped <= PhyLength(Frame.kind)
    BY <1>2, <1>11, Moves
  <2>3. CASE Popped = PhyLength(Frame.kind)
    <3>1. rx_clks = 2 /\ rx_fsm' = IF rx_fsm = "OVR" THEN "IDLE" ELSE "DONE"  BY <1>2, <1>11, <2>3, Moves
    <3>2. rx_fsm # "OVR"  BY <1>2, <3>1 DEF Ends
    <3>. QED  BY <1>3, <1>4, <1>5, <2>1, <2>3, <3>1, <3>2
  <2>4. CASE Popped # PhyLength(Frame.kind)
    <3>1. rx_fsm' = IF rx_fsm = "HUNT" /\ Popped + 1 = RxPreLen THEN "DATA" ELSE rx_fsm
      BY <1>2, <1>11, <2>4, Moves
    <3>2. Popped' # 0 /\ Popped' # PhyLength(Frame.kind) + 1  BY <1>4, <2>1, <2>4
    <3>3. rx_fsm' \notin {"IDLE", "DONE"}  BY <2>1, <3>1
    <3>4. ASSUME rx_fsm' = "DATA" PROVE Frame.kind.sfd /\ Taken' >= 0
      <4>1. CASE rx_fsm = "DATA"  BY <1>3, <1>4, <1>6, <2>1, <4>1 DEF Taken
      <4>2. CASE rx_fsm = "HUNT" /\ Popped + 1 = RxPreLen
        <5>1. Frame.kind.sfd
          <6>1. Popped + 1 <= PhyLength(Frame.kind)  BY <1>4, <2>2, <2>4
          <6>. QED  BY <1>2, <4>2, <6>1, TheFrame, Lengths
        <5>. QED  BY <1>3, <2>1, <4>2, <5>1
      <4>. QED  BY <2>1, <3>1, <3>4, <4>1, <4>2
    <3>5. ASSUME rx_fsm' = "HUNT" PROVE Popped' < RxPreLen /\ rx_prev_nibl' = "5"
      <4>1. rx_fsm = "HUNT" /\ Popped + 1 # RxPreLen  BY <3>1, <3>5
      <4>2. Popped + 1 < RxPreLen  BY <1>4, <1>6, <4>1
      <4>3. Popped + 1 \in Nat /\ Popped + 1 > 0 /\ Popped + 1 <= PhyLength(Frame.kind)  BY <1>4, <2>2, <2>4
      <4>4. Given(Popped + 1).kind = "5"  BY <1>2, <4>2, <4>3, Entries
      <4>. QED  BY <1>7, <2>1, <2>2, <4>1, <4>2, <4>4
    <3>. QED  BY <1>3, <2>1, <3>2, <3>3, <3>4, <3>5
  <2>. QED  BY <2>3, <2>4
<1>. QED  BY <1>8, <1>9, <1>10, <1>11 DEF RxTypes

LEMMA EdgeSlots ==
  ASSUME RxTypes, LineInv, FifoInv, MachineInv, SlotsInv, NEW acts \in BOOLEAN, RxEdge(acts)
  PROVE  SlotsInv'
<1>1. rx_slots' = rx_slots  BY DEF RxEdge
<1>2. CASE Ends
  <2>1. coming' = <<>>  BY <1>2, EdgeEnds
  <2>. QED  BY <1>1, <2>1 DEF SlotsInv
<1>3. CASE ~Ends
  <2>1. coming' = coming /\ Frame' = Frame /\ Pushed' = Pushed  BY <1>3, EdgeStays
  <2>. QED  BY <1>1, <2>1 DEF SlotsInv
<1>. QED  BY <1>2, <1>3

\* The only frame there is is found by its name.
LEMMA KindFound ==
  ASSUME LineInv, coming # <<>>
  PROVE  KindOf(Frame.of) = Frame.kind
<1>1. Len(coming) = 1 /\ coming[1] = Frame  BY TheFrame DEF Frame
<1>2. coming = <<[of |-> line.of, kind |-> Frame.kind]>>  BY DEF LineInv
<1>3. DOMAIN coming = {1}  BY <1>2
<1> DEFINE named == {i \in DOMAIN coming : coming[i].of = Frame.of}
<1>4. named = {1}  BY <1>1, <1>3
<1>5. Min({1}) = 1  BY DEF Min
<1>6. named # {}  BY <1>4
<1> HIDE DEF named
<1>7. (IF named = {} THEN NoKind ELSE coming[Min(named)].kind) = Frame.kind
  BY <1>1, <1>4, <1>5
<1>. QED  BY <1>7 DEF KindOf, named

\* The verdict on a frame that is done.
LEMMA Judged ==
  ASSUME RxTypes, LineInv, CheckInv, rx_fsm = "DONE"
  PROVE  /\ coming # <<>> /\ Frame.kind \in Kinds
         /\ rx_nibl_cnt = Frame.kind.len
         /\ rx_err_acc <=> Frame.kind.er # -1
         /\ rx_fcs_err <=> ~Frame.kind.fcs
         /\ rx_frame_good <=> /\ rx_addr_filt => Frame.kind.own
                              /\ rx_fcs_filt => Frame.kind.fcs /\ Frame.kind.er = -1
<1>1. coming # <<>>  BY DEF LineInv
<1>2. Frame.kind \in Kinds /\ Frame.of \in {0, 1}  BY <1>1, TheFrame DEF RxTypes
<1>3. /\ Frame.kind.len \in Nat /\ Frame.kind.er \in -1 .. Frame.kind.len - 1
      /\ Frame.kind.sfd \in BOOLEAN /\ Frame.kind.own \in BOOLEAN /\ Frame.kind.fcs \in BOOLEAN
      /\ Frame.kind.sfd => Frame.kind.len >= AddrLen
      /\ ~Frame.kind.sfd => Frame.kind.len = 0 /\ Frame.kind.own /\ ~Frame.kind.fcs /\ Frame.kind.er = -1
  BY <1>2, Lengths
<1>4. rx_nibl_cnt = Frame.kind.len  BY DEF CheckInv
<1>5. rx_frame_good <=> /\ rx_addr_filt => rx_addr_match
                        /\ rx_fcs_filt => ~rx_fcs_err /\ ~rx_err_acc
  BY DEF rx_frame_good
<1>6. CASE Frame.kind.sfd
  <2>1. /\ rx_err_acc => Frame.kind.er # -1
        /\ Frame.kind.er \in 0 .. rx_nibl_cnt - 1 => rx_err_acc
        /\ rx_addr_match <=> (rx_nibl_cnt >= AddrLen => Frame.kind.own)
        /\ rx_fcs32 = IF rx_nibl_cnt = 0 THEN [of |-> NoSender, n |-> 0]
                      ELSE [of |-> Frame.of, n |-> rx_nibl_cnt]
    BY <1>6 DEF CheckInv
  <2>2. rx_nibl_cnt # 0  BY <1>3, <1>4, <1>6
  <2>3. rx_fcs32 = [of |-> Frame.of, n |-> Frame.kind.len]  BY <1>4, <2>1, <2>2
  <2>4. rx_fcs_err <=> ~Frame.kind.fcs
    <3>1. rx_fcs32.of = Frame.of /\ rx_fcs32.n = Frame.kind.len /\ Frame.of # NoSender
      BY <1>2, <2>3 DEF NoSender
    <3>2. KindOf(rx_fcs32.of) = Frame.kind  BY <1>1, <3>1, KindFound
    <3>. QED  BY <3>1, <3>2 DEF rx_fcs_err
  <2>5. rx_err_acc <=> Frame.kind.er # -1  BY <1>3, <1>4, <2>1
  <2>6. rx_addr_match <=> Frame.kind.own  BY <1>3, <1>4, <1>6, <2>1
  <2>. QED  BY <1>1, <1>2, <1>4, <1>5, <2>4, <2>5, <2>6
<1>7. CASE ~Frame.kind.sfd
  <2>1. rx_addr_match /\ ~rx_err_acc /\ rx_fcs32.of = NoSender  BY <1>7 DEF CheckInv
  <2>2. rx_fcs_err  BY <2>1 DEF rx_fcs_err
  <2>. QED  BY <1>1, <1>2, <1>3, <1>4, <1>5, <1>7, <2>1, <2>2
<1>. QED  BY <1>3, <1>6, <1>7

\* What the machine sees while it takes data carries no error of another frame,
\* be it in the FIFO or left in the slot that its read pointer shows.
LEMMA ErrorIsOfFrame ==
  ASSUME RxTypes, LineInv, FifoInv, MachineInv, SlotsInv, SlowPhy,
         rx_fsm = "DATA", rx_rdata.er
  PROVE  Frame.kind.er # -1
<1>1. coming # <<>>  BY DEF LineInv
<1>2. /\ Pushed \in Nat /\ Popped \in Nat /\ Pushed = Popped + Waiting
      /\ Pushed <= PhyLength(Frame.kind) + 1 /\ Waiting \in {0, 1}
      /\ PhyLength(Frame.kind) \in Nat /\ Frame.kind.sfd \in BOOLEAN
      /\ Taken >= 0 /\ Frame.kind.sfd
  BY <1>1, Counts, TheFrame, Lengths DEF MachineInv
<1>3. Popped >= RxPreLen  BY <1>2 DEF Taken
<1>4. CASE rx_fifo.q # <<>>
  <2>1. rx_fifo.q = <<Given(Pushed)>> /\ Pushed > 0  BY <1>4 DEF FifoInv
  <2>2. rx_rdata = Given(Pushed)  BY <2>1 DEF rx_rdata
  <2>3. Given(Pushed).er  BY <2>2
  <2>4. Pushed > RxPreLen /\ Pushed <= PhyLength(Frame.kind) /\ Frame.kind.er = Pushed - RxPreLen - 1
    BY <1>1, <1>2, <2>1, <2>3, Entries
  <2>. QED  BY <1>2, <2>4
<1>5. CASE rx_fifo.q = <<>>
  <2>1. rx_rdata = rx_slots[1]  BY <1>5 DEF rx_rdata
  <2>2. 1 \in 1 .. RxDepth /\ 1 > RxDepth - Pushed  BY <1>2, <1>3 DEF SlowPhy
  <2>. QED  BY <1>1, <2>1, <2>2 DEF SlotsInv
<1>. QED  BY <1>4, <1>5

\* The next nibble of the data is the one the machine has counted up to.
LEMMA NextNibble ==
  ASSUME RxTypes, LineInv, FifoInv, MachineInv, CheckInv, NEW acts \in BOOLEAN, RxEdge(acts),
         rx_fsm = "DATA"
  PROVE  /\ coming # <<>> /\ Frame.kind \in Kinds /\ Frame.kind.sfd
         /\ rx_nibl_cnt \in Nat /\ rx_nibl_cnt <= Frame.kind.len
         /\ DataNibble => /\ rx_fsm' = "DATA" /\ Pops /\ rx_rdata.of = Frame.of
                          /\ rx_rdata.at = rx_nibl_cnt
                          /\ rx_rdata.er <=> Frame.kind.er = rx_nibl_cnt
                          /\ rx_nibl_cnt < Frame.kind.len
         /\ ~DataNibble /\ rx_fsm' = "DATA" => ~Pops
         /\ rx_fsm' # "DATA" => /\ Pops /\ rx_fsm' = "DONE" /\ rx_nibl_cnt = Frame.kind.len
                                /\ ~DataNibble /\ rx_rdata.dv = FALSE
<1>1. coming # <<>>  BY DEF LineInv
<1>2. Frame.kind \in Kinds /\ Frame.kind.sfd /\ Taken >= 0  BY <1>1, TheFrame DEF MachineInv
<1>3. /\ Pushed \in Nat /\ Popped \in Nat /\ Pushed = Popped + Waiting
      /\ Pushed <= PhyLength(Frame.kind) + 1
      /\ PhyLength(Frame.kind) = RxPreLen + Frame.kind.len /\ Frame.kind.len \in Nat
      /\ Popped # PhyLength(Frame.kind) + 1 /\ Waiting \in {0, 1}
  BY <1>1, <1>2, Counts, Lengths DEF MachineInv
<1>4. rx_nibl_cnt = Popped - RxPreLen  BY DEF CheckInv, Taken
<1>5. rx_nibl_cnt \in Nat /\ rx_nibl_cnt <= Frame.kind.len  BY <1>2, <1>3, <1>4 DEF Taken
<1>6. Pops <=> rvalid(rx_fifo)  BY Seen DEF Pops
<1>7. CASE ~Pops
  <2>1. rx_fsm' = "DATA" /\ ~DataNibble  BY <1>1, <1>6, <1>7, Moves DEF DataNibble
  <2>. QED  BY <1>1, <1>2, <1>5, <1>7, <2>1
<1>8. CASE Pops /\ Popped = PhyLength(Frame.kind)
  <2>1. rx_rdata.dv = FALSE /\ rx_fsm' = "DONE"  BY <1>1, <1>8, Moves
  <2>2. ~DataNibble  BY <2>1 DEF DataNibble
  <2>. QED  BY <1>1, <1>2, <1>3, <1>4, <1>5, <1>8, <2>1, <2>2
<1>9. CASE Pops /\ Popped # PhyLength(Frame.kind)
  <2>1. rx_rdata.dv /\ rx_fsm' = "DATA" /\ Popped + 1 = Pushed /\ rx_rdata = Given(Popped + 1)
        /\ Popped <= PhyLength(Frame.kind)
    BY <1>1, <1>9, Moves
  <2>2. DataNibble  BY <1>6, <1>9, <2>1 DEF DataNibble
  <2>3. Popped + 1 > RxPreLen /\ Popped + 1 <= PhyLength(Frame.kind) /\ Popped + 1 \in Nat /\ Popped + 1 > 0
    BY <1>3, <1>4, <1>5, <1>9, <2>1
  <2>4. /\ rx_rdata.of = Frame.of /\ rx_rdata.at = rx_nibl_cnt
        /\ rx_rdata.er <=> Frame.kind.er = rx_nibl_cnt
    <3> DEFINE n == Popped + 1
    <3>1. n \in Nat /\ n > 0 /\ n > RxPreLen /\ n <= PhyLength(Frame.kind)  BY <2>3
    <3>2. rx_rdata = Given(n) /\ n - RxPreLen - 1 = rx_nibl_cnt  BY <1>3, <1>4, <2>1
    <3> HIDE DEF n
    <3>3. /\ Given(n).er <=> Frame.kind.er = n - RxPreLen - 1
          /\ Given(n).of = Frame.of /\ Given(n).at = n - RxPreLen - 1
      BY <1>1, <3>1, Entries
    <3>. QED  BY <3>2, <3>3
  <2>5. rx_nibl_cnt < Frame.kind.len  BY <1>3, <1>4, <1>9, <2>3
  <2>. QED  BY <1>1, <1>2, <1>5, <1>9, <2>1, <2>2, <2>4, <2>5
<1>. QED  BY <1>7, <1>8, <1>9

LEMMA EdgeCheck ==
  ASSUME RxTypes, LineInv, FifoInv, MachineInv, SlotsInv, CheckInv, SlowPhy,
         NEW acts \in BOOLEAN, RxEdge(acts)
  PROVE  CheckInv'
<1>1. rx_nibl_cnt' = IF rx_fsm # "DATA" THEN 0
                     ELSE IF DataNibble THEN rx_nibl_cnt + 1 ELSE rx_nibl_cnt
  BY DEF RxEdge, NibbleEdge
<1>2. rx_fcs32' = IF rx_fsm = "HUNT" THEN [of |-> NoSender, n |-> 0]
                  ELSE IF ~DataNibble THEN rx_fcs32
                  ELSE IF rx_rdata.at = rx_fcs32.n /\ rx_fcs32.of \in {NoSender, rx_rdata.of}
                       THEN [of |-> rx_rdata.of, n |-> rx_fcs32.n + 1]
                       ELSE [of |-> NoSender, n |-> -1]
  BY DEF RxEdge, CheckEdge
<1>3. rx_addr_match' = IF rx_fsm = "HUNT" THEN TRUE
                       ELSE IF DataNibble /\ rx_nibl_cnt < AddrLen
                       THEN rx_addr_match /\ rx_rdata.at = rx_nibl_cnt /\ Own(rx_rdata)
                       ELSE rx_addr_match
  BY DEF RxEdge, CheckEdge
<1>4. rx_err_acc' = IF rx_fsm = "DONE" THEN FALSE
                    ELSE rx_err_acc \/ (rx_fsm = "DATA" /\ rx_rdata.dv /\ rx_rdata.er)
  BY DEF RxEdge, CheckEdge
<1>5. /\ rx_nibl_cnt \in Nat /\ rx_err_acc \in BOOLEAN /\ rx_addr_match \in BOOLEAN
      /\ rx_fsm \notin {"DATA", "DONE"} => ~rx_err_acc
  BY DEF CheckInv
<1>6. rx_nibl_cnt' \in Nat /\ rx_err_acc' \in BOOLEAN /\ rx_addr_match' \in BOOLEAN
  <2>1. rx_nibl_cnt' \in Nat  BY <1>1, <1>5
  <2>2. rx_err_acc' \in BOOLEAN  BY <1>4, <1>5
  <2>3. rx_addr_match' \in BOOLEAN  BY <1>3, <1>5
  <2>. QED  BY <2>1, <2>2, <2>3
<1>7. CASE rx_fsm # "DATA" /\ rx_fsm' \notin {"DATA", "DONE"}
  <2>1. ~rx_err_acc'  BY <1>4, <1>5, <1>7
  <2>. QED  BY <1>6, <1>7, <2>1 DEF CheckInv
<1>8. CASE rx_fsm # "DATA" /\ rx_fsm' \in {"DATA", "DONE"}
  <2>1. coming # <<>>
    <3>1. CASE coming = <<>>
      <4>1. rx_fsm = "IDLE" /\ ~rvalid(rx_fifo)  BY <3>1, Seen DEF LineInv
      <4>2. rx_fsm' = "IDLE"  BY <4>1 DEF RxEdge, rx_fsm_d
      <4>. QED  BY <1>8, <4>2
    <3>. QED  BY <3>1
  <2>2. rx_fsm = "HUNT" /\ Pops /\ ~Ends
    <3>1. rx_fsm = "HUNT" /\ Pops  BY <1>8, <2>1, Moves DEF RxTypes, Pops
    <3>. QED  BY <3>1 DEF Ends
  <2>3. Frame' = Frame /\ Popped' = Popped + 1  BY <2>1, <2>2, EdgeStays
  <2>4. /\ rx_nibl_cnt' = 0 /\ rx_fcs32' = [of |-> NoSender, n |-> 0] /\ rx_addr_match' = TRUE
        /\ rx_err_acc' = FALSE
    BY <1>1, <1>2, <1>3, <1>4, <1>5, <2>2
  <2>5. Frame.kind \in Kinds /\ Frame.kind.er \in Int /\ Frame.kind.sfd \in BOOLEAN
        /\ Frame.kind.len \in Nat /\ (~Frame.kind.sfd => Frame.kind.len = 0)
        /\ PhyLength(Frame.kind) = (IF Frame.kind.sfd THEN RxPreLen + Frame.kind.len ELSE RxPreLen - 1)
    BY <2>1, TheFrame, Lengths DEF PhyLength
  <2>6. Popped \in Nat /\ Popped < RxPreLen /\ Popped + 1 \in Nat  BY <2>1, <2>2, Counts DEF MachineInv
  <2>7. /\ rx_fsm' = "DATA" => rx_nibl_cnt' = Taken'
        /\ rx_fsm' = "DONE" => ~Frame.kind.sfd
    <3>1. CASE Popped = PhyLength(Frame.kind)
      <4>1. ~Frame.kind.sfd  BY <2>5, <2>6, <3>1
      <4>2. rx_fsm' = "DONE"  BY <2>1, <2>2, <3>1, Moves
      <4>. QED  BY <4>1, <4>2
    <3>2. CASE Popped # PhyLength(Frame.kind)
      <4>1. rx_fsm' = IF Popped + 1 = RxPreLen THEN "DATA" ELSE "HUNT"  BY <2>1, <2>2, <3>2, Moves
      <4>2. rx_fsm' = "DATA" => Taken' = 0  BY <2>3, <2>6, <4>1 DEF Taken
      <4>. QED  BY <2>4, <4>1, <4>2
    <3>. QED  BY <3>1, <3>2
  <2>8. ~(rx_nibl_cnt' >= AddrLen) /\ ~(Frame.kind.er \in 0 .. rx_nibl_cnt' - 1)  BY <2>4, <2>5
  <2>. QED  BY <1>6, <1>8, <2>3, <2>4, <2>5, <2>7, <2>8 DEF CheckInv
<1>9. CASE rx_fsm = "DATA"
  <2>1. /\ coming # <<>> /\ Frame.kind \in Kinds /\ Frame.kind.sfd
        /\ rx_nibl_cnt \in Nat /\ rx_nibl_cnt <= Frame.kind.len
        /\ DataNibble => /\ rx_fsm' = "DATA" /\ Pops /\ rx_rdata.of = Frame.of
                         /\ rx_rdata.at = rx_nibl_cnt
                         /\ rx_rdata.er <=> Frame.kind.er = rx_nibl_cnt
                         /\ rx_nibl_cnt < Frame.kind.len
        /\ ~DataNibble /\ rx_fsm' = "DATA" => ~Pops
        /\ rx_fsm' # "DATA" => /\ Pops /\ rx_fsm' = "DONE" /\ rx_nibl_cnt = Frame.kind.len
                               /\ ~DataNibble /\ rx_rdata.dv = FALSE
    BY <1>9, NextNibble
  <2>2. ~Ends  BY <1>9 DEF Ends
  <2>3. Frame' = Frame /\ Popped' = (IF Pops THEN Popped + 1 ELSE Popped)  BY <2>1, <2>2, EdgeStays
  <2>4. /\ rx_err_acc => Frame.kind.er # -1
        /\ Frame.kind.er \in 0 .. rx_nibl_cnt - 1 => rx_err_acc
        /\ rx_addr_match <=> (rx_nibl_cnt >= AddrLen => Frame.kind.own)
        /\ rx_fcs32 = IF rx_nibl_cnt = 0 THEN [of |-> NoSender, n |-> 0]
                      ELSE [of |-> Frame.of, n |-> rx_nibl_cnt]
        /\ rx_nibl_cnt = Taken
    BY <1>9 DEF CheckInv
  <2>5. Frame.kind.er \in Int /\ Frame.kind.own \in BOOLEAN /\ Frame.of \in {0, 1}
    BY <2>1, TheFrame, Lengths DEF RxTypes
  <2>6. Popped \in Nat /\ Taken = Popped - RxPreLen /\ Taken' = Popped' - RxPreLen
    BY <2>1, Counts DEF Taken
  <2>7. rx_err_acc' => Frame'.kind.er # -1
    <3>1. rx_err_acc' => rx_err_acc \/ rx_rdata.er  BY <1>4, <1>9
    <3>. QED  BY <1>9, <2>3, <2>4, <3>1, ErrorIsOfFrame
  <2>8. CASE DataNibble
    <3>1. rx_nibl_cnt' = rx_nibl_cnt + 1 /\ rx_fsm' = "DATA" /\ Taken' = rx_nibl_cnt'
      BY <1>1, <1>9, <2>1, <2>3, <2>4, <2>6, <2>8
    <3>2. Frame'.kind.er \in 0 .. rx_nibl_cnt' - 1 => rx_err_acc'
      <4>1. rx_rdata.dv  BY <2>8 DEF DataNibble
      <4>2. Frame.kind.er \in 0 .. rx_nibl_cnt => Frame.kind.er \in 0 .. rx_nibl_cnt - 1 \/ Frame.kind.er = rx_nibl_cnt
        BY <2>1, <2>5
      <4>3. Frame.kind.er = rx_nibl_cnt => rx_err_acc'  BY <1>4, <1>9, <2>1, <2>8, <4>1
      <4>4. Frame.kind.er \in 0 .. rx_nibl_cnt - 1 => rx_err_acc'  BY <1>4, <1>9, <2>4
      <4>5. rx_nibl_cnt' - 1 = rx_nibl_cnt  BY <2>1, <3>1
      <4>. QED  BY <2>3, <4>2, <4>3, <4>4, <4>5
    <3>3. rx_addr_match' <=> (rx_nibl_cnt' >= AddrLen => Frame'.kind.own)
      <4>1. Own(rx_rdata) <=> Frame.kind.own \/ rx_nibl_cnt # AddrLen - 1
        BY <2>1, <2>8, KindFound DEF Own
      <4>2. CASE rx_nibl_cnt < AddrLen
        <5>1. rx_addr_match' <=> rx_addr_match /\ Own(rx_rdata)  BY <1>3, <1>9, <2>1, <2>8, <4>2
        <5>2. rx_addr_match  BY <2>1, <2>4, <4>2
        <5>3. rx_nibl_cnt' >= AddrLen <=> rx_nibl_cnt = AddrLen - 1  BY <2>1, <3>1, <4>2
        <5>. QED  BY <2>3, <4>1, <5>1, <5>2, <5>3
      <4>3. CASE ~(rx_nibl_cnt < AddrLen)
        <5>1. rx_addr_match' = rx_addr_match  BY <1>3, <1>9, <4>3
        <5>2. rx_nibl_cnt >= AddrLen /\ rx_nibl_cnt' >= AddrLen  BY <2>1, <3>1, <4>3
        <5>. QED  BY <2>3, <2>4, <5>1, <5>2
      <4>. QED  BY <4>2, <4>3
    <3>4. rx_fcs32' = [of |-> Frame'.of, n |-> rx_nibl_cnt']
      <4>1. rx_fcs32.n = rx_nibl_cnt /\ rx_fcs32.of \in {NoSender, Frame.of}
        <5>1. CASE rx_nibl_cnt = 0  BY <2>4, <5>1
        <5>2. CASE rx_nibl_cnt # 0  BY <2>4, <5>2
        <5>. QED  BY <5>1, <5>2
      <4>. QED  BY <1>2, <1>9, <2>1, <2>3, <2>8, <3>1, <4>1
    <3>5. rx_nibl_cnt' # 0  BY <2>1, <3>1
    <3>. QED  BY <1>6, <2>7, <3>1, <3>2, <3>3, <3>4, <3>5 DEF CheckInv
  <2>9. CASE ~DataNibble
    <3>1. rx_nibl_cnt' = rx_nibl_cnt /\ rx_fcs32' = rx_fcs32 /\ rx_addr_match' = rx_addr_match
      BY <1>1, <1>2, <1>3, <1>9, <2>9
    <3>2. rx_err_acc => rx_err_acc'  BY <1>4, <1>9
    <3>3. CASE rx_fsm' = "DATA"
      <4>1. Taken' = rx_nibl_cnt'  BY <2>1, <2>3, <2>4, <2>6, <2>9, <3>1, <3>3
      <4>. QED  BY <1>6, <2>1, <2>3, <2>4, <2>7, <3>1, <3>2, <3>3, <4>1 DEF CheckInv
    <3>4. CASE rx_fsm' # "DATA"
      <4>1. rx_fsm' = "DONE" /\ rx_nibl_cnt' = Frame'.kind.len  BY <2>1, <2>3, <3>1, <3>4
      <4>. QED  BY <1>6, <2>1, <2>3, <2>4, <2>7, <3>1, <3>2, <4>1 DEF CheckInv
    <3>. QED  BY <3>3, <3>4
  <2>. QED  BY <2>8, <2>9
<1>. QED  BY <1>7, <1>8, <1>9

\* The word of a nibble and its place in it, and those of the next.
LEMMA NextPlace ==
  ASSUME NEW m \in Nat
  PROVE  /\ m \div WordLen \in Nat /\ m % WordLen \in 0 .. WordLen - 1
         /\ m % WordLen = WordLen - 1 =>
              (m + 1) \div WordLen = (m \div WordLen) + 1 /\ (m + 1) % WordLen = 0
         /\ m % WordLen # WordLen - 1 => (m + 1) \div WordLen = m \div WordLen
<1> DEFINE q == m \div WordLen  r == m % WordLen
<1>1. q \in Nat /\ r \in 0 .. WordLen - 1 /\ m = WordLen * q + r  BY Division
<1> HIDE DEF q, r
<1>2. WordLen * q \in Int  BY <1>1
<1>3. CASE r = WordLen - 1
  <2>1. q + 1 \in Nat /\ 0 \in 0 .. WordLen - 1 /\ WordLen * (q + 1) = WordLen * q + WordLen  BY <1>1
  <2>2. m + 1 = WordLen * (q + 1) + 0  BY <1>1, <1>2, <1>3, <2>1
  <2>3. (m + 1) \div WordLen = q + 1  BY <2>1, <2>2, Unique
  <2>4. (m + 1) % WordLen = 0  BY <2>1, <2>2, Remainder
  <2>. QED  BY <1>1, <1>3, <2>3, <2>4 DEF q, r
<1>4. CASE r # WordLen - 1
  <2>1. r + 1 \in 0 .. WordLen - 1  BY <1>1, <1>4
  <2>2. m + 1 = WordLen * q + (r + 1)  BY <1>1, <1>2
  <2>3. (m + 1) \div WordLen = q  BY <1>1, <2>1, <2>2, Unique
  <2>. QED  BY <1>1, <1>4, <2>3 DEF q, r
<1>. QED  BY <1>3, <1>4

\* An earlier nibble is in an earlier word or earlier in the same.
LEMMA EarlierPlace ==
  ASSUME NEW m \in Nat, NEW i \in Nat, i < m
  PROVE  /\ i \div WordLen \in Nat /\ i \div WordLen <= m \div WordLen
         /\ i \div WordLen = m \div WordLen => i % WordLen < m % WordLen
<1> DEFINE q == m \div WordLen  r == m % WordLen  p == i \div WordLen  s == i % WordLen
<1>1. q \in Nat /\ r \in 0 .. WordLen - 1 /\ m = WordLen * q + r  BY Division
<1>2. p \in Nat /\ s \in 0 .. WordLen - 1 /\ i = WordLen * p + s  BY Division
<1> HIDE DEF q, r, p, s
<1>3. WordLen * q \in Int /\ WordLen * p \in Int  BY <1>1, <1>2
<1>4. p <= q
  <2>1. CASE p >= q + 1
    <3>1. WordLen * (q + 1) <= WordLen * p  BY <1>1, <1>2, <2>1, Monotonic
    <3>2. WordLen * (q + 1) = WordLen * q + WordLen  BY <1>1
    <3>. QED  BY <1>1, <1>2, <1>3, <3>1, <3>2
  <2>. QED  BY <1>1, <1>2, <2>1
<1>5. p = q => s < r  BY <1>1, <1>2, <1>3
<1>. QED  BY <1>2, <1>4, <1>5 DEF p, q, r, s

\* A set of bounded naturals has a greatest element, which Max is.
LEMMA Greatest ==
  ASSUME NEW n \in Nat, NEW S \in SUBSET (0 .. n), S # {}
  PROVE  Max(S) \in S /\ \A x \in S : x <= Max(S)
<1> DEFINE T == {n - x : x \in S}
<1>1. T \in SUBSET Nat /\ T # {}  OBVIOUS
<1>2. PICK t \in T : \A y \in T : t <= y  BY <1>1, LeastExists
<1>3. PICK x \in S : t = n - x  BY <1>2
<1>4. \A y \in S : n - y \in T  OBVIOUS
<1> HIDE DEF T
<1>5. \A y \in S : y <= x
  <2>1. SUFFICES ASSUME NEW y \in S PROVE y <= x  OBVIOUS
  <2>2. t <= n - y  BY <1>2, <1>4, <2>1
  <2>3. x \in Int /\ y \in Int  BY <2>1
  <2>. QED  BY <1>3, <2>2, <2>3
<1>6. \E z \in S : \A y \in S : z >= y
  <2>1. \A y \in S : x >= y  BY <1>5
  <2>. QED  BY <1>3, <2>1
<1>7. Max(S) \in S /\ \A y \in S : Max(S) >= y
  BY <1>6 DEF Max
<1>8. \A y \in S : y \in Int  OBVIOUS
<1>. QED  BY <1>7, <1>8

\* A buffer has a word for every nibble of every frame.
Longest == 4095

LEMMA LengthsSet ==
  ASSUME NEW j \in Kinds
  PROVE  j.len \in 0 .. Longest
<1>1. CASE j.sfd
  <2>1. j.len \in Nat /\ j.len <= Longest /\ Longest \in Nat  BY <1>1, Lengths DEF Longest
  <2>. QED  BY <2>1
<1>2. CASE ~j.sfd
  <2>1. j.len = 0  BY <1>2, Lengths
  <2>2. Longest \in Nat  BY DEF Longest
  <2>. QED  BY <2>1, <2>2
<1>. QED  BY <1>1, <1>2

LEMMA InWords ==
  ASSUME NEW k \in Kinds, NEW i \in Nat, i <= k.len
  PROVE  i \div WordLen \in Words
<1> DEFINE S == {j.len : j \in Kinds}  n == Max({j.len : j \in Kinds})
<1>1. S \in SUBSET (0 .. Longest) /\ S # {}
  <2>1. \A j \in Kinds : j.len \in 0 .. Longest  BY LengthsSet
  <2>. QED  BY <2>1
<1>3. k.len \in S  OBVIOUS
<1>5. Words = 0 .. n \div WordLen /\ n = Max(S)  BY DEF Words
<1> HIDE DEF S, n
<1>2. n \in S /\ \A x \in S : x <= n
  <2>1. Longest \in Nat  BY DEF Longest
  <2>2. S \in SUBSET (0 .. Longest) /\ S # {}  BY <1>1
  <2>3. Max(S) \in S /\ \A x \in S : x <= Max(S)  BY <2>1, <2>2, Greatest, Zenon
  <2>. QED  BY <1>5, <2>3
<1>4. n \in Nat /\ i <= n
  <2>1. n \in 0 .. Longest /\ k.len <= n /\ k.len \in Nat  BY <1>1, <1>2, <1>3, LengthsSet
  <2>. QED  BY <2>1
<1>6. n \div WordLen \in Nat /\ i \div WordLen \in Nat  BY <1>4, NextPlace
<1>7. i \div WordLen <= n \div WordLen
  <2>1. CASE i = n  BY <1>6, <2>1
  <2>2. CASE i < n  BY <1>4, <2>2, EarlierPlace
  <2>. QED  BY <1>4, <2>1, <2>2
<1>. QED  BY <1>5, <1>6, <1>7

\* A buffer whose status the driver clears is one whose status is set.
LEMMA Releases ==
  ASSUME RxTypes, NEW acts \in BOOLEAN
  PROVE  Release(acts) \subseteq rx_stat
  BY DEF Release, RxTypes

LEMMA EdgeTypes ==
  ASSUME RxTypes, NEW acts \in BOOLEAN, RxEdge(acts)
  PROVE  RxTypes'
<1>1. rx_fsm' \in {"IDLE", "HUNT", "DATA", "DONE", "OVR"}
  <2>1. rx_fsm' = rx_fsm_d  BY DEF RxEdge
  <2>2. rx_fsm \in {"IDLE", "HUNT", "DATA", "DONE", "OVR"}  BY DEF RxTypes
  <2>. QED  BY <2>1, <2>2 DEF rx_fsm_d
<1>2. cur_rx_buf' \in RxBuffers  BY DEF RxEdge, BufferEdge, RxTypes, RxBuffers
<1>3. rx_stat' = (rx_stat \cup (IF rx_frame_good THEN {cur_rx_buf} ELSE {})) \ Release(acts)
  BY DEF RxEdge, StatusEdge
<1>4. rx_stat' \subseteq RxBuffers  BY <1>3 DEF RxTypes
<1>5. /\ rxpc' \in {"sleep", "clear", "find0", "find1", "release"} /\ rxbuf' \in RxBuffers
      /\ rxpc' = "release" => rxbuf' \in rx_stat'
  <2>1. CASE ~acts
    <3>1. rxpc' = rxpc /\ rxbuf' = rxbuf  BY <2>1 DEF RxEdge
    <3>2. Release(acts) = {}  BY <2>1 DEF Release
    <3>. QED  BY <1>3, <3>1, <3>2 DEF RxTypes
  <2>2. CASE acts
    <3>1. RxDriver  BY <2>2 DEF RxEdge
    <3>2. rxpc # "release" => Release(acts) = {}  BY DEF Release
    <3>. QED  BY <1>3, <3>1, <3>2 DEF RxDriver, RxTypes, RxBuffers
  <2>. QED  BY <2>1, <2>2
<1>6. rx_clks' \in 0 .. RxRatio
  <2>1. rx_clks \in 0 .. RxRatio /\ rx_clks < RxRatio /\ rx_clks' = rx_clks + 1
    BY DEF RxEdge, RxTypes
  <2>. QED  BY <2>1
<1>7. UNCHANGED <<rx_fcs_filt, rx_addr_filt, line, rest>>  BY DEF RxEdge
<1>. QED  BY <1>1, <1>2, <1>4, <1>5, <1>6, <1>7 DEF RxTypes

\* The memory after an edge, of a buffer the driver has no claim on.
LEMMA Memory ==
  ASSUME RxTypes, WordInv, NEW acts \in BOOLEAN, RxEdge(acts), cur_rx_buf \notin rx_stat,
         rx_fsm = "DONE" => rx_frame_good, NEW w \in Words
  PROVE  rx_ram'[cur_rx_buf][w] = IF rx_ram_p0.cs /\ rx_ram_p0.word = w THEN rx_ram_p0_wdata
                                  ELSE rx_ram[cur_rx_buf][w]
<1>1. cur_rx_buf \notin Freed(acts)  BY Releases DEF Freed
<1>2. cur_rx_buf \in RxBuffers  BY DEF RxTypes
<1>3. rx_ram' = [b \in RxBuffers |->
                  IF b \in Freed(acts) THEN Junk
                  ELSE IF rx_ram_p0.cs /\ rx_ram_p0.buf = b
                  THEN [rx_ram[b] EXCEPT ![rx_ram_p0.word] = rx_ram_p0_wdata]
                  ELSE rx_ram[b]]
  BY DEF RxEdge, WordEdge
<1>4. rx_ram'[cur_rx_buf] = IF rx_ram_p0.cs /\ rx_ram_p0.buf = cur_rx_buf
                            THEN [rx_ram[cur_rx_buf] EXCEPT ![rx_ram_p0.word] = rx_ram_p0_wdata]
                            ELSE rx_ram[cur_rx_buf]
  BY <1>1, <1>2, <1>3
<1>5. DOMAIN rx_ram[cur_rx_buf] = Words /\ (rx_ram_p0.cs => rx_ram_p0.buf = cur_rx_buf)
  BY <1>2 DEF WordInv
<1>6. CASE ~rx_ram_p0.cs  BY <1>4, <1>6
<1>7. CASE rx_ram_p0.cs
  <2>1. rx_ram'[cur_rx_buf] = [rx_ram[cur_rx_buf] EXCEPT ![rx_ram_p0.word] = rx_ram_p0_wdata]
    BY <1>4, <1>5, <1>7
  <2>. QED  BY <1>5, <1>7, <2>1
<1>. QED  BY <1>6, <1>7

\* After an edge the words before the one the machine is in are in the memory.
LEMMA Stored ==
  ASSUME RxTypes, WordInv, CheckInv, NEW acts \in BOOLEAN, RxEdge(acts),
         rx_fsm = "DATA" \/ (rx_fsm = "DONE" /\ rx_frame_good),
         Frame.kind \in Kinds, rx_nibl_cnt <= Frame.kind.len,
         NEW i \in Nat, i < rx_nibl_cnt
  PROVE  IF i \div WordLen = rx_nibl_cnt \div WordLen
         THEN /\ rx_ram_p0_wdata[i % WordLen] = Marked(Frame.of, i)
              /\ rx_fsm = "DONE" =>
                   rx_ram'[cur_rx_buf][i \div WordLen][i % WordLen] = Marked(Frame.of, i)
         ELSE rx_ram'[cur_rx_buf][i \div WordLen][i % WordLen] = Marked(Frame.of, i)
<1> DEFINE w == i \div WordLen  r == i % WordLen  q == rx_nibl_cnt \div WordLen
           s == rx_nibl_cnt % WordLen
<1>1. rx_nibl_cnt \in Nat /\ Frame.kind.len \in Nat  BY Lengths DEF CheckInv
<1>2. i <= Frame.kind.len /\ i \in 0 .. rx_nibl_cnt - 1  BY <1>1
<1>3. w \in Words  BY <1>2, InWords
<1>4. w \in Nat /\ q \in Nat /\ s \in 0 .. WordLen - 1 /\ r \in 0 .. WordLen - 1  BY <1>1, NextPlace
<1>5. w = q => r < s  BY <1>1, EarlierPlace
<1>6. (IF w = q \/ (rx_ram_p0.cs /\ rx_ram_p0.word = w)
       THEN rx_ram_p0_wdata[r] ELSE rx_ram[cur_rx_buf][w][r]) = Marked(Frame.of, i)
  <2>1. Held(i) = Marked(Frame.of, i)  BY <1>2 DEF WordInv
  <2>. QED  BY <2>1 DEF Held
<1>7. cur_rx_buf \notin rx_stat  BY DEF WordInv
<1> HIDE DEF w, r, q, s
<1>8. rx_ram'[cur_rx_buf][w] = IF rx_ram_p0.cs /\ rx_ram_p0.word = w THEN rx_ram_p0_wdata
                               ELSE rx_ram[cur_rx_buf][w]
  BY <1>3, <1>7, Memory
<1>9. w # q => rx_ram'[cur_rx_buf][w][r] = Marked(Frame.of, i)  BY <1>6, <1>8
<1>10. w = q => rx_ram_p0_wdata[r] = Marked(Frame.of, i)  BY <1>6
<1>11. w = q /\ rx_fsm = "DONE" => rx_ram'[cur_rx_buf][w][r] = Marked(Frame.of, i)
  <2>1. SUFFICES ASSUME w = q, rx_fsm = "DONE"
                 PROVE  rx_ram'[cur_rx_buf][w][r] = Marked(Frame.of, i)
    OBVIOUS
  <2>2. s # 0  BY <1>4, <1>5, <2>1
  <2>3. rx_ram_p0.cs /\ rx_ram_p0.word = q  BY <2>1, <2>2 DEF WordInv, s, q
  <2>. QED  BY <1>8, <1>10, <2>1, <2>3
<1>. QED  BY <1>9, <1>10, <1>11 DEF w, r, q

\* An edge keeps what the machine has collected where it is looked for.
LEMMA EdgeWord ==
  ASSUME RxTypes, LineInv, FifoInv, MachineInv, CheckInv, WordInv,
         NEW acts \in BOOLEAN, RxEdge(acts)
  PROVE  WordInv'
<1>1. /\ rx_ram_p0' = [cs |-> /\ rx_fsm = "DATA" /\ rvalid(rx_fifo)
                              /\ \/ rx_nibl_cnt % WordLen = WordLen - 1
                                 \/ rx_eof /\ rx_nibl_cnt % WordLen # 0,
                       buf |-> cur_rx_buf, word |-> rx_nibl_cnt \div WordLen]
      /\ rx_ram' = [b \in RxBuffers |->
                      IF b \in Freed(acts) THEN Junk
                      ELSE IF rx_ram_p0.cs /\ rx_ram_p0.buf = b
                      THEN [rx_ram[b] EXCEPT ![rx_ram_p0.word] = rx_ram_p0_wdata]
                      ELSE rx_ram[b]]
  BY DEF RxEdge, WordEdge
<1>2. /\ rx_nibl_cnt' = IF rx_fsm # "DATA" THEN 0
                        ELSE IF DataNibble THEN rx_nibl_cnt + 1 ELSE rx_nibl_cnt
      /\ rx_ram_p0_wdata' =
           IF rx_fsm # "DATA" THEN NoWord
           ELSE IF ~DataNibble THEN rx_ram_p0_wdata
           ELSE [rx_ram_p0_wdata EXCEPT ![rx_nibl_cnt % WordLen] =
                                          [of |-> rx_rdata.of, at |-> rx_rdata.at]]
  BY DEF RxEdge, NibbleEdge
<1>3. rx_fsm' = rx_fsm_d /\ rx_fsm \in {"IDLE", "HUNT", "DATA", "DONE", "OVR"}
  BY DEF RxEdge, RxTypes
<1>4. /\ DOMAIN rx_ram' = RxBuffers
      /\ \A b \in RxBuffers : DOMAIN rx_ram'[b] = Words
      /\ DOMAIN rx_ram_p0_wdata' = 0 .. WordLen - 1
  <2>1. \A b \in RxBuffers : DOMAIN rx_ram'[b] = Words
    <3>1. SUFFICES ASSUME NEW b \in RxBuffers PROVE DOMAIN rx_ram'[b] = Words  OBVIOUS
    <3>2. DOMAIN rx_ram[b] = Words  BY DEF WordInv
    <3>3. DOMAIN Junk = Words  BY DEF Junk
    <3>4. rx_ram'[b] = IF b \in Freed(acts) THEN Junk
                       ELSE IF rx_ram_p0.cs /\ rx_ram_p0.buf = b
                       THEN [rx_ram[b] EXCEPT ![rx_ram_p0.word] = rx_ram_p0_wdata]
                       ELSE rx_ram[b]
      BY <1>1
    <3>. QED  BY <3>2, <3>3, <3>4
  <2>2. DOMAIN rx_ram_p0_wdata = 0 .. WordLen - 1  BY DEF WordInv
  <2>3. DOMAIN NoWord = 0 .. WordLen - 1  BY DEF NoWord
  <2>4. DOMAIN rx_ram_p0_wdata' = 0 .. WordLen - 1  BY <1>2, <2>2, <2>3
  <2>. QED  BY <1>1, <2>1, <2>4
<1>5. rx_fsm' \in {"HUNT", "DATA", "DONE"} => cur_rx_buf' \notin rx_stat'
  <2>1. rx_stat' = (rx_stat \cup (IF rx_frame_good THEN {cur_rx_buf} ELSE {})) \ Release(acts)
    BY DEF RxEdge, StatusEdge
  <2>2. CASE rx_fsm = "IDLE"
    <3>1. rx_stat' \subseteq rx_stat  BY <2>1, <2>2 DEF rx_frame_good
    <3>2. rx_fsm' = IF ~rvalid(rx_fifo) THEN "IDLE"
                    ELSE IF rx_stat # RxBuffers THEN "HUNT" ELSE "OVR"
      BY <1>3, <2>2 DEF rx_fsm_d
    <3>3. rx_fsm' # "IDLE" /\ rx_fsm' # "OVR" => cur_rx_buf' \notin rx_stat
      <4>1. rx_stat \subseteq RxBuffers  BY DEF RxTypes
      <4>2. cur_rx_buf' = IF rx_fsm = "IDLE" /\ rvalid(rx_fifo) /\ 0 \notin rx_stat THEN 0
                          ELSE IF rx_fsm = "IDLE" /\ rvalid(rx_fifo) /\ 1 \notin rx_stat THEN 1
                          ELSE cur_rx_buf
        BY DEF RxEdge, BufferEdge
      <4>. QED  BY <2>2, <3>2, <4>1, <4>2 DEF RxBuffers
    <3>. QED  BY <3>1, <3>3
  <2>3. CASE rx_fsm \in {"HUNT", "DATA"}
    <3>1. rx_stat' \subseteq rx_stat  BY <2>1, <2>3 DEF rx_frame_good
    <3>2. cur_rx_buf' = cur_rx_buf  BY <2>3 DEF RxEdge, BufferEdge
    <3>3. cur_rx_buf \notin rx_stat  BY <2>3 DEF WordInv
    <3>. QED  BY <3>1, <3>2, <3>3
  <2>4. CASE rx_fsm \in {"DONE", "OVR"}
    <3>1. rx_fsm' \in {"IDLE", "OVR"}  BY <1>3, <2>4 DEF rx_fsm_d
    <3>. QED  BY <3>1
  <2>. QED  BY <1>3, <2>2, <2>3, <2>4
<1>6. CASE rx_fsm # "DATA"
  <2>1. rx_nibl_cnt' = 0 /\ rx_ram_p0'.cs = FALSE  BY <1>1, <1>2, <1>6
  <2>2. 0 % WordLen = 0
    <3>1. 0 \in 0 .. WordLen - 1 /\ 0 \in Nat /\ WordLen * 0 + 0 = 0  OBVIOUS
    <3>. QED  BY <3>1, Remainder
  <2>3. \A i \in 0 .. rx_nibl_cnt' - 1 : FALSE  BY <2>1
  <2>. QED  BY <1>4, <1>5, <2>1, <2>2, <2>3 DEF WordInv
<1>7. CASE rx_fsm = "DATA"
  <2>1. /\ coming # <<>> /\ Frame.kind \in Kinds /\ Frame.kind.sfd
        /\ rx_nibl_cnt \in Nat /\ rx_nibl_cnt <= Frame.kind.len
        /\ DataNibble => /\ rx_fsm' = "DATA" /\ Pops /\ rx_rdata.of = Frame.of
                         /\ rx_rdata.at = rx_nibl_cnt
        /\ ~DataNibble /\ rx_fsm' = "DATA" => ~Pops
        /\ rx_fsm' # "DATA" => /\ Pops /\ rx_fsm' = "DONE" /\ ~DataNibble /\ rx_rdata.dv = FALSE
    BY <1>7, NextNibble
  <2>2. ~Ends  BY <1>7 DEF Ends
  <2>3. Frame' = Frame  BY <2>2, EdgeStays
  <2>4. cur_rx_buf' = cur_rx_buf  BY <1>7 DEF RxEdge, BufferEdge
  <2>5. Pops <=> rvalid(rx_fifo)  BY <1>7, Seen DEF Pops
  <2> DEFINE q == rx_nibl_cnt \div WordLen  s == rx_nibl_cnt % WordLen
  <2>6. /\ q \in Nat /\ s \in 0 .. WordLen - 1
        /\ s = WordLen - 1 => (rx_nibl_cnt + 1) \div WordLen = q + 1
                              /\ (rx_nibl_cnt + 1) % WordLen = 0
        /\ s # WordLen - 1 => (rx_nibl_cnt + 1) \div WordLen = q
    BY <2>1, NextPlace
  <2>7. ASSUME NEW i \in 0 .. rx_nibl_cnt - 1
        PROVE  /\ i \div WordLen \in Nat /\ i \div WordLen <= q
               /\ i \div WordLen = q =>
                     rx_ram_p0_wdata[i % WordLen] = Marked(Frame.of, i) /\ i % WordLen # s
               /\ i \div WordLen # q =>
                     rx_ram'[cur_rx_buf][i \div WordLen][i % WordLen] = Marked(Frame.of, i)
    <3>1. i \in Nat /\ i < rx_nibl_cnt  BY <2>1
    <3>2. i \div WordLen \in Nat /\ i % WordLen \in 0 .. WordLen - 1  BY <3>1, NextPlace
    <3>3. /\ i \div WordLen <= q
          /\ i \div WordLen = q => i % WordLen < s
      BY <2>1, <3>1, EarlierPlace
    <3>4. IF i \div WordLen = q
          THEN rx_ram_p0_wdata[i % WordLen] = Marked(Frame.of, i)
          ELSE rx_ram'[cur_rx_buf][i \div WordLen][i % WordLen] = Marked(Frame.of, i)
      BY <1>7, <2>1, <3>1, Stored
    <3> HIDE DEF q, s
    <3>. QED  BY <2>6, <3>2, <3>3, <3>4
  <2>8. rx_ram_p0'.word = q /\ rx_ram_p0'.buf = cur_rx_buf
    BY <1>1
  <2>9. rx_ram_p0'.cs = (rvalid(rx_fifo) /\ (s = WordLen - 1 \/ (rx_eof /\ s # 0)))
    BY <1>1, <1>7
  <2>10. rx_ram_p0'.cs \in BOOLEAN  BY <2>9
  <2>11. CASE DataNibble
    <3>1. rx_nibl_cnt' = rx_nibl_cnt + 1 /\ rx_fsm' = "DATA"  BY <1>2, <1>7, <2>1, <2>11
    <3>2. rx_ram_p0_wdata' = [rx_ram_p0_wdata EXCEPT ![s] = Marked(Frame.of, rx_nibl_cnt)]
      BY <1>2, <1>7, <2>1, <2>11 DEF Marked
    <3>3. rx_ram_p0'.cs <=> s = WordLen - 1  BY <2>9, <2>11 DEF DataNibble, rx_eof
    <3>4. rx_ram_p0'.cs => rx_nibl_cnt' % WordLen = 0 /\ rx_ram_p0'.word = (rx_nibl_cnt' \div WordLen) - 1
      <4>1. SUFFICES ASSUME rx_ram_p0'.cs
                     PROVE  rx_nibl_cnt' % WordLen = 0 /\ rx_ram_p0'.word = (rx_nibl_cnt' \div WordLen) - 1
        OBVIOUS
      <4>2. s = WordLen - 1  BY <3>3, <4>1
      <4> HIDE DEF q, s
      <4>. QED  BY <2>6, <2>8, <3>1, <4>2
    <3>5. rx_nibl_cnt' \div WordLen \in {q, q + 1}
          /\ (rx_nibl_cnt' \div WordLen = q \/ rx_ram_p0'.cs)
      <4>1. CASE s = WordLen - 1  BY <2>6, <3>1, <3>3, <4>1
      <4>2. CASE s # WordLen - 1  BY <2>6, <3>1, <4>2
      <4>. QED  BY <4>1, <4>2
    <3>6. DOMAIN rx_ram_p0_wdata = 0 .. WordLen - 1  BY DEF WordInv
    <3>7. ASSUME NEW i \in 0 .. rx_nibl_cnt' - 1
          PROVE  Held(i)' = Marked(Frame'.of, i)
      <4>1. Held(i)' = IF i \div WordLen = rx_nibl_cnt' \div WordLen
                          \/ (rx_ram_p0'.cs /\ rx_ram_p0'.word = i \div WordLen)
                       THEN rx_ram_p0_wdata'[i % WordLen]
                       ELSE rx_ram'[cur_rx_buf'][i \div WordLen][i % WordLen]
        BY DEF Held
      <4>2. CASE i = rx_nibl_cnt
        <5>1. i \div WordLen = q /\ i % WordLen = s  BY <4>2
        <5> HIDE DEF q, s
        <5>2. Held(i)' = rx_ram_p0_wdata'[s]  BY <2>8, <3>5, <4>1, <5>1
        <5>3. rx_ram_p0_wdata'[s] = Marked(Frame.of, rx_nibl_cnt)  BY <2>6, <3>2, <3>6
        <5>. QED  BY <2>3, <4>2, <5>2, <5>3
      <4>3. CASE i # rx_nibl_cnt
        <5>1. i \in 0 .. rx_nibl_cnt - 1  BY <2>1, <3>1, <4>3
        <5>2. /\ i \div WordLen \in Nat /\ i \div WordLen <= q
              /\ i \div WordLen = q =>
                     rx_ram_p0_wdata[i % WordLen] = Marked(Frame.of, i) /\ i % WordLen # s
              /\ i \div WordLen # q =>
                     rx_ram'[cur_rx_buf][i \div WordLen][i % WordLen] = Marked(Frame.of, i)
          BY <2>7, <5>1
        <5> DEFINE w == i \div WordLen  r == i % WordLen
        <5>3. r \in 0 .. WordLen - 1
          <6>1. i \in Nat  BY <2>1, <5>1
          <6>. QED  BY <6>1, NextPlace
        <5> HIDE DEF q, s, w, r
        <5>4. CASE w = q
          <6>1. Held(i)' = rx_ram_p0_wdata'[r]  BY <2>8, <3>5, <4>1, <5>4 DEF w, r
          <6>2. rx_ram_p0_wdata'[r] = rx_ram_p0_wdata[r]  BY <3>2, <3>6, <5>2, <5>3, <5>4 DEF w, r
          <6>. QED  BY <2>3, <5>2, <5>4, <6>1, <6>2 DEF w, r
        <5>5. CASE w # q
          <6>1. w # rx_nibl_cnt' \div WordLen  BY <2>6, <3>5, <5>2, <5>5 DEF w
          <6>2. Held(i)' = rx_ram'[cur_rx_buf][w][r]  BY <2>4, <2>8, <4>1, <5>5, <6>1 DEF w, r
          <6>. QED  BY <2>3, <5>2, <5>5, <6>2 DEF w, r
        <5>. QED  BY <5>4, <5>5
      <4>. QED  BY <4>2, <4>3
    <3>. QED  BY <1>4, <1>5, <2>4, <2>8, <2>10, <3>1, <3>4, <3>7 DEF WordInv
  <2>12. CASE ~DataNibble
    <3>1. rx_nibl_cnt' = rx_nibl_cnt /\ rx_ram_p0_wdata' = rx_ram_p0_wdata  BY <1>2, <1>7, <2>12
    <3>2. ASSUME NEW i \in 0 .. rx_nibl_cnt' - 1
          PROVE  Held(i)' = Marked(Frame'.of, i)
      <4>1. Held(i)' = IF i \div WordLen = rx_nibl_cnt' \div WordLen
                          \/ (rx_ram_p0'.cs /\ rx_ram_p0'.word = i \div WordLen)
                       THEN rx_ram_p0_wdata'[i % WordLen]
                       ELSE rx_ram'[cur_rx_buf'][i \div WordLen][i % WordLen]
        BY DEF Held
      <4>2. i \in 0 .. rx_nibl_cnt - 1  BY <3>1
      <4>3. /\ i \div WordLen = q => rx_ram_p0_wdata[i % WordLen] = Marked(Frame.of, i)
            /\ i \div WordLen # q =>
                 rx_ram'[cur_rx_buf][i \div WordLen][i % WordLen] = Marked(Frame.of, i)
        BY <2>7, <4>2
      <4>. QED  BY <2>3, <2>4, <2>8, <3>1, <4>1, <4>3
    <3>3. CASE rx_fsm' = "DATA"
      <4>1. rx_ram_p0'.cs = FALSE  BY <2>1, <2>5, <2>9, <2>12, <3>3
      <4>. QED  BY <1>4, <1>5, <3>2, <3>3, <4>1 DEF WordInv
    <3>4. CASE rx_fsm' # "DATA"
      <4>1. rx_fsm' = "DONE" /\ rvalid(rx_fifo) /\ rx_eof  BY <2>1, <2>5, <3>4 DEF rx_eof
      <4>2. s # 0 => rx_ram_p0'.cs  BY <2>9, <4>1
      <4>3. rx_ram_p0'.word = rx_nibl_cnt' \div WordLen /\ rx_nibl_cnt' % WordLen = s
        BY <2>8, <3>1
      <4> HIDE DEF q, s
      <4>. QED  BY <1>4, <1>5, <2>4, <2>8, <2>10, <3>2, <4>1, <4>2, <4>3 DEF WordInv
    <3>. QED  BY <3>3, <3>4
  <2>. QED  BY <2>11, <2>12
<1>. QED  BY <1>6, <1>7

\* A good frame is whole in its buffer when the status is set, and stays so.
LEMMA EdgeDelivered ==
  ASSUME RxTypes, LineInv, CheckInv, WordInv, DeliveredWhole, NEW acts \in BOOLEAN, RxEdge(acts)
  PROVE  DeliveredWhole'
<1>1. rx_stat' = (rx_stat \cup (IF rx_frame_good THEN {cur_rx_buf} ELSE {})) \ Release(acts)
  BY DEF RxEdge, StatusEdge
<1>2. \A b \in RxBuffers :
        /\ rx_err'[b] = IF b \in Freed(acts) THEN FALSE
                        ELSE IF rx_fsm = "DONE" /\ cur_rx_buf = b THEN rx_err_acc \/ rx_fcs_err
                        ELSE rx_err[b]
        /\ rx_len'[b] = IF b \in Freed(acts) THEN 0
                        ELSE IF rx_fsm = "DONE" /\ cur_rx_buf = b THEN rx_nibl_cnt ELSE rx_len[b]
        /\ got'[b] = IF rx_frame_good /\ b = cur_rx_buf THEN Head(coming)
                     ELSE IF b \in Release(acts) THEN NoFrame ELSE got[b]
        /\ rx_ram'[b] = IF b \in Freed(acts) THEN Junk
                        ELSE IF rx_ram_p0.cs /\ rx_ram_p0.buf = b
                        THEN [rx_ram[b] EXCEPT ![rx_ram_p0.word] = rx_ram_p0_wdata]
                        ELSE rx_ram[b]
  BY DEF RxEdge, StatusEdge, WordEdge
<1>3. rx_fsm = "DONE" => cur_rx_buf \notin rx_stat  BY DEF WordInv
<1>4. rx_ram_p0.cs => rx_ram_p0.buf = cur_rx_buf /\ cur_rx_buf \notin rx_stat
  BY DEF WordInv
<1>5. Release(acts) \subseteq rx_stat  BY Releases
<1>6. rx_frame_good => rx_fsm = "DONE"  BY DEF rx_frame_good
<1>7. cur_rx_buf \in RxBuffers /\ rx_stat \subseteq RxBuffers  BY DEF RxTypes
<1>8. SUFFICES ASSUME NEW b \in rx_stat'
               PROVE  /\ rx_len'[b] = got'[b].kind.len
                      /\ rx_err'[b] <=> ~got'[b].kind.fcs \/ got'[b].kind.er # -1
                      /\ \A i \in 0 .. got'[b].kind.len - 1 :
                           rx_ram'[b][i \div WordLen][i % WordLen] = [of |-> got'[b].of, at |-> i]
  BY DEF DeliveredWhole
<1>9. b \in RxBuffers /\ b \notin Release(acts)  BY <1>1, <1>7, <1>8
<1>10. CASE rx_frame_good /\ b = cur_rx_buf
  <2>1. b \notin Freed(acts) /\ rx_fsm = "DONE"  BY <1>6, <1>9, <1>10 DEF Freed
  <2>2. /\ coming # <<>> /\ Frame.kind \in Kinds /\ rx_nibl_cnt = Frame.kind.len
        /\ rx_err_acc <=> Frame.kind.er # -1
        /\ rx_fcs_err <=> ~Frame.kind.fcs
    BY <2>1, Judged
  <2>3. got'[b] = Frame  BY <1>2, <1>9, <1>10, <2>2, TheFrame
  <2>4. rx_len'[b] = Frame.kind.len  BY <1>2, <1>9, <1>10, <2>1, <2>2
  <2>5. rx_err'[b] <=> ~Frame.kind.fcs \/ Frame.kind.er # -1  BY <1>2, <1>9, <1>10, <2>1, <2>2
  <2>6. ASSUME NEW i \in 0 .. Frame.kind.len - 1
        PROVE  rx_ram'[b][i \div WordLen][i % WordLen] = [of |-> Frame.of, at |-> i]
    <3>1. Frame.kind.len \in Nat  BY <2>2, Lengths
    <3>2. i \in Nat /\ i < rx_nibl_cnt /\ rx_nibl_cnt <= Frame.kind.len  BY <2>2, <3>1
    <3>3. IF i \div WordLen = rx_nibl_cnt \div WordLen
          THEN rx_ram'[cur_rx_buf][i \div WordLen][i % WordLen] = Marked(Frame.of, i)
          ELSE rx_ram'[cur_rx_buf][i \div WordLen][i % WordLen] = Marked(Frame.of, i)
      BY <1>10, <2>1, <2>2, <3>2, Stored
    <3>. QED  BY <1>10, <3>3 DEF Marked
  <2>. QED  BY <2>3, <2>4, <2>5, <2>6
<1>11. CASE ~(rx_frame_good /\ b = cur_rx_buf)
  <2>1. b \in rx_stat  BY <1>1, <1>8, <1>11
  <2>2. b \notin Freed(acts) /\ ~(rx_fsm = "DONE" /\ cur_rx_buf = b) /\ ~(rx_ram_p0.cs /\ rx_ram_p0.buf = b)
    BY <1>3, <1>4, <1>9, <2>1 DEF Freed
  <2>3. /\ rx_len'[b] = rx_len[b] /\ rx_err'[b] = rx_err[b] /\ rx_ram'[b] = rx_ram[b]
        /\ got'[b] = got[b]
    BY <1>2, <1>9, <1>11, <2>2
  <2>4. /\ rx_len[b] = got[b].kind.len
        /\ rx_err[b] <=> ~got[b].kind.fcs \/ got[b].kind.er # -1
        /\ \A i \in 0 .. got[b].kind.len - 1 :
             rx_ram[b][i \div WordLen][i % WordLen] = [of |-> got[b].of, at |-> i]
    BY <2>1 DEF DeliveredWhole
  <2>. QED  BY <2>3, <2>4
<1>. QED  BY <1>10, <1>11

LEMMA RxEdgeStep ==
  ASSUME RxIInv, SlowPhy, NEW acts \in BOOLEAN, RxEdge(acts)
  PROVE  RxIInv'
<1>1. RxTypes /\ LineInv /\ EntryInv /\ FifoInv /\ MachineInv /\ SlotsInv /\ CheckInv /\ WordInv
      /\ DeliveredWhole
  BY DEF RxIInv
<1>2. RxTypes'  BY <1>1, EdgeTypes
<1>3. LineInv' /\ EntryInv' /\ FifoInv'  BY <1>1, EdgeLineFifo
<1>4. MachineInv'  BY <1>1, EdgeMachine
<1>5. SlotsInv'  BY <1>1, EdgeSlots
<1>6. CheckInv'  BY <1>1, EdgeCheck
<1>7. WordInv'  BY <1>1, EdgeWord
<1>8. DeliveredWhole'  BY <1>1, EdgeDelivered
<1>. QED  BY <1>2, <1>3, <1>4, <1>5, <1>6, <1>7, <1>8 DEF RxIInv

LEMMA RxStart ==
  ASSUME RxInit
  PROVE  RxIInv
<1>1. /\ rx_fsm = "IDLE" /\ coming = <<>> /\ line = [of |-> 0, n |-> 0] /\ rest = RxGap
      /\ rx_stat = {} /\ rxpc = "sleep" /\ rxbuf = 0 /\ rx_clks = 0 /\ cur_rx_buf = 0
      /\ rx_fifo = EmptyFifo /\ rx_slots = [i \in 1..RxDepth |-> Eof]
      /\ rx_fifo_wvalid = FALSE /\ rx_fifo_wdata = Eof /\ phy_dv_q = FALSE
      /\ rx_ram_p0 = NoWrite /\ rx_ram_p0_wdata = NoWord /\ rx_ram = [b \in RxBuffers |-> Junk]
      /\ rx_addr_match = FALSE /\ rx_err_acc = FALSE /\ rx_nibl_cnt = 0
  BY DEF RxInit
<1>2. RxTypes
  <2>1. rx_fcs_filt \in BOOLEAN /\ rx_addr_filt \in BOOLEAN  BY DEF RxInit
  <2>. QED  BY <1>1, <2>1 DEF RxTypes, RxBuffers
<1>3. LineInv  BY <1>1 DEF LineInv
<1>4. EntryInv
  <2>1. line.n = 0 /\ rest # 0  BY <1>1
  <2>. QED  BY <1>1, <2>1 DEF EntryInv
<1>5. FifoInv
  <2>1. rx_fifo.q = <<>> /\ rx_fifo.pushes = <<0, 0>> /\ rx_fifo.pops = <<0, 0>>
    BY <1>1 DEF EmptyFifo
  <2>2. Waiting = 0  BY <2>1 DEF Waiting
  <2>. QED  BY <1>1, <2>1, <2>2 DEF FifoInv
<1>6. MachineInv  BY <1>1 DEF MachineInv
<1>7. SlotsInv
  <2>1. Eof \in Slot  BY DEF Eof, Entry, Slot
  <2>2. rx_slots \in Seq(Slot) /\ Len(rx_slots) = RxDepth  BY <1>1, <2>1
  <2>. QED  BY <1>1, <2>2 DEF SlotsInv
<1>8. CheckInv  BY <1>1 DEF CheckInv
<1>9. WordInv  BY <1>1 DEF WordInv, NoWrite, NoWord, Junk
<1>10. DeliveredWhole  BY <1>1 DEF DeliveredWhole
<1>. QED  BY <1>2, <1>3, <1>4, <1>5, <1>6, <1>7, <1>8, <1>9, <1>10 DEF RxIInv

LEMMA RxStutter ==
  ASSUME RxIInv, UNCHANGED rxVars
  PROVE  RxIInv'
<1>1. RxTypes' /\ LineInv' /\ EntryInv'
  BY DEF RxIInv, rxVars, RxTypes, LineInv, EntryInv, Given, Frame
<1>2. FifoInv' /\ MachineInv' /\ SlotsInv'
  BY DEF RxIInv, rxVars, FifoInv, MachineInv, SlotsInv, Popped, Pushed, Waiting, Taken, Given, Frame
<1>3. CheckInv' /\ WordInv' /\ DeliveredWhole'
  BY DEF RxIInv, rxVars, CheckInv, WordInv, DeliveredWhole, Held, Popped, Pushed, Waiting, Taken, Given, Frame
<1>. QED  BY <1>1, <1>2, <1>3 DEF RxIInv

\* The strengthening is an invariant of the receive half.
THEOREM RxInvariance ==
  ASSUME SlowPhy
  PROVE  Spec => []RxIInv
<1>1. Init => RxIInv
  BY RxStart DEF Init
<1>2. RxIInv /\ [Next]_vars => RxIInv'
  <2>. SUFFICES ASSUME RxIInv, [Next]_vars PROVE RxIInv'
    OBVIOUS
  <2>1. CASE Transmit
    BY <2>1, RxStutter DEF Transmit
  <2>2. CASE Receive
    BY <2>2, PhyStep, RxEdgeStep DEF Receive, RxNext
  <2>3. CASE UNCHANGED vars
    BY <2>3, RxStutter DEF vars
  <2>. QED
    BY <2>1, <2>2, <2>3 DEF Next
<1>. QED
  BY <1>1, <1>2, PTL DEF Spec

\* Every frame on the line is judged once and by its own content, for any FIFO
\* of three entries and more, any preamble that fills it, any frames, any word
\* and any filters: none is lost, split, joined with the next, or let through
\* or rejected for what another frame left behind.
THEOREM FramesJudged ==
  ASSUME SlowPhy
  PROVE  Spec => []EachFrameJudged
<1>1. RxIInv => EachFrameJudged
  <2>. SUFFICES ASSUME RxIInv PROVE EachFrameJudged
    OBVIOUS
  <2>1. RxTypes /\ LineInv /\ EntryInv /\ FifoInv /\ MachineInv /\ CheckInv
    BY DEF RxIInv
  <2>2. Len(coming) <= 2
    <3>1. CASE coming = <<>>  BY <3>1
    <3>2. CASE coming # <<>>
      <4>1. Len(coming) = 1  BY <2>1, <3>2, TheFrame
      <4>. QED  BY <4>1
    <3>. QED  BY <3>1, <3>2
  <2>3. Settled => coming = <<>>
    <3>1. SUFFICES ASSUME Settled, coming # <<>> PROVE FALSE  OBVIOUS
    <3>2. rx_fsm = "IDLE" /\ rx_fifo.q = <<>> /\ line.n = 0 /\ rest # 0
      BY <2>1, <3>1 DEF Settled, EntryInv
    <3>3. Popped = 0  BY <2>1, <3>1, <3>2 DEF MachineInv
    <3>4. Pushed = PhyLength(Frame.kind) + 1  BY <3>2 DEF Pushed
    <3>5. Pushed = Popped + Waiting /\ Waiting = 0 /\ Pushed \in Nat
      BY <2>1, <3>1, <3>2, Counts
    <3>6. PhyLength(Frame.kind) \in Nat  BY <2>1, <3>1, TheFrame, Lengths
    <3>. QED  BY <3>3, <3>4, <3>5, <3>6
  <2>4. rx_fsm \in {"HUNT", "DATA", "DONE", "OVR"} => coming # <<>>
    BY <2>1 DEF LineInv
  <2>5. rx_fcs32.of # NoSender /\ rx_fsm \in {"DATA", "DONE"} => rx_fcs32.of = Head(coming).of
    <3>1. SUFFICES ASSUME rx_fcs32.of # NoSender, rx_fsm \in {"DATA", "DONE"}
                   PROVE  rx_fcs32.of = Head(coming).of
      OBVIOUS
    <3>2. coming # <<>>  BY <2>4, <3>1
    <3>3. Head(coming) = Frame  BY <2>1, <3>2, TheFrame
    <3>4. rx_fcs32.of = Frame.of
      <4>1. Frame.kind.sfd \in BOOLEAN  BY <2>1, <3>2, TheFrame, Lengths
      <4>2. rx_fsm = "DATA" \/ (rx_fsm = "DONE" /\ Frame.kind.sfd)  BY <2>1, <3>1, <4>1 DEF CheckInv
      <4>3. rx_fcs32 = IF rx_nibl_cnt = 0 THEN [of |-> NoSender, n |-> 0]
                       ELSE [of |-> Frame.of, n |-> rx_nibl_cnt]
        BY <2>1, <4>2 DEF CheckInv
      <4>. QED  BY <3>1, <4>3
    <3>. QED  BY <3>3, <3>4
  <2>6. ASSUME rx_fsm = "DONE"
        PROVE  rx_frame_good <=> /\ rx_addr_filt => Head(coming).kind.own
                                 /\ rx_fcs_filt => Head(coming).kind.fcs /\ Head(coming).kind.er = -1
    <3>1. coming # <<>>  BY <2>4, <2>6
    <3>2. Head(coming) = Frame  BY <2>1, <3>1, TheFrame
    <3>. QED  BY <2>1, <2>6, <3>2, Judged
  <2>. QED
    BY <2>2, <2>3, <2>4, <2>5, <2>6 DEF EachFrameJudged
<1>. QED
  BY RxInvariance, <1>1, PTL

\* While the status of a buffer is set, the buffer holds the whole frame it was
\* set for, nibble by nibble, with its length and error flag, whatever arrives
\* meanwhile and whichever words are still on their way to the memory.
THEOREM Delivered ==
  ASSUME SlowPhy
  PROVE  Spec => []DeliveredWhole
<1>. QED
  BY RxInvariance, PTL DEF RxIInv
=============================================================================

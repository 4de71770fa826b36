----------------------------- MODULE DmaEngine ------------------------------
(***************************************************************************)
(* The DMA: control registers (msftDvIp_dma_ctrl0.sv), the read and write  *)
(* state machines (msftDvIp_dma_engine.sv) and the byte FIFO between them  *)
(* (msftDvIp_dma_fifo.sv), on an AXI bus of arbitrary delays.              *)
(*                                                                         *)
(* Clock is a rising edge of all registers.  Between edges software        *)
(* programs an idle engine and the bus raises RVALID and BVALID.  A byte   *)
(* is abstracted to the source address it was read from; byte lanes, which *)
(* carry no control, are left out.                                         *)
(***************************************************************************)
EXTENDS Integers, Sequences, SequencesExt

CONSTANTS
  FIFO_BYTES,    \* bytes of the FIFO (16 in the design)
  PageBytes,     \* boundary no AXI burst may cross (4096 in the design)
  BytesRange,    \* 2 ^ width of the engine's byte count port (4096); counts are below
  Transfers,     \* the transfers software may program
  ReadErrors,    \* RRESP values besides OKAY
  WriteErrors    \* BRESP values besides OKAY

OKAY == 0   SLVERR == 2   DECERR == 3
None == -1
Junk == -2   \* what a forced write beat carries
NoTransfer == [bytes |-> 0, src |-> 0, dst |-> 0, rinc |-> FALSE, winc |-> FALSE,
               rsize |-> 0, wsize |-> 0, rburst |-> 0, wburst |-> 0]

ASSUME ErrorAssumption == ReadErrors \cup WriteErrors \subseteq {SLVERR, DECERR}
ASSUME SizeAssumption ==
  /\ FIFO_BYTES \in Nat \ {0} /\ PageBytes \in Nat \ {0} /\ BytesRange \in Nat \ {0}
\* Software keeps addresses and counts multiples of both sizes, and counts to
\* what the 12-bit port carries, though its register has 32 bits and the engine
\* would take a count of 4096 for 0.  The powers of two are spelt out for the
\* provers.
ASSUME TransferAssumption ==
  \A t \in Transfers :
    /\ t.bytes \in 1 .. BytesRange - 1 /\ t.rburst \in 0 .. 8 /\ t.wburst \in 0 .. 8
    /\ t.src \in Nat /\ t.src % 2 ^ t.rsize = 0 /\ t.bytes % 2 ^ t.rsize = 0
    /\ t.dst \in Nat /\ t.dst % 2 ^ t.wsize = 0 /\ t.bytes % 2 ^ t.wsize = 0
    /\ 2 ^ t.rsize <= FIFO_BYTES /\ 2 ^ t.wsize <= FIFO_BYTES
    /\ PageBytes % 2 ^ t.rsize = 0 /\ PageBytes % 2 ^ t.wsize = 0
    /\ {t.rinc, t.winc} \subseteq BOOLEAN
    /\ \A n \in {t.rsize, t.wsize, t.rburst, t.wburst} : 2 ^ n \in Nat \ {0}

VARIABLES
  \* control registers; cfg is the rest of ctrl0, and as history the transfer
  start, cfg, src_addr, dst_addr, byte_cnt, rdError, wrError,
  rd, wr,        \* registers of the read and of the write machine
  fifo,          \* bytes read and not yet written
  \* the bus: read burst being served and RVALID's response, write burst and
  \* BVALID's response
  rburst, rresp, wburst, bresp,
  \* history: the <<address, byte>> pairs the transfer wrote, and whether a
  \* read has failed
  out, failed

ctrlVars == <<start, cfg, src_addr, dst_addr, byte_cnt, rdError, wrError>>
busVars  == <<rburst, rresp, wburst, bresp>>
vars == <<ctrlVars, rd, wr, fifo, busVars, out, failed>>

Init ==
  /\ start = FALSE
  /\ cfg = NoTransfer
  /\ src_addr = 0 /\ dst_addr = 0 /\ byte_cnt = 0
  /\ rdError = OKAY /\ wrError = OKAY
  /\ rd = [state |-> "IDLE", araddr |-> 0, arvalid |-> FALSE, size |-> 0, burst |-> 0,
           rdBytes |-> 0, rdInc |-> FALSE, r_len |-> 0, error |-> OKAY,
           done |-> FALSE, beat |-> FALSE]
  /\ wr = [state |-> "IDLE", awaddr |-> 0, awvalid |-> FALSE, size |-> 0, burst |-> 0,
           wrBytes |-> 0, wrInc |-> FALSE, awlen |-> 0, w_len |-> 0, wlast |-> FALSE,
           bready |-> FALSE, error |-> OKAY, done |-> TRUE, beat |-> FALSE]
  /\ fifo = <<>>
  /\ rburst = [addr |-> 0, left |-> 0, step |-> 0] /\ rresp = None
  /\ wburst = [addr |-> 0, left |-> 0, open |-> FALSE, ended |-> FALSE] /\ bresp = None
  /\ out = <<>> /\ failed = FALSE

-----------------------------------------------------------------------------
(* Combinational logic                                                     *)

dma_rdy     == rd.state = "IDLE" /\ wr.state = "IDLE"
dma_req     == start /\ byte_cnt # 0
dma_req_ack == dma_rdy /\ dma_req

r_addr_inc == 2 ^ rd.size
w_addr_inc == 2 ^ wr.size
rd_last    == rd.rdBytes = r_addr_inc

IsError(resp) == resp \in {SLVERR, DECERR}      \* resp[1]
LowBit(resp)  == resp = DECERR                  \* resp[0]

\* Beats (less one) of the next burst: as many as the burst code allows, up
\* to the page edge and the end of the transfer.  maxBeats has four bits.
\* Mutant: bursts stop at the end of the transfer only.
f_get_beats_NoEdge(addr, cnt, size, bsize) ==
  LET maxBeats == ((2 ^ bsize) - 1) % 16
      beats == cnt \div 2 ^ size
  IN  IF beats > maxBeats THEN maxBeats ELSE IF beats = 0 THEN 0 ELSE beats - 1
f_get_beats(addr, cnt, size, bsize) ==
  LET maxBeats == ((2 ^ bsize) - 1) % 16
      tot_beats == cnt \div 2 ^ size
      beats2edge == (PageBytes - (addr % PageBytes)) \div 2 ^ size
      beats == IF tot_beats >= beats2edge THEN beats2edge ELSE tot_beats
  IN  IF beats > maxBeats THEN maxBeats ELSE IF beats = 0 THEN 0 ELSE beats - 1
rbeats == f_get_beats(rd.araddr, rd.rdBytes, rd.size, rd.burst)
wbeats == f_get_beats(wr.awaddr, wr.wrBytes, wr.size, wr.burst)

\* The FIFO has room for a read beat, holds a write beat.
rready == FIFO_BYTES - Len(fifo) >= r_addr_inc
wready_o == Len(fifo) >= w_addr_inc
\* A read error forces WVALID; the OR is one bit wide, so only DECERR does.
wvalid_NotForced == wready_o                    \* Mutant
wvalid == wready_o \/ (LowBit(rd.error) /\ wr.state = "DATA")

\* Handshakes.  i = [arready, awready, wready : BOOLEAN].  The fabric takes an
\* address when no burst is open and data while one is.
ArHandshake(i) == rd.arvalid /\ i.arready /\ rburst.left = 0
RHandshake == rresp # None /\ rready
AwHandshake(i) == wr.awvalid /\ i.awready /\ ~wburst.open
WHandshake(i) == wvalid /\ i.wready /\ wburst.open /\ ~wburst.ended
BHandshake == bresp # None /\ wr.bready

-----------------------------------------------------------------------------
(* Read state machine                                                      *)

RdIdle ==
  IF dma_req_ack
  THEN [rd EXCEPT !.state = "SETUP", !.done = FALSE, !.error = OKAY,
                  !.araddr = src_addr, !.size = cfg.rsize, !.burst = cfg.rburst,
                  !.rdBytes = byte_cnt % BytesRange, !.rdInc = cfg.rinc, !.beat = FALSE]
  ELSE [rd EXCEPT !.beat = FALSE]

RdSetup ==
  [rd EXCEPT !.state = "WAIT", !.arvalid = TRUE, !.r_len = rbeats, !.beat = FALSE]

RdWait(i) ==
  IF ArHandshake(i)
  THEN [rd EXCEPT !.state = "DATA", !.arvalid = FALSE, !.beat = FALSE,
                  !.araddr = IF rd.rdInc THEN @ + (rbeats + 1) * r_addr_inc ELSE @]
  ELSE [rd EXCEPT !.beat = FALSE]

RdData ==
  LET e == [rd EXCEPT !.beat = TRUE, !.error = IF IsError(rresp) THEN rresp ELSE @]
  IN  IF ~RHandshake THEN [rd EXCEPT !.beat = FALSE]
      ELSE IF rd_last THEN [e EXCEPT !.state = "IDLE", !.done = TRUE]
      ELSE IF IsError(rresp) \/ IsError(rd.error)
      THEN [e EXCEPT !.state = "IDLE", !.done = TRUE, !.rdBytes = 0]
      ELSE [e EXCEPT !.rdBytes = @ - r_addr_inc, !.r_len = (@ - 1) % 256,
                     !.state = IF rd.r_len = 0 THEN "SETUP" ELSE "DATA"]

RdEdge(i) ==
  rd' = CASE rd.state = "IDLE" -> RdIdle
          [] rd.state = "SETUP" -> RdSetup
          [] rd.state = "WAIT" -> RdWait(i)
          [] rd.state = "DATA" -> RdData

-----------------------------------------------------------------------------
(* Write state machine                                                     *)

WrIdle ==
  IF dma_req_ack
  THEN [wr EXCEPT !.state = "SETUP", !.done = FALSE, !.error = OKAY, !.beat = FALSE,
                  !.awaddr = dst_addr, !.size = cfg.wsize, !.burst = cfg.wburst,
                  !.wrBytes = byte_cnt % BytesRange, !.wrInc = cfg.winc]
  ELSE wr

\* AWLEN is loaded here and nowhere else: the bursts that WrResp adds go out
\* with the length of the transfer's first.
WrSetup == [wr EXCEPT !.state = "WAIT", !.awvalid = TRUE, !.awlen = wbeats, !.w_len = wbeats]

WrWait(i) ==
  IF AwHandshake(i)
  THEN [wr EXCEPT !.state = "DATA", !.awvalid = FALSE, !.wlast = (wr.w_len = 0),
                  !.awaddr = IF wr.wrInc THEN @ + (wbeats + 1) * w_addr_inc ELSE @]
  ELSE wr

WrData(i) ==
  IF WHandshake(i)
  THEN [wr EXCEPT !.beat = TRUE, !.wrBytes = @ - w_addr_inc, !.w_len = (@ - 1) % 256,
                  !.wlast = (wr.w_len = 1),
                  !.bready = IF wr.w_len = 0 THEN TRUE ELSE @,
                  !.state = IF wr.w_len = 0 THEN "RESP" ELSE "DATA"]
  ELSE [wr EXCEPT !.beat = FALSE]

\* Mutant: the beat flag is left standing while the response is awaited.
WrResp_BeatStands ==
  IF ~BHandshake THEN wr
  ELSE IF wr.wrBytes # 0 /\ ~IsError(bresp) /\ ~LowBit(rd.error)
  THEN [wr EXCEPT !.beat = FALSE, !.bready = FALSE, !.w_len = wbeats, !.awvalid = TRUE,
                  !.state = "WAIT"]
  ELSE [wr EXCEPT !.beat = FALSE, !.bready = FALSE, !.error = bresp, !.done = TRUE,
                  !.state = "IDLE"]
\* The next burst, or the end.  The conjunction is one bit wide as well.
WrResp ==
  IF ~BHandshake THEN [wr EXCEPT !.beat = FALSE]
  ELSE IF wr.wrBytes # 0 /\ ~IsError(bresp) /\ ~LowBit(rd.error)
  THEN [wr EXCEPT !.beat = FALSE, !.bready = FALSE, !.w_len = wbeats, !.awvalid = TRUE,
                  !.state = "WAIT"]
  ELSE [wr EXCEPT !.beat = FALSE, !.bready = FALSE, !.error = bresp, !.done = TRUE,
                  !.state = "IDLE"]

WrEdge(i) ==
  wr' = CASE wr.state = "IDLE" -> WrIdle
          [] wr.state = "SETUP" -> WrSetup
          [] wr.state = "WAIT" -> WrWait(i)
          [] wr.state = "DATA" -> WrData(i)
          [] wr.state = "RESP" -> WrResp

-----------------------------------------------------------------------------
(* FIFO, control registers, bus                                            *)

\* The bytes of a read beat, of a write beat.
ReadBytes == [k \in 1 .. r_addr_inc |-> rburst.addr + k - 1]
WriteBytes == IF wready_o THEN SubSeq(fifo, 1, w_addr_inc)
              ELSE [k \in 1 .. w_addr_inc |-> Junk]

\* The FIFO is held in reset while the write machine is done.
FifoEdge_NoReset(i) ==                          \* Mutant
  fifo' = LET popped == IF WHandshake(i) /\ wready_o
                        THEN SubSeq(fifo, w_addr_inc + 1, Len(fifo)) ELSE fifo
          IN  IF RHandshake THEN popped \o ReadBytes ELSE popped
FifoEdge(i) ==
  fifo' = LET popped == IF WHandshake(i) /\ wready_o
                        THEN SubSeq(fifo, w_addr_inc + 1, Len(fifo)) ELSE fifo
          IN  IF wr.done THEN <<>>
              ELSE IF RHandshake THEN popped \o ReadBytes ELSE popped

CtrlEdge(status_rd) ==
  /\ start' = (start /\ ~dma_req_ack)
  /\ src_addr' = IF rd.beat /\ cfg.rinc THEN src_addr + r_addr_inc ELSE src_addr
  /\ dst_addr' = IF wr.beat /\ cfg.winc THEN dst_addr + w_addr_inc ELSE dst_addr
  /\ byte_cnt' = IF wr.beat THEN byte_cnt - w_addr_inc ELSE byte_cnt
  /\ rdError' = IF rd.done THEN rd.error ELSE IF status_rd THEN OKAY ELSE rdError
  /\ wrError' = IF wr.done THEN wr.error ELSE IF status_rd THEN OKAY ELSE wrError
  /\ UNCHANGED cfg

\* External: the bus sees its handshakes.  It ends a write burst at WLAST, as the
\* fabric and the memory behind it do, whatever AWLEN announced; wburst.left is
\* how many beats by AWLEN were still to come.
BusEdge(i) ==
  /\ rburst' = IF ArHandshake(i)
               THEN [addr |-> rd.araddr, left |-> rd.r_len + 1,
                     step |-> IF rd.rdInc THEN r_addr_inc ELSE 0]
               ELSE IF RHandshake THEN [rburst EXCEPT !.addr = @ + rburst.step, !.left = @ - 1]
               ELSE rburst
  /\ rresp' = IF RHandshake THEN None ELSE rresp
  /\ wburst' = IF AwHandshake(i) THEN [addr |-> wr.awaddr, left |-> wr.awlen + 1, open |-> TRUE, ended |-> FALSE]
               ELSE IF WHandshake(i)
               THEN [wburst EXCEPT !.addr = IF cfg.winc THEN @ + w_addr_inc ELSE @,
                                   !.left = @ - 1, !.ended = wr.wlast]
               ELSE IF BHandshake THEN [wburst EXCEPT !.open = FALSE, !.ended = FALSE]
               ELSE wburst
  /\ bresp' = IF BHandshake THEN None ELSE bresp
  /\ out' = IF WHandshake(i)
            THEN out \o [k \in 1 .. w_addr_inc |-> <<wburst.addr + k - 1, WriteBytes[k]>>]
            ELSE out
  /\ failed' = (failed \/ (RHandshake /\ IsError(rresp)))

Inputs == [arready : BOOLEAN, awready : BOOLEAN, wready : BOOLEAN]

Clock(i, status_rd) ==
  RdEdge(i) /\ WrEdge(i) /\ FifoEdge(i) /\ CtrlEdge(status_rd) /\ BusEdge(i)

\* Software writes the registers of an engine that it saw ready, the control
\* register last.
Program(t) ==
  /\ dma_rdy /\ ~start /\ ~rd.beat /\ ~wr.beat
  /\ start' = TRUE /\ cfg' = t
  /\ src_addr' = t.src /\ dst_addr' = t.dst /\ byte_cnt' = t.bytes
  /\ out' = <<>>
  /\ UNCHANGED <<rdError, wrError, rd, wr, fifo, busVars, failed>>

GiveRead(resp) ==
  /\ rburst.left > 0 /\ rresp = None
  /\ rresp' = resp
  /\ UNCHANGED <<ctrlVars, rd, wr, fifo, rburst, wburst, bresp, out, failed>>

GiveResponse(resp) ==
  /\ wburst.ended /\ bresp = None
  /\ bresp' = resp
  /\ UNCHANGED <<ctrlVars, rd, wr, fifo, rburst, rresp, wburst, out, failed>>

Next ==
  \/ \E i \in Inputs, status_rd \in BOOLEAN : Clock(i, status_rd)
  \/ \E t \in Transfers : Program(t)
  \/ \E resp \in {OKAY} \cup ReadErrors : GiveRead(resp)
  \/ \E resp \in {OKAY} \cup WriteErrors : GiveResponse(resp)

Spec == Init /\ [][Next]_vars

\* The clock runs with the bus ready again and again; the bus answers.
FairSpec ==
  /\ Spec
  /\ WF_vars(Clock([arready |-> TRUE, awready |-> TRUE, wready |-> TRUE], FALSE))
  /\ WF_vars(\E resp \in {OKAY} \cup ReadErrors : GiveRead(resp))
  /\ WF_vars(\E resp \in {OKAY} \cup WriteErrors : GiveResponse(resp))

-----------------------------------------------------------------------------
(* Properties                                                              *)

\* Byte k of the current transfer, where it comes from and where it goes.
SrcByte(k) == IF cfg.rinc THEN cfg.src + k ELSE cfg.src + (k % 2 ^ cfg.rsize)
DstByte(k) == IF cfg.winc THEN cfg.dst + k ELSE cfg.dst + (k % 2 ^ cfg.wsize)

\* Whatever the two sizes, burst lengths and increments: the bytes written are
\* the bytes read, in order, at the right addresses, and all of them are there
\* once the engine is ready without an error.  (After a failed read the
\* rest of its burst arrives late and may enter the next transfer.)
Copied == ~failed =>
  /\ \A k \in 1 .. Len(out) : out[k] = <<DstByte(k - 1), SrcByte(k - 1)>>
  /\ dma_rdy /\ ~start /\ wr.error = OKAY /\ out # <<>> => Len(out) = cfg.bytes

\* The bytes of a burst lie in one page: of a read burst all that ARLEN asks for,
\* of a write burst all beats up to WLAST.  A transfer's first write burst sends
\* as many beats as its AWLEN announced.
WithinPage(addr, bytes) == addr \div PageBytes = (addr + bytes - 1) \div PageBytes
FirstBurst == Len(out) < (wr.awlen + 1) * w_addr_inc
BeatsWithinPage ==
  /\ rburst.left > 0 /\ rburst.step > 0 =>
       WithinPage(rburst.addr, rburst.left * rburst.step)
  /\ wr.state = "DATA" /\ cfg.winc => WithinPage(wburst.addr, (wr.w_len + 1) * w_addr_inc)
  /\ wr.state = "DATA" /\ FirstBurst => wburst.left = wr.w_len + 1

\* What AWLEN announces of a write burst lies in one page: f_get_beats cuts every
\* burst at "beats2edge", the beats to the 4 KB boundary.  The code keeps this of
\* a transfer's first burst only.
AnnouncedWithinPage ==
  wburst.open /\ wburst.left > 0 /\ cfg.winc =>
    WithinPage(wburst.addr, wburst.left * w_addr_inc)

\* The byte count software reads is what the write machine still has to
\* write; it lags by the one beat being reported.
ByteCountFollows ==
  byte_cnt = cfg.bytes - Len(out) + (IF wr.beat THEN w_addr_inc ELSE 0)

\* The write machine waits in a burst for bytes that nobody will read, because
\* the read that failed left an error it does not look at.  Nothing ends this.
Starved == /\ wr.state = "DATA" /\ ~wready_o
           /\ rd.state = "IDLE" /\ rd.error = SLVERR /\ rburst.left = 0

\* A transfer that software starts ends, with the errors of the bus too, but for
\* one whose read fails with SLVERR: it may starve.  The engine hangs between its
\* two machines in no other way.
TransferEnds == start ~> (dma_rdy /\ ~start) \/ Starved

\* "Force wvalid once DMA RD error occurs until write burst is complete": a write
\* burst is completed once a read has failed.  The code does so after a DECERR only.
ErrorCompletesBurst == wr.state = "DATA" /\ IsError(rd.error) ~> wr.state # "DATA"

=============================================================================

------------------------------- MODULE Dmibus -------------------------------
(***************************************************************************)
(* The debug transport (msftDvIp_riscv_cheri_dmibus.sv): a JTAG TAP in the *)
(* TCK domain shifts a request into dr_shift_reg, a request flag crosses   *)
(* into the system clock domain, and an APB state machine performs the     *)
(* access with the shift register read live across the domains.            *)
(*                                                                         *)
(* Tck is a rising edge of TCK, BusEdge the part of a system clock edge    *)
(* that concerns this block; the two interleave, with at least ClkPerTck   *)
(* system clocks per TCK.  Bits are not shifted one by one: dr_shift_reg   *)
(* is a whole request or a whole return value.                             *)
(***************************************************************************)
EXTENDS Integers, Sequences

CONSTANT ClkPerTck   \* least number of system clocks between two TCK edges
ASSUME ClkPerTckAssumption == ClkPerTck \in Nat \ {0}

VARIABLES
  jtag_state, dr_shift_reg, apb_req,      \* TCK domain
  req_sclk, apb_state, preq, rdata,       \* clk domain; preq is paddr, pwrite, pwdata
  req_ack,
  clks,       \* system clocks since the last TCK edge, counted up to ClkPerTck
  asked       \* history: the last request updated, and whether it is owed an access

busVars == <<jtag_state, dr_shift_reg, apb_req, req_sclk, apb_state, preq, rdata,
             req_ack, clks, asked>>

\* A DMI request.  An access to address "none" is a NOP.
Request(addr, wr, data) == [is |-> "request", addr |-> addr, wr |-> wr, data |-> data]
Nop   == Request("none", FALSE, "none")

BusInit ==
  /\ jtag_state = "RUN_IDLE" /\ dr_shift_reg = Nop /\ apb_req = FALSE
  /\ req_sclk = <<FALSE, FALSE>> /\ apb_state = "IDLE" /\ preq = Nop /\ rdata = "none"
  /\ req_ack = FALSE
  /\ clks = 0 /\ asked = [req |-> Nop, owed |-> FALSE]

dmi_busy == apb_state # "IDLE"
dmi_return == [is |-> "return", addr |-> "return", data |-> rdata,
               stat |-> IF dmi_busy THEN 3 ELSE 0]

psel    == apb_state # "IDLE"
penable == apb_state = "PENABLE"

\* The way a host scans the data register; it may wait in RUN_IDLE as long as
\* it likes; the shift is one edge.
jtag_state_nxt ==
  CASE jtag_state = "RUN_IDLE"  -> {"DRSELECT"}
    [] jtag_state = "DRSELECT"  -> {"DRCAPTURE"}
    [] jtag_state = "DRCAPTURE" -> {"DRSHIFT"}
    [] jtag_state = "DRSHIFT"   -> {"DREXIT1"}
    [] jtag_state = "DREXIT1"   -> {"DRUPDATE"}
    [] jtag_state = "DRUPDATE"  -> {"RUN_IDLE", "DRSELECT"}

\* A TCK edge; req is what the host shifts in.
Tck(next, req) ==
  /\ clks = ClkPerTck /\ next \in jtag_state_nxt
  /\ clks' = 0
  /\ jtag_state' = next
  /\ dr_shift_reg' = CASE jtag_state = "DRCAPTURE" -> dmi_return
                       [] jtag_state = "DRSHIFT" -> req
                       [] OTHER -> dr_shift_reg
  /\ apb_req' = IF req_ack THEN FALSE
                ELSE IF jtag_state = "DRUPDATE" THEN dr_shift_reg.addr # "none" ELSE apb_req
  /\ asked' = IF jtag_state = "DRUPDATE" /\ dr_shift_reg.addr # "none"
              THEN [req |-> dr_shift_reg, owed |-> TRUE] ELSE asked
  /\ UNCHANGED <<req_sclk, apb_state, preq, rdata, req_ack>>

\* Once it has been performed only a read is remembered.
Answered == [req |-> IF asked.req.wr THEN Nop ELSE asked.req, owed |-> FALSE]

\* Mutant: the access is not acknowledged into the TCK domain until it is over.
ApbEdge_LateAck(prdata) ==
  CASE apb_state = "IDLE" ->
         IF req_sclk[2]
         THEN /\ apb_state' = "PSEL" /\ preq' = dr_shift_reg
              /\ UNCHANGED <<rdata, asked, req_ack>>
         ELSE req_ack' = FALSE /\ UNCHANGED <<apb_state, preq, rdata, asked>>
    [] apb_state = "PSEL" ->
         /\ apb_state' = "PENABLE"
         /\ UNCHANGED <<preq, rdata, asked, req_ack>>
    [] apb_state = "PENABLE" ->
         /\ apb_state' = "IDLE" /\ rdata' = prdata /\ asked' = Answered /\ preq' = Nop
         /\ req_ack' = TRUE
\* Mutant: the read data is sampled in the setup phase.
ApbEdge_EarlyRead(prdata) ==
  CASE apb_state = "IDLE" ->
         IF req_sclk[2]
         THEN /\ apb_state' = "PSEL" /\ preq' = dr_shift_reg /\ req_ack' = TRUE
              /\ UNCHANGED <<rdata, asked>>
         ELSE UNCHANGED <<apb_state, preq, rdata, req_ack, asked>>
    [] apb_state = "PSEL" ->
         /\ apb_state' = "PENABLE" /\ req_ack' = FALSE /\ rdata' = prdata
         /\ UNCHANGED <<preq, asked>>
    [] apb_state = "PENABLE" ->
         /\ apb_state' = "IDLE" /\ asked' = Answered /\ preq' = Nop
         /\ UNCHANGED <<req_ack, rdata>>
\* The APB state machine; PREADY is always high.  What preq holds while PSEL
\* is low matters to nobody and is forgotten.
ApbEdge(prdata) ==
  CASE apb_state = "IDLE" ->
         IF req_sclk[2]
         THEN /\ apb_state' = "PSEL" /\ preq' = dr_shift_reg /\ req_ack' = TRUE
              /\ UNCHANGED <<rdata, asked>>
         ELSE UNCHANGED <<apb_state, preq, rdata, req_ack, asked>>
    [] apb_state = "PSEL" ->
         /\ apb_state' = "PENABLE" /\ req_ack' = FALSE
         /\ UNCHANGED <<preq, rdata, asked>>
    [] apb_state = "PENABLE" ->
         /\ apb_state' = "IDLE" /\ rdata' = prdata /\ asked' = Answered /\ preq' = Nop
         /\ UNCHANGED req_ack

\* A system clock edge: the synchroniser, the state machine, and req_ack's
\* asynchronous reset of the request flag.
BusEdge(prdata) ==
  /\ req_sclk' = <<apb_req, req_sclk[1]>>
  /\ ApbEdge(prdata)
  /\ apb_req' = (apb_req /\ ~req_ack')
  /\ clks' = IF clks < ClkPerTck THEN clks + 1 ELSE clks
  /\ UNCHANGED <<jtag_state, dr_shift_reg>>

\* Although the request crosses the clock domains unsynchronised: an access on
\* the APB is one the host asked for and has not been given yet, and carries
\* the address and data of its scan.
OneAccessPerScan == 
  psel => asked.owed /\ preq.addr = asked.req.addr /\ preq = asked.req
=============================================================================

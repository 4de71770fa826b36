------------------------------- MODULE ObiMux -------------------------------
(***************************************************************************)
(* The OBI crossbar of the core (msftDvIp_obimux3w0.sv): NMSTR masters     *)
(* (0 = CPU data port, 1 = CPU instruction port, 2 = debugger system-bus   *)
(* access) share the tightly coupled slaves (debug memory, TCDEV, IROM,    *)
(* IRAM, DRAM) and one AXI port.                                           *)
(*                                                                         *)
(* One mstr_mux per master keeps at most one access pending; one           *)
(* slv_mem_mux per memory slave arbitrates round-robin and answers on the  *)
(* next clock; one slv_axi_mux serialises AXI accesses with a three-state  *)
(* machine.  Clock is a rising edge: every register is updated at once     *)
(* from the registers and the inputs before it.  Issue is a master raising *)
(* a request between two edges; as OBI demands, it holds it until granted. *)
(*                                                                         *)
(* The memories' READY is the constant 1 of riscv_memory_v0 and the TCDEV  *)
(* wrapper.  The AXI subordinate is external: its READY and VALID are any  *)
(* values that respect the AXI handshake order.  Addresses are abstracted  *)
(* to the slave they decode to; data to the master whose access it is.     *)
(***************************************************************************)
EXTENDS Integers, FiniteSets, FiniteSetsExt

CONSTANTS
  NMSTR,       \* number of masters (3 in the design)
  MemSlaves,   \* the single-cycle slaves, each behind a slv_mem_mux
  AXI,         \* the slave every other address decodes to
  NoSlave,     \* the all-zero one-hot vector
  AxiMasters   \* the masters whose addresses may decode to AXI

Masters == 0 .. NMSTR - 1
Slaves  == MemSlaves \cup {AXI}
NoMaster == -1          \* the all-zero grant vector

ASSUME NmstrAssumption == NMSTR \in Nat \ {0}
ASSUME SlaveAssumption ==
  /\ AXI \notin MemSlaves
  /\ NoSlave \notin Slaves
ASSUME AxiMastersAssumption == AxiMasters \subseteq Masters

VARIABLES
  mstr_req,     \* slave the master's held request decodes to (slv_req_dec)
  mstr_we,      \* the request is a write (told apart on AXI only)
  pending_slv_resp,  \* slave that owes the master a response
  cur_mstr_gnt_q,    \* per memory slave: last round-robin decision
  rvalid,            \* per memory slave: response valid this cycle
  axi_fsm_q, mstr_gnt_q, axi_we_q, aw_done, w_done,   \* slv_axi_mux
  bus,          \* external: handshakes the AXI subordinate has not answered
  server,       \* history: master whose access the slave performed last
  unacked,      \* history: accesses performed for a master minus its grants
  waited        \* history: edges a memory request was refused in a row

mstrVars == <<mstr_req, mstr_we>>
axiVars  == <<axi_fsm_q, mstr_gnt_q, axi_we_q, aw_done, w_done>>
histVars == <<server, unacked, waited>>
vars == <<mstrVars, pending_slv_resp, cur_mstr_gnt_q, rvalid, axiVars, bus,
          histVars>>

BusInputs == [AWREADY : BOOLEAN, WREADY : BOOLEAN, ARREADY : BOOLEAN,
              BVALID : BOOLEAN, RVALID : BOOLEAN]

Bit(b) == IF b THEN 1 ELSE 0

Init ==
  /\ mstr_req = [m \in Masters |-> NoSlave]
  /\ mstr_we = [m \in Masters |-> FALSE]
  /\ pending_slv_resp = [m \in Masters |-> NoSlave]
  /\ cur_mstr_gnt_q = [s \in MemSlaves |-> NoMaster]
  /\ rvalid = [s \in MemSlaves |-> FALSE]
  /\ axi_fsm_q = "AXI_IDLE"
  /\ mstr_gnt_q = NoMaster
  /\ axi_we_q = FALSE
  /\ aw_done = FALSE
  /\ w_done = FALSE
  /\ bus = [aw |-> 0, w |-> 0, ar |-> 0]
  /\ server = [s \in Slaves |-> NoMaster]
  /\ unacked = [m \in Masters |-> 0]
  /\ waited = [m \in Masters |-> 0]

-----------------------------------------------------------------------------
(* slv_axi_mux, combinational outputs.  i is the record of AXI inputs.     *)

\* The AXI address, data and write flag are muxed from the latched master.
axi_we == mstr_gnt_q # NoMaster /\ mstr_we[mstr_gnt_q]

InAcc == axi_fsm_q = "AXI_ACC"
\* Mutant: the address is offered again until the data phase is done too.
AWVALID_NotDropped == InAcc /\ axi_we
AWVALID == InAcc /\ axi_we /\ ~aw_done
WVALID  == InAcc /\ axi_we /\ ~w_done
ARVALID == InAcc /\ ~axi_we

axi_acc_done(i) ==
  IF axi_we THEN (i.AWREADY \/ aw_done) /\ (i.WREADY \/ w_done)
            ELSE i.ARREADY
axi_resp_done(i) == IF axi_we_q THEN i.BVALID ELSE i.RVALID

\* mstr_gnt_o: a one-bit value assigned to the NMSTR-bit grant vector, so it
\* lands in bit 0 and every other bit is 0.
AxiGnt_AnyState(i) == IF axi_acc_done(i) THEN {0} ELSE {}    \* Mutant
AxiGnt(i) == IF InAcc /\ axi_acc_done(i) THEN {0} ELSE {}

-----------------------------------------------------------------------------
(* mstr_mux                                                                *)

slv_rvalid(s, i) ==
  IF s = AXI THEN axi_fsm_q = "AXI_RESP" /\ axi_resp_done(i) ELSE rvalid[s]

rvalid_done(m, i) ==
  pending_slv_resp[m] # NoSlave /\ slv_rvalid(pending_slv_resp[m], i)

\* A request to another slave is held off until the pending response is back.
slv_req_o_NoHoldOff(m, i) == mstr_req[m]      \* Mutant
slv_req_o(m, i) ==
  IF \/ pending_slv_resp[m] = NoSlave
     \/ pending_slv_resp[m] = mstr_req[m]
     \/ rvalid_done(m, i)
  THEN mstr_req[m] ELSE NoSlave

Requesting(s, i) == {m \in Masters : slv_req_o(m, i) = s}

-----------------------------------------------------------------------------
(* slv_arbiter                                                             *)

\* Round robin: the lowest requester above the last grant, else the lowest.
NextGrant_FixedPriority(last, reqs) ==        \* Mutant
  IF reqs = {} THEN NoMaster ELSE Min(reqs)
NextGrant(last, reqs) ==
  LET hi == {m \in reqs : m > last}
  IN  IF reqs = {} THEN NoMaster ELSE IF hi # {} THEN Min(hi) ELSE Min(reqs)

MemGnt(s, i) == NextGrant(cur_mstr_gnt_q[s], Requesting(s, i))

\* Masters whose grant the slave's mux raises.
slv_gnt(s, i) ==
  IF s = AXI THEN AxiGnt(i) ELSE {MemGnt(s, i)} \ {NoMaster}

mstr_gnt(m, i) ==
  slv_req_o(m, i) # NoSlave /\ m \in slv_gnt(slv_req_o(m, i), i)

\* Masters for which the slave carries out an access at this edge: a memory
\* for the master it muxes, AXI for the latched master as its phases complete.
Performed(s, i) ==
  IF s = AXI
  THEN IF InAcc /\ axi_acc_done(i) THEN {mstr_gnt_q} ELSE {}
  ELSE {MemGnt(s, i)} \ {NoMaster}

-----------------------------------------------------------------------------
(* Clock edge, one conjunct per always block                               *)

\* Mutant: a response clears the entry even when the edge also grants.
MstrMuxEdge_ResponseFirst(i) ==
  pending_slv_resp' = [m \in Masters |->
     IF rvalid_done(m, i) THEN NoSlave
     ELSE IF mstr_gnt(m, i) THEN mstr_req[m] ELSE pending_slv_resp[m]]
\* Mutant: the entry is only ever overwritten, never cleared.
MstrMuxEdge_NeverCleared(i) ==
  pending_slv_resp' = [m \in Masters |->
     IF mstr_gnt(m, i) THEN mstr_req[m] ELSE pending_slv_resp[m]]
MstrMuxEdge(i) ==
  pending_slv_resp' = [m \in Masters |->
     IF mstr_gnt(m, i) THEN mstr_req[m]
     ELSE IF rvalid_done(m, i) THEN NoSlave ELSE pending_slv_resp[m]]

MemMuxEdge(i) ==
  /\ cur_mstr_gnt_q' = [s \in MemSlaves |-> MemGnt(s, i)]
  /\ rvalid' = [s \in MemSlaves |-> MemGnt(s, i) # NoMaster]

AxiIdle(i) ==
  /\ axi_fsm_q = "AXI_IDLE"
  /\ IF Requesting(AXI, i) # {}
     THEN /\ axi_fsm_q' = "AXI_ACC"
          /\ mstr_gnt_q' = Min(Requesting(AXI, i))
          /\ w_done' = FALSE
          /\ aw_done' = FALSE
     ELSE UNCHANGED <<axi_fsm_q, mstr_gnt_q, w_done, aw_done>>
  /\ UNCHANGED axi_we_q

AxiAcc(i) ==
  /\ InAcc
  /\ aw_done' = (i.AWREADY \/ aw_done)
  /\ w_done' = (i.WREADY \/ w_done)
  /\ IF axi_acc_done(i)
     THEN axi_fsm_q' = "AXI_RESP" /\ axi_we_q' = axi_we
     ELSE UNCHANGED <<axi_fsm_q, axi_we_q>>
  /\ UNCHANGED mstr_gnt_q

AxiResp(i) ==
  /\ axi_fsm_q = "AXI_RESP"
  /\ axi_fsm_q' = IF axi_resp_done(i) THEN "AXI_IDLE" ELSE axi_fsm_q
  /\ UNCHANGED <<mstr_gnt_q, axi_we_q, aw_done, w_done>>

AxiMuxEdge(i) == AxiIdle(i) \/ AxiAcc(i) \/ AxiResp(i)

\* External.  The subordinate answers only what it has accepted; BREADY and
\* RREADY are tied to 1, so a response lasts one cycle.
BusEdge(i) ==
  /\ i.BVALID => bus.aw > 0 /\ bus.w > 0
  /\ i.RVALID => bus.ar > 0
  /\ bus' = [aw |-> bus.aw + Bit(AWVALID /\ i.AWREADY) - Bit(i.BVALID),
             w  |-> bus.w + Bit(WVALID /\ i.WREADY) - Bit(i.BVALID),
             ar |-> bus.ar + Bit(ARVALID /\ i.ARREADY) - Bit(i.RVALID)]

\* A granted master lowers its request; Issue may raise the next one before
\* the following edge.
MasterEdge(i) ==
  /\ mstr_req' = [m \in Masters |-> IF mstr_gnt(m, i) THEN NoSlave ELSE mstr_req[m]]
  /\ mstr_we' = [m \in Masters |-> mstr_we[m] /\ ~mstr_gnt(m, i)]

HistoryEdge(i) ==
  LET performed == {m \in Masters : \E s \in Slaves : m \in Performed(s, i)}
  IN  /\ server' = [s \in Slaves |->
            IF Performed(s, i) = {} THEN server[s]
            ELSE CHOOSE m \in Performed(s, i) : TRUE]
      /\ unacked' = [m \in Masters |->
            unacked[m] + Bit(m \in performed) - Bit(mstr_gnt(m, i))]
      /\ waited' = [m \in Masters |->
            IF slv_req_o(m, i) \in MemSlaves /\ ~mstr_gnt(m, i)
            THEN waited[m] + 1 ELSE 0]

Clock(i) ==
  /\ BusEdge(i)
  /\ MstrMuxEdge(i)
  /\ MemMuxEdge(i)
  /\ AxiMuxEdge(i)
  /\ MasterEdge(i)
  /\ HistoryEdge(i)

Issue(m, s, we) ==
  /\ mstr_req[m] = NoSlave
  /\ s = AXI => m \in AxiMasters
  /\ we => s = AXI
  /\ mstr_req' = [mstr_req EXCEPT ![m] = s]
  /\ mstr_we' = [mstr_we EXCEPT ![m] = we]
  /\ UNCHANGED <<pending_slv_resp, cur_mstr_gnt_q, rvalid, axiVars, bus, histVars>>

Next ==
  \/ \E i \in BusInputs : Clock(i)
  \/ \E m \in Masters, s \in Slaves, we \in BOOLEAN : Issue(m, s, we)

Spec == Init /\ [][Next]_vars

\* An edge at which the AXI subordinate accepts what is offered and answers
\* what it owes.
ResponsiveClock ==
  Clock([AWREADY |-> TRUE, WREADY |-> TRUE, ARREADY |-> TRUE,
         BVALID |-> bus.aw > 0 /\ bus.w > 0, RVALID |-> bus.ar > 0])

FairSpec == Spec /\ WF_vars(ResponsiveClock)

-----------------------------------------------------------------------------
(* Properties                                                              *)

TypeOK ==
  /\ mstr_req \in [Masters -> Slaves \cup {NoSlave}]
  /\ mstr_we \in [Masters -> BOOLEAN]
  /\ pending_slv_resp \in [Masters -> Slaves \cup {NoSlave}]
  /\ cur_mstr_gnt_q \in [MemSlaves -> Masters \cup {NoMaster}]
  /\ rvalid \in [MemSlaves -> BOOLEAN]
  /\ axi_fsm_q \in {"AXI_IDLE", "AXI_ACC", "AXI_RESP"}
  /\ mstr_gnt_q \in Masters \cup {NoMaster}
  /\ axi_we_q \in BOOLEAN
  /\ aw_done \in BOOLEAN
  /\ w_done \in BOOLEAN
  /\ bus \in [aw : Int, w : Int, ar : Int]
  /\ server \in [Slaves -> Masters \cup {NoMaster}]
  /\ unacked \in [Masters -> Int]
  /\ waited \in [Masters -> Nat]

\* A response reaches the master whose access the slave performed, and no
\* other: while a slave owes (memory: drives) a response, the master whose
\* pending_slv_resp names the slave is the one it served, and it exists.
ResponseRouting ==
  /\ \A m \in Masters : pending_slv_resp[m] # NoSlave =>
       server[pending_slv_resp[m]] = m
  /\ \A s \in MemSlaves :
       rvalid[s] <=> \E m \in Masters : pending_slv_resp[m] = s
  /\ axi_fsm_q = "AXI_RESP" <=> \E m \in Masters : pending_slv_resp[m] = AXI

\* Each access a slave carries out is granted to its master at that same
\* edge, and nothing is granted that no slave carried out: no write is lost
\* and none is issued twice.
ExactlyOnce == \A m \in Masters : unacked[m] = 0

\* Round robin with the hold-off: a request raised to a memory slave is
\* refused at most NMSTR - 1 times in a row.
BoundedWait == \A m \in Masters : waited[m] <= NMSTR - 1

\* The AXI address and data phases of one write happen once each, whatever
\* order the subordinate accepts them in, and never overlap a read.
OneAxiTransaction ==
  /\ bus.aw \in {0, 1} /\ bus.w \in {0, 1} /\ bus.ar \in {0, 1}
  /\ bus.aw + bus.w > 0 => bus.ar = 0
  /\ axi_fsm_q = "AXI_IDLE" => bus = [aw |-> 0, w |-> 0, ar |-> 0]

\* Every request is eventually granted: no master starves, none is held off
\* forever by a pending response, and AXI completes.
EventuallyGranted ==
  \A m \in Masters : mstr_req[m] # NoSlave ~> mstr_req[m] = NoSlave

\* The crossbar implements the promise of ObiPort.
Port == INSTANCE ObiPort WITH
          req <- mstr_req, out <- pending_slv_resp, served <- server

PortSpec == Port!Spec
=============================================================================

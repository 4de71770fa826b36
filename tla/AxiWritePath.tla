---------------------------- MODULE AxiWritePath ----------------------------
(***************************************************************************)
(* The write half of the AXI fabric (msftDvIp_cheri_axi_fabric.sv): a      *)
(* manager interface per manager, a subordinate interface per subordinate, *)
(* the fixed-priority muxes between them, and the default subordinate that *)
(* answers writes no address range claims.                                 *)
(*                                                                         *)
(* Clock is a rising edge: all registers move at once.  Between edges the  *)
(* external managers start writes and offer beats, and the external        *)
(* subordinates raise BVALID; a VALID once raised stays until its READY.   *)
(* READY inputs are free at every edge.  A beat is abstracted to the       *)
(* manager it belongs to and its LAST flag, an address to the subordinate  *)
(* it decodes to, a response to the subordinate that gave it.              *)
(***************************************************************************)
EXTENDS AxiFabric

CONSTANTS
  MaxBeats,         \* longest burst a manager issues
  UnmappedManagers  \* managers that may write to unmapped addresses

ASSUME WriteAssumption == MaxBeats \in Nat \ {0} /\ UnmappedManagers \subseteq Managers

VARIABLES
  \* manager interface
  wphase_state, wreq_hld, aw_fifo, w_fifo, b_fifo,
  \* subordinate interface
  wr_state, saw_fifo, sw_fifo, sb_fifo,
  \* default subordinate
  awready_sub, bvalid_sub, bid_sub,
  \* external managers: AWVALID's target, beats not yet accepted, WVALID, and
  \* the target of the write whose response is awaited
  m_aw, m_beats, m_wvalid, m_dst,
  \* external subordinates: whose address and last beat were accepted, BVALID
  s_aw, s_w, s_bvalid,
  \* history: manager whose address the subordinate interface accepted last
  owner

mgrVars == <<wphase_state, wreq_hld, aw_fifo, w_fifo, b_fifo>>
subVars == <<wr_state, saw_fifo, sw_fifo, sb_fifo>>
defVars == <<awready_sub, bvalid_sub, bid_sub>>
envVars == <<m_aw, m_beats, m_wvalid, m_dst, s_aw, s_w, s_bvalid>>
vars == <<mgrVars, subVars, defVars, envVars, owner>>

Init ==
  /\ wphase_state = [m \in Managers |-> "RDY"]
  /\ wreq_hld = [m \in Managers |-> None]
  /\ aw_fifo = [m \in Managers |-> <<>>]
  /\ w_fifo = [m \in Managers |-> <<>>]
  /\ b_fifo = [m \in Managers |-> <<>>]
  /\ wr_state = [s \in Subs |-> "WR_IDLE"]
  /\ saw_fifo = [s \in Subs |-> <<>>]
  /\ sw_fifo = [s \in Subs |-> <<>>]
  /\ sb_fifo = [s \in Subs |-> <<>>]
  /\ awready_sub = TRUE
  /\ bvalid_sub = FALSE
  /\ bid_sub = 0
  /\ m_aw = [m \in Managers |-> None]
  /\ m_beats = [m \in Managers |-> 0]
  /\ m_wvalid = [m \in Managers |-> FALSE]
  /\ m_dst = [m \in Managers |-> None]
  /\ s_aw = [s \in ExtSubs |-> None]
  /\ s_w = [s \in ExtSubs |-> None]
  /\ s_bvalid = [s \in ExtSubs |-> FALSE]
  /\ owner = [s \in Subs |-> None]

-----------------------------------------------------------------------------
(* Write address: manager FIFO -> mux -> subordinate FIFO                  *)

awready_mgr(m) == wrAck(aw_fifo[m]) /\ wphase_state[m] = "RDY"
AwHandshake(m) == m_aw[m] # None /\ awready_mgr(m)

\* Managers whose head address decodes to s; the mux takes the lowest.
AwSel(s) == {m \in Managers : aw_fifo[m] # <<>> /\ Head(aw_fifo[m]) = s}
awphase_ready_FifoOnly(s) == wrAck(saw_fifo[s])     \* Mutant
awphase_ready(s) == wrAck(saw_fifo[s]) /\ wr_state[s] = "WR_IDLE"

awphase_accept(m) ==
  /\ aw_fifo[m] # <<>>
  /\ LET s == Head(aw_fifo[m]) IN m = Min(AwSel(s)) /\ awphase_ready(s)

-----------------------------------------------------------------------------
(* Write data                                                              *)

accept_mgr_writes(m) ==
  wphase_state[m] \in {"ACCEPT_WRITES", "ACCEPT_AND_SEND_WRITES"}
\* Mutant: beats leave as soon as they are there, to the held subordinate.
send_slv_writes_Always(m) == TRUE
send_slv_writes(m) ==
  awphase_accept(m) \/ wphase_state[m] \in {"ACCEPT_AND_SEND_WRITES", "WAIT4DONE"}

WHandshake(m) == m_wvalid[m] /\ wrAck(w_fifo[m]) /\ accept_mgr_writes(m)
LastBeat(m) == m_beats[m] = 1
last_write(m) == WHandshake(m) /\ LastBeat(m)

wphase_valid(m, s) ==
  /\ w_fifo[m] # <<>>
  /\ send_slv_writes(m)
  /\ s = IF awphase_accept(m) THEN Head(aw_fifo[m]) ELSE wreq_hld[m]
WSel(s) == {m \in Managers : wphase_valid(m, s)}
wphase_ready(m) ==
  \E s \in Subs : wphase_valid(m, s) /\ m = Min(WSel(s)) /\ wrAck(sw_fifo[s])

-----------------------------------------------------------------------------
(* Subordinate channels.  i = [awready, wready : subordinates ready,       *)
(* bready : managers ready].                                               *)

awready(s, i) == IF s = DefSub THEN awready_sub ELSE s \in i.awready
wready(s, i)  == s = DefSub \/ s \in i.wready
SAwHandshake(s, i) == rdAck(saw_fifo[s]) /\ awready(s, i)
SWHandshake(s, i)  == rdAck(sw_fifo[s]) /\ wready(s, i)
SWLast(s, i) == SWHandshake(s, i) /\ Head(sw_fifo[s]).last

bvalid(s) == IF s = DefSub THEN bvalid_sub ELSE s_bvalid[s]
bid(s)    == IF s = DefSub THEN bid_sub ELSE s_aw[s]
SBHandshake(s) == bvalid(s) /\ wrAck(sb_fifo[s]) /\ wr_state[s] = "WR_RESP"

\* Subordinates whose head response is for m.  The mux forwards the lowest
\* and pops every one of them.
BSel(m) == {s \in Subs : sb_fifo[s] # <<>> /\ Head(sb_fifo[s]) = m}

-----------------------------------------------------------------------------
(* Clock edge                                                              *)

\* Mutant: WAIT4SLV forgets that the address was accepted.
WphaseState_StuckWait4Slv(m) ==
  CASE wphase_state[m] = "RDY" ->
         IF AwHandshake(m) THEN "ACCEPT_WRITES" ELSE "RDY"
    [] wphase_state[m] = "ACCEPT_WRITES" ->
         IF last_write(m) THEN "WAIT4SLV"
         ELSE IF awphase_accept(m) THEN "ACCEPT_AND_SEND_WRITES" ELSE "ACCEPT_WRITES"
    [] wphase_state[m] = "WAIT4SLV" ->
         IF awphase_accept(m) THEN "WAIT4DONE" ELSE "WAIT4SLV"
    [] wphase_state[m] = "ACCEPT_AND_SEND_WRITES" ->
         IF last_write(m) THEN "WAIT4DONE" ELSE "ACCEPT_AND_SEND_WRITES"
    [] wphase_state[m] = "WAIT4DONE" ->
         IF w_fifo[m] = <<>> THEN "RDY" ELSE "WAIT4DONE"

\* The write state machine of the manager interface.
WphaseState(m) ==
  CASE wphase_state[m] = "RDY" ->
         IF AwHandshake(m) THEN "ACCEPT_WRITES" ELSE "RDY"
    [] wphase_state[m] = "ACCEPT_WRITES" ->
         IF awphase_accept(m)
         THEN IF last_write(m) THEN "WAIT4DONE" ELSE "ACCEPT_AND_SEND_WRITES"
         ELSE IF last_write(m) THEN "WAIT4SLV" ELSE "ACCEPT_WRITES"
    [] wphase_state[m] = "WAIT4SLV" ->
         IF awphase_accept(m) THEN "WAIT4DONE" ELSE "WAIT4SLV"
    [] wphase_state[m] = "ACCEPT_AND_SEND_WRITES" ->
         IF last_write(m) THEN "WAIT4DONE" ELSE "ACCEPT_AND_SEND_WRITES"
    [] wphase_state[m] = "WAIT4DONE" ->
         IF w_fifo[m] = <<>> THEN "RDY" ELSE "WAIT4DONE"

MgrEdge(i) ==
  /\ wphase_state' = [m \in Managers |-> WphaseState(m)]
  /\ wreq_hld' = [m \in Managers |->
       IF awphase_accept(m) /\ wphase_state[m] \in {"ACCEPT_WRITES", "WAIT4SLV"}
       THEN Head(aw_fifo[m]) ELSE wreq_hld[m]]
  /\ aw_fifo' = [m \in Managers |->
       FifoEdge(aw_fifo[m], AwHandshake(m), m_aw[m], awphase_accept(m))]
  /\ w_fifo' = [m \in Managers |->
       FifoEdge(w_fifo[m], WHandshake(m), LastBeat(m), wphase_ready(m))]
  /\ b_fifo' = [m \in Managers |->
       FifoEdge(b_fifo[m], BSel(m) # {}, Min(BSel(m) \cup {DefSub}), m \in i.bready)]

\* The write state machine of the subordinate interface.
WrState(s, i) ==
  CASE wr_state[s] = "WR_IDLE" ->
         IF AwSel(s) # {} THEN "WR_IN_PROGRESS" ELSE "WR_IDLE"
    [] wr_state[s] = "WR_IN_PROGRESS" ->
         IF SWLast(s, i) THEN "WR_RESP" ELSE "WR_IN_PROGRESS"
    [] wr_state[s] = "WR_RESP" ->
         IF SBHandshake(s) THEN "WR_IDLE" ELSE "WR_RESP"

SubEdge(i) ==
  /\ wr_state' = [s \in Subs |-> WrState(s, i)]
  /\ saw_fifo' = [s \in Subs |->
       FifoEdge(saw_fifo[s], AwSel(s) # {} /\ awphase_ready(s),
                Min(AwSel(s) \cup {NMGR}), awready(s, i))]
  /\ sw_fifo' = [s \in Subs |->
       LET m == Min(WSel(s) \cup {NMGR})
       IN  FifoEdge(sw_fifo[s], WSel(s) # {},
                    [mgr |-> m, last |-> m # NMGR /\ Head(w_fifo[m])], wready(s, i))]
  /\ sb_fifo' = [s \in Subs |->
       FifoEdge(sb_fifo[s], SBHandshake(s), bid(s),
                \E m \in Managers : s \in BSel(m) /\ wrAck(b_fifo[m]))]
  /\ owner' = [s \in Subs |->
       IF AwSel(s) # {} /\ awphase_ready(s) THEN Min(AwSel(s)) ELSE owner[s]]

\* msftDvIp_axi_def_sub: an address, else a last beat, else a response.
DefSubEdge(i) ==
  IF SAwHandshake(DefSub, i)
  THEN /\ awready_sub' = FALSE
       /\ bid_sub' = Head(saw_fifo[DefSub])
       /\ UNCHANGED bvalid_sub
  ELSE IF SWLast(DefSub, i)
  THEN /\ bvalid_sub' = TRUE
       /\ UNCHANGED <<awready_sub, bid_sub>>
  ELSE IF SBHandshake(DefSub)
  THEN /\ awready_sub' = TRUE
       /\ bvalid_sub' = FALSE
       /\ UNCHANGED bid_sub
  ELSE UNCHANGED defVars

\* External: the managers and subordinates see their handshakes.
EnvEdge(i) ==
  /\ m_aw' = [m \in Managers |-> IF AwHandshake(m) THEN None ELSE m_aw[m]]
  /\ m_beats' = [m \in Managers |->
       IF WHandshake(m) THEN m_beats[m] - 1 ELSE m_beats[m]]
  /\ m_wvalid' = [m \in Managers |-> m_wvalid[m] /\ ~WHandshake(m)]
  /\ m_dst' = [m \in Managers |->
       IF m \in i.bready /\ b_fifo[m] # <<>> THEN None ELSE m_dst[m]]
  /\ s_aw' = [s \in ExtSubs |->
       IF SAwHandshake(s, i) THEN Head(saw_fifo[s])
       ELSE IF SBHandshake(s) THEN None ELSE s_aw[s]]
  /\ s_w' = [s \in ExtSubs |->
       IF SWLast(s, i) THEN Head(sw_fifo[s]).mgr
       ELSE IF SBHandshake(s) THEN None ELSE s_w[s]]
  /\ s_bvalid' = [s \in ExtSubs |-> s_bvalid[s] /\ ~SBHandshake(s)]

Inputs == [awready : SUBSET ExtSubs, wready : SUBSET ExtSubs, bready : SUBSET Managers]

Clock(i) == MgrEdge(i) /\ SubEdge(i) /\ DefSubEdge(i) /\ EnvEdge(i)

\* A manager starts a write once the response of the previous one is back,
\* as the core's slv_axi_mux and the DMA engine do.
StartWrite(m, s, beats) ==
  /\ m_dst[m] = None
  /\ s = DefSub => m \in UnmappedManagers
  /\ m_dst' = [m_dst EXCEPT ![m] = s]
  /\ m_aw' = [m_aw EXCEPT ![m] = s]
  /\ m_beats' = [m_beats EXCEPT ![m] = beats]
  /\ UNCHANGED <<mgrVars, subVars, defVars, m_wvalid, s_aw, s_w, s_bvalid, owner>>

OfferBeat(m) ==
  /\ m_beats[m] > 0 /\ ~m_wvalid[m]
  /\ m_wvalid' = [m_wvalid EXCEPT ![m] = TRUE]
  /\ UNCHANGED <<mgrVars, subVars, defVars, m_aw, m_beats, m_dst, s_aw, s_w, s_bvalid, owner>>

\* A subordinate answers a write whose address and last beat it accepted.
Respond(s) ==
  /\ s_aw[s] # None /\ s_w[s] # None /\ ~s_bvalid[s]
  /\ s_bvalid' = [s_bvalid EXCEPT ![s] = TRUE]
  /\ UNCHANGED <<mgrVars, subVars, defVars, m_aw, m_beats, m_wvalid, m_dst, s_aw, s_w, owner>>

Next ==
  \/ \E i \in Inputs : Clock(i)
  \/ \E m \in Managers, s \in Subs, beats \in 1 .. MaxBeats : StartWrite(m, s, beats)
  \/ \E m \in Managers : OfferBeat(m)
  \/ \E s \in ExtSubs : Respond(s)

Spec == Init /\ [][Next]_vars

\* The clock runs with everyone ready again and again; managers send the
\* beats they announced and subordinates answer.
FairSpec ==
  /\ Spec
  /\ WF_vars(Clock([awready |-> ExtSubs, wready |-> ExtSubs, bready |-> Managers]))
  /\ \A m \in Managers : WF_vars(OfferBeat(m))
  /\ \A s \in ExtSubs : WF_vars(Respond(s))

-----------------------------------------------------------------------------
(* Properties                                                              *)

\* Beats stay with their address: everything a subordinate holds of a write
\* belongs to the manager whose address it accepted last, and while a manager
\* interface can send beats, the subordinate it sends them to is the one that
\* accepted its address and still has the write open.  A response in flight is
\* for a manager that waits for one, was given by the subordinate that manager
\* wrote to, and is the only one.
OwnBeats ==
  /\ \A s \in Subs :
       /\ \A k \in 1 .. Len(saw_fifo[s]) : saw_fifo[s][k] = owner[s]
       /\ \A k \in 1 .. Len(sw_fifo[s]) : sw_fifo[s][k].mgr = owner[s]
       /\ s \in ExtSubs /\ s_aw[s] # None => s_aw[s] = owner[s]
       /\ s \in ExtSubs /\ s_w[s] # None => s_w[s] = owner[s]
  /\ \A m \in Managers :
       wphase_state[m] \in {"ACCEPT_AND_SEND_WRITES", "WAIT4DONE"} /\ w_fifo[m] # <<>> =>
         /\ owner[wreq_hld[m]] = m
         /\ wr_state[wreq_hld[m]] = "WR_IN_PROGRESS"
  /\ \A m \in Managers :
       /\ \A k \in 1 .. Len(b_fifo[m]) : b_fifo[m][k] = m_dst[m]
       /\ BSel(m) \subseteq {m_dst[m]}
       /\ Len(b_fifo[m]) + Cardinality(BSel(m)) <= 1

\* Once the default subordinate took the last beat of a write, it presents the
\* decode error ("AXI Slave Write Error").
DecodeErrorAnswered == wr_state[DefSub] = "WR_RESP" => bvalid_sub

\* How far manager m's write has come.
WritePhase(m) ==
  LET s == m_dst[m]
  IN  IF s = None THEN "idle"
      ELSE IF b_fifo[m] # <<>> \/ BSel(m) # {} THEN "answered"
      ELSE IF owner[s] = m /\ wr_state[s] = "WR_IN_PROGRESS" THEN "open"
      ELSE IF owner[s] = m /\ wr_state[s] = "WR_RESP" THEN "taken"
      ELSE "waiting"

\* The write path implements the service of AxiWriteService: no write skips
\* or repeats a phase, and writes to one subordinate never overlap there.
Service == INSTANCE AxiWriteService WITH
             phase <- [m \in Managers |-> WritePhase(m)], dst <- m_dst

ServiceSpec == Service!Spec

\* Every write is answered, of either manager, despite the fixed priority.
EveryWriteAnswered == \A m \in Managers : m_dst[m] # None ~> m_dst[m] = None
=============================================================================

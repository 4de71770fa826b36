---------------------------- MODULE ObiMuxProofs ----------------------------
(***************************************************************************)
(* Proofs about ObiMux for every number of masters and every set of memory *)
(* slaves, when AXI is used by the CPU data port alone (the only master    *)
(* slv_axi_mux can grant).                                                 *)
(***************************************************************************)
EXTENDS ObiMux, WellFoundedInduction, TLAPS

\* Position of master m in the round-robin order that starts after last.
Dist(last, m) == IF m > last THEN m - last - 1 ELSE m - last - 1 + NMSTR

\* A memory answers one edge after it performed, the master it performed for.
MemInv ==
  /\ \A m \in Masters : pending_slv_resp[m] \in MemSlaves =>
       rvalid[pending_slv_resp[m]] /\ server[pending_slv_resp[m]] = m
  /\ \A s \in MemSlaves : rvalid[s] =>
       server[s] \in Masters /\ pending_slv_resp[server[s]] = s

\* AXI works for master 0 alone, whose request it holds until it is accepted.
AxiInv ==
  /\ \A m \in Masters : mstr_req[m] = AXI => m = 0
  /\ \A m \in Masters : pending_slv_resp[m] = AXI =>
       axi_fsm_q = "AXI_RESP" /\ m = 0
  /\ axi_fsm_q = "AXI_RESP" => pending_slv_resp[0] = AXI /\ server[AXI] = 0
  /\ axi_fsm_q = "AXI_ACC" =>
       mstr_gnt_q = 0 /\ mstr_req[0] = AXI /\ pending_slv_resp[0] = NoSlave

\* The handshakes the subordinate has not answered, from the FSM registers.
BusInv ==
  /\ axi_fsm_q = "AXI_IDLE" => bus = [aw |-> 0, w |-> 0, ar |-> 0]
  /\ axi_fsm_q = "AXI_ACC" /\ axi_we =>
       /\ bus = [aw |-> Bit(aw_done), w |-> Bit(w_done), ar |-> 0]
       /\ ~ (aw_done /\ w_done)
  /\ axi_fsm_q = "AXI_ACC" /\ ~axi_we => bus = [aw |-> 0, w |-> 0, ar |-> 0]
  /\ axi_fsm_q = "AXI_RESP" /\ axi_we_q => bus = [aw |-> 1, w |-> 1, ar |-> 0]
  /\ axi_fsm_q = "AXI_RESP" /\ ~axi_we_q => bus = [aw |-> 0, w |-> 0, ar |-> 1]

\* A refused request moves forward in the round-robin order.
WaitInv ==
  \A m \in Masters : waited[m] > 0 =>
    /\ mstr_req[m] \in MemSlaves
    /\ waited[m] + Dist(cur_mstr_gnt_q[mstr_req[m]], m) <= NMSTR - 1

IInv == TypeOK /\ MemInv /\ AxiInv /\ BusInv /\ ExactlyOnce /\ WaitInv

-----------------------------------------------------------------------------
\* A non-empty set of naturals has a least element, and Min chooses it.
LEMMA MinIsLeast ==
  ASSUME NEW S \in SUBSET Nat, S # {}
  PROVE  Min(S) \in S /\ \A n \in S : Min(S) <= n
<1> DEFINE R == {ss \in Nat \X Nat : ss[1] < ss[2]}
<1>1. IsWellFoundedOn(R, Nat)  BY NatLessThanWellFounded DEF OpToRel
<1>2. \A x, y \in Nat : y < x => <<y, x>> \in R  OBVIOUS
<1> HIDE DEF R
<1>3. PICK k \in S : \A n \in S : ~ (<<n, k>> \in R)  BY <1>1, WFMin, Zenon
<1>4. \A n \in S : ~ (n < k)  BY <1>2, <1>3, S \subseteq Nat, Zenon
<1>5. \E x \in S : \A y \in S : x <= y  BY <1>4, SMT
<1> QED  BY <1>5, Zenon DEF Min

\* Of two requesters, the one the arbiter picks is nearer in the order, and
\* once it is granted the other is nearer than it was.
LEMMA DistCloser ==
  ASSUME NEW last \in Masters \cup {NoMaster}, NEW g \in Masters, NEW m \in Masters,
         g # m, m > last => (g > last /\ g < m), m <= last => (g > last \/ g < m)
  PROVE  Dist(g, m) < Dist(last, m) /\ Dist(g, m) + 1 <= NMSTR - 1
BY NmstrAssumption DEF Dist, Masters, NoMaster

\* The arbiter grants a requester whenever there is one, and brings every
\* other requester closer to its turn.
LEMMA NextGrantFacts ==
  ASSUME NEW last \in Masters \cup {NoMaster}, NEW reqs \in SUBSET Masters
  PROVE  /\ NextGrant(last, reqs) \in Masters \cup {NoMaster}
         /\ NextGrant(last, reqs) = NoMaster <=> reqs = {}
         /\ NextGrant(last, reqs) # NoMaster => NextGrant(last, reqs) \in reqs
         /\ \A m \in reqs : m # NextGrant(last, reqs) =>
              /\ Dist(NextGrant(last, reqs), m) < Dist(last, m)
              /\ Dist(NextGrant(last, reqs), m) + 1 <= NMSTR - 1
<1> DEFINE hi == {m \in reqs : m > last}
           g  == NextGrant(last, reqs)
<1>1. Masters \subseteq Nat /\ NoMaster \notin Masters /\ NoMaster \in Int
  BY DEF Masters, NoMaster
<1>2. CASE reqs = {}
  <2>1. g = NoMaster  BY <1>2 DEF NextGrant
  <2> QED  BY <1>2, <2>1
<1>3. CASE reqs # {}
  <2>1. /\ g \in reqs
        /\ \A m \in reqs : m # g =>
             /\ m > last => (g > last /\ g < m)
             /\ m <= last => (g > last \/ g < m)
    <3>1. CASE hi # {}
      <4>1. g = Min(hi)  BY <1>3, <3>1, Zenon DEF NextGrant
      <4>2. hi \in SUBSET Nat  BY <1>1
      <4>3. g \in hi /\ \A n \in hi : g <= n
        BY <3>1, <4>1, <4>2, MinIsLeast, Zenon
      <4> HIDE DEF g
      <4> QED  BY <1>1, <4>3
    <3>2. CASE hi = {}
      <4>1. g = Min(reqs)  BY <1>3, <3>2, Zenon DEF NextGrant
      <4>2. reqs \in SUBSET Nat  BY <1>1
      <4>3. Min(reqs) \in reqs /\ \A n \in reqs : Min(reqs) <= n
        BY <1>3, <4>2, MinIsLeast
      <4>4. \A m \in reqs : m <= last  BY <1>1, <3>2
      <4> HIDE DEF g
      <4>5. g \in reqs /\ \A n \in reqs : g <= n  BY <4>1, <4>3
      <4> QED  BY <1>1, <4>2, <4>4, <4>5
    <3> QED  BY <3>1, <3>2
  <2> HIDE DEF g
  <2>2. ASSUME NEW m \in reqs, m # g
        PROVE  Dist(g, m) < Dist(last, m) /\ Dist(g, m) + 1 <= NMSTR - 1
    <3>1. g \in Masters /\ m \in Masters  BY <2>1
    <3>2. /\ m > last => (g > last /\ g < m)
          /\ m <= last => (g > last \/ g < m)
      BY <2>1, <2>2
    <3> QED  BY <2>2, <3>1, <3>2, DistCloser, Zenon
  <2> QED  BY <1>1, <2>1, <2>2 DEF g
<1> QED  BY <1>2, <1>3, Zenon

-----------------------------------------------------------------------------
\* A memory slave's arbiter picks a master that requests it, if there is one.
LEMMA MemGntFacts ==
  ASSUME TypeOK, NEW s \in MemSlaves, NEW i \in BusInputs
  PROVE  /\ MemGnt(s, i) \in Masters \cup {NoMaster}
         /\ MemGnt(s, i) # NoMaster => slv_req_o(MemGnt(s, i), i) = s
         /\ \A m \in Masters : slv_req_o(m, i) = s /\ m # MemGnt(s, i) =>
              /\ MemGnt(s, i) # NoMaster
              /\ Dist(MemGnt(s, i), m) < Dist(cur_mstr_gnt_q[s], m)
              /\ Dist(MemGnt(s, i), m) + 1 <= NMSTR - 1
<1> DEFINE last == cur_mstr_gnt_q[s]
           reqs == Requesting(s, i)
<1>1. last \in Masters \cup {NoMaster}  BY DEF TypeOK
<1>2. reqs \in SUBSET Masters  BY DEF Requesting
<1>3. MemGnt(s, i) = NextGrant(last, reqs)  BY DEF MemGnt
<1>4. \A m \in Masters : m \in reqs <=> slv_req_o(m, i) = s  BY DEF Requesting
<1> HIDE DEF last, reqs
<1>5. /\ NextGrant(last, reqs) \in Masters \cup {NoMaster}
      /\ NextGrant(last, reqs) = NoMaster <=> reqs = {}
      /\ NextGrant(last, reqs) # NoMaster => NextGrant(last, reqs) \in reqs
      /\ \A m \in reqs : m # NextGrant(last, reqs) =>
           /\ Dist(NextGrant(last, reqs), m) < Dist(last, m)
           /\ Dist(NextGrant(last, reqs), m) + 1 <= NMSTR - 1
  BY <1>1, <1>2, NextGrantFacts
<1>6. /\ MemGnt(s, i) \in Masters \cup {NoMaster}
      /\ MemGnt(s, i) = NoMaster <=> reqs = {}
      /\ MemGnt(s, i) # NoMaster => MemGnt(s, i) \in reqs
      /\ \A m \in reqs : m # MemGnt(s, i) =>
           /\ Dist(MemGnt(s, i), m) < Dist(last, m)
           /\ Dist(MemGnt(s, i), m) + 1 <= NMSTR - 1
  BY <1>3, <1>5, Zenon
<1>7. MemGnt(s, i) # NoMaster => MemGnt(s, i) \in Masters  BY <1>6
<1> QED  BY <1>4, <1>6, <1>7, Zenon DEF last

\* Which grants an edge gives, from the arbiters' and the AXI machine's
\* decisions; a granted master has no other response outstanding.
LEMMA GrantFacts ==
  ASSUME TypeOK, MemInv, AxiInv, NEW i \in BusInputs
  PROVE  /\ \A m \in Masters : mstr_gnt(m, i) =>
              /\ mstr_req[m] \in Slaves
              /\ slv_req_o(m, i) = mstr_req[m]
              /\ pending_slv_resp[m] = NoSlave \/ rvalid_done(m, i)
              /\ mstr_req[m] = AXI => m = 0
         /\ \A m \in Masters, s \in MemSlaves :
              MemGnt(s, i) = m <=> mstr_gnt(m, i) /\ mstr_req[m] = s
         /\ InAcc /\ axi_acc_done(i) <=> mstr_gnt(0, i) /\ mstr_req[0] = AXI
<1> USE SlaveAssumption DEF Slaves
<1>1. NoMaster \notin Masters /\ 0 \in Masters  BY NmstrAssumption DEF Masters, NoMaster
<1>2. \A m \in Masters : slv_req_o(m, i) # NoSlave => slv_req_o(m, i) = mstr_req[m]
  BY DEF slv_req_o
<1>3. \A m \in Masters : mstr_req[m] \in Slaves \cup {NoSlave}  BY DEF TypeOK
<1>4. \A m \in Masters : pending_slv_resp[m] \in MemSlaves => rvalid_done(m, i)
  BY DEF rvalid_done, slv_rvalid, MemInv
<1>5. \A m \in Masters : pending_slv_resp[m] \in Slaves \cup {NoSlave}
  BY DEF TypeOK
<1>6. \A m \in Masters, s \in MemSlaves :
        MemGnt(s, i) = m <=> mstr_gnt(m, i) /\ mstr_req[m] = s
  BY <1>1, <1>2, <1>3, MemGntFacts DEF mstr_gnt, slv_gnt
<1>7. InAcc /\ axi_acc_done(i) <=> mstr_gnt(0, i) /\ mstr_req[0] = AXI
  BY <1>1, <1>2, <1>3 DEF mstr_gnt, slv_gnt, AxiGnt, AxiInv, InAcc, slv_req_o
<1>8. \A m \in Masters : mstr_gnt(m, i) =>
        mstr_req[m] \in Slaves /\ slv_req_o(m, i) = mstr_req[m]
  BY <1>2, <1>3 DEF mstr_gnt
<1>9. \A m \in Masters : mstr_req[m] = AXI => m = 0  BY DEF AxiInv
<1>10. ASSUME NEW m \in Masters, mstr_gnt(m, i)
       PROVE  pending_slv_resp[m] = NoSlave \/ rvalid_done(m, i)
  <2>1. CASE mstr_req[m] = AXI
    BY <1>7, <1>9, <1>10, <2>1 DEF AxiInv, InAcc
  <2>2. CASE mstr_req[m] \in MemSlaves
    BY <1>4, <1>8, <1>10, <2>2 DEF slv_req_o
  <2> QED  BY <1>3, <1>8, <1>10, <2>1, <2>2
<1> QED  BY <1>6, <1>7, <1>8, <1>9, <1>10

-----------------------------------------------------------------------------
\* The master whose access each slave carries out at an edge.
LEMMA ServerEdge ==
  ASSUME TypeOK, MemInv, AxiInv, NEW i \in BusInputs, Clock(i)
  PROVE  /\ \A s \in MemSlaves :
              server'[s] = IF MemGnt(s, i) = NoMaster THEN server[s] ELSE MemGnt(s, i)
         /\ server'[AXI] = IF InAcc /\ axi_acc_done(i) THEN 0 ELSE server[AXI]
<1>1. \A s \in Slaves : server'[s] =
        IF Performed(s, i) = {} THEN server[s]
        ELSE CHOOSE m \in Performed(s, i) : TRUE
  BY DEF Clock, HistoryEdge
<1>2. \A s \in MemSlaves : s # AXI /\ s \in Slaves  BY SlaveAssumption DEF Slaves
<1>3. ASSUME NEW s \in MemSlaves
      PROVE  server'[s] = IF MemGnt(s, i) = NoMaster THEN server[s] ELSE MemGnt(s, i)
  <2>1. CASE MemGnt(s, i) = NoMaster
    <3>1. Performed(s, i) = {}  BY <1>2, <2>1 DEF Performed
    <3> QED  BY <1>1, <1>2, <2>1, <3>1
  <2>2. CASE MemGnt(s, i) # NoMaster
    <3>1. Performed(s, i) = {MemGnt(s, i)}  BY <1>2, <2>2 DEF Performed
    <3> QED  BY <1>1, <1>2, <2>2, <3>1
  <2> QED  BY <2>1, <2>2
<1>4. server'[AXI] = IF InAcc /\ axi_acc_done(i) THEN 0 ELSE server[AXI]
  <2>1. AXI \in Slaves  BY DEF Slaves
  <2>2. CASE InAcc /\ axi_acc_done(i)
    <3>1. Performed(AXI, i) = {0}  BY <2>2 DEF Performed, AxiInv, InAcc
    <3> QED  BY <1>1, <2>1, <2>2, <3>1
  <2>3. CASE ~ (InAcc /\ axi_acc_done(i))
    <3>1. Performed(AXI, i) = {}  BY <2>3 DEF Performed
    <3> QED  BY <1>1, <2>1, <2>3, <3>1
  <2> QED  BY <2>2, <2>3
<1> QED  BY <1>3, <1>4

\* A slave carries out exactly the accesses it grants.
LEMMA PerformedIsGranted ==
  ASSUME TypeOK, MemInv, AxiInv, NEW i \in BusInputs, NEW m \in Masters
  PROVE  (\E s \in Slaves : m \in Performed(s, i)) <=> mstr_gnt(m, i)
<1> USE SlaveAssumption DEF Slaves
<1>1. NoMaster \notin Masters  BY DEF Masters, NoMaster
<1>2. \A s \in MemSlaves : m \in Performed(s, i) <=> mstr_gnt(m, i) /\ mstr_req[m] = s
  BY <1>1, GrantFacts DEF Performed
<1>3. m \in Performed(AXI, i) <=> mstr_gnt(m, i) /\ mstr_req[m] = AXI
  BY GrantFacts DEF Performed, AxiInv, InAcc
<1>4. mstr_gnt(m, i) => mstr_req[m] \in Slaves  BY GrantFacts
<1> QED  BY <1>2, <1>3, <1>4

-----------------------------------------------------------------------------
(* A clock edge preserves each part of the inductive invariant.            *)

\* Types, of the registers and of the history.
LEMMA ClockType ==
  ASSUME IInv, NEW i \in BusInputs, Clock(i)
  PROVE  TypeOK'
<1> USE DEF IInv, TypeOK
<1>1. (mstr_req \in [Masters -> Slaves \cup {NoSlave}])' /\ (mstr_we \in [Masters -> BOOLEAN])'
  BY DEF Clock, MasterEdge
<1>2. (pending_slv_resp \in [Masters -> Slaves \cup {NoSlave}])'
  BY DEF Clock, MstrMuxEdge
<1>3. (cur_mstr_gnt_q \in [MemSlaves -> Masters \cup {NoMaster}])'
  BY MemGntFacts DEF Clock, MemMuxEdge
<1>4. (rvalid \in [MemSlaves -> BOOLEAN])'  BY DEF Clock, MemMuxEdge
<1>5. /\ axi_fsm_q' \in {"AXI_IDLE", "AXI_ACC", "AXI_RESP"}
      /\ mstr_gnt_q' \in Masters \cup {NoMaster}
      /\ axi_we_q' \in BOOLEAN /\ aw_done' \in BOOLEAN /\ w_done' \in BOOLEAN
  <2>1. CASE AxiIdle(i)
    <3>1. Requesting(AXI, i) \in SUBSET Nat
      BY NmstrAssumption DEF Requesting, Masters
    <3>2. Requesting(AXI, i) # {} => Min(Requesting(AXI, i)) \in Requesting(AXI, i)
      BY <3>1, MinIsLeast
    <3>3. Requesting(AXI, i) \subseteq Masters  BY DEF Requesting
    <3> QED  BY <2>1, <3>2, <3>3 DEF AxiIdle
  <2>2. CASE AxiAcc(i)
    <3>1. axi_we \in BOOLEAN  BY DEF axi_we
    <3> QED  BY <2>2, <3>1 DEF AxiAcc, BusInputs
  <2>3. CASE AxiResp(i)  BY <2>3 DEF AxiResp
  <2> QED  BY <2>1, <2>2, <2>3 DEF Clock, AxiMuxEdge
<1>6. (bus \in [aw : Int, w : Int, ar : Int])'  BY DEF Clock, BusEdge, Bit
<1>7. (server \in [Slaves -> Masters \cup {NoMaster}])'
  <2>1. server' \in [Slaves -> Masters \cup {NoMaster}] <=>
          \A s \in Slaves : server'[s] \in Masters \cup {NoMaster}
    BY DEF Clock, HistoryEdge
  <2>2. 0 \in Masters  BY NmstrAssumption DEF Masters
  <2>3. \A s \in MemSlaves : server'[s] \in Masters \cup {NoMaster}
    BY ServerEdge, MemGntFacts DEF Slaves
  <2>4. server'[AXI] \in Masters \cup {NoMaster}  BY <2>2, ServerEdge DEF Slaves
  <2> QED  BY <2>1, <2>3, <2>4 DEF Slaves
<1>8. (unacked \in [Masters -> Int])'  BY DEF Clock, HistoryEdge, Bit
<1>9. (waited \in [Masters -> Nat])'  BY DEF Clock, HistoryEdge
<1> QED  BY <1>1, <1>2, <1>3, <1>4, <1>5, <1>6, <1>7, <1>8, <1>9

\* A memory answers exactly the master it performed an access for.
LEMMA ClockMem ==
  ASSUME IInv, NEW i \in BusInputs, Clock(i)
  PROVE  MemInv'
<1> USE DEF IInv
<1>1. ASSUME NEW m \in Masters, pending_slv_resp'[m] \in MemSlaves
      PROVE  rvalid'[pending_slv_resp'[m]] /\ server'[pending_slv_resp'[m]] = m
  <2>1. ~ mstr_gnt(m, i) => pending_slv_resp[m] \notin MemSlaves
    BY <1>1, SlaveAssumption
    DEF Clock, MstrMuxEdge, MemInv, rvalid_done, slv_rvalid, Slaves
  <2>2. mstr_gnt(m, i) /\ pending_slv_resp'[m] = mstr_req[m]
    BY <1>1, <2>1, SlaveAssumption DEF Clock, MstrMuxEdge, Slaves
  <2>3. MemGnt(mstr_req[m], i) = m  BY <1>1, <2>2, GrantFacts
  <2>4. m # NoMaster  BY DEF Masters, NoMaster
  <2> QED  BY <1>1, <2>2, <2>3, <2>4, ServerEdge DEF Clock, MemMuxEdge
<1>2. ASSUME NEW s \in MemSlaves, rvalid'[s]
      PROVE  server'[s] \in Masters /\ pending_slv_resp'[server'[s]] = s
  <2>1. MemGnt(s, i) # NoMaster  BY <1>2 DEF Clock, MemMuxEdge
  <2>2. server'[s] = MemGnt(s, i) /\ MemGnt(s, i) \in Masters
    BY <2>1, ServerEdge, MemGntFacts
  <2>3. mstr_gnt(server'[s], i) /\ mstr_req[server'[s]] = s  BY <2>2, GrantFacts
  <2> QED  BY <2>2, <2>3 DEF Clock, MstrMuxEdge
<1> QED  BY <1>1, <1>2 DEF MemInv

\* The AXI machine serves master 0, and holds its request until accepted.
LEMMA ClockAxi ==
  ASSUME IInv, NEW i \in BusInputs, Clock(i)
  PROVE  AxiInv'
<1> USE SlaveAssumption DEF IInv, Slaves
<1>1. 0 \in Masters  BY NmstrAssumption DEF Masters
<1>2. \A m \in Masters : mstr_req'[m] = IF mstr_gnt(m, i) THEN NoSlave ELSE mstr_req[m]
  BY DEF Clock, MasterEdge
<1>3. \A m \in Masters : pending_slv_resp'[m] =
        IF mstr_gnt(m, i) THEN mstr_req[m]
        ELSE IF rvalid_done(m, i) THEN NoSlave ELSE pending_slv_resp[m]
  BY DEF Clock, MstrMuxEdge
<1>4. \A m \in Masters : mstr_req'[m] = AXI => m = 0  BY <1>2 DEF AxiInv
<1>5. CASE AxiIdle(i)
  <2>1. \A m \in Masters : pending_slv_resp'[m] # AXI
    BY <1>3, <1>5, GrantFacts DEF AxiIdle, AxiInv, InAcc
  <2>2. axi_fsm_q' # "AXI_RESP"  BY <1>5 DEF AxiIdle
  <2>3. ASSUME axi_fsm_q' = "AXI_ACC"
        PROVE  mstr_gnt_q' = 0 /\ mstr_req'[0] = AXI /\ pending_slv_resp'[0] = NoSlave
    <3>1. Requesting(AXI, i) # {} /\ mstr_gnt_q' = Min(Requesting(AXI, i))
      BY <1>5, <2>3 DEF AxiIdle
    <3>2. Requesting(AXI, i) = {0} /\ slv_req_o(0, i) = AXI
      BY <3>1 DEF Requesting, slv_req_o, AxiInv
    <3>3. mstr_gnt_q' = 0  BY <3>1, <3>2, MinIsLeast
    <3>4. mstr_req[0] = AXI  BY <3>2 DEF slv_req_o
    <3>5. ~ mstr_gnt(0, i)  BY <1>1, <1>5, <3>4, GrantFacts DEF AxiIdle, InAcc
    <3>6. pending_slv_resp[0] = NoSlave \/ rvalid_done(0, i)
      BY <1>1, <1>5, <3>2, <3>4 DEF slv_req_o, AxiInv, AxiIdle
    <3> QED  BY <1>1, <1>2, <1>3, <3>3, <3>4, <3>5, <3>6
  <2> QED  BY <1>4, <2>1, <2>2, <2>3 DEF AxiInv
<1>6. CASE AxiAcc(i) /\ axi_acc_done(i)
  <2>1. mstr_gnt(0, i) /\ mstr_req[0] = AXI /\ axi_fsm_q' = "AXI_RESP"
    BY <1>6, GrantFacts DEF AxiAcc
  <2>2. pending_slv_resp'[0] = AXI  BY <1>1, <1>3, <2>1
  <2>3. server'[AXI] = 0  BY <1>6, ServerEdge DEF AxiAcc
  <2>4. \A m \in Masters : pending_slv_resp'[m] = AXI => m = 0
    BY <1>3 DEF AxiInv
  <2> QED  BY <1>4, <2>1, <2>2, <2>3, <2>4 DEF AxiInv
<1>7. CASE AxiAcc(i) /\ ~ axi_acc_done(i)
  <2>1. ~ mstr_gnt(0, i)
    BY <1>1, <1>7, GrantFacts DEF AxiAcc, AxiInv, InAcc
  <2>2. axi_fsm_q' = "AXI_ACC" /\ mstr_gnt_q' = mstr_gnt_q
    BY <1>7 DEF AxiAcc, InAcc
  <2>3. \A m \in Masters : pending_slv_resp'[m] # AXI
    BY <1>1, <1>3, <1>7, <2>1, GrantFacts DEF AxiInv, AxiAcc, InAcc
  <2>4. mstr_req'[0] = AXI /\ pending_slv_resp'[0] = NoSlave
    BY <1>1, <1>2, <1>3, <1>7, <2>1 DEF AxiInv, AxiAcc, InAcc, rvalid_done
  <2> QED  BY <1>4, <1>7, <2>2, <2>3, <2>4 DEF AxiInv, AxiAcc, InAcc
<1>8. CASE AxiResp(i)
  <2>1. pending_slv_resp[0] = AXI /\ ~ InAcc /\ server[AXI] = 0
    BY <1>8 DEF AxiResp, AxiInv, InAcc
  <2>2. \A m \in Masters : ~ (mstr_gnt(m, i) /\ mstr_req[m] = AXI)
    BY <2>1, GrantFacts
  <2>3. server'[AXI] = 0  BY <2>1, ServerEdge
  <2>4. rvalid_done(0, i) <=> axi_resp_done(i)
    BY <1>8, <2>1 DEF AxiResp, rvalid_done, slv_rvalid
  <2>5. axi_fsm_q' = IF axi_resp_done(i) THEN "AXI_IDLE" ELSE "AXI_RESP"
    BY <1>8 DEF AxiResp
  <2>6. ~ axi_resp_done(i) => ~ mstr_gnt(0, i)
    BY <1>1, <2>1, <2>4, GrantFacts
  <2>7. \A m \in Masters : pending_slv_resp'[m] = AXI =>
          m = 0 /\ ~ axi_resp_done(i)
    BY <1>3, <2>2, <2>4 DEF AxiInv
  <2>8. ~ axi_resp_done(i) => pending_slv_resp'[0] = AXI
    BY <1>1, <1>3, <2>1, <2>4, <2>6
  <2> QED  BY <1>4, <2>3, <2>5, <2>7, <2>8 DEF AxiInv
<1> QED  BY <1>5, <1>6, <1>7, <1>8 DEF Clock, AxiMuxEdge

\* The bus holds what the machine's registers say it holds.
LEMMA ClockBus ==
  ASSUME IInv, NEW i \in BusInputs, Clock(i)
  PROVE  BusInv'
<1> USE DEF IInv, Bit
<1>1. AxiInv'  BY ClockAxi
<1>2. axi_fsm_q = "AXI_IDLE" => ~ i.BVALID /\ ~ i.RVALID
  BY DEF Clock, BusEdge, BusInv
<1>3. CASE AxiIdle(i)
  <2>1. bus' = [aw |-> 0, w |-> 0, ar |-> 0]
    BY <1>2, <1>3 DEF Clock, BusEdge, BusInv, AxiIdle, AWVALID, WVALID, ARVALID, InAcc
  <2>2. axi_fsm_q' = "AXI_ACC" => ~ aw_done' /\ ~ w_done'
    BY <1>3 DEF AxiIdle
  <2>3. axi_fsm_q' # "AXI_RESP"  BY <1>3 DEF AxiIdle
  <2> QED  BY <2>1, <2>2, <2>3 DEF BusInv
<1>4. CASE AxiAcc(i)
  <2>1. mstr_gnt_q = 0 /\ mstr_gnt_q' = 0 /\ mstr_req[0] = AXI
    BY <1>4 DEF AxiAcc, AxiInv, InAcc
  <2>2. ~ axi_acc_done(i) => (axi_we' <=> axi_we)
    <3>1. ~ axi_acc_done(i) => ~ mstr_gnt(0, i)  BY <2>1, GrantFacts
    <3>2. 0 \in Masters  BY NmstrAssumption DEF Masters
    <3>3. mstr_we'[0] <=> mstr_we[0] /\ ~ mstr_gnt(0, i)
      BY <3>2 DEF Clock, MasterEdge
    <3> QED  BY <2>1, <3>1, <3>3, Zenon DEF axi_we
  <2>3. axi_fsm_q = "AXI_ACC" /\ InAcc
    BY <1>4 DEF AxiAcc, InAcc
  <2>4. CASE axi_we
    <3>1. bus = [aw |-> Bit(aw_done), w |-> Bit(w_done), ar |-> 0] /\ ~ (aw_done /\ w_done)
      BY <2>3, <2>4 DEF BusInv
    <3>2. ~ i.BVALID /\ ~ i.RVALID  BY <3>1 DEF Clock, BusEdge
    <3>3. bus' = [aw |-> Bit(aw_done) + Bit(~ aw_done /\ i.AWREADY),
                  w |-> Bit(w_done) + Bit(~ w_done /\ i.WREADY), ar |-> 0]
      BY <2>3, <2>4, <3>1, <3>2 DEF Clock, BusEdge, AWVALID, WVALID, ARVALID
    <3>4. bus' = [aw |-> Bit(aw_done'), w |-> Bit(w_done'), ar |-> 0]
      <4>1. aw_done' = (i.AWREADY \/ aw_done) /\ w_done' = (i.WREADY \/ w_done)
        BY <1>4 DEF AxiAcc
      <4>2. (aw_done' <=> i.AWREADY \/ aw_done) /\ (w_done' <=> i.WREADY \/ w_done)
        BY <4>1, Zenon
      <4> QED  BY <3>3, <4>2
    <3>5. CASE axi_acc_done(i)
      <4>1. axi_fsm_q' = "AXI_RESP" /\ axi_we_q' /\ aw_done' /\ w_done'
        BY <1>4, <2>4, <3>5 DEF AxiAcc, axi_acc_done
      <4> QED  BY <3>4, <4>1 DEF BusInv
    <3>6. CASE ~ axi_acc_done(i)
      <4>1. axi_fsm_q' = "AXI_ACC" /\ ~ (aw_done' /\ w_done') /\ axi_we'
        BY <1>4, <2>2, <2>3, <2>4, <3>6 DEF AxiAcc, axi_acc_done
      <4> QED  BY <3>4, <4>1 DEF BusInv
    <3> QED  BY <3>5, <3>6
  <2>5. CASE ~ axi_we
    <3>1. bus = [aw |-> 0, w |-> 0, ar |-> 0]  BY <2>3, <2>5 DEF BusInv
    <3>2. ~ i.BVALID /\ ~ i.RVALID  BY <3>1 DEF Clock, BusEdge
    <3>3. bus' = [aw |-> 0, w |-> 0, ar |-> Bit(i.ARREADY)]
      BY <2>3, <2>5, <3>1, <3>2 DEF Clock, BusEdge, AWVALID, WVALID, ARVALID
    <3>4. CASE axi_acc_done(i)
      <4>1. axi_fsm_q' = "AXI_RESP" /\ ~ axi_we_q' /\ i.ARREADY
        BY <1>4, <2>5, <3>4 DEF AxiAcc, axi_acc_done
      <4> QED  BY <3>3, <4>1 DEF BusInv
    <3>5. CASE ~ axi_acc_done(i)
      <4>1. axi_fsm_q' = "AXI_ACC" /\ ~ axi_we' /\ ~ i.ARREADY
        BY <1>4, <2>2, <2>3, <2>5, <3>5 DEF AxiAcc, axi_acc_done
      <4> QED  BY <3>3, <4>1 DEF BusInv
    <3> QED  BY <3>4, <3>5
  <2> QED  BY <2>4, <2>5
<1>5. CASE AxiResp(i)
  BY <1>5 DEF Clock, BusEdge, BusInv, AxiResp, axi_resp_done, InAcc,
     AWVALID, WVALID, ARVALID, BusInputs, TypeOK
<1> QED  BY <1>3, <1>4, <1>5 DEF Clock, AxiMuxEdge

\* What is performed is granted and what is granted is performed.
LEMMA ClockExact ==
  ASSUME IInv, NEW i \in BusInputs, Clock(i)
  PROVE  ExactlyOnce'
<1> USE DEF IInv
<1> SUFFICES ASSUME NEW m \in Masters  PROVE unacked'[m] = 0
  BY DEF ExactlyOnce
<1> DEFINE performed == {n \in Masters : \E s \in Slaves : n \in Performed(s, i)}
<1>1. unacked'[m] = unacked[m] + Bit(m \in performed) - Bit(mstr_gnt(m, i))
  BY DEF Clock, HistoryEdge
<1>2. m \in performed <=> mstr_gnt(m, i)  BY PerformedIsGranted
<1>3. unacked[m] = 0  BY DEF ExactlyOnce
<1> QED  BY <1>1, <1>2, <1>3 DEF Bit

\* A refused request is nearer its turn after the edge than before it.
LEMMA ClockWait ==
  ASSUME IInv, NEW i \in BusInputs, Clock(i)
  PROVE  WaitInv'
<1> USE DEF IInv
<1> SUFFICES ASSUME NEW m \in Masters, waited'[m] > 0
             PROVE  /\ mstr_req'[m] \in MemSlaves
                    /\ waited'[m] + Dist(cur_mstr_gnt_q'[mstr_req'[m]], m) <= NMSTR - 1
  BY DEF WaitInv
<1>1. slv_req_o(m, i) \in MemSlaves /\ ~ mstr_gnt(m, i) /\ waited'[m] = waited[m] + 1
  BY DEF Clock, HistoryEdge
<1> DEFINE s == mstr_req[m]
           g == MemGnt(s, i)
<1>2. slv_req_o(m, i) = s /\ s \in MemSlaves
  BY <1>1, SlaveAssumption DEF slv_req_o, Slaves
<1>3. m # g  BY <1>1, <1>2, GrantFacts
<1>4. g \in Masters
      /\ Dist(g, m) < Dist(cur_mstr_gnt_q[s], m) /\ Dist(g, m) + 1 <= NMSTR - 1
  BY <1>2, <1>3, MemGntFacts
<1>5. cur_mstr_gnt_q'[s] = g  BY <1>2 DEF Clock, MemMuxEdge
<1>6. mstr_req'[m] = s  BY <1>1 DEF Clock, MasterEdge
<1>7. waited[m] \in Nat /\ cur_mstr_gnt_q[s] \in Int /\ m \in Int /\ NMSTR \in Int
  BY <1>2, NmstrAssumption DEF TypeOK, Masters, NoMaster
<1>8. waited[m] > 0 => waited[m] + Dist(cur_mstr_gnt_q[s], m) <= NMSTR - 1
  BY DEF WaitInv
<1>9. Dist(g, m) \in Int /\ Dist(cur_mstr_gnt_q[s], m) \in Int
  BY <1>4, <1>7 DEF Dist, Masters
<1>10. waited[m] + 1 + Dist(g, m) <= NMSTR - 1
  <2> HIDE DEF g, s
  <2> QED  BY <1>4, <1>7, <1>8, <1>9
<1> QED  BY <1>1, <1>2, <1>5, <1>6, <1>10

\* Raising a request disturbs nothing the invariant speaks of.
LEMMA IssueStep ==
  ASSUME AxiMasters \subseteq {0}, IInv,
         NEW m \in Masters, NEW s \in Slaves, NEW we \in BOOLEAN, Issue(m, s, we)
  PROVE  IInv'
<1> USE SlaveAssumption DEF IInv, Issue
<1>1. TypeOK'  BY DEF TypeOK, axiVars, histVars
<1>2. MemInv'  BY DEF MemInv, histVars
<1>3. \A n \in Masters : mstr_req'[n] = IF n = m THEN s ELSE mstr_req[n]
  BY DEF TypeOK
<1>4. AxiInv'
  <2>1. 0 \in Masters  BY NmstrAssumption DEF Masters
  <2>2. axi_fsm_q = "AXI_ACC" => m # 0  BY DEF AxiInv, Slaves
  <2> QED  BY <1>3, <2>1, <2>2 DEF AxiInv, axiVars, histVars
<1>5. BusInv'
  <2>1. axi_fsm_q = "AXI_ACC" => m # mstr_gnt_q /\ mstr_gnt_q \in Masters
    BY NmstrAssumption DEF AxiInv, Slaves, Masters
  <2>2. axi_fsm_q = "AXI_ACC" => (axi_we' <=> axi_we)
    BY <2>1 DEF axi_we, TypeOK, axiVars
  <2> QED  BY <2>2 DEF BusInv, axiVars, Bit
<1>6. ExactlyOnce'  BY DEF ExactlyOnce, histVars
<1>7. WaitInv'
  <2>1. waited[m] = 0  BY DEF WaitInv, TypeOK, Slaves
  <2>2. waited' = waited /\ cur_mstr_gnt_q' = cur_mstr_gnt_q  BY DEF histVars
  <2>3. \A n \in Masters : waited'[n] > 0 => mstr_req'[n] = mstr_req[n]
    BY <1>3, <2>1, <2>2
  <2> QED  BY <2>2, <2>3 DEF WaitInv, Dist
<1> QED  BY <1>1, <1>2, <1>4, <1>5, <1>6, <1>7

-----------------------------------------------------------------------------
\* The initial registers satisfy the inductive invariant.
LEMMA InitIInv == Init => IInv
<1> USE SlaveAssumption, NmstrAssumption DEF Init, Slaves
<1> SUFFICES ASSUME Init PROVE IInv  OBVIOUS
<1>1. TypeOK
  <2>1. /\ mstr_req \in [Masters -> Slaves \cup {NoSlave}]
        /\ mstr_we \in [Masters -> BOOLEAN]
        /\ pending_slv_resp \in [Masters -> Slaves \cup {NoSlave}]
        /\ cur_mstr_gnt_q \in [MemSlaves -> Masters \cup {NoMaster}]
        /\ rvalid \in [MemSlaves -> BOOLEAN]
    OBVIOUS
  <2>2. /\ server \in [Slaves -> Masters \cup {NoMaster}]
        /\ unacked \in [Masters -> Int]
        /\ waited \in [Masters -> Nat]
    OBVIOUS
  <2>3. bus \in [aw : Int, w : Int, ar : Int]  OBVIOUS
  <2> QED  BY <2>1, <2>2, <2>3 DEF TypeOK
<1>2. MemInv /\ AxiInv  BY DEF MemInv, AxiInv
<1>3. BusInv /\ ExactlyOnce /\ WaitInv  BY DEF BusInv, ExactlyOnce, WaitInv
<1> QED  BY <1>1, <1>2, <1>3 DEF IInv

\* The crossbar's inductive invariant: with AXI used by the data port alone,
\* it holds in every reachable state, for any NMSTR and any set of memories.
THEOREM Invariance == AxiMasters \subseteq {0} => (Spec => []IInv)
<1> SUFFICES ASSUME AxiMasters \subseteq {0}  PROVE Spec => []IInv
  OBVIOUS
<1>1. Init => IInv  BY InitIInv
<1>2. IInv /\ [Next]_vars => IInv'
  <2> SUFFICES ASSUME IInv, [Next]_vars  PROVE IInv'
    OBVIOUS
  <2>1. ASSUME NEW i \in BusInputs, Clock(i)  PROVE IInv'
    BY <2>1, ClockType, ClockMem, ClockAxi, ClockBus, ClockExact, ClockWait DEF IInv
  <2>2. ASSUME NEW m \in Masters, NEW s \in Slaves, NEW we \in BOOLEAN, Issue(m, s, we)
        PROVE IInv'
    BY <2>2, IssueStep
  <2>3. CASE UNCHANGED vars
    BY <2>3 DEF vars, mstrVars, axiVars, histVars, IInv, TypeOK, MemInv, AxiInv,
       BusInv, axi_we, ExactlyOnce, WaitInv, Dist, Bit
  <2> QED  BY <2>1, <2>2, <2>3 DEF Next
<1> QED  BY <1>1, <1>2, PTL DEF Spec

-----------------------------------------------------------------------------
(* The properties the runs check, for every NMSTR and MemSlaves.           *)

LEMMA IInvConsequences ==
  ASSUME IInv
  PROVE  ResponseRouting /\ BoundedWait /\ OneAxiTransaction
<1> USE SlaveAssumption DEF IInv, Slaves
<1>1. ResponseRouting
  <2>1. 0 \in Masters  BY NmstrAssumption DEF Masters
  <2>2. \A m \in Masters : pending_slv_resp[m] \in Slaves \cup {NoSlave}
    BY DEF TypeOK
  <2> QED  BY <2>1, <2>2 DEF ResponseRouting, MemInv, AxiInv
<1>2. BoundedWait
  <2> SUFFICES ASSUME NEW m \in Masters  PROVE waited[m] <= NMSTR - 1
    BY DEF BoundedWait
  <2>1. CASE waited[m] = 0  BY <2>1, NmstrAssumption
  <2>2. CASE waited[m] > 0
    <3> DEFINE last == cur_mstr_gnt_q[mstr_req[m]]
    <3>1. last \in Masters \cup {NoMaster} /\ waited[m] + Dist(last, m) <= NMSTR - 1
      BY <2>2 DEF WaitInv, TypeOK
    <3>2. Dist(last, m) \in Nat
      <4> HIDE DEF last
      <4> QED  BY <3>1, NmstrAssumption DEF Dist, Masters, NoMaster
    <3>3. waited[m] \in Nat  BY DEF TypeOK
    <3> HIDE DEF last
    <3> QED  BY <3>1, <3>2, <3>3, NmstrAssumption
  <2> QED  BY <2>1, <2>2 DEF TypeOK
<1>3. OneAxiTransaction
  BY DEF OneAxiTransaction, BusInv, TypeOK, Bit
<1> QED  BY <1>1, <1>2, <1>3

\* Registers and history keep their types.
THEOREM TypeCorrect == AxiMasters \subseteq {0} => (Spec => []TypeOK)
<1>1. IInv => TypeOK  BY DEF IInv
<1> QED  BY <1>1, Invariance, PTL

\* A response reaches the master whose access the slave performed.
THEOREM RoutingCorrect == AxiMasters \subseteq {0} => (Spec => []ResponseRouting)
BY IInvConsequences, Invariance, PTL

\* Every access is performed exactly when it is granted.
THEOREM NothingLostOrRepeated == AxiMasters \subseteq {0} => (Spec => []ExactlyOnce)
<1>1. IInv => ExactlyOnce  BY DEF IInv
<1> QED  BY <1>1, Invariance, PTL

\* A request raised to a memory is refused at most NMSTR - 1 times in a row.
THEOREM NoStarvation == AxiMasters \subseteq {0} => (Spec => []BoundedWait)
BY IInvConsequences, Invariance, PTL

\* The phases of an AXI write happen once each and never overlap a read.
THEOREM AxiPhases == AxiMasters \subseteq {0} => (Spec => []OneAxiTransaction)
BY IInvConsequences, Invariance, PTL

-----------------------------------------------------------------------------
(* Refinement of ObiPort.                                                  *)

\* A clock edge of the crossbar is one Edge of the abstract port: the masters
\* it grants, and the masters whose response it delivers.
LEMMA ClockRefines ==
  ASSUME IInv, NEW i \in BusInputs, Clock(i)
  PROVE  Port!Edge({m \in Masters : mstr_gnt(m, i)}, {m \in Masters : rvalid_done(m, i)})
<1> DEFINE granted  == {m \in Masters : mstr_gnt(m, i)}
           answered == {m \in Masters : rvalid_done(m, i)}
<1> USE SlaveAssumption DEF IInv, Slaves
<1>1. \A m \in granted :
        /\ mstr_req[m] \in Slaves
        /\ pending_slv_resp[m] = NoSlave \/ m \in answered
  BY GrantFacts
<1>2. \A m, n \in granted : mstr_req[m] = mstr_req[n] => m = n
  BY GrantFacts
<1>3. \A m \in answered :
        pending_slv_resp[m] \in Slaves /\ server[pending_slv_resp[m]] = m
  BY DEF rvalid_done, TypeOK, MemInv, AxiInv
<1>4. mstr_req' = [m \in Masters |-> IF m \in granted THEN NoSlave ELSE mstr_req[m]]
  BY DEF Clock, MasterEdge
<1>5. pending_slv_resp' = [m \in Masters |->
        IF m \in granted THEN mstr_req[m]
        ELSE IF m \in answered THEN NoSlave ELSE pending_slv_resp[m]]
  BY DEF Clock, MstrMuxEdge
<1>6. server' = [s \in Slaves |->
        IF \E m \in granted : mstr_req[m] = s
        THEN CHOOSE m \in granted : mstr_req[m] = s ELSE server[s]]
  <2>1. ASSUME NEW s \in Slaves
        PROVE  server'[s] = IF \E m \in granted : mstr_req[m] = s
                            THEN CHOOSE m \in granted : mstr_req[m] = s ELSE server[s]
    <3>1. CASE \E m \in granted : mstr_req[m] = s
      <4>1. PICK m \in granted : mstr_req[m] = s  BY <3>1
      <4>2. server'[s] = m
        <5>1. CASE s = AXI
          BY <4>1, <5>1, GrantFacts, ServerEdge
        <5>2. CASE s \in MemSlaves
          <6>1. MemGnt(s, i) = m /\ m # NoMaster
            BY <4>1, <5>2, GrantFacts DEF Masters, NoMaster
          <6> QED  BY <5>2, <6>1, ServerEdge
        <5> QED  BY <5>1, <5>2
      <4>3. \A n \in granted : mstr_req[n] = s => n = m  BY <1>2, <4>1
      <4>4. (CHOOSE n \in granted : mstr_req[n] = s) = m  BY <4>1, <4>3
      <4> QED  BY <3>1, <4>2, <4>4
    <3>2. CASE ~ \E m \in granted : mstr_req[m] = s
      <4>1. CASE s = AXI
        <5>1. 0 \in Masters  BY NmstrAssumption DEF Masters
        <5>2. ~ (InAcc /\ axi_acc_done(i))  BY <3>2, <4>1, <5>1, GrantFacts
        <5> QED  BY <3>2, <4>1, <5>2, ServerEdge
      <4>2. CASE s \in MemSlaves
        <5>1. MemGnt(s, i) = NoMaster
          BY <3>2, <4>2, GrantFacts, MemGntFacts
        <5> QED  BY <3>2, <4>2, <5>1, ServerEdge
      <4> QED  BY <4>1, <4>2
    <3> QED  BY <3>1, <3>2
  <2>2. server' = [s \in Slaves |-> server'[s]]  BY DEF Clock, HistoryEdge
  <2> HIDE DEF granted
  <2> QED  BY <2>1, <2>2, Zenon
<1>7. \A m, n \in Masters :
        pending_slv_resp'[m] = pending_slv_resp'[n] /\ pending_slv_resp'[m] \in Slaves
          => m = n
  <2>1. MemInv' /\ AxiInv'  BY ClockMem, ClockAxi
  <2> QED  BY <2>1 DEF MemInv, AxiInv
<1> HIDE DEF granted, answered
<1>8. Port!Edge(granted, answered)
  BY <1>1, <1>2, <1>3, <1>4, <1>5, <1>6, <1>7 DEF Port!Edge
<1> QED  BY <1>8 DEF granted, answered

\* The crossbar implements the abstract port: every behaviour of the design's
\* registers is, seen through requests, pending responses and served
\* masters, a behaviour of ObiPort.
THEOREM CrossbarImplementsPort == AxiMasters \subseteq {0} => (Spec => PortSpec)
<1> SUFFICES ASSUME AxiMasters \subseteq {0}  PROVE Spec => PortSpec
  OBVIOUS
<1>1. Init => Port!Init  BY DEF Init, Port!Init
<1>2. IInv /\ [Next]_vars => [Port!Next]_(Port!vars)
  <2> SUFFICES ASSUME IInv, [Next]_vars  PROVE [Port!Next]_(Port!vars)
    OBVIOUS
  <2>1. ASSUME NEW i \in BusInputs, Clock(i)  PROVE Port!Next
    <3>1. Port!Edge({m \in Masters : mstr_gnt(m, i)}, {m \in Masters : rvalid_done(m, i)})
      BY <2>1, ClockRefines
    <3> QED  BY <3>1 DEF Port!Next
  <2>2. ASSUME NEW m \in Masters, NEW s \in Slaves, NEW we \in BOOLEAN, Issue(m, s, we)
        PROVE  Port!Next
    BY <2>2 DEF Issue, histVars, Port!Ask, Port!Next
  <2>3. CASE UNCHANGED vars
    BY <2>3 DEF vars, mstrVars, histVars, Port!vars
  <2> QED  BY <2>1, <2>2, <2>3 DEF Next
<1>3. Spec => []IInv  BY Invariance
<1> QED  BY <1>1, <1>2, <1>3, PTL DEF Spec, PortSpec, Port!Spec
=============================================================================

---------------------------- MODULE AxiReadPath -----------------------------
(***************************************************************************)
(* The read half of the AXI fabric (msftDvIp_cheri_axi_fabric.sv): one     *)
(* read per manager and one per subordinate interface at a time, the       *)
(* muxes between them, and the default subordinate that answers reads of   *)
(* unmapped addresses with error beats.                                    *)
(*                                                                         *)
(* ReadClock is a rising edge of all registers.  Between edges the         *)
(* external managers raise ARVALID and the external subordinates RVALID;   *)
(* both stay until their READY, which is free at every edge.  A read is    *)
(* abstracted to the subordinate its address decodes to and its ARLEN, a   *)
(* beat to the two ends it travels between and its LAST flag.              *)
(***************************************************************************)
EXTENDS AxiFabric

CONSTANTS
  LenRange,         \* values of ARLEN: 2 ^ AXI_LEN_WIDTH (256 in the design)
  ReadLens          \* the ARLEN values that managers use

Lens   == 0 .. LenRange - 1
NoRead == [sub |-> None, len |-> 0]

ASSUME ReadAssumption == LenRange \in Nat \ {0, 1} /\ ReadLens \subseteq Lens

VARIABLES
  \* manager interface
  rd_in_progress, ar_fifo, r_fifo,
  \* subordinate interface
  ar_in_progress, sar_fifo, sr_fifo,
  \* default subordinate
  arready_sub, rvalid_sub, rid_sub, rlen, rlast_sub,
  \* external managers: the read ARVALID offers, and of the read accepted its
  \* subordinate and the beats still to come
  m_ar, m_src, m_left,
  \* external subordinates: manager served, beats to give, RVALID
  s_mgr, s_left, s_rvalid

mgrReadVars == <<rd_in_progress, ar_fifo, r_fifo>>
subReadVars == <<ar_in_progress, sar_fifo, sr_fifo>>
defReadVars == <<arready_sub, rvalid_sub, rid_sub, rlen, rlast_sub>>
readVars == <<mgrReadVars, subReadVars, defReadVars, m_ar, m_src, m_left,
              s_mgr, s_left, s_rvalid>>

ReadInit ==
  /\ rd_in_progress = [m \in Managers |-> FALSE]
  /\ ar_fifo = [m \in Managers |-> <<>>]
  /\ r_fifo = [m \in Managers |-> <<>>]
  /\ ar_in_progress = [s \in Subs |-> FALSE]
  /\ sar_fifo = [s \in Subs |-> <<>>]
  /\ sr_fifo = [s \in Subs |-> <<>>]
  /\ arready_sub = TRUE
  /\ rvalid_sub = FALSE
  /\ rid_sub = 0
  /\ rlen = 0
  /\ rlast_sub = FALSE
  /\ m_ar = [m \in Managers |-> NoRead]
  /\ m_src = [m \in Managers |-> None]
  /\ m_left = [m \in Managers |-> 0]
  /\ s_mgr = [s \in ExtSubs |-> None]
  /\ s_left = [s \in ExtSubs |-> 0]
  /\ s_rvalid = [s \in ExtSubs |-> FALSE]

-----------------------------------------------------------------------------
(* Read address                                                            *)

arready_mgr(m) == wrAck(ar_fifo[m]) /\ ~rd_in_progress[m]
ArHandshake(m) == m_ar[m] # NoRead /\ arready_mgr(m)

\* Managers whose head read decodes to s; the mux takes the lowest.
ArSel(s) == {m \in Managers : ar_fifo[m] # <<>> /\ Head(ar_fifo[m]).sub = s}
\* Mutant: the subordinate interface takes reads back to back.
arphase_ready_FifoOnly(s) == wrAck(sar_fifo[s])
arphase_ready(s) == wrAck(sar_fifo[s]) /\ ~ar_in_progress[s]
arphase_accept(m) ==
  \E s \in Subs : m \in ArSel(s) /\ m = Min(ArSel(s)) /\ arphase_ready(s)

-----------------------------------------------------------------------------
(* Subordinate side.  i = [arready : external subordinates ready,          *)
(* rready : managers ready].                                               *)

arready(s, i) == IF s = DefSub THEN arready_sub ELSE s \in i.arready
SArHandshake(s, i) == rdAck(sar_fifo[s]) /\ arready(s, i)

rvalid(s) == IF s = DefSub THEN rvalid_sub ELSE s_rvalid[s]
rid(s)    == IF s = DefSub THEN rid_sub ELSE s_mgr[s]
rlast(s)  == IF s = DefSub THEN rlast_sub ELSE s_left[s] = 1
SRHandshake(s) == rvalid(s) /\ wrAck(sr_fifo[s])

-----------------------------------------------------------------------------
(* Read data: subordinate FIFO -> mux -> manager FIFO                      *)

\* Subordinates whose head beat is for m.  The mux forwards the lowest and
\* pops every one of them.
RSel(m) == {s \in Subs : sr_fifo[s] # <<>> /\ Head(sr_fifo[s]).mgr = m}
RHandshake(m, i) == rdAck(r_fifo[m]) /\ m \in i.rready

-----------------------------------------------------------------------------
(* Clock edge                                                              *)

MgrReadEdge(i) ==
  /\ rd_in_progress' = [m \in Managers |->
       IF ArHandshake(m) THEN TRUE
       ELSE rd_in_progress[m] /\ ~(RHandshake(m, i) /\ Head(r_fifo[m]).last)]
  /\ ar_fifo' = [m \in Managers |->
       FifoEdge(ar_fifo[m], ArHandshake(m), m_ar[m], arphase_accept(m))]
  /\ r_fifo' = [m \in Managers |->
       LET s == Min(RSel(m) \cup {NSUB})
       IN  FifoEdge(r_fifo[m], RSel(m) # {},
                    [sub |-> s, last |-> s # NSUB /\ Head(sr_fifo[s]).last],
                    m \in i.rready)]

SubReadEdge(i) ==
  /\ ar_in_progress' = [s \in Subs |->
       IF ArSel(s) # {} /\ arphase_ready(s) THEN TRUE
       ELSE ar_in_progress[s] /\ ~(SRHandshake(s) /\ rlast(s))]
  /\ sar_fifo' = [s \in Subs |->
       LET m == Min(ArSel(s) \cup {NMGR})
       IN  FifoEdge(sar_fifo[s], ArSel(s) # {} /\ arphase_ready(s),
                    [mgr |-> m, len |-> IF m = NMGR THEN 0 ELSE Head(ar_fifo[m]).len],
                    arready(s, i))]
  /\ sr_fifo' = [s \in Subs |->
       FifoEdge(sr_fifo[s], rvalid(s), [mgr |-> rid(s), last |-> rlast(s)],
                \E m \in Managers : s \in RSel(m) /\ wrAck(r_fifo[m]))]

\* msftDvIp_axi_def_sub: rlen counts the beats left, modulo its width.
\* Mutant: RLAST is computed from the count before it is decremented.
DefSubReadEdge_LastLate(i) ==
  IF SArHandshake(DefSub, i)
  THEN /\ arready_sub' = FALSE
       /\ rvalid_sub' = TRUE
       /\ rid_sub' = Head(sar_fifo[DefSub]).mgr
       /\ rlen' = Head(sar_fifo[DefSub]).len
       /\ rlast_sub' = (Head(sar_fifo[DefSub]).len = 0)
  ELSE IF SRHandshake(DefSub)
  THEN /\ arready_sub' = TRUE
       /\ rvalid_sub' = (rlen # 0)
       /\ rlast_sub' = (rlen = 0)
       /\ rlen' = (rlen - 1) % LenRange
       /\ UNCHANGED rid_sub
  ELSE UNCHANGED defReadVars
DefSubReadEdge(i) ==
  IF SArHandshake(DefSub, i)
  THEN /\ arready_sub' = FALSE
       /\ rvalid_sub' = TRUE
       /\ rid_sub' = Head(sar_fifo[DefSub]).mgr
       /\ rlen' = Head(sar_fifo[DefSub]).len
       /\ rlast_sub' = (Head(sar_fifo[DefSub]).len = 0)
  ELSE IF SRHandshake(DefSub)
  THEN /\ arready_sub' = TRUE
       /\ rvalid_sub' = (rlen # 0)
       /\ rlast_sub' = (rlen = 1)
       /\ rlen' = (rlen - 1) % LenRange
       /\ UNCHANGED rid_sub
  ELSE UNCHANGED defReadVars

\* External: the managers and subordinates see their handshakes.
EnvReadEdge(i) ==
  /\ m_ar' = [m \in Managers |-> IF ArHandshake(m) THEN NoRead ELSE m_ar[m]]
  /\ m_src' = [m \in Managers |->
       IF ArHandshake(m) THEN m_ar[m].sub
       ELSE IF RHandshake(m, i) /\ m_left[m] = 1 THEN None ELSE m_src[m]]
  /\ m_left' = [m \in Managers |->
       IF ArHandshake(m) THEN m_ar[m].len + 1
       ELSE IF RHandshake(m, i) THEN m_left[m] - 1 ELSE m_left[m]]
  /\ s_mgr' = [s \in ExtSubs |->
       IF SArHandshake(s, i) THEN Head(sar_fifo[s]).mgr
       ELSE IF SRHandshake(s) /\ rlast(s) THEN None ELSE s_mgr[s]]
  /\ s_left' = [s \in ExtSubs |->
       IF SArHandshake(s, i) THEN Head(sar_fifo[s]).len + 1
       ELSE IF SRHandshake(s) THEN s_left[s] - 1 ELSE s_left[s]]
  /\ s_rvalid' = [s \in ExtSubs |-> s_rvalid[s] /\ ~SRHandshake(s)]

ReadInputs == [arready : SUBSET ExtSubs, rready : SUBSET Managers]

ReadClock(i) == MgrReadEdge(i) /\ SubReadEdge(i) /\ DefSubReadEdge(i) /\ EnvReadEdge(i)

\* A manager may offer its next read before the previous one has ended.
OfferRead(m, s, len) ==
  /\ m_ar[m] = NoRead
  /\ m_ar' = [m_ar EXCEPT ![m] = [sub |-> s, len |-> len]]
  /\ UNCHANGED <<mgrReadVars, subReadVars, defReadVars, m_src, m_left, s_mgr, s_left, s_rvalid>>

GiveBeat(s) ==
  /\ s_left[s] > 0 /\ ~s_rvalid[s]
  /\ s_rvalid' = [s_rvalid EXCEPT ![s] = TRUE]
  /\ UNCHANGED <<mgrReadVars, subReadVars, defReadVars, m_ar, m_src, m_left, s_mgr, s_left>>

ReadNext ==
  \/ \E i \in ReadInputs : ReadClock(i)
  \/ \E m \in Managers, s \in Subs, len \in ReadLens : OfferRead(m, s, len)
  \/ \E s \in ExtSubs : GiveBeat(s)

ReadSpec == ReadInit /\ [][ReadNext]_readVars

\* The clock runs with everyone ready again and again, and a subordinate that
\* accepted a read gives its beats.
ReadFairSpec ==
  /\ ReadSpec
  /\ WF_readVars(ReadClock([arready |-> ExtSubs, rready |-> Managers]))
  /\ \A s \in ExtSubs : WF_readVars(GiveBeat(s))

-----------------------------------------------------------------------------
(* Properties                                                              *)

\* Beats that the fabric still has to fetch for manager m from subordinate s:
\* of a read in one of the address FIFOs, or of the read being served.
ToGive(s) == IF s = DefSub THEN IF rvalid_sub THEN rlen + 1 ELSE 0 ELSE s_left[s]
Unfetched(m, s) ==
  LET beats(q) == IF q # <<>> THEN Head(q).len + 1 ELSE 0
  IN  beats(ar_fifo[m])
      + (IF sar_fifo[s] # <<>> /\ Head(sar_fifo[s]).mgr = m THEN beats(sar_fifo[s]) ELSE 0)
      + (IF rid(s) = m THEN ToGive(s) ELSE 0)

\* How many of the first k beats in a data FIFO are for m.
BeatsFor(m, q, k) == Cardinality({j \in 1 .. k : q[j].mgr = m})

\* No beat of a read is lost, repeated or invented between the subordinate
\* and the manager, and LAST is on the final beat and on no other.
BeatsConserved ==
  \A m \in Managers : m_src[m] # None =>
    LET s == m_src[m]
        got == Len(r_fifo[m])
    IN  /\ got + BeatsFor(m, sr_fifo[s], Len(sr_fifo[s])) + Unfetched(m, s) = m_left[m]
        /\ \A k \in 1 .. got : r_fifo[m][k].last <=> k = m_left[m]
        /\ \A k \in 1 .. Len(sr_fifo[s]) : sr_fifo[s][k].mgr = m =>
             (sr_fifo[s][k].last <=> got + BeatsFor(m, sr_fifo[s], k) = m_left[m])

\* Beats come from where the manager reads, one burst after the other.  The
\* response mux pops every subordinate it selects but forwards one: at most one
\* is ever selected for a manager.  In the data FIFO of a subordinate interface,
\* another manager's beats come only after a LAST.
BeatsRouted ==
  /\ \A m \in Managers :
       /\ RSel(m) \subseteq {m_src[m]}
       /\ \A k \in 1 .. Len(r_fifo[m]) : r_fifo[m][k].sub = m_src[m]
  /\ \A s \in Subs : \A k \in 1 .. Len(sr_fifo[s]) - 1 :
       sr_fifo[s][k].mgr # sr_fifo[s][k + 1].mgr => sr_fifo[s][k].last

\* Every read offered is accepted and every accepted read gets its last beat,
\* for both managers: the fixed priority of the address mux starves nobody.
EveryReadAccepted == \A m \in Managers : m_ar[m] # NoRead ~> m_ar[m] = NoRead
=============================================================================

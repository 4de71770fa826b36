----------------------------- MODULE AxiProofs ------------------------------
(***************************************************************************)
(* The AXI fabric with any number of managers and subordinates, FIFOs of   *)
(* any size and bursts of any length.  The write half first: beats and     *)
(* responses keep to their write, and the fabric implements the service of *)
(* AxiWriteService.  Then the read half: no beat is lost, repeated,        *)
(* misrouted or wrongly marked.                                            *)
(***************************************************************************)
EXTENDS AxiWritePath, AxiReadPath, NaturalLemmas, FiniteSetTheorems,
        FunctionTheorems, TLAPS

Phases == {"RDY", "ACCEPT_WRITES", "WAIT4SLV", "ACCEPT_AND_SEND_WRITES", "WAIT4DONE"}

\* A manager interface with nothing of a write in it; one that has passed on
\* every beat; a subordinate with m's write.
Quiet(m) == /\ wphase_state[m] = "RDY" /\ m_aw[m] = None /\ m_beats[m] = 0
            /\ aw_fifo[m] = <<>> /\ w_fifo[m] = <<>>
Sent(m) == m_beats[m] = 0 /\ w_fifo[m] = <<>>
Open(s, m) == wr_state[s] # "WR_IDLE" /\ owner[s] = m
\* Nothing is left of m's write but its response.
Answered(m) == Quiet(m) /\ m_dst[m] # None /\ ~Open(m_dst[m], m)
Response(m) == b_fifo[m] # <<>> \/ sb_fifo[m_dst[m]] = <<m>>

Beat == [mgr : Managers, last : BOOLEAN]
\* Only the newest beat of a FIFO may be the last of its burst, and it is if
\* none follows; all beats are manager o's.
Marked(q, left) == \A k \in 1 .. Len(q) : q[k] <=> k = Len(q) /\ left = 0
MarkedOf(q, o, done) ==
  \A k \in 1 .. Len(q) : q[k].mgr = o /\ (q[k].last <=> k = Len(q) /\ done)

Domains ==
  /\ DOMAIN m_aw = Managers /\ DOMAIN m_beats = Managers /\ DOMAIN m_wvalid = Managers
  /\ DOMAIN m_dst = Managers /\ DOMAIN s_bvalid = ExtSubs

\* The five states of the manager interface, with what the manager has left to
\* do and what its FIFOs hold.
MgrTypes(m) ==
  /\ wphase_state[m] \in Phases
  /\ m_dst[m] \in Subs \cup {None} /\ m_aw[m] \in {None, m_dst[m]}
  /\ m_beats[m] \in Nat
  /\ m_wvalid[m] => m_beats[m] > 0
  /\ m_dst[m] = None => Quiet(m)
MgrBeats(m) == w_fifo[m] \in Seq(BOOLEAN) /\ Marked(w_fifo[m], m_beats[m])
MgrRests(m) ==
  wphase_state[m] = "RDY" => /\ aw_fifo[m] = <<>> /\ w_fifo[m] = <<>>
                             /\ (m_aw[m] = None <=> m_beats[m] = 0)
MgrWaits(m) ==
  wphase_state[m] \in {"ACCEPT_WRITES", "WAIT4SLV"} =>
    /\ m_dst[m] # None /\ m_aw[m] = None /\ aw_fifo[m] = <<m_dst[m]>>
    /\ m_beats[m] = 0 <=> wphase_state[m] = "WAIT4SLV"
    /\ wphase_state[m] = "WAIT4SLV" => w_fifo[m] # <<>>
MgrSends(m) ==
  wphase_state[m] \in {"ACCEPT_AND_SEND_WRITES", "WAIT4DONE"} =>
    /\ m_dst[m] # None /\ m_aw[m] = None /\ aw_fifo[m] = <<>>
    /\ wreq_hld[m] = m_dst[m]
    /\ owner[m_dst[m]] = m /\ wr_state[m_dst[m]] = "WR_IN_PROGRESS"
    /\ m_beats[m] = 0 <=> wphase_state[m] = "WAIT4DONE"
MgrInv ==
  \A m \in Managers : MgrTypes(m) /\ MgrBeats(m) /\ MgrRests(m) /\ MgrWaits(m) /\ MgrSends(m)

\* The owner's address is in the interface or with the subordinate.
SubAddr(s) ==
  IF wr_state[s] = "WR_IDLE"
  THEN saw_fifo[s] = <<>> /\ IF s = DefSub THEN awready_sub ELSE s_aw[s] = None
  ELSE \/ /\ saw_fifo[s] = <<owner[s]>>
          /\ IF s = DefSub THEN awready_sub /\ wr_state[s] = "WR_IN_PROGRESS" ELSE s_aw[s] = None
       \/ /\ saw_fifo[s] = <<>>
          /\ IF s = DefSub THEN ~awready_sub /\ bid_sub = owner[s] ELSE s_aw[s] = owner[s]
\* The last beat has not come, is the newest in the interface, or is with the
\* subordinate.
SubBeats(s) ==
  /\ sw_fifo[s] \in Seq(Beat)
  /\ IF wr_state[s] = "WR_IN_PROGRESS"
     THEN /\ MarkedOf(sw_fifo[s], owner[s], Sent(owner[s]))
          /\ sw_fifo[s] = <<>> => ~Sent(owner[s])
     ELSE sw_fifo[s] = <<>>
\* The subordinate answers when it has both.
SubAnswer(s) ==
  IF s = DefSub THEN bvalid_sub => wr_state[s] = "WR_RESP"
  ELSE /\ IF wr_state[s] = "WR_RESP" THEN s_w[s] = owner[s] ELSE s_w[s] = None /\ ~s_bvalid[s]
       /\ s_bvalid[s] => s_aw[s] # None
\* Whoever owns an open write is waiting for its response.
SubOwner(s) ==
  /\ wr_state[s] \in {"WR_IDLE", "WR_IN_PROGRESS", "WR_RESP"}
  /\ wr_state[s] # "WR_IDLE" => owner[s] \in Managers /\ m_dst[owner[s]] = s
  /\ wr_state[s] = "WR_IN_PROGRESS" =>
       wphase_state[owner[s]] \in {"ACCEPT_AND_SEND_WRITES", "WAIT4DONE"} \/ Quiet(owner[s])
  /\ wr_state[s] = "WR_RESP" => Quiet(owner[s])
SubInv == \A s \in Subs : SubAddr(s) /\ SubBeats(s) /\ SubAnswer(s) /\ SubOwner(s)

\* An answered write has one response, in the subordinate interface or in the
\* manager interface, and no other write has one.
RespSub(s) ==
  sb_fifo[s] # <<>> =>
    \E m \in Managers : sb_fifo[s] = <<m>> /\ m_dst[m] = s /\ b_fifo[m] = <<>> /\ Answered(m)
RespMgr(m) ==
  /\ b_fifo[m] # <<>> => b_fifo[m] = <<m_dst[m]>> /\ Answered(m) /\ sb_fifo[m_dst[m]] # <<m>>
  /\ Answered(m) => Response(m)
RespInv == (\A s \in Subs : RespSub(s)) /\ (\A m \in Managers : RespMgr(m))

IInv == Domains /\ MgrInv /\ SubInv /\ RespInv

-----------------------------------------------------------------------------
(* Sets, sequences and FIFOs                                               *)

LEMMA Sizes ==
  /\ Managers \subseteq Nat /\ Subs \subseteq Nat /\ DefSub \in Subs
  /\ NMGR \notin Managers /\ None \notin Managers /\ None \notin Subs /\ NMGR \in Nat
  /\ 0 < AXI_FIFO_SIZE
  BY SizeAssumption DEF Managers, Subs, DefSub, None

LEMMA Least ==
  ASSUME NEW S \in SUBSET Nat, S # {}
  PROVE  Min(S) \in S /\ \A x \in S : Min(S) <= x
<1>1. PICK x \in S : \A y \in S : x <= y  BY LeastExists
<1> QED  BY <1>1 DEF Min

LEMMA LeastOf ==
  ASSUME NEW S \in SUBSET Nat, NEW x \in S, \A y \in S : y = x
  PROVE  Min(S) = x
<1>1. S # {}  OBVIOUS
<1> QED  BY <1>1, Least

\* With a default above all others, as the muxes are written.
LEMMA LeastOr ==
  ASSUME NEW m \in Managers
  PROVE  /\ Min({m} \cup {NMGR}) = m
         /\ \A S \in SUBSET Managers : S # {} => Min(S \cup {NMGR}) = Min(S)
<1>1. \A x \in Managers : x < NMGR  BY SizeAssumption DEF Managers
<1>2. ASSUME NEW S \in SUBSET Managers, S # {} PROVE Min(S \cup {NMGR}) = Min(S)
  <2>1. S \subseteq Nat /\ S \cup {NMGR} \subseteq Nat  BY Sizes
  <2>2. Min(S) \in S /\ \A x \in S : Min(S) <= x  BY <1>2, <2>1, Least
  <2>3. Min(S \cup {NMGR}) \in S \cup {NMGR} /\ \A x \in S \cup {NMGR} : Min(S \cup {NMGR}) <= x
    BY <2>1, Least
  <2> QED  BY <1>1, <2>1, <2>2, <2>3
<1>3. Min({m}) = m  BY Sizes, LeastOf
<1> QED  BY <1>2, <1>3

LEMMA Tails ==
  ASSUME NEW S, NEW q \in Seq(S), q # <<>>
  PROVE  /\ Tail(q) \in Seq(S) /\ Len(Tail(q)) = Len(q) - 1 /\ Len(q) \in Nat \ {0}
         /\ \A k \in 1 .. Len(q) - 1 : Tail(q)[k] = q[k + 1]
         /\ Head(q) = q[1] /\ Head(q) \in S
         /\ Tail(q) = <<>> <=> Len(q) = 1
<1>1. Tail(q) \in Seq(S) /\ Len(Tail(q)) = Len(q) - 1 /\ Len(q) \in Nat \ {0}  OBVIOUS
<1>0. \A p \in Seq(S) : p = <<>> <=> Len(p) = 0  OBVIOUS
<1>2. Tail(q) = <<>> <=> Len(Tail(q)) = 0  BY <1>0, <1>1
<1>3. \A k \in 1 .. Len(q) - 1 : Tail(q)[k] = q[k + 1]  BY <1>1
<1>4. Head(q) = q[1] /\ Head(q) \in S  OBVIOUS
<1> QED  BY <1>1, <1>2, <1>3, <1>4

LEMMA Appends ==
  ASSUME NEW S, NEW q \in Seq(S), NEW x \in S
  PROVE  /\ Append(q, x) \in Seq(S) /\ Len(Append(q, x)) = Len(q) + 1 /\ Len(q) \in Nat
         /\ \A k \in 1 .. Len(q) : Append(q, x)[k] = q[k]
         /\ Append(q, x)[Len(q) + 1] = x /\ Append(q, x) # <<>>
  OBVIOUS

LEMMA Ones ==
  ASSUME NEW x
  PROVE  /\ Append(<<>>, x) = <<x>> /\ Tail(<<x>>) = <<>> /\ Head(<<x>>) = x
         /\ Len(<<x>>) = 1 /\ Len(<<>>) = 0 /\ <<x>> # <<>> /\ wrAck(<<>>)
         /\ \A y : <<x>> = <<y>> => x = y
<1>1. Len(<<>>) = 0 /\ wrAck(<<>>)  BY Sizes DEF wrAck
<1>2. Append(<<>>, x) = <<x>>  OBVIOUS
<1> QED  BY <1>1, <1>2

-----------------------------------------------------------------------------
(* The wires, in a state of the invariant                                  *)

\* Manager m passes a beat on if the subordinate interface has room.
Feeds(m) ==
  w_fifo[m] # <<>>
  /\ (awphase_accept(m) \/ wphase_state[m] \in {"ACCEPT_AND_SEND_WRITES", "WAIT4DONE"})
\* Subordinate s accepts an address.
Takes(s) == AwSel(s) # {} /\ wr_state[s] = "WR_IDLE"

LEMMA Phase ==
  ASSUME IInv, NEW m \in Managers
  PROVE  /\ wphase_state[m] \in Phases
         /\ m_dst[m] \in Subs \cup {None} /\ m_aw[m] \in {None, m_dst[m]}
         /\ m_beats[m] \in Nat /\ (m_wvalid[m] => m_beats[m] > 0)
         /\ (m_dst[m] = None => Quiet(m))
         /\ w_fifo[m] \in Seq(BOOLEAN) /\ Marked(w_fifo[m], m_beats[m])
  BY DEF IInv, MgrInv, MgrTypes, MgrBeats

LEMMA AddressFifo ==
  ASSUME IInv, NEW m \in Managers
  PROVE  /\ aw_fifo[m] = <<>> \/ aw_fifo[m] = <<m_dst[m]>>
         /\ aw_fifo[m] # <<>> => /\ wphase_state[m] \in {"ACCEPT_WRITES", "WAIT4SLV"}
                                 /\ m_dst[m] \in Subs
         /\ wphase_state[m] \in {"ACCEPT_WRITES", "WAIT4SLV"} => aw_fifo[m] # <<>>
         /\ AwHandshake(m) <=> m_aw[m] # None
<1>1. wphase_state[m] \in Phases /\ m_dst[m] \in Subs \cup {None}  BY Phase
<1>2. MgrRests(m) /\ MgrWaits(m) /\ MgrSends(m)  BY DEF IInv, MgrInv
<1>3. wrAck(<<>>)  BY Ones
<1>4. <<m_dst[m]>> # <<>>  BY Ones
<1> QED
  BY <1>1, <1>2, <1>3, <1>4
  DEF MgrRests, MgrWaits, MgrSends, Phases, AwHandshake, awready_mgr

LEMMA Selected ==
  ASSUME IInv, NEW s \in Subs, NEW m \in Managers
  PROVE  m \in AwSel(s) <=> aw_fifo[m] # <<>> /\ m_dst[m] = s
<1>1. aw_fifo[m] = <<>> \/ aw_fifo[m] = <<m_dst[m]>>  BY AddressFifo
<1>2. Head(<<m_dst[m]>>) = m_dst[m]  BY Ones
<1> QED  BY <1>1, <1>2 DEF AwSel

LEMMA Free ==
  ASSUME IInv, NEW s \in Subs
  PROVE  awphase_ready(s) <=> wr_state[s] = "WR_IDLE"
<1>1. SubAddr(s)  BY DEF IInv, SubInv
<1>2. wr_state[s] = "WR_IDLE" => saw_fifo[s] = <<>>  BY <1>1 DEF SubAddr
<1> QED  BY <1>2, Ones DEF awphase_ready

LEMMA Winner ==
  ASSUME IInv, NEW s \in Subs, Takes(s)
  PROVE  /\ Min(AwSel(s)) \in Managers /\ Min(AwSel(s)) \in AwSel(s)
         /\ awphase_accept(Min(AwSel(s))) /\ m_dst[Min(AwSel(s))] = s
<1>1. AwSel(s) \subseteq Managers /\ AwSel(s) \in SUBSET Nat /\ AwSel(s) # {}
  BY Sizes DEF AwSel, Takes
<1>2. Min(AwSel(s)) \in AwSel(s)  BY <1>1, Least
<1> DEFINE m == Min(AwSel(s))
<1>3. m \in Managers  BY <1>1, <1>2
<1>4. aw_fifo[m] # <<>> /\ m_dst[m] = s  BY <1>2, <1>3, Selected
<1>5. awphase_ready(s)  BY Free DEF Takes
<1>6. Head(aw_fifo[m]) = s  BY <1>2 DEF AwSel
<1> QED  BY <1>2, <1>3, <1>4, <1>5, <1>6 DEF awphase_accept

LEMMA Accepted ==
  ASSUME IInv, NEW m \in Managers
  PROVE  awphase_accept(m) =>
           /\ m_dst[m] \in Subs /\ Takes(m_dst[m]) /\ m = Min(AwSel(m_dst[m]))
           /\ wphase_state[m] \in {"ACCEPT_WRITES", "WAIT4SLV"}
           /\ aw_fifo[m] = <<m_dst[m]>> /\ Head(aw_fifo[m]) = m_dst[m]
<1> SUFFICES ASSUME awphase_accept(m)
             PROVE  /\ m_dst[m] \in Subs /\ Takes(m_dst[m]) /\ m = Min(AwSel(m_dst[m]))
                    /\ wphase_state[m] \in {"ACCEPT_WRITES", "WAIT4SLV"}
                    /\ aw_fifo[m] = <<m_dst[m]>> /\ Head(aw_fifo[m]) = m_dst[m]
  OBVIOUS
<1>1. aw_fifo[m] # <<>> /\ m = Min(AwSel(Head(aw_fifo[m]))) /\ awphase_ready(Head(aw_fifo[m]))
  BY DEF awphase_accept
<1>2. /\ aw_fifo[m] = <<m_dst[m]>> /\ m_dst[m] \in Subs
      /\ wphase_state[m] \in {"ACCEPT_WRITES", "WAIT4SLV"}
  BY <1>1, AddressFifo
<1>3. Head(aw_fifo[m]) = m_dst[m]  BY <1>2, Ones
<1>4. m \in AwSel(m_dst[m])  BY <1>1, <1>2, Selected
<1>5. Takes(m_dst[m])  BY <1>1, <1>2, <1>3, <1>4, Free DEF Takes
<1> QED  BY <1>1, <1>2, <1>3, <1>5

LEMMA Sending ==
  ASSUME IInv, NEW m \in Managers,
         wphase_state[m] \in {"ACCEPT_AND_SEND_WRITES", "WAIT4DONE"}
  PROVE  /\ m_dst[m] \in Subs /\ m_aw[m] = None /\ aw_fifo[m] = <<>> /\ ~awphase_accept(m)
         /\ wreq_hld[m] = m_dst[m] /\ owner[m_dst[m]] = m
         /\ wr_state[m_dst[m]] = "WR_IN_PROGRESS"
         /\ m_beats[m] = 0 <=> wphase_state[m] = "WAIT4DONE"
<1>1. MgrSends(m) /\ m_dst[m] \in Subs \cup {None}  BY Phase DEF IInv, MgrInv
<1> QED  BY <1>1 DEF MgrSends, awphase_accept

LEMMA Feeding ==
  ASSUME IInv, NEW m \in Managers
  PROVE  /\ \A s \in Subs : wphase_valid(m, s) <=> Feeds(m) /\ s = m_dst[m]
         /\ Feeds(m) => m_dst[m] \in Subs
<1>1. CASE awphase_accept(m)
  <2>1. m_dst[m] \in Subs /\ Head(aw_fifo[m]) = m_dst[m]  BY <1>1, Accepted
  <2> QED  BY <1>1, <2>1 DEF wphase_valid, Feeds, send_slv_writes
<1>2. CASE ~awphase_accept(m)
  <2>1. wphase_state[m] \in {"ACCEPT_AND_SEND_WRITES", "WAIT4DONE"} =>
          m_dst[m] \in Subs /\ wreq_hld[m] = m_dst[m]
    BY Sending
  <2> QED  BY <1>2, <2>1 DEF wphase_valid, Feeds, send_slv_writes
<1> QED  BY <1>1, <1>2

\* The manager whose write is open at s once the edge is over.
NewOwner(s) == IF Takes(s) THEN Min(AwSel(s)) ELSE owner[s]

LEMMA Feeder ==
  ASSUME IInv, NEW s \in Subs, NEW m \in Managers
  PROVE  m \in WSel(s) <=> /\ m = NewOwner(s) /\ Feeds(m)
                           /\ Takes(s) \/ wr_state[s] = "WR_IN_PROGRESS"
<1>1. m \in WSel(s) <=> Feeds(m) /\ s = m_dst[m]  BY Feeding DEF WSel
<1>2. ASSUME m \in WSel(s)
      PROVE  m = NewOwner(s) /\ Feeds(m) /\ (Takes(s) \/ wr_state[s] = "WR_IN_PROGRESS")
  <2>1. CASE awphase_accept(m)
    BY <1>1, <1>2, <2>1, Accepted DEF NewOwner
  <2>2. CASE wphase_state[m] \in {"ACCEPT_AND_SEND_WRITES", "WAIT4DONE"}
    <3>1. owner[s] = m /\ wr_state[s] = "WR_IN_PROGRESS"  BY <1>1, <1>2, <2>2, Sending
    <3> QED  BY <1>1, <1>2, <3>1 DEF NewOwner, Takes
  <2> QED  BY <1>1, <1>2, <2>1, <2>2 DEF Feeds
<1>3. ASSUME m = NewOwner(s), Feeds(m), Takes(s) \/ wr_state[s] = "WR_IN_PROGRESS"
      PROVE  m_dst[m] = s
  <2>1. CASE Takes(s)  BY <1>3, <2>1, Winner DEF NewOwner
  <2>2. CASE ~Takes(s) /\ wr_state[s] = "WR_IN_PROGRESS"
    <3>1. SubOwner(s)  BY DEF IInv, SubInv
    <3> QED  BY <1>3, <2>2, <3>1 DEF NewOwner, SubOwner
  <2> QED  BY <1>3, <2>1, <2>2
<1> QED  BY <1>1, <1>2, <1>3

LEMMA Fed ==
  ASSUME IInv, NEW m \in Managers
  PROVE  wphase_ready(m) <=> Feeds(m) /\ wrAck(sw_fifo[m_dst[m]])
<1>1. ASSUME NEW s \in Subs, wphase_valid(m, s) PROVE m = Min(WSel(s))
  <2>1. m \in WSel(s)  BY <1>1 DEF WSel
  <2>2. \A n \in WSel(s) : n = m
    <3> SUFFICES ASSUME NEW n \in WSel(s) PROVE n = m  OBVIOUS
    <3>1. n \in Managers  BY DEF WSel
    <3>2. n = NewOwner(s)  BY <3>1, Feeder
    <3>3. m = NewOwner(s)  BY <2>1, Feeder
    <3> QED  BY <3>2, <3>3
  <2>3. WSel(s) \in SUBSET Nat  BY Sizes DEF WSel
  <2> QED  BY <2>1, <2>2, <2>3, LeastOf
<1> QED  BY <1>1, Feeding DEF wphase_ready

\* A response the subordinate presents is its owner's.
LEMMA Presented ==
  ASSUME IInv, NEW s \in Subs
  PROVE  SBHandshake(s) <=> /\ bvalid(s) /\ wrAck(sb_fifo[s]) /\ wr_state[s] = "WR_RESP"
                            /\ bid(s) = owner[s] /\ saw_fifo[s] = <<>>
<1>1. SubAddr(s) /\ SubAnswer(s)  BY DEF IInv, SubInv
<1>2. bvalid(s) /\ wr_state[s] = "WR_RESP" => bid(s) = owner[s] /\ saw_fifo[s] = <<>>
  <2>1. CASE s = DefSub  BY <1>1, <2>1 DEF SubAddr, bid, bvalid
  <2>2. CASE s # DefSub  BY <1>1, <2>2 DEF SubAddr, SubAnswer, bid, bvalid
  <2> QED  BY <2>1, <2>2
<1> QED  BY <1>2 DEF SBHandshake

LEMMA ResponseFifo ==
  ASSUME IInv, NEW s \in Subs, sb_fifo[s] # <<>>
  PROVE  \E m \in Managers :
           /\ sb_fifo[s] = <<m>> /\ m_dst[m] = s /\ b_fifo[m] = <<>> /\ Answered(m)
           /\ s \in BSel(m) /\ wrAck(b_fifo[m])
<1>1. PICK m \in Managers : /\ sb_fifo[s] = <<m>> /\ m_dst[m] = s /\ b_fifo[m] = <<>>
                            /\ Answered(m)
  BY DEF IInv, RespInv, RespSub
<1>2. s \in BSel(m) /\ wrAck(b_fifo[m])  BY <1>1, Ones DEF BSel
<1> QED  BY <1>1, <1>2

LEMMA Responses ==
  ASSUME IInv, NEW m \in Managers
  PROVE  /\ \A s \in Subs : s \in BSel(m) <=> sb_fifo[s] = <<m>> /\ s = m_dst[m]
         /\ b_fifo[m] # <<>> => /\ b_fifo[m] = <<m_dst[m]>> /\ Answered(m)
                                /\ sb_fifo[m_dst[m]] # <<m>>
         /\ BSel(m) # {} => BSel(m) = {m_dst[m]} /\ b_fifo[m] = <<>> /\ Answered(m)
<1>1. ASSUME NEW s \in Subs
      PROVE  /\ s \in BSel(m) <=> sb_fifo[s] = <<m>> /\ s = m_dst[m]
             /\ s \in BSel(m) => b_fifo[m] = <<>> /\ Answered(m)
  <2>1. ASSUME s \in BSel(m)
        PROVE  sb_fifo[s] = <<m>> /\ s = m_dst[m] /\ b_fifo[m] = <<>> /\ Answered(m)
    <3>1. sb_fifo[s] # <<>> /\ Head(sb_fifo[s]) = m  BY <2>1 DEF BSel
    <3>2. PICK n \in Managers : /\ sb_fifo[s] = <<n>> /\ m_dst[n] = s /\ b_fifo[n] = <<>>
                                /\ Answered(n)
      BY <3>1, ResponseFifo
    <3>3. n = m  BY <3>1, <3>2, Ones
    <3> QED  BY <3>2, <3>3
  <2>2. ASSUME sb_fifo[s] = <<m>> PROVE s \in BSel(m)
    BY <2>2, Ones DEF BSel
  <2> QED  BY <2>1, <2>2
<1>2. BSel(m) \subseteq Subs  BY DEF BSel
<1>3. BSel(m) # {} => BSel(m) = {m_dst[m]} /\ b_fifo[m] = <<>> /\ Answered(m)  BY <1>1, <1>2
<1>4. RespMgr(m)  BY DEF IInv, RespInv
<1> QED  BY <1>1, <1>3, <1>4 DEF RespMgr

-----------------------------------------------------------------------------
(* The FIFOs of the data channel at an edge                                *)

LEMMA Shift ==
  ASSUME NEW n \in Nat \ {0}, NEW k \in 1 .. n - 1
  PROVE  k + 1 \in 1 .. n /\ (k + 1 = n <=> k = n - 1)
  OBVIOUS

LEMMA MarkedTail ==
  ASSUME NEW q \in Seq(BOOLEAN), NEW n \in Nat, Marked(q, n), q # <<>>
  PROVE  Marked(Tail(q), n) /\ (Head(q) <=> n = 0 /\ Tail(q) = <<>>)
<1>1. /\ Len(Tail(q)) = Len(q) - 1 /\ Len(q) \in Nat \ {0} /\ Head(q) = q[1]
      /\ Tail(q) = <<>> <=> Len(q) = 1
      /\ \A k \in 1 .. Len(q) - 1 : Tail(q)[k] = q[k + 1]
  BY Tails
<1>2. ASSUME NEW k \in 1 .. Len(q) - 1 PROVE Tail(q)[k] <=> k = Len(q) - 1 /\ n = 0
  <2>1. k + 1 \in 1 .. Len(q) /\ (k + 1 = Len(q) <=> k = Len(q) - 1)  BY <1>1, Shift
  <2>2. q[k + 1] <=> k + 1 = Len(q) /\ n = 0  BY <2>1 DEF Marked
  <2> QED  BY <1>1, <2>1, <2>2
<1>3. 1 \in 1 .. Len(q)  BY <1>1
<1>4. q[1] <=> 1 = Len(q) /\ n = 0  BY <1>3 DEF Marked
<1> QED  BY <1>1, <1>2, <1>4 DEF Marked

LEMMA MarkedAppend ==
  ASSUME NEW q \in Seq(BOOLEAN), NEW n \in Nat \ {0}, Marked(q, n),
         NEW flag \in BOOLEAN, flag <=> n = 1
  PROVE  /\ Append(q, flag) \in Seq(BOOLEAN) /\ Append(q, flag) # <<>>
         /\ Marked(Append(q, flag), n - 1)
<1>1. /\ Append(q, flag) \in Seq(BOOLEAN) /\ Append(q, flag) # <<>>
      /\ Len(Append(q, flag)) = Len(q) + 1 /\ Len(q) \in Nat
      /\ \A k \in 1 .. Len(q) : Append(q, flag)[k] = q[k]
      /\ Append(q, flag)[Len(q) + 1] = flag
  BY Appends
<1>2. ASSUME NEW k \in 1 .. Len(q) + 1
      PROVE  Append(q, flag)[k] <=> k = Len(q) + 1 /\ n - 1 = 0
  <2>1. CASE k = Len(q) + 1  BY <1>1, <2>1
  <2>2. CASE k # Len(q) + 1
    <3>1. k \in 1 .. Len(q)  BY <1>1, <2>2
    <3>2. ~q[k]  BY <3>1 DEF Marked
    <3> QED  BY <1>1, <2>2, <3>1, <3>2
  <2> QED  BY <2>1, <2>2
<1> QED  BY <1>1, <1>2 DEF Marked

LEMMA MarkedOfTail ==
  ASSUME NEW q \in Seq(Beat), NEW o, NEW done \in BOOLEAN, MarkedOf(q, o, done), q # <<>>
  PROVE  MarkedOf(Tail(q), o, done) /\ (Head(q).last <=> Tail(q) = <<>> /\ done)
         /\ Head(q).mgr = o
<1>1. /\ Len(Tail(q)) = Len(q) - 1 /\ Len(q) \in Nat \ {0} /\ Head(q) = q[1]
      /\ Tail(q) = <<>> <=> Len(q) = 1
      /\ \A k \in 1 .. Len(q) - 1 : Tail(q)[k] = q[k + 1]
  BY Tails
<1>2. ASSUME NEW k \in 1 .. Len(q) - 1
      PROVE  Tail(q)[k].mgr = o /\ (Tail(q)[k].last <=> k = Len(q) - 1 /\ done)
  <2>1. k + 1 \in 1 .. Len(q) /\ (k + 1 = Len(q) <=> k = Len(q) - 1)  BY <1>1, Shift
  <2>2. q[k + 1].mgr = o /\ (q[k + 1].last <=> k + 1 = Len(q) /\ done)
    BY <2>1 DEF MarkedOf
  <2> QED  BY <1>1, <2>1, <2>2
<1>3. 1 \in 1 .. Len(q)  BY <1>1
<1>4. q[1].mgr = o /\ (q[1].last <=> 1 = Len(q) /\ done)  BY <1>3 DEF MarkedOf
<1> QED  BY <1>1, <1>2, <1>4 DEF MarkedOf

LEMMA MarkedOfAppend ==
  ASSUME NEW q \in Seq(Beat), NEW o \in Managers, MarkedOf(q, o, FALSE), NEW done \in BOOLEAN
  PROVE  /\ Append(q, [mgr |-> o, last |-> done]) \in Seq(Beat)
         /\ Append(q, [mgr |-> o, last |-> done]) # <<>>
         /\ MarkedOf(Append(q, [mgr |-> o, last |-> done]), o, done)
<1> DEFINE b == [mgr |-> o, last |-> done]
<1>1. b \in Beat /\ b.mgr = o /\ (b.last <=> done)  BY DEF Beat
<1> HIDE DEF b
<1>2. /\ Append(q, b) \in Seq(Beat) /\ Append(q, b) # <<>>
      /\ Len(Append(q, b)) = Len(q) + 1 /\ Len(q) \in Nat
      /\ \A k \in 1 .. Len(q) : Append(q, b)[k] = q[k]
      /\ Append(q, b)[Len(q) + 1] = b
  BY <1>1, Appends
<1>3. ASSUME NEW k \in 1 .. Len(q) + 1
      PROVE  Append(q, b)[k].mgr = o /\ (Append(q, b)[k].last <=> k = Len(q) + 1 /\ done)
  <2>1. CASE k = Len(q) + 1  BY <1>1, <1>2, <2>1
  <2>2. CASE k # Len(q) + 1
    <3>1. k \in 1 .. Len(q)  BY <1>2, <2>2
    <3>2. q[k].mgr = o /\ ~q[k].last  BY <3>1 DEF MarkedOf
    <3> QED  BY <1>2, <2>2, <3>1, <3>2
  <2> QED  BY <2>1, <2>2
<1>4. MarkedOf(Append(q, b), o, done)  BY <1>2, <1>3 DEF MarkedOf
<1> QED  BY <1>2, <1>4 DEF b

-----------------------------------------------------------------------------
(* What an edge does to a manager and its interface                        *)

LEMMA AddressMoves ==
  ASSUME IInv, NEW i, Clock(i), NEW m \in Managers
  PROVE  /\ wphase_state'[m] = WphaseState(m)
         /\ m_aw'[m] = None
         /\ awphase_accept(m) => wreq_hld'[m] = m_dst[m] /\ aw_fifo'[m] = <<>>
         /\ ~awphase_accept(m) =>
              /\ wreq_hld'[m] = wreq_hld[m]
              /\ aw_fifo'[m] = IF m_aw[m] # None THEN <<m_dst[m]>> ELSE aw_fifo[m]
         /\ m_aw[m] # None => wphase_state[m] = "RDY" /\ aw_fifo[m] = <<>>
         /\ m_dst'[m] = m_dst[m] \/ (m_dst'[m] = None /\ b_fifo[m] # <<>>)
         /\ b_fifo[m] = <<>> => m_dst'[m] = m_dst[m]
<1>1. /\ wphase_state' = [n \in Managers |-> WphaseState(n)]
      /\ wreq_hld' = [n \in Managers |->
           IF awphase_accept(n) /\ wphase_state[n] \in {"ACCEPT_WRITES", "WAIT4SLV"}
           THEN Head(aw_fifo[n]) ELSE wreq_hld[n]]
      /\ aw_fifo' = [n \in Managers |->
           FifoEdge(aw_fifo[n], AwHandshake(n), m_aw[n], awphase_accept(n))]
  BY DEF Clock, MgrEdge
<1>2. /\ m_aw' = [n \in Managers |-> IF AwHandshake(n) THEN None ELSE m_aw[n]]
      /\ m_dst' = [n \in Managers |->
           IF n \in i.bready /\ b_fifo[n] # <<>> THEN None ELSE m_dst[n]]
  BY DEF Clock, EnvEdge
<1>3. AwHandshake(m) <=> m_aw[m] # None  BY AddressFifo
<1>4. m_aw'[m] = None  BY <1>2, <1>3
<1>5. AwHandshake(m) => /\ wphase_state[m] = "RDY" /\ aw_fifo[m] = <<>> /\ wrAck(aw_fifo[m])
                        /\ m_aw[m] = m_dst[m] /\ ~awphase_accept(m)
  <2>1. MgrRests(m) /\ m_aw[m] \in {None, m_dst[m]}  BY Phase DEF IInv, MgrInv
  <2> QED  BY <2>1 DEF AwHandshake, awready_mgr, MgrRests, awphase_accept
<1>6. aw_fifo'[m] = FifoEdge(aw_fifo[m], AwHandshake(m), m_aw[m], awphase_accept(m))  BY <1>1
<1>7. CASE awphase_accept(m)
  <2>1. /\ aw_fifo[m] = <<m_dst[m]>> /\ Head(aw_fifo[m]) = m_dst[m]
        /\ wphase_state[m] \in {"ACCEPT_WRITES", "WAIT4SLV"}
    BY <1>7, Accepted
  <2>2. aw_fifo'[m] = Tail(<<m_dst[m]>>)
    BY <1>5, <1>6, <1>7, <2>1, Ones DEF FifoEdge, rdAck
  <2>3. aw_fifo'[m] = <<>>  BY <2>2, Ones
  <2> QED  BY <1>1, <1>2, <1>3, <1>4, <1>5, <1>7, <2>1, <2>3
<1>8. CASE ~awphase_accept(m)
  <2>1. AwHandshake(m) => aw_fifo'[m] = Append(<<>>, m_dst[m])
    BY <1>5, <1>6, <1>8 DEF FifoEdge
  <2>2. AwHandshake(m) => aw_fifo'[m] = <<m_dst[m]>>  BY <2>1, Ones
  <2>3. ~AwHandshake(m) => aw_fifo'[m] = aw_fifo[m]  BY <1>6, <1>8 DEF FifoEdge
  <2>4. wreq_hld'[m] = wreq_hld[m]  BY <1>1, <1>8
  <2> QED  BY <1>1, <1>2, <1>3, <1>4, <1>5, <1>8, <2>2, <2>3, <2>4
<1> QED  BY <1>7, <1>8

LEMMA BeatsMove ==
  ASSUME IInv, NEW i, Clock(i), NEW m \in Managers
  PROVE  /\ w_fifo'[m] \in Seq(BOOLEAN) /\ Marked(w_fifo'[m], m_beats'[m])
         /\ m_beats'[m] \in Nat /\ (m_wvalid'[m] => m_beats'[m] > 0)
         /\ WHandshake(m) => /\ w_fifo'[m] # <<>>
                             /\ m_beats[m] # 0 /\ m_beats'[m] = m_beats[m] - 1
                             /\ wphase_state[m] \in {"ACCEPT_WRITES", "ACCEPT_AND_SEND_WRITES"}
         /\ ~WHandshake(m) => m_beats'[m] = m_beats[m]
         /\ ~WHandshake(m) /\ ~wphase_ready(m) => w_fifo'[m] = w_fifo[m]
         /\ ~WHandshake(m) /\ w_fifo[m] = <<>> => w_fifo'[m] = <<>>
         /\ m_beats'[m] = 0 <=> m_beats[m] = 0 \/ last_write(m)
         /\ wphase_ready(m) => (Head(w_fifo[m]) <=> m_beats'[m] = 0 /\ w_fifo'[m] = <<>>)
         /\ ~wphase_ready(m) => (Sent(m) <=> m_beats'[m] = 0 /\ w_fifo'[m] = <<>>)
<1>1. w_fifo'[m] = FifoEdge(w_fifo[m], WHandshake(m), LastBeat(m), wphase_ready(m))
  BY DEF Clock, MgrEdge
<1>2. /\ m_beats'[m] = IF WHandshake(m) THEN m_beats[m] - 1 ELSE m_beats[m]
      /\ m_wvalid'[m] <=> m_wvalid[m] /\ ~WHandshake(m)
  BY DEF Clock, EnvEdge
<1>3. /\ m_beats[m] \in Nat /\ (m_wvalid[m] => m_beats[m] > 0)
      /\ w_fifo[m] \in Seq(BOOLEAN) /\ Marked(w_fifo[m], m_beats[m])
  BY Phase
<1>4. WHandshake(m) => /\ m_beats[m] > 0 /\ wrAck(w_fifo[m])
                       /\ wphase_state[m] \in {"ACCEPT_WRITES", "ACCEPT_AND_SEND_WRITES"}
  BY <1>3 DEF WHandshake, accept_mgr_writes
<1>5. m_beats'[m] \in Nat  BY <1>2, <1>3, <1>4
<1>6. wphase_ready(m) => w_fifo[m] # <<>>  BY Fed DEF Feeds
<1>7. WHandshake(m) \in BOOLEAN /\ wphase_ready(m) \in BOOLEAN  BY DEF WHandshake, wphase_ready
<1>8. /\ w_fifo'[m] \in Seq(BOOLEAN) /\ Marked(w_fifo'[m], m_beats'[m])
      /\ WHandshake(m) => w_fifo'[m] # <<>>
      /\ ~WHandshake(m) /\ ~wphase_ready(m) => w_fifo'[m] = w_fifo[m]
      /\ ~WHandshake(m) /\ w_fifo[m] = <<>> => w_fifo'[m] = <<>>
      /\ wphase_ready(m) /\ w_fifo[m] # <<>> =>
           (Head(w_fifo[m]) <=> m_beats'[m] = 0 /\ w_fifo'[m] = <<>>)
      /\ ~(wphase_ready(m) /\ w_fifo[m] # <<>>) =>
           (m_beats[m] = 0 /\ w_fifo[m] = <<>> <=> m_beats'[m] = 0 /\ w_fifo'[m] = <<>>)
  <2> DEFINE q == w_fifo[m]  n == m_beats[m]  after == w_fifo'[m]  left == m_beats'[m]
             popped == IF wphase_ready(m) /\ rdAck(q) THEN Tail(q) ELSE q
  <2>1. /\ q \in Seq(BOOLEAN) /\ n \in Nat /\ Marked(q, n)
        /\ WHandshake(m) => n > 0 /\ wrAck(q) /\ left = n - 1
        /\ ~WHandshake(m) => left = n
    BY <1>2, <1>3, <1>4
  <2>2. after = IF WHandshake(m) /\ wrAck(q) THEN Append(popped, LastBeat(m)) ELSE popped
    BY <1>1 DEF FifoEdge
  <2>3. LastBeat(m) \in BOOLEAN /\ (LastBeat(m) <=> n = 1)  BY DEF LastBeat
  <2> HIDE DEF q, n, after, left
  <2>4. /\ popped \in Seq(BOOLEAN) /\ Marked(popped, n)
        /\ ~wphase_ready(m) => popped = q
        /\ q = <<>> => popped = <<>>
        /\ wphase_ready(m) /\ q # <<>> => (Head(q) <=> n = 0 /\ popped = <<>>)
        /\ ~(wphase_ready(m) /\ q # <<>>) => popped = q
    <3>1. CASE wphase_ready(m) /\ q # <<>>
      <4>1. popped = Tail(q)  BY <3>1 DEF rdAck
      <4>2. Tail(q) \in Seq(BOOLEAN)  BY <2>1, <3>1, Tails
      <4>3. Marked(Tail(q), n) /\ (Head(q) <=> n = 0 /\ Tail(q) = <<>>)
        BY <2>1, <3>1, MarkedTail
      <4> QED  BY <3>1, <4>1, <4>2, <4>3
    <3>2. CASE ~(wphase_ready(m) /\ q # <<>>)
      <4>1. popped = q  BY <3>2 DEF rdAck
      <4> QED  BY <2>1, <3>2, <4>1
    <3> QED  BY <3>1, <3>2
  <2> HIDE DEF popped
  <2>5. CASE WHandshake(m)
    <3>1. after = Append(popped, LastBeat(m)) /\ n \in Nat \ {0} /\ left = n - 1 /\ n # 0
      BY <2>1, <2>2, <2>5
    <3>2. /\ Append(popped, LastBeat(m)) \in Seq(BOOLEAN) /\ Append(popped, LastBeat(m)) # <<>>
          /\ Marked(Append(popped, LastBeat(m)), n - 1)
      BY <2>3, <2>4, <3>1, MarkedAppend
    <3> QED  BY <2>4, <2>5, <3>1, <3>2 DEF q, n, after, left
  <2>6. CASE ~WHandshake(m)
    <3>1. after = popped /\ left = n  BY <2>1, <2>2, <2>6
    <3> QED  BY <2>4, <2>6, <3>1 DEF q, n, after, left
  <2> QED  BY <2>5, <2>6
<1>9. m_beats'[m] = 0 <=> m_beats[m] = 0 \/ last_write(m)
  BY <1>2, <1>3, <1>4 DEF last_write, LastBeat
<1>10. /\ wphase_ready(m) => (Head(w_fifo[m]) <=> m_beats'[m] = 0 /\ w_fifo'[m] = <<>>)
       /\ ~wphase_ready(m) => (Sent(m) <=> m_beats'[m] = 0 /\ w_fifo'[m] = <<>>)
  BY <1>6, <1>8 DEF Sent
<1>11. m_wvalid'[m] => m_beats'[m] > 0  BY <1>2, <1>3
<1>12. WHandshake(m) => /\ m_beats[m] # 0 /\ m_beats'[m] = m_beats[m] - 1
                        /\ wphase_state[m] \in {"ACCEPT_WRITES", "ACCEPT_AND_SEND_WRITES"}
  BY <1>2, <1>3, <1>4
<1>13. ~WHandshake(m) => m_beats'[m] = m_beats[m]  BY <1>2
<1> QED  BY <1>5, <1>8, <1>9, <1>10, <1>11, <1>12, <1>13, Zenon

-----------------------------------------------------------------------------
(* What an edge does to a subordinate and its interface                    *)

LEMMA StateMoves ==
  ASSUME IInv, NEW i, Clock(i), NEW s \in Subs
  PROVE  /\ owner'[s] = NewOwner(s)
         /\ wr_state[s] \in {"WR_IDLE", "WR_IN_PROGRESS", "WR_RESP"}
         /\ wr_state[s] = "WR_IDLE" =>
              wr_state'[s] = IF Takes(s) THEN "WR_IN_PROGRESS" ELSE "WR_IDLE"
         /\ wr_state[s] = "WR_IN_PROGRESS" =>
              wr_state'[s] = IF SWLast(s, i) THEN "WR_RESP" ELSE "WR_IN_PROGRESS"
         /\ wr_state[s] = "WR_RESP" =>
              wr_state'[s] = IF SBHandshake(s) THEN "WR_IDLE" ELSE "WR_RESP"
         /\ wr_state[s] # "WR_IDLE" => ~Takes(s) /\ owner'[s] = owner[s]
         /\ SWLast(s, i) => wr_state[s] = "WR_IN_PROGRESS"
         /\ SBHandshake(s) => wr_state[s] = "WR_RESP"
<1>1. SubOwner(s) /\ SubBeats(s)  BY DEF IInv, SubInv
<1>2. wr_state'[s] = WrState(s, i)  BY DEF Clock, SubEdge
<1>3. owner'[s] = IF AwSel(s) # {} /\ awphase_ready(s) THEN Min(AwSel(s)) ELSE owner[s]
  BY DEF Clock, SubEdge
<1>4. awphase_ready(s) <=> wr_state[s] = "WR_IDLE"  BY Free
<1>5. owner'[s] = NewOwner(s)  BY <1>3, <1>4 DEF NewOwner, Takes
<1>6. SWLast(s, i) => wr_state[s] = "WR_IN_PROGRESS"
  BY <1>1 DEF SWLast, SWHandshake, rdAck, SubBeats
<1> QED  BY <1>1, <1>2, <1>5, <1>6 DEF WrState, SubOwner, Takes, NewOwner, SBHandshake

LEMMA AddressesMove ==
  ASSUME IInv, NEW i, Clock(i), NEW s \in Subs
  PROVE  /\ Takes(s) => saw_fifo[s] = <<>> /\ saw_fifo'[s] = <<NewOwner(s)>>
         /\ ~Takes(s) => /\ saw_fifo[s] = <<>> => saw_fifo'[s] = <<>>
                         /\ SAwHandshake(s, i) => saw_fifo'[s] = Tail(saw_fifo[s])
                         /\ ~SAwHandshake(s, i) => saw_fifo'[s] = saw_fifo[s]
<1>1. saw_fifo'[s] = FifoEdge(saw_fifo[s], AwSel(s) # {} /\ awphase_ready(s),
                              Min(AwSel(s) \cup {NMGR}), awready(s, i))
  BY DEF Clock, SubEdge
<1>2. awphase_ready(s) <=> wr_state[s] = "WR_IDLE"  BY Free
<1>3. SubAddr(s)  BY DEF IInv, SubInv
<1>4. CASE Takes(s)
  <2>1. saw_fifo[s] = <<>>  BY <1>3, <1>4 DEF SubAddr, Takes
  <2>2. Min(AwSel(s) \cup {NMGR}) = Min(AwSel(s))
    <3>1. AwSel(s) \in SUBSET Managers /\ AwSel(s) # {}  BY <1>4 DEF AwSel, Takes
    <3>2. Min(AwSel(s)) \in Managers  BY <1>4, Winner
    <3> QED  BY <3>1, <3>2, LeastOr
  <2>3. saw_fifo'[s] = Append(<<>>, Min(AwSel(s)))
    BY <1>1, <1>2, <1>4, <2>1, <2>2, Ones DEF FifoEdge, rdAck, Takes
  <2>4. saw_fifo'[s] = <<NewOwner(s)>>  BY <1>4, <2>3, Ones DEF NewOwner
  <2> QED  BY <1>4, <2>1, <2>4
<1>5. CASE ~Takes(s)
  <2>1. saw_fifo'[s] = IF awready(s, i) /\ rdAck(saw_fifo[s]) THEN Tail(saw_fifo[s])
                       ELSE saw_fifo[s]
    BY <1>1, <1>2, <1>5 DEF FifoEdge, Takes
  <2> QED  BY <1>5, <2>1 DEF SAwHandshake, rdAck
<1> QED  BY <1>4, <1>5

LEMMA WritesMove ==
  ASSUME IInv, NEW i, Clock(i), NEW s \in Subs
  PROVE  /\ Takes(s) \/ wr_state[s] = "WR_IN_PROGRESS" =>
              /\ NewOwner(s) \in Managers /\ m_dst[NewOwner(s)] = s
              /\ wphase_ready(NewOwner(s)) <=> Feeds(NewOwner(s)) /\ wrAck(sw_fifo[s])
              /\ sw_fifo'[s] = FifoEdge(sw_fifo[s], Feeds(NewOwner(s)),
                   [mgr |-> NewOwner(s), last |-> Head(w_fifo[NewOwner(s)])], wready(s, i))
         /\ ~(Takes(s) \/ wr_state[s] = "WR_IN_PROGRESS") =>
              sw_fifo[s] = <<>> /\ sw_fifo'[s] = <<>>
<1> DEFINE o == NewOwner(s)
           n == Min(WSel(s) \cup {NMGR})
           b == [mgr |-> n, last |-> n # NMGR /\ Head(w_fifo[n])]
<1>1. sw_fifo'[s] = FifoEdge(sw_fifo[s], WSel(s) # {}, b, wready(s, i))
  BY DEF Clock, SubEdge
<1>2. \A m \in Managers : m \in WSel(s) <=> /\ m = o /\ Feeds(m)
                                            /\ Takes(s) \/ wr_state[s] = "WR_IN_PROGRESS"
  BY Feeder
<1>3. WSel(s) \subseteq Managers  BY DEF WSel
<1>4. CASE Takes(s) \/ wr_state[s] = "WR_IN_PROGRESS"
  <2>1. o \in Managers /\ m_dst[o] = s
    <3>1. CASE Takes(s)  BY <3>1, Winner DEF NewOwner
    <3>2. CASE ~Takes(s)
      <4>1. SubOwner(s)  BY DEF IInv, SubInv
      <4> QED  BY <1>4, <3>2, <4>1 DEF NewOwner, SubOwner
    <3> QED  BY <3>1, <3>2
  <2>2. wphase_ready(o) <=> Feeds(o) /\ wrAck(sw_fifo[s])  BY <2>1, Fed
  <2>3. WSel(s) # {} <=> Feeds(o)  BY <1>2, <1>3, <1>4, <2>1
  <2>4. CASE Feeds(o)
    <3>1. WSel(s) = {o}  BY <1>2, <1>3, <1>4, <2>1, <2>4
    <3>2. n = o  BY <2>1, <3>1, LeastOr
    <3>3. n # NMGR  BY <2>1, <3>2, Sizes
    <3>4. w_fifo[o] \in Seq(BOOLEAN) /\ w_fifo[o] # <<>>  BY <2>1, <2>4, Phase DEF Feeds
    <3>5. Head(w_fifo[o]) \in BOOLEAN  BY <3>4, Tails
    <3>6. (n # NMGR /\ Head(w_fifo[n])) = Head(w_fifo[o])  BY <3>2, <3>3, <3>5
    <3>7. b = [mgr |-> o, last |-> Head(w_fifo[o])]  BY <3>2, <3>6
    <3>8. sw_fifo'[s] = FifoEdge(sw_fifo[s], TRUE, [mgr |-> o, last |-> Head(w_fifo[o])],
                                 wready(s, i))
      BY <1>1, <2>3, <2>4, <3>7 DEF FifoEdge
    <3> QED  BY <1>4, <2>1, <2>2, <2>4, <3>8 DEF FifoEdge
  <2>5. CASE ~Feeds(o)
    <3> QED  BY <1>1, <1>4, <2>1, <2>2, <2>3, <2>5 DEF FifoEdge
  <2> QED  BY <2>4, <2>5
<1>5. CASE ~(Takes(s) \/ wr_state[s] = "WR_IN_PROGRESS")
  <2>1. WSel(s) = {}  BY <1>2, <1>3, <1>5
  <2>2. sw_fifo[s] = <<>>
    <3>1. SubBeats(s)  BY DEF IInv, SubInv
    <3> QED  BY <1>5, <3>1 DEF SubBeats
  <2>3. sw_fifo'[s] = <<>>  BY <1>1, <2>1, <2>2 DEF FifoEdge, rdAck
  <2> QED  BY <1>5, <2>2, <2>3
<1> QED  BY <1>4, <1>5

LEMMA ResponsesMove ==
  ASSUME IInv, NEW i, Clock(i), NEW s \in Subs
  PROVE  /\ SBHandshake(s) => sb_fifo'[s] = <<owner[s]>>
         /\ ~SBHandshake(s) => sb_fifo'[s] = <<>>
<1> DEFINE pop == \E m \in Managers : s \in BSel(m) /\ wrAck(b_fifo[m])
<1>1. sb_fifo'[s] = FifoEdge(sb_fifo[s], SBHandshake(s), bid(s), pop)
  BY DEF Clock, SubEdge
<1>2. SBHandshake(s) => wrAck(sb_fifo[s]) /\ bid(s) = owner[s]  BY Presented
<1>3. (IF pop /\ rdAck(sb_fifo[s]) THEN Tail(sb_fifo[s]) ELSE sb_fifo[s]) = <<>>
  <2>1. CASE sb_fifo[s] = <<>>  BY <2>1 DEF rdAck
  <2>2. CASE sb_fifo[s] # <<>>
    <3>1. PICK m \in Managers : sb_fifo[s] = <<m>> /\ s \in BSel(m) /\ wrAck(b_fifo[m])
      BY <2>2, ResponseFifo
    <3>2. Tail(<<m>>) = <<>>  BY Ones
    <3> QED  BY <2>2, <3>1, <3>2 DEF rdAck
  <2> QED  BY <2>1, <2>2
<1> HIDE DEF pop
<1>4. sb_fifo'[s] = IF SBHandshake(s) THEN Append(<<>>, owner[s]) ELSE <<>>
  BY <1>1, <1>2, <1>3 DEF FifoEdge
<1> QED  BY <1>4, Ones

LEMMA AnswersMove ==
  ASSUME IInv, NEW i, Clock(i), NEW m \in Managers
  PROVE  /\ b_fifo[m] = <<>> /\ BSel(m) = {} => b_fifo'[m] = <<>>
         /\ BSel(m) # {} => b_fifo'[m] = <<m_dst[m]>> /\ m_dst'[m] = m_dst[m]
         /\ b_fifo[m] # <<>> => \/ b_fifo'[m] = b_fifo[m] /\ m_dst'[m] = m_dst[m]
                                \/ b_fifo'[m] = <<>> /\ m_dst'[m] = None
<1>1. b_fifo'[m] = FifoEdge(b_fifo[m], BSel(m) # {}, Min(BSel(m) \cup {DefSub}), m \in i.bready)
  BY DEF Clock, MgrEdge
<1>2. m_dst'[m] = IF m \in i.bready /\ b_fifo[m] # <<>> THEN None ELSE m_dst[m]
  BY DEF Clock, EnvEdge
<1>3. BSel(m) # {} => BSel(m) = {m_dst[m]} /\ b_fifo[m] = <<>>  BY Responses
<1>4. b_fifo[m] # <<>> => b_fifo[m] = <<m_dst[m]>>  BY Responses
<1>5. CASE BSel(m) # {}
  <2>1. b_fifo[m] = <<>> /\ BSel(m) = {m_dst[m]}  BY <1>3, <1>5
  <2>2. m_dst[m] \in Subs  BY <2>1 DEF BSel
  <2>3. Min({m_dst[m]} \cup {DefSub}) = m_dst[m]
    <3>1. \A s \in Subs : s <= DefSub  BY SizeAssumption DEF Subs, DefSub
    <3>2. {m_dst[m]} \cup {DefSub} \in SUBSET Nat /\ {m_dst[m]} \cup {DefSub} # {}
      BY <2>2, Sizes
    <3>3. /\ Min({m_dst[m]} \cup {DefSub}) \in {m_dst[m]} \cup {DefSub}
          /\ \A x \in {m_dst[m]} \cup {DefSub} : Min({m_dst[m]} \cup {DefSub}) <= x
      BY <3>2, Least
    <3>4. DefSub \in Nat /\ m_dst[m] \in Nat  BY <2>2, Sizes
    <3> QED  BY <2>2, <3>1, <3>3, <3>4
  <2>4. b_fifo'[m] = Append(<<>>, m_dst[m])
    BY <1>1, <1>5, <2>1, <2>3, Ones DEF FifoEdge, rdAck
  <2> QED  BY <1>2, <1>5, <2>1, <2>4, Ones
<1>6. CASE BSel(m) = {}
  <2>1. b_fifo'[m] = IF m \in i.bready /\ rdAck(b_fifo[m]) THEN Tail(b_fifo[m]) ELSE b_fifo[m]
    BY <1>1, <1>6 DEF FifoEdge
  <2>2. b_fifo[m] # <<>> => Tail(b_fifo[m]) = <<>>  BY <1>4, Ones
  <2> QED  BY <1>2, <1>6, <2>1, <2>2 DEF rdAck
<1> QED  BY <1>5, <1>6

-----------------------------------------------------------------------------
(* An edge preserves the invariant                                         *)

LEMMA QuietStays ==
  ASSUME IInv, NEW i, Clock(i), NEW m \in Managers, Quiet(m)
  PROVE  Quiet(m)' /\ ~WHandshake(m) /\ ~Feeds(m) /\ ~awphase_accept(m)
<1>1. ~WHandshake(m) /\ ~Feeds(m) /\ ~awphase_accept(m)
  BY DEF Quiet, WHandshake, accept_mgr_writes, Feeds, awphase_accept
<1>2. wphase_state'[m] = "RDY"
  <2>1. WphaseState(m) = "RDY"  BY DEF Quiet, WphaseState, AwHandshake
  <2> QED  BY <2>1, AddressMoves
<1>3. m_aw'[m] = None /\ aw_fifo'[m] = <<>>  BY <1>1, AddressMoves DEF Quiet
<1>4. m_beats'[m] = 0 /\ w_fifo'[m] = <<>>  BY <1>1, BeatsMove DEF Quiet
<1> QED  BY <1>1, <1>2, <1>3, <1>4 DEF Quiet

\* Only an answered write is finished by an edge.
LEMMA WriteStays ==
  ASSUME IInv, NEW i, Clock(i), NEW m \in Managers
  PROVE  /\ ~Answered(m) => m_dst'[m] = m_dst[m]
         /\ Quiet(m) \/ m_dst'[m] = m_dst[m]
<1>1. b_fifo[m] # <<>> => Answered(m)  BY Responses
<1> QED  BY <1>1, AddressMoves DEF Answered

\* The write state machine, one line per arc.
LEMMA PhaseMoves ==
  ASSUME IInv, NEW i, Clock(i), NEW m \in Managers
  PROVE  /\ wphase_state'[m] = "RDY" =>
              \/ Quiet(m)
              \/ wphase_state[m] = "WAIT4DONE" /\ w_fifo[m] = <<>>
         /\ wphase_state'[m] = "ACCEPT_WRITES" =>
              \/ wphase_state[m] = "RDY" /\ m_aw[m] # None
              \/ wphase_state[m] = "ACCEPT_WRITES" /\ ~awphase_accept(m) /\ ~last_write(m)
         /\ wphase_state'[m] = "WAIT4SLV" =>
              \/ wphase_state[m] = "ACCEPT_WRITES" /\ ~awphase_accept(m) /\ last_write(m)
              \/ wphase_state[m] = "WAIT4SLV" /\ ~awphase_accept(m)
         /\ wphase_state'[m] = "ACCEPT_AND_SEND_WRITES" =>
              ~last_write(m) /\ \/ wphase_state[m] = "ACCEPT_WRITES" /\ awphase_accept(m)
                                \/ wphase_state[m] = "ACCEPT_AND_SEND_WRITES"
         /\ wphase_state'[m] = "WAIT4DONE" =>
              \/ wphase_state[m] = "ACCEPT_WRITES" /\ awphase_accept(m) /\ last_write(m)
              \/ wphase_state[m] = "WAIT4SLV" /\ awphase_accept(m)
              \/ wphase_state[m] = "ACCEPT_AND_SEND_WRITES" /\ last_write(m)
              \/ wphase_state[m] = "WAIT4DONE" /\ w_fifo[m] # <<>>
         /\ wphase_state'[m] \in Phases
<1>1. wphase_state'[m] = WphaseState(m)  BY AddressMoves
<1>2. wphase_state[m] \in Phases  BY Phase
<1>3. AwHandshake(m) <=> m_aw[m] # None  BY AddressFifo
<1>4. wphase_state[m] = "RDY" /\ m_aw[m] = None => Quiet(m)
  BY DEF IInv, MgrInv, MgrRests, Quiet
<1>5. CASE wphase_state[m] = "RDY"  BY <1>1, <1>3, <1>4, <1>5 DEF WphaseState, Phases
<1>6. CASE wphase_state[m] = "ACCEPT_WRITES"  BY <1>1, <1>6 DEF WphaseState, Phases
<1>7. CASE wphase_state[m] = "WAIT4SLV"  BY <1>1, <1>7 DEF WphaseState, Phases
<1>8. CASE wphase_state[m] = "ACCEPT_AND_SEND_WRITES"  BY <1>1, <1>8 DEF WphaseState, Phases
<1>9. CASE wphase_state[m] = "WAIT4DONE"  BY <1>1, <1>9 DEF WphaseState, Phases
<1> QED  BY <1>2, <1>5, <1>6, <1>7, <1>8, <1>9 DEF Phases

LEMMA MgrClock ==
  ASSUME IInv, NEW i, Clock(i)
  PROVE  MgrInv'
<1> SUFFICES ASSUME NEW m \in Managers
             PROVE  /\ MgrTypes(m)' /\ MgrBeats(m)' /\ MgrRests(m)'
                    /\ MgrWaits(m)' /\ MgrSends(m)'
  BY DEF MgrInv
<1>1. /\ wphase_state'[m] \in Phases /\ m_aw'[m] = None /\ m_beats'[m] \in Nat
      /\ m_wvalid'[m] => m_beats'[m] > 0
  BY PhaseMoves, AddressMoves, BeatsMove
<1>2. MgrTypes(m)'
  <2>1. m_dst'[m] \in Subs \cup {None}  BY Phase, AddressMoves
  <2>2. m_dst'[m] = None => Quiet(m)'
    <3>1. m_dst'[m] = None => Quiet(m)  BY Phase, WriteStays
    <3> QED  BY <3>1, QuietStays
  <2> QED  BY <1>1, <2>1, <2>2 DEF MgrTypes
<1>3. MgrBeats(m)'  BY BeatsMove DEF MgrBeats
<1>4. MgrRests(m)'
  <2> SUFFICES ASSUME wphase_state'[m] = "RDY" PROVE Quiet(m)'
    BY DEF MgrRests, Quiet
  <2>1. CASE Quiet(m)  BY <2>1, QuietStays
  <2>2. CASE wphase_state[m] = "WAIT4DONE" /\ w_fifo[m] = <<>>
    <3>1. m_aw[m] = None /\ aw_fifo[m] = <<>> /\ ~awphase_accept(m) /\ m_beats[m] = 0
      BY <2>2, Sending
    <3>2. ~WHandshake(m)  BY <2>2 DEF WHandshake, accept_mgr_writes
    <3>3. aw_fifo'[m] = <<>>  BY <3>1, AddressMoves
    <3>4. m_beats'[m] = 0 /\ w_fifo'[m] = <<>>  BY <2>2, <3>1, <3>2, BeatsMove
    <3> QED  BY <1>1, <3>3, <3>4 DEF Quiet
  <2> QED  BY <2>1, <2>2, PhaseMoves
<1>5. MgrWaits(m)'
  <2> SUFFICES ASSUME wphase_state'[m] \in {"ACCEPT_WRITES", "WAIT4SLV"}
               PROVE  /\ m_dst'[m] # None /\ m_aw'[m] = None /\ aw_fifo'[m] = <<m_dst'[m]>>
                      /\ m_beats'[m] = 0 <=> wphase_state'[m] = "WAIT4SLV"
                      /\ wphase_state'[m] = "WAIT4SLV" => w_fifo'[m] # <<>>
    BY DEF MgrWaits
  <2>1. CASE wphase_state[m] = "RDY" /\ m_aw[m] # None
    <3>1. m_dst'[m] = m_dst[m]  BY <2>1, WriteStays DEF Quiet
    <3>2. m_dst[m] # None  BY <2>1, Phase DEF Quiet
    <3>3. ~awphase_accept(m)  BY <2>1, Accepted
    <3>4. aw_fifo'[m] = <<m_dst[m]>>  BY <2>1, <3>3, AddressMoves
    <3>5. m_beats[m] # 0  BY <2>1 DEF IInv, MgrInv, MgrRests
    <3>6. ~last_write(m)
      BY <2>1 DEF last_write, WHandshake, accept_mgr_writes
    <3>7. m_beats'[m] # 0  BY <3>5, <3>6, BeatsMove
    <3>8. wphase_state'[m] = "ACCEPT_WRITES"  BY <2>1, PhaseMoves
    <3> QED  BY <1>1, <3>1, <3>2, <3>4, <3>7, <3>8
  <2>2. CASE wphase_state[m] \in {"ACCEPT_WRITES", "WAIT4SLV"} /\ ~awphase_accept(m)
    <3>1. /\ m_dst[m] # None /\ m_aw[m] = None /\ aw_fifo[m] = <<m_dst[m]>>
          /\ m_beats[m] = 0 <=> wphase_state[m] = "WAIT4SLV"
          /\ wphase_state[m] = "WAIT4SLV" => w_fifo[m] # <<>>
      BY <2>2 DEF IInv, MgrInv, MgrWaits
    <3>2. m_dst'[m] = m_dst[m]  BY <2>2, WriteStays DEF Quiet
    <3>3. aw_fifo'[m] = <<m_dst[m]>>  BY <2>2, <3>1, AddressMoves
    <3>4. ~wphase_ready(m)  BY <2>2, Fed DEF Feeds
    <3>5. CASE wphase_state[m] = "ACCEPT_WRITES"
      <4>1. m_beats'[m] = 0 <=> last_write(m)  BY <3>1, <3>5, BeatsMove
      <4>2. wphase_state'[m] = "WAIT4SLV" <=> last_write(m)  BY <2>2, <3>5, PhaseMoves
      <4>3. last_write(m) => w_fifo'[m] # <<>>  BY BeatsMove DEF last_write
      <4> QED  BY <1>1, <3>1, <3>2, <3>3, <4>1, <4>2, <4>3
    <3>6. CASE wphase_state[m] = "WAIT4SLV"
      <4>1. ~WHandshake(m)  BY <3>6 DEF WHandshake, accept_mgr_writes
      <4>2. m_beats'[m] = 0 /\ w_fifo'[m] = w_fifo[m]  BY <3>1, <3>4, <3>6, <4>1, BeatsMove
      <4>3. wphase_state'[m] = "WAIT4SLV"  BY <3>6, PhaseMoves
      <4> QED  BY <1>1, <3>1, <3>2, <3>3, <3>6, <4>2, <4>3
    <3> QED  BY <2>2, <3>5, <3>6
  <2> QED  BY <2>1, <2>2, PhaseMoves
<1>6. MgrSends(m)'
  <2> SUFFICES ASSUME wphase_state'[m] \in {"ACCEPT_AND_SEND_WRITES", "WAIT4DONE"}
               PROVE  /\ m_dst'[m] # None /\ aw_fifo'[m] = <<>> /\ wreq_hld'[m] = m_dst'[m]
                      /\ owner'[m_dst'[m]] = m /\ wr_state'[m_dst'[m]] = "WR_IN_PROGRESS"
                      /\ m_beats'[m] = 0 <=> wphase_state'[m] = "WAIT4DONE"
    BY <1>1 DEF MgrSends
  <2>1. CASE awphase_accept(m)
    <3>1. /\ m_dst[m] \in Subs /\ Takes(m_dst[m]) /\ m = Min(AwSel(m_dst[m]))
          /\ wphase_state[m] \in {"ACCEPT_WRITES", "WAIT4SLV"}
      BY <2>1, Accepted
    <3>2. m_dst'[m] = m_dst[m] /\ m_dst[m] # None  BY <3>1, WriteStays, Sizes DEF Quiet
    <3>3. wreq_hld'[m] = m_dst[m] /\ aw_fifo'[m] = <<>>  BY <2>1, AddressMoves
    <3>4. owner'[m_dst[m]] = m /\ wr_state'[m_dst[m]] = "WR_IN_PROGRESS"
      BY <3>1, StateMoves DEF NewOwner, Takes
    <3>5. m_beats'[m] = 0 <=> wphase_state'[m] = "WAIT4DONE"
      <4>1. m_beats[m] = 0 <=> wphase_state[m] = "WAIT4SLV"
        BY <3>1 DEF IInv, MgrInv, MgrWaits
      <4>2. m_beats'[m] = 0 <=> m_beats[m] = 0 \/ last_write(m)  BY BeatsMove
      <4> QED  BY <3>1, <4>1, <4>2, PhaseMoves
    <3> QED  BY <3>2, <3>3, <3>4, <3>5
  <2>2. CASE ~awphase_accept(m)
    <3>1. /\ wphase_state[m] \in {"ACCEPT_AND_SEND_WRITES", "WAIT4DONE"}
          /\ wphase_state[m] = "WAIT4DONE" => w_fifo[m] # <<>>
          /\ wphase_state[m] = "ACCEPT_AND_SEND_WRITES" =>
               (wphase_state'[m] = "WAIT4DONE" <=> last_write(m))
          /\ wphase_state[m] = "WAIT4DONE" => wphase_state'[m] = "WAIT4DONE"
      BY <2>2, PhaseMoves
    <3>2. /\ m_dst[m] \in Subs /\ m_aw[m] = None /\ aw_fifo[m] = <<>>
          /\ wreq_hld[m] = m_dst[m] /\ owner[m_dst[m]] = m
          /\ wr_state[m_dst[m]] = "WR_IN_PROGRESS"
          /\ m_beats[m] = 0 <=> wphase_state[m] = "WAIT4DONE"
      BY <3>1, Sending
    <3>3. m_dst'[m] = m_dst[m] /\ m_dst[m] # None
      BY <3>1, <3>2, WriteStays, Sizes DEF Quiet
    <3>4. wreq_hld'[m] = m_dst[m] /\ aw_fifo'[m] = <<>>  BY <2>2, <3>2, AddressMoves
    <3>5. ~SWLast(m_dst[m], i)
      <4>1. ~Sent(m)  BY <3>1, <3>2 DEF Sent
      <4>2. SubBeats(m_dst[m])  BY <3>2 DEF IInv, SubInv
      <4>3. /\ sw_fifo[m_dst[m]] \in Seq(Beat)
            /\ MarkedOf(sw_fifo[m_dst[m]], m, Sent(m))
        BY <3>2, <4>2 DEF SubBeats
      <4>4. Sent(m) \in BOOLEAN  BY DEF Sent
      <4>5. sw_fifo[m_dst[m]] # <<>> => (Head(sw_fifo[m_dst[m]]).last => Sent(m))
        BY <4>3, <4>4, MarkedOfTail
      <4> QED  BY <4>1, <4>5 DEF SWLast, SWHandshake, rdAck
    <3>6. owner'[m_dst[m]] = m /\ wr_state'[m_dst[m]] = "WR_IN_PROGRESS"
      BY <3>2, <3>5, StateMoves
    <3>7. m_beats'[m] = 0 <=> wphase_state'[m] = "WAIT4DONE"
      <4>1. m_beats'[m] = 0 <=> m_beats[m] = 0 \/ last_write(m)  BY BeatsMove
      <4> QED  BY <3>1, <3>2, <4>1
    <3> QED  BY <3>3, <3>4, <3>6, <3>7
  <2> QED  BY <2>1, <2>2
<1> QED  BY <1>2, <1>3, <1>4, <1>5, <1>6

LEMMA SubAddrClock ==
  ASSUME IInv, NEW i, Clock(i), NEW s \in Subs
  PROVE  SubAddr(s)'
<1>1. SubAddr(s) /\ SubAnswer(s) /\ SubBeats(s)  BY DEF IInv, SubInv
<1>2. DefSubEdge(i)  BY DEF Clock
<1>3. s # DefSub => s_aw'[s] = IF SAwHandshake(s, i) THEN Head(saw_fifo[s])
                               ELSE IF SBHandshake(s) THEN None ELSE s_aw[s]
  BY DEF Clock, EnvEdge, ExtSubs
<1>4. SWLast(s, i) => sw_fifo[s] # <<>>  BY DEF SWLast, SWHandshake, rdAck
<1>5. CASE wr_state[s] = "WR_IDLE"
  <2>1. /\ saw_fifo[s] = <<>> /\ ~SAwHandshake(s, i) /\ ~SBHandshake(s)
        /\ IF s = DefSub THEN awready_sub ELSE s_aw[s] = None
    BY <1>1, <1>5 DEF SubAddr, SAwHandshake, rdAck, SBHandshake
  <2>2. ~SWLast(s, i)  BY <1>5, StateMoves
  <2>3. IF s = DefSub THEN awready_sub' ELSE s_aw'[s] = None
    BY <1>2, <1>3, <2>1, <2>2 DEF DefSubEdge, defVars
  <2>4. CASE Takes(s)
    <3>1. wr_state'[s] = "WR_IN_PROGRESS" /\ saw_fifo'[s] = <<owner'[s]>>
      BY <1>5, <2>4, StateMoves, AddressesMove
    <3> QED  BY <2>3, <3>1 DEF SubAddr
  <2>5. CASE ~Takes(s)
    <3>1. wr_state'[s] = "WR_IDLE" /\ saw_fifo'[s] = <<>>
      BY <1>5, <2>1, <2>5, StateMoves, AddressesMove
    <3> QED  BY <2>3, <3>1 DEF SubAddr
  <2> QED  BY <2>4, <2>5
<1>6. CASE wr_state[s] # "WR_IDLE" /\ saw_fifo[s] = <<owner[s]>>
  <2>1. ~Takes(s) /\ owner'[s] = owner[s]  BY <1>6, StateMoves
  <2>2. <<owner[s]>> # <<>> /\ Head(<<owner[s]>>) = owner[s] /\ Tail(<<owner[s]>>) = <<>>
    BY Ones
  <2>3. ~SBHandshake(s)  BY <1>6, <2>2, Presented
  <2>4. wr_state'[s] # "WR_IDLE"  BY <1>6, <2>3, StateMoves
  <2>5. IF s = DefSub THEN awready_sub /\ wr_state[s] = "WR_IN_PROGRESS" ELSE s_aw[s] = None
    BY <1>1, <1>6, <2>2 DEF SubAddr
  <2>6. CASE SAwHandshake(s, i)
    <3>1. saw_fifo'[s] = <<>>  BY <1>6, <2>1, <2>2, <2>6, AddressesMove
    <3>2. s = DefSub => ~awready_sub' /\ bid_sub' = owner[s]
      BY <1>2, <1>6, <2>2, <2>6 DEF DefSubEdge
    <3>3. s # DefSub => s_aw'[s] = owner[s]  BY <1>3, <1>6, <2>2, <2>6
    <3> QED  BY <2>1, <2>4, <3>1, <3>2, <3>3 DEF SubAddr
  <2>7. CASE ~SAwHandshake(s, i)
    <3>1. s # DefSub  BY <1>6, <2>2, <2>5, <2>7 DEF SAwHandshake, rdAck, awready
    <3>2. saw_fifo'[s] = <<owner[s]>> /\ s_aw'[s] = None
      BY <1>3, <1>6, <2>1, <2>3, <2>5, <2>7, <3>1, AddressesMove
    <3> QED  BY <2>1, <2>4, <3>1, <3>2 DEF SubAddr
  <2> QED  BY <2>6, <2>7
<1>7. CASE wr_state[s] # "WR_IDLE" /\ saw_fifo[s] = <<>>
  <2>1. ~Takes(s) /\ owner'[s] = owner[s] /\ ~SAwHandshake(s, i) /\ saw_fifo'[s] = <<>>
    BY <1>7, StateMoves, AddressesMove DEF SAwHandshake, rdAck
  <2>2. IF s = DefSub THEN ~awready_sub /\ bid_sub = owner[s] ELSE s_aw[s] = owner[s]
    BY <1>1, <1>7, Ones DEF SubAddr
  <2>3. CASE SBHandshake(s)
    <3>1. wr_state'[s] = "WR_IDLE" /\ ~SWLast(s, i)  BY <2>3, StateMoves
    <3>2. s = DefSub => awready_sub'  BY <1>2, <2>1, <2>3, <3>1 DEF DefSubEdge
    <3>3. s # DefSub => s_aw'[s] = None  BY <1>3, <2>1, <2>3
    <3> QED  BY <2>1, <3>1, <3>2, <3>3 DEF SubAddr
  <2>4. CASE ~SBHandshake(s)
    <3>1. wr_state'[s] # "WR_IDLE"  BY <1>7, <2>4, StateMoves
    <3>2. s = DefSub => (awready_sub' <=> awready_sub) /\ bid_sub' = bid_sub
      BY <1>2, <2>1, <2>4 DEF DefSubEdge, defVars
    <3>3. s # DefSub => s_aw'[s] = s_aw[s]  BY <1>3, <2>1, <2>4
    <3> QED  BY <2>1, <2>2, <3>1, <3>2, <3>3 DEF SubAddr
  <2> QED  BY <2>3, <2>4
<1> QED  BY <1>1, <1>5, <1>6, <1>7 DEF SubAddr

LEMMA SubBeatsClock ==
  ASSUME IInv, NEW i, Clock(i), NEW s \in Subs
  PROVE  SubBeats(s)'
<1> DEFINE open == Takes(s) \/ wr_state[s] = "WR_IN_PROGRESS"
<1>1. SubBeats(s) /\ SubOwner(s)  BY DEF IInv, SubInv
<1>3. CASE ~open
  <2>1. wr_state'[s] # "WR_IN_PROGRESS"  BY <1>3, StateMoves
  <2>2. sw_fifo'[s] = <<>>  BY <1>3, WritesMove
  <2> QED  BY <2>1, <2>2 DEF SubBeats
<1>4. CASE open
  <2>1. PICK o \in Managers : o = NewOwner(s)  BY <1>4, WritesMove
  <2>2. owner'[s] = o  BY <2>1, StateMoves
  <2>3. /\ m_dst[o] = s
        /\ wphase_ready(o) <=> Feeds(o) /\ wrAck(sw_fifo[s])
        /\ sw_fifo'[s] = FifoEdge(sw_fifo[s], Feeds(o),
                           [mgr |-> o, last |-> Head(w_fifo[o])], wready(s, i))
    BY <1>4, <2>1, WritesMove
  <2>4. /\ sw_fifo[s] \in Seq(Beat) /\ Sent(o) \in BOOLEAN /\ MarkedOf(sw_fifo[s], o, Sent(o))
        /\ sw_fifo[s] = <<>> => ~Sent(o)
    <3>1. CASE Takes(s)
      <4>1. sw_fifo[s] = <<>>  BY <1>1, <3>1 DEF SubBeats, Takes
      <4>2. awphase_accept(o)  BY <2>1, <3>1, Winner DEF NewOwner
      <4>3. wphase_state[o] \in {"ACCEPT_WRITES", "WAIT4SLV"}  BY <2>3, <4>2, Accepted
      <4>4. ~Sent(o)  BY <2>3, <4>3 DEF IInv, MgrInv, MgrWaits, Sent
      <4>5. Len(<<>>) = 0  BY Ones
      <4>6. MarkedOf(<<>>, o, Sent(o))  BY <4>5 DEF MarkedOf
      <4> QED  BY <1>1, <4>1, <4>4, <4>6 DEF SubBeats, Sent
    <3>2. CASE ~Takes(s) /\ wr_state[s] = "WR_IN_PROGRESS"
      <4>1. o = owner[s]  BY <2>1, <3>2 DEF NewOwner
      <4> QED  BY <1>1, <3>2, <4>1 DEF SubBeats, Sent
    <3> QED  BY <1>4, <3>1, <3>2
  <2>5. Feeds(o) => ~Sent(o)  BY DEF Feeds, Sent
  <2>6. /\ wphase_ready(o) => (Head(w_fifo[o]) <=> Sent(o)')
        /\ ~wphase_ready(o) => (Sent(o) <=> Sent(o)')
    BY <2>3, BeatsMove DEF Sent
  <2>7. CASE SWLast(s, i)
    <3>1. wr_state'[s] = "WR_RESP"  BY <2>7, StateMoves
    <3>2. sw_fifo[s] # <<>> /\ Head(sw_fifo[s]).last /\ wready(s, i)
      BY <2>7 DEF SWLast, SWHandshake, rdAck
    <3>3. Sent(o) /\ Tail(sw_fifo[s]) = <<>>  BY <2>4, <3>2, MarkedOfTail
    <3>4. sw_fifo'[s] = <<>>  BY <2>3, <2>5, <3>2, <3>3 DEF FifoEdge, rdAck
    <3> QED  BY <3>1, <3>4 DEF SubBeats
  <2>8. CASE ~SWLast(s, i)
    <3>1. wr_state'[s] = "WR_IN_PROGRESS"
      BY <1>4, <2>8, StateMoves DEF Takes
    <3> DEFINE q == sw_fifo[s]
               popped == IF wready(s, i) /\ rdAck(q) THEN Tail(q) ELSE q
               b == [mgr |-> o, last |-> Head(w_fifo[o])]
    <3>2. popped \in Seq(Beat) /\ MarkedOf(popped, o, Sent(o)) /\ (popped = <<>> => ~Sent(o))
      <4>1. CASE wready(s, i) /\ q # <<>>
        <5>1. popped = Tail(q)  BY <4>1 DEF rdAck
        <5>2. Tail(q) \in Seq(Beat)  BY <2>4, <4>1, Tails
        <5>3. MarkedOf(Tail(q), o, Sent(o)) /\ (Head(q).last <=> Tail(q) = <<>> /\ Sent(o))
          BY <2>4, <4>1, MarkedOfTail
        <5>4. ~Head(q).last  BY <2>8, <4>1 DEF SWLast, SWHandshake, rdAck
        <5> QED  BY <5>1, <5>2, <5>3, <5>4
      <4>2. CASE ~(wready(s, i) /\ q # <<>>)
        <5>1. popped = q  BY <4>2 DEF rdAck
        <5> QED  BY <2>4, <5>1
      <4> QED  BY <4>1, <4>2
    <3>3. sw_fifo'[s] = IF wphase_ready(o) THEN Append(popped, b) ELSE popped
      BY <2>3 DEF FifoEdge
    <3> HIDE DEF popped
    <3>4. CASE wphase_ready(o)
      <4>1. ~Sent(o) /\ Feeds(o)  BY <2>3, <2>5, <3>4
      <4>2. MarkedOf(popped, o, FALSE)  BY <3>2, <4>1 DEF MarkedOf
      <4>3. Head(w_fifo[o]) \in BOOLEAN  BY <2>3, <4>1, Phase, Tails DEF Feeds
      <4>4. /\ sw_fifo'[s] \in Seq(Beat) /\ sw_fifo'[s] # <<>>
            /\ MarkedOf(sw_fifo'[s], o, Head(w_fifo[o]))
        BY <2>3, <3>2, <3>3, <3>4, <4>2, <4>3, MarkedOfAppend
      <4>5. MarkedOf(sw_fifo'[s], o, Sent(o)')  BY <2>6, <3>4, <4>4 DEF MarkedOf
      <4> QED  BY <2>2, <3>1, <4>4, <4>5 DEF SubBeats, Sent
    <3>5. CASE ~wphase_ready(o)
      <4>1. sw_fifo'[s] = popped /\ (Sent(o) <=> Sent(o)')  BY <2>6, <3>3, <3>5
      <4>2. MarkedOf(sw_fifo'[s], o, Sent(o)')  BY <3>2, <4>1 DEF MarkedOf
      <4> QED  BY <2>2, <3>1, <3>2, <4>1, <4>2 DEF SubBeats, Sent
    <3> QED  BY <3>4, <3>5
  <2> QED  BY <2>7, <2>8
<1> QED  BY <1>3, <1>4

LEMMA SubAnswerClock ==
  ASSUME IInv, NEW i, Clock(i), NEW s \in Subs
  PROVE  SubAnswer(s)'
<1>1. SubAddr(s) /\ SubBeats(s) /\ SubAnswer(s)  BY DEF IInv, SubInv
<1>2. CASE s = DefSub
  <2> SUFFICES ASSUME bvalid_sub' PROVE wr_state'[s] = "WR_RESP"
    BY <1>2 DEF SubAnswer
  <2>1. DefSubEdge(i)  BY DEF Clock
  <2>2. CASE SWLast(s, i)  BY <2>2, StateMoves
  <2>3. CASE ~SWLast(s, i)
    <3>1. bvalid_sub /\ (SAwHandshake(s, i) \/ ~SBHandshake(s))
      BY <1>2, <2>1, <2>3 DEF DefSubEdge, defVars
    <3>2. wr_state[s] = "WR_RESP"  BY <1>1, <1>2, <3>1 DEF SubAnswer
    <3>3. saw_fifo[s] = <<>>  BY <1>1, <1>2, <3>2 DEF SubAddr
    <3>4. ~SBHandshake(s)  BY <3>1, <3>3 DEF SAwHandshake, rdAck
    <3> QED  BY <3>2, <3>4, StateMoves
  <2> QED  BY <2>2, <2>3
<1>3. CASE s # DefSub
  <2>1. /\ s_aw'[s] = IF SAwHandshake(s, i) THEN Head(saw_fifo[s])
                      ELSE IF SBHandshake(s) THEN None ELSE s_aw[s]
        /\ s_w'[s] = IF SWLast(s, i) THEN Head(sw_fifo[s]).mgr
                     ELSE IF SBHandshake(s) THEN None ELSE s_w[s]
        /\ s_bvalid'[s] <=> s_bvalid[s] /\ ~SBHandshake(s)
    BY <1>3 DEF Clock, EnvEdge, ExtSubs
  <2>2. /\ IF wr_state[s] = "WR_RESP" THEN s_w[s] = owner[s] ELSE s_w[s] = None /\ ~s_bvalid[s]
        /\ s_bvalid[s] => s_aw[s] # None
    BY <1>1, <1>3 DEF SubAnswer
  <2>3. s_bvalid'[s] => s_aw'[s] # None
    <3> SUFFICES ASSUME s_bvalid'[s] PROVE s_aw'[s] # None  OBVIOUS
    <3>1. s_bvalid[s] /\ ~SBHandshake(s) /\ s_aw[s] # None /\ wr_state[s] = "WR_RESP"
      BY <2>1, <2>2
    <3>2. saw_fifo[s] = <<>>  BY <1>1, <1>3, <3>1 DEF SubAddr
    <3> QED  BY <2>1, <3>1, <3>2 DEF SAwHandshake, rdAck
  <2>4. IF wr_state'[s] = "WR_RESP" THEN s_w'[s] = owner'[s]
        ELSE s_w'[s] = None /\ ~s_bvalid'[s]
    <3>1. CASE SWLast(s, i)
      <4>1. wr_state[s] = "WR_IN_PROGRESS" /\ wr_state'[s] = "WR_RESP" /\ owner'[s] = owner[s]
        BY <3>1, StateMoves
      <4>2. /\ sw_fifo[s] \in Seq(Beat) /\ sw_fifo[s] # <<>>
            /\ MarkedOf(sw_fifo[s], owner[s], Sent(owner[s]))
        BY <1>1, <3>1, <4>1 DEF SubBeats, SWLast, SWHandshake, rdAck
      <4>3. Sent(owner[s]) \in BOOLEAN  BY DEF Sent
      <4>4. Head(sw_fifo[s]).mgr = owner[s]  BY <4>2, <4>3, MarkedOfTail
      <4> QED  BY <2>1, <3>1, <4>1, <4>4
    <3>2. CASE SBHandshake(s)
      <4>1. wr_state'[s] = "WR_IDLE" /\ ~SWLast(s, i)  BY <3>2, StateMoves
      <4> QED  BY <2>1, <3>2, <4>1
    <3>3. CASE ~SWLast(s, i) /\ ~SBHandshake(s)
      <4>1. s_w'[s] = s_w[s] /\ (s_bvalid'[s] <=> s_bvalid[s])  BY <2>1, <3>3
      <4>2. /\ wr_state'[s] = "WR_RESP" <=> wr_state[s] = "WR_RESP"
            /\ wr_state[s] = "WR_RESP" => owner'[s] = owner[s]
        BY <3>3, StateMoves
      <4> QED  BY <2>2, <4>1, <4>2
    <3> QED  BY <3>1, <3>2, <3>3
  <2> QED  BY <1>3, <2>3, <2>4 DEF SubAnswer
<1> QED  BY <1>2, <1>3

LEMMA SubOwnerClock ==
  ASSUME IInv, NEW i, Clock(i), NEW s \in Subs
  PROVE  SubOwner(s)'
<1>1. SubOwner(s) /\ SubBeats(s)  BY DEF IInv, SubInv
<1>2. CASE Takes(s)
  <2>1. PICK m \in Managers : m = Min(AwSel(s)) /\ awphase_accept(m) /\ m_dst[m] = s
    BY <1>2, Winner
  <2>2. wr_state'[s] = "WR_IN_PROGRESS" /\ owner'[s] = m
    BY <1>2, <2>1, StateMoves DEF Takes, NewOwner
  <2>3. wphase_state[m] \in {"ACCEPT_WRITES", "WAIT4SLV"}  BY <2>1, Accepted
  <2>4. m_dst'[m] = s  BY <2>1, <2>3, WriteStays DEF Quiet
  <2>5. wphase_state'[m] \in {"ACCEPT_AND_SEND_WRITES", "WAIT4DONE"}
    BY <2>1, <2>3, PhaseMoves DEF Quiet, Phases
  <2> QED  BY <2>2, <2>4, <2>5 DEF SubOwner
<1>3. CASE ~Takes(s) /\ wr_state[s] = "WR_IDLE"
  <2>1. wr_state'[s] = "WR_IDLE"  BY <1>3, StateMoves
  <2> QED  BY <2>1 DEF SubOwner
<1>4. CASE wr_state[s] # "WR_IDLE"
  <2>1. PICK m \in Managers : m = owner[s] /\ m_dst[m] = s  BY <1>1, <1>4 DEF SubOwner
  <2>2. owner'[s] = m  BY <1>4, <2>1, StateMoves
  <2>3. m_dst'[m] = s
    <3>1. ~Answered(m)  BY <1>4, <2>1 DEF Answered, Open
    <3> QED  BY <2>1, <3>1, WriteStays
  <2>4. wr_state'[s] \in {"WR_IDLE", "WR_IN_PROGRESS", "WR_RESP"}  BY StateMoves
  <2>5. Quiet(m) => Quiet(m)'  BY QuietStays
  <2>6. wr_state[s] = "WR_IN_PROGRESS" =>
          wphase_state[m] \in {"ACCEPT_AND_SEND_WRITES", "WAIT4DONE"} \/ Quiet(m)
    BY <1>1, <2>1 DEF SubOwner
  <2>7. wr_state'[s] = "WR_IN_PROGRESS" =>
          wphase_state'[m] \in {"ACCEPT_AND_SEND_WRITES", "WAIT4DONE"} \/ Quiet(m)'
    <3> SUFFICES ASSUME wr_state'[s] = "WR_IN_PROGRESS", ~Quiet(m)
                 PROVE  wphase_state'[m] \in {"ACCEPT_AND_SEND_WRITES", "WAIT4DONE"} \/ Quiet(m)'
      BY <2>5
    <3>1. wr_state[s] = "WR_IN_PROGRESS"  BY <1>4, StateMoves
    <3>2. wphase_state[m] \in {"ACCEPT_AND_SEND_WRITES", "WAIT4DONE"}  BY <2>6, <3>1
    <3>3. wphase_state'[m] \in {"ACCEPT_AND_SEND_WRITES", "WAIT4DONE", "RDY"}
      BY <3>2, PhaseMoves DEF Phases
    <3>4. wphase_state'[m] = "RDY" => Quiet(m)'
      <4>1. MgrRests(m)'  BY MgrClock DEF MgrInv
      <4>2. m_aw'[m] = None  BY AddressMoves
      <4> QED  BY <4>1, <4>2 DEF MgrRests, Quiet
    <3> QED  BY <3>3, <3>4
  <2>8. wr_state'[s] = "WR_RESP" => Quiet(m)'
    <3>1. CASE wr_state[s] = "WR_RESP"  BY <1>1, <2>1, <2>5, <3>1 DEF SubOwner
    <3>2. CASE wr_state[s] = "WR_IN_PROGRESS" /\ SWLast(s, i) /\ ~Quiet(m)
      <4>1. /\ sw_fifo[s] \in Seq(Beat) /\ sw_fifo[s] # <<>> /\ Head(sw_fifo[s]).last
            /\ MarkedOf(sw_fifo[s], m, Sent(m))
        BY <1>1, <2>1, <3>2 DEF SubBeats, SWLast, SWHandshake, rdAck
      <4>2. Sent(m) \in BOOLEAN  BY DEF Sent
      <4>3. Sent(m)  BY <4>1, <4>2, MarkedOfTail
      <4>4. wphase_state[m] \in {"ACCEPT_AND_SEND_WRITES", "WAIT4DONE"}  BY <2>6, <3>2
      <4>5. wphase_state[m] = "WAIT4DONE" /\ w_fifo[m] = <<>>
        BY <4>3, <4>4, Sending DEF Sent
      <4>6. wphase_state'[m] = "RDY"  BY <4>5, PhaseMoves DEF Phases
      <4>7. MgrRests(m)'  BY MgrClock DEF MgrInv
      <4>8. m_aw'[m] = None  BY AddressMoves
      <4> QED  BY <4>6, <4>7, <4>8 DEF MgrRests, Quiet
    <3> QED  BY <1>4, <2>5, <3>1, <3>2, StateMoves
  <2> QED  BY <2>1, <2>2, <2>3, <2>4, <2>7, <2>8 DEF SubOwner
<1> QED  BY <1>2, <1>3, <1>4

LEMMA AnsweredStays ==
  ASSUME IInv, NEW i, Clock(i), NEW m \in Managers, Answered(m), m_dst'[m] = m_dst[m]
  PROVE  Answered(m)' /\ (SBHandshake(m_dst[m]) => owner[m_dst[m]] # m)
<1> DEFINE s == m_dst[m]
<1>1. Quiet(m) /\ s \in Subs /\ ~Open(s, m)  BY Phase DEF Answered
<1>2. Quiet(m)' /\ ~awphase_accept(m)  BY <1>1, QuietStays
<1>3. NewOwner(s) = m => wr_state'[s] = "WR_IDLE"
  <2>1. Takes(s) => NewOwner(s) # m  BY <1>1, <1>2, Winner DEF NewOwner
  <2>2. NewOwner(s) = m => wr_state[s] = "WR_IDLE" /\ ~Takes(s)
    BY <1>1, <2>1 DEF NewOwner, Open
  <2> QED  BY <1>1, <2>2, StateMoves
<1>4. ~(wr_state'[s] # "WR_IDLE" /\ owner'[s] = m)  BY <1>1, <1>3, StateMoves
<1>5. Answered(m)'  BY <1>1, <1>2, <1>4 DEF Answered, Open
<1>6. SBHandshake(s) => owner[s] # m  BY <1>1, StateMoves DEF Open
<1> QED  BY <1>5, <1>6

LEMMA RespClock ==
  ASSUME IInv, NEW i, Clock(i)
  PROVE  RespInv'
<1>1. ASSUME NEW s \in Subs PROVE RespSub(s)'
  <2> SUFFICES ASSUME sb_fifo'[s] # <<>>
               PROVE  \E m \in Managers : /\ sb_fifo'[s] = <<m>> /\ m_dst'[m] = s
                                          /\ b_fifo'[m] = <<>> /\ Answered(m)'
    BY DEF RespSub
  <2>1. SBHandshake(s) /\ sb_fifo'[s] = <<owner[s]>>  BY ResponsesMove
  <2>2. wr_state[s] = "WR_RESP" /\ wr_state'[s] = "WR_IDLE"  BY <2>1, StateMoves
  <2>3. PICK m \in Managers : m = owner[s] /\ m_dst[m] = s /\ Quiet(m)
    BY <2>2 DEF IInv, SubInv, SubOwner
  <2>4. ~Answered(m)  BY <2>2, <2>3 DEF Answered, Open
  <2>5. b_fifo[m] = <<>> /\ BSel(m) = {}  BY <2>4, Responses
  <2>6. b_fifo'[m] = <<>> /\ m_dst'[m] = s /\ Quiet(m)'
    BY <2>3, <2>4, <2>5, AnswersMove, WriteStays, QuietStays
  <2>7. Answered(m)'  BY <2>2, <2>6, Sizes DEF Answered, Open
  <2> QED  BY <2>1, <2>3, <2>6, <2>7
<1>2. ASSUME NEW m \in Managers PROVE RespMgr(m)'
  <2>1. ASSUME Answered(m), m_dst'[m] = m_dst[m]
        PROVE  Answered(m)' /\ sb_fifo'[m_dst[m]] # <<m>> /\ m_dst[m] \in Subs
    <3>1. /\ Answered(m)'
          /\ SBHandshake(m_dst[m]) => owner[m_dst[m]] # m
      BY <2>1, AnsweredStays
    <3>2. m_dst[m] \in Subs  BY <2>1, Phase DEF Answered
    <3>3. sb_fifo'[m_dst[m]] = <<>> \/ (sb_fifo'[m_dst[m]] = <<owner[m_dst[m]]>>
                                        /\ owner[m_dst[m]] # m)
      BY <3>1, <3>2, ResponsesMove
    <3> QED  BY <3>1, <3>2, <3>3, Ones
  <2>2. b_fifo'[m] # <<>> => /\ b_fifo'[m] = <<m_dst'[m]>> /\ Answered(m)'
                             /\ sb_fifo'[m_dst'[m]] # <<m>>
    <3> SUFFICES ASSUME b_fifo'[m] # <<>>
                 PROVE  /\ b_fifo'[m] = <<m_dst'[m]>> /\ Answered(m)'
                        /\ sb_fifo'[m_dst'[m]] # <<m>>
      OBVIOUS
    <3>1. Answered(m) /\ m_dst'[m] = m_dst[m] /\ b_fifo'[m] = <<m_dst[m]>>
      <4>1. CASE BSel(m) # {}  BY <4>1, Responses, AnswersMove
      <4>2. CASE BSel(m) = {}  BY <4>2, Responses, AnswersMove
      <4> QED  BY <4>1, <4>2
    <3> QED  BY <2>1, <3>1
  <2>3. ASSUME Answered(m)' PROVE Response(m)'
    <3>1. m_dst'[m] # None /\ Quiet(m)' /\ ~Open(m_dst[m], m)' /\ m_dst'[m] = m_dst[m]
      BY <2>3, AddressMoves DEF Answered
    <3>2. m_dst[m] \in Subs  BY <3>1, Phase
    <3>3. CASE Answered(m)
      <4>1. Response(m)  BY <3>3 DEF IInv, RespInv, RespMgr
      <4>2. CASE b_fifo[m] # <<>>  BY <3>1, <4>2, AnswersMove DEF Response
      <4>3. CASE sb_fifo[m_dst[m]] = <<m>>
        <5>1. BSel(m) # {}  BY <3>2, <4>3, Responses
        <5>2. b_fifo'[m] = <<m_dst[m]>>  BY <5>1, AnswersMove
        <5> QED  BY <5>2, Ones DEF Response
      <4> QED  BY <4>1, <4>2, <4>3 DEF Response
    <3>4. CASE ~Answered(m)
      <4>1. Open(m_dst[m], m)
        <5>1. CASE Quiet(m)  BY <3>1, <3>4, <5>1 DEF Answered
        <5>2. CASE wphase_state[m] = "WAIT4DONE"
          <6>1. owner[m_dst[m]] = m /\ wr_state[m_dst[m]] = "WR_IN_PROGRESS"
            BY <5>2, Sending
          <6> QED  BY <6>1 DEF Open
        <5> QED  BY <3>1, <5>1, <5>2, PhaseMoves DEF Quiet
      <4>2. owner'[m_dst[m]] = m  BY <3>2, <4>1, StateMoves DEF Open
      <4>3. wr_state'[m_dst[m]] = "WR_IDLE"  BY <3>1, <4>2 DEF Open
      <4>4. SBHandshake(m_dst[m])  BY <3>2, <4>1, <4>3, StateMoves DEF Open
      <4>5. sb_fifo'[m_dst[m]] = <<m>>  BY <3>2, <4>1, <4>4, ResponsesMove DEF Open
      <4> QED  BY <3>1, <4>5 DEF Response
    <3> QED  BY <3>3, <3>4
  <2> QED  BY <2>2, <2>3 DEF RespMgr
<1> QED  BY <1>1, <1>2 DEF RespInv

LEMMA ClockPreserves ==
  ASSUME IInv, NEW i, Clock(i)
  PROVE  IInv'
<1>1. Domains'  BY DEF Domains, Clock, EnvEdge
<1>2. SubInv'  BY SubAddrClock, SubBeatsClock, SubAnswerClock, SubOwnerClock DEF SubInv
<1> QED  BY <1>1, <1>2, MgrClock, RespClock DEF IInv

-----------------------------------------------------------------------------
(* The invariant                                                           *)

LEMMA Kept ==
  ASSUME IInv, NEW m \in Managers, UNCHANGED <<mgrVars, subVars, owner>>,
         m_dst'[m] = m_dst[m], m_aw'[m] = m_aw[m], m_beats'[m] = m_beats[m]
  PROVE  /\ MgrBeats(m)' /\ MgrRests(m)' /\ MgrWaits(m)' /\ MgrSends(m)' /\ RespMgr(m)'
         /\ Answered(m)' <=> Answered(m)
         /\ Quiet(m)' <=> Quiet(m)
         /\ Sent(m)' <=> Sent(m)
<1>1. MgrBeats(m) /\ MgrRests(m) /\ MgrWaits(m) /\ MgrSends(m) /\ RespMgr(m)
  BY DEF IInv, MgrInv, RespInv
<1>2. MgrBeats(m)' /\ MgrRests(m)'  BY <1>1 DEF MgrBeats, MgrRests, mgrVars
<1>3. MgrWaits(m)' /\ MgrSends(m)'  BY <1>1 DEF MgrWaits, MgrSends, mgrVars, subVars
<1>4. (Quiet(m)' <=> Quiet(m)) /\ (Sent(m)' <=> Sent(m))  BY DEF Quiet, Sent, mgrVars
<1>5. Answered(m)' <=> Answered(m)  BY <1>4 DEF Answered, Open, subVars
<1>6. RespMgr(m)'  BY <1>1, <1>5 DEF RespMgr, Response, mgrVars, subVars
<1> QED  BY <1>2, <1>3, <1>4, <1>5, <1>6

LEMMA Started ==
  ASSUME IInv, NEW m \in Managers, NEW s \in Subs, NEW beats \in 1 .. MaxBeats,
         StartWrite(m, s, beats)
  PROVE  IInv'
<1>1. /\ m_dst[m] = None /\ Quiet(m)
      /\ UNCHANGED <<mgrVars, subVars, defVars, m_wvalid, s_aw, s_w, s_bvalid, owner>>
  BY Phase DEF StartWrite
<1>2. m_dst'[m] = s /\ m_aw'[m] = s /\ m_beats'[m] = beats
  BY DEF StartWrite, IInv, Domains
<1>3. \A n \in Managers \ {m} :
        m_dst'[n] = m_dst[n] /\ m_aw'[n] = m_aw[n] /\ m_beats'[n] = m_beats[n]
  BY DEF StartWrite, IInv, Domains
<1>4. beats \in Nat \ {0}  BY SizeAssumption
<1>5. Domains'  BY <1>1 DEF StartWrite, IInv, Domains
<1>6. /\ MgrTypes(m)' /\ MgrBeats(m)' /\ MgrRests(m)' /\ MgrWaits(m)' /\ MgrSends(m)'
      /\ RespMgr(m)' /\ ~Quiet(m)'
  <2>1. wphase_state'[m] = "RDY" /\ w_fifo'[m] = <<>> /\ aw_fifo'[m] = <<>>
    BY <1>1 DEF Quiet, mgrVars
  <2>2. s # None  BY Sizes
  <2>3. b_fifo'[m] = <<>>
    <3>1. b_fifo[m] = <<>>  BY <1>1, Responses DEF Answered
    <3> QED  BY <1>1, <3>1 DEF mgrVars
  <2>4. MgrTypes(m)'  BY <1>1, <1>2, <1>4, <2>1, <2>2 DEF MgrTypes, Phases
  <2>5. MgrBeats(m)'
    <3>1. Len(<<>>) = 0 /\ <<>> \in Seq(BOOLEAN)  BY Ones
    <3> QED  BY <2>1, <3>1 DEF MgrBeats, Marked
  <2>6. MgrRests(m)' /\ MgrWaits(m)' /\ MgrSends(m)'
    BY <1>2, <1>4, <2>1, <2>2 DEF MgrRests, MgrWaits, MgrSends
  <2>7. ~Quiet(m)'  BY <1>2, <1>4 DEF Quiet
  <2>8. RespMgr(m)'  BY <2>3, <2>7 DEF RespMgr, Answered
  <2> QED  BY <2>4, <2>5, <2>6, <2>7, <2>8
<1>7. \A n \in Managers \ {m} :
        /\ MgrBeats(n)' /\ MgrRests(n)' /\ MgrWaits(n)' /\ MgrSends(n)' /\ RespMgr(n)'
        /\ Answered(n)' <=> Answered(n)
        /\ Quiet(n)' <=> Quiet(n)
        /\ Sent(n)' <=> Sent(n)
  BY <1>1, <1>3, Kept
<1>8. MgrInv'
  <2>1. ASSUME NEW n \in Managers \ {m} PROVE MgrTypes(n)'
    <3>1. MgrTypes(n)  BY DEF IInv, MgrInv
    <3> QED  BY <1>1, <1>3, <1>7, <3>1 DEF MgrTypes, mgrVars
  <2> QED  BY <1>6, <1>7, <2>1 DEF MgrInv
<1>9. SubInv'
  <2> SUFFICES ASSUME NEW t \in Subs
               PROVE  SubAddr(t)' /\ SubBeats(t)' /\ SubAnswer(t)' /\ SubOwner(t)'
    BY DEF SubInv
  <2>1. SubAddr(t) /\ SubBeats(t) /\ SubAnswer(t) /\ SubOwner(t)  BY DEF IInv, SubInv
  <2>2. wr_state[t] # "WR_IDLE" => owner[t] \in Managers \ {m}
    BY <1>1, <2>1, Sizes DEF SubOwner
  <2>3. SubAddr(t)' /\ SubAnswer(t)'
    BY <1>1, <2>1 DEF SubAddr, SubAnswer, subVars, defVars
  <2>4. SubBeats(t)'
    <3>1. CASE wr_state[t] = "WR_IN_PROGRESS"
      <4>1. owner'[t] = owner[t] /\ owner[t] \in Managers \ {m}  BY <1>1, <2>2, <3>1
      <4>2. Sent(owner[t])' <=> Sent(owner[t])
        <5>1. PICK o \in Managers \ {m} : o = owner[t]  BY <4>1
        <5>2. (m_beats'[o] = 0 /\ w_fifo'[o] = <<>>) <=> (m_beats[o] = 0 /\ w_fifo[o] = <<>>)
          BY <1>7 DEF Sent
        <5> QED  BY <4>1, <5>1, <5>2 DEF Sent
      <4>3. MarkedOf(sw_fifo[t], owner[t], Sent(owner[t]))  BY <2>1, <3>1 DEF SubBeats
      <4>4. sw_fifo'[t] = sw_fifo[t] /\ wr_state'[t] = wr_state[t]  BY <1>1 DEF subVars
      <4>5. MarkedOf(sw_fifo'[t], owner'[t], Sent(owner[t])')
        BY <4>1, <4>2, <4>3, <4>4 DEF MarkedOf
      <4> QED  BY <2>1, <3>1, <4>2, <4>4, <4>5 DEF SubBeats
    <3>2. CASE wr_state[t] # "WR_IN_PROGRESS"
      BY <1>1, <2>1, <3>2 DEF SubBeats, subVars
    <3> QED  BY <3>1, <3>2
  <2>5. SubOwner(t)'
    <3>1. CASE wr_state[t] = "WR_IDLE"  BY <1>1, <2>1, <3>1 DEF SubOwner, subVars
    <3>2. CASE wr_state[t] # "WR_IDLE"
      <4>1. PICK o \in Managers \ {m} : o = owner[t]  BY <2>2, <3>2
      <4>2. m_dst'[o] = m_dst[o] /\ (Quiet(o)' <=> Quiet(o)) /\ owner'[t] = o
        BY <1>1, <1>3, <1>7, <4>1
      <4>3. wr_state'[t] = wr_state[t] /\ wphase_state'[o] = wphase_state[o]
        BY <1>1 DEF subVars, mgrVars
      <4> QED  BY <2>1, <4>1, <4>2, <4>3 DEF SubOwner
    <3> QED  BY <3>1, <3>2
  <2> QED  BY <2>3, <2>4, <2>5
<1>10. RespInv'
  <2>1. ASSUME NEW t \in Subs PROVE RespSub(t)'
    <3> SUFFICES ASSUME sb_fifo'[t] # <<>>
                 PROVE  \E n \in Managers : /\ sb_fifo'[t] = <<n>> /\ m_dst'[n] = t
                                            /\ b_fifo'[n] = <<>> /\ Answered(n)'
      BY DEF RespSub
    <3>1. sb_fifo'[t] = sb_fifo[t] /\ b_fifo' = b_fifo  BY <1>1 DEF subVars, mgrVars
    <3>2. PICK n \in Managers : /\ sb_fifo[t] = <<n>> /\ m_dst[n] = t
                                /\ b_fifo[n] = <<>> /\ Answered(n)
      BY <3>1 DEF IInv, RespInv, RespSub
    <3>3. n # m  BY <1>1, <3>2, Sizes
    <3> QED  BY <1>3, <1>7, <3>1, <3>2, <3>3
  <2> QED  BY <1>6, <1>7, <2>1 DEF RespInv
<1> QED  BY <1>5, <1>8, <1>9, <1>10 DEF IInv

LEMMA Offered ==
  ASSUME IInv, NEW m \in Managers, OfferBeat(m)
  PROVE  IInv'
<1>1. UNCHANGED <<mgrVars, subVars, defVars, m_aw, m_beats, m_dst, s_aw, s_w, s_bvalid, owner>>
  BY DEF OfferBeat
<1>2. Domains'  BY <1>1 DEF OfferBeat, IInv, Domains
<1>3. MgrInv'
  <2> SUFFICES ASSUME NEW n \in Managers
               PROVE  /\ MgrTypes(n)' /\ MgrBeats(n)' /\ MgrRests(n)'
                      /\ MgrWaits(n)' /\ MgrSends(n)'
    BY DEF MgrInv
  <2>1. MgrBeats(n)' /\ MgrRests(n)' /\ MgrWaits(n)' /\ MgrSends(n)'  BY <1>1, Kept
  <2>2. MgrTypes(n)  BY DEF IInv, MgrInv
  <2>3. m_wvalid'[n] => n = m \/ m_wvalid[n]  BY DEF OfferBeat, IInv, Domains
  <2>4. MgrTypes(n)'  BY <1>1, <2>2, <2>3 DEF MgrTypes, Quiet, mgrVars, OfferBeat
  <2> QED  BY <2>1, <2>4
<1>4. SubInv'
  BY <1>1 DEF IInv, SubInv, SubAddr, SubBeats, SubAnswer, SubOwner, Sent, Quiet,
              mgrVars, subVars, defVars
<1>5. RespInv'
  BY <1>1 DEF IInv, RespInv, RespSub, RespMgr, Response, Answered, Open, Quiet, mgrVars, subVars
<1> QED  BY <1>2, <1>3, <1>4, <1>5 DEF IInv

LEMMA Responded ==
  ASSUME IInv, NEW s \in ExtSubs, Respond(s)
  PROVE  IInv'
<1>1. UNCHANGED <<mgrVars, subVars, defVars, m_aw, m_beats, m_wvalid, m_dst, s_aw, s_w, owner>>
  BY DEF Respond
<1>2. Domains'  BY <1>1 DEF Respond, IInv, Domains
<1>3. MgrInv'
  BY <1>1 DEF IInv, MgrInv, MgrTypes, MgrBeats, MgrRests, MgrWaits, MgrSends, Quiet,
              mgrVars, subVars
<1>4. SubInv'
  <2> SUFFICES ASSUME NEW t \in Subs
               PROVE  SubAddr(t)' /\ SubBeats(t)' /\ SubAnswer(t)' /\ SubOwner(t)'
    BY DEF SubInv
  <2>1. SubAddr(t) /\ SubBeats(t) /\ SubAnswer(t) /\ SubOwner(t)  BY DEF IInv, SubInv
  <2>2. SubAddr(t)' /\ SubBeats(t)' /\ SubOwner(t)'
    BY <1>1, <2>1 DEF SubAddr, SubBeats, SubOwner, Sent, Quiet, mgrVars, subVars, defVars
  <2>3. SubAnswer(t)'
    <3>1. CASE t = s
      <4>1. t # DefSub /\ s_aw[t] # None /\ s_w[t] # None  BY <3>1 DEF Respond, ExtSubs
      <4>2. wr_state[t] = "WR_RESP"  BY <2>1, <4>1 DEF SubAnswer
      <4> QED  BY <1>1, <2>1, <4>1, <4>2 DEF SubAnswer, subVars
    <3>2. CASE t # s
      <4>1. s_bvalid'[t] = s_bvalid[t]  BY <3>2 DEF Respond, IInv, Domains
      <4> QED  BY <1>1, <2>1, <4>1 DEF SubAnswer, subVars, defVars
    <3> QED  BY <3>1, <3>2
  <2> QED  BY <2>2, <2>3
<1>5. RespInv'
  BY <1>1 DEF IInv, RespInv, RespSub, RespMgr, Response, Answered, Open, Quiet, mgrVars, subVars
<1> QED  BY <1>2, <1>3, <1>4, <1>5 DEF IInv

LEMMA Initially == Init => IInv
<1> SUFFICES ASSUME Init PROVE IInv  OBVIOUS
<1>1. Len(<<>>) = 0 /\ <<>> \in Seq(BOOLEAN) /\ <<>> \in Seq(Beat)  BY Ones
<1>2. Domains  BY DEF Init, Domains
<1>3. MgrInv
  <2> SUFFICES ASSUME NEW m \in Managers
               PROVE  MgrTypes(m) /\ MgrBeats(m) /\ MgrRests(m) /\ MgrWaits(m) /\ MgrSends(m)
    BY DEF MgrInv
  <2>1. MgrTypes(m)  BY DEF Init, MgrTypes, Phases, Quiet
  <2>2. MgrBeats(m)  BY <1>1 DEF Init, MgrBeats, Marked
  <2> QED  BY <2>1, <2>2 DEF Init, MgrRests, MgrWaits, MgrSends
<1>4. SubInv
  <2> SUFFICES ASSUME NEW s \in Subs
               PROVE  SubAddr(s) /\ SubBeats(s) /\ SubAnswer(s) /\ SubOwner(s)
    BY DEF SubInv
  <2>1. wr_state[s] = "WR_IDLE" /\ saw_fifo[s] = <<>> /\ sw_fifo[s] = <<>>  BY DEF Init
  <2>2. s # DefSub => s_aw[s] = None /\ s_w[s] = None /\ ~s_bvalid[s]  BY DEF Init, ExtSubs
  <2>3. awready_sub /\ ~bvalid_sub  BY DEF Init
  <2> QED  BY <1>1, <2>1, <2>2, <2>3 DEF SubAddr, SubBeats, SubAnswer, SubOwner
<1>5. RespInv
  BY DEF Init, RespInv, RespSub, RespMgr, Response, Answered
<1> QED  BY <1>2, <1>3, <1>4, <1>5 DEF IInv

LEMMA Idles == ASSUME IInv, UNCHANGED vars PROVE IInv'
<1> USE DEF vars, mgrVars, subVars, defVars, envVars
<1>1. Domains'  BY DEF IInv, Domains
<1>2. MgrInv'
  BY DEF IInv, MgrInv, MgrTypes, MgrBeats, MgrRests, MgrWaits, MgrSends, Quiet
<1>3. SubInv'
  BY DEF IInv, SubInv, SubAddr, SubBeats, SubAnswer, SubOwner, Sent, Quiet
<1>4. RespInv'
  BY DEF IInv, RespInv, RespSub, RespMgr, Response, Answered, Open, Quiet
<1> QED  BY <1>1, <1>2, <1>3, <1>4 DEF IInv

LEMMA Steps == IInv /\ [Next]_vars => IInv'
<1> SUFFICES ASSUME IInv, [Next]_vars PROVE IInv'  OBVIOUS
<1>1. ASSUME NEW i \in Inputs, Clock(i) PROVE IInv'  BY <1>1, ClockPreserves
<1>2. ASSUME NEW m \in Managers, NEW s \in Subs, NEW beats \in 1 .. MaxBeats,
             StartWrite(m, s, beats)
      PROVE  IInv'
  BY <1>2, Started
<1>3. ASSUME NEW m \in Managers, OfferBeat(m) PROVE IInv'  BY <1>3, Offered
<1>4. ASSUME NEW s \in ExtSubs, Respond(s) PROVE IInv'  BY <1>4, Responded
<1>5. ASSUME UNCHANGED vars PROVE IInv'  BY <1>5, Idles
<1> QED  BY <1>1, <1>2, <1>3, <1>4, <1>5 DEF Next

\* The invariant the results below rest on: in every state of the write path
\* the interfaces agree about whose write is where, how much of it has passed
\* and where its response is.
THEOREM Invariance == Spec => []IInv
<1> QED  BY Initially, Steps, PTL DEF Spec

-----------------------------------------------------------------------------
(* Beats and responses keep to their write                                 *)

LEMMA Owned == IInv => OwnBeats
<1> SUFFICES ASSUME IInv PROVE OwnBeats  OBVIOUS
<1>1. ASSUME NEW s \in Subs
      PROVE  /\ \A k \in 1 .. Len(saw_fifo[s]) : saw_fifo[s][k] = owner[s]
             /\ \A k \in 1 .. Len(sw_fifo[s]) : sw_fifo[s][k].mgr = owner[s]
             /\ s \in ExtSubs /\ s_aw[s] # None => s_aw[s] = owner[s]
             /\ s \in ExtSubs /\ s_w[s] # None => s_w[s] = owner[s]
  <2>1. SubAddr(s) /\ SubBeats(s) /\ SubAnswer(s)  BY DEF IInv, SubInv
  <2>2. saw_fifo[s] = <<>> \/ saw_fifo[s] = <<owner[s]>>  BY <2>1 DEF SubAddr
  <2>3. \A k \in 1 .. Len(saw_fifo[s]) : saw_fifo[s][k] = owner[s]
    <3>1. CASE saw_fifo[s] = <<>>  BY <3>1, Ones
    <3>2. CASE saw_fifo[s] = <<owner[s]>>  BY <3>2
    <3> QED  BY <2>2, <3>1, <3>2
  <2>4. \A k \in 1 .. Len(sw_fifo[s]) : sw_fifo[s][k].mgr = owner[s]
    <3>1. CASE wr_state[s] = "WR_IN_PROGRESS"  BY <2>1, <3>1 DEF SubBeats, MarkedOf
    <3>2. CASE wr_state[s] # "WR_IN_PROGRESS"  BY <2>1, <3>2, Ones DEF SubBeats
    <3> QED  BY <3>1, <3>2
  <2>5. /\ s \in ExtSubs /\ s_aw[s] # None => s_aw[s] = owner[s]
        /\ s \in ExtSubs /\ s_w[s] # None => s_w[s] = owner[s]
    BY <2>1 DEF SubAddr, SubAnswer, ExtSubs
  <2> QED  BY <2>3, <2>4, <2>5
<1>2. ASSUME NEW m \in Managers,
             wphase_state[m] \in {"ACCEPT_AND_SEND_WRITES", "WAIT4DONE"}
      PROVE  owner[wreq_hld[m]] = m /\ wr_state[wreq_hld[m]] = "WR_IN_PROGRESS"
  BY <1>2, Sending
<1>3. ASSUME NEW m \in Managers
      PROVE  /\ \A k \in 1 .. Len(b_fifo[m]) : b_fifo[m][k] = m_dst[m]
             /\ BSel(m) \subseteq {m_dst[m]}
             /\ Len(b_fifo[m]) + Cardinality(BSel(m)) <= 1
  <2>1. CASE BSel(m) # {}
    <3>1. BSel(m) = {m_dst[m]} /\ b_fifo[m] = <<>>  BY <2>1, Responses
    <3>2. Cardinality({m_dst[m]}) = 1  BY FS_Singleton
    <3> QED  BY <3>1, <3>2, Ones
  <2>2. CASE BSel(m) = {}
    <3>1. Cardinality(BSel(m)) = 0  BY <2>2, FS_EmptySet
    <3>2. b_fifo[m] = <<>> \/ b_fifo[m] = <<m_dst[m]>>  BY Responses
    <3>3. CASE b_fifo[m] = <<>>  BY <2>2, <3>1, <3>3, Ones
    <3>4. CASE b_fifo[m] = <<m_dst[m]>>  BY <2>2, <3>1, <3>4
    <3> QED  BY <3>2, <3>3, <3>4
  <2> QED  BY <2>1, <2>2
<1> QED  BY <1>1, <1>2, <1>3 DEF OwnBeats

\* Whatever the arbiters, FIFOs and READY lines do, a beat reaches the
\* subordinate that accepted its manager's address, while that write is open
\* there, and a response reaches the manager that waits for it.
THEOREM BeatsOwned == Spec => []OwnBeats
<1> QED  BY Invariance, Owned, PTL

-----------------------------------------------------------------------------
(* The fabric implements the service                                       *)

\* The phase of every manager's write, in the terms of the invariant.
Table ==
  \A m \in Managers :
    /\ m_dst[m] = None => WritePhase(m) = "idle" /\ ~Answered(m)
    /\ m_dst[m] # None => m_dst[m] \in Subs
    /\ Answered(m) => WritePhase(m) = "answered"
    /\ m_dst[m] # None /\ ~Answered(m) =>
         /\ owner[m_dst[m]] = m /\ wr_state[m_dst[m]] = "WR_IN_PROGRESS" =>
              WritePhase(m) = "open"
         /\ owner[m_dst[m]] = m /\ wr_state[m_dst[m]] = "WR_RESP" => WritePhase(m) = "taken"
         /\ ~Open(m_dst[m], m) => WritePhase(m) = "waiting"
    /\ m_dst[m] # None =>
         wr_state[m_dst[m]] \in {"WR_IDLE", "WR_IN_PROGRESS", "WR_RESP"}

LEMMA PhaseTable == IInv => Table
<1> SUFFICES ASSUME IInv, NEW m \in Managers
             PROVE  /\ m_dst[m] = None => WritePhase(m) = "idle" /\ ~Answered(m)
                    /\ m_dst[m] # None => m_dst[m] \in Subs
                    /\ Answered(m) => WritePhase(m) = "answered"
                    /\ m_dst[m] # None /\ ~Answered(m) =>
                         /\ owner[m_dst[m]] = m /\ wr_state[m_dst[m]] = "WR_IN_PROGRESS" =>
                              WritePhase(m) = "open"
                         /\ owner[m_dst[m]] = m /\ wr_state[m_dst[m]] = "WR_RESP" =>
                              WritePhase(m) = "taken"
                         /\ ~Open(m_dst[m], m) => WritePhase(m) = "waiting"
                    /\ m_dst[m] # None =>
                         wr_state[m_dst[m]] \in {"WR_IDLE", "WR_IN_PROGRESS", "WR_RESP"}
  BY DEF Table
<1>1. m_dst[m] # None => m_dst[m] \in Subs  BY Phase
<1>2. m_dst[m] # None => wr_state[m_dst[m]] \in {"WR_IDLE", "WR_IN_PROGRESS", "WR_RESP"}
  BY <1>1 DEF IInv, SubInv, SubOwner
<1>3. b_fifo[m] # <<>> \/ BSel(m) # {} <=> Answered(m)
  <2>1. b_fifo[m] # <<>> \/ BSel(m) # {} => Answered(m)  BY Responses
  <2>2. Answered(m) => b_fifo[m] # <<>> \/ BSel(m) # {}
    <3> SUFFICES ASSUME Answered(m), b_fifo[m] = <<>> PROVE BSel(m) # {}  OBVIOUS
    <3>1. sb_fifo[m_dst[m]] = <<m>>  BY DEF IInv, RespInv, RespMgr, Response
    <3>2. m_dst[m] \in Subs  BY <1>1 DEF Answered
    <3> QED  BY <3>1, <3>2, Responses
  <2> QED  BY <2>1, <2>2
<1> QED  BY <1>1, <1>2, <1>3 DEF WritePhase, Answered, Open

LEMMA PhaseTableNext == IInv' => Table'
<1> QED  BY PhaseTable, PTL

\* An edge moves a write by at most one phase.
LEMMA ClockServes ==
  ASSUME IInv, NEW i \in Inputs, Clock(i), NEW m \in Managers
  PROVE  Service!Step(m) \/ Service!Stay(m)
<1> DEFINE s == m_dst[m]
           phase == [n \in Managers |-> WritePhase(n)]
<1>1. IInv' /\ Table /\ Table'  BY ClockPreserves, PhaseTable, PhaseTableNext
<1>2. /\ phase[m] = WritePhase(m) /\ phase'[m] = WritePhase(m)'
      /\ \A n \in Managers : phase[n] = WritePhase(n) /\ phase'[n] = WritePhase(n)'
  OBVIOUS
<1>3. s # None => s \in Subs  BY Phase
<1>4. CASE m_dst[m] = None
  <2>1. ~Answered(m) /\ WritePhase(m) = "idle"  BY <1>1, <1>4 DEF Table
  <2>2. m_dst'[m] = None  BY <1>4, <2>1, WriteStays
  <2>3. WritePhase(m)' = "idle"  BY <1>1, <2>2 DEF Table
  <2> QED  BY <1>2, <1>4, <2>1, <2>2, <2>3 DEF Service!Stay
<1>5. CASE Answered(m)
  <2>1. WritePhase(m) = "answered"  BY <1>1, <1>5 DEF Table
  <2>2. CASE m_dst'[m] = m_dst[m]
    <3>1. Answered(m)'  BY <1>5, <2>2, AnsweredStays
    <3>2. WritePhase(m)' = "answered"  BY <1>1, <3>1 DEF Table
    <3> QED  BY <1>2, <2>1, <2>2, <3>2 DEF Service!Stay
  <2>3. CASE m_dst'[m] # m_dst[m]
    <3>1. m_dst'[m] = None  BY <2>3, AddressMoves
    <3>2. WritePhase(m)' = "idle"  BY <1>1, <3>1 DEF Table
    <3> QED  BY <1>2, <2>1, <3>1, <3>2 DEF Service!Step
  <2> QED  BY <2>2, <2>3
<1>6. CASE m_dst[m] # None /\ ~Answered(m) /\ Open(s, m)
  <2>1. s \in Subs /\ m_dst'[m] = s /\ owner[s] = m /\ wr_state[s] # "WR_IDLE"
    BY <1>3, <1>6, WriteStays DEF Open
  <2>2. owner'[s] = m  BY <2>1, StateMoves
  <2>3. CASE wr_state[s] = "WR_IN_PROGRESS"
    <3>1. WritePhase(m) = "open"  BY <1>1, <1>6, <2>1, <2>3 DEF Table
    <3>2. wr_state'[s] \in {"WR_IN_PROGRESS", "WR_RESP"}  BY <2>1, <2>3, StateMoves
    <3>3. ~Answered(m)'  BY <2>1, <2>2, <3>2 DEF Answered, Open
    <3>4. WritePhase(m)' \in {"open", "taken"}
      BY <1>1, <1>6, <2>1, <2>2, <3>2, <3>3 DEF Table
    <3> QED  BY <1>2, <2>1, <3>1, <3>4 DEF Service!Step, Service!Stay
  <2>4. CASE wr_state[s] = "WR_RESP"
    <3>1. WritePhase(m) = "taken"  BY <1>1, <1>6, <2>1, <2>4 DEF Table
    <3>2. wr_state'[s] \in {"WR_IDLE", "WR_RESP"}  BY <2>1, <2>4, StateMoves
    <3>3. CASE wr_state'[s] = "WR_RESP"
      <4>1. ~Answered(m)'  BY <2>1, <2>2, <3>3 DEF Answered, Open
      <4>2. WritePhase(m)' = "taken"
        BY <1>1, <1>6, <2>1, <2>2, <3>3, <4>1 DEF Table
      <4> QED  BY <1>2, <2>1, <3>1, <4>2 DEF Service!Stay
    <3>4. CASE wr_state'[s] = "WR_IDLE"
      <4>1. Quiet(m)
        <5>1. SubOwner(s)  BY <2>1 DEF IInv, SubInv
        <5> QED  BY <2>1, <2>4, <5>1 DEF SubOwner
      <4>2. Quiet(m)'  BY <4>1, QuietStays
      <4>3. Answered(m)'  BY <1>6, <2>1, <3>4, <4>2 DEF Answered, Open
      <4>4. WritePhase(m)' = "answered"  BY <1>1, <4>3 DEF Table
      <4> QED  BY <1>2, <2>1, <3>1, <4>4 DEF Service!Step
    <3> QED  BY <3>2, <3>3, <3>4
  <2> QED  BY <1>1, <1>6, <2>1, <2>3, <2>4 DEF Table
<1>7. CASE m_dst[m] # None /\ ~Answered(m) /\ ~Open(s, m)
  <2>1. s \in Subs /\ m_dst'[m] = s /\ WritePhase(m) = "waiting" /\ ~Quiet(m)
    BY <1>1, <1>3, <1>7, WriteStays DEF Table, Answered
  <2>2. ~Quiet(m)' \/ awphase_accept(m)
    <3>1. wphase_state'[m] = "RDY" => Open(s, m)
      <4>1. wphase_state[m] = "WAIT4DONE" => Open(s, m)  BY Sending DEF Open
      <4> QED  BY <2>1, <4>1, PhaseMoves
    <3> QED  BY <1>7, <3>1 DEF Quiet
  <2>3. CASE awphase_accept(m)
    <3>1. Takes(s) /\ m = Min(AwSel(s)) /\ wr_state[s] = "WR_IDLE"
      BY <2>3, Accepted DEF Takes
    <3>2. owner'[s] = m /\ wr_state'[s] = "WR_IN_PROGRESS"
      BY <2>1, <3>1, StateMoves DEF NewOwner
    <3>3. ~Answered(m)'  BY <2>1, <3>2 DEF Answered, Open
    <3>4. WritePhase(m)' = "open"  BY <1>1, <1>7, <2>1, <3>2, <3>3 DEF Table
    <3>5. \A n \in Managers : ~Service!Holds(n, s)
      <4> SUFFICES ASSUME NEW n \in Managers, m_dst[n] = s
                   PROVE  WritePhase(n) \notin {"open", "taken"}
        BY <1>2 DEF Service!Holds
      <4>1. WritePhase(n) \in {"answered", "waiting"}
        BY <1>1, <1>7, <3>1 DEF Table, Open
      <4> QED  BY <4>1
    <3>6. \A n \in Managers \ {m} : ~(m_dst'[n] = s /\ WritePhase(n)' \in {"open", "taken"})
      <4> SUFFICES ASSUME NEW n \in Managers \ {m}, m_dst'[n] = s
                   PROVE  WritePhase(n)' \notin {"open", "taken"}
        OBVIOUS
      <4>1. WritePhase(n)' \in {"answered", "waiting"}
        BY <1>1, <1>7, <3>2 DEF Table, Open
      <4> QED  BY <4>1
    <3>7. \A n \in Managers \ {m} : ~Service!Holds(n, m_dst[m])'
      BY <1>2, <2>1, <3>6 DEF Service!Holds
    <3> QED  BY <1>2, <2>1, <3>4, <3>5, <3>7 DEF Service!Step
  <2>4. CASE ~awphase_accept(m)
    <3>1. ~Open(s, m)'
      <4>1. Takes(s) => owner'[s] # m  BY <2>1, <2>4, StateMoves, Winner DEF NewOwner
      <4>2. ~Takes(s) => owner'[s] = owner[s]  BY <2>1, StateMoves DEF NewOwner
      <4>3. ~Takes(s) /\ wr_state[s] = "WR_IDLE" => wr_state'[s] = "WR_IDLE"
        BY <2>1, StateMoves
      <4> QED  BY <1>7, <2>1, <4>1, <4>2, <4>3 DEF Open
    <3>2. ~Answered(m)'  BY <2>2, <2>4 DEF Answered
    <3>3. WritePhase(m)' = "waiting"  BY <1>1, <1>7, <2>1, <3>1, <3>2 DEF Table
    <3> QED  BY <1>2, <2>1, <3>3 DEF Service!Stay
  <2> QED  BY <2>3, <2>4
<1> QED  BY <1>4, <1>5, <1>6, <1>7

LEMMA StartServes ==
  ASSUME IInv, NEW m \in Managers, NEW s \in Subs, NEW beats \in 1 .. MaxBeats,
         StartWrite(m, s, beats), NEW n \in Managers
  PROVE  Service!Step(n) \/ Service!Stay(n)
<1> DEFINE phase == [k \in Managers |-> WritePhase(k)]
<1>1. Table /\ Table'
  <2>1. IInv'  BY Started
  <2> QED  BY <2>1, PhaseTable, PhaseTableNext
<1>2. phase[n] = WritePhase(n) /\ phase'[n] = WritePhase(n)'  OBVIOUS
<1>3. m_dst[m] = None /\ UNCHANGED <<mgrVars, subVars, owner>>  BY DEF StartWrite
<1>4. CASE n = m
  <2>1. m_dst'[m] = s /\ m_beats'[m] = beats  BY DEF StartWrite, IInv, Domains
  <2>2. ~Answered(m)'  BY <2>1, SizeAssumption DEF Answered, Quiet
  <2>3. ~(owner[s] = m /\ wr_state[s] # "WR_IDLE")
    <3>1. SubOwner(s)  BY DEF IInv, SubInv
    <3> QED  BY <1>3, <3>1, Sizes DEF SubOwner
  <2>4. wr_state' = wr_state /\ owner' = owner  BY <1>3 DEF subVars
  <2>5. ~(owner'[s] = m /\ wr_state'[s] # "WR_IDLE")  BY <2>3, <2>4
  <2>6. WritePhase(m)' = "waiting"  BY <1>1, <2>1, <2>2, <2>5, Sizes DEF Table, Open
  <2>7. WritePhase(m) = "idle"  BY <1>1, <1>3 DEF Table
  <2> QED  BY <1>2, <1>4, <2>1, <2>6, <2>7 DEF Service!Step
<1>5. CASE n # m
  <2>1. m_dst'[n] = m_dst[n]  BY <1>5 DEF StartWrite, IInv, Domains
  <2>2. WritePhase(n)' = WritePhase(n)
    BY <1>3, <2>1 DEF WritePhase, BSel, mgrVars, subVars
  <2> QED  BY <1>2, <2>1, <2>2 DEF Service!Stay
<1> QED  BY <1>4, <1>5

LEMMA Stutters ==
  ASSUME UNCHANGED <<mgrVars, subVars, m_dst, owner>>
  PROVE  UNCHANGED Service!vars
<1>1. \A m \in Managers : WritePhase(m)' = WritePhase(m)
  BY DEF WritePhase, BSel, mgrVars, subVars
<1>2. [m \in Managers |-> WritePhase(m)]' = [m \in Managers |-> WritePhase(m)]  BY <1>1
<1> QED  BY <1>2 DEF Service!vars

LEMMA StepServes == IInv /\ [Next]_vars => [Service!Next]_(Service!vars)
<1> SUFFICES ASSUME IInv, [Next]_vars PROVE Service!Next \/ UNCHANGED Service!vars  OBVIOUS
<1>1. ASSUME NEW i \in Inputs, Clock(i) PROVE Service!Next
  BY <1>1, ClockServes DEF Service!Next
<1>2. ASSUME NEW m \in Managers, NEW s \in Subs, NEW beats \in 1 .. MaxBeats,
             StartWrite(m, s, beats)
      PROVE  Service!Next
  BY <1>2, StartServes DEF Service!Next
<1>3. ASSUME NEW m \in Managers, OfferBeat(m) PROVE UNCHANGED Service!vars
  BY <1>3, Stutters DEF OfferBeat
<1>4. ASSUME NEW s \in ExtSubs, Respond(s) PROVE UNCHANGED Service!vars
  BY <1>4, Stutters DEF Respond
<1>5. ASSUME UNCHANGED vars PROVE UNCHANGED Service!vars
  BY <1>5, Stutters DEF vars, envVars
<1> QED  BY <1>1, <1>2, <1>3, <1>4, <1>5 DEF Next

LEMMA StartsServing == Init => Service!Init
<1> SUFFICES ASSUME Init PROVE Service!Init  OBVIOUS
<1>1. \A m \in Managers : WritePhase(m) = "idle"  BY DEF Init, WritePhase
<1> QED  BY <1>1 DEF Init, Service!Init

\* The write half of the fabric implements AxiWriteService: however the edges,
\* arbiters and FIFOs interleave, every write is issued, opened, taken, answered
\* and finished in this order, and no two are open at one subordinate.
THEOREM ServiceImplemented == Spec => ServiceSpec
<1> QED
  BY Invariance, StepServes, StartsServing, PTL DEF Spec, ServiceSpec, Service!Spec

-----------------------------------------------------------------------------
(***************************************************************************)
(* The read half, likewise: no beat is lost, repeated, misrouted or        *)
(* wrongly marked.                                                         *)
(***************************************************************************)

Read == [sub : Subs, len : Lens]
SubBeat == [mgr : Managers, last : BOOLEAN]
MgrBeat == [sub : Subs, last : BOOLEAN]

\* A manager has one read at a time; what is in its interface is of this read.
ReadMgr(m) ==
  /\ m_ar[m] = NoRead \/ m_ar[m] \in Read
  /\ rd_in_progress[m] \in BOOLEAN /\ (rd_in_progress[m] <=> m_src[m] # None)
  /\ r_fifo[m] \in Seq(MgrBeat)
  /\ m_src[m] = None => ar_fifo[m] = <<>> /\ r_fifo[m] = <<>>
  /\ m_src[m] # None =>
       /\ m_src[m] \in Subs /\ m_left[m] \in 1 .. LenRange
       /\ ar_fifo[m] \in {<<>>, <<[sub |-> m_src[m], len |-> m_left[m] - 1]>>}
  /\ \A k \in 1 .. Len(r_fifo[m]) : r_fifo[m][k].sub = m_src[m]

\* The read a subordinate interface has taken waits in it or is being served.
Waits(s, m) == sar_fifo[s] = <<[mgr |-> m, len |-> m_left[m] - 1]>>
ReadSub(s) ==
  /\ ar_in_progress[s] \in BOOLEAN
  /\ ~ar_in_progress[s] => sar_fifo[s] = <<>> /\ ToGive(s) = 0
  /\ ar_in_progress[s] => \E m \in Managers :
       /\ m_src[m] = s
       /\ \/ Waits(s, m) /\ ToGive(s) = 0
          \/ sar_fifo[s] = <<>> /\ ToGive(s) > 0 /\ rid(s) = m
  /\ IF s = DefSub
     THEN /\ rvalid_sub \in BOOLEAN
          /\ rvalid_sub => rlen \in Lens /\ rlast_sub = (rlen = 0)
     ELSE s_left[s] \in Nat /\ (s_rvalid[s] => s_left[s] > 0)

\* The beats in its data FIFO are for managers that read from it.
ReadBeats(s) ==
  /\ sr_fifo[s] \in Seq(SubBeat)
  /\ \A k \in 1 .. Len(sr_fifo[s]) : m_src[sr_fifo[s][k].mgr] = s
Bursts(s) ==
  \A k \in 1 .. Len(sr_fifo[s]) - 1 :
    sr_fifo[s][k].mgr # sr_fifo[s][k + 1].mgr => sr_fifo[s][k].last

ReadInv ==
  /\ DOMAIN m_ar = Managers /\ DOMAIN s_rvalid = ExtSubs
  /\ \A m \in Managers : ReadMgr(m)
  /\ \A s \in Subs : ReadSub(s) /\ ReadBeats(s) /\ Bursts(s)
  /\ BeatsConserved

-----------------------------------------------------------------------------
(* FIFOs and counts of beats                                               *)

One(p) == IF p THEN 1 ELSE 0

\* The queue after an edge on which the head leaves (d = 1) or an entry comes
\* (p = 1), or both.
LEMMA FifoMoves ==
  ASSUME NEW S, NEW q \in Seq(S), NEW d \in 0 .. 1, NEW p \in 0 .. 1, NEW x, NEW r,
         d = 1 => q # <<>>, p = 1 => x \in S,
         r = LET t == IF d = 1 THEN Tail(q) ELSE q IN IF p = 1 THEN Append(t, x) ELSE t
  PROVE  /\ r \in Seq(S) /\ Len(q) \in Nat /\ Len(r) = Len(q) - d + p /\ d <= Len(q)
         /\ \A k \in 1 .. Len(q) - d : r[k] = q[k + d]
         /\ p = 1 => r[Len(r)] = x
<1> DEFINE t == IF d = 1 THEN Tail(q) ELSE q
<1>2. /\ t \in Seq(S) /\ Len(t) = Len(q) - d /\ Len(q) \in Nat /\ d <= Len(q)
      /\ \A k \in 1 .. Len(q) - d : t[k] = q[k + d]
  <2>1. CASE d = 1  BY <2>1, Tails
  <2>2. CASE d = 0  BY <2>2
  <2> QED  BY <2>1, <2>2
<1>3. r = IF p = 1 THEN Append(t, x) ELSE t  OBVIOUS
<1> HIDE DEF t
<1>4. CASE p = 1
  <2>1. /\ r \in Seq(S) /\ Len(r) = Len(t) + 1
        /\ \A k \in 1 .. Len(t) : r[k] = t[k]
        /\ r[Len(t) + 1] = x
    BY <1>2, <1>3, <1>4, Appends
  <2> QED  BY <1>2, <1>4, <2>1
<1>5. CASE p = 0
  <2>1. r = t  BY <1>3, <1>5
  <2> QED  BY <1>2, <1>5, <2>1
<1> QED  BY <1>4, <1>5

\* Counting beat by beat.
LEMMA CountNext ==
  ASSUME NEW m, NEW q, NEW k \in Nat
  PROVE  /\ BeatsFor(m, q, 0) = 0
         /\ BeatsFor(m, q, k) \in Nat
         /\ BeatsFor(m, q, k + 1) = BeatsFor(m, q, k) + (IF q[k + 1].mgr = m THEN 1 ELSE 0)
<1> DEFINE B(n) == {j \in 1 .. n : q[j].mgr = m}
<1>1. B(0) = {}  OBVIOUS
<1>2. IsFiniteSet(1 .. k)  BY FS_Interval
<1>3. IsFiniteSet(B(k))  BY <1>2, FS_Subset
<1>4. Cardinality(B(k)) \in Nat  BY <1>3, FS_CardinalityType
<1>0. \A n : BeatsFor(m, q, n) = Cardinality(B(n))  BY DEF BeatsFor
<1>5. CASE q[k + 1].mgr = m
  <2>1. B(k + 1) = B(k) \cup {k + 1}  BY <1>5
  <2>2. k + 1 \notin B(k)  OBVIOUS
  <2>3. Cardinality(B(k) \cup {k + 1}) = Cardinality(B(k)) + 1  BY <1>3, <2>2, FS_AddElement
  <2> HIDE DEF B
  <2> QED  BY <1>0, <1>1, <1>4, <1>5, <2>1, <2>3, FS_EmptySet DEF One
<1>6. CASE q[k + 1].mgr # m
  <2>1. B(k + 1) = B(k)  BY <1>6
  <2> HIDE DEF B
  <2> QED  BY <1>0, <1>1, <1>4, <1>6, <2>1, FS_EmptySet DEF One
<1> QED  BY <1>5, <1>6

LEMMA CountSame ==
  ASSUME NEW m, NEW q, NEW r, NEW k \in Nat, \A j \in 1 .. k : q[j] = r[j]
  PROVE  BeatsFor(m, q, k) = BeatsFor(m, r, k)
<1>1. {j \in 1 .. k : q[j].mgr = m} = {j \in 1 .. k : r[j].mgr = m}  OBVIOUS
<1> QED  BY <1>1 DEF BeatsFor

\* Without the head, every count is one less if the head counted.
LEMMA CountShift ==
  ASSUME NEW m, NEW q, NEW r, NEW k \in Nat, \A j \in 1 .. k : r[j] = q[j + 1]
  PROVE  BeatsFor(m, r, k) = BeatsFor(m, q, k + 1) - (IF q[1].mgr = m THEN 1 ELSE 0)
<1> DEFINE A == {j \in 1 .. k : r[j].mgr = m}
           B == {j \in 1 .. k + 1 : q[j].mgr = m}
           C == B \ {1}
           f == [j \in A |-> j + 1]
<1>1. IsFiniteSet(A) /\ IsFiniteSet(B) /\ IsFiniteSet(C)
  <2>1. IsFiniteSet(1 .. k) /\ IsFiniteSet(1 .. k + 1)  BY FS_Interval
  <2>2. IsFiniteSet(A) /\ IsFiniteSet(B)  BY <2>1, FS_Subset
  <2> QED  BY <2>2, FS_Subset
<1>2. f \in Bijection(A, C)
  <2>1. f \in [A -> C]  OBVIOUS
  <2>2. \A a, b \in A : f[a] = f[b] => a = b  OBVIOUS
  <2>3. \A c \in C : \E a \in A : f[a] = c
    <3> SUFFICES ASSUME NEW c \in C PROVE c - 1 \in A /\ f[c - 1] = c  OBVIOUS
    <3>1. c \in 2 .. k + 1 /\ q[c].mgr = m  OBVIOUS
    <3>2. c - 1 \in 1 .. k /\ r[c - 1] = q[c]  BY <3>1
    <3> QED  BY <3>1, <3>2
  <2> QED  BY <2>1, <2>2, <2>3, Fun_IsBij
<1>3. Cardinality(A) = Cardinality(C)
  <2>1. ExistsBijection(A, C)  BY <1>2 DEF ExistsBijection
  <2> HIDE DEF A, C
  <2> QED  BY <1>1, <2>1, FS_Bijection
<1>4. Cardinality(B) \in Nat  BY <1>1, FS_CardinalityType
<1>0. BeatsFor(m, r, k) = Cardinality(A) /\ BeatsFor(m, q, k + 1) = Cardinality(B)  BY DEF BeatsFor
<1>5. CASE q[1].mgr = m
  <2>1. 1 \in B  BY <1>5
  <2>2. Cardinality(C) = Cardinality(B) - 1  BY <1>1, <2>1, FS_RemoveElement
  <2> HIDE DEF A, B, C
  <2> QED  BY <1>0, <1>3, <1>4, <1>5, <2>2 DEF One
<1>6. CASE q[1].mgr # m
  <2>1. C = B  BY <1>6
  <2> HIDE DEF A, B, C
  <2> QED  BY <1>0, <1>3, <1>4, <1>6, <2>1 DEF One
<1> QED  BY <1>5, <1>6

\* An entry that counts makes a positive count.
LEMMA SomeCounted ==
  ASSUME NEW m, NEW q, NEW k \in Nat, NEW j \in 1 .. k, q[j].mgr = m
  PROVE  BeatsFor(m, q, k) > 0
<1> DEFINE B == {i \in 1 .. k : q[i].mgr = m}
<1>1. IsFiniteSet(1 .. k)  BY FS_Interval
<1>2. IsFiniteSet(B)  BY <1>1, FS_Subset
<1>3. j \in B  OBVIOUS
<1>4. BeatsFor(m, q, k) = Cardinality(B)  BY DEF BeatsFor
<1> HIDE DEF B
<1>5. Cardinality(B) \in Nat /\ (Cardinality(B) = 0 <=> B = {})  BY <1>2, FS_CardinalityType, FS_EmptySet
<1> QED  BY <1>3, <1>4, <1>5

\* r is q after an edge on which the head leaves (d = 1), an entry comes
\* (p = 1), or both.
Moves(q, r, d, p) ==
  /\ q \in Seq(SubBeat) /\ r \in Seq(SubBeat) /\ d \in 0 .. 1 /\ p \in 0 .. 1
  /\ d <= Len(q) /\ Len(q) \in Nat /\ Len(r) = Len(q) - d + p
  /\ \A k \in 1 .. Len(q) - d : r[k] = q[k + d]

LEMMA CountMoves ==
  ASSUME NEW m, NEW q, NEW r, NEW d, NEW p, Moves(q, r, d, p), NEW c, NEW e,
         c = IF d = 1 /\ q[1].mgr = m THEN 1 ELSE 0,
         e = IF p = 1 /\ r[Len(r)].mgr = m THEN 1 ELSE 0
  PROVE  /\ \A k \in 0 .. Len(q) - d : BeatsFor(m, r, k) = BeatsFor(m, q, k + d) - c
         /\ BeatsFor(m, r, Len(r)) = BeatsFor(m, q, Len(q)) - c + e
<1>7. \A k \in Nat :
        BeatsFor(m, r, k + 1) = BeatsFor(m, r, k) + (IF r[k + 1].mgr = m THEN 1 ELSE 0)
  BY CountNext
<1> USE DEF Moves
<1>1. ASSUME NEW k \in 0 .. Len(q) - d
      PROVE  BeatsFor(m, r, k) = BeatsFor(m, q, k + d) - c
  <2>1. CASE d = 1
    <3>1. BeatsFor(m, r, k) = BeatsFor(m, q, k + 1) - (IF q[1].mgr = m THEN 1 ELSE 0)  BY <2>1, CountShift
    <3>2. c = (IF q[1].mgr = m THEN 1 ELSE 0)  BY <2>1 DEF One
    <3> QED  BY <2>1, <3>1, <3>2
  <2>2. CASE d = 0
    <3>1. BeatsFor(m, r, k) = BeatsFor(m, q, k)  BY <2>2, CountSame
    <3>2. BeatsFor(m, q, k) \in Nat  BY CountNext
    <3> QED  BY <2>2, <3>1, <3>2
  <2> QED  BY <2>1, <2>2
<1> DEFINE n == Len(q) - d
<1>2. n \in Nat /\ n + d = Len(q) /\ n \in 0 .. Len(q) - d  OBVIOUS
<1>3. BeatsFor(m, r, n) = BeatsFor(m, q, Len(q)) - c  BY <1>1, <1>2
<1>0. Len(r) = n + p /\ Len(q) \in Nat  OBVIOUS
<1> HIDE DEF n
<1>4. BeatsFor(m, q, Len(q)) \in Nat  BY <1>0, CountNext
<1>5. CASE p = 0
  <2>1. Len(r) = n /\ e = 0  BY <1>0, <1>2, <1>5
  <2> QED  BY <1>1, <1>3, <1>4, <1>5, <2>1
<1>6. CASE p = 1
  <2>1. Len(r) = n + 1  BY <1>0, <1>6
  <2>2. BeatsFor(m, r, n + 1) = BeatsFor(m, r, n) + (IF r[n + 1].mgr = m THEN 1 ELSE 0)
    BY <1>2, <1>7
  <2>3. e = (IF r[n + 1].mgr = m THEN 1 ELSE 0)  BY <1>6, <2>1 DEF One
  <2> QED  BY <1>1, <1>3, <1>4, <1>6, <2>1, <2>2, <2>3
<1> QED  BY <1>1, <1>5, <1>6

-----------------------------------------------------------------------------
(* Where a read is                                                         *)

ReadTypes == (\A m \in Managers : ReadMgr(m)) /\ (\A s \in Subs : ReadSub(s) /\ ReadBeats(s))
Serves(s, m) == ToGive(s) > 0 /\ rid(s) = m
Count(s, m) == BeatsFor(m, sr_fifo[s], Len(sr_fifo[s]))

LEMMA UnfetchedIs ==
  ReadTypes => \A m \in Managers : \A s \in Subs : m_src[m] = s =>
    /\ m_left[m] \in Nat \ {0} /\ ToGive(s) \in Nat /\ Len(r_fifo[m]) \in Nat /\ Count(s, m) \in Nat
    /\ Unfetched(m, s) = (IF ar_fifo[m] # <<>> THEN m_left[m] ELSE 0)
                         + (IF Waits(s, m) THEN m_left[m] ELSE 0)
                         + (IF Serves(s, m) THEN ToGive(s) ELSE 0)
<1> SUFFICES ASSUME ReadTypes, NEW m \in Managers, NEW s \in Subs, m_src[m] = s
             PROVE  /\ m_left[m] \in Nat \ {0} /\ ToGive(s) \in Nat
                    /\ Len(r_fifo[m]) \in Nat /\ Count(s, m) \in Nat
                    /\ Unfetched(m, s) = (IF ar_fifo[m] # <<>> THEN m_left[m] ELSE 0)
                                         + (IF Waits(s, m) THEN m_left[m] ELSE 0)
                                         + (IF Serves(s, m) THEN ToGive(s) ELSE 0)
  OBVIOUS
<1>1. ReadMgr(m) /\ ReadSub(s) /\ ReadBeats(s)  BY DEF ReadTypes
<1>2. s # None  BY Sizes
<1>3. m_left[m] \in Nat \ {0}  BY <1>1, <1>2, ReadAssumption DEF ReadMgr
<1>4. ToGive(s) \in Nat  BY <1>1 DEF ReadSub, ToGive, Lens
<1>5. Len(r_fifo[m]) \in Nat /\ Len(sr_fifo[s]) \in Nat  BY <1>1 DEF ReadMgr, ReadBeats
<1>6. Count(s, m) \in Nat  BY <1>5, CountNext DEF Count
<1> DEFINE beats(q) == IF q # <<>> THEN Head(q).len + 1 ELSE 0
<1>7. beats(ar_fifo[m]) = IF ar_fifo[m] # <<>> THEN m_left[m] ELSE 0
  <2>1. ar_fifo[m] # <<>> => Head(ar_fifo[m]) = [sub |-> m_src[m], len |-> m_left[m] - 1]
    BY <1>1, <1>2, Ones DEF ReadMgr
  <2> QED  BY <1>3, <2>1
<1>8. (IF sar_fifo[s] # <<>> /\ Head(sar_fifo[s]).mgr = m THEN beats(sar_fifo[s]) ELSE 0)
        = IF Waits(s, m) THEN m_left[m] ELSE 0
  <2>1. CASE sar_fifo[s] = <<>>  BY <2>1, Ones DEF Waits
  <2>2. CASE sar_fifo[s] # <<>>
    <3>1. PICK n \in Managers : m_src[n] = s /\ Waits(s, n)  BY <1>1, <2>2 DEF ReadSub
    <3>2. Head(sar_fifo[s]) = [mgr |-> n, len |-> m_left[n] - 1]  BY <3>1, Ones DEF Waits
    <3>3. Waits(s, m) => m = n  BY <3>2, Ones DEF Waits
    <3> QED  BY <1>3, <2>2, <3>1, <3>2, <3>3
  <2> QED  BY <2>1, <2>2
<1>9. (IF rid(s) = m THEN ToGive(s) ELSE 0) = IF Serves(s, m) THEN ToGive(s) ELSE 0
  BY <1>4 DEF Serves
<1> QED  BY <1>3, <1>4, <1>5, <1>6, <1>7, <1>8, <1>9 DEF Unfetched

\* Where the next beat of m's read is to come from, and the sum of those that
\* are on their way and those to come.
Sum(m) ==
  LET s == m_src[m]
  IN  Len(r_fifo[m]) + Count(s, m) + Unfetched(m, s) = m_left[m]

LEMMA OnePlace ==
  ASSUME ReadInv, NEW m \in Managers, NEW s \in Subs, m_src[m] = s
  PROVE  /\ m_left[m] \in Nat \ {0} /\ ToGive(s) \in Nat /\ Len(r_fifo[m]) \in Nat /\ Count(s, m) \in Nat
         /\ ar_fifo[m] # <<>> \/ Waits(s, m) =>
              r_fifo[m] = <<>> /\ Count(s, m) = 0 /\ ~Serves(s, m)
         /\ ~(ar_fifo[m] # <<>> /\ Waits(s, m))
         /\ Len(r_fifo[m]) + Count(s, m)
            + (IF ar_fifo[m] # <<>> \/ Waits(s, m) THEN m_left[m]
               ELSE IF Serves(s, m) THEN ToGive(s) ELSE 0) = m_left[m]
<1>1. ReadTypes  BY DEF ReadTypes, ReadInv
<1>2. s # None  BY Sizes
<1>3. Len(r_fifo[m]) + Count(s, m) + Unfetched(m, s) = m_left[m]
  BY <1>2 DEF ReadInv, BeatsConserved, Count
<1>4. /\ m_left[m] \in Nat \ {0} /\ ToGive(s) \in Nat /\ Len(r_fifo[m]) \in Nat /\ Count(s, m) \in Nat
      /\ Unfetched(m, s) = (IF ar_fifo[m] # <<>> THEN m_left[m] ELSE 0)
                           + (IF Waits(s, m) THEN m_left[m] ELSE 0)
                           + (IF Serves(s, m) THEN ToGive(s) ELSE 0)
  BY <1>1, UnfetchedIs
<1>5. r_fifo[m] \in Seq(MgrBeat)  BY <1>1 DEF ReadTypes, ReadMgr
<1>6. r_fifo[m] = <<>> <=> Len(r_fifo[m]) = 0  BY <1>5
<1>7. Serves(s, m) => ToGive(s) > 0  BY DEF Serves
<1> DEFINE a == Len(r_fifo[m])  c == Count(s, m)  l == m_left[m]  t == ToGive(s)
           A == ar_fifo[m] # <<>>  W == Waits(s, m)  S == Serves(s, m)
<1>8. /\ a \in Nat /\ c \in Nat /\ l \in Nat \ {0} /\ t \in Nat
      /\ a + c + ((IF A THEN l ELSE 0) + (IF W THEN l ELSE 0) + (IF S THEN t ELSE 0)) = l
      /\ S => t > 0
  BY <1>3, <1>4, <1>7
<1> HIDE DEF a, c, l, t, A, W, S
<1>9. /\ A \/ W => a = 0 /\ c = 0 /\ ~S
      /\ ~(A /\ W)
      /\ a + c + (IF A \/ W THEN l ELSE IF S THEN t ELSE 0) = l
  BY <1>8
<1> QED  BY <1>4, <1>6, <1>9 DEF a, c, l, t, A, W, S

-----------------------------------------------------------------------------
(* The wires of the read half, in a state of the invariant                 *)

\* Subordinate interface s takes a read; a beat comes to m.
Grants(s) == ArSel(s) # {} /\ ~ar_in_progress[s]
Comes(m) == RSel(m) # {} /\ wrAck(r_fifo[m])
Leaves(s) == \E m \in Managers : s \in RSel(m) /\ wrAck(r_fifo[m])

LEMMA ReadFacts ==
  ASSUME ReadInv, NEW m \in Managers
  PROVE  /\ ReadMgr(m)
         /\ m_src[m] \in Subs \cup {None}
         /\ m_src[m] \in Subs => Sum(m) /\ m_left[m] \in Nat \ {0}
         /\ m_src[m] = None => r_fifo[m] = <<>> /\ ar_fifo[m] = <<>>
         /\ \A k \in 1 .. Len(r_fifo[m]) : r_fifo[m][k].last <=> k = m_left[m]
<1>1. ReadMgr(m)  BY DEF ReadInv
<1>2. m_src[m] \in Subs \cup {None}  BY <1>1 DEF ReadMgr
<1>3. m_src[m] \in Subs => m_src[m] # None  BY Sizes
<1>4. m_src[m] = None => r_fifo[m] = <<>> /\ ar_fifo[m] = <<>>  BY <1>1 DEF ReadMgr
<1>5. m_src[m] \in Subs => Sum(m)  BY <1>3 DEF ReadInv, BeatsConserved, Sum, Count
<1>6. m_src[m] \in Subs => m_left[m] \in Nat \ {0}  BY <1>3, OnePlace
<1>7. \A k \in 1 .. Len(r_fifo[m]) : r_fifo[m][k].last <=> k = m_left[m]
  <2>1. CASE m_src[m] = None  BY <1>4, <2>1, Ones
  <2>2. CASE m_src[m] # None  BY <2>2 DEF ReadInv, BeatsConserved
  <2> QED  BY <2>1, <2>2
<1> QED  BY <1>1, <1>2, <1>4, <1>5, <1>6, <1>7

LEMMA Selects ==
  ASSUME ReadInv, NEW s \in Subs, NEW m \in Managers
  PROVE  /\ m \in ArSel(s) <=> ar_fifo[m] # <<>> /\ m_src[m] = s
         /\ s \in RSel(m) <=> sr_fifo[s] # <<>> /\ sr_fifo[s][1].mgr = m
         /\ s \in RSel(m) => m_src[m] = s
<1>1. ReadMgr(m) /\ ReadBeats(s)  BY DEF ReadInv
<1>2. ar_fifo[m] # <<>> => Head(ar_fifo[m]).sub = m_src[m] /\ m_src[m] # None
  BY <1>1, Ones DEF ReadMgr
<1>3. sr_fifo[s] # <<>> => /\ Head(sr_fifo[s]) = sr_fifo[s][1]
                           /\ m_src[sr_fifo[s][1].mgr] = s
  <2> SUFFICES ASSUME sr_fifo[s] # <<>>
               PROVE  Head(sr_fifo[s]) = sr_fifo[s][1] /\ m_src[sr_fifo[s][1].mgr] = s
    OBVIOUS
  <2>1. sr_fifo[s] \in Seq(SubBeat)  BY <1>1 DEF ReadBeats
  <2>2. 1 \in 1 .. Len(sr_fifo[s]) /\ Head(sr_fifo[s]) = sr_fifo[s][1]  BY <2>1, Tails
  <2> QED  BY <1>1, <2>2 DEF ReadBeats
<1> QED  BY <1>2, <1>3 DEF ArSel, RSel

\* The subordinate interface has room for an address when it has no read.
LEMMA Room ==
  ASSUME ReadInv, NEW s \in Subs
  PROVE  /\ arphase_ready(s) <=> ~ar_in_progress[s]
         /\ Grants(s) => /\ Min(ArSel(s)) \in Managers /\ ar_fifo[Min(ArSel(s))] # <<>>
                         /\ m_src[Min(ArSel(s))] = s
                         /\ Min(ArSel(s) \cup {NMGR}) = Min(ArSel(s))
                         /\ Min(ArSel(s)) # NMGR /\ sar_fifo[s] = <<>> /\ ToGive(s) = 0
<1>1. ReadSub(s)  BY DEF ReadInv
<1>2. ~ar_in_progress[s] => sar_fifo[s] = <<>> /\ ToGive(s) = 0  BY <1>1 DEF ReadSub
<1>3. wrAck(<<>>)  BY Ones
<1>4. ArSel(s) \subseteq Managers /\ ArSel(s) \in SUBSET Nat  BY Sizes DEF ArSel
<1>5. ArSel(s) # {} => Min(ArSel(s)) \in ArSel(s)  BY <1>4, Least
<1>6. ArSel(s) # {} => Min(ArSel(s)) \in Managers  BY <1>4, <1>5
<1>7. ArSel(s) # {} => Min(ArSel(s) \cup {NMGR}) = Min(ArSel(s))
  BY <1>4, <1>6, LeastOr
<1> QED  BY <1>2, <1>3, <1>5, <1>6, <1>7, Selects, Sizes DEF arphase_ready, Grants

LEMMA Granted ==
  ASSUME ReadInv, NEW m \in Managers
  PROVE  /\ arphase_accept(m) <=> /\ m_src[m] \in Subs /\ Grants(m_src[m])
                                  /\ m = Min(ArSel(m_src[m]))
         /\ arphase_accept(m) => ar_fifo[m] # <<>>
<1>1. arphase_accept(m) <=> \E s \in Subs : m \in ArSel(s) /\ m = Min(ArSel(s)) /\ ~ar_in_progress[s]
  BY Room DEF arphase_accept
<1>2. \A s \in Subs : Grants(s) => Min(ArSel(s)) \in Managers /\ m_src[Min(ArSel(s))] = s
                                   /\ ar_fifo[Min(ArSel(s))] # <<>>
  BY Room
<1> QED  BY <1>1, <1>2, Selects DEF Grants

\* The head of a data FIFO moves on if its manager's FIFO has room.
LEMMA Forwards ==
  ASSUME ReadInv, NEW m \in Managers
  PROVE  /\ m_src[m] = None => RSel(m) = {}
         /\ m_src[m] \in Subs => RSel(m) \in {{}, {m_src[m]}}
         /\ Comes(m) => /\ m_src[m] \in Subs /\ RSel(m) = {m_src[m]} /\ Leaves(m_src[m])
                        /\ sr_fifo[m_src[m]] # <<>> /\ sr_fifo[m_src[m]][1].mgr = m
         /\ \A s \in Subs : Leaves(s) /\ sr_fifo[s][1].mgr = m => Comes(m) /\ m_src[m] = s
<1>1. RSel(m) \subseteq Subs  BY DEF RSel
<1>2. \A s \in RSel(m) : s = m_src[m] /\ sr_fifo[s] # <<>> /\ sr_fifo[s][1].mgr = m
  BY <1>1, Selects
<1>3. m_src[m] \in Subs \cup {None} /\ None \notin Subs  BY ReadFacts, Sizes
<1>4. RSel(m) # {} => m_src[m] \in Subs /\ RSel(m) = {m_src[m]}  BY <1>1, <1>2, <1>3
<1>5. m_src[m] \in Subs => RSel(m) \in {{}, {m_src[m]}}  BY <1>4
<1>6. Comes(m) => /\ m_src[m] \in Subs /\ RSel(m) = {m_src[m]} /\ Leaves(m_src[m])
                  /\ sr_fifo[m_src[m]] # <<>> /\ sr_fifo[m_src[m]][1].mgr = m
  BY <1>2, <1>4 DEF Comes, Leaves
<1>7. ASSUME NEW s \in Subs, Leaves(s), sr_fifo[s][1].mgr = m PROVE Comes(m) /\ m_src[m] = s
  <2>1. PICK n \in Managers : s \in RSel(n) /\ wrAck(r_fifo[n])  BY <1>7 DEF Leaves
  <2>2. n = m  BY <1>7, <2>1, Selects
  <2> QED  BY <2>1, <2>2, Selects DEF Comes
<1> QED  BY <1>3, <1>4, <1>5, <1>6, <1>7

\* m's last beat leaves with nothing behind it.
LEMMA LastLeaves ==
  ASSUME ReadInv, NEW m \in Managers, NEW i, RHandshake(m, i)
  PROVE  /\ m_src[m] \in Subs /\ r_fifo[m] # <<>> /\ ar_fifo[m] = <<>> /\ ~Waits(m_src[m], m)
         /\ Head(r_fifo[m]).last <=> m_left[m] = 1
         /\ m_left[m] = 1 => /\ Len(r_fifo[m]) = 1 /\ Count(m_src[m], m) = 0
                             /\ ~Serves(m_src[m], m) /\ RSel(m) = {}
<1> DEFINE s == m_src[m]
<1>1. r_fifo[m] # <<>>  BY DEF RHandshake, rdAck
<1>2. s \in Subs  BY <1>1, ReadFacts
<1>3. r_fifo[m] \in Seq(MgrBeat)  BY ReadFacts DEF ReadMgr
<1>4. Head(r_fifo[m]) = r_fifo[m][1] /\ Len(r_fifo[m]) \in Nat \ {0}  BY <1>1, <1>3, Tails
<1>5. Head(r_fifo[m]).last <=> m_left[m] = 1  BY <1>4, ReadFacts
<1>6. ar_fifo[m] = <<>> /\ ~Waits(s, m)  BY <1>1, <1>2, OnePlace
<1>7. /\ Count(s, m) \in Nat /\ ToGive(s) \in Nat /\ m_left[m] \in Nat
      /\ Len(r_fifo[m]) + Count(s, m) + (IF Serves(s, m) THEN ToGive(s) ELSE 0) = m_left[m]
  BY <1>2, <1>6, OnePlace
<1>8. ASSUME m_left[m] = 1 PROVE Len(r_fifo[m]) = 1 /\ Count(s, m) = 0 /\ ~Serves(s, m)
  <2> DEFINE a == Len(r_fifo[m])  c == Count(s, m)  S == Serves(s, m)  t == ToGive(s)
  <2>1. /\ a \in Nat \ {0} /\ c \in Nat /\ t \in Nat /\ (S => t > 0)
        /\ a + c + (IF S THEN t ELSE 0) = 1
    BY <1>4, <1>7, <1>8 DEF Serves
  <2> HIDE DEF a, c, S, t
  <2>2. a = 1 /\ c = 0 /\ ~S  BY <2>1
  <2> QED  BY <2>2 DEF a, c, S
<1>9. ASSUME m_left[m] = 1 PROVE RSel(m) = {}
  <2> SUFFICES ASSUME RSel(m) # {} PROVE FALSE  OBVIOUS
  <2>1. s \in RSel(m)  BY <1>2, Forwards
  <2>2. sr_fifo[s] # <<>> /\ sr_fifo[s][1].mgr = m  BY <1>2, <2>1, Selects
  <2>3. sr_fifo[s] \in Seq(SubBeat)  BY <1>2 DEF ReadInv, ReadBeats
  <2>4. Len(sr_fifo[s]) \in Nat \ {0}  BY <2>2, <2>3
  <2> QED  BY <1>8, <1>9, <2>2, <2>4, SomeCounted DEF Count
<1> QED  BY <1>1, <1>2, <1>5, <1>6, <1>8, <1>9

-----------------------------------------------------------------------------
(* An edge of the clock                                                    *)

\* The manager interface takes a read when it has none.
LEMMA TakeMoves ==
  ASSUME ReadInv, NEW i \in ReadInputs, ReadClock(i), NEW m \in Managers, ArHandshake(m)
  PROVE  /\ m_src[m] = None /\ m_ar[m] \in Read
         /\ m_ar'[m] = NoRead /\ m_src'[m] = m_ar[m].sub /\ m_left'[m] = m_ar[m].len + 1
         /\ rd_in_progress'[m] = TRUE /\ ar_fifo'[m] = <<m_ar[m]>> /\ r_fifo'[m] = <<>>
<1>1. /\ ReadMgr(m) /\ m_ar[m] # NoRead /\ ~rd_in_progress[m]
  BY DEF ReadInv, ArHandshake, arready_mgr
<1>2. /\ m_src[m] = None /\ m_ar[m] \in Read /\ ar_fifo[m] = <<>> /\ r_fifo[m] = <<>>
      /\ m_ar'[m] = NoRead /\ m_src'[m] = m_ar[m].sub /\ m_left'[m] = m_ar[m].len + 1
      /\ rd_in_progress'[m] = TRUE
  BY <1>1 DEF ReadMgr, ReadClock, EnvReadEdge, MgrReadEdge
<1>3. ar_fifo'[m] = <<m_ar[m]>>
  <2>1. ar_fifo'[m] = FifoEdge(<<>>, TRUE, m_ar[m], arphase_accept(m))
    BY <1>2 DEF ReadClock, MgrReadEdge
  <2> QED  BY <2>1, Ones DEF FifoEdge, rdAck
<1>4. r_fifo'[m] = <<>>
  <2>1. RSel(m) = {}  BY <1>2, Forwards
  <2>2. \E x : r_fifo'[m] = FifoEdge(<<>>, FALSE, x, m \in i.rready)
    <3>1. r_fifo'[m] = LET s == Min(RSel(m) \cup {NSUB})
                       IN  FifoEdge(r_fifo[m], RSel(m) # {},
                             [sub |-> s, last |-> s # NSUB /\ Head(sr_fifo[s]).last],
                             m \in i.rready)
      BY DEF ReadClock, MgrReadEdge
    <3> QED  BY <1>2, <2>1, <3>1
  <2> QED  BY <2>2 DEF FifoEdge, rdAck
<1> QED  BY <1>2, <1>3, <1>4

\* Otherwise what it has moves on.
LEMMA MgrMoves ==
  ASSUME ReadInv, NEW i \in ReadInputs, ReadClock(i), NEW m \in Managers, ~ArHandshake(m)
  PROVE  /\ m_ar'[m] = m_ar[m]
         /\ m_src'[m] = IF RHandshake(m, i) /\ m_left[m] = 1 THEN None ELSE m_src[m]
         /\ m_left'[m] = IF RHandshake(m, i) THEN m_left[m] - 1 ELSE m_left[m]
         /\ rd_in_progress'[m] \in BOOLEAN /\ (rd_in_progress'[m] <=> m_src'[m] # None)
         /\ ar_fifo'[m] = IF arphase_accept(m) THEN <<>> ELSE ar_fifo[m]
<1>1. ReadMgr(m)  BY DEF ReadInv
<1>2. /\ m_ar'[m] = m_ar[m]
      /\ m_src'[m] = IF RHandshake(m, i) /\ m_left[m] = 1 THEN None ELSE m_src[m]
      /\ m_left'[m] = IF RHandshake(m, i) THEN m_left[m] - 1 ELSE m_left[m]
  BY DEF ReadClock, EnvReadEdge
<1>3. rd_in_progress'[m] = (rd_in_progress[m] /\ ~(RHandshake(m, i) /\ Head(r_fifo[m]).last))
  BY DEF ReadClock, MgrReadEdge
<1>4. RHandshake(m, i) => m_src[m] \in Subs /\ (Head(r_fifo[m]).last <=> m_left[m] = 1)
  BY LastLeaves
<1>5. rd_in_progress'[m] \in BOOLEAN /\ (rd_in_progress'[m] <=> m_src'[m] # None)
  BY <1>1, <1>2, <1>3, <1>4, Sizes DEF ReadMgr
<1>6. ar_fifo'[m] = FifoEdge(ar_fifo[m], ArHandshake(m), m_ar[m], arphase_accept(m))
  BY DEF ReadClock, MgrReadEdge
<1>7. ar_fifo'[m] = IF arphase_accept(m) THEN <<>> ELSE ar_fifo[m]
  <2>1. arphase_accept(m) => ar_fifo[m] # <<>> /\ m_src[m] \in Subs  BY Granted
  <2>2. arphase_accept(m) => \E x : ar_fifo[m] = <<x>>
    BY <1>1, <2>1, Sizes DEF ReadMgr
  <2> QED  BY <1>6, <2>1, <2>2, Ones DEF FifoEdge, rdAck
<1> QED  BY <1>2, <1>5, <1>7

\* The data FIFO of a manager interface.
LEMMA DataMoves ==
  ASSUME ReadInv, NEW i \in ReadInputs, ReadClock(i), NEW m \in Managers
  PROVE  LET q == r_fifo[m]
             d == One(RHandshake(m, i))
             p == One(Comes(m))
         IN  /\ r_fifo'[m] \in Seq(MgrBeat) /\ Len(q) \in Nat /\ d <= Len(q)
             /\ Len(r_fifo'[m]) = Len(q) - d + p
             /\ \A k \in 1 .. Len(q) - d : r_fifo'[m][k] = q[k + d]
             /\ p = 1 => r_fifo'[m][Len(r_fifo'[m])]
                           = [sub |-> m_src[m], last |-> sr_fifo[m_src[m]][1].last]
<1> DEFINE s == Min(RSel(m) \cup {NSUB})
           x == [sub |-> s, last |-> s # NSUB /\ Head(sr_fifo[s]).last]
<1>1. r_fifo'[m] = FifoEdge(r_fifo[m], RSel(m) # {}, x, m \in i.rready)
  BY DEF ReadClock, MgrReadEdge
<1>2. ASSUME Comes(m)
      PROVE  x = [sub |-> m_src[m], last |-> sr_fifo[m_src[m]][1].last] /\ x \in MgrBeat
  <2>1. m_src[m] \in Subs /\ RSel(m) = {m_src[m]} /\ sr_fifo[m_src[m]] # <<>>  BY <1>2, Forwards
  <2>2. m_src[m] # NSUB /\ s = m_src[m]
    <3>1. {m_src[m]} \cup {NSUB} \in SUBSET Nat /\ \A y \in {m_src[m]} \cup {NSUB} : m_src[m] <= y
      BY <2>1, SizeAssumption DEF Subs
    <3>2. s \in {m_src[m]} \cup {NSUB} /\ \A y \in {m_src[m]} \cup {NSUB} : s <= y
      BY <2>1, <3>1, Least
    <3>3. m_src[m] < NSUB /\ m_src[m] \in Nat /\ NSUB \in Nat  BY <2>1, SizeAssumption DEF Subs
    <3> HIDE DEF s
    <3> QED  BY <3>2, <3>3
  <2>3. sr_fifo[m_src[m]] \in Seq(SubBeat)  BY <2>1 DEF ReadInv, ReadBeats
  <2>4. Head(sr_fifo[m_src[m]]) = sr_fifo[m_src[m]][1] /\ Head(sr_fifo[m_src[m]]) \in SubBeat
    BY <2>1, <2>3, Tails
  <2>5. sr_fifo[m_src[m]][1].last \in BOOLEAN  BY <2>4 DEF SubBeat
  <2>6. x = [sub |-> m_src[m], last |-> sr_fifo[m_src[m]][1].last]  BY <2>2, <2>4, <2>5
  <2> HIDE DEF x
  <2> QED  BY <2>1, <2>5, <2>6 DEF MgrBeat
<1> HIDE DEF x
<1>3. Comes(m) <=> RSel(m) # {} /\ wrAck(r_fifo[m])  BY DEF Comes
<1>4. RHandshake(m, i) <=> m \in i.rready /\ r_fifo[m] # <<>>  BY DEF RHandshake, rdAck
<1>5. r_fifo[m] \in Seq(MgrBeat)  BY ReadFacts DEF ReadMgr
<1> DEFINE d == One(RHandshake(m, i))  p == One(Comes(m))
<1>6. d \in 0 .. 1 /\ p \in 0 .. 1 /\ (d = 1 <=> RHandshake(m, i)) /\ (p = 1 <=> Comes(m))
  BY DEF One
<1>7. r_fifo'[m] = LET t == IF d = 1 THEN Tail(r_fifo[m]) ELSE r_fifo[m]
                   IN  IF p = 1 THEN Append(t, x) ELSE t
  BY <1>1, <1>3, <1>4, <1>6 DEF FifoEdge, rdAck
<1>8. /\ d = 1 => r_fifo[m] # <<>>
      /\ p = 1 => x \in MgrBeat /\ x = [sub |-> m_src[m], last |-> sr_fifo[m_src[m]][1].last]
  BY <1>2, <1>4, <1>6
<1> HIDE DEF d, p
<1>9. /\ r_fifo'[m] \in Seq(MgrBeat) /\ Len(r_fifo[m]) \in Nat
      /\ Len(r_fifo'[m]) = Len(r_fifo[m]) - d + p /\ d <= Len(r_fifo[m])
      /\ \A k \in 1 .. Len(r_fifo[m]) - d : r_fifo'[m][k] = r_fifo[m][k + d]
      /\ p = 1 => r_fifo'[m][Len(r_fifo'[m])] = x
  BY <1>5, <1>6, <1>7, <1>8, FifoMoves
<1> QED  BY <1>8, <1>9 DEF d, p

\* Whom a subordinate interface serves.
LEMMA Serving ==
  ASSUME ReadInv, NEW s \in Subs
  PROVE  /\ ToGive(s) \in Nat
         /\ sar_fifo[s] # <<>> => \E m \in Managers : m_src[m] = s /\ Waits(s, m) /\ ToGive(s) = 0
         /\ ToGive(s) > 0 => rid(s) \in Managers /\ m_src[rid(s)] = s /\ sar_fifo[s] = <<>>
         /\ sar_fifo[s] # <<>> \/ ToGive(s) > 0 => ar_in_progress[s]
         /\ rvalid(s) => ToGive(s) > 0 /\ rlast(s) \in BOOLEAN /\ (rlast(s) <=> ToGive(s) = 1)
<1>1. ReadSub(s)  BY DEF ReadInv
<1>2. ToGive(s) \in Nat  BY <1>1 DEF ReadSub, ToGive, Lens
<1>3. sar_fifo[s] # <<>> \/ ToGive(s) > 0 => ar_in_progress[s]  BY <1>1, <1>2 DEF ReadSub
<1>4. ar_in_progress[s] => \E m \in Managers :
        /\ m_src[m] = s
        /\ \/ Waits(s, m) /\ ToGive(s) = 0
           \/ sar_fifo[s] = <<>> /\ ToGive(s) > 0 /\ rid(s) = m
  BY <1>1 DEF ReadSub
<1>5. rvalid(s) => ToGive(s) > 0 /\ rlast(s) \in BOOLEAN /\ (rlast(s) <=> ToGive(s) = 1)
  <2>1. CASE s = DefSub
    <3>1. rvalid_sub => rlen \in Nat /\ rlast_sub = (rlen = 0)
      BY <1>1, <2>1, ReadAssumption DEF ReadSub, Lens
    <3>2. ToGive(s) = (IF rvalid_sub THEN rlen + 1 ELSE 0)  BY <2>1 DEF ToGive
    <3>3. (rvalid(s) <=> rvalid_sub) /\ rlast(s) = rlast_sub  BY <2>1 DEF rvalid, rlast
    <3>4. rvalid_sub => rlast_sub \in BOOLEAN /\ (rlast_sub <=> rlen = 0)  BY <3>1
    <3>5. rvalid_sub => ToGive(s) > 0 /\ (rlen = 0 <=> ToGive(s) = 1)  BY <3>1, <3>2
    <3> QED  BY <3>3, <3>4, <3>5
  <2>2. CASE s # DefSub  BY <1>1, <2>2 DEF ReadSub, ToGive, rvalid, rlast
  <2> QED  BY <2>1, <2>2
<1>6. sar_fifo[s] # <<>> => \E m \in Managers : m_src[m] = s /\ Waits(s, m) /\ ToGive(s) = 0
  BY <1>3, <1>4
<1>7. ToGive(s) > 0 => rid(s) \in Managers /\ m_src[rid(s)] = s /\ sar_fifo[s] = <<>>
  BY <1>2, <1>3, <1>4
<1> QED  BY <1>2, <1>3, <1>5, <1>6, <1>7

\* The address side of a subordinate interface.
LEMMA ReadAddressMoves ==
  ASSUME ReadInv, NEW i \in ReadInputs, ReadClock(i), NEW s \in Subs
  PROVE  LET g == Min(ArSel(s))
         IN  sar_fifo'[s] = IF Grants(s) THEN <<[mgr |-> g, len |-> m_left[g] - 1]>>
                            ELSE IF SArHandshake(s, i) THEN <<>> ELSE sar_fifo[s]
<1> DEFINE g == Min(ArSel(s))
           n == Min(ArSel(s) \cup {NMGR})
           x == [mgr |-> n, len |-> IF n = NMGR THEN 0 ELSE Head(ar_fifo[n]).len]
<1>1. sar_fifo'[s] = FifoEdge(sar_fifo[s], ArSel(s) # {} /\ arphase_ready(s), x, arready(s, i))
  BY DEF ReadClock, SubReadEdge
<1>2. ArSel(s) # {} /\ arphase_ready(s) <=> Grants(s)  BY Room DEF Grants
<1>3. CASE Grants(s)
  <2>1. /\ g \in Managers /\ ar_fifo[g] # <<>> /\ m_src[g] = s /\ n = g /\ g # NMGR
        /\ sar_fifo[s] = <<>>
    BY <1>3, Room
  <2>2. ReadMgr(g) /\ s # None  BY <2>1, ReadFacts, Sizes
  <2>3. Head(ar_fifo[g]) = [sub |-> s, len |-> m_left[g] - 1]
    BY <2>1, <2>2, Ones DEF ReadMgr
  <2>4. x = [mgr |-> g, len |-> m_left[g] - 1]  BY <2>1, <2>3
  <2> HIDE DEF x, n
  <2>5. sar_fifo'[s] = <<x>>  BY <1>1, <1>2, <1>3, <2>1, Ones DEF FifoEdge, rdAck
  <2>6. sar_fifo'[s] = <<[mgr |-> g, len |-> m_left[g] - 1]>>  BY <2>4, <2>5
  <2> QED  BY <1>3, <2>6
<1>4. CASE ~Grants(s)
  <2>1. ASSUME sar_fifo[s] # <<>> PROVE Tail(sar_fifo[s]) = <<>>
    <3>1. PICK m \in Managers : Waits(s, m)  BY <2>1, Serving
    <3> QED  BY <3>1, Ones DEF Waits
  <2> HIDE DEF x, g, n
  <2> QED  BY <1>1, <1>2, <1>4, <2>1 DEF FifoEdge, rdAck, SArHandshake
<1> QED  BY <1>3, <1>4

\* The read it serves.
LEMMA ServiceMoves ==
  ASSUME ReadInv, NEW i \in ReadInputs, ReadClock(i), NEW s \in Subs
  PROVE  /\ Grants(s) => ~SArHandshake(s, i) /\ ~SRHandshake(s)
         /\ SArHandshake(s, i) => sar_fifo[s] # <<>> /\ ToGive(s) = 0 /\ ~SRHandshake(s)
         /\ SRHandshake(s) => rvalid(s) /\ ToGive(s) > 0
         /\ (ToGive(s))' = IF SArHandshake(s, i) THEN Head(sar_fifo[s]).len + 1
                           ELSE ToGive(s) - One(SRHandshake(s))
         /\ (ToGive(s))' > 0 => (rid(s))' = IF SArHandshake(s, i) THEN Head(sar_fifo[s]).mgr ELSE rid(s)
         /\ ar_in_progress'[s] = IF Grants(s) THEN TRUE
                                 ELSE ar_in_progress[s] /\ ~(SRHandshake(s) /\ ToGive(s) = 1)
<1>1. SRHandshake(s) => rvalid(s) /\ ToGive(s) > 0 /\ (rlast(s) <=> ToGive(s) = 1)
  BY Serving DEF SRHandshake
<1>2. SArHandshake(s, i) => sar_fifo[s] # <<>> /\ ToGive(s) = 0  BY Serving DEF SArHandshake, rdAck
<1>3. Grants(s) => sar_fifo[s] = <<>> /\ ToGive(s) = 0  BY Room
<1>4. ar_in_progress'[s] = IF Grants(s) THEN TRUE
                           ELSE ar_in_progress[s] /\ ~(SRHandshake(s) /\ ToGive(s) = 1)
  BY <1>1, Room DEF ReadClock, SubReadEdge, Grants
<1>5. ReadSub(s) /\ ToGive(s) \in Nat  BY Serving DEF ReadInv
<1>6. CASE s = DefSub
  <2>1. ToGive(s) = (IF rvalid_sub THEN rlen + 1 ELSE 0) /\ rid(s) = rid_sub /\ (rvalid(s) <=> rvalid_sub)
    BY <1>6 DEF ToGive, rid, rvalid
  <2>2. (ToGive(s))' = (IF rvalid_sub' THEN rlen' + 1 ELSE 0) /\ (rid(s))' = rid_sub'
    BY <1>6 DEF ToGive, rid
  <2>3. CASE SArHandshake(s, i)
    <3>1. rvalid_sub' = TRUE /\ rid_sub' = Head(sar_fifo[s]).mgr /\ rlen' = Head(sar_fifo[s]).len
      BY <1>6, <2>3 DEF ReadClock, DefSubReadEdge
    <3> QED  BY <1>1, <1>2, <1>3, <1>4, <2>1, <2>2, <2>3, <3>1
  <2>4. CASE ~SArHandshake(s, i) /\ SRHandshake(s)
    <3>1. rvalid_sub' = (rlen # 0) /\ rlen' = (rlen - 1) % LenRange /\ rid_sub' = rid_sub
      BY <1>6, <2>4 DEF ReadClock, DefSubReadEdge
    <3>2. rvalid_sub /\ rlen \in Lens  BY <1>1, <1>5, <1>6, <2>1, <2>4 DEF ReadSub
    <3>3. rlen # 0 => (rlen - 1) % LenRange = rlen - 1
      BY <3>2, ReadAssumption DEF Lens
    <3>4. rlen \in Nat  BY <3>2, ReadAssumption DEF Lens
    <3>5. rvalid_sub' <=> rlen # 0  BY <3>1, Zenon
    <3>6. ToGive(s) = rlen + 1  BY <2>1, <3>2
    <3>7. (ToGive(s))' = ToGive(s) - 1  BY <2>2, <3>1, <3>3, <3>4, <3>5, <3>6
    <3> QED  BY <1>1, <1>2, <1>3, <1>4, <2>1, <2>2, <2>4, <3>1, <3>7 DEF One
  <2>5. CASE ~SArHandshake(s, i) /\ ~SRHandshake(s)
    <3>1. rvalid_sub' = rvalid_sub /\ rlen' = rlen /\ rid_sub' = rid_sub
      BY <1>6, <2>5 DEF ReadClock, DefSubReadEdge, defReadVars
    <3> QED  BY <1>1, <1>2, <1>3, <1>4, <1>5, <2>1, <2>2, <2>5, <3>1 DEF One
  <2> QED  BY <2>3, <2>4, <2>5
<1>7. CASE s # DefSub
  <2>1. s \in ExtSubs  BY <1>7 DEF ExtSubs
  <2>2. ToGive(s) = s_left[s] /\ rid(s) = s_mgr[s]  BY <1>7 DEF ToGive, rid
  <2>3. (ToGive(s))' = s_left'[s] /\ (rid(s))' = s_mgr'[s]  BY <1>7 DEF ToGive, rid
  <2>4. s_left'[s] = IF SArHandshake(s, i) THEN Head(sar_fifo[s]).len + 1
                     ELSE IF SRHandshake(s) THEN s_left[s] - 1 ELSE s_left[s]
    BY <2>1 DEF ReadClock, EnvReadEdge
  <2>5. s_mgr'[s] = IF SArHandshake(s, i) THEN Head(sar_fifo[s]).mgr
                    ELSE IF SRHandshake(s) /\ rlast(s) THEN None ELSE s_mgr[s]
    BY <2>1 DEF ReadClock, EnvReadEdge
  <2>6. SRHandshake(s) /\ rlast(s) => s_left[s] - 1 = 0  BY <1>1, <1>7, <2>2
  <2>7. (ToGive(s))' = IF SArHandshake(s, i) THEN Head(sar_fifo[s]).len + 1
                       ELSE ToGive(s) - One(SRHandshake(s))
    BY <1>5, <2>2, <2>3, <2>4 DEF One
  <2>8. (ToGive(s))' > 0 => (rid(s))' = IF SArHandshake(s, i) THEN Head(sar_fifo[s]).mgr ELSE rid(s)
    BY <1>1, <1>2, <2>2, <2>3, <2>4, <2>5, <2>6
  <2> QED  BY <1>1, <1>2, <1>3, <1>4, <2>7, <2>8
<1> QED  BY <1>6, <1>7

\* The data FIFO of a subordinate interface.
LEMMA BeatMoves ==
  ASSUME ReadInv, NEW i \in ReadInputs, ReadClock(i), NEW s \in Subs
  PROVE  LET q == sr_fifo[s]
             d == One(Leaves(s))
             p == One(SRHandshake(s))
         IN  /\ q \in Seq(SubBeat) /\ sr_fifo'[s] \in Seq(SubBeat) /\ Len(q) \in Nat /\ d <= Len(q)
             /\ Len(sr_fifo'[s]) = Len(q) - d + p
             /\ \A k \in 1 .. Len(q) - d : sr_fifo'[s][k] = q[k + d]
             /\ p = 1 => sr_fifo'[s][Len(sr_fifo'[s])] = [mgr |-> rid(s), last |-> rlast(s)]
<1> DEFINE x == [mgr |-> rid(s), last |-> rlast(s)]
           d == One(Leaves(s))  p == One(SRHandshake(s))
<1>1. sr_fifo'[s] = FifoEdge(sr_fifo[s], rvalid(s), x, Leaves(s))
  BY DEF ReadClock, SubReadEdge, Leaves
<1>2. sr_fifo[s] \in Seq(SubBeat)  BY DEF ReadInv, ReadBeats
<1>3. Leaves(s) => sr_fifo[s] # <<>>  BY Selects DEF Leaves
<1>4. d \in 0 .. 1 /\ p \in 0 .. 1 /\ (d = 1 <=> Leaves(s)) /\ (p = 1 <=> SRHandshake(s))
  BY DEF One
<1>5. SRHandshake(s) => rid(s) \in Managers /\ rlast(s) \in BOOLEAN
  BY Serving DEF SRHandshake
<1>6. p = 1 => x \in SubBeat  BY <1>4, <1>5 DEF SubBeat
<1> HIDE DEF x
<1>7. sr_fifo'[s] = LET t == IF d = 1 THEN Tail(sr_fifo[s]) ELSE sr_fifo[s]
                    IN  IF p = 1 THEN Append(t, x) ELSE t
  BY <1>1, <1>3, <1>4 DEF FifoEdge, rdAck, SRHandshake
<1>8. d = 1 => sr_fifo[s] # <<>>  BY <1>3, <1>4
<1> HIDE DEF d, p
<1>9. /\ sr_fifo'[s] \in Seq(SubBeat) /\ Len(sr_fifo[s]) \in Nat
      /\ Len(sr_fifo'[s]) = Len(sr_fifo[s]) - d + p /\ d <= Len(sr_fifo[s])
      /\ \A k \in 1 .. Len(sr_fifo[s]) - d : sr_fifo'[s][k] = sr_fifo[s][k + d]
      /\ p = 1 => sr_fifo'[s][Len(sr_fifo'[s])] = x
  BY <1>2, <1>4, <1>6, <1>7, <1>8, FifoMoves
<1> QED  BY <1>2, <1>9 DEF d, p, x

LEMMA NoneCounted ==
  ASSUME NEW m, NEW q, NEW k \in Nat, \A j \in 1 .. k : q[j].mgr # m
  PROVE  BeatsFor(m, q, k) = 0
<1>1. {j \in 1 .. k : q[j].mgr = m} = {}  OBVIOUS
<1> QED  BY <1>1, FS_EmptySet DEF BeatsFor

\* A read of which beats are still to come goes on.
LEMMA GoesOn ==
  ASSUME ReadInv, NEW i \in ReadInputs, ReadClock(i), NEW s \in Subs, NEW m \in Managers,
         m_src[m] = s,
         ar_fifo[m] # <<>> \/ Waits(s, m) \/ Serves(s, m) \/ Count(s, m) > 0
  PROVE  ~ArHandshake(m) /\ m_src'[m] = s
<1>1. ~ArHandshake(m)  BY TakeMoves, Sizes
<1>2. ~(RHandshake(m, i) /\ m_left[m] = 1)  BY LastLeaves
<1> QED  BY <1>1, <1>2, MgrMoves

LEMMA BeatsStay ==
  ASSUME ReadInv, NEW i \in ReadInputs, ReadClock(i), NEW s \in Subs,
         NEW k \in 1 .. Len(sr_fifo'[s])
  PROVE  /\ sr_fifo'[s][k].mgr \in Managers
         /\ m_src[sr_fifo'[s][k].mgr] = s /\ m_src'[sr_fifo'[s][k].mgr] = s
<1> DEFINE q == sr_fifo[s]  r == sr_fifo'[s]  m == r[k].mgr
           d == One(Leaves(s))  p == One(SRHandshake(s))
<1>1. /\ q \in Seq(SubBeat) /\ r \in Seq(SubBeat) /\ Len(q) \in Nat /\ d <= Len(q)
      /\ Len(r) = Len(q) - d + p /\ \A j \in 1 .. Len(q) - d : r[j] = q[j + d]
      /\ p = 1 => r[Len(r)] = [mgr |-> rid(s), last |-> rlast(s)]
  BY BeatMoves
<1>2. d \in 0 .. 1 /\ p \in 0 .. 1 /\ (p = 1 <=> SRHandshake(s))  BY DEF One
<1>3. r[k] \in SubBeat  BY <1>1
<1>4. m \in Managers  BY <1>3 DEF SubBeat
<1>5. CASE k <= Len(q) - d
  <2>1. r[k] = q[k + d] /\ k + d \in 1 .. Len(q)  BY <1>1, <1>2, <1>5
  <2>2. m_src[m] = s  BY <2>1 DEF ReadInv, ReadBeats
  <2>3. Count(s, m) > 0  BY <1>1, <2>1, SomeCounted DEF Count
  <2> QED  BY <1>4, <2>2, <2>3, GoesOn
<1>6. CASE ~(k <= Len(q) - d)
  <2>1. p = 1 /\ k = Len(r)  BY <1>1, <1>2, <1>6
  <2>2. r[k] = [mgr |-> rid(s), last |-> rlast(s)] /\ SRHandshake(s)  BY <1>1, <1>2, <2>1
  <2>3. m = rid(s)  BY <2>2
  <2>4. m_src[m] = s /\ Serves(s, m)  BY <2>2, <2>3, ServiceMoves, Serving DEF Serves
  <2> QED  BY <1>4, <2>4, GoesOn
<1> QED  BY <1>5, <1>6

\* What is still to come of a read.
Coming(m, s) ==
  IF ar_fifo[m] # <<>> \/ Waits(s, m) THEN m_left[m]
  ELSE IF Serves(s, m) THEN ToGive(s) ELSE 0

ComingTable ==
  \A m \in Managers, s \in Subs :
    m_src[m] = s /\ ~(ar_fifo[m] # <<>> /\ Waits(s, m))
    /\ (ar_fifo[m] # <<>> \/ Waits(s, m) => ~Serves(s, m))
    => Unfetched(m, s) = Coming(m, s)

LEMMA ComingIs == ReadTypes => ComingTable
<1> SUFFICES ASSUME ReadTypes, NEW m \in Managers, NEW s \in Subs, m_src[m] = s,
                    ~(ar_fifo[m] # <<>> /\ Waits(s, m)),
                    ar_fifo[m] # <<>> \/ Waits(s, m) => ~Serves(s, m)
             PROVE  Unfetched(m, s) = Coming(m, s)
  BY DEF ComingTable
<1>1. /\ m_left[m] \in Nat /\ ToGive(s) \in Nat
      /\ Unfetched(m, s) = (IF ar_fifo[m] # <<>> THEN m_left[m] ELSE 0)
                           + (IF Waits(s, m) THEN m_left[m] ELSE 0)
                           + (IF Serves(s, m) THEN ToGive(s) ELSE 0)
  BY UnfetchedIs
<1> DEFINE A == ar_fifo[m] # <<>>  W == Waits(s, m)  S == Serves(s, m)
           l == m_left[m]  t == ToGive(s)
<1>2. /\ l \in Nat /\ t \in Nat /\ ~(A /\ W) /\ (A \/ W => ~S)
      /\ Unfetched(m, s) = (IF A THEN l ELSE 0) + (IF W THEN l ELSE 0) + (IF S THEN t ELSE 0)
      /\ Coming(m, s) = IF A \/ W THEN l ELSE IF S THEN t ELSE 0
  BY <1>1 DEF Coming
<1> HIDE DEF A, W, S, l, t
<1> QED  BY <1>2

\* In a state of the invariant.
LEMMA ComingSum ==
  ASSUME ReadInv, NEW m \in Managers, NEW s \in Subs, m_src[m] = s
  PROVE  /\ Coming(m, s) \in Nat
         /\ Len(r_fifo[m]) + Count(s, m) + Coming(m, s) = m_left[m]
  BY OnePlace DEF Coming

LEMMA ComingNext == ReadTypes' => ComingTable'
<1> QED  BY ComingIs, PTL

LEMMA PrimedPlaces ==
  ASSUME NEW m, NEW s
  PROVE  /\ (Waits(s, m))' <=> sar_fifo'[s] = <<[mgr |-> m, len |-> m_left'[m] - 1]>>
         /\ (Serves(s, m))' <=> (ToGive(s))' > 0 /\ (rid(s))' = m
         /\ (Coming(m, s))' = IF ar_fifo'[m] # <<>> \/ (Waits(s, m))' THEN m_left'[m]
                              ELSE IF (Serves(s, m))' THEN (ToGive(s))' ELSE 0
  BY DEF Waits, Serves, Coming

\* Nobody is served who did not wait, and nobody waits who was not taken.
LEMMA NotServed ==
  ASSUME ReadInv, NEW i \in ReadInputs, ReadClock(i), NEW s \in Subs, NEW m \in Managers,
         ~Waits(s, m)
  PROVE  /\ ~Serves(s, m) => ~(Serves(s, m))'
         /\ ~(arphase_accept(m) /\ m_src[m] = s) => ~(Waits(s, m))'
<1>1. ASSUME ~Serves(s, m), (Serves(s, m))' PROVE FALSE
  <2>1. (ToGive(s))' > 0 /\ (rid(s))' = m  BY <1>1, PrimedPlaces
  <2>2. CASE SArHandshake(s, i)
    <3>1. sar_fifo[s] # <<>> /\ Head(sar_fifo[s]).mgr = m  BY <2>1, <2>2, ServiceMoves
    <3>2. PICK n \in Managers : Waits(s, n)  BY <3>1, Serving
    <3>3. Head(sar_fifo[s]).mgr = n  BY <3>2, Ones DEF Waits
    <3> QED  BY <3>1, <3>2, <3>3
  <2>3. CASE ~SArHandshake(s, i)
    <3>1. rid(s) = m /\ (ToGive(s))' = ToGive(s) - One(SRHandshake(s))
      BY <2>1, <2>3, ServiceMoves
    <3>2. ToGive(s) \in Nat /\ One(SRHandshake(s)) \in 0 .. 1  BY Serving DEF One
    <3>3. ToGive(s) > 0  BY <2>1, <3>1, <3>2
    <3> QED  BY <1>1, <3>1, <3>3 DEF Serves
  <2> QED  BY <2>2, <2>3
<1>2. ASSUME ~(arphase_accept(m) /\ m_src[m] = s), (Waits(s, m))' PROVE FALSE
  <2>1. sar_fifo'[s] = <<[mgr |-> m, len |-> m_left'[m] - 1]>>  BY <1>2, PrimedPlaces
  <2>2. sar_fifo'[s] # <<>> /\ Head(sar_fifo'[s]).mgr = m  BY <2>1, Ones
  <2>3. CASE Grants(s)
    <3> DEFINE g == Min(ArSel(s))
    <3>1. sar_fifo'[s] = <<[mgr |-> g, len |-> m_left[g] - 1]>>  BY <2>3, ReadAddressMoves
    <3>2. Head(sar_fifo'[s]).mgr = g  BY <3>1, Ones
    <3>3. m = Min(ArSel(s)) /\ m_src[m] = s  BY <2>2, <2>3, <3>2, Room
    <3> QED  BY <1>2, <2>3, <3>3, Granted
  <2>4. CASE ~Grants(s)
    <3>1. sar_fifo'[s] = sar_fifo[s] /\ sar_fifo[s] # <<>>  BY <2>2, <2>4, ReadAddressMoves
    <3>2. PICK n \in Managers : Waits(s, n)  BY <3>1, Serving
    <3>3. Head(sar_fifo[s]).mgr = n  BY <3>2, Ones DEF Waits
    <3> QED  BY <2>2, <3>1, <3>2, <3>3
  <2> QED  BY <2>3, <2>4
<1> QED  BY <1>1, <1>2

\* A read that goes on is in one place, and what is still to come of it is less
\* by the beat that its subordinate gives.
LEMMA ReadMoves ==
  ASSUME ReadInv, NEW i \in ReadInputs, ReadClock(i), NEW s \in Subs, NEW m \in Managers,
         m_src[m] = s, m_src'[m] = s
  PROVE  /\ ~ArHandshake(m) /\ m_left'[m] = m_left[m] - One(RHandshake(m, i))
         /\ ~(ar_fifo'[m] # <<>> /\ (Waits(s, m))')
         /\ ar_fifo'[m] # <<>> \/ (Waits(s, m))' => ~(Serves(s, m))'
         /\ (Coming(m, s))' = Coming(m, s) - One(SRHandshake(s) /\ rid(s) = m)
<1>1. ~ArHandshake(m)  BY TakeMoves, Sizes
<1>2. m_left[m] \in Nat \ {0} /\ ToGive(s) \in Nat  BY OnePlace
<1>3. m_left'[m] = m_left[m] - One(RHandshake(m, i))  BY <1>1, <1>2, MgrMoves DEF One
<1>4. ar_fifo'[m] = IF arphase_accept(m) THEN <<>> ELSE ar_fifo[m]  BY <1>1, MgrMoves
<1>5. arphase_accept(m) => ar_fifo[m] # <<>> /\ Grants(s) /\ m = Min(ArSel(s))  BY Granted
<1>6. ar_fifo[m] # <<>> \/ Waits(s, m) =>
        m_left'[m] = m_left[m] /\ ~Serves(s, m) /\ ~(ar_fifo[m] # <<>> /\ Waits(s, m))
  <2> SUFFICES ASSUME ar_fifo[m] # <<>> \/ Waits(s, m)
               PROVE  m_left'[m] = m_left[m] /\ ~Serves(s, m)
                      /\ ~(ar_fifo[m] # <<>> /\ Waits(s, m))
    OBVIOUS
  <2>1. r_fifo[m] = <<>> /\ ~Serves(s, m) /\ ~(ar_fifo[m] # <<>> /\ Waits(s, m))  BY OnePlace
  <2>2. ~RHandshake(m, i)  BY <2>1 DEF RHandshake, rdAck
  <2> QED  BY <1>2, <1>3, <2>1, <2>2 DEF One
<1>7. SRHandshake(s) /\ rid(s) = m => Serves(s, m)  BY ServiceMoves DEF Serves
<1>12. /\ SArHandshake(s, i) => ToGive(s) = 0
       /\ (ToGive(s))' = IF SArHandshake(s, i) THEN Head(sar_fifo[s]).len + 1
                         ELSE ToGive(s) - One(SRHandshake(s))
       /\ (ToGive(s))' > 0 =>
            (rid(s))' = IF SArHandshake(s, i) THEN Head(sar_fifo[s]).mgr ELSE rid(s)
  BY ServiceMoves
<1>8. CASE ar_fifo[m] # <<>> /\ arphase_accept(m)
  <2>1. ar_fifo'[m] = <<>> /\ ~(Serves(s, m))'  BY <1>4, <1>6, <1>8, NotServed
  <2>2. sar_fifo'[s] = <<[mgr |-> m, len |-> m_left'[m] - 1]>>
    BY <1>5, <1>6, <1>8, ReadAddressMoves
  <2>3. (Waits(s, m))'  BY <2>2, PrimedPlaces
  <2>4. (Coming(m, s))' = m_left[m] /\ Coming(m, s) = m_left[m]
    BY <1>6, <1>8, <2>3, PrimedPlaces DEF Coming
  <2>5. ~(SRHandshake(s) /\ rid(s) = m)  BY <1>6, <1>7, <1>8
  <2> QED  BY <1>1, <1>2, <1>3, <2>1, <2>4, <2>5 DEF One
<1>9. CASE ar_fifo[m] # <<>> /\ ~arphase_accept(m)
  <2>1. ar_fifo'[m] # <<>> /\ ~(Serves(s, m))' /\ ~(Waits(s, m))'
    BY <1>4, <1>6, <1>9, NotServed
  <2>2. (Coming(m, s))' = m_left[m] /\ Coming(m, s) = m_left[m]
    BY <1>6, <1>9, <2>1, PrimedPlaces DEF Coming
  <2>3. ~(SRHandshake(s) /\ rid(s) = m)  BY <1>6, <1>7, <1>9
  <2> QED  BY <1>1, <1>2, <1>3, <2>1, <2>2, <2>3 DEF One
<1>10. CASE Waits(s, m)
  <2>1. ar_fifo[m] = <<>> /\ ar_fifo'[m] = <<>> /\ m_left'[m] = m_left[m]
    BY <1>4, <1>6, <1>10
  <2>2. sar_fifo[s] = <<[mgr |-> m, len |-> m_left[m] - 1]>> /\ sar_fifo[s] # <<>>
        /\ Head(sar_fifo[s]).mgr = m /\ Head(sar_fifo[s]).len = m_left[m] - 1
    BY <1>10, Ones DEF Waits
  <2>3. ~Grants(s) /\ ~SRHandshake(s) /\ ToGive(s) = 0  BY <2>2, Room, Serving, ServiceMoves
  <2>4. Coming(m, s) = m_left[m]  BY <1>10 DEF Coming
  <2>5. CASE SArHandshake(s, i)
    <3>0. (ToGive(s))' = m_left[m] /\ (rid(s))' = m  BY <1>2, <1>12, <2>2, <2>5
    <3>1. sar_fifo'[s] = <<>>  BY <2>3, <2>5, ReadAddressMoves
    <3>2. ~(Waits(s, m))'
      <4>1. sar_fifo'[s] # <<[mgr |-> m, len |-> m_left'[m] - 1]>>  BY <3>1, Ones
      <4>2. (Waits(s, m))' <=> sar_fifo'[s] = <<[mgr |-> m, len |-> m_left'[m] - 1]>>
        BY PrimedPlaces
      <4> QED  BY <4>1, <4>2
    <3>4. (Serves(s, m))'
      <4>1. (ToGive(s))' > 0 /\ (rid(s))' = m  BY <1>2, <3>0
      <4> QED  BY <4>1, PrimedPlaces
    <3>3. (Coming(m, s))' = m_left[m]  BY <2>1, <3>0, <3>2, <3>4, PrimedPlaces
    <3> QED  BY <1>1, <1>2, <1>3, <2>1, <2>3, <2>4, <3>2, <3>3 DEF One
  <2>6. CASE ~SArHandshake(s, i)
    <3>4. (ToGive(s))' = 0 - 0  BY <1>12, <2>3, <2>6 DEF One
    <3>0. (ToGive(s))' = 0  BY <3>4
    <3>1. sar_fifo'[s] = sar_fifo[s]  BY <2>3, <2>6, ReadAddressMoves
    <3>2. (Waits(s, m))' /\ ~(Serves(s, m))'  BY <2>1, <2>2, <3>0, <3>1, PrimedPlaces
    <3>3. (Coming(m, s))' = m_left[m]  BY <2>1, <3>2, PrimedPlaces
    <3> QED  BY <1>1, <1>2, <1>3, <2>1, <2>3, <2>4, <3>2, <3>3 DEF One
  <2> QED  BY <2>5, <2>6
<1>11. CASE ar_fifo[m] = <<>> /\ ~Waits(s, m)
  <2>1. ar_fifo'[m] = <<>> /\ ~(Waits(s, m))'  BY <1>4, <1>5, <1>11, NotServed
  <2>2. (Coming(m, s))' = IF (Serves(s, m))' THEN (ToGive(s))' ELSE 0  BY <2>1, PrimedPlaces
  <2>3. Coming(m, s) = IF Serves(s, m) THEN ToGive(s) ELSE 0  BY <1>11 DEF Coming
  <2>4. CASE Serves(s, m)
    <3>1. ToGive(s) > 0 /\ rid(s) = m  BY <2>4 DEF Serves
    <3>2. ~SArHandshake(s, i)  BY <1>12, <3>1
    <3>3. (ToGive(s))' = ToGive(s) - One(SRHandshake(s))
          /\ ((ToGive(s))' > 0 => (rid(s))' = m)
      BY <1>12, <3>1, <3>2
    <3>4. One(SRHandshake(s)) \in 0 .. 1 /\ One(SRHandshake(s)) = One(SRHandshake(s) /\ rid(s) = m)
      BY <3>1 DEF One
    <3>5. (ToGive(s))' \in Nat  BY <1>2, <3>1, <3>3, <3>4
    <3>7. (ToGive(s))' > 0 => (Serves(s, m))'  BY <3>3, PrimedPlaces
    <3>6. (Coming(m, s))' = (ToGive(s))'  BY <2>2, <3>5, <3>7
    <3> QED  BY <1>1, <1>3, <2>1, <2>3, <2>4, <3>3, <3>4, <3>6
  <2>5. CASE ~Serves(s, m)
    <3>1. ~(Serves(s, m))' /\ ~(SRHandshake(s) /\ rid(s) = m)  BY <1>7, <1>11, <2>5, NotServed
    <3> QED  BY <1>1, <1>3, <2>1, <2>2, <2>3, <2>5, <3>1 DEF One
  <2> QED  BY <2>4, <2>5
<1> QED  BY <1>8, <1>9, <1>10, <1>11

\* How many beats for m are in a data FIFO.
LEMMA CountsMove ==
  ASSUME ReadInv, NEW i \in ReadInputs, ReadClock(i), NEW s \in Subs, NEW m \in Managers
  PROVE  LET q == sr_fifo[s]
             r == sr_fifo'[s]
             d == One(Leaves(s))
             c == One(Comes(m) /\ m_src[m] = s)
         IN  /\ \A k \in 0 .. Len(q) - d : BeatsFor(m, r, k) = BeatsFor(m, q, k + d) - c
             /\ (Count(s, m))' = Count(s, m) - c + One(SRHandshake(s) /\ rid(s) = m)
<1> DEFINE q == sr_fifo[s]  r == sr_fifo'[s]  d == One(Leaves(s))  p == One(SRHandshake(s))
           x == [mgr |-> rid(s), last |-> rlast(s)]
<1>0. /\ q \in Seq(SubBeat) /\ r \in Seq(SubBeat) /\ Len(q) \in Nat /\ d <= Len(q)
      /\ Len(r) = Len(q) - d + p /\ \A k \in 1 .. Len(q) - d : r[k] = q[k + d]
      /\ p = 1 => r[Len(r)] = x
  BY BeatMoves
<1>2. d \in 0 .. 1 /\ p \in 0 .. 1 /\ (d = 1 <=> Leaves(s)) /\ (p = 1 <=> SRHandshake(s))
  BY DEF One
<1>1. Moves(q, r, d, p)
  <2> HIDE DEF q, r, d, p
  <2> QED  BY <1>0, <1>2 DEF Moves
<1>3. (Count(s, m))' = BeatsFor(m, r, Len(r))  BY DEF Count, BeatsFor
<1>4. Leaves(s) /\ q[1].mgr = m <=> Comes(m) /\ m_src[m] = s  BY Forwards
<1>5. x.mgr = rid(s)  OBVIOUS
<1> DEFINE c == One(Comes(m) /\ m_src[m] = s)  e == One(SRHandshake(s) /\ rid(s) = m)
<1>8. c = IF d = 1 /\ q[1].mgr = m THEN 1 ELSE 0  BY <1>2, <1>4 DEF One
<1>9. p = 1 => r[Len(r)].mgr = rid(s)  BY <1>0, <1>5
<1>6. e = IF p = 1 /\ r[Len(r)].mgr = m THEN 1 ELSE 0  BY <1>2, <1>9 DEF One
<1> HIDE DEF q, r, d, p, x, c, e
<1>7. /\ \A k \in 0 .. Len(q) - d : BeatsFor(m, r, k) = BeatsFor(m, q, k + d) - c
      /\ BeatsFor(m, r, Len(r)) = BeatsFor(m, q, Len(q)) - c + e
  BY <1>1, <1>6, <1>8, CountMoves
<1> QED  BY <1>3, <1>7 DEF Count, q, r, d, c, e

\* The manager interfaces.
LEMMA MgrNext ==
  ASSUME ReadInv, NEW i \in ReadInputs, ReadClock(i), NEW m \in Managers
  PROVE  (ReadMgr(m))'
<1>1. CASE ArHandshake(m)
  <2>1. /\ m_ar[m] \in Read /\ m_ar'[m] = NoRead /\ m_src'[m] = m_ar[m].sub
        /\ m_left'[m] = m_ar[m].len + 1 /\ rd_in_progress'[m] = TRUE
        /\ ar_fifo'[m] = <<m_ar[m]>> /\ r_fifo'[m] = <<>>
    BY <1>1, TakeMoves
  <2>2. m_ar[m] = [sub |-> m_ar[m].sub, len |-> m_ar[m].len] /\ m_ar[m].sub \in Subs
        /\ m_ar[m].len \in 0 .. LenRange - 1
    BY <2>1 DEF Read, Lens
  <2>3. m_src'[m] # None /\ m_src'[m] \in Subs  BY <2>1, <2>2, Sizes
  <2>4. m_left'[m] \in 1 .. LenRange /\ m_left'[m] - 1 = m_ar[m].len
    BY <2>1, <2>2, ReadAssumption
  <2>5. ar_fifo'[m] = <<[sub |-> m_src'[m], len |-> m_left'[m] - 1]>>  BY <2>1, <2>2, <2>4
  <2>6. r_fifo'[m] \in Seq(MgrBeat) /\ \A k \in 1 .. Len(r_fifo'[m]) : r_fifo'[m][k].sub = m_src'[m]
    BY <2>1
  <2> QED  BY <2>1, <2>3, <2>4, <2>5, <2>6 DEF ReadMgr
<1>2. CASE ~ArHandshake(m)
  <2>1. /\ m_ar'[m] = m_ar[m]
        /\ m_src'[m] = IF RHandshake(m, i) /\ m_left[m] = 1 THEN None ELSE m_src[m]
        /\ m_left'[m] = IF RHandshake(m, i) THEN m_left[m] - 1 ELSE m_left[m]
        /\ rd_in_progress'[m] \in BOOLEAN /\ (rd_in_progress'[m] <=> m_src'[m] # None)
        /\ ar_fifo'[m] = IF arphase_accept(m) THEN <<>> ELSE ar_fifo[m]
    BY <1>2, MgrMoves
  <2> DEFINE d == One(RHandshake(m, i))  p == One(Comes(m))  q == r_fifo[m]  r == r_fifo'[m]
  <2>2. /\ r \in Seq(MgrBeat) /\ Len(q) \in Nat /\ d <= Len(q)
        /\ Len(r) = Len(q) - d + p
        /\ \A k \in 1 .. Len(q) - d : r[k] = q[k + d]
        /\ p = 1 => r[Len(r)] = [sub |-> m_src[m], last |-> sr_fifo[m_src[m]][1].last]
    BY DataMoves
  <2>3. d \in 0 .. 1 /\ p \in 0 .. 1 /\ (d = 1 <=> RHandshake(m, i)) /\ (p = 1 <=> Comes(m))
    BY DEF One
  <2>4. ReadMgr(m)  BY ReadFacts
  <2>5. m_src[m] \in Subs \cup {None}  BY ReadFacts
  <2>6. ASSUME m_src'[m] = None PROVE ar_fifo'[m] = <<>> /\ r = <<>>
    <3>1. Len(q) - d = 0 /\ ar_fifo[m] = <<>> /\ ~Comes(m)
      <4>1. CASE RHandshake(m, i) /\ m_left[m] = 1
        <5>1. Len(q) = 1 /\ ar_fifo[m] = <<>> /\ RSel(m) = {}  BY <4>1, LastLeaves
        <5>2. ~Comes(m)  BY <5>1 DEF Comes
        <5>3. d = 1  BY <2>3, <4>1
        <5> HIDE DEF d
        <5> QED  BY <5>1, <5>2, <5>3
      <4>2. CASE ~(RHandshake(m, i) /\ m_left[m] = 1)
        <5>1. m_src[m] = None  BY <2>1, <2>6, <4>2
        <5>2. q = <<>> /\ ar_fifo[m] = <<>> /\ RSel(m) = {}  BY <5>1, ReadFacts, Forwards
        <5>3. ~RHandshake(m, i)  BY <5>2 DEF RHandshake, rdAck
        <5> QED  BY <2>3, <5>2, <5>3, Ones DEF Comes
      <4> QED  BY <4>1, <4>2
    <3>2. p = 0  BY <2>3, <3>1
    <3> HIDE DEF d, p, q, r
    <3>3. Len(r) = 0  BY <2>2, <2>3, <3>1, <3>2
    <3>4. r = <<>>  BY <2>2, <3>3
    <3> QED  BY <2>1, <3>1, <3>4
  <2>7. ASSUME m_src'[m] # None
        PROVE  /\ m_src'[m] \in Subs /\ m_left'[m] \in 1 .. LenRange
               /\ ar_fifo'[m] \in {<<>>, <<[sub |-> m_src'[m], len |-> m_left'[m] - 1]>>}
               /\ m_src'[m] = m_src[m]
    <3>1. m_src'[m] = m_src[m] /\ ~(RHandshake(m, i) /\ m_left[m] = 1) /\ m_src[m] # None
      BY <2>1, <2>7
    <3>2. /\ m_src[m] \in Subs /\ m_left[m] \in 1 .. LenRange
          /\ ar_fifo[m] \in {<<>>, <<[sub |-> m_src[m], len |-> m_left[m] - 1]>>}
      BY <2>4, <3>1 DEF ReadMgr
    <3>3. m_left'[m] \in 1 .. LenRange  BY <2>1, <3>1, <3>2, ReadAssumption
    <3>4. ar_fifo[m] # <<>> => m_left'[m] = m_left[m]
      <4>1. ar_fifo[m] # <<>> => r_fifo[m] = <<>>  BY <3>2, OnePlace
      <4> QED  BY <2>1, <4>1 DEF RHandshake, rdAck
    <3> QED  BY <2>1, <3>1, <3>2, <3>3, <3>4
  <2>8. ASSUME NEW k \in 1 .. Len(r) PROVE r[k].sub = m_src'[m]
    <3>1. m_src'[m] # None  BY <2>6, <2>8, Ones
    <3>2. m_src'[m] = m_src[m]  BY <2>7, <3>1
    <3>3. \A j \in 1 .. Len(q) : q[j].sub = m_src[m]  BY <2>4 DEF ReadMgr
    <3> HIDE DEF d, p, q, r
    <3>4. CASE k <= Len(q) - d
      <4>1. k + d \in 1 .. Len(q) /\ r[k] = q[k + d]  BY <2>2, <2>3, <2>8, <3>4
      <4> QED  BY <3>2, <3>3, <4>1
    <3>5. CASE ~(k <= Len(q) - d)
      <4>1. p = 1 /\ k = Len(r)  BY <2>2, <2>3, <2>8, <3>5
      <4>2. r[k] = [sub |-> m_src[m], last |-> sr_fifo[m_src[m]][1].last]  BY <2>2, <4>1
      <4> QED  BY <3>2, <4>2
    <3> QED  BY <3>4, <3>5
  <2>9. m_ar'[m] = NoRead \/ m_ar'[m] \in Read  BY <2>1, <2>4 DEF ReadMgr
  <2> QED  BY <2>1, <2>2, <2>6, <2>7, <2>8, <2>9 DEF ReadMgr
<1> QED  BY <1>1, <1>2

\* The subordinate interfaces.
LEMMA ServesNext ==
  ASSUME ReadInv, NEW i \in ReadInputs, ReadClock(i), NEW s \in Subs
  PROVE  /\ ar_in_progress'[s] \in BOOLEAN
         /\ ~ar_in_progress'[s] => sar_fifo'[s] = <<>> /\ (ToGive(s))' = 0
         /\ ar_in_progress'[s] => \E m \in Managers :
              /\ m_src'[m] = s
              /\ \/ (Waits(s, m))' /\ (ToGive(s))' = 0
                 \/ sar_fifo'[s] = <<>> /\ (ToGive(s))' > 0 /\ (rid(s))' = m
<1>1. /\ Grants(s) => ~SArHandshake(s, i) /\ ~SRHandshake(s)
      /\ SArHandshake(s, i) => sar_fifo[s] # <<>> /\ ToGive(s) = 0 /\ ~SRHandshake(s)
      /\ SRHandshake(s) => ToGive(s) > 0
      /\ (ToGive(s))' = IF SArHandshake(s, i) THEN Head(sar_fifo[s]).len + 1
                        ELSE ToGive(s) - One(SRHandshake(s))
      /\ (ToGive(s))' > 0 => (rid(s))' = IF SArHandshake(s, i) THEN Head(sar_fifo[s]).mgr ELSE rid(s)
      /\ ar_in_progress'[s] = IF Grants(s) THEN TRUE
                              ELSE ar_in_progress[s] /\ ~(SRHandshake(s) /\ ToGive(s) = 1)
  BY ServiceMoves
<1>2. sar_fifo'[s] = IF Grants(s) THEN <<[mgr |-> Min(ArSel(s)), len |-> m_left[Min(ArSel(s))] - 1]>>
                     ELSE IF SArHandshake(s, i) THEN <<>> ELSE sar_fifo[s]
  BY ReadAddressMoves
<1>3. /\ ar_in_progress[s] \in BOOLEAN /\ ToGive(s) \in Nat
      /\ ~ar_in_progress[s] => sar_fifo[s] = <<>> /\ ToGive(s) = 0
      /\ ar_in_progress[s] => \E m \in Managers :
           /\ m_src[m] = s
           /\ \/ Waits(s, m) /\ ToGive(s) = 0
              \/ sar_fifo[s] = <<>> /\ ToGive(s) > 0 /\ rid(s) = m
  BY Serving DEF ReadInv, ReadSub
<1>4. CASE Grants(s)
  <2>0. PICK g \in Managers : g = Min(ArSel(s))  BY <1>4, Room
  <2>1. g \in Managers /\ ar_fifo[g] # <<>> /\ m_src[g] = s /\ ToGive(s) = 0
    BY <1>4, <2>0, Room
  <2>7. sar_fifo'[s] = <<[mgr |-> g, len |-> m_left[g] - 1]>>  BY <1>2, <1>4, <2>0
  <2>2. ~ArHandshake(g) /\ m_src'[g] = s  BY <2>1, GoesOn
  <2>3. m_left'[g] = m_left[g]
    <3>1. r_fifo[g] = <<>>  BY <2>1, OnePlace
    <3>2. ~RHandshake(g, i)  BY <3>1 DEF RHandshake, rdAck
    <3> QED  BY <2>1, <2>2, <3>2, MgrMoves
  <2>4. (Waits(s, g))'  BY <2>3, <2>7, PrimedPlaces
  <2>5. (ToGive(s))' = 0 - 0  BY <1>1, <1>4, <2>1 DEF One
  <2>6. ar_in_progress'[s] = TRUE  BY <1>1, <1>4
  <2>8. (ToGive(s))' = 0  BY <2>5
  <2> QED  BY <2>1, <2>2, <2>4, <2>6, <2>8
<1>5. CASE ~Grants(s) /\ ~ar_in_progress[s]
  <2>1. sar_fifo[s] = <<>> /\ ToGive(s) = 0 /\ ~SArHandshake(s, i) /\ ~SRHandshake(s)
    BY <1>1, <1>3, <1>5
  <2>2. (ToGive(s))' = 0 - 0  BY <1>1, <2>1 DEF One
  <2>3. sar_fifo'[s] = <<>>  BY <1>2, <1>5, <2>1
  <2>4. ar_in_progress'[s] = FALSE  BY <1>1, <1>3, <1>5
  <2>5. (ToGive(s))' = 0  BY <2>2
  <2> QED  BY <2>3, <2>4, <2>5
<1>6. CASE ~Grants(s) /\ ar_in_progress[s]
  <2>1. PICK m \in Managers : /\ m_src[m] = s
                              /\ \/ Waits(s, m) /\ ToGive(s) = 0
                                 \/ sar_fifo[s] = <<>> /\ ToGive(s) > 0 /\ rid(s) = m
    BY <1>3, <1>6
  <2>2. m_src'[m] = s  BY <2>1, GoesOn DEF Serves
  <2>3. ar_in_progress'[s] \in BOOLEAN /\ (ar_in_progress'[s] <=> ~(SRHandshake(s) /\ ToGive(s) = 1))
    BY <1>1, <1>6
  <2>4. CASE Waits(s, m) /\ ToGive(s) = 0
    <3>1. sar_fifo[s] # <<>> /\ ~SRHandshake(s)  BY <1>1, <2>4, Ones DEF Waits
    <3>2. ar_in_progress'[s]  BY <2>3, <3>1
    <3>3. m_left[m] \in Nat \ {0}  BY <2>1, OnePlace
    <3>4. CASE SArHandshake(s, i)
      <4>1. Head(sar_fifo[s]).mgr = m /\ Head(sar_fifo[s]).len = m_left[m] - 1
        BY <2>4, Ones DEF Waits
      <4>2. (ToGive(s))' > 0  BY <1>1, <3>3, <3>4, <4>1
      <4>3. (rid(s))' = m  BY <1>1, <3>4, <4>1, <4>2
      <4>4. sar_fifo'[s] = <<>>  BY <1>2, <1>6, <3>4
      <4> QED  BY <2>2, <2>3, <3>2, <4>2, <4>3, <4>4
    <3>5. CASE ~SArHandshake(s, i)
      <4>1. sar_fifo'[s] = sar_fifo[s]  BY <1>2, <1>6, <3>5
      <4>2. (ToGive(s))' = 0 - 0  BY <1>1, <2>4, <3>1, <3>5 DEF One
      <4>3. m_left'[m] = m_left[m]
        <5>1. r_fifo[m] = <<>> /\ ~ArHandshake(m)  BY <2>1, <2>4, OnePlace, GoesOn
        <5> QED  BY <5>1, MgrMoves DEF RHandshake, rdAck
      <4>4. sar_fifo'[s] = <<[mgr |-> m, len |-> m_left'[m] - 1]>>
        BY <2>4, <4>1, <4>3 DEF Waits
      <4>5. (Waits(s, m))'  BY <4>4, PrimedPlaces
      <4> QED  BY <2>2, <2>3, <3>2, <4>2, <4>5
    <3> QED  BY <3>4, <3>5
  <2>5. CASE sar_fifo[s] = <<>> /\ ToGive(s) > 0 /\ rid(s) = m
    <3>1. ~SArHandshake(s, i)  BY <1>1, <2>5
    <3>2. sar_fifo'[s] = <<>>  BY <1>2, <1>6, <2>5
    <3>3. (ToGive(s))' = ToGive(s) - One(SRHandshake(s))  BY <1>1, <3>1
    <3>4. (ToGive(s))' > 0 => (rid(s))' = m  BY <1>1, <2>5, <3>1
    <3>5. CASE SRHandshake(s) /\ ToGive(s) = 1
      <4>1. (ToGive(s))' = 1 - 1  BY <3>3, <3>5 DEF One
      <4> QED  BY <2>3, <3>2, <3>5, <4>1
    <3>6. CASE ~(SRHandshake(s) /\ ToGive(s) = 1)
      <4>1. (ToGive(s))' > 0
        <5>1. One(SRHandshake(s)) = (IF SRHandshake(s) THEN 1 ELSE 0)  BY DEF One
        <5> QED  BY <1>3, <2>5, <3>3, <3>6, <5>1
      <4> QED  BY <2>2, <2>3, <3>2, <3>4, <3>6, <4>1
    <3> QED  BY <3>5, <3>6
  <2> QED  BY <2>1, <2>4, <2>5
<1> QED  BY <1>4, <1>5, <1>6

LEMMA SubNext ==
  ASSUME ReadInv, NEW i \in ReadInputs, ReadClock(i), NEW s \in Subs
  PROVE  (ReadSub(s))'
<1>1. ReadSub(s)  BY DEF ReadInv
<1>2. ASSUME s = DefSub
      PROVE  rvalid_sub' \in BOOLEAN /\ (rvalid_sub' => rlen' \in Lens /\ rlast_sub' = (rlen' = 0))
  <2>1. rvalid_sub \in BOOLEAN /\ (rvalid_sub => rlen \in Lens /\ rlast_sub = (rlen = 0))
    BY <1>1, <1>2 DEF ReadSub
  <2>2. CASE SArHandshake(s, i)
    <3>1. /\ rvalid_sub' = TRUE /\ rlen' = Head(sar_fifo[s]).len
          /\ rlast_sub' = (Head(sar_fifo[s]).len = 0)
      BY <1>2, <2>2 DEF ReadClock, DefSubReadEdge
    <3>2. PICK m \in Managers : m_src[m] = s /\ Waits(s, m)  BY <2>2, Serving, ServiceMoves
    <3>3. Head(sar_fifo[s]).len = m_left[m] - 1  BY <3>2, Ones DEF Waits
    <3>4. m_left[m] \in 1 .. LenRange  BY <3>2, Sizes, ReadFacts DEF ReadMgr
    <3>5. rlen' \in Lens  BY <3>1, <3>3, <3>4, ReadAssumption DEF Lens
    <3> QED  BY <3>1, <3>5
  <2>3. CASE ~SArHandshake(s, i) /\ SRHandshake(s)
    <3>1. rvalid_sub' = (rlen # 0) /\ rlast_sub' = (rlen = 1) /\ rlen' = (rlen - 1) % LenRange
      BY <1>2, <2>3 DEF ReadClock, DefSubReadEdge
    <3>2. rvalid_sub  BY <1>2, <2>3, ServiceMoves DEF rvalid
    <3>3. rlen \in 0 .. LenRange - 1 /\ LenRange \in Nat \ {0, 1}
      BY <2>1, <3>2, ReadAssumption DEF Lens
    <3>4. rlen # 0 => (rlen - 1) % LenRange = rlen - 1  BY <3>3
    <3>5. rlen # 0 => rlen' \in Lens /\ (rlen' = 0 <=> rlen = 1)  BY <3>1, <3>3, <3>4 DEF Lens
    <3>6. rvalid_sub' \in BOOLEAN /\ (rvalid_sub' <=> rlen # 0)  BY <3>1, Zenon
    <3>7. rlast_sub' = (rlen = 1)  BY <3>1
    <3> QED  BY <3>5, <3>6, <3>7
  <2>4. CASE ~SArHandshake(s, i) /\ ~SRHandshake(s)
    <3>1. rvalid_sub' = rvalid_sub /\ rlen' = rlen /\ rlast_sub' = rlast_sub
      BY <1>2, <2>4 DEF ReadClock, DefSubReadEdge, defReadVars
    <3> QED  BY <2>1, <3>1
  <2> QED  BY <2>2, <2>3, <2>4
<1>3. ASSUME s # DefSub
      PROVE  s_left'[s] \in Nat /\ (s_rvalid'[s] => s_left'[s] > 0)
  <2>1. s \in ExtSubs  BY <1>3 DEF ExtSubs
  <2>2. ToGive(s) = s_left[s] /\ (ToGive(s))' = s_left'[s] /\ (rvalid(s) <=> s_rvalid[s])
    BY <1>3 DEF ToGive, rvalid
  <2>3. s_left[s] \in Nat /\ (s_rvalid[s] => s_left[s] > 0)  BY <1>1, <1>3 DEF ReadSub
  <2>4. s_left'[s] \in Nat
    <3>1. ~ar_in_progress'[s] => s_left'[s] = 0  BY <2>2, ServesNext
    <3>2. SArHandshake(s, i) => Head(sar_fifo[s]).len + 1 \in Nat
      <4> SUFFICES ASSUME SArHandshake(s, i) PROVE Head(sar_fifo[s]).len + 1 \in Nat  OBVIOUS
      <4>1. PICK m \in Managers : m_src[m] = s /\ Waits(s, m)  BY Serving, ServiceMoves
      <4>2. m_left[m] \in Nat \ {0}  BY <4>1, OnePlace
      <4>3. Head(sar_fifo[s]).len = m_left[m] - 1  BY <4>1, Ones DEF Waits
      <4> QED  BY <4>2, <4>3
    <3>3. SRHandshake(s) => s_left[s] > 0  BY <2>2, ServiceMoves
    <3>4. s_left'[s] = IF SArHandshake(s, i) THEN Head(sar_fifo[s]).len + 1
                       ELSE IF SRHandshake(s) THEN s_left[s] - 1 ELSE s_left[s]
      BY <2>1 DEF ReadClock, EnvReadEdge
    <3> QED  BY <2>3, <3>2, <3>3, <3>4
  <2>5. ASSUME s_rvalid'[s] PROVE s_left'[s] > 0
    <3>1. s_rvalid[s] /\ ~SRHandshake(s)  BY <2>1, <2>5 DEF ReadClock, EnvReadEdge
    <3>2. ToGive(s) > 0  BY <2>2, <2>3, <3>1
    <3>5. SArHandshake(s, i) => ToGive(s) = 0  BY ServiceMoves
    <3>3. ~SArHandshake(s, i)  BY <3>2, <3>5
    <3>4. s_left'[s] = s_left[s]  BY <2>1, <3>1, <3>3 DEF ReadClock, EnvReadEdge
    <3> QED  BY <2>3, <3>1, <3>4
  <2> QED  BY <2>4, <2>5
<1>4. /\ ar_in_progress'[s] \in BOOLEAN
      /\ ~ar_in_progress'[s] => sar_fifo'[s] = <<>> /\ (ToGive(s))' = 0
      /\ ar_in_progress'[s] => \E m \in Managers :
           /\ m_src'[m] = s
           /\ \/ (Waits(s, m))' /\ (ToGive(s))' = 0
              \/ sar_fifo'[s] = <<>> /\ (ToGive(s))' > 0 /\ (rid(s))' = m
  BY ServesNext
<1> QED  BY <1>2, <1>3, <1>4 DEF ReadSub

LEMMA BeatsNext ==
  ASSUME ReadInv, NEW i \in ReadInputs, ReadClock(i), NEW s \in Subs
  PROVE  (ReadBeats(s))'
<1>1. sr_fifo'[s] \in Seq(SubBeat)  BY BeatMoves
<1>2. \A k \in 1 .. Len(sr_fifo'[s]) : m_src'[sr_fifo'[s][k].mgr] = s  BY BeatsStay
<1> QED  BY <1>1, <1>2 DEF ReadBeats

LEMMA TypesNext ==
  ASSUME ReadInv, NEW i \in ReadInputs, ReadClock(i)
  PROVE  ReadTypes'
<1>1. \A m \in Managers : (ReadMgr(m))'  BY MgrNext
<1>2. \A s \in Subs : (ReadSub(s))' /\ (ReadBeats(s))'  BY SubNext, BeatsNext
<1> QED  BY <1>1, <1>2 DEF ReadTypes

\* BeatsConserved for one manager that reads from one subordinate.
BeatsKept(m, s) ==
  m_src[m] = s =>
    /\ Len(r_fifo[m]) + Count(s, m) + Unfetched(m, s) = m_left[m]
    /\ \A k \in 1 .. Len(r_fifo[m]) : r_fifo[m][k].last <=> k = m_left[m]
    /\ \A k \in 1 .. Len(sr_fifo[s]) : sr_fifo[s][k].mgr = m =>
         (sr_fifo[s][k].last <=> Len(r_fifo[m]) + BeatsFor(m, sr_fifo[s], k) = m_left[m])
AllKept == ReadTypes /\ \A m \in Managers, s \in Subs : BeatsKept(m, s)

LEMMA AllKeptIs == AllKept => BeatsConserved
<1> SUFFICES ASSUME AllKept, NEW m \in Managers, m_src[m] # None
             PROVE  m_src[m] \in Subs /\ BeatsKept(m, m_src[m])
  BY DEF BeatsConserved, BeatsKept, Count
<1>1. m_src[m] \in Subs  BY DEF AllKept, ReadTypes, ReadMgr
<1> QED  BY <1>1 DEF AllKept
LEMMA AllKeptNext == AllKept' => BeatsConserved'
<1> QED  BY AllKeptIs, PTL

LEMMA ReadKept ==
  ASSUME ReadInv, NEW m \in Managers, NEW s \in Subs
  PROVE  BeatsKept(m, s)
<1> SUFFICES ASSUME m_src[m] = s
             PROVE  /\ Len(r_fifo[m]) + Count(s, m) + Unfetched(m, s) = m_left[m]
                    /\ \A k \in 1 .. Len(r_fifo[m]) : r_fifo[m][k].last <=> k = m_left[m]
                    /\ \A k \in 1 .. Len(sr_fifo[s]) : sr_fifo[s][k].mgr = m =>
                         (sr_fifo[s][k].last <=>
                            Len(r_fifo[m]) + BeatsFor(m, sr_fifo[s], k) = m_left[m])
  BY DEF BeatsKept
<1>1. m_src[m] # None  BY Sizes
<1> QED  BY <1>1 DEF ReadInv, BeatsConserved, Count

\* A read just taken is all to come.
LEMMA NewKept ==
  ASSUME ReadInv, NEW i \in ReadInputs, ReadClock(i), NEW m \in Managers, NEW s \in Subs,
         ArHandshake(m)
  PROVE  (BeatsKept(m, s))'
<1> SUFFICES ASSUME m_src'[m] = s
             PROVE  /\ Len(r_fifo'[m]) + (Count(s, m))' + (Unfetched(m, s))' = m_left'[m]
                    /\ \A k \in 1 .. Len(r_fifo'[m]) : r_fifo'[m][k].last <=> k = m_left'[m]
                    /\ \A k \in 1 .. Len(sr_fifo'[s]) : sr_fifo'[s][k].mgr = m =>
                         (sr_fifo'[s][k].last <=>
                            Len(r_fifo'[m]) + BeatsFor(m, sr_fifo'[s], k) = m_left'[m])
  BY DEF BeatsKept, BeatsFor
<1>1. /\ m_src[m] = None /\ m_ar[m] \in Read /\ m_left'[m] = m_ar[m].len + 1
      /\ ar_fifo'[m] = <<m_ar[m]>> /\ r_fifo'[m] = <<>>
  BY TakeMoves
<1>2. m_src[m] # s  BY <1>1, Sizes
<1>3. ~Waits(s, m) /\ ~Serves(s, m)
  <2>1. ~Serves(s, m)  BY <1>2, Serving DEF Serves
  <2>2. ASSUME Waits(s, m) PROVE FALSE
    <3>1. PICK n \in Managers : m_src[n] = s /\ Waits(s, n)  BY <2>2, Serving, Ones DEF Waits
    <3>2. n = m
      <4>1. Head(sar_fifo[s]).mgr = n  BY <3>1, Ones DEF Waits
      <4>2. Head(sar_fifo[s]).mgr = m  BY <2>2, Ones DEF Waits
      <4> QED  BY <4>1, <4>2
    <3> QED  BY <1>2, <3>1, <3>2
  <2> QED  BY <2>1, <2>2
<1>4. ~(Waits(s, m))' /\ ~(Serves(s, m))' /\ ar_fifo'[m] # <<>>
  BY <1>1, <1>2, <1>3, NotServed, Ones
<1>5. (Coming(m, s))' = m_left'[m]  BY <1>4, PrimedPlaces
<1>6. (Unfetched(m, s))' = m_left'[m]
  BY <1>4, <1>5, TypesNext, ComingNext DEF ComingTable
<1>7. \A k \in 1 .. Len(sr_fifo'[s]) : sr_fifo'[s][k].mgr # m  BY <1>2, BeatsStay
<1>8. (Count(s, m))' = 0
  <2>1. Len(sr_fifo'[s]) \in Nat  BY BeatMoves
  <2>2. BeatsFor(m, sr_fifo'[s], Len(sr_fifo'[s])) = 0  BY <1>7, <2>1, NoneCounted
  <2> QED  BY <2>2 DEF Count, BeatsFor
<1>9. m_left'[m] \in Nat  BY <1>1, ReadAssumption DEF Read, Lens
<1> QED  BY <1>1, <1>6, <1>7, <1>8, <1>9, Ones

\* A read that goes on.
LEMMA SumNext ==
  ASSUME ReadInv, NEW i \in ReadInputs, ReadClock(i), NEW m \in Managers, NEW s \in Subs,
         m_src[m] = s, m_src'[m] = s
  PROVE  Len(r_fifo'[m]) + (Count(s, m))' + (Unfetched(m, s))' = m_left'[m]
<1> DEFINE d == One(RHandshake(m, i))  c == One(Comes(m))
           e == One(SRHandshake(s) /\ rid(s) = m)
<1>1. Len(r_fifo'[m]) = Len(r_fifo[m]) - d + c  BY DataMoves
<1>2. (Count(s, m))' = Count(s, m) - c + e
  <2>1. (Count(s, m))' = Count(s, m) - One(Comes(m) /\ m_src[m] = s) + e  BY CountsMove
  <2>2. One(Comes(m) /\ m_src[m] = s) = c  BY DEF One
  <2> QED  BY <2>1, <2>2
<1>3. m_left'[m] = m_left[m] - d /\ (Coming(m, s))' = Coming(m, s) - e  BY ReadMoves
<1>4. (Unfetched(m, s))' = (Coming(m, s))'  BY TypesNext, ComingNext, ReadMoves DEF ComingTable
<1>5. /\ m_left[m] \in Nat /\ Len(r_fifo[m]) \in Nat /\ Count(s, m) \in Nat /\ Coming(m, s) \in Nat
      /\ Len(r_fifo[m]) + Count(s, m) + Coming(m, s) = m_left[m]
  BY OnePlace, ComingSum
<1>6. d \in 0 .. 1 /\ c \in 0 .. 1 /\ e \in 0 .. 1  BY DEF One
<1>7. (Unfetched(m, s))' = Coming(m, s) - e  BY <1>3, <1>4
<1> DEFINE L == Len(r_fifo[m])  C == Count(s, m)  K == Coming(m, s)  l == m_left[m]
<1>8. (L - d + c) + (C - c + e) + (K - e) = l - d
  <2>1. L \in Nat /\ C \in Nat /\ K \in Nat /\ l \in Nat /\ L + C + K = l  BY <1>5
  <2> HIDE DEF d, c, e, L, C, K, l
  <2> QED  BY <1>6, <2>1
<1> HIDE DEF d, c, e
<1> QED  BY <1>1, <1>2, <1>3, <1>7, <1>8

LEMMA MarksNext ==
  ASSUME ReadInv, NEW i \in ReadInputs, ReadClock(i), NEW m \in Managers, NEW s \in Subs,
         m_src[m] = s, m_src'[m] = s, NEW k \in 1 .. Len(r_fifo'[m])
  PROVE  r_fifo'[m][k].last <=> k = m_left'[m]
<1> DEFINE d == One(RHandshake(m, i))  p == One(Comes(m))  q == r_fifo[m]  r == r_fifo'[m]
<1>1. /\ r \in Seq(MgrBeat) /\ Len(q) \in Nat /\ d <= Len(q)
      /\ Len(r) = Len(q) - d + p
      /\ \A j \in 1 .. Len(q) - d : r[j] = q[j + d]
      /\ p = 1 => r[Len(r)] = [sub |-> m_src[m], last |-> sr_fifo[m_src[m]][1].last]
  BY DataMoves
<1>2. d \in 0 .. 1 /\ p \in 0 .. 1 /\ (p = 1 <=> Comes(m))  BY DEF One
<1>3. m_left'[m] = m_left[m] - d /\ m_left[m] \in Nat  BY ReadMoves, OnePlace
<1>4. \A j \in 1 .. Len(q) : q[j].last <=> j = m_left[m]  BY ReadFacts
<1> HIDE DEF d, p, q, r
<1>5. CASE k <= Len(q) - d
  <2>1. k + d \in 1 .. Len(q) /\ r[k] = q[k + d]  BY <1>1, <1>2, <1>5 DEF r
  <2>2. r[k].last <=> k + d = m_left[m]  BY <1>4, <2>1
  <2> QED  BY <1>2, <1>3, <2>1, <2>2 DEF r
<1>6. CASE ~(k <= Len(q) - d)
  <2>1. p = 1 /\ k = Len(r) /\ k = Len(q) - d + 1  BY <1>1, <1>2, <1>6 DEF r
  <2>2. r[k] = [sub |-> s, last |-> sr_fifo[s][1].last]  BY <1>1, <2>1
  <2>3. r[k].last = sr_fifo[s][1].last  BY <2>2
  <2>4. sr_fifo[s] # <<>> /\ sr_fifo[s][1].mgr = m  BY <1>2, <2>1, Forwards
  <2>5. 1 \in 1 .. Len(sr_fifo[s])
    <3>1. sr_fifo[s] \in Seq(SubBeat)  BY BeatMoves
    <3> QED  BY <2>4, <3>1, Tails
  <2>6. sr_fifo[s][1].last <=> Len(q) + BeatsFor(m, sr_fifo[s], 1) = m_left[m]
    BY <2>4, <2>5, ReadKept DEF BeatsKept, q
  <2>7. BeatsFor(m, sr_fifo[s], 0 + 1) = 1
    <3>1. /\ BeatsFor(m, sr_fifo[s], 0) = 0
          /\ BeatsFor(m, sr_fifo[s], 0 + 1)
               = BeatsFor(m, sr_fifo[s], 0) + (IF sr_fifo[s][0 + 1].mgr = m THEN 1 ELSE 0)
      BY CountNext
    <3> QED  BY <2>4, <3>1
  <2>8. sr_fifo[s][1].last <=> Len(q) + 1 = m_left[m]  BY <2>6, <2>7
  <2> QED  BY <1>1, <1>2, <1>3, <2>1, <2>3, <2>8 DEF r
<1> QED  BY <1>5, <1>6

LEMMA SubMarksNext ==
  ASSUME ReadInv, NEW i \in ReadInputs, ReadClock(i), NEW m \in Managers, NEW s \in Subs,
         m_src[m] = s, m_src'[m] = s,
         NEW k \in 1 .. Len(sr_fifo'[s]), sr_fifo'[s][k].mgr = m
  PROVE  sr_fifo'[s][k].last <=> Len(r_fifo'[m]) + BeatsFor(m, sr_fifo'[s], k) = m_left'[m]
<1> DEFINE q == sr_fifo[s]  r == sr_fifo'[s]
           d == One(Leaves(s))  p == One(SRHandshake(s))
           h == One(RHandshake(m, i))  c == One(Comes(m))
<1>1. /\ Len(q) \in Nat /\ d <= Len(q) /\ Len(r) = Len(q) - d + p
      /\ \A j \in 1 .. Len(q) - d : r[j] = q[j + d]
      /\ p = 1 => r[Len(r)] = [mgr |-> rid(s), last |-> rlast(s)]
  BY BeatMoves
<1>2. /\ d \in 0 .. 1 /\ p \in 0 .. 1 /\ (p = 1 <=> SRHandshake(s))
      /\ h \in 0 .. 1 /\ c \in 0 .. 1
  BY DEF One
<1>3. m_left'[m] = m_left[m] - h /\ m_left[m] \in Nat  BY ReadMoves, OnePlace
<1>4. Len(r_fifo'[m]) = Len(r_fifo[m]) - h + c /\ Len(r_fifo[m]) \in Nat  BY DataMoves
<1>5. One(Comes(m) /\ m_src[m] = s) = c  BY DEF One
<1>6. \A j \in 0 .. Len(q) - d : BeatsFor(m, r, j) = BeatsFor(m, q, j + d) - c
  BY <1>5, CountsMove
<1>7. \A j \in 1 .. Len(q) : q[j].mgr = m =>
        (q[j].last <=> Len(r_fifo[m]) + BeatsFor(m, q, j) = m_left[m])
  BY ReadKept DEF BeatsKept
<1>8. \A j \in Nat : BeatsFor(m, q, j) \in Nat  BY CountNext
<1>9. k \in 1 .. Len(r) /\ r[k].mgr = m  OBVIOUS
<1>10. CASE k <= Len(q) - d
  <2> HIDE DEF q, r, d, p, h, c
  <2>1. k + d \in 1 .. Len(q) /\ r[k] = q[k + d] /\ k \in 0 .. Len(q) - d /\ k + d \in Nat
    BY <1>1, <1>2, <1>9, <1>10
  <2>2. r[k].last <=> Len(r_fifo[m]) + BeatsFor(m, q, k + d) = m_left[m]  BY <1>7, <1>9, <2>1
  <2>3. BeatsFor(m, r, k) = BeatsFor(m, q, k + d) - c /\ BeatsFor(m, q, k + d) \in Nat
    BY <1>6, <1>8, <2>1
  <2>5. Len(r_fifo'[m]) + BeatsFor(m, r, k) = m_left'[m]
        <=> Len(r_fifo[m]) + BeatsFor(m, q, k + d) = m_left[m]
    <3> DEFINE L == Len(r_fifo[m])  B == BeatsFor(m, q, k + d)  l == m_left[m]
    <3>1. L \in Nat /\ B \in Nat /\ l \in Nat  BY <1>3, <1>4, <2>3
    <3>2. (L - h + c) + (B - c) = l - h <=> L + B = l
      <4> HIDE DEF L, B, l
      <4> QED  BY <1>2, <3>1
    <3> QED  BY <1>3, <1>4, <2>3, <3>2
  <2>4. r[k].last <=> Len(r_fifo'[m]) + BeatsFor(m, r, k) = m_left'[m]
    BY <2>2, <2>5
  <2> QED  BY <2>4 DEF r
<1>11. CASE ~(k <= Len(q) - d)
  <2>1. p = 1 /\ k = Len(r)  BY <1>1, <1>2, <1>9, <1>11
  <2>2. r[k] = [mgr |-> rid(s), last |-> rlast(s)] /\ SRHandshake(s)  BY <1>1, <1>2, <2>1
  <2>3. rid(s) = m /\ r[k].last = rlast(s)  BY <1>9, <2>2
  <2>4. ToGive(s) > 0 /\ (rlast(s) <=> ToGive(s) = 1) /\ Serves(s, m)
    BY <2>2, <2>3, Serving, ServiceMoves DEF Serves
  <2>5. (Coming(m, s))' = ToGive(s) - 1 /\ ToGive(s) \in Nat
    <3>1. ~(ar_fifo[m] # <<>>) /\ ~Waits(s, m) /\ ToGive(s) \in Nat  BY <2>4, OnePlace
    <3>2. Coming(m, s) = ToGive(s)  BY <2>4, <3>1 DEF Coming
    <3>3. (Coming(m, s))' = Coming(m, s) - One(SRHandshake(s) /\ rid(s) = m)  BY ReadMoves
    <3>4. One(SRHandshake(s) /\ rid(s) = m) = 1  BY <2>2, <2>3 DEF One
    <3> QED  BY <3>1, <3>2, <3>3, <3>4
  <2>6. (Unfetched(m, s))' = (Coming(m, s))'
    BY TypesNext, ComingNext, ReadMoves DEF ComingTable
  <2>7. Len(r_fifo'[m]) + (Count(s, m))' + (Unfetched(m, s))' = m_left'[m]  BY SumNext
  <2>8. (Count(s, m))' = BeatsFor(m, r, k)  BY <2>1 DEF Count, BeatsFor
  <2>9. (Count(s, m))' \in Nat
    <3>1. Len(r) \in Nat  BY <1>9, <2>1
    <3>2. BeatsFor(m, r, k) \in Nat  BY <2>1, <3>1, CountNext
    <3> QED  BY <2>8, <3>2
  <2> HIDE DEF q, r, d, p, h, c
  <2>10. rlast(s) <=> Len(r_fifo'[m]) + BeatsFor(m, r, k) = m_left'[m]
    BY <1>2, <1>3, <1>4, <2>4, <2>5, <2>6, <2>7, <2>8, <2>9
  <2>11. r[k].last <=> Len(r_fifo'[m]) + BeatsFor(m, r, k) = m_left'[m]  BY <2>3, <2>10
  <2> QED  BY <2>11 DEF r
<1> QED  BY <1>10, <1>11

LEMMA KeptNext ==
  ASSUME ReadInv, NEW i \in ReadInputs, ReadClock(i)
  PROVE  BeatsConserved'
<1>1. ASSUME NEW m \in Managers, NEW s \in Subs PROVE (BeatsKept(m, s))'
  <2>1. CASE ArHandshake(m)  BY <2>1, NewKept
  <2>2. CASE ~ArHandshake(m)
    <3> SUFFICES ASSUME m_src'[m] = s
                 PROVE  /\ Len(r_fifo'[m]) + (Count(s, m))' + (Unfetched(m, s))' = m_left'[m]
                        /\ \A k \in 1 .. Len(r_fifo'[m]) : r_fifo'[m][k].last <=> k = m_left'[m]
                        /\ \A k \in 1 .. Len(sr_fifo'[s]) : sr_fifo'[s][k].mgr = m =>
                             (sr_fifo'[s][k].last <=>
                                Len(r_fifo'[m]) + BeatsFor(m, sr_fifo'[s], k) = m_left'[m])
      BY DEF BeatsKept, BeatsFor
    <3>1. m_src[m] = s  BY <2>2, MgrMoves, Sizes
    <3> QED  BY <3>1, SumNext, MarksNext, SubMarksNext
  <2> QED  BY <2>1, <2>2
<1>2. AllKept'  BY <1>1, TypesNext DEF AllKept
<1> QED  BY <1>2, AllKeptNext

\* When another manager's beat comes, the burst before it has ended.
LEMMA BurstsNext ==
  ASSUME ReadInv, NEW i \in ReadInputs, ReadClock(i), NEW s \in Subs
  PROVE  (Bursts(s))'
<1> DEFINE q == sr_fifo[s]  r == sr_fifo'[s]
           d == One(Leaves(s))  p == One(SRHandshake(s))
<1> SUFFICES ASSUME NEW k \in 1 .. Len(r) - 1, r[k].mgr # r[k + 1].mgr PROVE r[k].last
  BY DEF Bursts
<1>1. /\ q \in Seq(SubBeat) /\ Len(q) \in Nat /\ d <= Len(q) /\ Len(r) = Len(q) - d + p
      /\ \A j \in 1 .. Len(q) - d : r[j] = q[j + d]
      /\ p = 1 => r[Len(r)] = [mgr |-> rid(s), last |-> rlast(s)]
  BY BeatMoves
<1>2. d \in 0 .. 1 /\ p \in 0 .. 1 /\ (p = 1 <=> SRHandshake(s))  BY DEF One
<1>3. \A j \in 1 .. Len(q) - 1 : q[j].mgr # q[j + 1].mgr => q[j].last  BY DEF ReadInv, Bursts
<1>4. k \in 1 .. Len(r) - 1 /\ r[k].mgr # r[k + 1].mgr  OBVIOUS
<1>5. CASE k + 1 <= Len(q) - d
  <2> HIDE DEF q, r, d, p
  <2>1. k + d \in 1 .. Len(q) - 1 /\ r[k] = q[k + d] /\ r[k + 1] = q[(k + 1) + d]
    BY <1>1, <1>2, <1>4, <1>5
  <2>2. (k + 1) + d = (k + d) + 1  BY <1>2, <2>1
  <2>3. q[k + d].mgr # q[(k + d) + 1].mgr  BY <1>4, <2>1, <2>2
  <2>4. q[k + d].last  BY <1>3, <2>1, <2>3
  <2> QED  BY <2>1, <2>4
<1>6. CASE ~(k + 1 <= Len(q) - d)
  <2> HIDE DEF q, r, d, p
  <2>1. p = 1 /\ k + 1 = Len(r) /\ k \in 1 .. Len(q) - d /\ k + d = Len(q) /\ Len(q) \in 1 .. Len(q)
    BY <1>1, <1>2, <1>4, <1>6
  <2>2. r[k] = q[Len(q)] /\ r[k + 1] = [mgr |-> rid(s), last |-> rlast(s)]
    BY <1>1, <2>1
  <2>3. r[k + 1].mgr = rid(s)  BY <2>2
  <2>4. PICK m \in Managers : q[Len(q)].mgr = m
    <3>1. q[Len(q)] \in SubBeat  BY <1>1, <2>1
    <3> QED  BY <3>1 DEF SubBeat
  <2>5. m_src[m] = s /\ rid(s) # m
    <3>1. m_src[q[Len(q)].mgr] = s  BY <2>1 DEF ReadInv, ReadBeats, q
    <3> QED  BY <1>4, <2>2, <2>3, <2>4, <3>1
  <2>6. Count(s, m) = BeatsFor(m, q, Len(q))  BY DEF Count, q
  <2>7. BeatsFor(m, q, Len(q)) > 0
    <3>1. Len(q) \in Nat  BY <1>1
    <3> QED  BY <2>1, <2>4, <3>1, SomeCounted
  <2>8. Coming(m, s) = 0
    <3>1. ~(ar_fifo[m] # <<>> \/ Waits(s, m))  BY <2>5, <2>6, <2>7, OnePlace
    <3>2. ~Serves(s, m)  BY <2>5 DEF Serves
    <3> QED  BY <3>1, <3>2 DEF Coming
  <2>9. Len(r_fifo[m]) + BeatsFor(m, q, Len(q)) = m_left[m]
    <3>1. /\ Len(r_fifo[m]) \in Nat /\ Count(s, m) \in Nat
          /\ Len(r_fifo[m]) + Count(s, m) + Coming(m, s) = m_left[m]
      BY <2>5, OnePlace, ComingSum
    <3> QED  BY <2>6, <2>8, <3>1
  <2>10. q[Len(q)].last
    BY <2>1, <2>4, <2>5, <2>9, ReadKept DEF BeatsKept, q
  <2> QED  BY <2>2, <2>10
<1> QED  BY <1>5, <1>6

LEMMA ReadClockPreserves ==
  ASSUME ReadInv, NEW i \in ReadInputs, ReadClock(i)
  PROVE  ReadInv'
<1>1. DOMAIN m_ar' = Managers /\ DOMAIN s_rvalid' = ExtSubs  BY DEF ReadClock, EnvReadEdge
<1>2. \A m \in Managers : (ReadMgr(m))'  BY MgrNext
<1>3. \A s \in Subs : (ReadSub(s))' /\ (ReadBeats(s))' /\ (Bursts(s))'
  BY SubNext, BeatsNext, BurstsNext
<1>4. BeatsConserved'  BY KeptNext
<1> QED  BY <1>1, <1>2, <1>3, <1>4 DEF ReadInv

-----------------------------------------------------------------------------
(* The other steps of the read half                                        *)

LEMMA Untouched ==
  ASSUME ReadInv,
         UNCHANGED <<mgrReadVars, subReadVars, defReadVars, m_src, m_left, s_mgr, s_left>>
  PROVE  /\ \A m \in Managers : m_ar'[m] = NoRead \/ m_ar'[m] \in Read => (ReadMgr(m))'
         /\ \A s \in Subs : (s \in ExtSubs => (s_rvalid'[s] => s_left[s] > 0)) => (ReadSub(s))'
         /\ \A s \in Subs : (ReadBeats(s))' /\ (Bursts(s))'
         /\ ReadTypes' => BeatsConserved'
<1> USE DEF mgrReadVars, subReadVars, defReadVars
<1>1. ASSUME NEW m \in Managers, m_ar'[m] = NoRead \/ m_ar'[m] \in Read PROVE (ReadMgr(m))'
  <2>1. ReadMgr(m)  BY DEF ReadInv
  <2> QED  BY <1>1, <2>1 DEF ReadMgr
<1>2. ASSUME NEW s \in Subs PROVE (ToGive(s))' = ToGive(s) /\ (rid(s))' = rid(s)
  BY DEF ToGive, rid
<1>3. ASSUME NEW s \in Subs, s \in ExtSubs => (s_rvalid'[s] => s_left[s] > 0)
      PROVE  (ReadSub(s))'
  <2>1. ReadSub(s)  BY DEF ReadInv
  <2>2. (s = DefSub) \/ s \in ExtSubs  BY DEF ExtSubs
  <2>3. \A m \in Managers : (Waits(s, m))' <=> Waits(s, m)  BY DEF Waits
  <2> QED  BY <1>2, <1>3, <2>1, <2>2, <2>3 DEF ReadSub
<1>4. ASSUME NEW s \in Subs PROVE (ReadBeats(s))' /\ (Bursts(s))'
  <2>1. ReadBeats(s) /\ Bursts(s)  BY DEF ReadInv
  <2> QED  BY <2>1 DEF ReadBeats, Bursts
<1>5. ASSUME ReadTypes' PROVE BeatsConserved'
  <2>1. ASSUME NEW m \in Managers, NEW s \in Subs PROVE (BeatsKept(m, s))'
    <3>1. BeatsKept(m, s)  BY ReadKept
    <3>2. (Unfetched(m, s))' = Unfetched(m, s)  BY <1>2 DEF Unfetched
    <3>3. (Count(s, m))' = Count(s, m)  BY DEF Count, BeatsFor
    <3>4. \A k \in 1 .. Len(sr_fifo[s]) :
            (BeatsFor(m, sr_fifo[s], k))' = BeatsFor(m, sr_fifo[s], k)
      BY DEF BeatsFor
    <3> QED  BY <3>1, <3>2, <3>3, <3>4 DEF BeatsKept, BeatsFor
  <2>2. AllKept'  BY <1>5, <2>1 DEF AllKept
  <2> QED  BY <2>2, AllKeptNext
<1> QED  BY <1>1, <1>3, <1>4, <1>5

LEMMA OtherStepPreserves ==
  ASSUME ReadInv,
         UNCHANGED <<mgrReadVars, subReadVars, defReadVars, m_src, m_left, s_mgr, s_left>>,
         DOMAIN m_ar' = Managers, DOMAIN s_rvalid' = ExtSubs,
         \A m \in Managers : m_ar'[m] = NoRead \/ m_ar'[m] \in Read,
         \A s \in ExtSubs : s_rvalid'[s] => s_left[s] > 0
  PROVE  ReadInv'
<1>1. \A m \in Managers : (ReadMgr(m))'  BY Untouched
<1>2. \A s \in Subs : (ReadSub(s))' /\ (ReadBeats(s))' /\ (Bursts(s))'  BY Untouched
<1>3. ReadTypes'  BY <1>1, <1>2 DEF ReadTypes
<1>4. BeatsConserved'  BY <1>3, Untouched
<1> QED  BY <1>1, <1>2, <1>4 DEF ReadInv

LEMMA ReadInitially == ReadInit => ReadInv
<1> SUFFICES ASSUME ReadInit PROVE ReadInv  OBVIOUS
<1>1. \A m \in Managers : ReadMgr(m)  BY DEF ReadInit, ReadMgr
<1>2. ASSUME NEW s \in Subs PROVE ReadSub(s) /\ ReadBeats(s) /\ Bursts(s)
  <2>1. ToGive(s) = 0  BY DEF ReadInit, ToGive, ExtSubs
  <2>2. ReadSub(s)  BY <2>1 DEF ReadInit, ReadSub, ExtSubs
  <2>3. sr_fifo[s] = <<>>  BY DEF ReadInit
  <2> QED  BY <2>2, <2>3, Ones DEF ReadBeats, Bursts
<1>3. BeatsConserved  BY DEF ReadInit, BeatsConserved
<1>4. DOMAIN m_ar = Managers /\ DOMAIN s_rvalid = ExtSubs  BY DEF ReadInit
<1> QED  BY <1>1, <1>2, <1>3, <1>4 DEF ReadInv

LEMMA ReadStep == ReadInv /\ [ReadNext]_readVars => ReadInv'
<1> SUFFICES ASSUME ReadInv, [ReadNext]_readVars PROVE ReadInv'  OBVIOUS
<1>1. /\ DOMAIN m_ar = Managers /\ DOMAIN s_rvalid = ExtSubs
      /\ \A m \in Managers : m_ar[m] = NoRead \/ m_ar[m] \in Read
      /\ \A s \in ExtSubs : s_rvalid[s] => s_left[s] > 0
  BY DEF ReadInv, ReadMgr, ReadSub, ExtSubs
<1>2. ASSUME NEW i \in ReadInputs, ReadClock(i) PROVE ReadInv'  BY <1>2, ReadClockPreserves
<1>3. ASSUME NEW m \in Managers, NEW s \in Subs, NEW len \in ReadLens, OfferRead(m, s, len)
      PROVE  ReadInv'
  <2>1. [sub |-> s, len |-> len] \in Read  BY ReadAssumption DEF Read
  <2>2. m_ar' = [m_ar EXCEPT ![m] = [sub |-> s, len |-> len]]  BY <1>3 DEF OfferRead
  <2>3. \A n \in Managers : m_ar'[n] = NoRead \/ m_ar'[n] \in Read  BY <1>1, <2>1, <2>2
  <2>4. DOMAIN m_ar' = Managers  BY <1>1, <2>2
  <2>5. UNCHANGED <<mgrReadVars, subReadVars, defReadVars, m_src, m_left, s_mgr, s_left>>
        /\ s_rvalid' = s_rvalid
    BY <1>3 DEF OfferRead
  <2> QED  BY <1>1, <2>3, <2>4, <2>5, OtherStepPreserves
<1>4. ASSUME NEW s \in ExtSubs, GiveBeat(s) PROVE ReadInv'
  <2>1. s_left[s] > 0 /\ s_rvalid' = [s_rvalid EXCEPT ![s] = TRUE]  BY <1>4 DEF GiveBeat
  <2>2. UNCHANGED <<mgrReadVars, subReadVars, defReadVars, m_src, m_left, s_mgr, s_left>>
        /\ m_ar' = m_ar
    BY <1>4 DEF GiveBeat
  <2>3. DOMAIN s_rvalid' = ExtSubs /\ \A t \in ExtSubs : s_rvalid'[t] => s_left[t] > 0
    BY <1>1, <2>1
  <2> QED  BY <1>1, <2>2, <2>3, OtherStepPreserves
<1>5. CASE UNCHANGED readVars
  <2>1. UNCHANGED <<mgrReadVars, subReadVars, defReadVars, m_src, m_left, s_mgr, s_left>>
        /\ m_ar' = m_ar /\ s_rvalid' = s_rvalid
    BY <1>5 DEF readVars
  <2> QED  BY <1>1, <2>1, OtherStepPreserves
<1> QED  BY <1>2, <1>3, <1>4, <1>5 DEF ReadNext

-----------------------------------------------------------------------------
(* Theorems about the read half                                            *)

\* Each manager's read is in one place, and its beats are all on their way,
\* in one burst from the subordinate that it addressed.
THEOREM ReadInvariance == ReadSpec => []ReadInv
<1> QED  BY ReadInitially, ReadStep, PTL DEF ReadSpec

\* No beat of a read is lost, repeated or invented, and LAST is on the final
\* beat of every burst and on no other.
THEOREM BeatsArrive == ReadSpec => []BeatsConserved
<1>1. ReadInv => BeatsConserved  BY DEF ReadInv
<1> QED  BY <1>1, ReadInvariance, PTL

\* The response mux, which pops every subordinate it selects and forwards
\* one, never selects two for a manager, and beats come from where the
\* manager reads, one burst after the other.
THEOREM BeatsComeFromSource == ReadSpec => []BeatsRouted
<1>1. ASSUME ReadInv PROVE BeatsRouted
  <2>1. ASSUME NEW m \in Managers
        PROVE  /\ RSel(m) \subseteq {m_src[m]}
               /\ \A k \in 1 .. Len(r_fifo[m]) : r_fifo[m][k].sub = m_src[m]
    <3>1. RSel(m) \subseteq Subs  BY DEF RSel
    <3>2. \A s \in RSel(m) : s = m_src[m]  BY <1>1, <3>1, Selects
    <3>3. ReadMgr(m)  BY <1>1, ReadFacts
    <3> QED  BY <3>2, <3>3 DEF ReadMgr
  <2>2. \A s \in Subs : Bursts(s)  BY <1>1 DEF ReadInv
  <2> QED  BY <2>1, <2>2 DEF BeatsRouted, Bursts
<1> QED  BY <1>1, ReadInvariance, PTL
=============================================================================

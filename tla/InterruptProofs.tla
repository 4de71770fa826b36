--------------------------- MODULE InterruptProofs ---------------------------
(***************************************************************************)
(* Proofs about InterruptSystem, for every number of sources and every set *)
(* of configuration writes.                                                *)
(***************************************************************************)
EXTENDS InterruptSystem, NaturalLemmas, TLAPS

\* The claim register while the core claims, serves and completes.
ClaimInv ==
  /\ 0 \notin intr_pending
  /\ notif_locked => pc \in {"data", "complete"} /\ intr_id # 0
  /\ pc = "claim" => /\ intr_id = 0 \/ intr_id \in intr_pending
                     /\ intr_id \notin outranked /\ (intr_id = 0 => outranked = {})
  /\ pc = "data" /\ intr_id # 0 => notif_locked
  /\ pc = "complete" => notif_locked /\ id = intr_id /\ id # 0 /\ (id = TBRE => ~sweep)

\* A pulse of the revocation engine meets an open gateway, and what the driver
\* has polled is still so when it clears it.
SweepInv ==
  /\ tbre_go => pc = "rest" /\ ~tbre_stat
  /\ TBRE \in irqs_q => ~tbre_intr_stat
  /\ pc = "clear" \/ (pc = "polled" /\ rdata) => tbre_intr_stat /\ ~tbre_intr_en /\ sweep

\* SweepNoticedOnce, without the names of the places.
Working == tbre_go \/ tbre_stat
Requested == TBRE \in intr_pending
Delivered == pc = "data" /\ intr_id = TBRE
OnePlace ==
  /\ sweep <=> Working \/ tbre_done \/ tbre_intr_stat \/ Requested \/ Delivered
  /\ Working => ~tbre_done /\ ~tbre_intr_stat /\ ~Requested /\ ~Delivered
  /\ tbre_done => ~tbre_intr_stat /\ ~Requested /\ ~Delivered
  /\ tbre_intr_stat => ~Requested /\ ~Delivered
  /\ ~ (Requested /\ Delivered)

IInv == TypeOK /\ ClaimInv /\ SweepInv /\ OneClaimPerRequest /\ HighestFirst /\ OnePlace

-----------------------------------------------------------------------------
\* The root of the comparison tree is a source of the highest priority, and a
\* pending, enabled one if that priority is not 0.
LEMMA WinnerFacts ==
  ASSUME PlicTypeOK
  PROVE  /\ id_tree \in Sources
         /\ \A r \in Sources : pri_tree[id_tree] >= pri_tree[r]
         /\ \A r \in Sources : pri_tree[r] \in Nat
         /\ pri_tree[id_tree] # 0 => id_tree \in intr_pending
<1> DEFINE pri == pri_tree
           best(s) == \A r \in Sources : pri[s] > pri[r] \/ (pri[s] = pri[r] /\ s <= r)
           gaps == {7 - pri[s] : s \in Sources}
<1>1. pri \in [Sources -> 0..7]  BY SMT DEF pri_tree, PlicTypeOK, Priorities
<1>2. \A s \in Sources : pri[s] # 0 => s \in intr_pending  BY Zenon DEF pri_tree
<1>3. Sources \subseteq Nat /\ 0 \in Sources  BY SourcesAssumption DEF Sources
<1> HIDE DEF pri
<1>4. \E s \in Sources : best(s)
  <2>1. gaps \in SUBSET Nat /\ gaps # {}  BY <1>1, <1>3
  <2>2. PICK g \in gaps : \A h \in gaps : g <= h  BY <2>1, LeastExists, Zenon
  <2> DEFINE tops == {s \in Sources : 7 - pri[s] = g}
  <2>3. tops \in SUBSET Nat /\ tops # {}  BY <1>3, <2>2
  <2>4. PICK s \in tops : \A r \in tops : s <= r  BY <2>3, LeastExists, Zenon
  <2>5. ASSUME NEW r \in Sources  PROVE pri[s] > pri[r] \/ (pri[s] = pri[r] /\ s <= r)
    <3>1. g <= 7 - pri[r]  BY <2>2
    <3>2. 7 - pri[s] = g /\ s \in Sources  BY <2>4
    <3>3. 7 - pri[r] = g => s <= r  BY <2>4
    <3>4. pri[s] \in 0..7 /\ pri[r] \in 0..7  BY <1>1, <3>2
    <3> QED  BY <3>1, <3>2, <3>3, <3>4, SMT
  <2> QED  BY <2>4, <2>5
<1>5. id_tree = CHOOSE s \in Sources : best(s)  BY Zenon DEF id_tree, pri
<1>6. id_tree \in Sources /\ best(id_tree)  BY <1>4, <1>5, Zenon
<1>7. \A r \in Sources : pri[id_tree] >= pri[r]  BY <1>1, <1>3, <1>6, SMT
<1>8. /\ \A r \in Sources : pri[id_tree] >= pri[r]
      /\ \A r \in Sources : pri[r] \in Nat
      /\ pri[id_tree] # 0 => id_tree \in intr_pending
  BY <1>1, <1>2, <1>6, <1>7
<1> QED  BY <1>6, <1>8, Zenon DEF pri

\* Only Claim reads and only Complete writes the claim register; the driver's
\* own writes are to the configuration registers.
LEMMA AccessFacts ==
  ASSUME NEW acc, CoreStep(acc)
  PROVE  /\ claim_event(acc) => Claim
         /\ completion_event(acc) => Complete /\ acc.val = id
         /\ acc.we /\ acc.reg = "go" => Kick
         /\ acc.we /\ acc.reg = "istat" => Clear
         /\ ~acc.we /\ acc.reg = "istat" => Poll
         /\ Claim => claim_event(acc)
         /\ Complete => completion_event(acc)
         /\ pc' = "polled" => ~acc.we /\ acc.reg = "istat"
<1>1. CASE acc = NoAccess /\ (Idle \/ Polled \/ Take \/ Serve)
  BY <1>1 DEF NoAccess, Read, claim_event, completion_event, Idle, Polled, Take, Serve, Claim, Complete
<1>2. CASE acc \in Config /\ Configure(acc)
  <2>1. acc.we /\ acc.reg \in {"enable", "type", "thres", "pri", "inten"}
    BY <1>2, ConfigAssumption
  <2> QED  BY <1>2, <2>1 DEF claim_event, completion_event, Configure, Free, Claim, Complete
<1>3. CASE acc = Write("go", 1) /\ Kick
  BY <1>3 DEF Write, claim_event, completion_event, Kick, Free, Claim, Complete
<1>4. CASE acc = Read("istat") /\ Poll
  BY <1>4 DEF Read, claim_event, completion_event, Poll, Free, Claim, Complete
<1>5. CASE acc = Write("istat", 0) /\ Clear
  BY <1>5 DEF Write, claim_event, completion_event, Clear, Claim, Complete
<1>6. CASE acc = Read("claim") /\ Claim
  BY <1>6 DEF Read, claim_event, completion_event, Claim, Complete
<1>7. CASE acc = Write("claim", id) /\ Complete
  BY <1>7 DEF Write, claim_event, completion_event, Complete, Claim
<1> QED  BY <1>1, <1>2, <1>3, <1>4, <1>5, <1>6, <1>7, Zenon DEF CoreStep

-----------------------------------------------------------------------------
\* What one clock edge does to the gateways: raised are the requests it takes.
LEMMA GatewayFacts ==
  ASSUME TypeOK, NEW acc, NEW ends, NEW up \in SUBSET (Level \ lines), Clock(acc, ends, up)
  PROVE  \E raised \in SUBSET (Sources \ intr_blocked) :
           /\ 0 \notin raised
           /\ TBRE \in raised => tbre_intr
           /\ tbre_intr /\ TBRE \notin irqs_q /\ TBRE \notin intr_blocked => TBRE \in raised
           /\ intr_pending' = raised \cup
                (intr_pending \ (IF claim_event(acc) THEN {intr_id} ELSE {}))
           /\ intr_blocked' = raised \cup
                (intr_blocked \ (IF completion_event(acc) THEN {acc.val} ELSE {}))
<1> DEFINE raised == irq_sig(irq_to_plic) \ intr_blocked
<1>1. irq_to_plic \subseteq Sources \ {0} /\ (TBRE \in irq_to_plic <=> tbre_intr)
  BY SourcesAssumption DEF irq_to_plic, TypeOK, Level, TBRE, Sources
<1>2. /\ raised \in SUBSET (Sources \ intr_blocked) /\ 0 \notin raised
      /\ TBRE \in raised => tbre_intr
      /\ tbre_intr /\ TBRE \notin irqs_q /\ TBRE \notin intr_blocked => TBRE \in raised
  BY <1>1, Zenon DEF irq_sig
<1>3. GatewayEdge(acc, irq_to_plic)  BY DEF Clock, PlicEdge
<1> QED  BY <1>2, <1>3, Zenon DEF GatewayEdge

\* What it does to the notification.
LEMMA NotificationFacts ==
  ASSUME TypeOK, 0 \notin intr_pending, NEW acc, NEW ends, NEW up, Clock(acc, ends, up)
  PROVE  /\ notif_locked' = IF intr_id # 0 /\ claim_event(acc) THEN TRUE
                            ELSE IF completion_event(acc) THEN FALSE ELSE notif_locked
         /\ notif_locked \/ claim_event(acc) => intr_id' = intr_id
         /\ claim_event(acc) => outranked' = outranked
         /\ ~claim_event(acc) /\ ~notif_locked =>
              /\ intr_id' = 0 \/ intr_id' \in intr_pending
              /\ intr_id' \notin outranked' /\ (intr_id' = 0 => outranked' = {})
         /\ irq_external' \in BOOLEAN /\ outranked' \in SUBSET Sources
         /\ intr_id' \in Sources
<1> DEFINE best == id_tree
           pri == pri_tree
<1>1. /\ best \in Sources /\ 0 \in Sources
      /\ \A r \in Sources : pri[best] >= pri[r] /\ pri[r] \in Nat
      /\ pri[best] # 0 => best \in intr_pending
  BY WinnerFacts, SourcesAssumption DEF TypeOK, Sources
<1>2. /\ irq_external' = (pri[best] > intr_thres_reg)
      /\ notif_locked' = IF intr_id # 0 /\ claim_event(acc) THEN TRUE
                         ELSE IF completion_event(acc) THEN FALSE ELSE notif_locked
      /\ intr_id' = IF notif_locked \/ claim_event(acc) THEN intr_id
                    ELSE IF pri[best] # 0 THEN best ELSE 0
      /\ outranked' = IF claim_event(acc) THEN outranked ELSE {s \in Sources : pri[s] < pri[best]}
  BY Zenon DEF Clock, PlicEdge, NotificationEdge
<1>3. intr_id \in Sources /\ outranked \subseteq Sources  BY DEF TypeOK, PlicTypeOK
<1> HIDE DEF best, pri
<1>4. CASE claim_event(acc) \/ notif_locked  BY <1>1, <1>2, <1>3, <1>4
<1>5. CASE ~claim_event(acc) /\ ~notif_locked
  <2>1. CASE pri[best] # 0
    <3>1. intr_id' = best  BY <1>2, <1>5, <2>1
    <3>2. best \notin {s \in Sources : pri[s] < pri[best]}  BY <1>1
    <3>3. best # 0  BY <1>1, <2>1
    <3> QED  BY <1>1, <1>2, <1>5, <2>1, <3>1, <3>2, <3>3
  <2>2. CASE pri[best] = 0
    <3>1. {s \in Sources : pri[s] < pri[best]} = {}  BY <1>1, <2>2
    <3> QED  BY <1>1, <1>2, <1>5, <2>2, <3>1
  <2> QED  BY <2>1, <2>2
<1> QED  BY <1>4, <1>5

-----------------------------------------------------------------------------
\* No step leaves the types.
LEMMA TypeStep ==
  ASSUME TypeOK, 0 \notin intr_pending, NEW acc \in Accesses, NEW ends \in BOOLEAN,
         NEW up \in SUBSET (Level \ lines), CoreStep(acc), Clock(acc, ends, up)
  PROVE  TypeOK'
<1>1. /\ intr_pending' \subseteq Sources /\ intr_blocked' \subseteq Sources
      /\ irqs_q' \subseteq Sources
  <2>1. irq_to_plic \subseteq Sources
    BY SourcesAssumption DEF irq_to_plic, TypeOK, Level, TBRE, Sources
  <2>2. GatewayEdge(acc, irq_to_plic)  BY DEF Clock, PlicEdge
  <2>3. intr_pending \subseteq Sources /\ intr_blocked \subseteq Sources
    BY DEF TypeOK, PlicTypeOK
  <2>4. irq_sig(irq_to_plic) \subseteq Sources  BY <2>1 DEF irq_sig
  <2> QED  BY <2>1, <2>2, <2>3, <2>4, Zenon DEF GatewayEdge
<1>2. /\ intr_id' \in Sources /\ irq_external' \in BOOLEAN /\ outranked' \subseteq Sources
  BY NotificationFacts, Zenon
<1>3. notif_locked' \in BOOLEAN  BY NotificationFacts DEF TypeOK, PlicTypeOK
<1>4. /\ intr_pri_reg' \in [Sources -> Priorities] /\ intr_thres_reg' \in Priorities
      /\ intr_src_type_reg' \subseteq Sources /\ intr_enable_reg' \subseteq Sources
  <2>1. RegisterEdge(acc)  BY DEF Clock, PlicEdge
  <2>2. /\ acc.we /\ acc.reg \in {"enable", "type"} => acc.val \subseteq Sources
        /\ acc.we /\ acc.reg = "thres" => acc.val \in Priorities
        /\ acc.we /\ acc.reg = "pri" => acc.val.pri \in Priorities
    <3>1. CASE acc \in Config  BY <3>1, ConfigAssumption
    <3>2. CASE acc \notin Config
      BY <3>2 DEF Accesses, NoAccess, Read, Write
    <3> QED  BY <3>1, <3>2
  <2>3. Low(acc.val) \in Priorities  BY DEF Low, Priorities
  <2>4. PlicTypeOK  BY DEF TypeOK
  <2>5. intr_pri_reg' \in [Sources -> Priorities]
    BY <2>1, <2>2, <2>3, <2>4 DEF RegisterEdge, PlicTypeOK
  <2>6. /\ intr_thres_reg' \in Priorities
        /\ intr_src_type_reg' \subseteq Sources /\ intr_enable_reg' \subseteq Sources
    BY <2>1, <2>2, <2>4 DEF RegisterEdge, PlicTypeOK
  <2> QED  BY <2>5, <2>6
<1>5. /\ tbre_go' \in BOOLEAN /\ tbre_stat' \in BOOLEAN /\ tbre_stat_q' \in BOOLEAN
      /\ tbre_intr_stat' \in BOOLEAN /\ tbre_intr_en' \in BOOLEAN /\ rdata' \in BOOLEAN
  <2>1. /\ tbre_go \in BOOLEAN /\ tbre_stat \in BOOLEAN /\ tbre_intr_stat \in BOOLEAN
        /\ tbre_intr_en \in BOOLEAN /\ rdata \in BOOLEAN
    BY DEF TypeOK
  <2>2. acc.we /\ acc.reg = "inten" => acc.val \in BOOLEAN
    <3>1. CASE acc \in Config  BY <3>1, ConfigAssumption
    <3>2. CASE acc \notin Config
      BY <3>2 DEF Accesses, NoAccess, Read, Write
    <3> QED  BY <3>1, <3>2
  <2>3. tbre_intr_en' \in BOOLEAN  BY <2>1, <2>2 DEF Clock, MmregEdge
  <2>4. tbre_intr_stat' \in BOOLEAN  BY <2>1 DEF Clock, MmregEdge, StatusEdge
  <2>5. tbre_go' \in BOOLEAN /\ tbre_stat_q' \in BOOLEAN  BY <2>1 DEF Clock, MmregEdge
  <2>6. rdata' \in BOOLEAN  BY <2>1 DEF Clock, MmregEdge
  <2>7. tbre_stat' \in BOOLEAN  BY <2>1 DEF Clock, Engine
  <2> QED  BY <2>3, <2>4, <2>5, <2>6, <2>7
<1>6. lines' \subseteq Level  BY DEF Clock, TypeOK
<1>7. /\ id' \in Sources /\ sweep' \in BOOLEAN
      /\ pc' \in {"thread", "rest", "polled", "clear", "claim", "data", "complete"}
  <2>1. id \in Sources /\ intr_id \in Sources /\ 0 \in Sources /\ sweep \in BOOLEAN
    BY SourcesAssumption DEF TypeOK, PlicTypeOK, Sources
  <2>2. Idle \/ Polled \/ Take \/ Serve \/ Configure(acc) \/ Kick \/ Poll \/ Clear \/ Claim \/ Complete
    BY Zenon DEF CoreStep
  <2> QED
    BY <2>1, <2>2 DEF Idle, Polled, Take, Serve, Configure, Kick, Poll, Clear, Claim, Complete
<1> QED  BY <1>1, <1>2, <1>3, <1>4, <1>5, <1>6, <1>7 DEF TypeOK, PlicTypeOK

-----------------------------------------------------------------------------
\* A claim moves the request it returns from pending to service, a completion
\* opens its gateway: one case for each, and one for all other steps.
LEMMA ClaimStep ==
  ASSUME IInv, NEW acc \in Accesses, NEW ends \in BOOLEAN,
         NEW up \in SUBSET (Level \ lines), CoreStep(acc), Clock(acc, ends, up)
  PROVE  ClaimInv' /\ OneClaimPerRequest' /\ HighestFirst'
<1> USE DEF IInv
<1>1. PICK raised \in SUBSET (Sources \ intr_blocked) :
        /\ 0 \notin raised
        /\ intr_pending' = raised \cup
             (intr_pending \ (IF claim_event(acc) THEN {intr_id} ELSE {}))
        /\ intr_blocked' = raised \cup
             (intr_blocked \ (IF completion_event(acc) THEN {acc.val} ELSE {}))
  BY GatewayFacts, Zenon
<1>2. /\ notif_locked' = IF intr_id # 0 /\ claim_event(acc) THEN TRUE
                         ELSE IF completion_event(acc) THEN FALSE ELSE notif_locked
      /\ notif_locked \/ claim_event(acc) => intr_id' = intr_id
      /\ claim_event(acc) => outranked' = outranked
      /\ ~claim_event(acc) /\ ~notif_locked =>
           /\ intr_id' = 0 \/ intr_id' \in intr_pending
           /\ intr_id' \notin outranked' /\ (intr_id' = 0 => outranked' = {})
  BY NotificationFacts, Zenon DEF ClaimInv
<1>3. 0 \notin intr_pending'  BY <1>1 DEF ClaimInv
<1>4. CASE Claim
  <2>1. claim_event(acc) /\ ~completion_event(acc)
    BY <1>4, AccessFacts DEF claim_event, completion_event
  <2>2. pc = "claim" /\ pc' = "data" /\ sweep' = sweep /\ id' = id  BY <1>4 DEF Claim
  <2>3. intr_id' = intr_id /\ outranked' = outranked /\ (intr_id' # 0 => notif_locked')
    BY <1>2, <2>1
  <2>4. intr_pending' = raised \cup (intr_pending \ {intr_id}) /\ intr_blocked' = raised \cup intr_blocked
    BY <1>1, <2>1
  <2>5. intr_id = 0 \/ intr_id \in intr_pending  BY <2>2 DEF ClaimInv
  <2>6. intr_blocked = intr_pending  BY <2>2 DEF OneClaimPerRequest, InService
  <2>7. ClaimInv'
    <3>1. ~notif_locked  BY <2>2 DEF ClaimInv
    <3>2. notif_locked' => intr_id' # 0  BY <1>2, <2>1, <2>3, <3>1
    <3> QED  BY <1>3, <2>2, <2>3, <3>2 DEF ClaimInv
  <2>8. OneClaimPerRequest'
    <3>1. InService' = {intr_id} \ {0}  BY <2>2, <2>3 DEF InService
    <3>2. raised \cap intr_pending = {} /\ 0 \notin intr_pending  BY <1>1, <2>6 DEF ClaimInv
    <3>3. CASE intr_id = 0  BY <2>4, <2>6, <3>1, <3>2, <3>3 DEF OneClaimPerRequest
    <3>4. CASE intr_id # 0
      <4>1. intr_id \in intr_pending /\ InService' = {intr_id}  BY <2>5, <3>1, <3>4
      <4> QED  BY <2>4, <2>6, <3>2, <4>1 DEF OneClaimPerRequest
    <3> QED  BY <3>3, <3>4
  <2>9. HighestFirst'  BY <2>2, <2>3 DEF HighestFirst, ClaimInv
  <2> QED  BY <2>7, <2>8, <2>9
<1>5. CASE Complete
  <2>1. completion_event(acc) /\ ~claim_event(acc) /\ acc.val = id
    BY <1>5, AccessFacts DEF claim_event, completion_event
  <2>2. pc = "complete" /\ pc' = "rest"  BY <1>5 DEF Complete
  <2>3. ~notif_locked'  BY <1>2, <2>1
  <2>4. intr_pending' = raised \cup intr_pending /\ intr_blocked' = raised \cup (intr_blocked \ {id})
    BY <1>1, <2>1
  <2>5. intr_blocked = intr_pending \cup {id} /\ id \notin intr_pending
    BY <2>2 DEF OneClaimPerRequest, InService
  <2>6. ClaimInv' /\ HighestFirst'  BY <1>3, <2>2, <2>3 DEF ClaimInv, HighestFirst
  <2>7. OneClaimPerRequest'
    <3>1. InService' = {}  BY <2>2 DEF InService
    <3>2. raised \cap intr_blocked = {}  BY <1>1
    <3> QED  BY <2>4, <2>5, <3>1, <3>2 DEF OneClaimPerRequest
  <2> QED  BY <2>6, <2>7
<1>6. CASE ~Claim /\ ~Complete
  <2>1. ~claim_event(acc) /\ ~completion_event(acc)  BY <1>6, AccessFacts
  <2>2. /\ intr_pending' = raised \cup intr_pending /\ intr_blocked' = raised \cup intr_blocked
        /\ notif_locked' = notif_locked
    BY <1>1, <1>2, <2>1
  <2>3. raised \cap intr_blocked = {}  BY <1>1
  <2>4. CASE Serve
    <3>1. pc = "data" /\ id' = intr_id
      BY <2>4 DEF Serve
    <3>2. CASE intr_id = 0
      <4>1. pc' = "thread" /\ InService' = {} /\ InService = {}
        BY <2>4, <3>1, <3>2 DEF Serve, InService
      <4>2. ~notif_locked  BY <3>2 DEF ClaimInv
      <4>3. ClaimInv' /\ HighestFirst'
        BY <1>3, <2>2, <4>1, <4>2 DEF ClaimInv, HighestFirst
      <4>4. OneClaimPerRequest'  BY <2>2, <2>3, <4>1 DEF OneClaimPerRequest
      <4> QED  BY <4>3, <4>4
    <3>3. CASE intr_id # 0
      <4>1. pc' = "complete" /\ sweep' = (IF intr_id = TBRE THEN FALSE ELSE sweep)
        BY <2>4, <3>3 DEF Serve
      <4>2. notif_locked /\ intr_id' = intr_id  BY <1>2, <3>1, <3>3 DEF ClaimInv
      <4>3. ClaimInv' /\ HighestFirst'
        BY <1>3, <2>2, <3>1, <3>3, <4>1, <4>2 DEF ClaimInv, HighestFirst
      <4>4. InService = {intr_id} /\ InService' = {intr_id}
        BY <3>1, <3>3, <4>1 DEF InService
      <4>5. OneClaimPerRequest'  BY <2>2, <2>3, <4>4 DEF OneClaimPerRequest
      <4> QED  BY <4>3, <4>5
    <3> QED  BY <3>2, <3>3
  <2>5. CASE ~Serve
    <3>1. /\ pc \notin {"claim", "data", "complete"} /\ pc' \notin {"data", "complete"}
          /\ pc' = "claim" => pc = "thread"
      <4>1. Idle \/ Polled \/ Take \/ Configure(acc) \/ Kick \/ Poll \/ Clear
        BY <1>6, <2>5, Zenon DEF CoreStep
      <4> QED  BY <4>1 DEF Idle, Polled, Take, Configure, Kick, Poll, Clear, Free
    <3>2. ~notif_locked  BY <3>1 DEF ClaimInv
    <3>3. ClaimInv' /\ HighestFirst'
      BY <1>2, <1>3, <2>1, <2>2, <3>1, <3>2 DEF ClaimInv, HighestFirst
    <3>4. InService = {} /\ InService' = {}  BY <3>1 DEF InService
    <3>5. OneClaimPerRequest'  BY <2>2, <2>3, <3>4 DEF OneClaimPerRequest
    <3> QED  BY <3>3, <3>5
  <2> QED  BY <2>4, <2>5
<1> QED  BY <1>4, <1>5, <1>6

-----------------------------------------------------------------------------
\* The end of a sweep moves from one place to the next, and the driver notices
\* it in the last: <1>4 to <1>9 say when each place is filled and emptied.
LEMMA SweepStep ==
  ASSUME IInv, NEW acc \in Accesses, NEW ends \in BOOLEAN,
         NEW up \in SUBSET (Level \ lines), CoreStep(acc), Clock(acc, ends, up)
  PROVE  SweepInv' /\ OnePlace'
<1> USE DEF IInv
<1>1. PICK raised \in SUBSET (Sources \ intr_blocked) :
        /\ TBRE \in raised => tbre_intr
        /\ tbre_intr /\ TBRE \notin irqs_q /\ TBRE \notin intr_blocked => TBRE \in raised
        /\ intr_pending' = raised \cup
             (intr_pending \ (IF claim_event(acc) THEN {intr_id} ELSE {}))
  BY GatewayFacts, Zenon
<1>2. /\ tbre_stat' = IF tbre_stat THEN ~ends ELSE tbre_go
      /\ tbre_go' = IF acc.we /\ acc.reg = "go" THEN TRUE
                    ELSE IF acc.we /\ acc.reg \in {"istat", "inten"} THEN tbre_go ELSE FALSE
      /\ tbre_stat_q' = tbre_stat
      /\ tbre_intr_stat' = IF tbre_done THEN TRUE ELSE IF tbre_intr_en THEN FALSE
                           ELSE IF acc.we /\ acc.reg = "istat" THEN FALSE ELSE tbre_intr_stat
      /\ tbre_intr_en' = IF acc.we /\ acc.reg = "inten" THEN acc.val ELSE tbre_intr_en
      /\ rdata' = IF ~acc.we /\ acc.reg = "istat" THEN ~tbre_intr_en /\ tbre_intr_stat ELSE rdata
  BY Zenon DEF Clock, Engine, MmregEdge, StatusEdge
<1>3. Idle \/ Polled \/ Take \/ Configure(acc) \/ Poll \/ Claim \/ Complete => (sweep' <=> sweep)
  <2>1. Idle \/ Polled \/ Take \/ Configure(acc) \/ Poll \/ Claim \/ Complete => sweep' = sweep
    BY Zenon DEF Idle, Polled, Take, Configure, Poll, Claim, Complete
  <2>2. sweep' = sweep => (sweep' <=> sweep)  OBVIOUS
  <2> QED  BY <2>1, <2>2, Zenon
<1>4. tbre_go' <=> Kick
  <2>1. pc = "data" <=> Serve
    BY DEF CoreStep, Idle, Polled, Take, Serve, Configure, Kick, Poll, Clear, Claim, Complete, Free
  <2>2. pc = "rest" => acc = NoAccess
    BY Zenon DEF CoreStep, Configure, Kick, Poll, Clear, Claim, Complete, Free
  <2>3. tbre_go => ~acc.we  BY <2>2 DEF SweepInv, NoAccess, Read
  <2>4. Kick => acc.we /\ acc.reg = "go"
    <3>1. Kick => pc = "thread" /\ ~irq_external /\ pc' = "rest" /\ ~sweep /\ sweep'
      BY DEF Kick, Free
    <3>2. Kick => ~Serve /\ ~Clear  BY <2>1, <3>1 DEF Clear
    <3>3. Kick => acc = Write("go", 1)  BY <1>3, <3>1, <3>2, Zenon DEF CoreStep
    <3> QED  BY <3>3 DEF Write
  <2>5. acc.we /\ acc.reg = "go" => Kick  BY AccessFacts, Zenon
  <2> QED  BY <1>2, <2>3, <2>4, <2>5
<1>5. tbre_done' <=> tbre_stat /\ ~tbre_stat'  BY <1>2 DEF tbre_done
<1>6. acc.we /\ acc.reg = "istat" <=> Clear
  <2>1. Clear => acc = Write("istat", 0)
    <3>1. Clear => pc = "clear"  BY DEF Clear
    <3> QED
      BY <3>1 DEF CoreStep, Idle, Polled, Take, Serve, Configure, Kick, Poll, Clear, Claim, Complete, Free
  <2>2. acc.we /\ acc.reg = "istat" => Clear  BY AccessFacts, Zenon
  <2> QED  BY <2>1, <2>2 DEF Write
<1>7. Requested' <=> TBRE \in raised \/ (Requested /\ ~ (Claim /\ intr_id = TBRE))
  <2>1. claim_event(acc) <=> Claim  BY AccessFacts, Zenon
  <2> QED  BY <1>1, <2>1 DEF Requested, TBRE
<1>8. TBRE \in raised <=> tbre_intr_stat /\ tbre_intr_en
  <2>1. TBRE \in raised => tbre_intr_stat /\ tbre_intr_en  BY <1>1 DEF tbre_intr
  <2>2. ASSUME tbre_intr_stat, tbre_intr_en  PROVE TBRE \in raised
    <3>1. TBRE \notin irqs_q  BY <2>2 DEF SweepInv
    <3>2. TBRE \notin intr_pending /\ ~Delivered /\ sweep  BY <2>2 DEF OnePlace, Requested
    <3>3. TBRE \notin InService
      BY <3>2 DEF InService, Delivered, ClaimInv
    <3>4. TBRE \notin intr_blocked  BY <3>2, <3>3 DEF OneClaimPerRequest
    <3> QED  BY <1>1, <2>2, <3>1, <3>4 DEF tbre_intr
  <2> QED  BY <2>1, <2>2
<1>9. /\ Delivered' <=> Claim /\ intr_id = TBRE
      /\ Delivered <=> Serve /\ intr_id = TBRE
      /\ sweep' <=> Kick \/ (sweep /\ ~Clear /\ ~ (Serve /\ intr_id = TBRE))
  <2>1. pc' = "data" <=> Claim
    BY DEF CoreStep, Idle, Polled, Take, Serve, Configure, Kick, Poll, Clear, Claim, Complete
  <2>2. Claim => intr_id' = intr_id
    <3>1. Claim => claim_event(acc)  BY AccessFacts, Zenon
    <3> QED  BY <3>1, NotificationFacts, Zenon DEF ClaimInv
  <2>3. pc = "data" <=> Serve
    BY DEF CoreStep, Idle, Polled, Take, Serve, Configure, Kick, Poll, Clear, Claim, Complete, Free
  <2>4. sweep' <=> Kick \/ (sweep /\ ~Clear /\ ~ (Serve /\ intr_id = TBRE))
    <3>1. sweep \in BOOLEAN  BY DEF TypeOK
    <3>2. CASE Kick  BY <3>2 DEF Kick
    <3>3. CASE Clear  BY <3>3 DEF Clear, Kick, Free
    <3>4. CASE Serve  BY <3>1, <3>4 DEF Serve, Clear, Kick, Free
    <3>5. CASE ~Kick /\ ~Clear /\ ~Serve  BY <1>3, <3>5, Zenon DEF CoreStep
    <3> QED  BY <3>2, <3>3, <3>4, <3>5
  <2> QED  BY <2>1, <2>2, <2>3, <2>4 DEF Delivered
<1>10. /\ Kick => ~sweep /\ pc' = "rest"
       /\ Clear => tbre_intr_stat /\ ~tbre_intr_en /\ sweep
       /\ Claim /\ intr_id = TBRE => Requested
  BY DEF Kick, Clear, Claim, SweepInv, ClaimInv, Requested, TBRE
<1>11. OnePlace'
  <2>1. tbre_go => ~tbre_stat  BY DEF SweepInv
  <2>2. tbre_intr_stat' <=> tbre_done \/ (tbre_intr_stat /\ ~tbre_intr_en /\ ~Clear)
    BY <1>2, <1>6 DEF TypeOK
  <2>3. tbre_stat' => tbre_stat \/ tbre_go  BY <1>2
  <2>4. tbre_go => tbre_stat'  BY <1>2, <2>1
  <2>5. Working <=> tbre_go \/ tbre_stat  BY DEF Working
  <2>6. Working' <=> tbre_go' \/ tbre_stat'  BY DEF Working
  <2> QED
    BY <1>4, <1>5, <1>7, <1>8, <1>9, <1>10, <2>1, <2>2, <2>3, <2>4, <2>5, <2>6 DEF OnePlace
<1>12. SweepInv'
  <2>1. tbre_go' => pc' = "rest" /\ ~tbre_stat'
    <3>1. Kick => ~tbre_go /\ ~tbre_stat  BY <1>10 DEF OnePlace, Working
    <3> QED  BY <1>2, <1>4, <1>10, <3>1
  <2>2. TBRE \in irqs_q' => ~tbre_intr_stat'
    <3>1. irqs_q' = irq_to_plic  BY DEF Clock, PlicEdge, GatewayEdge
    <3>2. TBRE \in irq_to_plic => tbre_intr_stat /\ tbre_intr_en
      BY DEF irq_to_plic, tbre_intr, TypeOK, Level
    <3>3. tbre_intr_stat => ~tbre_done  BY DEF OnePlace
    <3> QED  BY <1>2, <3>1, <3>2, <3>3
  <2>3. pc' = "clear" \/ (pc' = "polled" /\ rdata') =>
          tbre_intr_stat' /\ ~tbre_intr_en' /\ sweep'
    <3>1. ASSUME pc' = "clear" PROVE tbre_intr_stat' /\ ~tbre_intr_en' /\ sweep'
      <4>1. Polled /\ rdata /\ acc = NoAccess
        BY <3>1 DEF CoreStep, Idle, Polled, Take, Serve, Configure, Kick, Poll, Clear, Claim, Complete
      <4>2. tbre_intr_stat /\ ~tbre_intr_en /\ sweep /\ sweep' = sweep
        BY <4>1 DEF SweepInv, Polled
      <4> QED  BY <1>2, <4>1, <4>2 DEF NoAccess, Read
    <3>2. ASSUME pc' = "polled", rdata' PROVE tbre_intr_stat' /\ ~tbre_intr_en' /\ sweep'
      <4>1. Poll /\ acc = Read("istat")
        BY <3>2 DEF CoreStep, Idle, Polled, Take, Serve, Configure, Kick, Poll, Clear, Claim, Complete
      <4>2. sweep /\ sweep' = sweep  BY <4>1 DEF Poll, Polling
      <4> QED  BY <1>2, <3>2, <4>1, <4>2 DEF Read
    <3> QED  BY <3>1, <3>2
  <2> QED  BY <2>1, <2>2, <2>3 DEF SweepInv
<1> QED  BY <1>11, <1>12

-----------------------------------------------------------------------------
\* The inductive invariant holds after reset,
LEMMA InitIInv == Init => IInv
<1> SUFFICES ASSUME Init PROVE IInv  OBVIOUS
<1> USE DEF Init, PlicInit
<1>1. TypeOK
  <2>1. 0 \in Sources /\ 0 \in Priorities  BY SourcesAssumption DEF Sources, Priorities
  <2> QED  BY <2>1 DEF TypeOK, PlicTypeOK
<1>2. ClaimInv /\ SweepInv /\ HighestFirst  BY DEF ClaimInv, SweepInv, HighestFirst
<1>3. OneClaimPerRequest  BY DEF OneClaimPerRequest, InService
<1>4. OnePlace  BY DEF OnePlace, Working, Requested, Delivered, tbre_done
<1> QED  BY <1>1, <1>2, <1>3, <1>4 DEF IInv

\* is kept by every clock edge,
LEMMA NextIInv == IInv /\ [Next]_vars => IInv'
<1> SUFFICES ASSUME IInv, [Next]_vars PROVE IInv'  OBVIOUS
<1>1. CASE Next
  <2>1. PICK acc \in Accesses : CoreStep(acc) /\
          \E ends \in {FALSE, tbre_stat}, up \in SUBSET (Level \ lines) : Clock(acc, ends, up)
    BY <1>1, Zenon DEF Next
  <2>2. PICK ends \in {FALSE, tbre_stat}, up \in SUBSET (Level \ lines) : Clock(acc, ends, up)
    BY <2>1, Zenon
  <2>3. ends \in BOOLEAN  BY DEF IInv, TypeOK
  <2>4. TypeOK /\ 0 \notin intr_pending  BY Zenon DEF IInv, ClaimInv
  <2>5. TypeOK'  BY <2>1, <2>2, <2>3, <2>4, TypeStep, Zenon
  <2>6. ClaimInv' /\ OneClaimPerRequest' /\ HighestFirst'
    BY <2>1, <2>2, <2>3, ClaimStep, Zenon
  <2>7. SweepInv' /\ OnePlace'  BY <2>1, <2>2, <2>3, SweepStep, Zenon
  <2> QED  BY <2>5, <2>6, <2>7, Zenon DEF IInv
<1>2. CASE UNCHANGED vars
  <2> USE <1>2 DEF vars, plicVars, mmregVars, IInv
  <2>1. TypeOK'  BY DEF TypeOK, PlicTypeOK
  <2>2. ClaimInv' /\ SweepInv' /\ HighestFirst'  BY DEF ClaimInv, SweepInv, HighestFirst
  <2>3. OneClaimPerRequest'  BY DEF OneClaimPerRequest, InService
  <2>4. OnePlace'  BY DEF OnePlace, Working, Requested, Delivered, tbre_done
  <2> QED  BY <2>1, <2>2, <2>3, <2>4
<1> QED  BY <1>1, <1>2

\* and so holds of the controller, the engine's registers and the core together.
THEOREM InterruptInvariance == Spec => []IInv
BY InitIInv, NextIInv, PTL DEF Spec

\* Every register keeps its type.
THEOREM InterruptTypes == Spec => []TypeOK
<1>1. IInv => TypeOK  BY DEF IInv
<1> QED  BY <1>1, InterruptInvariance, PTL

\* The gateways (g_pending): whatever the driver configures and whenever the
\* lines change, a request is claimed once and its gateway opens once.
THEOREM ClaimedOnce == Spec => []OneClaimPerRequest
<1>1. IInv => OneClaimPerRequest  BY DEF IInv
<1> QED  BY <1>1, InterruptInvariance, PTL

\* intr_id: a claim returns a request that none outranked when the controller
\* last chose, with any priorities and masks.
THEOREM ClaimsHighest == Spec => []HighestFirst
<1>1. IInv => HighestFirst  BY DEF IInv
<1> QED  BY <1>1, InterruptInvariance, PTL

\* tbre_intr_stat: the end of a sweep is noticed exactly once, by interrupt or by
\* polling, although the status clears itself while interrupts are enabled.
THEOREM SweepsNoticed == Spec => []SweepNoticedOnce
<1>1. IInv => SweepNoticedOnce
  <2> SUFFICES ASSUME OnePlace PROVE SweepNoticedOnce  BY DEF IInv
  <2>1. /\ SweepAt("engine") <=> Working
        /\ SweepAt("done") <=> tbre_done
        /\ SweepAt("status") <=> tbre_intr_stat
        /\ SweepAt("request") <=> Requested
        /\ SweepAt("service") <=> Delivered
    BY DEF SweepAt, Working, Requested, Delivered
  <2> QED  BY <2>1, Zenon DEF SweepNoticedOnce, OnePlace, SweepPlaces
<1> QED  BY <1>1, InterruptInvariance, PTL
=============================================================================

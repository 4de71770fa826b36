--------------------------- MODULE InterruptSystem ---------------------------
(***************************************************************************)
(* The interrupt path of the device wrapper (msftDvIp_tcdev_wrapper.sv):   *)
(* the interrupt controller, the revocation engine's registers             *)
(* (msftDvIp_mmreg.sv) on source 1, level devices (UART, Ethernet) on the  *)
(* sources above, and the core that takes the interrupts.                  *)
(*                                                                         *)
(* Source 1 is a pulse: mmreg clears its status by itself while interrupts *)
(* are enabled; with interrupts disabled the driver polls it.              *)
(*                                                                         *)
(* The core is external: a driver that configures the registers in any     *)
(* order and at any time, starts one sweep of the revocation engine after  *)
(* the other, and a handler that claims, serves the device and completes.  *)
(* It ends a load or store before it begins the next, so that two accesses *)
(* are never in consecutive cycles.                                        *)
(***************************************************************************)
EXTENDS Plic

TBRE == 1
Level == Sources \ {0, TBRE}

CONSTANT Config   \* the configuration writes the driver uses
ASSUME ConfigAssumption == \A acc \in Config :
  \/ acc \in [we : {TRUE}, reg : {"enable", "type"}, val : SUBSET Sources]
  \/ acc \in [we : {TRUE}, reg : {"thres"}, val : Priorities]
  \/ acc \in [we : {TRUE}, reg : {"pri"}, val : [src : Sources, pri : Priorities]]
  \/ acc \in [we : {TRUE}, reg : {"inten"}, val : BOOLEAN]

VARIABLES
  tbre_go, tbre_stat, tbre_stat_q, tbre_intr_stat, tbre_intr_en,  \* tbre_stat: the engine runs
  rdata,          \* the polled status, a cycle after the access
  lines,          \* asserted level devices
  pc, id,         \* what the core does in this cycle, what it has claimed
  sweep,          \* the driver waits for a sweep
  outranked       \* history: no claim may return these

mmregVars == <<tbre_go, tbre_stat, tbre_stat_q, tbre_intr_stat, tbre_intr_en, rdata>>
vars == <<plicVars, mmregVars, lines, pc, id, sweep, outranked>>

Init ==
  /\ PlicInit
  /\ tbre_go = FALSE /\ tbre_stat = FALSE /\ tbre_stat_q = FALSE
  /\ tbre_intr_stat = FALSE /\ tbre_intr_en = FALSE /\ rdata = FALSE
  /\ lines = {} /\ pc = "thread" /\ id = 0 /\ sweep = FALSE /\ outranked = {}

-----------------------------------------------------------------------------
(* The revocation engine's registers                                       *)

tbre_done == tbre_stat_q /\ ~tbre_stat
tbre_intr == tbre_intr_stat /\ tbre_intr_en

StatusEdge_DoneLost(acc) ==
  tbre_intr_stat' = IF tbre_intr_en THEN FALSE
                    ELSE IF tbre_done THEN TRUE
                    ELSE IF acc.we /\ acc.reg = "istat" THEN FALSE ELSE tbre_intr_stat
StatusEdge(acc) ==
  tbre_intr_stat' = IF tbre_done THEN TRUE
                    ELSE IF tbre_intr_en THEN FALSE
                    ELSE IF acc.we /\ acc.reg = "istat" THEN FALSE ELSE tbre_intr_stat

\* Writes to the other registers of mmreg leave tbre_go as it is.
MmregEdge(acc) ==
  /\ tbre_go' = IF acc.we /\ acc.reg = "go" THEN TRUE
                ELSE IF acc.we /\ acc.reg \in {"istat", "inten"} THEN tbre_go ELSE FALSE
  /\ tbre_stat_q' = tbre_stat
  /\ StatusEdge(acc)
  /\ tbre_intr_en' = IF acc.we /\ acc.reg = "inten" THEN acc.val ELSE tbre_intr_en
  /\ rdata' = IF ~acc.we /\ acc.reg = "istat" THEN ~tbre_intr_en /\ tbre_intr_stat ELSE rdata

\* External: the engine starts when told to, and ends at some time.
Engine(ends) == tbre_stat' = IF tbre_stat THEN ~ends ELSE tbre_go

-----------------------------------------------------------------------------
(* External: the core                                                      *)

\* Polling for the end of a sweep is a loop of its own; interrupts are taken
\* as soon as the core sees them.
Free == pc = "thread" /\ ~irq_external
Polling == sweep /\ ~tbre_intr_en

Idle == (pc = "rest" \/ (Free /\ ~Polling)) /\ pc' = "thread" /\ sweep' = sweep /\ id' = id
Configure(acc) ==
  Free /\ (Polling => acc = Write("inten", TRUE)) /\ pc' = "rest" /\ sweep' = sweep /\ id' = id
Kick == Free /\ ~sweep /\ pc' = "rest" /\ sweep' = TRUE /\ UNCHANGED id
Poll == Free /\ Polling /\ pc' = "polled" /\ sweep' = sweep /\ id' = id
Polled == pc = "polled" /\ pc' = (IF rdata THEN "clear" ELSE "thread") /\ sweep' = sweep /\ id' = id
Clear == pc = "clear" /\ pc' = "rest" /\ sweep' = FALSE /\ UNCHANGED id

Take == pc = "thread" /\ irq_external /\ pc' = "claim" /\ sweep' = sweep /\ id' = id
Claim == pc = "claim" /\ pc' = "data" /\ sweep' = sweep /\ id' = id
\* The claimed identifier arrives; 0 means that there is none.
Serve ==
  /\ pc = "data" /\ id' = intr_id
  /\ pc' = IF intr_id = 0 THEN "thread" ELSE "complete"
  /\ sweep' = IF intr_id = TBRE THEN FALSE ELSE sweep
Complete == pc = "complete" /\ pc' = "rest" /\ id' = 0 /\ UNCHANGED sweep

\* What the core does in a cycle, and the access that it makes.
CoreStep(acc) ==
  \/ acc = NoAccess          /\ (Idle \/ Polled \/ Take \/ Serve)
  \/ acc \in Config          /\ Configure(acc)
  \/ acc = Write("go", 1)    /\ Kick
  \/ acc = Read("istat")     /\ Poll
  \/ acc = Write("istat", 0) /\ Clear
  \/ acc = Read("claim")     /\ Claim
  \/ acc = Write("claim", id) /\ Complete

-----------------------------------------------------------------------------

irq_to_plic == lines \cup (IF tbre_intr THEN {TBRE} ELSE {})

\* A clock edge; up are devices that raise their line, the one served lowers it.
Clock(acc, ends, up) ==
  /\ lines' = (lines \ (IF pc = "data" THEN {intr_id} ELSE {})) \cup up
  /\ Engine(ends) /\ MmregEdge(acc)
  /\ PlicEdge(acc, irq_to_plic)
  /\ outranked' = IF claim_event(acc) THEN outranked
                  ELSE LET pri == pri_tree  best == id_tree
                       IN  {s \in Sources : pri[s] < pri[best]}

Accesses == Config \cup {NoAccess, Write("go", 1), Read("istat"), Write("istat", 0), Read("claim")}
            \cup {Write("claim", id)}

Next == \E acc \in Accesses :
  /\ CoreStep(acc)
  /\ \E ends \in {FALSE, tbre_stat}, up \in SUBSET (Level \ lines) : Clock(acc, ends, up)

Spec == Init /\ [][Next]_vars

\* The clock runs and sweeps end.
FairSpec == Spec /\ WF_vars(Next) /\ WF_vars(tbre_stat /\ tbre_stat' = FALSE /\ Next)

-----------------------------------------------------------------------------
(* Properties                                                              *)

TypeOK ==
  /\ PlicTypeOK
  /\ {tbre_go, tbre_stat, tbre_stat_q, tbre_intr_stat, tbre_intr_en, rdata, sweep} \subseteq BOOLEAN
  /\ lines \subseteq Level /\ id \in Sources /\ outranked \subseteq Sources
  /\ pc \in {"thread", "rest", "polled", "clear", "claim", "data", "complete"}

\* What the core has claimed and not completed.
InService == IF pc = "data" THEN {intr_id} \ {0} ELSE IF pc = "complete" THEN {id} ELSE {}

\* A gateway is closed exactly while its request is pending or in service, and
\* never both: a claim takes the request whose identifier the core reads a
\* cycle later.  Otherwise a source would be served twice, or stay closed.
OneClaimPerRequest ==
  intr_blocked = intr_pending \cup InService /\ intr_pending \cap InService = {}

\* A claim returns a source that no other outranked in the cycle before it.
HighestFirst ==
  pc = "data" => intr_id \notin outranked /\ (intr_id = 0 => outranked = {})

\* The end of a sweep is in one place at a time until the driver has noticed it
\* once: also when it changes between polling and interrupts in the meantime.
SweepAt(place) ==
  \/ place = "engine" /\ (tbre_go \/ tbre_stat)
  \/ place = "done" /\ tbre_done
  \/ place = "status" /\ tbre_intr_stat
  \/ place = "request" /\ TBRE \in intr_pending
  \/ place = "service" /\ pc = "data" /\ intr_id = TBRE
SweepPlaces == {"engine", "done", "status", "request", "service"}
SweepNoticedOnce ==
  /\ sweep <=> \E p \in SweepPlaces : SweepAt(p)
  /\ \A p, q \in SweepPlaces : SweepAt(p) /\ SweepAt(q) => p = q

Top(s) == /\ s \in intr_enable_reg \ intr_src_type_reg /\ intr_pri_reg[s] > intr_thres_reg
          /\ \A r \in Sources \ {s} : intr_pri_reg[r] < intr_pri_reg[s]

\* A level device of the highest priority is served, the end of a sweep noticed.
EveryRequestServed ==
  /\ \A s \in Level : s \in lines /\ Top(s) ~> s \notin lines \/ ~Top(s)
  /\ sweep /\ Top(TBRE) ~> ~sweep \/ ~Top(TBRE)
=============================================================================

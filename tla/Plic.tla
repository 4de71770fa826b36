-------------------------------- MODULE Plic --------------------------------
(***************************************************************************)
(* The interrupt controller (msftDvIp_plic.sv), in the terms of its        *)
(* comment: a source's signal becomes a request (pending) that blocks the  *)
(* source's gateway, the request of the highest priority becomes the       *)
(* notification, the core claims it and later completes it.                *)
(*                                                                         *)
(* PlicEdge is a clock edge: acc is the access of this cycle to one of the *)
(* device registers, irqs the set of asserted interrupt lines.             *)
(***************************************************************************)
EXTENDS Naturals

CONSTANT NSrc
ASSUME SourcesAssumption == NSrc \in Nat \ {0, 1}

Sources == 0..NSrc-1
Priorities == 0..7

VARIABLES
  intr_pri_reg, intr_thres_reg, intr_src_type_reg, intr_enable_reg,
  intr_pending, intr_blocked, irqs_q,
  intr_id, notif_locked, irq_external

plicVars == <<intr_pri_reg, intr_thres_reg, intr_src_type_reg, intr_enable_reg,
              intr_pending, intr_blocked, irqs_q, intr_id, notif_locked, irq_external>>

\* A register access.  Only reading "claim" has an effect on the controller.
Write(reg, val) == [we |-> TRUE, reg |-> reg, val |-> val]
Read(reg) == [we |-> FALSE, reg |-> reg, val |-> 0]
NoAccess == Read("none")

PlicInit ==
  /\ intr_pri_reg = [s \in Sources |-> 0] /\ intr_thres_reg = 0
  /\ intr_src_type_reg = {} /\ intr_enable_reg = {}
  /\ intr_pending = {} /\ intr_blocked = {} /\ irqs_q = {}
  /\ intr_id = 0 /\ notif_locked = FALSE /\ irq_external = FALSE

-----------------------------------------------------------------------------
(* Comparing the priorities                                                *)

\* The first level of the tree: a source counts if it is pending and enabled.
pri_tree == [s \in Sources |-> IF s \in intr_pending \cap intr_enable_reg
                               THEN intr_pri_reg[s] ELSE 0]

\* The root of the tree: the highest priority, of the lowest source.
id_tree ==
  LET pri == pri_tree
  IN  CHOOSE s \in Sources :
        \A r \in Sources : pri[s] > pri[r] \/ (pri[s] = pri[r] /\ s <= r)

-----------------------------------------------------------------------------
(* A clock edge                                                            *)

claim_event(acc) == ~acc.we /\ acc.reg = "claim"
completion_event(acc) == acc.we /\ acc.reg = "claim"

irq_sig(irqs) == {s \in irqs : s \in intr_src_type_reg => s \notin irqs_q}

GatewayEdge(acc, irqs) ==
  LET claim_dec == IF claim_event(acc) THEN {intr_id} ELSE {}
      completion_dec == IF completion_event(acc) THEN {acc.val} ELSE {}
      raised == irq_sig(irqs) \ intr_blocked
  IN  /\ intr_pending' = raised \cup (intr_pending \ claim_dec)
      /\ intr_blocked' = raised \cup (intr_blocked \ completion_dec)
      /\ irqs_q' = irqs

NotificationEdge_ClaimMoves(acc) ==
  LET best == id_tree  pri == pri_tree[best]
  IN  /\ irq_external' = (pri > intr_thres_reg)
      /\ notif_locked' = IF intr_id # 0 /\ claim_event(acc) THEN TRUE
                         ELSE IF completion_event(acc) THEN FALSE ELSE notif_locked
      /\ intr_id' = IF notif_locked THEN intr_id
                    ELSE IF pri # 0 THEN best ELSE 0
NotificationEdge_KeepsId(acc) ==
  LET best == id_tree  pri == pri_tree[best]
  IN  /\ irq_external' = (pri > intr_thres_reg)
      /\ notif_locked' = IF intr_id # 0 /\ claim_event(acc) THEN TRUE
                         ELSE IF completion_event(acc) THEN FALSE ELSE notif_locked
      /\ intr_id' = IF notif_locked \/ claim_event(acc) \/ intr_id # 0 THEN intr_id
                    ELSE IF pri # 0 THEN best ELSE 0
NotificationEdge_NoUnlock(acc) ==
  LET best == id_tree  pri == pri_tree[best]
  IN  /\ irq_external' = (pri > intr_thres_reg)
      /\ notif_locked' = IF intr_id # 0 /\ claim_event(acc) THEN TRUE
                         ELSE notif_locked
      /\ intr_id' = IF notif_locked \/ claim_event(acc) THEN intr_id
                    ELSE IF pri # 0 THEN best ELSE 0
NotificationEdge(acc) ==
  LET best == id_tree  pri == pri_tree[best]
  IN  /\ irq_external' = (pri > intr_thres_reg)
      /\ notif_locked' = IF intr_id # 0 /\ claim_event(acc) THEN TRUE
                         ELSE IF completion_event(acc) THEN FALSE ELSE notif_locked
      /\ intr_id' = IF notif_locked \/ claim_event(acc) THEN intr_id
                    ELSE IF pri # 0 THEN best ELSE 0

Low(S) == (IF 0 \in S THEN 1 ELSE 0) + (IF 1 \in S THEN 2 ELSE 0) + (IF 2 \in S THEN 4 ELSE 0)

\* Address 0 is the source type register and the priority of source 0.
RegisterEdge(acc) ==
  /\ intr_enable_reg' = IF acc.we /\ acc.reg = "enable" THEN acc.val ELSE intr_enable_reg
  /\ intr_src_type_reg' = IF acc.we /\ acc.reg = "type" THEN acc.val ELSE intr_src_type_reg
  /\ intr_thres_reg' = IF acc.we /\ acc.reg = "thres" THEN acc.val ELSE intr_thres_reg
  /\ intr_pri_reg' = [s \in Sources |->
       IF acc.we /\ acc.reg = "pri" /\ s = acc.val.src THEN acc.val.pri
       ELSE IF acc.we /\ acc.reg = "type" /\ s = 0 THEN Low(acc.val)
       ELSE intr_pri_reg[s]]

PlicEdge(acc, irqs) == GatewayEdge(acc, irqs) /\ NotificationEdge(acc) /\ RegisterEdge(acc)

PlicTypeOK ==
  /\ intr_pri_reg \in [Sources -> Priorities] /\ intr_thres_reg \in Priorities
  /\ intr_src_type_reg \subseteq Sources /\ intr_enable_reg \subseteq Sources
  /\ intr_pending \subseteq Sources /\ intr_blocked \subseteq Sources /\ irqs_q \subseteq Sources
  /\ intr_id \in Sources /\ notif_locked \in BOOLEAN /\ irq_external \in BOOLEAN
=============================================================================

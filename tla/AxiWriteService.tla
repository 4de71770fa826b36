--------------------------- MODULE AxiWriteService ---------------------------
(***************************************************************************)
(* What the write half of the fabric promises: every write goes through    *)
(* the same five phases, one at a time per manager, and between the moment *)
(* a subordinate takes the address and the moment it hands over its        *)
(* response no other manager's write is open there.                        *)
(***************************************************************************)
CONSTANTS Managers, Subs, None

VARIABLES
  phase,   \* progress of the manager's write
  dst      \* subordinate it is addressed to

vars == <<phase, dst>>

Init ==
  /\ phase = [m \in Managers |-> "idle"]
  /\ dst = [m \in Managers |-> None]

Holds(m, s) == dst[m] = s /\ phase[m] \in {"open", "taken"}

\* One phase of manager m's write: issued, address taken, last beat taken,
\* response on its way, response delivered.
Step(m) ==
  \/ phase[m] = "idle" /\ phase'[m] = "waiting" /\ dst'[m] \in Subs
  \/ /\ phase[m] = "waiting" /\ phase'[m] = "open" /\ dst'[m] = dst[m]
     /\ \A n \in Managers : ~Holds(n, dst[m])
     /\ \A n \in Managers \ {m} : ~Holds(n, dst[m])'
  \/ phase[m] = "open" /\ phase'[m] = "taken" /\ dst'[m] = dst[m]
  \/ phase[m] = "taken" /\ phase'[m] = "answered" /\ dst'[m] = dst[m]
  \/ phase[m] = "answered" /\ phase'[m] = "idle" /\ dst'[m] = None

Stay(m) == phase'[m] = phase[m] /\ dst'[m] = dst[m]

\* One edge moves any number of managers, each by one phase.
Next == \A m \in Managers : Step(m) \/ Stay(m)

Spec == Init /\ [][Next]_vars
=============================================================================

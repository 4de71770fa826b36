------------------------------- MODULE ObiPort -------------------------------
(***************************************************************************)
(* What an OBI crossbar promises its masters, whatever its arbitration and *)
(* whatever lies behind a slave: a master has at most one access in        *)
(* flight, a slave works for at most one master, an access is performed    *)
(* exactly when it is granted, and the response comes from the slave that  *)
(* performed it, to the master it performed it for.                        *)
(***************************************************************************)
EXTENDS Integers

CONSTANTS Masters, Slaves, NoSlave, NoMaster

VARIABLES
  req,     \* slave the master is asking for
  out,     \* slave whose response the master waits for
  served   \* master the slave last performed an access for

vars == <<req, out, served>>

Init ==
  /\ req = [m \in Masters |-> NoSlave]
  /\ out = [m \in Masters |-> NoSlave]
  /\ served = [s \in Slaves |-> NoMaster]

Ask(m, s) ==
  /\ req[m] = NoSlave
  /\ req' = [req EXCEPT ![m] = s]
  /\ UNCHANGED <<out, served>>

\* One clock edge: the masters of answered get their response and those of
\* granted have their access performed.
Edge(granted, answered) ==
  /\ \A m \in granted :
       /\ req[m] \in Slaves
       /\ out[m] = NoSlave \/ m \in answered
  /\ \A m, n \in granted : req[m] = req[n] => m = n
  /\ \A m \in answered : out[m] \in Slaves /\ served[out[m]] = m
  /\ req' = [m \in Masters |-> IF m \in granted THEN NoSlave ELSE req[m]]
  /\ out' = [m \in Masters |-> IF m \in granted THEN req[m]
                               ELSE IF m \in answered THEN NoSlave ELSE out[m]]
  /\ served' = [s \in Slaves |->
                  IF \E m \in granted : req[m] = s
                  THEN CHOOSE m \in granted : req[m] = s
                  ELSE served[s]]
  \* a slave still working for one master takes no access of another
  /\ \A m, n \in Masters : out'[m] = out'[n] /\ out'[m] \in Slaves => m = n

Next ==
  \/ \E m \in Masters, s \in Slaves : Ask(m, s)
  \/ \E granted, answered \in SUBSET Masters : Edge(granted, answered)

Spec == Init /\ [][Next]_vars
=============================================================================

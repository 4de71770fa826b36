------------------------------- MODULE AxiBus -------------------------------
(***************************************************************************)
(* The AXI fabric (msftDvIp_cheri_axi_fabric.sv): its write half and its   *)
(* read half share the clock and no state, and READY and VALID are free in *)
(* both, so an execution of both shows each half nothing that it does not  *)
(* see alone: an execution of the model has traffic on one of the two,     *)
(* chosen at the start.                                                    *)
(***************************************************************************)
EXTENDS AxiWritePath, AxiReadPath

VARIABLE channel

busVars == <<vars, readVars, channel>>

BusInit == Init /\ ReadInit /\ channel \in {"write", "read"}

OnWrite(A) == channel = "write" /\ A /\ UNCHANGED <<readVars, channel>>
OnRead(A)  == channel = "read"  /\ A /\ UNCHANGED <<vars, channel>>

BusNext == OnWrite(Next) \/ OnRead(ReadNext)

BusSpec == BusInit /\ [][BusNext]_busVars

\* The fairness of both halves (FairSpec, ReadFairSpec).
BusFairSpec ==
  /\ BusSpec
  /\ WF_busVars(OnWrite(Clock([awready |-> ExtSubs, wready |-> ExtSubs, bready |-> Managers])))
  /\ \A m \in Managers : WF_busVars(OnWrite(OfferBeat(m)))
  /\ \A s \in ExtSubs : WF_busVars(OnWrite(Respond(s)))
  /\ WF_busVars(OnRead(ReadClock([arready |-> ExtSubs, rready |-> Managers])))
  /\ \A s \in ExtSubs : WF_busVars(OnRead(GiveBeat(s)))
=============================================================================

------------------------------ MODULE GdbServer -----------------------------
(***************************************************************************)
(* The CHERI GDB server: its commands on registers and the loading of an   *)
(* image, each taken by itself and answered at once, and the traffic with  *)
(* OpenOCD under any commands.  The three share no state, so an execution  *)
(* of the model has one of them, chosen at the start.                      *)
(***************************************************************************)
EXTENDS GdbRegisters, ImageLoad, GdbLink

VARIABLE kind

serverVars == <<regVars, imageVars, vars, kind>>

ServerInit ==
  /\ RegInit /\ ImageInit /\ Init
  /\ \/ kind = "image"
     \/ kind \in {"registers", "traffic"} /\ image = CHOOSE img \in Images : TRUE

OnTraffic(A) == kind = "traffic" /\ A /\ UNCHANGED <<regVars, imageVars, kind>>

ServerNext ==
  \/ kind = "registers" /\ RegNext /\ UNCHANGED <<imageVars, vars, kind>>
  \/ kind = "image" /\ ImageNext /\ UNCHANGED <<regVars, vars, kind>>
  \/ OnTraffic(Next)

ServerSpec == ServerInit /\ [][ServerNext]_serverVars

\* The server and OpenOCD go on, and a step ends; a running core may run for
\* ever, and nobody has to enter a command.
ServerFairSpec ==
  /\ ServerSpec
  /\ WF_serverVars(OnTraffic(Server))
  /\ WF_serverVars(OnTraffic(OpenocdAck)) /\ WF_serverVars(OnTraffic(OpenocdServe))
  /\ WF_serverVars(OnTraffic(core = "stepping" /\ CoreStop))

-----------------------------------------------------------------------------
(* Properties (the others are in the modules of the parts)                 *)

\* Every command comes to an end: the server is back at the prompt or has left.
CommandEnds == kind = "traffic" /\ pc # "prompt" ~> pc \in {"prompt", "crash", "done"}
=============================================================================

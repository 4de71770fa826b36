---------------------------- MODULE DebugSystem -----------------------------
(***************************************************************************)
(* The debug subsystem (msftDvIp_riscv_cheri_debug.sv): transport, debug   *)
(* module with its memory and the hart, and system bus access, driven by a *)
(* host over JTAG.  Clock is an edge of the system clock for all of them,  *)
(* HostTck an edge of TCK.                                                 *)
(*                                                                         *)
(* The host is external and waits: it asks for something only when what it *)
(* asked before is over.  It has no status that tells it so in every case  *)
(* (busy goes away before the hart has done the work, and system bus       *)
(* access reports no busy at all), it relies on a scan taking longer.      *)
(***************************************************************************)
EXTENDS Dmibus, DebugModule, SystemBusAccess

CONSTANTS
  Kinds,        \* of "csr" and "scr", the commands the host uses besides "reg"
  MaxPointer    \* the host streams memory up to this word address

ASSUME KindsAssumption == Kinds \subseteq {"csr", "scr"}

VARIABLE session   \* whether the host debugs the "hart" or accesses "memory"

vars == <<busVars, dmVars, hartVars, dmHistory, sbVars, session>>

Init == BusInit /\ DmInit /\ SbInit /\ session \in {"hart", "memory"}

-----------------------------------------------------------------------------
(* External: the host                                                      *)

Control(halt, resume) ==
  Request("dmcontrol", TRUE, [dmactive |-> TRUE, haltreq |-> halt, resumereq |-> resume])
Command(k, r, write, transfer, postexec, size) ==
  Request("command", TRUE,
          [kind |-> k, reg |-> r, write |-> write, transfer |-> transfer,
           postexec |-> postexec, valid_size |-> size])

RegCommand(r, write) == Command("reg", r, write, TRUE, FALSE, TRUE)
SysCommand(k, write) == Command(k, "none", write, TRUE, FALSE, TRUE)

\* A host gives up on a hart it has lost track of (after a CSR or SCR command).
HartRequests ==
  IF ~dmactive THEN {Control(FALSE, FALSE)}
  ELSE IF ~InRom THEN {Control(TRUE, FALSE)}
  ELSE IF ~judged THEN {Control(FALSE, TRUE), Request("data", FALSE, "none")}
  ELSE {Control(FALSE, TRUE), Request("data", FALSE, "none")}
       \cup {Request("data", TRUE, w) : w \in HostWords}
       \cup {RegCommand(r, write) : r \in {"s0", "gpr"}, write \in BOOLEAN}
       \cup {SysCommand(k, write) : k \in Kinds, write \in BOOLEAN}
       \cup {Command("reg", "gpr", FALSE, TRUE, TRUE, TRUE),
             Command("reg", "gpr", FALSE, TRUE, FALSE, FALSE)}

MemoryRequests ==
  IF ~dmactive THEN {Control(FALSE, FALSE)}
  ELSE {Request("sbaddr", TRUE, 0)}
       \cup (IF sb_addr >= MaxPointer THEN {} ELSE
              {Request("sbdata", FALSE, "none")}
              \cup {Request("sbdata", TRUE, w) : w \in MemWords}
              \cup {Request("sbcs", TRUE, c) :
                      c \in [singleread : BOOLEAN, autoincrement : BOOLEAN, autoread : BOOLEAN]})

AtRest == ~asked.owed /\ Settled /\ sb_state = "IDLE"

HostRequests ==
  {Nop} \cup (IF ~AtRest THEN {} ELSE IF session = "hart" THEN HartRequests ELSE MemoryRequests)

\* It begins a scan at rest, or at once after one that asked for something.
HostTck ==
  /\ jtag_state = "RUN_IDLE" => AtRest
  /\ \E next \in jtag_state_nxt :
       /\ jtag_state = "DRUPDATE" /\ next = "DRSELECT" => dr_shift_reg.addr # "none"
       /\ \E req \in (IF jtag_state = "DRSHIFT" THEN HostRequests ELSE {Nop}) :
            Tck(next, req)
  /\ UNCHANGED <<dmVars, hartVars, dmHistory, sbVars, session>>

-----------------------------------------------------------------------------
(* The system clock                                                        *)

\* h = [moves, choice, gnt, rvalid : BOOLEAN]: whether the hart moves, what it
\* chooses, what the system bus does.
Clock(h) ==
  LET acc == IF penable THEN preq ELSE Nop
      setup == IF psel /\ ~penable THEN preq ELSE Nop
  IN  /\ BusEdge(dmrdata)
      /\ IF h.moves THEN HartStep(h.choice) ELSE UNCHANGED hartVars
      /\ DmEdge(acc, setup, sb_rdata, IF h.moves THEN HartWrite ELSE "none", pc = Running /\ pc' # Running)
      /\ SbEdge(acc, h.gnt, h.rvalid)
      /\ UNCHANGED session

\* In a memory session the hart just runs.
Inputs == {h \in [moves : BOOLEAN, choice : BOOLEAN, gnt : BOOLEAN, rvalid : BOOLEAN] :
             /\ h.choice => h.moves /\ session = "hart"
             /\ h.gnt => dbg_req
             /\ h.rvalid => sbresp # "none"}

Next == (\E h \in Inputs : Clock(h)) \/ HostTck

Spec == Init /\ [][Next]_vars

\* The clock runs, with a hart that moves and a bus that answers again and again.
FairSpec ==
  /\ Spec
  /\ WF_vars(Clock([moves |-> TRUE, choice |-> FALSE, gnt |-> dbg_req,
                    rvalid |-> sbresp # "none"]))

-----------------------------------------------------------------------------
(* Properties                                                              *)

\* A scan that follows an access returns success and the value the host is
\* owed: the result has crossed back in time, and is not that of an earlier
\* access.
ReadsReturn ==
  dr_shift_reg.is = "return" /\ ~asked.req.wr =>
    /\ dr_shift_reg.stat = 0
    /\ asked.req.addr = "data" /\ judged => dr_shift_reg.data = want.slot
    /\ asked.req.addr = "sbdata" => dr_shift_reg.data = sbwant.read

\* Every access is performed, every halt or resume request comes true, every
\* command ends with the hart waiting again.
RequestsServed ==
  /\ asked.owed ~> ~asked.owed
  /\ haltreq ~> halted
  /\ resumereq ~> pc = Running
  /\ ac.transfer \/ ac.postexec ~> Settled
=============================================================================

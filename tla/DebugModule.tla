---------------------------- MODULE DebugModule -----------------------------
(***************************************************************************)
(* Run control and abstract commands: the debug module's registers         *)
(* (msftDvIp_riscv_cheri_debug_reg.sv), the debug memory through which     *)
(* the hart talks to it (msftDvIp_riscv_cheri_mem.sv), and the hart        *)
(* executing the debug ROM (msftDvIp_riscv_cheri_debug_rom.sv).            *)
(*                                                                         *)
(* The hart's pc is a place of the ROM; HartStep is one or a few           *)
(* instructions with at most one access to the debug memory.  The two      *)
(* data words a capability takes are one slot, and the contents of         *)
(* registers are tokens that commands move around.  The core itself is     *)
(* external: it may start debugging on a request or a breakpoint.          *)
(***************************************************************************)
EXTENDS Integers, Sequences, SequencesExt

CONSTANT HostWords   \* tokens the host writes to the data registers

VARIABLES
  dmactive, haltreq, resumereq,          \* DM control
  ac, cmderr,                            \* the abstract command, its error
  slot,                                  \* data registers (ram_reg)
  dmrdata,                               \* rdata, loaded in the APB setup phase
  halted,                                \* flag of the debug memory
  pc, x8, gpr, sys, dscratch,            \* the hart: s0, another register, a CSR or SCR
  want,     \* history: what a host believes the registers and slot to hold
  judged,   \* history: no CSR or SCR command since the hart was halted
  plan, did \* history: what the last command asked for, what has run since

dmVars == <<dmactive, haltreq, resumereq, ac, cmderr, slot, dmrdata, halted>>
hartVars == <<pc, x8, gpr, sys, dscratch>>
dmHistory == <<want, judged, plan, did>>

\* Flags in the order the ROM tests them.
Order == <<"pgmb", "resume", "reg", "csr", "scr">>
Flags == {"pgmb", "resume", "reg", "csr", "scr"}
Pc(at, k) == [at |-> at, k |-> k]
Running == Pc("run", "none")
NoCommand == [kind |-> "none", reg |-> "none", write |-> FALSE, transfer |-> FALSE,
              postexec |-> FALSE, valid_size |-> FALSE]

DmInit ==
  /\ dmactive = FALSE /\ haltreq = FALSE /\ resumereq = FALSE
  /\ ac = NoCommand /\ cmderr = 0
  /\ slot = "zero" /\ dmrdata = "none" /\ halted = FALSE
  /\ pc = Running /\ x8 = "s" /\ gpr = "g" /\ sys = "c" /\ dscratch = "zero"
  /\ want = [s0 |-> "s", gpr |-> "g", sys |-> "c", slot |-> "zero"] /\ judged = TRUE
  /\ plan = <<>> /\ did = <<>>

\* debug_transfer_*_o and debug_resume_o as the hart reads them at 0x400.
flag(k) ==
  CASE k = "pgmb" -> ac.postexec /\ ~ac.transfer
    [] k = "resume" -> resumereq
    [] OTHER -> ac.transfer /\ ac.kind = k /\ ac.valid_size

-----------------------------------------------------------------------------
(* The hart in the debug ROM                                               *)

\* What the hart writes to the debug memory in its next step.
HartWrite ==
  CASE pc.at = "park" -> "halted"
    [] pc.at = "go" -> "transfer"
    [] pc.at = "leave" -> "resuming"
    [] pc.at = "fault" -> "exception"
    [] pc.at = "area" /\ pc.k = "reg" /\ ~ac.write -> "ram"
    [] pc.at = "area1" -> "ram"
    [] pc.at = "area3" /\ ~ac.write -> "ram"
    [] OTHER -> "none"

\* The store of a register to the data slot (0x3f0).
StoreData == IF pc.k = "reg" /\ ac.reg = "gpr" THEN gpr ELSE x8

Goto(p) == pc' = p /\ UNCHANGED <<x8, gpr, sys, dscratch>>

\* 0x800-0x818: save s0, report halted.
Enter == pc.at = "enter" /\ pc' = Pc("park", "none") /\ dscratch' = x8 /\ x8' = "junk"
         /\ UNCHANGED <<gpr, sys>>
Park == pc.at = "park" /\ Goto(Pc("test", "none"))
\* 0x81c-0x868: one pass over the flags; the first that is set decides.
Test ==
  /\ pc.at = "test"
  /\ \/ (\A k \in Flags : ~flag(k)) /\ Goto(Pc("park", "none"))
     \/ \E n \in 1 .. Len(Order) :
          /\ flag(Order[n]) /\ \A j \in 1 .. n - 1 : ~flag(Order[j])
          /\ Goto(IF Order[n] = "resume" THEN Pc("leave", "none") ELSE Pc("go", Order[n]))
\* 0x878-0x8a4: acknowledge, restore s0, jump into the program buffer page.
Go == pc.at = "go" /\ Goto(Pc("restore", pc.k))
Restore_Skipped ==                             \* Mutant: s0 is not restored
  /\ pc.at = "restore"
  /\ Goto(Pc(IF pc.k \in {"csr", "scr"} THEN "area1" ELSE "area", pc.k))
Restore ==
  /\ pc.at = "restore" /\ x8' = dscratch
  /\ pc' = Pc(IF pc.k \in {"csr", "scr"} THEN "area1" ELSE "area", pc.k)
  /\ UNCHANGED <<gpr, sys, dscratch>>
\* 0x8a8-0x8b4.
Leave == pc.at = "leave" /\ pc' = Pc("dret", "none") /\ x8' = dscratch
         /\ UNCHANGED <<gpr, sys, dscratch>>
Dret == pc.at = "dret" /\ Goto(Running)
\* 0x86c-0x874.
Fault == pc.at = "fault" /\ pc' = Pc("enter", "none") /\ x8' = dscratch
         /\ UNCHANGED <<gpr, sys, dscratch>>

\* 0x380: one load or store of the register, then ebreak.
AreaReg ==
  /\ pc.at = "area" /\ pc.k = "reg" /\ pc' = Pc("enter", "none")
  /\ gpr' = IF ac.write /\ ac.reg = "gpr" THEN slot ELSE gpr
  /\ x8' = IF ac.write /\ ac.reg = "s0" THEN slot ELSE x8
  /\ UNCHANGED <<sys, dscratch>>
\* 0x300: the host's program, which here leaves the registers alone.
AreaPgmb(fault) ==
  pc.at = "area" /\ pc.k = "pgmb" /\ Goto(Pc(IF fault THEN "fault" ELSE "enter", "none"))
\* 0x390 and 0x3b0: save s0, move through s0 one way or the other, restore s0.
\* The saving store goes to 0x3f0, the restoring load decodes to it.
AreaSys1 == pc.at = "area1" /\ Goto(Pc("area2", pc.k))
AreaSys2 == pc.at = "area2" /\ pc' = Pc("area3", pc.k) /\ x8' = (IF ac.write THEN slot ELSE sys)
            /\ UNCHANGED <<gpr, sys, dscratch>>
AreaSys3 == pc.at = "area3" /\ pc' = Pc("area4", pc.k) /\ sys' = (IF ac.write THEN x8 ELSE sys)
            /\ UNCHANGED <<x8, gpr, dscratch>>
AreaSys4 == pc.at = "area4" /\ pc' = Pc("enter", "none") /\ x8' = slot
            /\ UNCHANGED <<gpr, sys, dscratch>>

\* External: the core enters debug mode on a request or a breakpoint.
\* By then the program has set its registers anew.
Break(brk) ==
  /\ pc = Running /\ (haltreq \/ brk) /\ pc' = Pc("enter", "none")
  /\ x8' = "s" /\ gpr' = "g" /\ sys' = "c" /\ UNCHANGED dscratch
Run == pc = Running /\ ~haltreq /\ UNCHANGED hartVars

HartStep(choice) ==
  \/ Run \/ Break(choice) \/ Enter \/ Park \/ Test \/ Go \/ Restore \/ Leave \/ Dret \/ Fault
  \/ AreaReg \/ AreaPgmb(choice) \/ AreaSys1 \/ AreaSys2 \/ AreaSys3 \/ AreaSys4

-----------------------------------------------------------------------------
(* Debug module registers at a clock edge.  acc is the DMI access of this   *)
(* edge (address "none" if there is none), w the hart's write.              *)

Writes(acc, addr) == acc.wr /\ acc.addr = addr

\* Mutant: a resume request is dropped on the edge after it was made.
ControlEdge_NoResume(acc) ==
  LET wr == Writes(acc, "dmcontrol")
  IN  /\ dmactive' = IF wr THEN acc.data.dmactive ELSE dmactive
      /\ haltreq' = (dmactive /\ IF wr THEN acc.data.haltreq ELSE haltreq /\ ~halted)
      /\ resumereq' = (dmactive /\ wr /\ acc.data.resumereq)
ControlEdge(acc) ==
  LET wr == Writes(acc, "dmcontrol")
  IN  /\ dmactive' = IF wr THEN acc.data.dmactive ELSE dmactive
      /\ haltreq' = (dmactive /\ IF wr THEN acc.data.haltreq ELSE haltreq /\ ~halted)
      /\ resumereq' = (dmactive /\ IF wr THEN acc.data.resumereq ELSE resumereq /\ halted)

\* Mutant: the acknowledgement clears both halves of the command.
CommandEdge_AckBoth(acc, w) ==
  /\ ac' = IF ~dmactive THEN NoCommand
           ELSE IF Writes(acc, "command") THEN acc.data
           ELSE IF (ac.transfer /\ ~ac.valid_size) \/ w = "transfer"
           THEN [ac EXCEPT !.transfer = FALSE, !.postexec = FALSE]
           ELSE ac
  /\ cmderr' = cmderr
CommandEdge(acc, w) ==
  /\ ac' = IF ~dmactive THEN NoCommand
           ELSE IF Writes(acc, "command") THEN acc.data
           ELSE IF ac.transfer /\ ~ac.valid_size THEN [ac EXCEPT !.transfer = FALSE]
           ELSE IF w # "transfer" THEN ac
           ELSE IF ac.transfer THEN [ac EXCEPT !.transfer = FALSE]
           ELSE [ac EXCEPT !.postexec = FALSE]
  /\ cmderr' = IF ~dmactive THEN 0
               ELSE IF Writes(acc, "command") THEN cmderr
               ELSE IF ac.transfer /\ ~ac.valid_size THEN 2
               ELSE IF w = "transfer" /\ ac.transfer THEN 0 ELSE cmderr

\* The flag and the data slot of the debug memory; the hart's write wins.
MemEdge(acc, w) ==
  /\ halted' = IF w = "halted" THEN TRUE
               ELSE IF w \in {"resuming", "transfer"} THEN FALSE ELSE halted
  /\ slot' = IF w = "ram" /\ dmactive THEN StoreData
             ELSE IF Writes(acc, "data") THEN acc.data ELSE slot

\* rdata is loaded in the setup phase of an APB access; sb is the system bus
\* read register.
ReadEdge(setup, sb) ==
  dmrdata' = CASE setup.addr = "data" -> slot
               [] setup.addr = "sbdata" -> sb
               [] OTHER -> "none"

\* What a command means to the host that writes it.
Meaning(c) ==
  LET r == IF c.kind = "reg" THEN c.reg ELSE "sys"
  IN  IF ~c.transfer \/ ~c.valid_size THEN want
      ELSE IF c.write THEN [want EXCEPT ![r] = want.slot] ELSE [want EXCEPT !.slot = want[r]]

HistoryEdge(acc, entering, w) ==
  /\ want' = IF entering THEN [s0 |-> x8', gpr |-> gpr', sys |-> sys', slot |-> slot]
             ELSE IF Writes(acc, "command") THEN Meaning(acc.data)
             ELSE IF Writes(acc, "data") THEN [want EXCEPT !.slot = acc.data] ELSE want
  /\ judged' = (entering \/ (judged /\ (Writes(acc, "command") =>
                                         acc.data.kind \notin {"csr", "scr"})))
  /\ plan' = IF Writes(acc, "command")
             THEN (IF acc.data.transfer /\ acc.data.valid_size THEN <<acc.data.kind>> ELSE <<>>)
                  \o (IF acc.data.postexec THEN <<"pgmb">> ELSE <<>>)
             ELSE plan
  /\ did' = IF Writes(acc, "command") THEN <<>>
            ELSE IF w = "transfer" THEN Append(did, pc.k) ELSE did

DmEdge(acc, setup, sb, w, entering) ==
  /\ ControlEdge(acc) /\ CommandEdge(acc, w) /\ MemEdge(acc, w) /\ ReadEdge(setup, sb)
  /\ HistoryEdge(acc, entering, w)

-----------------------------------------------------------------------------
(* Properties                                                              *)

InRom == pc.at \in {"park", "test"}
\* A hart that waits in the debug ROM with nothing asked of it, or runs so.
Settled == \/ InRom /\ halted /\ ~resumereq /\ ~ac.transfer /\ ~ac.postexec
           \/ pc = Running /\ ~haltreq /\ ~resumereq /\ ~halted

\* A command has its effect once and in order, transfer before program, even
\* though the acknowledgement comes before the work.
OncePerCommand ==
  /\ IsPrefix(did, plan)
  /\ Settled /\ InRom => did = plan

\* At rest, registers and data hold what the host's commands mean, s0 saved
\* aside included.  (CSR and SCR commands save s0 over the data registers they
\* transfer through, so that what they say is not judged.)
Agrees ==
  want = [s0 |-> IF InRom THEN dscratch ELSE x8, gpr |-> gpr, sys |-> sys, slot |-> slot]
CommandsWork == Settled /\ judged => Agrees

=============================================================================

----------------------------- MODULE DebugProofs ----------------------------
(***************************************************************************)
(* Proofs about the debug subsystem: a request crosses the clock domains   *)
(* once and intact, commands have their effect once and in order, memory   *)
(* is what the host means, and reads return what the host is owed.         *)
(***************************************************************************)
EXTENDS DebugSystem, NaturalLemmas, SequenceTheorems, TLAPS

\* The shift register is read live and nothing tells the host that an access
\* is over: the theorems are about a TCK of at least three system clocks.
SlowTck == ClkPerTck >= 3

-----------------------------------------------------------------------------
(* The inductive invariant                                                 *)

\* What a request has crossed so far: 0 to 2 the synchroniser, 3 and 4 the two
\* phases of the access; 5 is no request under way.
AtStage(k) ==
  /\ apb_req <=> k <= 2
  /\ (req_sclk[1] <=> k \in 1 .. 3) /\ (req_sclk[2] <=> k \in 2 .. 4)
  /\ apb_state = (IF k = 3 THEN "PSEL" ELSE IF k = 4 THEN "PENABLE" ELSE "IDLE")
  /\ req_ack <=> k = 3
  /\ preq = (IF k \in 3 .. 4 THEN asked.req ELSE Nop)
  /\ asked.owed <=> k <= 4
  /\ k <= 2 => dr_shift_reg = asked.req
  /\ k <= 4 => \/ jtag_state \in {"RUN_IDLE", "DRSELECT"} /\ k >= clks
               \/ jtag_state = "DRCAPTURE" /\ k >= 3 + clks

Scanned == jtag_state \in {"DREXIT1", "DRUPDATE"}

LinkInv ==
  /\ clks \in Nat
  /\ jtag_state \in {"RUN_IDLE", "DRSELECT", "DRCAPTURE", "DRSHIFT", "DREXIT1", "DRUPDATE"}
  /\ dr_shift_reg.is = "return" => jtag_state = "DRSHIFT"
  /\ \E k \in 0 .. 5 : AtStage(k)

\* A hart that waits in the debug ROM with nothing asked of it.
Waiting == dmactive /\ InRom /\ ~resumereq /\ ~ac.transfer /\ ~ac.postexec

\* The requests a host makes fit the state, and it still fits when they are
\* performed.
Fits(r) ==
  /\ r.is = "request" /\ r.wr \in BOOLEAN
  /\ r.addr \in {"none", "dmcontrol", "data", "command", "sbaddr", "sbdata", "sbcs"}
  /\ r.addr = "dmcontrol" => r.wr /\ r.data.dmactive /\ (r.data.resumereq => Waiting)
  /\ r.addr = "data" => Waiting /\ (r.wr => judged)
  /\ r.addr = "command" =>
       /\ r.wr /\ Waiting /\ judged
       /\ \/ r.data.kind = "reg" /\ r.data.reg \in {"s0", "gpr"}
          \/ r.data.kind \in {"csr", "scr"}
       /\ r.data = [kind |-> r.data.kind, reg |-> r.data.reg, write |-> r.data.write,
                    transfer |-> r.data.transfer, postexec |-> r.data.postexec,
                    valid_size |-> r.data.valid_size]
  /\ r.addr = "sbaddr" => r.wr /\ r.data = 0
  /\ r.addr = "sbcs" => r.wr
  /\ r.addr \in {"sbaddr", "sbdata", "sbcs"} => sb_state = "IDLE"

FitsInv ==
  /\ Scanned => Fits(dr_shift_reg)
  /\ asked.owed => Fits(asked.req)

\* What is left of a command.
Pending(c) ==
  (IF c.transfer /\ c.valid_size THEN <<c.kind>> ELSE <<>>)
  \o (IF c.postexec THEN <<"pgmb">> ELSE <<>>)
Work == {"pgmb", "reg", "csr", "scr"}

Places == {"run", "enter", "park", "test", "leave", "dret", "fault"}

HartInv ==
  /\ \/ pc.at \in Places /\ pc.k = "none"
     \/ pc.at \in {"go", "restore"} /\ pc.k \in {"pgmb", "reg", "csr", "scr"}
     \/ pc.at = "area" /\ pc.k \in {"pgmb", "reg"}
     \/ pc.at \in {"area1", "area2", "area3", "area4"} /\ pc.k \in {"csr", "scr"}
  /\ pc = Pc(pc.at, pc.k)
  /\ pc.at \notin {"run", "enter", "park", "test"} => dmactive
  /\ ~dmactive => ~ac.transfer /\ ~ac.postexec /\ ~haltreq /\ ~resumereq
  /\ resumereq => ~ac.transfer /\ ~ac.postexec
  /\ ac.transfer => pc.at \in {"park", "test", "go"} /\ ac.kind \in {"reg", "csr", "scr"}
  /\ pc.at = "go" => flag(pc.k)
  /\ ac = [kind |-> ac.kind, reg |-> ac.reg, write |-> ac.write, transfer |-> ac.transfer,
           postexec |-> ac.postexec, valid_size |-> ac.valid_size]

PlanInv ==
  /\ did \in Seq(Work)
  /\ plan = did \o Pending(ac)

\* The registers as the program has them, s0 saved aside included.
Cur == [s0 |-> IF pc.at \in {"park", "test", "go", "restore", "leave"} THEN dscratch ELSE x8,
        gpr |-> gpr, sys |-> sys, slot |-> slot]

\* A register command has been given but not performed.
Doing == (ac.transfer /\ ac.valid_size) \/ (pc.at \in {"restore", "area"} /\ pc.k = "reg")

Effect(a, c) == IF a.write THEN [c EXCEPT ![a.reg] = c.slot] ELSE [c EXCEPT !.slot = c[a.reg]]

ValueInv ==
  /\ pc = Pc("area", "pgmb") \/ pc.at = "fault" => x8 = dscratch
  /\ judged =>
       /\ pc.k \notin {"csr", "scr"}
       /\ Doing => ac.kind = "reg" /\ ac.reg \in {"s0", "gpr"}
       /\ want = IF Doing THEN Effect(ac, Cur) ELSE Cur

\* Where an access to memory has got to.
Word == mem[sb_addr % MemSize]
NextAddr == (sb_addr + (IF autoincrement THEN 1 ELSE 0)) % MemSize
SbTypes ==
  /\ sb_addr \in Nat /\ DOMAIN mem = Addrs /\ mem = [a \in Addrs |-> mem[a]]
  /\ sbwant = [mem |-> sbwant.mem, addr |-> sbwant.addr, rdata |-> sbwant.rdata,
               read |-> sbwant.read]
SbReading ==
  /\ sb_state \in {"READ", "READ_RESP"} /\ sbwant.addr = NextAddr
  /\ sbwant.mem = mem /\ sbwant.rdata = Word
  /\ sb_state = "READ_RESP" => sbresp = Word
SbWriting ==
  /\ sb_state \in {"WRITE", "WRITE_RESP"} /\ sbwant.addr = NextAddr
  /\ sbwant.rdata = sb_rdata
  /\ sbwant.mem = IF sb_state = "WRITE"
                  THEN [mem EXCEPT ![sb_addr % MemSize] = sb_data_bus] ELSE mem
SbInv == SbTypes /\ ((sb_state = "IDLE" /\ MemoryAsMeant) \/ SbReading \/ SbWriting)

\* A read, from the setup phase of the access to the scan that returns it.
Reading(addr) == asked.req.addr = addr /\ ~asked.req.wr
DataRead == Reading("data") /\ judged
ReadInv ==
  /\ Reading("data") => Waiting
  /\ penable => /\ DataRead => dmrdata = want.slot
                /\ Reading("sbdata") => dmrdata = sb_rdata
  /\ ~asked.owed => /\ DataRead => rdata = want.slot
                    /\ Reading("sbdata") => rdata = sbwant.read
  /\ ReadsReturn

IInv == LinkInv /\ FitsInv /\ HartInv /\ PlanInv /\ ValueInv /\ SbInv /\ ReadInv

-----------------------------------------------------------------------------
(* A clock edge, as its parts see it                                       *)

Acc == IF penable THEN preq ELSE Nop
Setup == IF psel /\ ~penable THEN preq ELSE Nop
Wr(h) == IF h.moves THEN HartWrite ELSE "none"
Entering == pc = Running /\ pc' # Running
HartEdge(h) == IF h.moves THEN HartStep(h.choice) ELSE UNCHANGED hartVars
Edge(h) == /\ HartEdge(h) /\ DmEdge(Acc, Setup, sb_rdata, Wr(h), Entering)

-----------------------------------------------------------------------------
(* The transport                                                           *)

LEMMA LinkClock ==
  ASSUME SlowTck, LinkInv, NEW h, Clock(h)
  PROVE  /\ LinkInv'
         /\ UNCHANGED <<jtag_state, dr_shift_reg>>
         /\ penable => /\ asked.owed /\ preq = asked.req
                       /\ jtag_state \notin {"DRSHIFT", "DREXIT1", "DRUPDATE"}
                       /\ asked' = Answered /\ rdata' = dmrdata
         /\ ~penable => asked' = asked /\ rdata' = rdata
         /\ penable' => psel /\ ~penable /\ asked.owed /\ preq = asked.req
<1> USE ClkPerTckAssumption
<1>1. PICK k \in 0 .. 5 : AtStage(k)  BY DEF LinkInv
<1> DEFINE n == IF k = 5 THEN 5 ELSE k + 1
<1>2. BusEdge(dmrdata)  BY DEF Clock
<1>3. req_sclk' = <<apb_req, req_sclk[1]>> /\ clks' = (IF clks < ClkPerTck THEN clks + 1 ELSE clks)
      /\ UNCHANGED <<jtag_state, dr_shift_reg>>
  BY <1>2 DEF BusEdge
<1>4. AtStage(n)'
  <2>1. (req_sclk[1]' <=> n \in 1 .. 3) /\ (req_sclk[2]' <=> n \in 2 .. 4)
    BY <1>1, <1>3 DEF AtStage
  <2>2. ApbEdge(dmrdata) /\ apb_req' = (apb_req /\ ~req_ack')  BY <1>2 DEF BusEdge
  <2>a. k \in {0, 1, 5} => UNCHANGED <<apb_state, preq, rdata, req_ack, asked>>
    <3>1. k \in {0, 1, 5} => apb_state = "IDLE" /\ ~req_sclk[2]  BY <1>1 DEF AtStage
    <3> QED  BY <2>2, <3>1, Zenon DEF ApbEdge
  <2>b. k = 2 => /\ apb_state' = "PSEL" /\ preq' = dr_shift_reg /\ req_ack'
                 /\ UNCHANGED <<rdata, asked>>
    BY <1>1, <2>2 DEF ApbEdge, AtStage
  <2>c. k = 3 => /\ apb_state' = "PENABLE" /\ ~req_ack' /\ UNCHANGED <<preq, rdata, asked>>
    BY <1>1, <2>2 DEF ApbEdge, AtStage
  <2>d. k = 4 => /\ apb_state' = "IDLE" /\ rdata' = dmrdata /\ asked' = Answered
                 /\ preq' = Nop /\ UNCHANGED req_ack
    BY <1>1, <2>2 DEF ApbEdge, AtStage
  <2>3. apb_state' = (IF n = 3 THEN "PSEL" ELSE IF n = 4 THEN "PENABLE" ELSE "IDLE")
        /\ (req_ack' <=> n = 3)
    BY <1>1, <2>a, <2>b, <2>c, <2>d DEF AtStage
  <2>4. apb_req' <=> n <= 2
    <3>1. apb_req' <=> (apb_req /\ ~req_ack')  BY <2>2, Zenon
    <3> QED  BY <1>1, <2>3, <3>1 DEF AtStage
  <2>5. preq' = (IF n \in 3 .. 4 THEN asked.req ELSE Nop)
        /\ (k # 4 => asked' = asked) /\ (k = 4 => asked' = Answered)
    BY <1>1, <2>a, <2>b, <2>c, <2>d DEF AtStage
  <2>6. (asked.owed' <=> n <= 4) /\ (n <= 4 => asked' = asked)
    BY <1>1, <2>5 DEF AtStage, Answered
  <2>7. n <= 4 => \/ jtag_state \in {"RUN_IDLE", "DRSELECT"} /\ n >= clks'
                  \/ jtag_state = "DRCAPTURE" /\ n >= 3 + clks'
    BY <1>1, <1>3 DEF AtStage, LinkInv
  <2> QED  BY <1>1, <1>3, <2>1, <2>3, <2>4, <2>5, <2>6, <2>7 DEF AtStage
<1>5. LinkInv'
  <2>1. n \in 0 .. 5  OBVIOUS
  <2>2. clks' \in Nat  BY <1>3 DEF LinkInv
  <2> HIDE DEF n
  <2> QED  BY <1>3, <1>4, <2>1, <2>2 DEF LinkInv
<1>6. penable => k = 4  BY <1>1 DEF penable, AtStage
<1>7. penable => /\ asked.owed /\ preq = asked.req
                 /\ jtag_state \notin {"DRSHIFT", "DREXIT1", "DRUPDATE"}
                 /\ asked' = Answered /\ rdata' = dmrdata
  <2> SUFFICES ASSUME penable  PROVE asked.owed /\ preq = asked.req 
                                     /\ jtag_state \notin {"DRSHIFT", "DREXIT1", "DRUPDATE"}
                                     /\ asked' = Answered /\ rdata' = dmrdata
    OBVIOUS
  <2>1. k = 4 /\ apb_state = "PENABLE"  BY <1>6 DEF penable
  <2>2. ApbEdge(dmrdata)  BY <1>2 DEF BusEdge
  <2>3. asked' = Answered /\ rdata' = dmrdata  BY <2>1, <2>2 DEF ApbEdge
  <2> QED  BY <1>1, <2>1, <2>3 DEF AtStage
<1>8. ~penable => asked' = asked /\ rdata' = rdata
  BY <1>1, <1>2 DEF BusEdge, ApbEdge, AtStage, penable
<1>9. penable' => k = 3
  BY <1>4 DEF AtStage, penable
<1>10. penable' => psel /\ ~penable /\ asked.owed /\ preq = asked.req
  BY <1>1, <1>9 DEF AtStage, penable, psel
<1> QED  BY <1>3, <1>5, <1>7, <1>8, <1>10

\* An access is one that fits.
LEMMA AccFits ==
  ASSUME LinkInv, FitsInv
  PROVE  Fits(Acc) /\ (Acc # Nop => asked.owed /\ Acc = asked.req /\ penable)
<1>1. PICK k \in 0 .. 5 : AtStage(k)  BY DEF LinkInv
<1>2. penable => asked.owed /\ preq = asked.req  BY <1>1 DEF AtStage, penable
<1>3. Fits(Nop)  BY DEF Fits, Nop, Request
<1> QED  BY <1>2, <1>3 DEF Acc, FitsInv

\* What a host asks for fits.
LEMMA RequestsFit ==
  ASSUME NEW r \in HostRequests
  PROVE  Fits(r)
<1>1. Fits(Nop)  BY DEF Fits, Nop, Request
<1>2. \A halt, resume : (resume => Waiting) => Fits(Control(halt, resume))
  <2> SUFFICES ASSUME NEW halt, NEW resume, resume => Waiting
               PROVE  Fits(Control(halt, resume))
    OBVIOUS
  <2> DEFINE c == [dmactive |-> TRUE, haltreq |-> halt, resumereq |-> resume]
  <2>1. c.dmactive /\ (c.resumereq => Waiting)  BY Zenon
  <2> HIDE DEF c
  <2>2. Fits(Request("dmcontrol", TRUE, c))  BY <2>1 DEF Fits, Request
  <2> QED  BY <2>2 DEF Control, c
<1>3. \A w : Waiting /\ judged => Fits(Request("data", TRUE, w))  BY DEF Fits, Request
<1>4. Waiting => Fits(Request("data", FALSE, "none"))  BY DEF Fits, Request
<1>5. \A k, q, write, transfer, postexec, size :
        Waiting /\ judged /\ ((k = "reg" /\ q \in {"s0", "gpr"}) \/ k \in {"csr", "scr"})
        => Fits(Command(k, q, write, transfer, postexec, size))
  BY DEF Fits, Command, Request
<1>6. sb_state = "IDLE" =>
        /\ Fits(Request("sbaddr", TRUE, 0)) /\ Fits(Request("sbdata", FALSE, "none"))
        /\ \A w : Fits(Request("sbdata", TRUE, w)) /\ Fits(Request("sbcs", TRUE, w))
  BY DEF Fits, Request
<1>7. CASE AtRest /\ r \in HartRequests
  <2>1. CASE r \in {Control(FALSE, FALSE), Control(TRUE, FALSE)}  BY <1>2, <2>1
  <2>2. CASE ~(r \in {Control(FALSE, FALSE), Control(TRUE, FALSE)})
    <3>1. dmactive /\ InRom
      <4>1. ~dmactive => HartRequests = {Control(FALSE, FALSE)}  BY DEF HartRequests
      <4>2. dmactive /\ ~InRom => HartRequests = {Control(TRUE, FALSE)}
        BY DEF HartRequests
      <4> QED  BY <1>7, <2>2, <4>1, <4>2, Zenon
    <3>2. Waiting  BY <1>7, <3>1 DEF AtRest, Settled, Waiting, InRom, Running, Pc
    <3>3. Waiting => Fits(Control(FALSE, TRUE))  BY <1>2
    <3>4. CASE r \in {Control(FALSE, TRUE), Request("data", FALSE, "none")}
      BY <1>4, <3>2, <3>3, <3>4
    <3>5. CASE ~(r \in {Control(FALSE, TRUE), Request("data", FALSE, "none")})
      <4>1. ~judged => HartRequests = {Control(FALSE, TRUE), Request("data", FALSE, "none")}
        BY <3>1 DEF HartRequests
      <4>2. judged  BY <1>7, <3>5, <4>1, Zenon
      <4> DEFINE Words == {Request("data", TRUE, w) : w \in HostWords}
                 Regs == {RegCommand(q, write) : q \in {"s0", "gpr"}, write \in BOOLEAN}
                 Syss == {SysCommand(k, write) : k \in Kinds, write \in BOOLEAN}
                 Others == {Command("reg", "gpr", FALSE, TRUE, TRUE, TRUE),
                            Command("reg", "gpr", FALSE, TRUE, FALSE, FALSE)}
      <4>3. HartRequests = {Control(FALSE, TRUE), Request("data", FALSE, "none")}
                           \cup Words \cup Regs \cup Syss \cup Others
        BY <3>1, <4>2 DEF HartRequests
      <4>4. \A c \in Words : Fits(c)  BY <1>3, <3>2, <4>2
      <4>5. ASSUME NEW q \in {"s0", "gpr"}, NEW write \in BOOLEAN
            PROVE  Fits(RegCommand(q, write))
        BY <1>5, <3>2, <4>2, Zenon DEF RegCommand
      <4>6. ASSUME NEW k \in Kinds, NEW write \in BOOLEAN
            PROVE  Fits(SysCommand(k, write))
        <5>1. k \in {"csr", "scr"}  BY KindsAssumption
        <5> QED  BY <1>5, <3>2, <4>2, <5>1, Zenon DEF SysCommand
      <4>7. \A c \in Others : Fits(c)  BY <1>5, <3>2, <4>2
      <4>8. ASSUME NEW c \in Regs  PROVE Fits(c)
        <5>1. PICK q \in {"s0", "gpr"}, write \in BOOLEAN : c = RegCommand(q, write)
          OBVIOUS
        <5> QED  BY <4>5, <5>1
      <4>9. ASSUME NEW c \in Syss  PROVE Fits(c)
        <5>1. PICK k \in Kinds, write \in BOOLEAN : c = SysCommand(k, write)
          OBVIOUS
        <5> QED  BY <4>6, <5>1
      <4> HIDE DEF Words, Regs, Syss, Others
      <4> QED  BY <1>7, <3>5, <4>3, <4>4, <4>7, <4>8, <4>9
    <3> QED  BY <3>4, <3>5
  <2> QED  BY <2>1, <2>2
<1>8. CASE AtRest /\ r \in MemoryRequests
  <2>1. sb_state = "IDLE"  BY <1>8 DEF AtRest
  <2>2. Fits(Control(FALSE, FALSE))  BY <1>2
  <2>3. ~dmactive => r = Control(FALSE, FALSE)  BY <1>8 DEF MemoryRequests
  <2>4. dmactive =>
          \/ r = Request("sbaddr", TRUE, 0) \/ r = Request("sbdata", FALSE, "none")
          \/ \E w : r = Request("sbdata", TRUE, w)
          \/ \E w : r = Request("sbcs", TRUE, w)
    <3> DEFINE Words == {Request("sbdata", TRUE, w) : w \in MemWords}
               Controls == {Request("sbcs", TRUE, c) : c \in [singleread : BOOLEAN,
                              autoincrement : BOOLEAN, autoread : BOOLEAN]}
    <3>1. dmactive /\ sb_addr >= MaxPointer => MemoryRequests = {Request("sbaddr", TRUE, 0)}
      BY DEF MemoryRequests
    <3>2. dmactive /\ ~(sb_addr >= MaxPointer) =>
            MemoryRequests = {Request("sbaddr", TRUE, 0)}
                             \cup ({Request("sbdata", FALSE, "none")} \cup Words \cup Controls)
      BY DEF MemoryRequests
    <3>3. ASSUME NEW c \in Words  PROVE \E w : c = Request("sbdata", TRUE, w)
      OBVIOUS
    <3>4. ASSUME NEW c \in Controls  PROVE \E w : c = Request("sbcs", TRUE, w)
      OBVIOUS
    <3> HIDE DEF Words, Controls
    <3> QED  BY <1>8, <3>1, <3>2, <3>3, <3>4
  <2> QED  BY <1>6, <2>1, <2>2, <2>3, <2>4
<1> QED  BY <1>1, <1>7, <1>8 DEF HostRequests

\* A TCK edge, and what it shifts in.
LEMMA TckStep ==
  ASSUME HostTck
  PROVE  \E next, req :
           /\ next \in jtag_state_nxt /\ Tck(next, req)
           /\ (jtag_state = "DRSHIFT" => Fits(req))
<1>1. PICK next \in jtag_state_nxt :
        \E req \in (IF jtag_state = "DRSHIFT" THEN HostRequests ELSE {Nop}) : Tck(next, req)
  BY DEF HostTck
<1>2. PICK req \in (IF jtag_state = "DRSHIFT" THEN HostRequests ELSE {Nop}) : Tck(next, req)
  BY <1>1
<1> QED  BY <1>2, RequestsFit

LEMMA LinkTck ==
  ASSUME SlowTck, LinkInv, HostTck
  PROVE  /\ LinkInv'
         /\ asked.owed \/ psel => jtag_state = "DRSELECT"
<1> USE ClkPerTckAssumption
<1>1. PICK k \in 0 .. 5 : AtStage(k)  BY DEF LinkInv
<1>2. PICK next, req :
        /\ next \in jtag_state_nxt /\ Tck(next, req)
        /\ (jtag_state = "DRSHIFT" => Fits(req))
  BY TckStep
<1>3. jtag_state = "RUN_IDLE" => ~asked.owed  BY DEF HostTck, AtRest
<1>4. /\ clks = ClkPerTck /\ clks' = 0 /\ jtag_state' = next
      /\ apb_req' = IF req_ack THEN FALSE
                    ELSE IF jtag_state = "DRUPDATE" THEN dr_shift_reg.addr # "none" ELSE apb_req
      /\ asked' = IF jtag_state = "DRUPDATE" /\ dr_shift_reg.addr # "none"
                  THEN [req |-> dr_shift_reg, owed |-> TRUE] ELSE asked
      /\ UNCHANGED <<req_sclk, apb_state, preq, rdata, req_ack>>
  BY <1>2 DEF Tck
<1>5. dr_shift_reg' = CASE jtag_state = "DRCAPTURE" -> dmi_return
                        [] jtag_state = "DRSHIFT" -> req
                        [] OTHER -> dr_shift_reg
  BY <1>2 DEF Tck
<1>6. k <= 4 => k >= 3 /\ jtag_state = "DRSELECT"
  BY <1>1, <1>3, <1>4 DEF AtStage, SlowTck
<1>7. dr_shift_reg'.is = "return" => jtag_state = "DRCAPTURE"
  <2>1. jtag_state = "DRSHIFT" => dr_shift_reg'.is = "request"  BY <1>2, <1>5 DEF Fits
  <2> QED  BY <1>5, <2>1 DEF LinkInv
<1>10. jtag_state' \in {"RUN_IDLE", "DRSELECT", "DRCAPTURE", "DRSHIFT", "DREXIT1", "DRUPDATE"}
       /\ (jtag_state = "DRCAPTURE" => jtag_state' = "DRSHIFT")
       /\ (jtag_state = "DRUPDATE" => jtag_state' \in {"RUN_IDLE", "DRSELECT"})
       /\ (jtag_state = "DRSELECT" => jtag_state' = "DRCAPTURE")
  BY <1>2, <1>4 DEF LinkInv, jtag_state_nxt
<1>8. ASSUME jtag_state = "DRUPDATE" /\ dr_shift_reg.addr # "none"  PROVE LinkInv'
  <2>1. k = 5  BY <1>6, <1>8
  <2>a. asked' = [req |-> dr_shift_reg, owed |-> TRUE] /\ dr_shift_reg' = dr_shift_reg
    BY <1>4, <1>5, <1>8
  <2>b. ~req_ack  BY <1>1, <2>1 DEF AtStage
  <2>c. apb_req' = (dr_shift_reg.addr # "none")  BY <1>4, <1>8, <2>b
  <2>d. apb_req'  BY <1>8, <2>c, Zenon
  <2>2. ~req_ack /\ apb_req' /\ asked'.owed /\ asked'.req = dr_shift_reg
       /\ dr_shift_reg' = dr_shift_reg
    BY <2>a, <2>b, <2>d
  <2>3. AtStage(0)'  BY <1>1, <1>4, <1>10, <1>8, <2>1, <2>2 DEF AtStage
  <2> QED  BY <1>4, <1>7, <1>8, <1>10, <2>3 DEF LinkInv
<1>9. ASSUME ~(jtag_state = "DRUPDATE" /\ dr_shift_reg.addr # "none")  PROVE LinkInv'
  <2>1. asked' = asked /\ ~apb_req /\ ~apb_req'
    <3>1. asked' = asked  BY <1>4, <1>9
    <3>2. ~apb_req  BY <1>1, <1>6 DEF AtStage
    <3>3. jtag_state = "DRUPDATE" => apb_req' = FALSE  BY <1>4, <1>9
    <3>4. jtag_state # "DRUPDATE" => apb_req' = FALSE \/ apb_req' = apb_req  BY <1>4
    <3> QED  BY <3>1, <3>2, <3>3, <3>4
  <2>2. AtStage(k)'  BY <1>1, <1>4, <1>6, <1>10, <2>1 DEF AtStage
  <2>3. k \in 0 .. 5 /\ clks' \in Nat  BY <1>4
  <2>4. LinkInv!1' /\ LinkInv!2' /\ LinkInv!3'  BY <1>4, <1>7, <1>10 DEF LinkInv
  <2> QED  BY <2>2, <2>3, <2>4 DEF LinkInv
<1>11. asked.owed \/ psel => k <= 4  BY <1>1 DEF AtStage, psel
<1> QED  BY <1>6, <1>8, <1>9, <1>11

-----------------------------------------------------------------------------
(* Run control                                                             *)

\* While the hart waits it only looks at its flags.
LEMMA Waits ==
  ASSUME HartInv, Waiting, NEW h, HartEdge(h)
  PROVE  /\ InRom' /\ pc'.k = "none" /\ pc' = Pc(pc'.at, pc'.k)
         /\ UNCHANGED <<x8, gpr, sys, dscratch>>
         /\ Wr(h) \in {"halted", "none"} /\ ~Entering
<1> USE DEF Pc
<1>1. pc.at \in {"park", "test"} /\ pc.k = "none" /\ pc = Pc(pc.at, pc.k)
  BY DEF Waiting, InRom, HartInv, Places
<1>2. \A k : ~flag(k)  BY DEF Waiting, flag
<1>3. CASE h.moves
  <2>1. CASE Park  BY <1>1, <1>3, <2>1 DEF Park, Goto, InRom, Wr, HartWrite, Entering, Running
  <2>2. CASE Test
    <3>1. pc.at = "test" /\ Goto(Pc("park", "none"))  BY <1>2, <2>2, Zenon DEF Test
    <3> QED  BY <1>3, <3>1 DEF Goto, InRom, Wr, HartWrite, Entering, Running
  <2>3. Park \/ Test
    <3>1. HartStep(h.choice)  BY <1>3 DEF HartEdge
    <3> QED  BY <1>1, <3>1 DEF HartStep, Run, Break, Enter, Go, Restore, Leave, Dret, Fault,
               AreaReg, AreaPgmb, AreaSys1, AreaSys2, AreaSys3, AreaSys4, Running
  <2> QED  BY <2>1, <2>2, <2>3
<1>4. CASE ~h.moves
  BY <1>1, <1>4 DEF HartEdge, hartVars, InRom, Wr, Entering, Running
<1> QED  BY <1>3, <1>4

\* A debug module once active stays so; a resume is asked for at rest.
LEMMA ControlStep ==
  ASSUME HartInv, Fits(Acc), ControlEdge(Acc)
  PROVE  /\ dmactive => dmactive'
         /\ ~dmactive' => ~haltreq' /\ ~resumereq'
         /\ resumereq' => resumereq \/ (Waiting /\ Acc.addr = "dmcontrol")
         /\ Acc.addr # "dmcontrol" => (dmactive' <=> dmactive) /\ (resumereq' => resumereq)
<1> DEFINE wr == Writes(Acc, "dmcontrol")
<1>1. wr => Acc.data.dmactive /\ (Acc.data.resumereq => Waiting) /\ Acc.addr = "dmcontrol"
  BY DEF Fits, Writes
<1>2. Acc.addr # "dmcontrol" => ~wr  BY DEF Writes
<1> HIDE DEF wr
<1>3. dmactive' = IF wr THEN Acc.data.dmactive ELSE dmactive  BY DEF ControlEdge, wr
<1>4. haltreq' = (dmactive /\ IF wr THEN Acc.data.haltreq ELSE haltreq /\ ~halted)
  BY DEF ControlEdge, wr
<1>5. resumereq' = (dmactive /\ IF wr THEN Acc.data.resumereq ELSE resumereq /\ halted)
  BY DEF ControlEdge, wr
<1>6. CASE wr
  <2>1. dmactive' = Acc.data.dmactive  BY <1>3, <1>6, Zenon
  <2>2. dmactive'  BY <1>1, <1>6, <2>1, Zenon
  <2>3. resumereq' => Waiting  BY <1>1, <1>5, <1>6, Zenon
  <2> QED  BY <1>1, <1>6, <2>2, <2>3
<1>7. CASE ~wr
  <2>1. dmactive' = dmactive  BY <1>3, <1>7, Zenon
  <2>2. (haltreq' => dmactive) /\ (resumereq' => resumereq /\ dmactive)
    BY <1>4, <1>5, <1>7, Zenon
  <2> QED  BY <1>7, <2>1, <2>2, Zenon
<1> QED  BY <1>6, <1>7

\* What a clock edge does to the abstract command.
LEMMA CommandStep ==
  ASSUME HartInv, Fits(Acc), NEW w, CommandEdge(Acc, w)
  PROVE  /\ Writes(Acc, "command") => ac' = Acc.data
         /\ ~Writes(Acc, "command") =>
              \/ ac' = ac /\ (w = "transfer" => ~dmactive) /\ (ac.transfer => ac.valid_size)
              \/ ac' = [ac EXCEPT !.transfer = FALSE] /\ ac.transfer
                 /\ (w = "transfer" \/ ~ac.valid_size)
              \/ ac' = [ac EXCEPT !.postexec = FALSE] /\ ~ac.transfer /\ w = "transfer"
              \/ ac' = NoCommand /\ ~dmactive
<1>1. Writes(Acc, "command") => dmactive  BY DEF Fits, Writes, Waiting
<1>2. ac' = IF ~dmactive THEN NoCommand
            ELSE IF Writes(Acc, "command") THEN Acc.data
            ELSE IF ac.transfer /\ ~ac.valid_size THEN [ac EXCEPT !.transfer = FALSE]
            ELSE IF w # "transfer" THEN ac
            ELSE IF ac.transfer THEN [ac EXCEPT !.transfer = FALSE]
            ELSE [ac EXCEPT !.postexec = FALSE]
  BY DEF CommandEdge
<1> QED  BY <1>1, <1>2, Zenon

\* A flag that is set stays set until the hart acknowledges it.
LEMMA FlagStays ==
  ASSUME HartInv, Fits(Acc), NEW w, CommandEdge(Acc, w), w # "transfer",
         NEW k \in {"pgmb", "reg", "csr", "scr"}, flag(k)
  PROVE  ac' = ac /\ dmactive /\ ~Writes(Acc, "command") /\ flag(k)'
<1>1. ac.transfer \/ ac.postexec  BY DEF flag
<1>2. dmactive  BY <1>1 DEF HartInv
<1>3. ~Writes(Acc, "command")  BY <1>1 DEF Fits, Writes, Waiting
<1>4. ac.transfer => ac.valid_size  BY DEF flag
<1>5. ac' = ac  BY <1>2, <1>3, <1>4, CommandStep
<1> QED  BY <1>2, <1>3, <1>5 DEF flag

LEMMA HartClock ==
  ASSUME HartInv, Fits(Acc), NEW h, HartEdge(h), ControlEdge(Acc), CommandEdge(Acc, Wr(h))
  PROVE  HartInv'
<1> USE DEF Pc
<1>1. /\ dmactive => dmactive'
      /\ ~dmactive' => ~haltreq' /\ ~resumereq'
      /\ resumereq' => resumereq \/ (Waiting /\ Acc.addr = "dmcontrol")
      /\ Acc.addr # "dmcontrol" => (dmactive' <=> dmactive) /\ (resumereq' => resumereq)
  BY ControlStep
<1>2. Writes(Acc, "command") =>
        /\ ac' = Acc.data /\ Acc.addr = "command" /\ Waiting
        /\ Acc.data.kind \in {"reg", "csr", "scr"}
        /\ ac' = [kind |-> ac'.kind, reg |-> ac'.reg, write |-> ac'.write,
                  transfer |-> ac'.transfer, postexec |-> ac'.postexec,
                  valid_size |-> ac'.valid_size]
  BY CommandStep DEF Fits, Writes
<1>3. ~Writes(Acc, "command") =>
        /\ (ac'.transfer => ac.transfer /\ ac'.kind = ac.kind) /\ (ac'.postexec => ac.postexec)
        /\ (ac'.transfer \/ ac'.postexec => dmactive)
        /\ (ac'.transfer /\ dmactive => Wr(h) # "transfer")
        /\ ac' = [kind |-> ac'.kind, reg |-> ac'.reg, write |-> ac'.write,
                  transfer |-> ac'.transfer, postexec |-> ac'.postexec,
                  valid_size |-> ac'.valid_size]
  <2> SUFFICES ASSUME ~Writes(Acc, "command")
               PROVE  <1>3!2
    OBVIOUS
  <2>1. ac = [kind |-> ac.kind, reg |-> ac.reg, write |-> ac.write, transfer |-> ac.transfer,
              postexec |-> ac.postexec, valid_size |-> ac.valid_size]
        /\ (ac.transfer \/ ac.postexec => dmactive)
    BY DEF HartInv
  <2>2. CASE ac' = ac /\ (Wr(h) = "transfer" => ~dmactive)  BY <2>1, <2>2
  <2>3. CASE ac' = [ac EXCEPT !.transfer = FALSE] /\ ac.transfer  BY <2>1, <2>3
  <2>4. CASE ac' = [ac EXCEPT !.postexec = FALSE] /\ ~ac.transfer  BY <2>1, <2>4
  <2>5. CASE ac' = NoCommand  BY <2>5 DEF NoCommand
  <2> QED  BY <2>2, <2>3, <2>4, <2>5, CommandStep
<1>4. ~dmactive' => ~ac'.transfer /\ ~ac'.postexec /\ ~haltreq' /\ ~resumereq'
  BY <1>1, <1>2, <1>3 DEF Waiting
<1>5. resumereq' => ~ac'.transfer /\ ~ac'.postexec
  BY <1>1, <1>2, <1>3 DEF Waiting, HartInv
<1>6. ac'.transfer => ac'.kind \in {"reg", "csr", "scr"}
  BY <1>2, <1>3 DEF HartInv
<1> DEFINE Shape(p) == \/ p.at \in Places /\ p.k = "none"
                       \/ p.at \in {"go", "restore"} /\ p.k \in {"pgmb", "reg", "csr", "scr"}
                       \/ p.at = "area" /\ p.k \in {"pgmb", "reg"}
                       \/ /\ p.at \in {"area1", "area2", "area3", "area4"}
                          /\ p.k \in {"csr", "scr"}
           Placed == /\ Shape(pc') /\ pc' = Pc(pc'.at, pc'.k)
                     /\ pc'.at \notin {"run", "enter", "park", "test"} => dmactive
                     /\ ac'.transfer => pc'.at \in {"park", "test", "go"}
                     /\ pc'.at = "go" => flag(pc.k)'
<1>7. Placed
  <2>1. CASE Writes(Acc, "command")
    <3>1. InRom' /\ pc'.k = "none" /\ pc' = Pc(pc'.at, pc'.k)  BY <1>2, <2>1, Waits
    <3> QED  BY <3>1 DEF InRom, Places
  <2>2. CASE ~Writes(Acc, "command") /\ ~h.moves
    <3>1. pc' = pc /\ Wr(h) = "none"  BY <2>2 DEF HartEdge, hartVars, Wr
    <3>2. pc.at = "go" => flag(pc.k)'
      <4> SUFFICES ASSUME pc.at = "go"  PROVE flag(pc.k)'
        OBVIOUS
      <4>1. pc.k \in {"pgmb", "reg", "csr", "scr"} /\ flag(pc.k)  BY DEF HartInv, Places
      <4>2. ac' = ac  BY <3>1, <4>1, FlagStays
      <4> QED  BY <3>1, <4>1, <4>2 DEF flag
    <3>3. /\ Shape(pc) /\ pc = Pc(pc.at, pc.k)
          /\ pc.at \notin {"run", "enter", "park", "test"} => dmactive
          /\ ac.transfer => pc.at \in {"park", "test", "go"}
      BY DEF HartInv
    <3> QED  BY <1>3, <2>2, <3>1, <3>2, <3>3
  <2>3. CASE ~Writes(Acc, "command") /\ h.moves
    <3> USE DEF HartInv, Places
    <3>0. HartStep(h.choice) /\ Wr(h) = HartWrite  BY <2>3 DEF HartEdge, Wr
    <3>1. CASE Run \/ Break(h.choice)
      BY <1>3, <2>3, <3>1 DEF Run, Break, Running, hartVars
    <3>2. CASE Enter \/ Park \/ Leave \/ Dret \/ Fault
      BY <1>3, <2>3, <3>2 DEF Enter, Park, Leave, Dret, Fault, Goto, Running
    <3>3. CASE Test
      <4>1. Wr(h) = "none"  BY <3>0, <3>3 DEF Test, HartWrite
      <4>2. CASE Goto(Pc("park", "none"))  BY <1>3, <2>3, <4>2 DEF Goto
      <4>3. CASE \E n \in 1 .. Len(Order) :
                   /\ flag(Order[n])
                   /\ Goto(IF Order[n] = "resume" THEN Pc("leave", "none")
                           ELSE Pc("go", Order[n]))
        <5>1. PICK k \in {"pgmb", "resume", "reg", "csr", "scr"} :
                /\ flag(k)
                /\ Goto(IF k = "resume" THEN Pc("leave", "none") ELSE Pc("go", k))
          BY <4>3 DEF Order
        <5>2. CASE k = "resume"
          <6>1. resumereq /\ dmactive /\ ~ac.transfer  BY <5>1, <5>2 DEF flag
          <6> QED  BY <1>3, <2>3, <5>1, <5>2, <6>1 DEF Goto
        <5>3. CASE k # "resume"
          <6>1. ac' = ac /\ dmactive  BY <4>1, <5>1, <5>3, FlagStays
          <6>2. pc' = Pc("go", k)  BY <5>1, <5>3 DEF Goto
          <6>3. flag(pc.k)'  BY <5>1, <5>3, <6>1, <6>2 DEF flag
          <6> QED  BY <5>3, <6>1, <6>2, <6>3
        <5> QED  BY <5>2, <5>3
      <4> QED  BY <3>3, <4>2, <4>3 DEF Test
    <3>4. CASE Go
      <4>1. Wr(h) = "transfer"  BY <3>0, <3>4 DEF Go, HartWrite
      <4> QED  BY <1>3, <2>3, <3>4, <4>1 DEF Go, Goto
    <3>5. CASE Restore
      BY <1>3, <2>3, <3>5 DEF Restore
    <3>6. CASE AreaReg \/ AreaPgmb(h.choice) \/ AreaSys1 \/ AreaSys2 \/ AreaSys3 \/ AreaSys4
      BY <1>3, <2>3, <3>6 DEF AreaReg, AreaPgmb, AreaSys1, AreaSys2, AreaSys3, AreaSys4, Goto
    <3> HIDE DEF HartInv, Places, Placed
    <3> QED  BY <3>0, <3>1, <3>2, <3>3, <3>4, <3>5, <3>6 DEF HartStep
  <2> QED  BY <2>1, <2>2, <2>3
<1>8. ac' = [kind |-> ac'.kind, reg |-> ac'.reg, write |-> ac'.write, transfer |-> ac'.transfer,
             postexec |-> ac'.postexec, valid_size |-> ac'.valid_size]
  BY <1>2, <1>3
<1>9. pc'.at \notin {"run", "enter", "park", "test"} => dmactive'  BY <1>1, <1>7
<1> QED  BY <1>4, <1>5, <1>6, <1>7, <1>8, <1>9 DEF HartInv

\* The hart acknowledges what comes first of a command.
LEMMA Acknowledged ==
  ASSUME HartInv, NEW k \in Work, flag(k), k # "resume",
         ac' = IF ac.transfer THEN [ac EXCEPT !.transfer = FALSE]
               ELSE [ac EXCEPT !.postexec = FALSE]
  PROVE  Pending(ac) = <<k>> \o Pending(ac')
<1> DEFINE X == IF ac.postexec THEN <<"pgmb">> ELSE <<>>
<1>1. CASE ac.transfer
  <2>1. ac.kind = k /\ ac.valid_size  BY <1>1 DEF flag, Work
  <2>2. ~ac'.transfer /\ (ac'.postexec <=> ac.postexec)  BY <1>1 DEF HartInv
  <2>3. Pending(ac) = <<k>> \o X  BY <1>1, <2>1 DEF Pending
  <2>4. Pending(ac') = <<>> \o X  BY <2>2 DEF Pending
  <2>5. <<>> \o X = X  OBVIOUS
  <2> QED  BY <2>3, <2>4, <2>5
<1>2. CASE ~ac.transfer
  <2>1. k = "pgmb" /\ ac.postexec  BY <1>2 DEF flag, Work
  <2>2. ~ac'.transfer /\ ~ac'.postexec  BY <1>2 DEF HartInv
  <2>3. Pending(ac) = <<>> \o <<k>>  BY <1>2, <2>1 DEF Pending
  <2>4. Pending(ac') = <<>> \o <<>>  BY <2>2 DEF Pending
  <2>5. <<>> \o <<k>> = <<k>> /\ <<>> \o <<>> = <<>> /\ <<k>> \o <<>> = <<k>>  OBVIOUS
  <2> QED  BY <2>3, <2>4, <2>5
<1> QED  BY <1>1, <1>2

LEMMA PendingType ==
  ASSUME NEW c, c.transfer => c.kind \in Work
  PROVE  Pending(c) \in Seq(Work)
<1>1. (IF c.transfer /\ c.valid_size THEN <<c.kind>> ELSE <<>>) \in Seq(Work)  OBVIOUS
<1>2. (IF c.postexec THEN <<"pgmb">> ELSE <<>>) \in Seq(Work)
  <2>1. "pgmb" \in Work  BY DEF Work
  <2> QED  BY <2>1
<1> QED  BY <1>1, <1>2, ConcatProperties DEF Pending

LEMMA PlanClock ==
  ASSUME HartInv, PlanInv, Fits(Acc), NEW h, Edge(h)
  PROVE  PlanInv'
<1> DEFINE w == Wr(h)
<1>1. /\ HartEdge(h) /\ ControlEdge(Acc) /\ CommandEdge(Acc, w)
      /\ plan' = (IF Writes(Acc, "command") THEN Pending(Acc.data) ELSE plan)
      /\ did' = (IF Writes(Acc, "command") THEN <<>>
                 ELSE IF w = "transfer" THEN Append(did, pc.k) ELSE did)
  BY DEF Edge, DmEdge, HistoryEdge, Pending
<1>2. CASE Writes(Acc, "command")
  <2>1. ac' = Acc.data /\ Acc.data.kind \in Work
    BY <1>1, <1>2, CommandStep DEF Fits, Writes, Work
  <2>2. Pending(ac') \in Seq(Work)  BY <2>1, PendingType
  <2>3. did' = <<>> /\ plan' = Pending(ac')  BY <1>1, <1>2, <2>1
  <2> QED  BY <2>2, <2>3 DEF PlanInv
<1>3. CASE ~Writes(Acc, "command") /\ w = "transfer"
  <2>1. pc.at = "go"  BY <1>3 DEF Wr, HartWrite
  <2>2. pc.k \in Work /\ flag(pc.k) /\ dmactive  BY <2>1 DEF HartInv, Places, Work
  <2>3. ac' = IF ac.transfer THEN [ac EXCEPT !.transfer = FALSE]
              ELSE [ac EXCEPT !.postexec = FALSE]
    BY <1>1, <1>3, <2>2 DEF CommandEdge, flag
  <2>4. Pending(ac) = <<pc.k>> \o Pending(ac')  BY <2>2, <2>3, Acknowledged DEF Work
  <2>5. Pending(ac') \in Seq(Work)
    <3>1. ac'.transfer => ac'.kind \in Work  BY <2>3 DEF HartInv, Work
    <3> QED  BY <3>1, PendingType
  <2>6. did' = Append(did, pc.k) /\ plan' = plan  BY <1>1, <1>3
  <2> HIDE DEF w
  <2>7. did \o (<<pc.k>> \o Pending(ac')) = Append(did, pc.k) \o Pending(ac')
    BY <2>2, <2>5, ConcatAssociative, AppendIsConcat DEF PlanInv
  <2>8. did' \in Seq(Work)  BY <2>2, <2>6 DEF PlanInv
  <2>9. plan = did \o (<<pc.k>> \o Pending(ac'))  BY <2>4 DEF PlanInv
  <2> QED  BY <2>6, <2>7, <2>8, <2>9, Zenon DEF PlanInv
<1>4. CASE ~Writes(Acc, "command") /\ w # "transfer"
  <2>1. Pending(ac') = Pending(ac)
    <3>1. CASE ac' = [ac EXCEPT !.transfer = FALSE] /\ ~ac.valid_size
      BY <3>1 DEF Pending, HartInv
    <3>2. CASE ac' = NoCommand /\ ~dmactive
      BY <3>2 DEF Pending, HartInv, NoCommand
    <3> QED  BY <1>1, <1>4, <3>1, <3>2, CommandStep
  <2>2. did' = did /\ plan' = plan  BY <1>1, <1>4
  <2> QED  BY <2>1, <2>2 DEF PlanInv
<1> QED  BY <1>2, <1>3, <1>4

-----------------------------------------------------------------------------
(* The values of the registers                                             *)


LEMMA EffectIs ==
  ASSUME NEW a, a.reg \in {"s0", "gpr"}, NEW s, NEW g, NEW y, NEW d
  PROVE  Effect(a, [s0 |-> s, gpr |-> g, sys |-> y, slot |-> d]) =
           [s0   |-> IF a.write /\ a.reg = "s0" THEN d ELSE s,
            gpr  |-> IF a.write /\ a.reg = "gpr" THEN d ELSE g, sys |-> y,
            slot |-> IF a.write THEN d ELSE IF a.reg = "s0" THEN s ELSE g]
  BY DEF Effect

\* No command is given: nothing but the acknowledgement takes it away.
LEMMA CommandStays ==
  ASSUME HartInv, Fits(Acc), NEW w, w # "transfer", CommandEdge(Acc, w), ~Writes(Acc, "command")
  PROVE  /\ ac'.transfer /\ ac'.valid_size <=> ac.transfer /\ ac.valid_size
         /\ Doing => ac' = ac
<1>1. ac.transfer /\ ac.valid_size => dmactive  BY DEF HartInv
<1>2. pc.at \in {"restore", "area"} => dmactive /\ ~ac.transfer  BY DEF HartInv
<1>3. CASE ac' = ac  BY <1>3
<1>4. CASE ac' = [ac EXCEPT !.transfer = FALSE] /\ ac.transfer /\ ~ac.valid_size
  BY <1>2, <1>4 DEF HartInv, Doing
<1>5. CASE ac' = NoCommand /\ ~dmactive  BY <1>1, <1>2, <1>5 DEF NoCommand, Doing
<1> QED  BY <1>3, <1>4, <1>5, CommandStep

\* An edge at which the host gives nothing and the hart stands still or waits.
LEMMA ValueStays ==
  ASSUME HartInv, ValueInv, Fits(Acc), NEW w, w # "transfer", CommandEdge(Acc, w),
         ~Writes(Acc, "command"),
         Cur' = Cur, want' = want, judged' <=> judged, judged => pc'.k \notin {"csr", "scr"},
         pc'.at \in {"restore", "area"} /\ pc'.k = "reg" <=>
           pc.at \in {"restore", "area"} /\ pc.k = "reg",
         pc' = Pc("area", "pgmb") \/ pc'.at = "fault" => x8' = dscratch'
  PROVE  ValueInv'
<1>1. Doing' <=> Doing  BY CommandStays DEF Doing
<1>2. Doing => ac' = ac  BY CommandStays
<1>3. judged' => pc'.k \notin {"csr", "scr"}  OBVIOUS
<1>4. judged' /\ Doing' => ac'.kind = "reg" /\ ac'.reg \in {"s0", "gpr"}
  BY <1>1, <1>2 DEF ValueInv
<1>5. judged' => want' = IF Doing' THEN Effect(ac, Cur)' ELSE Cur'
  BY <1>1, <1>2 DEF ValueInv
<1> QED  BY <1>3, <1>4, <1>5 DEF ValueInv

LEMMA ValueClock ==
  ASSUME HartInv, HartInv', ValueInv, Fits(Acc), NEW h, Edge(h)
  PROVE  ValueInv'
<1> DEFINE w == Wr(h)
<1>1. /\ HartEdge(h) /\ ControlEdge(Acc) /\ CommandEdge(Acc, w)
      /\ slot' = IF w = "ram" /\ dmactive THEN StoreData
                 ELSE IF Writes(Acc, "data") THEN Acc.data ELSE slot
      /\ want' = IF Entering THEN [s0 |-> x8', gpr |-> gpr', sys |-> sys', slot |-> slot]
                 ELSE IF Writes(Acc, "command") THEN Meaning(Acc.data)
                 ELSE IF Writes(Acc, "data") THEN [want EXCEPT !.slot = Acc.data] ELSE want
      /\ judged' = (Entering \/ (judged /\ (Writes(Acc, "command") =>
                                             Acc.data.kind \notin {"csr", "scr"})))
  BY DEF Edge, DmEdge, HistoryEdge, MemEdge
<1>2. CASE Writes(Acc, "command") \/ Writes(Acc, "data")
  <2>1. Waiting /\ judged /\ dmactive  BY <1>2 DEF Fits, Writes, Waiting
  <2>2. /\ InRom' /\ pc'.k = "none" /\ UNCHANGED <<x8, gpr, sys, dscratch>>
        /\ w \in {"halted", "none"} /\ ~Entering
    BY <1>1, <2>1, Waits
  <2>3. ~Doing /\ want = Cur  BY <2>1 DEF ValueInv, Doing, Waiting, InRom
  <2>4. want = [s0 |-> dscratch, gpr |-> gpr, sys |-> sys, slot |-> slot]
    BY <2>1, <2>3 DEF Cur, Waiting, InRom
  <2>5. Cur' = [s0 |-> dscratch, gpr |-> gpr, sys |-> sys, slot |-> slot']
    BY <2>2 DEF Cur, InRom
  <2>6. ~(pc' = Pc("area", "pgmb") \/ pc'.at = "fault") /\ pc'.at \notin {"restore", "area"}
    BY <2>2 DEF InRom, Pc
  <2>7. CASE Writes(Acc, "command")
    <3>1. ac' = Acc.data /\ slot' = slot /\ want' = Meaning(ac')
          /\ (judged' <=> ac'.kind \notin {"csr", "scr"})
      BY <1>1, <2>1, <2>2, <2>7, CommandStep DEF Writes
    <3>2. judged' => ac'.kind = "reg" /\ ac'.reg \in {"s0", "gpr"}
      BY <2>7, <3>1 DEF Fits, Writes
    <3>3. Doing' <=> ac'.transfer /\ ac'.valid_size  BY <2>6 DEF Doing
    <3>4. judged' => want' = IF Doing' THEN Effect(ac', want) ELSE want
      BY <3>1, <3>2, <3>3 DEF Meaning, Effect
    <3> QED  BY <2>2, <2>4, <2>5, <2>6, <3>1, <3>2, <3>4 DEF ValueInv
  <2>8. CASE Writes(Acc, "data") /\ ~Writes(Acc, "command")
    <3>1. slot' = Acc.data /\ want' = [want EXCEPT !.slot = Acc.data]  BY <1>1, <2>2, <2>8
    <3>2. want' = Cur'  BY <2>4, <2>5, <3>1
    <3>3. ~Doing'
      <4>1. ~(ac'.transfer /\ ac'.valid_size)
        BY <1>1, <2>1, <2>2, <2>8, CommandStays DEF Waiting
      <4> QED  BY <2>6, <4>1 DEF Doing
    <3> QED  BY <2>2, <2>6, <3>2, <3>3 DEF ValueInv
  <2> QED  BY <1>2, <2>7, <2>8
<1>3. CASE ~Writes(Acc, "command") /\ ~Writes(Acc, "data") /\ ~h.moves
  <2>1. UNCHANGED hartVars /\ w = "none"  BY <1>1, <1>3 DEF HartEdge, Wr
  <2>2. UNCHANGED <<pc, x8, gpr, sys, dscratch>>  BY <2>1 DEF hartVars
  <2>3. slot' = slot /\ want' = want /\ (judged' <=> judged)
    BY <1>1, <1>3, <2>1, <2>2 DEF Entering
  <2> QED  BY <1>1, <1>3, <2>1, <2>2, <2>3, ValueStays DEF Cur, ValueInv
<1>4. CASE ~Writes(Acc, "command") /\ ~Writes(Acc, "data") /\ h.moves
  <2>1. HartStep(h.choice) /\ w = HartWrite  BY <1>1, <1>4 DEF HartEdge, Wr
  <2>2. slot' = (IF w = "ram" /\ dmactive THEN StoreData ELSE slot)
        /\ (~Entering => want' = want /\ (judged' <=> judged))
    BY <1>1, <1>4
  <2> HIDE DEF w
  <2> USE DEF HartInv, Places, Pc, Running
  <2>3. CASE Run \/ Park \/ Test \/ Dret
    <3>1. UNCHANGED <<x8, gpr, sys, dscratch>>
      BY <2>3 DEF Run, Park, Test, Dret, Goto, hartVars
    <3>2. pc' = pc \/ (pc.at \in {"park", "test"} /\ pc'.at \in {"park", "test", "go", "leave"})
          \/ (pc.at = "dret" /\ pc' = Running)
      <4>1. CASE Run  BY <4>1 DEF Run, hartVars
      <4>2. CASE Park \/ Dret  BY <4>2 DEF Park, Dret, Goto
      <4>3. CASE Test  BY <4>3 DEF Test, Goto, Order
      <4> QED  BY <2>3, <4>1, <4>2, <4>3
    <3>3. w # "transfer" /\ w # "ram" /\ ~Entering
      BY <2>1, <2>3, <3>2 DEF Run, Park, Test, Dret, HartWrite, Entering
    <3>4. pc'.at \in {"go", "leave"} => pc.at = "test" /\ (pc'.k = "none" \/ flag(pc'.k))
      <4>1. CASE Run  BY <4>1 DEF Run, hartVars
      <4>2. CASE Park \/ Dret  BY <4>2 DEF Park, Dret, Goto
      <4>3. CASE Test  BY <4>3 DEF Test, Goto, Order
      <4> QED  BY <2>3, <4>1, <4>2, <4>3
    <3>5. judged => pc'.k \notin {"csr", "scr"}
      <4>1. ASSUME judged, flag(pc'.k)  PROVE pc'.k \notin {"csr", "scr"}
        BY <4>1 DEF flag, ValueInv, Doing
      <4> QED  BY <3>2, <3>4, <4>1 DEF ValueInv
    <3>6. Cur' = Cur /\ slot' = slot  BY <2>2, <3>1, <3>2, <3>3 DEF Cur
    <3>7. ~(pc' = Pc("area", "pgmb") \/ pc'.at = "fault")
          /\ ~(pc'.at \in {"restore", "area"} /\ pc'.k = "reg")
          /\ ~(pc.at \in {"restore", "area"} /\ pc.k = "reg")
      BY <2>3, <3>2 DEF Run, Park, Test, Dret
    <3>8. want' = want /\ (judged' <=> judged)  BY <2>2, <3>3
    <3> QED  BY <1>1, <1>4, <3>3, <3>5, <3>6, <3>7, <3>8, ValueStays
  <2>4. CASE Break(h.choice)
    <3>1. Entering /\ pc'.at = "enter" /\ w = "none"
      BY <2>1, <2>4 DEF Break, Entering, HartWrite
    <3>2. want' = Cur'  BY <1>1, <2>2, <3>1 DEF Cur
    <3>3. ~Doing'  BY <3>1 DEF Doing
    <3> QED  BY <2>4, <3>1, <3>2, <3>3 DEF ValueInv, Break
  <2>5. CASE Enter
    <3>1. w = "none" /\ ~Entering /\ slot' = slot
      BY <2>1, <2>2, <2>5 DEF Enter, HartWrite, Entering
    <3>2. Cur' = Cur  BY <2>5, <3>1 DEF Enter, Cur
    <3> QED  BY <1>1, <1>4, <2>2, <2>5, <3>1, <3>2, ValueStays DEF ValueInv, Enter
  <2>6. CASE Go
    <3>1. w = "transfer" /\ ~Entering /\ slot' = slot
      BY <2>1, <2>2, <2>6 DEF Go, HartWrite, Entering
    <3>2. Cur' = Cur  BY <2>6, <3>1 DEF Go, Goto, Cur
    <3>3. pc' = Pc("restore", pc.k) /\ pc.at = "go" /\ flag(pc.k) /\ dmactive
      BY <2>6 DEF Go, Goto
    <3>4. ac' = IF ac.transfer THEN [ac EXCEPT !.transfer = FALSE]
                ELSE [ac EXCEPT !.postexec = FALSE]
      BY <1>1, <1>4, <3>1, <3>3 DEF CommandEdge, flag
    <3>5. judged => (Doing <=> pc.k = "reg")  BY <3>3 DEF flag, Doing, ValueInv
    <3>6. Doing' <=> pc.k = "reg"  BY <3>3, <3>4 DEF Doing
    <3>7. ac'.kind = ac.kind /\ ac'.reg = ac.reg /\ (ac'.write <=> ac.write)  BY <3>4
    <3>8. judged /\ Doing => Effect(ac', Cur) = Effect(ac, Cur)
      BY <3>7 DEF Effect
    <3>9. judged' => judged /\ pc'.k \notin {"csr", "scr"}  BY <2>2, <3>1, <3>3 DEF ValueInv
    <3>10. judged' /\ Doing' => ac'.kind = "reg" /\ ac'.reg \in {"s0", "gpr"}
      BY <3>5, <3>6, <3>7, <3>9 DEF ValueInv
    <3>11. judged' => want' = IF Doing' THEN Effect(ac', Cur') ELSE Cur'
      BY <2>2, <3>1, <3>2, <3>5, <3>6, <3>8, <3>9 DEF ValueInv
    <3> QED  BY <3>3, <3>9, <3>10, <3>11 DEF ValueInv
  <2>7. CASE Restore
    <3>1. w = "none" /\ ~Entering /\ slot' = slot
      BY <2>1, <2>2, <2>7 DEF Restore, HartWrite, Entering
    <3>2. Cur' = Cur  BY <2>7, <3>1 DEF Restore, Cur
    <3> QED  BY <1>1, <1>4, <2>2, <2>7, <3>1, <3>2, ValueStays DEF ValueInv, Restore
  <2>8. CASE Leave \/ Fault
    <3>1. w \notin {"transfer", "ram"} /\ ~Entering /\ slot' = slot
      BY <2>1, <2>2, <2>8 DEF Leave, Fault, HartWrite, Entering
    <3>2. Cur' = Cur  BY <2>8, <3>1 DEF Leave, Fault, Cur, ValueInv
    <3> QED  BY <1>1, <1>4, <2>2, <2>8, <3>1, <3>2, ValueStays DEF ValueInv, Leave, Fault
  <2>9. CASE AreaReg
    <3>1. w = (IF ~ac.write THEN "ram" ELSE "none") /\ ~Entering /\ dmactive
      BY <2>1, <2>9 DEF AreaReg, HartWrite, Entering
    <3>2. slot' = IF ~ac.write THEN (IF ac.reg = "gpr" THEN gpr ELSE x8) ELSE slot
      BY <2>2, <2>9, <3>1 DEF AreaReg, StoreData
    <3>3. Doing /\ ~Doing'  BY <2>9 DEF AreaReg, Doing
    <3>4. judged => want = Effect(ac, Cur) /\ ac.reg \in {"s0", "gpr"}  BY <3>3 DEF ValueInv
    <3>5. ac.reg \in {"s0", "gpr"} => Effect(ac, Cur) = Cur'
      <4>1. Cur = [s0 |-> x8, gpr |-> gpr, sys |-> sys, slot |-> slot]
        BY <2>9 DEF AreaReg, Cur
      <4>2. Cur' = [s0 |-> x8', gpr |-> gpr', sys |-> sys, slot |-> slot']
        BY <2>9 DEF AreaReg, Cur
      <4> QED  BY <2>9, <3>2, <4>1, <4>2, EffectIs DEF AreaReg
    <3> QED  BY <2>2, <2>9, <3>1, <3>3, <3>4, <3>5 DEF ValueInv, AreaReg
  <2>10. CASE AreaPgmb(h.choice)
    <3>1. w = "none" /\ ~Entering /\ slot' = slot
      BY <2>1, <2>2, <2>10 DEF AreaPgmb, HartWrite, Entering
    <3>2. Cur' = Cur  BY <2>10, <3>1 DEF AreaPgmb, Goto, Cur
    <3>3. x8' = dscratch'  BY <2>10 DEF AreaPgmb, Goto, ValueInv
    <3> QED
      BY <1>1, <1>4, <2>2, <2>10, <3>1, <3>2, <3>3, ValueStays DEF ValueInv, AreaPgmb, Goto
  <2>11. CASE AreaSys1 \/ AreaSys2 \/ AreaSys3 \/ AreaSys4
    <3>1. pc.k \in {"csr", "scr"} /\ ~Entering
      BY <2>11 DEF AreaSys1, AreaSys2, AreaSys3, AreaSys4, Entering
    <3>2. ~judged'  BY <2>2, <3>1 DEF ValueInv
    <3> QED  BY <2>11, <3>2 DEF ValueInv, AreaSys1, AreaSys2, AreaSys3, AreaSys4, Goto
  <2> HIDE DEF HartInv, Places, Pc, Running
  <2> QED  BY <2>1, <2>3, <2>4, <2>5, <2>6, <2>7, <2>8, <2>9, <2>10, <2>11 DEF HartStep
<1> QED  BY <1>2, <1>3, <1>4

-----------------------------------------------------------------------------
(* System bus access                                                       *)

LEMMA SbClock ==
  ASSUME SbInv, Fits(Acc), NEW gnt, NEW rvalid, SbEdge(Acc, gnt, rvalid),
         gnt => dbg_req
  PROVE  SbInv'
<1> USE MemSizeAssumption
<1> DEFINE at == sb_addr % MemSize
           inc == IF autoincrement THEN 1 ELSE 0
           to(x) == Acc.wr /\ Acc.addr = x
<1>1. SbTypes /\ at \in Addrs  BY DEF SbInv, SbTypes, Addrs
<1>2. /\ to("sbaddr") \/ Acc.addr = "sbdata" \/ to("sbcs") => sb_state = "IDLE"
      /\ to("sbaddr") => Acc.data = 0
  BY DEF Fits
<1>3. /\ sb_addr' = IF SbIncr(rvalid) THEN sb_addr + 1
                    ELSE IF to("sbaddr") THEN Acc.data ELSE sb_addr
      /\ sb_data_bus' = IF to("sbdata") THEN Acc.data ELSE sb_data_bus
      /\ ~to("sbcs") => autoincrement' = autoincrement
      /\ to("sbcs") => autoincrement' = Acc.data.autoincrement
  BY DEF SbEdge, SbRegisters, SbWrite
<1>4. mem' = IF gnt /\ sb_state = "WRITE" THEN [mem EXCEPT ![at] = sb_data_bus] ELSE mem
  BY DEF SbEdge, Memory
<1>5. sbwant' = SbMeaning(Acc)  BY DEF SbEdge
<1>6. SbTypes'
  <2>1. sb_addr' \in Nat  BY <1>1, <1>2, <1>3 DEF SbTypes
  <2>2. DOMAIN mem' = Addrs /\ mem' = [a \in Addrs |-> mem'[a]]  BY <1>1, <1>4 DEF SbTypes
  <2>3. sbwant' = [mem |-> sbwant'.mem, addr |-> sbwant'.addr, rdata |-> sbwant'.rdata,
                   read |-> sbwant'.read]
    BY <1>1, <1>5 DEF SbTypes, SbMeaning
  <2> QED  BY <2>1, <2>2, <2>3 DEF SbTypes
<1>7. ~(to("sbaddr") \/ Acc.addr = "sbdata" \/ to("sbcs")) => sbwant' = sbwant
  BY <1>5 DEF SbMeaning, SbWrite, ReadStart
<1>8. CASE sb_state = "IDLE"
  <2>1. sbwant.mem = mem /\ sbwant.addr = at /\ sbwant.rdata = sb_rdata
    BY <1>8 DEF SbInv, MemoryAsMeant, SbReading, SbWriting
  <2>2. /\ sb_state' = (IF to("sbdata") THEN "WRITE" ELSE IF ReadStart(Acc) THEN "READ" ELSE "IDLE")
        /\ sb_rdata' = sb_rdata /\ mem' = mem
        /\ sb_addr' = IF to("sbaddr") THEN 0 ELSE sb_addr
    BY <1>2, <1>3, <1>4, <1>8 DEF SbEdge, SbMachine, SbWrite, SbIncr
  <2>3. CASE to("sbdata")
    <3>1. sb_state' = "WRITE" /\ sb_addr' = sb_addr /\ sb_data_bus' = Acc.data
          /\ autoincrement' = autoincrement
      BY <1>3, <2>2, <2>3
    <3>2. sbwant' = [sbwant EXCEPT !.mem[sbwant.addr] = Acc.data,
                       !.addr = (sbwant.addr + (IF autoincrement THEN 1 ELSE 0)) % MemSize]
      BY <1>5, <2>3 DEF SbMeaning, SbWrite, ReadStart
    <3>3. sbwant'.addr = (at + inc) % MemSize /\ sbwant'.rdata = sb_rdata
          /\ sbwant'.mem = [mem EXCEPT ![at] = Acc.data]
      BY <1>1, <2>1, <3>2 DEF SbTypes
    <3>4. (at + inc) % MemSize = (sb_addr + inc) % MemSize  BY <1>1, AddRemainder DEF SbTypes
    <3>5. SbWriting'  BY <2>2, <3>1, <3>3, <3>4 DEF SbWriting, NextAddr
    <3> QED  BY <1>6, <3>5 DEF SbInv
  <2>4. CASE ~to("sbdata") /\ ReadStart(Acc)
    <3>1. sb_state' = "READ" /\ sb_addr' = sb_addr
      BY <2>2, <2>4 DEF ReadStart, SbWrite
    <3>2. sbwant'.mem = sbwant.mem /\ sbwant'.rdata = sbwant.mem[sbwant.addr]
          /\ sbwant'.addr = (sbwant.addr + (IF autoincrement' THEN 1 ELSE 0)) % MemSize
      <4>1. CASE to("sbcs") /\ Acc.data.singleread
        <5>1. sbwant' = [sbwant EXCEPT !.read = IF Acc.wr THEN @ ELSE sbwant.rdata,
                           !.rdata = sbwant.mem[sbwant.addr],
                           !.addr = (sbwant.addr + (IF (IF Acc.wr THEN Acc.data.autoincrement
                                                        ELSE autoincrement) THEN 1 ELSE 0))
                                      % MemSize]
          BY <1>5, <4>1 DEF SbMeaning, SbWrite, ReadStart
        <5> QED  BY <1>1, <1>3, <4>1, <5>1 DEF SbTypes
      <4>2. CASE ~Acc.wr /\ Acc.addr = "sbdata" /\ autoread
        <5>1. sbwant' = [sbwant EXCEPT !.read = IF Acc.wr THEN @ ELSE sbwant.rdata,
                           !.rdata = sbwant.mem[sbwant.addr],
                           !.addr = (sbwant.addr + (IF (IF Acc.wr THEN Acc.data.autoincrement
                                                        ELSE autoincrement) THEN 1 ELSE 0))
                                      % MemSize]
          BY <1>5, <4>2 DEF SbMeaning, SbWrite, ReadStart
        <5> QED  BY <1>1, <1>3, <4>2, <5>1 DEF SbTypes
      <4> QED  BY <2>4, <4>1, <4>2 DEF ReadStart, SbWrite
    <3>3. (at + (IF autoincrement' THEN 1 ELSE 0)) % MemSize
            = (sb_addr + (IF autoincrement' THEN 1 ELSE 0)) % MemSize
      BY <1>1, AddRemainder DEF SbTypes
    <3>4. SbReading'  BY <2>1, <2>2, <3>1, <3>2, <3>3 DEF SbReading, NextAddr, Word
    <3> QED  BY <1>6, <3>4 DEF SbInv
  <2>5. CASE ~to("sbdata") /\ ~ReadStart(Acc)
    <3>1. sb_state' = "IDLE"  BY <2>2, <2>5
    <3>2. CASE to("sbaddr")
      <4>1. sbwant'.mem = sbwant.mem /\ sbwant'.rdata = sbwant.rdata /\ sbwant'.addr = 0
        BY <1>1, <1>2, <1>5, <3>2 DEF SbMeaning, SbWrite, ReadStart, SbTypes
      <4>2. 0 % MemSize = 0  OBVIOUS
      <4>3. MemoryAsMeant'  BY <2>1, <2>2, <3>2, <4>1, <4>2 DEF MemoryAsMeant
      <4> QED  BY <1>6, <3>1, <4>3 DEF SbInv
    <3>3. CASE ~to("sbaddr")
      <4>1. sbwant'.mem = sbwant.mem /\ sbwant'.rdata = sbwant.rdata /\ sbwant'.addr = sbwant.addr
        BY <1>1, <1>5, <2>5, <3>3 DEF SbMeaning, SbWrite, ReadStart, SbTypes
      <4>2. MemoryAsMeant'  BY <2>1, <2>2, <3>3, <4>1 DEF MemoryAsMeant
      <4> QED  BY <1>6, <3>1, <4>2 DEF SbInv
    <3> QED  BY <3>2, <3>3
  <2> QED  BY <2>3, <2>4, <2>5
<1>9. CASE sb_state = "READ"
  <2>1. SbReading  BY <1>9 DEF SbInv, SbWriting
  <2>2. /\ sb_state' = (IF gnt THEN "READ_RESP" ELSE "READ")
        /\ sbwant' = sbwant /\ mem' = mem /\ sb_addr' = sb_addr /\ autoincrement' = autoincrement
        /\ (gnt => sbresp' = Word)
    BY <1>2, <1>3, <1>4, <1>7, <1>9 DEF SbEdge, SbMachine, Memory, Word, SbIncr
  <2>3. SbReading'  BY <2>1, <2>2 DEF SbReading, Word, NextAddr
  <2> QED  BY <1>6, <2>3 DEF SbInv
<1>10. CASE sb_state = "READ_RESP"
  <2>1. SbReading /\ ~gnt  BY <1>10 DEF SbInv, SbWriting, dbg_req
  <2>2. /\ sb_state' = (IF rvalid THEN "IDLE" ELSE "READ_RESP")
        /\ sb_rdata' = (IF rvalid THEN sbresp ELSE sb_rdata)
        /\ sbwant' = sbwant /\ mem' = mem /\ autoincrement' = autoincrement
        /\ sb_addr' = (IF rvalid /\ autoincrement THEN sb_addr + 1 ELSE sb_addr)
        /\ (~rvalid => sbresp' = sbresp)
    BY <1>2, <1>3, <1>4, <1>7, <1>10, <2>1 DEF SbEdge, SbMachine, Memory, SbIncr
  <2>3. CASE rvalid
    <3>1. sb_addr' % MemSize = NextAddr  BY <1>1, <2>2, <2>3 DEF NextAddr, SbTypes
    <3>2. MemoryAsMeant'  BY <1>10, <2>1, <2>2, <2>3, <3>1 DEF MemoryAsMeant, SbReading
    <3> QED  BY <1>6, <2>2, <2>3, <3>2 DEF SbInv
  <2>4. CASE ~rvalid
    <3>1. SbReading'  BY <1>10, <2>1, <2>2, <2>4 DEF SbReading, Word, NextAddr
    <3> QED  BY <1>6, <3>1 DEF SbInv
  <2> QED  BY <2>3, <2>4
<1>11. CASE sb_state = "WRITE"
  <2>1. SbWriting  BY <1>11 DEF SbInv, SbReading
  <2>2. /\ sb_state' = (IF gnt THEN "WRITE_RESP" ELSE "WRITE") /\ sb_rdata' = sb_rdata
        /\ sbwant' = sbwant /\ sb_addr' = sb_addr /\ autoincrement' = autoincrement
        /\ mem' = (IF gnt THEN [mem EXCEPT ![at] = sb_data_bus] ELSE mem)
        /\ sb_data_bus' = sb_data_bus
    BY <1>2, <1>3, <1>4, <1>7, <1>11 DEF SbEdge, SbMachine, SbIncr
  <2>3. SbWriting'  BY <1>11, <2>1, <2>2 DEF SbWriting, NextAddr
  <2> QED  BY <1>6, <2>3 DEF SbInv
<1>12. CASE sb_state = "WRITE_RESP"
  <2>1. SbWriting /\ ~gnt  BY <1>12 DEF SbInv, SbReading, dbg_req
  <2>2. /\ sb_state' = (IF rvalid THEN "IDLE" ELSE "WRITE_RESP") /\ sb_rdata' = sb_rdata
        /\ sbwant' = sbwant /\ mem' = mem /\ autoincrement' = autoincrement
        /\ sb_addr' = (IF rvalid /\ autoincrement THEN sb_addr + 1 ELSE sb_addr)
    BY <1>2, <1>3, <1>4, <1>7, <1>12, <2>1 DEF SbEdge, SbMachine, SbIncr
  <2>3. CASE rvalid
    <3>1. sb_addr' % MemSize = NextAddr  BY <1>1, <2>2, <2>3 DEF NextAddr, SbTypes
    <3>2. MemoryAsMeant'  BY <1>12, <2>1, <2>2, <2>3, <3>1 DEF MemoryAsMeant, SbWriting
    <3> QED  BY <1>6, <2>2, <2>3, <3>2 DEF SbInv
  <2>4. CASE ~rvalid
    <3>1. SbWriting'  BY <1>12, <2>1, <2>2, <2>4 DEF SbWriting, NextAddr
    <3> QED  BY <1>6, <3>1 DEF SbInv
  <2> QED  BY <2>3, <2>4
<1> QED  BY <1>8, <1>9, <1>10, <1>11, <1>12 DEF SbInv, SbReading, SbWriting

-----------------------------------------------------------------------------
(* The whole                                                               *)

\* A waiting hart goes on waiting, and the host's beliefs about it stand.
LEMMA StillWaits ==
  ASSUME HartInv, Fits(Acc), NEW h, Edge(h), Waiting,
         Acc.addr # "dmcontrol", ~Writes(Acc, "command"), ~Writes(Acc, "data")
  PROVE  Waiting' /\ (judged' <=> judged) /\ want' = want /\ slot' = slot
<1>1. /\ HartEdge(h) /\ ControlEdge(Acc) /\ CommandEdge(Acc, Wr(h))
      /\ MemEdge(Acc, Wr(h)) /\ HistoryEdge(Acc, Entering, Wr(h))
  BY DEF Edge, DmEdge
<1>2. InRom' /\ Wr(h) \in {"halted", "none"} /\ ~Entering  BY <1>1, Waits
<1>3. slot' = slot  BY <1>1, <1>2 DEF MemEdge
<1>4. want' = want /\ (judged' <=> judged)  BY <1>1, <1>2 DEF HistoryEdge
<1>5. dmactive' /\ ~resumereq'  BY <1>1, ControlStep DEF Waiting
<1>6. ac' = ac  BY <1>1, <1>2, CommandStep DEF Waiting
<1> QED  BY <1>2, <1>3, <1>4, <1>5, <1>6 DEF Waiting

LEMMA IdleStays ==
  ASSUME sb_state = "IDLE", Acc = Nop, NEW gnt, NEW rvalid, SbEdge(Acc, gnt, rvalid)
  PROVE  sb_state' = "IDLE" /\ sb_rdata' = sb_rdata
  BY DEF SbEdge, SbMachine, SbWrite, ReadStart, Nop, Request

LEMMA FitsClock ==
  ASSUME SlowTck, IInv, NEW h, Clock(h)
  PROVE  FitsInv'
<1> USE DEF IInv
<1>1. /\ UNCHANGED <<jtag_state, dr_shift_reg>>
      /\ penable => ~Scanned /\ ~asked'.owed
      /\ ~penable => asked' = asked
  BY LinkClock DEF Scanned, Answered
<1>2. Edge(h) /\ SbEdge(Acc, h.gnt, h.rvalid)
  BY DEF Clock, Edge, Acc, Setup, Wr, HartEdge, Entering
<1>3. CASE penable  BY <1>1, <1>3 DEF FitsInv, Scanned
<1>4. CASE ~penable
  <2>1. Acc = Nop  BY <1>4 DEF Acc
  <2>2. Waiting => Waiting' /\ (judged' <=> judged)
    BY <1>2, <2>1, AccFits, StillWaits DEF Nop, Request, Writes
  <2>3. sb_state = "IDLE" => sb_state' = "IDLE"  BY <1>2, <2>1, IdleStays
  <2>4. Scanned' => Fits(dr_shift_reg)'
    BY <1>1, <2>2, <2>3 DEF FitsInv, Fits, Scanned
  <2>5. asked.owed' => Fits(asked.req)'
    BY <1>1, <1>4, <2>2, <2>3 DEF FitsInv, Fits
  <2> QED  BY <2>4, <2>5 DEF FitsInv
<1> QED  BY <1>3, <1>4

LEMMA ReadClock ==
  ASSUME SlowTck, IInv, NEW h, Clock(h)
  PROVE  ReadInv'
<1> USE DEF IInv
<1>1. /\ UNCHANGED <<jtag_state, dr_shift_reg>>
      /\ penable => /\ asked.owed /\ preq = asked.req /\ jtag_state # "DRSHIFT"
                    /\ asked' = Answered /\ rdata' = dmrdata
      /\ ~penable => asked' = asked /\ rdata' = rdata
      /\ penable' => psel /\ ~penable /\ asked.owed /\ preq = asked.req
  BY LinkClock
<1>2. Edge(h) /\ SbEdge(Acc, h.gnt, h.rvalid) /\ ReadEdge(Setup, sb_rdata)
  BY DEF Clock, Edge, Acc, Setup, Wr, HartEdge, Entering, DmEdge
<1>3. Fits(Acc)  BY AccFits
<1>4. /\ Reading("data")' => Reading("data")
      /\ Reading("sbdata")' => Reading("sbdata")
  BY <1>1 DEF Reading, Answered, Nop, Request
<1>5. ~penable => Acc = Nop  BY DEF Acc
<1>6. penable => Acc = asked.req  BY <1>1 DEF Acc
<1>7. Reading("data") => /\ Waiting /\ Waiting' /\ (judged' <=> judged)
                         /\ want' = want /\ slot' = slot
  <2> SUFFICES ASSUME Reading("data")
               PROVE  /\ Waiting /\ Waiting' /\ (judged' <=> judged)
                      /\ want' = want /\ slot' = slot
    OBVIOUS
  <2>1. Waiting  BY DEF ReadInv
  <2>2. Acc.addr # "dmcontrol" /\ ~Acc.wr  BY <1>5, <1>6 DEF Reading, Nop, Request
  <2> QED  BY <1>2, <1>3, <2>1, <2>2, StillWaits DEF Writes
<1>8. DataRead' => DataRead /\ want.slot = slot
  <2>1. DataRead' => DataRead  BY <1>4, <1>7 DEF DataRead
  <2>2. DataRead => want.slot = slot
    BY <1>7 DEF DataRead, ValueInv, Waiting, Doing, InRom, Cur
  <2> QED  BY <2>1, <2>2
<1>9. asked.owed /\ Reading("sbdata") => sb_state = "IDLE" /\ sbwant.rdata = sb_rdata
  BY DEF FitsInv, Fits, Reading, SbInv, SbReading, SbWriting, MemoryAsMeant
<1>10. ~penable => sbwant' = sbwant
  BY <1>2, <1>5 DEF SbEdge, SbMeaning, SbWrite, ReadStart, Nop, Request
<1>11. penable' => /\ DataRead' => dmrdata' = want'.slot
                   /\ Reading("sbdata")' => dmrdata' = sb_rdata'
  <2> SUFFICES ASSUME penable'  PROVE <1>11!2
    OBVIOUS
  <2>1. Setup = asked.req /\ Acc = Nop /\ asked.owed  BY <1>1, <1>5 DEF Setup
  <2>2. DataRead' => dmrdata' = slot
    BY <1>2, <1>8, <2>1 DEF ReadEdge, DataRead, Reading
  <2>3. Reading("sbdata")' => dmrdata' = sb_rdata
    BY <1>2, <1>4, <2>1 DEF ReadEdge, Reading
  <2>4. Reading("sbdata")' => sb_rdata' = sb_rdata  BY <1>2, <1>4, <1>9, <2>1, IdleStays
  <2>5. DataRead' => want' = want  BY <1>7, <1>8 DEF DataRead
  <2> QED  BY <1>8, <2>2, <2>3, <2>4, <2>5
<1>12. ~asked.owed' => /\ DataRead' => rdata' = want'.slot
                       /\ Reading("sbdata")' => rdata' = sbwant'.read
  <2>1. CASE penable
    <3>1. DataRead' => rdata' = want'.slot
      BY <1>1, <1>7, <1>8, <2>1 DEF ReadInv, DataRead
    <3>2. Reading("sbdata")' => rdata' = sbwant.rdata
      BY <1>1, <1>4, <1>9, <2>1 DEF ReadInv
    <3>3. Reading("sbdata")' => sbwant'.read = sbwant.rdata
      <4>1. Reading("sbdata")' => Acc.addr = "sbdata" /\ ~Acc.wr
        BY <1>4, <1>6, <2>1 DEF Reading
      <4> QED  BY <1>2, <4>1 DEF SbEdge, SbMeaning, SbWrite, ReadStart, SbInv, SbTypes
    <3> QED  BY <3>1, <3>2, <3>3
  <2>2. CASE ~penable
    BY <1>1, <1>4, <1>7, <1>8, <1>10, <2>2 DEF ReadInv, DataRead
  <2> QED  BY <2>1, <2>2
<1>13. ReadsReturn'
  <2> SUFFICES ASSUME dr_shift_reg.is = "return"
               PROVE  ReadsReturn'
    BY <1>1 DEF ReadsReturn
  <2>1. ~penable  BY <1>1 DEF LinkInv
  <2>2. asked' = asked /\ sbwant' = sbwant  BY <1>1, <1>10, <2>1
  <2> QED  BY <1>1, <1>7, <2>2 DEF ReadInv, ReadsReturn, Reading
<1>14. Reading("data")' => Waiting'  BY <1>4, <1>7
<1> QED  BY <1>11, <1>12, <1>13, <1>14 DEF ReadInv

LEMMA TckKeeps ==
  ASSUME SlowTck, IInv, HostTck
  PROVE  IInv'
<1> USE DEF IInv
<1>1. LinkInv' /\ (asked.owed \/ psel => jtag_state = "DRSELECT")  BY LinkTck
<1>2. PICK next, req :
        /\ next \in jtag_state_nxt /\ Tck(next, req)
        /\ (jtag_state = "DRSHIFT" => Fits(req))
  BY TckStep
<1>3. /\ jtag_state' = next /\ UNCHANGED <<apb_state, rdata>>
      /\ dr_shift_reg' = CASE jtag_state = "DRCAPTURE" -> dmi_return
                           [] jtag_state = "DRSHIFT" -> req
                           [] OTHER -> dr_shift_reg
      /\ asked' = IF jtag_state = "DRUPDATE" /\ dr_shift_reg.addr # "none"
                  THEN [req |-> dr_shift_reg, owed |-> TRUE] ELSE asked
  BY <1>2 DEF Tck
<1>4. UNCHANGED <<dmVars, hartVars, dmHistory, sbVars, session>>  BY DEF HostTck
<1>5. HartInv' /\ PlanInv' /\ ValueInv' /\ SbInv'
  <2>1. HartInv'  BY <1>4 DEF HartInv, flag, dmVars, hartVars
  <2>2. PlanInv'  BY <1>4 DEF PlanInv, dmVars, dmHistory
  <2>3. ValueInv'  BY <1>4 DEF ValueInv, Doing, Cur, dmVars, hartVars, dmHistory
  <2>4. SbInv'
    BY <1>4 DEF SbInv, SbTypes, SbReading, SbWriting, MemoryAsMeant, Word, NextAddr, sbVars
  <2> QED  BY <2>1, <2>2, <2>3, <2>4
<1>6. FitsInv'
  <2>1. (Waiting' <=> Waiting) /\ judged' = judged /\ sb_state' = sb_state
    BY <1>4 DEF Waiting, InRom, dmVars, hartVars, dmHistory, sbVars
  <2>2. Scanned' => Fits(dr_shift_reg')
    BY <1>2, <1>3 DEF jtag_state_nxt, Scanned, FitsInv, LinkInv
  <2>3. asked.owed' => Fits(asked.req)'
    BY <1>3, <2>1 DEF FitsInv, Fits, Scanned
  <2>4. Scanned' => Fits(dr_shift_reg)'
    BY <2>1, <2>2 DEF Fits
  <2> QED  BY <2>3, <2>4 DEF FitsInv
<1>7. ReadInv'
  <2>1. /\ Waiting' <=> Waiting
        /\ UNCHANGED <<judged, want, sbwant, dmrdata, sb_rdata, sb_state>>
    BY <1>4 DEF Waiting, InRom, dmVars, hartVars, dmHistory, sbVars
  <2>2. CASE asked' = asked
    <3>1. Reading("data")' => Waiting'  BY <2>1, <2>2 DEF ReadInv, Reading
    <3>2. penable' => /\ DataRead' => dmrdata' = want'.slot
                      /\ Reading("sbdata")' => dmrdata' = sb_rdata'
      BY <1>3, <2>1, <2>2 DEF ReadInv, Reading, DataRead, penable
    <3>3. ~asked'.owed => /\ DataRead' => rdata' = want'.slot
                          /\ Reading("sbdata")' => rdata' = sbwant'.read
      BY <1>3, <2>1, <2>2 DEF ReadInv, Reading, DataRead
    <3>4. ReadsReturn'
      <4> SUFFICES ASSUME dr_shift_reg'.is = "return"  PROVE ReadsReturn'
        BY DEF ReadsReturn
      <4>1. jtag_state' = "DRSHIFT"  BY <1>1 DEF LinkInv
      <4>2. jtag_state = "DRCAPTURE"  BY <1>2, <1>3, <4>1 DEF jtag_state_nxt, LinkInv
      <4>3. ~asked.owed /\ apb_state = "IDLE"  BY <1>1, <4>2 DEF psel
      <4>4. dr_shift_reg'.stat = 0 /\ dr_shift_reg'.data = rdata
        BY <1>3, <4>2, <4>3 DEF dmi_return, dmi_busy
      <4> QED  BY <1>3, <2>1, <2>2, <3>3, <4>3, <4>4 DEF ReadsReturn, DataRead, Reading
    <3> QED  BY <3>1, <3>2, <3>3, <3>4 DEF ReadInv
  <2>3. CASE asked' # asked
    <3>1. jtag_state = "DRUPDATE" /\ asked'.owed /\ dr_shift_reg' = dr_shift_reg
      BY <1>3, <2>3
    <3>2. ~penable'  BY <1>1, <1>3, <3>1 DEF penable, psel
    <3>3. Reading("data")' => Waiting'  BY <1>6, <3>1 DEF FitsInv, Fits, Reading
    <3>4. ReadsReturn'  BY <3>1 DEF ReadsReturn, LinkInv
    <3> QED  BY <3>1, <3>2, <3>3, <3>4 DEF ReadInv
  <2> QED  BY <2>2, <2>3
<1> QED  BY <1>1, <1>5, <1>6, <1>7

LEMMA ClockKeeps ==
  ASSUME SlowTck, IInv, NEW h \in Inputs, Clock(h)
  PROVE  IInv'
<1>1. Edge(h) /\ SbEdge(Acc, h.gnt, h.rvalid)
  BY DEF Clock, Edge, Acc, Setup, Wr, HartEdge, Entering
<1>2. HartEdge(h) /\ ControlEdge(Acc) /\ CommandEdge(Acc, Wr(h))  BY <1>1 DEF Edge, DmEdge
<1>3. Fits(Acc)  BY AccFits DEF IInv
<1>4. h.gnt => dbg_req  BY DEF Inputs
<1>5. LinkInv'  BY LinkClock DEF IInv
<1>6. HartInv'  BY <1>2, <1>3, HartClock DEF IInv
<1>7. PlanInv'  BY <1>1, <1>3, PlanClock DEF IInv
<1>8. ValueInv'  BY <1>1, <1>3, <1>6, ValueClock DEF IInv
<1>9. SbInv'  BY <1>1, <1>3, <1>4, SbClock DEF IInv
<1> QED  BY <1>5, <1>6, <1>7, <1>8, <1>9, FitsClock, ReadClock DEF IInv

LEMMA InitKeeps ==
  ASSUME Init
  PROVE  IInv
<1>1. LinkInv
  <2>1. AtStage(5)  BY DEF Init, BusInit, AtStage
  <2> QED  BY <2>1 DEF Init, BusInit, LinkInv, Nop, Request
<1>2. FitsInv  BY DEF Init, BusInit, FitsInv, Scanned
<1>3. HartInv  BY DEF Init, DmInit, HartInv, Running, Pc, NoCommand, Places
<1>4. PlanInv
  <2>1. Pending(ac) = <<>> \o <<>>  BY DEF Init, DmInit, Pending, NoCommand
  <2>2. <<>> \o <<>> = <<>> /\ <<>> \in Seq(Work)  OBVIOUS
  <2> QED  BY <2>1, <2>2 DEF Init, DmInit, PlanInv
<1>5. ValueInv
  BY DEF Init, DmInit, ValueInv, Doing, Cur, Running, Pc, NoCommand
<1>6. SbInv
  <2>1. 0 % MemSize = 0  BY MemSizeAssumption
  <2> QED  BY <2>1 DEF Init, SbInit, SbInv, SbTypes, MemoryAsMeant
<1>7. ReadInv
  BY DEF Init, BusInit, ReadInv, Reading, DataRead, penable, ReadsReturn, Nop, Request
<1> QED  BY <1>1, <1>2, <1>3, <1>4, <1>5, <1>6, <1>7 DEF IInv

\* What the invariant says of the properties that the runs check.
LEMMA Implied ==
  ASSUME IInv
  PROVE  OneAccessPerScan /\ OncePerCommand /\ CommandsWork /\ MemoryAsMeant /\ ReadsReturn
<1> USE DEF IInv
<1>1. OneAccessPerScan
  <2>1. PICK k \in 0 .. 5 : AtStage(k)  BY DEF LinkInv
  <2> QED  BY <2>1 DEF AtStage, psel, OneAccessPerScan
<1>2. OncePerCommand
  <2>1. Pending(ac) \in Seq(Work)
    <3>1. ac.transfer => ac.kind \in Work  BY DEF HartInv, Work
    <3> QED  BY <3>1, PendingType
  <2>2. IsPrefix(did, plan)
    BY <2>1 DEF PlanInv, IsPrefix
  <2>3. Settled /\ InRom => Pending(ac) = <<>>
    <3>1. Settled /\ InRom => ~ac.transfer /\ ~ac.postexec
      BY DEF Settled, InRom, Running, Pc
    <3>2. <<>> \o <<>> = <<>>  OBVIOUS
    <3> QED  BY <3>1, <3>2 DEF Pending
  <2>4. did \o <<>> = did  BY DEF PlanInv
  <2> QED  BY <2>2, <2>3, <2>4 DEF OncePerCommand, PlanInv
<1>3. CommandsWork
  <2> SUFFICES ASSUME Settled, judged  PROVE Agrees
    BY DEF CommandsWork
  <2>1. CASE InRom /\ ~ac.transfer
    BY <2>1 DEF ValueInv, Doing, InRom, Agrees, Cur
  <2>2. CASE pc = Running
    BY <2>2 DEF ValueInv, Doing, HartInv, InRom, Agrees, Cur, Running, Pc
  <2> QED  BY <2>1, <2>2 DEF Settled
<1>4. MemoryAsMeant  BY DEF SbInv, SbReading, SbWriting, MemoryAsMeant
<1>5. ReadsReturn  BY DEF ReadInv
<1> QED  BY <1>1, <1>2, <1>3, <1>4, <1>5

LEMMA Inductive ==
  ASSUME SlowTck
  PROVE  Spec => []IInv
<1>1. Init => IInv  BY InitKeeps
<1>2. IInv /\ [Next]_vars => IInv'
  <2> SUFFICES ASSUME IInv, [Next]_vars  PROVE IInv'
    OBVIOUS
  <2>1. CASE HostTck  BY <2>1, TckKeeps
  <2>2. CASE \E h \in Inputs : Clock(h)  BY <2>2, ClockKeeps
  <2>3. CASE UNCHANGED vars
    <3> USE <2>3 DEF vars
    <3>1. UNCHANGED busVars /\ UNCHANGED dmVars /\ UNCHANGED hartVars /\ UNCHANGED dmHistory
          /\ UNCHANGED sbVars
      OBVIOUS
    <3>2. LinkInv'  BY <3>1 DEF IInv, LinkInv, AtStage, busVars
    <3>3. FitsInv'
      BY <3>1 DEF IInv, FitsInv, Scanned, Fits, Waiting, InRom, busVars, dmVars, hartVars,
                  dmHistory, sbVars
    <3>4. HartInv'  BY <3>1 DEF IInv, HartInv, flag, dmVars, hartVars
    <3>5. PlanInv'  BY <3>1 DEF IInv, PlanInv, dmVars, dmHistory
    <3>6. ValueInv'  BY <3>1 DEF IInv, ValueInv, Doing, Cur, dmVars, hartVars, dmHistory
    <3>7. SbInv'
      BY <3>1 DEF IInv, SbInv, SbTypes, SbReading, SbWriting, MemoryAsMeant, Word, NextAddr,
                  sbVars
    <3>8. ReadInv'
      BY <3>1 DEF IInv, ReadInv, Reading, DataRead, ReadsReturn, penable, Waiting, InRom,
                  busVars, dmVars, hartVars, dmHistory, sbVars
    <3> QED  BY <3>2, <3>3, <3>4, <3>5, <3>6, <3>7, <3>8 DEF IInv
  <2> QED  BY <2>1, <2>2, <2>3 DEF Next
<1> QED  BY <1>1, <1>2, PTL DEF Spec

-----------------------------------------------------------------------------
(* The theorems                                                            *)

\* An access on the bus is the one the host asked for last, carries what was
\* scanned, and has not been made before, whatever the phase of the clocks.
THEOREM AccessOnce ==
  ASSUME SlowTck
  PROVE  Spec => []OneAccessPerScan
<1>1. IInv => OneAccessPerScan  BY Implied
<1> QED  BY <1>1, Inductive, PTL

\* Each half of an abstract command is performed once and in its order.
THEOREM CommandOnce ==
  ASSUME SlowTck
  PROVE  Spec => []OncePerCommand
<1>1. IInv => OncePerCommand  BY Implied
<1> QED  BY <1>1, Inductive, PTL

\* Halting, commands, program buffer faults and resuming leave registers and
\* data as the host means them.
THEOREM CommandsDo ==
  ASSUME SlowTck
  PROVE  Spec => []CommandsWork
<1>1. IInv => CommandsWork  BY Implied
<1> QED  BY <1>1, Inductive, PTL

\* Streams over the system bus touch each word the host means once.
THEOREM MemoryMeant ==
  ASSUME SlowTck
  PROVE  Spec => []MemoryAsMeant
<1>1. IInv => MemoryAsMeant  BY Implied
<1> QED  BY <1>1, Inductive, PTL

\* A scan that follows a read returns its value.
THEOREM ReadReturned ==
  ASSUME SlowTck
  PROVE  Spec => []ReadsReturn
<1>1. IInv => ReadsReturn  BY Implied
<1> QED  BY <1>1, Inductive, PTL
=============================================================================

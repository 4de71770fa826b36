-------------------------- MODULE SystemBusAccess ---------------------------
(***************************************************************************)
(* System bus access of the debug module                                   *)
(* (msftDvIp_riscv_cheri_debug_reg.sv): control, address and data register *)
(* and the state machine that turns their accesses into reads and writes   *)
(* of memory through the core crossbar.  Accesses are whole words, so an   *)
(* address is a word address and an increment is one.                      *)
(***************************************************************************)
EXTENDS Integers

CONSTANTS
  MemSize,     \* words of memory
  MemWords     \* tokens the host writes to memory

ASSUME MemSizeAssumption == MemSize \in Nat \ {0}

VARIABLES
  sb_state, sb_addr, sb_data_bus, sb_rdata, autoincrement, autoread,
  mem, sbresp,      \* external: memory, and the response on its way
  sbwant            \* history: memory, address and read register as the host
                    \* believes them to be, and what it has read last

sbVars == <<sb_state, sb_addr, sb_data_bus, sb_rdata, autoincrement, autoread,
            mem, sbresp, sbwant>>

Addrs == 0 .. MemSize - 1

SbInit ==
  /\ sb_state = "IDLE" /\ sb_addr = 0 /\ sb_data_bus = "zero" /\ sb_rdata = "zero"
  /\ autoincrement = FALSE /\ autoread = FALSE
  /\ mem = [a \in Addrs |-> "zero"] /\ sbresp = "none"
  /\ sbwant = [mem |-> mem, addr |-> 0, rdata |-> "zero", read |-> "zero"]

SbWrite(acc, addr) == acc.wr /\ acc.addr = addr
ReadStart(acc) == \/ SbWrite(acc, "sbcs") /\ acc.data.singleread
                  \/ ~acc.wr /\ acc.addr = "sbdata" /\ autoread

dbg_req == sb_state \in {"READ", "WRITE"}

\* Mutant: the address moves on as soon as the request is granted.
SbRegisters_EarlyIncr(acc, rvalid) ==
  /\ autoincrement' = IF SbWrite(acc, "sbcs") THEN acc.data.autoincrement ELSE autoincrement
  /\ autoread' = IF SbWrite(acc, "sbcs") THEN acc.data.autoread ELSE autoread
  /\ sb_addr' = IF dbg_req /\ autoincrement THEN sb_addr + 1
                ELSE IF SbWrite(acc, "sbaddr") THEN acc.data ELSE sb_addr
  /\ sb_data_bus' = IF SbWrite(acc, "sbdata") THEN acc.data ELSE sb_data_bus
\* The registers.  The address moves on when a response arrives.
SbIncr(rvalid) == sb_state \in {"READ_RESP", "WRITE_RESP"} /\ rvalid /\ autoincrement
SbRegisters(acc, rvalid) ==
  /\ autoincrement' = IF SbWrite(acc, "sbcs") THEN acc.data.autoincrement ELSE autoincrement
  /\ autoread' = IF SbWrite(acc, "sbcs") THEN acc.data.autoread ELSE autoread
  /\ sb_addr' = IF SbIncr(rvalid) THEN sb_addr + 1
                ELSE IF SbWrite(acc, "sbaddr") THEN acc.data ELSE sb_addr
  /\ sb_data_bus' = IF SbWrite(acc, "sbdata") THEN acc.data ELSE sb_data_bus

SbMachine(acc, gnt, rvalid) ==
  CASE sb_state = "IDLE" ->
         /\ sb_state' = IF SbWrite(acc, "sbdata") THEN "WRITE"
                        ELSE IF ReadStart(acc) THEN "READ" ELSE "IDLE"
         /\ UNCHANGED sb_rdata
    [] sb_state = "READ" ->
         sb_state' = (IF gnt THEN "READ_RESP" ELSE "READ") /\ UNCHANGED sb_rdata
    [] sb_state = "READ_RESP" ->
         /\ sb_state' = IF rvalid THEN "IDLE" ELSE "READ_RESP"
         /\ sb_rdata' = IF rvalid THEN sbresp ELSE sb_rdata
    [] sb_state = "WRITE" ->
         sb_state' = (IF gnt THEN "WRITE_RESP" ELSE "WRITE") /\ UNCHANGED sb_rdata
    [] sb_state = "WRITE_RESP" ->
         sb_state' = (IF rvalid THEN "IDLE" ELSE "WRITE_RESP") /\ UNCHANGED sb_rdata

\* External: a granted request is performed, its response comes later.
Memory(gnt, rvalid) ==
  /\ mem' = IF gnt /\ sb_state = "WRITE" THEN [mem EXCEPT ![sb_addr % MemSize] = sb_data_bus] ELSE mem
  /\ sbresp' = IF gnt THEN mem[sb_addr % MemSize] ELSE IF rvalid THEN "none" ELSE sbresp

\* What an access means to the host: writing sbdata writes memory, reading it
\* with autoread, or sbcs with a single read, reads the next word.
SbMeaning(acc) ==
  LET next(inc) == (sbwant.addr + (IF inc THEN 1 ELSE 0)) % MemSize
  IN  CASE SbWrite(acc, "sbaddr") -> [sbwant EXCEPT !.addr = acc.data]
        [] SbWrite(acc, "sbdata") ->
             [sbwant EXCEPT !.mem[sbwant.addr] = acc.data, !.addr = next(autoincrement)]
        [] ~acc.wr /\ acc.addr = "sbdata" /\ ~autoread ->
             [sbwant EXCEPT !.read = sbwant.rdata]
        [] ReadStart(acc) ->
             [sbwant EXCEPT !.read = IF acc.wr THEN @ ELSE sbwant.rdata,
                            !.rdata = sbwant.mem[sbwant.addr],
                            !.addr = next(IF acc.wr THEN acc.data.autoincrement
                                                    ELSE autoincrement)]
        [] OTHER -> sbwant

SbEdge(acc, gnt, rvalid) ==
  /\ SbRegisters(acc, rvalid) /\ SbMachine(acc, gnt, rvalid) /\ Memory(gnt, rvalid)
  /\ sbwant' = SbMeaning(acc)

\* Streams of words with automatic increment and automatic reads touch the
\* words the host means, each once: at rest memory, address and the word read
\* are what the accesses so far mean.
MemoryAsMeant ==
  sb_state = "IDLE" => 
    /\ sbwant.mem = mem /\ sbwant.addr = sb_addr % MemSize /\ sbwant.rdata = sb_rdata
=============================================================================

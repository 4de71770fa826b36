------------------------------- MODULE GdbLink ------------------------------
(***************************************************************************)
(* The traffic under the commands of the CHERI GDB server: the loop of     *)
(* main.py, the blocking calls of GDB_OpenOCD_Transmitter, and at the other *)
(* end of the socket OpenOCD and the core (external).  What recv returns   *)
(* is whatever has arrived: an acknowledgement alone, or with the reply    *)
(* behind it, or a stop reply nobody asked for.                            *)
(*                                                                         *)
(* The "+" the server sends after each packet is left out: OpenOCD passes  *)
(* over an acknowledgement it does not wait for.                           *)
(***************************************************************************)
EXTENDS SequencesExt

CONSTANTS
  Registers,       \* those that can be named in a command
  PC,              \* the one of them a running core changes
  Addresses,       \* where breakpoints can be
  Lines,           \* command lines: the sets of keywords in them
  Words,           \* number of lines in the file to load
  MaxCommands, MaxBreakpoints      \* bounds: commands, length of the list

ASSUME LinkAssumption ==
  /\ PC \in Registers
  /\ Words \in Nat \ {0}

VARIABLES
  pc,                    \* where the server waits
  cmd,                   \* the command being executed
  list_of_breakpoints,
  i,                     \* index of the loop over breakpoints or words
  entered,               \* number of commands
  toOpenocd,             \* packets sent and not yet taken
  inbox,                 \* what has arrived at the server's socket
  packet,                \* the packet OpenOCD has acknowledged and not answered, or none
  core,                  \* "halted", "stepping" or "running"
  planted,               \* breakpoints in the core
  regs,                  \* registers: capability and value
  memory,                \* words of the file that have been written
  shown,                 \* the registers printed by the last command
  disturbed,             \* history: a stop reply was taken for something else in this command
  startHalted            \* history: the core was halted when the command was entered

client == <<pc, cmd, list_of_breakpoints, i, entered, shown, disturbed, startHalted>>
target == <<packet, core, planted, regs, memory>>
vars == <<client, toOpenocd, inbox, target>>

Halves == {"capability", "value"}
NoCommand == [op |-> "none"]

\* Tokens that OpenOCD sends; data is what a register reply holds.
Token(kind, data) == [kind |-> kind, data |-> data]
Ack   == Token("+", <<>>)
OK    == Token("OK", <<>>)
E0E   == Token("E0E", <<>>)
Stop  == Token("stop", <<>>)
Has(content, kind) == \E k \in DOMAIN content : content[k].kind = kind

-----------------------------------------------------------------------------
(* Transmitter                                                             *)

Send(pkt) == toOpenocd' = Append(toOpenocd, pkt)

\* recv(1024) returns all that has arrived.
recv(at) ==
  /\ pc = at /\ inbox # <<>>
  /\ inbox' = <<>>
  /\ UNCHANGED <<entered, startHalted, target>>
Disturb == disturbed' = (disturbed \/ Has(inbox, "stop"))

\* Nothing is on its way.  The timeouts, 0.5 and 2 seconds, are longer than
\* OpenOCD takes for a packet and the core for a step.
Quiet == inbox = <<>> /\ toOpenocd = <<>> /\ packet = <<>> /\ core # "stepping"
\* Mutant: no timeout is set, so recv waits for ever.
timeout_Never(at) == FALSE
timeout(at) ==
  /\ pc = at /\ Quiet
  /\ UNCHANGED <<entered, inbox, startHalted, disturbed, target>>

\* A socket.timeout that nothing catches.
Uncaught(at) ==
  /\ timeout(at)
  /\ pc' = "crash"
  /\ UNCHANGED <<cmd, list_of_breakpoints, i, shown, toOpenocd>>

\* The way back to the prompt.
ToFlush == pc' = "flush" /\ cmd' = NoCommand /\ i' = 0

\* receive_ack: without a "+" there is a message and nothing else.
receive_ack(at, next) ==
  \/ /\ recv(at) /\ Disturb
     /\ pc' = next
     /\ UNCHANGED <<cmd, list_of_breakpoints, i, shown, toOpenocd>>
  \/ Uncaught(at)

\* receive_OK: one way or the other the command is over.
receive_OK(at) ==
  /\ \/ recv(at) /\ Disturb
     \/ timeout(at)
  /\ ToFlush
  /\ UNCHANGED <<list_of_breakpoints, shown, toOpenocd>>

\* Reads until it is quiet; what comes is thrown away.
ReadOn(at) ==
  /\ recv(at)
  /\ UNCHANGED <<pc, cmd, list_of_breakpoints, i, shown, disturbed, toOpenocd>>

establish_connection ==
  /\ recv("connect")
  /\ pc' = "flush"
  /\ UNCHANGED <<cmd, list_of_breakpoints, i, shown, disturbed, toOpenocd>>

flush_out_packet ==
  \/ ReadOn("flush")
  \/ /\ timeout("flush")
     /\ pc' = "prompt"
     /\ UNCHANGED <<cmd, list_of_breakpoints, i, shown, toOpenocd>>

-----------------------------------------------------------------------------
(* Commands                                                                *)

\* The first keyword in this order that occurs anywhere in the line.
Keywords == <<"info registers", "set", "breakpoint", "stepi", "print", "setall",
              "continue", "remove", "load">>
exact_components_of_gdb_cmd(line) ==
  IF \A k \in DOMAIN Keywords : Keywords[k] \notin line THEN "exit"
  ELSE Keywords[CHOOSE k \in DOMAIN Keywords :
                  Keywords[k] \in line /\ \A j \in 1 .. k - 1 : Keywords[j] \notin line]

\* A line is entered for the command "keyword".
Enter(keyword) ==
  /\ pc = "prompt" /\ entered < MaxCommands
  /\ \E line \in Lines : exact_components_of_gdb_cmd(line) = keyword
  /\ entered' = entered + 1
  /\ disturbed' = FALSE /\ startHalted' = (core = "halted")
  /\ shown' = <<>>
  /\ UNCHANGED <<inbox, target>>
\* A command that begins by sending a packet and waiting for its acknowledgement.
Begin(keyword, command, pkt, next) ==
  /\ Enter(keyword)
  /\ cmd' = command /\ pc' = next /\ Send(pkt)
  /\ UNCHANGED <<list_of_breakpoints, i>>

\* exit, and any line without a keyword.  A line with "setall" is taken for a
\* "set" of a register that does not exist (KeyError).
Exit ==
  /\ Enter("exit") /\ pc' = "done"
  /\ UNCHANGED <<cmd, list_of_breakpoints, i, toOpenocd>>
SetAll ==
  /\ \E line \in Lines : {"set", "setall"} \subseteq line
  /\ Enter("set") /\ pc' = "crash"
  /\ UNCHANGED <<cmd, list_of_breakpoints, i, toOpenocd>>

\* print and set read a register first.
BeginPrint(r) == Begin("print", [op |-> "p", reg |-> r], <<"p", r>>, "p_ack")
BeginSet(r, half, new) ==
  Begin("set", [op |-> "P", reg |-> r, half |-> half, new |-> new], <<"p", r>>, "p_ack")
BeginInfoRegisters == Begin("info registers", [op |-> "g"], <<"g">>, "g_ack")
BeginStepi == Begin("stepi", [op |-> "s"], <<"step">>, "s_ack")
BeginContinue == Begin("continue", [op |-> "c"], <<"step">>, "cs_ack")
BeginLoad ==
  /\ Enter("load")
  /\ cmd' = [op |-> "X"] /\ i' = 1
  /\ Send(<<"X", 1>>) /\ pc' = "X_rsp"
  /\ UNCHANGED list_of_breakpoints
FileNotFound ==
  /\ Enter("load") /\ ToFlush
  /\ UNCHANGED <<list_of_breakpoints, toOpenocd>>

\* breakpoint a, remove a: nothing is sent.
Breakpoint(a) ==
  /\ Enter("breakpoint") /\ Len(list_of_breakpoints) < MaxBreakpoints
  /\ list_of_breakpoints' = Append(list_of_breakpoints, a)
  /\ ToFlush
  /\ UNCHANGED toOpenocd
RemoveBreakpoint(a) ==
  /\ Enter("remove")
  /\ list_of_breakpoints' = RemoveFirst(list_of_breakpoints, a)
  /\ ToFlush
  /\ UNCHANGED toOpenocd

\* execute_get_register_command: the first packet of what is received has to be
\* the register's, or the conversion of its digits raises an exception.
RegisterIn(content) == {k \in DOMAIN content :
  content[k].kind = "register" /\ \A j \in 1 .. k - 1 : content[j].kind = "+"}

\* uncompress_and_print_register_data
PrintRegister ==
  /\ recv("p_data") /\ Disturb /\ cmd.op = "p"
  /\ \E k \in RegisterIn(inbox) : shown' = [r \in {cmd.reg} |-> inbox[k].data]
  /\ ToFlush
  /\ UNCHANGED <<list_of_breakpoints, toOpenocd>>

\* The half of the register that is not set is written back as it was read.
\* Mutant: the halves are exchanged.
new_register_value_Swapped(data) ==
  [half \in Halves |-> IF half = cmd.half THEN cmd.new ELSE data[cmd.half]]
new_register_value(data) == [data EXCEPT ![cmd.half] = cmd.new]
WriteBack ==
  /\ recv("p_data") /\ Disturb /\ cmd.op = "P"
  /\ \E k \in RegisterIn(inbox) : Send(<<"P", cmd.reg, new_register_value(inbox[k].data)>>)
  /\ pc' = "P_ack"
  /\ UNCHANGED <<cmd, list_of_breakpoints, i, shown>>

NoRegister ==
  \/ /\ recv("p_data") /\ Disturb /\ RegisterIn(inbox) = {}
     /\ pc' = "crash"
     /\ UNCHANGED <<cmd, list_of_breakpoints, i, shown, toOpenocd>>
  \/ Uncaught("p_data")

\* execute_get_all_registers_command: one more attempt after an E0E.
AskAgain ==
  /\ recv("g_data") /\ Disturb /\ Has(inbox, "E0E")
  /\ Send(<<"g">>) /\ pc' = "g_ack_again"
  /\ UNCHANGED <<cmd, list_of_breakpoints, i, shown>>

\* print_all_registers takes off three characters in front and cuts the rest by
\* length: something in front of the registers shifts them all.
Shifted == [half \in Halves |-> -1]
PrintAll(at) ==
  /\ recv(at) /\ Disturb /\ Has(inbox, "all")
  /\ shown' = IF Head(inbox).kind = "all" THEN Head(inbox).data
              ELSE [r \in Registers |-> Shifted]
  /\ ToFlush
  /\ UNCHANGED <<list_of_breakpoints, toOpenocd>>
NotAll(at) ==
  \/ /\ recv(at) /\ Disturb /\ ~Has(inbox, "all")
     /\ at = "g_data" => ~Has(inbox, "E0E")
     /\ pc' = "crash"
     /\ UNCHANGED <<cmd, list_of_breakpoints, i, shown, toOpenocd>>
  \/ Uncaught(at)

\* execute_load_memory_command: acknowledgement and OK are taken together or one
\* after the other; an OK that does not come is passed over.  The acknowledgement
\* always comes here, so the "except Exception" of the loop has nothing to catch.
NextWord ==
  IF i < Words THEN /\ i' = i + 1 /\ Send(<<"X", i + 1>>) /\ pc' = "X_rsp"
                    /\ UNCHANGED cmd
  ELSE ToFlush /\ UNCHANGED toOpenocd
LoadAcknowledged ==
  /\ recv("X_rsp") /\ Disturb
  /\ IF Has(inbox, "+") /\ Has(inbox, "OK") THEN NextWord
     ELSE pc' = "X_ok" /\ UNCHANGED <<cmd, i, toOpenocd>>
  /\ UNCHANGED <<list_of_breakpoints, shown>>
LoadAnswered ==
  /\ \/ recv("X_ok") /\ Disturb
     \/ timeout("X_ok")
  /\ NextWord
  /\ UNCHANGED <<list_of_breakpoints, shown>>

\* The loops that plant and remove the breakpoints of the list.
PlantFrom(k) ==
  IF k <= Len(list_of_breakpoints)
  THEN i' = k /\ Send(<<"Z0", list_of_breakpoints[k]>>) /\ pc' = "Z_ack"
  ELSE i' = 0 /\ Send(<<"c">>) /\ pc' = "c_ack"
RemoveFrom(k) ==
  IF k <= Len(list_of_breakpoints)
  THEN /\ i' = k /\ Send(<<"z0", list_of_breakpoints[k]>>) /\ pc' = "z_ack"
       /\ UNCHANGED cmd
  ELSE ToFlush /\ UNCHANGED toOpenocd

\* Each packet of stepi and continue is followed by two seconds of silence.
\* Mutant: the core continues before the breakpoints are planted.
Stepped_Continue ==
  /\ timeout("cs_quiet")
  /\ i' = 0 /\ Send(<<"c">>) /\ pc' = "c_ack"
  /\ UNCHANGED <<cmd, list_of_breakpoints, shown>>
Stepped ==
  /\ timeout("cs_quiet") /\ PlantFrom(1)
  /\ UNCHANGED <<cmd, list_of_breakpoints, shown>>
Planted ==
  /\ timeout("Z_quiet") /\ PlantFrom(i + 1)
  /\ UNCHANGED <<cmd, list_of_breakpoints, shown>>
Continued ==
  /\ timeout("c_quiet") /\ RemoveFrom(1)
  /\ UNCHANGED <<list_of_breakpoints, shown>>
Removed ==
  /\ timeout("z_quiet") /\ RemoveFrom(i + 1)
  /\ UNCHANGED <<list_of_breakpoints, shown>>
StepiDone ==
  /\ timeout("s_quiet") /\ ToFlush
  /\ UNCHANGED <<list_of_breakpoints, shown, toOpenocd>>

-----------------------------------------------------------------------------
(* OpenOCD and the core                                                    *)

Connected == pc \notin {"crash", "done"}

OpenocdAck ==
  /\ Connected /\ packet = <<>> /\ toOpenocd # <<>>
  /\ packet' = Head(toOpenocd) /\ toOpenocd' = Tail(toOpenocd)
  /\ inbox' = Append(inbox, Ack)
  /\ UNCHANGED <<client, core, planted, regs, memory>>

Answer(token) == inbox' = Append(inbox, token)
\* With the core running nothing is sure but that registers are out of reach.
Serve ==
  \/ /\ packet[1] = "p"
     /\ Answer(IF core = "halted" THEN Token("register", regs[packet[2]]) ELSE E0E)
     /\ UNCHANGED <<core, planted, regs, memory>>
  \/ /\ packet[1] = "P" /\ core = "halted"
     /\ regs' = [regs EXCEPT ![packet[2]] = packet[3]] /\ Answer(OK)
     /\ UNCHANGED <<core, planted, memory>>
  \/ /\ packet[1] = "g" /\ core = "halted" /\ Answer(Token("all", regs))
     /\ UNCHANGED <<core, planted, regs, memory>>
  \/ /\ packet[1] = "X"
     /\ memory' = memory \cup {packet[2]} /\ Answer(OK)
     /\ UNCHANGED <<core, planted, regs>>
  \/ /\ packet[1] = "Z0"
     /\ planted' = planted \cup {packet[2]} /\ Answer(OK)
     /\ UNCHANGED <<core, regs, memory>>
  \/ /\ packet[1] = "z0"
     /\ planted' = planted \ {packet[2]} /\ Answer(OK)
     /\ UNCHANGED <<core, regs, memory>>
  \/ /\ \/ packet[1] = "g"      \* the case the second attempt is for
        \/ core # "halted" /\ packet[1] \in {"P", "X", "Z0", "z0"}
     /\ Answer(E0E)
     /\ UNCHANGED <<core, planted, regs, memory>>
  \/ /\ packet[1] \in {"step", "c"}
     /\ core' = IF core # "halted" THEN core
                ELSE IF packet[1] = "c" THEN "running" ELSE "stepping"
     /\ UNCHANGED <<inbox, planted, regs, memory>>
OpenocdServe ==
  /\ Connected /\ packet # <<>>
  /\ Serve
  /\ packet' = <<>>
  /\ UNCHANGED <<client, toOpenocd>>

\* A stop at a breakpoint, at the end of a step or for a reason of the program's.
CoreStop ==
  /\ Connected /\ core # "halted"
  /\ core' = "halted" /\ Answer(Stop)
  /\ \E value \in {0, 1} : regs' = [regs EXCEPT ![PC]["value"] = value]
  /\ UNCHANGED <<client, toOpenocd, packet, planted, memory>>

-----------------------------------------------------------------------------
(* Specification                                                           *)

Init ==
  /\ pc = "connect" /\ cmd = NoCommand /\ list_of_breakpoints = <<>>
  /\ i = 0 /\ entered = 0 /\ shown = <<>>
  /\ disturbed = FALSE /\ startHalted = TRUE
  /\ toOpenocd = <<>> /\ inbox = <<Ack>>
  /\ packet = <<>> /\ core = "halted" /\ planted = {} /\ memory = {}
  /\ regs = [r \in Registers |-> [half \in Halves |-> 0]]

User ==
  \/ Exit \/ SetAll \/ BeginInfoRegisters \/ BeginStepi \/ BeginContinue
  \/ BeginLoad \/ FileNotFound
  \/ \E r \in Registers : BeginPrint(r)
  \/ \E r \in Registers, half \in Halves, new \in {0, 1} : BeginSet(r, half, new)
  \/ \E a \in Addresses : Breakpoint(a) \/ RemoveBreakpoint(a)

Server ==
  \/ establish_connection \/ flush_out_packet
  \/ receive_ack("p_ack", "p_data") \/ PrintRegister \/ WriteBack \/ NoRegister
  \/ receive_ack("P_ack", "P_ok") \/ receive_OK("P_ok")
  \/ receive_ack("g_ack", "g_data") \/ AskAgain \/ receive_ack("g_ack_again", "g_again")
  \/ \E at \in {"g_data", "g_again"} : PrintAll(at) \/ NotAll(at)
  \/ LoadAcknowledged \/ LoadAnswered
  \/ receive_ack("s_ack", "s_quiet") \/ receive_ack("cs_ack", "cs_quiet")
  \/ receive_ack("Z_ack", "Z_quiet") \/ receive_ack("c_ack", "c_quiet")
  \/ receive_ack("z_ack", "z_quiet")
  \/ \E at \in {"s_quiet", "cs_quiet", "Z_quiet", "c_quiet", "z_quiet"} : ReadOn(at)
  \/ StepiDone \/ Stepped \/ Planted \/ Continued \/ Removed

Next == User \/ Server \/ OpenocdAck \/ OpenocdServe \/ CoreStop

Spec == Init /\ [][Next]_vars

-----------------------------------------------------------------------------
(* Properties                                                              *)

\* A command that sets half of a register changes that and nothing else,
\* whatever came between the reading and the writing.  What print shows is the
\* register asked for as it is; what info registers shows is right too unless a
\* stop reply was taken for one of its answers.
RegistersAsMeant == [][
  /\ regs' # regs /\ core' = core =>
       cmd.op = "P" /\ regs' = [regs EXCEPT ![cmd.reg][cmd.half] = cmd.new]
  /\ shown' # shown /\ (cmd.op = "g" => ~disturbed') =>
       \A r \in DOMAIN shown' : shown'[r] = regs[r] /\ (cmd.op = "p" => r = cmd.reg)]_vars

\* From when a halted core is told to continue until the server has waited for
\* it in silence, a running core has every breakpoint of the list.
StopsAtBreakpoints ==
  pc \in {"c_ack", "c_quiet"} /\ startHalted /\ core = "running" =>
    \A k \in DOMAIN list_of_breakpoints : list_of_breakpoints[k] \in planted
=============================================================================

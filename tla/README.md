# CHERIoT-SAFE: TLA+ models, checks and proofs

CHERIoT-SAFE is a system-on-chip around a CHERIoT RISC-V core: a crossbar
between the core and its memories, an AXI fabric, a DMA engine, a debug
module reached over JTAG, an interrupt controller with the registers of the
revocation engine, an Ethernet MAC and slow peripherals behind an APB bridge.
It is SystemVerilog. Software is debugged through a GDB server in Python that
speaks to OpenOCD and knows CHERIoT's compressed capabilities. The models are
of hardware and server as they are written at this commit; file names below
leave out the prefix `msftDvIp_` and the directories `src/msft_cheri_core`,
`src/msft_cheri_subsystem` and `debug/tools/cheri_gdb_server`.

Contents: [1 the system](#1-the-system) · [2 how it is modelled](#2-how-hardware-and-server-are-modelled) ·
[3 modules and code](#3-modules-and-code) · [4 runs](#4-runs) · [5 proofs](#5-proofs) ·
[6 findings](#6-findings) · [7 limits](#7-what-is-not-covered) · [8 plan](#8-plan)

## 1 The system

| Component | State | Operations | Talks to | Hard because | Correct when |
|---|---|---|---|---|---|
| **OBI crossbar** `obimux3w0.sv` | held request and pending flag per master, round-robin pointer and response flag per memory, AXI sequencer | take a request, arbitrate, grant, respond | core data and instruction ports, debugger, memories, AXI | three masters on every slave each cycle, back-to-back accesses, a slow AXI side | one grant one access, the response to the right master, nobody starves |
| **AXI fabric** `cheri_axi_fabric.sv`, `axi_mgr_ifc.sv`, `axi_sub_ifc.sv`, `axi_fifo.sv`, `..._mgr_mux`, `..._sub_mux`, `axi_def_sub.sv` | FIFOs per channel, one write and one read machine per interface, default subordinate | route addresses, beats, responses; answer unmapped accesses | core and DMA as managers, memories and peripherals as subordinates | address and data channels race, back-pressure anywhere, fixed priority | bursts do not mix, every write one response, every read all its beats |
| **DMA engine** `dma_engine.sv`, `dma_fifo.sv`, `dma_ctrl0.sv`, `axi_dma_apb.sv` | control registers, read and write machine, byte FIFO | program, start, read and write bursts, errors | fabric, APB | two machines at different beat sizes, pages, FIFO room, errors half-way | a copy, in order and complete; every transfer ends |
| **Debug** `riscv_cheri_dmibus.sv`, `_debug_reg.sv`, `_mem.sv`, `_rom.sv` | TAP and DMI in the TCK domain, APB machine, command and halt flags, debug RAM, system bus access | scan, register access, halt, resume, abstract command, memory access | JTAG host, hart in the debug ROM, crossbar | two clock domains without handshake back, registers shared with the hart | one access per scan, commands exactly once and correctly, memory as asked |
| **Interrupts** `plic.sv`, `mmreg.sv`, `tcdev_wrapper.sv` | pending and blocked bit per source, priorities, registered identifier; sweep start, status, interrupt | gateway, notify, claim, complete; start, finish and clear a sweep | devices, revocation engine, core | the core sees a registered choice while its inputs go on changing; auto-clear, polling and interrupt mixed | one claim per request, by rank; each sweep's end noticed once |
| **Ethernet MAC** `eth_mac_lite.sv` | two buffers each way, nibble machines in two other clock domains, clock-crossing FIFOs, status bits | send, receive, filter, interrupt, clear | driver, PHY | three clocks, FIFO thresholds, driver racing the receiver | frames contiguous, complete, once |
| **APB bridge** `axi2apb.sv`, `periph_axi2apb_decode*.sv` | a read and a write machine, one APB bus | alternate reads and writes | fabric, peripherals | the two share control signals | one APB access per AXI access |
| **UART** `uart.sv`, `uart_fifo.sv` | baud counters, two shifters, two FIFOs, status | send, receive, errors | APB, pins | read-clears-status races, overruns | what is received is what was sent |
| **Timers** `creg_timer.sv`, `creg_intc.sv`, `clint_tmr.sv` | counters, compare, status word | count, reload, collect interrupts | APB, core | one-cycle interrupts, 64-bit counter in halves | no event lost |
| **SPI, I2C, GPIO** | shifters, FIFOs, pins | transfer | APB, pins | bit-level timing | |
| **Data mover bridge** `dmb.sv` | two channel machines, registers, data FIFO | window accesses | fabric, external AXI | invalid register addresses | every access answered |
| **GDB server, registers** `GDB_RSP_Translator.py`, `RSP_GDB_Translator.py`, `CHERI_Encoder.py`, `CHERI_Decoder.py`, `register_info.py`, `Mutable_String.py` | the encoder's last exponent, the decoder's dictionary of permissions | set bounds, permissions, otype and value of a register; print | OpenOCD, by packets of hexadecimal digits | fields of a compressed capability, byte order twice reversed, half a register written with what was read of the other | what is shown is what was asked for |
| **GDB server, images** `scripts/vhex2vhex.py`, load loop of `main.py` | lines and words, address | convert, load | file, OpenOCD | gaps between segments, words cut from bytes, checksum of binary data | each byte at its address |
| **GDB server, main loop and transmitter** `main.py`, `GDB_OpenOCD_Transmitter.py` | list of breakpoints, the place where it waits | print, set, info registers, stepi, continue, breakpoint, remove, load, exit | user, OpenOCD over a socket | answers arrive together or apart, stop replies unasked, silence for an answer | replies belong to commands, breakpoints are there when the core runs, commands end |
| Memories, trace, backdoor, wiring, FPGA top, tests, firmware | | | | | not modelled, section 7 |

```
   JTAG host --TCK--> Dmibus --APB--> DebugModule <--ROM/RAM--> hart
                                   SystemBusAccess --+
   core data port ------------------------------- ObiMux --- IROM IRAM DRAM
   core instruction port ------------------------    |  \--- TCDEV: Plic, mmreg
                                                     AXI
   DMA engine ---- AXI fabric (write path, read path) + --- memories, bridge, default subordinate

   user --command--> GdbRegisters, ImageLoad --packet--> GdbLink <--socket--> OpenOCD --> JTAG host
```

PROJECT.json lists, under `hazards`, each place where one of these behaviours
bites, with the properties that would notice.

## 2 How hardware and server are modelled

* **A clock edge is one action.** All registers of a clock domain change
  together, so a module's `Clock` (or `...Edge`) is a conjunction with one
  conjunct per `always` block, each giving the next value of its registers
  from the old values and the inputs of that cycle. Wires are operators with
  the name of the wire. What is nondeterministic are the inputs.
* **Between edges** the environment may change what is on the wires where a
  protocol gives it a choice that has to persist (a request once raised, a
  VALID): such steps are actions of their own.
* **Two clock domains interleave.** `DebugSystem`, `EthTx` and `EthRx` have an
  action for each clock; a constant says how many edges of the fast clock lie
  between two of the slow.
* **Data are tokens.** A beat is the manager it belongs to, a byte the address
  it came from, a register a symbolic word: enough to tell a lost, repeated or
  misrouted datum from the right one. An address is what it decodes to.
* **The server is one thread**; an action is what it does from one blocking
  `recv` or prompt to the next. `pc` is the place where it waits. `GdbLink`
  models this traffic with a register as two values; `GdbRegisters` and `ImageLoad`
  model what the packets say, with every exchange answered as it should be. `CheriBounds` and
  `CheriPermissions` are the arithmetic both directions of a packet use, as
  operators.
* **History variables** (named so in their comments) record what an observer
  saw, never feed back into the design, and are what properties are about.

## 3 Modules and code

| Module | Code | State and actions |
|---|---|---|
| `ObiMux` | `obimux3w0.sv` | `mstr_mux`, `slv_mem_mux`, `slv_axi_mux`: request, pending and last-grant registers and `axi_state`; `Clock` is an edge of all three, `Issue` a master raising a request. OBI's rule that a request stays until it is granted is the environment's. |
| `ObiPort` | what the crossbar promises | one access in flight per master, responses from the slave that performed it; `ObiMux` implements it. |
| `AxiFabric` | `axi_fifo.sv` | interfaces and FIFOs that both halves use. |
| `AxiWritePath`, `AxiReadPath` | the fabric, by channel | `MgrEdge`, `SubEdge`, `DefSubEdge` (`MgrReadEdge` ...) are the edges of the manager interface, subordinate interface and default subordinate; `EnvEdge` the handshakes outside. Managers offer, subordinates answer between edges. READY and VALID of the outside are free. |
| `AxiBus` | `cheri_axi_fabric.sv` | both halves; as they share no register, a behaviour has traffic on one. |
| `AxiWriteService` | what the write half promises | five phases per write, one write at a time at a subordinate; `AxiWritePath` implements it. |
| `DmaEngine` | `dma_engine.sv`, `dma_fifo.sv`, `dma_ctrl0.sv` | read machine, write machine, FIFO, control registers in one edge; software programs an idle engine. A write burst on the bus has the length AWLEN announced and ends at WLAST. |
| `Dmibus` | `dmibus.sv` | TAP and request flag (TCK), synchroniser and APB machine (system clock). |
| `DebugModule` | `debug_reg.sv`, `mem.sv`, `rom.sv` | control, abstract commands, debug RAM, and the hart in the ROM as a sequence of places. |
| `SystemBusAccess` | `debug_reg.sv` | the memory access machine. |
| `DebugSystem` | `riscv_cheri_debug.sv` | the three composed, with a host. |
| `Plic` | `plic.sv` | gateways, notification and registers as three conjuncts of `PlicEdge`. |
| `InterruptSystem` | `tcdev_wrapper.sv`, `mmreg.sv` | the controller with the revocation engine's registers, devices and a driver. |
| `AsyncFifo` | `prim_fifo_async` (external) | the FIFOs of the MAC: each side sees the other's pointer two of its own edges late. |
| `EthTx` | `eth_mac_lite.sv`, transmit half; `send_tx_frame` of `eth_lib.c` | `TxEdge` is an edge of the system clock (machine and driver), `TxPhyEdge` one of the PHY's. A nibble is the position it has in its frame; the check sequence is the data it was computed over. |
| `EthRx` | the same, receive half; `find_rx_frame`, `release_rx_buf` | `RxPhyEdge` is the PHY delivering frames and noise into the FIFO, `RxEdge` the machine, filters, buffers and the driver. |
| `EthMac` | both | the halves share no state, so a behaviour has traffic in one direction. |
| `CheriPermissions` | `encode_permissions`, `decode_permissions` | sets of names to sets of bits and back; the six formats. |
| `CheriBounds` | `find_correct_exponent`, `find_top_nine_bits`, `decode_bounds` and their helpers | base, top and exponent of a value; the nine bits are a parameter. |
| `GdbRegisters` | `GDB_RSP_Translator.py`, `RSP_GDB_Translator.py` | one action per command on registers; a register is a number, cut and joined as the code cuts its digits. |
| `ImageLoad` | `vhex2vhex.py`, `load`, `hex_to_ascii`, `check_sum` | a line of the file, then a word to load, per step; a line may end anywhere. |
| `GdbLink` | `main.py`, `GDB_OpenOCD_Transmitter.py` | `User`, `Server`, and, external, `OpenocdAck`, `OpenocdServe` and `CoreStop`. |
| `GdbServer` | the three above | commands on registers, an image, or traffic: they share no state, so an execution has one of them. |
| `ObiMuxProofs`, `AxiProofs`, `DmaProofs`, `DebugProofs`, `InterruptProofs`, `EthProofs`, `GdbProofs`, `NaturalLemmas` | | theorems and lemmas of section 5. |
| `MC...` | | values of constants for TLC. |

PROJECT.json `map` gives the lines each definition stands for.

## 4 Runs

| Run | Question | Bounds |
|---|---|---|
| `obimux` | Do responses reach their master, exactly one per access (`ResponseRouting`, `ExactlyOnce`), is the wait at a memory at most one access of every other master (`BoundedWait`), is there one AXI transaction at a time that belongs to an access (`OneAxiTransaction`), does the crossbar implement `ObiPort`, is every request granted (`EventuallyGranted`)? | 3 masters (the design's number), 2 memories, AXI used by master 0 |
| `axi` | Writes: do beats stay in their burst and behind their address and responses come from the addressed subordinate (`OwnBeats`), are unmapped writes answered, is `AxiWriteService` implemented (`ServiceSpec`), does every write complete (`EveryWriteAnswered`)? Reads: are beats neither lost nor repeated (`BeatsConserved`), from the addressed subordinate and not interleaved (`BeatsRouted`); is every read accepted (`EveryReadAccepted`)? | 2 managers (the design's), 1 mapped and the default subordinate, FIFOs of 2 as in the design; write bursts to 3 beats, ARLEN 0 and the largest value of a 2-bit counter |
| `dma` | Is the destination a copy (`Copied`), do read bursts and the beats of write bursts stay in a page and does the first write burst send what it announced (`BeatsWithinPage`), does the count follow (`ByteCountFollows`), does every transfer end with the engine ready unless a read failed with SLVERR (`TransferEnds`)? | FIFO of 4 bytes, page of 8, beats of 1 and 2 bytes with and without increment, burst codes for 1, 2 and 4 beats, write bursts of equal and of unequal length (destination 5: two beats, one, one; destination 7: one, two, one); each transfer crosses a page on both sides; reads fail with SLVERR and DECERR, writes with SLVERR |
| `debug` | One register access per scan, with its data (`OneAccessPerScan`); each command once, moving what it says; streams touch each word; reads return; everything is served? | 3 system clocks per TCK; one general register and one CSR, two memory words |
| `interrupts` | One claim per request (`OneClaimPerRequest`), none outranked (`HighestFirst`), each sweep's end noticed once (`SweepNoticedOnce`), the highest request served? | 4 sources: tied-off 0, revocation engine, two devices; two enable masks, priorities, thresholds and types |
| `ethernet` | Is every frame on the line whole and without a pause (`FramesWhole`), taken once (`EachFrameOnce`), from a buffer the driver no longer touches (`BufferOwned`), after the gap (`GapKept`)? Is every received frame dealt with on its own, judged by the filters that are on whatever came before it (`EachFrameJudged`), and in the buffer complete (`DeliveredWhole`)? Does sending return, and is a sleeping driver woken (`DriverServed`)? | sending: the design's FIFO, thresholds, preamble and check sequence, with and without them, frames of 3 bytes, 4 system clocks per PHY clock; receiving: the same ratio, FIFO and preamble of 4, words of 3 nibbles, a good frame, one for another station with an error, noise; either filter |
| `gdb` | After any three commands, does print show the bounds (`BoundsAsAsked`), the permissions (`PermissionsAsAsked`), otype and value (`WordsAsAsked`) last asked for, whatever the others did? Is every whole word of an image where the image has it, and are the words with `$` or `#`, and only they, missing (`ImageLoaded`)? Is no register written or shown but as meant (`RegistersAsMeant`), has a continued core its breakpoints (`StopsAtBreakpoints`), does every command end (`CommandEnds`)? | two registers of 6 bits with bounds of 3 and an exponent of 2 (for 32, 9 and 4); nine ranges around the steps of the exponent, six lists of permissions; images of two segments with gaps of 0 to 3 bytes, and of one with a `$` or `#` at any place, lines cut anywhere; in the traffic 4 commands, 2 registers, 2 addresses, a list of 2 breakpoints, files of 3 words |
| `axi_write_default`, `gdb_whole_range`, `gdb_permissions`, `dma_awlen`, `dma_slverr` | disagreements between code and comment | section 6 |

**Why the bounds are enough.** The crossbar, fabric and interrupt controller
have the design's number of masters; more memories, subordinates or sources
are copies that do not interact but through what is there. FIFO depths of the
fabric are the design's. Where a size is reduced (FIFO and page of the DMA,
length counter of the read path) the ratio that matters is kept: a burst larger
than the FIFO's free room, a transfer that crosses a boundary, a counter that
wraps. In the transmitter `TX_IFG_MAX` is halved with the clock ratio (150 for
300, 4 for 8: 20 MHz over 2.5 MHz); three bytes are longer than the FIFO's
start threshold and, with preamble and check sequence, than the FIFO. In the
receiver four clocks per nibble leave the FIFO empty between nibbles, as the
design's eight do; the FIFO is as deep as the preamble is long, as in the design, and a
frame needs a full and a partial word. The clocks' phase is free in both
because a frame may start at any edge. The scaled capability keeps the
relations of the real one: an exponent that fits the field, a full exponent
that does not, a base and top that wrap against the value, and lengths on both sides of
each step. Three commands are enough for one to disturb what another left in
the encoder, the dictionary or the other half of the register; four on the link for
a stop reply of the first to arrive in the last. Bytes of the images differ
from each other, but for the one that is `$` or `#`; none is `}`, which a packet would
have to escape. History variables are bounded by what the invariants let grow.

**AXI in the crossbar.** The run `obimux` lets only master 0 address AXI
because the grant goes to no one else (section 6, last list). Only the data port of the
core is known to use it; a debugger that does hangs.

**Fairness.** Hardware runs because its clock does, so weak fairness of the
clock edge is all a design adds. What lies outside has to answer: `obimux`
assumes an AXI subordinate that becomes ready and valid, `axi`
and `dma` that ready inputs are not low for ever and responses come,
`debug` that the hart executes, grants and responses come, `interrupts` that a
sweep ends. None is assumed of a manager, a master or a driver beyond finishing
what it began: a write whose beats are never offered is not owed a response, so
offering beats is fair. `ethernet` needs the driver's core to execute, and for
sending to do so again and again while the line is free: strong fairness,
because a busy line takes the chance away in between. `gdb` needs the server and
OpenOCD to go on and a step of the core to end, each by weak fairness: a
process that can run does. The user owes no command and a running core no stop.

**Assumptions about the environment that matter.**
* *Clock ratio.* `Dmibus` reads the JTAG shift register live from the other
  domain and has no handshake back. With three or more system clocks per TCK
  all of `debug` holds. With two, a read can return the value of the access
  before; with one, a scan can be performed with the wrong data. (Change
  `ClkPerTck` in `MCDebugSystem.cfg` to see it.)
* *Pace of the core.* The interrupt controller's identifier is a cycle behind
  its pending bits. A core that accessed it in consecutive cycles could claim a
  request it had just completed; the modelled core has at least a cycle between
  accesses, as one waiting for a response has.
* *Sweeps.* A driver ends the handling of one sweep before it starts the next.
* *Preamble.* The receiver samples the error flag of a FIFO entry whether or
  not there is one (`eth_mac_lite.sv:921`). What it sees when the FIFO is empty
  is an old entry; the preamble, 16 nibbles for 16 entries, has overwritten those of
  the frame before. A PHY that delivers less of it is not modelled (set
  `RxPreLen` to 2 to see a good frame rejected).
* *MAC clock.* `TX_IFG_MAX` is written for 20 MHz. `build/Readme.md:6` also
  lists 30 and 33 MHz, where 300 clocks are too short: with `TxRatio = 13`,
  `TxIfgMax = 300` TLC finds `GapKept` violated, with `TxRatio = 8` not.
* *A prompt OpenOCD.* The server's timeouts are 0.5 and 2 seconds. In
  `GdbLink` they are longer than OpenOCD takes to acknowledge and answer a
  packet and the core to make a step, so that a timeout means that nothing is on its
  way; they are not longer than a running core runs. OpenOCD is modelled from
  what the server expects of it: it acknowledges each packet, answers in
  order, reports a stop when it happens, and answers `E0E` where the core
  would have to be halted.
* *Alignment and counts.* Software keeps DMA addresses and counts multiples of
  both beat sizes, and counts below 4096. The count register has 32 bits, of which
  20 are put on a port of 12 (`dma_ctrl0.sv:82`): a transfer of 4096 bytes
  would start with a count of 0, and its counters wrap. Nothing in the hardware
  refuses it; `TransferAssumption` leaves it out.
* *A bus that ends a write burst at WLAST.* The modelled bus takes beats until WLAST,
  as the fabric and the memories do, whatever AWLEN announced. The data mover bridge
  counts AWLEN (`dmb.sv:291`), and waits for beats that never come when a later burst
  of a transfer is shorter than the first (finding 4).
* *Breakpoints taken.* The modelled OpenOCD refuses `Z0` only while the core runs. The
  server ignores the answer (`GDB_OpenOCD_Transmitter.py:159`), so a breakpoint refused on
  a halted core would be missing unnoticed.

## 5 Proofs

TLC checks the instances above; TLAPS proves for every value of the constants.

**Crossbar** (`ObiMuxProofs`; any number of masters, any set of memories, AXI
addressed by master 0 at most, because the grant goes to no other). None of the properties is inductive: that a
response reaches its master depends on the master's pending flag agreeing with
a flag in the slave. `IInv` is the conjunction of
* `MemInv`: a master waits for a memory's response exactly while that memory
  raises it, having performed that master's access last;
* `AxiInv`: the AXI machine works for master 0 alone, which holds its request
  until it is accepted and then waits for the response;
* `BusInv`: the handshakes the subordinate has seen, from the machine's registers;
* `ExactlyOnce`, the property itself;
* `WaitInv`: the accesses a waiting master has been passed over and its
  distance from the round-robin pointer add up to less than the number of
  masters.

`Invariance` proves it by the cases of `Next` (an edge, a new request), and
from it follow `TypeCorrect`, `RoutingCorrect`, `NothingLostOrRepeated`,
`NoStarvation` (the bound of round robin, by arithmetic on distances around the
ring), `AxiPhases`, and `CrossbarImplementsPort`, the refinement of `ObiPort`.

**Write path** (`AxiProofs`; any number of managers and subordinates, FIFOs of
any size, bursts of any length, unmapped writes from any manager). Beats carry
no address, so that they reach the right subordinate depends on the state
machines of two interfaces agreeing. `IInv` says in what way:
* `MgrInv`: in each state of the write machine, what the manager has left to
  do and what its FIFOs hold (`MgrRests`, `MgrWaits`, `MgrSends`); the newest
  beat is marked last exactly if the manager has no more (`Marked`);
* `SubInv`: in each state of the subordinate interface, whether the owner's
  address and last beat are in the interface or with the subordinate
  (`SubAddr`, `SubBeats`, `SubAnswer`), and what the owner is doing meanwhile
  (`SubOwner`). A last beat held here implies that the owner's
  FIFO is empty, so the interface cannot close on half a burst;
* `RespInv`: a write of which nothing is left but the response has exactly one,
  and no other write has any.

The first lemmas are about the handshakes in such a state
(`Accepted`, `Feeder`: at most one manager feeds a subordinate, the one that
owns it after the edge), the lemmas `...Move` say what one edge does to each register,
and `MgrClock`, `SubAddrClock` ... `RespClock` put them together. Results:
`Invariance`, `BeatsOwned`, and `ServiceImplemented`, the refinement of
`AxiWriteService`: `PhaseTable` reads the phase of a write from the invariant,
`ClockServes` and `StartServes` show that a step moves it by at most one. The
lost response of finding 1 breaks none of these: the write stays "taken".

**Read path** (`AxiProofs`; any number of managers and subordinates, FIFOs of
any size, reads of any length). A read goes from the manager's address FIFO
through a subordinate interface into a burst of beats, and only the counts tell that none
is missing. `ReadInv` says where it is:
* `ReadMgr`, `ReadSub`: a manager has one read at a time, and a subordinate interface that
  is in progress has exactly one, which waits in it or is being served;
* `ReadBeats`, `Bursts`: every beat in a data FIFO is for a manager that reads from there,
  and beats of another manager follow only a LAST;
* `BeatsConserved`, the property itself: beats in both FIFOs and beats to come add up to
  what the manager still waits for, and the beat that completes the sum is the one marked.

From the sum, `OnePlace` derives that the read is in one place only, so a manager that takes
its last beat leaves nothing behind (`LastLeaves`). `FifoMoves` and `CountMoves` say
what an edge does to a queue and to the number of beats for one manager in it;
`ReadAddressMoves` ... `DataMoves` apply them to each FIFO. `ReadMoves` shows that what is to
come is less by the beat that the subordinate gives, whether it is the default one,
which counts modulo its width, or another; `SumNext`, `MarksNext`, `SubMarksNext` and
`BurstsNext` put this together. Results: `ReadInvariance`, `BeatsArrive`,
`BeatsComeFromSource`.

**Interrupts** (`InterruptProofs`; any number of sources, any set of
configuration writes). `IInv` is `TypeOK`, the properties themselves and
* `ClaimInv`: what the core holds or is about to read agrees with the locked
  notification and the gateways;
* `SweepInv`: each stage of the driver's dealing with a sweep agrees with the
  status bits it has or has not yet seen;
* `OnePlace`: the end of a sweep is in at most one place on its way to the
  driver, and in one while it is owed.

`WinnerFacts` shows that the comparison of priorities always has a winner, by
well-foundedness of the naturals; `ClaimStep`, `SweepStep` and `TypeStep` carry
each part over an edge. Results: `InterruptTypes`, `ClaimedOnce`,
`ClaimsHighest`, `SweepsNoticed`.

**Ethernet, the buffers** (`EthProofs`; any FIFO, frame length and clock ratio). The
driver reads two status registers in turn while the machine clears them.
`BufferOwned` and `EachFrameOnce` need two facts more: `BusyInv`, the buffer
being sent has its status set until the machine is done, and `PollInv`, a poll
that has found a buffer free leaves one free, since only the driver sets a
status. `MachineStep` and `DriverStep` say what an edge does to each side,
`EdgeStep` puts them together. Results: `DriverOwnsBuffer`, `FramesTakenOnce`.

**Ethernet, the line** (`EthProofs`; any frames, preamble and thresholds). Nothing
tells the machine whether the FIFO has run empty: a frame is whole because the
machine writes faster than the PHY reads, and the gap is kept because the machine
pauses for long enough. Both are hypotheses, as no file promises a clock.
`SlowTxPhy`: at least four system clocks per clock of the PHY (8 at the 20 MHz
the constants are meant for, 13 at 33), and a threshold of three entries
or more (12) that the FIFO holds (16). `Pause(g)`: `TX_IFG_MAX` covers `FillBelow + 4 + g` clocks
of the PHY: the entries a frame may leave in the FIFO, those the line takes to start
and to see the last, and the `g` clocks the line is to be idle. `TxIInv(g)` is
* `HandedInv`, `CountInv`, `PipeInv`: the buffer still has what was handed over, and
  counters and registers agree with `Made`, the nibbles written so far;
* `ContentInv`: the FIFO holds the nibbles of the frame from `Left` to `Made`;
* `LevelInv`: what each side has not seen of the other, so that no entry is lost;
* `SentInv`: what has left the FIFO is what has been on the line;
* `FlowInv`: while a frame is on the line and not written to its end, the reader sees an
  entry, will see one on the next clock, and three clocks of the writer
  after a read there are `FillBelow` entries or one on its way;
* `PauseInv(g)`: the clocks of the PHY that are needed (`Need`) until the line has been
  idle for `g` never exceed what is left of the pause, and are none when the
  machine is idle; the frame that comes next waits three clocks more.

`Writes`, `Advances` and `Edge...` are an edge of the system clock, `Reads`, `Sees`
and `Phy...` one of the PHY's; `WaitFalls` and `NeedFalls` count the clocks of the PHY
down. Results: `FramesStayWhole` from `Pause(1)`, `GapIsKept` from
`Pause(MinGap - 3)`. The design's 300 system clocks are 37 of the PHY at
20 MHz, and `12 + 4 + 21` is 37: the constant is as small as the argument allows. At
33 MHz `Pause(21)` fails, as does the gap (section 4), and `Pause(1)` holds: frames stay
whole.

**Ethernet, the receiver** (`EthProofs`; any frames, filters, word length and
preamble). `SlowPhy`: at least four system clocks per clock of the PHY, a FIFO of three entries
or more, and a preamble that fills it. The preamble matters because the error flag is
read from the slot an empty FIFO shows. `RxIInv` is
* `LineInv`, `EntryInv`, `FifoInv`: one frame at a time is on its way, and the FIFO holds
  at most its latest entry: the machine is done with each before the next;
* `MachineInv`: the state follows from how many entries have been popped;
* `SlotsInv`: no slot written since the frame began carries another's error;
* `CheckInv`: match, error and check sequence are those of the nibbles counted so far;
* `WordInv`: each nibble counted is in the buffer, or in the register that will be written
  there, at its place (`Held`).

`PhyStep` and `RxEdgeStep` carry it over an edge of either clock; `NextPlace` and
`EarlierPlace` are the arithmetic of words, `Shifted` and `Entries` that of the
slots. Results: `FramesJudged`, `Delivered`.

**DMA** (`DmaProofs`; any FIFO and page, any transfers that software aligns).
That the beats of a burst stay in a page depends on the arithmetic of `f_get_beats` and on the
registers it reads. `IInv` says that addresses and remaining counts stay multiples of
the beat size (`RdInv`, `WrInv`), that a burst is requested with the length computed
for it, that what is left of it fits into the room up to the page's edge, and that the
bus and the write machine agree on where the burst is (`WBurstInv`). `BeatsFit` is the
arithmetic: at least one beat fits, because the room is itself a multiple, and as
many as the function returns; `NextBeat` takes one beat off. `StartInv` has the
machines start from what software wrote, `CountInv` has the byte count, for which
`CountStep` shows that the beat flag is up exactly on the edge after a beat.
`CopyInv` has the data: read machine, bus burst, FIFO and write machine agree on
how far the transfer is, and each byte on the way, or in
the destination, is the one of the source at the address it is for (`RdCopy`, `FifoCopy`,
`WrCopy`, `OutCopy`), as long as no read has failed.
`AnnounceInv` has AWLEN: in a transfer's first burst, the beats still to come by AWLEN
are those by `w_len`; in a later one nothing ties them together, because
AWLEN is not loaded again (finding 4). Results: `PagesKept`, for read bursts as ARLEN asks
for them and for write bursts as they are sent up to WLAST, with the first of a transfer as it is announced
(`AnnounceInvariance`); `CountFollows`; `EverythingCopied`, for counts the port can
carry and a bus that ends a write burst at WLAST.

**Debug** (`DebugProofs`; any number of registers, memory words, commands and
values). A scan's answer is captured while the request of the same scan may still be
crossing the clock domains, so there is a hypothesis about time, `SlowTck`: at
least three system clocks per TCK. A result takes five system clocks after
the update, and the capture comes two TCK edges later. It is a hypothesis of the
theorems and not an `ASSUME`, because no file of the repository promises it.
* `LinkInv`, `FitsInv`: in each phase of the handshake, what both sides hold,
  and how many clocks are left until it is needed;
* `HartInv`, `PlanInv`: where in the debug ROM the hart can be with which flag,
  and that what it has performed, followed by what is pending, is what the host asked for;
* `ValueInv`: registers, data and s0 saved aside, halfway through a command;
* `SbInv`, `ReadInv`: the same for streams of system bus accesses, and for the
  value that the next scan returns.

Results: `AccessOnce`, `CommandOnce`, `CommandsDo`, `MemoryMeant`, `ReadReturned`.

**Capabilities** (`GdbProofs`; fields of any width, any granularity).
`PermissionsRoundTrip`: a list of permissions decodes to none but itself, and, if one of the
six formats holds it, to all of itself but EX, SR, U0, SE and US, which are never
shown (finding 3), by cases over the order in which the encoder tests the formats. `BoundsRoundTrip`: base, top and exponent are stored in
fields that lose their upper bits, and the decoder restores these from the
value. `SmallestExponent` says that the encoder takes the least exponent whose
limit exceeds the length, `SameOrNext` that two numbers less than `m` apart are in
the same or in neighbouring blocks of `m`, so that comparing the stored fields
with those of the value tells the block (`Corrections`, `StoredAndShown`). Exponents that the field cannot hold
are excluded: finding 2. Powers of two enter as positive
numbers (`FieldsAssumption`), all that the argument needs.

**The link** (`GdbProofs`; any registers, addresses, files, number of
commands and length of the list). What a token in the socket means depends on
the command it was sent for. `IInv` says so for every place at which the server
waits:
* `PromptInv`: at the prompt nothing is owed, and only stop replies can have arrived;
* `ReadInv`, `AllInv`: a register that has arrived is that of a halted core which
  nothing on the way will start, and so is still true when it is written back or shown;
* `WriteInv`: the core stays halted while a register is written, and the packet
  is what the register had with one half replaced;
* `StepInv`, `PlantInv`, `ContinueInv`, `RemoveInv`: one packet at a time, that
  of the breakpoint the loop has reached, and the ones before it are planted;
* `LoadInv`: words may be under way after the server has stopped waiting for
  their answers, but nothing else is.

`UserStep`, `ServerStep`, `AckTokenStep`, `ServeStep` and `StopStep` carry it over
the five kinds of step. Results: `Breakpoints` and `RegistersWrittenAndShown`. Both rest on
the prompt OpenOCD of section 2's assumptions: a stop reply may come at any
time and be taken for an answer, but an answer never comes after the
server has given it up.

**Commands on registers** (`GdbProofs`; fields, registers and packets of any
size, any registers, any number of commands). Each command reads a register
from a packet, replaces one field of its string of digits, and writes all of it back.
`RegIInv` is
* `RegTypes`: registers have their width, so a packet has its number of digits;
* `Meets`, of every register: each field has what was last asked of it, the
  bounds encoded with the smallest exponent, the permissions by the
  encoder, and the tag is set exactly if anything was asked;
* `UpToDate`: the rows printed are decoded from the registers as they are.

The encoder's exponent and the decoder's dictionary outlive a command and are
not in the invariant: it holds whatever an earlier one left in them.
`Hexadecimal` and `PacketRead` show that a number in hexadecimal digits, turned
round twice, is read as that number; the recursive `Number` is compared with the
leading digits of the number by a least counterexample (`NumberOf`). `FieldAssigned`
says what replacing a field does to itself and to the digits on both
sides; `FieldBelow` and `FieldAbove` read the other fields. `BoundsString` puts exponent, base and
top together, `PermissionsRead` the six digits of the permissions, and `Set...Step` carries
the invariant over a command. With the two round trips it gives `WordsShown`,
`PermissionsShown` and `BoundsShown`. The hypotheses are that
registers are as wide as they are at first (`FirstFits`) and that the user types what fits its field
(`InputFits`), which the code does not check: bounds of finding 2 do not fit, nor does
an otype of four digits.

**Loading an image** (`GdbProofs`; any segments in ascending order, lines of any
length, any memory). `ImageIInv` is
* `DataInv`: the bytes read so far are, one by one, those meant from the first address on,
  gaps included;
* `FileInv`: the line to come is the address of the next segment or the next bytes of this
  one, which depend on `addr` alone;
* `WordsInv`: how many words are loaded, by the address; what is left of the file is the
  words that follow, and memory has the bytes meant below that address and is untouched
  elsewhere.

`ByteOfSegment` and `ByteOfGap` say what an address is meant to hold, `FileStep` and `DataStep`
what a line does, and `WordStep` what a packet does: its bytes are those of the
file's word turned back (`WordBytes`), and OpenOCD accepts it (`PlainAccepted`). The theorem
`ImageIsLoaded` has words of four bytes, as `main.py` takes them, and
images none of whose bytes is `$`, `#` or `}` (`PlainImages`): words with one of the first two are
lost, as the run shows, and what OpenOCD makes of the third is not modelled.

**Assumptions** of the theorems are the named `ASSUME`s of the modules (sizes
positive, constants distinct, configuration writes well-typed, names of registers with
a number each, segments in order), which TLC evaluates
in the passing runs. `PowersAssumption` has the laws of powers of two, which the provers do not
know, as far as a register is wide. `SlowTck`, `SlowPhy`, `SlowTxPhy`, `Pause`,
`FirstFits`, `InputFits`, `PlainImages` and `bus_width = 4` are hypotheses where a theorem
names them; the configurations of the passing runs satisfy these too.

**Only model-checked:** the liveness properties, for which the prover has neither
fairness nor ENABLED. Every other property of a passing run is stated by a theorem.
Facts about recursive definitions for all inputs would need
induction over an operator parameter, which the prover cannot instantiate; the one needed is
proved by a least counterexample. The sum of a packet is left folded: sender and receiver
form the same one.

## 6 Findings

Each of the first five is a run that TLC must find violated; PROJECT.json
quotes the comments.

1. `axi_def_sub.sv:79`: address and last beat on one edge lose the response
   of an unmapped write, and the interface waits for ever (`axi_write_default`).
   It takes a write that waits for the default subordinate while its data
   arrive; in the passing run only manager 0 writes to unmapped addresses, so
   it never has to wait there.
2. `GDB_RSP_Translator.py:194`: bounds of the whole address space are written
   with an exponent of five digits into a field of four; otype, permissions
   and the reserved bit move one place to the left (`gdb_whole_range`).
3. `CHERI_Encoder.py:160`: the format for EX, LD and MC is tested after that for LD and
   MC, so EX and SR are always lost; U0, SE and US are stored, but the decoder
   (`CHERI_Decoder.py:276`) looks for them only where all three are 0 (`gdb_permissions`).
4. `dma_engine.sv:385`: every burst but the first of a transfer goes out with the AWLEN of the
   first. One that is shorter, because it ends at a page or with the transfer, is
   announced across the page's edge that `f_get_beats` cuts it at (`dma_awlen`).
5. `dma_engine.sv:178`: a read error is to force the write burst to its end; only bit 0
   of the response is used, which SLVERR does not have. The write machine waits
   for ever (`dma_slverr`; `TransferEnds` names that state `Starved` and shows that it is the
   only one).

Met while modelling, and not given a run each:

* `obimux3w0.sv:421`: the AXI grant is a one-bit value assigned to a vector,
  so only master 0 is ever granted; another master's access to AXI is repeated
  for ever. `obimux` has only master 0 use it.
* `dma_engine.sv:284`: the comment says a transfer ends at a burst boundary; it ends at the beat.
* `debug_reg.sv:549`: CSR and SCR commands save s0 over the word they transfer.
  `:446`: a command of unsupported size is refused, but its program buffer runs.
* `eth_mac_lite.sv:866`, `:552`: the receiver prefers buffer 0, so the order of
  two full buffers is lost; a transmit length of 0 wraps.
* `axi2apb.sv:178`, `dmb.sv:406`: a write burst repeats its first beat; a read of an invalid
  register address is never answered.
* Server, commands: `setall` contains `set` and is taken for it, so it ends in a
  KeyError (`GDB_RSP_Translator.py:185`); a file name with a keyword in it
  is taken for that command. An otype that
  is not of three digits shifts the fields above it. A breakpoint entered twice is in the
  list twice.
* Server, traffic: a reply that arrives in one piece with the acknowledgement is
  thrown away with it, and the wait for it ends in a timeout nobody catches. A
  stop reply that comes during `info registers` shifts every digit shown, which
  is why `RegistersAsMeant` excepts it (without the exception TLC shows this). An error that arrives with the
  acknowledgement of a loaded word is passed over in silence. Breakpoints are
  removed after two seconds of silence although the core still runs
  (`main.py:110`).
* Images: the checksum passes over bytes that are `$` or `#` (`GDB_RSP_Translator.py:406`), so OpenOCD
  refuses a word with one and it is missing in memory without a message; `ImageLoaded`
  says so. The last partial word is dropped, a descending segment address is
  not noticed, and `}` is not escaped.

## 7 What is not covered

* **Not modelled yet** (planned): APB bridge, UART, timers, SPI,
  I2C, data mover bridge.
* **Not modelled:** memories (storage; where one matters it is a function),
  CPU trace and backdoor (observation only), GPIO (no protocol), top-level
  wiring and FPGA board files (connections and clocks), `obimux3.sv` (not
  instantiated), test benches, firmware and scripts. The cores are git
  submodules that are not part of the repository: each model has the core as
  its environment.
* **Left out of the Ethernet MAC:** MDIO, counters, collision flags (they change
  no other state), the transmit and the early interrupt (the driver uses
  neither), frames too short to leave the FIFO or too long for the counters,
  the AXI interface (`UseAXI(0)`). The four address matchers are one.
* **Left out of the DMA:** counts of 4096 and more (section 4), byte lanes, register writes while it
  runs.
* **Left out of the server:** the text it prints, `add_copyright.py` and the
  `bin2vhx` scripts (file formats without state), malformed lines of an image
  (which end either program with an exception), `}` in an image, `Z0` refused on a halted core, `G` packets (never sent), and
  the acknowledgements the server sends, which OpenOCD passes over.
* **Abstracted:** data and byte lanes, AXI attributes (cache, protection,
  user), bits of the JTAG chain one by one, the program buffer's instructions.
* **Metastability** of synchronisers is not modelled; two flops are two edges.

## 8 Plan

Done: crossbar, fabric, DMA, debug, interrupts, Ethernet, GDB server. The order of what is left:

1. `ApbBridge` with `Uart` and `Timers` behind it; a run for the peripheral
   bus. Properties: one APB access per AXI access, received bytes in order, no
   timer event lost on the way to the core.
2. `DataMover`, then SPI and I2C.
3. Proofs: the same for the modules that are added.

------------------------------- MODULE EthMac -------------------------------
(***************************************************************************)
(* The Ethernet MAC (msftDvIp_eth_mac_lite.sv): its two halves share the   *)
(* register bus and the carrier, and no state.  Any carrier is possible    *)
(* whatever the other half does, so an execution of both shows each half   *)
(* nothing that it does not see alone: an execution of the model has       *)
(* traffic in one direction, chosen at the start.                          *)
(***************************************************************************)
EXTENDS EthTx, EthRx

VARIABLE direction

vars == <<txVars, rxVars, direction>>

\* The half without traffic keeps one configuration.
Init ==
  /\ TxInit /\ RxInit
  /\ \/ direction = "transmit" /\ rx_addr_filt
     \/ direction = "receive" /\ ~tx_raw_mode

Transmit == direction = "transmit" /\ TxNext /\ UNCHANGED <<rxVars, direction>>
Receive  == direction = "receive"  /\ RxNext /\ UNCHANGED <<txVars, direction>>

Next == Transmit \/ Receive

Spec == Init /\ [][Next]_vars

\* The clocks run; the driver's core executes instructions again and again, and
\* for the transmitter again and again does so while the line is free.
Driver == \/ direction = "transmit" /\ TxEdge(TRUE, FALSE) /\ UNCHANGED <<rxVars, direction>>
          \/ direction = "receive" /\ RxEdge(TRUE) /\ UNCHANGED <<txVars, direction>>
clocks == <<tx_clks, rx_clks>>     \* every step changes them
FairSpec == Spec /\ WF_clocks(Next) /\ SF_clocks(Driver)

-----------------------------------------------------------------------------
(* Properties (those of one half are in its module)                        *)

\* Every call of send_tx_frame gets a buffer and returns.  A driver that sleeps
\* until the interrupt never sleeps while a buffer is full: as long as there is
\* a frame, it goes on taking frames.
DriverServed ==
  /\ txpc # "idle" ~> txpc = "idle"
  /\ rx_stat # {} ~> rxpc = "release"
=============================================================================

-------------------------- MODULE MCInterruptSystem --------------------------
(* InterruptSystem for TLC: two level devices above the revocation engine,   *)
(* the driver masks one of them, moves priorities, threshold and type.      *)
EXTENDS InterruptSystem

MCConfig ==
  {Write("enable", {1, 2, 3}), Write("enable", {1, 3}),
   Write("pri", [src |-> 1, pri |-> 2]),
   Write("pri", [src |-> 2, pri |-> 1]), Write("pri", [src |-> 3, pri |-> 3]),
   Write("type", {3}), Write("thres", 1), Write("inten", TRUE), Write("inten", FALSE)}
=============================================================================

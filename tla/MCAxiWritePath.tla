--------------------------- MODULE MCAxiWritePath ---------------------------
(* AxiWritePath with the two managers of the design, for TLC.              *)
EXTENDS AxiWritePath
=============================================================================

------------------------------ MODULE MCAxiBus ------------------------------
(* AxiBus with the two managers of the design, for TLC.                    *)
EXTENDS AxiBus
=============================================================================

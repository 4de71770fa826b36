------------------------------ MODULE MCObiMux ------------------------------
(* ObiMux with the three masters of the design, for TLC.                   *)
EXTENDS ObiMux, TLC

\* The memory slaves are interchangeable.
MemSymmetry == Permutations(MemSlaves)
=============================================================================

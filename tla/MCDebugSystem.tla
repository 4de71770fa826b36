--------------------------- MODULE MCDebugSystem ----------------------------
(* DebugSystem for TLC: all kinds of commands on two registers, one host     *)
(* word, two words of memory.                                               *)
EXTENDS DebugSystem
=============================================================================

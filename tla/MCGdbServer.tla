----------------------------- MODULE MCGdbServer ----------------------------
(* GdbServer with scaled-down capabilities, small images, and two registers *)
(* and one or two breakpoints in the traffic, for TLC.                      *)
EXTENDS GdbServer, MCGdbRegisters

\* Bytes told apart by their place.
Numbered(from, n) == [k \in 1 .. n |-> 200 + from + k]
\* Two segments with a gap of zero to three bytes; and a word with a "$" or a "#"
\* in it, at any place of it, before or after others.
MCImages ==
  {<<[at |-> at, bytes |-> Numbered(0, k)], [at |-> at + k + gap, bytes |-> Numbered(k, n)]>> :
      at \in {0, 6}, k \in 0 .. 7, gap \in 0 .. 3, n \in 0 .. 4}
  \cup
  {<<[at |-> 2, bytes |-> [Numbered(0, 9) EXCEPT ![k] = c]]>> : k \in 1 .. 9, c \in {Dollar, Hash}}

MCLines == {{"info registers"}, {"set"}, {"set", "setall"}, {"breakpoint"}, {"stepi"},
            {"print"}, {"continue"}, {"remove"}, {"load"}, {}}
=============================================================================

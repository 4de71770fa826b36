--------------------------- MODULE MCGdbRegisters ---------------------------
(* GdbRegisters with scaled-down capabilities, for TLC.                    *)
EXTENDS GdbRegisters

MCRegisters == ("$ra" :> 1) @@ ("$pc" :> 2)

\* Lengths around the step of each exponent, bounds that wrap in their field,
\* and a base above the top.
MCRanges == {<<0, 6>>, <<5, 11>>, <<8, 15>>, <<13, 27>>, <<17, 44>>, <<30, 33>>,
             <<40, 63>>, <<2, 2>>, <<9, 8>>}
\* A list for each format, and words that fit none.
MCPermLists == {{"LD", "MC", "SD", "LM"}, {"LD", "MC", "EX", "GL"}, {"SD", "MC"},
                {"SD", "MC", "LG"}, {"LD", "GL"}, {"U0", "XX"}}

\* For a violation: the whole address space.
MCWholeRange == {<<0, 64>>}
=============================================================================

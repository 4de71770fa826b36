---------------------------- MODULE MCDmaEngine -----------------------------
(* DmaEngine at a quarter of its FIFO, for TLC: pages of 8 bytes, beats of  *)
(* one and two bytes, transfers that cross a page on both sides.            *)
EXTENDS DmaEngine

\* Write bursts of equal length, at every mix of sizes and increments; and at
\* two odd addresses those of two beats, then one, and of one, then two.
MCTransfers ==
  [bytes : {4}, src : {6}, dst : {6}, rinc : BOOLEAN, winc : BOOLEAN,
   rsize : {0, 1}, wsize : {0, 1}, rburst : {0, 2}, wburst : {1}]
  \cup
  [bytes : {4}, src : {6}, dst : {5, 7}, rinc : {TRUE}, winc : {TRUE},
   rsize : {1}, wsize : {0}, rburst : {0}, wburst : {1}]

\* For the violations.
MCUnequalBursts == {t \in MCTransfers : t.dst = 5}
MCPlainTransfer == {t \in MCTransfers : t.dst = 7}
=============================================================================

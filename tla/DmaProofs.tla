------------------------------ MODULE DmaProofs ------------------------------
(***************************************************************************)
(* The DMA with any FIFO, page and set of transfers: the beats of a burst  *)
(* stay in their page, the byte count is what is left to write, and every  *)
(* byte of a transfer without errors arrives in its place.                 *)
(***************************************************************************)
EXTENDS DmaEngine, NaturalLemmas, TLAPS

Multiple(x, m) == \E q \in Int : x = m * q
States == {"IDLE", "SETUP", "WAIT", "DATA"}
Aligned(addr, cnt, inc) == /\ addr \in Nat /\ cnt \in Nat \ {0} /\ inc \in Nat \ {0}
                           /\ Multiple(addr, inc) /\ Multiple(cnt, inc) /\ Multiple(PageBytes, inc)
\* Bytes from addr on that are still in its page.
Room(addr) == PageBytes - (addr % PageBytes)

\* A transfer that waits to be accepted finds both machines idle and its
\* registers as software wrote them.
StartInv ==
  /\ start \in BOOLEAN /\ byte_cnt \in Int
  /\ cfg \in Transfers \cup {NoTransfer}
  /\ start => /\ cfg \in Transfers /\ dma_rdy /\ ~rd.beat /\ ~wr.beat
              /\ src_addr = cfg.src /\ dst_addr = cfg.dst /\ byte_cnt = cfg.bytes

\* Each burst is asked for with as many beats as fit: into the page, and into
\* what is left.
RdTypes ==
  /\ DOMAIN rd = {"state", "araddr", "arvalid", "size", "burst", "rdBytes", "rdInc", "r_len",
                  "error", "done", "beat"}
  /\ rd.state \in States /\ rd.arvalid = (rd.state = "WAIT") /\ rd.beat \in BOOLEAN
  /\ r_addr_inc \in Nat
RdInv ==
  /\ rd.state # "IDLE" => /\ cfg \in Transfers
                          /\ rd.size = cfg.rsize /\ rd.burst = cfg.rburst /\ rd.rdInc \in BOOLEAN
                          /\ Aligned(rd.araddr, rd.rdBytes, r_addr_inc)
  /\ rd.state = "WAIT" => rd.r_len = rbeats
RBurstInv ==
  /\ DOMAIN rburst = {"addr", "left", "step"}
  /\ rburst.addr \in Nat /\ rburst.left \in Nat /\ rburst.step \in Nat
  /\ rresp # None => rburst.left > 0
  /\ rburst.left > 0 /\ rburst.step > 0 => rburst.left * rburst.step <= Room(rburst.addr)

WrTypes ==
  /\ DOMAIN wr = {"state", "awaddr", "awvalid", "size", "burst", "wrBytes", "wrInc", "awlen", "w_len",
                  "wlast", "bready", "error", "done", "beat"}
  /\ wr.state \in States \cup {"RESP"}
  /\ wr.awvalid = (wr.state = "WAIT") /\ wr.bready = (wr.state = "RESP")
  /\ wr.beat \in BOOLEAN /\ wr.beat => wr.state \in {"DATA", "RESP"}
WrInv ==
  /\ wr.state # "IDLE" =>
       /\ cfg \in Transfers
       /\ wr.size = cfg.wsize /\ wr.burst = cfg.wburst /\ wr.wrInc = cfg.winc
       /\ wr.awaddr \in Nat /\ wr.wrBytes \in Nat
       /\ Multiple(wr.awaddr, w_addr_inc) /\ Multiple(wr.wrBytes, w_addr_inc)
  /\ wr.state \in {"SETUP", "WAIT", "DATA"} => wr.wrBytes > 0
  /\ wr.state = "WAIT" => wr.w_len = wbeats
  /\ wr.state = "DATA" => /\ wr.w_len \in 0 .. 15 /\ wr.wlast = (wr.w_len = 0)
                          /\ (wr.w_len + 1) * w_addr_inc <= wr.wrBytes
                          /\ cfg.winc => (wr.w_len + 1) * w_addr_inc <= Room(wburst.addr)
\* The bus and the write machine agree on where a burst is.
WBurstInv ==
  /\ DOMAIN wburst = {"addr", "left", "open", "ended"} /\ wburst.addr \in Nat
  /\ wburst.open <=> wr.state \in {"DATA", "RESP"}
  /\ wburst.ended <=> wr.state = "RESP"
  /\ bresp # None => wburst.ended

CountInv ==
  /\ fifo \in Seq(Int) /\ out \in Seq(Int \X Int)
  /\ ByteCountFollows

IInv == StartInv /\ RdTypes /\ RdInv /\ RBurstInv /\ WrTypes /\ WrInv /\ WBurstInv /\ CountInv

-----------------------------------------------------------------------------
(* Arithmetic of bursts                                                    *)

\* A positive multiple is at least its divisor; sums and differences of multiples.
LEMMA AtLeast ==
  ASSUME NEW m \in Nat \ {0}, NEW x \in Int, x > 0, Multiple(x, m)
  PROVE  m <= x
<1>1. PICK q \in Int : x = m * q  BY DEF Multiple
<1>2. q >= 1
  <2>1. CASE q <= 0
    <3>1. m * q <= m * 0  BY <2>1, Monotonic
    <3> QED  BY <1>1, <3>1
  <2> QED  BY <2>1
<1>3. m * 1 <= m * q  BY <1>2, Monotonic
<1> QED  BY <1>1, <1>3

LEMMA Sums ==
  ASSUME NEW m \in Nat \ {0}, NEW x \in Int, NEW y \in Int, Multiple(x, m), Multiple(y, m)
  PROVE  Multiple(x + y, m) /\ Multiple(x - y, m)
<1>1. PICK q \in Int : x = m * q  BY DEF Multiple
<1>2. PICK r \in Int : y = m * r  BY DEF Multiple
<1>3. x + y = m * (q + r) /\ x - y = m * (q - r)  BY <1>1, <1>2
<1>4. q + r \in Int /\ q - r \in Int  OBVIOUS
<1> QED  BY <1>3, <1>4, Zenon DEF Multiple

LEMMA Products ==
  ASSUME NEW m \in Nat \ {0}, NEW n \in Int
  PROVE  Multiple(n * m, m) /\ Multiple(m, m)
<1>1. n * m = m * n /\ m = m * 1  OBVIOUS
<1> QED  BY <1>1 DEF Multiple

LEMMA NoRemainder ==
  ASSUME NEW m \in Nat \ {0}, NEW x \in Nat, x % m = 0
  PROVE  Multiple(x, m)
<1>1. x = m * (x \div m) /\ x \div m \in Int  BY Division
<1> QED  BY <1>1 DEF Multiple

\* The room to the page's edge is a multiple, too.
LEMMA RoomFacts ==
  ASSUME NEW addr \in Nat
  PROVE  /\ Room(addr) \in 1 .. PageBytes /\ addr % PageBytes \in 0 .. PageBytes - 1
         /\ \A inc \in Nat \ {0} : Multiple(addr, inc) /\ Multiple(PageBytes, inc) => Multiple(Room(addr), inc)
<1>1. /\ addr \div PageBytes \in Nat /\ addr % PageBytes \in 0 .. PageBytes - 1
      /\ addr = PageBytes * (addr \div PageBytes) + (addr % PageBytes)
  BY SizeAssumption, Division
<1>2. Room(addr) \in 1 .. PageBytes  BY <1>1, SizeAssumption DEF Room
<1>3. ASSUME NEW inc \in Nat \ {0}, Multiple(addr, inc), Multiple(PageBytes, inc)
      PROVE  Multiple(Room(addr), inc)
  <2>1. PICK p \in Int : PageBytes = inc * p  BY <1>3 DEF Multiple
  <2>2. PICK a \in Int : addr = inc * a  BY <1>3 DEF Multiple
  <2> DEFINE d == addr \div PageBytes
  <2>3. d \in Int /\ p * d \in Int  BY <1>1
  <2>4. addr % PageBytes = addr - PageBytes * d  BY <1>1, SizeAssumption
  <2> HIDE DEF d
  <2>5. PageBytes * d = inc * (p * d)
    <3>1. \A x, y, z \in Int : (x * y) * z = x * (y * z)  OBVIOUS
    <3> QED  BY <2>1, <2>3, <3>1
  <2>6. Multiple(PageBytes * d, inc)  BY <2>3, <2>5, Zenon DEF Multiple
  <2>7. PageBytes * d \in Int /\ addr - PageBytes * d \in Int /\ PageBytes \in Int
    BY <2>3, SizeAssumption
  <2>8. Multiple(addr - PageBytes * d, inc)  BY <1>3, <2>6, <2>7, Sums
  <2>9. Multiple(PageBytes - (addr - PageBytes * d), inc)  BY <1>3, <2>7, <2>8, Sums
  <2> QED  BY <2>4, <2>9 DEF Room
<1> QED  BY <1>1, <1>2, <1>3

\* An address, by page and place in it.
LEMMA Place ==
  ASSUME NEW addr \in Nat, NEW n \in Nat, n < Room(addr)
  PROVE  /\ (addr + n) \div PageBytes = addr \div PageBytes
         /\ (addr + n) % PageBytes = (addr % PageBytes) + n
<1> DEFINE d == addr \div PageBytes
           r == addr % PageBytes
<1>1. PageBytes \in Nat \ {0}  BY SizeAssumption
<1>2. d \in Nat /\ r \in 0 .. PageBytes - 1 /\ addr = PageBytes * d + r
  BY <1>1, Division
<1>3. r + n \in 0 .. PageBytes - 1
  <2> HIDE DEF r
  <2>1. n < PageBytes - r  BY DEF Room, r
  <2> QED  BY <1>1, <1>2, <2>1
<1> HIDE DEF d, r
<1>4. addr + n = PageBytes * d + (r + n)
  <2>1. PageBytes * d \in Int  BY <1>1, <1>2
  <2> QED  BY <1>2, <2>1
<1>5. (PageBytes * d + (r + n)) \div PageBytes = d  BY <1>1, <1>2, <1>3, Unique
<1>6. (PageBytes * d + (r + n)) % PageBytes = r + n  BY <1>1, <1>2, <1>3, Remainder
<1> QED  BY <1>4, <1>5, <1>6 DEF d, r

\* A burst that fits its page with n + 1 beats fits with n from the next beat on.
LEMMA NextBeat ==
  ASSUME NEW addr \in Nat, NEW inc \in Nat \ {0}, NEW n \in Nat \ {0},
         (n + 1) * inc <= Room(addr)
  PROVE  n * inc <= Room(addr + inc)
<1>1. (n + 1) * inc = n * inc + inc /\ n * inc \in Nat \ {0}
  OBVIOUS
<1>2. Room(addr) \in Nat  BY RoomFacts
<1>3. inc < Room(addr)  BY <1>1, <1>2
<1>4. (addr + inc) % PageBytes = (addr % PageBytes) + inc  BY <1>3, Place
<1>5. addr % PageBytes \in Int /\ PageBytes \in Int  BY RoomFacts, SizeAssumption
<1>6. Room(addr + inc) = Room(addr) - inc  BY <1>4, <1>5 DEF Room
<1> QED  BY <1>1, <1>2, <1>6

LEMMA Inside ==
  ASSUME NEW addr \in Nat, NEW bytes \in Nat \ {0}, bytes <= Room(addr)
  PROVE  addr \div PageBytes = (addr + bytes - 1) \div PageBytes
<1>1. bytes - 1 \in Nat /\ Room(addr) \in Nat /\ bytes - 1 < Room(addr)  BY RoomFacts
<1>2. addr + bytes - 1 = addr + (bytes - 1)  OBVIOUS
<1> QED  BY <1>1, <1>2, Place

\* A burst as long as f_get_beats says fits into its page and into what is left.
LEMMA BeatsFit ==
  ASSUME NEW addr, NEW cnt, NEW size, NEW bsize, 2 ^ bsize \in Nat \ {0},
         Aligned(addr, cnt, 2 ^ size)
  PROVE  LET n == f_get_beats(addr, cnt, size, bsize)
         IN  n \in 0 .. 15 /\ (n + 1) * 2 ^ size <= cnt /\ (n + 1) * 2 ^ size <= Room(addr)
<1> DEFINE inc == 2 ^ size
           maxBeats == ((2 ^ bsize) - 1) % 16
           tot == cnt \div inc
           edge == Room(addr) \div inc
           beats == IF tot >= edge THEN edge ELSE tot
           n == f_get_beats(addr, cnt, size, bsize)
<1>1. addr \in Nat /\ cnt \in Nat \ {0} /\ inc \in Nat \ {0} /\ Multiple(addr, inc) /\ Multiple(cnt, inc) /\ Multiple(PageBytes, inc)
  BY DEF Aligned
<1>2. Room(addr) \in Nat \ {0} /\ Multiple(Room(addr), inc)
  BY <1>1, RoomFacts
<1>3. inc <= cnt /\ inc <= Room(addr)  BY <1>1, <1>2, AtLeast
<1>4. maxBeats \in 0 .. 15  OBVIOUS
<1>5. n = IF beats > maxBeats THEN maxBeats ELSE IF beats = 0 THEN 0 ELSE beats - 1
  BY DEF f_get_beats, Room
<1> HIDE DEF inc, n, maxBeats
<1>6. tot \in Nat /\ edge \in Nat /\ inc * tot <= cnt /\ inc * edge <= Room(addr)
  <2>1. \A x \in Nat : x \div inc \in Nat /\ inc * (x \div inc) <= x
    <3>1. SUFFICES ASSUME NEW x \in Nat PROVE x \div inc \in Nat /\ inc * (x \div inc) <= x
      OBVIOUS
    <3>2. x \div inc \in Nat /\ x % inc \in 0 .. inc - 1 /\ x = inc * (x \div inc) + (x % inc)
      BY <1>1, Division
    <3>3. inc * (x \div inc) \in Int  BY <1>1, <3>2
    <3> QED  BY <1>1, <3>2, <3>3
  <2> QED  BY <1>1, <1>2, <2>1
<1> HIDE DEF tot, edge
<1>7. beats \in Nat /\ inc * beats <= cnt /\ inc * beats <= Room(addr)
  <2>1. CASE tot >= edge
    <3>1. inc * edge <= inc * tot  BY <1>1, <1>6, <2>1, Monotonic
    <3> QED  BY <1>1, <1>2, <1>6, <2>1, <3>1
  <2>2. CASE ~(tot >= edge)
    <3>1. inc * tot <= inc * edge  BY <1>1, <1>6, <2>2, Monotonic
    <3> QED  BY <1>1, <1>2, <1>6, <2>2, <3>1
  <2> QED  BY <2>1, <2>2
<1> HIDE DEF beats
<1>8. n \in 0 .. 15 /\ (n + 1 <= beats \/ n = 0)  BY <1>4, <1>5, <1>7
<1>9. (n + 1) * inc <= cnt /\ (n + 1) * inc <= Room(addr)
  <2>1. CASE n = 0  BY <1>1, <1>3, <2>1
  <2>2. CASE n + 1 <= beats
    <3>1. inc * (n + 1) <= inc * beats  BY <1>1, <1>7, <1>8, <2>2, Monotonic
    <3>2. (n + 1) * inc = inc * (n + 1)  BY <1>1, <1>8
    <3>3. (n + 1) * inc \in Int /\ inc * beats \in Int  BY <1>1, <1>7, <1>8
    <3> QED  BY <1>1, <1>2, <1>7, <3>1, <3>2, <3>3
  <2> QED  BY <1>8, <2>1, <2>2
<1> QED  BY <1>8, <1>9 DEF n, inc

-----------------------------------------------------------------------------
(* An edge of the clock                                                    *)

\* What software may program.
LEMMA Transfer ==
  ASSUME NEW t \in Transfers
  PROVE  /\ Aligned(t.src, t.bytes, 2 ^ t.rsize) /\ Aligned(t.dst, t.bytes, 2 ^ t.wsize)
         /\ t.bytes % BytesRange = t.bytes
         /\ 2 ^ t.rburst \in Nat \ {0} /\ 2 ^ t.wburst \in Nat \ {0}
         /\ t.rinc \in BOOLEAN /\ t.winc \in BOOLEAN
<1>1. /\ t.bytes \in 1 .. BytesRange - 1 /\ t.src \in Nat /\ t.dst \in Nat
      /\ 2 ^ t.rsize \in Nat \ {0} /\ 2 ^ t.wsize \in Nat \ {0}
      /\ 2 ^ t.rburst \in Nat \ {0} /\ 2 ^ t.wburst \in Nat \ {0}
      /\ t.rinc \in BOOLEAN /\ t.winc \in BOOLEAN
      /\ t.src % 2 ^ t.rsize = 0 /\ t.bytes % 2 ^ t.rsize = 0 /\ PageBytes % 2 ^ t.rsize = 0
      /\ t.dst % 2 ^ t.wsize = 0 /\ t.bytes % 2 ^ t.wsize = 0 /\ PageBytes % 2 ^ t.wsize = 0
  BY TransferAssumption
<1>2. PageBytes \in Nat /\ BytesRange \in Nat \ {0} /\ t.bytes \in Nat \ {0}
  BY <1>1, SizeAssumption
<1>3. t.bytes % BytesRange = t.bytes
  <2>1. BytesRange * 0 + t.bytes = t.bytes /\ t.bytes \in 0 .. BytesRange - 1  BY <1>1, <1>2
  <2> QED  BY <1>2, <2>1, Remainder
<1>4. Aligned(t.src, t.bytes, 2 ^ t.rsize)  BY <1>1, <1>2, NoRemainder DEF Aligned
<1>5. Aligned(t.dst, t.bytes, 2 ^ t.wsize)  BY <1>1, <1>2, NoRemainder DEF Aligned
<1> QED  BY <1>1, <1>3, <1>4, <1>5

\* The registers that the machines start from.
LEMMA StartStep ==
  ASSUME IInv, NEW i, NEW status_rd, Clock(i, status_rd)
  PROVE  start' = FALSE /\ cfg' = cfg /\ byte_cnt' \in Int
<1>1. start => dma_req_ack
  <2>1. cfg \in Transfers => cfg.bytes # 0  BY TransferAssumption
  <2> QED  BY <2>1 DEF IInv, StartInv, dma_req_ack, dma_req
<1>2. start' = FALSE /\ cfg' = cfg
  BY <1>1 DEF Clock, CtrlEdge, IInv, StartInv
<1>3. byte_cnt' \in Int
  <2>1. wr.beat => w_addr_inc \in Nat
    BY TransferAssumption DEF IInv, WrTypes, WrInv, w_addr_inc
  <2> QED  BY <2>1 DEF Clock, CtrlEdge, IInv, StartInv
<1> QED  BY <1>2, <1>3

\* The read machine keeps asking for bursts that fit.
LEMMA ReadStep ==
  ASSUME IInv, NEW i, NEW status_rd, Clock(i, status_rd)
  PROVE  RdTypes' /\ RdInv'
<1>1. RdTypes /\ RdInv /\ cfg' = cfg /\ RdEdge(i)
  BY StartStep DEF IInv, Clock
<1> DEFINE inc == r_addr_inc
<1>2. rd.state # "IDLE" =>
        /\ cfg \in Transfers /\ rd.size = cfg.rsize /\ rd.burst = cfg.rburst /\ rd.rdInc \in BOOLEAN
        /\ Aligned(rd.araddr, rd.rdBytes, inc)
        /\ rbeats \in 0 .. 15 /\ inc \in Nat \ {0}
  BY <1>1, Transfer, BeatsFit DEF RdInv, rbeats, Aligned, r_addr_inc
<1>3. CASE rd.state = "IDLE" /\ ~dma_req_ack
  <2>1. rd' = [rd EXCEPT !.beat = FALSE]  BY <1>1, <1>3 DEF RdEdge, RdIdle
  <2>2. r_addr_inc' = r_addr_inc  BY <1>1, <2>1 DEF r_addr_inc, RdTypes
  <2> QED  BY <1>1, <1>3, <2>1, <2>2 DEF RdTypes, RdInv
<1>4. CASE rd.state = "IDLE" /\ dma_req_ack
  <2>1. /\ rd'.state = "SETUP" /\ rd'.araddr = src_addr /\ rd'.size = cfg.rsize /\ rd'.burst = cfg.rburst
        /\ rd'.rdBytes = byte_cnt % BytesRange /\ rd'.rdInc = cfg.rinc /\ rd'.beat = FALSE
        /\ rd'.arvalid = FALSE /\ DOMAIN rd' = DOMAIN rd
    BY <1>1, <1>4 DEF RdEdge, RdIdle, RdTypes
  <2>2. cfg \in Transfers /\ src_addr = cfg.src /\ byte_cnt = cfg.bytes
    BY <1>4 DEF dma_req_ack, dma_req, IInv, StartInv
  <2>3. Aligned(rd'.araddr, rd'.rdBytes, r_addr_inc') /\ rd'.rdInc \in BOOLEAN
    BY <2>1, <2>2, Transfer DEF r_addr_inc
  <2>4. r_addr_inc' \in Nat  BY <2>3 DEF Aligned
  <2> QED  BY <1>1, <2>1, <2>2, <2>3, <2>4 DEF RdTypes, RdInv, States
<1>5. CASE rd.state = "SETUP"
  <2>1. /\ rd'.state = "WAIT" /\ rd'.arvalid = TRUE /\ rd'.r_len = rbeats /\ rd'.beat = FALSE
        /\ rd'.araddr = rd.araddr /\ rd'.size = rd.size /\ rd'.burst = rd.burst
        /\ rd'.rdBytes = rd.rdBytes /\ rd'.rdInc = rd.rdInc /\ DOMAIN rd' = DOMAIN rd
    BY <1>1, <1>5 DEF RdEdge, RdSetup, RdTypes
  <2>2. rbeats' = rbeats /\ r_addr_inc' = r_addr_inc  BY <2>1 DEF rbeats, r_addr_inc
  <2> QED  BY <1>1, <1>2, <1>5, <2>1, <2>2 DEF RdTypes, RdInv, States, Aligned
<1>6. CASE rd.state = "WAIT" /\ ~ArHandshake(i)
  <2>1. rd' = [rd EXCEPT !.beat = FALSE]  BY <1>1, <1>6 DEF RdEdge, RdWait
  <2>2. rbeats' = rbeats /\ r_addr_inc' = r_addr_inc  BY <1>1, <2>1 DEF rbeats, r_addr_inc, RdTypes
  <2> QED  BY <1>1, <1>2, <1>6, <2>1, <2>2 DEF RdTypes, RdInv, States, Aligned
<1>7. CASE rd.state = "WAIT" /\ ArHandshake(i)
  <2>1. /\ rd'.state = "DATA" /\ rd'.arvalid = FALSE /\ rd'.beat = FALSE
        /\ rd'.araddr = (IF rd.rdInc THEN rd.araddr + (rbeats + 1) * inc ELSE rd.araddr)
        /\ rd'.size = rd.size /\ rd'.burst = rd.burst
        /\ rd'.rdBytes = rd.rdBytes /\ rd'.rdInc = rd.rdInc /\ DOMAIN rd' = DOMAIN rd
    BY <1>1, <1>7 DEF RdEdge, RdWait, RdTypes
  <2>2. r_addr_inc' = inc  BY <2>1 DEF r_addr_inc
  <2>3. rd'.araddr \in Nat /\ Multiple(rd'.araddr, inc)
    <3>1. (rbeats + 1) * inc \in Nat /\ Multiple((rbeats + 1) * inc, inc)
      BY <1>2, <1>7, Products
    <3> DEFINE len == (rbeats + 1) * inc
    <3>2. rd.araddr \in Nat /\ Multiple(rd.araddr, inc) /\ inc \in Nat \ {0}
      BY <1>2, <1>7 DEF Aligned
    <3>3. rd'.araddr = (IF rd.rdInc THEN rd.araddr + len ELSE rd.araddr)  BY <2>1
    <3>4. len \in Nat /\ Multiple(len, inc)  BY <3>1
    <3> HIDE DEF len, inc
    <3>5. rd.araddr + len \in Nat /\ rd.araddr \in Int /\ len \in Int  BY <3>2, <3>4
    <3>6. Multiple(rd.araddr + len, inc)  BY <3>2, <3>4, <3>5, Sums, Zenon
    <3> QED  BY <3>2, <3>3, <3>5, <3>6
  <2>4. Aligned(rd'.araddr, rd'.rdBytes, inc)  BY <1>2, <1>7, <2>1, <2>3 DEF Aligned
  <2> QED  BY <1>1, <1>2, <1>7, <2>1, <2>2, <2>4 DEF RdTypes, RdInv, States
<1>8. CASE rd.state = "DATA"
  <2>1. /\ rd'.state \in {"DATA", "IDLE", "SETUP"} /\ rd'.beat \in BOOLEAN /\ rd'.arvalid = rd.arvalid
        /\ rd'.araddr = rd.araddr /\ rd'.size = rd.size /\ rd'.burst = rd.burst
        /\ rd'.rdInc = rd.rdInc /\ DOMAIN rd' = DOMAIN rd
        /\ rd'.state # "IDLE" => \/ rd'.rdBytes = rd.rdBytes
                                 \/ ~rd_last /\ rd'.rdBytes = rd.rdBytes - inc
    BY <1>1, <1>8 DEF RdEdge, RdData, RdTypes
  <2>2. r_addr_inc' = inc  BY <2>1 DEF r_addr_inc
  <2>3. ~rd_last => rd.rdBytes - inc \in Nat \ {0} /\ Multiple(rd.rdBytes - inc, inc)
    <3>1. rd.rdBytes \in Nat \ {0} /\ Multiple(rd.rdBytes, inc) /\ inc \in Nat \ {0}
      BY <1>2, <1>8 DEF Aligned
    <3>2. rd_last <=> rd.rdBytes = inc  BY DEF rd_last
    <3> HIDE DEF inc
    <3>3. inc <= rd.rdBytes  BY <3>1, AtLeast
    <3>4. Multiple(rd.rdBytes - inc, inc)  BY <3>1, Products, Sums
    <3> QED  BY <3>1, <3>2, <3>3, <3>4
  <2>4. rd'.state # "IDLE" => Aligned(rd'.araddr, rd'.rdBytes, inc)
    BY <1>2, <1>8, <2>1, <2>3 DEF Aligned
  <2> QED  BY <1>1, <1>2, <1>8, <2>1, <2>2, <2>4 DEF RdTypes, RdInv, States
<1> QED  BY <1>1, <1>3, <1>4, <1>5, <1>6, <1>7, <1>8 DEF RdTypes, States

\* The bus serves the burst it was asked for.
LEMMA ReadBusStep ==
  ASSUME IInv, NEW i, NEW status_rd, Clock(i, status_rd)
  PROVE  RBurstInv'
<1>1. RdTypes /\ RdInv /\ RBurstInv
  BY DEF IInv
<1>2. CASE ArHandshake(i)
  <2>1. rd.state = "WAIT" /\ rd.r_len = rbeats /\ rburst.left = 0 /\ rresp = None
    <3>1. rd.arvalid /\ rburst.left = 0  BY <1>2 DEF ArHandshake
    <3>2. rd.state = "WAIT"  BY <1>1, <3>1 DEF RdTypes
    <3> QED  BY <1>1, <3>1, <3>2 DEF RdInv, RBurstInv
  <2>2. /\ rbeats \in 0 .. 15 /\ r_addr_inc \in Nat \ {0} /\ rd.araddr \in Nat
        /\ (rbeats + 1) * r_addr_inc <= Room(rd.araddr)
    BY <1>1, <2>1, Transfer, BeatsFit DEF RdInv, rbeats, Aligned, r_addr_inc
  <2>3. /\ rburst' = [addr |-> rd.araddr, left |-> rbeats + 1,
                      step |-> IF rd.rdInc THEN r_addr_inc ELSE 0]
        /\ rresp' = None
    BY <1>2, <2>1 DEF Clock, BusEdge, RHandshake
  <2> QED  BY <2>2, <2>3 DEF RBurstInv
<1>3. CASE ~ArHandshake(i) /\ RHandshake
  <2>1. rburst' = [rburst EXCEPT !.addr = @ + rburst.step, !.left = @ - 1] /\ rresp' = None
    BY <1>3 DEF Clock, BusEdge
  <2>2. rburst.left \in Nat \ {0}  BY <1>1, <1>3 DEF RHandshake, RBurstInv
  <2>3. rburst.left - 1 > 0 /\ rburst.step > 0 =>
          (rburst.left - 1) * rburst.step <= Room(rburst.addr + rburst.step)
    <3>1. SUFFICES ASSUME rburst.left - 1 > 0, rburst.step > 0
                   PROVE  (rburst.left - 1) * rburst.step <= Room(rburst.addr + rburst.step)
      OBVIOUS
    <3>2. (rburst.left - 1) + 1 = rburst.left /\ rburst.left - 1 \in Nat \ {0}
      BY <2>2, <3>1
    <3>3. rburst.addr \in Nat /\ rburst.step \in Nat \ {0}
          /\ rburst.left * rburst.step <= Room(rburst.addr)
      BY <1>1, <2>2, <3>1 DEF RBurstInv
    <3> DEFINE n == rburst.left - 1
    <3>4. (n + 1) * rburst.step <= Room(rburst.addr) /\ n \in Nat \ {0}  BY <3>2, <3>3
    <3> HIDE DEF n
    <3>5. n * rburst.step <= Room(rburst.addr + rburst.step)  BY <3>3, <3>4, NextBeat
    <3> QED  BY <3>5 DEF n
  <2> QED  BY <1>1, <2>1, <2>2, <2>3 DEF RBurstInv
<1>4. CASE ~ArHandshake(i) /\ ~RHandshake
  <2>1. rburst' = rburst /\ rresp' = rresp  BY <1>4 DEF Clock, BusEdge
  <2> QED  BY <1>1, <2>1 DEF RBurstInv
<1> QED  BY <1>2, <1>3, <1>4

\* The write machine's bursts fit; w_len counts down with the bus.
LEMMA WriteStep ==
  ASSUME IInv, NEW i, NEW status_rd, Clock(i, status_rd)
  PROVE  WrTypes' /\ WrInv' /\ WBurstInv'
<1>1. WrTypes /\ WrInv /\ WBurstInv /\ cfg' = cfg /\ WrEdge(i)
  BY StartStep DEF IInv, Clock
<1> DEFINE inc == w_addr_inc
<1>2. wr.state # "IDLE" =>
        /\ cfg \in Transfers /\ wr.size = cfg.wsize /\ wr.burst = cfg.wburst
        /\ wr.wrInc = cfg.winc /\ cfg.winc \in BOOLEAN
        /\ wr.awaddr \in Nat /\ wr.wrBytes \in Nat /\ inc \in Nat \ {0}
        /\ Multiple(wr.awaddr, inc) /\ Multiple(wr.wrBytes, inc) /\ Multiple(PageBytes, inc)
  BY <1>1, Transfer DEF WrInv, Aligned, w_addr_inc
<1>3. wr.state # "IDLE" /\ wr.wrBytes > 0 =>
        /\ wbeats \in 0 .. 15
        /\ (wbeats + 1) * inc <= wr.wrBytes /\ (wbeats + 1) * inc <= Room(wr.awaddr)
  <2>1. wr.state # "IDLE" /\ wr.wrBytes > 0 =>
          Aligned(wr.awaddr, wr.wrBytes, 2 ^ wr.size) /\ 2 ^ wr.burst \in Nat \ {0}
    BY <1>2, Transfer DEF Aligned, w_addr_inc
  <2> QED  BY <2>1, BeatsFit DEF wbeats, w_addr_inc
<1>4. /\ AwHandshake(i) => wr.state = "WAIT"
      /\ WHandshake(i) => wr.state = "DATA"
      /\ BHandshake => wr.state = "RESP"
  BY <1>1 DEF AwHandshake, WHandshake, BHandshake, WrTypes, WBurstInv
<1>5. /\ AwHandshake(i) =>
           wburst' = [addr |-> wr.awaddr, left |-> wr.awlen + 1, open |-> TRUE, ended |-> FALSE] /\ bresp' = bresp
      /\ WHandshake(i) =>
           /\ wburst' = [wburst EXCEPT !.addr = IF cfg.winc THEN @ + inc ELSE @,
                                       !.left = @ - 1, !.ended = wr.wlast]
           /\ bresp' = bresp
      /\ BHandshake => wburst' = [wburst EXCEPT !.open = FALSE, !.ended = FALSE] /\ bresp' = None
      /\ ~(AwHandshake(i) \/ WHandshake(i) \/ BHandshake) => wburst' = wburst /\ bresp' = bresp
  <2>1. BusEdge(i)  BY DEF Clock
  <2>2. CASE AwHandshake(i)
    <3>1. ~WHandshake(i) /\ ~BHandshake  BY <1>4, <2>2
    <3> QED  BY <2>1, <2>2, <3>1 DEF BusEdge
  <2>3. CASE WHandshake(i)
    <3>1. ~AwHandshake(i) /\ ~BHandshake  BY <1>4, <2>3
    <3> QED  BY <2>1, <2>3, <3>1 DEF BusEdge
  <2>4. CASE BHandshake
    <3>1. ~AwHandshake(i) /\ ~WHandshake(i)  BY <1>4, <2>4
    <3> QED  BY <2>1, <2>4, <3>1 DEF BusEdge
  <2>5. CASE ~(AwHandshake(i) \/ WHandshake(i) \/ BHandshake)
    BY <2>1, <2>5 DEF BusEdge
  <2> QED  BY <2>2, <2>3, <2>4, <2>5, Zenon
<1>6. CASE wr.state = "IDLE" /\ ~dma_req_ack
  <2>1. wr' = wr  BY <1>1, <1>6 DEF WrEdge, WrIdle
  <2>2. wburst' = wburst /\ bresp' = bresp  BY <1>4, <1>5, <1>6
  <2> QED  BY <1>1, <1>6, <2>1, <2>2 DEF WrTypes, WrInv, WBurstInv, States
<1>7. CASE wr.state = "IDLE" /\ dma_req_ack
  <2>1. /\ wr'.state = "SETUP" /\ wr'.awaddr = dst_addr /\ wr'.size = cfg.wsize
        /\ wr'.burst = cfg.wburst /\ wr'.wrBytes = byte_cnt % BytesRange /\ wr'.wrInc = cfg.winc
        /\ wr'.beat = FALSE /\ wr'.awvalid = FALSE /\ wr'.bready = FALSE /\ DOMAIN wr' = DOMAIN wr
    BY <1>1, <1>7 DEF WrEdge, WrIdle, WrTypes
  <2>2. cfg \in Transfers /\ dst_addr = cfg.dst /\ byte_cnt = cfg.bytes
    BY <1>7 DEF dma_req_ack, dma_req, IInv, StartInv
  <2>3. Aligned(wr'.awaddr, wr'.wrBytes, w_addr_inc')
    BY <2>1, <2>2, Transfer DEF w_addr_inc
  <2>4. wburst' = wburst /\ bresp' = bresp  BY <1>4, <1>5, <1>7
  <2>5. WrTypes'  BY <1>1, <1>7, <2>1 DEF WrTypes, States
  <2>6. WrInv'  BY <1>1, <2>1, <2>2, <2>3 DEF WrInv, Aligned
  <2>7. wr'.state = "SETUP"  BY <2>1
  <2>8. ~wburst.open /\ ~wburst.ended /\ bresp = None
    BY <1>1, <1>7 DEF WBurstInv
  <2>9. WBurstInv'  BY <1>1, <2>4, <2>7, <2>8 DEF WBurstInv
  <2> QED  BY <2>5, <2>6, <2>9
<1>8. CASE wr.state = "SETUP"
  <2>1. /\ wr'.state = "WAIT" /\ wr'.awvalid = TRUE /\ wr'.w_len = wbeats /\ wr'.awaddr = wr.awaddr
        /\ wr'.size = wr.size /\ wr'.burst = wr.burst /\ wr'.wrBytes = wr.wrBytes
        /\ wr'.wrInc = wr.wrInc /\ wr'.beat = wr.beat /\ wr'.bready = wr.bready
        /\ DOMAIN wr' = DOMAIN wr
    BY <1>1, <1>8 DEF WrEdge, WrSetup, WrTypes
  <2>2. wbeats' = wbeats /\ w_addr_inc' = inc  BY <2>1 DEF wbeats, w_addr_inc
  <2>3. wburst' = wburst /\ bresp' = bresp  BY <1>4, <1>5, <1>8
  <2>4. WrTypes'  BY <1>1, <1>8, <2>1 DEF WrTypes, States
  <2>5. WrInv'  BY <1>1, <1>2, <1>8, <2>1, <2>2 DEF WrInv
  <2>6. wr'.state = "WAIT"  BY <2>1
  <2>7. ~wburst.open /\ ~wburst.ended /\ bresp = None
    BY <1>1, <1>8 DEF WBurstInv
  <2>8. WBurstInv'  BY <1>1, <2>3, <2>6, <2>7 DEF WBurstInv
  <2> QED  BY <2>4, <2>5, <2>8
<1>9. CASE wr.state = "WAIT" /\ ~AwHandshake(i)
  <2>1. wr' = wr  BY <1>1, <1>9 DEF WrEdge, WrWait
  <2>2. wbeats' = wbeats /\ w_addr_inc' = inc  BY <2>1 DEF wbeats, w_addr_inc
  <2>3. wburst' = wburst /\ bresp' = bresp  BY <1>4, <1>5, <1>9
  <2> QED  BY <1>1, <1>9, <2>1, <2>2, <2>3 DEF WrTypes, WrInv, WBurstInv, States
<1>10. CASE wr.state = "WAIT" /\ AwHandshake(i)
  <2>1. /\ wr'.state = "DATA" /\ wr'.awvalid = FALSE /\ wr'.w_len = wr.w_len
        /\ wr'.wlast = (wr.w_len = 0)
        /\ wr'.awaddr = (IF wr.wrInc THEN wr.awaddr + (wbeats + 1) * inc ELSE wr.awaddr)
        /\ wr'.size = wr.size /\ wr'.burst = wr.burst /\ wr'.wrBytes = wr.wrBytes
        /\ wr'.wrInc = wr.wrInc /\ wr'.beat = wr.beat /\ wr'.bready = wr.bready
        /\ DOMAIN wr' = DOMAIN wr
    BY <1>1, <1>10 DEF WrEdge, WrWait, WrTypes
  <2>2. w_addr_inc' = inc  BY <2>1 DEF w_addr_inc
  <2>3. wr.w_len = wbeats /\ wr.wrBytes > 0  BY <1>1, <1>10 DEF WrInv
  <2>4. wr'.awaddr \in Nat /\ Multiple(wr'.awaddr, inc)
    <3> DEFINE len == (wbeats + 1) * inc
    <3>1. len \in Nat /\ Multiple(len, inc)  BY <1>2, <1>3, <1>10, <2>3, Products
    <3>2. wr.awaddr \in Nat /\ Multiple(wr.awaddr, inc) /\ inc \in Nat \ {0}  BY <1>2, <1>10
    <3>3. wr'.awaddr = (IF wr.wrInc THEN wr.awaddr + len ELSE wr.awaddr)  BY <2>1
    <3> HIDE DEF len, inc
    <3>4. wr.awaddr + len \in Nat /\ wr.awaddr \in Int /\ len \in Int  BY <3>1, <3>2
    <3>5. Multiple(wr.awaddr + len, inc)  BY <3>1, <3>2, <3>4, Sums, Zenon
    <3> QED  BY <3>2, <3>3, <3>4, <3>5
  <2>5. wburst' = [addr |-> wr.awaddr, left |-> wr.awlen + 1, open |-> TRUE, ended |-> FALSE] /\ bresp' = bresp
    BY <1>4, <1>5, <1>10
  <2>6. wr'.w_len \in 0 .. 15 /\ (wr'.w_len + 1) * inc <= wr'.wrBytes
        /\ (wr'.w_len + 1) * inc <= Room(wburst'.addr)
    BY <1>3, <1>10, <2>1, <2>3, <2>5
  <2>7. bresp = None  BY <1>1, <1>10 DEF WBurstInv
  <2>8. WrTypes'  BY <1>1, <1>10, <2>1 DEF WrTypes, States
  <2>9. WrInv'  BY <1>1, <1>2, <1>10, <2>1, <2>2, <2>3, <2>4, <2>6 DEF WrInv
  <2> QED  BY <1>2, <1>10, <2>1, <2>5, <2>7, <2>8, <2>9 DEF WBurstInv
<1>11. CASE wr.state = "DATA" /\ ~WHandshake(i)
  <2>1. wr' = [wr EXCEPT !.beat = FALSE]  BY <1>1, <1>11 DEF WrEdge, WrData
  <2>2. w_addr_inc' = inc  BY <1>1, <2>1 DEF w_addr_inc, WrTypes
  <2>3. wburst' = wburst /\ bresp' = bresp  BY <1>4, <1>5, <1>11
  <2> QED  BY <1>1, <1>2, <1>11, <2>1, <2>2, <2>3 DEF WrTypes, WrInv, WBurstInv, States
<1>12. CASE wr.state = "DATA" /\ WHandshake(i)
  <2>1. /\ wr'.state = (IF wr.w_len = 0 THEN "RESP" ELSE "DATA")
        /\ wr'.bready = (wr.w_len = 0) /\ wr'.beat = TRUE /\ wr'.awvalid = wr.awvalid
        /\ wr'.wrBytes = wr.wrBytes - inc /\ wr'.w_len = (wr.w_len - 1) % 256
        /\ wr'.wlast = (wr.w_len = 1) /\ wr'.awaddr = wr.awaddr
        /\ wr'.size = wr.size /\ wr'.burst = wr.burst /\ wr'.wrInc = wr.wrInc
        /\ DOMAIN wr' = DOMAIN wr
    BY <1>1, <1>12 DEF WrEdge, WrData, WrTypes
  <2>2. w_addr_inc' = inc  BY <2>1 DEF w_addr_inc
  <2>3. /\ wburst' = [wburst EXCEPT !.addr = IF cfg.winc THEN @ + inc ELSE @,
                                    !.left = @ - 1, !.ended = wr.wlast]
        /\ bresp' = bresp
    BY <1>4, <1>5, <1>12
  <2>4. /\ wr.w_len \in 0 .. 15 /\ wr.wlast = (wr.w_len = 0) /\ wburst.addr \in Nat
        /\ (wr.w_len + 1) * inc <= wr.wrBytes
        /\ cfg.winc => (wr.w_len + 1) * inc <= Room(wburst.addr)
        /\ bresp = None /\ wburst.open
    BY <1>1, <1>12 DEF WrInv, WBurstInv
  <2>5. inc \in Nat \ {0} /\ wr.wrBytes \in Nat /\ Multiple(wr.wrBytes, inc)
    BY <1>2, <1>12
  <2>6. (wr.w_len + 1) * inc = wr.w_len * inc + inc /\ wr.w_len * inc \in Nat
        /\ (wr.w_len > 0 => wr.w_len * inc > 0)
    <3>1. wr.w_len \in Nat  BY <2>4
    <3> HIDE DEF inc
    <3> QED  BY <3>1, <2>5
  <2>7. wr'.wrBytes \in Nat /\ Multiple(wr'.wrBytes, inc) /\ wr.w_len * inc <= wr'.wrBytes
    <3>1. Multiple(inc, inc)  BY <2>5, Products
    <3> DEFINE rest == wr.w_len * inc
    <3>2. rest \in Nat /\ rest + inc <= wr.wrBytes  BY <2>4, <2>6
    <3> HIDE DEF rest, inc
    <3>3. wr.wrBytes \in Int /\ inc \in Int  BY <2>5
    <3>5. Multiple(wr.wrBytes - inc, inc)  BY <2>5, <3>1, <3>3, Sums, Zenon
    <3>4. wr.wrBytes - inc \in Nat /\ rest <= wr.wrBytes - inc  BY <2>5, <3>2
    <3> QED  BY <2>1, <3>4, <3>5 DEF rest, inc
  <2>8. wr.w_len > 0 => /\ wr'.w_len = wr.w_len - 1 /\ wr'.w_len \in 0 .. 15
                        /\ wr'.w_len + 1 = wr.w_len
    BY <2>1, <2>4
  <2>9. wr.w_len > 0 /\ cfg.winc => wr.w_len * inc <= Room(wburst.addr + inc)
    <3>1. SUFFICES ASSUME wr.w_len > 0, cfg.winc
                   PROVE  wr.w_len * inc <= Room(wburst.addr + inc)
      OBVIOUS
    <3>2. wr.w_len \in Nat \ {0} /\ (wr.w_len + 1) * inc <= Room(wburst.addr)  BY <2>4, <3>1
    <3> HIDE DEF inc
    <3> QED  BY <2>4, <2>5, <3>2, NextBeat
  <2>10. wburst'.addr = (IF cfg.winc THEN wburst.addr + inc ELSE wburst.addr)
         /\ wburst'.open /\ (wburst'.ended <=> wr.wlast) /\ DOMAIN wburst' = DOMAIN wburst
    BY <1>1, <2>3, <2>4 DEF WBurstInv
  <2>11. wr.w_len > 0 => /\ (wr'.w_len + 1) * inc <= wr'.wrBytes /\ wr'.wrBytes > 0
                         /\ cfg.winc => (wr'.w_len + 1) * inc <= Room(wburst'.addr)
    BY <2>6, <2>7, <2>8, <2>9, <2>10
  <2>12. WrTypes'  BY <1>1, <1>12, <2>1, <2>4 DEF WrTypes, States
  <2>13. WrInv'
    <3>1. wr'.state # "RESP" => wr.w_len > 0  BY <2>1, <2>4
    <3>2. wr.w_len > 0 => wr'.wlast = (wr'.w_len = 0)  BY <2>1, <2>4, <2>8
    <3>3. wr'.state \in {"DATA", "RESP"}  BY <2>1
    <3> HIDE DEF inc
    <3>4. w_addr_inc' = inc  BY <2>2
    <3> QED  BY <1>1, <1>2, <1>12, <2>1, <2>7, <2>8, <2>11, <3>1, <3>2, <3>3, <3>4
             DEF WrInv, inc
  <2>14. wburst'.addr \in Nat  BY <2>4, <2>5, <2>10
  <2>15. wr'.state = "RESP" <=> wr.wlast  BY <2>1, <2>4
  <2>16. wr'.state \in {"DATA", "RESP"} /\ wr.wlast \in BOOLEAN  BY <2>1, <2>4
  <2> QED  BY <1>1, <2>3, <2>4, <2>10, <2>12, <2>13, <2>14, <2>15, <2>16 DEF WBurstInv
<1>13. CASE wr.state = "RESP" /\ ~BHandshake
  <2>1. wr' = [wr EXCEPT !.beat = FALSE]  BY <1>1, <1>13 DEF WrEdge, WrResp
  <2>2. w_addr_inc' = inc  BY <1>1, <2>1 DEF w_addr_inc, WrTypes
  <2>3. wburst' = wburst /\ bresp' = bresp  BY <1>4, <1>5, <1>13
  <2> QED  BY <1>1, <1>2, <1>13, <2>1, <2>2, <2>3 DEF WrTypes, WrInv, WBurstInv, States
<1>14. CASE wr.state = "RESP" /\ BHandshake
  <2>1. /\ \/ wr'.state = "WAIT" /\ wr'.awvalid = TRUE /\ wr.wrBytes # 0 /\ wr'.w_len = wbeats
           \/ wr'.state = "IDLE" /\ wr'.awvalid = wr.awvalid
        /\ wr'.bready = FALSE /\ wr'.beat = FALSE /\ wr'.awaddr = wr.awaddr
        /\ wr'.size = wr.size /\ wr'.burst = wr.burst /\ wr'.wrBytes = wr.wrBytes
        /\ wr'.wrInc = wr.wrInc /\ DOMAIN wr' = DOMAIN wr
    BY <1>1, <1>14 DEF WrEdge, WrResp, WrTypes
  <2>2. wbeats' = wbeats /\ w_addr_inc' = inc  BY <2>1 DEF wbeats, w_addr_inc
  <2>3. wburst' = [wburst EXCEPT !.open = FALSE, !.ended = FALSE] /\ bresp' = None
    BY <1>4, <1>5, <1>14
  <2>4. WrTypes'  BY <1>1, <1>14, <2>1 DEF WrTypes, States
  <2>5. WrInv'  BY <1>1, <1>2, <1>14, <2>1, <2>2 DEF WrInv
  <2>6. wr'.state \in {"WAIT", "IDLE"}  BY <2>1
  <2>7. /\ wburst'.addr = wburst.addr /\ ~wburst'.open /\ ~wburst'.ended
        /\ DOMAIN wburst' = DOMAIN wburst /\ bresp' = None
    BY <1>1, <2>3 DEF WBurstInv
  <2>8. WBurstInv'  BY <1>1, <2>6, <2>7 DEF WBurstInv
  <2> QED  BY <2>4, <2>5, <2>8
<1> QED  BY <1>1, <1>6, <1>7, <1>8, <1>9, <1>10, <1>11, <1>12, <1>13, <1>14 DEF WrTypes, States

LEMMA Joined ==
  ASSUME NEW S, NEW f \in Seq(S), NEW g \in Seq(S)
  PROVE  f \o g \in Seq(S) /\ Len(f \o g) = Len(f) + Len(g)
  OBVIOUS

\* A beat of data lengthens out by its bytes.
LEMMA OutLengthens ==
  ASSUME IInv, NEW i, NEW status_rd, Clock(i, status_rd)
  PROVE  /\ WHandshake(i) => /\ wr.state = "DATA" /\ w_addr_inc \in Nat \ {0}
                             /\ out' \in Seq(Int \X Int) /\ Len(out') = Len(out) + w_addr_inc
         /\ ~WHandshake(i) => out' = out
<1>1. WrTypes /\ WrInv /\ WBurstInv /\ CountInv
  BY DEF IInv
<1> DEFINE inc == w_addr_inc
<1>2. WHandshake(i) => wr.state = "DATA"  BY <1>1 DEF WHandshake, WBurstInv
<1>3. wr.state # "IDLE" => inc \in Nat \ {0}
  BY <1>1, Transfer DEF WrInv, Aligned, w_addr_inc
<1>5. fifo \in Seq(Int) /\ out \in Seq(Int \X Int)  BY <1>1 DEF CountInv
<1>6. WHandshake(i) => \A k \in 1 .. inc : WriteBytes[k] \in Int
  <2>1. SUFFICES ASSUME WHandshake(i) PROVE \A k \in 1 .. inc : WriteBytes[k] \in Int
    OBVIOUS
  <2>2. inc \in Nat \ {0}  BY <1>2, <1>3, <2>1
  <2>3. CASE wready_o
    <3>1. inc <= Len(fifo)  BY <2>3, <1>5, <2>2 DEF wready_o
    <3>2. WriteBytes = SubSeq(fifo, 1, inc)  BY <2>3 DEF WriteBytes
    <3> HIDE DEF inc
    <3> QED  BY <1>5, <2>2, <3>1, <3>2
  <2>4. CASE ~wready_o
    BY <2>4 DEF WriteBytes, Junk
  <2> QED  BY <2>3, <2>4
<1>7. /\ WHandshake(i) => out' \in Seq(Int \X Int) /\ Len(out') = Len(out) + inc
      /\ ~WHandshake(i) => out' = out
  <2>1. ~WHandshake(i) => out' = out  BY DEF Clock, BusEdge
  <2>2. ASSUME WHandshake(i) PROVE out' \in Seq(Int \X Int) /\ Len(out') = Len(out) + inc
    <3> DEFINE more == [k \in 1 .. inc |-> <<wburst.addr + k - 1, WriteBytes[k]>>]
    <3>1. out' = out \o more  BY <2>2 DEF Clock, BusEdge
    <3>2. inc \in Nat \ {0} /\ wburst.addr \in Int  BY <1>1, <1>2, <1>3, <2>2 DEF WBurstInv
    <3>3. more \in Seq(Int \X Int) /\ Len(more) = inc
      <4> HIDE DEF inc
      <4>1. \A k \in 1 .. inc : more[k] \in Int \X Int  BY <1>6, <2>2, <3>2 DEF inc
      <4> QED  BY <3>2, <4>1
    <3> HIDE DEF more, inc
    <3>4. out \o more \in Seq(Int \X Int) /\ Len(out \o more) = Len(out) + Len(more)
      BY <1>5, <3>3, Joined, Zenon
    <3> QED  BY <3>1, <3>3, <3>4
  <2> QED  BY <2>1, <2>2
<1> QED  BY <1>2, <1>3, <1>7

\* The beat flag is up for the edge after a beat: the count of bytes left is
\* taken down when they are already in out.
LEMMA CountStep ==
  ASSUME IInv, NEW i, NEW status_rd, Clock(i, status_rd)
  PROVE  CountInv'
<1>1. WrTypes /\ WrInv /\ WBurstInv /\ CountInv /\ RdTypes /\ RdInv /\ RBurstInv /\ cfg' = cfg
      /\ WrEdge(i)
  BY StartStep DEF IInv, Clock
<1> DEFINE inc == w_addr_inc
<1>2. WHandshake(i) => wr.state = "DATA"  BY <1>1 DEF WHandshake, WBurstInv
<1>3. wr.state # "IDLE" => inc \in Nat \ {0}
  BY <1>1, Transfer DEF WrInv, Aligned, w_addr_inc
<1>4. IF WHandshake(i) THEN wr'.beat /\ w_addr_inc' = inc ELSE ~wr'.beat
  <2>1. CASE WHandshake(i)
    <3>1. wr.state = "DATA"  BY <1>2, <2>1
    <3>2. wr' = WrData(i)  BY <1>1, <3>1 DEF WrEdge
    <3>3. wr'.beat /\ wr'.size = wr.size  BY <1>1, <2>1, <3>2 DEF WrData, WrTypes
    <3> QED  BY <2>1, <3>3 DEF w_addr_inc
  <2>2. CASE ~WHandshake(i)
    <3>1. CASE wr.state = "DATA"
      BY <1>1, <2>2, <3>1 DEF WrEdge, WrData, WrTypes
    <3>2. CASE wr.state = "RESP"
      <4>1. wr' = WrResp  BY <1>1, <3>2 DEF WrEdge
      <4>2. CASE BHandshake  BY <2>2, <1>1, <4>1, <4>2 DEF WrResp, WrTypes
      <4>3. CASE ~BHandshake  BY <2>2, <1>1, <4>1, <4>3 DEF WrResp, WrTypes
      <4> QED  BY <4>2, <4>3
    <3>3. CASE wr.state = "IDLE"
      <4>1. ~wr.beat  BY <1>1, <3>3 DEF WrTypes
      <4>2. wr' = WrIdle  BY <1>1, <3>3 DEF WrEdge
      <4>3. CASE dma_req_ack  BY <2>2, <1>1, <4>2, <4>3 DEF WrIdle, WrTypes
      <4>4. CASE ~dma_req_ack  BY <2>2, <4>1, <4>2, <4>4 DEF WrIdle
      <4> QED  BY <4>3, <4>4
    <3>4. CASE wr.state = "SETUP"
      <4>1. ~wr.beat  BY <1>1, <3>4 DEF WrTypes
      <4>2. wr' = WrSetup  BY <1>1, <3>4 DEF WrEdge
      <4> QED  BY <2>2, <1>1, <4>1, <4>2 DEF WrSetup, WrTypes
    <3>5. CASE wr.state = "WAIT"
      <4>1. ~wr.beat  BY <1>1, <3>5 DEF WrTypes
      <4>2. wr' = WrWait(i)  BY <1>1, <3>5 DEF WrEdge
      <4>3. CASE AwHandshake(i)  BY <2>2, <1>1, <4>1, <4>2, <4>3 DEF WrWait, WrTypes
      <4>4. CASE ~AwHandshake(i)  BY <2>2, <4>1, <4>2, <4>4 DEF WrWait
      <4> QED  BY <4>3, <4>4
    <3> QED  BY <1>1, <3>1, <3>2, <3>3, <3>4, <3>5 DEF WrTypes, States
  <2> QED  BY <2>1, <2>2
<1>5. fifo \in Seq(Int) /\ out \in Seq(Int \X Int)  BY <1>1 DEF CountInv
<1>7. /\ WHandshake(i) => out' \in Seq(Int \X Int) /\ Len(out') = Len(out) + inc
      /\ ~WHandshake(i) => out' = out
  BY OutLengthens
<1>8. fifo' \in Seq(Int)
  <2> DEFINE popped == IF WHandshake(i) /\ wready_o THEN SubSeq(fifo, inc + 1, Len(fifo)) ELSE fifo
  <2>1. fifo' = IF wr.done THEN <<>> ELSE IF RHandshake THEN popped \o ReadBytes ELSE popped
    BY DEF Clock, FifoEdge
  <2>2. popped \in Seq(Int)
    <3>1. WHandshake(i) => inc \in Nat \ {0}  BY <1>2, <1>3
    <3> HIDE DEF inc
    <3> QED  BY <1>5, <3>1
  <2>3. RHandshake => ReadBytes \in Seq(Int)
    <3>1. SUFFICES ASSUME RHandshake PROVE ReadBytes \in Seq(Int)
      OBVIOUS
    <3>2. rburst.addr \in Int  BY <1>1 DEF RBurstInv
    <3>3. r_addr_inc \in Nat  BY <1>1 DEF RdTypes
    <3> QED  BY <3>2, <3>3 DEF ReadBytes
  <2> HIDE DEF popped
  <2> QED  BY <2>1, <2>2, <2>3
<1>9. ByteCountFollows'
  <2>1. byte_cnt = cfg.bytes - Len(out) + (IF wr.beat THEN inc ELSE 0)
    BY <1>1 DEF CountInv, ByteCountFollows
  <2>2. byte_cnt' = IF wr.beat THEN byte_cnt - inc ELSE byte_cnt
    BY DEF Clock, CtrlEdge
  <2>3. byte_cnt \in Int /\ cfg.bytes \in Int /\ Len(out) \in Int
    BY <1>5, TransferAssumption DEF IInv, StartInv, NoTransfer
  <2>4. wr.beat => inc \in Int  BY <1>1, <1>3 DEF WrTypes
  <2>5. byte_cnt' = cfg.bytes - Len(out)  BY <2>1, <2>2, <2>3, <2>4
  <2>6. CASE WHandshake(i)
    <3>1. inc \in Int  BY <1>2, <1>3, <2>6
    <3>2. Len(out') = Len(out) + inc /\ wr'.beat /\ w_addr_inc' = inc /\ cfg' = cfg
      BY <1>1, <1>4, <1>7, <2>6
    <3> HIDE DEF inc
    <3> QED  BY <2>3, <2>5, <3>1, <3>2 DEF ByteCountFollows
  <2>7. CASE ~WHandshake(i)
    <3>1. out' = out /\ ~wr'.beat /\ cfg' = cfg  BY <1>1, <1>4, <1>7, <2>7
    <3> QED  BY <2>3, <2>5, <3>1 DEF ByteCountFollows
  <2> QED  BY <2>6, <2>7
<1> QED  BY <1>5, <1>7, <1>8, <1>9 DEF CountInv
-----------------------------------------------------------------------------
(* The bytes of a transfer, as long as no read has failed                  *)

\* Bytes of the transfer that were read; how far an address has moved.
Got == cfg.bytes - (IF rd.state = "IDLE" THEN 0 ELSE rd.rdBytes)
Moved(inc, n) == IF inc THEN n ELSE 0

\* The read machine, the burst on the bus and the bytes read agree.
RdCopy ==
  /\ rd.error = OKAY
  /\ rd.state # "DATA" => rburst.left = 0
  /\ rd.state # "IDLE" => (rd.rdInc <=> cfg.rinc) /\ rd.rdBytes <= cfg.bytes
  /\ rd.state \in {"SETUP", "WAIT"} => rd.araddr = cfg.src + Moved(cfg.rinc, Got)
  /\ rd.state = "DATA" => /\ rd.r_len \in 0 .. 15 /\ rburst.left = rd.r_len + 1
                          /\ rburst.left * r_addr_inc <= rd.rdBytes
                          /\ rburst.step = Moved(cfg.rinc, r_addr_inc)
                          /\ rburst.addr = cfg.src + Moved(cfg.rinc, Got)
                          /\ rd.araddr = rburst.addr + rburst.left * rburst.step
\* So do the write machine, its burst and the bytes written.
WrCopy ==
  /\ wr.done <=> wr.state = "IDLE"
  /\ wr.state # "IDLE" => Len(out) = cfg.bytes - wr.wrBytes
  /\ wr.state \in {"SETUP", "WAIT", "RESP"} => wr.awaddr = cfg.dst + Moved(cfg.winc, Len(out))
  /\ wr.state = "DATA" =>
       /\ wburst.addr = cfg.dst + Moved(cfg.winc, Len(out))
       /\ wr.awaddr = wburst.addr + Moved(cfg.winc, (wr.w_len + 1) * w_addr_inc)
  /\ wr.state = "IDLE" /\ ~start /\ wr.error = OKAY /\ out # <<>> => Len(out) = cfg.bytes
\* The FIFO holds the bytes between, and what left it was written in place.
FifoCopy ==
  wr.state # "IDLE" => /\ Len(fifo) = Got - Len(out)
                       /\ \A k \in 1 .. Len(fifo) : fifo[k] = SrcByte(Len(out) + k - 1)
OutCopy == \A k \in 1 .. Len(out) : out[k] = <<DstByte(k - 1), SrcByte(k - 1)>>

CopyInv == ~failed => RdCopy /\ WrCopy /\ FifoCopy /\ OutCopy

\* A multiple leaves no trace in a remainder.
LEMMA Offset ==
  ASSUME NEW m \in Nat \ {0}, NEW n \in Nat, Multiple(n, m), NEW j \in 0 .. m - 1
  PROVE  (n + j) % m = j
<1>1. PICK q \in Int : n = m * q  BY DEF Multiple
<1>2. q \in Nat
  <2>1. CASE q <= -1
    <3>1. m * q <= m * (-1)  BY <2>1, Monotonic
    <3> QED  BY <1>1, <3>1
  <2> QED  BY <2>1
<1> QED  BY <1>1, <1>2, Remainder

\* What a machine that runs knows of its transfer.
LEMMA Running ==
  ASSUME IInv
  PROVE  /\ rd.state # "IDLE" =>
              /\ cfg \in Transfers /\ cfg.bytes \in Nat /\ cfg.src \in Nat /\ cfg.rinc \in BOOLEAN
              /\ rd.rdBytes \in Nat \ {0} /\ rd.araddr \in Nat
              /\ r_addr_inc \in Nat \ {0} /\ r_addr_inc = 2 ^ cfg.rsize
              /\ Multiple(rd.rdBytes, r_addr_inc) /\ Multiple(cfg.bytes, r_addr_inc)
              /\ rbeats \in 0 .. 15 /\ (rbeats + 1) * r_addr_inc <= rd.rdBytes
         /\ wr.state # "IDLE" =>
              /\ cfg \in Transfers /\ cfg.bytes \in Nat /\ cfg.dst \in Nat /\ cfg.winc \in BOOLEAN
              /\ wr.wrBytes \in Nat /\ wr.awaddr \in Nat
              /\ w_addr_inc \in Nat \ {0} /\ w_addr_inc = 2 ^ cfg.wsize
              /\ Multiple(wr.wrBytes, w_addr_inc) /\ Multiple(cfg.bytes, w_addr_inc)
<1>1. RdTypes /\ RdInv /\ WrTypes /\ WrInv  BY DEF IInv
<1>2. ASSUME rd.state # "IDLE"
      PROVE  /\ cfg \in Transfers /\ cfg.bytes \in Nat /\ cfg.src \in Nat /\ cfg.rinc \in BOOLEAN
             /\ rd.rdBytes \in Nat \ {0} /\ rd.araddr \in Nat
             /\ r_addr_inc \in Nat \ {0} /\ r_addr_inc = 2 ^ cfg.rsize
             /\ Multiple(rd.rdBytes, r_addr_inc) /\ Multiple(cfg.bytes, r_addr_inc)
             /\ rbeats \in 0 .. 15 /\ (rbeats + 1) * r_addr_inc <= rd.rdBytes
  <2>1. cfg \in Transfers /\ rd.size = cfg.rsize /\ rd.burst = cfg.rburst
        /\ Aligned(rd.araddr, rd.rdBytes, 2 ^ rd.size)
    BY <1>1, <1>2 DEF RdInv, r_addr_inc
  <2>2. Aligned(cfg.src, cfg.bytes, 2 ^ cfg.rsize) /\ 2 ^ rd.burst \in Nat \ {0} /\ cfg.rinc \in BOOLEAN
    BY <2>1, Transfer
  <2>3. rbeats \in 0 .. 15 /\ (rbeats + 1) * r_addr_inc <= rd.rdBytes
    BY <2>1, <2>2, BeatsFit DEF rbeats, r_addr_inc
  <2> QED  BY <2>1, <2>2, <2>3 DEF Aligned, r_addr_inc
<1>3. ASSUME wr.state # "IDLE"
      PROVE  /\ cfg \in Transfers /\ cfg.bytes \in Nat /\ cfg.dst \in Nat /\ cfg.winc \in BOOLEAN
             /\ wr.wrBytes \in Nat /\ wr.awaddr \in Nat
             /\ w_addr_inc \in Nat \ {0} /\ w_addr_inc = 2 ^ cfg.wsize
             /\ Multiple(wr.wrBytes, w_addr_inc) /\ Multiple(cfg.bytes, w_addr_inc)
  <2>1. cfg \in Transfers /\ wr.size = cfg.wsize /\ wr.awaddr \in Nat /\ wr.wrBytes \in Nat
        /\ Multiple(wr.wrBytes, w_addr_inc)
    BY <1>1, <1>3 DEF WrInv
  <2>2. Aligned(cfg.dst, cfg.bytes, 2 ^ cfg.wsize) /\ cfg.winc \in BOOLEAN
    BY <2>1, Transfer
  <2> QED  BY <2>1, <2>2 DEF Aligned, w_addr_inc
<1> QED  BY <1>2, <1>3

\* What the read side does on an edge, without an error: it starts with
\* nothing read, and each beat adds its bytes.
LEMMA CopyRead ==
  ASSUME IInv, RdCopy, NEW i, NEW status_rd, Clock(i, status_rd), ~failed'
  PROVE  /\ RdCopy'
         /\ RHandshake => rd.state = "DATA"
         /\ dma_req_ack => rd'.state # "IDLE" /\ Got' = 0
         /\ ~dma_req_ack => Got' = IF RHandshake THEN Got + r_addr_inc ELSE Got
<1>1. /\ RdTypes /\ RdInv /\ RBurstInv /\ cfg' = cfg /\ RdEdge(i)
      /\ (RHandshake => ~IsError(rresp)) /\ ~IsError(rd.error)
  <2>1. RdTypes /\ RdInv /\ RBurstInv /\ cfg' = cfg /\ RdEdge(i)  BY StartStep DEF IInv, Clock
  <2>2. failed' = (failed \/ (RHandshake /\ IsError(rresp)))  BY DEF Clock, BusEdge
  <2>3. ~IsError(rd.error)  BY DEF RdCopy, IsError, OKAY, SLVERR, DECERR
  <2> QED  BY <2>1, <2>2, <2>3, Zenon
<1>2. /\ ArHandshake(i) => rd.state = "WAIT"
      /\ RHandshake => rd.state = "DATA"
      /\ dma_req_ack => rd.state = "IDLE"
      /\ ~ArHandshake(i) /\ ~RHandshake => rburst' = rburst
  BY <1>1 DEF Clock, BusEdge, ArHandshake, RHandshake, RdTypes, RBurstInv, RdCopy, dma_req_ack, dma_rdy
<1> DEFINE inc == r_addr_inc
<1>3. rd.state # "IDLE" =>
        /\ cfg.bytes \in Nat /\ cfg.src \in Nat /\ cfg.rinc \in BOOLEAN
        /\ rd.rdBytes \in Nat \ {0} /\ inc \in Nat \ {0}
        /\ rbeats \in 0 .. 15 /\ (rbeats + 1) * inc <= rd.rdBytes
  BY Running
<1>4. CASE rd.state = "IDLE" /\ ~dma_req_ack
  <2>1. rd' = [rd EXCEPT !.beat = FALSE]  BY <1>1, <1>4 DEF RdEdge, RdIdle
  <2>2. rburst' = rburst /\ ~RHandshake  BY <1>2, <1>4
  <2>3. rd'.state = "IDLE" /\ rd'.error = rd.error /\ Got' = Got
    BY <1>1, <1>4, <2>1 DEF RdTypes, Got
  <2> QED  BY <1>4, <2>2, <2>3 DEF RdCopy
<1>5. CASE rd.state = "IDLE" /\ dma_req_ack
  <2>1. /\ rd'.state = "SETUP" /\ rd'.araddr = src_addr /\ rd'.error = OKAY
        /\ rd'.rdBytes = byte_cnt % BytesRange /\ rd'.rdInc = cfg.rinc
    BY <1>1, <1>5 DEF RdEdge, RdIdle, RdTypes
  <2>2. cfg \in Transfers /\ src_addr = cfg.src /\ byte_cnt = cfg.bytes
    BY <1>5 DEF dma_req_ack, dma_req, IInv, StartInv
  <2>3. rd'.rdBytes = cfg.bytes /\ cfg.bytes \in Nat /\ cfg.src \in Nat /\ cfg.rinc \in BOOLEAN
    BY <2>1, <2>2, Transfer DEF Aligned
  <2>4. rburst' = rburst /\ ~RHandshake  BY <1>2, <1>5
  <2>5. Got' = 0  BY <1>1, <2>1, <2>3 DEF Got
  <2>6. (rd'.rdInc <=> cfg.rinc) /\ rd'.araddr = cfg.src + Moved(cfg.rinc, 0)
        /\ rd'.rdBytes <= cfg.bytes /\ rd'.state # "IDLE" /\ rburst'.left = 0
    BY <1>5, <2>1, <2>2, <2>3, <2>4 DEF Moved, RdCopy
  <2> QED  BY <1>1, <1>5, <2>1, <2>4, <2>5, <2>6 DEF RdCopy
<1>6. CASE rd.state = "SETUP" \/ (rd.state = "WAIT" /\ ~ArHandshake(i))
  <2>1. /\ rd'.state = "WAIT" /\ rd'.araddr = rd.araddr /\ rd'.error = rd.error
        /\ rd'.rdBytes = rd.rdBytes /\ rd'.rdInc = rd.rdInc
    <3>1. CASE rd.state = "SETUP"  BY <1>1, <3>1 DEF RdEdge, RdSetup, RdTypes
    <3>2. CASE rd.state = "WAIT" /\ ~ArHandshake(i)  BY <1>1, <3>2 DEF RdEdge, RdWait, RdTypes
    <3> QED  BY <1>6, <3>1, <3>2
  <2>2. rburst' = rburst /\ ~RHandshake /\ ~dma_req_ack  BY <1>2, <1>6
  <2>3. Got' = Got  BY <1>1, <1>6, <2>1 DEF Got
  <2> QED  BY <1>1, <1>6, <2>1, <2>2, <2>3 DEF RdCopy
<1>7. CASE rd.state = "WAIT" /\ ArHandshake(i)
  <2>1. /\ rd'.state = "DATA" /\ rd'.error = rd.error /\ rd'.r_len = rd.r_len
        /\ rd'.araddr = (IF rd.rdInc THEN rd.araddr + (rbeats + 1) * inc ELSE rd.araddr)
        /\ rd'.rdBytes = rd.rdBytes /\ rd'.rdInc = rd.rdInc /\ rd'.size = rd.size
    BY <1>1, <1>7 DEF RdEdge, RdWait, RdTypes
  <2>2. rd.r_len = rbeats /\ r_addr_inc' = inc  BY <1>1, <1>7, <2>1 DEF RdInv, r_addr_inc
  <2>3. /\ rburst'.addr = rd.araddr /\ rburst'.left = rbeats + 1
        /\ rburst'.step = IF rd.rdInc THEN inc ELSE 0
    BY <1>7, <2>2 DEF Clock, BusEdge
  <2>4. ~RHandshake /\ ~dma_req_ack  BY <1>2, <1>7
  <2>5. Got' = Got  BY <1>1, <1>7, <2>1 DEF Got
  <2>6. /\ rd.araddr = cfg.src + Moved(cfg.rinc, Got) /\ (rd.rdInc <=> cfg.rinc)
        /\ rd.rdBytes <= cfg.bytes
    BY <1>7 DEF RdCopy
  <2>7. rburst'.step = Moved(cfg.rinc, inc)  BY <2>3, <2>6 DEF Moved
  <2>8. rd'.araddr = rburst'.addr + rburst'.left * rburst'.step
    <3>1. rbeats + 1 \in Nat /\ rd.araddr \in Nat  BY <1>3, <1>7, Running
    <3>2. CASE rd.rdInc  BY <2>1, <2>3, <3>2
    <3>3. CASE ~rd.rdInc
      <4>1. (rbeats + 1) * 0 = 0 /\ rd.araddr + 0 = rd.araddr  BY <3>1
      <4> QED  BY <2>1, <2>3, <3>3, <4>1
    <3> QED  BY <3>2, <3>3
  <2>9. rburst'.left * r_addr_inc' <= rd'.rdBytes  BY <1>3, <1>7, <2>1, <2>2, <2>3
  <2>10. rd'.r_len \in 0 .. 15  BY <1>3, <1>7, <2>1, <2>2
  <2> HIDE DEF inc
  <2> QED  BY <1>1, <2>1, <2>2, <2>3, <2>4, <2>5, <2>6, <2>7, <2>8, <2>9, <2>10, <1>7 DEF RdCopy
<1>8. CASE rd.state = "DATA" /\ ~RHandshake
  <2>1. rd' = [rd EXCEPT !.beat = FALSE]  BY <1>1, <1>8 DEF RdEdge, RdData
  <2>2. rburst' = rburst /\ ~dma_req_ack  BY <1>2, <1>8
  <2>3. Got' = Got /\ r_addr_inc' = inc  BY <1>1, <2>1 DEF Got, RdTypes, r_addr_inc
  <2> QED  BY <1>1, <1>8, <2>1, <2>2, <2>3 DEF RdCopy, RdTypes
<1>9. CASE rd.state = "DATA" /\ RHandshake
  <2>1. ~ArHandshake(i) /\ ~dma_req_ack  BY <1>2, <1>9
  <2>2. rburst'.addr = rburst.addr + rburst.step /\ rburst'.left = rburst.left - 1
        /\ rburst'.step = rburst.step
    BY <1>1, <1>9, <2>1 DEF Clock, BusEdge, RBurstInv
  <2>3. /\ rd'.error = rd.error /\ rd'.araddr = rd.araddr /\ rd'.rdInc = rd.rdInc
        /\ rd'.size = rd.size
        /\ rd_last => rd'.state = "IDLE"
        /\ ~rd_last => /\ rd'.rdBytes = rd.rdBytes - inc /\ rd'.r_len = (rd.r_len - 1) % 256
                       /\ rd'.state = (IF rd.r_len = 0 THEN "SETUP" ELSE "DATA")
    <3>1. rd' = RdData  BY <1>1, <1>9 DEF RdEdge
    <3>2. CASE rd_last  BY <1>1, <1>9, <3>1, <3>2 DEF RdData, RdTypes
    <3>3. CASE ~rd_last  BY <1>1, <1>9, <3>1, <3>3 DEF RdData, RdTypes
    <3> QED  BY <3>2, <3>3
  <2>4. /\ rd.r_len \in 0 .. 15 /\ rburst.left = rd.r_len + 1
        /\ rburst.left * inc <= rd.rdBytes /\ rburst.step = Moved(cfg.rinc, inc)
        /\ rburst.addr = cfg.src + Moved(cfg.rinc, Got)
        /\ rd.araddr = rburst.addr + rburst.left * rburst.step
        /\ (rd.rdInc <=> cfg.rinc) /\ rd.rdBytes <= cfg.bytes /\ rd.error = OKAY
    BY <1>9 DEF RdCopy
  <2>5. /\ cfg.bytes \in Nat /\ cfg.src \in Nat /\ cfg.rinc \in BOOLEAN
        /\ rd.rdBytes \in Nat \ {0} /\ inc \in Nat \ {0}
    BY <1>3, <1>9
  <2>6. r_addr_inc' = inc /\ (rd_last <=> rd.rdBytes = inc)  BY <2>3 DEF r_addr_inc, rd_last
  <2>7. Got = cfg.bytes - rd.rdBytes /\ Got \in Nat  BY <1>9, <2>4, <2>5 DEF Got
  <2>8. rburst.left * inc = rd.r_len * inc + inc /\ rd.r_len * inc \in Nat
        /\ (rd.r_len > 0 => rd.r_len * inc > 0)
    <3>1. rd.r_len \in Nat  BY <2>4
    <3> HIDE DEF inc
    <3> QED  BY <2>4, <2>5, <3>1
  <2>9. CASE rd_last
    <3>1. rd'.state = "IDLE"  BY <2>3, <2>9
    <3>2. rd.r_len = 0
      <4> DEFINE rest == rd.r_len * inc
      <4>1. rest + inc <= inc /\ rest \in Nat /\ (rd.r_len > 0 => rest > 0)
        BY <2>4, <2>6, <2>8, <2>9
      <4> HIDE DEF rest, inc
      <4> QED  BY <2>4, <2>5, <4>1
    <3>3. rburst'.left = 0  BY <2>2, <2>4, <3>2
    <3>4. Got' = Got + inc
      <4>1. Got' = cfg.bytes - 0  BY <1>1, <3>1 DEF Got
      <4> HIDE DEF inc
      <4> QED  BY <2>5, <2>6, <2>7, <2>9, <4>1
    <3> QED  BY <1>9, <2>1, <2>3, <2>4, <3>1, <3>3, <3>4 DEF RdCopy
  <2>10. CASE ~rd_last
    <3>1. /\ rd'.rdBytes = rd.rdBytes - inc /\ rd'.r_len = (rd.r_len - 1) % 256
          /\ rd'.state = (IF rd.r_len = 0 THEN "SETUP" ELSE "DATA") /\ rd'.state # "IDLE"
      BY <2>3, <2>10
    <3>2. Got' = Got + inc
      <4>1. Got' = cfg.bytes - (rd.rdBytes - inc)  BY <1>1, <3>1 DEF Got
      <4> HIDE DEF inc
      <4> QED  BY <2>5, <2>7, <4>1
    <3>3. Moved(cfg.rinc, Got + inc) = Moved(cfg.rinc, Got) + Moved(cfg.rinc, inc)
          /\ Moved(cfg.rinc, Got) \in Nat /\ Moved(cfg.rinc, inc) \in Nat
      <4> HIDE DEF inc
      <4> QED  BY <2>5, <2>7 DEF Moved
    <3>4. rburst'.addr = cfg.src + Moved(cfg.rinc, Got')
      <4> HIDE DEF inc
      <4> QED  BY <2>2, <2>4, <2>5, <3>2, <3>3
    <3>5. rd'.rdBytes <= cfg.bytes
      <4> HIDE DEF inc
      <4> QED  BY <2>4, <2>5, <3>1
    <3>6. (rd'.rdInc <=> cfg'.rinc) /\ rd'.error = OKAY /\ cfg' = cfg
          /\ Got' = (IF RHandshake THEN Got + inc ELSE Got)
      BY <1>1, <1>9, <2>3, <2>4, <3>2
    <3>7. CASE rd.r_len = 0
      <4>1. rburst'.left = 0 /\ rd'.state = "SETUP"  BY <2>2, <2>4, <3>1, <3>7
      <4>2. rd'.araddr = rburst'.addr
        <5>1. rburst.left = 1  BY <2>4, <3>7
        <5>2. rburst.step \in Nat  BY <2>4, <3>3
        <5>3. 1 * rburst.step = rburst.step  BY <5>2
        <5> QED  BY <2>2, <2>3, <2>4, <5>1, <5>3
      <4> HIDE DEF inc
      <4>3. RdCopy'  BY <3>4, <3>5, <3>6, <4>1, <4>2 DEF RdCopy
      <4> QED  BY <1>9, <2>1, <3>6, <4>3 DEF inc
    <3>8. CASE rd.r_len > 0
      <4>1. rd'.state = "DATA" /\ rd'.r_len = rd.r_len - 1 /\ rd'.r_len \in 0 .. 15
            /\ rburst'.left = rd.r_len /\ rburst'.left = rd'.r_len + 1
        BY <2>2, <2>4, <3>1, <3>8
      <4>2. rburst'.left * r_addr_inc' <= rd'.rdBytes
        <5> DEFINE rest == rd.r_len * inc
        <5>1. rest + inc <= rd.rdBytes /\ rest \in Nat  BY <2>4, <2>8
        <5>2. rburst'.left * r_addr_inc' = rest  BY <2>6, <4>1
        <5> HIDE DEF rest, inc
        <5> QED  BY <2>5, <3>1, <5>1, <5>2
      <4>3. rd'.araddr = rburst'.addr + rburst'.left * rburst'.step
        <5> DEFINE n == rd.r_len  s == rburst.step
        <5>1. n \in Nat /\ s \in Nat  BY <2>4, <3>3
        <5>2. (n + 1) * s = s + n * s /\ n * s \in Nat  BY <5>1
        <5>3. rd'.araddr = rburst.addr + (n + 1) * s /\ rburst'.addr = rburst.addr + s
              /\ rburst'.left = n /\ rburst'.step = s /\ rburst.addr \in Nat
          BY <1>1, <2>2, <2>3, <2>4, <4>1 DEF RBurstInv
        <5> DEFINE ns == n * s
        <5>4. ns \in Nat /\ rd'.araddr = rburst.addr + (s + ns)
              /\ rburst'.addr + rburst'.left * rburst'.step = (rburst.addr + s) + ns
          BY <5>2, <5>3
        <5> HIDE DEF ns, n, s
        <5> QED  BY <5>1, <5>3, <5>4
      <4>4. rburst'.step = Moved(cfg.rinc, r_addr_inc')  BY <2>2, <2>4, <2>6
      <4> HIDE DEF inc
      <4>5. RdCopy'  BY <3>4, <3>5, <3>6, <4>1, <4>2, <4>3, <4>4 DEF RdCopy
      <4> QED  BY <1>9, <2>1, <3>6, <4>5 DEF inc
    <3> QED  BY <2>4, <3>7, <3>8
  <2> QED  BY <2>9, <2>10
<1> QED  BY <1>1, <1>4, <1>5, <1>6, <1>7, <1>8, <1>9 DEF RdTypes, States

LEMMA JoinedAt ==
  ASSUME NEW S, NEW f \in Seq(S), NEW g \in Seq(S)
  PROVE  /\ \A k \in 1 .. Len(f) : (f \o g)[k] = f[k]
         /\ \A k \in 1 .. Len(g) : (f \o g)[Len(f) + k] = g[k]
  OBVIOUS

\* What a beat of data adds to out; without a failed read, the FIFO held it.
LEMMA OutGrows ==
  ASSUME IInv, rd.error = OKAY, NEW i, NEW status_rd, Clock(i, status_rd)
  PROVE  /\ WHandshake(i) =>
              /\ wr.state = "DATA" /\ wready_o /\ w_addr_inc <= Len(fifo)
              /\ Len(out') = Len(out) + w_addr_inc
              /\ \A k \in 1 .. Len(out) : out'[k] = out[k]
              /\ \A k \in 1 .. w_addr_inc : out'[Len(out) + k] = <<wburst.addr + k - 1, fifo[k]>>
         /\ ~WHandshake(i) => out' = out
<1>1. ~WHandshake(i) => out' = out  BY DEF Clock, BusEdge
<1>2. SUFFICES ASSUME WHandshake(i)
      PROVE  /\ wr.state = "DATA" /\ wready_o /\ w_addr_inc <= Len(fifo)
             /\ Len(out') = Len(out) + w_addr_inc
             /\ \A k \in 1 .. Len(out) : out'[k] = out[k]
             /\ \A k \in 1 .. w_addr_inc : out'[Len(out) + k] = <<wburst.addr + k - 1, fifo[k]>>
  BY <1>1
<1>3. wr.state = "DATA"  BY <1>2 DEF IInv, WHandshake, WBurstInv
<1>4. wready_o  BY <1>2 DEF WHandshake, wvalid, LowBit, OKAY, DECERR
<1>5. /\ fifo \in Seq(Int) /\ out \in Seq(Int \X Int) /\ wburst.addr \in Int
      /\ w_addr_inc \in Nat \ {0}
  BY <1>3, Running DEF IInv, CountInv, WBurstInv
<1>6. w_addr_inc <= Len(fifo)  BY <1>4, <1>5 DEF wready_o
<1> DEFINE inc == w_addr_inc
           more == [k \in 1 .. inc |-> <<wburst.addr + k - 1, fifo[k]>>]
<1>7. out' = out \o more
  <2>1. out' = out \o [k \in 1 .. inc |-> <<wburst.addr + k - 1, WriteBytes[k]>>]
    BY <1>2 DEF Clock, BusEdge
  <2>2. WriteBytes = SubSeq(fifo, 1, inc)  BY <1>4 DEF WriteBytes
  <2>3. \A k \in 1 .. inc : WriteBytes[k] = fifo[k]
    <3> HIDE DEF inc
    <3> QED  BY <1>5, <1>6, <2>2 DEF inc
  <2> HIDE DEF inc
  <2> QED  BY <2>1, <2>3
<1>8. more \in Seq(Int \X Int) /\ Len(more) = inc
  <2> HIDE DEF inc
  <2>1. \A k \in 1 .. inc : fifo[k] \in Int  BY <1>5, <1>6 DEF inc
  <2>2. \A k \in 1 .. inc : more[k] \in Int \X Int  BY <1>5, <2>1
  <2> QED  BY <1>5, <2>2 DEF inc
<1>9. \A k \in 1 .. inc : more[k] = <<wburst.addr + k - 1, fifo[k]>>  OBVIOUS
<1> HIDE DEF more
<1>10. Len(out \o more) = Len(out) + Len(more)  BY <1>5, <1>8, Joined, Zenon
<1>11. /\ \A k \in 1 .. Len(out) : (out \o more)[k] = out[k]
       /\ \A k \in 1 .. Len(more) : (out \o more)[Len(out) + k] = more[k]
  BY <1>5, <1>8, JoinedAt
<1> QED  BY <1>3, <1>4, <1>6, <1>7, <1>8, <1>9, <1>10, <1>11

\* The write machine and its burst move with the bytes written.
LEMMA CopyWrite ==
  ASSUME IInv, rd.error = OKAY, WrCopy, NEW i, NEW status_rd, Clock(i, status_rd)
  PROVE  WrCopy'
<1>1. /\ WrTypes /\ WrInv /\ WBurstInv /\ CountInv /\ cfg' = cfg /\ start' = FALSE /\ WrEdge(i)
      /\ (start => dma_req_ack /\ out = <<>>)
  <2>1. /\ StartInv /\ WrTypes /\ WrInv /\ WBurstInv /\ CountInv /\ cfg' = cfg /\ start' = FALSE
        /\ WrEdge(i)
    BY StartStep DEF IInv, Clock
  <2>2. ASSUME start PROVE dma_req_ack /\ out = <<>>
    <3>1. cfg \in Transfers /\ ~wr.beat /\ byte_cnt = cfg.bytes  BY <2>1, <2>2 DEF StartInv
    <3>2. cfg.bytes \in Nat \ {0}  BY <3>1, Transfer DEF Aligned
    <3>3. dma_req_ack  BY <2>1, <2>2, <3>1, <3>2 DEF StartInv, dma_req_ack, dma_req
    <3>4. cfg.bytes = cfg.bytes - Len(out) + 0 /\ out \in Seq(Int \X Int)
      BY <2>1, <3>1 DEF CountInv, ByteCountFollows
    <3>5. Len(out) = 0  BY <3>2, <3>4
    <3> QED  BY <3>3, <3>4, <3>5
  <2> QED  BY <2>1, <2>2
<1>2. /\ AwHandshake(i) => wr.state = "WAIT"
      /\ WHandshake(i) => wr.state = "DATA"
      /\ BHandshake => wr.state = "RESP"
  BY <1>1 DEF AwHandshake, WHandshake, BHandshake, WrTypes, WBurstInv
<1>3. ~AwHandshake(i) /\ ~WHandshake(i) /\ ~BHandshake => wburst' = wburst
  BY DEF Clock, BusEdge
<1> DEFINE inc == w_addr_inc
<1>4. wr.state # "IDLE" =>
        /\ cfg.bytes \in Nat /\ cfg.dst \in Nat /\ cfg.winc \in BOOLEAN
        /\ wr.wrBytes \in Nat /\ inc \in Nat \ {0}
  BY Running
<1>5. Len(out) \in Nat  BY <1>1 DEF CountInv
<1>6. CASE wr.state = "IDLE" /\ ~dma_req_ack
  <2>1. wr' = wr /\ out' = out /\ ~start
    BY <1>1, <1>2, <1>6, OutGrows DEF WrEdge, WrIdle
  <2> QED  BY <1>1, <1>6, <2>1 DEF WrCopy
<1>7. CASE wr.state = "IDLE" /\ dma_req_ack
  <2>1. /\ wr'.state = "SETUP" /\ wr'.awaddr = dst_addr
        /\ wr'.wrBytes = byte_cnt % BytesRange /\ ~wr'.done
    BY <1>1, <1>7 DEF WrEdge, WrIdle, WrTypes
  <2>2. cfg \in Transfers /\ dst_addr = cfg.dst /\ byte_cnt = cfg.bytes /\ start
    BY <1>7 DEF dma_req_ack, dma_req, IInv, StartInv
  <2>3. wr'.wrBytes = cfg.bytes /\ cfg.bytes \in Nat /\ cfg.dst \in Nat /\ cfg.winc \in BOOLEAN
    BY <2>1, <2>2, Transfer DEF Aligned
  <2>4. out' = <<>>  BY <1>1, <1>2, <1>7, <2>2, OutGrows
  <2>5. Len(out') = cfg.bytes - wr'.wrBytes /\ Len(out') = 0  BY <2>3, <2>4
  <2>6. wr'.awaddr = cfg.dst + Moved(cfg.winc, Len(out'))  BY <2>1, <2>2, <2>3, <2>5 DEF Moved
  <2> QED  BY <1>1, <2>1, <2>5, <2>6 DEF WrCopy
<1>8. CASE wr.state = "SETUP" \/ (wr.state = "WAIT" /\ ~AwHandshake(i))
  <2>1. /\ wr'.state = "WAIT" /\ wr'.awaddr = wr.awaddr /\ wr'.wrBytes = wr.wrBytes
        /\ wr'.done = wr.done
    <3>1. CASE wr.state = "SETUP"  BY <1>1, <3>1 DEF WrEdge, WrSetup, WrTypes
    <3>2. CASE wr.state = "WAIT" /\ ~AwHandshake(i)  BY <1>1, <3>2 DEF WrEdge, WrWait
    <3> QED  BY <1>8, <3>1, <3>2
  <2>2. out' = out  BY <1>2, <1>8, OutGrows
  <2> QED  BY <1>1, <1>8, <2>1, <2>2 DEF WrCopy
<1>9. CASE wr.state = "WAIT" /\ AwHandshake(i)
  <2>1. /\ wr'.state = "DATA" /\ wr'.w_len = wr.w_len /\ wr'.size = wr.size
        /\ wr'.awaddr = (IF wr.wrInc THEN wr.awaddr + (wbeats + 1) * inc ELSE wr.awaddr)
        /\ wr'.wrBytes = wr.wrBytes /\ wr'.done = wr.done
    BY <1>1, <1>9 DEF WrEdge, WrWait, WrTypes
  <2>2. wr.w_len = wbeats /\ wr.wrInc = cfg.winc /\ w_addr_inc' = inc
    BY <1>1, <1>9, <2>1 DEF WrInv, w_addr_inc
  <2>3. out' = out /\ wburst'.addr = wr.awaddr
    BY <1>2, <1>9, OutGrows DEF Clock, BusEdge
  <2>4. wr'.awaddr = wburst'.addr + Moved(cfg.winc, (wr'.w_len + 1) * w_addr_inc')
    <3>1. wr.awaddr \in Nat  BY <1>9, Running
    <3>2. wr.awaddr + 0 = wr.awaddr  BY <3>1
    <3> QED  BY <2>1, <2>2, <2>3, <3>2 DEF Moved
  <2> HIDE DEF inc
  <2> QED  BY <1>1, <1>9, <2>1, <2>2, <2>3, <2>4 DEF WrCopy
<1>10. CASE wr.state = "DATA" /\ ~WHandshake(i)
  <2>1. wr' = [wr EXCEPT !.beat = FALSE]  BY <1>1, <1>10 DEF WrEdge, WrData
  <2>2. /\ wr'.state = "DATA" /\ wr'.awaddr = wr.awaddr /\ wr'.wrBytes = wr.wrBytes
        /\ wr'.done = wr.done /\ wr'.w_len = wr.w_len /\ wr'.size = wr.size
    BY <1>1, <1>10, <2>1 DEF WrTypes
  <2>3. w_addr_inc' = inc  BY <2>2 DEF w_addr_inc
  <2>4. wburst' = wburst /\ out' = out  BY <1>2, <1>3, <1>10, OutGrows
  <2> QED  BY <1>1, <1>10, <2>2, <2>3, <2>4 DEF WrCopy
<1>11. CASE wr.state = "DATA" /\ WHandshake(i)
  <2>1. /\ wr'.state = (IF wr.w_len = 0 THEN "RESP" ELSE "DATA")
        /\ wr'.wrBytes = wr.wrBytes - inc /\ wr'.w_len = (wr.w_len - 1) % 256
        /\ wr'.awaddr = wr.awaddr /\ wr'.size = wr.size /\ wr'.done = wr.done
    BY <1>1, <1>11 DEF WrEdge, WrData, WrTypes
  <2>2. w_addr_inc' = inc  BY <2>1 DEF w_addr_inc
  <2>3. wburst'.addr = IF cfg.winc THEN wburst.addr + inc ELSE wburst.addr
    <3>1. ~AwHandshake(i)  BY <1>2, <1>11
    <3>2. wburst' = [wburst EXCEPT !.addr = IF cfg.winc THEN @ + inc ELSE @,
                                 !.left = @ - 1, !.ended = wr.wlast]
      BY <1>11, <3>1 DEF Clock, BusEdge
    <3> QED  BY <1>1, <3>2 DEF WBurstInv
  <2>4. Len(out') = Len(out) + inc  BY <1>11, OutGrows
  <2>5. wr.w_len \in 0 .. 15  BY <1>1, <1>11 DEF WrInv
  <2>6. /\ wburst.addr \in Nat /\ ~wr.done
        /\ Len(out) = cfg.bytes - wr.wrBytes
        /\ wburst.addr = cfg.dst + Moved(cfg.winc, Len(out))
        /\ wr.awaddr = wburst.addr + Moved(cfg.winc, (wr.w_len + 1) * inc)
        /\ cfg.bytes \in Nat /\ cfg.dst \in Nat /\ cfg.winc \in BOOLEAN
        /\ wr.wrBytes \in Nat /\ inc \in Nat \ {0}
    BY <1>1, <1>4, <1>11 DEF WrCopy, WrInv, WBurstInv
  <2> DEFINE rest == wr.w_len * inc
  <2>7. (wr.w_len + 1) * inc = rest + inc /\ rest \in Nat /\ (wr.w_len = 0 => rest = 0)
    <3>1. wr.w_len \in Nat  BY <2>5
    <3> HIDE DEF inc
    <3> QED  BY <2>6, <3>1
  <2>8. wr.w_len > 0 => (wr'.w_len + 1) * w_addr_inc' = rest
    <3>1. wr.w_len > 0 => wr'.w_len + 1 = wr.w_len  BY <2>1, <2>5
    <3> HIDE DEF inc
    <3> QED  BY <2>2, <3>1
  <2> HIDE DEF rest, inc
  <2>9. Len(out') = cfg.bytes - wr'.wrBytes  BY <1>5, <2>1, <2>4, <2>6
  <2>10. wburst'.addr = cfg.dst + Moved(cfg.winc, Len(out'))
    BY <1>5, <2>3, <2>4, <2>6 DEF Moved
  <2>11. wr'.awaddr = wburst'.addr + Moved(cfg.winc, rest)
    BY <1>5, <2>1, <2>3, <2>6, <2>7 DEF Moved
  <2>12. CASE wr.w_len = 0
    <3>1. wr'.state = "RESP" /\ ~wr'.done  BY <2>1, <2>6, <2>12
    <3>2. wr'.awaddr = cfg.dst + Moved(cfg.winc, Len(out'))
      <4>1. rest = 0 /\ wburst'.addr \in Nat  BY <1>1, <2>3, <2>6, <2>7, <2>12
      <4>2. wr'.awaddr = wburst'.addr  BY <2>6, <2>11, <4>1 DEF Moved
      <4> QED  BY <2>10, <4>2
    <3> QED  BY <1>1, <2>9, <3>1, <3>2 DEF WrCopy
  <2>13. CASE wr.w_len > 0
    <3>1. wr'.state = "DATA" /\ ~wr'.done  BY <2>1, <2>6, <2>13
    <3> QED  BY <1>1, <2>8, <2>9, <2>10, <2>11, <2>13, <3>1 DEF WrCopy
  <2> QED  BY <2>12, <2>5, <2>13
<1>12. CASE wr.state = "RESP" /\ ~BHandshake
  <2>1. wr' = [wr EXCEPT !.beat = FALSE]  BY <1>1, <1>12 DEF WrEdge, WrResp
  <2>2. /\ wr'.state = "RESP" /\ wr'.awaddr = wr.awaddr /\ wr'.wrBytes = wr.wrBytes
        /\ wr'.done = wr.done
    BY <1>1, <1>12, <2>1 DEF WrTypes
  <2>3. out' = out  BY <1>2, <1>12, OutGrows
  <2> QED  BY <1>1, <1>12, <2>2, <2>3 DEF WrCopy
<1>13. CASE wr.state = "RESP" /\ BHandshake
  <2>1. out' = out  BY <1>2, <1>13, OutGrows
  <2>2. /\ wr'.awaddr = wr.awaddr /\ wr'.wrBytes = wr.wrBytes
        /\ \/ wr'.state = "WAIT" /\ wr'.done = wr.done
           \/ /\ wr'.state = "IDLE" /\ wr'.done = TRUE
              /\ wr'.error = OKAY => wr.wrBytes = 0
    <3>1. wr' = WrResp  BY <1>1, <1>13 DEF WrEdge
    <3>2. ~LowBit(rd.error)  BY DEF LowBit, OKAY, DECERR
    <3>3. CASE wr.wrBytes # 0 /\ ~IsError(bresp)
      BY <1>1, <1>13, <3>1, <3>2, <3>3 DEF WrResp, WrTypes
    <3>4. CASE ~(wr.wrBytes # 0 /\ ~IsError(bresp))
      <4>1. wr'.error = bresp /\ wr'.state = "IDLE" /\ wr'.done = TRUE
            /\ wr'.awaddr = wr.awaddr /\ wr'.wrBytes = wr.wrBytes
        BY <1>1, <1>13, <3>1, <3>4 DEF WrResp, WrTypes
      <4> QED  BY <3>4, <4>1 DEF IsError, OKAY, SLVERR, DECERR
    <3> QED  BY <3>3, <3>4
  <2>3. Len(out) = cfg.bytes - wr.wrBytes /\ ~wr.done
        /\ wr.awaddr = cfg.dst + Moved(cfg.winc, Len(out))
    BY <1>13 DEF WrCopy
  <2>4. wr.wrBytes = 0 => Len(out) = cfg.bytes  BY <1>4, <1>13, <2>3
  <2>5. CASE wr'.state = "WAIT" /\ wr'.done = wr.done
    BY <1>1, <2>1, <2>2, <2>3, <2>5 DEF WrCopy
  <2>6. CASE wr'.state = "IDLE" /\ wr'.done = TRUE /\ (wr'.error = OKAY => wr.wrBytes = 0)
    BY <1>1, <2>1, <2>2, <2>3, <2>4, <2>6 DEF WrCopy
  <2> QED  BY <2>2, <2>5, <2>6
<1> QED  BY <1>1, <1>6, <1>7, <1>8, <1>9, <1>10, <1>11, <1>12, <1>13 DEF WrTypes, States

\* Byte j of a beat that starts after n bytes, at an address that moved or not.
LEMMA ByteAt ==
  ASSUME NEW b \in BOOLEAN, NEW base \in Nat, NEW m \in Nat \ {0}, NEW n \in Nat, Multiple(n, m),
         NEW j \in 1 .. m
  PROVE  /\ b => base + Moved(b, n) + j - 1 = base + (n + j - 1)
         /\ ~b => base + Moved(b, n) + j - 1 = base + ((n + j - 1) % m)
<1>1. j - 1 \in 0 .. m - 1 /\ n + j - 1 = n + (j - 1)  OBVIOUS
<1>2. (n + j - 1) % m = j - 1  BY <1>1, Offset
<1> QED  BY <1>2 DEF Moved

LEMMA Lengths == IInv => Len(out) \in Nat /\ Len(fifo) \in Nat
<1>1. IInv => out \in Seq(Int \X Int) /\ fifo \in Seq(Int)  BY DEF IInv, CountInv
<1>2. \A S : \A s \in Seq(S) : Len(s) \in Nat  OBVIOUS
<1> QED  BY <1>1, <1>2

\* A beat writes the FIFO's first bytes to their places.
LEMMA CopyOut ==
  ASSUME IInv, RdCopy, WrCopy, FifoCopy, OutCopy, NEW i, NEW status_rd, Clock(i, status_rd)
  PROVE  OutCopy'
<1>1. cfg' = cfg /\ Len(out) \in Nat /\ Len(fifo) \in Nat
  BY StartStep, Lengths
<1>2. CASE ~WHandshake(i)
  <2>1. out' = out  BY <1>2, OutGrows DEF RdCopy
  <2> QED  BY <1>1, <2>1 DEF OutCopy, SrcByte, DstByte
<1>3. CASE WHandshake(i)
  <2> DEFINE inc == w_addr_inc
  <2>1. /\ wr.state = "DATA" /\ inc <= Len(fifo)
        /\ Len(out') = Len(out) + inc
        /\ \A k \in 1 .. Len(out) : out'[k] = out[k]
        /\ \A k \in 1 .. inc : out'[Len(out) + k] = <<wburst.addr + k - 1, fifo[k]>>
    BY <1>3, OutGrows DEF RdCopy
  <2>2. /\ cfg.bytes \in Nat /\ cfg.dst \in Nat /\ cfg.winc \in BOOLEAN /\ wr.wrBytes \in Nat
        /\ inc \in Nat \ {0} /\ inc = 2 ^ cfg.wsize
        /\ Multiple(wr.wrBytes, inc) /\ Multiple(cfg.bytes, inc)
    BY <2>1, Running
  <2>3. /\ Len(out) = cfg.bytes - wr.wrBytes
        /\ wburst.addr = cfg.dst + Moved(cfg.winc, Len(out))
        /\ \A k \in 1 .. Len(fifo) : fifo[k] = SrcByte(Len(out) + k - 1)
    BY <2>1 DEF WrCopy, FifoCopy
  <2> HIDE DEF inc
  <2>4. Multiple(Len(out), inc)
    <3>1. cfg.bytes \in Int /\ wr.wrBytes \in Int  BY <2>2
    <3>2. Multiple(cfg.bytes - wr.wrBytes, inc)  BY <2>2, <3>1, Sums, Zenon
    <3> QED  BY <2>3, <3>2
  <2>5. \A j \in 1 .. inc : wburst.addr + j - 1 = DstByte(Len(out) + j - 1)
    <3>1. SUFFICES ASSUME NEW j \in 1 .. inc
                   PROVE  wburst.addr + j - 1 = DstByte(Len(out) + j - 1)
      OBVIOUS
    <3>2. /\ cfg.winc => cfg.dst + Moved(cfg.winc, Len(out)) + j - 1 = cfg.dst + (Len(out) + j - 1)
          /\ ~cfg.winc => cfg.dst + Moved(cfg.winc, Len(out)) + j - 1
                            = cfg.dst + ((Len(out) + j - 1) % inc)
      <4>1. cfg.winc \in BOOLEAN /\ cfg.dst \in Nat /\ inc \in Nat \ {0}  BY <2>2
      <4>2. Len(out) \in Nat /\ Multiple(Len(out), inc)  BY <1>1, <2>4
      <4> QED  BY <3>1, <4>1, <4>2, ByteAt, ZenonT(30)
    <3> QED  BY <2>2, <2>3, <3>2 DEF DstByte
  <2>6. ASSUME NEW k \in 1 .. Len(out') PROVE out'[k] = <<DstByte(k - 1), SrcByte(k - 1)>>
    <3>1. CASE k \in 1 .. Len(out)  BY <2>1, <3>1 DEF OutCopy
    <3>2. CASE k \notin 1 .. Len(out)
      <4> DEFINE j == k - Len(out)
      <4>1. j \in 1 .. inc /\ k = Len(out) + j /\ j \in 1 .. Len(fifo)
            /\ k - 1 = Len(out) + j - 1
        <5>1. inc \in Nat /\ inc <= Len(fifo) /\ Len(out') = Len(out) + inc
          BY <2>1, <2>2 DEF inc
        <5> QED  BY <1>1, <3>2, <5>1
      <4> HIDE DEF j
      <4>2. out'[k] = <<wburst.addr + j - 1, fifo[j]>>  BY <2>1, <4>1 DEF inc
      <4>3. wburst.addr + j - 1 = DstByte(k - 1)  BY <2>5, <4>1
      <4>4. fifo[j] = SrcByte(k - 1)  BY <2>3, <4>1
      <4> QED  BY <4>2, <4>3, <4>4
    <3> QED  BY <3>1, <3>2
  <2> QED  BY <1>1, <2>6 DEF OutCopy, SrcByte, DstByte
<1> QED  BY <1>2, <1>3

\* The FIFO keeps the bytes between what was read and what was written.
LEMMA CopyFifo ==
  ASSUME IInv, RdCopy, WrCopy, FifoCopy, NEW i, NEW status_rd, Clock(i, status_rd), ~failed'
  PROVE  FifoCopy'
<1>1. /\ cfg' = cfg /\ WrEdge(i) /\ FifoEdge(i)
      /\ Len(out) \in Nat /\ Len(fifo) \in Nat /\ fifo \in Seq(Int) /\ rburst.addr \in Nat
      /\ WrTypes
  BY StartStep, Lengths DEF IInv, CountInv, Clock, RBurstInv
<1>2. /\ RHandshake => rd.state = "DATA"
      /\ dma_req_ack => Got' = 0
      /\ ~dma_req_ack => Got' = IF RHandshake THEN Got + r_addr_inc ELSE Got
  BY CopyRead
<1>3. CASE wr.state = "IDLE" /\ ~dma_req_ack
  <2>1. wr' = wr  BY <1>1, <1>3 DEF WrEdge, WrIdle
  <2> QED  BY <1>3, <2>1 DEF FifoCopy
<1>4. CASE wr.state = "IDLE" /\ dma_req_ack
  <2>1. wr.done  BY <1>4 DEF WrCopy
  <2>2. fifo' = <<>>  BY <1>1, <2>1 DEF FifoEdge
  <2>3. WrCopy' /\ wr'.state = "SETUP" /\ wr'.wrBytes = byte_cnt % BytesRange
    <3>1. rd.error = OKAY  BY DEF RdCopy
    <3> QED  BY <1>1, <1>4, <3>1, CopyWrite DEF WrEdge, WrIdle, WrTypes
  <2>4. cfg \in Transfers /\ byte_cnt = cfg.bytes
    BY <1>4 DEF dma_req_ack, dma_req, IInv, StartInv
  <2>5. wr'.wrBytes = cfg.bytes /\ cfg.bytes \in Nat  BY <2>3, <2>4, Transfer DEF Aligned
  <2>6. Len(out') = cfg.bytes - cfg.bytes  BY <1>1, <2>3, <2>5 DEF WrCopy
  <2>7. Len(out') = 0 /\ Len(fifo') = 0 /\ Got' = 0  BY <1>2, <1>4, <2>2, <2>5, <2>6
  <2> QED  BY <2>7 DEF FifoCopy
<1>5. CASE wr.state # "IDLE"
  <2> DEFINE gone == IF WHandshake(i) THEN w_addr_inc ELSE 0
             popped == IF WHandshake(i) /\ wready_o
                       THEN SubSeq(fifo, w_addr_inc + 1, Len(fifo)) ELSE fifo
  <2>1. ~wr.done /\ ~dma_req_ack  BY <1>5 DEF WrCopy, dma_req_ack, dma_rdy
  <2>2. fifo' = IF RHandshake THEN popped \o ReadBytes ELSE popped
    BY <1>1, <2>1 DEF FifoEdge
  <2>3. /\ WHandshake(i) => wready_o /\ w_addr_inc <= Len(fifo)
        /\ Len(out') = Len(out) + gone
    BY <1>1, OutGrows DEF RdCopy
  <2>4. w_addr_inc \in Nat \ {0}  BY <1>5, Running
  <2>5. /\ popped \in Seq(Int) /\ Len(popped) = Len(fifo) - gone
        /\ \A k \in 1 .. Len(popped) : popped[k] = fifo[gone + k] /\ gone + k \in 1 .. Len(fifo)
        /\ gone \in Nat
    <3>1. CASE WHandshake(i)
      <4> DEFINE inc == w_addr_inc
      <4>1. inc \in Nat \ {0} /\ inc <= Len(fifo)  BY <2>3, <2>4, <3>1
      <4>2. popped = SubSeq(fifo, inc + 1, Len(fifo)) /\ gone = inc  BY <2>3, <3>1
      <4> HIDE DEF inc, popped, gone
      <4> QED  BY <1>1, <4>1, <4>2
    <3>2. CASE ~WHandshake(i)  BY <1>1, <3>2
    <3> QED  BY <3>1, <3>2
  <2>6. /\ Len(fifo) = Got - Len(out)
        /\ \A k \in 1 .. Len(fifo) : fifo[k] = SrcByte(Len(out) + k - 1)
    BY <1>5 DEF FifoCopy
  <2> HIDE DEF gone, popped
  <2>7. Len(out') \in Nat /\ Len(fifo) \in Nat /\ Got \in Int /\ Len(popped) = Got - Len(out')
    <3>1. Got \in Int
      <4>1. cfg.bytes \in Nat  BY <1>5, Running
      <4>2. rd.state # "IDLE" => rd.rdBytes \in Nat  BY Running
      <4> QED  BY <4>1, <4>2 DEF Got
    <3> QED  BY <1>1, <2>3, <2>5, <2>6, <3>1
  <2>8. \A k \in 1 .. Len(popped) : popped[k] = SrcByte(Len(out') + k - 1)
    <3>1. \A k \in 1 .. Len(popped) : Len(out) + (gone + k) - 1 = Len(out') + k - 1
      BY <1>1, <2>3, <2>5
    <3> QED  BY <2>5, <2>6, <3>1
  <2>9. CASE ~RHandshake
    <3>1. fifo' = popped /\ Got' = Got  BY <1>2, <2>1, <2>2, <2>9
    <3> QED  BY <1>1, <2>7, <2>8, <3>1 DEF FifoCopy, SrcByte
  <2>10. CASE RHandshake
    <3> DEFINE inc == r_addr_inc
    <3>1. rd.state = "DATA" /\ fifo' = popped \o ReadBytes /\ Got' = Got + inc
      BY <1>2, <2>1, <2>2, <2>10
    <3>2. /\ cfg.bytes \in Nat /\ cfg.src \in Nat /\ cfg.rinc \in BOOLEAN /\ rd.rdBytes \in Nat
          /\ inc \in Nat \ {0} /\ inc = 2 ^ cfg.rsize
          /\ Multiple(rd.rdBytes, inc) /\ Multiple(cfg.bytes, inc)
      BY <3>1, Running
    <3>3. Got = cfg.bytes - rd.rdBytes /\ rd.rdBytes <= cfg.bytes
          /\ rburst.addr = cfg.src + Moved(cfg.rinc, Got)
      BY <3>1 DEF RdCopy, Got
    <3> HIDE DEF inc
    <3>4. Got \in Nat /\ Multiple(Got, inc)
      <4>1. cfg.bytes \in Int /\ rd.rdBytes \in Int  BY <3>2
      <4>2. Multiple(cfg.bytes - rd.rdBytes, inc)  BY <3>2, <4>1, Sums, Zenon
      <4> QED  BY <3>2, <3>3, <4>2
    <3>5. \A j \in 1 .. inc : rburst.addr + j - 1 = SrcByte(Got + j - 1)
      <4>1. SUFFICES ASSUME NEW j \in 1 .. inc
                     PROVE  rburst.addr + j - 1 = SrcByte(Got + j - 1)
        OBVIOUS
      <4>2. /\ cfg.rinc => cfg.src + Moved(cfg.rinc, Got) + j - 1 = cfg.src + (Got + j - 1)
            /\ ~cfg.rinc => cfg.src + Moved(cfg.rinc, Got) + j - 1
                              = cfg.src + ((Got + j - 1) % inc)
        <5>1. cfg.rinc \in BOOLEAN /\ cfg.src \in Nat /\ inc \in Nat \ {0}  BY <3>2
        <5> QED  BY <3>4, <4>1, <5>1, ByteAt, ZenonT(30)
      <4> QED  BY <3>2, <3>3, <4>2 DEF SrcByte
    <3>6. /\ ReadBytes \in Seq(Int) /\ Len(ReadBytes) = inc
          /\ \A j \in 1 .. inc : ReadBytes[j] = SrcByte(Got + j - 1)
      <4>1. ReadBytes = [k \in 1 .. inc |-> rburst.addr + k - 1]  BY DEF ReadBytes, inc
      <4>2. \A k \in 1 .. inc : rburst.addr + k - 1 \in Int  BY <1>1, <3>2
      <4>3. ReadBytes \in Seq(Int) /\ Len(ReadBytes) = inc  BY <3>2, <4>1, <4>2
      <4>4. \A j \in 1 .. inc : ReadBytes[j] = rburst.addr + j - 1  BY <4>1
      <4> QED  BY <3>5, <4>3, <4>4
    <3>7. Len(fifo') = Len(popped) + inc  BY <2>5, <3>1, <3>6, Joined
    <3>8. /\ \A k \in 1 .. Len(popped) : fifo'[k] = popped[k]
          /\ \A j \in 1 .. inc : fifo'[Len(popped) + j] = ReadBytes[j]
      <4>1. popped \in Seq(Int) /\ ReadBytes \in Seq(Int) /\ Len(ReadBytes) = inc  BY <2>5, <3>6
      <4>2. /\ \A k \in 1 .. Len(popped) : (popped \o ReadBytes)[k] = popped[k]
            /\ \A k \in 1 .. Len(ReadBytes) : (popped \o ReadBytes)[Len(popped) + k] = ReadBytes[k]
        BY <4>1, JoinedAt
      <4> QED  BY <3>1, <4>1, <4>2
    <3>9. ASSUME NEW k \in 1 .. Len(fifo') PROVE fifo'[k] = SrcByte(Len(out') + k - 1)
      <4>1. CASE k \in 1 .. Len(popped)  BY <2>8, <3>8, <4>1
      <4>2. CASE k \notin 1 .. Len(popped)
        <5> DEFINE j == k - Len(popped)
        <5>1. j \in 1 .. inc /\ k = Len(popped) + j  BY <2>5, <3>2, <3>7, <3>9, <4>2
        <5>2. Got + j - 1 = Len(out') + k - 1
          <6>1. k \in Int /\ Len(popped) = Got - Len(out') /\ Got \in Int /\ Len(out') \in Int
            BY <2>7, <3>9
          <6> QED  BY <6>1
        <5> HIDE DEF j
        <5> QED  BY <3>6, <3>8, <5>1, <5>2
      <4> QED  BY <4>1, <4>2
    <3>10. Len(fifo') = Got' - Len(out')  BY <2>5, <2>7, <3>1, <3>2, <3>4, <3>7 DEF inc
    <3> QED  BY <1>1, <3>9, <3>10 DEF FifoCopy, SrcByte
  <2> QED  BY <2>9, <2>10
<1> QED  BY <1>3, <1>4, <1>5

LEMMA CopyClock ==
  ASSUME IInv, CopyInv, NEW i, NEW status_rd, Clock(i, status_rd)
  PROVE  CopyInv'
<1>1. SUFFICES ASSUME ~failed' PROVE RdCopy' /\ WrCopy' /\ FifoCopy' /\ OutCopy'
  BY DEF CopyInv
<1>2. failed => failed'  BY DEF Clock, BusEdge
<1>3. RdCopy /\ WrCopy /\ FifoCopy /\ OutCopy  BY <1>1, <1>2 DEF CopyInv
<1>4. rd.error = OKAY  BY <1>3 DEF RdCopy
<1> QED  BY <1>1, <1>3, <1>4, CopyRead, CopyWrite, CopyFifo, CopyOut

LEMMA CopyProgram ==
  ASSUME CopyInv, NEW t \in Transfers, Program(t)
  PROVE  CopyInv'
<1>1. /\ rd.state = "IDLE" /\ wr.state = "IDLE" /\ rd' = rd /\ wr' = wr /\ rburst' = rburst
      /\ start' = TRUE /\ out' = <<>> /\ failed' = failed
  BY DEF Program, dma_rdy, busVars
<1>2. ASSUME ~failed' PROVE RdCopy' /\ WrCopy' /\ FifoCopy' /\ OutCopy'
  <2>1. RdCopy /\ WrCopy  BY <1>1, <1>2 DEF CopyInv
  <2>2. RdCopy'  BY <1>1, <2>1 DEF RdCopy
  <2>3. WrCopy'  BY <1>1, <2>1 DEF WrCopy
  <2>4. FifoCopy'  BY <1>1 DEF FifoCopy
  <2>5. OutCopy'  BY <1>1 DEF OutCopy
  <2> QED  BY <2>2, <2>3, <2>4, <2>5
<1> QED  BY <1>2 DEF CopyInv

\* A response that arrives, and a step that changes nothing.
LEMMA CopyStays ==
  ASSUME CopyInv, UNCHANGED <<start, cfg, rd, wr, fifo, rburst, wburst, out, failed>>
  PROVE  CopyInv'
<1>1. /\ start' = start /\ cfg' = cfg /\ rd' = rd /\ wr' = wr /\ fifo' = fifo
      /\ rburst' = rburst /\ wburst' = wburst /\ out' = out /\ failed' = failed
  OBVIOUS
<1>2. Got' = Got /\ r_addr_inc' = r_addr_inc /\ w_addr_inc' = w_addr_inc
  BY <1>1 DEF Got, r_addr_inc, w_addr_inc
<1>3. RdCopy => RdCopy'  BY <1>1, <1>2 DEF RdCopy
<1>4. WrCopy => WrCopy'  BY <1>1, <1>2 DEF WrCopy
<1>5. FifoCopy => FifoCopy'  BY <1>1, <1>2 DEF FifoCopy, SrcByte
<1>6. OutCopy => OutCopy'  BY <1>1 DEF OutCopy, SrcByte, DstByte
<1> QED  BY <1>1, <1>3, <1>4, <1>5, <1>6 DEF CopyInv

LEMMA CopyInitially == Init => CopyInv
<1> SUFFICES ASSUME Init PROVE CopyInv
  OBVIOUS
<1>1. RdCopy  BY DEF Init, RdCopy
<1>2. WrCopy  BY DEF Init, WrCopy
<1>3. FifoCopy /\ OutCopy  BY DEF Init, FifoCopy, OutCopy
<1> QED  BY <1>1, <1>2, <1>3 DEF CopyInv

-----------------------------------------------------------------------------
(* Every step, and the theorems                                            *)

LEMMA ClockStep ==
  ASSUME IInv, NEW i, NEW status_rd, Clock(i, status_rd)
  PROVE  IInv'
<1>1. start' = FALSE /\ cfg' = cfg /\ byte_cnt' \in Int  BY StartStep
<1>2. StartInv'  BY <1>1 DEF IInv, StartInv
<1> QED  BY <1>2, ReadStep, ReadBusStep, WriteStep, CountStep DEF IInv

LEMMA ProgramStep ==
  ASSUME IInv, NEW t \in Transfers, Program(t)
  PROVE  IInv'
<1>1. /\ StartInv /\ RdTypes /\ RdInv /\ RBurstInv /\ WrTypes /\ WrInv /\ WBurstInv /\ CountInv
      /\ rd.state = "IDLE" /\ wr.state = "IDLE" /\ ~rd.beat /\ ~wr.beat
  BY DEF IInv, Program, dma_rdy
<1>2. /\ start' = TRUE /\ cfg' = t /\ src_addr' = t.src /\ dst_addr' = t.dst /\ byte_cnt' = t.bytes
      /\ out' = <<>> /\ rd' = rd /\ wr' = wr /\ fifo' = fifo
      /\ rburst' = rburst /\ rresp' = rresp /\ wburst' = wburst /\ bresp' = bresp
  BY DEF Program, busVars
<1>3. t.bytes \in Int  BY TransferAssumption
<1>4. r_addr_inc' = r_addr_inc /\ w_addr_inc' = w_addr_inc
  BY <1>2 DEF r_addr_inc, w_addr_inc
<1>5. StartInv'  BY <1>1, <1>2, <1>3 DEF StartInv, dma_rdy
<1>6. RdTypes' /\ RdInv' /\ RBurstInv'  BY <1>1, <1>2, <1>4 DEF RdTypes, RdInv, RBurstInv
<1>7. WrTypes' /\ WrInv' /\ WBurstInv'  BY <1>1, <1>2, <1>4 DEF WrTypes, WrInv, WBurstInv
<1>8. CountInv'  BY <1>1, <1>2, <1>3 DEF CountInv, ByteCountFollows
<1> QED  BY <1>5, <1>6, <1>7, <1>8 DEF IInv

\* The bus raises a response.
LEMMA ResponseStep ==
  ASSUME IInv, NEW resp, GiveRead(resp) \/ GiveResponse(resp)
  PROVE  IInv'
<1>1. UNCHANGED <<ctrlVars, rd, wr, fifo, rburst, wburst, out>>
      /\ (rresp' # rresp => rburst.left > 0) /\ (bresp' # bresp => wburst.ended)
  BY DEF GiveRead, GiveResponse
<1>2. /\ start' = start /\ cfg' = cfg /\ src_addr' = src_addr /\ dst_addr' = dst_addr
      /\ byte_cnt' = byte_cnt /\ rd' = rd /\ wr' = wr /\ fifo' = fifo
      /\ rburst' = rburst /\ wburst' = wburst /\ out' = out
  BY <1>1 DEF ctrlVars
<1>3. /\ r_addr_inc' = r_addr_inc /\ w_addr_inc' = w_addr_inc
      /\ rbeats' = rbeats /\ wbeats' = wbeats
  BY <1>2 DEF r_addr_inc, w_addr_inc, rbeats, wbeats
<1>4. StartInv'  BY <1>2 DEF IInv, StartInv, dma_rdy
<1>5. RdTypes' /\ RdInv'  BY <1>2, <1>3 DEF IInv, RdTypes, RdInv
<1>6. RBurstInv'  BY <1>1, <1>2 DEF IInv, RBurstInv
<1>7. WrTypes' /\ WrInv'  BY <1>2, <1>3 DEF IInv, WrTypes, WrInv
<1>8. WBurstInv'  BY <1>1, <1>2 DEF IInv, WBurstInv
<1>9. CountInv'  BY <1>2, <1>3 DEF IInv, CountInv, ByteCountFollows
<1> QED  BY <1>4, <1>5, <1>6, <1>7, <1>8, <1>9 DEF IInv

LEMMA StutterStep ==
  ASSUME IInv, UNCHANGED vars
  PROVE  IInv'
<1>1. /\ start' = start /\ cfg' = cfg /\ src_addr' = src_addr /\ dst_addr' = dst_addr
      /\ byte_cnt' = byte_cnt /\ rd' = rd /\ wr' = wr /\ fifo' = fifo
      /\ rburst' = rburst /\ wburst' = wburst /\ out' = out /\ rresp' = rresp /\ bresp' = bresp
  BY DEF vars, ctrlVars, busVars
<1>2. /\ r_addr_inc' = r_addr_inc /\ w_addr_inc' = w_addr_inc
      /\ rbeats' = rbeats /\ wbeats' = wbeats
  BY <1>1 DEF r_addr_inc, w_addr_inc, rbeats, wbeats
<1>3. StartInv'  BY <1>1 DEF IInv, StartInv, dma_rdy
<1>4. RdTypes' /\ RdInv' /\ RBurstInv'  BY <1>1, <1>2 DEF IInv, RdTypes, RdInv, RBurstInv
<1>5. WrTypes' /\ WrInv' /\ WBurstInv'  BY <1>1, <1>2 DEF IInv, WrTypes, WrInv, WBurstInv
<1>6. CountInv'  BY <1>1, <1>2 DEF IInv, CountInv, ByteCountFollows
<1> QED  BY <1>3, <1>4, <1>5, <1>6 DEF IInv

LEMMA Initially == Init => IInv
<1> SUFFICES ASSUME Init PROVE IInv
  OBVIOUS
<1>1. StartInv
  <2>1. start = FALSE /\ byte_cnt = 0 /\ cfg = NoTransfer  BY DEF Init
  <2>2. ~start /\ start \in BOOLEAN  BY <2>1, Zenon
  <2> QED  BY <2>1, <2>2 DEF StartInv
<1>2. RdTypes /\ RdInv /\ RBurstInv
  <2>1. rd.size = 0  BY DEF Init
  <2>2. r_addr_inc \in Nat  BY <2>1 DEF r_addr_inc
  <2>3. RdTypes  BY <2>2 DEF Init, RdTypes, States
  <2> QED  BY <2>3 DEF Init, RdInv, RBurstInv
<1>3. WrTypes /\ WrInv /\ WBurstInv  BY DEF Init, WrTypes, WrInv, WBurstInv, States
<1>4. CountInv  BY DEF Init, CountInv, ByteCountFollows, NoTransfer
<1> QED  BY <1>1, <1>2, <1>3, <1>4 DEF IInv

\* The machines, the bus and the byte count keep the invariant
\* (msftDvIp_dma_engine.sv, msftDvIp_dma_ctrl0.sv).
THEOREM Invariance == Spec => []IInv
<1>1. Init => IInv  BY Initially
<1>2. IInv /\ [Next]_vars => IInv'
  <2> SUFFICES ASSUME IInv, [Next]_vars PROVE IInv'
    OBVIOUS
  <2>1. ASSUME NEW i \in Inputs, NEW status_rd \in BOOLEAN, Clock(i, status_rd) PROVE IInv'
    BY <2>1, ClockStep
  <2>2. ASSUME NEW t \in Transfers, Program(t) PROVE IInv'
    BY <2>2, ProgramStep
  <2>3. ASSUME NEW resp, GiveRead(resp) \/ GiveResponse(resp) PROVE IInv'
    BY <2>3, ResponseStep
  <2>4. CASE UNCHANGED vars  BY <2>4, StutterStep
  <2> QED  BY <2>1, <2>2, <2>3, <2>4 DEF Next
<1> QED  BY <1>1, <1>2, PTL DEF Spec

\* AWLEN and the beats sent: in the first write burst of a transfer the beats
\* still announced are those still to be sent, and out has all the others; after
\* it out has more than the burst announced.
InFirst(n) == wr.awlen = n /\ Len(out) = 0
AfterFirst == Len(out) >= (wr.awlen + 1) * w_addr_inc
AnnounceInv ==
  /\ wr.awlen \in Int /\ wburst.left \in Int
  /\ wr.state = "SETUP" => Len(out) = 0
  /\ wr.state = "WAIT" => InFirst(wr.w_len) \/ AfterFirst
  /\ wr.state = "DATA" => \/ /\ wburst.left = wr.w_len + 1
                              /\ Len(out) = (wr.awlen - wr.w_len) * w_addr_inc
                           \/ AfterFirst
  /\ wr.state = "RESP" => AfterFirst

LEMMA AnnounceClock ==
  ASSUME IInv, AnnounceInv, NEW i, NEW status_rd, Clock(i, status_rd)
  PROVE  AnnounceInv'
<1>1. WrTypes /\ WrInv /\ WBurstInv /\ WrEdge(i) /\ BusEdge(i)
  BY DEF IInv, Clock
<1>2. Len(out) \in Nat /\ wr.awlen \in Int /\ wburst.left \in Int
  BY Lengths DEF AnnounceInv
<1>3. /\ AwHandshake(i) => wr.state = "WAIT"
      /\ WHandshake(i) => wr.state = "DATA"
      /\ BHandshake => wr.state = "RESP"
  BY <1>1 DEF AwHandshake, WHandshake, BHandshake, WrTypes, WBurstInv
<1>4. wburst'.left = IF AwHandshake(i) THEN wr.awlen + 1
                     ELSE IF WHandshake(i) THEN wburst.left - 1 ELSE wburst.left
  BY <1>1 DEF BusEdge, WBurstInv
<1>5. ~WHandshake(i) => out' = out  BY OutLengthens
<1>6. CASE wr.state = "IDLE"
  <2>1. out' = out /\ wburst'.left = wburst.left  BY <1>3, <1>4, <1>5, <1>6
  <2>2. CASE dma_req_ack
    <3>1. byte_cnt = cfg.bytes /\ cfg \in Transfers /\ ~wr.beat
      BY <2>2 DEF IInv, StartInv, dma_req_ack, dma_req
    <3>2. cfg.bytes \in Int  BY <3>1, TransferAssumption
    <3>3. Len(out) = 0  BY <1>2, <3>1, <3>2 DEF IInv, CountInv, ByteCountFollows
    <3>4. wr'.state = "SETUP" /\ wr'.awlen = wr.awlen  BY <1>1, <1>6, <2>2 DEF WrEdge, WrIdle, WrTypes
    <3> QED  BY <1>2, <2>1, <3>3, <3>4 DEF AnnounceInv
  <2>3. CASE ~dma_req_ack
    <3>1. wr' = wr  BY <1>1, <1>6, <2>3 DEF WrEdge, WrIdle
    <3> QED  BY <1>2, <1>6, <2>1, <3>1 DEF AnnounceInv
  <2> QED  BY <2>2, <2>3
<1>7. CASE wr.state = "SETUP"
  <2>1. out' = out /\ wburst'.left = wburst.left  BY <1>3, <1>4, <1>5, <1>7
  <2>2. wr'.state = "WAIT" /\ wr'.awlen = wbeats /\ wr'.w_len = wbeats
    BY <1>1, <1>7 DEF WrEdge, WrSetup, WrTypes
  <2>3. wbeats \in Int
    <3>1. /\ cfg \in Transfers /\ wr.size = cfg.wsize /\ wr.burst = cfg.wburst
          /\ wr.awaddr \in Nat /\ wr.wrBytes \in Nat \ {0}
          /\ Multiple(wr.awaddr, w_addr_inc) /\ Multiple(wr.wrBytes, w_addr_inc)
      BY <1>1, <1>7 DEF WrInv
    <3>2. Aligned(wr.awaddr, wr.wrBytes, 2 ^ wr.size) /\ 2 ^ wr.burst \in Nat \ {0}
      BY <3>1, Transfer DEF Aligned, w_addr_inc
    <3> QED  BY <3>2, BeatsFit DEF wbeats
  <2>4. Len(out) = 0  BY <1>7 DEF AnnounceInv
  <2> QED  BY <1>2, <2>1, <2>2, <2>3, <2>4 DEF AnnounceInv, InFirst
<1>8. CASE wr.state = "WAIT"
  <2>1. out' = out  BY <1>3, <1>5, <1>8
  <2>2. InFirst(wr.w_len) \/ AfterFirst  BY <1>8 DEF AnnounceInv
  <2>3. CASE AwHandshake(i)
    <3>1. /\ wr'.state = "DATA" /\ wr'.awlen = wr.awlen /\ wr'.w_len = wr.w_len
          /\ wr'.size = wr.size
      BY <1>1, <1>8, <2>3 DEF WrEdge, WrWait, WrTypes
    <3>2. w_addr_inc' = w_addr_inc  BY <3>1 DEF w_addr_inc
    <3>3. wburst'.left = wr.awlen + 1  BY <1>4, <2>3
    <3>4. CASE InFirst(wr.w_len)
      <4>1. wr.awlen - wr.w_len = 0 /\ Len(out) = 0  BY <1>2, <3>4 DEF InFirst
      <4>2. w_addr_inc \in Nat  BY <1>1, <1>8, Transfer DEF WrInv, Aligned, w_addr_inc
      <4>3. 0 * w_addr_inc = 0  BY <4>2
      <4> QED  BY <1>2, <2>1, <3>1, <3>2, <3>3, <3>4, <4>1, <4>3 DEF AnnounceInv, InFirst
    <3>5. CASE AfterFirst
      BY <1>2, <2>1, <3>1, <3>2, <3>3, <3>5 DEF AnnounceInv, AfterFirst
    <3> QED  BY <2>2, <3>4, <3>5
  <2>4. CASE ~AwHandshake(i)
    <3>1. wr' = wr  BY <1>1, <1>8, <2>4 DEF WrEdge, WrWait
    <3>2. w_addr_inc' = w_addr_inc  BY <3>1 DEF w_addr_inc
    <3>3. wburst'.left = wburst.left  BY <1>3, <1>4, <1>8, <2>4
    <3> QED  BY <1>2, <1>8, <2>1, <2>2, <3>1, <3>2, <3>3 DEF AnnounceInv, InFirst, AfterFirst
  <2> QED  BY <2>3, <2>4
<1>9. CASE wr.state = "DATA" /\ ~WHandshake(i)
  <2>1. /\ wr'.state = "DATA" /\ wr'.awlen = wr.awlen /\ wr'.w_len = wr.w_len
        /\ wr'.size = wr.size
    BY <1>1, <1>9 DEF WrEdge, WrData, WrTypes
  <2>2. w_addr_inc' = w_addr_inc  BY <2>1 DEF w_addr_inc
  <2>3. out' = out /\ wburst'.left = wburst.left  BY <1>3, <1>4, <1>5, <1>9
  <2> QED  BY <1>2, <1>9, <2>1, <2>2, <2>3 DEF AnnounceInv, AfterFirst
<1>10. CASE wr.state = "DATA" /\ WHandshake(i)
  <2> DEFINE inc == w_addr_inc
  <2>1. /\ wr'.state = (IF wr.w_len = 0 THEN "RESP" ELSE "DATA")
        /\ wr'.awlen = wr.awlen /\ wr'.w_len = (wr.w_len - 1) % 256 /\ wr'.size = wr.size
    BY <1>1, <1>10 DEF WrEdge, WrData, WrTypes
  <2>2. w_addr_inc' = inc  BY <2>1 DEF w_addr_inc
  <2>3. wburst'.left = wburst.left - 1  BY <1>3, <1>4, <1>10
  <2>4. Len(out') = Len(out) + inc /\ inc \in Nat \ {0}  BY <1>10, OutLengthens
  <2>5. wr.w_len \in 0 .. 15  BY <1>1, <1>10 DEF WrInv
  <2>6. wr.w_len > 0 => wr'.w_len = wr.w_len - 1  BY <2>1, <2>5
  <2>7. CASE AfterFirst
    <3> DEFINE first == (wr.awlen + 1) * inc
    <3>1. Len(out) >= first  BY <2>7 DEF AfterFirst
    <3>2. first \in Int  BY <1>2, <2>4
    <3> HIDE DEF first, inc
    <3>3. Len(out') >= first  BY <1>2, <2>4, <3>1, <3>2
    <3>4. AfterFirst'  BY <2>1, <2>2, <3>3 DEF AfterFirst, first
    <3> QED  BY <1>2, <2>1, <2>3, <3>4 DEF AnnounceInv
  <2>8. CASE wburst.left = wr.w_len + 1 /\ Len(out) = (wr.awlen - wr.w_len) * inc
    <3>1. (wr.awlen - wr.w_len) * inc + inc = (wr.awlen - (wr.w_len - 1)) * inc
      <4>1. wr.w_len \in Int /\ inc \in Int  BY <2>4, <2>5
      <4> HIDE DEF inc
      <4> QED  BY <1>2, <4>1
    <3>2. Len(out') = (wr.awlen - (wr.w_len - 1)) * inc  BY <2>4, <2>8, <3>1
    <3> HIDE DEF inc
    <3>3. CASE wr.w_len = 0
      <4>1. wr.awlen - (wr.w_len - 1) = wr.awlen + 1  BY <1>2, <3>3
      <4>2. Len(out') = (wr.awlen + 1) * inc  BY <3>2, <4>1
      <4>3. (wr.awlen + 1) * inc \in Int  BY <1>2, <2>4
      <4>4. AfterFirst'  BY <2>1, <2>2, <4>2, <4>3 DEF AfterFirst
      <4> QED  BY <1>2, <2>1, <2>3, <3>3, <4>4 DEF AnnounceInv
    <3>4. CASE wr.w_len > 0
      <4>1. wburst'.left = wr'.w_len + 1
        <5>1. wburst.left = wr.w_len + 1 /\ wr'.w_len = wr.w_len - 1  BY <2>6, <2>8, <3>4
        <5>2. wr.w_len \in Int  BY <2>5
        <5> QED  BY <2>3, <5>1, <5>2
      <4>2. Len(out') = (wr'.awlen - wr'.w_len) * w_addr_inc'  BY <2>1, <2>2, <2>6, <3>2, <3>4
      <4>3. wr'.state = "DATA"  BY <2>1, <3>4
      <4> QED  BY <1>2, <2>1, <2>3, <4>1, <4>2, <4>3 DEF AnnounceInv
    <3> QED  BY <2>5, <3>3, <3>4
  <2> QED  BY <1>10, <2>7, <2>8 DEF AnnounceInv
<1>11. CASE wr.state = "RESP"
  <2>1. /\ wr'.state \in {"RESP", "WAIT", "IDLE"} /\ wr'.awlen = wr.awlen /\ wr'.size = wr.size
    BY <1>1, <1>11 DEF WrEdge, WrResp, WrTypes
  <2>2. w_addr_inc' = w_addr_inc  BY <2>1 DEF w_addr_inc
  <2>3. out' = out /\ wburst'.left = wburst.left  BY <1>3, <1>4, <1>5, <1>11
  <2>4. AfterFirst'  BY <1>11, <2>1, <2>2, <2>3 DEF AnnounceInv, AfterFirst
  <2> QED  BY <1>2, <2>1, <2>3, <2>4 DEF AnnounceInv
<1> QED  BY <1>1, <1>6, <1>7, <1>8, <1>9, <1>10, <1>11 DEF WrTypes, States

\* The length of a transfer's first write burst is announced as it is sent
\* (awlen, msftDvIp_dma_engine.sv).
THEOREM AnnounceInvariance == Spec => []AnnounceInv
<1>1. Init => AnnounceInv  BY DEF Init, AnnounceInv
<1>2. IInv /\ AnnounceInv /\ [Next]_vars => AnnounceInv'
  <2> SUFFICES ASSUME IInv, AnnounceInv, [Next]_vars PROVE AnnounceInv'
    OBVIOUS
  <2>1. ASSUME NEW i \in Inputs, NEW status_rd \in BOOLEAN, Clock(i, status_rd) PROVE AnnounceInv'
    BY <2>1, AnnounceClock
  <2>2. ASSUME NEW t \in Transfers, Program(t) PROVE AnnounceInv'
    <3>1. wr.state = "IDLE" /\ wr' = wr /\ wburst' = wburst
      BY <2>2 DEF Program, dma_rdy, busVars
    <3> QED  BY <3>1 DEF AnnounceInv
  <2>3. ASSUME NEW resp, GiveRead(resp) \/ GiveResponse(resp) PROVE AnnounceInv'
    <3>1. wr' = wr /\ wburst' = wburst /\ out' = out
      BY <2>3 DEF GiveRead, GiveResponse
    <3> QED  BY <3>1 DEF AnnounceInv, InFirst, AfterFirst, w_addr_inc
  <2>4. CASE UNCHANGED vars
    <3>1. wr' = wr /\ wburst' = wburst /\ out' = out  BY <2>4 DEF vars, busVars
    <3> QED  BY <3>1 DEF AnnounceInv, InFirst, AfterFirst, w_addr_inc
  <2> QED  BY <2>1, <2>2, <2>3, <2>4 DEF Next
<1> QED  BY <1>1, <1>2, Invariance, PTL DEF Spec

\* With any page and transfers that software aligns: a read burst as ARLEN asks
\* for it, and the beats of a write burst up to WLAST, stay in one page, and the
\* first write burst of a transfer sends as many beats as AWLEN announced
\* (f_get_beats, msftDvIp_dma_engine.sv).  Of the bursts after the first it says
\* nothing about AWLEN: there the code announces a stale length.
THEOREM PagesKept == Spec => []BeatsWithinPage
<1>1. IInv /\ AnnounceInv => BeatsWithinPage
  <2> SUFFICES ASSUME IInv, AnnounceInv PROVE BeatsWithinPage
    OBVIOUS
  <2>1. ASSUME rburst.left > 0, rburst.step > 0
        PROVE  WithinPage(rburst.addr, rburst.left * rburst.step)
    <3>1. rburst.addr \in Nat /\ rburst.left \in Nat \ {0} /\ rburst.step \in Nat \ {0}
          /\ rburst.left * rburst.step <= Room(rburst.addr)
      BY <2>1 DEF IInv, RBurstInv
    <3>2. rburst.left * rburst.step \in Nat \ {0}  BY <3>1
    <3> QED  BY <3>1, <3>2, Inside DEF WithinPage
  <2>2. ASSUME wr.state = "DATA", cfg.winc
        PROVE  WithinPage(wburst.addr, (wr.w_len + 1) * w_addr_inc)
    <3>1. /\ wburst.addr \in Nat /\ wr.w_len + 1 \in Nat \ {0} /\ w_addr_inc \in Nat \ {0}
          /\ (wr.w_len + 1) * w_addr_inc <= Room(wburst.addr)
      BY <2>2, Transfer DEF IInv, WrInv, WBurstInv, Aligned, w_addr_inc
    <3>2. (wr.w_len + 1) * w_addr_inc \in Nat \ {0}  BY <3>1
    <3> QED  BY <3>1, <3>2, Inside DEF WithinPage
  <2>3. ASSUME wr.state = "DATA", FirstBurst PROVE wburst.left = wr.w_len + 1
    <3>1. w_addr_inc \in Int /\ wr.awlen \in Int /\ Len(out) \in Nat
      BY <2>3, Transfer, Lengths DEF IInv, WrInv, Aligned, w_addr_inc, AnnounceInv
    <3> DEFINE first == (wr.awlen + 1) * w_addr_inc
    <3>2. first \in Int /\ Len(out) < first  BY <2>3, <3>1 DEF FirstBurst
    <3>3. AfterFirst <=> Len(out) >= first  BY DEF AfterFirst
    <3> HIDE DEF first
    <3>4. ~AfterFirst  BY <3>1, <3>2, <3>3
    <3> QED  BY <2>3, <3>4 DEF AnnounceInv
  <2> QED  BY <2>1, <2>2, <2>3 DEF BeatsWithinPage
<1> QED  BY <1>1, Invariance, AnnounceInvariance, PTL

\* The count that software reads is what the write machine has left
\* (msftDvIp_dma_ctrl0.sv).
THEOREM CountFollows == Spec => []ByteCountFollows
<1>1. IInv => ByteCountFollows  BY DEF IInv, CountInv
<1> QED  BY <1>1, Invariance, PTL

\* As long as no read has failed, what is in the FIFO and in out is the
\* transfer so far (msftDvIp_dma_engine.sv, msftDvIp_dma_fifo.sv).
THEOREM CopyInvariance == Spec => []CopyInv
<1>1. Init => CopyInv  BY CopyInitially
<1>2. IInv /\ CopyInv /\ [Next]_vars => CopyInv'
  <2> SUFFICES ASSUME IInv, CopyInv, [Next]_vars PROVE CopyInv'
    OBVIOUS
  <2>1. ASSUME NEW i \in Inputs, NEW status_rd \in BOOLEAN, Clock(i, status_rd) PROVE CopyInv'
    BY <2>1, CopyClock
  <2>2. ASSUME NEW t \in Transfers, Program(t) PROVE CopyInv'
    BY <2>2, CopyProgram
  <2>3. ASSUME NEW resp, GiveRead(resp) \/ GiveResponse(resp) PROVE CopyInv'
    <3>1. UNCHANGED <<start, cfg, rd, wr, fifo, rburst, wburst, out, failed>>
      BY <2>3 DEF GiveRead, GiveResponse, ctrlVars
    <3> QED  BY <3>1, CopyStays
  <2>4. CASE UNCHANGED vars
    <3>1. UNCHANGED <<start, cfg, rd, wr, fifo, rburst, wburst, out, failed>>
      BY <2>4 DEF vars, ctrlVars, busVars
    <3> QED  BY <3>1, CopyStays
  <2> QED  BY <2>1, <2>2, <2>3, <2>4 DEF Next
<1> QED  BY <1>1, <1>2, Invariance, PTL DEF Spec

\* With aligned transfers of fewer bytes than the count port can hold, any burst
\* codes, increments, page and FIFO, and whatever the delays of a bus that ends a
\* write burst at WLAST: as long as no read fails, the bytes written are the
\* bytes read, each at its address, and an engine that is ready without a write
\* error has written all of them.
THEOREM EverythingCopied == Spec => []Copied
<1>1. CopyInv => Copied
  BY DEF CopyInv, Copied, OutCopy, WrCopy, dma_rdy
<1> QED  BY <1>1, CopyInvariance, PTL
==============================================================================

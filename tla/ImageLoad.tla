------------------------------ MODULE ImageLoad -----------------------------
(***************************************************************************)
(* From a linked image to the memory: scripts/vhex2vhex.py turns the bytes *)
(* of a .vhex file into one word per line, and the load command of the     *)
(* CHERI GDB server (main.py, GDB_RSP_Translator.hex_to_ascii and          *)
(* check_sum) sends each line as a binary packet.  OpenOCD (external)      *)
(* writes a packet whose checksum is right and passes over any other.      *)
(***************************************************************************)
EXTENDS SequencesExt

CONSTANTS
  bus_width,    \* 4: what main.py advances the address by
  Images,       \* images: sequences of segments [at, bytes], ascending
  MemoryTop     \* bound: addresses are below it

VARIABLES
  image,        \* history: the image the file was made of
  file,         \* segments of the .vhex file, or what is not yet read of them
  first, addr, darray, final,     \* as in vhex2vhex.py
  stage,        \* "convert", "open", "load" or "loaded"
  address,      \* as in the loop of main.py
  bin_packet,   \* the last packet sent, none at first
  target_memory \* function from addresses to bytes

imageVars == <<image, file, first, addr, darray, final, stage, address, bin_packet, target_memory>>

Untouched == -1
NoAddress == -1
Bytes(data) == {data[i] : i \in DOMAIN data}
Segments == [at : Nat, bytes : Seq(0 .. 255)]

ASSUME ImagesAssumption ==
  /\ MemoryTop \in Nat
  /\ \A img \in Images :
       /\ img \in Seq(Segments) /\ img # <<>>
       /\ \A i, j \in DOMAIN img : i < j => img[i].at + Len(img[i].bytes) <= img[j].at

ImageInit ==
  /\ image \in Images
  /\ file = image
  /\ first = TRUE /\ addr = 0 /\ darray = <<>> /\ final = <<>>
  /\ stage = "convert" /\ address = 0 /\ bin_packet = <<>>
  /\ target_memory = [a \in 0 .. MemoryTop - 1 |-> Untouched]

-----------------------------------------------------------------------------
(* vhex2vhex.py                                                            *)

\* The lines of a segment are "@" and its address, then its bytes; a line has any
\* number of them.  What is left of the file after a line of the first segment:
ReadLine(left) ==
  /\ stage = "convert" /\ file # <<>>
  /\ file' = (IF left = <<>> THEN <<>> ELSE <<[at |-> NoAddress, bytes |-> left]>>) \o Tail(file)
  /\ UNCHANGED <<image, final, stage, address, bin_packet, target_memory>>

\* The bytes missing up to the new address are zeros; the first address has none
\* before it.
\* Mutant: it is padded too, from address 0.
Missing_FromZero(aval) == [r \in 1 .. aval - addr |-> 0]
Missing(aval) == IF first THEN <<>> ELSE [r \in 1 .. aval - addr |-> 0]
extractAddress ==
  /\ ReadLine(Head(file).bytes) /\ Head(file).at # NoAddress
  /\ darray' = darray \o Missing(Head(file).at)
  /\ addr' = Head(file).at
  /\ first' = FALSE

parseLine(cnt) ==
  /\ ReadLine(SubSeq(Head(file).bytes, cnt + 1, Len(Head(file).bytes))) /\ Head(file).at = NoAddress
  /\ darray' = darray \o SubSeq(Head(file).bytes, 1, cnt)
  /\ addr' = addr + cnt
  /\ UNCHANGED first

\* Whole groups only, the last byte of a group leftmost.
outdata ==
  /\ stage = "convert" /\ file = <<>>
  /\ final' = [w \in 1 .. Len(darray) \div bus_width |->
                 Reverse(SubSeq(darray, (w - 1) * bus_width + 1, w * bus_width))]
  /\ stage' = "open"
  /\ UNCHANGED <<image, file, first, addr, darray, address, bin_packet, target_memory>>

-----------------------------------------------------------------------------
(* load                                                                    *)

\* The user gives the address of the first segment.
OpenFile ==
  /\ stage = "open"
  /\ stage' = "load" /\ address' = image[1].at
  /\ UNCHANGED <<image, file, first, addr, darray, final, bin_packet, target_memory>>

\* The byte order of the file is turned back.
hex_to_ascii(hex_number) == Reverse(hex_number)

SumOf(bytes) == FoldLeft(LAMBDA x, y : x + y, 0, bytes) % 256
Dollar == 36
Hash   == 35
\* The characters "$" and "#" are passed over wherever they stand.
Counted(c) == IF c \in {Dollar, Hash} THEN 0 ELSE c
check_sum(bytes) == SumOf([k \in DOMAIN bytes |-> Counted(bytes[k])])

\* OpenOCD ends a packet at the first "#" and compares the sum of what is before
\* it.  The rest of the packet counts the same on both sides.
Accepted(p) == Hash \notin Bytes(p.data) /\ p.checksum = SumOf(p.data)

\* A word that is refused gets no reply that receive_OK tells from silence.
LoadWord ==
  /\ stage = "load" /\ final # <<>>
  /\ LET bytes == hex_to_ascii(Head(final))
     IN /\ bin_packet' = [data |-> bytes, checksum |-> check_sum(bytes)]
        /\ target_memory' = IF Accepted(bin_packet')
                     THEN [a \in DOMAIN target_memory |->
                             IF a - address \in 0 .. 3 /\ a - address < Len(bytes)
                             THEN bytes[a - address + 1] ELSE target_memory[a]]
                     ELSE target_memory
  /\ final' = Tail(final)
  /\ address' = address + 4
  /\ UNCHANGED <<image, file, first, addr, darray, stage>>

CloseFile ==
  /\ stage = "load" /\ final = <<>>
  /\ stage' = "loaded"
  /\ UNCHANGED <<image, file, first, addr, darray, final, address, bin_packet, target_memory>>

ImageNext ==
  \/ extractAddress
  \/ file # <<>> /\ \E cnt \in 1 .. Len(Head(file).bytes) : parseLine(cnt)
  \/ outdata \/ OpenFile \/ LoadWord \/ CloseFile

-----------------------------------------------------------------------------
(* Properties                                                              *)

Holds(segment, a) == a - segment.at \in 0 .. Len(segment.bytes) - 1
End == Last(image).at + Len(Last(image).bytes)
ByteMeant(a) ==
  IF \E i \in DOMAIN image : Holds(image[i], a)
  THEN LET s == image[CHOOSE i \in DOMAIN image : Holds(image[i], a)]
       IN s.bytes[a - s.at + 1]
  ELSE 0

\* Once loaded, every whole word counted from the first address is in memory as
\* the image has it, with zeros between the segments, and nothing else was
\* written; but a word with a "$" or a "#" in it is not there at all, nor is the
\* last word, if it is not whole.
ImageLoaded == stage = "loaded" =>
  LET start == image[1].at
      words == (End - start) \div 4
      Refused(a) == LET w == a - ((a - start) % 4)
                    IN  \E b \in w .. w + 3 : ByteMeant(b) \in {Dollar, Hash}
  IN \A a \in DOMAIN target_memory :
       target_memory[a] = IF a \in start .. start + 4 * words - 1 /\ ~Refused(a)
                          THEN ByteMeant(a) ELSE Untouched
=============================================================================

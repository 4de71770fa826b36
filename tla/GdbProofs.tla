------------------------------ MODULE GdbProofs -----------------------------
(***************************************************************************)
(* The GDB server.  First the arithmetic of compressed capabilities, for   *)
(* every size of the fields and every list of permissions: what the        *)
(* encoder stores, the decoder shows.                                      *)
(*                                                                         *)
(* Then the server and OpenOCD, for any registers, addresses, file, number *)
(* of commands and length of the list of breakpoints: a continued core has *)
(* its breakpoints, and no register is written or shown but as meant.      *)
(*                                                                         *)
(* Then the commands on registers, through packets and fields of any size: *)
(* what is shown is what was set.  Last, an image of any segments, in a    *)
(* file whose lines are cut anywhere, is in memory once it is loaded.      *)
(***************************************************************************)
EXTENDS GdbServer, NaturalLemmas, TLAPS

(***************************************************************************)
(* Permissions                                                             *)
(***************************************************************************)

\* Whatever permissions are asked for, the field decodes to none but those, and, if
\* one of the formats holds them, to all of them but EX, SR, U0, SE and US, which
\* are lost always (encode_permissions, decode_permissions).
THEOREM PermissionsRoundTrip ==
  ASSUME NEW d \in SUBSET PERMISSION_NAME_LIST
  PROVE  RoundTrip(d, decode_permissions(encode_permissions(d)))
<1> DEFINE bits  == encode_permissions(d)
           decoded == decode_permissions(bits)
<1> USE DEF If, LoadBits, Name, LoadNames, GL_BIT_INDEX
<1>6. Storable(d) => \/ d \subseteq {"LD", "MC", "SD", "SL", "LM", "LG", "GL"} /\ {"LD", "MC", "SD"} \subseteq d
                     \/ d \subseteq {"LD", "MC", "LM", "LG", "GL"} /\ {"LD", "MC"} \subseteq d
                     \/ d \subseteq {"SD", "MC", "GL"} /\ {"SD", "MC"} \subseteq d
                     \/ d \subseteq {"EX", "LD", "MC", "SR", "LM", "LG", "GL"} /\ {"EX", "LD", "MC"} \subseteq d
                     \/ d \subseteq {"LD", "SD", "GL"}
                     \/ d \subseteq {"U0", "SE", "US", "GL"}
  BY DEF Storable, Formats
<1>1. CASE {"LD", "MC", "SD"} \subseteq d
  <2>1. bits = If(d, "GL", 5) \cup {4, 3} \cup If(d, "SL", 2) \cup LoadBits(d)
    BY <1>1 DEF encode_permissions
  <2>2. decoded = {"LD", "MC", "SD"} \cup (d \cap {"GL", "SL", "LM", "LG"})
    BY <2>1 DEF decode_permissions
  <2> QED  BY <1>1, <1>6, <2>2 DEF RoundTrip, Lost, PERMISSION_NAME_LIST
<1>2. CASE {"LD", "MC"} \subseteq d /\ "SD" \notin d
  <2>1. bits = If(d, "GL", 5) \cup {4, 2} \cup LoadBits(d)
    BY <1>2 DEF encode_permissions
  <2>2. decoded = {"LD", "MC"} \cup (d \cap {"GL", "LM", "LG"})
    BY <2>1 DEF decode_permissions
  <2> QED  BY <1>2, <1>6, <2>2 DEF RoundTrip, Lost, PERMISSION_NAME_LIST
<1>3. CASE {"SD", "MC"} \subseteq d /\ "LD" \notin d
  <2>1. bits = If(d, "GL", 5) \cup {4}
    BY <1>3 DEF encode_permissions
  <2>2. decoded = {"SD", "MC"} \cup (d \cap {"GL"})
    BY <2>1 DEF decode_permissions
  <2> QED  BY <1>3, <1>6, <2>2 DEF RoundTrip, Lost, PERMISSION_NAME_LIST
<1>4. CASE "MC" \notin d /\ ("LD" \in d \/ "SD" \in d)
  <2>1. bits = If(d, "GL", 5) \cup {4} \cup If(d, "LD", 1) \cup If(d, "SD", 0)
    BY <1>4 DEF encode_permissions
  <2>2. decoded = d \cap {"GL", "LD", "SD"}
    BY <1>4, <2>1 DEF decode_permissions
  <2> QED  BY <1>4, <1>6, <2>2 DEF RoundTrip, Lost, PERMISSION_NAME_LIST
<1>5. CASE "LD" \notin d /\ "SD" \notin d
  <2>1. bits = If(d, "GL", 5) \cup If(d, "U0", 2) \cup If(d, "SE", 1) \cup If(d, "US", 0)
    BY <1>5 DEF encode_permissions
  <2>2. decoded = d \cap {"GL"}
    BY <2>1 DEF decode_permissions
  <2> QED  BY <1>5, <1>6, <2>2 DEF RoundTrip, Lost, PERMISSION_NAME_LIST
<1> QED  BY <1>1, <1>2, <1>3, <1>4, <1>5

(***************************************************************************)
(* Bounds                                                                  *)
(***************************************************************************)

\* Two numbers less than m apart lie in the same m numbers or in neighbouring
\* ones, and their remainders tell which.
LEMMA SameOrNext ==
  ASSUME NEW m \in Nat \ {0}, NEW x \in Nat, NEW y \in Nat, x <= y, y - x < m
  PROVE  y \div m = x \div m + (IF y % m < x % m THEN 1 ELSE 0)
<1> DEFINE q == x \div m  r == x % m  p == y \div m  s == y % m
<1>1. q \in Nat /\ r \in 0 .. m - 1 /\ x = m * q + r  BY Division
<1>2. p \in Nat /\ s \in 0 .. m - 1 /\ y = m * p + s  BY Division
<1> HIDE DEF q, r, p, s
<1>3. m * (p - q) = m * p - m * q  BY <1>1, <1>2
<1>4. m * (p - q) + s - r \in 0 .. m - 1  BY <1>1, <1>2, <1>3
<1>5. p - q >= 0
  <2>1. p - q <= -1 => m * (p - q) <= m * (-1)  BY <1>1, <1>2, Monotonic
  <2> QED  BY <1>1, <1>2, <1>4, <2>1
<1>6. p - q <= 1
  <2>1. p - q >= 2 => m * 2 <= m * (p - q)  BY <1>1, <1>2, Monotonic
  <2> QED  BY <1>1, <1>2, <1>4, <2>1
<1>7. p = q \/ p = q + 1  BY <1>1, <1>2, <1>5, <1>6
<1>8. CASE p = q
  <2>1. m * (p - q) = 0  BY <1>8, <1>1
  <2>2. s >= r  BY <1>1, <1>2, <1>4, <2>1
  <2> QED  BY <1>1, <1>2, <1>8, <2>2 DEF p, q, r, s
<1>9. CASE p = q + 1
  <2>1. m * (p - q) = m  BY <1>9, <1>1
  <2>2. s < r  BY <1>1, <1>2, <1>4, <2>1
  <2> QED  BY <1>1, <1>2, <1>9, <2>2 DEF p, q, r, s
<1> QED  BY <1>7, <1>8, <1>9

\* Shifting twice is shifting once by both.
LEMMA DivideTwice ==
  ASSUME NEW x \in Nat, NEW g \in Nat \ {0}, NEW m \in Nat \ {0}
  PROVE  x \div (m * g) = (x \div g) \div m
<1> DEFINE q == x \div g  r == x % g  p == q \div m  s == q % m
<1>1. q \in Nat /\ r \in 0 .. g - 1 /\ x = g * q + r  BY Division
<1>2. p \in Nat /\ s \in 0 .. m - 1 /\ q = m * p + s  BY <1>1, Division
<1> HIDE DEF q, r, p, s
<1>3. m * g \in Nat \ {0}  BY SMT
<1>4. g * s + r \in 0 .. m * g - 1
  <2>1. g * s <= g * (m - 1)  BY <1>2, Monotonic
  <2>2. g * (m - 1) = m * g - g  BY SMT
  <2>3. g * s \in Nat  BY <1>2
  <2> QED  BY <1>1, <1>2, <2>1, <2>2, <2>3
<1>5. x = (m * g) * p + (g * s + r)
  <2>1. g * q = g * (m * p) + g * s  BY <1>2
  <2>2. g * (m * p) = (m * g) * p  BY <1>2
  <2>3. (m * g) * p \in Nat /\ g * s \in Nat /\ g * q \in Nat  BY <1>1, <1>2
  <2> DEFINE A == g * q  B == (m * g) * p  C == g * s
  <2>4. A = B + C  BY <2>1, <2>2
  <2>5. x = A + r /\ r \in Nat  BY <1>1
  <2>6. A \in Nat /\ B \in Nat /\ C \in Nat  BY <2>3
  <2> HIDE DEF A, B, C
  <2>7. x = B + (C + r)  BY <2>4, <2>5, <2>6
  <2> QED  BY <2>7 DEF B, C
<1> QED  BY <1>2, <1>3, <1>4, <1>5, Unique DEF p, q

\* The decoder's corrections put the bounds back, at any granularity, for an
\* address between them (base_cor, build_correction, calc_bounds).
LEMMA Corrections ==
  ASSUME NEW b \in Nat, NEW a \in Nat, NEW t \in Nat, NEW g \in Nat \ {0},
         b <= a, a <= t, t - b < M
  PROVE  /\ full_base(a \div M, a % M, b % M, g) = g * b
         /\ full_top(a \div M, a % M, b % M, t % M, g) = g * t
<1> DEFINE q == b \div M  beta == b % M  alpha == a % M  tau == t % M
<1>1. M \in Nat \ {0}  BY FieldsAssumption
<1>2. q \in Nat /\ beta \in 0 .. M - 1 /\ b = M * q + beta  BY <1>1, Division
<1>3. a \div M = q + (IF alpha < beta THEN 1 ELSE 0)
  <2>1. a - b < M  BY <1>1
  <2> QED  BY <1>1, <2>1, SameOrNext
<1>4. t \div M = q + (IF tau < beta THEN 1 ELSE 0)
  <2>1. b <= t  OBVIOUS
  <2> QED  BY <1>1, <2>1, SameOrNext
<1>5. t = M * (t \div M) + tau /\ tau \in 0 .. M - 1 /\ alpha \in 0 .. M - 1  BY <1>1, Division
<1> HIDE DEF q, beta, alpha, tau
<1>6. a \div M + base_cor(alpha, beta) = q
  BY <1>2, <1>3 DEF base_cor
<1>7. a \div M + top_cor(alpha, beta, tau) = t \div M
  BY <1>2, <1>3, <1>4, <1>5 DEF top_cor
<1>8. \A n \in Nat, r \in Nat : n * (M * g) + r * g = g * (M * n + r)
  BY <1>1
<1>9. full_base(a \div M, alpha, beta, g) = g * b
  BY <1>2, <1>6, <1>8 DEF full_base
<1>10. t \div M \in Nat  BY <1>2, <1>4
<1>11. full_top(a \div M, alpha, beta, tau, g) = g * t
  BY <1>5, <1>7, <1>8, <1>10 DEF full_top
<1> QED  BY <1>9, <1>11 DEF alpha, beta, tau

\* Bounds stored with an exponent whose range holds them, and shown of an
\* address between them, are those asked for, rounded down to the granule.
LEMMA StoredAndShown ==
  ASSUME NEW base \in Nat, NEW value \in Nat, NEW top \in Nat,
         base <= value, value <= top,
         NEW e \in 0 .. FieldOfOnes - 1, top - base < EXPONENT_MAX_LENGTH_DICT[e]
  PROVE  decode_bounds(value, e, NineBits(base, e), NineBits(top, e)) =
           [base |-> 2^e * (base \div 2^e), top |-> 2^e * (top \div 2^e)]
<1> DEFINE g == 2^e  b == base \div g  a == value \div g  t == top \div g
<1>1. M \in Nat \ {0} /\ g \in Nat \ {0} /\ e \in Exponents /\ e # FieldOfOnes
  BY FieldsAssumption DEF Exponents
<1>2. extract_exponent(e) = e  BY <1>1 DEF extract_exponent
<1>3. top - base < (M - 1) * g  BY <1>1 DEF EXPONENT_MAX_LENGTH_DICT
<1> HIDE DEF g
<1>4. /\ b \in Nat /\ base % g \in 0 .. g - 1 /\ base = g * b + (base % g)
      /\ a \in Nat /\ value % g \in 0 .. g - 1 /\ value = g * a + (value % g)
      /\ t \in Nat /\ top % g \in 0 .. g - 1 /\ top = g * t + (top % g)
  BY <1>1, Division
<1> HIDE DEF b, a, t
<1>5. b <= a
  <2>1. b >= a + 1 => g * (a + 1) <= g * b  BY <1>1, <1>4, Monotonic
  <2>2. g * (a + 1) = g * a + g  BY <1>1, <1>4
  <2> QED  BY <1>1, <1>4, <2>1, <2>2
<1>6. a <= t
  <2>1. a >= t + 1 => g * (t + 1) <= g * a  BY <1>1, <1>4, Monotonic
  <2>2. g * (t + 1) = g * t + g  BY <1>1, <1>4
  <2> QED  BY <1>1, <1>4, <2>1, <2>2
<1>7. t - b < M
  <2>1. t - b >= M => g * M <= g * (t - b)  BY <1>1, <1>4, Monotonic
  <2>2. g * (t - b) = g * t - g * b  BY <1>1, <1>4
  <2>3. (M - 1) * g = g * M - g  BY <1>1
  <2>4. g * M \in Int /\ g * t \in Int /\ g * b \in Int  BY <1>1, <1>4
  <2> QED  BY <1>1, <1>3, <1>4, <2>1, <2>2, <2>3, <2>4
<1>8. value \div (M * g) = a \div M  BY <1>1, DivideTwice DEF a
<1>9. /\ full_base(a \div M, a % M, b % M, g) = g * b
      /\ full_top(a \div M, a % M, b % M, t % M, g) = g * t
  <2>1. b \in Nat /\ a \in Nat /\ t \in Nat  BY <1>4
  <2>2. g \in Nat \ {0}  BY <1>1
  <2> QED  BY <1>5, <1>6, <1>7, <2>1, <2>2, Corrections
<1>10. NineBits(base, e) = b % M /\ NineBits(top, e) = t % M
  BY DEF NineBits, b, t, g
<1>11. decode_bounds(value, e, b % M, t % M) = [base |-> g * b, top |-> g * t]
  BY <1>2, <1>8, <1>9 DEF decode_bounds, a, g
<1> QED  BY <1>10, <1>11 DEF g, b, t

\* If an exponent is large enough for the range, find_correct_exponent finds the
\* smallest one, whatever the encoder remembers of its last use.
LEMMA SmallestExponent ==
  ASSUME NEW last, NEW diff \in Nat,
         NEW fits \in Exponents, diff < EXPONENT_MAX_LENGTH_DICT[fits]
  PROVE  LET e == find_correct_exponent(last, diff)
         IN /\ e \in Exponents /\ diff < EXPONENT_MAX_LENGTH_DICT[e]
            /\ \A f \in Exponents : diff < EXPONENT_MAX_LENGTH_DICT[f] => e <= f
<1> DEFINE fit == {e \in Exponents : diff < EXPONENT_MAX_LENGTH_DICT[e]}
<1>1. fit \subseteq Nat /\ fits \in fit  BY FieldsAssumption DEF Exponents
<1>2. \E e \in fit : \A f \in fit : e <= f
  <2> HIDE DEF fit
  <2> QED  BY <1>1, LeastExists
<1>3. find_correct_exponent(last, diff) = CHOOSE e \in fit : \A f \in fit : e <= f
  BY <1>1 DEF find_correct_exponent
<1> HIDE DEF fit
<1>4. LET e == CHOOSE e \in fit : \A f \in fit : e <= f
      IN e \in fit /\ \A f \in fit : e <= f
  BY <1>2
<1> QED  BY <1>3, <1>4 DEF fit

\* Bounds a user sets and then sees: of an address between them, and unless they
\* need the exponent of the whole address space, they are those asked for,
\* rounded down to a granule as small as the encoder's table allows.
THEOREM BoundsRoundTrip ==
  ASSUME NEW last, NEW base \in Nat, NEW value \in Nat, NEW top \in Nat,
         base <= value, value <= top,
         NEW fits \in 0 .. FieldOfOnes - 1, top - base < EXPONENT_MAX_LENGTH_DICT[fits]
  PROVE  LET e == find_correct_exponent(last, top - base)
         IN /\ decode_bounds(value, e, NineBits(base, e), NineBits(top, e)) =
                 [base |-> 2^e * (base \div 2^e), top |-> 2^e * (top \div 2^e)]
            /\ \A f \in Exponents : top - base < EXPONENT_MAX_LENGTH_DICT[f] => e <= f
<1> DEFINE e == find_correct_exponent(last, top - base)
<1>1. top - base \in Nat /\ fits \in Exponents  BY DEF Exponents
<1>2. /\ e \in Exponents /\ top - base < EXPONENT_MAX_LENGTH_DICT[e]
      /\ \A f \in Exponents : top - base < EXPONENT_MAX_LENGTH_DICT[f] => e <= f
  BY <1>1, SmallestExponent
<1> HIDE DEF e
<1>3. e \in 0 .. FieldOfOnes - 1
  BY <1>1, <1>2, FieldsAssumption DEF Exponents
<1>4. decode_bounds(value, e, NineBits(base, e), NineBits(top, e)) =
        [base |-> 2^e * (base \div 2^e), top |-> 2^e * (top \div 2^e)]
  BY <1>2, <1>3, StoredAndShown
<1> QED  BY <1>2, <1>4 DEF e

(***************************************************************************)
(* The server and OpenOCD                                                  *)
(***************************************************************************)

Pcs == {"connect", "flush", "prompt", "p_ack", "p_data", "P_ack", "P_ok",
        "g_ack", "g_data", "g_ack_again", "g_again", "X_rsp", "X_ok",
        "s_ack", "s_quiet", "cs_ack", "cs_quiet", "Z_ack", "Z_quiet",
        "c_ack", "c_quiet", "z_ack", "z_quiet", "crash", "done"}
Contents == [Halves -> {0, 1}]
Files    == [Registers -> Contents]
Tokens   == [kind : {"+", "OK", "E0E", "stop", "register", "all"},
             data : {<<>>} \cup Contents \cup Files]
XPackets == {<<"X", n>> : n \in Nat}

Types ==
  /\ pc \in Pcs /\ core \in {"halted", "stepping", "running"}
  /\ list_of_breakpoints \in Seq(Addresses) /\ i \in Nat
  /\ inbox \in Seq(Tokens)
  /\ regs \in Files
  /\ disturbed \in BOOLEAN /\ startHalted \in BOOLEAN

\* What is on its way to OpenOCD: nothing, or one packet, sent or acknowledged.
Clear      == toOpenocd = <<>> /\ packet = <<>>
Sent(pkt)  == toOpenocd = <<pkt>> /\ packet = <<>>
Taken(pkt) == toOpenocd = <<>> /\ packet = pkt
Alone(pkt) == Clear \/ Sent(pkt) \/ Taken(pkt)
Only(kinds) == \A k \in DOMAIN inbox : inbox[k].kind \in kinds

\* At the prompt nothing is owed, and only a stop reply can have arrived.
PromptInv ==
  /\ pc = "connect" => Clear
  /\ pc = "prompt" => Clear /\ Only({"stop"})

\* Words of the file may be under way after the server stopped waiting for them.
LoadInv == pc \in {"flush", "X_rsp", "X_ok"} =>
  toOpenocd \in Seq(XPackets) /\ packet \in XPackets \cup {<<>>}

\* A register that has arrived is that of a halted core that nothing will start.
ReadInv == pc \in {"p_ack", "p_data"} =>
  /\ cmd.op \in {"p", "P"} /\ cmd.reg \in Registers
  /\ cmd.op = "P" => cmd.half \in Halves /\ cmd.new \in {0, 1}
  /\ Alone(<<"p", cmd.reg>>)
  /\ Only({"+", "stop", "register", "E0E"})
  /\ \A k \in DOMAIN inbox : inbox[k].kind = "register" =>
       Clear /\ core = "halted" /\ inbox[k].data = regs[cmd.reg]

\* A register is written while the core is halted, and its acknowledgement and
\* OK are the only tokens of that time.
WriteInv ==
  LET pkt == <<"P", cmd.reg, new_register_value(regs[cmd.reg])>>
  IN /\ pc \in {"P_ack", "P_ok"} =>
          /\ cmd.op = "P" /\ cmd.reg \in Registers /\ cmd.half \in Halves /\ cmd.new \in {0, 1}
          /\ core = "halted"
     /\ pc = "P_ack" => \/ Sent(pkt) /\ inbox = <<>>
                        \/ Taken(pkt) /\ inbox = <<Ack>>
                        \/ Clear
     /\ pc = "P_ok" => \/ Taken(pkt) /\ inbox = <<>>
                       \/ Clear

\* Unless a stop reply came in between, the registers arrive by themselves.
AllInv ==
  /\ pc \in {"g_ack", "g_data", "g_ack_again", "g_again"} =>
       /\ cmd.op = "g" /\ Alone(<<"g">>)
       /\ Only({"+", "stop", "all", "E0E"})
       /\ \A k \in DOMAIN inbox :
            /\ inbox[k].kind \in {"all", "E0E"} => Clear
            /\ inbox[k].kind = "all" => core = "halted" /\ inbox[k].data = regs
  /\ pc \in {"g_ack", "g_ack_again"} /\ ~disturbed /\ ~Has(inbox, "stop") =>
       \/ Sent(<<"g">>) /\ inbox = <<>>
       \/ Taken(<<"g">>) /\ inbox = <<Ack>>
       \/ Clear
  /\ pc \in {"g_data", "g_again"} /\ ~disturbed /\ ~Has(inbox, "stop") =>
       \/ Taken(<<"g">>) /\ inbox = <<>>
       \/ Clear /\ (inbox = <<>> \/ Len(inbox) = 1)

\* A halted core makes one step before the breakpoints are planted.
StepInv ==
  /\ pc \in {"s_ack", "s_quiet", "cs_ack", "cs_quiet"} => Alone(<<"step">>)
  /\ pc \in {"cs_ack", "cs_quiet"} /\ startHalted => core \in {"halted", "stepping"}

\* Breakpoints are planted one by one in a halted core.
PlantInv == pc \in {"Z_ack", "Z_quiet"} =>
  /\ i \in 1 .. Len(list_of_breakpoints)
  /\ Alone(<<"Z0", list_of_breakpoints[i]>>)
  /\ startHalted =>
       /\ core = "halted"
       /\ \A k \in 1 .. i - 1 : list_of_breakpoints[k] \in planted
       /\ Clear => list_of_breakpoints[i] \in planted

ContinueInv == pc \in {"c_ack", "c_quiet"} =>
  /\ Alone(<<"c">>)
  /\ startHalted => \A k \in 1 .. Len(list_of_breakpoints) : list_of_breakpoints[k] \in planted

RemoveInv == pc \in {"z_ack", "z_quiet"} =>
  /\ i \in 1 .. Len(list_of_breakpoints)
  /\ Alone(<<"z0", list_of_breakpoints[i]>>)

IInv == /\ Types /\ PromptInv /\ LoadInv /\ ReadInv /\ WriteInv /\ AllInv
        /\ StepInv /\ PlantInv /\ ContinueInv /\ RemoveInv

\* RemoveFirst takes one element out, or none.
LEMMA RemoveFirstType ==
  ASSUME NEW S, NEW s \in Seq(S), NEW e
  PROVE  RemoveFirst(s, e) \in Seq(S)
<1> DEFINE I == {k \in 1 .. Len(s) : s[k] = e}
<1>1. CASE I = {}
  BY <1>1 DEF RemoveFirst
<1>2. CASE I # {}
  <2>1. \E x \in I : \A y \in I : x <= y
    <3>1. I \subseteq Nat  OBVIOUS
    <3> HIDE DEF I
    <3> QED  BY <1>2, <3>1, LeastExists
  <2>2. Min(I) \in I  BY <2>1 DEF Min
  <2>3. SelectInSeq(s, LAMBDA v : v = e) = Min(I)  BY <1>2 DEF SelectInSeq
  <2>4. \A k \in 1 .. Len(s) : RemoveAt(s, k) \in Seq(S)
    <3> TAKE k \in 1 .. Len(s)
    <3>1. SubSeq(s, 1, k - 1) \in Seq(S)  OBVIOUS
    <3>2. SubSeq(s, k + 1, Len(s)) \in Seq(S)  OBVIOUS
    <3> QED  BY <3>1, <3>2 DEF RemoveAt
  <2>5. RemoveFirst(s, e) = RemoveAt(s, Min(I))  BY <1>2, <2>3 DEF RemoveFirst
  <2> QED  BY <2>2, <2>4, <2>5
<1> QED  BY <1>1, <1>2

\* Facts about sequences that the provers do not find by themselves.
LEMMA EmptyOrFirst ==
  ASSUME NEW S, NEW s \in Seq(S), s # <<>>
  PROVE  1 \in DOMAIN s /\ Head(s) = s[1]
OBVIOUS

LEMMA Nothing == \A S : <<>> \in Seq(S)
OBVIOUS

LEMMA Single == \A pkt : Append(<<>>, pkt) = <<pkt>>
OBVIOUS

LEMMA Appended ==
  ASSUME NEW S, NEW s \in Seq(S), NEW e \in S
  PROVE  /\ Append(s, e) \in Seq(S)
         /\ \A k \in DOMAIN Append(s, e) :
              \/ k \in DOMAIN s /\ Append(s, e)[k] = s[k]
              \/ Append(s, e)[k] = e
         /\ \E k \in DOMAIN Append(s, e) : Append(s, e)[k] = e
OBVIOUS

\* The invariant holds when the server starts (main.py).
LEMMA Start == Init => IInv
<1> SUFFICES ASSUME Init PROVE IInv  OBVIOUS
<1>1. Types
  <2>1. inbox \in Seq(Tokens)  BY DEF Init, Tokens, Ack, Token
  <2>2. regs \in Files  BY DEF Init, Files, Contents
  <2>3. list_of_breakpoints \in Seq(Addresses)  BY DEF Init
  <2> QED  BY <2>1, <2>2, <2>3 DEF Init, Types, Pcs
<1> QED
  BY <1>1 DEF Init, IInv, PromptInv, LoadInv, ReadInv, WriteInv, AllInv,
              StepInv, PlantInv, ContinueInv, RemoveInv, Clear

-----------------------------------------------------------------------------
(* Each step keeps the invariant.                                          *)

\* A command line is entered with nothing under way.
LEMMA UserStep ==
  ASSUME IInv, User
  PROVE  IInv'
<1> USE DEF Enter, target, Clear, Sent, Taken, Alone, Only, Has, Send, NoCommand
<1>1. pc = "prompt" /\ Clear /\ Only({"stop"}) /\ Types /\ \E keyword : Enter(keyword)
  BY DEF User, Exit, SetAll, Begin, BeginInfoRegisters, BeginStepi, BeginContinue, BeginLoad,
         FileNotFound, BeginPrint, BeginSet, Breakpoint, RemoveBreakpoint, IInv, PromptInv
<1>2. /\ UNCHANGED <<inbox, packet, core, planted, regs>>
      /\ disturbed' = FALSE /\ startHalted' = (core = "halted")
  BY <1>1
<1>3. /\ inbox' \in Seq(Tokens) /\ regs' \in Files
      /\ core' \in {"halted", "stepping", "running"}
      /\ disturbed' \in BOOLEAN /\ startHalted' \in BOOLEAN
  BY <1>1, <1>2 DEF Types
<1> USE DEF IInv, PromptInv, LoadInv, ReadInv, WriteInv, AllInv, StepInv, PlantInv, ContinueInv,
           RemoveInv
<1>4. CASE Exit \/ SetAll
  <2>1. UNCHANGED <<list_of_breakpoints, i>>  BY <1>4 DEF Exit, SetAll
  <2>2. CASE pc' = "done"  BY <1>1, <1>2, <1>3, <2>1, <2>2 DEF Types, Pcs
  <2>3. CASE pc' = "crash"  BY <1>1, <1>2, <1>3, <2>1, <2>3 DEF Types, Pcs
  <2> QED  BY <1>4, <2>2, <2>3 DEF Exit, SetAll
<1>5. CASE BeginInfoRegisters
  <2>1. ~Has(inbox, "stop") => inbox = <<>>  BY <1>1, EmptyOrFirst DEF Types
  <2>2. pc' = "g_ack" /\ cmd' = [op |-> "g"] /\ UNCHANGED <<list_of_breakpoints, i>>
    BY <1>5 DEF BeginInfoRegisters, Begin
  <2>3. toOpenocd' = Append(<<>>, <<"g">>)
    BY <1>1, <1>5 DEF BeginInfoRegisters, Begin
  <2>4. Sent(<<"g">>)'
    BY <1>1, <1>2, <2>3, Single
  <2>5. Only({"+", "stop", "all", "E0E"})' /\ \A k \in DOMAIN inbox : inbox[k].kind \notin {"all", "E0E"}
    BY <1>1, <1>2
  <2>6. AllInv'  BY <1>2, <2>1, <2>2, <2>4, <2>5
  <2> QED  BY <1>1, <1>2, <1>3, <2>2, <2>6 DEF Types, Pcs
<1>6. CASE BeginStepi
  BY <1>1, <1>2, <1>3, <1>6 DEF BeginStepi, Begin, Types, Pcs
<1>7. CASE BeginContinue
  BY <1>1, <1>2, <1>3, <1>7 DEF BeginContinue, Begin, Types, Pcs
<1>8. CASE BeginLoad
  BY <1>1, <1>2, <1>3, <1>8 DEF BeginLoad, Types, Pcs, XPackets
<1>9. CASE FileNotFound
  BY <1>1, <1>2, <1>3, <1>9 DEF FileNotFound, ToFlush, Types, Pcs
<1>10. ASSUME NEW r \in Registers, BeginPrint(r)  PROVE IInv'
  BY <1>1, <1>2, <1>3, <1>10 DEF BeginPrint, Begin, Types, Pcs
<1>11. ASSUME NEW r \in Registers, NEW half \in Halves, NEW new \in {0, 1}, BeginSet(r, half, new)
       PROVE  IInv'
  BY <1>1, <1>2, <1>3, <1>11 DEF BeginSet, Begin, Types, Pcs
<1>12. ASSUME NEW a \in Addresses, Breakpoint(a) \/ RemoveBreakpoint(a)  PROVE IInv'
  <2>1. list_of_breakpoints' \in Seq(Addresses)
    BY <1>1, <1>12, RemoveFirstType DEF Breakpoint, RemoveBreakpoint, Types
  <2>2. pc' = "flush" /\ i' = 0 /\ UNCHANGED toOpenocd
    BY <1>12 DEF Breakpoint, RemoveBreakpoint, ToFlush
  <2> QED  BY <1>1, <1>2, <1>3, <2>1, <2>2 DEF Types, Pcs
<1> QED
  BY <1>4, <1>5, <1>6, <1>7, <1>8, <1>9, <1>10, <1>11, <1>12 DEF User

\* The server's own steps.  What it waits for at each place says what can be on
\* the way when it goes on.
LEMMA AckStep ==
  ASSUME IInv, NEW at, NEW next, receive_ack(at, next),
         <<at, next>> \in {<<"p_ack", "p_data">>, <<"P_ack", "P_ok">>, <<"g_ack", "g_data">>,
                           <<"g_ack_again", "g_again">>, <<"s_ack", "s_quiet">>,
                           <<"cs_ack", "cs_quiet">>, <<"Z_ack", "Z_quiet">>,
                           <<"c_ack", "c_quiet">>, <<"z_ack", "z_quiet">>}
  PROVE  IInv'
<1> USE DEF target, Clear, Sent, Taken, Alone, Only, Has
<1>1. UNCHANGED <<cmd, list_of_breakpoints, i, toOpenocd, packet, core, planted, regs, startHalted>>
  BY DEF receive_ack, recv, Uncaught, timeout
<1>2. CASE Uncaught(at)
  BY <1>1, <1>2 DEF Uncaught, timeout, IInv, Types, Pcs, PromptInv, LoadInv, ReadInv, WriteInv,
     AllInv, StepInv, PlantInv, ContinueInv, RemoveInv
<1>3. CASE recv(at) /\ Disturb /\ pc' = next
  <2>1. pc = at /\ inbox # <<>> /\ inbox' = <<>> /\ disturbed' = (disturbed \/ Has(inbox, "stop"))
    BY <1>3 DEF recv, Disturb
  <2>2. Types'  BY <1>1, <1>3, <2>1 DEF IInv, Types, Pcs
  <2>3. CASE at = "p_ack" /\ next = "p_data"
    BY <1>1, <1>3, <2>1, <2>2, <2>3 DEF IInv, PromptInv, LoadInv, ReadInv, WriteInv,
       AllInv, StepInv, PlantInv, ContinueInv, RemoveInv
  <2>4. CASE at = "P_ack" /\ next = "P_ok"
    BY <1>1, <1>3, <2>1, <2>2, <2>4 DEF IInv, PromptInv, LoadInv, ReadInv, WriteInv,
       AllInv, StepInv, PlantInv, ContinueInv, RemoveInv, new_register_value
  <2>5. CASE at \in {"g_ack", "g_ack_again"} /\ next \in {"g_data", "g_again"}
    <3>1. cmd'.op = "g" /\ Alone(<<"g">>)'  BY <1>1, <2>1, <2>5 DEF IInv, AllInv
    <3>2. ~disturbed' => Taken(<<"g">>)' \/ Clear'  BY <1>1, <2>1, <2>5 DEF IInv, AllInv
    <3>3. AllInv'  BY <1>3, <2>1, <2>5, <3>1, <3>2 DEF AllInv
    <3> QED  BY <1>3, <2>2, <2>5, <3>3 DEF IInv, PromptInv, LoadInv, ReadInv, WriteInv,
       StepInv, PlantInv, ContinueInv, RemoveInv
  <2>6. CASE at \in {"s_ack", "cs_ack"} /\ next = (IF at = "s_ack" THEN "s_quiet" ELSE "cs_quiet")
    BY <1>1, <1>3, <2>1, <2>2, <2>6 DEF IInv, PromptInv, LoadInv, ReadInv, WriteInv,
       AllInv, StepInv, PlantInv, ContinueInv, RemoveInv
  <2>7. CASE at = "Z_ack" /\ next = "Z_quiet"
    BY <1>1, <1>3, <2>1, <2>2, <2>7 DEF IInv, PromptInv, LoadInv, ReadInv, WriteInv,
       AllInv, StepInv, PlantInv, ContinueInv, RemoveInv
  <2>8. CASE at \in {"c_ack", "z_ack"} /\ next = (IF at = "c_ack" THEN "c_quiet" ELSE "z_quiet")
    BY <1>1, <1>3, <2>1, <2>2, <2>8 DEF IInv, PromptInv, LoadInv, ReadInv, WriteInv,
       AllInv, StepInv, PlantInv, ContinueInv, RemoveInv
  <2> QED  BY <2>3, <2>4, <2>5, <2>6, <2>7, <2>8
<1> QED  BY <1>2, <1>3 DEF receive_ack

\* Back at the prompt with nothing but words of the file under way.
LEMMA Flushing ==
  ASSUME IInv, ToFlush, UNCHANGED <<list_of_breakpoints, toOpenocd, packet, core, regs, startHalted>>,
         toOpenocd \in Seq(XPackets), packet \in XPackets \cup {<<>>},
         inbox' \in Seq(Tokens), disturbed' \in BOOLEAN
  PROVE  IInv'
<1>1. Types'  BY DEF IInv, ToFlush, Types, Pcs
<1> QED  BY <1>1 DEF IInv, ToFlush, PromptInv, LoadInv, ReadInv, WriteInv, AllInv, StepInv, PlantInv,
            ContinueInv, RemoveInv

\* A server that has left owes nothing.
LEMMA Crashing ==
  ASSUME IInv, pc' \in {"crash", "done"}, UNCHANGED <<list_of_breakpoints, i, core, regs, startHalted>>,
         inbox' \in Seq(Tokens), disturbed' \in BOOLEAN
  PROVE  IInv'
<1>1. Types'  BY DEF IInv, Types, Pcs
<1> QED  BY <1>1 DEF IInv, PromptInv, LoadInv, ReadInv, WriteInv, AllInv, StepInv, PlantInv,
            ContinueInv, RemoveInv

\* What is read until it is quiet changes nothing else.
LEMMA ReadOnStep ==
  ASSUME IInv, NEW at, ReadOn(at),
         at \in {"flush", "s_quiet", "cs_quiet", "Z_quiet", "c_quiet", "z_quiet"}
  PROVE  IInv'
<1> USE DEF target, Clear, Sent, Taken, Alone
<1>1. /\ UNCHANGED <<pc, cmd, list_of_breakpoints, i, disturbed, toOpenocd, packet, core, planted, regs, startHalted>>
      /\ pc = at /\ inbox' = <<>>
  BY DEF ReadOn, recv
<1>2. Types'  BY <1>1 DEF IInv, Types
<1> QED  BY <1>1, <1>2 DEF IInv, PromptInv, LoadInv, ReadInv, WriteInv, AllInv, StepInv, PlantInv,
            ContinueInv, RemoveInv

\* The way to the prompt.
LEMMA ConnectStep ==
  ASSUME IInv, establish_connection \/ flush_out_packet
  PROVE  IInv'
<1> USE DEF target, Clear, Sent, Taken, Alone, Only
<1>1. CASE establish_connection
  <2>1. /\ UNCHANGED <<list_of_breakpoints, i, disturbed, toOpenocd, packet, core, regs, startHalted>>
        /\ pc = "connect" /\ pc' = "flush" /\ inbox' = <<>>
    BY <1>1 DEF establish_connection, recv
  <2>2. Types'  BY <2>1 DEF IInv, Types, Pcs
  <2> QED  BY <2>1, <2>2 DEF IInv, PromptInv, LoadInv, ReadInv, WriteInv, AllInv, StepInv, PlantInv,
              ContinueInv, RemoveInv
<1>2. CASE timeout("flush") /\ pc' = "prompt"
  /\ UNCHANGED <<cmd, list_of_breakpoints, i, shown, toOpenocd>>
  <2>1. /\ UNCHANGED <<list_of_breakpoints, i, inbox, disturbed, toOpenocd, packet, core, regs, startHalted>>
        /\ pc' = "prompt" /\ inbox = <<>> /\ toOpenocd = <<>> /\ packet = <<>>
    BY <1>2 DEF timeout, Quiet
  <2>2. Types'  BY <2>1 DEF IInv, Types, Pcs
  <2> QED  BY <2>1, <2>2 DEF IInv, PromptInv, LoadInv, ReadInv, WriteInv, AllInv, StepInv, PlantInv,
              ContinueInv, RemoveInv
<1> QED  BY <1>1, <1>2, ReadOnStep DEF flush_out_packet

\* print and set: the register that has arrived is the core's, and the core is halted.
LEMMA RegisterStep ==
  ASSUME IInv, PrintRegister \/ WriteBack \/ NoRegister \/ receive_OK("P_ok")
  PROVE  IInv'
<1> USE DEF target, Clear, Sent, Taken, Alone, Only
<1>0. /\ UNCHANGED <<list_of_breakpoints, packet, core, planted, regs, startHalted>>
      /\ inbox' = <<>> \/ inbox' = inbox
      /\ disturbed' = disturbed \/ disturbed' = (disturbed \/ Has(inbox, "stop"))
  BY DEF PrintRegister, WriteBack, NoRegister, receive_OK, recv, timeout, Uncaught, Disturb
<1>1. /\ UNCHANGED <<list_of_breakpoints, packet, core, planted, regs, startHalted>>
      /\ inbox' \in Seq(Tokens) /\ disturbed' \in BOOLEAN
  BY <1>0, Nothing DEF IInv, Types
<1>2. CASE PrintRegister
  <2>1. Clear /\ ToFlush /\ UNCHANGED toOpenocd
    BY <1>2 DEF PrintRegister, recv, RegisterIn, IInv, ReadInv
  <2> QED  BY <1>1, <2>1, Flushing
<1>3. CASE receive_OK("P_ok")
  <2>1. Clear /\ ToFlush /\ UNCHANGED toOpenocd
    BY <1>3 DEF receive_OK, recv, timeout, Quiet, IInv, WriteInv
  <2> QED  BY <1>1, <2>1, Flushing
<1>4. CASE NoRegister
  BY <1>1, <1>4, Crashing DEF NoRegister, Uncaught, recv, timeout
<1>5. CASE WriteBack
  <2>1. /\ cmd.op = "P" /\ cmd.reg \in Registers /\ cmd.half \in Halves /\ cmd.new \in {0, 1}
        /\ UNCHANGED <<cmd, i>> /\ pc' = "P_ack" /\ inbox' = <<>>
    BY <1>5 DEF WriteBack, recv, IInv, ReadInv
  <2>2. PICK k \in RegisterIn(inbox) : Send(<<"P", cmd.reg, new_register_value(inbox[k].data)>>)
    BY <1>5 DEF WriteBack
  <2>3. Clear /\ core = "halted" /\ inbox[k].data = regs[cmd.reg]
    BY <1>5, <2>2 DEF WriteBack, recv, RegisterIn, IInv, ReadInv
  <2>4. toOpenocd' = <<<<"P", cmd.reg, new_register_value(regs[cmd.reg])>>>>
    BY <2>2, <2>3, Single DEF Send
  <2>5. Types'  BY <1>1, <2>1 DEF IInv, Types, Pcs
  <2> QED  BY <1>1, <2>1, <2>3, <2>4, <2>5 DEF IInv, PromptInv, LoadInv, ReadInv, WriteInv, AllInv,
              StepInv, PlantInv, ContinueInv, RemoveInv, new_register_value
<1> QED  BY <1>2, <1>3, <1>4, <1>5

\* info registers, and its second attempt.
LEMMA AllStep ==
  ASSUME IInv, \/ AskAgain
               \/ \E at \in {"g_data", "g_again"} : PrintAll(at) \/ NotAll(at)
  PROVE  IInv'
<1> USE DEF target, Clear, Sent, Taken, Alone, Only, Has
<1>0. /\ UNCHANGED <<list_of_breakpoints, packet, core, planted, regs, startHalted>>
      /\ inbox' = <<>> \/ inbox' = inbox
      /\ disturbed' = disturbed \/ disturbed' = (disturbed \/ Has(inbox, "stop"))
  BY DEF AskAgain, PrintAll, NotAll, recv, timeout, Uncaught, Disturb
<1>1. /\ UNCHANGED <<list_of_breakpoints, packet, core, planted, regs, startHalted>>
      /\ inbox' \in Seq(Tokens) /\ disturbed' \in BOOLEAN
  BY <1>0, Nothing DEF IInv, Types
<1>2. CASE AskAgain
  <2>1. Clear /\ cmd.op = "g"  BY <1>2 DEF AskAgain, recv, IInv, AllInv
  <2>2. UNCHANGED <<cmd, i>> /\ pc' = "g_ack_again" /\ inbox' = <<>> /\ toOpenocd' = <<<<"g">>>>
    BY <1>2, <2>1, Single DEF AskAgain, recv, Send
  <2>3. Types'  BY <1>1, <2>2 DEF IInv, Types, Pcs
  <2> QED  BY <1>1, <2>1, <2>2, <2>3 DEF IInv, PromptInv, LoadInv, ReadInv, WriteInv, AllInv,
              StepInv, PlantInv, ContinueInv, RemoveInv
<1>3. ASSUME NEW at \in {"g_data", "g_again"}, PrintAll(at)  PROVE IInv'
  <2>1. Clear /\ ToFlush /\ UNCHANGED toOpenocd
    BY <1>3 DEF PrintAll, recv, IInv, AllInv
  <2> QED  BY <1>1, <2>1, Flushing
<1>4. ASSUME NEW at \in {"g_data", "g_again"}, NotAll(at)  PROVE IInv'
  BY <1>1, <1>4, Crashing DEF NotAll, Uncaught, recv, timeout
<1> QED  BY <1>2, <1>3, <1>4

\* Words of the file follow one another without regard to what is under way.
LEMMA LoadStep ==
  ASSUME IInv, LoadAcknowledged \/ LoadAnswered
  PROVE  IInv'
<1> USE DEF target
<1>0. /\ UNCHANGED <<list_of_breakpoints, packet, core, planted, regs, startHalted>>
      /\ inbox' = <<>> \/ inbox' = inbox
      /\ disturbed' = disturbed \/ disturbed' = (disturbed \/ Has(inbox, "stop"))
      /\ pc \in {"X_rsp", "X_ok"}
  BY DEF LoadAcknowledged, LoadAnswered, recv, timeout, Disturb
<1>1. /\ UNCHANGED <<list_of_breakpoints, packet, core, planted, regs, startHalted>>
      /\ inbox' \in Seq(Tokens) /\ disturbed' \in BOOLEAN
      /\ toOpenocd \in Seq(XPackets) /\ packet \in XPackets \cup {<<>>}
  BY <1>0, Nothing DEF IInv, Types, LoadInv
<1>2. CASE ToFlush /\ UNCHANGED toOpenocd
  BY <1>1, <1>2, Flushing
<1>3. CASE pc' = "X_ok" /\ UNCHANGED <<cmd, i, toOpenocd>>
  <2>1. Types'  BY <1>1, <1>3 DEF IInv, Types, Pcs
  <2> QED  BY <1>1, <1>3, <2>1 DEF IInv, PromptInv, LoadInv, ReadInv, WriteInv, AllInv, StepInv, PlantInv,
              ContinueInv, RemoveInv
<1>4. CASE i' = i + 1 /\ Send(<<"X", i + 1>>) /\ pc' = "X_rsp" /\ UNCHANGED cmd
  <2>1. <<"X", i + 1>> \in XPackets  BY DEF XPackets, IInv, Types
  <2>2. toOpenocd' \in Seq(XPackets)  BY <1>1, <1>4, <2>1 DEF Send
  <2>3. Types'  BY <1>1, <1>4 DEF IInv, Types, Pcs
  <2> QED  BY <1>1, <1>4, <2>2, <2>3 DEF IInv, PromptInv, LoadInv, ReadInv, WriteInv, AllInv, StepInv, PlantInv,
              ContinueInv, RemoveInv
<1> QED  BY <1>2, <1>3, <1>4 DEF LoadAcknowledged, LoadAnswered, NextWord

\* The loop of continue that plants breakpoints.
LEMMA PlantStep ==
  ASSUME IInv, Stepped \/ Planted
  PROVE  IInv'
<1> USE DEF target, Clear, Sent, Taken, Alone, Only
<1>1. /\ UNCHANGED <<list_of_breakpoints, inbox, disturbed, packet, core, planted, regs, startHalted>>
      /\ Clear /\ list_of_breakpoints \in Seq(Addresses)
      /\ startHalted => core = "halted"
  BY DEF Stepped, Planted, timeout, Quiet, IInv, Types, StepInv, PlantInv
<1>2. PICK k \in Nat \ {0} :
        /\ k <= Len(list_of_breakpoints) + 1
        /\ PlantFrom(k)
        /\ startHalted => \A j \in 1 .. k - 1 : list_of_breakpoints[j] \in planted
  <2>1. CASE Stepped
    BY <1>1, <2>1 DEF Stepped
  <2>2. CASE Planted
    <3>1. /\ i \in 1 .. Len(list_of_breakpoints) /\ PlantFrom(i + 1)
          /\ startHalted => \A j \in 1 .. i : list_of_breakpoints[j] \in planted
      BY <1>1, <2>2 DEF Planted, timeout, IInv, PlantInv
    <3> QED  BY <1>1, <3>1
  <2> QED  BY <2>1, <2>2
<1>3. CASE k <= Len(list_of_breakpoints)
  <2>1. i' = k /\ pc' = "Z_ack" /\ toOpenocd' = <<<<"Z0", list_of_breakpoints[k]>>>>
    BY <1>1, <1>2, <1>3, Single DEF PlantFrom, Send
  <2>2. Types'  BY <1>1, <1>2, <2>1 DEF IInv, Types, Pcs
  <2>3. PlantInv'  BY <1>1, <1>2, <1>3, <2>1 DEF PlantInv
  <2> QED  BY <2>1, <2>2, <2>3 DEF IInv, PromptInv, LoadInv, ReadInv, WriteInv, AllInv, StepInv,
              ContinueInv, RemoveInv
<1>4. CASE ~(k <= Len(list_of_breakpoints))
  <2>1. i' = 0 /\ pc' = "c_ack" /\ toOpenocd' = <<<<"c">>>>
    BY <1>1, <1>2, <1>4, Single DEF PlantFrom, Send
  <2>2. Types'  BY <1>1, <1>2, <2>1 DEF IInv, Types, Pcs
  <2>3. ContinueInv'  BY <1>1, <1>2, <1>4, <2>1 DEF ContinueInv
  <2> QED  BY <2>1, <2>2, <2>3 DEF IInv, PromptInv, LoadInv, ReadInv, WriteInv, AllInv, StepInv,
              PlantInv, RemoveInv
<1> QED  BY <1>3, <1>4

\* Breakpoints are taken out again, and the commands that step or continue end.
LEMMA RemoveStep ==
  ASSUME IInv, StepiDone \/ Continued \/ Removed
  PROVE  IInv'
<1> USE DEF target, Clear, Sent, Taken, Alone, Only
<1>1. /\ UNCHANGED <<list_of_breakpoints, inbox, disturbed, packet, core, planted, regs, startHalted>>
      /\ Clear /\ Types
  BY DEF StepiDone, Continued, Removed, timeout, Quiet, IInv
<1>2. CASE ToFlush /\ UNCHANGED toOpenocd
  <2>1. inbox' \in Seq(Tokens) /\ disturbed' \in BOOLEAN  BY <1>1 DEF Types
  <2> QED  BY <1>1, <1>2, <2>1, Nothing, Flushing
<1>3. ASSUME NEW k \in Nat \ {0}, k <= Len(list_of_breakpoints), i' = k,
             Send(<<"z0", list_of_breakpoints[k]>>), pc' = "z_ack"
      PROVE  IInv'
  <2>1. toOpenocd' = <<<<"z0", list_of_breakpoints[k]>>>>
    BY <1>1, <1>3, Single DEF Send
  <2>2. Types'  BY <1>1, <1>3 DEF Types, Pcs
  <2>3. RemoveInv'  BY <1>1, <1>3, <2>1 DEF RemoveInv, Types
  <2> QED  BY <1>3, <2>2, <2>3 DEF IInv, PromptInv, LoadInv, ReadInv, WriteInv, AllInv, StepInv,
              PlantInv, ContinueInv
<1>4. CASE StepiDone
  BY <1>2, <1>4 DEF StepiDone
<1>5. CASE Continued
  BY <1>2, <1>3, <1>5 DEF Continued, RemoveFrom
<1>6. CASE Removed
  <2>1. i + 1 \in Nat \ {0}  BY <1>1 DEF Types
  <2> QED  BY <1>2, <1>3, <1>6, <2>1 DEF Removed, RemoveFrom
<1> QED  BY <1>4, <1>5, <1>6

LEMMA ServerStep ==
  ASSUME IInv, Server
  PROVE  IInv'
BY ConnectStep, AckStep, RegisterStep, AllStep, LoadStep, ReadOnStep, PlantStep, RemoveStep DEF Server

\* OpenOCD takes the packet there is.
LEMMA AckTokenStep ==
  ASSUME IInv, OpenocdAck
  PROVE  IInv'
<1> USE DEF client, Clear, Sent, Taken, Alone, Only, Has
<1>1. /\ UNCHANGED <<pc, cmd, list_of_breakpoints, i, disturbed, startHalted, core, planted, regs>>
      /\ packet = <<>> /\ toOpenocd # <<>> /\ pc \notin {"crash", "done"}
      /\ packet' = Head(toOpenocd) /\ toOpenocd' = Tail(toOpenocd)
      /\ inbox' = Append(inbox, Ack)
  BY DEF OpenocdAck, Connected
<1>2. Ack \in Tokens /\ Ack.kind = "+"  BY DEF Ack, Token, Tokens
<1>3. /\ inbox' \in Seq(Tokens)
      /\ \A k \in DOMAIN inbox' : \/ k \in DOMAIN inbox /\ inbox'[k] = inbox[k]
                                  \/ inbox'[k] = Ack
  BY <1>1, <1>2, Appended DEF IInv, Types
<1>4. Types'  BY <1>1, <1>3 DEF IInv, Types
<1>5. pc \notin {"connect", "prompt"}  BY <1>1 DEF IInv, PromptInv
<1>6. LoadInv'
  BY <1>1 DEF IInv, LoadInv
<1>7. ASSUME NEW pkt, toOpenocd = <<pkt>>  PROVE Taken(pkt)'
  BY <1>1, <1>7
<1>8. ReadInv'
  BY <1>1, <1>2, <1>3, <1>7 DEF IInv, ReadInv
<1>9. WriteInv'
  BY <1>1, <1>7, Single DEF IInv, WriteInv, new_register_value
<1>10. AllInv'
  <2>1. SUFFICES ASSUME pc \in {"g_ack", "g_data", "g_ack_again", "g_again"}  PROVE AllInv'
    BY <1>1 DEF AllInv
  <2>2. toOpenocd = <<<<"g">>>>  BY <1>1, <2>1 DEF IInv, AllInv
  <2>3. Taken(<<"g">>)'  BY <1>7, <2>2
  <2>4. Only({"+", "stop", "all", "E0E"})'  BY <1>1, <1>2, <1>3, <2>1 DEF IInv, AllInv
  <2>5. \A k \in DOMAIN inbox' : inbox'[k].kind \notin {"all", "E0E"}
    BY <1>1, <1>2, <1>3, <2>1 DEF IInv, AllInv
  <2>6. ~disturbed /\ ~Has(inbox, "stop") => pc \in {"g_ack", "g_ack_again"} /\ inbox = <<>>
    BY <1>1, <2>1 DEF IInv, AllInv
  <2>7. Has(inbox, "stop") => Has(inbox', "stop")
    BY <1>1 DEF IInv, Types
  <2>8. ~disturbed' /\ ~Has(inbox', "stop") => inbox' = <<Ack>>
    BY <1>1, <2>6, <2>7, Single
  <2> QED  BY <1>1, <2>1, <2>3, <2>4, <2>5, <2>6, <2>7, <2>8 DEF IInv, AllInv
<1>11. StepInv'  BY <1>1, <1>7 DEF IInv, StepInv
<1>12. PlantInv'  BY <1>1, <1>7 DEF IInv, PlantInv
<1>13. ContinueInv'  BY <1>1, <1>7 DEF IInv, ContinueInv
<1>14. RemoveInv'  BY <1>1, <1>7 DEF IInv, RemoveInv
<1> QED
  BY <1>1, <1>4, <1>5, <1>6, <1>8, <1>9, <1>10, <1>11, <1>12, <1>13, <1>14 DEF IInv, PromptInv

\* OpenOCD carries out a packet: which one it is follows from where the server waits.
LEMMA ServeStep ==
  ASSUME IInv, OpenocdServe
  PROVE  IInv'
<1> USE DEF client, Clear, Sent, Taken, Alone, Only, Has
<1>1. /\ UNCHANGED <<pc, cmd, list_of_breakpoints, i, disturbed, startHalted, toOpenocd>>
      /\ packet # <<>> /\ packet' = <<>> /\ pc \notin {"crash", "done"}
      /\ Serve
  BY DEF OpenocdServe, Connected
<1>2. pc \notin {"connect", "prompt"} /\ Types  BY <1>1 DEF IInv, PromptInv
<1>3. ASSUME NEW token \in Tokens, inbox' = Append(inbox, token)
      PROVE  /\ inbox' \in Seq(Tokens)
             /\ \A k \in DOMAIN inbox' : \/ k \in DOMAIN inbox /\ inbox'[k] = inbox[k]
                                         \/ inbox'[k] = token
  BY <1>2, <1>3, Appended DEF Types
<1>4. OK \in Tokens /\ E0E \in Tokens /\ OK.kind = "OK" /\ E0E.kind = "E0E"
  BY DEF OK, E0E, Token, Tokens
<1> USE DEF Answer
<1>5. CASE pc \in {"flush", "X_rsp", "X_ok"}
  <2>1. packet \in XPackets  BY <1>1, <1>5 DEF IInv, LoadInv
  <2>2. packet[1] = "X"  BY <2>1 DEF XPackets
  <2>3. UNCHANGED <<core, regs>> /\ \E token \in {OK, E0E} : inbox' = Append(inbox, token)
    BY <1>1, <2>2 DEF Serve
  <2>4. Types'  BY <1>1, <1>2, <1>3, <1>4, <2>3 DEF Types
  <2> QED  BY <1>1, <1>5, <2>4 DEF IInv, PromptInv, LoadInv, ReadInv, WriteInv, AllInv, StepInv,
              PlantInv, ContinueInv, RemoveInv
<1>6. CASE pc \in {"p_ack", "p_data"}
  <2>1. packet = <<"p", cmd.reg>> /\ toOpenocd = <<>> /\ cmd.reg \in Registers
    BY <1>1, <1>6 DEF IInv, ReadInv
  <2> DEFINE token == IF core = "halted" THEN Token("register", regs[cmd.reg]) ELSE E0E
  <2>2. UNCHANGED <<core, regs>> /\ inbox' = Append(inbox, token)
    BY <1>1, <2>1 DEF Serve
  <2>3. /\ token \in Tokens /\ token.kind \in {"register", "E0E"}
        /\ token.kind = "register" => core = "halted" /\ token.data = regs[cmd.reg]
    BY <1>2, <1>4, <2>1 DEF Token, Tokens, Types, Files
  <2> HIDE DEF token
  <2>4. Types'  BY <1>1, <1>2, <1>3, <2>2, <2>3 DEF Types
  <2>5. ReadInv'  BY <1>1, <1>3, <1>6, <2>1, <2>2, <2>3 DEF IInv, ReadInv
  <2> QED  BY <1>1, <1>6, <2>4, <2>5 DEF IInv, PromptInv, LoadInv, WriteInv, AllInv, StepInv,
              PlantInv, ContinueInv, RemoveInv
<1>7. CASE pc \in {"P_ack", "P_ok"}
  <2>1. /\ packet = <<"P", cmd.reg, new_register_value(regs[cmd.reg])>> /\ toOpenocd = <<>>
        /\ core = "halted" /\ cmd.reg \in Registers /\ cmd.half \in Halves /\ cmd.new \in {0, 1}
    BY <1>1, <1>7 DEF IInv, WriteInv
  <2>2. /\ UNCHANGED core /\ inbox' = Append(inbox, OK)
        /\ regs' = [regs EXCEPT ![cmd.reg] = new_register_value(regs[cmd.reg])]
    BY <1>1, <2>1 DEF Serve
  <2>3. regs' \in Files
    <3>1. regs[cmd.reg] \in Contents  BY <1>2, <2>1 DEF Types, Files
    <3>2. new_register_value(regs[cmd.reg]) \in Contents  BY <2>1, <3>1 DEF new_register_value, Contents
    <3> QED  BY <1>2, <2>1, <2>2, <3>2 DEF Types, Files
  <2>4. Types'  BY <1>1, <1>2, <1>3, <1>4, <2>2, <2>3 DEF Types
  <2>5. WriteInv'  BY <1>1, <1>7, <2>1, <2>2 DEF IInv, WriteInv
  <2> QED  BY <1>1, <1>7, <2>4, <2>5 DEF IInv, PromptInv, LoadInv, ReadInv, AllInv, StepInv,
              PlantInv, ContinueInv, RemoveInv
<1>8. CASE pc \in {"g_ack", "g_data", "g_ack_again", "g_again"}
  <2>1. packet = <<"g">> /\ toOpenocd = <<>> /\ cmd.op = "g"
    BY <1>1, <1>8 DEF IInv, AllInv
  <2>2. /\ UNCHANGED <<core, regs>>
        /\ \/ core = "halted" /\ inbox' = Append(inbox, Token("all", regs))
           \/ inbox' = Append(inbox, E0E)
    BY <1>1, <2>1 DEF Serve
  <2>3. PICK token \in Tokens :
          /\ inbox' = Append(inbox, token) /\ token.kind \in {"all", "E0E"}
          /\ token.kind = "all" => core = "halted" /\ token.data = regs
    <3>1. Token("all", regs) \in Tokens  BY <1>2 DEF Token, Tokens, Types
    <3>2. Token("all", regs).kind = "all" /\ Token("all", regs).data = regs  BY DEF Token
    <3> QED  BY <1>4, <2>2, <3>1, <3>2
  <2>4. Types'  BY <1>1, <1>2, <1>3, <2>2, <2>3 DEF Types
  <2>5. Has(inbox, "stop") => Has(inbox', "stop")
    BY <1>2, <2>3 DEF Types
  <2>6. ~disturbed /\ ~Has(inbox, "stop") /\ pc \in {"g_data", "g_again"} => Len(inbox') = 1
    <3>1. SUFFICES ASSUME ~disturbed, ~Has(inbox, "stop"), pc \in {"g_data", "g_again"}
                   PROVE  Len(inbox') = 1
      OBVIOUS
    <3>2. inbox = <<>>  BY <1>1, <3>1, <2>1 DEF IInv, AllInv
    <3> QED  BY <2>3, <3>2
  <2>7. AllInv'
    <3>1. Only({"+", "stop", "all", "E0E"})'
      BY <1>1, <1>3, <1>8, <2>1, <2>2, <2>3 DEF IInv, AllInv
    <3>2. \A k \in DOMAIN inbox' : inbox'[k].kind = "all" => core' = "halted" /\ inbox'[k].data = regs'
      BY <1>1, <1>3, <1>8, <2>1, <2>2, <2>3 DEF IInv, AllInv
    <3> QED  BY <1>1, <1>8, <2>1, <2>5, <2>6, <3>1, <3>2 DEF AllInv
  <2> QED  BY <1>1, <1>8, <2>4, <2>7 DEF IInv, PromptInv, LoadInv, ReadInv, WriteInv, StepInv,
              PlantInv, ContinueInv, RemoveInv
<1>9. CASE pc \in {"s_ack", "s_quiet", "cs_ack", "cs_quiet", "c_ack", "c_quiet"}
  <2>1. toOpenocd = <<>> /\ packet = (IF pc \in {"c_ack", "c_quiet"} THEN <<"c">> ELSE <<"step">>)
    BY <1>1, <1>9 DEF IInv, StepInv, ContinueInv
  <2>2. /\ UNCHANGED <<inbox, planted, regs>>
        /\ core' = IF core # "halted" THEN core
                   ELSE IF pc \in {"c_ack", "c_quiet"} THEN "running" ELSE "stepping"
    BY <1>1, <2>1 DEF Serve
  <2>3. Types'  BY <1>1, <1>2, <2>2 DEF Types
  <2> QED  BY <1>1, <1>9, <2>1, <2>2, <2>3 DEF IInv, PromptInv, LoadInv, ReadInv, WriteInv, AllInv,
              StepInv, PlantInv, ContinueInv, RemoveInv
<1>10. CASE pc \in {"Z_ack", "Z_quiet"}
  <2>1. toOpenocd = <<>> /\ packet = <<"Z0", list_of_breakpoints[i]>>
    BY <1>1, <1>10 DEF IInv, PlantInv
  <2>2. /\ UNCHANGED <<core, regs>> /\ \E token \in {OK, E0E} : inbox' = Append(inbox, token)
        /\ core = "halted" => planted' = planted \cup {list_of_breakpoints[i]}
        /\ planted \subseteq planted'
    BY <1>1, <2>1 DEF Serve
  <2>3. Types'  BY <1>1, <1>2, <1>3, <1>4, <2>2 DEF Types
  <2>4. PlantInv'  BY <1>1, <1>10, <2>1, <2>2 DEF IInv, PlantInv
  <2> QED  BY <1>1, <1>10, <2>3, <2>4 DEF IInv, PromptInv, LoadInv, ReadInv, WriteInv, AllInv,
              StepInv, ContinueInv, RemoveInv
<1>11. CASE pc \in {"z_ack", "z_quiet"}
  <2>1. toOpenocd = <<>> /\ packet = <<"z0", list_of_breakpoints[i]>>
    BY <1>1, <1>11 DEF IInv, RemoveInv
  <2>2. UNCHANGED <<core, regs>> /\ \E token \in {OK, E0E} : inbox' = Append(inbox, token)
    BY <1>1, <2>1 DEF Serve
  <2>3. Types'  BY <1>1, <1>2, <1>3, <1>4, <2>2 DEF Types
  <2> QED  BY <1>1, <1>11, <2>1, <2>3 DEF IInv, PromptInv, LoadInv, ReadInv, WriteInv, AllInv,
              StepInv, PlantInv, ContinueInv, RemoveInv
<1> QED
  BY <1>1, <1>2, <1>5, <1>6, <1>7, <1>8, <1>9, <1>10, <1>11 DEF Types, Pcs

\* The core stops: no register and no breakpoint is under way then.
LEMMA StopStep ==
  ASSUME IInv, CoreStop
  PROVE  IInv'
<1> USE DEF client, Clear, Sent, Taken, Alone, Only, Has
<1>1. /\ UNCHANGED <<pc, cmd, list_of_breakpoints, i, disturbed, startHalted, toOpenocd, packet, planted>>
      /\ core # "halted" /\ core' = "halted" /\ inbox' = Append(inbox, Stop)
      /\ \E value \in {0, 1} : regs' = [regs EXCEPT ![PC]["value"] = value]
  BY DEF CoreStop, Answer
<1>2. Stop \in Tokens /\ Stop.kind = "stop"  BY DEF Stop, Token, Tokens
<1>3. /\ inbox' \in Seq(Tokens)
      /\ \A k \in DOMAIN inbox' : \/ k \in DOMAIN inbox /\ inbox'[k] = inbox[k]
                                  \/ inbox'[k] = Stop
      /\ \E k \in DOMAIN inbox' : inbox'[k] = Stop
  BY <1>1, <1>2, Appended DEF IInv, Types
<1>4. regs' \in Files
  BY <1>1, LinkAssumption DEF IInv, Types, Files, Contents, Halves
<1>5. Types'  BY <1>1, <1>3, <1>4 DEF IInv, Types
<1>6. PromptInv'  BY <1>1, <1>2, <1>3 DEF IInv, PromptInv
<1>7. ReadInv'  BY <1>1, <1>2, <1>3 DEF IInv, ReadInv
<1>8. AllInv'  BY <1>1, <1>2, <1>3 DEF IInv, AllInv
<1>9. LoadInv' /\ WriteInv' /\ StepInv'
  BY <1>1 DEF IInv, LoadInv, WriteInv, StepInv
<1>10. PlantInv' /\ ContinueInv' /\ RemoveInv'
  BY <1>1 DEF IInv, PlantInv, ContinueInv, RemoveInv
<1> QED  BY <1>5, <1>6, <1>7, <1>8, <1>9, <1>10 DEF IInv

-----------------------------------------------------------------------------
(* The theorems                                                            *)

\* In every reachable state what is on its way to OpenOCD and back belongs to
\* the command the server is executing, or is a word of a file (main.py,
\* GDB_OpenOCD_Transmitter.py).
THEOREM Invariance == Spec => []IInv
<1>1. Init => IInv  BY Start
<1>2. IInv /\ [Next]_vars => IInv'
  <2>1. SUFFICES ASSUME IInv, [Next]_vars PROVE IInv'  OBVIOUS
  <2>2. CASE UNCHANGED vars
    BY <2>1, <2>2 DEF vars, client, target, IInv, Types, PromptInv, LoadInv, ReadInv, WriteInv, AllInv, StepInv,
       PlantInv, ContinueInv, RemoveInv, Clear, Sent, Taken, Alone, Only, Has, new_register_value
  <2> QED  BY <2>1, <2>2, UserStep, ServerStep, AckTokenStep, ServeStep, StopStep DEF Next
<1> QED  BY <1>1, <1>2, PTL DEF Spec

\* A halted core that is told to continue has every breakpoint of the list while
\* the server waits for it (main.py, "c").
THEOREM Breakpoints == Spec => []StopsAtBreakpoints
<1>1. IInv => StopsAtBreakpoints
  BY DEF IInv, Types, ContinueInv, StopsAtBreakpoints
<1> QED  BY <1>1, Invariance, PTL

\* The register that is set is written as it was meant and no other one is, and
\* what is shown is what the core has (main.py, "P", "p" and "g").
THEOREM RegistersWrittenAndShown == Spec => RegistersAsMeant
<1> USE DEF Clear, Sent, Taken, Alone, Only, Has
<1>1. IInv /\ [Next]_vars =>
        /\ regs' # regs /\ core' = core =>
             cmd.op = "P" /\ regs' = [regs EXCEPT ![cmd.reg][cmd.half] = cmd.new]
        /\ shown' # shown /\ (cmd.op = "g" => ~disturbed') =>
             \A r \in DOMAIN shown' : shown'[r] = regs[r] /\ (cmd.op = "p" => r = cmd.reg)
  <2>1. SUFFICES ASSUME IInv, Next
                 PROVE  /\ regs' # regs /\ core' = core =>
                             cmd.op = "P" /\ regs' = [regs EXCEPT ![cmd.reg][cmd.half] = cmd.new]
                        /\ shown' # shown /\ (cmd.op = "g" => ~disturbed') =>
                             \A r \in DOMAIN shown' : shown'[r] = regs[r] /\ (cmd.op = "p" => r = cmd.reg)
    BY DEF vars, client, target
  <2>2. ASSUME regs' # regs, core' = core
        PROVE  cmd.op = "P" /\ regs' = [regs EXCEPT ![cmd.reg][cmd.half] = cmd.new]
    <3>1. OpenocdServe
      <4>1. ~ User  BY <2>2 DEF User, Exit, SetAll, Enter, Begin, BeginInfoRegisters, BeginStepi, BeginContinue,
              BeginLoad, FileNotFound, BeginPrint, BeginSet, Breakpoint, RemoveBreakpoint, target
      <4>2. ~ Server
        BY <2>2 DEF Server, establish_connection, flush_out_packet, ReadOn, receive_ack, Uncaught, recv,
           timeout, PrintRegister, WriteBack, NoRegister, receive_OK, AskAgain, PrintAll, NotAll,
           LoadAcknowledged, LoadAnswered, StepiDone, Stepped, Planted, Continued, Removed, target
      <4>3. ~ OpenocdAck /\ ~ CoreStop  BY <2>2 DEF OpenocdAck, CoreStop
      <4> QED  BY <2>1, <4>1, <4>2, <4>3 DEF Next
    <3>2. packet # <<>> /\ packet[1] = "P" /\ regs' = [regs EXCEPT ![packet[2]] = packet[3]]
          /\ pc \notin {"crash", "done"}
      BY <2>2, <3>1 DEF OpenocdServe, Serve, Connected
    <3>3. pc \in {"P_ack", "P_ok"}
      <4>1. pc \notin {"flush", "X_rsp", "X_ok"}  BY <2>1, <3>2 DEF IInv, LoadInv, XPackets
      <4>2. pc \notin {"connect", "prompt", "p_ack", "p_data", "g_ack", "g_data", "g_ack_again", "g_again"}
        BY <2>1, <3>2 DEF IInv, PromptInv, ReadInv, AllInv
      <4>3. pc \notin {"s_ack", "s_quiet", "cs_ack", "cs_quiet", "Z_ack", "Z_quiet", "c_ack", "c_quiet",
                       "z_ack", "z_quiet"}
        BY <2>1, <3>2 DEF IInv, StepInv, PlantInv, ContinueInv, RemoveInv
      <4> QED  BY <2>1, <3>2, <4>1, <4>2, <4>3 DEF IInv, Types, Pcs
    <3>4. /\ cmd.op = "P" /\ cmd.reg \in Registers /\ cmd.half \in Halves
          /\ packet = <<"P", cmd.reg, new_register_value(regs[cmd.reg])>> /\ regs \in Files
      BY <2>1, <3>2, <3>3 DEF IInv, Types, WriteInv
    <3> QED  BY <3>2, <3>4 DEF new_register_value
  <2>3. ASSUME shown' # shown, cmd.op = "g" => ~disturbed'
        PROVE  \A r \in DOMAIN shown' : shown'[r] = regs[r] /\ (cmd.op = "p" => r = cmd.reg)
    <3>1. CASE \E keyword : Enter(keyword)
      BY <3>1 DEF Enter
    <3>2. CASE PrintRegister
      <4>1. PICK k \in RegisterIn(inbox) : shown' = [r \in {cmd.reg} |-> inbox[k].data]
        BY <3>2 DEF PrintRegister
      <4>2. inbox[k].data = regs[cmd.reg]
        BY <2>1, <3>2, <4>1 DEF PrintRegister, recv, RegisterIn, IInv, ReadInv
      <4> QED  BY <4>1, <4>2
    <3>3. ASSUME NEW at \in {"g_data", "g_again"}, PrintAll(at)
          PROVE  \A r \in DOMAIN shown' : shown'[r] = regs[r] /\ (cmd.op = "p" => r = cmd.reg)
      <4>1. cmd.op = "g" /\ pc \in {"g_data", "g_again"} /\ Has(inbox, "all") /\ inbox \in Seq(Tokens)
        BY <2>1, <3>3 DEF PrintAll, recv, IInv, AllInv, Types
      <4>2. ~disturbed /\ ~Has(inbox, "stop")
        BY <2>3, <3>3, <4>1 DEF PrintAll, Disturb
      <4>3. Len(inbox) = 1
        BY <2>1, <4>1, <4>2 DEF IInv, AllInv
      <4>4. Head(inbox) = inbox[1] /\ inbox[1].kind = "all" /\ inbox[1].data = regs
        BY <2>1, <4>1, <4>3 DEF IInv, AllInv
      <4>5. shown' = regs  BY <3>3, <4>4 DEF PrintAll
      <4> QED  BY <4>1, <4>5
    <3>4. Server => PrintRegister \/ \E at \in {"g_data", "g_again"} : PrintAll(at)
      BY <2>3 DEF Server, establish_connection, flush_out_packet, ReadOn, receive_ack, Uncaught,
         WriteBack, NoRegister, receive_OK, AskAgain, NotAll,
         LoadAcknowledged, LoadAnswered, StepiDone, Stepped, Planted, Continued, Removed
    <3>5. User => \E keyword : Enter(keyword)
      BY DEF User, Exit, SetAll, Begin, BeginInfoRegisters, BeginStepi, BeginContinue,
         BeginLoad, FileNotFound, BeginPrint, BeginSet, Breakpoint, RemoveBreakpoint
    <3>6. ~ OpenocdAck /\ ~ OpenocdServe /\ ~ CoreStop
      BY <2>3 DEF OpenocdAck, OpenocdServe, CoreStop, client
    <3> QED  BY <2>1, <3>1, <3>2, <3>3, <3>4, <3>5, <3>6 DEF Next
  <2> QED  BY <2>2, <2>3
<1> QED  BY <1>1, Invariance, PTL DEF Spec, RegistersAsMeant

(***************************************************************************)
(* Numbers as packets carry them                                           *)
(***************************************************************************)

\* A register: the capability and its value.
Width == CAPABILITY_SIZE + REGISTER_SIZE

\* The sizes of a register and of its fields are numbers.
LEMMA Sizes ==
  /\ NUMBER_BITS_FOR_TOP_BASE \in Nat /\ EXPONENT_BIT_SIZE \in Nat \ {0}
  /\ REGISTER_SIZE \in Nat /\ PAIR_BITS \in Nat \ {0}
  /\ CAPABILITY_SIZE \in Nat /\ Width \in Nat
  /\ OTYPE_LOWER_BIT = 2 * NUMBER_BITS_FOR_TOP_BASE + EXPONENT_BIT_SIZE
  /\ CAPABILITY_SIZE = OTYPE_LOWER_BIT + 10
  BY SizesAssumption DEF Width, CAPABILITY_SIZE, RESERVED_LOWER_BIT, PERMISSION_LOWER_BIT,
       OTYPE_LOWER_BIT, EXPO_LOWER_BIT

\* The powers of two a register needs.
LEMMA Power ==
  ASSUME NEW a \in 0 .. Width
  PROVE  2^a \in Nat \ {0}
  BY PowersAssumption DEF Width

\* A power of two is the product of the powers of its parts.
LEMMA PowerOfSum ==
  ASSUME NEW a \in Nat, NEW b \in Nat, a + b \in 0 .. Width
  PROVE  2^(a + b) = 2^a * 2^b
  BY Sizes, PowersAssumption DEF Width

\* A register is a whole number of pairs of hexadecimal digits.
LEMMA WholePairs ==
  /\ Pairs \in Nat
  /\ PAIR_BITS * Pairs = Width
<1> DEFINE c == CAPABILITY_SIZE \div PAIR_BITS  r == REGISTER_SIZE \div PAIR_BITS
<1>1. c \in Nat /\ CAPABILITY_SIZE = PAIR_BITS * c
  BY Sizes, SizesAssumption, Division
<1>2. r \in Nat /\ REGISTER_SIZE = PAIR_BITS * r
  BY Sizes, SizesAssumption, Division
<1> HIDE DEF c, r
<1>3. Width = PAIR_BITS * (c + r) + 0
  BY <1>1, <1>2, Sizes DEF Width
<1>4. Width \div PAIR_BITS = c + r
  <2>1. c + r \in Nat /\ 0 \in 0 .. PAIR_BITS - 1  BY <1>1, <1>2, Sizes
  <2> QED  BY <1>3, <2>1, Sizes, Unique
<1>5. Pairs = c + r  BY <1>4 DEF Pairs, Width
<1> QED  BY <1>1, <1>2, <1>3, <1>5, Sizes

\* Digits to the left of the i-th pair
LEMMA Leading ==
  ASSUME NEW n \in Nat, NEW k \in 1 .. Pairs
  PROVE  LET high(j) == n \div 2^(PAIR_BITS * (Pairs - j))
         IN /\ high(k - 1) \in Nat
            /\ high(k) = high(k - 1) * Pair + (high(k) % Pair)
<1> DEFINE w == PAIR_BITS * (Pairs - k)  high(j) == n \div 2^(PAIR_BITS * (Pairs - j))
<1>1. PAIR_BITS * (Pairs - (k - 1)) = w + PAIR_BITS
  BY Sizes, WholePairs
<1>2. w \in Nat /\ w + PAIR_BITS \in 0 .. Width
  <2>1. PAIR_BITS * 0 <= PAIR_BITS * (Pairs - k)  BY Sizes, WholePairs, Monotonic
  <2>2. PAIR_BITS * (Pairs - (k - 1)) <= PAIR_BITS * Pairs  BY Sizes, WholePairs, Monotonic
  <2> QED  BY <1>1, <2>1, <2>2, Sizes, WholePairs
<1>3. 2^(w + PAIR_BITS) = 2^w * 2^PAIR_BITS
  BY <1>2, Sizes, PowerOfSum
<1>4. 2^w \in Nat \ {0} /\ Pair \in Nat \ {0}
  BY <1>2, Sizes, Power DEF Pair
<1>5. high(k - 1) = high(k) \div Pair
  <2> HIDE DEF w
  <2>1. n \div (Pair * 2^w) = (n \div 2^w) \div Pair  BY <1>4, DivideTwice
  <2>2. Pair * 2^w = 2^(w + PAIR_BITS)  BY <1>3, <1>4 DEF Pair
  <2> QED  BY <2>1, <2>2, <1>1 DEF w
<1>6. high(k) \in Nat  BY <1>4, Division
<1> HIDE DEF high
<1>7. /\ high(k) \div Pair \in Nat
      /\ high(k) = Pair * (high(k) \div Pair) + (high(k) % Pair)
  BY <1>4, <1>6, Division
<1>8. Pair * high(k - 1) = high(k - 1) * Pair  BY <1>4, <1>5, <1>7
<1> QED  BY <1>5, <1>7, <1>8 DEF high

\* A function that obeys the recursion of Number is the one Number means.
LEMMA NumberOf ==
  ASSUME NEW pairs \in Seq(Nat), NEW G,
         G = [k \in 0 .. Len(pairs) |-> IF k = 0 THEN 0 ELSE G[k - 1] * Pair + pairs[k]]
  PROVE  Number(pairs) = G[Len(pairs)]
<1> DEFINE L == Len(pairs)
           Obeys(h) == h = [k \in 0 .. L |-> IF k = 0 THEN 0 ELSE h[k - 1] * Pair + pairs[k]]
           F == CHOOSE h : Obeys(h)
<1>1. Number(pairs) = F[L]  BY DEF Number
<1>2. L \in Nat  OBVIOUS
<1>3. Obeys(G)  OBVIOUS
<1>4. Obeys(F)  BY <1>3
<1> HIDE DEF F
<1> DEFINE wrong == {k \in 0 .. L : F[k] # G[k]}
<1>5. wrong = {}
  <2> SUFFICES ASSUME wrong # {} PROVE FALSE  OBVIOUS
  <2>1. wrong \in SUBSET Nat  BY <1>2
  <2>2. PICK k \in wrong : \A j \in wrong : k <= j
    <3> HIDE DEF wrong
    <3> QED  BY <2>1, LeastExists
  <2>3. k \in 0 .. L /\ F[k] # G[k]  OBVIOUS
  <2>4. F[k] = IF k = 0 THEN 0 ELSE F[k - 1] * Pair + pairs[k]  BY <1>4, <2>3
  <2>5. G[k] = IF k = 0 THEN 0 ELSE G[k - 1] * Pair + pairs[k]  BY <1>3, <2>3
  <2>6. k # 0  BY <2>3, <2>4, <2>5
  <2>7. k - 1 \in 0 .. L /\ k - 1 < k  BY <1>2, <2>3, <2>6
  <2>8. k - 1 \notin wrong
    <3>1. \A j \in wrong : k <= j  BY <2>2
    <3> HIDE DEF wrong
    <3> QED  BY <2>3, <2>7, <3>1
  <2>9. F[k - 1] = G[k - 1]  BY <2>7, <2>8
  <2> QED  BY <2>3, <2>4, <2>5, <2>9
<1> QED  BY <1>1, <1>2, <1>5

\* What hex and zfill make of a number that fits is read back as that number.
LEMMA Hexadecimal ==
  ASSUME NEW n \in 0 .. 2^Width - 1
  PROVE  /\ HexPairs(n) \in Seq(Nat) /\ Len(HexPairs(n)) = Pairs
         /\ Number(HexPairs(n)) = n
<1> DEFINE high(j) == n \div 2^(PAIR_BITS * (Pairs - j))
           G == [k \in 0 .. Pairs |-> high(k)]
           s == HexPairs(n)
<1>1. 2^Width \in Nat \ {0} /\ n \in Nat  BY Sizes, Power
<1>2. Pair \in Nat \ {0}
  <2>1. PAIR_BITS <= Width \/ Pairs = 0  
    <3>1. Pairs >= 1 => PAIR_BITS * 1 <= PAIR_BITS * Pairs  BY Sizes, WholePairs, Monotonic
    <3> QED  BY <3>1, Sizes, WholePairs
  <2>2. Pairs # 0  BY Sizes, WholePairs DEF Width
  <2> QED  BY <2>1, <2>2, Sizes, Power DEF Pair
<1>3. s = [k \in 1 .. Pairs |-> high(k) % Pair]
  BY <1>1, WholePairs DEF HexPairs
<1>4. \A k \in 0 .. Pairs : high(k) \in Nat
  <2> TAKE k \in 0 .. Pairs
  <2>1. PAIR_BITS * (Pairs - k) \in 0 .. Width
    <3>1. PAIR_BITS * 0 <= PAIR_BITS * (Pairs - k)  BY Sizes, WholePairs, Monotonic
    <3>2. PAIR_BITS * (Pairs - k) <= PAIR_BITS * Pairs  BY Sizes, WholePairs, Monotonic
    <3> QED  BY <3>1, <3>2, Sizes, WholePairs
  <2> QED  BY <1>1, <2>1, Power, Division
<1>5. \A k \in 1 .. Pairs : high(k) % Pair \in Nat
  BY <1>2, <1>4, Division, WholePairs
<1>6. s \in Seq(Nat) /\ Len(s) = Pairs
  BY <1>3, <1>5, WholePairs
<1>7. high(0) = 0
  <2>1. high(0) = n \div 2^Width  BY WholePairs
  <2>2. n = 2^Width * 0 + n  BY <1>1
  <2> QED  BY <1>1, <2>1, <2>2, Unique
<1>8. high(Pairs) = n
  <2>1. PAIR_BITS * (Pairs - Pairs) = 0  BY Sizes, WholePairs
  <2>2. high(Pairs) = n \div 2^0  BY <2>1
  <2>3. n \div 1 = n  BY <1>1
  <2> QED  BY <2>2, <2>3, PowersAssumption
<1>9. \A k \in 1 .. Pairs : high(k) = high(k - 1) * Pair + (high(k) % Pair)
  BY <1>1, Leading
<1> HIDE DEF high, s
<1>10. G = [k \in 0 .. Len(s) |-> IF k = 0 THEN 0 ELSE G[k - 1] * Pair + s[k]]
  BY <1>3, <1>6, <1>7, <1>9, WholePairs
<1> HIDE DEF G
<1>11. Number(s) = G[Len(s)]  BY <1>6, <1>10, NumberOf
<1> QED  BY <1>6, <1>8, <1>11, WholePairs DEF G, s

\* Turned round twice, a sequence is what it was.
LEMMA ReversedTwice ==
  ASSUME NEW s \in Seq(Nat)
  PROVE  Reverse(Reverse(s)) = s /\ Len(Reverse(s)) = Len(s)
  BY DEF Reverse

\* What is sent of a register is what is found in the packet.
LEMMA PacketRead ==
  ASSUME NEW cap \in 0 .. 2^CAPABILITY_SIZE - 1, NEW value \in 0 .. 2^REGISTER_SIZE - 1
  PROVE  LET n == concat_register_value_and_capability(cap, value)
             data == change_endian(HexPairs(n))
         IN /\ Len(data) = Pairs
            /\ Number(Reverse(data)) = n
            /\ n \div 2^REGISTER_SIZE = cap
            /\ n % 2^REGISTER_SIZE = value
<1> DEFINE n == concat_register_value_and_capability(cap, value)
           C == 2^CAPABILITY_SIZE  R == 2^REGISTER_SIZE
<1>1. C \in Nat \ {0} /\ R \in Nat \ {0}
  BY Sizes, Power DEF Width
<1>2. 2^Width = C * R  BY Sizes, PowerOfSum DEF Width
<1>3. n = R * cap + value
  <2> HIDE DEF R
  <2> QED  BY <1>1 DEF concat_register_value_and_capability, R
<1> HIDE DEF n, C, R
<1>4. n \in 0 .. C * R - 1
  <2>1. R * cap <= R * (C - 1)  BY <1>1, Monotonic DEF C
  <2>2. R * (C - 1) = C * R - R  BY <1>1
  <2>3. R * cap \in Nat /\ value \in 0 .. R - 1 /\ C * R \in Nat  BY <1>1 DEF C, R
  <2> QED  BY <1>1, <1>3, <2>1, <2>2, <2>3
<1>5. n \in 0 .. 2^Width - 1  BY <1>2, <1>4
<1>6. cap \in Nat /\ value \in 0 .. R - 1  BY <1>1 DEF C, R
<1>7. n \div R = cap /\ n % R = value  BY <1>1, <1>3, <1>6, Unique, Remainder
<1>8. /\ HexPairs(n) \in Seq(Nat) /\ Len(HexPairs(n)) = Pairs
      /\ Number(HexPairs(n)) = n
  BY <1>5, Hexadecimal
<1> QED  BY <1>7, <1>8, ReversedTwice DEF n, R, change_endian

(***************************************************************************)
(* Fields of a capability                                                  *)
(***************************************************************************)

\* The powers of two that a format of permissions needs.
LEMMA SmallPowers ==
  2^0 = 1 /\ 2^1 = 2 /\ 2^2 = 4 /\ 2^3 = 8 /\ 2^4 = 16 /\ 2^5 = 32 /\ 2^6 = 64
<1>1. 1 \in Nat /\ Width >= 10  BY Sizes DEF Width
<1>2. 2^0 = 1 /\ 2^1 = 2  BY PowersAssumption
<1>3. \A a \in 0 .. 5 : 2^(a + 1) = 2^a * 2^1
  <2> TAKE a \in 0 .. 5
  <2>1. a \in Nat /\ a + 1 \in 0 .. Width  BY <1>1, Sizes
  <2> QED  BY <1>1, <2>1, PowerOfSum
<1>4. 2^2 = 2^1 * 2^1 /\ 2^3 = 2^2 * 2^1 /\ 2^4 = 2^3 * 2^1 /\ 2^5 = 2^4 * 2^1 /\ 2^6 = 2^5 * 2^1
  BY <1>3
<1> QED  BY <1>2, <1>4

\* Dividing by a power is a shift.
LEMMA Shift ==
  ASSUME NEW x \in Nat, NEW a \in Nat, NEW b \in Nat, a + b \in 0 .. Width
  PROVE  x \div 2^(a + b) = (x \div 2^a) \div 2^b
<1>1. 2^a \in Nat \ {0} /\ 2^b \in Nat \ {0}  BY Sizes, Power
<1>2. 2^(a + b) = 2^b * 2^a  BY <1>1, PowerOfSum
<1>3. x \div (2^b * 2^a) = (x \div 2^a) \div 2^b  BY <1>1, DivideTwice
<1> QED  BY <1>2, <1>3

\* What is above a place does not tell what is below it, ...
LEMMA FieldBelow ==
  ASSUME NEW x \in Nat, NEW low \in Nat, NEW width \in Nat, NEW place \in Nat,
         low + width <= place, place <= Width
  PROVE  Slice(x, low, width) = Slice(x % 2^place, low, width)
<1> DEFINE A == 2^low  B == 2^width  C == 2^(place - (low + width))
           q == x \div 2^place  r == x % 2^place
<1>1. A \in Nat \ {0} /\ B \in Nat \ {0} /\ C \in Nat \ {0}
  BY Sizes, Power
<1>2. 2^place = A * (B * C)
  <2>1. 2^(low + (width + (place - (low + width)))) = A * 2^(width + (place - (low + width)))
    BY Sizes, PowerOfSum
  <2>2. 2^(width + (place - (low + width))) = B * C
    BY Sizes, PowerOfSum
  <2>3. low + (width + (place - (low + width))) = place  OBVIOUS
  <2> QED  BY <2>1, <2>2, <2>3
<1>3. 2^place \in Nat \ {0}  BY Sizes, Power
<1>4. q \in Nat /\ r \in Nat /\ x = 2^place * q + r
  <2> HIDE DEF A, B, C
  <2>1. q \in Nat /\ r \in 0 .. 2^place - 1 /\ x = 2^place * q + r  BY <1>3, Division
  <2> QED  BY <1>3, <2>1
<1> HIDE DEF A, B, C, q, r
<1> DEFINE s == r \div A  t == r % A
<1>5. s \in Nat /\ t \in 0 .. A - 1 /\ r = A * s + t  BY <1>1, <1>4, Division
<1> HIDE DEF s, t
<1>6. x = A * (B * (C * q) + s) + t
  <2> DEFINE D == B * C  E == C * q
  <2>1. D \in Nat /\ E \in Nat  BY <1>1, <1>4
  <2>2. (A * D) * q = A * (B * E)
    <3>1. D * q = B * E  BY <1>1, <1>4
    <3> HIDE DEF D, E
    <3>2. (A * D) * q = A * (D * q)  BY <1>1, <1>4, <2>1
    <3> QED  BY <3>1, <3>2
  <2> HIDE DEF E
  <2> DEFINE F == B * E
  <2>3. F \in Nat  BY <1>1, <2>1
  <2>4. A * (F + s) = A * F + A * s  
    <3> HIDE DEF F
    <3> QED  BY <1>1, <1>5, <2>3
  <2>5. A * F \in Nat /\ A * s \in Nat
    <3> HIDE DEF F
    <3> QED  BY <1>1, <1>5, <2>3
  <2>6. x = A * F + r  BY <1>2, <1>4, <2>2
  <2> QED  BY <1>5, <2>4, <2>5, <2>6 DEF E
<1>7. x \div A = B * (C * q) + s
  <2>1. B * (C * q) + s \in Nat  BY <1>1, <1>4, <1>5
  <2> HIDE DEF A
  <2> QED  BY <1>1, <1>5, <1>6, <2>1, Unique
<1>8. (x \div A) % B = s % B
  <2> DEFINE E == C * q
  <2>1. E \in Nat  BY <1>1, <1>4
  <2> DEFINE u == s \div B  v == s % B
  <2>2. u \in Nat /\ v \in 0 .. B - 1 /\ s = B * u + v  BY <1>1, <1>5, Division
  <2> HIDE DEF E, u, v
  <2>3. x \div A = B * (E + u) + v
    <3>1. B * (E + u) = B * E + B * u  BY <1>1, <2>1, <2>2
    <3>2. B * E \in Nat /\ B * u \in Nat  BY <1>1, <2>1, <2>2
    <3> QED  BY <1>7, <2>2, <3>1, <3>2 DEF E
  <2>4. (B * (E + u) + v) % B = v  BY <1>1, <2>1, <2>2, Remainder
  <2> QED  BY <2>3, <2>4 DEF v
<1> QED  BY <1>8 DEF Slice, A, B, s, r

\* ... nor what is below it what is above.
LEMMA FieldAbove ==
  ASSUME NEW x \in Nat, NEW y \in Nat, NEW low \in Nat, NEW width \in Nat, NEW place \in Nat,
         place <= low, low <= Width,
         x \div 2^place = y \div 2^place
  PROVE  Slice(x, low, width) = Slice(y, low, width)
<1>1. low - place \in Nat /\ place + (low - place) = low  OBVIOUS
<1>2. x \div 2^low = (x \div 2^place) \div 2^(low - place)  BY <1>1, Sizes, Shift
<1>3. y \div 2^low = (y \div 2^place) \div 2^(low - place)  BY <1>1, Sizes, Shift
<1> QED  BY <1>2, <1>3 DEF Slice

\* A field replaced by a string as wide as itself: the capability stays a
\* capability, and what is above and below stays where it is.
LEMMA FieldAssigned ==
  ASSUME NEW c \in 0 .. 2^CAPABILITY_SIZE - 1, NEW low \in Nat, NEW width \in Nat,
         low + width <= CAPABILITY_SIZE, NEW new \in 0 .. 2^width - 1
  PROVE  LET d == Assign(c, low, width, new, width)
         IN /\ d \in 0 .. 2^CAPABILITY_SIZE - 1
            /\ d \div 2^(low + width) = c \div 2^(low + width)
            /\ Slice(d, low, width) = new
            /\ d % 2^low = c % 2^low
<1> DEFINE L == 2^low  W == 2^width  H == 2^(CAPABILITY_SIZE - (low + width))
           q == c \div 2^(low + width)  r == c % 2^low
           d == Assign(c, low, width, new, width)
<1>1. L \in Nat \ {0} /\ W \in Nat \ {0} /\ H \in Nat \ {0}
  BY Sizes, Power DEF Width
<1>2. 2^(low + width) = W * L
  BY <1>1, Sizes, PowerOfSum DEF Width
<1>3. 2^CAPABILITY_SIZE = (W * L) * H
  <2>1. (low + width) + (CAPABILITY_SIZE - (low + width)) = CAPABILITY_SIZE  BY Sizes
  <2>2. low + width \in Nat /\ CAPABILITY_SIZE - (low + width) \in Nat  BY Sizes
  <2>3. CAPABILITY_SIZE \in 0 .. Width  BY Sizes DEF Width
  <2> QED  BY <1>2, <2>1, <2>2, <2>3, PowerOfSum
<1>4. c \in Nat /\ c < (W * L) * H  BY <1>1, <1>3
<1>5. new \in 0 .. W - 1  OBVIOUS
<1>6. r \in 0 .. L - 1  BY <1>1, <1>4, Division
<1>7. W * L \in Nat \ {0}
  <2> HIDE DEF L, W
  <2> QED  BY <1>1
<1>8. q \in Nat /\ (W * L) * q <= c  
  <2>1. /\ c \div (W * L) \in Nat /\ c % (W * L) \in 0 .. W * L - 1
        /\ c = (W * L) * (c \div (W * L)) + (c % (W * L))
    BY <1>4, <1>7, Division
  <2>2. (W * L) * q \in Nat  BY <1>2, <1>7, <2>1
  <2> HIDE DEF L, W
  <2> QED  BY <1>2, <2>1, <2>2
<1>9. d = (q * W + new) * L + r  BY DEF Assign
<1> HIDE DEF L, W, H, q, r, d
<1>10. q * W + new \in Nat  BY <1>1, <1>5, <1>8
<1>11. d = L * (q * W + new) + r  BY <1>1, <1>9, <1>10
<1>12. d \in Nat  BY <1>1, <1>6, <1>10, <1>11
<1>13. d \div L = q * W + new /\ d % L = r
  BY <1>1, <1>6, <1>10, <1>11, Unique, Remainder
<1>14. q * W + new = W * q + new  BY <1>1, <1>8
<1>15. (W * q + new) % W = new /\ (W * q + new) \div W = q
  BY <1>1, <1>5, <1>8, Unique, Remainder
<1>16. d \div (W * L) = q
  <2>1. d \div (W * L) = (d \div L) \div W  BY <1>1, <1>12, DivideTwice
  <2> QED  BY <2>1, <1>13, <1>14, <1>15
<1>17. q <= H - 1
  <2>1. q >= H => (W * L) * H <= (W * L) * q  BY <1>1, <1>7, <1>8, Monotonic
  <2>2. (W * L) * H \in Nat /\ (W * L) * q \in Nat  BY <1>1, <1>7, <1>8
  <2> QED  BY <1>1, <1>4, <1>8, <2>1, <2>2
<1>18. d < (W * L) * H
  <2> DEFINE P == W * L
  <2>1. P \in Nat \ {0} /\ d \div P = q  BY <1>7, <1>16
  <2> HIDE DEF P
  <2>2. d % P \in 0 .. P - 1 /\ d = P * q + (d % P)  BY <1>12, <2>1, Division
  <2>3. P * q <= P * (H - 1)  BY <1>1, <1>8, <1>17, <2>1, Monotonic
  <2>4. P * (H - 1) = P * H - P  BY <1>1, <2>1
  <2>5. P * q \in Nat /\ P * H \in Nat  BY <1>1, <1>8, <2>1
  <2>6. d < P * H  BY <2>1, <2>2, <2>3, <2>4, <2>5
  <2> QED  BY <2>6 DEF P
<1>19. d \in 0 .. 2^CAPABILITY_SIZE - 1  BY <1>1, <1>3, <1>12, <1>18
<1>20. d \div 2^(low + width) = q  BY <1>2, <1>16
<1>21. (d \div L) % W = new  BY <1>13, <1>14, <1>15
<1> QED  BY <1>13, <1>19, <1>20, <1>21 DEF d, q, r, L, W, Slice

(***************************************************************************)
(* The register commands                                                   *)
(***************************************************************************)

\* What the user types fits the fields it is meant for: the server does not look.
\* Bounds too long for every exponent but that of the whole address space do not.
InputFits ==
  /\ Otypes \subseteq 0 .. 7 /\ Values \subseteq 0 .. 2^REGISTER_SIZE - 1
  /\ Ranges \subseteq Nat \X Nat
  /\ \A r \in Ranges : r[1] <= r[2] =>
       \E e \in 0 .. FieldOfOnes - 1 : r[2] - r[1] < EXPONENT_MAX_LENGTH_DICT[e]

\* The registers as they come from the core.
FirstFits ==
  /\ FirstCap \in 0 .. 2^CAPABILITY_SIZE - 1
  /\ FirstValue \in 0 .. 2^REGISTER_SIZE - 1

Capabilities == 0 .. 2^CAPABILITY_SIZE - 1
RegisterType == [cap : Capabilities, value : 0 .. 2^REGISTER_SIZE - 1, tag : BOOLEAN]
AskedType == [bounds : SUBSET Ranges, permissions : SUBSET SUBSET PERMISSION_NAME_LIST,
              otype : SUBSET Otypes, value : SUBSET Values]

RegTypes ==
  /\ registers \in [Numbers -> RegisterType]
  /\ asked \in [Names -> AskedType]

\* What the commands of a register asked for is in its fields.
PermissionBits(c) == {b \in 0 .. 5 : Slice(c, PERMISSION_LOWER_BIT + b, 1) = 1}
HasBounds(c, b) ==
  LET e == find_correct_exponent(0, b[2] - b[1])
  IN /\ b[1] <= b[2]
     /\ Slice(c, EXPO_LOWER_BIT, EXPONENT_BIT_SIZE) = e
     /\ Slice(c, BASE_LOWER_BIT, NUMBER_BITS_FOR_TOP_BASE) = NineBits(b[1], e)
     /\ Slice(c, 0, NUMBER_BITS_FOR_TOP_BASE) = NineBits(b[2], e)
Meets(r, a) ==
  /\ \A b \in a.bounds : HasBounds(r.cap, b)
  /\ \A list \in a.permissions : PermissionBits(r.cap) = encode_permissions(list)
  /\ \A otype \in a.otype : Slice(r.cap, OTYPE_LOWER_BIT, 3) = otype
  /\ \A value \in a.value : r.value = value
  /\ r.tag <=> \E what \in DOMAIN a : a[what] # {}

\* The rows on the screen are those of the registers as they are.
Found(r) == [cap |-> r.cap, value |-> r.value, valid |-> r.tag]
UpToDate == \A name \in DOMAIN printed :
  name \in Names /\ printed[name] = Row(Found(registers[REG_NAME_TO_VALUE[name]]))

RegIInv ==
  /\ RegTypes
  /\ \A name \in Names : Meets(registers[REG_NAME_TO_VALUE[name]], asked[name])
  /\ UpToDate

\* The number of a name.
LEMMA NumberOfName ==
  ASSUME NEW name \in Names
  PROVE  REG_NAME_TO_VALUE[name] \in Numbers
  BY DEF Numbers

\* What the server finds in OpenOCD's answer is the register.
LEMMA Current ==
  ASSUME RegTypes, NEW name \in Names
  PROVE  get_current_register_value(name) = Found(registers[REG_NAME_TO_VALUE[name]])
<1> DEFINE k == REG_NAME_TO_VALUE[name]  r == registers[k]
           n == concat_register_value_and_capability(r.cap, r.value)
<1>1. r \in RegisterType  BY NumberOfName DEF RegTypes
<1>2. r.cap \in 0 .. 2^CAPABILITY_SIZE - 1 /\ r.value \in 0 .. 2^REGISTER_SIZE - 1
  BY <1>1 DEF RegisterType, Capabilities
<1>3. register_packet(k) = [data |-> change_endian(HexPairs(n)), tag |-> r.tag]
  BY DEF register_packet, change_endian, concat_register_value_and_capability
<1> HIDE DEF r
<1>4. /\ Number(Reverse(change_endian(HexPairs(n)))) = n
      /\ n \div 2^REGISTER_SIZE = r.cap /\ n % 2^REGISTER_SIZE = r.value
  BY <1>2, PacketRead
<1> HIDE DEF n
<1>5. extract_rsp_reg_and_cap(register_packet(k)) = Found(r)
  BY <1>3, <1>4 DEF extract_rsp_reg_and_cap, Found
<1> QED  BY <1>5 DEF get_current_register_value, r

\* What the server writes is what the register becomes.
LEMMA Written ==
  ASSUME RegTypes, NEW name \in Names, NEW cap \in Capabilities, NEW value \in 0 .. 2^REGISTER_SIZE - 1,
         execute_set_register_command(name, cap, value)
  PROVE  registers' = [registers EXCEPT ![REG_NAME_TO_VALUE[name]] =
                         [cap |-> cap, value |-> value, tag |-> TRUE]]
<1> DEFINE n == concat_register_value_and_capability(cap, value)
           data == change_endian(HexPairs(n))
<1>1. /\ Len(data) = Pairs /\ Number(Reverse(data)) = n
      /\ n \div 2^REGISTER_SIZE = cap /\ n % 2^REGISTER_SIZE = value
  BY PacketRead DEF Capabilities
<1>2. registers' = IF Len(data) # Pairs THEN registers
             ELSE [registers EXCEPT ![REG_NAME_TO_VALUE[name]] =
                     [cap |-> Number(Reverse(data)) \div 2^REGISTER_SIZE,
                      value |-> Number(Reverse(data)) % 2^REGISTER_SIZE, tag |-> TRUE]]
  BY DEF execute_set_register_command
<1> HIDE DEF data, n
<1> QED  BY <1>1, <1>2

\* A command that leaves its register with what it asked for, and with what was
\* asked before in the other fields, preserves the invariant.
LEMMA SetStep ==
  ASSUME RegIInv, NEW name \in Names, NEW what \in {"bounds", "permissions", "otype", "value"},
         NEW arg, Set(name, what, arg),
         NEW cap \in Capabilities, NEW value \in 0 .. 2^REGISTER_SIZE - 1,
         execute_set_register_command(name, cap, value),
         [asked[name] EXCEPT ![what] = {arg}] \in AskedType,
         Meets([cap |-> cap, value |-> value, tag |-> TRUE], [asked[name] EXCEPT ![what] = {arg}])
  PROVE  RegIInv'
<1> DEFINE k == REG_NAME_TO_VALUE[name]
           r == [cap |-> cap, value |-> value, tag |-> TRUE]
           a == [asked[name] EXCEPT ![what] = {arg}]
<1>1. RegTypes  BY DEF RegIInv
<1>2. registers' = [registers EXCEPT ![k] = r]  BY <1>1, Written
<1>3. asked' = [asked EXCEPT ![name] = a]  BY DEF Set
<1>4. r \in RegisterType  BY DEF RegisterType
<1>5. a \in AskedType /\ Meets(r, a)  OBVIOUS
<1>6. k \in Numbers  BY NumberOfName
<1> HIDE DEF r, a, k
<1>7. RegTypes'
  BY <1>1, <1>2, <1>3, <1>4, <1>5 DEF RegTypes
<1>8. ASSUME NEW m \in Names
      PROVE  Meets(registers'[REG_NAME_TO_VALUE[m]], asked'[m])
  <2>1. CASE m = name
    <3>1. registers'[REG_NAME_TO_VALUE[m]] = r  BY <1>1, <1>2, <1>6, <2>1 DEF RegTypes, k
    <3>2. asked'[m] = a  BY <1>1, <1>3, <2>1 DEF RegTypes
    <3> QED  BY <1>5, <3>1, <3>2
  <2>2. CASE m # name
    <3>1. REG_NAME_TO_VALUE[m] # k  BY <2>2, NumbersAssumption DEF k
    <3>2. registers'[REG_NAME_TO_VALUE[m]] = registers[REG_NAME_TO_VALUE[m]]
      BY <1>1, <1>2, <3>1, NumberOfName DEF RegTypes
    <3>3. asked'[m] = asked[m]  BY <1>1, <1>3, <2>2 DEF RegTypes
    <3> QED  BY <3>2, <3>3 DEF RegIInv
  <2> QED  BY <2>1, <2>2
<1>9. UpToDate'  BY DEF Set, UpToDate
<1>10. (\A m \in Names : Meets(registers[REG_NAME_TO_VALUE[m]], asked[m]))'
  BY <1>8
<1> QED  BY <1>7, <1>9, <1>10 DEF RegIInv

\* The commands that print, and those that end the server.
LEMMA PrintStep ==
  ASSUME RegIInv,
         \/ set_all \/ print_all_registers
         \/ \E r \in Ranges : diff_of_full_base_top(r[1], r[2])
         \/ \E name \in Names : print_register(name)
  PROVE  RegIInv'
<1>1. registers' = registers /\ asked' = asked
  BY DEF set_all, print_all_registers, diff_of_full_base_top, print_register
<1>2. RegTypes  BY DEF RegIInv
<1>3. RegTypes'  BY <1>1, <1>2 DEF RegTypes
<1>4. (\A m \in Names : Meets(registers[REG_NAME_TO_VALUE[m]], asked[m]))'
  BY <1>1 DEF RegIInv
<1>5. UpToDate'
  <2>1. CASE set_all \/ \E r \in Ranges : diff_of_full_base_top(r[1], r[2])
    BY <1>1, <2>1 DEF set_all, diff_of_full_base_top, UpToDate, RegIInv
  <2>2. ASSUME NEW name \in Names, print_register(name)
        PROVE  UpToDate'
    <3>1. printed' = [m \in {name} |-> Row(get_current_register_value(name))]
      BY <2>2 DEF print_register
    <3>2. printed' = [m \in {name} |-> Row(Found(registers[REG_NAME_TO_VALUE[name]]))]
      BY <1>2, <3>1, Current
    <3> HIDE DEF Row
    <3> QED  BY <1>1, <3>2 DEF UpToDate
  <2>3. CASE print_all_registers
    <3>1. printed' = [m \in Names |-> Row(extract_rsp_reg_and_cap(all_register_data[REG_NAME_TO_VALUE[m]]))]
      BY <2>3 DEF print_all_registers
    <3>2. ASSUME NEW m \in Names
          PROVE  extract_rsp_reg_and_cap(all_register_data[REG_NAME_TO_VALUE[m]]) =
                   Found(registers[REG_NAME_TO_VALUE[m]])
      <4>1. all_register_data[REG_NAME_TO_VALUE[m]] = register_packet(REG_NAME_TO_VALUE[m])
        BY <1>2, NumberOfName DEF all_register_data, RegTypes
      <4> QED  BY <1>2, <4>1, Current DEF get_current_register_value
    <3> QED  BY <1>1, <3>1, <3>2 DEF UpToDate
  <2> QED  BY <2>1, <2>2, <2>3
<1> QED  BY <1>3, <1>4, <1>5 DEF RegIInv

\* Where the fields are.
LEMMA Places ==
  /\ NUMBER_BITS_FOR_TOP_BASE \in Nat /\ EXPONENT_BIT_SIZE \in Nat
  /\ BASE_LOWER_BIT = NUMBER_BITS_FOR_TOP_BASE
  /\ EXPO_LOWER_BIT = 2 * NUMBER_BITS_FOR_TOP_BASE
  /\ OTYPE_LOWER_BIT = EXPO_LOWER_BIT + EXPONENT_BIT_SIZE
  /\ PERMISSION_LOWER_BIT = OTYPE_LOWER_BIT + 3
  /\ CAPABILITY_SIZE = PERMISSION_LOWER_BIT + 7
  /\ CAPABILITY_SIZE <= Width /\ Width \in Nat
  BY Sizes DEF BASE_LOWER_BIT, EXPO_LOWER_BIT, OTYPE_LOWER_BIT, PERMISSION_LOWER_BIT,
       RESERVED_LOWER_BIT, CAPABILITY_SIZE, Width

\* What is below a place with the same bits below it is the same.
LEMMA SameBelow ==
  ASSUME NEW x \in Nat, NEW y \in Nat, NEW low \in Nat, NEW width \in Nat, NEW place \in Nat,
         low + width <= place, place <= Width, x % 2^place = y % 2^place
  PROVE  Slice(x, low, width) = Slice(y, low, width)
  BY FieldBelow

\* Registers with the same digits below the otype show the same bounds, ...
LEMMA SameBounds ==
  ASSUME NEW x \in Nat, NEW y \in Nat, NEW place \in {OTYPE_LOWER_BIT, PERMISSION_LOWER_BIT},
         x % 2^place = y % 2^place, NEW b
  PROVE  HasBounds(x, b) <=> HasBounds(y, b)
<1>1. place \in Nat /\ place <= Width /\ place >= OTYPE_LOWER_BIT  BY Places
<1>2. Slice(x, EXPO_LOWER_BIT, EXPONENT_BIT_SIZE) = Slice(y, EXPO_LOWER_BIT, EXPONENT_BIT_SIZE)
  <2>1. EXPO_LOWER_BIT \in Nat /\ EXPONENT_BIT_SIZE \in Nat /\ EXPO_LOWER_BIT + EXPONENT_BIT_SIZE <= place
    BY <1>1, Places
  <2> QED  BY <1>1, <2>1, SameBelow
<1>3. Slice(x, BASE_LOWER_BIT, NUMBER_BITS_FOR_TOP_BASE) = Slice(y, BASE_LOWER_BIT, NUMBER_BITS_FOR_TOP_BASE)
  <2>1. /\ BASE_LOWER_BIT \in Nat /\ NUMBER_BITS_FOR_TOP_BASE \in Nat
        /\ BASE_LOWER_BIT + NUMBER_BITS_FOR_TOP_BASE <= place
    BY <1>1, Places
  <2> QED  BY <1>1, <2>1, SameBelow
<1>4. Slice(x, 0, NUMBER_BITS_FOR_TOP_BASE) = Slice(y, 0, NUMBER_BITS_FOR_TOP_BASE)
  <2>1. 0 \in Nat /\ NUMBER_BITS_FOR_TOP_BASE \in Nat /\ 0 + NUMBER_BITS_FOR_TOP_BASE <= place
    BY <1>1, Places
  <2> QED  BY <1>1, <2>1, SameBelow
<1> QED  BY <1>2, <1>3, <1>4 DEF HasBounds

\* ... and those with the same digits from the otype on the same permissions.
LEMMA SamePermissions ==
  ASSUME NEW x \in Nat, NEW y \in Nat, NEW place \in {OTYPE_LOWER_BIT, PERMISSION_LOWER_BIT},
         x \div 2^place = y \div 2^place
  PROVE  PermissionBits(x) = PermissionBits(y)
<1> SUFFICES ASSUME NEW b \in 0 .. 5
             PROVE  Slice(x, PERMISSION_LOWER_BIT + b, 1) = Slice(y, PERMISSION_LOWER_BIT + b, 1)
  BY DEF PermissionBits
<1>1. PERMISSION_LOWER_BIT + b \in Nat /\ 1 \in Nat /\ place \in Nat
      /\ place <= PERMISSION_LOWER_BIT + b /\ PERMISSION_LOWER_BIT + b <= Width
  BY Places
<1> QED  BY <1>1, FieldAbove

\* The string of six bits is read bit by bit.
LEMMA PermissionsRead ==
  ASSUME NEW x \in Nat, NEW bits \in SUBSET (0 .. 5),
         Slice(x, PERMISSION_LOWER_BIT, 6) = PermissionField(bits)
  PROVE  PermissionBits(x) = bits
<1> DEFINE y == x \div 2^PERMISSION_LOWER_BIT
<1>1. PERMISSION_LOWER_BIT \in 0 .. Width  BY Places
<1>2. y \in Nat  BY <1>1, Power, Division
<1>3. \A b \in 0 .. 5 : Slice(x, PERMISSION_LOWER_BIT + b, 1) = (y \div 2^b) % 2
  <2> TAKE b \in 0 .. 5
  <2>1. PERMISSION_LOWER_BIT \in Nat /\ b \in Nat /\ PERMISSION_LOWER_BIT + b \in 0 .. Width
    BY Places
  <2>2. x \div 2^(PERMISSION_LOWER_BIT + b) = y \div 2^b  BY <2>1, Shift
  <2> QED  BY <2>2, SmallPowers DEF Slice
<1>4. y % 64 = PermissionField(bits)  BY SmallPowers DEF Slice
<1> HIDE DEF y
<1> DEFINE q == y \div 64
<1>5. q \in Nat /\ y = 64 * q + PermissionField(bits)
  <2> DEFINE m == 64
  <2>0. m \in Nat \ {0}  OBVIOUS
  <2>1. y \div m \in Nat /\ y = m * (y \div m) + (y % m)
    <3> HIDE DEF m
    <3> QED  BY <1>2, <2>0, Division
  <2> QED  BY <1>4, <2>1
<1> HIDE DEF q
<1>6. \A b \in 0 .. 5 : ((y \div 2^b) % 2 = 1) <=> b \in bits
  <2> DEFINE D(b) == Digit(bits, b)
  <2>1. y = 64 * q + D(0) + 2 * D(1) + 4 * D(2) + 8 * D(3) + 16 * D(4) + 32 * D(5)
    <3>1. \A b : D(b) \in 0 .. 1  BY DEF Digit
    <3> HIDE DEF D
    <3> QED  BY <1>5, <3>1 DEF PermissionField, D
  <2>2. \A b : D(b) \in {0, 1} /\ (D(b) = 1 <=> b \in bits)  BY DEF Digit
  <2> HIDE DEF D
  <2>3. \A p \in Nat, r \in 0 .. 1 : (2 * p + r) \div 2 = p /\ (2 * p + r) % 2 = r
    BY Unique, Remainder
  <2> DEFINE Y1 == 32 * q + D(1) + 2 * D(2) + 4 * D(3) + 8 * D(4) + 16 * D(5)
             Y2 == 16 * q + D(2) + 2 * D(3) + 4 * D(4) + 8 * D(5)
             Y3 == 8 * q + D(3) + 2 * D(4) + 4 * D(5)
             Y4 == 4 * q + D(4) + 2 * D(5)
             Y5 == 2 * q + D(5)
             Y6 == q
  <2>4. /\ y \in Nat /\ y = 2 * Y1 + D(0)
        /\ Y1 \in Nat /\ Y1 = 2 * Y2 + D(1)
        /\ Y2 \in Nat /\ Y2 = 2 * Y3 + D(2)
        /\ Y3 \in Nat /\ Y3 = 2 * Y4 + D(3)
        /\ Y4 \in Nat /\ Y4 = 2 * Y5 + D(4)
        /\ Y5 \in Nat /\ Y5 = 2 * Y6 + D(5)
    BY <1>5, <2>1, <2>2
  <2> HIDE DEF Y1, Y2, Y3, Y4, Y5, Y6
  <2>5. Y6 \in Nat  BY <1>5 DEF Y6
  <2>6. /\ y \div 2 = Y1 /\ y % 2 = D(0)
        /\ Y1 \div 2 = Y2 /\ Y1 % 2 = D(1)
        /\ Y2 \div 2 = Y3 /\ Y2 % 2 = D(2)
        /\ Y3 \div 2 = Y4 /\ Y3 % 2 = D(3)
        /\ Y4 \div 2 = Y5 /\ Y4 % 2 = D(4)
        /\ Y5 \div 2 = Y6 /\ Y5 % 2 = D(5)
    <3>1. y \div 2 = Y1 /\ y % 2 = D(0)
      <4>1. y = 2 * Y1 + D(0) /\ Y1 \in Nat /\ D(0) \in 0 .. 1  BY <2>2, <2>4, <2>5
      <4> QED  BY <2>3, <4>1
    <3>2. Y1 \div 2 = Y2 /\ Y1 % 2 = D(1)
      <4>1. Y1 = 2 * Y2 + D(1) /\ Y2 \in Nat /\ D(1) \in 0 .. 1  BY <2>2, <2>4, <2>5
      <4> QED  BY <2>3, <4>1
    <3>3. Y2 \div 2 = Y3 /\ Y2 % 2 = D(2)
      <4>1. Y2 = 2 * Y3 + D(2) /\ Y3 \in Nat /\ D(2) \in 0 .. 1  BY <2>2, <2>4, <2>5
      <4> QED  BY <2>3, <4>1
    <3>4. Y3 \div 2 = Y4 /\ Y3 % 2 = D(3)
      <4>1. Y3 = 2 * Y4 + D(3) /\ Y4 \in Nat /\ D(3) \in 0 .. 1  BY <2>2, <2>4, <2>5
      <4> QED  BY <2>3, <4>1
    <3>5. Y4 \div 2 = Y5 /\ Y4 % 2 = D(4)
      <4>1. Y4 = 2 * Y5 + D(4) /\ Y5 \in Nat /\ D(4) \in 0 .. 1  BY <2>2, <2>4, <2>5
      <4> QED  BY <2>3, <4>1
    <3>6. Y5 \div 2 = Y6 /\ Y5 % 2 = D(5)
      <4>1. Y5 = 2 * Y6 + D(5) /\ Y6 \in Nat /\ D(5) \in 0 .. 1  BY <2>2, <2>4, <2>5
      <4> QED  BY <2>3, <4>1
    <3> QED  BY <3>1, <3>2, <3>3, <3>4, <3>5, <3>6
  <2>7. \A b \in 0 .. 4 : y \div 2^(b + 1) = (y \div 2^b) \div 2
    <3> TAKE b \in 0 .. 4
    <3>1. b \in Nat /\ 1 \in Nat /\ b + 1 \in 0 .. Width  BY Places
    <3>2. y \div 2^(b + 1) = (y \div 2^b) \div 2^1  BY <1>2, <3>1, Shift
    <3> QED  BY <3>2, SmallPowers
  <2>8. y \div 2^0 = y  BY <1>2, SmallPowers
  <2>9. y \div 2^1 = Y1  BY <2>6, <2>7, <2>8
  <2>10. y \div 2^2 = Y2  BY <2>6, <2>7, <2>9
  <2>11. y \div 2^3 = Y3  BY <2>6, <2>7, <2>10
  <2>12. y \div 2^4 = Y4  BY <2>6, <2>7, <2>11
  <2>13. y \div 2^5 = Y5  BY <2>6, <2>7, <2>12
  <2> SUFFICES ASSUME NEW b \in 0 .. 5
               PROVE  (y \div 2^b) % 2 = D(b)
    BY <2>2
  <2>14. b = 0 \/ b = 1 \/ b = 2 \/ b = 3 \/ b = 4 \/ b = 5  OBVIOUS
  <2> QED  BY <2>6, <2>8, <2>9, <2>10, <2>11, <2>12, <2>13, <2>14
<1> QED  BY <1>3, <1>6 DEF PermissionBits

\* The field of the permissions has six digits.
LEMMA FieldRange ==
  ASSUME NEW bits
  PROVE  PermissionField(bits) \in 0 .. 63
  BY DEF PermissionField, Digit

\* An encoded set of permissions stays in it.
LEMMA EncodedBits ==
  ASSUME NEW d
  PROVE  encode_permissions(d) \in SUBSET (0 .. 5)
<1> USE DEF If, LoadBits, GL_BIT_INDEX
<1> QED  BY DEF encode_permissions

\* The exponent found for a range is a smallest one that can be stored,
\* whatever the encoder's attribute holds.
LEMMA ExponentFound ==
  ASSUME NEW last, NEW diff \in Nat,
         NEW fits \in 0 .. FieldOfOnes - 1, diff < EXPONENT_MAX_LENGTH_DICT[fits]
  PROVE  /\ find_correct_exponent(last, diff) = find_correct_exponent(0, diff)
         /\ find_correct_exponent(last, diff) \in 0 .. FieldOfOnes - 1
<1>1. fits \in Exponents  BY DEF Exponents
<1>2. {e \in Exponents : diff < EXPONENT_MAX_LENGTH_DICT[e]} # {}  BY <1>1
<1>3. find_correct_exponent(last, diff) = find_correct_exponent(0, diff)
  BY <1>2 DEF find_correct_exponent
<1>4. LET e == find_correct_exponent(last, diff)
      IN e \in Exponents /\ (\A f \in Exponents : diff < EXPONENT_MAX_LENGTH_DICT[f] => e <= f)
  BY <1>1, SmallestExponent
<1>5. find_correct_exponent(last, diff) <= fits  BY <1>1, <1>4
<1>6. find_correct_exponent(last, diff) \in 0 .. FieldOfOnes - 1
  BY <1>4, <1>5, FieldsAssumption DEF Exponents
<1> QED  BY <1>3, <1>6

\* An exponent that can be stored is written with the digits of its field.
LEMMA DigitsOfExponent ==
  ASSUME NEW e \in 0 .. FieldOfOnes - 1
  PROVE  DigitsOf(e) = EXPONENT_BIT_SIZE
<1> DEFINE Right(k) == e < 2^k /\ \A j \in EXPONENT_BIT_SIZE .. k - 1 : e >= 2^j
           E == EXPONENT_BIT_SIZE
<1>1. e < 2^E
  <2>1. 2^E \in Nat  BY Sizes, Power DEF Width
  <2> QED  BY <2>1 DEF FieldOfOnes
<1>2. E \in E .. REGISTER_SIZE /\ E .. E - 1 = {}  BY Sizes, SizesAssumption
<1>3. Right(E)  BY <1>1, <1>2
<1>4. \A k \in E .. REGISTER_SIZE : Right(k) => k = E
  <2> SUFFICES ASSUME NEW k \in E .. REGISTER_SIZE, Right(k), k # E PROVE FALSE  OBVIOUS
  <2>1. E \in E .. k - 1  BY Sizes
  <2>2. e >= 2^E  BY <2>1
  <2>3. 2^E \in Nat  BY Sizes, Power DEF Width
  <2> QED  BY <1>1, <2>2, <2>3
<1> HIDE DEF Right
<1>5. (CHOOSE k \in E .. REGISTER_SIZE : Right(k)) = E  BY <1>2, <1>3, <1>4
<1> QED  BY <1>5 DEF DigitsOf, Right

\* The three fields of the bounds in their string.
LEMMA BoundsString ==
  ASSUME NEW e \in 0 .. FieldOfOnes - 1, NEW base \in 0 .. M - 1, NEW top \in 0 .. M - 1
  PROVE  LET n == concat_bounds_data(e, base, top)
         IN /\ n \in 0 .. 2^OTYPE_LOWER_BIT - 1
            /\ Slice(n, EXPO_LOWER_BIT, EXPONENT_BIT_SIZE) = e
            /\ Slice(n, BASE_LOWER_BIT, NUMBER_BITS_FOR_TOP_BASE) = base
            /\ Slice(n, 0, NUMBER_BITS_FOR_TOP_BASE) = top
<1> DEFINE n == concat_bounds_data(e, base, top)  E == 2^EXPONENT_BIT_SIZE  u == e * M + base
<1>1. M \in Nat \ {0} /\ E \in Nat \ {0}  BY Sizes, Power, FieldsAssumption DEF Width
<1>2. 2^EXPO_LOWER_BIT = M * M
  <2>1. EXPO_LOWER_BIT = NUMBER_BITS_FOR_TOP_BASE + NUMBER_BITS_FOR_TOP_BASE  BY Places
  <2>2. NUMBER_BITS_FOR_TOP_BASE + NUMBER_BITS_FOR_TOP_BASE \in 0 .. Width  BY Places
  <2> QED  BY <2>1, <2>2, Places, PowerOfSum DEF M
<1>3. 2^OTYPE_LOWER_BIT = (M * M) * E
  <2>1. EXPO_LOWER_BIT \in Nat /\ EXPO_LOWER_BIT + EXPONENT_BIT_SIZE \in 0 .. Width  BY Places
  <2> QED  BY <1>2, <2>1, Places, PowerOfSum
<1>4. e \in 0 .. E - 1  BY <1>1 DEF FieldOfOnes
<1> HIDE DEF E
<1>5. u \in Nat /\ u = M * e + base  BY <1>1
<1>6. u \div M = e /\ u % M = base  BY <1>1, <1>4, <1>5, Unique, Remainder
<1>7. n = M * u + top
  <2>1. n = e * M * M + base * M + top  BY DEF concat_bounds_data
  <2>2. M * (e * M + base) = e * M * M + base * M  BY <1>1
  <2> QED  BY <2>1, <2>2
<1> HIDE DEF u, n
<1>8. n \in Nat /\ n \div M = u /\ n % M = top
  <2>1. M * u \in Nat /\ top \in Nat  BY <1>1, <1>5
  <2>2. M * u + top \in Nat  BY <2>1
  <2>3. (M * u + top) \div M = u  BY <1>1, <1>5, Unique
  <2>4. (M * u + top) % M = top  BY <1>1, <1>5, Remainder
  <2> QED  BY <1>7, <2>2, <2>3, <2>4
<1>9. n \div (M * M) = e  BY <1>1, <1>6, <1>8, DivideTwice
<1>10. n < (M * M) * E
  <2> DEFINE P == M * M
  <2>1. P \in Nat \ {0} /\ n \div P = e  BY <1>1, <1>9
  <2> HIDE DEF P
  <2>2. n % P \in 0 .. P - 1 /\ n = P * e + (n % P)  BY <1>8, <2>1, Division
  <2>3. P * e <= P * (E - 1)  BY <1>1, <1>4, <2>1, Monotonic
  <2>4. P * (E - 1) = P * E - P  BY <1>1, <2>1
  <2>5. P * e \in Nat /\ P * E \in Nat  BY <1>1, <1>4, <2>1
  <2>6. n < P * E  BY <2>1, <2>2, <2>3, <2>4, <2>5
  <2> QED  BY <2>6 DEF P
<1>11. e % E = e
  <2>1. e = E * 0 + e  BY <1>1, <1>4
  <2> QED  BY <1>1, <1>4, <2>1, Remainder
<1>12. (M * M) * E \in Nat  BY <1>1
<1>13. n \in 0 .. 2^OTYPE_LOWER_BIT - 1  BY <1>3, <1>8, <1>10, <1>12
<1>14. Slice(n, EXPO_LOWER_BIT, EXPONENT_BIT_SIZE) = e  BY <1>2, <1>9, <1>11 DEF Slice, E
<1>15. Slice(n, BASE_LOWER_BIT, NUMBER_BITS_FOR_TOP_BASE) = base
  BY <1>6, <1>8 DEF Slice, BASE_LOWER_BIT, M
<1>16. Slice(n, 0, NUMBER_BITS_FOR_TOP_BASE) = top
  <2>1. n \div 1 = n  BY <1>8
  <2> QED  BY <1>8, <2>1, SmallPowers DEF Slice, M
<1> QED  BY <1>13, <1>14, <1>15, <1>16 DEF n

\* The parts of a register in the types of the fields.
LEMMA RegisterParts ==
  ASSUME RegTypes, NEW name \in Names
  PROVE  LET r == registers[REG_NAME_TO_VALUE[name]]
         IN /\ r.cap \in Capabilities /\ r.cap \in Nat
            /\ r.value \in 0 .. 2^REGISTER_SIZE - 1 /\ r.tag \in BOOLEAN
            /\ asked[name] \in AskedType
<1> DEFINE r == registers[REG_NAME_TO_VALUE[name]]
<1>1. r \in RegisterType  BY NumberOfName DEF RegTypes
<1>2. asked[name] \in AskedType  BY DEF RegTypes
<1>3. 2^CAPABILITY_SIZE \in Nat  BY Places, Sizes, Power
<1> HIDE DEF r
<1> QED  BY <1>1, <1>2, <1>3 DEF RegisterType, Capabilities, r

\* A command keeps the invariant of every register: bounds, ...
LEMMA SetBoundsStep ==
  ASSUME RegIInv, InputFits, NEW name \in Names, NEW range \in Ranges,
         SetBounds(name, range[1], range[2])
  PROVE  RegIInv'
<1> DEFINE r == registers[REG_NAME_TO_VALUE[name]]  base == range[1]  top == range[2]
           e == find_correct_exponent(exponent, top - base)
           new == concat_bounds_data(e, NineBits(base, e), NineBits(top, e))
           d == Assign(r.cap, 0, OTYPE_LOWER_BIT, new, OTYPE_LOWER_BIT)
           a == [asked[name] EXCEPT !["bounds"] = {<<base, top>>}]
<1>1. RegTypes  BY DEF RegIInv
<1>2. /\ r.cap \in Capabilities /\ r.cap \in Nat
      /\ r.value \in 0 .. 2^REGISTER_SIZE - 1 /\ asked[name] \in AskedType
  BY <1>1, RegisterParts
<1>3. base \in Nat /\ top \in Nat /\ base <= top  BY DEF InputFits, SetBounds
<1>4. PICK fits \in 0 .. FieldOfOnes - 1 : top - base < EXPONENT_MAX_LENGTH_DICT[fits]
  BY <1>3 DEF InputFits
<1>5. e = find_correct_exponent(0, top - base) /\ e \in 0 .. FieldOfOnes - 1
  BY <1>3, <1>4, ExponentFound
<1>6. NineBits(base, e) \in 0 .. M - 1 /\ NineBits(top, e) \in 0 .. M - 1
  <2>1. 2^e \in Nat \ {0} /\ M \in Nat \ {0}  BY <1>5, FieldsAssumption DEF Exponents
  <2>2. base \div 2^e \in Nat /\ top \div 2^e \in Nat  BY <1>3, <2>1, Division
  <2> QED  BY <2>1, <2>2, Division DEF NineBits
<1>7. /\ new \in 0 .. 2^OTYPE_LOWER_BIT - 1
      /\ Slice(new, EXPO_LOWER_BIT, EXPONENT_BIT_SIZE) = e
      /\ Slice(new, BASE_LOWER_BIT, NUMBER_BITS_FOR_TOP_BASE) = NineBits(base, e)
      /\ Slice(new, 0, NUMBER_BITS_FOR_TOP_BASE) = NineBits(top, e)
  <2> HIDE DEF e, base, top
  <2> QED  BY <1>5, <1>6, BoundsString
<1>8. EXPO_LOWER_BIT + DigitsOf(e) = OTYPE_LOWER_BIT
  <2> HIDE DEF e
  <2> QED  BY <1>5, DigitsOfExponent, Places
<1>9. /\ Set(name, "bounds", <<base, top>>)
      /\ execute_set_register_command(name, d, r.value)
  <2>1. get_current_register_value(name) = Found(r)  BY <1>1, Current
  <2> HIDE DEF r, Set, execute_set_register_command
  <2> QED  BY <1>8, <2>1 DEF SetBounds, Found
<1> HIDE DEF r, e, new, d
<1>10. OTYPE_LOWER_BIT \in Nat /\ OTYPE_LOWER_BIT <= CAPABILITY_SIZE /\ OTYPE_LOWER_BIT <= Width
       /\ 2^OTYPE_LOWER_BIT \in Nat \ {0} /\ 2^CAPABILITY_SIZE \in Nat \ {0}
  <2>1. OTYPE_LOWER_BIT \in Nat /\ OTYPE_LOWER_BIT <= CAPABILITY_SIZE /\ OTYPE_LOWER_BIT <= Width
        /\ CAPABILITY_SIZE \in 0 .. Width
    BY Places
  <2> QED  BY <2>1, Power
<1>11. /\ d \in Capabilities
       /\ d \div 2^OTYPE_LOWER_BIT = r.cap \div 2^OTYPE_LOWER_BIT
       /\ Slice(d, 0, OTYPE_LOWER_BIT) = new
  <2>1. 0 + OTYPE_LOWER_BIT = OTYPE_LOWER_BIT /\ 0 \in Nat  BY <1>10
  <2> QED  BY <1>2, <1>7, <1>10, <2>1, FieldAssigned DEF Capabilities, d
<1>12. d \in Nat /\ new \in Nat  BY <1>7, <1>10, <1>11 DEF Capabilities
<1>13. d % 2^OTYPE_LOWER_BIT = new % 2^OTYPE_LOWER_BIT
  <2>1. d \div 2^0 = d  BY <1>12, SmallPowers
  <2>2. d % 2^OTYPE_LOWER_BIT = new  BY <1>11, <2>1 DEF Slice
  <2>3. 2^OTYPE_LOWER_BIT * 0 + new = new  BY <1>10, <1>12
  <2>4. new % 2^OTYPE_LOWER_BIT = new  BY <1>7, <1>10, <2>3, Remainder
  <2> QED  BY <2>2, <2>4
<1>14. HasBounds(d, <<base, top>>)
  <2>1. HasBounds(new, <<base, top>>)  BY <1>3, <1>5, <1>7 DEF HasBounds
  <2> QED  BY <1>12, <1>13, <2>1, SameBounds
<1>15. PermissionBits(d) = PermissionBits(r.cap)
  BY <1>2, <1>11, <1>12, SamePermissions
<1>16. Slice(d, OTYPE_LOWER_BIT, 3) = Slice(r.cap, OTYPE_LOWER_BIT, 3)
  BY <1>2, <1>10, <1>11, <1>12, FieldAbove
<1>17. Meets(r, asked[name])  BY DEF RegIInv, r
<1>18. Meets([cap |-> d, value |-> r.value, tag |-> TRUE], a)
  <2>1. /\ a.bounds = {<<base, top>>} /\ a.permissions = asked[name].permissions
        /\ a.otype = asked[name].otype /\ a.value = asked[name].value
        /\ "bounds" \in DOMAIN a /\ a["bounds"] # {}
    BY <1>2 DEF AskedType
  <2> HIDE DEF a, base, top
  <2> QED  BY <1>14, <1>15, <1>16, <1>17, <2>1 DEF Meets
<1>19. a \in AskedType
  <2>1. <<base, top>> \in Ranges
    <3>1. range = <<base, top>>  BY DEF InputFits
    <3> QED  BY <3>1
  <2> QED  BY <1>2, <2>1 DEF AskedType
<1> HIDE DEF a, base, top
<1> QED  BY <1>2, <1>9, <1>11, <1>18, <1>19, SetStep DEF a

\* ... permissions, ...
LEMMA SetPermissionsStep ==
  ASSUME RegIInv, NEW name \in Names, NEW list \in PermLists, SetPermissions(name, list)
  PROVE  RegIInv'
<1> DEFINE r == registers[REG_NAME_TO_VALUE[name]]
           dict == list \cap PERMISSION_NAME_LIST
           bits == encode_permissions(dict)
           d == Assign(r.cap, PERMISSION_LOWER_BIT, 6, PermissionField(bits), 6)
           a == [asked[name] EXCEPT !["permissions"] = {dict}]
<1>1. RegTypes  BY DEF RegIInv
<1>2. /\ r.cap \in Capabilities /\ r.cap \in Nat
      /\ r.value \in 0 .. 2^REGISTER_SIZE - 1 /\ asked[name] \in AskedType
  BY <1>1, RegisterParts
<1>3. /\ Set(name, "permissions", dict)
      /\ execute_set_register_command(name, d, r.value)
  <2>1. get_current_register_value(name) = Found(r)  BY <1>1, Current
  <2>2. {} \cup dict = dict  OBVIOUS
  <2> HIDE DEF r, Set, execute_set_register_command, dict
  <2> QED  BY <2>1, <2>2 DEF SetPermissions, Found, clear_permissions, dict
<1>4. bits \in SUBSET (0 .. 5)  BY EncodedBits
<1> HIDE DEF r, d, bits
<1>5. /\ PERMISSION_LOWER_BIT \in Nat /\ PERMISSION_LOWER_BIT <= Width
      /\ PERMISSION_LOWER_BIT + 6 <= CAPABILITY_SIZE
      /\ OTYPE_LOWER_BIT \in Nat /\ OTYPE_LOWER_BIT + 3 <= PERMISSION_LOWER_BIT
      /\ 2^CAPABILITY_SIZE \in Nat \ {0}
  <2>1. /\ PERMISSION_LOWER_BIT \in Nat /\ PERMISSION_LOWER_BIT <= Width
        /\ PERMISSION_LOWER_BIT + 6 <= CAPABILITY_SIZE /\ CAPABILITY_SIZE \in 0 .. Width
        /\ OTYPE_LOWER_BIT \in Nat /\ OTYPE_LOWER_BIT + 3 <= PERMISSION_LOWER_BIT
    BY Places
  <2> QED  BY <2>1, Power
<1>6. PermissionField(bits) \in 0 .. 2^6 - 1  BY FieldRange, SmallPowers
<1>7. /\ d \in Capabilities
      /\ Slice(d, PERMISSION_LOWER_BIT, 6) = PermissionField(bits)
      /\ d % 2^PERMISSION_LOWER_BIT = r.cap % 2^PERMISSION_LOWER_BIT
  <2> DEFINE low == PERMISSION_LOWER_BIT  w == 6  new == PermissionField(bits)
  <2>1. w \in Nat /\ low \in Nat /\ low + w <= CAPABILITY_SIZE /\ new \in 0 .. 2^w - 1
    BY <1>5, <1>6
  <2>2. d = Assign(r.cap, low, w, new, w)  BY DEF d
  <2> HIDE DEF low, w, new
  <2>3. d \in Capabilities /\ Slice(d, low, w) = new /\ d % 2^low = r.cap % 2^low
    BY <1>2, <2>1, <2>2, FieldAssigned DEF Capabilities
  <2> QED  BY <2>3 DEF low, w, new
<1>8. d \in Nat  BY <1>5, <1>7 DEF Capabilities
<1>9. \A b : HasBounds(r.cap, b) => HasBounds(d, b)
  BY <1>2, <1>7, <1>8, SameBounds
<1>10. PermissionBits(d) = bits  BY <1>4, <1>7, <1>8, PermissionsRead
<1>11. Slice(d, OTYPE_LOWER_BIT, 3) = Slice(r.cap, OTYPE_LOWER_BIT, 3)
  <2> DEFINE low == OTYPE_LOWER_BIT  w == 3  place == PERMISSION_LOWER_BIT
  <2>1. /\ w \in Nat /\ low \in Nat /\ low + w <= place /\ place \in Nat /\ place <= Width
        /\ d % 2^place = r.cap % 2^place
    BY <1>5, <1>7
  <2> HIDE DEF low, w, place
  <2>2. Slice(d, low, w) = Slice(r.cap, low, w)  BY <1>2, <1>8, <2>1, SameBelow
  <2> QED  BY <2>2 DEF low, w
<1>12. Meets(r, asked[name])  BY DEF RegIInv, r
<1>13. Meets([cap |-> d, value |-> r.value, tag |-> TRUE], a)
  <2>1. /\ a.permissions = {dict} /\ a.bounds = asked[name].bounds
        /\ a.otype = asked[name].otype /\ a.value = asked[name].value
        /\ "permissions" \in DOMAIN a /\ a["permissions"] # {}
    BY <1>2 DEF AskedType
  <2> HIDE DEF a, dict
  <2> QED  BY <1>9, <1>10, <1>11, <1>12, <2>1 DEF Meets, bits
<1>14. a \in AskedType
  <2>1. dict \in SUBSET PERMISSION_NAME_LIST  OBVIOUS
  <2> HIDE DEF dict
  <2> QED  BY <1>2, <2>1 DEF AskedType
<1> HIDE DEF a, dict
<1> QED  BY <1>2, <1>3, <1>7, <1>13, <1>14, SetStep DEF a

\* ... the type, ...
LEMMA SetOtypeStep ==
  ASSUME RegIInv, InputFits, NEW name \in Names, NEW otype \in Otypes, SetOtype(name, otype)
  PROVE  RegIInv'
<1> DEFINE r == registers[REG_NAME_TO_VALUE[name]]
           d == Assign(r.cap, OTYPE_LOWER_BIT, 3, otype, 3)
           a == [asked[name] EXCEPT !["otype"] = {otype}]
<1>1. RegTypes  BY DEF RegIInv
<1>2. /\ r.cap \in Capabilities /\ r.cap \in Nat
      /\ r.value \in 0 .. 2^REGISTER_SIZE - 1 /\ asked[name] \in AskedType
  BY <1>1, RegisterParts
<1>3. Set(name, "otype", otype) /\ execute_set_register_command(name, d, r.value)
  <2>1. get_current_register_value(name) = Found(r)  BY <1>1, Current
  <2> HIDE DEF r, Set, execute_set_register_command
  <2> QED  BY <2>1 DEF SetOtype, Found
<1> HIDE DEF r, d
<1>4. /\ OTYPE_LOWER_BIT \in Nat /\ OTYPE_LOWER_BIT + 3 = PERMISSION_LOWER_BIT
      /\ OTYPE_LOWER_BIT + 3 <= CAPABILITY_SIZE /\ 2^CAPABILITY_SIZE \in Nat \ {0}
  <2>1. /\ OTYPE_LOWER_BIT \in Nat /\ OTYPE_LOWER_BIT + 3 = PERMISSION_LOWER_BIT
        /\ OTYPE_LOWER_BIT + 3 <= CAPABILITY_SIZE /\ CAPABILITY_SIZE \in 0 .. Width
    BY Places
  <2> QED  BY <2>1, Power
<1>5. otype \in 0 .. 2^3 - 1  BY SmallPowers DEF InputFits
<1>6. /\ d \in Capabilities
      /\ d \div 2^PERMISSION_LOWER_BIT = r.cap \div 2^PERMISSION_LOWER_BIT
      /\ Slice(d, OTYPE_LOWER_BIT, 3) = otype
      /\ d % 2^OTYPE_LOWER_BIT = r.cap % 2^OTYPE_LOWER_BIT
  <2> DEFINE low == OTYPE_LOWER_BIT  w == 3
  <2>1. /\ w \in Nat /\ low \in Nat /\ low + w <= CAPABILITY_SIZE /\ otype \in 0 .. 2^w - 1
        /\ low + w = PERMISSION_LOWER_BIT
    BY <1>4, <1>5
  <2>2. d = Assign(r.cap, low, w, otype, w)  BY DEF d
  <2> HIDE DEF low, w
  <2>3. /\ d \in Capabilities /\ d \div 2^(low + w) = r.cap \div 2^(low + w)
        /\ Slice(d, low, w) = otype /\ d % 2^low = r.cap % 2^low
    BY <1>2, <2>1, <2>2, FieldAssigned DEF Capabilities
  <2>4. d \div 2^PERMISSION_LOWER_BIT = r.cap \div 2^PERMISSION_LOWER_BIT  BY <2>1, <2>3
  <2> QED  BY <2>3, <2>4 DEF low, w
<1>7. d \in Nat  BY <1>4, <1>6 DEF Capabilities
<1>8. \A b : HasBounds(r.cap, b) => HasBounds(d, b)
  BY <1>2, <1>6, <1>7, SameBounds
<1>9. PermissionBits(d) = PermissionBits(r.cap)
  BY <1>2, <1>6, <1>7, SamePermissions
<1>10. Meets(r, asked[name])  BY DEF RegIInv, r
<1>11. Meets([cap |-> d, value |-> r.value, tag |-> TRUE], a)
  <2>1. /\ a.otype = {otype} /\ a.bounds = asked[name].bounds
        /\ a.permissions = asked[name].permissions /\ a.value = asked[name].value
        /\ "otype" \in DOMAIN a /\ a["otype"] # {}
    BY <1>2 DEF AskedType
  <2> HIDE DEF a
  <2> QED  BY <1>6, <1>8, <1>9, <1>10, <2>1 DEF Meets
<1>12. a \in AskedType  BY <1>2 DEF AskedType
<1> HIDE DEF a
<1> QED  BY <1>2, <1>3, <1>6, <1>11, <1>12, SetStep DEF a

\* ... or the value.
LEMMA SetValueStep ==
  ASSUME RegIInv, InputFits, NEW name \in Names, NEW value \in Values, SetValue(name, value)
  PROVE  RegIInv'
<1> DEFINE r == registers[REG_NAME_TO_VALUE[name]]
           a == [asked[name] EXCEPT !["value"] = {value}]
<1>1. RegTypes  BY DEF RegIInv
<1>2. r.cap \in Capabilities /\ asked[name] \in AskedType  BY <1>1, RegisterParts
<1>3. Set(name, "value", value) /\ execute_set_register_command(name, r.cap, value)
  <2>1. get_current_register_value(name) = Found(r)  BY <1>1, Current
  <2> HIDE DEF r, Set, execute_set_register_command
  <2> QED  BY <2>1 DEF SetValue, Found
<1> HIDE DEF r
<1>4. value \in 0 .. 2^REGISTER_SIZE - 1  BY DEF InputFits
<1>5. Meets(r, asked[name])  BY DEF RegIInv, r
<1>6. Meets([cap |-> r.cap, value |-> value, tag |-> TRUE], a)
  <2>1. /\ a.value = {value} /\ a.bounds = asked[name].bounds
        /\ a.permissions = asked[name].permissions /\ a.otype = asked[name].otype
        /\ "value" \in DOMAIN a /\ a["value"] # {}
    BY <1>2 DEF AskedType
  <2> HIDE DEF a
  <2> QED  BY <1>5, <2>1 DEF Meets
<1>7. a \in AskedType  BY <1>2 DEF AskedType
<1> HIDE DEF a
<1> QED  BY <1>2, <1>3, <1>4, <1>6, <1>7, SetStep DEF a

\* The registers as the server finds them.
LEMMA RegStart ==
  ASSUME FirstFits, RegInit
  PROVE  RegIInv
<1> DEFINE r == [cap |-> FirstCap, value |-> FirstValue, tag |-> FALSE]
           a == [bounds |-> {}, permissions |-> {}, otype |-> {}, value |-> {}]
<1>1. registers = [n \in Numbers |-> r] /\ asked = [name \in Names |-> a] /\ printed = <<>>
  BY DEF RegInit
<1>2. r \in RegisterType  BY DEF FirstFits, RegisterType, Capabilities
<1>3. a \in AskedType  BY DEF AskedType
<1>4. Meets(r, a)  BY DEF Meets
<1> HIDE DEF r, a
<1>5. RegTypes  BY <1>1, <1>2, <1>3 DEF RegTypes
<1>6. \A name \in Names : Meets(registers[REG_NAME_TO_VALUE[name]], asked[name])
  BY <1>1, <1>4, NumberOfName
<1>7. UpToDate  BY <1>1 DEF UpToDate
<1> QED  BY <1>5, <1>6, <1>7 DEF RegIInv

\* Every command on registers.
LEMMA RegStep ==
  ASSUME RegIInv, InputFits, RegNext
  PROVE  RegIInv'
<1>1. CASE \/ set_all \/ print_all_registers
           \/ \E r \in Ranges : diff_of_full_base_top(r[1], r[2])
           \/ \E name \in Names : print_register(name)
  BY <1>1, PrintStep
<1>2. ASSUME NEW name \in Names, NEW r \in Ranges, SetBounds(name, r[1], r[2])
      PROVE  RegIInv'
  BY <1>2, SetBoundsStep
<1>3. ASSUME NEW name \in Names, NEW list \in PermLists, SetPermissions(name, list)
      PROVE  RegIInv'
  BY <1>3, SetPermissionsStep
<1>4. ASSUME NEW name \in Names, NEW otype \in Otypes, SetOtype(name, otype)
      PROVE  RegIInv'
  BY <1>4, SetOtypeStep
<1>5. ASSUME NEW name \in Names, NEW value \in Values, SetValue(name, value)
      PROVE  RegIInv'
  BY <1>5, SetValueStep
<1> QED  BY <1>1, <1>2, <1>3, <1>4, <1>5 DEF RegNext

\* The image is loaded without them.
LEMMA RegStutter ==
  ASSUME RegIInv, UNCHANGED regVars
  PROVE  RegIInv'
<1>1. registers' = registers /\ asked' = asked /\ printed' = printed  BY DEF regVars
<1> QED  BY <1>1 DEF RegIInv, RegTypes, UpToDate

\* The registers hold what the commands asked for, and the screen shows them.
THEOREM RegInvariance ==
  ASSUME FirstFits, InputFits
  PROVE  ServerSpec => []RegIInv
<1>1. ServerInit => RegIInv  BY RegStart DEF ServerInit
<1>2. RegIInv /\ [ServerNext]_serverVars => RegIInv'
  BY RegStep, RegStutter DEF ServerNext, OnTraffic, serverVars
<1> QED  BY <1>1, <1>2, PTL DEF ServerSpec

\* Value, otype and validity shown are those the commands made: whatever was set
\* on whichever register in between (uncompress_and_print_register_data,
\* concat_register_value_and_capability).
THEOREM WordsShown ==
  ASSUME FirstFits, InputFits
  PROVE  ServerSpec => []WordsAsAsked
<1>1. RegIInv => WordsAsAsked
  <2> SUFFICES ASSUME RegIInv, NEW name \in DOMAIN printed
               PROVE  /\ asked[name].value \subseteq {printed[name].value}
                      /\ asked[name].otype \subseteq {printed[name].otype}
                      /\ printed[name].valid <=> \E what \in DOMAIN asked[name] : asked[name][what] # {}
    BY DEF WordsAsAsked
  <2> DEFINE r == registers[REG_NAME_TO_VALUE[name]]
  <2>1. name \in Names /\ printed[name] = Row(Found(r))  BY DEF RegIInv, UpToDate
  <2>2. Meets(r, asked[name])  BY <2>1 DEF RegIInv
  <2> HIDE DEF r
  <2>3. /\ printed[name].value = r.value /\ printed[name].valid = r.tag
        /\ printed[name].otype = Slice(r.cap, OTYPE_LOWER_BIT, 3)
    BY <2>1 DEF Row, Found
  <2> QED  BY <2>2, <2>3 DEF Meets
<1> QED  BY <1>1, RegInvariance, PTL

\* The permissions shown are among those last asked for, and are those if a format
\* holds them, less EX, SR, U0, SE and US: no command leaves any behind for
\* another (clear_permissions, encode_permissions, decode_permissions).
THEOREM PermissionsShown ==
  ASSUME FirstFits, InputFits
  PROVE  ServerSpec => []PermissionsAsAsked
<1>1. RegIInv => PermissionsAsAsked
  <2> SUFFICES ASSUME RegIInv, NEW name \in DOMAIN printed, NEW list \in asked[name].permissions
               PROVE  RoundTrip(list, printed[name].permissions)
    BY DEF PermissionsAsAsked
  <2> DEFINE r == registers[REG_NAME_TO_VALUE[name]]
  <2>1. name \in Names /\ printed[name] = Row(Found(r))  BY DEF RegIInv, UpToDate
  <2>2. Meets(r, asked[name])  BY <2>1 DEF RegIInv
  <2>3. asked[name] \in AskedType  BY <2>1 DEF RegIInv, RegTypes
  <2>4. list \in SUBSET PERMISSION_NAME_LIST  BY <2>3 DEF AskedType
  <2> HIDE DEF r
  <2>5. printed[name].permissions = decode_permissions(PermissionBits(r.cap))
    BY <2>1 DEF Row, Found, PermissionBits
  <2>6. PermissionBits(r.cap) = encode_permissions(list)  BY <2>2 DEF Meets
  <2> QED  BY <2>4, <2>5, <2>6, PermissionsRoundTrip
<1> QED  BY <1>1, RegInvariance, PTL

\* Larger exponents have larger granules.
LEMMA Granules ==
  ASSUME NEW e \in Exponents, NEW f \in Exponents, e <= f
  PROVE  2^e <= 2^f
<1>1. \A x \in Exponents : x \in 0 .. Width
  <2>1. FullExponent \in 0 .. Width /\ FieldOfOnes < FullExponent
    BY FieldsAssumption, Sizes DEF FullExponent, Width
  <2>2. FieldOfOnes \in Nat /\ Width \in Nat  BY FieldsAssumption, Sizes
  <2>3. \A x \in 0 .. FieldOfOnes - 1 : x \in 0 .. Width  BY <2>1, <2>2
  <2> QED  BY <2>1, <2>3 DEF Exponents
<1>2. e \in Nat /\ f - e \in Nat /\ e + (f - e) = f /\ f \in 0 .. Width /\ f - e \in 0 .. Width
  BY <1>1, Sizes
<1>3. 2^f = 2^e * 2^(f - e)  BY <1>2, PowerOfSum
<1>4. 2^e \in Nat \ {0} /\ 2^(f - e) \in Nat \ {0}  BY <1>1, <1>2, Power
<1> DEFINE A == 2^e  B == 2^(f - e)
<1>5. A * 1 <= A * B
  <2>1. A \in Nat /\ B \in Nat \ {0}  BY <1>4
  <2> HIDE DEF A, B
  <2> QED  BY <2>1, Monotonic
<1> QED  BY <1>3, <1>4, <1>5

\* An address between the bounds asked for is shown with those bounds, rounded
\* down to the smallest granule that can hold them, whatever was set since and on
\* whichever register (find_correct_exponent, calc_bounds).
THEOREM BoundsShown ==
  ASSUME FirstFits, InputFits
  PROVE  ServerSpec => []BoundsAsAsked
<1>1. RegIInv => BoundsAsAsked
  <2> SUFFICES ASSUME RegIInv, NEW name \in DOMAIN printed, NEW b \in asked[name].bounds
               PROVE  LET granules == {2^e : e \in {f \in Exponents : b[2] - b[1] < (M - 1) * 2^f}}
                          g == Min(granules)
                      IN b[1] <= printed[name].value /\ printed[name].value <= b[2] =>
                           /\ printed[name].base = RoundDown(b[1], g)
                           /\ printed[name].top = RoundDown(b[2], g)
    BY DEF BoundsAsAsked
  <2> DEFINE r == registers[REG_NAME_TO_VALUE[name]]
             e == find_correct_exponent(0, b[2] - b[1])
             fit == {f \in Exponents : b[2] - b[1] < (M - 1) * 2^f}
             granules == {2^f : f \in fit}
  <2>1. name \in Names /\ printed[name] = Row(Found(r))  BY DEF RegIInv, UpToDate
  <2>2. RegTypes  BY DEF RegIInv
  <2>3. r.value \in 0 .. 2^REGISTER_SIZE - 1 /\ asked[name] \in AskedType
    BY <2>1, <2>2, RegisterParts
  <2>4. HasBounds(r.cap, b)  BY <2>1 DEF RegIInv, Meets
  <2>5. b \in Ranges  BY <2>3 DEF AskedType
  <2>6. b[1] \in Nat /\ b[2] \in Nat /\ b[1] <= b[2]  BY <2>4, <2>5 DEF InputFits, HasBounds
  <2>7. PICK fits \in 0 .. FieldOfOnes - 1 : b[2] - b[1] < EXPONENT_MAX_LENGTH_DICT[fits]
    BY <2>5, <2>6 DEF InputFits
  <2>8. r.value \in Nat
    <3>1. 2^REGISTER_SIZE \in Nat  BY Sizes, Power DEF Width
    <3> HIDE DEF r
    <3> QED  BY <2>3, <3>1
  <2>9. e \in 0 .. FieldOfOnes - 1 /\ e \in Exponents
    <3>1. b[2] - b[1] \in Nat  BY <2>6
    <3> QED  BY <2>7, <3>1, ExponentFound DEF Exponents
  <2>10. \A f \in Exponents : EXPONENT_MAX_LENGTH_DICT[f] = (M - 1) * 2^f
    BY DEF EXPONENT_MAX_LENGTH_DICT
  <2>11. e \in fit /\ \A f \in fit : e <= f
    <3>1. b[2] - b[1] \in Nat /\ fits \in Exponents  BY <2>6 DEF Exponents
    <3>2. /\ b[2] - b[1] < EXPONENT_MAX_LENGTH_DICT[e]
          /\ \A f \in Exponents : b[2] - b[1] < EXPONENT_MAX_LENGTH_DICT[f] => e <= f
      BY <2>7, <3>1, SmallestExponent
    <3> HIDE DEF e
    <3> QED  BY <2>9, <2>10, <3>2
  <2>12. Min(granules) = 2^e
    <3> HIDE DEF e
    <3>1. 2^e \in granules /\ \A x \in granules : 2^e <= x
      <4>1. \A f \in fit : 2^e <= 2^f  BY <2>9, <2>11, Granules
      <4> QED  BY <2>11, <4>1
    <3>2. \A x \in granules : x \in Nat  BY FieldsAssumption
    <3> HIDE DEF granules
    <3>3. \A x \in granules : (\A y \in granules : x <= y) => x = 2^e
      BY <3>1, <3>2
    <3> QED  BY <3>1, <3>3 DEF Min
  <2>13. ASSUME b[1] <= r.value, r.value <= b[2]
         PROVE  /\ printed[name].base = 2^e * (b[1] \div 2^e)
                /\ printed[name].top = 2^e * (b[2] \div 2^e)
    <3>1. decode_bounds(r.value, e, NineBits(b[1], e), NineBits(b[2], e)) =
            [base |-> 2^e * (b[1] \div 2^e), top |-> 2^e * (b[2] \div 2^e)]
      <4>1. find_correct_exponent(0, b[2] - b[1]) = e  OBVIOUS
      <4> HIDE DEF e, r
      <4> QED  BY <2>6, <2>7, <2>8, <2>13, <4>1, BoundsRoundTrip
    <3>2. decode_bounds(r.value, Slice(r.cap, EXPO_LOWER_BIT, EXPONENT_BIT_SIZE),
            Slice(r.cap, BASE_LOWER_BIT, NUMBER_BITS_FOR_TOP_BASE),
            Slice(r.cap, 0, NUMBER_BITS_FOR_TOP_BASE)) =
          decode_bounds(r.value, e, NineBits(b[1], e), NineBits(b[2], e))
      BY <2>4 DEF HasBounds
    <3> HIDE DEF e, r
    <3>3. /\ Row(Found(r)).base = (decode_bounds(r.value, Slice(r.cap, EXPO_LOWER_BIT, EXPONENT_BIT_SIZE),
                                      Slice(r.cap, BASE_LOWER_BIT, NUMBER_BITS_FOR_TOP_BASE),
                                      Slice(r.cap, 0, NUMBER_BITS_FOR_TOP_BASE))).base
          /\ Row(Found(r)).top = (decode_bounds(r.value, Slice(r.cap, EXPO_LOWER_BIT, EXPONENT_BIT_SIZE),
                                      Slice(r.cap, BASE_LOWER_BIT, NUMBER_BITS_FOR_TOP_BASE),
                                      Slice(r.cap, 0, NUMBER_BITS_FOR_TOP_BASE))).top
      BY DEF Row, Found
    <3> QED  BY <2>1, <3>1, <3>2, <3>3
  <2>14. printed[name].value = r.value  BY <2>1 DEF Row, Found
  <2> HIDE DEF e, r
  <2> QED  BY <2>12, <2>13, <2>14 DEF RoundDown
<1> QED  BY <1>1, RegInvariance, PTL

(***************************************************************************)
(* The image                                                               *)
(***************************************************************************)

\* Bytes that mean something else in a packet: "$", "#" and the escape "}".
Special == {Dollar, Hash, 125}
PlainImages == \A img \in Images : \A n \in DOMAIN img : Bytes(img[n].bytes) \cap Special = {}

LoadedBytes == 0 .. 255
FirstAddress == image[1].at
EndOf(segment) == segment.at + Len(segment.bytes)
Stages == {"convert", "open", "load", "loaded"}

\* What has been read of the file is in darray, byte by byte; the line to come is
\* the address of a segment or the next of its bytes.
DataInv ==
  /\ darray \in Seq(LoadedBytes)
  /\ \A k \in 1 .. Len(darray) : darray[k] = ByteMeant(FirstAddress + k - 1)
  /\ first => darray = <<>>
  /\ ~first => addr = FirstAddress + Len(darray)

HeadInv(n) ==
  \/ /\ file[1] = image[n]
     /\ IF n = 1 THEN first ELSE ~first /\ addr = EndOf(image[n - 1])
  \/ /\ file[1].at = NoAddress /\ ~first
     /\ addr - image[n].at \in 0 .. Len(image[n].bytes)
     /\ Len(file[1].bytes) = Len(image[n].bytes) - (addr - image[n].at)
     /\ \A k \in 1 .. Len(file[1].bytes) : file[1].bytes[k] = image[n].bytes[addr - image[n].at + k]

FileInv ==
  LET n == Len(image) - Len(file) + 1
  IN /\ file \in Seq([at : Nat \cup {NoAddress}, bytes : Seq(LoadedBytes)])
     /\ Len(file) <= Len(image)
     /\ \A j \in 2 .. Len(file) : file[j] = image[n + j - 1]
     /\ file # <<>> => HeadInv(n)
     /\ file = <<>> => ~first /\ addr = End

\* The words of the output file, and those still to load.
WordAt(w) == Reverse(SubSeq(darray, (w - 1) * 4 + 1, w * 4))
WordCount == Len(darray) \div 4
WordsInv ==
  /\ stage \in Stages
  /\ stage # "convert" => file = <<>>
  /\ stage = "open" => final = [w \in 1 .. WordCount |-> WordAt(w)]
  /\ stage \in {"load", "loaded"} => \E n \in 0 .. WordCount :
       /\ address = FirstAddress + 4 * n
       /\ final = [w \in 1 .. WordCount - n |-> WordAt(n + w)]
  /\ stage = "loaded" => final = <<>>
  /\ target_memory = [a \in 0 .. MemoryTop - 1 |->
       IF stage \in {"load", "loaded"} /\ a \in FirstAddress .. address - 1 THEN ByteMeant(a) ELSE Untouched]

ImageIInv == image \in Images /\ DataInv /\ FileInv /\ WordsInv

\* Segments: numbers, bytes and order.
LEMMA ImageFacts ==
  ASSUME image \in Images
  PROVE  /\ image \in Seq(Segments) /\ Len(image) \in Nat \ {0}
         /\ \A n \in 1 .. Len(image) :
              /\ image[n].at \in Nat /\ image[n].bytes \in Seq(LoadedBytes)
              /\ Len(image[n].bytes) \in Nat /\ EndOf(image[n]) \in Nat
              /\ image[n].at <= EndOf(image[n])
              /\ \A k \in 1 .. Len(image[n].bytes) : image[n].bytes[k] \in LoadedBytes
         /\ \A n, m \in 1 .. Len(image) : n < m => EndOf(image[n]) <= image[m].at
         /\ End = EndOf(image[Len(image)])
<1>1. /\ image \in Seq(Segments) /\ image # <<>>
      /\ \A n, m \in DOMAIN image : n < m => image[n].at + Len(image[n].bytes) <= image[m].at
  BY ImagesAssumption
<1>2. Len(image) \in Nat \ {0} /\ DOMAIN image = 1 .. Len(image)  BY <1>1
<1>3. \A n \in 1 .. Len(image) : image[n] \in Segments  BY <1>1
<1>4. \A n \in 1 .. Len(image) :
        /\ image[n].at \in Nat /\ image[n].bytes \in Seq(LoadedBytes) /\ Len(image[n].bytes) \in Nat
        /\ EndOf(image[n]) \in Nat /\ image[n].at <= EndOf(image[n])
  BY <1>3 DEF Segments, LoadedBytes, EndOf
<1>5. \A n \in 1 .. Len(image) : \A k \in 1 .. Len(image[n].bytes) : image[n].bytes[k] \in LoadedBytes
  BY <1>4
<1>6. End = EndOf(image[Len(image)])  BY DEF End, EndOf, Last
<1> QED  BY <1>1, <1>2, <1>4, <1>5, <1>6 DEF EndOf

\* A segment holds the addresses from its first to its end.
LEMMA HoldsMeans ==
  ASSUME image \in Images, NEW m \in 1 .. Len(image), NEW a \in Nat
  PROVE  Holds(image[m], a) <=> image[m].at <= a /\ a < EndOf(image[m])
<1>1. image[m].at \in Nat /\ Len(image[m].bytes) \in Nat  BY ImageFacts
<1> QED  BY <1>1 DEF Holds, EndOf

\* A byte of a segment is what its address is meant to hold, ...
LEMMA ByteOfSegment ==
  ASSUME image \in Images, NEW n \in 1 .. Len(image), NEW k \in 1 .. Len(image[n].bytes)
  PROVE  ByteMeant(image[n].at + k - 1) = image[n].bytes[k]
<1> DEFINE a == image[n].at + k - 1
           c == CHOOSE m \in DOMAIN image : Holds(image[m], a)
<1>1. DOMAIN image = 1 .. Len(image) /\ Len(image) \in Nat  BY ImageFacts
<1>2. image[n].at \in Nat /\ Len(image[n].bytes) \in Nat /\ k \in Nat  BY ImageFacts
<1>3. a \in Nat /\ a - image[n].at = k - 1  BY <1>2
<1>4. Holds(image[n], a)  BY <1>2, <1>3 DEF Holds
<1>5. \A m \in 1 .. Len(image) : Holds(image[m], a) =>
        image[m].at <= a /\ a < EndOf(image[m])
  <2> HIDE DEF a
  <2> QED  BY <1>3, HoldsMeans
<1>6. \A m \in 1 .. Len(image) : Holds(image[m], a) => m = n
  <2> HIDE DEF a
  <2> TAKE m \in 1 .. Len(image)
  <2> SUFFICES ASSUME Holds(image[m], a) PROVE m = n  OBVIOUS
  <2>1. /\ image[m].at <= a /\ a < EndOf(image[m])
        /\ image[n].at <= a /\ a < EndOf(image[n])
    BY <1>4, <1>5
  <2>2. /\ image[m].at \in Nat /\ EndOf(image[m]) \in Nat
        /\ image[n].at \in Nat /\ EndOf(image[n]) \in Nat
    BY ImageFacts
  <2>3. ~ m < n
    <3>1. m < n => EndOf(image[m]) <= image[n].at  BY ImageFacts
    <3> QED  BY <1>3, <2>1, <2>2, <3>1
  <2>4. ~ n < m
    <3>1. n < m => EndOf(image[n]) <= image[m].at  BY ImageFacts
    <3> QED  BY <1>3, <2>1, <2>2, <3>1
  <2> QED  BY <1>1, <2>3, <2>4
<1>7. c = n
  <2>1. n \in DOMAIN image  BY <1>1
  <2> HIDE DEF a
  <2>2. c \in DOMAIN image /\ Holds(image[c], a)  BY <1>4, <2>1
  <2> QED  BY <1>1, <1>6, <2>2
<1>8. ByteMeant(a) = image[n].bytes[a - image[n].at + 1]
  <2>1. \E m \in DOMAIN image : Holds(image[m], a)  BY <1>1, <1>4
  <2>2. ByteMeant(a) = image[c].bytes[a - image[c].at + 1]
    <3> HIDE DEF a
    <3> QED  BY <2>1 DEF ByteMeant
  <2> QED  BY <1>7, <2>2
<1>9. a - image[n].at + 1 = k  BY <1>2
<1> QED  BY <1>8, <1>9

\* ... and a byte between two of them is zero.
LEMMA ByteOfGap ==
  ASSUME image \in Images, NEW n \in 1 .. Len(image) - 1, NEW a \in Nat,
         EndOf(image[n]) <= a, a < image[n + 1].at
  PROVE  ByteMeant(a) = 0
<1>1. DOMAIN image = 1 .. Len(image) /\ Len(image) \in Nat  BY ImageFacts
<1>2. ASSUME NEW m \in 1 .. Len(image), Holds(image[m], a) PROVE FALSE
  <2>1. /\ image[m].at \in Nat /\ EndOf(image[m]) \in Nat
        /\ n \in 1 .. Len(image) /\ n + 1 \in 1 .. Len(image)
    BY <1>1, ImageFacts
  <2>2. image[m].at <= a /\ a < EndOf(image[m])
    BY <1>2, HoldsMeans
  <2>3. EndOf(image[n]) \in Nat /\ image[n].at \in Nat /\ image[n].at <= EndOf(image[n])
        /\ image[n + 1].at \in Nat /\ EndOf(image[n + 1]) \in Nat /\ image[n + 1].at <= EndOf(image[n + 1])
    BY <2>1, ImageFacts
  <2>4. CASE m <= n
    <3>1. m < n => EndOf(image[m]) <= image[n].at  BY <2>1, ImageFacts
    <3>2. m = n => EndOf(image[m]) = EndOf(image[n])  OBVIOUS
    <3> QED  BY <1>1, <2>1, <2>2, <2>3, <2>4, <3>1, <3>2
  <2>5. CASE m > n
    <3>1. n + 1 < m => EndOf(image[n + 1]) <= image[m].at  BY <2>1, ImageFacts
    <3>2. n + 1 = m => image[m].at = image[n + 1].at  OBVIOUS
    <3> QED  BY <1>1, <2>1, <2>2, <2>3, <2>5, <3>1, <3>2
  <2> QED  BY <1>1, <2>4, <2>5
<1> QED  BY <1>1, <1>2 DEF ByteMeant

\* No byte that is meant to be loaded is special.
LEMMA PlainBytes ==
  ASSUME image \in Images, PlainImages, NEW a \in Nat
  PROVE  ByteMeant(a) \in LoadedBytes \ Special
<1>1. DOMAIN image = 1 .. Len(image)  BY ImageFacts
<1>2. CASE \E m \in DOMAIN image : Holds(image[m], a)
  <2> DEFINE c == CHOOSE m \in DOMAIN image : Holds(image[m], a)
  <2>1. c \in DOMAIN image /\ Holds(image[c], a)  BY <1>2
  <2>2. ByteMeant(a) = image[c].bytes[a - image[c].at + 1]  BY <1>2 DEF ByteMeant
  <2> HIDE DEF c
  <2>3. image[c].at \in Nat /\ Len(image[c].bytes) \in Nat /\ image[c].bytes \in Seq(LoadedBytes)
    BY <1>1, <2>1, ImageFacts
  <2>4. a - image[c].at + 1 \in 1 .. Len(image[c].bytes)  BY <2>1, <2>3 DEF Holds
  <2>5. DOMAIN image[c].bytes = 1 .. Len(image[c].bytes)  BY <2>3
  <2>6. ByteMeant(a) \in Bytes(image[c].bytes)  BY <2>2, <2>4, <2>5 DEF Bytes
  <2>7. ByteMeant(a) \in LoadedBytes  BY <2>2, <2>3, <2>4
  <2> QED  BY <2>1, <2>6, <2>7 DEF PlainImages
<1>3. CASE ~ \E m \in DOMAIN image : Holds(image[m], a)
  BY <1>3 DEF ByteMeant, LoadedBytes, Special, Dollar, Hash
<1> QED  BY <1>2, <1>3

\* The pieces of a line and of what is left of it.
LEMMA Pieces ==
  ASSUME NEW S, NEW s \in Seq(S), NEW c \in 0 .. Len(s)
  PROVE  /\ SubSeq(s, 1, c) \in Seq(S) /\ Len(SubSeq(s, 1, c)) = c
         /\ \A k \in 1 .. c : SubSeq(s, 1, c)[k] = s[k]
         /\ SubSeq(s, c + 1, Len(s)) \in Seq(S) /\ Len(SubSeq(s, c + 1, Len(s))) = Len(s) - c
         /\ \A k \in 1 .. Len(s) - c : SubSeq(s, c + 1, Len(s))[k] = s[c + k]
OBVIOUS

\* What two sequences are together, ...
LEMMA Joined ==
  ASSUME NEW S, NEW s \in Seq(S), NEW t \in Seq(S)
  PROVE  /\ s \o t \in Seq(S) /\ Len(s \o t) = Len(s) + Len(t)
         /\ \A k \in 1 .. Len(s) : (s \o t)[k] = s[k]
         /\ \A k \in 1 .. Len(t) : (s \o t)[Len(s) + k] = t[k]
OBVIOUS

\* ... and what is left without the first item.
LEMMA Rest ==
  ASSUME NEW S, NEW s \in Seq(S), s # <<>>
  PROVE  /\ Head(s) = s[1] /\ s[1] \in S /\ Tail(s) \in Seq(S) /\ Len(Tail(s)) = Len(s) - 1
         /\ Len(s) \in Nat \ {0}
         /\ \A k \in 1 .. Len(s) - 1 : Tail(s)[k] = s[k + 1]
OBVIOUS

\* What is meant depends on the image alone.
LEMMA SameImage ==
  ASSUME image' = image
  PROVE  /\ \A a : ByteMeant(a)' = ByteMeant(a)
         /\ FirstAddress' = FirstAddress /\ End' = End
  BY DEF ByteMeant, FirstAddress, End, Holds

\* After a line, the line to come is the next one of the segment or the address
\* of the next segment.
LEMMA FileStep ==
  ASSUME image \in Images, FileInv, NEW left \in Seq(LoadedBytes), ReadLine(left), ~first',
         NEW n, n = Len(image) - Len(file) + 1,
         addr' - image[n].at \in 0 .. Len(image[n].bytes),
         Len(left) = Len(image[n].bytes) - (addr' - image[n].at),
         \A k \in 1 .. Len(left) : left[k] = image[n].bytes[addr' - image[n].at + k],
         addr' \in Nat
  PROVE  FileInv'
<1> DEFINE FileType == [at : Nat \cup {NoAddress}, bytes : Seq(LoadedBytes)]
           rest == [at |-> NoAddress, bytes |-> left]
<1>1. /\ file \in Seq(FileType) /\ file # <<>> /\ image' = image
      /\ file' = (IF left = <<>> THEN <<>> ELSE <<rest>>) \o Tail(file)
  BY DEF FileInv, ReadLine
<1>2. rest \in FileType  OBVIOUS
<1> HIDE DEF FileType
<1>3. /\ Tail(file) \in Seq(FileType) /\ Len(Tail(file)) = Len(file) - 1 /\ Len(file) \in Nat \ {0}
      /\ \A k \in 1 .. Len(file) - 1 : Tail(file)[k] = file[k + 1]
  BY <1>1, Rest
<1>4. Len(file) <= Len(image) /\ Len(image) \in Nat \ {0}  BY ImageFacts DEF FileInv
<1>5. \A j \in 2 .. Len(file) : file[j] = image[n + j - 1]  BY DEF FileInv
<1>6. n \in 1 .. Len(image)  BY <1>3, <1>4
<1>7. /\ image[n].at \in Nat /\ Len(image[n].bytes) \in Nat /\ EndOf(image[n]) = image[n].at + Len(image[n].bytes)
      /\ End = EndOf(image[Len(image)])
  BY <1>6, ImageFacts DEF EndOf
<1>8. CASE left # <<>>
  <2>1. <<rest>> \in Seq(FileType) /\ Len(<<rest>>) = 1 /\ <<rest>>[1] = rest
    <3> HIDE DEF rest
    <3> QED  BY <1>2
  <2>2. file' = <<rest>> \o Tail(file)  BY <1>1, <1>8
  <2>3. /\ file' \in Seq(FileType) /\ Len(file') = Len(file) /\ file'[1] = rest
        /\ \A k \in 1 .. Len(file) - 1 : file'[1 + k] = Tail(file)[k]
    <3> HIDE DEF rest
    <3> QED  BY <1>3, <2>1, <2>2, Joined
  <2>4. \A j \in 2 .. Len(file') : file'[j] = image[n + j - 1]
    <3> TAKE j \in 2 .. Len(file')
    <3>1. j - 1 \in 1 .. Len(file) - 1 /\ 1 + (j - 1) = j  BY <1>3, <2>3
    <3>2. file'[1 + (j - 1)] = Tail(file)[j - 1]  BY <2>3, <3>1
    <3>3. Tail(file)[j - 1] = file[(j - 1) + 1]  BY <1>3, <3>1
    <3>4. file'[j] = file[j] /\ j \in 2 .. Len(file)  BY <2>3, <3>1, <3>2, <3>3
    <3> QED  BY <1>5, <3>4
  <2>5. n = Len(image') - Len(file') + 1  BY <1>1, <2>3
  <2>6. HeadInv(n)'
    <3>1. rest.at = NoAddress /\ rest.bytes = left  OBVIOUS
    <3> HIDE DEF rest
    <3> QED  BY <1>1, <2>3, <3>1 DEF HeadInv
  <2>7. file' # <<>>  BY <1>3, <2>3
  <2> QED  BY <1>1, <1>4, <2>3, <2>4, <2>5, <2>6, <2>7 DEF FileInv, FileType
<1>9. CASE left = <<>>
  <2>1. file' = Tail(file)  BY <1>1, <1>3, <1>9
  <2>0. Len(file') = Len(file) - 1 /\ Len(image') = Len(image) /\ file' \in Seq(FileType)
    BY <1>1, <1>3, <2>1
  <2>2. n + 1 = Len(image') - Len(file') + 1 /\ Len(file') <= Len(image')
    BY <1>3, <1>4, <2>0
  <2>3. \A j \in 1 .. Len(file') : file'[j] = image[(n + 1) + j - 1]
    <3> TAKE j \in 1 .. Len(file')
    <3>1. j + 1 \in 2 .. Len(file) /\ file'[j] = file[j + 1]  BY <1>3, <2>1
    <3>2. file[j + 1] = image[n + (j + 1) - 1]  BY <1>5, <3>1
    <3>3. n + (j + 1) - 1 = (n + 1) + j - 1  BY <1>6
    <3> QED  BY <3>1, <3>2, <3>3
  <2>4. addr' = EndOf(image[n])
    <3> DEFINE d == addr' - image[n].at  L == Len(image[n].bytes)
    <3>1. Len(left) = 0  BY <1>9
    <3>2. d \in 0 .. L /\ 0 = L - d /\ L \in Nat  BY <1>7, <3>1
    <3>3. addr' = image[n].at + d  BY <1>7
    <3> HIDE DEF d, L
    <3>4. d = L  BY <3>2
    <3> QED  BY <1>7, <3>3, <3>4 DEF L
  <2>5. file' # <<>> => HeadInv(n + 1)'
    <3> SUFFICES ASSUME file' # <<>> PROVE HeadInv(n + 1)'  OBVIOUS
    <3>1. 1 \in 1 .. Len(file')  BY <1>3, <2>1
    <3>2. file'[1] = image'[n + 1]
      <4>1. (n + 1) + 1 - 1 = n + 1  BY <1>6
      <4> QED  BY <1>1, <2>3, <3>1, <4>1
    <3>3. n + 1 # 1 /\ (n + 1) - 1 = n  BY <1>6
    <3>4. EndOf(image'[(n + 1) - 1]) = EndOf(image[n])  BY <1>1, <3>3
    <3> QED  BY <1>1, <2>4, <3>2, <3>3, <3>4 DEF HeadInv, EndOf
  <2>6. file' = <<>> => addr' = End'
    <3> SUFFICES ASSUME file' = <<>> PROVE addr' = End'  OBVIOUS
    <3>1. n = Len(image)  BY <1>1, <1>3, <1>4, <2>1, <2>2
    <3> QED  BY <1>1, <1>7, <2>4, <3>1, SameImage
  <2>7. \A j \in 2 .. Len(file') : file'[j] = image'[(n + 1) + j - 1]
    <3> TAKE j \in 2 .. Len(file')
    <3>1. j \in 1 .. Len(file')  BY <1>3, <2>0
    <3>2. file'[j] = image[(n + 1) + j - 1]  BY <2>3, <3>1
    <3> QED  BY <1>1, <3>2
  <2> QED  BY <2>0, <2>2, <2>5, <2>6, <2>7 DEF FileInv, FileType
<1> QED  BY <1>8, <1>9

\* Bytes added to those read, as they are meant at the addresses that follow.
LEMMA DataStep ==
  ASSUME image \in Images, DataInv, image' = image, ~first', NEW more \in Seq(LoadedBytes),
         darray' = darray \o more,
         \A k \in 1 .. Len(more) : more[k] = ByteMeant(FirstAddress + Len(darray) + k - 1),
         addr' = FirstAddress + Len(darray) + Len(more)
  PROVE  DataInv'
<1>1. darray \in Seq(LoadedBytes) /\ \A k \in 1 .. Len(darray) : darray[k] = ByteMeant(FirstAddress + k - 1)
  BY DEF DataInv
<1>2. /\ darray' \in Seq(LoadedBytes) /\ Len(darray') = Len(darray) + Len(more)
      /\ \A k \in 1 .. Len(darray) : darray'[k] = darray[k]
      /\ \A k \in 1 .. Len(more) : darray'[Len(darray) + k] = more[k]
  BY <1>1, Joined
<1>3. Len(darray) \in Nat /\ Len(more) \in Nat /\ FirstAddress \in Nat
  BY <1>1, ImageFacts DEF FirstAddress
<1>4. ASSUME NEW k \in 1 .. Len(darray')
      PROVE  darray'[k] = ByteMeant(FirstAddress + k - 1)
  <2>1. CASE k <= Len(darray)
    BY <1>1, <1>2, <1>3, <2>1
  <2>2. CASE k > Len(darray)
    <3>1. k - Len(darray) \in 1 .. Len(more) /\ Len(darray) + (k - Len(darray)) = k
          /\ FirstAddress + Len(darray) + (k - Len(darray)) - 1 = FirstAddress + k - 1
      BY <1>2, <1>3, <2>2
    <3> QED  BY <1>2, <3>1
  <2> QED  BY <1>3, <2>1, <2>2
<1>5. addr' = FirstAddress + Len(darray')  BY <1>2, <1>3
<1> QED  BY <1>2, <1>4, <1>5, SameImage DEF DataInv

\* Nothing is loaded while the file is read.
LEMMA ConvertLoad ==
  ASSUME WordsInv, image' = image, stage = "convert", stage' = "convert", target_memory' = target_memory
  PROVE  WordsInv'
  BY DEF WordsInv, Stages

\* The address of a segment.
LEMMA AddressStep ==
  ASSUME ImageIInv, extractAddress
  PROVE  ImageIInv'
<1> DEFINE n == Len(image) - Len(file) + 1
           more == Missing(Head(file).at)
<1>1. /\ ReadLine(Head(file).bytes) /\ Head(file).at # NoAddress /\ ~first'
      /\ darray' = darray \o more /\ addr' = Head(file).at
  BY DEF extractAddress
<1>2. file # <<>> /\ image' = image /\ stage = "convert" /\ stage' = "convert" /\ target_memory' = target_memory
  BY <1>1 DEF ReadLine
<1>3. image \in Images /\ DataInv /\ FileInv /\ WordsInv  BY DEF ImageIInv
<1>4. Head(file) = file[1]  BY <1>2, <1>3, Rest DEF FileInv
<1>5. n \in 1 .. Len(image) /\ Len(image) \in Nat /\ Len(file) \in Nat \ {0}
  BY <1>2, <1>3, ImageFacts DEF FileInv
<1>6. file[1] = image[n] /\ (IF n = 1 THEN first ELSE ~first /\ addr = EndOf(image[n - 1]))
  BY <1>1, <1>2, <1>3, <1>4 DEF FileInv, HeadInv
<1>7. /\ image[n].at \in Nat /\ image[n].bytes \in Seq(LoadedBytes) /\ Len(image[n].bytes) \in Nat
  BY <1>3, <1>5, ImageFacts
<1>8. addr' = image[n].at  BY <1>1, <1>4, <1>6
<1> HIDE DEF n
<1>9. FileInv'
  <2> DEFINE left == Head(file).bytes
  <2>1. left = image[n].bytes  BY <1>4, <1>6
  <2> HIDE DEF left
  <2>2. ReadLine(left)  BY <1>1 DEF left
  <2>3. n = Len(image) - Len(file) + 1  BY DEF n
  <2>4. addr' - image[n].at = 0  BY <1>7, <1>8
  <2>5. /\ addr' - image[n].at \in 0 .. Len(image[n].bytes)
        /\ Len(left) = Len(image[n].bytes) - (addr' - image[n].at)
        /\ left \in Seq(LoadedBytes)
    BY <1>7, <2>1, <2>4
  <2>6. \A k \in 1 .. Len(left) : left[k] = image[n].bytes[addr' - image[n].at + k]
    BY <1>7, <2>1, <2>4
  <2>7. ~first' /\ addr' \in Nat  BY <1>1, <1>7, <1>8
  <2> QED  BY <1>3, <2>2, <2>3, <2>5, <2>6, <2>7, FileStep
<1>10. DataInv'
  <2>1. FirstAddress \in Nat /\ Len(darray) \in Nat /\ darray \in Seq(LoadedBytes)
    BY <1>3, ImageFacts DEF DataInv, FirstAddress
  <2>2. CASE n = 1
    <3>1. more = <<>> /\ darray = <<>>  BY <1>3, <1>6, <2>2 DEF Missing, DataInv
    <3> HIDE DEF more
    <3>2. more \in Seq(LoadedBytes) /\ Len(more) = 0 /\ Len(darray) = 0  BY <3>1
    <3>3. addr' = FirstAddress + Len(darray) + Len(more)  BY <1>8, <2>1, <2>2, <3>2 DEF FirstAddress
    <3>4. \A k \in 1 .. Len(more) : more[k] = ByteMeant(FirstAddress + Len(darray) + k - 1)  BY <3>2
    <3>5. ~first' /\ darray' = darray \o more  BY <1>1
    <3> QED  BY <1>2, <1>3, <3>2, <3>3, <3>4, <3>5, DataStep
  <2>3. CASE n # 1
    <3>1. ~first /\ addr = EndOf(image[n - 1]) /\ n - 1 \in 1 .. Len(image) - 1 /\ (n - 1) + 1 = n
      BY <1>5, <1>6, <2>3
    <3>2. addr = FirstAddress + Len(darray)  BY <1>3, <3>1 DEF DataInv
    <3>3. addr \in Nat /\ addr <= image[n].at
      <4>1. n - 1 \in 1 .. Len(image) /\ n - 1 < n  BY <1>5, <3>1
      <4>2. EndOf(image[n - 1]) <= image[n].at  BY <1>3, <1>5, <4>1, ImageFacts
      <4> QED  BY <2>1, <3>1, <3>2, <4>2
    <3>4. more = [r \in 1 .. image[n].at - addr |-> 0]  BY <1>4, <1>6, <3>1 DEF Missing
    <3> HIDE DEF more
    <3>5. more \in Seq(LoadedBytes) /\ Len(more) = image[n].at - addr /\ \A k \in 1 .. Len(more) : more[k] = 0
      BY <1>7, <3>3, <3>4 DEF LoadedBytes
    <3>6. addr' = FirstAddress + Len(darray) + Len(more)  BY <1>7, <1>8, <2>1, <3>2, <3>5
    <3>7. ASSUME NEW k \in 1 .. Len(more)
          PROVE  more[k] = ByteMeant(FirstAddress + Len(darray) + k - 1)
      <4> DEFINE a == FirstAddress + Len(darray) + k - 1
      <4>1. a \in Nat /\ addr <= a /\ a < image[n].at
        BY <1>7, <2>1, <3>2, <3>3, <3>5
      <4> HIDE DEF a
      <4>2. ByteMeant(a) = 0  BY <1>3, <3>1, <4>1, ByteOfGap
      <4> QED  BY <3>5, <4>2 DEF a
    <3> QED  BY <1>1, <1>2, <1>3, <3>5, <3>6, <3>7, DataStep
  <2> QED  BY <2>2, <2>3
<1>11. WordsInv'  BY <1>2, <1>3, ConvertLoad
<1> QED  BY <1>2, <1>3, <1>9, <1>10, <1>11 DEF ImageIInv

\* A line of bytes.
LEMMA LineStep ==
  ASSUME ImageIInv, file # <<>>, NEW cnt \in 1 .. Len(Head(file).bytes), parseLine(cnt)
  PROVE  ImageIInv'
<1> DEFINE n == Len(image) - Len(file) + 1
           b == Head(file).bytes
           more == SubSeq(b, 1, cnt)
           left == SubSeq(b, cnt + 1, Len(b))
           at == image[n].at
           B == image[n].bytes
<1>1. /\ ReadLine(left) /\ Head(file).at = NoAddress /\ first' = first
      /\ darray' = darray \o more /\ addr' = addr + cnt
  BY DEF parseLine
<1>2. image' = image /\ stage = "convert" /\ stage' = "convert" /\ target_memory' = target_memory
  BY <1>1 DEF ReadLine
<1>3. image \in Images /\ DataInv /\ FileInv /\ WordsInv  BY DEF ImageIInv
<1>4. Head(file) = file[1] /\ b \in Seq(LoadedBytes)
  <2>1. file \in Seq([at : Nat \cup {NoAddress}, bytes : Seq(LoadedBytes)])  BY <1>3 DEF FileInv
  <2>2. Head(file) = file[1] /\ file[1] \in [at : Nat \cup {NoAddress}, bytes : Seq(LoadedBytes)]
    BY <2>1, Rest
  <2> QED  BY <2>2
<1>5. n \in 1 .. Len(image) /\ Len(image) \in Nat /\ Len(file) \in Nat \ {0}
  BY <1>3, ImageFacts DEF FileInv
<1>6. at \in Nat /\ B \in Seq(LoadedBytes) /\ Len(B) \in Nat
  BY <1>3, <1>5, ImageFacts
<1>7. file[1].at # image[n].at
  <2>1. file[1].at = NoAddress  BY <1>1, <1>4
  <2> QED  BY <1>6, <2>1 DEF NoAddress
<1>8. /\ ~first /\ addr - at \in 0 .. Len(B)
      /\ Len(b) = Len(B) - (addr - at)
      /\ \A k \in 1 .. Len(b) : b[k] = B[addr - at + k]
  BY <1>3, <1>4, <1>7 DEF FileInv, HeadInv
<1>9. /\ more \in Seq(LoadedBytes) /\ Len(more) = cnt /\ \A k \in 1 .. cnt : more[k] = b[k]
      /\ left \in Seq(LoadedBytes) /\ Len(left) = Len(b) - cnt
      /\ \A k \in 1 .. Len(b) - cnt : left[k] = b[cnt + k]
  <2>1. cnt \in 0 .. Len(b)  BY <1>4
  <2> HIDE DEF b
  <2> QED  BY <1>4, <2>1, Pieces
<1>10. FirstAddress \in Nat /\ Len(darray) \in Nat /\ darray \in Seq(LoadedBytes) /\ addr = FirstAddress + Len(darray)
  BY <1>3, <1>8, ImageFacts DEF DataInv, FirstAddress
<1>11. cnt \in 1 .. Len(b) /\ Len(b) \in Nat  BY <1>4
<1> HIDE DEF n, b, more, left, at, B
<1>12. FileInv'
  <2>1. n = Len(image) - Len(file) + 1  BY DEF n
  <2>2. addr' - at = (addr - at) + cnt /\ addr' \in Nat  BY <1>1, <1>6, <1>10, <1>11
  <2>3. addr' - at \in 0 .. Len(B) /\ Len(left) = Len(B) - (addr' - at)
    <3> DEFINE d == addr - at  lB == Len(B)  lb == Len(b)
    <3>1. d \in 0 .. lB /\ lb = lB - d /\ lB \in Nat /\ Len(left) = lb - cnt /\ cnt \in 1 .. lb
          /\ addr' - at = d + cnt
      BY <1>6, <1>8, <1>9, <1>11, <2>2
    <3> HIDE DEF d, lb, lB
    <3>2. d + cnt \in 0 .. lB /\ lb - cnt = lB - (d + cnt)  BY <3>1
    <3> QED  BY <3>1, <3>2 DEF lB
  <2>4. \A k \in 1 .. Len(left) : left[k] = B[addr' - at + k]
    <3> TAKE k \in 1 .. Len(left)
    <3>1. k \in 1 .. Len(b) - cnt /\ cnt + k \in 1 .. Len(b)  BY <1>9, <1>11
    <3>2. left[k] = B[(addr - at) + (cnt + k)]  BY <1>8, <1>9, <3>1
    <3>3. (addr - at) + (cnt + k) = addr' - at + k  BY <1>6, <1>10, <1>11, <2>2, <3>1
    <3> QED  BY <3>2, <3>3
  <2> QED  BY <1>1, <1>3, <1>8, <1>9, <2>1, <2>2, <2>3, <2>4, FileStep DEF at, B
<1>13. DataInv'
  <2>1. addr' = FirstAddress + Len(darray) + Len(more)  BY <1>1, <1>9, <1>10, <1>11
  <2>2. ASSUME NEW k \in 1 .. Len(more)
        PROVE  more[k] = ByteMeant(FirstAddress + Len(darray) + k - 1)
    <3> DEFINE j == addr - at + k
    <3>1. k \in 1 .. Len(b) /\ more[k] = B[j]  BY <1>8, <1>9, <1>11
    <3>2. j \in 1 .. Len(B)  BY <1>6, <1>8, <1>10, <1>11, <3>1
    <3>3. at + j - 1 = FirstAddress + Len(darray) + k - 1  BY <1>6, <1>10, <3>1
    <3> HIDE DEF j
    <3>4. ByteMeant(at + j - 1) = B[j]  BY <1>3, <1>5, <3>2, ByteOfSegment DEF at, B
    <3> QED  BY <3>1, <3>3, <3>4
  <2> QED  BY <1>1, <1>2, <1>3, <1>8, <1>9, <2>1, <2>2, DataStep
<1>14. WordsInv'  BY <1>2, <1>3, ConvertLoad
<1> QED  BY <1>2, <1>3, <1>12, <1>13, <1>14 DEF ImageIInv

\* The file and what was read of it, left alone.
LEMMA KeptImage ==
  ASSUME image \in Images, DataInv, FileInv, UNCHANGED <<image, file, first, addr, darray>>
  PROVE  image' \in Images /\ DataInv' /\ FileInv'
<1>1. DataInv'  BY SameImage DEF DataInv
<1>2. \A n : HeadInv(n)' = HeadInv(n)  BY DEF HeadInv, EndOf
<1>3. FileInv'  BY <1>2, SameImage DEF FileInv
<1> QED  BY <1>1, <1>3

\* The words of the output file.
LEMMA OutputStep ==
  ASSUME ImageIInv, bus_width = 4, outdata
  PROVE  ImageIInv'
<1>1. /\ stage = "convert" /\ stage' = "open" /\ file = <<>>
      /\ final' = [w \in 1 .. Len(darray) \div bus_width |->
                     Reverse(SubSeq(darray, (w - 1) * bus_width + 1, w * bus_width))]
      /\ UNCHANGED <<image, file, first, addr, darray, address, target_memory>>
  BY DEF outdata
<1>2. image \in Images /\ DataInv /\ FileInv /\ WordsInv  BY DEF ImageIInv
<1>3. image' \in Images /\ DataInv' /\ FileInv'  BY <1>1, <1>2, KeptImage
<1>4. final' = [w \in 1 .. WordCount' |-> WordAt(w)']
  BY <1>1 DEF WordCount, WordAt
<1>5. target_memory' = [a \in 0 .. MemoryTop - 1 |-> Untouched]
  BY <1>1, <1>2 DEF WordsInv
<1>6. WordsInv'
  BY <1>1, <1>4, <1>5 DEF WordsInv, Stages
<1> QED  BY <1>3, <1>6 DEF ImageIInv

\* The file is opened: nothing is loaded yet.
LEMMA OpenStep ==
  ASSUME ImageIInv, OpenFile
  PROVE  ImageIInv'
<1>1. /\ stage = "open" /\ stage' = "load" /\ address' = FirstAddress
      /\ UNCHANGED <<image, file, first, addr, darray, final, target_memory>>
  BY DEF OpenFile, FirstAddress
<1>2. image \in Images /\ DataInv /\ FileInv /\ WordsInv  BY DEF ImageIInv
<1>3. image' \in Images /\ DataInv' /\ FileInv'  BY <1>1, <1>2, KeptImage
<1>4. Len(darray) \in Nat /\ FirstAddress \in Nat  BY <1>2, ImageFacts DEF DataInv, FirstAddress
<1>5. WordCount \in Nat  BY <1>4 DEF WordCount
<1>6. WordCount' = WordCount /\ \A w : WordAt(w)' = WordAt(w)  BY <1>1 DEF WordCount, WordAt
<1>7. FirstAddress' = FirstAddress /\ address' = FirstAddress + 4 * 0  BY <1>1, <1>4, SameImage
<1>8. final' = [w \in 1 .. WordCount - 0 |-> WordAt(0 + w)]
  <2>1. final = [w \in 1 .. WordCount |-> WordAt(w)]  BY <1>1, <1>2 DEF WordsInv
  <2>2. WordCount - 0 = WordCount /\ \A w \in 1 .. WordCount : 0 + w = w  BY <1>5
  <2> QED  BY <1>1, <2>1, <2>2
<1>9. \E n \in 0 .. WordCount' : /\ address' = FirstAddress' + 4 * n
                                 /\ final' = [w \in 1 .. WordCount' - n |-> WordAt(n + w)']
  <2>1. 0 \in 0 .. WordCount  BY <1>5
  <2> QED  BY <1>6, <1>7, <1>8, <2>1
<1>10. target_memory' = [a \in 0 .. MemoryTop - 1 |->
         IF stage' \in {"load", "loaded"} /\ a \in FirstAddress' .. address' - 1 THEN ByteMeant(a)' ELSE Untouched]
  <2>1. \A a \in 0 .. MemoryTop - 1 : a \notin FirstAddress' .. address' - 1
    <3>1. MemoryTop \in Nat  BY ImagesAssumption
    <3> QED  BY <1>1, <1>4, <1>7, <3>1
  <2>2. target_memory = [a \in 0 .. MemoryTop - 1 |-> Untouched]  BY <1>1, <1>2 DEF WordsInv
  <2> QED  BY <1>1, <2>1, <2>2
<1>11. stage' \in Stages /\ (stage' # "convert" => file' = <<>>)
  BY <1>1, <1>2 DEF WordsInv, Stages
<1>12. WordsInv'
  BY <1>1, <1>9, <1>10, <1>11 DEF WordsInv
<1> QED  BY <1>3, <1>12 DEF ImageIInv

\* Four items turned round.
LEMMA Reversed ==
  ASSUME NEW S, NEW s \in Seq(S), Len(s) = 4
  PROVE  Reverse(s) \in Seq(S) /\ Len(Reverse(s)) = 4 /\ \A j \in 1 .. 4 : Reverse(s)[j] = s[4 - j + 1]
<1>1. Reverse(s) = [j \in 1 .. 4 |-> s[(4 - j) + 1]]  BY DEF Reverse
<1>2. \A j \in 1 .. 4 : s[(4 - j) + 1] \in S  OBVIOUS
<1>3. Reverse(s) \in [1 .. 4 -> S]  BY <1>1, <1>2
<1>4. Reverse(s) \in Seq(S) /\ Len(Reverse(s)) = 4  BY <1>3
<1> QED  BY <1>1, <1>4

\* The packet of a word has the bytes meant for its four addresses.
LEMMA WordBytes ==
  ASSUME image \in Images, DataInv, NEW n \in 0 .. WordCount - 1
  PROVE  LET b == hex_to_ascii(WordAt(n + 1))
         IN b \in Seq(LoadedBytes) /\ Len(b) = 4 /\ \A j \in 1 .. 4 : b[j] = ByteMeant(FirstAddress + 4 * n + j - 1)
<1> DEFINE b == hex_to_ascii(WordAt(n + 1))
           s == SubSeq(darray, n * 4 + 1, (n + 1) * 4)
<1>1. /\ darray \in Seq(LoadedBytes) /\ Len(darray) \in Nat /\ FirstAddress \in Nat
      /\ \A k \in 1 .. Len(darray) : darray[k] = ByteMeant(FirstAddress + k - 1)
  BY ImageFacts DEF DataInv, FirstAddress
<1>2. n \in Nat /\ (n + 1) * 4 <= Len(darray)  BY <1>1 DEF WordCount
<1>3. s \in Seq(LoadedBytes) /\ Len(s) = 4 /\ \A j \in 1 .. 4 : s[j] = darray[4 * n + j]
  BY <1>1, <1>2
<1>4. WordAt(n + 1) = Reverse(s)
  <2>1. (n + 1) - 1 = n  BY <1>2
  <2> QED  BY <2>1 DEF WordAt
<1> HIDE DEF s
<1>5. Reverse(s) \in Seq(LoadedBytes) /\ Len(Reverse(s)) = 4 /\ \A j \in 1 .. 4 : Reverse(s)[j] = s[4 - j + 1]
  BY <1>3, Reversed
<1>6. b = Reverse(Reverse(s))  BY <1>4 DEF hex_to_ascii
<1>7. /\ Reverse(Reverse(s)) \in Seq(LoadedBytes) /\ Len(Reverse(Reverse(s))) = 4
      /\ \A j \in 1 .. 4 : Reverse(Reverse(s))[j] = Reverse(s)[4 - j + 1]
  <2> DEFINE t == Reverse(s)
  <2> HIDE DEF t
  <2>1. t \in Seq(LoadedBytes) /\ Len(t) = 4  BY <1>5 DEF t
  <2>2. Reverse(t) \in Seq(LoadedBytes) /\ Len(Reverse(t)) = 4 /\ \A j \in 1 .. 4 : Reverse(t)[j] = t[4 - j + 1]
    BY <2>1, Reversed
  <2> QED  BY <2>2 DEF t
<1>8. ASSUME NEW j \in 1 .. 4 PROVE b[j] = ByteMeant(FirstAddress + 4 * n + j - 1)
  <2>1. 4 - j + 1 \in 1 .. 4 /\ 4 - (4 - j + 1) + 1 = j  OBVIOUS
  <2>2. b[j] = Reverse(s)[4 - j + 1] /\ Reverse(s)[4 - j + 1] = s[4 - (4 - j + 1) + 1]
    BY <1>5, <1>6, <1>7, <2>1
  <2>3. b[j] = darray[4 * n + j]  BY <1>3, <2>1, <2>2
  <2>4. 4 * n + j \in 1 .. Len(darray) /\ FirstAddress + (4 * n + j) - 1 = FirstAddress + 4 * n + j - 1  BY <1>1, <1>2
  <2> QED  BY <1>1, <2>3, <2>4
<1> QED  BY <1>6, <1>7, <1>8

\* A sequence of items that are all of a kind.
LEMMA Narrowed ==
  ASSUME NEW S, NEW T, NEW s \in Seq(S), \A j \in 1 .. Len(s) : s[j] \in T
  PROVE  s \in Seq(T)
<1>1. Len(s) \in Nat /\ s = [j \in 1 .. Len(s) |-> s[j]]  OBVIOUS
<1> QED  BY <1>1

\* Bytes none of which is special make a packet whose checksum is right.
LEMMA PlainAccepted ==
  ASSUME NEW b \in Seq(LoadedBytes \ Special)
  PROVE  Accepted([data |-> b, checksum |-> check_sum(b)])
<1>1. \A k \in DOMAIN b : b[k] \in LoadedBytes \ Special  OBVIOUS
<1>2. Hash \notin Bytes(b)  BY <1>1 DEF Bytes, Special
<1>3. [k \in DOMAIN b |-> Counted(b[k])] = [k \in DOMAIN b |-> b[k]]
  BY <1>1 DEF Counted, Special
<1>4. b = [k \in DOMAIN b |-> b[k]]  OBVIOUS
<1>5. check_sum(b) = SumOf(b)  BY <1>3, <1>4 DEF check_sum
<1> QED  BY <1>2, <1>5 DEF Accepted

\* A word is loaded.
LEMMA WordStep ==
  ASSUME ImageIInv, PlainImages, LoadWord
  PROVE  ImageIInv'
<1>1. /\ stage = "load" /\ stage' = "load" /\ final # <<>> /\ final' = Tail(final)
      /\ address' = address + 4 /\ UNCHANGED <<image, file, first, addr, darray>>
  BY Zenon DEF LoadWord
<1>2. image \in Images /\ DataInv /\ FileInv /\ WordsInv  BY DEF ImageIInv
<1>3. image' \in Images /\ DataInv' /\ FileInv'  BY <1>1, <1>2, KeptImage
<1>4. /\ Len(darray) \in Nat /\ FirstAddress \in Nat /\ WordCount \in Nat /\ MemoryTop \in Nat
  BY <1>2, ImageFacts, ImagesAssumption DEF DataInv, FirstAddress, WordCount
<1>5. WordCount' = WordCount /\ (\A w : WordAt(w)' = WordAt(w)) /\ FirstAddress' = FirstAddress
      /\ \A a : ByteMeant(a)' = ByteMeant(a)
  BY <1>1, SameImage DEF WordCount, WordAt
<1>6. PICK n \in 0 .. WordCount :
        address = FirstAddress + 4 * n /\ final = [w \in 1 .. WordCount - n |-> WordAt(n + w)]
  BY <1>1, <1>2 DEF WordsInv
<1> DEFINE WordsLeft == {WordAt(n + w) : w \in 1 .. WordCount - n}
<1>7. final \in Seq(WordsLeft) /\ Len(final) = WordCount - n
  <2> DEFINE K == WordCount - n
  <2>1. K \in Nat /\ DOMAIN final = 1 .. K /\ \A w \in 1 .. K : final[w] \in WordsLeft  BY <1>4, <1>6
  <2>2. final = [w \in 1 .. K |-> final[w]]  BY <1>6
  <2> HIDE DEF WordsLeft, K
  <2>3. final \in Seq(WordsLeft) /\ Len(final) = K  BY <2>1, <2>2
  <2> QED  BY <2>3 DEF K
<1> HIDE DEF WordsLeft
<1>8. n \in 0 .. WordCount - 1 /\ Len(final) \in Nat \ {0}
  BY <1>1, <1>4, <1>7
<1>9. Head(final) = WordAt(n + 1)
  <2>1. Head(final) = final[1]  BY <1>1, <1>7, Rest
  <2>2. 1 \in 1 .. WordCount - n  BY <1>4, <1>8
  <2> QED  BY <1>6, <2>1, <2>2
<1>10. final' = [w \in 1 .. WordCount - (n + 1) |-> WordAt((n + 1) + w)]
  <2>1. final' \in Seq(WordsLeft) /\ Len(final') = WordCount - n - 1
        /\ \A w \in 1 .. Len(final) - 1 : final'[w] = final[w + 1]
    BY <1>1, <1>7, Rest
  <2>2. final' = [w \in 1 .. Len(final') |-> final'[w]]  BY <2>1
  <2>3. Len(final') = WordCount - (n + 1)  BY <1>4, <1>8, <2>1
  <2>4. ASSUME NEW w \in 1 .. WordCount - (n + 1) PROVE final'[w] = WordAt((n + 1) + w)
    <3>1. w \in 1 .. Len(final) - 1 /\ w + 1 \in 1 .. WordCount - n /\ n + (w + 1) = (n + 1) + w
      BY <1>4, <1>7, <1>8
    <3> QED  BY <1>6, <2>1, <3>1
  <2> QED  BY <2>2, <2>3, <2>4
<1> DEFINE b == hex_to_ascii(Head(final))
<1>11. /\ b \in Seq(LoadedBytes) /\ Len(b) = 4
       /\ \A j \in 1 .. 4 : b[j] = ByteMeant(FirstAddress + 4 * n + j - 1)
  BY <1>2, <1>8, <1>9, WordBytes
<1>12. target_memory' = IF Accepted([data |-> b, checksum |-> check_sum(b)])
         THEN [a \in DOMAIN target_memory |->
                 IF a - address \in 0 .. 3 /\ a - address < Len(b) THEN b[a - address + 1] ELSE target_memory[a]]
         ELSE target_memory
  BY DEF LoadWord
<1> HIDE DEF b
<1>13. b \in Seq(LoadedBytes \ Special)
  <2>1. \A j \in 1 .. 4 : b[j] \in LoadedBytes \ Special
    <3> TAKE j \in 1 .. 4
    <3>1. FirstAddress + 4 * n + j - 1 \in Nat  BY <1>4, <1>8
    <3> QED  BY <1>2, <1>11, <3>1, PlainBytes
  <2> DEFINE Plain == LoadedBytes \ Special
  <2>2. \A j \in 1 .. 4 : b[j] \in Plain  BY <2>1
  <2> HIDE DEF Plain
  <2>3. b \in Seq(Plain)  BY <1>11, <2>2, Narrowed
  <2> QED  BY <2>3 DEF Plain
<1>14. target_memory' = [a \in 0 .. MemoryTop - 1 |->
         IF a \in FirstAddress .. (address + 4) - 1 THEN ByteMeant(a) ELSE Untouched]
  <2>1. target_memory = [a \in 0 .. MemoryTop - 1 |->
          IF a \in FirstAddress .. address - 1 THEN ByteMeant(a) ELSE Untouched]
    BY <1>1, <1>2 DEF WordsInv
  <2>2. target_memory' = [a \in 0 .. MemoryTop - 1 |->
          IF a - address \in 0 .. 3 /\ a - address < Len(b) THEN b[a - address + 1] ELSE target_memory[a]]
    BY <1>12, <1>13, <2>1, PlainAccepted
  <2>3. ASSUME NEW a \in 0 .. MemoryTop - 1
        PROVE  (IF a - address \in 0 .. 3 /\ a - address < Len(b) THEN b[a - address + 1] ELSE target_memory[a])
               = (IF a \in FirstAddress .. (address + 4) - 1 THEN ByteMeant(a) ELSE Untouched)
    <3>1. address \in Nat /\ a \in Int /\ FirstAddress <= address  BY <1>4, <1>6, <1>8
    <3>2. CASE a - address \in 0 .. 3
      <4>1. a - address + 1 \in 1 .. 4 /\ a - address < Len(b) /\ a \in FirstAddress .. (address + 4) - 1
        BY <1>4, <1>11, <3>1, <3>2
      <4>2. FirstAddress + 4 * n + (a - address + 1) - 1 = a  BY <1>4, <1>6, <1>8, <3>1
      <4>3. b[a - address + 1] = ByteMeant(a)  BY <1>11, <4>1, <4>2
      <4> QED  BY <3>2, <4>1, <4>3
    <3>3. CASE a - address \notin 0 .. 3
      <4>1. a \in FirstAddress .. (address + 4) - 1 <=> a \in FirstAddress .. address - 1  BY <1>4, <3>1, <3>3
      <4> QED  BY <2>1, <3>3, <4>1
    <3> QED  BY <3>2, <3>3
  <2> QED  BY <2>2, <2>3
<1>15. WordsInv'
  <2>1. n + 1 \in 0 .. WordCount /\ address' = FirstAddress + 4 * (n + 1)
    BY <1>1, <1>4, <1>6, <1>8
  <2>2. \E m \in 0 .. WordCount' : /\ address' = FirstAddress' + 4 * m
                                   /\ final' = [w \in 1 .. WordCount' - m |-> WordAt(m + w)']
    BY <1>5, <1>10, <2>1
  <2>3. target_memory' = [a \in 0 .. MemoryTop - 1 |->
         IF stage' \in {"load", "loaded"} /\ a \in FirstAddress' .. address' - 1 THEN ByteMeant(a)' ELSE Untouched]
    BY <1>1, <1>5, <1>14
  <2>4. stage' \in Stages /\ file' = <<>>  BY <1>1, <1>2 DEF WordsInv, Stages
  <2> QED  BY <1>1, <2>2, <2>3, <2>4 DEF WordsInv
<1> QED  BY <1>3, <1>15 DEF ImageIInv

\* The last word is loaded.
LEMMA CloseStep ==
  ASSUME ImageIInv, CloseFile
  PROVE  ImageIInv'
<1>1. /\ stage = "load" /\ stage' = "loaded" /\ final = <<>>
      /\ UNCHANGED <<image, file, first, addr, darray, final, address, target_memory>>
  BY DEF CloseFile
<1>2. image \in Images /\ DataInv /\ FileInv /\ WordsInv  BY DEF ImageIInv
<1>3. image' \in Images /\ DataInv' /\ FileInv'  BY <1>1, <1>2, KeptImage
<1>4. WordCount' = WordCount /\ (\A w : WordAt(w)' = WordAt(w)) /\ FirstAddress' = FirstAddress
      /\ \A a : ByteMeant(a)' = ByteMeant(a)
  BY <1>1, SameImage DEF WordCount, WordAt
<1>5. WordsInv'  BY <1>1, <1>2, <1>4 DEF WordsInv, Stages
<1> QED  BY <1>3, <1>5 DEF ImageIInv

\* A command on registers leaves the image alone.
LEMMA ImageStutter ==
  ASSUME ImageIInv, UNCHANGED imageVars
  PROVE  ImageIInv'
<1>1. UNCHANGED <<image, file, first, addr, darray, final, stage, address, target_memory>>
  BY DEF imageVars
<1>2. image \in Images /\ DataInv /\ FileInv /\ WordsInv  BY DEF ImageIInv
<1>3. image' \in Images /\ DataInv' /\ FileInv'  BY <1>1, <1>2, KeptImage
<1>4. WordCount' = WordCount /\ (\A w : WordAt(w)' = WordAt(w)) /\ FirstAddress' = FirstAddress
      /\ \A a : ByteMeant(a)' = ByteMeant(a)
  BY <1>1, SameImage DEF WordCount, WordAt
<1>5. WordsInv'  BY <1>1, <1>2, <1>4 DEF WordsInv
<1> QED  BY <1>3, <1>5 DEF ImageIInv

\* Nothing is read yet.
LEMMA ImageStart ==
  ASSUME ImageInit
  PROVE  ImageIInv
<1>1. /\ image \in Images /\ file = image /\ first = TRUE /\ darray = <<>> /\ stage = "convert"
      /\ target_memory = [a \in 0 .. MemoryTop - 1 |-> Untouched]
  BY DEF ImageInit
<1>2. DataInv  BY <1>1 DEF DataInv
<1>3. Len(image) \in Nat \ {0} /\ image \in Seq([at : Nat \cup {NoAddress}, bytes : Seq(LoadedBytes)])
  <2>1. image \in Seq(Segments) /\ Len(image) \in Nat \ {0} /\ DOMAIN image = 1 .. Len(image)  BY <1>1, ImageFacts
  <2>2. \A n \in 1 .. Len(image) : image[n] \in [at : Nat \cup {NoAddress}, bytes : Seq(LoadedBytes)]
    <3> TAKE n \in 1 .. Len(image)
    <3>1. image[n] \in Segments  BY <2>1
    <3>2. Segments = [at : Nat, bytes : Seq(LoadedBytes)]  BY DEF Segments, LoadedBytes
    <3> QED  BY <3>1, <3>2
  <2> DEFINE LineType == [at : Nat \cup {NoAddress}, bytes : Seq(LoadedBytes)]
  <2>3. \A n \in 1 .. Len(image) : image[n] \in LineType  BY <2>2
  <2> HIDE DEF LineType
  <2>4. image \in Seq(LineType)  BY <2>1, <2>3
  <2> QED  BY <2>1, <2>4 DEF LineType
<1>4. Len(image) - Len(file) + 1 = 1 /\ file # <<>>  BY <1>1, <1>3
<1>5. HeadInv(1)  BY <1>1 DEF HeadInv
<1>6. \A j \in 2 .. Len(file) : file[j] = image[1 + j - 1]  BY <1>1, <1>3
<1>7. FileInv  BY <1>1, <1>3, <1>4, <1>5, <1>6 DEF FileInv
<1>8. WordsInv  BY <1>1 DEF WordsInv, Stages
<1> QED  BY <1>1, <1>2, <1>7, <1>8 DEF ImageIInv

\* Every step of the conversion and of the load keeps the invariant.
THEOREM ImageInvariance ==
  ASSUME bus_width = 4, PlainImages
  PROVE  ServerSpec => []ImageIInv
<1>1. ServerInit => ImageIInv  BY ImageStart DEF ServerInit
<1>2. ASSUME ImageIInv, [ServerNext]_serverVars PROVE ImageIInv'
  <2>1. CASE extractAddress  BY <1>2, <2>1, AddressStep
  <2>2. ASSUME NEW cnt \in 1 .. Len(Head(file).bytes), file # <<>>, parseLine(cnt) PROVE ImageIInv'
    BY <1>2, <2>2, LineStep
  <2>3. CASE outdata  BY <1>2, <2>3, OutputStep
  <2>4. CASE OpenFile  BY <1>2, <2>4, OpenStep
  <2>5. CASE LoadWord  BY <1>2, <2>5, WordStep
  <2>6. CASE CloseFile  BY <1>2, <2>6, CloseStep
  <2>7. CASE UNCHANGED imageVars  BY <1>2, <2>7, ImageStutter
  <2>8. CASE ImageNext  BY <2>1, <2>2, <2>3, <2>4, <2>5, <2>6, <2>8 DEF ImageNext
  <2> QED  BY <1>2, <2>7, <2>8 DEF ServerNext, OnTraffic, serverVars
<1> QED  BY <1>1, <1>2, PTL DEF ServerSpec

\* A loaded image is in memory byte for byte, with zeros between the segments, up
\* to its last whole word, and nothing else was written.
THEOREM ImageIsLoaded ==
  ASSUME bus_width = 4, PlainImages
  PROVE  ServerSpec => []ImageLoaded
<1>1. ImageIInv => ImageLoaded
  <2> SUFFICES ASSUME ImageIInv, stage = "loaded" PROVE ImageLoaded  BY DEF ImageLoaded
  <2>1. image \in Images /\ DataInv /\ FileInv /\ WordsInv /\ file = <<>> /\ final = <<>>
    BY DEF ImageIInv, WordsInv
  <2>2. /\ Len(darray) \in Nat /\ FirstAddress \in Nat /\ WordCount \in Nat
    BY <2>1, ImageFacts DEF DataInv, FirstAddress, WordCount
  <2>3. End = FirstAddress + Len(darray)  BY <2>1 DEF FileInv, DataInv
  <2>4. PICK n \in 0 .. WordCount :
          address = FirstAddress + 4 * n /\ final = [w \in 1 .. WordCount - n |-> WordAt(n + w)]
    BY DEF ImageIInv, WordsInv
  <2>5. n = WordCount
    <3>1. DOMAIN final = 1 .. WordCount - n  BY <2>4
    <3>2. DOMAIN final = {}  BY <2>1
    <3> QED  BY <2>2, <3>1, <3>2
  <2>6. (End - FirstAddress) \div 4 = WordCount
    <3>1. End - FirstAddress = Len(darray)  BY <2>2, <2>3
    <3> QED  BY <3>1 DEF WordCount
  <2>7. target_memory = [a \in 0 .. MemoryTop - 1 |->
          IF a \in FirstAddress .. address - 1 THEN ByteMeant(a) ELSE Untouched]
    BY <2>1 DEF WordsInv
  <2>8. address - 1 = FirstAddress + 4 * ((End - FirstAddress) \div 4) - 1  BY <2>2, <2>4, <2>5, <2>6
  <2>9. \A a \in Nat : ByteMeant(a) \notin {Dollar, Hash}  BY <2>1, PlainBytes DEF Special
  <2>10. SUFFICES ASSUME NEW a \in DOMAIN target_memory, NEW b \in (a - ((a - FirstAddress) % 4)) .. (a - ((a - FirstAddress) % 4)) + 3,
                         a \in FirstAddress .. address - 1
                  PROVE  ByteMeant(b) \notin {Dollar, Hash}
    BY <2>7, <2>8 DEF ImageLoaded, FirstAddress
  <2>11. \A x \in Nat : x % 4 \in 0 .. x
    OBVIOUS
  <2>12. a - FirstAddress \in Nat  BY <2>2, <2>10
  <2>13. (a - FirstAddress) % 4 \in 0 .. a - FirstAddress  BY <2>11, <2>12
  <2>14. b \in Nat
    <3> DEFINE r == (a - FirstAddress) % 4
    <3>1. r \in 0 .. a - FirstAddress /\ b \in a - r .. a - r + 3  BY <2>10, <2>13
    <3>2. a \in Int /\ FirstAddress \in Nat  BY <2>2, <2>10
    <3> HIDE DEF r
    <3>3. r \in Nat /\ r <= a - FirstAddress  BY <2>12, <3>1
    <3>4. a - r \in Nat  BY <3>2, <3>3
    <3> QED  BY <3>1, <3>4
  <2> QED  BY <2>9, <2>14
<1> QED  BY <1>1, ImageInvariance, PTL
=============================================================================

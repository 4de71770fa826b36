-------------------------- MODULE CheriPermissions --------------------------
(***************************************************************************)
(* The compressed permissions of a capability, as the debugger writes them *)
(* (CHERI_Encoder.encode_permissions) and shows them                       *)
(* (CHERI_Decoder.decode_permissions).  A dictionary of flags is the set   *)
(* of permissions that are 1 in it, a string of six bits the set of the    *)
(* numbers of its bits that are 1; the encoder numbers them from the left, *)
(* the decoder from the right of the string it is given.                   *)
(***************************************************************************)
EXTENDS Integers

PERMISSION_NAME_LIST == {"U1", "U0", "SE", "US", "EX", "SR", "MC", "LD",
                         "SL", "LM", "SD", "LG", "GL"}
GL_BIT_INDEX == 5

\* Bits: the number given if the permission is in d.
If(d, p, bit) == IF p \in d THEN {bit} ELSE {}
LoadBits(d)   == If(d, "LM", 1) \cup If(d, "LG", 0)

encode_permissions(d) ==
  If(d, "GL", GL_BIT_INDEX) \cup
  IF      {"LD", "MC", "SD"} \subseteq d THEN {4, 3} \cup If(d, "SL", 2) \cup LoadBits(d)
  ELSE IF {"LD", "MC"} \subseteq d       THEN {4, 2} \cup LoadBits(d)
  ELSE IF {"SD", "MC"} \subseteq d       THEN {4}
  ELSE IF {"EX", "LD", "MC"} \subseteq d THEN {3} \cup If(d, "SR", 2) \cup LoadBits(d)
  ELSE IF "LD" \in d \/ "SD" \in d       THEN {4} \cup If(d, "LD", 1) \cup If(d, "SD", 0)
  ELSE If(d, "U0", 2) \cup If(d, "SE", 1) \cup If(d, "US", 0)

\* Permissions: the name given if the bit is set.
Name(bits, bit, p) == IF bit \in bits THEN {p} ELSE {}
LoadNames(bits)    == Name(bits, 1, "LM") \cup Name(bits, 0, "LG")

\* bits[4:3] = 3, bits[4:2] = 5 and so on; the last two formats are told by
\* all five bits, and what is left is "ERROR: Invalid Permissions!".
decode_permissions(bits) ==
  Name(bits, GL_BIT_INDEX, "GL") \cup
  IF      {4, 3} \subseteq bits            THEN {"LD", "MC", "SD"} \cup Name(bits, 2, "SL") \cup LoadNames(bits)
  ELSE IF {4, 2} \subseteq bits            THEN {"LD", "MC"} \cup LoadNames(bits)
  ELSE IF bits \cap 0..4 = {4}             THEN {"SD", "MC"}
  ELSE IF 4 \in bits                       THEN Name(bits, 1, "LD") \cup Name(bits, 0, "SD")
  ELSE IF 3 \in bits                       THEN {"EX", "MC", "LD"} \cup Name(bits, 2, "SR") \cup LoadNames(bits)
  ELSE {}

-----------------------------------------------------------------------------
(* Properties                                                              *)

\* The formats, those of both programs alike: what each always holds and what it
\* may hold.  Every format may hold GL.
Formats == {
  [holds |-> {"LD", "MC", "SD"}, may |-> {"SL", "LM", "LG"}],
  [holds |-> {"LD", "MC"},       may |-> {"LM", "LG"}],
  [holds |-> {"SD", "MC"},       may |-> {}],
  [holds |-> {"EX", "LD", "MC"}, may |-> {"SR", "LM", "LG"}],
  [holds |-> {},                 may |-> {"LD", "SD"}],
  [holds |-> {},                 may |-> {"U0", "SE", "US"}]}
Storable(d) == \E f \in Formats : f.holds \subseteq d /\ d \subseteq f.holds \cup f.may \cup {"GL"}

\* What the code loses of two formats: it never reaches the branch that stores EX
\* and SR, and never shows a U0, SE or US that it stored.
Lost == {"EX", "SR", "U0", "SE", "US"}

\* Between asking for permissions and showing them none is gained, and of those
\* that fit a format all are shown but the Lost ones, which never are.
RoundTrip(asked, shown) == shown \subseteq asked /\ (Storable(asked) => shown = asked \ Lost)
=============================================================================

---------------------------- MODULE GdbRegisters ----------------------------
(***************************************************************************)
(* The register commands of the CHERI GDB server: GDB_RSP_Translator turns *)
(* a command line into RSP packets, reading, modifying and writing back a  *)
(* capability register; RSP_GDB_Translator shows what OpenOCD returns.     *)
(* OpenOCD (external, the patch in debug/tools/cheri_patch) is a register  *)
(* file that answers at once; GdbLink has the traffic.                     *)
(*                                                                         *)
(* Strings of binary digits are numbers with a known number of digits; a   *)
(* packet is the sequence of its pairs of hexadecimal digits, PAIR_BITS    *)
(* being 8 in the code.                                                    *)
(***************************************************************************)
EXTENDS CheriBounds, CheriPermissions, SequencesExt

CONSTANTS
  REG_NAME_TO_VALUE,   \* the names of registers and their numbers
  PAIR_BITS,
  FirstCap,            \* what the registers hold at first
  FirstValue,
  Ranges, PermLists, Otypes, Values,   \* what the user types
  MaxSets              \* bound: commands that set a register

Names == DOMAIN REG_NAME_TO_VALUE
Numbers == {REG_NAME_TO_VALUE[n] : n \in Names}

\* Fields of a capability, from the right.
BASE_LOWER_BIT       == NUMBER_BITS_FOR_TOP_BASE
EXPO_LOWER_BIT       == 2 * NUMBER_BITS_FOR_TOP_BASE
OTYPE_LOWER_BIT      == EXPO_LOWER_BIT + EXPONENT_BIT_SIZE
PERMISSION_LOWER_BIT == OTYPE_LOWER_BIT + 3
RESERVED_LOWER_BIT   == PERMISSION_LOWER_BIT + 6
CAPABILITY_SIZE      == RESERVED_LOWER_BIT + 1

ASSUME SizesAssumption ==
  /\ NUMBER_BITS_FOR_TOP_BASE \in Nat /\ EXPONENT_BIT_SIZE \in Nat \ {0}
  /\ REGISTER_SIZE \in Nat /\ EXPONENT_BIT_SIZE <= REGISTER_SIZE /\ PAIR_BITS \in Nat \ {0}
  /\ REGISTER_SIZE % PAIR_BITS = 0 /\ CAPABILITY_SIZE % PAIR_BITS = 0

\* What the proofs use of powers of two, as far as a register is wide: they are
\* unknown to the provers.
ASSUME PowersAssumption ==
  /\ 2^0 = 1 /\ 2^1 = 2
  /\ \A a \in 0 .. CAPABILITY_SIZE + REGISTER_SIZE : 2^a \in Nat \ {0}
  /\ \A a, b \in 0 .. CAPABILITY_SIZE + REGISTER_SIZE :
       a + b <= CAPABILITY_SIZE + REGISTER_SIZE => 2^(a + b) = 2^a * 2^b

ASSUME NumbersAssumption ==
  \A m, n \in Names : REG_NAME_TO_VALUE[m] = REG_NAME_TO_VALUE[n] => m = n

VARIABLES
  registers,         \* OpenOCD's registers, by number: cap, value, tag
  exponent,          \* attribute of the encoder
  permissions_dict,  \* attribute of the translator's decoder
  printed,           \* the rows printed by the last command, by register
  running,           \* the server has not left by exit() or an exception
  sets,              \* number of commands that set a register
  asked              \* history: what was last asked of each register, none or one of each

regVars == <<registers, exponent, permissions_dict, printed, running, sets, asked>>

Slice(c, low, width) == (c \div 2^low) % 2^width
\* c with the bits of the field replaced by a string of "len" digits that need
\* not be as wide as the field: what is left of it moves.
Assign(c, low, width, new, len) ==
  ((c \div 2^(low + width)) * 2^len + new) * 2^low + (c % 2^low)

-----------------------------------------------------------------------------
(* Packets                                                                 *)

Pairs == (CAPABILITY_SIZE + REGISTER_SIZE) \div PAIR_BITS
Pair  == 2^PAIR_BITS
Number(pairs) ==
  LET upTo[k \in 0 .. Len(pairs)] == IF k = 0 THEN 0 ELSE upTo[k - 1] * Pair + pairs[k]
  IN upTo[Len(pairs)]

\* bin(..), int(.., 2), hex(..) and zfill: one pair more if the number is longer.
HexPairs(n) ==
  LET k == IF n < 2^(PAIR_BITS * Pairs) THEN Pairs ELSE Pairs + 1
  IN [i \in 1 .. k |-> (n \div 2^(PAIR_BITS * (k - i))) % Pair]

\* change_endian of GDB_RSP_Translator.  Mutant: the digits are sent as they are.
change_endian_Kept(pairs) == pairs
change_endian(pairs) == Reverse(pairs)

concat_register_value_and_capability(cap, value) == cap * 2^REGISTER_SIZE + value

\* What OpenOCD answers to "p", and the value and capability found in it.
register_packet(number) ==
  [data |-> Reverse(HexPairs(registers[number].cap * 2^REGISTER_SIZE + registers[number].value)),
   tag  |-> registers[number].tag]
extract_rsp_reg_and_cap(packet) ==
  LET cap_and_reg == Number(Reverse(packet.data))      \* change_endian of RSP_GDB_Translator
  IN [cap   |-> cap_and_reg \div 2^REGISTER_SIZE,
      value |-> cap_and_reg % 2^REGISTER_SIZE,
      valid |-> packet.tag]
get_current_register_value(name) ==
  extract_rsp_reg_and_cap(register_packet(REG_NAME_TO_VALUE[name]))

\* OpenOCD on "P": another number of digits than the register has is an error;
\* writing a capability sets its tag (write_abstract_arg).
execute_set_register_command(name, cap, value) ==
  LET data == change_endian(HexPairs(concat_register_value_and_capability(cap, value)))
      n    == Number(Reverse(data))
  IN registers' = IF Len(data) # Pairs THEN registers
             ELSE [registers EXCEPT ![REG_NAME_TO_VALUE[name]] =
                     [cap |-> n \div 2^REGISTER_SIZE, value |-> n % 2^REGISTER_SIZE, tag |-> TRUE]]

-----------------------------------------------------------------------------
(* Commands                                                                *)

\* A command that sets a register, and what it was asked to make of it.
Set(name, what, arg) ==
  /\ running /\ sets < MaxSets
  /\ sets' = sets + 1
  /\ asked' = [asked EXCEPT ![name][what] = {arg}]
  /\ printed' = <<>>

\* The five digits of the exponent of the whole address space in a field of four.
DigitsOf(e) == CHOOSE k \in EXPONENT_BIT_SIZE .. REGISTER_SIZE :
  e < 2^k /\ \A j \in EXPONENT_BIT_SIZE .. k - 1 : e >= 2^j
concat_bounds_data(e, base, top) == e * M * M + base * M + top

\* set $name T=top B=base
SetBounds(name, base, top) ==
  LET r   == get_current_register_value(name)
      e   == find_correct_exponent(exponent, top - base)
      new == concat_bounds_data(e, NineBits(base, e), NineBits(top, e))
  IN /\ base <= top
     /\ Set(name, "bounds", <<base, top>>)
     /\ exponent' = e
     /\ execute_set_register_command(name,
          Assign(r.cap, 0, OTYPE_LOWER_BIT, new, EXPO_LOWER_BIT + DigitsOf(e)), r.value)
     /\ UNCHANGED <<permissions_dict, running>>

\* "ERROR: Base Cannot be Bigger then top": exit().
diff_of_full_base_top(base, top) ==
  /\ running /\ base > top
  /\ running' = FALSE
  /\ UNCHANGED <<registers, exponent, permissions_dict, printed, sets, asked>>

\* The new string of permissions, as a number.
Digit(bits, b) == IF b \in bits THEN 1 ELSE 0
PermissionField(bits) ==
  Digit(bits, 0) + 2 * Digit(bits, 1) + 4 * Digit(bits, 2)
    + 8 * Digit(bits, 3) + 16 * Digit(bits, 4) + 32 * Digit(bits, 5)

\* Mutant: the dictionary keeps what it held.
clear_permissions_Never == permissions_dict
clear_permissions == {}

\* set $name GL LD ...: words that are no permissions are reported and passed over.
SetPermissions(name, list) ==
  LET r    == get_current_register_value(name)
      dict == clear_permissions \cup (list \cap PERMISSION_NAME_LIST)
  IN /\ Set(name, "permissions", list \cap PERMISSION_NAME_LIST)
     /\ permissions_dict' = dict
     /\ execute_set_register_command(name,
          Assign(r.cap, PERMISSION_LOWER_BIT, 6, PermissionField(encode_permissions(dict)), 6), r.value)
     /\ UNCHANGED <<exponent, running>>

\* set $name otype=ddd, three binary digits
SetOtype(name, otype) ==
  LET r == get_current_register_value(name)
  IN /\ Set(name, "otype", otype)
     /\ execute_set_register_command(name, Assign(r.cap, OTYPE_LOWER_BIT, 3, otype, 3), r.value)
     /\ UNCHANGED <<exponent, permissions_dict, running>>

\* set $name=value
SetValue(name, value) ==
  /\ Set(name, "value", value)
  /\ execute_set_register_command(name, get_current_register_value(name).cap, value)
  /\ UNCHANGED <<exponent, permissions_dict, running>>

\* uncompress_and_print_register_data
Row(r) ==
  LET field(low, width) == Slice(r.cap, low, width)
      bounds == decode_bounds(r.value, field(EXPO_LOWER_BIT, EXPONENT_BIT_SIZE),
                  field(BASE_LOWER_BIT, NUMBER_BITS_FOR_TOP_BASE), field(0, NUMBER_BITS_FOR_TOP_BASE))
  IN [value |-> r.value, valid |-> r.valid, otype |-> field(OTYPE_LOWER_BIT, 3),
      base |-> bounds.base, top |-> bounds.top,
      permissions |-> decode_permissions({b \in 0 .. 5 : field(PERMISSION_LOWER_BIT + b, 1) = 1})]

\* print $name
print_register(name) ==
  /\ running
  /\ printed' = [n \in {name} |-> Row(get_current_register_value(name))]
  /\ UNCHANGED <<registers, exponent, permissions_dict, running, sets, asked>>

\* info registers: the packet has all registers in the order of their numbers.
all_register_data == [n \in DOMAIN registers |-> register_packet(n)]
print_all_registers ==
  /\ running
  /\ printed' = [name \in Names |-> Row(extract_rsp_reg_and_cap(all_register_data[REG_NAME_TO_VALUE[name]]))]
  /\ UNCHANGED <<registers, exponent, permissions_dict, running, sets, asked>>

\* setall=...: "set" is in it, so the value is taken for the name of a register
\* (KeyError).
set_all ==
  /\ running
  /\ running' = FALSE
  /\ UNCHANGED <<registers, exponent, permissions_dict, printed, sets, asked>>

RegInit ==
  /\ registers = [n \in Numbers |-> [cap |-> FirstCap, value |-> FirstValue, tag |-> FALSE]]
  /\ exponent = 0 /\ permissions_dict = {}
  /\ printed = <<>> /\ running = TRUE /\ sets = 0
  /\ asked = [name \in Names |-> [bounds |-> {}, permissions |-> {}, otype |-> {}, value |-> {}]]

RegNext ==
  \/ set_all \/ print_all_registers
  \/ \E r \in Ranges : diff_of_full_base_top(r[1], r[2])
  \/ \E name \in Names :
       \/ print_register(name)
       \/ \E r \in Ranges : SetBounds(name, r[1], r[2])
       \/ \E list \in PermLists : SetPermissions(name, list)
       \/ \E otype \in Otypes : SetOtype(name, otype)
       \/ \E value \in Values : SetValue(name, value)

RegSpec == RegInit /\ [][RegNext]_regVars

-----------------------------------------------------------------------------
(* Properties                                                              *)

\* Whatever was set since and on whichever register, an address from the base
\* asked for to the top asked for is shown with those bounds, rounded down to
\* the granule, which is one byte for what nine bits can tell apart.
RoundDown(x, granule) == granule * (x \div granule)
BoundsAsAsked == \A name \in DOMAIN printed : \A b \in asked[name].bounds :
  LET granules == {2^e : e \in {f \in Exponents : b[2] - b[1] < (M - 1) * 2^f}}
      g == Min(granules)
  IN b[1] <= printed[name].value /\ printed[name].value <= b[2] =>
       printed[name].base = RoundDown(b[1], g) /\ printed[name].top = RoundDown(b[2], g)

\* The permissions shown are among those last asked of the register; if one of the
\* formats holds them, they are those less EX, SR, U0, SE and US, which the code
\* loses (PermissionsKept).
PermissionsAsAsked == \A name \in DOMAIN printed : \A list \in asked[name].permissions :
  RoundTrip(list, printed[name].permissions)

\* Permissions that one of the formats of encode_permissions and decode_permissions
\* holds are shown as they were asked for ("a dictionary that describes the state
\* of all 12 permissions").
PermissionsKept == \A name \in DOMAIN printed : \A list \in asked[name].permissions :
  Storable(list) => printed[name].permissions = list

\* Value and otype are those last asked of the register; a register is shown
\* valid exactly if it was ever set.
WordsAsAsked == \A name \in DOMAIN printed :
  /\ asked[name].value \subseteq {printed[name].value}
  /\ asked[name].otype \subseteq {printed[name].otype}
  /\ printed[name].valid <=> \E what \in DOMAIN asked[name] : asked[name][what] # {}

\* New bounds replace the fields of the bounds and nothing above them: the
\* string is made of 9 bits for the base, 9 for the top and 4 for the exponent
\* (comment of concat_bounds_data).
BoundsFitTheirFields == [][\A name \in Names :
  asked'[name].bounds # asked[name].bounds =>
    LET n == REG_NAME_TO_VALUE[name]
    IN registers'[n].cap \div 2^OTYPE_LOWER_BIT = registers[n].cap \div 2^OTYPE_LOWER_BIT]_regVars
=============================================================================

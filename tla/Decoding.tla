------------------------------ MODULE Decoding ------------------------------
(***************************************************************************)
(* state.py and devices.py: what the bytes of a panel packet mean.  Packets*)
(* are sequences of bytes without their type and length; None is a value   *)
(* the packet does not give, Refused a packet that raises ProtocolError.   *)
(***************************************************************************)
EXTENDS Naturals, Integers, Sequences

CONSTANTS None, Refused

DeviceFault == {"battery", "power_supply", "sabotage", "unknown"}

\* What a section may be in.
SectionStates ==
  [primary : 0..7, arming : BOOLEAN, pending : BOOLEAN, problem : BOOLEAN,
   triggered : BOOLEAN, sabotage : BOOLEAN, fire : BOOLEAN]

\* None is Python's None: no truth value, no number, no fault and no section's state.
ASSUME NoneAssumption == None \notin BOOLEAN \cup Nat \cup DeviceFault \cup SectionStates

Byte == 0..255

\* Bit k of byte b, bit 0 being the least significant.
Bit(b, k) == (b \div 2^k) % 2 = 1

-----------------------------------------------------------------------------
(* Sections, PG outputs and the device bitmap *)

SectionBytes(bytes, section) == <<bytes[2 * section - 1], bytes[2 * section]>>

\* Sections in the packet: up to the first 07 00, an incomplete pair or 15.
SectionCount(bytes) ==
  LET present == {s \in 1..15 :
                    /\ 2 * s <= Len(bytes)
                    /\ \A t \in 1..s : SectionBytes(bytes, t) # <<7, 0>>}
  IN CHOOSE n \in 0..15 : present = 1..n

SectionState(first, second) ==
  [primary   |-> first % 8,
   arming    |-> Bit(first, 7),
   pending   |-> Bit(first, 6),
   problem   |-> Bit(first, 5),
   triggered |-> \/ Bit(first, 4) \/ Bit(first, 3)
                 \/ Bit(second, 6) \/ Bit(second, 3) \/ Bit(second, 2),
   sabotage  |-> Bit(second, 4),
   fire      |-> Bit(second, 1)]

\* One unknown primary state refuses the whole packet.
ParseSectionStates(bytes) ==
  LET state(s) == SectionState(bytes[2 * s - 1], bytes[2 * s])
      sections == 1..SectionCount(bytes)
  IN IF \E s \in sections : state(s).primary = 0 THEN Refused
     ELSE [s \in sections |-> state(s)]

\* Bit number of the bitmap that starts behind the prefix byte.
BitmapBit(bytes, number) == Bit(bytes[number \div 8 + 1], number % 8)

\* Bit 0 is reserved; a position that is not in the packet stays unknown.
ParseDeviceStates(bytes) ==
  LET available == IF 8 * Len(bytes) < 231 THEN 8 * Len(bytes) - 1 ELSE 230
  IN IF bytes = << >> THEN Refused
     ELSE [number \in 1..available |-> BitmapBit(bytes, number)]

\* The configured number of outputs, or as many as the packet has bits.
ParsePgOutputStates(bytes, configured) ==
  LET available == 8 * Len(bytes)
      count == IF configured = None THEN available ELSE configured
  IN IF count > 128 \/ count > available THEN Refused
     ELSE [output \in 1..count |-> BitmapBit(bytes, output - 1)]

-----------------------------------------------------------------------------
(* Device packets *)

\* A low nibble above 10 says there is no battery.
ParseBatteryState(byte) ==
  IF byte % 16 > 10 THEN None
  ELSE [ok |-> ~Bit(byte, 4) /\ ~Bit(byte, 5), level |-> 10 * (byte % 16)]

\* The number's place in its block of 64, counted from -26 to 37.
NormalizedNumber(number) ==
  CASE number <= 37 -> number
    [] number \in 38..101 -> number - 64
    [] number \in 102..165 -> number - 128
    [] number \in 166..229 -> number - 192
    [] OTHER -> number - 256

\* Two bytes say active, the next two inactive, every other nothing.
DecodeActiveState(byte, number) ==
  LET active == NormalizedNumber(number) * 4 + 104
  IN CASE byte \in {active, active + 1} -> TRUE
       [] byte \in {active + 2, active + 3} -> FALSE
       [] OTHER -> None

\* The fault an event of a 0x55 packet stands for.
FaultOf(event) ==
  CASE event = "BATTERY_FAULT" -> "battery"
    [] event = "POWER_SUPPLY_FAULT" -> "power_supply"
    [] event = "SABOTAGE" -> "sabotage"
    [] event = "FAULT" -> "unknown"
    [] OTHER -> None
=============================================================================

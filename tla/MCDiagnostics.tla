--------------------------- MODULE MCDiagnostics ---------------------------
(***************************************************************************)
(* A panel with two sections, two outputs and three positions: a thermostat*)
(* with state and diagnostics, a keypad without state, and one ignored.    *)
(* There is a packet for every handler and most of its branches.           *)
(***************************************************************************)
EXTENDS Diagnostics, TLC

CONSTANTS address

\* The passes are interchangeable.
Passes == Permutations(Pass)

MCDefinitions == <<"thermostat", "keypad", "other">>

SystemInfo(item, value) == [type |-> "system_info", changes |-> [f \in {item} |-> value]]
Bytes(type, bytes) == [type |-> type, bytes |-> bytes]
Status(n, wired, battery, ip, gsm) ==
  [type |-> "status", number |-> n, wired |-> wired, battery |-> battery,
   signal |-> 50, ip |-> ip, gsm |-> gsm]
Event(n, event, byte) ==
  [type |-> "event", number |-> n, event |-> event, heartbeat |-> FALSE,
   byte |-> byte, signal |-> None]
Heartbeat(n, byte) == [Event(n, None, byte) EXCEPT !.heartbeat = TRUE]
Info(n, status, buses) ==
  [type |-> "info", number |-> n, status |-> status, signal |-> None,
   link |-> TRUE, ip |-> None, gsm |-> 50, buses |-> buses]

Bus(b) == [n \in {b} |-> 137]
NoBus == [n \in {} |-> 137]

MCPacket ==
  {SystemInfo("model", "JA-103K"),
   Bytes("bitmap", <<2>>), Bytes("bitmap", << >>), [type |-> "truncated"],
   Bytes("sections", <<3, 0, 1, 0>>), Bytes("sections", <<3, 16, 7, 0>>),
   Bytes("sections", <<1, 0, 0, 0>>),
   Bytes("outputs", <<2>>), Bytes("outputs", << >>),
   Status(1, FALSE, 9, None, None), Status(1, TRUE, 15, None, None),
   Status(2, FALSE, 31, None, None), Status(3, TRUE, 15, None, None),
   Status(233, TRUE, 15, address, None), Status(234, TRUE, 15, None, 60),
   Event(0, "POWER_SUPPLY_FAULT", 104), Event(1, "ACTIVITY", 108),
   Event(1, "BATTERY_FAULT", 108),
   Event(1, "SABOTAGE", 108), Heartbeat(1, 110),
   Event(2, "ACTIVITY", 112), Event(233, "ACTIVITY", 14),
   Info(0, 72, Bus(1)), Info(0, None, Bus(2)),
   Info(1, 41, NoBus), Info(233, 15, NoBus), Info(234, 15, NoBus)}

\* Bound: one packet while a number is given up, two packets otherwise.
OnePacketWhenGivenUp == abandoned # {} => handled <= 1
=============================================================================

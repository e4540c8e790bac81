----------------------------- MODULE StateModel -----------------------------
(***************************************************************************)
(* JablotronClient._handle_state_packet: what the client remembers of the  *)
(* panel and what it tells its listeners.  Storing is immediate; telling a *)
(* listener is awaited, so the rest of a packet's work waits in todo and   *)
(* is lost when the reader is cancelled meanwhile.                         *)
(***************************************************************************)
EXTENDS Decoding, Selection

CONSTANTS
  Definitions,  \* the configured devices' types, by number; may be empty
  Outputs,      \* number_of_pg_outputs, or None
  Packet,       \* the packets the panel may send
  MaxPackets    \* bound on the packets of a behaviour

\* The roles of the panel's own modules.
Role == {"power", "lan", "gsm"}

ASSUME DefinitionAssumption == Definitions \in Seq(STRING)
ASSUME OutputAssumption == Outputs \in 0..128 \cup {None}
ASSUME RoleAssumption == None \notin Role
ASSUME PacketAssumption == \A p \in Packet :
  /\ p.type \in {"bitmap", "sections", "outputs"} => p.bytes \in Seq(Byte)
  /\ p.type = "status" => p.battery \in Byte
  /\ p.type = "info" => p.status \in Byte \cup {None}
ASSUME BoundAssumption == MaxPackets \in Nat

VARIABLES
  cache,    \* what the client remembers, by subject
  told,     \* what a listener has been told last, by subject
  todo,     \* what is left to do of the packet being handled
  untold,   \* subjects whose announcement was cancelled
  handled   \* packets so far

dataVars == <<cache, told, todo, untold, handled>>

-----------------------------------------------------------------------------
(* Records and the cache *)

\* dataclasses.replace: the named fields change, the others stay.
Replace(old, changes) ==
  [f \in DOMAIN old |-> IF f \in DOMAIN changes THEN changes[f] ELSE old[f]]

\* The changes that carry a value.
Given(changes) ==
  LET known == {f \in DOMAIN changes : changes[f] # None}
  IN [f \in known |-> changes[f]]

\* Two sets of changes, the second one winning.
Both(first, second) ==
  [f \in DOMAIN first \cup DOMAIN second |->
     IF f \in DOMAIN second THEN second[f] ELSE first[f]]

NoChange == [f \in {} |-> None]

NewSnapshot ==
  [active |-> None, signal_strength |-> None, battery_level |-> None,
   battery_ok |-> None, problem |-> FALSE, sabotage |-> FALSE, last_event |-> None]

NewCentralUnit == [model |-> None, hardware |-> None, firmware |-> None]

NewDiagnostics ==
  [power_supply_ok |-> None, battery_level |-> None, battery_ok |-> None,
   lan_connected |-> None, lan_ip |-> None,
   gsm_connected |-> None, gsm_signal_strength |-> None,
   buses |-> NoChange]

CentralUnit == <<"central_unit", 0>>
Diagnosed == <<"diagnostics", 0>>
Section(n) == <<"section", n>>
PgOutput(n) == <<"pg_output", n>>
Device(n) == <<"device", n>>

\* What a table says of a subject; a device not stored is a new snapshot.
Look(table, subject) ==
  CASE subject \in DOMAIN table -> table[subject]
    [] subject \notin DOMAIN table /\ subject[1] = "device" -> NewSnapshot
    [] OTHER -> None

Put(table, subject, value) ==
  [s \in DOMAIN table \cup {subject} |-> IF s = subject THEN value ELSE table[s]]

Tell(subject, value) == [do |-> "tell", subject |-> subject, value |-> value]
Store(number, active) == [do |-> "store", subject |-> Device(number), value |-> active]

-----------------------------------------------------------------------------
(* The configured devices and the panel's own modules *)

Ignored == {"empty", "other"}
Stateless == {"keypad", "outdoor_siren", "electricity_meter_with_pulse_output", "radio_module"}

\* Mutant of AcceptDevice: ignored positions are accepted too.
AcceptPosition(n) == n \in 1..230 /\ (Definitions # << >> => n \in DOMAIN Definitions)

AcceptDevice(n) ==
  /\ n \in 1..230
  /\ Definitions # << >> => n \in DOMAIN Definitions /\ Definitions[n] \notin Ignored

\* Mutant of DeviceHasState: every accepted device has an activity.
AnyHasState(n) == TRUE

DeviceHasState(n) == Definitions # << >> => Definitions[n] \notin Stateless

Model == cache[CentralUnit].model

\* The numbers of the panel's own modules, by its model.
ModuleNumbers ==
  CASE Model \in {"JA-103K", "JA-103KRY", "JA-107K"} -> <<233, 234>>
    [] Model \in {"JA-101K", "JA-101K-LAN", "JA-106K-3G", "JA-14K"} -> <<124, 125, 127>>
    [] OTHER -> << >>

SystemModuleRole(n) ==
  CASE ModuleNumbers = <<233, 234>> /\ n = 233 -> "lan"
    [] ModuleNumbers = <<233, 234>> /\ n = 234 -> "gsm"
    [] ModuleNumbers = <<124, 125, 127>> /\ n = 124 -> "power"
    [] ModuleNumbers = <<124, 125, 127>> /\ n = 125 -> "lan"
    [] ModuleNumbers = <<124, 125, 127>> /\ n = 127 -> "gsm"
    [] OTHER -> None

-----------------------------------------------------------------------------
(* Handlers: each stores at once and leaves the announcements in todo *)

Init ==
  /\ cache = [s \in {CentralUnit, Diagnosed}
                 \cup {Device(n) : n \in {m \in DOMAIN Definitions : AcceptDevice(m)}} |->
                CASE s = CentralUnit -> NewCentralUnit
                  [] s = Diagnosed -> NewDiagnostics
                  [] OTHER -> NewSnapshot]
  /\ told = cache
  /\ todo = << >>
  /\ untold = {}
  /\ handled = 0

\* Mutant of Announced: only the first value of a subject is announced.
AnnouncedOnce(subject, value) ==
  IF subject \in DOMAIN told THEN << >> ELSE <<Tell(subject, value)>>

\* The announcement of a value that differs from the one before.
Announced(subject, value) ==
  IF Look(cache, subject) = value THEN << >> ELSE <<Tell(subject, value)>>

Keep(subject, value) ==
  /\ cache' = Put(cache, subject, value)
  /\ todo' = Announced(subject, value)

\* 0x40: one item of the central unit's identity.  The status requests that
\* follow a complete identity change nothing here.
HandleSystemInfo(p) ==
  /\ p.type = "system_info"
  /\ Keep(CentralUnit, Replace(cache[CentralUnit], p.changes))

\* 0xD8: the devices of the bitmap, stored one after another.
HandleDeviceStates(p) ==
  LET active == ParseDeviceStates(p.bytes)
      known == {n \in DOMAIN active : AcceptDevice(n) /\ DeviceHasState(n)}
      numbers == Selected([n \in DOMAIN active |-> n], known)
  IN /\ p.type = "bitmap"
     /\ active # Refused
     /\ todo' = [i \in DOMAIN numbers |-> Store(numbers[i], active[numbers[i]])]
     /\ UNCHANGED cache

\* 0x51 and 0x50: the packet replaces the whole table of its kind.
ReplaceAll(kind, states) ==
  LET changed == {n \in DOMAIN states : Look(cache, <<kind, n>>) # states[n]}
      numbers == Selected([n \in DOMAIN states |-> n], changed)
      subjects == {<<kind, n>> : n \in DOMAIN states}
      others == {s \in DOMAIN cache : s[1] # kind}
  IN /\ cache' = [s \in others \cup subjects |->
                    IF s \in subjects THEN states[s[2]] ELSE cache[s]]
     /\ todo' = [i \in DOMAIN numbers |-> Tell(<<kind, numbers[i]>>, states[numbers[i]])]

HandleSections(p) ==
  /\ p.type = "sections"
  /\ ParseSectionStates(p.bytes) # Refused
  /\ ReplaceAll("section", ParseSectionStates(p.bytes))

HandlePgOutputs(p) ==
  /\ p.type = "outputs"
  /\ ParsePgOutputStates(p.bytes, Outputs) # Refused
  /\ ReplaceAll("pg_output", ParsePgOutputStates(p.bytes, Outputs))

\* A packet that cannot be parsed ends the read loop; a status, an event or a
\* diagnostics packet that is too short for its number has the type "truncated".
Unreadable(p) ==
  \/ p.type = "bitmap" /\ ParseDeviceStates(p.bytes) = Refused
  \/ p.type = "sections" /\ ParseSectionStates(p.bytes) = Refused
  \/ p.type = "outputs" /\ ParsePgOutputStates(p.bytes, Outputs) = Refused
  \/ p.type = "truncated"

\* Mutant of UpdateDiagnostics: the buses of a packet replace all others.
UpdateDiagnosticsReplaced(changes) ==
  Keep(Diagnosed, Replace(cache[Diagnosed], changes))

\* What is new of the panel's diagnostics; buses are merged one by one.
UpdateDiagnostics(changes) ==
  LET old == cache[Diagnosed]
      buses == IF "buses" \in DOMAIN changes THEN Both(old.buses, changes.buses)
               ELSE old.buses
  IN Keep(Diagnosed, Replace(old, Both(changes, [buses |-> buses])))

UpdateDevice(n, changes) == Keep(Device(n), Replace(Look(cache, Device(n)), changes))

Ignore == UNCHANGED <<cache, todo>>

BatteryOf(battery) ==
  IF battery = None THEN NoChange
  ELSE [battery_level |-> battery.level, battery_ok |-> battery.ok]

\* What the status of a device says: a wired one has no signal and no battery.
DeviceStatus(p) ==
  IF p.wired THEN [signal_strength |-> None]
  ELSE Both([signal_strength |-> p.signal], BatteryOf(ParseBatteryState(p.battery)))

\* 0x52 8A: the status of a module or of a device.  ip and gsm are None when the
\* packet is not long enough for them.
HandleDeviceStatus(p) ==
  LET role == SystemModuleRole(p.number)
  IN /\ p.type = "status"
     /\ CASE role = "lan" /\ p.ip # None -> UpdateDiagnostics([lan_ip |-> p.ip])
          [] role = "gsm" /\ p.gsm # None -> UpdateDiagnostics([gsm_signal_strength |-> p.gsm])
          [] OTHER ->
               IF ~AcceptDevice(p.number) THEN Ignore
               ELSE UpdateDevice(p.number, DeviceStatus(p))

\* Mutant of EventChanges: a battery fault counts whatever is known.
EventChangesAnyBattery(n, fault, active) ==
  CASE fault = "battery" -> [battery_ok |-> active # TRUE]
    [] fault \notin {"battery", None} -> [problem |-> active = TRUE]
    [] OTHER -> NoChange

\* What an event that is no heartbeat changes.  A battery fault of a device
\* whose battery is not known is a problem like any other fault, and a fault
\* whose activity cannot be decoded counts as none.
EventChanges(n, fault, active) ==
  CASE fault = "battery" /\ Look(cache, Device(n)).battery_level # None ->
         [battery_ok |-> active # TRUE]
    [] fault = "sabotage" -> [problem |-> active = TRUE, sabotage |-> active = TRUE]
    [] fault \in {"power_supply", "unknown"} -> [problem |-> active = TRUE]
    [] fault = "battery" /\ Look(cache, Device(n)).battery_level = None ->
         [problem |-> active = TRUE]
    [] fault = None /\ active # None /\ DeviceHasState(n) -> [active |-> active]
    [] OTHER -> NoChange

\* 0x55: an event of the panel, a module or a device.  Its event is None when
\* the code has none of that number, which a heartbeat (0x33) may have.
HandleDeviceState(p) ==
  LET role == SystemModuleRole(p.number)
      active == DecodeActiveState(p.byte, p.number)
      fault == FaultOf(p.event)
      heard == Both([last_event |-> p.event], Given([signal_strength |-> p.signal]))
  IN /\ p.type = "event"
     /\ CASE p.number = 0 /\ fault = "power_supply" ->
               UpdateDiagnostics([power_supply_ok |-> active # TRUE])
          [] role = "lan" /\ active # None -> UpdateDiagnostics([lan_connected |-> ~active])
          [] role = "gsm" /\ active # None -> UpdateDiagnostics([gsm_connected |-> ~active])
          [] OTHER ->
               IF ~AcceptDevice(p.number) THEN Ignore
               ELSE UpdateDevice(p.number,
                      IF p.heartbeat THEN heard
                      ELSE Both(heard, EventChanges(p.number, fault, active)))

\* 0x90: diagnostics of the panel, a module or a device.
HandleDeviceInfo(p) ==
  LET role == SystemModuleRole(p.number)
      battery == IF p.status = None THEN NoChange ELSE BatteryOf(ParseBatteryState(p.status))
      power == IF p.status = None THEN NoChange
               ELSE [power_supply_ok |-> Bit(p.status, 6)]
  IN /\ p.type = "info"
     /\ CASE p.number = 0 ->
               UpdateDiagnostics(Both(battery, Both(power, [buses |-> p.buses])))
          [] role = "lan" -> UpdateDiagnostics(Given([lan_connected |-> p.link, lan_ip |-> p.ip]))
          [] role = "gsm" -> UpdateDiagnostics(Given([gsm_connected |-> p.link,
                                                      gsm_signal_strength |-> p.gsm]))
          [] OTHER ->
               IF ~AcceptDevice(p.number) THEN Ignore
               ELSE UpdateDevice(p.number, Both(battery, Given([signal_strength |-> p.signal])))

Handle(p) ==
  \/ HandleSystemInfo(p)
  \/ HandleDeviceStates(p)
  \/ HandleSections(p)
  \/ HandlePgOutputs(p)
  \/ HandleDeviceStatus(p)
  \/ HandleDeviceState(p)
  \/ HandleDeviceInfo(p)

-----------------------------------------------------------------------------
(* The reader *)

\* The read loop has the next packet once the one before is done.
Receive(p) ==
  /\ todo = << >>
  /\ handled < MaxPackets
  /\ handled' = handled + 1
  /\ Handle(p)
  /\ UNCHANGED <<told, untold>>

\* A listener is told what the packet's handler stored.
TellListener ==
  /\ todo # << >> /\ Head(todo).do = "tell"
  /\ told' = Put(told, Head(todo).subject, Head(todo).value)
  /\ untold' = untold \ {Head(todo).subject}
  /\ todo' = Tail(todo)
  /\ UNCHANGED <<cache, handled>>

\* The bitmap's next device is read, stored and announced.
StoreActive ==
  /\ todo # << >> /\ Head(todo).do = "store"
  /\ LET subject == Head(todo).subject
         new == Replace(Look(cache, subject), [active |-> Head(todo).value])
     IN /\ cache' = Put(cache, subject, new)
        /\ todo' = Announced(subject, new) \o Tail(todo)
  /\ UNCHANGED <<told, untold, handled>>

\* The subjects that still have to be announced.
Unannounced == {todo[i].subject : i \in {j \in DOMAIN todo : todo[j].do = "tell"}}

\* The reader is cancelled while a listener is awaited: the rest of the packet
\* is dropped, though its values may be stored already.
CancelReader ==
  /\ untold' = untold \cup Unannounced
  /\ todo' = << >>
  /\ UNCHANGED <<cache, told, handled>>

-----------------------------------------------------------------------------
(* Properties *)

Subjects == {CentralUnit, Diagnosed}
  \cup ({"section", "pg_output", "device"} \X (1..230))

TypeOK ==
  /\ DOMAIN cache \subseteq Subjects /\ DOMAIN told \subseteq Subjects
  /\ untold \subseteq Subjects
  /\ {CentralUnit, Diagnosed} \subseteq DOMAIN cache
  /\ \A s \in DOMAIN cache : s[1] = "device" =>
       /\ DOMAIN cache[s] = DOMAIN NewSnapshot
       /\ Definitions # << >> => s[2] \in DOMAIN Definitions /\ Definitions[s[2]] \notin Ignored
  /\ \A i \in DOMAIN todo : todo[i].do \in {"tell", "store"} /\ todo[i].subject \in Subjects
  /\ handled \in 0..MaxPackets

\* _publish_state follows every store that changes something: whatever the cache
\* says of a subject, the listener has been told, is about to be told that very
\* value, or was left out because the reader was cancelled just then.
ListenersFollow ==
  \A s \in DOMAIN cache :
    \/ Look(told, s) = cache[s]
    \/ \E i \in DOMAIN todo :
         todo[i].do = "tell" /\ todo[i].subject = s /\ todo[i].value = cache[s]
    \/ s \in untold

\* A device's battery is either known with its level and its state or not at
\* all; an event or a status without a battery never leaves half of it.
BatteryWhole ==
  \A s \in DOMAIN cache :
    s[1] = "device" \/ s = Diagnosed =>
      (cache[s].battery_ok = None <=> cache[s].battery_level = None)

\* Types without an activity never get one, whichever packet names them.
StatelessStay ==
  \A s \in DOMAIN cache :
    /\ s[1] = "device" /\ s[2] \in DOMAIN Definitions
    /\ Definitions[s[2]] \in Stateless
    => cache[s].active = None

\* What is once known of an activity or of a module never becomes unknown:
\* incomplete packets leave alone what they do not speak of.
KnownStaysKnown ==
  [][\A s \in DOMAIN cache :
       /\ s[1] = "device" /\ cache[s].active # None => cache'[s].active # None
       /\ s = Diagnosed => DOMAIN cache[s].buses \subseteq DOMAIN cache'[s].buses]_dataVars
=============================================================================

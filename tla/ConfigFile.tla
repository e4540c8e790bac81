----------------------------- MODULE ConfigFile -----------------------------
(***************************************************************************)
(* config.py and the commands of __main__.py: the life of one configuration*)
(* file.  Commands create it from Home Assistant or F-Link, or load it,    *)
(* merge F-Link data into it and save it again; people edit it in between. *)
(* A file is the record of the tables a TOML file holds, None being a key  *)
(* that is not there; Refused stands for ConfigurationError.  Text encoding*)
(* and syntax are left out.                                                *)
(***************************************************************************)
EXTENDS Integers, Sequences, Selection

CONSTANTS
  None, Refused,
  Name,           \* non-empty names, models, serial numbers and codes
  HaDocument,     \* Home Assistant documents: all entries, or an export of one
  EntryId,        \* what --entry-id may be
  DeviceCsv,      \* F-Link exports of devices, as sequences of rows
  NameCsv,        \* F-Link exports of sections or outputs; << >> is no file
  DeviceCount,    \* what --number-of-devices may be
  HandTable,      \* device tables people add to the file
  MaxDevice,      \* 230 in the code
  MaxOutput,      \* 128 in the code
  MaxSection,     \* 15 in the code
  MaxSteps        \* bound on the commands and edits of a behaviour

ASSUME LimitAssumption == {MaxDevice, MaxOutput, MaxSection, MaxSteps} \subseteq Nat

DeviceTypes == {"empty", "other", "keypad", "motion_detector", "smoke_detector",
  "thermostat", "indoor_siren", "key_fob", "radio_module", "custom"}

\* What may stand in the tables of a file, in a configuration, and in the rows
\* and entries that are imported.
Text == Name \cup {"", None}
TypeText == DeviceTypes \cup {"unknown"}
DeviceTable == [number : Int, type : TypeText, name : Text, model : Text, serial : Text]
NameTable == [number : Int, name : Name \cup {""}]
Config ==
  [devices : Seq(DeviceTable), sections : Seq(NameTable), pg_outputs : Seq(NameTable),
   number_of_pg_outputs : Int, code : Text, code_env : Text \cup {"JABLOTRON_CODE"}]
FlinkRow ==
  [number : Int, name : Name \cup {""}, model : Name \cup {None}, serial : Name \cup {None}]
HaEntry ==
  [domain : STRING, id : STRING, devices : Seq(TypeText), number_of_devices : Int,
   number_of_pg_outputs : Int, password : Text]

ASSUME TextAssumption == "" \notin Name /\ None \notin Int /\ None \notin Name
ASSUME RefusedAssumption == Refused \notin Config
ASSUME InputAssumption ==
  /\ HaDocument \subseteq [entries : Seq(HaEntry), filtered : BOOLEAN]
  /\ \A document \in HaDocument : document.filtered => Len(document.entries) = 1
  /\ DeviceCsv \subseteq Seq(FlinkRow)
  /\ NameCsv \subseteq Seq(NameTable)
  /\ HandTable \subseteq DeviceTable
  /\ DeviceCount \subseteq Int \cup {None}

VARIABLES
  file,   \* the file, None when there is none
  saved,  \* what a command saved last, and what it had loaded for that; None
          \* when the file was edited since or the write was cut short
  steps   \* commands and edits so far

vars == <<file, saved, steps>>

-----------------------------------------------------------------------------
(* Loading and saving *)

Numbers(items) == {items[i].number : i \in DOMAIN items}

Distinct(items) == \A i, j \in DOMAIN items : items[i].number = items[j].number => i = j

Largest(numbers) ==
  IF numbers = {} THEN 0 ELSE CHOOSE n \in numbers : \A m \in numbers : m <= n

Numbered(items, n) == items[CHOOSE i \in DOMAIN items : items[i].number = n]

EmptySlot(n) ==
  [number |-> n, type |-> "empty", name |-> None, model |-> None, serial |-> None]

\* Names of sections and outputs: in range, once each, and not empty.
NamesValid(items, maximum) ==
  /\ Distinct(items) /\ Numbers(items) \subseteq 1..maximum
  /\ \A i \in DOMAIN items : items[i].name \in Name

CountOf(document) ==
  IF document.number_of_devices = None THEN Largest(Numbers(document.devices))
  ELSE document.number_of_devices

DocumentValid(document) ==
  /\ NamesValid(document.sections, MaxSection)
  /\ NamesValid(document.pg_outputs, MaxOutput)
  /\ Numbers(document.pg_outputs) \subseteq 1..document.number_of_pg_outputs
  /\ document.number_of_pg_outputs \in 0..MaxOutput
  /\ Distinct(document.devices)
  /\ \A i \in DOMAIN document.devices : document.devices[i].type \in DeviceTypes
  /\ Numbers(document.devices) \subseteq 1..CountOf(document)
  /\ CountOf(document) \in 0..MaxDevice

\* Mutant of Slots: only the devices in the file are loaded.
SlotsListed(document) == document.devices

\* Every position up to the count, the missing ones empty.
Slots(document) ==
  [n \in 1..CountOf(document) |->
     IF n \in Numbers(document.devices) THEN Numbered(document.devices, n) ELSE EmptySlot(n)]

LoadConfig(document) ==
  IF ~DocumentValid(document) THEN Refused
  ELSE [devices |-> Slots(document), sections |-> document.sections,
        pg_outputs |-> document.pg_outputs,
        number_of_pg_outputs |-> document.number_of_pg_outputs,
        code |-> document.code,
        code_env |-> IF document.code_env = None THEN "JABLOTRON_CODE" ELSE document.code_env]

\* Mutant of CodeSaved: the code is written whenever it is known.
CodeSavedAlways(config, include_code) == config.code

\* An empty string is not written, an empty slot not at all.
Given(text) == IF text = "" THEN None ELSE text

CodeSaved(config, include_code) == IF include_code THEN Given(config.code) ELSE None

Table(device) ==
  [device EXCEPT !.name = Given(@), !.model = Given(@), !.serial = Given(@)]

Occupied(device) == device.type # "empty"

SaveConfig(config, include_code) ==
  LET occupied == Selected(config.devices,
                           {i \in DOMAIN config.devices : Occupied(config.devices[i])})
  IN [devices |-> [i \in DOMAIN occupied |-> Table(occupied[i])],
      sections |-> config.sections, pg_outputs |-> config.pg_outputs,
      number_of_devices |-> Len(config.devices),
      number_of_pg_outputs |-> config.number_of_pg_outputs,
      code |-> CodeSaved(config, include_code),
      code_env |-> IF Given(config.code_env) = None /\ ~include_code THEN "JABLOTRON_CODE"
                   ELSE Given(config.code_env)]

\* The keys a table loses when the file ends after its type, its name or its model.
LostKeys == {{}, {"serial"}, {"model", "serial"}, {"name", "model", "serial"}}

Lacking(table, keys) == [key \in DOMAIN table |-> IF key \in keys THEN None ELSE table[key]]

\* A file that ends inside a text or before a key that has to be there: it is
\* refused, as is one with an unknown type.
Unloadable(document) ==
  [document EXCEPT !.devices = <<[EmptySlot(1) EXCEPT !.type = "unknown"]>>]

\* The beginnings of a file: it ends in its k-th device, before its devices, or
\* in the numbers of the system.
EndsInDevice(document, k, keys) ==
  [document EXCEPT !.devices = Append(SubSeq(@, 1, k - 1), Lacking(@[k], keys))]

EndsInNames(document, sections, outputs) ==
  [document EXCEPT !.devices = << >>, !.sections = sections, !.pg_outputs = outputs]

EndsInNumbers(document, devices, outputs) ==
  [EndsInNames(document, << >>, << >>) EXCEPT !.number_of_devices = devices,
                                              !.number_of_pg_outputs = outputs]

-----------------------------------------------------------------------------
(* F-Link *)

\* Position 0 is the panel; a row without a usable position refuses the file.
LoadFlinkCsv(rows) ==
  LET devices == Selected(rows, {i \in DOMAIN rows : rows[i].number # 0})
  IN IF \/ \E i \in DOMAIN rows : rows[i].number \notin 0..MaxDevice
        \/ ~Distinct(devices)
       THEN Refused ELSE devices

\* The names of sections or outputs; no file gives no names.
LoadFlinkNames(rows, maximum) == IF NamesValid(rows, maximum) THEN rows ELSE Refused

\* Mutant of MergedName: the export's name counts even when it is empty.
MergedNameAlways(device, row) == row.name

MergedName(device, row) == IF row.name = "" THEN device.name ELSE row.name

\* Rows without a model are positions nobody assigned.
MergedDevice(device, rows, serials) ==
  IF device.number \notin Numbers(rows) THEN device
  ELSE LET row == Numbered(rows, device.number)
       IN IF row.model = None THEN device
          ELSE [device EXCEPT !.name = MergedName(device, row), !.model = row.model,
                              !.serial = IF serials THEN row.serial ELSE @]

MergeFlinkDevices(config, rows, serials) ==
  [config EXCEPT !.devices =
     [i \in DOMAIN @ |-> MergedDevice(@[i], rows, serials)]]

\* Mutant of OutputsFit: nobody compares the outputs with their number.
OutputsFitAlways(config, outputs) == TRUE

OutputsFit(config, outputs) == Numbers(outputs) \subseteq 1..config.number_of_pg_outputs

MergeFlinkNames(config, sections, outputs) ==
  IF ~OutputsFit(config, outputs) THEN Refused
  ELSE [config EXCEPT !.sections = IF sections = << >> THEN @ ELSE sections,
                      !.pg_outputs = IF outputs = << >> THEN @ ELSE outputs]

\* The type a model suggests; people review the custom ones.
InferDeviceType(model) ==
  CASE model = "JA-110R" -> "radio_module"
    [] model \in {"JA-110P", "JA-120PC"} -> "motion_detector"
    [] model = "JA-110A" -> "indoor_siren"
    [] model = "JA-110TP" -> "thermostat"
    [] model \in {"JA-111ST", "JA-151ST"} -> "smoke_detector"
    [] model \in {"JA-154J", "JA-185J", "JA-186J"} -> "key_fob"
    [] model \in {"JA-114E", "JA-113E", "JA-115E"} -> "keypad"
    [] OTHER -> "custom"

\* Without a count the highest position of the export counts, assigned or not.
CreateConfigFromFlink(rows, count, outputs) ==
  LET devices == Selected(rows, {i \in DOMAIN rows : rows[i].model # None})
      configured == IF count \in {None, 0} THEN Largest(Numbers(rows)) ELSE count
      slot(n) == [EmptySlot(n) EXCEPT !.type = InferDeviceType(Numbered(devices, n).model),
                    !.name = Numbered(devices, n).name, !.model = Numbered(devices, n).model]
  IN IF \/ configured \notin 0..MaxDevice \/ outputs \notin 0..MaxOutput
        \/ ~(Numbers(devices) \subseteq 1..configured)
       THEN Refused
     ELSE [devices |-> [n \in 1..configured |->
                          IF n \in Numbers(devices) THEN slot(n) ELSE EmptySlot(n)],
           sections |-> << >>, pg_outputs |-> << >>, number_of_pg_outputs |-> outputs,
           code |-> None, code_env |-> "JABLOTRON_CODE"]

-----------------------------------------------------------------------------
(* Home Assistant *)

\* The one entry of this integration, by its id if one is given.  An export of
\* one entry is that entry, whatever id is asked for.
SelectEntry(document, entry_id) ==
  LET entries == document.entries
      candidates == Selected(entries,
                             {i \in DOMAIN entries :
                                \/ document.filtered
                                \/ /\ entries[i].domain = "jablotron100"
                                   /\ entry_id \in {None, entries[i].id}})
  IN IF Len(candidates) # 1 THEN Refused ELSE candidates[1]

LoadHomeAssistantConfig(document, entry_id) ==
  LET entry == SelectEntry(document, entry_id)
  IN IF entry = Refused THEN Refused
     ELSE IF \/ entry.number_of_devices # Len(entry.devices)
             \/ \E i \in DOMAIN entry.devices : entry.devices[i] \notin DeviceTypes
             \/ Len(entry.devices) > MaxDevice
             \/ entry.number_of_pg_outputs \notin 0..MaxOutput
       THEN Refused
     ELSE [devices |-> [n \in DOMAIN entry.devices |->
                          [EmptySlot(n) EXCEPT !.type = entry.devices[n]]],
           sections |-> << >>, pg_outputs |-> << >>,
           number_of_pg_outputs |-> entry.number_of_pg_outputs,
           code |-> entry.password, code_env |-> None]

-----------------------------------------------------------------------------
(* The commands and the editor *)

Init ==
  /\ file = None
  /\ saved = None
  /\ steps = 0

Step ==
  /\ steps < MaxSteps
  /\ steps' = steps + 1

\* A write fails on the way.  A number the file ends in may lack digits.
Tear(document) ==
  \/ \E k \in DOMAIN document.devices, keys \in LostKeys :
       file' = EndsInDevice(document, k, keys)
  \/ \E k \in 0..Len(document.pg_outputs) :
       file' = EndsInNames(document, document.sections, SubSeq(document.pg_outputs, 1, k))
  \/ \E k \in 0..Len(document.sections) :
       file' = EndsInNames(document, SubSeq(document.sections, 1, k), << >>)
  \/ \E m \in 0..document.number_of_pg_outputs :
       file' = EndsInNumbers(document, document.number_of_devices, m)
  \/ \E n \in 0..document.number_of_devices : file' = EndsInNumbers(document, n, 0)
  \/ \E env \in {None, document.code_env} :
       file' = [EndsInNumbers(document, None, 0) EXCEPT !.code_env = env]
  \/ file' = Unloadable(document)

\* write_text replaces the file, or leaves its beginning.
Save(config, from) ==
  LET document == SaveConfig(config, FALSE)
  IN \/ file' = document /\ saved' = [config |-> config, from |-> from]
     \/ Tear(document) /\ saved' = None

\* A command that is refused ends before it writes anything.
SaveUnlessRefused(config, from) ==
  IF config = Refused THEN UNCHANGED <<file, saved>> ELSE Save(config, from)

ConvertHa ==
  /\ Step
  /\ \E document \in HaDocument, entry_id \in EntryId \cup {None} :
       SaveUnlessRefused(LoadHomeAssistantConfig(document, entry_id), None)

Merged(config, rows, sections, outputs, serials) ==
  IF config = Refused \/ rows = Refused \/ sections = Refused \/ outputs = Refused
    THEN Refused
    ELSE MergeFlinkNames(MergeFlinkDevices(config, rows, serials), sections, outputs)

MergeFlink ==
  /\ Step /\ file # None
  /\ \E csv \in DeviceCsv, sections \in NameCsv, outputs \in NameCsv, serials \in BOOLEAN :
       LET config == LoadConfig(file)
       IN SaveUnlessRefused(
            Merged(config, LoadFlinkCsv(csv), LoadFlinkNames(sections, MaxSection),
                   LoadFlinkNames(outputs, MaxOutput), serials), config)

ImportFlink ==
  /\ Step
  /\ \E csv \in DeviceCsv, count \in DeviceCount, outputs \in 0..MaxOutput + 1 :
       LET rows == LoadFlinkCsv(csv)
       IN SaveUnlessRefused(
            IF rows = Refused THEN Refused ELSE CreateConfigFromFlink(rows, count, outputs), None)

\* People add or replace a device, drop the count, or write the code down.
EditByHand ==
  /\ Step /\ file # None
  /\ \/ \E table \in HandTable : file' = [file EXCEPT !.devices = Append(@, table)]
     \/ \E table \in HandTable, i \in DOMAIN file.devices :
          file' = [file EXCEPT !.devices[i] = table]
     \/ file' = [file EXCEPT !.number_of_devices = None]
     \/ \E code \in Name : file' = [file EXCEPT !.code = code, !.code_env = None]
  /\ saved' = None

Next == ConvertHa \/ MergeFlink \/ ImportFlink \/ EditByHand

Spec == Init /\ [][Next]_vars

-----------------------------------------------------------------------------
(* Properties *)

\* What a command saves is what the next one loads, whatever was imported,
\* edited and merged before: no file it wrote is refused, and only the code, an
\* empty text and what an empty position carried are gone.
ReloadsSame ==
  saved # None =>
    LET before == saved.config
        after == LoadConfig(file)
        kept(i, field) == /\ before.devices[i].type # "empty"
                          /\ before.devices[i][field] # ""
        same(i, field) == after.devices[i][field] =
                            IF kept(i, field) THEN before.devices[i][field] ELSE None
    IN /\ after # Refused
       /\ Len(after.devices) = Len(before.devices)
       /\ \A i \in DOMAIN before.devices :
            /\ after.devices[i].type = before.devices[i].type
            /\ \A field \in {"name", "model", "serial"} : same(i, field)
       /\ \A field \in {"sections", "pg_outputs", "number_of_pg_outputs"} :
            after[field] = before[field]

\* The client finds device n at place n of what it loads, also when the file
\* lists few devices, in any order, or does not say how many there are.
PositionsDense ==
  file # None /\ LoadConfig(file) # Refused =>
    \A i \in DOMAIN LoadConfig(file).devices : LoadConfig(file).devices[i].number = i

\* "without the authorisation code": no command leaves a code in a file.
NoCodeWritten == saved # None => file.code = None

\* "while preserving semantic types": merging changes no type and loses no
\* name, whatever the export says of the positions.
MergeKeeps ==
  (saved # None /\ saved.from # None) =>
      \A i \in DOMAIN saved.from.devices :
        LET old == saved.from.devices[i]
            new == saved.config.devices[i]
        IN /\ new.number = old.number
           /\ new.type = old.type
           /\ (old.name \in Name => new.name \in Name)
=============================================================================

--------------------------- MODULE ConfigFileProofs ---------------------------
(***************************************************************************)
(* ConfigFile: for any documents, exports and edits, the client finds each *)
(* device at its own number, no command writes the code to a file, what a  *)
(* command saves is what the next one loads, and merging keeps types and   *)
(* names.                                                                  *)
(***************************************************************************)
EXTENDS ConfigFile, SelectionProofs, TLAPS

\* Loading gives every position its own number, however sparse or unordered the
\* tables of the document are.
LEMMA SlotsDense ==
  ASSUME NEW document, NEW n \in 1..CountOf(document)
  PROVE  Slots(document)[n].number = n
<1>1. CASE n \in Numbers(document.devices)
  <2>1. PICK i \in DOMAIN document.devices : document.devices[i].number = n
    BY <1>1 DEF Numbers
  <2>2. Numbered(document.devices, n).number = n
    BY <2>1 DEF Numbered
  <2> QED  BY <1>1, <2>2 DEF Slots
<1>2. CASE n \notin Numbers(document.devices)
  BY <1>2 DEF Slots, EmptySlot
<1> QED  BY <1>1, <1>2

LEMMA LoadedDense == PositionsDense
<1> SUFFICES ASSUME LoadConfig(file) # Refused, NEW i \in DOMAIN LoadConfig(file).devices
             PROVE  LoadConfig(file).devices[i].number = i
  BY DEF PositionsDense
<1>1. LoadConfig(file).devices = Slots(file)
  BY DEF LoadConfig
<1>2. i \in 1..CountOf(file)
  BY <1>1 DEF Slots
<1> QED  BY <1>1, <1>2, SlotsDense

\* The client finds device n at place n of any file it accepts.
THEOREM Dense == Spec => []PositionsDense
BY LoadedDense, PTL

-----------------------------------------------------------------------------
\* Saving without include_code drops the code, whatever was loaded.
LEMMA SavedWithoutCode ==
  ASSUME NEW config
  PROVE  SaveConfig(config, FALSE).code = None
BY DEF SaveConfig, CodeSaved

LEMMA SaveWritesNoCode ==
  ASSUME NoCodeWritten, NEW config, NEW from, SaveUnlessRefused(config, from)
  PROVE  NoCodeWritten'
<1>1. CASE config = Refused
  BY <1>1 DEF SaveUnlessRefused, NoCodeWritten
<1>2. CASE config # Refused
  <2>1. Save(config, from)
    BY <1>2 DEF SaveUnlessRefused
  <2>2. CASE file' = SaveConfig(config, FALSE)
    BY <2>2, SavedWithoutCode DEF NoCodeWritten
  <2>3. CASE saved' = None
    BY <2>3 DEF NoCodeWritten
  <2> QED  BY <2>1, <2>2, <2>3 DEF Save
<1> QED  BY <1>1, <1>2

\* No command leaves the authorisation code in a file it has written.
THEOREM NoCode == Spec => []NoCodeWritten
<1>1. Init => NoCodeWritten
  BY DEF Init, NoCodeWritten
<1>2. NoCodeWritten /\ [Next]_vars => NoCodeWritten'
  <2> SUFFICES ASSUME NoCodeWritten, [Next]_vars
               PROVE  NoCodeWritten'
    OBVIOUS
  <2>1. CASE ConvertHa
    <3>1. PICK document \in HaDocument, entry_id \in EntryId \cup {None} :
            SaveUnlessRefused(LoadHomeAssistantConfig(document, entry_id), None)
      BY <2>1 DEF ConvertHa
    <3> QED  BY <3>1, SaveWritesNoCode
  <2>2. CASE MergeFlink
    <3>1. \E config, from : SaveUnlessRefused(config, from)
      BY <2>2 DEF MergeFlink
    <3> QED  BY <3>1, SaveWritesNoCode
  <2>3. CASE ImportFlink
    <3>1. \E config : SaveUnlessRefused(config, None)
      BY <2>3 DEF ImportFlink
    <3> QED  BY <3>1, SaveWritesNoCode
  <2>4. CASE EditByHand
    BY <2>4 DEF EditByHand, NoCodeWritten
  <2>5. CASE UNCHANGED vars
    BY <2>5 DEF vars, NoCodeWritten
  <2> QED  BY <2>1, <2>2, <2>3, <2>4, <2>5 DEF Next
<1> QED  BY <1>1, <1>2, PTL DEF Spec

-----------------------------------------------------------------------------
(* What configurations and files hold *)

Document ==
  [devices : Seq(DeviceTable), sections : Seq(NameTable), pg_outputs : Seq(NameTable),
   number_of_devices : Int \cup {None}, number_of_pg_outputs : Int,
   code : Text, code_env : Text \cup {"JABLOTRON_CODE"}]

\* The configurations commands work with.
Sound(config) ==
  /\ config \in Config
  /\ Len(config.devices) <= MaxDevice
  /\ \A i \in DOMAIN config.devices :
       config.devices[i].number = i /\ config.devices[i].type \in DeviceTypes
  /\ NamesValid(config.sections, MaxSection)
  /\ NamesValid(config.pg_outputs, MaxOutput)
  /\ Numbers(config.pg_outputs) \subseteq 1..config.number_of_pg_outputs
  /\ config.number_of_pg_outputs \in 0..MaxOutput

\* What a command saved is still in the file.
ConfigInv ==
  /\ file # None => file \in Document
  /\ saved # None => Sound(saved.config) /\ file = SaveConfig(saved.config, FALSE)

LEMMA EmptySlotTable == \A n \in Int : EmptySlot(n) \in DeviceTable
<1>1. "empty" \in TypeText /\ None \in Text
  BY DEF TypeText, DeviceTypes, Text
<1> QED  BY <1>1 DEF EmptySlot, DeviceTable

\* A table of the file at its number.
LEMMA NumberedTable ==
  ASSUME NEW items, NEW n \in Numbers(items)
  PROVE  \E i \in DOMAIN items : items[i].number = n /\ Numbered(items, n) = items[i]
<1>1. \E i \in DOMAIN items : items[i].number = n
  BY DEF Numbers
<1>2. PICK i \in DOMAIN items : i = CHOOSE j \in DOMAIN items : items[j].number = n
  BY <1>1
<1> QED  BY <1>1, <1>2 DEF Numbered

\* What a valid file holds is sound once it is loaded.
LEMMA LoadedSound ==
  ASSUME NEW document \in Document, LoadConfig(document) # Refused
  PROVE  Sound(LoadConfig(document))
<1> DEFINE config == LoadConfig(document)
           count == CountOf(document)
<1>1. DocumentValid(document)
  BY DEF LoadConfig
<1>2. count \in 0..MaxDevice /\ count \in Nat
  BY <1>1, LimitAssumption DEF DocumentValid
<1>3. /\ document.devices \in Seq(DeviceTable)
      /\ document.sections \in Seq(NameTable) /\ document.pg_outputs \in Seq(NameTable)
      /\ document.number_of_pg_outputs \in Int
      /\ document.code \in Text /\ document.code_env \in Text \cup {"JABLOTRON_CODE"}
  BY DEF Document
<1>4. ASSUME NEW n \in 1..count
      PROVE  Slots(document)[n] \in DeviceTable /\ Slots(document)[n].type \in DeviceTypes
  <2>1. CASE n \in Numbers(document.devices)
    <3>1. PICK i \in DOMAIN document.devices :
            Numbered(document.devices, n) = document.devices[i]
      BY <2>1, NumberedTable
    <3>2. document.devices[i] \in DeviceTable /\ document.devices[i].type \in DeviceTypes
      BY <1>1, <1>3 DEF DocumentValid
    <3>3. Slots(document)[n] = document.devices[i]
      BY <2>1, <3>1 DEF Slots
    <3> QED  BY <3>2, <3>3
  <2>2. CASE n \notin Numbers(document.devices)
    <3>1. Slots(document)[n] = EmptySlot(n)
      BY <2>2 DEF Slots
    <3>2. n \in Int /\ EmptySlot(n).type = "empty"
      BY <1>2 DEF EmptySlot
    <3> QED  BY <3>1, <3>2, EmptySlotTable DEF DeviceTypes
  <2> QED  BY <2>1, <2>2
<1>5. /\ DOMAIN Slots(document) = 1..count
      /\ Slots(document) = [n \in 1..count |-> Slots(document)[n]]
  BY DEF Slots
<1>6. Slots(document) \in Seq(DeviceTable) /\ Len(Slots(document)) = count
  <2>1. [n \in 1..count |-> Slots(document)[n]] \in Seq(DeviceTable)
    BY <1>2, <1>4, IsASeq
  <2> QED  BY <1>2, <1>5, <2>1
<1>7. config = [devices |-> Slots(document), sections |-> document.sections,
                pg_outputs |-> document.pg_outputs,
                number_of_pg_outputs |-> document.number_of_pg_outputs,
                code |-> document.code,
                code_env |-> IF document.code_env = None THEN "JABLOTRON_CODE"
                             ELSE document.code_env]
  BY <1>1 DEF LoadConfig
<1> HIDE DEF config, count
<1>8. config \in Config
  BY <1>3, <1>6, <1>7 DEF Config
<1>9. Len(config.devices) <= MaxDevice
  BY <1>2, <1>6, <1>7, LimitAssumption
<1>10. \A i \in DOMAIN config.devices :
         config.devices[i].number = i /\ config.devices[i].type \in DeviceTypes
  BY <1>4, <1>5, <1>7, SlotsDense DEF count
<1> QED  BY <1>1, <1>7, <1>8, <1>9, <1>10 DEF Sound, DocumentValid, config

-----------------------------------------------------------------------------
(* What saving writes *)

\* Where the occupied positions of a configuration stand in its file.
Kept(config) == {i \in DOMAIN config.devices : Occupied(config.devices[i])}

\* The tables of the file: those positions, in their order.
LEMMA SavedTables ==
  ASSUME NEW config, Sound(config)
  PROVE  LET tables == SaveConfig(config, FALSE).devices
         IN  /\ tables \in Seq(DeviceTable)
             /\ \A k \in DOMAIN tables : /\ tables[k].number \in Kept(config)
                                         /\ tables[k] = Table(config.devices[tables[k].number])
             /\ Distinct(tables)
             /\ Numbers(tables) = Kept(config)
<1> DEFINE devices == config.devices
           kept == Kept(config)
           occupied == Selected(devices, kept)
           tables == SaveConfig(config, FALSE).devices
<1>1. devices \in Seq(DeviceTable) /\ \A i \in DOMAIN devices : devices[i].number = i
  BY DEF Sound, Config
<1>2. occupied \in Seq(DeviceTable)
  BY <1>1, SelectedPlaces
<1>3. PICK place : Places(occupied, devices, kept, Len(devices), place)
  BY <1>1, SelectedPlaces
<1>4. tables = [k \in DOMAIN occupied |-> Table(occupied[k])]
  BY DEF SaveConfig, Kept
<1> HIDE DEF devices, kept, occupied, tables
<1>5. PICK L \in Nat : L = Len(occupied) /\ DOMAIN occupied = 1..L
  BY <1>2
<1>6. kept \subseteq DOMAIN devices /\ DOMAIN devices = 1..Len(devices) /\ Len(devices) \in Nat
  BY <1>1 DEF kept, Kept, devices
<1>7. /\ \A k \in 1..L : place[k] \in kept /\ occupied[k] = devices[place[k]]
      /\ \A j, k \in 1..L : j < k => place[j] < place[k]
      /\ \A i \in kept : \E k \in 1..L : place[k] = i
  BY <1>3, <1>5, <1>6 DEF Places
<1>8. \A device \in DeviceTable : Table(device) \in DeviceTable /\ Table(device).number = device.number
  BY DEF Table, DeviceTable, Given, Text
<1>9. ASSUME NEW k \in 1..L
      PROVE  /\ tables[k] \in DeviceTable
             /\ tables[k].number = place[k] /\ tables[k] = Table(devices[place[k]])
  <2>1. place[k] \in DOMAIN devices /\ occupied[k] = devices[place[k]]
    BY <1>6, <1>7
  <2>2. devices[place[k]] \in DeviceTable /\ devices[place[k]].number = place[k]
    BY <1>1, <2>1
  <2>3. tables[k] = Table(devices[place[k]])
    BY <1>4, <1>5, <2>1
  <2> QED  BY <1>8, <2>2, <2>3
<1>10. DOMAIN tables = 1..L /\ tables \in Seq(DeviceTable)
  <2>1. DOMAIN tables = 1..L /\ tables = [k \in 1..L |-> tables[k]]
    BY <1>4, <1>5
  <2>2. [k \in 1..L |-> tables[k]] \in Seq(DeviceTable)
    BY <1>9, IsASeq
  <2> QED  BY <2>1, <2>2
<1>11. Distinct(tables)
  <2> SUFFICES ASSUME NEW j \in 1..L, NEW k \in 1..L, tables[j].number = tables[k].number
               PROVE  j = k
    BY <1>10 DEF Distinct
  <2>1. place[j] = place[k]
    BY <1>9
  <2>2. place[j] \in Nat
    BY <1>6, <1>7
  <2> QED  BY <1>7, <2>1, <2>2
<1>12. Numbers(tables) = kept
  BY <1>7, <1>9, <1>10 DEF Numbers
<1>13. \A k \in DOMAIN tables : tables[k].number \in kept /\ tables[k] = Table(devices[tables[k].number])
  BY <1>7, <1>9, <1>10
<1> QED  BY <1>10, <1>11, <1>12, <1>13 DEF tables, kept, devices

\* The other keys of the file.
LEMMA SavedKeys ==
  ASSUME NEW config
  PROVE  LET document == SaveConfig(config, FALSE)
         IN  /\ document.sections = config.sections
             /\ document.pg_outputs = config.pg_outputs
             /\ document.number_of_devices = Len(config.devices)
             /\ document.number_of_pg_outputs = config.number_of_pg_outputs
             /\ document.code = None
             /\ document.code_env \in {config.code_env, "JABLOTRON_CODE"}
             /\ document = [devices |-> document.devices, sections |-> document.sections,
                            pg_outputs |-> document.pg_outputs,
                            number_of_devices |-> document.number_of_devices,
                            number_of_pg_outputs |-> document.number_of_pg_outputs,
                            code |-> document.code, code_env |-> document.code_env]
BY DEF SaveConfig, CodeSaved, Given

LEMMA SavedDocument ==
  ASSUME NEW config, Sound(config)
  PROVE  SaveConfig(config, FALSE) \in Document
<1> DEFINE document == SaveConfig(config, FALSE)
<1>1. document.devices \in Seq(DeviceTable)
  BY SavedTables
<1>2. /\ config.sections \in Seq(NameTable) /\ config.pg_outputs \in Seq(NameTable)
      /\ Len(config.devices) \in Int /\ config.number_of_pg_outputs \in Int
      /\ config.code_env \in Text \cup {"JABLOTRON_CODE"} /\ None \in Text
  <2>1. /\ config.sections \in Seq(NameTable) /\ config.pg_outputs \in Seq(NameTable)
        /\ config.devices \in Seq(DeviceTable) /\ config.number_of_pg_outputs \in Int
        /\ config.code_env \in Text \cup {"JABLOTRON_CODE"}
    BY DEF Sound, Config
  <2>2. Len(config.devices) \in Int
    BY <2>1
  <2> QED  BY <2>1, <2>2 DEF Text
<1>3. /\ document.sections = config.sections
      /\ document.pg_outputs = config.pg_outputs
      /\ document.number_of_devices = Len(config.devices)
      /\ document.number_of_pg_outputs = config.number_of_pg_outputs
      /\ document.code = None
      /\ document.code_env \in {config.code_env, "JABLOTRON_CODE"}
      /\ document = [devices |-> document.devices, sections |-> document.sections,
                     pg_outputs |-> document.pg_outputs,
                     number_of_devices |-> document.number_of_devices,
                     number_of_pg_outputs |-> document.number_of_pg_outputs,
                     code |-> document.code, code_env |-> document.code_env]
  BY SavedKeys
<1> HIDE DEF document
<1>4. document \in Document
  BY <1>1, <1>2, <1>3 DEF Document
<1> QED  BY <1>4 DEF document

\* What is saved is accepted again, and gives the same devices.
LEMMA SavedReloads ==
  ASSUME NEW config, Sound(config)
  PROVE  LET document == SaveConfig(config, FALSE)
         IN  /\ LoadConfig(document) # Refused
             /\ LoadConfig(document).devices = Slots(document)
             /\ LoadConfig(document).sections = config.sections
             /\ LoadConfig(document).pg_outputs = config.pg_outputs
             /\ LoadConfig(document).number_of_pg_outputs = config.number_of_pg_outputs
             /\ CountOf(document) = Len(config.devices)
             /\ \A i \in 1..Len(config.devices) :
                  Slots(document)[i] = IF i \in Kept(config) THEN Table(config.devices[i])
                                       ELSE EmptySlot(i)
<1> DEFINE document == SaveConfig(config, FALSE)
           tables == document.devices
<1>1. /\ tables \in Seq(DeviceTable)
      /\ \A k \in DOMAIN tables : /\ tables[k].number \in Kept(config)
                                  /\ tables[k] = Table(config.devices[tables[k].number])
      /\ Distinct(tables) /\ Numbers(tables) = Kept(config)
  BY SavedTables
<1>2. /\ document.sections = config.sections
      /\ document.pg_outputs = config.pg_outputs
      /\ document.number_of_devices = Len(config.devices)
      /\ document.number_of_pg_outputs = config.number_of_pg_outputs
  BY SavedKeys
<1>3. document \in Document
  BY SavedDocument
<1> HIDE DEF document
<1>4. /\ config.devices \in Seq(DeviceTable)
      /\ Len(config.devices) \in Nat /\ DOMAIN config.devices = 1..Len(config.devices)
  <2>1. config.devices \in Seq(DeviceTable)
    BY DEF Sound, Config
  <2> QED  BY <2>1
<1>5. CountOf(document) = Len(config.devices)
  <2>1. PICK n \in Int : n = Len(config.devices)
    BY <1>4
  <2>2. n # None
    BY TextAssumption
  <2> QED  BY <1>2, <2>1, <2>2 DEF CountOf
<1>6. Kept(config) \subseteq 1..Len(config.devices)
  BY <1>4 DEF Kept
<1>7. \A k \in DOMAIN tables : tables[k].type \in DeviceTypes
  <2> SUFFICES ASSUME NEW k \in DOMAIN tables PROVE tables[k].type \in DeviceTypes
    OBVIOUS
  <2> DEFINE i == tables[k].number
  <2>1. i \in 1..Len(config.devices) /\ tables[k] = Table(config.devices[i])
    BY <1>1, <1>6
  <2> HIDE DEF i
  <2>2. config.devices[i] \in DeviceTable /\ config.devices[i].type \in DeviceTypes
    BY <1>4, <2>1 DEF Sound
  <2>3. Table(config.devices[i]).type = config.devices[i].type
    BY <2>2 DEF Table, DeviceTable
  <2> QED  BY <2>1, <2>2, <2>3
<1>8. DocumentValid(document)
  <2>1. CountOf(document) \in 0..MaxDevice
    BY <1>4, <1>5, LimitAssumption DEF Sound
  <2>2. Numbers(tables) \subseteq 1..CountOf(document)
    BY <1>1, <1>5, <1>6
  <2> QED  BY <1>1, <1>2, <1>7, <2>1, <2>2 DEF DocumentValid, Sound
<1>9. LoadConfig(document) =
        [devices |-> Slots(document), sections |-> document.sections,
         pg_outputs |-> document.pg_outputs,
         number_of_pg_outputs |-> document.number_of_pg_outputs,
         code |-> document.code,
         code_env |-> IF document.code_env = None THEN "JABLOTRON_CODE"
                      ELSE document.code_env]
  BY <1>8 DEF LoadConfig
<1>10. Slots(document) \in Seq(DeviceTable)
  <2>1. CountOf(document) \in Nat /\ DOMAIN Slots(document) = 1..CountOf(document)
    BY <1>4, <1>5 DEF Slots
  <2>2. ASSUME NEW n \in 1..CountOf(document) PROVE Slots(document)[n] \in DeviceTable
    <3>1. CASE n \in Numbers(tables)
      <4>1. PICK i \in DOMAIN tables : Numbered(tables, n) = tables[i]
        BY <3>1, NumberedTable
      <4>2. tables[i] \in DeviceTable
        BY <1>1
      <4> QED  BY <3>1, <4>1, <4>2 DEF Slots
    <3>2. CASE n \notin Numbers(tables)
      BY <2>1, <3>2, EmptySlotTable DEF Slots
    <3> QED  BY <3>1, <3>2
  <2>3. Slots(document) = [n \in 1..CountOf(document) |-> Slots(document)[n]]
    BY DEF Slots
  <2>4. [n \in 1..CountOf(document) |-> Slots(document)[n]] \in Seq(DeviceTable)
    BY <2>1, <2>2, IsASeq
  <2> QED  BY <2>3, <2>4
<1>11. LoadConfig(document) # Refused
  <2>1. LoadConfig(document) \in Config
    BY <1>3, <1>9, <1>10 DEF Config, Document
  <2> QED  BY <2>1, RefusedAssumption
<1>12. ASSUME NEW i \in 1..Len(config.devices)
       PROVE  Slots(document)[i] = IF i \in Kept(config) THEN Table(config.devices[i])
                                   ELSE EmptySlot(i)
  <2>1. Slots(document)[i] = IF i \in Kept(config) THEN Numbered(tables, i) ELSE EmptySlot(i)
    BY <1>1, <1>5, <1>12 DEF Slots
  <2>2. ASSUME i \in Kept(config) PROVE Numbered(tables, i) = Table(config.devices[i])
    <3>1. PICK k \in DOMAIN tables : tables[k].number = i /\ Numbered(tables, i) = tables[k]
      BY <1>1, <2>2, NumberedTable
    <3> QED  BY <1>1, <3>1
  <2> QED  BY <2>1, <2>2
<1>13. /\ LoadConfig(document).devices = Slots(document)
       /\ LoadConfig(document).sections = config.sections
       /\ LoadConfig(document).pg_outputs = config.pg_outputs
       /\ LoadConfig(document).number_of_pg_outputs = config.number_of_pg_outputs
  BY <1>2, <1>9
<1> QED  BY <1>5, <1>11, <1>12, <1>13, Zenon DEF document

-----------------------------------------------------------------------------
(* What the commands save is sound *)

\* Devices whose numbers are their positions make a sound configuration.
LEMMA ConfigSound ==
  ASSUME NEW config \in Config, NEW n \in 0..MaxDevice,
         DOMAIN config.devices = 1..n,
         \A i \in 1..n : config.devices[i].number = i /\ config.devices[i].type \in DeviceTypes,
         NamesValid(config.sections, MaxSection), NamesValid(config.pg_outputs, MaxOutput),
         Numbers(config.pg_outputs) \subseteq 1..config.number_of_pg_outputs,
         config.number_of_pg_outputs \in 0..MaxOutput
  PROVE  Sound(config)
<1>1. config.devices \in Seq(DeviceTable) /\ n \in Nat /\ n <= MaxDevice
  BY LimitAssumption DEF Config
<1>2. Len(config.devices) = n
  BY <1>1
<1> QED  BY <1>1, <1>2 DEF Sound

LEMMA NoNames == \A maximum, n : NamesValid(<< >>, maximum) /\ Numbers(<< >>) \subseteq 1..n
BY DEF NamesValid, Distinct, Numbers

LEMMA HaSound ==
  ASSUME NEW document \in HaDocument, NEW entry_id,
         LoadHomeAssistantConfig(document, entry_id) # Refused
  PROVE  Sound(LoadHomeAssistantConfig(document, entry_id))
<1> DEFINE config == LoadHomeAssistantConfig(document, entry_id)
           entries == document.entries
           fitting == {i \in DOMAIN entries :
                         \/ document.filtered
                         \/ /\ entries[i].domain = "jablotron100"
                            /\ entry_id \in {None, entries[i].id}}
           candidates == Selected(entries, fitting)
           entry == SelectEntry(document, entry_id)
<1>1. entries \in Seq(HaEntry)
  BY InputAssumption
<1>2. candidates \in Seq(HaEntry)
  <2> HIDE DEF fitting
  <2> QED  BY <1>1, SelectedPlaces
<1>3. entry = IF Len(candidates) # 1 THEN Refused ELSE candidates[1]
  BY DEF SelectEntry
<1>4. entry # Refused
  BY DEF LoadHomeAssistantConfig
<1> HIDE DEF candidates
<1>5. entry \in HaEntry
  BY <1>2, <1>3, <1>4
<1> HIDE DEF entry
<1>6. /\ \A i \in DOMAIN entry.devices : entry.devices[i] \in DeviceTypes
      /\ Len(entry.devices) <= MaxDevice /\ entry.number_of_pg_outputs \in 0..MaxOutput
      /\ config = [devices |-> [n \in DOMAIN entry.devices |->
                                  [EmptySlot(n) EXCEPT !.type = entry.devices[n]]],
                   sections |-> << >>, pg_outputs |-> << >>,
                   number_of_pg_outputs |-> entry.number_of_pg_outputs,
                   code |-> entry.password, code_env |-> None]
  <2>1. Len(entry.devices) \in Nat /\ MaxDevice \in Nat
    BY <1>5, LimitAssumption DEF HaEntry
  <2>2. LoadHomeAssistantConfig(document, entry_id) =
          IF \/ entry.number_of_devices # Len(entry.devices)
             \/ \E i \in DOMAIN entry.devices : entry.devices[i] \notin DeviceTypes
             \/ Len(entry.devices) > MaxDevice
             \/ entry.number_of_pg_outputs \notin 0..MaxOutput
            THEN Refused
            ELSE [devices |-> [n \in DOMAIN entry.devices |->
                                 [EmptySlot(n) EXCEPT !.type = entry.devices[n]]],
                  sections |-> << >>, pg_outputs |-> << >>,
                  number_of_pg_outputs |-> entry.number_of_pg_outputs,
                  code |-> entry.password, code_env |-> None]
    BY <1>4, Zenon DEF LoadHomeAssistantConfig, entry
  <2>3. ~ \/ entry.number_of_devices # Len(entry.devices)
          \/ \E i \in DOMAIN entry.devices : entry.devices[i] \notin DeviceTypes
          \/ Len(entry.devices) > MaxDevice
          \/ entry.number_of_pg_outputs \notin 0..MaxOutput
    BY <2>2, Zenon
  <2>4. Len(entry.devices) <= MaxDevice
    BY <2>1, <2>3
  <2> QED  BY <2>2, <2>3, <2>4, Zenon DEF config
<1> HIDE DEF config
<1>7. PICK n \in Nat : n = Len(entry.devices) /\ DOMAIN entry.devices = 1..n
  BY <1>5 DEF HaEntry
<1>8. \A i \in 1..n : [EmptySlot(i) EXCEPT !.type = entry.devices[i]] \in DeviceTable
                      /\ [EmptySlot(i) EXCEPT !.type = entry.devices[i]].number = i
                      /\ [EmptySlot(i) EXCEPT !.type = entry.devices[i]].type \in DeviceTypes
  <2>1. None \in Text /\ DeviceTypes \subseteq TypeText
    BY DEF Text, TypeText
  <2>2. \A i \in 1..n : i \in Int /\ entry.devices[i] \in DeviceTypes
    BY <1>6, <1>7
  <2> QED  BY <2>1, <2>2 DEF EmptySlot, DeviceTable
<1>9. /\ config.devices = [i \in 1..n |-> [EmptySlot(i) EXCEPT !.type = entry.devices[i]]]
      /\ config.sections = << >> /\ config.pg_outputs = << >>
      /\ config.number_of_pg_outputs = entry.number_of_pg_outputs
  BY <1>6, <1>7
<1>10. config.devices \in Seq(DeviceTable)
  BY <1>8, <1>9, IsASeq
<1>11. config \in Config
  <2>1. entry.password \in Text /\ entry.number_of_pg_outputs \in Int
    BY <1>5 DEF HaEntry
  <2>2. None \in Text
    BY DEF Text
  <2>3. << >> \in Seq(NameTable)
    OBVIOUS
  <2> QED  BY <1>6, <1>10, <2>1, <2>2, <2>3 DEF Config
<1>12. n \in 0..MaxDevice
  BY <1>6, <1>7, LimitAssumption
<1>13. DOMAIN config.devices = 1..n
  BY <1>9
<1>14. \A i \in 1..n : config.devices[i].number = i /\ config.devices[i].type \in DeviceTypes
  BY <1>8, <1>9
<1>15. /\ NamesValid(config.sections, MaxSection) /\ NamesValid(config.pg_outputs, MaxOutput)
       /\ Numbers(config.pg_outputs) \subseteq 1..config.number_of_pg_outputs
       /\ config.number_of_pg_outputs \in 0..MaxOutput
  BY <1>6, <1>9, NoNames
<1>16. Sound(config)
  BY <1>11, <1>12, <1>13, <1>14, <1>15, ConfigSound
<1> QED  BY <1>16 DEF config

LEMMA InferredType == \A model : InferDeviceType(model) \in DeviceTypes
BY DEF InferDeviceType, DeviceTypes

LEMMA FlinkRows ==
  ASSUME NEW rows \in Seq(FlinkRow), LoadFlinkCsv(rows) # Refused
  PROVE  LoadFlinkCsv(rows) \in Seq(FlinkRow)
<1> DEFINE placed == {i \in DOMAIN rows : rows[i].number # 0}
<1>1. LoadFlinkCsv(rows) = Selected(rows, placed)
  BY Zenon DEF LoadFlinkCsv
<1> HIDE DEF placed
<1> QED  BY <1>1, SelectedPlaces

LEMMA FlinkSound ==
  ASSUME NEW rows \in Seq(FlinkRow), NEW count, NEW outputs,
         CreateConfigFromFlink(rows, count, outputs) # Refused
  PROVE  Sound(CreateConfigFromFlink(rows, count, outputs))
<1> DEFINE config == CreateConfigFromFlink(rows, count, outputs)
           assigned == {i \in DOMAIN rows : rows[i].model # None}
           devices == Selected(rows, assigned)
           configured == IF count \in {None, 0} THEN Largest(Numbers(rows)) ELSE count
           slot(n) == [EmptySlot(n) EXCEPT !.type = InferDeviceType(Numbered(devices, n).model),
                         !.name = Numbered(devices, n).name, !.model = Numbered(devices, n).model]
           device(n) == IF n \in Numbers(devices) THEN slot(n) ELSE EmptySlot(n)
<1>1. devices \in Seq(FlinkRow)
  <2> HIDE DEF assigned
  <2> QED  BY SelectedPlaces
<1>2. config = IF \/ configured \notin 0..MaxDevice \/ outputs \notin 0..MaxOutput
                  \/ ~(Numbers(devices) \subseteq 1..configured)
                 THEN Refused
                 ELSE [devices |-> [n \in 1..configured |-> device(n)],
                       sections |-> << >>, pg_outputs |-> << >>, number_of_pg_outputs |-> outputs,
                       code |-> None, code_env |-> "JABLOTRON_CODE"]
  BY Zenon DEF CreateConfigFromFlink
<1>3. config # Refused
  OBVIOUS
<1> HIDE DEF config, devices, configured
<1>4. /\ configured \in 0..MaxDevice /\ outputs \in 0..MaxOutput
      /\ config = [devices |-> [n \in 1..configured |-> device(n)],
                   sections |-> << >>, pg_outputs |-> << >>, number_of_pg_outputs |-> outputs,
                   code |-> None, code_env |-> "JABLOTRON_CODE"]
  BY <1>2, <1>3, Zenon
<1>5. configured \in Nat /\ outputs \in Int
  <2>1. configured \in 0..MaxDevice /\ outputs \in 0..MaxOutput
    BY <1>4
  <2> HIDE DEF slot, device
  <2> QED  BY <2>1, LimitAssumption
<1>6. ASSUME NEW n \in 1..configured
      PROVE  device(n) \in DeviceTable /\ device(n).number = n /\ device(n).type \in DeviceTypes
  <2>1. n \in Int /\ EmptySlot(n) \in DeviceTable /\ EmptySlot(n).number = n
        /\ EmptySlot(n).type = "empty" /\ EmptySlot(n).serial \in Text
    <3>1. n \in Int
      BY <1>5
    <3> QED  BY <3>1, EmptySlotTable DEF EmptySlot, Text
  <2>2. CASE n \in Numbers(devices)
    <3>1. PICK i \in DOMAIN devices : Numbered(devices, n) = devices[i]
      BY <2>2, NumberedTable
    <3>2. devices[i] \in FlinkRow
      BY <1>1
    <3>3. devices[i].name \in Text /\ devices[i].model \in Text
      BY <3>2 DEF FlinkRow, Text
    <3>4. PICK t \in DeviceTypes : t = InferDeviceType(Numbered(devices, n).model)
      BY InferredType
    <3>5. t \in TypeText
      BY DEF TypeText
    <3>6. slot(n) = [number |-> n, type |-> t, name |-> devices[i].name,
                     model |-> devices[i].model, serial |-> None]
      <4>1. slot(n) = [EmptySlot(n) EXCEPT !.type = t, !.name = devices[i].name,
                                           !.model = devices[i].model]
        BY <3>1, <3>4, Zenon
      <4> HIDE DEF slot
      <4> QED  BY <4>1 DEF EmptySlot
    <3>7. None \in Text
      BY DEF Text
    <3>8. slot(n) \in DeviceTable
      BY <2>1, <3>3, <3>5, <3>6, <3>7 DEF DeviceTable
    <3>9. slot(n).number = n /\ slot(n).type \in DeviceTypes
      BY <3>6
    <3> QED  BY <2>2, <3>8, <3>9
  <2>3. CASE n \notin Numbers(devices)
    BY <2>1, <2>3 DEF DeviceTypes
  <2> QED  BY <2>2, <2>3
<1> HIDE DEF slot, device
<1>7. /\ config.devices = [n \in 1..configured |-> device(n)]
      /\ config.sections = << >> /\ config.pg_outputs = << >>
      /\ config.number_of_pg_outputs = outputs
  BY <1>4
<1>8. config.devices \in Seq(DeviceTable)
  BY <1>5, <1>6, <1>7, IsASeq
<1>9. config \in Config
  <2>1. None \in Text /\ << >> \in Seq(NameTable)
    BY DEF Text
  <2> QED  BY <1>4, <1>5, <1>8, <2>1 DEF Config
<1>10. DOMAIN config.devices = 1..configured
  BY <1>7
<1>11. \A i \in 1..configured : config.devices[i].number = i /\ config.devices[i].type \in DeviceTypes
  BY <1>6, <1>7
<1>12. /\ NamesValid(config.sections, MaxSection) /\ NamesValid(config.pg_outputs, MaxOutput)
       /\ Numbers(config.pg_outputs) \subseteq 1..config.number_of_pg_outputs
       /\ config.number_of_pg_outputs \in 0..MaxOutput
  BY <1>4, <1>7, NoNames
<1>13. Sound(config)
  BY <1>4, <1>9, <1>10, <1>11, <1>12, ConfigSound
<1> QED  BY <1>13 DEF config

-----------------------------------------------------------------------------
(* Merging *)

\* One position: whatever the export says of it, its number, its type and a
\* name it had stay.
LEMMA MergedDeviceKeeps ==
  ASSUME NEW rows \in Seq(FlinkRow), NEW device \in DeviceTable, NEW serials
  PROVE  LET merged == MergedDevice(device, rows, serials)
         IN  /\ merged \in DeviceTable
             /\ merged.number = device.number /\ merged.type = device.type
             /\ device.name \in Name => merged.name \in Name
<1> DEFINE row == Numbered(rows, device.number)
           merged == MergedDevice(device, rows, serials)
<1>1. CASE device.number \in Numbers(rows)
  <2>1. PICK i \in DOMAIN rows : row = rows[i]
    BY <1>1, NumberedTable
  <2>2. row \in FlinkRow
    BY <2>1
  <2> HIDE DEF row
  <2>3. PICK name \in Text : name = MergedName(device, row)
    BY <2>2 DEF MergedName, FlinkRow, DeviceTable, Text
  <2>4. device.name \in Name => name \in Name
    BY <2>2, <2>3 DEF MergedName, FlinkRow
  <2>5. row.model \in Text /\ row.serial \in Text
    BY <2>2 DEF FlinkRow, Text
  <2>6. CASE row.model = None
    <3>1. merged = device
      BY <1>1, <2>6, Zenon DEF MergedDevice, row
    <3> QED  BY <3>1
  <2>7. CASE row.model # None
    <3>1. merged = [device EXCEPT !.name = name, !.model = row.model,
                                  !.serial = IF serials THEN row.serial ELSE @]
      BY <1>1, <2>3, <2>7, Zenon DEF MergedDevice, row
    <3> HIDE DEF merged
    <3>2. PICK serial \in Text : serial = IF serials THEN row.serial ELSE device.serial
      BY <2>5 DEF DeviceTable
    <3>3. merged = [number |-> device.number, type |-> device.type, name |-> name,
                    model |-> row.model, serial |-> serial]
      BY <3>1, <3>2 DEF DeviceTable
    <3>4. merged \in DeviceTable
      BY <2>5, <3>3 DEF DeviceTable
    <3> QED  BY <2>4, <3>3, <3>4 DEF merged
  <2> QED  BY <2>6, <2>7
<1>2. CASE device.number \notin Numbers(rows)
  BY <1>2 DEF MergedDevice
<1> QED  BY <1>1, <1>2

\* A merged configuration has the names of the exports that were given, and is
\* as sound as the loaded one.
LEMMA MergedSound ==
  ASSUME NEW config, Sound(config), NEW rows \in Seq(FlinkRow),
         NEW sections \in Seq(NameTable), NamesValid(sections, MaxSection),
         NEW outputs \in Seq(NameTable), NamesValid(outputs, MaxOutput), NEW serials,
         Merged(config, rows, sections, outputs, serials) # Refused
  PROVE  LET merged == Merged(config, rows, sections, outputs, serials)
         IN  /\ Sound(merged)
             /\ \A i \in DOMAIN config.devices :
                  merged.devices[i] = MergedDevice(config.devices[i], rows, serials)
<1> DEFINE merged == Merged(config, rows, sections, outputs, serials)
           first == MergeFlinkDevices(config, rows, serials)
           device(i) == MergedDevice(config.devices[i], rows, serials)
<1>1. config \in Config /\ config.devices \in Seq(DeviceTable)
  BY DEF Sound, Config
<1>2. PICK n \in Nat : n = Len(config.devices) /\ DOMAIN config.devices = 1..n
  BY <1>1
<1>3. n \in 0..MaxDevice
  BY <1>2, LimitAssumption DEF Sound
<1>4. first = [config EXCEPT !.devices = [i \in 1..n |-> device(i)]]
  BY <1>2, Zenon DEF MergeFlinkDevices
<1>5. \A i \in 1..n : device(i) \in DeviceTable /\ device(i).number = i
                      /\ device(i).type \in DeviceTypes
  <2> SUFFICES ASSUME NEW i \in 1..n
               PROVE  device(i) \in DeviceTable /\ device(i).number = i
                      /\ device(i).type \in DeviceTypes
    OBVIOUS
  <2>1. config.devices[i] \in DeviceTable
    BY <1>1, <1>2
  <2>2. config.devices[i].number = i /\ config.devices[i].type \in DeviceTypes
    BY <1>2 DEF Sound
  <2> QED  BY <2>1, <2>2, MergedDeviceKeeps
<1>6. /\ OutputsFit(first, outputs)
      /\ merged = [first EXCEPT !.sections = IF sections = << >> THEN @ ELSE sections,
                                !.pg_outputs = IF outputs = << >> THEN @ ELSE outputs]
  <2> HIDE DEF first
  <2>1. merged = IF config = Refused \/ rows = Refused \/ sections = Refused \/ outputs = Refused
                   THEN Refused ELSE MergeFlinkNames(first, sections, outputs)
    BY Zenon DEF Merged, first
  <2>2. merged # Refused
    OBVIOUS
  <2> HIDE DEF merged
  <2> QED  BY <2>1, <2>2, Zenon DEF MergeFlinkNames
<1> HIDE DEF merged, device
<1>7. PICK new : new = [i \in 1..n |-> device(i)]
  OBVIOUS
<1>8. new \in Seq(DeviceTable) /\ DOMAIN new = 1..n /\ \A i \in 1..n : new[i] = device(i)
  BY <1>5, <1>7, IsASeq
<1>9. first = [devices |-> new, sections |-> config.sections, pg_outputs |-> config.pg_outputs,
               number_of_pg_outputs |-> config.number_of_pg_outputs,
               code |-> config.code, code_env |-> config.code_env]
  BY <1>1, <1>4, <1>7 DEF Config
<1> HIDE DEF first
<1>10. /\ merged.devices = new
       /\ merged.sections \in {config.sections, sections}
       /\ merged.pg_outputs \in {config.pg_outputs, outputs}
       /\ merged.number_of_pg_outputs = config.number_of_pg_outputs
       /\ merged.code = config.code /\ merged.code_env = config.code_env
       /\ merged = [devices |-> merged.devices, sections |-> merged.sections,
                    pg_outputs |-> merged.pg_outputs,
                    number_of_pg_outputs |-> merged.number_of_pg_outputs,
                    code |-> merged.code, code_env |-> merged.code_env]
  BY <1>6, <1>9
<1>11. merged \in Config
  BY <1>1, <1>8, <1>10 DEF Config
<1>12. NamesValid(merged.sections, MaxSection) /\ NamesValid(merged.pg_outputs, MaxOutput)
  BY <1>10 DEF Sound
<1>13. Numbers(merged.pg_outputs) \subseteq 1..merged.number_of_pg_outputs
  <2>1. Numbers(outputs) \subseteq 1..config.number_of_pg_outputs
    BY <1>6, <1>9 DEF OutputsFit
  <2> QED  BY <1>10, <2>1 DEF Sound
<1>14. merged.number_of_pg_outputs \in 0..MaxOutput
  BY <1>10 DEF Sound
<1>15. \A i \in 1..n : merged.devices[i].number = i /\ merged.devices[i].type \in DeviceTypes
  BY <1>5, <1>8, <1>10
<1>16. Sound(merged)
  BY <1>3, <1>8, <1>10, <1>11, <1>12, <1>13, <1>14, <1>15, ConfigSound
<1> QED  BY <1>2, <1>8, <1>10, <1>16 DEF merged, device

-----------------------------------------------------------------------------
(* Every step *)

LEMMA LackingTable ==
  ASSUME NEW table \in DeviceTable, NEW keys \in LostKeys
  PROVE  Lacking(table, keys) \in DeviceTable
<1>1. None \in Text /\ "number" \notin keys /\ "type" \notin keys
  BY DEF Text, LostKeys
<1> QED  BY <1>1 DEF Lacking, DeviceTable

LEMMA NamesEndDocument ==
  ASSUME NEW document \in Document,
         NEW sections \in Seq(NameTable), NEW outputs \in Seq(NameTable)
  PROVE  EndsInNames(document, sections, outputs) \in Document
<1>1. << >> \in Seq(DeviceTable)
  OBVIOUS
<1> QED  BY <1>1 DEF EndsInNames, Document

LEMMA NumbersEndDocument ==
  ASSUME NEW document \in Document, NEW devices \in Int \cup {None}, NEW outputs \in Int
  PROVE  EndsInNumbers(document, devices, outputs) \in Document
<1>1. << >> \in Seq(NameTable)
  OBVIOUS
<1>2. EndsInNames(document, << >>, << >>) \in Document
  BY <1>1, NamesEndDocument
<1> QED  BY <1>2 DEF EndsInNumbers, Document

\* A write that is cut short leaves a document too.
LEMMA TornDocument ==
  ASSUME NEW document \in Document, Tear(document)
  PROVE  file' \in Document
<1>1. /\ document.devices \in Seq(DeviceTable)
      /\ document.sections \in Seq(NameTable) /\ document.pg_outputs \in Seq(NameTable)
      /\ document.number_of_devices \in Int \cup {None}
      /\ document.number_of_pg_outputs \in Int
      /\ document.code_env \in Text \cup {"JABLOTRON_CODE"} /\ None \in Text
  BY DEF Document, Text
<1>2. ASSUME NEW k \in DOMAIN document.devices, NEW keys \in LostKeys,
             file' = EndsInDevice(document, k, keys)
      PROVE  file' \in Document
  <2>1. Lacking(document.devices[k], keys) \in DeviceTable
    BY <1>1, LackingTable
  <2>2. SubSeq(document.devices, 1, k - 1) \in Seq(DeviceTable)
    BY <1>1
  <2>3. Append(SubSeq(document.devices, 1, k - 1), Lacking(document.devices[k], keys))
          \in Seq(DeviceTable)
    BY <2>1, <2>2
  <2> QED  BY <1>2, <2>3 DEF EndsInDevice, Document
<1>3. ASSUME NEW k \in 0..Len(document.pg_outputs),
             file' = EndsInNames(document, document.sections, SubSeq(document.pg_outputs, 1, k))
      PROVE  file' \in Document
  <2>1. SubSeq(document.pg_outputs, 1, k) \in Seq(NameTable)
    BY <1>1
  <2> QED  BY <1>1, <1>3, <2>1, NamesEndDocument
<1>4. ASSUME NEW k \in 0..Len(document.sections),
             file' = EndsInNames(document, SubSeq(document.sections, 1, k), << >>)
      PROVE  file' \in Document
  <2>1. SubSeq(document.sections, 1, k) \in Seq(NameTable) /\ << >> \in Seq(NameTable)
    BY <1>1
  <2> QED  BY <1>4, <2>1, NamesEndDocument
<1>5. ASSUME NEW m \in 0..document.number_of_pg_outputs,
             file' = EndsInNumbers(document, document.number_of_devices, m)
      PROVE  file' \in Document
  <2>1. m \in Int
    BY <1>1
  <2> QED  BY <1>1, <1>5, <2>1, NumbersEndDocument
<1>6. ASSUME NEW n \in 0..document.number_of_devices, file' = EndsInNumbers(document, n, 0)
      PROVE  file' \in Document
  <2>1. n \in Int /\ 0 \in Int
    OBVIOUS
  <2> QED  BY <1>6, <2>1, NumbersEndDocument
<1>7. ASSUME NEW env \in {None, document.code_env},
             file' = [EndsInNumbers(document, None, 0) EXCEPT !.code_env = env]
      PROVE  file' \in Document
  <2>1. EndsInNumbers(document, None, 0) \in Document
    <3>1. None \in Int \cup {None} /\ 0 \in Int
      OBVIOUS
    <3> QED  BY <3>1, NumbersEndDocument
  <2>2. env \in Text \cup {"JABLOTRON_CODE"}
    BY <1>1
  <2> QED  BY <1>7, <2>1, <2>2 DEF Document
<1>8. CASE file' = Unloadable(document)
  <2>1. [EmptySlot(1) EXCEPT !.type = "unknown"] \in DeviceTable
    BY <1>1 DEF EmptySlot, DeviceTable, TypeText
  <2>2. <<[EmptySlot(1) EXCEPT !.type = "unknown"]>> \in Seq(DeviceTable)
    BY <2>1
  <2> QED  BY <1>8, <2>2 DEF Unloadable, Document
<1> QED  BY <1>2, <1>3, <1>4, <1>5, <1>6, <1>7, <1>8 DEF Tear

LEMMA SaveKeeps ==
  ASSUME ConfigInv, NEW config, NEW from, config # Refused => Sound(config),
         SaveUnlessRefused(config, from)
  PROVE  ConfigInv'
<1>1. CASE config = Refused
  BY <1>1 DEF SaveUnlessRefused, ConfigInv
<1>2. CASE config # Refused
  <2> DEFINE document == SaveConfig(config, FALSE)
  <2>1. Save(config, from) /\ Sound(config)
    BY <1>2 DEF SaveUnlessRefused
  <2>2. document \in Document
    BY <2>1, SavedDocument
  <2>3. CASE file' = document /\ saved' = [config |-> config, from |-> from]
    <3>1. saved'.config = config
      BY <2>3
    <3> QED  BY <2>1, <2>2, <2>3, <3>1, Zenon DEF ConfigInv
  <2>4. CASE Tear(document) /\ saved' = None
    <3> HIDE DEF document
    <3>1. file' \in Document
      BY <2>2, <2>4, TornDocument
    <3> QED  BY <2>4, <3>1 DEF ConfigInv
  <2> QED  BY <2>1, <2>3, <2>4, Zenon DEF Save
<1> QED  BY <1>1, <1>2

LEMMA EditKeeps ==
  ASSUME ConfigInv, EditByHand
  PROVE  ConfigInv'
<1>1. file \in Document /\ saved' = None
  BY DEF EditByHand, ConfigInv
<1>2. /\ file.devices \in Seq(DeviceTable) /\ None \in Text /\ Name \subseteq Text
      /\ HandTable \subseteq DeviceTable
  BY <1>1, InputAssumption DEF Document, Text
<1>3. file' \in Document
  <2>1. CASE \E table \in HandTable : file' = [file EXCEPT !.devices = Append(@, table)]
    <3>1. PICK table \in HandTable : file' = [file EXCEPT !.devices = Append(@, table)]
      BY <2>1
    <3>2. Append(file.devices, table) \in Seq(DeviceTable)
      BY <1>2
    <3> QED  BY <1>1, <3>1, <3>2 DEF Document
  <2>2. CASE \E table \in HandTable, i \in DOMAIN file.devices :
               file' = [file EXCEPT !.devices[i] = table]
    <3>1. PICK table \in HandTable, i \in DOMAIN file.devices :
            file' = [file EXCEPT !.devices[i] = table]
      BY <2>2
    <3>2. [file.devices EXCEPT ![i] = table] \in Seq(DeviceTable)
      BY <1>2
    <3> QED  BY <1>1, <3>1, <3>2 DEF Document
  <2>3. CASE file' = [file EXCEPT !.number_of_devices = None]
    BY <1>1, <2>3 DEF Document
  <2>4. CASE \E code \in Name : file' = [file EXCEPT !.code = code, !.code_env = None]
    BY <1>1, <1>2, <2>4 DEF Document
  <2> QED  BY <2>1, <2>2, <2>3, <2>4 DEF EditByHand
<1> QED  BY <1>1, <1>3 DEF ConfigInv

\* What a merge is given, and what it makes of it.
LEMMA MergeSound ==
  ASSUME ConfigInv, file # None,
         NEW csv \in DeviceCsv, NEW sections \in NameCsv, NEW outputs \in NameCsv, NEW serials,
         Merged(LoadConfig(file), LoadFlinkCsv(csv), LoadFlinkNames(sections, MaxSection),
                LoadFlinkNames(outputs, MaxOutput), serials) # Refused
  PROVE  LET config == LoadConfig(file)
             rows == LoadFlinkCsv(csv)
             merged == Merged(config, rows, LoadFlinkNames(sections, MaxSection),
                              LoadFlinkNames(outputs, MaxOutput), serials)
         IN  /\ Sound(config) /\ Sound(merged) /\ rows \in Seq(FlinkRow)
             /\ \A i \in DOMAIN config.devices :
                  merged.devices[i] = MergedDevice(config.devices[i], rows, serials)
<1>1. /\ LoadConfig(file) # Refused /\ LoadFlinkCsv(csv) # Refused
      /\ LoadFlinkNames(sections, MaxSection) # Refused
      /\ LoadFlinkNames(outputs, MaxOutput) # Refused
  BY Zenon DEF Merged
<1>2. Sound(LoadConfig(file))
  BY <1>1, LoadedSound DEF ConfigInv
<1>3. LoadFlinkCsv(csv) \in Seq(FlinkRow)
  BY <1>1, FlinkRows, InputAssumption
<1>4. /\ LoadFlinkNames(sections, MaxSection) = sections /\ NamesValid(sections, MaxSection)
      /\ LoadFlinkNames(outputs, MaxOutput) = outputs /\ NamesValid(outputs, MaxOutput)
  BY <1>1 DEF LoadFlinkNames
<1>5. sections \in Seq(NameTable) /\ outputs \in Seq(NameTable)
  BY InputAssumption
<1> QED  BY <1>2, <1>3, <1>4, <1>5, MergedSound

\* The inductive invariant: files hold documents, and what a command saved was
\* sound and is in the file.
THEOREM FilesSound == Spec => []ConfigInv
<1>1. Init => ConfigInv
  BY DEF Init, ConfigInv
<1>2. ConfigInv /\ [Next]_vars => ConfigInv'
  <2> SUFFICES ASSUME ConfigInv, [Next]_vars
               PROVE  ConfigInv'
    OBVIOUS
  <2>1. CASE ConvertHa
    <3>1. PICK document \in HaDocument, entry_id \in EntryId \cup {None} :
            SaveUnlessRefused(LoadHomeAssistantConfig(document, entry_id), None)
      BY <2>1 DEF ConvertHa
    <3> QED  BY <3>1, HaSound, SaveKeeps
  <2>2. CASE MergeFlink
    <3>1. PICK csv \in DeviceCsv, sections \in NameCsv, outputs \in NameCsv, serials \in BOOLEAN :
            SaveUnlessRefused(
              Merged(LoadConfig(file), LoadFlinkCsv(csv), LoadFlinkNames(sections, MaxSection),
                     LoadFlinkNames(outputs, MaxOutput), serials), LoadConfig(file))
      BY <2>2, Zenon DEF MergeFlink
    <3>2. file # None
      BY <2>2 DEF MergeFlink
    <3> QED  BY <3>1, <3>2, MergeSound, SaveKeeps
  <2>3. CASE ImportFlink
    <3> DEFINE config(rows, count, outputs) ==
                 IF rows = Refused THEN Refused ELSE CreateConfigFromFlink(rows, count, outputs)
    <3>1. PICK csv \in DeviceCsv, count \in DeviceCount, outputs \in 0..MaxOutput + 1 :
            SaveUnlessRefused(config(LoadFlinkCsv(csv), count, outputs), None)
      BY <2>3, Zenon DEF ImportFlink
    <3>2. ASSUME config(LoadFlinkCsv(csv), count, outputs) # Refused
          PROVE  Sound(config(LoadFlinkCsv(csv), count, outputs))
      <4>1. LoadFlinkCsv(csv) # Refused
        BY <3>2
      <4>2. LoadFlinkCsv(csv) \in Seq(FlinkRow)
        BY <4>1, FlinkRows, InputAssumption
      <4> QED  BY <3>2, <4>1, <4>2, FlinkSound
    <3> HIDE DEF config
    <3> QED  BY <3>1, <3>2, SaveKeeps
  <2>4. CASE EditByHand
    BY <2>4, EditKeeps
  <2>5. CASE UNCHANGED vars
    BY <2>5 DEF vars, ConfigInv
  <2> QED  BY <2>1, <2>2, <2>3, <2>4, <2>5 DEF Next
<1> QED  BY <1>1, <1>2, PTL DEF Spec

-----------------------------------------------------------------------------
(* What the commands promise *)

\* A table in the file has the texts of its device, the empty ones left out.
LEMMA TableTexts ==
  ASSUME NEW device \in DeviceTable
  PROVE  /\ Table(device).type = device.type
         /\ \A field \in {"name", "model", "serial"} :
              Table(device)[field] = IF device[field] # "" THEN device[field] ELSE None
BY DEF Table, DeviceTable, Given

LEMMA SavedReloadsSame == ConfigInv => ReloadsSame
<1> SUFFICES ASSUME ConfigInv, saved # None
             PROVE  ReloadsSame
  BY DEF ReloadsSame
<1> DEFINE before == saved.config
           after == LoadConfig(file)
           kept(i, field) == before.devices[i].type # "empty" /\ before.devices[i][field] # ""
           same(i, field) == after.devices[i][field] =
                               IF kept(i, field) THEN before.devices[i][field] ELSE None
<1>1. Sound(before) /\ file = SaveConfig(before, FALSE)
  BY DEF ConfigInv
<1>2. /\ after # Refused /\ after.devices = Slots(file)
      /\ after.sections = before.sections /\ after.pg_outputs = before.pg_outputs
      /\ after.number_of_pg_outputs = before.number_of_pg_outputs
      /\ CountOf(file) = Len(before.devices)
      /\ \A i \in 1..Len(before.devices) :
           Slots(file)[i] = IF i \in Kept(before) THEN Table(before.devices[i]) ELSE EmptySlot(i)
  BY <1>1, SavedReloads
<1> HIDE DEF before, after
<1>3. before.devices \in Seq(DeviceTable)
  BY <1>1 DEF Sound, Config
<1>4. PICK n \in Nat : n = Len(before.devices) /\ DOMAIN before.devices = 1..n
  BY <1>3
<1>5. Len(after.devices) = Len(before.devices)
  <2>1. DOMAIN after.devices = 1..n
    BY <1>2, <1>4 DEF Slots
  <2>2. \A i \in 1..n : after.devices[i] \in DeviceTable
    <3> SUFFICES ASSUME NEW i \in 1..n PROVE after.devices[i] \in DeviceTable
      OBVIOUS
    <3>1. before.devices[i] \in DeviceTable /\ i \in Int
      BY <1>3, <1>4
    <3>2. Table(before.devices[i]) \in DeviceTable
      BY <3>1 DEF Table, DeviceTable, Given, Text
    <3> QED  BY <1>2, <1>4, <3>1, <3>2, EmptySlotTable
  <2>3. after.devices = [i \in 1..n |-> after.devices[i]]
    BY <1>2, <1>4 DEF Slots
  <2>4. [i \in 1..n |-> after.devices[i]] \in Seq(DeviceTable)
    BY <2>2, IsASeq
  <2>5. after.devices \in Seq(DeviceTable)
    BY <2>3, <2>4
  <2> QED  BY <1>4, <2>1, <2>5
<1>6. ASSUME NEW i \in DOMAIN before.devices
      PROVE  /\ after.devices[i].type = before.devices[i].type
             /\ \A field \in {"name", "model", "serial"} : same(i, field)
  <2>1. before.devices[i] \in DeviceTable
    BY <1>3
  <2>2. after.devices[i] = IF before.devices[i].type # "empty" THEN Table(before.devices[i])
                           ELSE EmptySlot(i)
    BY <1>2, <1>4 DEF Kept, Occupied
  <2>3. CASE before.devices[i].type # "empty"
    BY <2>1, <2>2, <2>3, TableTexts
  <2>4. CASE before.devices[i].type = "empty"
    BY <2>2, <2>4 DEF EmptySlot
  <2> QED  BY <2>3, <2>4
<1>7. \A field \in {"sections", "pg_outputs", "number_of_pg_outputs"} :
        after[field] = before[field]
  BY <1>2
<1> QED  BY <1>2, <1>5, <1>6, <1>7, Zenon DEF ReloadsSame, before, after

\* What a command saves is what the next one loads, for any documents, exports
\* and edits: no command writes a file that the next one refuses.
THEOREM ReloadingSame == Spec => []ReloadsSame
BY FilesSound, SavedReloadsSame, PTL

LEMMA MergeStep ==
  ASSUME ConfigInv, MergeKeeps, MergeFlink
  PROVE  MergeKeeps'
<1>1. PICK csv \in DeviceCsv, sections \in NameCsv, outputs \in NameCsv, serials \in BOOLEAN :
        SaveUnlessRefused(
          Merged(LoadConfig(file), LoadFlinkCsv(csv), LoadFlinkNames(sections, MaxSection),
                 LoadFlinkNames(outputs, MaxOutput), serials), LoadConfig(file))
  BY Zenon DEF MergeFlink
<1> DEFINE config == LoadConfig(file)
           rows == LoadFlinkCsv(csv)
           merged == Merged(config, rows, LoadFlinkNames(sections, MaxSection),
                            LoadFlinkNames(outputs, MaxOutput), serials)
<1>2. CASE merged = Refused
  <2>1. UNCHANGED saved
    BY <1>1, <1>2 DEF SaveUnlessRefused
  <2> QED  BY <2>1 DEF MergeKeeps
<1>3. CASE merged # Refused
  <2>1. file # None
    BY DEF MergeFlink
  <2>2. /\ Sound(config) /\ rows \in Seq(FlinkRow)
        /\ \A i \in DOMAIN config.devices :
             merged.devices[i] = MergedDevice(config.devices[i], rows, serials)
    BY <1>3, <2>1, MergeSound
  <2>3. Save(merged, config)
    BY <1>1, <1>3 DEF SaveUnlessRefused
  <2> HIDE DEF config, rows, merged
  <2>4. saved' = None \/ saved' = [config |-> merged, from |-> config]
    BY <2>3 DEF Save
  <2>5. ASSUME saved' = [config |-> merged, from |-> config], NEW i \in DOMAIN config.devices
        PROVE  LET old == saved'.from.devices[i]
                   new == saved'.config.devices[i]
               IN /\ new.number = old.number
                  /\ new.type = old.type
                  /\ (old.name \in Name => new.name \in Name)
    <3>1. saved'.from = config /\ saved'.config = merged
      BY <2>5
    <3>2. config.devices[i] \in DeviceTable
      BY <2>2 DEF Sound, Config
    <3>3. LET new == MergedDevice(config.devices[i], rows, serials)
          IN  /\ new.number = config.devices[i].number
              /\ new.type = config.devices[i].type
              /\ (config.devices[i].name \in Name => new.name \in Name)
      BY <2>2, <3>2, MergedDeviceKeeps
    <3> QED  BY <2>2, <3>1, <3>3
  <2>6. CASE saved' = [config |-> merged, from |-> config]
    <3>1. saved'.from = config
      BY <2>6
    <3> QED  BY <2>5, <2>6, <3>1 DEF MergeKeeps
  <2>7. CASE saved' = None
    BY <2>7 DEF MergeKeeps
  <2> QED  BY <2>4, <2>6, <2>7
<1> QED  BY <1>2, <1>3

\* A command that loads nothing promises nothing about a merge.
LEMMA OtherStep ==
  ASSUME MergeKeeps, NEW config, SaveUnlessRefused(config, None)
  PROVE  MergeKeeps'
<1>1. CASE config = Refused
  BY <1>1 DEF SaveUnlessRefused, MergeKeeps
<1>2. CASE config # Refused
  <2>1. saved' = None \/ saved' = [config |-> config, from |-> None]
    BY <1>2 DEF SaveUnlessRefused, Save
  <2>2. CASE saved' = None
    BY <2>2 DEF MergeKeeps
  <2>3. CASE saved' = [config |-> config, from |-> None]
    <3>1. saved'.from = None
      BY <2>3
    <3> QED  BY <3>1 DEF MergeKeeps
  <2> QED  BY <2>1, <2>2, <2>3
<1> QED  BY <1>1, <1>2

\* Merging changes no number and no type, and loses no name, whatever files were
\* written and edited before.
THEOREM MergingKeeps == Spec => []MergeKeeps
<1>1. Init => MergeKeeps
  BY DEF Init, MergeKeeps
<1>2. ConfigInv /\ MergeKeeps /\ [Next]_vars => MergeKeeps'
  <2> SUFFICES ASSUME ConfigInv, MergeKeeps, [Next]_vars
               PROVE  MergeKeeps'
    OBVIOUS
  <2>1. CASE ConvertHa
    <3>1. \E config : SaveUnlessRefused(config, None)
      BY <2>1 DEF ConvertHa
    <3> QED  BY <3>1, OtherStep
  <2>2. CASE MergeFlink
    BY <2>2, MergeStep
  <2>3. CASE ImportFlink
    <3>1. \E config : SaveUnlessRefused(config, None)
      BY <2>3 DEF ImportFlink
    <3> QED  BY <3>1, OtherStep
  <2>4. CASE EditByHand
    BY <2>4 DEF EditByHand, MergeKeeps
  <2>5. CASE UNCHANGED vars
    BY <2>5 DEF vars, MergeKeeps
  <2> QED  BY <2>1, <2>2, <2>3, <2>4, <2>5 DEF Next
<1> QED  BY <1>1, <1>2, FilesSound, PTL DEF Spec
=============================================================================

----------------------------- MODULE MCOffline -----------------------------
(***************************************************************************)
(* Two parts without shared state, explored one at a time: the life of a   *)
(* configuration file, and reports on the wire.                            *)
(***************************************************************************)
EXTENDS ConfigFile, Reports

MCName == {"Hall", "Old", "JA-110P", "JA-999", "S1", "1234"}

Entry(domain, id, devices, count, outputs) ==
  [domain |-> domain, id |-> id, devices |-> devices, number_of_devices |-> count,
   number_of_pg_outputs |-> outputs, password |-> "1234"]
Home == Entry("jablotron100", "a", <<"empty", "keypad">>, 2, 1)
Flat == Entry("jablotron100", "b", <<"other">>, 1, 0)
Lamp == Entry("light", "c", << >>, 0, 0)

All(entries) == [entries |-> entries, filtered |-> FALSE]
Export(entry) == [entries |-> <<entry>>, filtered |-> TRUE]
MCHaDocument ==
  {All(<<Home>>), All(<<Home, Flat, Lamp>>), All(<<Lamp>>), Export(Flat),
   All(<<Entry("jablotron100", "a", <<"keypad">>, 2, 1)>>),
   Export(Entry("jablotron100", "a", <<"unknown">>, 1, 1))}

Row(n, name, model, serial) == [number |-> n, name |-> name, model |-> model, serial |-> serial]
MCDeviceCsv ==
  {<<Row(0, "Hall", "JA-999", None), Row(1, "Hall", "JA-110P", "S1"), Row(2, "", "JA-999", None)>>,
   <<Row(3, "", None, None), Row(2, "", "JA-999", "S1")>>,
   <<Row(1, "Hall", None, None), Row(1, "Old", None, None)>>,
   <<Row(4, "Hall", "JA-110P", None)>>}

MCNameCsv ==
  {<< >>, <<[number |-> 1, name |-> "Hall"]>>,
   <<[number |-> 2, name |-> "Hall"], [number |-> 1, name |-> "Old"]>>,
   <<[number |-> 1, name |-> ""]>>}

MCHandTable ==
  {[number |-> 2, type |-> "keypad", name |-> "Old", model |-> None, serial |-> "S1"],
   [number |-> 3, type |-> "empty", name |-> "Old", model |-> None, serial |-> None],
   [number |-> 1, type |-> "custom", name |-> "", model |-> "JA-999", serial |-> None]}

\* Packets with zero and non-zero data, of every length that fits and some that
\* do not; noise of every length that fits.
Filled(n, byte) == [i \in 1..n |-> byte]
MCData == {Filled(n, byte) : n \in {0, 1, 2, 3, 4, 5, 256}, byte \in {0, 3}}
MCNoise == UNION {[1..n -> 0..3] : n \in 0..ReportSize}

OfflineInit == Init /\ InitReports
OfflineNext ==
  \/ line = "idle" /\ Next /\ UNCHANGED reportVars
  \/ steps = 0 /\ NextReports /\ UNCHANGED vars
OfflineSpec == OfflineInit /\ [][OfflineNext]_<<vars, reportVars>>
=============================================================================

# A formal model of the Jablotron 100 client

This directory holds TLA+ models of `jablotron100`, the asyncio client for
Jablotron 100 alarm panels in `src/src/jablotron100/`, the TLC instances that
check them, and TLAPS proofs of what matters most. Line numbers refer to the
sources beside it.

## 1. The system

### Components, state, operations

| Component | State | Operations | Interacts with |
|---|---|---|---|
| Connection life cycle (`client.py` 74-142, 233-303, 383-490) | `_running`, `_connected`, `_connection_lock`, four task attributes | `start`, `close`, `_connect`, `_schedule_reconnect`, `_reconnect_loop`, `_read_loop`, `_keepalive_loop` | transport (calls), listeners (awaited callbacks), all other parts through the tasks it runs |
| HID transport (`transport.py`) | descriptor, path, pending-read future, read and write locks | `open`, `close`, `read`, `write` | event loop (`add_reader`), worker threads (`to_thread`), the device |
| Authorisation session (`client.py` 347-381, 470-490) | who the panel believes is logged in; last renewal | `set_section`, `set_pg_output`, renewal in the keepalive loop | transport; the alarm state of the state model |
| Diagnostics (`client.py` 305-345, 555-690) | one event per device, the system-info event | `refresh_diagnostics`, answers in `_handle_state_packet` | reader task sets events the diagnostics task waits for |
| State model (`client.py` 501-769, `state.py`, `models.py`) | sections, PG outputs, device snapshots, panel info | `_handle_state_packet` | listeners; requests more data from the panel |
| Packet codec (`protocol.py`) | none | `split_report`, `pack_reports`, `create_*` | used by all |
| Device parsers (`devices.py`) | none | packet to fields | state model |
| Communication log (`communication_log.py`) | table of suppressed repeats | `report`, `flush`, `close`; wraps a transport | file, transport |
| Configuration (`config.py`) | none (files) | load, save, merge of F-Link names | command line |
| Command line, smoke test (`__main__.py`, `tools/`) | none | - | configuration, client |

All of it runs on one event loop, except that a write happens in a worker
thread. So there are no data races inside Python, but every `await` is a point
where any other task may run, and tasks share the attributes of one
`JablotronClient` object.

### What is hard

* **Tasks outlive what they were created for.** `_connect` creates a reader and
  a keepalive before the panel is initialised; when the initialisation fails
  they stay, and each of them may later report a failure that belongs to the
  previous connection.
* **One loss is reported by several tasks** in any order: the reader sees the
  descriptor fail, the keepalive sees the path disappear, `start()` or the
  reconnect loop sees a write fail.
* **Cancellation** arrives at any `await`, overtakes results that are already
  there, and leaves the attributes as they are at that point.
* **The device** disappears and returns at any moment, under the same path or
  another. A descriptor opened before is dead for good; writes open the path
  anew and may work while reads do not.
* **Sessions**: the panel knows one logged-in user, while several coroutines
  log users in and out.
* **Timeouts**: a diagnostics answer may come after the request was given up.

`PROJECT.json` lists these as hazards, each at its line.

### What makes each component correct

* Connection: `connected` is true only with an open transport and live tasks
  behind it; at most one reconnect loop; after `close()` nothing comes back;
  each new connection uses a new descriptor; a lost connection is recovered;
  `close()` returns; listeners end up knowing the truth.
* Transport: a read returns data of the open device or fails for a reason; no
  read waits on a closed or lost device; descriptors neither leak nor serve
  another file.
* Session: a command is executed under the user it was given for; the own user
  is restored; no reauthorisation while an alarm is on.
* Diagnostics: each "on" has its "off" while connected; a late answer does no
  worse than end the next wait early; a pass ends.
* State model: the events, replayed, give the state.
* Log: printed, summarised and pending repeats add up to what was received.
* Codec and configuration: splitting what was packed gives the packets back;
  loading what was saved gives the configuration back.

## 2. The modules

| Module | Content | Stands on | TLC | TLAPS |
|---|---|---|---|---|
| `Connection` | life cycle of the client | what `Transport` promises | `MCConnection` | `ConnectionProofs` |
| `Transport`, `HidrawTransport` | abstract transport; `transport.py` | `HidrawTransport` => `Transport` | `MCHidrawTransport` | `HidrawTransportProofs` |
| `Session` | who is logged in at the panel | one keepalive per connection (`Connection`) | `MCSession` | `SessionProofs` |
| `Selection` | a comprehension with a condition | | in its users' runs | `SelectionProofs` |
| `Decoding` | operators: bytes to sections, outputs, batteries, activities | | with `StateModel` | in `DiagnosticsProofs` |
| `StateModel` | `_handle_state_packet` and its announcements | `Decoding`, `Selection` | with `Diagnostics` | in `DiagnosticsProofs` |
| `Diagnostics` | `refresh_diagnostics` around `StateModel` | `StateModel` | `MCDiagnostics` | `DiagnosticsProofs` |
| `CommunicationLog` | suppression, summaries, eviction | | `MCCommunicationLog` | `CommunicationLogProofs` |
| `ConfigFile` | one configuration file and the commands on it | `Selection` | `MCOffline` | `ConfigFileProofs` |
| `Reports` | packing and splitting reports | | `MCOffline` | `ReportsProofs` |

Each module with a state space has a type invariant in its run where types are
not already part of what is asked, its inputs are parameters, and what is
assumed of them is a named `ASSUME`. `PROJECT.json` lists runs, mutants, the
lines of each definition, hazards and theorems. Every invariant of a passing run, and each of
its action properties, is also a theorem for every value of the constants; liveness
is model-checked. A mutant is an operator next to
the one it spoils; it shows that the property would notice such a mistake.

Abstract specifications: `Transport` for the transport. The other components
promise what their invariants say; a second module for each would repeat them.

## 3. Connection

One action is what one task does between two awaits. A task is a *slot* of a
pool (`Readers`, `Keepalives`, `Inits` for `refresh_diagnostics`, `Loops` for
`_reconnect_loop`); `Starter` is the coroutine that called `start()`, which the
client does not own and `close()` does not cancel. `pc[t]` says at which await a
task stands:

| Slot | `pc` values | Await |
|---|---|---|
| reader | `reading`; `woken`; `handling` | `transport.read` pending; failed by `close`; listeners and requests of a packet |
| keepalive | `sleeping`; `writing` | `sleep(interval)`; the heartbeat or renewal |
| diagnostics | `diagnosing`; `unwinding` | requests and timeouts; the "off" request of a cancelled pass |
| loop | `created`; `lost`; `sleeping`; `locking`; `initialising`; `announcing` | not yet run; listeners of the loss; the delay; the lock; writes of `initialize_devices`; listeners of the connection |
| starter | `initialising`; `announcing` | as above |

`cancelled` holds the tasks with an undelivered `CancelledError`. A task in it
takes no other step: in asyncio a cancellation overtakes a result that is
already there. `app` says whether the application is between `start()` and
`close()`, inside `close()`, or neither; `awaited` is what `close()` gathers.
`transport` is `closed`, `live` or `dead` (open, but its device has gone);
`port` says whether the stored path names a present device, which is what a
write needs. `announced` is the last `connection` event.

`_connect` up to the first write has no await, so opening the transport,
setting `_connected` and creating the two tasks are one action
(`OpenAndCreateTasks`). `InitialisationEnds` is the last write's return: the
diagnostics task is created and listeners are told. `ScheduleReconnect` is the
body of `_schedule_reconnect`, shared by all its callers. Each action's lines
are in `PROJECT.json`, `map`.

Optional behaviours of the environment (`Env`): `badReport`, a report the client
cannot parse; `samePath`, a device that returns under the same path while its
dead descriptor is still open (a configured stable path);
`cancelStart`, the caller of `start()` is cancelled; `slowListeners`, a state
listener that awaits.

Abstractions and assumptions:

* Delays, intervals and the growth of the delay are left out; a timer may fire
  at any time after it was started, with one restriction: handles that are
  already scheduled run before a timer started later (`NothingPending`). That is
  how asyncio works for a positive `reconnect_delay`; for 0 the loop of
  lines 433-450 does not await at all while the device is away.
* The contents of packets, the requests and their batches. A batch fails when
  the path is gone or the transport closed at its last write.
* `start()` and `close()` are called by one caller each, and `start()` not while
  `close()` is pending.
* Listeners return.
* A pool with no free slot delays the creation of a task until one ends. Every
  leaked task ends (`LeaksDrain`), so this only bounds how many of them pile up.

### Runs

| Run | Spec | Shows |
|---|---|---|
| `conn_safety` | `Spec`, all of `Env`, 2 slots per pool, symmetry | `TypeOK`, `ConnectedMeansOpen`, `ConnectedMeansServed`, `OneReconnectLoop`, `ClosedIsQuiet`, `LifecycleInv`, `FreshDescriptor` |
| `conn_liveness` | `FairSpec`, `Env = {}` | `Recovers`, `CloseCompletes`, `LeaksDrain`, `ListenersConverge` |
| `conn_lost_wakeup` | `FairSpec`, `Env = {"badReport"}` | `Recovers` is violated |
| `conn_close_leak` | `Spec`, `Env = {}` | `CloseStopsTasks` is violated |

Two readers and two keepalives are the connection's own and one left over from
an earlier connection, which is what the interesting cases need; two loops are
enough for a second one to be created if anything allowed it, and one suffices
where `OneReconnectLoop` is not asked. The proofs below do not depend on these
numbers.

Fairness: weak fairness of each task, of the starter and of the return of
`close()`. The event loop runs ready handles in order, sleeps and writes end,
and timeouts bound the diagnostics. Nothing is assumed of the application, of
unplugging and plugging, or of the arrival of reports. `Recovers` and
`ListenersConverge` are conditional on the device staying plugged in and on the
connection lasting, respectively.

### Disagreements found

* **Lost wake-up** (`conn_lost_wakeup`). Start with the device away, so that the
  reconnect loop connects. While it waits in `initialize_devices`, the new reader
  gets a report it cannot parse: `_schedule_reconnect` clears `_connected` and
  finds the loop not done (line 414), so it creates none. The loop's `_connect`
  then succeeds, announces `connection` True and returns. The client is
  running, not connected, and no task will ever change that: writes succeed, so
  the keepalive is content, and no reader is left. With `Env = {"samePath"}` and
  `Env = {"slowListeners"}` TLC finds the same end by other ways. Executed
  with a fake transport, the code does the same: events `[False, True]`,
  `running=True`, `connected=False`, heartbeats continue.
* **`close()` leaves a task** (`conn_close_leak`). A failed initialisation
  leaves its tasks behind (lines 401-404), the next one overwrites the attributes
  (393-398), and `close()` cancels what the attributes hold. The shortest way
  is `auto_reconnect=False`: `start()` raises, is called again, `close()` returns,
  and the first keepalive still sleeps.

### Proofs (`ConnectionProofs`)

For any pools of slots that are disjoint (`PoolsAssumption`) and any `Env`:

| Theorem | Statement |
|---|---|
| `TypeCorrect` | `Spec => []TypeOK` |
| `Invariance` | `Spec => []IInv` |
| `Lifecycle`, `ConnectedOpen`, `ConnectedServed`, `SingleLoop`, `ClosedStaysQuiet` | the invariants of `conn_safety` |
| `FreshConnection` | `Spec => FreshDescriptor` |

`ConnectedMeansOpen` is not inductive: the loop that closes the transport must
know that `_connected` is false, which needs that no other loop and no `start()`
has connected since it was created. `IInv` adds what is missing
(`LifecycleInv`): the lock is held exactly by the task inside `_connect`;
cancellations are pending for live tasks only, and for a loop only during
`close()`; a client that does not run has no loop, and with `auto_reconnect` an
application that is using the client finds it running; during `close()` every
loop is cancelled and awaited; a loop that has not connected finds `_connected`
false, and after tearing down finds the transport closed. `TypeOK` is proved
first, with lemmas on where each pool's tasks may stand (`Place...`), and
`FailureKeepsInv` treats the failing reader and keepalive together.

Liveness is model-checked only: TLAPS has no rules for `ENABLED` and fairness
here.

## 4. HidrawTransport and Transport

`HidrawTransport` is `transport.py` 50-132 between awaits. A call of `read()` or
`write()` is a slot; `pc[c]` is the await it stands at, `local[c]` its variable
`reader` (a read) or the path its worker thread was given (a write), `outcome[c]`
how the last call in the slot ended. A read's future is represented by the call
it belongs to: pending in `waiting`, done in `ready` (by the callback), `closed`
(by `close()`) and `cancelled`; between the future's end and the next step of the
task, `close()` and `open()` may run, which is where a stale `finally` clause
could do harm. `ReadFrom` is the loop from its condition to the next await.

`table` is the operating system's descriptor table, with numbers that other code
takes when they are free (`Foreign`); `watch` is what `add_reader` registered.
Two numbers are enough for a reopened transport to get the old number, a new one,
or find the old one in other hands. `Unplug` leaves the descriptor open and dead;
`Plug` may bring another path. `asyncio.Lock` does not let a new call pass those
that wait; among them the model lets any be next. A write thread cannot be stopped:
when its call is cancelled it goes on without the lock (`abandoned`).

`Transport` is what the client may rely on: a device `closed`, `live` or `lost`;
reads that end with data only while it is live and fail only when it is not, or when
a `close()` caught them; and no read that waits for ever on a device that stays
closed or lost. `ImplementsTransport` is the refinement, safety and liveness: a
call caught by `close()` is one whose future has been failed, or one that is ready
to run with a descriptor that is no longer `_reader`.

| Run | Instance | Shows |
|---|---|---|
| `hid` | 2 descriptor numbers; 2 reads, 1 write and 1 path, or 2 writes and 2 paths | `TypeOK`, `ReadLockHeld`, `OneDescriptor`, `WatchOwned`, `WaitsWatched`, `NoForeignRead`, `ImplementsTransport` |
| `hid_write_closed` | 1 read, 2 writes | `WriteToClosedSaysSo` is violated |

Two calls of a kind are one that holds the lock and one that waits for it. Reads and
writes have a lock each and only writes use the path, so the action constraint
`TwoWritesOrReads` keeps the second write and the second path to behaviours without
reads; what it holds back is the environment's choice, of which no fairness condition
speaks.
Fairness: the event loop resumes what is ready (weak), the lock reaches those who
wait (strong: others may be served first), and a dead descriptor polls as
readable (weak, for dead descriptors only: a live device may stay silent). Deadlock
is checked: the device can always be plugged or unplugged.

Abstractions: the bytes of reports and writes; `detect_serial_port` (it finds
`device`, and with a configured path there is one path only); a path that now
belongs to another USB device; errors of `os.open` other than an absent device.

**Disagreement found** (`hid_write_closed`): a write that waited for the lock while
`close()` ran is given the path `None` (line 127) and fails with `TypeError`, where
the API description (`docs/NAVOD_API.md:379`) names `TransportClosed`. Executed with
a pipe for the device, the code does the same.

### Proofs (`HidrawTransportProofs`)

For any disjoint sets of calls and any descriptor numbers and paths
(`SlotsAssumption`, `NamesAssumption`): each invariant of `hid`
(`TypeCorrect`, `LockHeld`, `NoLeak`, `Watched`, `Woken`, `OwnData`) and
`Refinement`, `Spec => T!Init /\ [][T!Next]_(T!vars)`, the safety part of
`ImplementsTransport`. No invariant but `TypeOK` is inductive alone; their
conjunction is. The heart is `FinallyClears` with `Unwatched`: whenever a call enters the
loop of `read()`, nothing is watched and no future is pending, because whatever is
watched belongs to the one call that holds the lock. `ReadKeepsInv` and
`ReadFromRefines` treat the loop once for both its entries, a call that gets the
lock and one that resumes. The liveness part of the refinement is model-checked only.

## 5. Session

`Session` follows one thing the client has no variable for: `user`, whom the
panel has logged in. A call of `set_section` or `set_pg_output` is a caller `c`
that waits at `at[c]` with `code[c]`:

| `at[c]` | Await |
|---|---|
| `authorise`, `authorised` | END and the foreign code (359-364); `sleep(1.0)` (365) |
| `command` | the section command (367) |
| `restore` | END and the own code (370-375) |
| `settle`, `refresh` | `sleep(1.0)` (377), the state request (378) |
| `output` | the output command (381) |

`loop` is the keepalive loop (`sleep`, `renew`) and, after it failed, the
reconnection (`lost`, `initialise`). `KeepaliveWakes` looks at the sections and
decides; the renewal is written later (`RenewalWritten`), whatever the sections
say by then. `stranded` remembers the foreign codes of calls that broke off
between authorisation and restoration (`BreaksOff`): by a failed write, or by
cancellation while they wait (`Cancel`) or write (`CancelDuringWrite`: the worker
thread finishes, the call does not go on). `misrun` and `late` are history: a
command carried out as somebody else, renewals written in the present alarm.

What the panel does is what the client counts on: END and a code leave that
user logged in, or nobody when the code is wrong; a command runs as whoever is
logged in. Whether an authorisation without END (the renewal) supersedes another
user is not documented, so `Supersedes` is a parameter. The theorems hold for
both values; `OwnUserReturns` needs `TRUE`, since otherwise a stranded user stays
until a power loss or the next restoration; `session_foreign` takes `FALSE`, the
case in which the fewest things can go wrong.

| Run | Instance | Shows |
|---|---|---|
| `session` | `FairSpec`, 2 callers, own, foreign and wrong code, `RenewAfter = 2`, one failing write | `TypeOK`, `UserExplained`, `OneLateRenewal`, `OwnUserReturns` |
| `session_alarm` | the same without fairness | `NoRenewalInAlarm` is violated |
| `session_foreign` | the same with `Supersedes = FALSE` | `CommandUnderItsCode` is violated |

Two callers are enough for one to act inside the other's window and for both to
have one; cancellations are not bounded, and one failing write is one more way to
break off, in a call or in the loop. `RenewAfter` counts cycles of the keepalive loop
until 30 seconds have certainly passed; a slow loop lets any number pass at
once.

Fairness: weak, for the calls that are under way (their sleeps and writes end),
the loop, the renewal and the reconnection, for the reason given for
`Connection`. Callers need not call, and `OwnUserReturns` is conditional on
alarms not going on for ever. Deadlock is checked.

Abstractions: a heartbeat is written within its cycle; any waiting writer may be
the next (the write lock is first come, first served); a call may go on writing
between the loss and the reconnection, as a write opens the path anew; the
sections are one truth value, "alarm, entry delay or sabotage somewhere".

**Disagreement found** (`session_foreign`). `set_section` promises "temporarily
authorising another user if needed" (`client.py:354`, `docs/NAVOD_API.md:215`),
and nothing keeps other calls out of that time. While the first call sleeps with
the foreign user logged in, a second call without a code, or a `set_pg_output`,
is carried out as that user.

**Disagreement found** (`session_alarm`). "Never reauthorize during an alarm or entry
delay" (`client.py:475-476`; the repository's README says the same at 277-278) is
asked of the stored sections before the write waits for the write lock and its
thread (`client.py:478`, 482). An alarm stored in between is followed by the renewal.
Executed against the code with a transport whose writes take 20 ms, the loop renews
during an entry delay. `OneLateRenewal`, which holds, says how far it goes: one renewal, the one
already waiting, however long the alarm lasts and whatever fails in it.
Authorisations by a reconnection or by `set_section` are no renewals, and neither
sentence is about them.

Proofs (`SessionProofs`), for any callers and codes, and both kinds of panel:
`TypeCorrect`, `Explained`, `LateRenewals`. Inductive is `SessionInv`: the properties,
and that only foreign calls are in the branches of a foreign code, and that a
renewal that waits in an alarm is the first of it. Liveness is model-checked.

## 6. State model and diagnostics

`Decoding` translates bytes: the section states with their end mark, the bitmaps,
the battery nibble, the activity byte. `Refused` is a packet that raises
`ProtocolError`. The value list of a 0x90 packet (`parse_device_info`) is
abstracted to what it says; the packets of `StateModel` carry that as fields.

`StateModel` has a `cache` of everything the client remembers, by subject: sections,
outputs, devices, the central unit and its diagnostics. A handler stores at once
and puts the announcements into `todo`: each listener is awaited, so anything may
happen between two of them (`TellListener`). The bitmap handler stores and announces
one device after the other (`StoreActive`). `CancelReader` drops `todo`: values
stored and not announced are in `untold`, which stays so until the subject changes
again. `told` is what a listener heard last.

`Diagnostics` puts passes of `refresh_diagnostics` around it. `at[p]` is the await of
a pass (`identify`, `ask`, `wait`, `off`), `left[p]` its numbers, the current one
first; the numbers are fixed when the pass starts, from the model the panel has
reported by then. `answered` are the events that are set, so late answers and
answers in another pass end a wait early, as in the code. A pass may be cancelled
or fail at each await. `on` is what the panel has switched on, `abandoned` what a
pass gave up without switching it off: the connection was lost, or the write of
"on" or "off" was broken off.

A loss is two steps: `Lose` is `_schedule_reconnect` clearing `_connected`, and while
the listeners hear of it the reader goes on handling packets (`reading`), until
`StopReader` cancels it. An unreadable packet does both at once
(`ReceiveUnreadable`): refused sections, outputs and bitmaps, and any other packet
too short for its kind, which has the type "truncated".

`panel_data` (`MCDiagnostics`): three positions (with state and diagnostics, without
state, ignored), a panel with LAN and GSM modules, 27 packets that take every
branch of the handlers, among them four unreadable ones; two interchangeable passes.
Deadlock is checked.

| Property | Says |
|---|---|
| `ListenersFollow` | what is stored has been told, is about to be told as it is, or was dropped by a cancelled reader |
| `BatteryWhole` | a battery's level and state are known together |
| `StatelessStay` | keypads, outdoor sirens, meters and radio modules never get an activity |
| `KnownStaysKnown` | an activity or a bus once known is never forgotten |
| `OnHasKeeper` | diagnostics that are on have a pass that is going to turn them off, or were given up |

Bounds: `MaxPackets = 2` packets after each other (pairs of packets are what the
properties relate: one stores, the other must not spoil it; a packet may arrive
before, between and after all steps of the passes), and `MaxAbandoned = 1` number
given up at a time, which still lets a later pass find it on. While a number is given up
there is one packet only (`OnePacketWhenGivenUp`): packets and numbers given up meet in
nothing but an answer to the pass that asks again, and one packet is that answer.

Fairness is not needed: all five are safety. That a pass ends is the timeouts' doing
and part of `Connection`, as is the life of the initial pass.

Abstractions: one reader (a second one left over from a failed initialisation, see
`Connection`, would overtake announcements); the documentation advises against
overlapping passes, the model allows them; voltages, temperature, pulses, DHCP and
the kind of connection are left out, they are stored like the fields beside them;
requests for the status of the modules after `HandleSystemInfo` change nothing here.

A limit of the code that the model has (`CancelReader`, `untold`): a reader cancelled
between two announcements has stored the table already, and the next packet, compared
with the table, announces nothing. An asynchronous listener then keeps the old state
until the subject changes again, although "changes come by way of
`add_state_listener()`" (`README.md:207` of the repository); executed against the
code, it hears neither packet. `ListenersFollow` is what holds all the same: a subject is
out of step only if a cancellation dropped it.

### Proofs (`DiagnosticsProofs`)

For any configuration, any packets and any number of passes:

| Theorem | Statement |
|---|---|
| `DataTyped`, `ListenersInformed`, `StatelessKept`, `BatteriesWhole`, `DiagnosticsKept` | the invariants of `panel_data` |
| `KnownLasts` | `Spec => KnownStaysKnown` |
| `ActivityBytes`, `ActivityDecoded` | for every device number 0..255 its four activity bytes stay within a byte and mean what they should |

`ListenersFollow` is not inductive: that an announcement yet to come carries the value
that is stored needs to be known of each entry of `todo`, also after the entries before
it have gone or a bitmap's next device has been stored. `DataInv` adds `TodoInv` (the
announcements of a packet come before what is still to be stored, each carries what is
stored now, and what is to be stored is an activity of a device that may have one),
`CacheInv` (subjects are real, every record has its fields, devices are configured, not
ignored, and without activity if their type has none) and `ToldInv`. `NextData` shows,
with a lemma per handler, that every action keeps `DataInv` and forgets nothing that was
known, which is `KnownLasts`. `BatteryInv` says of every record that it is `Whole`, and
each handler is shown to make changes that leave it so (`LeavesWhole`): no battery, a
whole one, or the state of one whose level is known. `DiagnosticsKept` needs only that
the tables are functions.

The bitmap's devices and the numbers of a pass are selected from sequences. What
`Selected` returns is proved in `SelectionProofs` by induction over the sequence:
`LeastNumber` takes a smallest counterexample (`WFMin` on the naturals, which has no
operator parameter), `NatInduct` and `Iteration` turn it into induction for a set of
numbers and into the existence of a recursive function, and `SelectedPlaces` and
`SelectedElements` say that exactly the elements kept are there, once each and in their order.

Assumed of the constants: None is no value of another kind (`NoneAssumption`,
`RoleAssumption`), the bytes of packets are bytes (`PacketAssumption`), and the
configuration is a sequence of types (`DefinitionAssumption`).

What the model has and no property contradicts: a problem raised by a battery fault
before the level is known is not cleared by the battery's recovery after it; sections
that are missing from a packet disappear without an announcement; a fault whose
activity byte cannot be decoded clears the problem.

## 7. Communication log

`seen` is the ordered table: packet, repeats not yet summarised, age and turn by
key. A `report()` is synchronous: `rest` holds the packets of the report that is
being recorded, and other actions wait until it is used up. `Show` is the branch
that prints, with the summary of the key's old entry and, when the table is full,
of the evicted one. `LoggedTransport` logs a report it has read at once and one it
has written when its coroutine goes on (`unlogged`), which a cancellation may
prevent (`WriteCancelled`). `accounted`, `received`, `latest` and `shown` are history.

`log` (`MCCommunicationLog`): three keys, one of them secret (0x80), for a table of
two; reports of one and two packets, so that a report evicts what it has just
counted; `Repeat = 2` ticks; six packets, enough for A, B, A and repeats of each around
an eviction. `Conserved`: printed, summarised and pending repeats add up to what was
recorded, packet by packet. `LogShowsLatest`: of every key the last printed packet is
the last recorded. `RecentKept`, `TableBound`: the table holds the keys heard last, and
no more than the limit. Deadlock is checked.

`CommunicationLogProofs` proves all five (`TypeCorrect`, `NothingLost`, `ChangesShow`,
`TableRecent`, `TableWithin`) for any keys, bodies, reports, limit and
interval. `LogInv` adds that entries agree with what was heard last and that their
turns differ, so that there is exactly one oldest entry.

A limit of the code that the model has (`WriteCancelled`): a cancelled `write()` skips the
line that logs while its worker thread writes the report nevertheless, so a report
that the panel received may be missing from a log of "successfully written reports"
(`communication_log.py:150`). `Conserved` speaks of what is recorded.

What the model shows besides: 0x80 packets are one packet per key once hidden, as the
documentation says; the log may show an answer before its request.

Left out: the wording of `describe_packet`, notes, file rotation. `Limit` stands for
512.

## 8. Configuration and reports

`ConfigFile` is the life of one file: `convert-ha`, `import-flink` and `merge-flink` of
the command line, which load, merge and save, and people who edit in between. A
file is the record of its tables; `LoadConfig` validates and fills the positions,
`SaveConfig` leaves empty ones out. The file is both source and destination of a merge,
the case in which mistakes add up; a write may fail half way and leave any beginning of the
file (`Tear`): with whole tables, with a last table that lacks keys, without the
tables of a kind, with a number short of digits, empty, or cut where it cannot be
loaded any more. `saved` remembers the configuration in memory for the file.

`Reports` has `create_packet`, `pack_reports` and `split_report`, a batch on its way
through reports padded to full size, and reports of arbitrary bytes. The loops of
`split_report` and `pack_reports` are recursive functions, one round of the loop
(`Split`, `Pack`) after the other.

Both are in one run, `offline` (`MCOffline`), explored one at a time: they share no
state, and interleaving them would only multiply it. Deadlock is not checked: the
commands are bounded by `MaxSteps`, and a batch ends.

| Property | Says |
|---|---|
| `ReloadsSame` | what a command saved is accepted by the next and loads as it was, but for the code, empty texts and what empty positions carried |
| `PositionsDense` | device n is at place n, also in files written by hand |
| `NoCodeWritten` | no command writes the code |
| `MergeKeeps` | a merge keeps types and loses no name |
| `RoundTrip` | the reports of a batch fit and split into its packets |
| `SplitsExactly` | arbitrary bytes are refused or fully accounted for |

Bounds: four commands or edits in any order; Home Assistant documents with one, two and
no entry, exports of a single one, a wrong count and an unknown type; exports with unassigned, repeated, unnamed
and out-of-range rows; at most 3 devices, 2 outputs and 2 sections for 230, 128 and
15, so that each limit is met. Reports of 6 bytes for 64, data of up to 5 bytes, so that
packets are shorter than, as long as and longer than a report, and batches of three;
data are zeros or threes, so that a zero byte inside a packet is not taken for its end;
one piece of data has 256 bytes, which `create_packet` refuses; noise is every sequence
of up to 6 bytes below 4.

### Proofs (`ConfigFileProofs`, `ReportsProofs`)

| Theorem | Statement | For any |
|---|---|---|
| `FilesSound` | `Spec => []ConfigInv` | limits, documents, exports, edits, lengths of a file's life |
| `ReloadingSame` | `Spec => []ReloadsSame` | the same |
| `Dense`, `NoCode` | `Spec => []PositionsDense`, `Spec => []NoCodeWritten` | the same |
| `MergingKeeps` | `Spec => []MergeKeeps` | the same |
| `BatchArrives` | `ReportsSpec => []RoundTrip` | report size from 2 to 257, data, length of a batch |
| `NoiseSplit` | `ReportsSpec => []SplitsExactly` | bytes, in any number |

`ReloadsSame` speaks of the last save only; that the next command can merge into what
it loads needs more. `ConfigInv`: the file is well formed (`Document`) whoever wrote
it, and what was saved was `Sound`, that is, a configuration `load_config` could have
returned, and is what the file holds. `SavedReloads` is the core: a sound
configuration, saved and loaded, is itself, position by position. The rest is that
each command makes sound configurations (`HaSound`, `FlinkSound`, `MergedSound`).
`Distinct` is stated as "equal numbers, equal places": the code compares as it goes,
and refuses the same files.

`ReportsInv` relates what flies to what was sent: there is a table `cut`
such that the k-th report in flight holds the packets from `cut[k - 1] + 1` to
`cut[k]` (`Cuts`), whole and in order (`Holds`), the last cut is the end of the batch, and
what was split so far are the packets before the first. `PackHeld` establishes it by induction
over the batch and `SplitHeld` uses it, by induction over the rounds of the loop;
`SplitExact` is the induction for arbitrary bytes. That `split_report` stops in the
padding and not in a packet rests on the packet's type not being zero. The code has
that from its constants (`BytesAssumption`), as it has single-byte types.

Assumed besides: limits are numbers (`LimitAssumption`), None and the empty string are
not names (`TextAssumption`), a refusal is no configuration (`RefusedAssumption`), what is
imported has fields of the right type (`InputAssumption`), 2 to 257 bytes fit a report
(`SizeAssumption`; 64 in the code). None restricts which rows, documents or edits there
are, nor their order.

What the model has and no property contradicts: names given to empty positions are lost
by saving; `--include-serial-numbers` erases a serial number when the export has none; a
failed write leaves a part of the only copy, which may load as a smaller configuration.

Left out: text encoding and syntax, the serial port, the security settings, and
`resolve_code`, which reads the environment. Models are compared as a whole, where
`_infer_device_type` (`config.py:656-672`) folds case and compares prefixes: what matters
here is only whether a model tells the type.

## 9. Not modelled, and why

* `from_config`, listeners' registration, properties, `redacted_dict`: access to what the
  models already have.
* `describe_packet`, notes and rotation of the log: wording and files.
* The encoding of authorisation codes and the contents of single requests: no
  property distinguishes them; codes are model values.
* Syntax of TOML, JSON and CSV, argument parsing, printing, `tools/hardware_smoke.py`:
  sequential text processing and a script for a real panel.
* The application calling `initialize_devices()` itself, and a listener that calls
  `close()`, which makes the reader wait for itself (`PROJECT.json`, hazards).
* A second reader in the state model (section 6).

Only model-checked: liveness, that is `Recovers`, `CloseCompletes`, `LeaksDrain`,
`ListenersConverge`, `OwnUserReturns` and the liveness part of `ImplementsTransport`.
TLAPS has no rules for `ENABLED` and fairness here. Induction over data is not out of
reach: the library's induction theorems take an operator as a parameter, which the
provers cannot instantiate, but `SelectionProofs` gets the same from well-foundedness
(section 6).

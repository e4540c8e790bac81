----------------------------- MODULE Connection -----------------------------
(***************************************************************************)
(* The connection life cycle of JablotronClient (client.py): start(),      *)
(* close(), _connect(), the reconnect loop, the read loop, the keepalive   *)
(* loop and the diagnostics task that initialize_devices() leaves behind.  *)
(*                                                                         *)
(* The client runs on one asyncio event loop.  An action is what one task  *)
(* does from one await to the next; between two actions any other task may *)
(* run.  A task is a slot of one of the pools Readers, Keepalives, Inits   *)
(* and Loops; Starter stands for whoever awaits start().  A finished slot  *)
(* is used again for the next task of its kind.                            *)
(*                                                                         *)
(* The USB device is the environment: it is unplugged, plugged in again    *)
(* and sends reports.  A descriptor opened before the device went away     *)
(* stays dead; writes open the device by its path each time.               *)
(***************************************************************************)
EXTENDS FiniteSets

CONSTANTS
    Readers,     \* slots for tasks running _read_loop
    Keepalives,  \* slots for tasks running _keepalive_loop
    Inits,       \* slots for tasks running refresh_diagnostics
    Loops,       \* slots for tasks running _reconnect_loop
    Starter,     \* the caller of start()
    NoTask,      \* None in the attributes that hold a task
    Env          \* the optional behaviours of the environment, see EnvChoices

EnvChoices ==
    { "badReport",      \* the device sends a report the client cannot parse
      "samePath",       \* a device plugged in again gets its old path back
      "cancelStart",    \* the caller of start() is cancelled, by a timeout say
      "slowListeners" } \* a state listener awaits something

ASSUME PoolsAssumption ==
    /\ Readers \cap (Keepalives \cup Inits \cup Loops) = {}
    /\ Keepalives \cap (Inits \cup Loops) = {}
    /\ Inits \cap Loops = {}
    /\ {Starter, NoTask} \cap (Readers \cup Keepalives \cup Inits \cup Loops) = {}
    /\ Starter # NoTask

ASSUME EnvAssumption == Env \subseteq EnvChoices

Task == Readers \cup Keepalives \cup Inits \cup Loops \cup {Starter}

VARIABLES
    running,        \* _running
    connected,      \* _connected
    autoReconnect,  \* _auto_reconnect, chosen once
    lock,           \* the task inside _connection_lock, or NoTask
    readerTask,     \* _reader_task
    keepaliveTask,  \* _keepalive_task
    reconnectTask,  \* _reconnect_task
    initTask,       \* _initialization_task
    pc,             \* where each task waits; "done" when the slot is unused
    cancelled,      \* tasks with a cancellation not yet delivered
    app,            \* what the application did last: "idle", "using", "closing"
    awaited,        \* the tasks close() gathers
    transport,      \* "closed"; "live"; "dead": open, but its device is gone
    plugged,        \* the device is present
    port,           \* the path of the open transport names a present device
    announced       \* the last "connection" event listeners got: "none", "up", "down"

client   == <<running, connected, autoReconnect, lock>>
pointers == <<readerTask, keepaliveTask, reconnectTask, initTask>>
usb      == <<transport, plugged, port>>
vars     == <<client, pointers, pc, cancelled, app, awaited, usb, announced>>

ReaderPCs    == {"reading", "handling", "woken", "done"}
KeepalivePCs == {"sleeping", "writing", "done"}
InitPCs      == {"diagnosing", "unwinding", "done"}
InConnect    == {"initialising", "announcing"}
LoopPCs      == {"created", "lost", "sleeping", "locking", "done"} \cup InConnect
StarterPCs   == {"done"} \cup InConnect

-----------------------------------------------------------------------------
(* Tasks *)

Live    == {t \in Task : pc[t] # "done"}
Free(t) == pc[t] = "done" /\ t \notin awaited
\* Bugs: close() does not skip None, or forgets the reconnect loop.
PointedWithNone    == {readerTask, keepaliveTask, reconnectTask, initTask}
PointedWithoutLoop == {readerTask, keepaliveTask, initTask} \cap Live

\* The tasks close() finds in the client's attributes.
Pointed == {readerTask, keepaliveTask, reconnectTask, initTask} \cap Live

\* Task t takes its next step: it waits at "at" and no cancellation overtakes it.
At(t, at) == pc[t] = at /\ t \notin cancelled

\* Task t goes to its next await and changes nothing else.
Moves(t, to) ==
    /\ pc' = [pc EXCEPT ![t] = to]
    /\ UNCHANGED <<client, pointers, cancelled, app, awaited, usb, announced>>

\* Bugs: close() of the transport keeps the descriptor, or lets a read wait on;
\* listeners are told of the first change only.
KeepTransport    == UNCHANGED <<transport, port>>
WakesNobody(p)   == p
AnnounceFirst(v) == announced' = IF announced = "none" THEN v ELSE announced

\* transport.close(), and what it does to the readers of p: their read fails.
CloseTransport == transport' = "closed" /\ port' = FALSE
Woken(p) == [t \in Task |-> IF t \in Readers /\ p[t] = "reading" THEN "woken"
                                                                 ELSE p[t]]

\* The listeners get the news v.
Announce(v) == announced' = v

\* Tasks woken or cancelled earlier run before a timer started later fires.
NothingPending == cancelled = {} /\ \A r \in Readers : pc[r] # "woken"

\* Bug: _schedule_reconnect creates a loop although one is running.
NeverAnyLoop(p) == TRUE

NoLoop(p) == reconnectTask = NoTask \/ p[reconnectTask] = "done"

\* _schedule_reconnect, called by a task that finds _running = r and
\* _connected = c and leaves the other tasks at p.
ScheduleReconnect(r, c, p) ==
    /\ connected' = (c /\ ~r)
    /\ running' = (r /\ autoReconnect)
    /\ IF r /\ autoReconnect /\ NoLoop(p)
       THEN \E l \in Loops : /\ Free(l)
                             /\ reconnectTask' = l
                             /\ pc' = [p EXCEPT ![l] = "created"]
       ELSE pc' = p /\ UNCHANGED reconnectTask

-----------------------------------------------------------------------------
(* start() and _connect *)

\* _connect past its guard, run by c with the lock free: the descriptor, the
\* reader and the keepalive come into being in one step, and the first write
\* of initialize_devices is the first await.  A transport that is still open
\* keeps its descriptor.
OpenAndCreateTasks(c) ==
    /\ transport # "closed" \/ plugged
    /\ transport' = IF transport = "closed" THEN "live" ELSE transport
    /\ port' = (transport = "closed" \/ port)
    /\ connected' = TRUE
    /\ lock' = c
    /\ \E r \in Readers, k \in Keepalives :
          /\ Free(r) /\ Free(k)
          /\ readerTask' = r /\ keepaliveTask' = k
          /\ pc' = [pc EXCEPT ![c] = "initialising", ![r] = "reading", ![k] = "sleeping"]
    /\ UNCHANGED <<autoReconnect, initTask, reconnectTask, cancelled, awaited,
                   plugged, announced>>

\* Nobody holds the lock while the client is not running: start() never waits.
StartConnects ==
    /\ ~running /\ app # "closing" /\ pc[Starter] = "done"
    /\ ~connected
    /\ app' = "using" /\ running' = TRUE
    /\ OpenAndCreateTasks(Starter)

StartFindsNoDevice ==
    /\ ~running /\ app # "closing" /\ pc[Starter] = "done"
    /\ transport = "closed" /\ ~plugged
    /\ app' = "using"
    /\ ScheduleReconnect(TRUE, connected, pc)
    /\ UNCHANGED <<autoReconnect, lock, readerTask, keepaliveTask, initTask,
                   cancelled, awaited, usb, announced>>

\* Bug: the loop ends when the device is not there yet.
LoopConnectsOnce(l) ==
    IF running /\ ~connected /\ (transport # "closed" \/ plugged)
    THEN OpenAndCreateTasks(l) /\ UNCHANGED <<running, app>>
    ELSE Moves(l, "done")

\* The reconnect loop enters _connect with the lock free.
LoopConnects(l) ==
    IF running /\ ~connected /\ (transport # "closed" \/ plugged)
    THEN OpenAndCreateTasks(l) /\ UNCHANGED <<running, app>>
    ELSE Moves(l, IF running /\ ~connected THEN "sleeping" ELSE "done")

\* The last report of initialize_devices is written: the diagnostics task is
\* created and the listeners are told.  They hold the lock while they await.
InitialisationEnds(c) ==
    /\ At(c, "initialising")
    /\ port
    /\ Announce("up")
    /\ \E i \in Inits :
          /\ Free(i)
          /\ initTask' = i
          /\ IF "slowListeners" \in Env
             THEN pc' = [pc EXCEPT ![i] = "diagnosing", ![c] = "announcing"] /\ UNCHANGED lock
             ELSE pc' = [pc EXCEPT ![i] = "diagnosing", ![c] = "done"] /\ lock' = NoTask
    /\ UNCHANGED <<running, connected, autoReconnect, readerTask, keepaliveTask,
                   reconnectTask, cancelled, app, awaited, usb>>

\* A write of initialize_devices fails, or finds the transport closed.
StartInitialisationFails ==
    /\ At(Starter, "initialising")
    /\ ~port
    /\ CloseTransport
    /\ lock' = NoTask
    /\ ScheduleReconnect(running, FALSE, [Woken(pc) EXCEPT ![Starter] = "done"])
    /\ UNCHANGED <<autoReconnect, readerTask, keepaliveTask, initTask, cancelled,
                   app, awaited, plugged, announced>>

LoopInitialisationFails(l) ==
    /\ At(l, "initialising")
    /\ ~port
    /\ CloseTransport
    /\ lock' = NoTask
    /\ connected' = FALSE
    /\ pc' = [Woken(pc) EXCEPT ![l] = IF running THEN "sleeping" ELSE "done"]
    /\ UNCHANGED <<running, autoReconnect, pointers, cancelled, app, awaited,
                   plugged, announced>>

ListenersReturn(c) ==
    /\ At(c, "announcing")
    /\ lock' = NoTask
    /\ pc' = [pc EXCEPT ![c] = "done"]
    /\ UNCHANGED <<running, connected, autoReconnect, pointers, cancelled, app,
                   awaited, usb, announced>>

-----------------------------------------------------------------------------
(* close() *)

Close ==
    /\ app # "closing"
    /\ app' = "closing"
    /\ running' = FALSE
    /\ cancelled' = cancelled \cup Pointed
    /\ awaited' = Pointed
    /\ UNCHANGED <<connected, autoReconnect, lock, pointers, pc, usb, announced>>

\* Every gathered task has finished.
CloseReturns ==
    /\ app = "closing"
    /\ awaited \cap Live = {}
    /\ app' = "idle"
    /\ awaited' = {}
    /\ readerTask' = NoTask /\ keepaliveTask' = NoTask
    /\ reconnectTask' = NoTask /\ initTask' = NoTask
    /\ connected' = FALSE
    /\ CloseTransport
    /\ pc' = Woken(pc)
    /\ UNCHANGED <<running, autoReconnect, lock, cancelled, plugged, announced>>

-----------------------------------------------------------------------------
(* _reconnect_loop *)

LoopAnnouncesLoss(l) ==
    /\ At(l, "created")
    /\ Announce("down")
    /\ pc' = [pc EXCEPT ![l] = "lost"]
    /\ UNCHANGED <<client, pointers, cancelled, app, awaited, usb>>

LoopTearsDown(l) ==
    /\ At(l, "lost")
    /\ cancelled' = cancelled \cup ({readerTask, keepaliveTask, initTask} \cap Live)
    /\ CloseTransport
    /\ pc' = [Woken(pc) EXCEPT ![l] = IF running THEN "sleeping" ELSE "done"]
    /\ UNCHANGED <<client, pointers, app, awaited, plugged, announced>>

\* The delay is over.
LoopWakes(l) ==
    /\ At(l, "sleeping")
    /\ NothingPending
    /\ lock = NoTask
    /\ LoopConnects(l)

LoopWaitsForLock(l) ==
    /\ At(l, "sleeping")
    /\ NothingPending
    /\ lock # NoTask
    /\ Moves(l, "locking")

LoopGetsLock(l) ==
    /\ At(l, "locking")
    /\ lock = NoTask
    /\ LoopConnects(l)

-----------------------------------------------------------------------------
(* _read_loop *)

\* A report arrives; its packets are handled and published.
ReaderGetsReport(r) ==
    /\ At(r, "reading")
    /\ transport = "live"
    /\ Moves(r, "handling")

ReaderReadsOn(r) ==
    /\ At(r, "handling")
    /\ running => transport # "closed"
    /\ Moves(r, IF running THEN "reading" ELSE "done")

\* Any exception ends the reader.
ReaderEnds(r) ==
    /\ ScheduleReconnect(running, connected, [pc EXCEPT ![r] = "done"])
    /\ UNCHANGED <<autoReconnect, lock, readerTask, keepaliveTask, initTask,
                   cancelled, app, awaited, usb, announced>>

\* The read fails, or a request sent while a packet is handled does, or the
\* transport is closed when the reader comes back to it.
ReaderFails(r) ==
    /\ \/ At(r, "woken")
       \/ At(r, "reading") /\ transport = "dead"
       \/ At(r, "handling") /\ ~port
    /\ ReaderEnds(r)

\* split_report or a parser raises ProtocolError.
ReaderGetsBadReport(r) ==
    /\ "badReport" \in Env
    /\ \/ At(r, "reading") /\ transport = "live"
       \/ At(r, "handling")
    /\ ReaderEnds(r)

-----------------------------------------------------------------------------
(* _keepalive_loop and refresh_diagnostics *)

KeepaliveBeats(k) ==
    /\ At(k, "sleeping")
    /\ transport # "closed"
    /\ Moves(k, "writing")

KeepaliveWritten(k) ==
    /\ At(k, "writing")
    /\ port
    /\ Moves(k, IF running THEN "sleeping" ELSE "done")

KeepaliveFails(k) ==
    /\ \/ At(k, "sleeping") /\ transport = "closed"
       \/ At(k, "writing") /\ ~port
    /\ ScheduleReconnect(running, connected, [pc EXCEPT ![k] = "done"])
    /\ UNCHANGED <<autoReconnect, lock, readerTask, keepaliveTask, initTask,
                   cancelled, app, awaited, usb, announced>>

\* Bug: a cancelled pass waits for an answer to its last request.
DiagnosticsAnswered(i) == At(i, "diagnosing") /\ Moves(i, "done")

\* The diagnostics are read, or given up after their timeouts.
DiagnosticsEnd(i) ==
    /\ At(i, "diagnosing") \/ At(i, "unwinding")
    /\ Moves(i, "done")

-----------------------------------------------------------------------------
(* Cancellation reaches a task at its next step *)

\* The lock is released, nothing else: _connected keeps its value.
CancelDelivered(t) ==
    /\ t \in cancelled
    /\ cancelled' = cancelled \ {t}
    /\ pc' = [pc EXCEPT ![t] = "done"]
    /\ lock' = IF lock = t THEN NoTask ELSE lock
    /\ UNCHANGED <<running, connected, autoReconnect, pointers, app, awaited,
                   usb, announced>>

\* refresh_diagnostics sends the "off" request first while connected.
CancelUnwinds(i) ==
    /\ i \in cancelled
    /\ pc[i] = "diagnosing" /\ connected
    /\ cancelled' = cancelled \ {i}
    /\ pc' = [pc EXCEPT ![i] = "unwinding"]
    /\ UNCHANGED <<client, pointers, app, awaited, usb, announced>>

-----------------------------------------------------------------------------
(* The application and the device *)

\* The caller of start() gives up: _running and _connected keep their values.
StartCancelled ==
    /\ "cancelStart" \in Env
    /\ pc[Starter] # "done"
    /\ pc' = [pc EXCEPT ![Starter] = "done"]
    /\ lock' = NoTask
    /\ UNCHANGED <<running, connected, autoReconnect, pointers, cancelled, app,
                   awaited, usb, announced>>

Unplug ==
    /\ plugged
    /\ plugged' = FALSE /\ port' = FALSE
    /\ transport' = IF transport = "live" THEN "dead" ELSE transport
    /\ UNCHANGED <<client, pointers, pc, cancelled, app, awaited, announced>>

Plug ==
    /\ ~plugged
    /\ plugged' = TRUE
    /\ port' \in {FALSE, "samePath" \in Env /\ transport # "closed"}
    /\ UNCHANGED <<client, pointers, pc, cancelled, app, awaited, transport,
                   announced>>

-----------------------------------------------------------------------------
Init ==
    /\ running = FALSE /\ connected = FALSE /\ autoReconnect \in BOOLEAN
    /\ lock = NoTask
    /\ readerTask = NoTask /\ keepaliveTask = NoTask
    /\ reconnectTask = NoTask /\ initTask = NoTask
    /\ pc = [t \in Task |-> "done"]
    /\ cancelled = {}
    /\ app = "idle" /\ awaited = {}
    /\ transport = "closed" /\ plugged \in BOOLEAN /\ port = FALSE
    /\ announced = "none"

ConnectStep(c)  == InitialisationEnds(c) \/ ListenersReturn(c)
StartStep       == ConnectStep(Starter) \/ StartInitialisationFails
ReaderStep(r)   == ReaderReadsOn(r) \/ ReaderFails(r) \/ CancelDelivered(r)
KeepaliveStep(k) == KeepaliveBeats(k) \/ KeepaliveWritten(k) \/ KeepaliveFails(k)
                        \/ CancelDelivered(k)
InitStep(i)     == DiagnosticsEnd(i) \/ CancelUnwinds(i) \/ CancelDelivered(i)
LoopStep(l)     == \/ LoopAnnouncesLoss(l) \/ LoopTearsDown(l)
                   \/ LoopWakes(l) \/ LoopWaitsForLock(l) \/ LoopGetsLock(l)
                   \/ ConnectStep(l) \/ LoopInitialisationFails(l)
                   \/ CancelDelivered(l)

Next ==
    \/ StartConnects \/ StartFindsNoDevice \/ StartCancelled \/ Close
    \/ CloseReturns
    \/ StartStep
    \/ \E r \in Readers : ReaderStep(r) \/ ReaderGetsReport(r) \/ ReaderGetsBadReport(r)
    \/ \E k \in Keepalives : KeepaliveStep(k)
    \/ \E i \in Inits : InitStep(i)
    \/ \E l \in Loops : LoopStep(l)
    \/ Unplug \/ Plug

Spec == Init /\ [][Next]_vars

\* The event loop runs every task that can go on: writes end, timers fire,
\* listeners return.  The application and the device owe nothing.
Fairness ==
    /\ WF_vars(CloseReturns)
    /\ WF_vars(StartStep)
    /\ \A r \in Readers : WF_vars(ReaderStep(r))
    /\ \A k \in Keepalives : WF_vars(KeepaliveStep(k))
    /\ \A i \in Inits : WF_vars(InitStep(i))
    /\ \A l \in Loops : WF_vars(LoopStep(l))

FairSpec == Spec /\ Fairness
-----------------------------------------------------------------------------
(* Properties *)

\* p says of each task that it waits where a task of its pool can wait.
WellPlaced(p) ==
    /\ p \in [Task -> ReaderPCs \cup KeepalivePCs \cup InitPCs \cup LoopPCs]
    /\ \A r \in Readers : p[r] \in ReaderPCs
    /\ \A k \in Keepalives : p[k] \in KeepalivePCs
    /\ \A i \in Inits : p[i] \in InitPCs
    /\ \A l \in Loops : p[l] \in LoopPCs
    /\ p[Starter] \in StarterPCs

TypeOK ==
    /\ running \in BOOLEAN /\ connected \in BOOLEAN /\ autoReconnect \in BOOLEAN
    /\ lock \in Loops \cup {Starter, NoTask}
    /\ readerTask \in Readers \cup {NoTask}
    /\ keepaliveTask \in Keepalives \cup {NoTask}
    /\ reconnectTask \in Loops \cup {NoTask}
    /\ initTask \in Inits \cup {NoTask}
    /\ WellPlaced(pc)
    /\ cancelled \subseteq Task /\ awaited \subseteq Task
    /\ app \in {"idle", "using", "closing"}
    /\ transport \in {"closed", "live", "dead"}
    /\ plugged \in BOOLEAN /\ port \in BOOLEAN
    /\ announced \in {"none", "up", "down"}

\* A client that says it is connected has its transport open: no path through
\* failures, reconnects and cancellations closes the transport and leaves
\* _connected behind, or opens none and sets it.
ConnectedMeansOpen == connected => transport # "closed"

\* A connected client is served: the reader and the keepalive it points to run,
\* and nobody has asked them to stop.  A failure of either one, current or left
\* over from an earlier connection, drops _connected in the same step.
ConnectedMeansServed ==
    connected /\ running => {readerTask, keepaliveTask} \subseteq Live \ cancelled

\* However many tasks report the same loss, at most one reconnect loop runs,
\* it is the one close() will cancel, and never without auto_reconnect.
OneReconnectLoop ==
    \A l \in Loops : pc[l] # "done" => autoReconnect /\ l = reconnectTask

\* With auto_reconnect a lost connection is never declared restored on the
\* descriptor that was lost: _connected becomes true only in a step that opens
\* a new one.
FreshDescriptor ==
    [][autoReconnect /\ ~connected /\ connected' => transport = "closed"]_vars

\* Once close() has returned, and until start(), the transport is closed,
\* _connected is false and no reconnect loop is left to open it again.
ClosedIsQuiet ==
    app = "idle" => /\ ~running /\ ~connected
                    /\ transport = "closed"
                    /\ \A l \in Loops : pc[l] = "done"

\* Why the properties above hold.  The lock is held exactly while its holder
\* is inside _connect.  Cancellations are pending only for live tasks.  Outside
\* close(), a client that does not run is disconnected and has no loop; during
\* close() every loop is cancelled and waited for.  A loop that has not
\* connected yet finds _connected false, and from its first delay on the
\* transport closed: neither start() nor a second loop opens it meanwhile.
LockInv == \A c \in Loops \cup {Starter} : lock = c <=> pc[c] \in InConnect
CancelInv ==
    /\ cancelled \subseteq Live \ {Starter}
    /\ \A l \in Loops : l \in cancelled => app = "closing"
RunningInv ==
    /\ running => app = "using"
    /\ app = "using" /\ autoReconnect => running
    /\ ~running /\ app # "closing" => ~connected /\ \A l \in Loops : pc[l] = "done"
ClosingInv ==
    app = "closing" => \A l \in Loops : pc[l] # "done" => l \in cancelled \cap awaited
LoopInv ==
    \A l \in Loops :
        /\ pc[l] \in {"created", "lost", "sleeping", "locking"} => ~connected
        /\ pc[l] \in {"sleeping", "locking"} => transport = "closed"
LifecycleInv == LockInv /\ CancelInv /\ RunningInv /\ ClosingInv /\ LoopInv

\* close() leaves no reader and no keepalive running (NAVOD_API.md:210).
CloseStopsTasks ==
    app = "idle" => \A t \in Readers \cup Keepalives : pc[t] = "done"

\* If the device is eventually plugged in for good, a client that waits for a
\* reconnection gets it, or is closed.
Recovers ==
    autoReconnect /\ <>[]plugged => (running /\ ~connected ~> connected \/ ~running)

\* close() returns: every task it waits for ends.
CloseCompletes == app = "closing" ~> app = "idle"

\* After a close() that is not followed by a start(), every task ends, also
\* those close() did not know of.
LeaksDrain == <>[](app = "idle") => <>[](Live = {})

\* Listeners of a connection that lasts have "connection up" as their last
\* news, however the announcements of losses and recoveries interleave.
ListenersConverge == <>[](connected /\ running) => <>[](announced = "up")
=============================================================================

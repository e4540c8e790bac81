-------------------------- MODULE HidrawTransport ---------------------------
(***************************************************************************)
(* HidrawTransport (transport.py): reads wait for the readiness of a       *)
(* descriptor in the event loop, writes open the device by its path in a   *)
(* worker thread.  Descriptor numbers are reused by the operating system,  *)
(* also for files that have nothing to do with the alarm.                  *)
(*                                                                         *)
(* A call of read() or write() is a slot; pc says what it waits for:       *)
(*   "locking"    the read or write lock                                   *)
(*   "waiting"    a read whose future is pending                           *)
(*   "ready", "closed", "cancelled"                                        *)
(*                a read whose future is done and that has not run since   *)
(*   "writing"    the worker thread                                        *)
(*   "abandoned"  nothing: the write was cancelled, its thread goes on     *)
(***************************************************************************)
EXTENDS FiniteSets

CONSTANTS
    Reads, Writes,  \* slots for calls
    Fds,            \* descriptor numbers
    Paths,          \* device paths
    None

ASSUME SlotsAssumption == Reads \cap Writes = {} /\ None \notin Reads \cup Writes
ASSUME NamesAssumption == None \notin Fds \cup Paths /\ Fds \cap Paths = {}

VARIABLES
    reader,     \* _reader
    port,       \* _port
    readReady,  \* the call whose future is _read_ready
    readLock,   \* holder of _read_lock
    writeLock,  \* holder of _write_lock
    table,      \* what each descriptor number is open to
    watch,      \* the call whose callback add_reader() registered
    pc, local,  \* where a call waits; its local variable reader, or its path
    outcome,    \* how the last call in each slot ended
    device      \* the path of the device, None when it is unplugged

self  == <<reader, port, readReady>>
locks == <<readLock, writeLock>>
os    == <<table, watch, device>>
calls == <<pc, local, outcome>>
vars  == <<self, locks, os, calls>>

Init ==
    /\ reader = None /\ port = None /\ readReady = None
    /\ readLock = None /\ writeLock = None
    /\ table = [fd \in Fds |-> "free"]
    /\ watch = [fd \in Fds |-> None]
    /\ pc = [c \in Reads \cup Writes |-> "idle"]
    /\ local = [c \in Reads \cup Writes |-> None]
    /\ outcome = [c \in Reads \cup Writes |-> "none"]
    /\ device \in Paths \cup {None}

\* A call need not wait for the lock: asyncio.Lock is fair to those who wait.
Unlocked(lock, slots) == lock = None /\ \A d \in slots : pc[d] # "locking"

-----------------------------------------------------------------------------
(* open() and close() *)

\* Mutant: open() without its early return.
OpenAgain ==
    /\ device # None
    /\ \E fd \in Fds : /\ table[fd] = "free"
                       /\ table' = [table EXCEPT ![fd] = "device"]
                       /\ reader' = fd
    /\ port' = device
    /\ UNCHANGED <<readReady, locks, watch, device, calls>>

Open ==
    /\ reader = None /\ device # None
    /\ \E fd \in Fds : /\ table[fd] = "free"
                       /\ table' = [table EXCEPT ![fd] = "device"]
                       /\ reader' = fd
    /\ port' = device
    /\ UNCHANGED <<readReady, locks, watch, device, calls>>

\* Mutant: close() fails nobody.
FailNobody == pc

\* What close() does to the calls: a read that waits is failed.
FailPending == [c \in DOMAIN pc |->
                   IF c = readReady /\ pc[c] = "waiting" THEN "closed" ELSE pc[c]]

\* Mutants: close() keeps _port; it does not call remove_reader.
CloseKeepsPort ==
    /\ reader # None
    /\ reader' = None /\ readReady' = None
    /\ watch' = [watch EXCEPT ![reader] = None]
    /\ table' = [table EXCEPT ![reader] = "free"]
    /\ pc' = FailPending
    /\ UNCHANGED <<port, locks, device, local, outcome>>

CloseKeepsWatching ==
    /\ reader # None
    /\ reader' = None /\ port' = None /\ readReady' = None
    /\ table' = [table EXCEPT ![reader] = "free"]
    /\ pc' = FailPending
    /\ UNCHANGED <<locks, watch, device, local, outcome>>

Close ==
    /\ reader # None
    /\ reader' = None /\ port' = None /\ readReady' = None
    /\ watch' = [watch EXCEPT ![reader] = None]
    /\ table' = [table EXCEPT ![reader] = "free"]
    /\ pc' = FailPending
    /\ UNCHANGED <<locks, device, local, outcome>>

-----------------------------------------------------------------------------
(* read() *)

\* Mutant: a cancelled call does not release the lock.
KeepsLock(c, o, w) ==
    /\ pc' = [pc EXCEPT ![c] = "idle"]
    /\ local' = [local EXCEPT ![c] = None]
    /\ outcome' = [outcome EXCEPT ![c] = o]
    /\ readLock' = IF o = "cancelled" THEN readLock ELSE None
    /\ watch' = w

\* Call c ends with o; the read lock is free again.
ReadEnds(c, o, w) ==
    /\ pc' = [pc EXCEPT ![c] = "idle"]
    /\ local' = [local EXCEPT ![c] = None]
    /\ outcome' = [outcome EXCEPT ![c] = o]
    /\ readLock' = None
    /\ watch' = w

\* Mutant: the loop does not ask whether the descriptor is still _reader.
ReadUnchecked(c, fd, w, ready) ==
    \/ /\ ReadEnds(c, CASE table[fd] = "device" -> "data" [] table[fd] = "foreign" -> "foreign"
                        [] OTHER -> "error", w)
       /\ readReady' = ready
    \/ /\ table[fd] = "device"
       /\ pc' = [pc EXCEPT ![c] = "waiting"]
       /\ local' = [local EXCEPT ![c] = fd]
       /\ readLock' = c /\ readReady' = c
       /\ watch' = [w EXCEPT ![fd] = c]
       /\ UNCHANGED outcome

\* The loop of read() in call c that holds the lock, from its condition to the
\* next await or the end; w is what the event loop watches by then.
ReadFrom(c, fd, w, ready) ==
    \/ /\ reader # fd
       /\ ReadEnds(c, "closed", w) /\ readReady' = ready
    \/ /\ reader = fd /\ table[fd] = "device"
       /\ ReadEnds(c, "data", w) /\ readReady' = ready
    \/ /\ reader = fd /\ table[fd] = "device"  \* BlockingIOError
       /\ pc' = [pc EXCEPT ![c] = "waiting"]
       /\ local' = [local EXCEPT ![c] = fd]
       /\ readLock' = c /\ readReady' = c
       /\ watch' = [w EXCEPT ![fd] = c]
       /\ UNCHANGED outcome
    \/ /\ reader = fd /\ table[fd] # "device"  \* OSError, or another file's bytes
       /\ ReadEnds(c, IF table[fd] = "foreign" THEN "foreign" ELSE "error", w)
       /\ readReady' = ready

\* Call c holds the lock and looks at _reader for the first time.
ReadStarts(c) ==
    /\ readLock = None
    /\ \/ reader = None /\ ReadEnds(c, "closed", watch) /\ UNCHANGED readReady
       \/ reader # None /\ ReadFrom(c, reader, watch, readReady)

CallRead(c) ==
    /\ pc[c] = "idle"
    /\ \/ Unlocked(readLock, Reads) /\ ReadStarts(c)
       \/ /\ ~Unlocked(readLock, Reads)
          /\ pc' = [pc EXCEPT ![c] = "locking"]
          /\ UNCHANGED <<readReady, readLock, watch, local, outcome>>
    /\ UNCHANGED <<reader, port, writeLock, table, device>>

ReadGetsLock(c) ==
    /\ pc[c] = "locking"
    /\ ReadStarts(c)
    /\ UNCHANGED <<reader, port, writeLock, table, device>>

\* The callback readable(): the device has a report, or it is gone.
Readable(fd) ==
    /\ table[fd] # "free" /\ watch[fd] # None /\ pc[watch[fd]] = "waiting"
    /\ pc' = [pc EXCEPT ![watch[fd]] = "ready"]
    /\ UNCHANGED <<self, locks, os, local, outcome>>

\* Call c runs again after `await ready`: the finally clause, then the loop.
Resume(c) ==
    LET mine  == readReady = c
        w     == IF mine THEN [watch EXCEPT ![local[c]] = None] ELSE watch
        ready == IF mine THEN None ELSE readReady
    IN  /\ \/ pc[c] = "ready" /\ ReadFrom(c, local[c], w, ready)
           \/ /\ pc[c] \in {"closed", "cancelled"}
              /\ ReadEnds(c, pc[c], w) /\ readReady' = ready
        /\ UNCHANGED <<reader, port, writeLock, table, device>>

\* Task.cancel(), before the future is done or after.
CancelRead(c) ==
    /\ \/ /\ pc[c] \in {"waiting", "ready", "closed"}
          /\ pc' = [pc EXCEPT ![c] = "cancelled"] /\ UNCHANGED outcome
       \/ /\ pc[c] = "locking"
          /\ pc' = [pc EXCEPT ![c] = "idle"]
          /\ outcome' = [outcome EXCEPT ![c] = "cancelled"]
    /\ UNCHANGED <<self, locks, os, local>>

-----------------------------------------------------------------------------
(* write() *)

\* The worker thread gets the path that _port holds at this moment.
StartsThread(c) ==
    /\ writeLock = None /\ writeLock' = c
    /\ pc' = [pc EXCEPT ![c] = "writing"]
    /\ local' = [local EXCEPT ![c] = port]
    /\ UNCHANGED outcome

CallWrite(c) ==
    /\ pc[c] = "idle"
    /\ \/ /\ port = None \/ reader = None
          /\ outcome' = [outcome EXCEPT ![c] = "closed"]
          /\ UNCHANGED <<writeLock, pc, local>>
       \/ port # None /\ reader # None /\ Unlocked(writeLock, Writes) /\ StartsThread(c)
       \/ /\ port # None /\ reader # None /\ ~Unlocked(writeLock, Writes)
          /\ pc' = [pc EXCEPT ![c] = "locking"]
          /\ UNCHANGED <<writeLock, local, outcome>>
    /\ UNCHANGED <<self, readLock, os>>

WriteGetsLock(c) ==
    /\ pc[c] = "locking"
    /\ StartsThread(c)
    /\ UNCHANGED <<self, readLock, os>>

\* The thread of call c ends; nobody hears of it when the call was cancelled.
WriteEnds(c) ==
    /\ pc[c] \in {"writing", "abandoned"}
    /\ pc' = [pc EXCEPT ![c] = "idle"]
    /\ local' = [local EXCEPT ![c] = None]
    /\ \/ pc[c] = "abandoned" /\ UNCHANGED <<writeLock, outcome>>
       \/ /\ pc[c] = "writing" /\ writeLock' = None
          /\ outcome' = [outcome EXCEPT ![c] =
                 IF local[c] = None THEN "typeerror"
                 ELSE IF local[c] = device THEN "written" ELSE "error"]
    /\ UNCHANGED <<self, readLock, os>>

\* The lock is released at once; the thread cannot be stopped.
CancelWrite(c) ==
    /\ pc[c] \in {"locking", "writing"}
    /\ outcome' = [outcome EXCEPT ![c] = "cancelled"]
    /\ \/ /\ pc[c] = "locking" /\ pc' = [pc EXCEPT ![c] = "idle"]
          /\ UNCHANGED writeLock
       \/ /\ pc[c] = "writing" /\ pc' = [pc EXCEPT ![c] = "abandoned"]
          /\ writeLock' = None
    /\ UNCHANGED <<self, readLock, os, local>>

-----------------------------------------------------------------------------
(* The device and the rest of the process *)

Unplug ==
    /\ device # None /\ device' = None
    /\ table' = [fd \in Fds |-> IF table[fd] = "device" THEN "gone" ELSE table[fd]]
    /\ UNCHANGED <<self, locks, watch, calls>>

Plug ==
    /\ device = None /\ device' \in Paths
    /\ UNCHANGED <<self, locks, table, watch, calls>>

\* Other code opens a file and gets a free number, or closes it.
Foreign(fd) ==
    /\ \/ table[fd] = "free" /\ table' = [table EXCEPT ![fd] = "foreign"]
       \/ table[fd] = "foreign" /\ table' = [table EXCEPT ![fd] = "free"]
    /\ UNCHANGED <<self, locks, watch, device, calls>>

Next ==
    \/ Open \/ Close \/ Unplug \/ Plug
    \/ \E fd \in Fds : Readable(fd) \/ Foreign(fd)
    \/ \E c \in Reads : CallRead(c) \/ ReadGetsLock(c) \/ Resume(c) \/ CancelRead(c)
    \/ \E c \in Writes : CallWrite(c) \/ WriteGetsLock(c) \/ WriteEnds(c) \/ CancelWrite(c)

\* The event loop runs what is ready, gives the lock in the order of the calls
\* and polls a device that is gone as readable; callers may stop at any time.
Fairness ==
    /\ \A c \in Reads : SF_vars(ReadGetsLock(c)) /\ WF_vars(Resume(c))
    /\ \A fd \in Fds : WF_vars(table[fd] = "gone" /\ Readable(fd))

Spec == Init /\ [][Next]_vars /\ Fairness

-----------------------------------------------------------------------------
(* Properties *)

\* Types, what each place of a call keeps, and the pairs of attributes that are
\* set and cleared together.
TypeOK ==
    /\ reader \in Fds \cup {None} /\ port \in Paths \cup {None}
    /\ (reader = None) <=> (port = None)
    /\ readReady \in Reads \cup {None}
    /\ readLock \in Reads \cup {None} /\ writeLock \in Writes \cup {None}
    /\ table \in [Fds -> {"free", "device", "gone", "foreign"}]
    /\ watch \in [Fds -> Reads \cup {None}]
    /\ device \in Paths \cup {None}
    /\ DOMAIN pc = Reads \cup Writes /\ DOMAIN local = DOMAIN pc /\ DOMAIN outcome = DOMAIN pc
    /\ \A c \in Reads :
          /\ pc[c] \in {"idle", "locking", "waiting", "ready", "closed", "cancelled"}
          /\ local[c] \in Fds \cup {None}
          /\ outcome[c] \in {"none", "data", "closed", "error", "foreign", "cancelled"}
    /\ \A c \in Writes :
          /\ pc[c] \in {"idle", "locking", "writing", "abandoned"}
          /\ local[c] \in Paths \cup {None}
          /\ outcome[c] \in {"none", "written", "closed", "error", "typeerror", "cancelled"}

\* The read lock is held by the read that is past it and by no other, through
\* every end of the call; the pending future is the one of _reader (read, close).
ReadLockHeld ==
    /\ \A c \in Reads : readLock = c <=> pc[c] \in {"waiting", "ready", "closed", "cancelled"}
    /\ \A c \in Reads : readLock = c => local[c] \in Fds
    /\ readReady # None => reader # None /\ watch[reader] = readReady

\* The transport owns the one descriptor in _reader: whatever the order of
\* open(), close() and the loss of the device, none is left open (close, open).
OneDescriptor == {fd \in Fds : table[fd] \in {"device", "gone"}} = {reader} \ {None}

\* The event loop watches a descriptor only for the call that holds the read
\* lock and only while it is _reader, so a callback never fires for a number
\* that has been given to another file (add_reader and remove_reader).
WatchOwned ==
    \A fd \in Fds : watch[fd] # None =>
        /\ reader = fd /\ readReady = watch[fd] /\ readLock = watch[fd]
        /\ local[watch[fd]] = fd
        /\ pc[watch[fd]] \in {"waiting", "ready", "cancelled"}

\* A read that waits will be woken: its future is the one close() fails and its
\* callback is registered (read, close).
WaitsWatched ==
    \A c \in Reads : pc[c] = "waiting" =>
        local[c] = reader /\ readReady = c /\ watch[reader] = c

\* A read never takes the bytes of a file that got the number of a descriptor
\* closed under it (the condition of the loop of read).
NoForeignRead == \A c \in Reads : outcome[c] # "foreign"

\* Reads do what Transport says: they end with data from a live device, fail for
\* a reason, and do not wait for a device that is closed or lost and stays so.
T == INSTANCE Transport WITH
        mode    <- IF reader = None THEN "closed"
                   ELSE IF table[reader] = "device" THEN "live" ELSE "lost",
        pending <- {c \in Reads : pc[c] # "idle"},
        doomed  <- {c \in Reads : \/ pc[c] = "closed"
                                  \/ pc[c] = "ready" /\ local[c] # reader},
        outcome <- [c \in Reads |-> IF outcome[c] \in {"closed", "error"} THEN "failed"
                                    ELSE outcome[c]]
ImplementsTransport == T!Spec

\* A write to a transport that is closed by then fails with TransportClosed,
\* not with the TypeError of open(None) (write, _write_blocking).
WriteToClosedSaysSo == \A c \in Writes : outcome[c] # "typeerror"
=============================================================================

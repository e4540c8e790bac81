----------------------- MODULE HidrawTransportProofs ------------------------
(***************************************************************************)
(* Proofs about HidrawTransport for any sets of calls, descriptor numbers  *)
(* and paths: its invariants, and that each of its steps is one of         *)
(* Transport or changes nothing there.                                     *)
(***************************************************************************)
EXTENDS HidrawTransport, TLAPS

\* The invariants of the run hid, which together are inductive.
IInv ==
    /\ TypeOK /\ ReadLockHeld
    /\ OneDescriptor /\ WatchOwned /\ WaitsWatched /\ NoForeignRead

\* Init establishes the invariants.
LEMMA InitInv == Init => IInv
  BY SlotsAssumption, NamesAssumption
     DEF Init, IInv, TypeOK, ReadLockHeld, OneDescriptor, WatchOwned, WaitsWatched, NoForeignRead

\* While no read holds the lock, no future is pending and nothing is watched.
LEMMA Unwatched ==
    ASSUME IInv, readLock = None
    PROVE  readReady = None /\ watch = [fd \in Fds |-> None]
  <1>1. \A fd \in Fds : watch[fd] = None
    BY DEF IInv, WatchOwned
  <1>2. readReady = None
    BY <1>1 DEF IInv, TypeOK, ReadLockHeld
  <1> QED
    BY <1>1, <1>2 DEF IInv, TypeOK

\* The finally clause of the call that holds the lock leaves nothing behind.
LEMMA FinallyClears ==
    ASSUME IInv, NEW c \in Reads, readLock = c
    PROVE  /\ (IF readReady = c THEN None ELSE readReady) = None
           /\ (IF readReady = c THEN [watch EXCEPT ![local[c]] = None] ELSE watch)
                  = [fd \in Fds |-> None]
  <1>1. c # None
    BY SlotsAssumption
  <1>2. readReady \in {c, None}
    BY DEF IInv, TypeOK, ReadLockHeld, WatchOwned
  <1>3. \A fd \in Fds : watch[fd] # None => readReady = c /\ fd = local[c]
    BY DEF IInv, WatchOwned
  <1> QED
    BY <1>1, <1>2, <1>3 DEF IInv, TypeOK

\* What a read does from the loop's condition on keeps the invariants, once
\* nothing is watched and no other read holds the lock.
LEMMA ReadKeepsInv ==
    ASSUME IInv, NEW c \in Reads, NEW fd,
           readLock \in {None, c},
           \/ fd \in Fds /\ ReadFrom(c, fd, [x \in Fds |-> None], None)
           \/ ReadEnds(c, "closed", [x \in Fds |-> None]) /\ readReady' = None
           \/ ReadEnds(c, "cancelled", [x \in Fds |-> None]) /\ readReady' = None,
           UNCHANGED <<reader, port, writeLock, table, device>>
    PROVE  IInv'
  <1> USE SlotsAssumption, NamesAssumption
  <1>1. reader # None => table[reader] \in {"device", "gone"}
    BY DEF IInv, TypeOK, OneDescriptor
  <1>2. c \notin Writes /\ c # None
    OBVIOUS
  <1>3. CASE \E o \in {"data", "closed", "error", "cancelled"} :
                 ReadEnds(c, o, [x \in Fds |-> None]) /\ readReady' = None
    <2>1. PICK o \in {"data", "closed", "error", "cancelled"} :
                 ReadEnds(c, o, [x \in Fds |-> None]) /\ readReady' = None
      BY <1>3
    <2>2. TypeOK'
      BY <1>2, <2>1 DEF IInv, TypeOK, ReadEnds
    <2>3. ReadLockHeld'
      BY <1>2, <2>1 DEF IInv, TypeOK, ReadLockHeld, ReadEnds
    <2>4. OneDescriptor'
      BY DEF IInv, OneDescriptor
    <2>5. WatchOwned'
      BY <2>1 DEF WatchOwned, ReadEnds
    <2>6. WaitsWatched' /\ NoForeignRead'
      BY <1>2, <2>1 DEF IInv, TypeOK, ReadLockHeld, WaitsWatched, NoForeignRead, ReadEnds
    <2> QED
      BY <2>2, <2>3, <2>4, <2>5, <2>6 DEF IInv
  <1>4. CASE /\ fd \in Fds /\ reader = fd
             /\ pc' = [pc EXCEPT ![c] = "waiting"]
             /\ local' = [local EXCEPT ![c] = fd]
             /\ readLock' = c /\ readReady' = c
             /\ watch' = [[x \in Fds |-> None] EXCEPT ![fd] = c]
             /\ UNCHANGED outcome
    <2>1. TypeOK'
      BY <1>2, <1>4 DEF IInv, TypeOK
    <2>2. ReadLockHeld'
      BY <1>2, <1>4 DEF IInv, TypeOK, ReadLockHeld
    <2>3. OneDescriptor' /\ NoForeignRead'
      BY <1>4 DEF IInv, OneDescriptor, NoForeignRead
    <2>4. WatchOwned'
      BY <1>2, <1>4 DEF IInv, TypeOK, WatchOwned
    <2>5. WaitsWatched'
      BY <1>2, <1>4 DEF IInv, TypeOK, ReadLockHeld, WaitsWatched
    <2> QED
      BY <2>1, <2>2, <2>3, <2>4, <2>5 DEF IInv
  <1> QED
    BY <1>1, <1>3, <1>4 DEF ReadFrom

\* Every step keeps the invariants.
LEMMA StepInv == IInv /\ [Next]_vars => IInv'
  <1> SUFFICES ASSUME IInv, [Next]_vars PROVE IInv'
    OBVIOUS
  <1> USE SlotsAssumption, NamesAssumption
  <1>1. CASE Open
    <2>1. TypeOK'
      BY <1>1 DEF IInv, TypeOK, Open, locks, calls
    <2>2. ReadLockHeld'
      BY <1>1 DEF IInv, TypeOK, ReadLockHeld, Open, locks, calls
    <2>3. OneDescriptor'
      BY <1>1 DEF IInv, TypeOK, OneDescriptor, Open
    <2>4. WatchOwned' /\ NoForeignRead'
      BY <1>1 DEF IInv, TypeOK, WatchOwned, NoForeignRead, Open, locks, calls
    <2>5. WaitsWatched'
      BY <1>1 DEF IInv, TypeOK, ReadLockHeld, WaitsWatched, Open, calls
    <2> QED
      BY <2>1, <2>2, <2>3, <2>4, <2>5 DEF IInv
  <1>2. CASE Close
    <2>1. TypeOK'
      <3>1. /\ DOMAIN pc' = DOMAIN pc
            /\ \A c \in DOMAIN pc : pc'[c] = IF c = readReady /\ pc[c] = "waiting"
                                           THEN "closed" ELSE pc[c]
        BY <1>2 DEF Close, FailPending
      <3>2. \A c \in Writes : pc'[c] = pc[c]
        BY <3>1 DEF IInv, TypeOK
      <3>3. \A c \in Reads : pc'[c] \in {"closed", pc[c]}
        BY <3>1 DEF IInv, TypeOK
      <3> QED
        BY <1>2, <3>1, <3>2, <3>3 DEF IInv, TypeOK, Close, locks
    <2>2. ReadLockHeld'
      BY <1>2 DEF IInv, TypeOK, ReadLockHeld, Close, FailPending, locks
    <2>3. OneDescriptor'
      BY <1>2 DEF IInv, TypeOK, OneDescriptor, Close
    <2>4. WatchOwned'
      BY <1>2 DEF IInv, TypeOK, WatchOwned, Close
    <2>5. WaitsWatched' /\ NoForeignRead'
      BY <1>2 DEF IInv, TypeOK, WaitsWatched, NoForeignRead, Close, FailPending
    <2> QED
      BY <2>1, <2>2, <2>3, <2>4, <2>5 DEF IInv
  <1>3. CASE Unplug
    BY <1>3 DEF IInv, TypeOK, ReadLockHeld, OneDescriptor, WatchOwned, WaitsWatched,
                NoForeignRead, Unplug, self, locks, calls
  <1>4. CASE Plug
    BY <1>4 DEF IInv, TypeOK, ReadLockHeld, OneDescriptor, WatchOwned, WaitsWatched,
                NoForeignRead, Plug, self, locks, calls
  <1>5. ASSUME NEW fd \in Fds, Foreign(fd) PROVE IInv'
    BY <1>5 DEF IInv, TypeOK, ReadLockHeld, OneDescriptor, WatchOwned, WaitsWatched,
                NoForeignRead, Foreign, self, locks, calls
  <1>6. ASSUME NEW fd \in Fds, Readable(fd) PROVE IInv'
    BY <1>6 DEF IInv, TypeOK, ReadLockHeld, OneDescriptor, WatchOwned, WaitsWatched,
                NoForeignRead, Readable, self, locks, os
  <1>7. ASSUME NEW c \in Reads, ReadStarts(c),
               UNCHANGED <<reader, port, writeLock, table, device>>
        PROVE  IInv'
    <2>1. readReady = None /\ watch = [fd \in Fds |-> None]
      BY <1>7, Unwatched DEF ReadStarts
    <2>2. CASE reader = None
      BY <1>7, <2>1, <2>2, ReadKeepsInv DEF ReadStarts
    <2>3. CASE reader # None
      BY <1>7, <2>1, <2>3, ReadKeepsInv DEF ReadStarts, IInv, TypeOK
    <2> QED
      BY <2>2, <2>3
  <1>8. ASSUME NEW c \in Reads, CallRead(c) PROVE IInv'
    <2>1. CASE ReadStarts(c)
      BY <1>7, <1>8, <2>1 DEF CallRead
    <2>2. CASE /\ pc' = [pc EXCEPT ![c] = "locking"]
               /\ UNCHANGED <<readReady, readLock, watch, local, outcome>>
      BY <1>8, <2>2 DEF IInv, TypeOK, ReadLockHeld, OneDescriptor, WatchOwned,
                        WaitsWatched, NoForeignRead, CallRead
    <2> QED
      BY <1>8, <2>1, <2>2 DEF CallRead
  <1>9. ASSUME NEW c \in Reads, ReadGetsLock(c) PROVE IInv'
    BY <1>7, <1>9 DEF ReadGetsLock
  <1>10. ASSUME NEW c \in Reads, Resume(c) PROVE IInv'
    <2>1. readLock = c /\ local[c] \in Fds
      BY <1>10 DEF Resume, IInv, ReadLockHeld
    <2> QED
      BY <1>10, <2>1, FinallyClears, ReadKeepsInv DEF Resume
  <1>11. ASSUME NEW c \in Reads, CancelRead(c) PROVE IInv'
    BY <1>11 DEF IInv, TypeOK, ReadLockHeld, OneDescriptor, WatchOwned, WaitsWatched,
                 NoForeignRead, CancelRead, self, locks, os
  <1>12. ASSUME NEW c \in Writes, \/ CallWrite(c) \/ WriteGetsLock(c)
                                  \/ WriteEnds(c) \/ CancelWrite(c)
         PROVE  IInv'
    <2>1. UNCHANGED <<self, readLock, os>>
      BY <1>12 DEF CallWrite, WriteGetsLock, WriteEnds, CancelWrite
    <2>2. \A r \in Reads : /\ pc'[r] = pc[r] /\ local'[r] = local[r]
                           /\ outcome'[r] = outcome[r]
      BY <1>12 DEF IInv, TypeOK, CallWrite, WriteGetsLock, StartsThread, WriteEnds, CancelWrite
    <2>3. TypeOK'
      BY <1>12, <2>1 DEF IInv, TypeOK, CallWrite, WriteGetsLock, StartsThread, WriteEnds,
                         CancelWrite, self, os
    <2> QED
      BY <2>1, <2>2, <2>3 DEF IInv, ReadLockHeld, OneDescriptor, WatchOwned, WaitsWatched,
                              NoForeignRead, TypeOK, self, os
  <1>13. CASE UNCHANGED vars
    BY <1>13 DEF IInv, TypeOK, ReadLockHeld, OneDescriptor, WatchOwned, WaitsWatched,
                 NoForeignRead, vars, self, locks, os, calls
  <1> QED
    BY <1>1, <1>2, <1>3, <1>4, <1>5, <1>6, <1>8, <1>9, <1>10, <1>11, <1>12, <1>13 DEF Next

-----------------------------------------------------------------------------
(* The invariants of the run hid *)

\* All of them together hold in every reachable state.
THEOREM Invariance == Spec => []IInv
  <1> QED
    BY InitInv, StepInv, PTL DEF Spec

\* Every variable keeps its type, and _port and _reader are set together.
THEOREM TypeCorrect == Spec => []TypeOK
  <1>1. IInv => TypeOK
    BY DEF IInv
  <1> QED
    BY <1>1, Invariance, PTL

\* The read lock is held by the read that is past it, and released at its end.
THEOREM LockHeld == Spec => []ReadLockHeld
  <1>1. IInv => ReadLockHeld
    BY DEF IInv
  <1> QED
    BY <1>1, Invariance, PTL

\* No descriptor of the device is open but _reader.
THEOREM NoLeak == Spec => []OneDescriptor
  <1>1. IInv => OneDescriptor
    BY DEF IInv
  <1> QED
    BY <1>1, Invariance, PTL

\* The event loop watches no descriptor that is not _reader.
THEOREM Watched == Spec => []WatchOwned
  <1>1. IInv => WatchOwned
    BY DEF IInv
  <1> QED
    BY <1>1, Invariance, PTL

\* A read that waits is one that the event loop and close() will wake.
THEOREM Woken == Spec => []WaitsWatched
  <1>1. IInv => WaitsWatched
    BY DEF IInv
  <1> QED
    BY <1>1, Invariance, PTL

\* No read takes bytes from a file that was given a closed descriptor's number.
THEOREM OwnData == Spec => []NoForeignRead
  <1>1. IInv => NoForeignRead
    BY DEF IInv
  <1> QED
    BY <1>1, Invariance, PTL

-----------------------------------------------------------------------------
(* HidrawTransport implements the steps of Transport *)

\* The initial states are initial states of Transport.
LEMMA InitRefines == Init => T!Init
  BY SlotsAssumption DEF Init, T!Init

\* The abstract state is a function of these values.
LEMMA SameAbstractly ==
    ASSUME TypeOK, reader' = reader, reader # None => table'[reader] = table[reader],
           \A c \in Reads : pc'[c] = pc[c] /\ local'[c] = local[c] /\ outcome'[c] = outcome[c]
    PROVE  UNCHANGED T!vars
  BY DEF T!vars

\* A call that ends with o in the code ends in Transport; other calls and the
\* device are as before.
LEMMA EndRefines ==
    ASSUME IInv, NEW c \in Reads, NEW o \in {"data", "closed", "error", "cancelled"},
           NEW w, ReadEnds(c, o, w), UNCHANGED <<reader, table>>,
           o = "data" => reader # None /\ table[reader] = "device",
           o = "closed" => \/ reader = None \/ pc[c] = "closed"
                           \/ pc[c] = "ready" /\ local[c] # reader,
           o = "error" => reader # None /\ table[reader] # "device",
           o = "cancelled" => pc[c] # "idle"
    PROVE  T!Next
  <1> DEFINE a == IF o \in {"closed", "error"} THEN "failed" ELSE o
  <1>1. T!End(c, a)
    BY DEF IInv, TypeOK, ReadEnds, T!End
  <1> QED
    BY <1>1 DEF T!Next

\* A step of the loop of read() ends the call, begins one that waits, or is no
\* step of Transport.
LEMMA ReadFromRefines ==
    ASSUME IInv, NEW c \in Reads, NEW fd \in Fds, NEW w, NEW ready,
           ReadFrom(c, fd, w, ready), UNCHANGED <<reader, table>>,
           \/ pc[c] \in {"idle", "locking"} /\ reader = fd
           \/ pc[c] = "ready" /\ local[c] = fd
    PROVE  [T!Next]_(T!vars)
  <1> USE NamesAssumption
  <1>1. table[fd] # "foreign" \/ reader # fd
    BY DEF IInv, TypeOK, OneDescriptor
  <1>2. CASE \E o \in {"data", "closed", "error"} :
                /\ ReadEnds(c, o, w)
                /\ o = "data" => reader = fd /\ table[fd] = "device"
                /\ o = "closed" => reader # fd
                /\ o = "error" => reader = fd /\ table[fd] # "device"
    BY <1>2, EndRefines
  <1>3. CASE /\ reader = fd
             /\ pc' = [pc EXCEPT ![c] = "waiting"]
             /\ local' = [local EXCEPT ![c] = fd]
             /\ UNCHANGED outcome
    <2>1. CASE pc[c] = "idle"
      <3>1. T!Call(c)
        BY <1>3, <2>1 DEF IInv, TypeOK, T!Call
      <3> QED
        BY <3>1 DEF T!Next
    <2>2. CASE pc[c] # "idle"
      BY <1>3, <2>2 DEF IInv, TypeOK, T!vars
    <2> QED
      BY <2>1, <2>2
  <1> QED
    BY <1>1, <1>2, <1>3 DEF ReadFrom

\* Every step of HidrawTransport is a step of Transport or changes nothing there.
LEMMA StepRefines == IInv /\ [Next]_vars => [T!Next]_(T!vars)
  <1> SUFFICES ASSUME IInv, [Next]_vars PROVE [T!Next]_(T!vars)
    OBVIOUS
  <1> USE SlotsAssumption, NamesAssumption
  <1>1. CASE Open
    <2>1. T!Open
      BY <1>1 DEF IInv, TypeOK, ReadLockHeld, Open, calls, T!Open
    <2> QED
      BY <2>1 DEF T!Next
  <1>2. CASE Close
    <2>1. T!Close
      BY <1>2 DEF IInv, TypeOK, ReadLockHeld, Close, FailPending, T!Close
    <2> QED
      BY <2>1 DEF T!Next
  <1>3. CASE Unplug
    <2>1. CASE reader # None /\ table[reader] = "device"
      <3>1. T!Lose
        BY <1>3, <2>1 DEF IInv, TypeOK, Unplug, self, calls, T!Lose
      <3> QED
        BY <3>1 DEF T!Next
    <2>2. CASE reader = None \/ table[reader] # "device"
      BY <1>3, <2>2, SameAbstractly DEF IInv, TypeOK, Unplug, self, calls
    <2> QED
      BY <2>1, <2>2
  <1>4. CASE Plug
    BY <1>4, SameAbstractly DEF IInv, Plug, self, calls
  <1>5. ASSUME NEW fd \in Fds, Foreign(fd) PROVE [T!Next]_(T!vars)
    <2>1. reader # None => table'[reader] = table[reader]
      BY <1>5 DEF IInv, TypeOK, OneDescriptor, Foreign, self
    <2> QED
      BY <1>5, <2>1, SameAbstractly DEF IInv, Foreign, self, calls
  <1>6. ASSUME NEW fd \in Fds, Readable(fd) PROVE [T!Next]_(T!vars)
    <2>1. \A c \in Reads : pc[c] = "waiting" => local[c] = reader
      BY DEF IInv, WaitsWatched
    <2>2. UNCHANGED T!vars
      BY <1>6, <2>1 DEF IInv, TypeOK, Readable, self, os, T!vars
    <2> QED
      BY <2>2
  <1>7. ASSUME NEW c \in Reads, ReadStarts(c), pc[c] \in {"idle", "locking"},
               UNCHANGED <<reader, table>>
        PROVE  [T!Next]_(T!vars)
    <2>1. CASE reader = None
      BY <1>7, <2>1, EndRefines DEF ReadStarts
    <2>2. CASE reader # None
      BY <1>7, <2>2, ReadFromRefines DEF ReadStarts, IInv, TypeOK
    <2> QED
      BY <2>1, <2>2
  <1>8. ASSUME NEW c \in Reads, CallRead(c) PROVE [T!Next]_(T!vars)
    <2>1. CASE ReadStarts(c)
      BY <1>7, <1>8, <2>1 DEF CallRead
    <2>2. CASE pc' = [pc EXCEPT ![c] = "locking"] /\ UNCHANGED <<local, outcome>>
      <3>1. T!Call(c)
        BY <1>8, <2>2 DEF IInv, TypeOK, CallRead, T!Call
      <3> QED
        BY <3>1 DEF T!Next
    <2> QED
      BY <1>8, <2>1, <2>2 DEF CallRead
  <1>9. ASSUME NEW c \in Reads, ReadGetsLock(c) PROVE [T!Next]_(T!vars)
    BY <1>7, <1>9 DEF ReadGetsLock
  <1>10. ASSUME NEW c \in Reads, Resume(c) PROVE [T!Next]_(T!vars)
    <2>1. CASE pc[c] = "ready"
      <3>1. local[c] \in Fds
        BY <2>1 DEF IInv, ReadLockHeld
      <3> QED
        BY <1>10, <2>1, <3>1, ReadFromRefines DEF Resume
    <2>2. CASE pc[c] \in {"closed", "cancelled"}
      BY <1>10, <2>2, EndRefines DEF Resume
    <2> QED
      BY <1>10, <2>1, <2>2 DEF Resume
  <1>11. ASSUME NEW c \in Reads, CancelRead(c) PROVE [T!Next]_(T!vars)
    <2>1. CASE pc[c] = "locking"
      <3>1. /\ pc' = [pc EXCEPT ![c] = "idle"] /\ local' = local
            /\ outcome' = [outcome EXCEPT ![c] = "cancelled"]
            /\ UNCHANGED <<reader, table>>
        BY <1>11, <2>1 DEF CancelRead, self, os
      <3>2. T!End(c, "cancelled")
        BY <2>1, <3>1 DEF IInv, TypeOK, T!End
      <3> QED
        BY <3>2 DEF T!Next
    <2>2. CASE \/ pc[c] = "closed"
               \/ pc[c] = "ready" /\ local[c] # reader
      <3>1. T!Cancel(c)
        BY <1>11, <2>2 DEF IInv, TypeOK, CancelRead, self, os, T!Cancel
      <3> QED
        BY <3>1 DEF T!Next
    <2>3. CASE \/ pc[c] = "waiting"
               \/ pc[c] = "ready" /\ local[c] = reader
      BY <1>11, <2>3 DEF IInv, TypeOK, CancelRead, self, os, T!vars
    <2> QED
      BY <1>11, <2>1, <2>2, <2>3 DEF CancelRead
  <1>12. ASSUME NEW c \in Writes, \/ CallWrite(c) \/ WriteGetsLock(c)
                                  \/ WriteEnds(c) \/ CancelWrite(c)
         PROVE  [T!Next]_(T!vars)
    <2>1. UNCHANGED <<self, os>>
      BY <1>12 DEF CallWrite, WriteGetsLock, WriteEnds, CancelWrite
    <2>2. \A r \in Reads : /\ pc'[r] = pc[r] /\ local'[r] = local[r]
                           /\ outcome'[r] = outcome[r]
      BY <1>12 DEF IInv, TypeOK, CallWrite, WriteGetsLock, StartsThread, WriteEnds, CancelWrite
    <2> QED
      BY <2>1, <2>2, SameAbstractly DEF IInv, self, os
  <1>13. CASE UNCHANGED vars
    BY <1>13, SameAbstractly DEF IInv, vars, self, os, calls
  <1> QED
    BY <1>1, <1>2, <1>3, <1>4, <1>5, <1>6, <1>8, <1>9, <1>10, <1>11, <1>12, <1>13 DEF Next

\* Reads of HidrawTransport end only as Transport allows: with data while the
\* device is live, and with a failure only for a reason.
THEOREM Refinement == Spec => T!Init /\ [][T!Next]_(T!vars)
  <1> QED
    BY InitRefines, StepRefines, Invariance, PTL DEF Spec
=============================================================================

-------------------------- MODULE ConnectionProofs --------------------------
(***************************************************************************)
(* Theorems about Connection, for every number of task slots and every     *)
(* environment.                                                            *)
(***************************************************************************)
EXTENDS Connection, TLAPS

-----------------------------------------------------------------------------
(* Where the tasks wait *)

\* Sending one task of a pool to a place of that pool keeps WellPlaced.
LEMMA PlaceReader ==
    ASSUME NEW p, WellPlaced(p), NEW r \in Readers, NEW at \in ReaderPCs
    PROVE  WellPlaced([p EXCEPT ![r] = at])
BY PoolsAssumption DEF WellPlaced, Task, ReaderPCs, KeepalivePCs, InitPCs, LoopPCs,
                       StarterPCs, InConnect

LEMMA PlaceKeepalive ==
    ASSUME NEW p, WellPlaced(p), NEW k \in Keepalives, NEW at \in KeepalivePCs
    PROVE  WellPlaced([p EXCEPT ![k] = at])
BY PoolsAssumption DEF WellPlaced, Task, ReaderPCs, KeepalivePCs, InitPCs, LoopPCs,
                       StarterPCs, InConnect

LEMMA PlaceInit ==
    ASSUME NEW p, WellPlaced(p), NEW i \in Inits, NEW at \in InitPCs
    PROVE  WellPlaced([p EXCEPT ![i] = at])
BY PoolsAssumption DEF WellPlaced, Task, ReaderPCs, KeepalivePCs, InitPCs, LoopPCs,
                       StarterPCs, InConnect

LEMMA PlaceLoop ==
    ASSUME NEW p, WellPlaced(p), NEW l \in Loops, NEW at \in LoopPCs
    PROVE  WellPlaced([p EXCEPT ![l] = at])
BY PoolsAssumption DEF WellPlaced, Task, ReaderPCs, KeepalivePCs, InitPCs, LoopPCs,
                       StarterPCs, InConnect

LEMMA PlaceStarter ==
    ASSUME NEW p, WellPlaced(p), NEW at \in StarterPCs
    PROVE  WellPlaced([p EXCEPT ![Starter] = at])
BY PoolsAssumption DEF WellPlaced, Task, ReaderPCs, KeepalivePCs, InitPCs, LoopPCs,
                       StarterPCs, InConnect

\* So does ending any task, and waking the readers.
LEMMA PlaceDone ==
    ASSUME NEW p, WellPlaced(p), NEW t \in Task
    PROVE  WellPlaced([p EXCEPT ![t] = "done"])
BY PoolsAssumption DEF WellPlaced, Task, ReaderPCs, KeepalivePCs, InitPCs, LoopPCs,
                       StarterPCs, InConnect

LEMMA PlaceWoken ==
    ASSUME NEW p, WellPlaced(p)
    PROVE  WellPlaced(Woken(p))
BY PoolsAssumption DEF WellPlaced, Woken, Task, ReaderPCs, KeepalivePCs, InitPCs,
                       LoopPCs, StarterPCs, InConnect

\* What _schedule_reconnect leaves of the types, whoever calls it.
LEMMA ScheduleReconnectType ==
    ASSUME TypeOK, NEW r \in BOOLEAN, NEW c \in BOOLEAN, NEW p, WellPlaced(p),
           ScheduleReconnect(r, c, p)
    PROVE  /\ running' \in BOOLEAN /\ connected' \in BOOLEAN
           /\ reconnectTask' \in Loops \cup {NoTask}
           /\ WellPlaced(pc')
<1>1. CASE r /\ autoReconnect /\ (reconnectTask = NoTask \/ p[reconnectTask] = "done")
      <2>1. PICK l \in Loops : reconnectTask' = l /\ pc' = [p EXCEPT ![l] = "created"]
            BY <1>1 DEF ScheduleReconnect, NoLoop
      <2>2. WellPlaced(pc')
            BY <2>1, PlaceLoop DEF LoopPCs
      <2> QED
            BY <2>1, <2>2 DEF ScheduleReconnect, NoLoop, TypeOK
<1>2. CASE ~(r /\ autoReconnect /\ (reconnectTask = NoTask \/ p[reconnectTask] = "done"))
      BY <1>2 DEF ScheduleReconnect, NoLoop, TypeOK
<1> QED BY <1>1, <1>2

\* What entering _connect leaves of the types.
LEMMA OpenType ==
    ASSUME TypeOK, NEW c \in Loops \cup {Starter}, OpenAndCreateTasks(c),
           running' \in BOOLEAN, app' \in {"idle", "using", "closing"}
    PROVE  TypeOK'
<1>1. PICK r \in Readers, k \in Keepalives :
         /\ readerTask' = r /\ keepaliveTask' = k
         /\ pc' = [pc EXCEPT ![c] = "initialising", ![r] = "reading", ![k] = "sleeping"]
      BY DEF OpenAndCreateTasks
<1>2. WellPlaced([pc EXCEPT ![c] = "initialising"])
      BY PlaceLoop, PlaceStarter DEF TypeOK, LoopPCs, StarterPCs, InConnect
<1>3. WellPlaced([pc EXCEPT ![c] = "initialising", ![r] = "reading"])
      BY <1>2, PlaceReader DEF ReaderPCs
<1>4. WellPlaced(pc')
      BY <1>1, <1>3, PlaceKeepalive DEF KeepalivePCs
<1>5. UNCHANGED <<autoReconnect, initTask, reconnectTask, cancelled, awaited, plugged,
                  announced>>
      BY DEF OpenAndCreateTasks
<1>6. /\ transport' \in {"closed", "live", "dead"} /\ port' \in BOOLEAN
      /\ connected' \in BOOLEAN /\ lock' = c
      BY DEF OpenAndCreateTasks, TypeOK
<1> QED BY <1>1, <1>4, <1>5, <1>6 DEF TypeOK

LEMMA MovesType ==
    ASSUME TypeOK, NEW t, NEW at, Moves(t, at), WellPlaced([pc EXCEPT ![t] = at])
    PROVE  TypeOK'
BY DEF TypeOK, Moves, client, pointers, usb

-----------------------------------------------------------------------------
(* Type correctness *)

LEMMA Typing == TypeOK /\ [Next]_vars => TypeOK'
<1> SUFFICES ASSUME TypeOK, [Next]_vars PROVE TypeOK'
    OBVIOUS
<1> USE DEF client, pointers, usb, CloseTransport, Announce
<1>0. WellPlaced(pc)
      BY DEF TypeOK
<1>1. CASE StartConnects
      BY <1>1, OpenType DEF StartConnects
<1>2. CASE StartFindsNoDevice
      <2>1. /\ running' \in BOOLEAN /\ connected' \in BOOLEAN
            /\ reconnectTask' \in Loops \cup {NoTask} /\ WellPlaced(pc')
            BY <1>0, <1>2, ScheduleReconnectType DEF StartFindsNoDevice, TypeOK
      <2> QED
            BY <1>2, <2>1 DEF StartFindsNoDevice, TypeOK
<1>3. CASE StartCancelled
      <2>1. WellPlaced(pc')
            BY <1>0, <1>3, PlaceStarter DEF StartCancelled, StarterPCs
      <2> QED
            BY <1>3, <2>1 DEF StartCancelled, TypeOK
<1>4. CASE Close
      <2>1. Pointed \subseteq Task
            BY DEF Pointed, Live
      <2>2. cancelled' \subseteq Task /\ awaited' \subseteq Task
            BY <1>4, <2>1 DEF Close, TypeOK
      <2>3. app' \in {"idle", "using", "closing"} /\ running' \in BOOLEAN
            BY <1>4 DEF Close
      <2>4. UNCHANGED <<connected, autoReconnect, lock, pointers, pc, usb, announced>>
            BY <1>4 DEF Close
      <2> QED
            BY <2>2, <2>3, <2>4 DEF TypeOK
<1>5. CASE CloseReturns
      <2>1. WellPlaced(pc')
            BY <1>0, <1>5, PlaceWoken DEF CloseReturns
      <2> QED
            BY <1>5, <2>1 DEF CloseReturns, TypeOK
<1>6. CASE StartInitialisationFails
      <2>1. WellPlaced([Woken(pc) EXCEPT ![Starter] = "done"])
            BY <1>0, PlaceWoken, PlaceStarter DEF StarterPCs
      <2>2. /\ running' \in BOOLEAN /\ connected' \in BOOLEAN
            /\ reconnectTask' \in Loops \cup {NoTask} /\ WellPlaced(pc')
            BY <1>6, <2>1, ScheduleReconnectType DEF StartInitialisationFails, TypeOK
      <2> QED
            BY <1>6, <2>2 DEF StartInitialisationFails, TypeOK
<1>7. ASSUME NEW c \in Loops \cup {Starter}, InitialisationEnds(c) PROVE TypeOK'
      <2>1. PICK i \in Inits :
               /\ initTask' = i
               /\ \/ pc' = [pc EXCEPT ![i] = "diagnosing", ![c] = "announcing"]
                  \/ pc' = [pc EXCEPT ![i] = "diagnosing", ![c] = "done"]
               /\ lock' \in {lock, NoTask}
            BY <1>7 DEF InitialisationEnds
      <2>2. WellPlaced([pc EXCEPT ![i] = "diagnosing"])
            BY <1>0, PlaceInit DEF InitPCs
      <2>3. WellPlaced([pc EXCEPT ![i] = "diagnosing", ![c] = "announcing"])
            BY <2>2, PlaceLoop, PlaceStarter DEF LoopPCs, StarterPCs, InConnect
      <2>4. WellPlaced([pc EXCEPT ![i] = "diagnosing", ![c] = "done"])
            BY <2>2, PlaceLoop, PlaceStarter DEF LoopPCs, StarterPCs, InConnect
      <2>5. WellPlaced(pc')
            BY <2>1, <2>3, <2>4
      <2> QED
            BY <1>7, <2>1, <2>5 DEF InitialisationEnds, TypeOK
<1>8. ASSUME NEW c \in Loops \cup {Starter}, ListenersReturn(c) PROVE TypeOK'
      <2>1. WellPlaced(pc')
            BY <1>0, <1>8, PlaceLoop, PlaceStarter
            DEF ListenersReturn, LoopPCs, StarterPCs, InConnect
      <2> QED
            BY <1>8, <2>1 DEF ListenersReturn, TypeOK
<1>9. ASSUME NEW l \in Loops, LoopConnects(l) PROVE TypeOK'
      <2>1. CASE OpenAndCreateTasks(l) /\ UNCHANGED <<running, app>>
            BY <2>1, OpenType DEF TypeOK
      <2>2. CASE Moves(l, IF running /\ ~connected THEN "sleeping" ELSE "done")
            BY <1>0, <2>2, MovesType, PlaceLoop DEF LoopPCs
      <2> QED
            BY <1>9, <2>1, <2>2 DEF LoopConnects
<1>10. ASSUME NEW l \in Loops, LoopTearsDown(l) PROVE TypeOK'
      <2>1. WellPlaced(pc')
            BY <1>0, <1>10, PlaceWoken, PlaceLoop DEF LoopTearsDown, LoopPCs
      <2>2. cancelled' \subseteq Task
            BY <1>10 DEF LoopTearsDown, TypeOK, Live
      <2>3. /\ transport' \in {"closed", "live", "dead"} /\ port' \in BOOLEAN
            /\ UNCHANGED <<client, pointers, app, awaited, plugged, announced>>
            BY <1>10 DEF LoopTearsDown
      <2> QED
            BY <2>1, <2>2, <2>3 DEF TypeOK
<1>11. ASSUME NEW l \in Loops, LoopInitialisationFails(l) PROVE TypeOK'
      <2>1. WellPlaced(pc')
            BY <1>0, <1>11, PlaceWoken, PlaceLoop DEF LoopInitialisationFails, LoopPCs
      <2> QED
            BY <1>11, <2>1 DEF LoopInitialisationFails, TypeOK
<1>12. ASSUME NEW l \in Loops, LoopAnnouncesLoss(l) PROVE TypeOK'
      <2>1. WellPlaced(pc')
            BY <1>0, <1>12, PlaceLoop DEF LoopAnnouncesLoss, LoopPCs
      <2> QED
            BY <1>12, <2>1 DEF LoopAnnouncesLoss, TypeOK
<1>13. ASSUME NEW l \in Loops, LoopWaitsForLock(l) PROVE TypeOK'
      BY <1>0, <1>13, MovesType, PlaceLoop DEF LoopWaitsForLock, LoopPCs
<1>14. ASSUME NEW r \in Readers, ReaderGetsReport(r) \/ ReaderReadsOn(r) PROVE TypeOK'
      BY <1>0, <1>14, MovesType, PlaceReader
      DEF ReaderGetsReport, ReaderReadsOn, ReaderPCs
<1>15. ASSUME NEW r \in Readers, ReaderEnds(r) PROVE TypeOK'
      <2>1. /\ running' \in BOOLEAN /\ connected' \in BOOLEAN
            /\ reconnectTask' \in Loops \cup {NoTask} /\ WellPlaced(pc')
            BY <1>0, <1>15, ScheduleReconnectType, PlaceReader
            DEF ReaderEnds, TypeOK, ReaderPCs
      <2> QED
            BY <1>15, <2>1 DEF ReaderEnds, TypeOK
<1>16. ASSUME NEW k \in Keepalives, KeepaliveBeats(k) \/ KeepaliveWritten(k) PROVE TypeOK'
      BY <1>0, <1>16, MovesType, PlaceKeepalive
      DEF KeepaliveBeats, KeepaliveWritten, KeepalivePCs
<1>17. ASSUME NEW k \in Keepalives, KeepaliveFails(k) PROVE TypeOK'
      <2>1. /\ running' \in BOOLEAN /\ connected' \in BOOLEAN
            /\ reconnectTask' \in Loops \cup {NoTask} /\ WellPlaced(pc')
            BY <1>0, <1>17, ScheduleReconnectType, PlaceKeepalive
            DEF KeepaliveFails, TypeOK, KeepalivePCs
      <2> QED
            BY <1>17, <2>1 DEF KeepaliveFails, TypeOK
<1>18. ASSUME NEW i \in Inits, DiagnosticsEnd(i) PROVE TypeOK'
      BY <1>0, <1>18, MovesType, PlaceInit DEF DiagnosticsEnd, InitPCs
<1>19. ASSUME NEW i \in Inits, CancelUnwinds(i) PROVE TypeOK'
      <2>1. WellPlaced(pc')
            BY <1>0, <1>19, PlaceInit DEF CancelUnwinds, InitPCs
      <2> QED
            BY <1>19, <2>1 DEF CancelUnwinds, TypeOK
<1>20. ASSUME NEW t \in Task, CancelDelivered(t) PROVE TypeOK'
      <2>1. WellPlaced(pc')
            BY <1>0, <1>20, PlaceDone DEF CancelDelivered
      <2> QED
            BY <1>20, <2>1 DEF CancelDelivered, TypeOK
<1>21. CASE Unplug \/ Plug
      BY <1>21 DEF Unplug, Plug, TypeOK
<1>22. CASE UNCHANGED vars
      BY <1>22 DEF vars, TypeOK
<1> QED
      BY <1>1, <1>2, <1>3, <1>4, <1>5, <1>6, <1>7, <1>8, <1>9, <1>10, <1>11, <1>12,
         <1>13, <1>14, <1>15, <1>16, <1>17, <1>18, <1>19, <1>20, <1>21, <1>22
      DEF Next, StartStep, ConnectStep, ReaderStep, KeepaliveStep, InitStep, LoopStep,
          LoopWakes, LoopGetsLock, ReaderFails, ReaderGetsBadReport, Task

\* Every variable keeps its type; in particular a task is only ever sent to a
\* place its own coroutine has, and _reader_task and the other attributes only
\* ever hold a task of their kind or None.
THEOREM TypeCorrect == Spec => []TypeOK
<1>1. Init => TypeOK
      BY DEF Init, TypeOK, WellPlaced, ReaderPCs, KeepalivePCs, InitPCs, LoopPCs,
             StarterPCs, Task
<1>2. TypeOK /\ [Next]_vars => TypeOK'
      BY Typing
<1> QED BY <1>1, <1>2, PTL DEF Spec

-----------------------------------------------------------------------------
(* Safety *)

\* The inductive invariant: what the client promises, and why it can.
IInv ==
    /\ TypeOK
    /\ LifecycleInv
    /\ OneReconnectLoop
    /\ ConnectedMeansOpen
    /\ ConnectedMeansServed
    /\ ClosedIsQuiet

\* A reader or a keepalive that ends with an exception keeps the invariant:
\* if it served the connection, _connected falls with it, and if it was left
\* over from an earlier one, at worst one reconnect loop is created.
LEMMA FailureKeepsInv ==
    ASSUME IInv, TypeOK', NEW t \in Readers \cup Keepalives, pc[t] # "done",
           t \notin cancelled,
           ScheduleReconnect(running, connected, [pc EXCEPT ![t] = "done"]),
           UNCHANGED <<autoReconnect, lock, readerTask, keepaliveTask, initTask,
                       cancelled, app, awaited, usb, announced>>
    PROVE  IInv'
<1> USE PoolsAssumption DEF IInv, TypeOK, WellPlaced, Live, Task, usb
<1>1. t \notin Loops \cup {Starter}
      OBVIOUS
<1>2. PICK l \in Loops \cup {t} :
         /\ pc' = [[pc EXCEPT ![t] = "done"] EXCEPT
                        ![l] = IF l = t THEN "done" ELSE "created"]
         /\ l # t => /\ pc[l] = "done" /\ reconnectTask' = l /\ running /\ autoReconnect
                     /\ reconnectTask = NoTask \/ pc[reconnectTask] = "done"
         /\ l = t => UNCHANGED reconnectTask
      <2>1. CASE /\ running /\ autoReconnect
                 /\ reconnectTask = NoTask \/ [pc EXCEPT ![t] = "done"][reconnectTask] = "done"
            BY <1>1, <2>1 DEF ScheduleReconnect, NoLoop, Free
      <2>2. CASE ~ /\ running /\ autoReconnect
                   /\ reconnectTask = NoTask \/ [pc EXCEPT ![t] = "done"][reconnectTask] = "done"
            BY <1>1, <2>2 DEF ScheduleReconnect, NoLoop
      <2> QED BY <2>1, <2>2
<1>3. /\ connected' = (connected /\ ~running)
      /\ running' = (running /\ autoReconnect)
      BY DEF ScheduleReconnect, NoLoop
<1>4. \A x \in Loops : pc[x] # "done" => x = reconnectTask
      BY DEF OneReconnectLoop
<1>5. LockInv'
      BY <1>1, <1>2, <1>3 DEF LifecycleInv, LockInv, InConnect
<1>6. CancelInv'
      <2>1. ASSUME NEW x \in cancelled PROVE x \in Task /\ x # Starter /\ pc'[x] # "done"
            BY <1>1, <1>2 DEF LifecycleInv, CancelInv
      <2>2. \A x \in Loops : x \in cancelled => app = "closing"
            BY DEF LifecycleInv, CancelInv
      <2> QED BY <2>1, <2>2 DEF CancelInv
<1>7. RunningInv'
      BY <1>1, <1>2, <1>3, <1>4 DEF LifecycleInv, RunningInv, OneReconnectLoop
<1>8. ClosingInv'
      BY <1>1, <1>2, <1>3 DEF LifecycleInv, ClosingInv, RunningInv
<1>9. LoopInv'
      BY <1>1, <1>2, <1>3 DEF LifecycleInv, LoopInv
<1>10. OneReconnectLoop'
      BY <1>1, <1>2, <1>4 DEF OneReconnectLoop
<1>11. ConnectedMeansOpen' /\ ConnectedMeansServed'
      BY <1>3 DEF ConnectedMeansOpen, ConnectedMeansServed
<1>12. ClosedIsQuiet'
      BY <1>1, <1>2, <1>3 DEF ClosedIsQuiet
<1> QED BY <1>5, <1>6, <1>7, <1>8, <1>9, <1>10, <1>11, <1>12 DEF LifecycleInv

LEMMA Inductive == IInv /\ [Next]_vars => IInv'
<1> SUFFICES ASSUME IInv, [Next]_vars PROVE IInv'
    OBVIOUS
<1>0. TypeOK'
      BY Typing DEF IInv
<1> USE <1>0, PoolsAssumption
    DEF IInv, TypeOK, WellPlaced, LifecycleInv, LockInv, CancelInv, RunningInv, ClosingInv,
        LoopInv, OneReconnectLoop, ConnectedMeansOpen, ConnectedMeansServed, ClosedIsQuiet,
        client, pointers, usb, Live, Task, At, Free, Moves, NoLoop, CloseTransport, Announce,
        InConnect, ReaderPCs, KeepalivePCs, InitPCs, LoopPCs, StarterPCs
<1>1. CASE StartConnects
      BY <1>1 DEF StartConnects, OpenAndCreateTasks
<1>2. CASE StartFindsNoDevice
      BY <1>2 DEF StartFindsNoDevice, ScheduleReconnect
<1>3. CASE StartCancelled
      BY <1>3 DEF StartCancelled
<1>4. CASE Close
      BY <1>4 DEF Close, Pointed
<1>5. CASE CloseReturns
      BY <1>5 DEF CloseReturns, Woken
<1>6. CASE StartInitialisationFails
      BY <1>6 DEF StartInitialisationFails, ScheduleReconnect, Woken
<1>7. ASSUME NEW c \in Loops \cup {Starter}, InitialisationEnds(c) PROVE IInv'
      BY <1>7 DEF InitialisationEnds
<1>8. ASSUME NEW c \in Loops \cup {Starter}, ListenersReturn(c) PROVE IInv'
      BY <1>8 DEF ListenersReturn
<1>9. ASSUME NEW l \in Loops, LoopConnects(l), lock = NoTask, l \notin cancelled,
             pc[l] \in {"sleeping", "locking"}
      PROVE  IInv'
      <2>1. CASE OpenAndCreateTasks(l) /\ running /\ ~connected /\ UNCHANGED <<running, app>>
            BY <1>9, <2>1 DEF OpenAndCreateTasks
      <2>2. CASE Moves(l, IF running /\ ~connected THEN "sleeping" ELSE "done")
            BY <1>9, <2>2
      <2> QED
            BY <1>9, <2>1, <2>2 DEF LoopConnects
<1>10. ASSUME NEW l \in Loops, LoopTearsDown(l) PROVE IInv'
      BY <1>10 DEF LoopTearsDown, Woken
<1>11. ASSUME NEW l \in Loops, LoopInitialisationFails(l) PROVE IInv'
      BY <1>11 DEF LoopInitialisationFails, Woken
<1>12. ASSUME NEW l \in Loops, LoopAnnouncesLoss(l) PROVE IInv'
      BY <1>12 DEF LoopAnnouncesLoss
<1>13. ASSUME NEW l \in Loops, LoopWaitsForLock(l) PROVE IInv'
      BY <1>13 DEF LoopWaitsForLock
<1>14. ASSUME NEW r \in Readers, ReaderGetsReport(r) PROVE IInv'
      BY <1>14 DEF ReaderGetsReport
<1>15. ASSUME NEW r \in Readers, ReaderReadsOn(r) PROVE IInv'
      BY <1>15 DEF ReaderReadsOn
<1>16. ASSUME NEW r \in Readers, ReaderFails(r) \/ ReaderGetsBadReport(r) PROVE IInv'
      BY <1>16, FailureKeepsInv DEF ReaderFails, ReaderGetsBadReport, ReaderEnds
<1>17. ASSUME NEW k \in Keepalives, KeepaliveBeats(k) PROVE IInv'
      BY <1>17 DEF KeepaliveBeats
<1>18. ASSUME NEW k \in Keepalives, KeepaliveWritten(k) PROVE IInv'
      BY <1>18 DEF KeepaliveWritten
<1>19. ASSUME NEW k \in Keepalives, KeepaliveFails(k) PROVE IInv'
      BY <1>19, FailureKeepsInv DEF KeepaliveFails
<1>20. ASSUME NEW i \in Inits, DiagnosticsEnd(i) PROVE IInv'
      BY <1>20 DEF DiagnosticsEnd
<1>21. ASSUME NEW i \in Inits, CancelUnwinds(i) PROVE IInv'
      BY <1>21 DEF CancelUnwinds
<1>22. ASSUME NEW t \in Task, CancelDelivered(t) PROVE IInv'
      BY <1>22 DEF CancelDelivered
<1>23. CASE Unplug
      BY <1>23 DEF Unplug
<1>24. CASE Plug
      BY <1>24 DEF Plug
<1>25. CASE UNCHANGED vars
      BY <1>25 DEF vars
<1>26. ASSUME NEW l \in Loops, LoopWakes(l) \/ LoopGetsLock(l) PROVE IInv'
      BY <1>9, <1>26 DEF LoopWakes, LoopGetsLock
<1> HIDE DEF IInv, TypeOK, WellPlaced
<1> QED
      BY <1>1, <1>2, <1>3, <1>4, <1>5, <1>6, <1>7, <1>8, <1>10, <1>11, <1>12, <1>13,
         <1>14, <1>15, <1>16, <1>17, <1>18, <1>19, <1>20, <1>21, <1>22, <1>23, <1>24,
         <1>25, <1>26
      DEF Next, StartStep, ConnectStep, ReaderStep, KeepaliveStep, InitStep, LoopStep

\* The client's whole state stays within the inductive invariant.
THEOREM Invariance == Spec => []IInv
<1>1. Init => IInv
      BY PoolsAssumption
      DEF Init, IInv, TypeOK, WellPlaced, LifecycleInv, LockInv, CancelInv, RunningInv,
          ClosingInv, LoopInv, OneReconnectLoop, ConnectedMeansOpen,
          ConnectedMeansServed, ClosedIsQuiet, Task, InConnect,
          ReaderPCs, KeepalivePCs, InitPCs, LoopPCs, StarterPCs
<1> QED BY <1>1, Inductive, PTL DEF Spec

\* The reasons hold in every reachable state: who holds the lock, what close()
\* waits for, what a reconnect loop finds when its delay is over.
THEOREM Lifecycle == Spec => []LifecycleInv
<1>1. IInv => LifecycleInv
      BY DEF IInv
<1> QED BY <1>1, Invariance, PTL

\* connected implies an open transport, whatever fails, is cancelled or is
\* left over from an earlier connection.
THEOREM ConnectedOpen == Spec => []ConnectedMeansOpen
<1>1. IInv => ConnectedMeansOpen
      BY DEF IInv
<1> QED BY <1>1, Invariance, PTL

\* While running and connected, the reader and the keepalive run and nobody
\* has cancelled them.
THEOREM ConnectedServed == Spec => []ConnectedMeansServed
<1>1. IInv => ConnectedMeansServed
      BY DEF IInv
<1> QED BY <1>1, Invariance, PTL

\* At most one reconnect loop runs, and close() knows it.
THEOREM SingleLoop == Spec => []OneReconnectLoop
<1>1. IInv => OneReconnectLoop
      BY DEF IInv
<1> QED BY <1>1, Invariance, PTL

\* After close() nothing opens the transport again until start().
THEOREM ClosedStaysQuiet == Spec => []ClosedIsQuiet
<1>1. IInv => ClosedIsQuiet
      BY DEF IInv
<1> QED BY <1>1, Invariance, PTL

\* With auto_reconnect, _connected becomes true only together with a new
\* descriptor: start() and the reconnect loop both find the transport closed.
THEOREM FreshConnection == Spec => FreshDescriptor
<1> DEFINE Fresh == autoReconnect /\ ~connected /\ connected' => transport = "closed"
<1>1. ASSUME IInv, [Next]_vars PROVE [Fresh]_vars
      <2> SUFFICES ASSUME autoReconnect, ~connected, connected' PROVE transport = "closed"
          OBVIOUS
      <2>1. CASE StartConnects
            BY <1>1, <2>1 DEF StartConnects, IInv, TypeOK, LifecycleInv, RunningInv,
                              ClosedIsQuiet
      <2>2. ASSUME NEW l \in Loops, LoopWakes(l) \/ LoopGetsLock(l)
            PROVE  transport = "closed"
            BY <1>1, <2>2 DEF LoopWakes, LoopGetsLock, At, IInv, LifecycleInv, LoopInv
      <2>3. CASE UNCHANGED vars
            BY <2>3 DEF vars, client
      <2>4. CASE /\ Next /\ ~StartConnects
                 /\ ~\E l \in Loops : LoopWakes(l) \/ LoopGetsLock(l)
            BY <2>4 DEF Next, StartStep, ConnectStep, ReaderStep, KeepaliveStep, InitStep,
               LoopStep, StartFindsNoDevice, StartCancelled, Close, CloseReturns,
               StartInitialisationFails, InitialisationEnds, ListenersReturn,
               LoopTearsDown, LoopInitialisationFails, LoopAnnouncesLoss,
               LoopWaitsForLock, ReaderGetsReport, ReaderReadsOn, ReaderFails,
               ReaderGetsBadReport, ReaderEnds, KeepaliveBeats, KeepaliveWritten,
               KeepaliveFails, DiagnosticsEnd, CancelUnwinds, CancelDelivered, Unplug,
               Plug, ScheduleReconnect, Moves, client
      <2> QED BY <1>1, <2>1, <2>2, <2>3, <2>4
<1>2. QED BY <1>1, Invariance, PTL DEF Spec, FreshDescriptor
=============================================================================

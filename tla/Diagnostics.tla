----------------------------- MODULE Diagnostics -----------------------------
(***************************************************************************)
(* JablotronClient.refresh_diagnostics on top of the state model: passes   *)
(* that turn the diagnostics of one device after another on, ask, wait for *)
(* the 0x90 answer the reader handles, and turn them off again.  A pass may*)
(* be cancelled or fail at any await; the connection may go and come.      *)
(***************************************************************************)
EXTENDS StateModel, FiniteSets

CONSTANTS
  Pass,             \* initial passes and those the application asks for
  DiagnosticTypes,  \* device types with diagnostics
  MaxAbandoned      \* bound on the numbers given up at a time

ASSUME PassAssumption == Pass # {} /\ DiagnosticTypes \subseteq STRING

VARIABLES
  connected,  \* _connected
  reading,    \* a reader task of the connection runs
  at,         \* at[p]: where pass p awaits
  left,       \* left[p]: numbers pass p has not finished, the current one first
  ending,     \* passes that end once their device is off: cancelled
  answered,   \* numbers whose event is set
  on,         \* numbers whose diagnostics the panel has on
  abandoned   \* numbers a pass gave up without turning them off

passVars == <<connected, reading, at, left, ending, answered, on, abandoned>>
vars == <<dataVars, passVars>>

InitDiagnostics ==
  /\ Init
  /\ connected = TRUE
  /\ reading = TRUE
  /\ at = [p \in Pass |-> "idle"]
  /\ left = [p \in Pass |-> << >>]
  /\ ending = {}
  /\ answered = {}
  /\ on = {}
  /\ abandoned = {}

-----------------------------------------------------------------------------
(* The reader's part *)

\* The numbers passes are busy with.
Asking == {left[p][1] : p \in {q \in Pass : at[q] \in {"ask", "wait", "off"}}}

\* Any 0x90 packet sets the event of its number.  An event nobody is busy with
\* is cleared before its next use and not kept here.
ReceivePacket ==
  /\ reading
  /\ \E p \in Packet :
       /\ Receive(p)
       /\ answered' = IF p.type = "info" THEN answered \cup ({p.number} \cap Asking)
                      ELSE answered
  /\ UNCHANGED <<connected, reading, at, left, ending, on, abandoned>>

ReceiveUnreadable ==
  /\ reading /\ todo = << >> /\ handled < MaxPackets
  /\ \E p \in Packet : Unreadable(p)
  /\ handled' = handled + 1
  /\ connected' = FALSE
  /\ reading' = FALSE
  /\ UNCHANGED <<cache, told, todo, untold, at, left, ending, answered, on, abandoned>>

HandleOn == (TellListener \/ StoreActive) /\ UNCHANGED passVars

\* _schedule_reconnect: a loss is reported by the keepalive or the reader.  The
\* listeners hear of it before anybody stops a reader that is still there.
Lose ==
  /\ connected
  /\ connected' = FALSE
  /\ UNCHANGED <<dataVars, reading, at, left, ending, answered, on, abandoned>>

\* _reconnect_loop or close() cancels the reader, or its read has failed.
StopReader ==
  /\ ~connected /\ reading
  /\ reading' = FALSE
  /\ CancelReader
  /\ UNCHANGED <<connected, at, left, ending, answered, on, abandoned>>

Reconnect ==
  /\ ~connected /\ ~reading
  /\ connected' = TRUE
  /\ reading' = TRUE
  /\ UNCHANGED <<dataVars, at, left, ending, answered, on, abandoned>>

-----------------------------------------------------------------------------
(* The passes *)

\* The panel, its modules and the devices with diagnostics, each once.
Numbers ==
  LET others == <<0>> \o ModuleNumbers
      capable == {n \in DOMAIN Definitions : Definitions[n] \in DiagnosticTypes}
      listed == {others[i] : i \in DOMAIN others}
  IN others \o Selected([n \in DOMAIN Definitions |-> n], capable \ listed)

Current(p) == Head(left[p])

Go(p, place, numbers) ==
  /\ at' = [at EXCEPT ![p] = place]
  /\ left' = [left EXCEPT ![p] = numbers]

GiveUp(p) == Go(p, "idle", << >>)

\* On to the next number, or the end of the pass: no await lies between.
Proceed(p, numbers) ==
  IF numbers = << >> \/ ~connected
    THEN GiveUp(p) /\ UNCHANGED answered
    ELSE Go(p, "ask", numbers) /\ answered' = answered \ {Head(numbers)}

\* Without a model the pass waits for the identity first.
Begin(p) ==
  /\ at[p] = "idle"
  /\ IF Model = None THEN Go(p, "identify", << >>) /\ UNCHANGED answered
     ELSE Proceed(p, Numbers)
  /\ UNCHANGED <<dataVars, connected, reading, ending, on, abandoned>>

\* The identity is complete or the wait timed out: the numbers are fixed now.
Identified(p) ==
  /\ at[p] = "identify"
  /\ Proceed(p, Numbers)
  /\ UNCHANGED <<dataVars, connected, reading, ending, on, abandoned>>

\* "on" and the question leave in one report, and the pass waits.
Asked(p) ==
  /\ at[p] = "ask"
  /\ on' = on \cup {Current(p)}
  /\ Go(p, "wait", left[p])
  /\ UNCHANGED <<dataVars, connected, reading, ending, answered, abandoned>>

\* The write fails, or the pass is cancelled before or after it: the pass ends
\* and nothing turns the number off.
AskGivenUp(p) ==
  /\ at[p] = "ask"
  /\ \/ UNCHANGED <<on, abandoned>>
     \/ /\ on' = on \cup {Current(p)}
        /\ abandoned' = abandoned \cup {Current(p)}
  /\ GiveUp(p)
  /\ UNCHANGED <<dataVars, connected, reading, ending, answered>>

\* Mutant of TurnsOff: a cancelled pass turns nothing off.
TurnsOffUncancelled(cancelled) == connected /\ ~cancelled

\* "finally": off is sent, whatever ended the wait, while connected.
TurnsOff(cancelled) == connected

\* The wait is over.  Without a connection nothing is sent, and the pass ends.
WaitOver(p, cancelled) ==
  /\ at[p] = "wait"
  /\ IF TurnsOff(cancelled)
       THEN /\ Go(p, "off", left[p])
            /\ ending' = IF cancelled THEN ending \cup {p} ELSE ending
            /\ UNCHANGED abandoned
       ELSE /\ GiveUp(p)
            /\ abandoned' = IF connected THEN abandoned ELSE abandoned \cup {Current(p)}
            /\ UNCHANGED ending
  /\ UNCHANGED <<dataVars, connected, reading, answered, on>>

Answered(p) == at[p] = "wait" /\ Current(p) \in answered /\ WaitOver(p, FALSE)

TimedOut(p) == at[p] = "wait" /\ Current(p) \notin answered /\ WaitOver(p, FALSE)

Cancelled(p) == WaitOver(p, TRUE)

\* off is written: on to the next number, unless the pass is cancelled.
TurnedOff(p) ==
  /\ at[p] = "off"
  /\ on' = on \ {Current(p)}
  /\ abandoned' = abandoned \ {Current(p)}
  /\ IF p \in ending THEN GiveUp(p) /\ UNCHANGED answered
     ELSE Proceed(p, Tail(left[p]))
  /\ ending' = ending \ {p}
  /\ UNCHANGED <<dataVars, connected, reading>>

\* The write of off fails or is cancelled.
OffGivenUp(p) ==
  /\ at[p] = "off"
  /\ abandoned' = abandoned \cup {Current(p)}
  /\ GiveUp(p)
  /\ ending' = ending \ {p}
  /\ UNCHANGED <<dataVars, connected, reading, answered, on>>

PassStep(p) ==
  \/ Begin(p) \/ Identified(p) \/ Asked(p) \/ AskGivenUp(p)
  \/ Answered(p) \/ TimedOut(p) \/ Cancelled(p) \/ TurnedOff(p) \/ OffGivenUp(p)

NextDiagnostics ==
  \/ ReceivePacket \/ ReceiveUnreadable \/ HandleOn \/ Lose \/ StopReader \/ Reconnect
  \/ (\E p \in Pass : PassStep(p)) /\ Cardinality(abandoned') <= MaxAbandoned

Spec == InitDiagnostics /\ [][NextDiagnostics]_vars

-----------------------------------------------------------------------------
(* Properties *)

\* Diagnostics are "on" only for the time of a question: a number that is on is
\* being waited for or turned off by some pass, or was given up because the
\* connection or the write failed or the write was cancelled.  A timeout, a
\* late answer or a cancelled wait never leave it on.
OnHasKeeper ==
  \A n \in on \ abandoned :
    \E p \in Pass : at[p] \in {"wait", "off"} /\ Current(p) = n
=============================================================================

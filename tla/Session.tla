------------------------------- MODULE Session -------------------------------
(***************************************************************************)
(* Which user the panel has logged in while JablotronClient writes: the    *)
(* commands of set_section and set_pg_output, the 30-second renewal of the *)
(* keepalive loop and the authorisation at every (re)connection.  One      *)
(* report is written at a time; any waiting writer may be the next, which  *)
(* allows more orders than the transport's first-come lock does.           *)
(***************************************************************************)
EXTENDS Naturals

CONSTANTS
  Caller,      \* tasks of the application that call the client
  Code,        \* authorisation codes
  Own,         \* the code the client was created with
  Known,       \* the codes the panel accepts
  NoUser,      \* nobody is logged in
  RenewAfter,  \* keepalive cycles after which a renewal is due for certain
  MaxFailures, \* bound on failing writes
  Supersedes   \* does an authorisation log in over another user without END?

ASSUME CodeAssumption == Own \in Known /\ Known \subseteq Code /\ NoUser \notin Code
ASSUME BoundAssumption == RenewAfter \in Nat \ {0} /\ MaxFailures \in Nat
ASSUME PanelAssumption == Supersedes \in BOOLEAN

VARIABLES
  user,      \* whom the panel has logged in
  at,        \* at[c]: where call c of set_section or set_pg_output waits
  code,      \* code[c]: the code of the call
  cancelled, \* cancelled[c]: the call is over, its write still under way
  loop,      \* where the keepalive loop, or the reconnection after it, waits
  age,       \* keepalive cycles since the last renewal, up to RenewAfter
  alarm,     \* the client's sections show an alarm or an entry delay
  misrun,    \* the panel carried the last command out as another user than its code's
  stranded,  \* foreign codes left logged in by calls that broke off
  late,      \* renewals written since the present alarm began, up to 2
  failures   \* writes that failed

vars == <<user, at, code, cancelled, loop, age, alarm, misrun, stranded, late, failures>>

Writing == {"authorise", "command", "restore", "refresh", "output"}
Sleeping == {"authorised", "settle"}

Users == Code \cup {NoUser}

TypeOK ==
  /\ user \in Users
  /\ at \in [Caller -> Writing \cup Sleeping \cup {"idle"}]
  /\ code \in [Caller -> Code]
  /\ cancelled \in [Caller -> BOOLEAN]
  /\ loop \in {"sleep", "renew", "lost", "initialise"}
  /\ age \in 0..RenewAfter
  /\ alarm \in BOOLEAN
  /\ misrun \in BOOLEAN
  /\ stranded \subseteq Code
  /\ late \in 0..2
  /\ failures \in 0..MaxFailures

Init ==
  /\ user = NoUser
  /\ at = [c \in Caller |-> "idle"]
  /\ code = [c \in Caller |-> Own]
  /\ cancelled = [c \in Caller |-> FALSE]
  /\ loop = "initialise"
  /\ age = 0
  /\ alarm = FALSE
  /\ misrun = FALSE
  /\ stranded = {}
  /\ late = 0
  /\ failures = 0

-----------------------------------------------------------------------------
(* The panel *)

\* Whom END followed by the authorisation of c leaves logged in.
AfterSwitch(c) == IF c \in Known THEN c ELSE NoUser

\* Whom the authorisation of the own code alone leaves logged in.
AfterRenewal == IF user = NoUser \/ Supersedes THEN Own ELSE user

\* A command is carried out as the user who is logged in, or refused.
Carry(c) ==
  misrun' = IF user = NoUser THEN misrun ELSE user # code[c]

-----------------------------------------------------------------------------
(* set_section and set_pg_output *)

Foreign(c) == code[c] # Own

\* The call waits at w; its code goes with it.
MovesTo(c, w) ==
  /\ at' = [at EXCEPT ![c] = w]
  /\ code' = [code EXCEPT ![c] = IF w = "idle" THEN Own ELSE @]
  /\ cancelled' = [cancelled EXCEPT ![c] = FALSE]

\* set_section is called with code k; another code than the own one is
\* authorised first.
SetSection(c, k) ==
  /\ at[c] = "idle"
  /\ at' = [at EXCEPT ![c] = IF k = Own THEN "command" ELSE "authorise"]
  /\ code' = [code EXCEPT ![c] = k]
  /\ UNCHANGED <<user, cancelled, loop, age, alarm, misrun, stranded, late, failures>>

SetPGOutput(c) ==
  /\ at[c] = "idle"
  /\ MovesTo(c, "output")
  /\ UNCHANGED <<user, loop, age, alarm, misrun, stranded, late, failures>>

\* A write has reached the panel and its call goes on, or has been cancelled.
GoesOn(c, next) == MovesTo(c, IF cancelled[c] THEN "idle" ELSE next)

\* END and the foreign code arrive in one report.
AuthoriseWritten(c) ==
  /\ at[c] = "authorise"
  /\ user' = AfterSwitch(code[c])
  /\ stranded' = IF cancelled[c] THEN {code[c]} ELSE {}
  /\ GoesOn(c, "authorised")
  /\ UNCHANGED <<loop, age, alarm, misrun, late, failures>>

\* Mutant of AfterCommand: nobody restores the session.
SettleAtOnce(c) == "settle"

AfterCommand(c) == IF Foreign(c) THEN "restore" ELSE "settle"

CommandWritten(c) ==
  /\ at[c] = "command"
  /\ Carry(c)
  /\ GoesOn(c, AfterCommand(c))
  /\ stranded' = IF cancelled[c] /\ Foreign(c) THEN stranded \cup {code[c]} ELSE stranded
  /\ UNCHANGED <<user, loop, age, alarm, late, failures>>

RestoreWritten(c) ==
  /\ at[c] = "restore"
  /\ user' = AfterSwitch(Own)
  /\ stranded' = {}
  /\ GoesOn(c, "settle")
  /\ UNCHANGED <<loop, age, alarm, misrun, late, failures>>

\* The refresh asks for states; an output is switched as whoever is logged in.
LastWritten(c) ==
  /\ \/ at[c] = "refresh" /\ UNCHANGED misrun
     \/ at[c] = "output" /\ Carry(c)
  /\ GoesOn(c, "idle")
  /\ UNCHANGED <<user, loop, age, alarm, stranded, late, failures>>

\* asyncio.sleep(1.0) is over.
Wakes(c) ==
  /\ at[c] \in Sleeping
  /\ at' = [at EXCEPT ![c] = IF @ = "authorised" THEN "command" ELSE "refresh"]
  /\ UNCHANGED <<user, code, cancelled, loop, age, alarm, misrun, stranded, late, failures>>

\* The call has logged its foreign user in and not yet logged it out.
InWindow(c) == Foreign(c) /\ at[c] \in {"authorised", "command", "restore"}

\* The call breaks off: the foreign user stays logged in if it was.
BreaksOff(c) ==
  /\ MovesTo(c, "idle")
  /\ stranded' = IF InWindow(c) THEN stranded \cup {code[c]} ELSE stranded

\* The write raises and nothing of the report arrives.
WriteFails(c) ==
  /\ at[c] \in Writing
  /\ failures < MaxFailures
  /\ failures' = failures + 1
  /\ BreaksOff(c)
  /\ UNCHANGED <<user, loop, age, alarm, misrun, late>>

\* The task is cancelled while it sleeps or waits for the write lock...
Cancel(c) ==
  /\ at[c] # "idle" /\ ~cancelled[c]
  /\ BreaksOff(c)
  /\ UNCHANGED <<user, loop, age, alarm, misrun, late, failures>>

\* ...or while the worker thread writes, which cancellation does not stop.
CancelDuringWrite(c) ==
  /\ at[c] \in Writing /\ ~cancelled[c]
  /\ cancelled' = [cancelled EXCEPT ![c] = TRUE]
  /\ UNCHANGED <<user, at, code, loop, age, alarm, misrun, stranded, late, failures>>

-----------------------------------------------------------------------------
(* The keepalive loop and the reconnection *)

\* Mutant of Older: the cycles are counted on without end.
OlderStill == age' = age + 1

\* At least one more cycle has passed since the last renewal; a slow loop
\* lets any number pass at once.
Older == age' \in age + 1 .. RenewAfter \/ (age = RenewAfter /\ age' = age)

\* Mutant of RenewalDue: the question about the sections is inverted.
RenewalDueInAlarm(a) == a = RenewAfter /\ alarm

\* Mutant of RenewalDue: the sections are not looked at.
RenewalDueAnyway(a) == a = RenewAfter

RenewalDue(a) == a = RenewAfter /\ ~alarm

\* A cycle of _keepalive_loop: the sections are looked at before the write
\* waits for its turn.  A heartbeat is written within the step.
KeepaliveWakes ==
  /\ loop = "sleep"
  /\ Older
  /\ loop' = IF RenewalDue(age') THEN "renew" ELSE "sleep"
  /\ UNCHANGED <<user, at, code, cancelled, alarm, misrun, stranded, late, failures>>

\* create_keepalive arrives: the own code without an END.
OwnArrives ==
  /\ user' = AfterRenewal
  /\ stranded' = IF AfterRenewal = Own THEN {} ELSE stranded
  /\ age' = 0
  /\ loop' = "sleep"
  /\ UNCHANGED <<at, code, cancelled, alarm, misrun, failures>>

RenewalWritten ==
  /\ loop = "renew"
  /\ late' = IF alarm /\ late < 2 THEN late + 1 ELSE late
  /\ OwnArrives

\* A keepalive write fails, the loop ends and the reconnection begins.
KeepaliveFails ==
  /\ loop # "lost"
  /\ failures < MaxFailures
  /\ failures' = failures + 1
  /\ loop' = "lost"
  /\ UNCHANGED <<user, at, code, cancelled, age, alarm, misrun, stranded, late>>

\* The transport is open again.  A panel that lost power has nobody logged in.
Reconnects ==
  /\ loop = "lost"
  /\ loop' = "initialise"
  /\ user' \in {user, NoUser}
  /\ stranded' = IF user' = user THEN stranded ELSE {}
  /\ UNCHANGED <<at, code, cancelled, age, alarm, misrun, late, failures>>

\* initialize_devices authorises the own code, whatever the sections show.
Initialised ==
  /\ loop = "initialise"
  /\ UNCHANGED late
  /\ OwnArrives

\* The reader stores sections states that change the answer to the question
\* whether there is an alarm, an entry delay or a sabotage.
SectionsChange ==
  /\ alarm' = ~alarm
  /\ late' = 0
  /\ UNCHANGED <<user, at, code, cancelled, loop, age, misrun, stranded, failures>>

Call(c) ==
  \/ \E k \in Code : SetSection(c, k)
  \/ SetPGOutput(c)
  \/ AuthoriseWritten(c)
  \/ CommandWritten(c)
  \/ RestoreWritten(c)
  \/ LastWritten(c)
  \/ Wakes(c)
  \/ WriteFails(c)
  \/ Cancel(c)
  \/ CancelDuringWrite(c)

Next ==
  \/ \E c \in Caller : Call(c)
  \/ KeepaliveWakes
  \/ RenewalWritten
  \/ KeepaliveFails
  \/ Reconnects
  \/ Initialised
  \/ SectionsChange

Spec == Init /\ [][Next]_vars

(***************************************************************************)
(* Sleeps end, writes come to their turn and end, and the reconnect loop   *)
(* goes on trying.  Nobody has to call, fail, cancel or raise an alarm.    *)
(***************************************************************************)
Fairness ==
  /\ \A c \in Caller : WF_vars(AuthoriseWritten(c) \/ CommandWritten(c)
                              \/ RestoreWritten(c) \/ LastWritten(c) \/ Wakes(c))
  /\ WF_vars(KeepaliveWakes)
  /\ WF_vars(RenewalWritten)
  /\ WF_vars(Reconnects)
  /\ WF_vars(Initialised)

FairSpec == Spec /\ Fairness

-----------------------------------------------------------------------------
(* Properties *)

\* After the first initialisation, the panel has the client's own user logged
\* in, or one whom a set_section has logged in and is about to log out, or one
\* whom a set_section left behind when it broke off in between: interleaved
\* calls, renewals and reconnections never leave anybody else.
UserExplained ==
  \/ user = Own
  \/ user = NoUser /\ loop \in {"lost", "initialise"}
  \/ \E c \in Caller : InWindow(c) /\ user = AfterSwitch(code[c])
  \/ \E k \in stranded : user = AfterSwitch(k)

\* "Never reauthorize during an alarm or entry delay": no renewal reaches the
\* panel while the client's sections show one.  _keepalive_loop asks before its
\* write waits for its turn, and nothing asks again afterwards.
NoRenewalInAlarm == late = 0

\* What remains of it: an alarm that has become known is followed by the
\* renewal already waiting at most, never by a second one, however long it lasts
\* and however often the connection is lost and renewed in it.
OneLateRenewal == late <= 1

\* Unless alarms keep coming, the own user is logged in again and again,
\* whatever calls fail or are cancelled with another user logged in.
OwnUserReturns == <>[]~alarm => []<>(user = Own)

\* set_section promises to authorise another user for the command, so the
\* panel carries out a command as the user whose code came with it.
CommandUnderItsCode == ~misrun
=============================================================================

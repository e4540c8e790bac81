---------------------------- MODULE SessionProofs ----------------------------
(***************************************************************************)
(* Session keeps its types, explains the user who is logged in and writes  *)
(* at most one renewal into an alarm: for any callers, codes and bounds,   *)
(* and whether or not an authorisation supersedes the user before it.      *)
(***************************************************************************)
EXTENDS Session, TLAPS

USE DEF Writing, Sleeping, Users

\* The calls in the branches of set_section that only a foreign code takes.
ForeignBranch ==
  \A c \in Caller : at[c] \in {"authorise", "authorised", "restore"} => Foreign(c)

\* A renewal that waits in an alarm is the first one of it.
FirstRenewal ==
  /\ late <= 1
  /\ ~alarm => late = 0
  /\ alarm /\ loop = "renew" => late = 0

SessionInv == TypeOK /\ ForeignBranch /\ UserExplained /\ FirstRenewal

LEMMA InitInv == Init => SessionInv
<1> SUFFICES ASSUME Init PROVE SessionInv
  OBVIOUS
<1>1. TypeOK
  <2>1. /\ cancelled \in [Caller -> BOOLEAN]
        /\ alarm \in BOOLEAN
        /\ misrun \in BOOLEAN
    BY Zenon DEF Init
  <2>2. user \in Users /\ code \in [Caller -> Code] /\ stranded \subseteq Code
    BY CodeAssumption DEF Init
  <2>3. /\ at \in [Caller -> Writing \cup Sleeping \cup {"idle"}]
        /\ loop \in {"sleep", "renew", "lost", "initialise"}
        /\ late \in 0..2
    BY DEF Init
  <2>4. age \in 0..RenewAfter /\ failures \in 0..MaxFailures
    BY BoundAssumption DEF Init
  <2> QED
    BY <2>1, <2>2, <2>3, <2>4 DEF TypeOK
<1>2. ForeignBranch
  BY DEF Init, ForeignBranch
<1>3. UserExplained /\ FirstRenewal
  BY DEF Init, UserExplained, FirstRenewal
<1> QED
  BY <1>1, <1>2, <1>3 DEF SessionInv

\* Types.  One step per action.
LEMMA TypeStep == TypeOK /\ [Next]_vars => TypeOK'
<1> SUFFICES ASSUME TypeOK, [Next]_vars PROVE TypeOK'
  OBVIOUS
<1> USE CodeAssumption, BoundAssumption, PanelAssumption DEF TypeOK
<1>1. ASSUME NEW c \in Caller, NEW k \in Code, SetSection(c, k) PROVE TypeOK'
  BY <1>1 DEF SetSection
<1>2. ASSUME NEW c \in Caller, SetPGOutput(c) PROVE TypeOK'
  BY <1>2 DEF SetPGOutput, MovesTo
<1>3. ASSUME NEW c \in Caller, AuthoriseWritten(c) PROVE TypeOK'
  BY <1>3 DEF AuthoriseWritten, GoesOn, MovesTo, AfterSwitch
<1>4. ASSUME NEW c \in Caller, CommandWritten(c) PROVE TypeOK'
  BY <1>4 DEF CommandWritten, GoesOn, MovesTo, Carry, AfterCommand
<1>5. ASSUME NEW c \in Caller, RestoreWritten(c) PROVE TypeOK'
  BY <1>5 DEF RestoreWritten, GoesOn, MovesTo, AfterSwitch
<1>6. ASSUME NEW c \in Caller, LastWritten(c) PROVE TypeOK'
  BY <1>6 DEF LastWritten, GoesOn, MovesTo, Carry
<1>7. ASSUME NEW c \in Caller, Wakes(c) PROVE TypeOK'
  BY <1>7 DEF Wakes
<1>8. ASSUME NEW c \in Caller, WriteFails(c) PROVE TypeOK'
  BY <1>8 DEF WriteFails, BreaksOff, MovesTo
<1>9. ASSUME NEW c \in Caller, Cancel(c) \/ CancelDuringWrite(c) PROVE TypeOK'
  <2>1. CASE Cancel(c)
    BY <2>1 DEF Cancel, BreaksOff, MovesTo
  <2>2. CASE CancelDuringWrite(c)
    BY <2>2 DEF CancelDuringWrite
  <2> QED
    BY <1>9, <2>1, <2>2
<1>10. CASE KeepaliveWakes
  BY <1>10 DEF KeepaliveWakes, Older
<1>11. CASE RenewalWritten \/ Initialised
  BY <1>11 DEF RenewalWritten, Initialised, OwnArrives, AfterRenewal
<1>12. CASE KeepaliveFails \/ Reconnects \/ SectionsChange
  <2>1. CASE KeepaliveFails \/ Reconnects
    BY <2>1 DEF KeepaliveFails, Reconnects
  <2>2. CASE SectionsChange
    <3>1. alarm' \in BOOLEAN
      BY <2>2, Zenon DEF SectionsChange
    <3> QED
      BY <2>2, <3>1 DEF SectionsChange
  <2> QED
    BY <1>12, <2>1, <2>2
<1>13. CASE UNCHANGED vars
  BY <1>13 DEF vars
<1> QED
  BY <1>1, <1>2, <1>3, <1>4, <1>5, <1>6, <1>7, <1>8, <1>9, <1>10, <1>11, <1>12,
     <1>13 DEF Next, Call

LEMMA BranchStep == TypeOK /\ ForeignBranch /\ [Next]_vars => ForeignBranch'
<1> SUFFICES ASSUME TypeOK, ForeignBranch, [Next]_vars PROVE ForeignBranch'
  OBVIOUS
<1> USE DEF TypeOK, ForeignBranch, Foreign
<1>1. ASSUME NEW c \in Caller, NEW k \in Code, SetSection(c, k) PROVE ForeignBranch'
  BY <1>1 DEF SetSection
<1>2. ASSUME NEW c \in Caller, SetPGOutput(c) PROVE ForeignBranch'
  BY <1>2 DEF SetPGOutput, MovesTo
<1>3. ASSUME NEW c \in Caller,
             \/ AuthoriseWritten(c)
             \/ CommandWritten(c)
             \/ RestoreWritten(c)
             \/ LastWritten(c)
      PROVE ForeignBranch'
  BY <1>3 DEF AuthoriseWritten, CommandWritten, RestoreWritten, LastWritten,
              GoesOn, MovesTo, AfterCommand
<1>4. ASSUME NEW c \in Caller, Wakes(c) PROVE ForeignBranch'
  BY <1>4 DEF Wakes
<1>5. ASSUME NEW c \in Caller, WriteFails(c) \/ Cancel(c) \/ CancelDuringWrite(c)
      PROVE ForeignBranch'
  BY <1>5 DEF WriteFails, Cancel, CancelDuringWrite, BreaksOff, MovesTo
<1>6. CASE \/ KeepaliveWakes
           \/ RenewalWritten
           \/ KeepaliveFails
           \/ Reconnects
           \/ Initialised
           \/ SectionsChange
           \/ UNCHANGED vars
  BY <1>6 DEF KeepaliveWakes, RenewalWritten, KeepaliveFails, Reconnects,
              Initialised, SectionsChange, OwnArrives, vars
<1> QED
  BY <1>1, <1>2, <1>3, <1>4, <1>5, <1>6 DEF Next, Call

\* The heart of the argument: only AuthoriseWritten logs a foreign user in, and
\* it leaves its call in the window; a call leaves the window by RestoreWritten,
\* which logs the own user in, or by breaking off, which names the code.
LEMMA ExplainedStep ==
  TypeOK /\ ForeignBranch /\ UserExplained /\ [Next]_vars => UserExplained'
<1> SUFFICES ASSUME TypeOK, ForeignBranch, UserExplained, [Next]_vars
             PROVE UserExplained'
  OBVIOUS
<1> USE CodeAssumption DEF TypeOK, UserExplained, AfterSwitch, InWindow, Foreign
<1>1. ASSUME NEW c \in Caller, NEW k \in Code, SetSection(c, k) PROVE UserExplained'
  BY <1>1 DEF SetSection
<1>2. ASSUME NEW c \in Caller, SetPGOutput(c) PROVE UserExplained'
  BY <1>2 DEF SetPGOutput, MovesTo
<1>3. ASSUME NEW c \in Caller, AuthoriseWritten(c) PROVE UserExplained'
  <2>1. CASE cancelled[c]
    BY <1>3, <2>1 DEF AuthoriseWritten
  <2>2. CASE ~cancelled[c]
    BY <1>3, <2>2 DEF AuthoriseWritten, GoesOn, MovesTo, ForeignBranch
  <2> QED
    BY <2>1, <2>2
<1>4. ASSUME NEW c \in Caller, CommandWritten(c) PROVE UserExplained'
  BY <1>4 DEF CommandWritten, AfterCommand, GoesOn, MovesTo
<1>5. ASSUME NEW c \in Caller, RestoreWritten(c) PROVE UserExplained'
  BY <1>5 DEF RestoreWritten
<1>6. ASSUME NEW c \in Caller, LastWritten(c) PROVE UserExplained'
  BY <1>6 DEF LastWritten, GoesOn, MovesTo
<1>7. ASSUME NEW c \in Caller, Wakes(c) PROVE UserExplained'
  BY <1>7 DEF Wakes
<1>8. ASSUME NEW c \in Caller, WriteFails(c) \/ Cancel(c) PROVE UserExplained'
  BY <1>8 DEF WriteFails, Cancel, BreaksOff, MovesTo
<1>9. ASSUME NEW c \in Caller, CancelDuringWrite(c) PROVE UserExplained'
  BY <1>9 DEF CancelDuringWrite
<1>10. CASE RenewalWritten \/ Initialised
  BY <1>10 DEF RenewalWritten, Initialised, OwnArrives, AfterRenewal
<1>11. CASE \/ KeepaliveWakes
            \/ KeepaliveFails
            \/ Reconnects
            \/ SectionsChange
            \/ UNCHANGED vars
  BY <1>11 DEF KeepaliveWakes, KeepaliveFails, Reconnects, SectionsChange, vars
<1> QED
  BY <1>1, <1>2, <1>3, <1>4, <1>5, <1>6, <1>7, <1>8, <1>9, <1>10, <1>11
  DEF Next, Call

LEMMA RenewalStep == TypeOK /\ FirstRenewal /\ [Next]_vars => FirstRenewal'
<1> SUFFICES ASSUME TypeOK, FirstRenewal, [Next]_vars PROVE FirstRenewal'
  OBVIOUS
<1> USE DEF TypeOK, FirstRenewal
<1>1. ASSUME NEW c \in Caller, Call(c) PROVE FirstRenewal'
  BY <1>1 DEF Call, SetSection, SetPGOutput, AuthoriseWritten, CommandWritten,
              RestoreWritten, LastWritten, Wakes, WriteFails, Cancel, CancelDuringWrite
<1>2. CASE KeepaliveWakes
  BY <1>2 DEF KeepaliveWakes, RenewalDue
<1>3. CASE RenewalWritten \/ Initialised
  BY <1>3 DEF RenewalWritten, Initialised, OwnArrives
<1>4. CASE \/ KeepaliveFails
           \/ Reconnects
           \/ SectionsChange
           \/ UNCHANGED vars
  BY <1>4 DEF KeepaliveFails, Reconnects, SectionsChange, vars
<1> QED
  BY <1>1, <1>2, <1>3, <1>4 DEF Next

\* The invariant of the session, for every value of the constants.
THEOREM Invariant == Spec => []SessionInv
<1>1. SessionInv /\ [Next]_vars => SessionInv'
  BY TypeStep, BranchStep, ExplainedStep, RenewalStep DEF SessionInv
<1> QED
  BY InitInv, <1>1, PTL DEF Spec

\* Every variable keeps its type, the counters their bounds.
THEOREM TypeCorrect == Spec => []TypeOK
<1>1. SessionInv => TypeOK
  BY DEF SessionInv
<1> QED
  BY Invariant, <1>1, PTL

\* Whoever is logged in is the own user, or was logged in by a set_section
\* that will log it out or broke off before it could.
THEOREM Explained == Spec => []UserExplained
<1>1. SessionInv => UserExplained
  BY DEF SessionInv
<1> QED
  BY Invariant, <1>1, PTL

\* An alarm is followed by the renewal that already waited, by no other.
THEOREM LateRenewals == Spec => []OneLateRenewal
<1>1. SessionInv => OneLateRenewal
  BY DEF SessionInv, FirstRenewal, OneLateRenewal
<1> QED
  BY Invariant, <1>1, PTL
==============================================================================

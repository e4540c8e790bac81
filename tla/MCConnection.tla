---------------------------- MODULE MCConnection ----------------------------
(***************************************************************************)
(* Instances of Connection for TLC.                                        *)
(***************************************************************************)
EXTENDS Connection, TLC

\* Every optional behaviour of the environment, none of them, and only reports
\* the client cannot parse.
AnyEnv       == EnvChoices
QuietEnv     == {}
BadReportEnv == {"badReport"}

\* Slots of one pool are interchangeable.
Slots == Permutations(Readers) \cup Permutations(Keepalives)
            \cup Permutations(Inits) \cup Permutations(Loops)
=============================================================================

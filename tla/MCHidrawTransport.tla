------------------------- MODULE MCHidrawTransport --------------------------
(***************************************************************************)
(* Instances of HidrawTransport for TLC.  Reads and writes share no lock,  *)
(* so the second write and the second path, which only writes tell apart,  *)
(* come in behaviours of their own, without calls of read().               *)
(***************************************************************************)
EXTENDS HidrawTransport

CONSTANTS SecondWrite, SecondPath

Called(c) == pc[c] # "idle" \/ outcome[c] # "none"

\* Action constraint: it holds back calls and the choice of a path, which no
\* fairness condition is about.
TwoWritesOrReads ==
    (\E c \in Reads : Called(c))' =>
        ~Called(SecondWrite)' /\ device' # SecondPath
=============================================================================

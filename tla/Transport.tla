----------------------------- MODULE Transport ------------------------------
(***************************************************************************)
(* What the client may expect of a transport (class Transport in           *)
(* transport.py, as client.py uses it): a device that is closed, live or   *)
(* lost, and calls of read() that end with data while it is live, fail     *)
(* only for a reason, and do not wait on a device that stays closed or lost.*)
(***************************************************************************)
CONSTANT Reads  \* slots for calls of read()

VARIABLES
    mode,     \* "closed"; "live"; "lost": open, but its device is gone
    pending,  \* the calls that have not ended
    doomed,   \* the pending calls that a close() has caught
    outcome   \* how the last call in each slot ended

vars == <<mode, pending, doomed, outcome>>

Init ==
    /\ mode = "closed"
    /\ pending = {} /\ doomed = {}
    /\ outcome = [c \in Reads |-> "none"]

\* A call caught by close() may still be served if open() comes first.
Open ==
    /\ mode = "closed" /\ mode' = "live"
    /\ doomed' \in SUBSET doomed
    /\ UNCHANGED <<pending, outcome>>

Close ==
    /\ mode' = "closed"
    /\ doomed' \in SUBSET pending /\ doomed \subseteq doomed'
    /\ UNCHANGED <<pending, outcome>>

Lose ==
    /\ mode = "live" /\ mode' = "lost"
    /\ UNCHANGED <<pending, doomed, outcome>>

Call(c) ==
    /\ c \notin pending
    /\ pending' = pending \cup {c}
    /\ UNCHANGED <<mode, doomed, outcome>>

\* A caught call that its caller cancels no longer fails by the close().
Cancel(c) ==
    /\ c \in doomed /\ doomed' = doomed \ {c}
    /\ UNCHANGED <<mode, pending, outcome>>

\* The call ends with o, now or without ever waiting.
End(c, o) ==
    /\ o = "data" => mode = "live"
    /\ o = "failed" => mode # "live" \/ c \in doomed
    /\ o = "cancelled" => c \in pending
    /\ outcome' = [outcome EXCEPT ![c] = o]
    /\ pending' = pending \ {c} /\ doomed' = doomed \ {c}
    /\ UNCHANGED mode

Next ==
    \/ Open \/ Close \/ Lose
    \/ \E c \in Reads : \/ Call(c) \/ Cancel(c)
                        \/ \E o \in {"data", "failed", "cancelled"} : End(c, o)

\* No call waits for ever on a device that is and stays closed or lost.
Fairness == \A c \in Reads :
                WF_vars(/\ mode # "live" /\ c \in pending
                        /\ \E o \in {"failed", "cancelled"} : End(c, o))

Spec == Init /\ [][Next]_vars /\ Fairness
=============================================================================

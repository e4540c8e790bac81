----------------------------- MODULE MCSession -----------------------------
(***************************************************************************)
(* Two callers, one foreign code the panel accepts and one it refuses.     *)
(***************************************************************************)
EXTENDS Session, TLC

CONSTANTS c1, c2, own, other, wrong

MCCaller == {c1, c2}
MCCode == {own, other, wrong}
MCKnown == {own, other}
============================================================================

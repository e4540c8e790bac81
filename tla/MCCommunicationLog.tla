------------------------- MODULE MCCommunicationLog -------------------------
(***************************************************************************)
(* Three keys for a table of two, one of them secret; reports of one and   *)
(* two packets, so that one report may evict what it has just counted.     *)
(***************************************************************************)
EXTENDS CommunicationLog

CONSTANTS section, device, code, off, on

MCKey == {section, device, code}
MCBody == {off, on}
MCSecret == {code}

P(k, b) == [key |-> k, body |-> b]

MCInReport ==
  {<<P(section, off)>>, <<P(section, on)>>, <<P(device, on)>>,
   <<P(section, on), P(device, on)>>, <<P(device, off), P(device, off)>>}
MCOutReport == {<<P(code, on)>>, <<P(code, off), P(code, on)>>}
=============================================================================

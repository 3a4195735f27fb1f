--------------------------- MODULE MCWatcherSystem ---------------------------
(***************************************************************************)
(* WatcherSystem for TLC: three files between which access points appear,   *)
(* disappear and change, alone and two at once.                            *)
(***************************************************************************)
EXTENDS WatcherSystem

CONSTANTS a, b

MCPoint(s, v) == [ssid |-> s, SNR |-> v, channel |-> 1]

MCParsedMaps ==
  {<< >>, <<MCPoint(a, 1)>>, <<MCPoint(b, 1), MCPoint(a, 2)>>}

=============================================================================

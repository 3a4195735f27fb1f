----------------------------- MODULE MCServerMain -----------------------------
(***************************************************************************)
(* ServerMain for TLC.  The maps parse_json_from_file returns are built as *)
(* the parser builds them, by adding the access points of the file one     *)
(* after the other to a new map: every file of at most MaxSize access      *)
(* points, the same SSID twice included.                                   *)
(***************************************************************************)
EXTENDS ServerMain, SequencesExt

CONSTANT MaxSize

MapOf(file) == FoldLeft(add_to_map, create_access_point_map, file)

MCParsedMaps == {MapOf(file) : file \in SeqOf(AccessPoint, MaxSize)}

(***************************************************************************)
(* Fewer maps: one SSID changes its SNR only, another its channel only, and*)
(* the rest change nothing.  A batch can still add, change and remove at   *)
(* once.                                                                   *)
(***************************************************************************)
CONSTANTS OnlySNR, OnlyChannel

MCFewMaps ==
  {map \in MCParsedMaps :
     \A k \in DOMAIN map :
       /\ map[k].ssid # OnlySNR => map[k].SNR = 1
       /\ map[k].ssid # OnlyChannel => map[k].channel = 1}

=============================================================================

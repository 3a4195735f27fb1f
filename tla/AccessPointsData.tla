-------------------------- MODULE AccessPointsData --------------------------
(***************************************************************************)
(* The access point map of server_src/access_points_data.c.                *)
(*                                                                         *)
(* The map is an stb_ds string hash map.  Seen through the operations the  *)
(* server uses it is an array of entries in insertion order, one entry per *)
(* SSID: shput overwrites the entry of a key that is present and appends   *)
(* otherwise, shgeti returns the position of a key, and nothing is ever    *)
(* deleted from a map.  The position matters: the server walks its maps by *)
(* index and keeps the index detect_changed_ssid returned.                 *)
(*                                                                         *)
(* Positions start at 1 here and at 0 in C, so AP_MAP_NOT_FOUND, the       *)
(* position before the first one, is 0 here and -1 in C.                   *)
(***************************************************************************)
EXTENDS Naturals, Sequences

CONSTANTS
  Ssid,       \* the names of access points, as stored in access_point.ssid
  Unsigned,   \* the values of SNR and channel (unsigned int)
  Absent      \* "no access point of this name"

Params == [SNR : Unsigned, channel : Unsigned]

ASSUME AbsentAssumption == Absent \notin Params

AccessPoint == [ssid : Ssid, SNR : Unsigned, channel : Unsigned]

DistinctKeys(map) ==
  \A j, k \in DOMAIN map : map[j].ssid = map[k].ssid => j = k

AccessPointMap == {map \in Seq(AccessPoint) : DistinctKeys(map)}

AP_MAP_NOT_FOUND == 0

create_access_point_map == << >>

map_size(map) == Len(map)

HasKey(map, ssid) == \E k \in DOMAIN map : map[k].ssid = ssid

find_ssid_in_map(map, ssid) ==
  IF HasKey(map, ssid)
    THEN CHOOSE k \in DOMAIN map : map[k].ssid = ssid
    ELSE AP_MAP_NOT_FOUND

(***************************************************************************)
(* A faulty variant of add_to_map: the entry of a known key is kept.       *)
(***************************************************************************)
KeepsFirst(map, ap) ==
  IF HasKey(map, ap.ssid) THEN map ELSE Append(map, ap)

add_to_map(map, ap) ==
  LET found == find_ssid_in_map(map, ap.ssid)
  IN  IF found = AP_MAP_NOT_FOUND
        THEN Append(map, ap)
        ELSE [map EXCEPT ![found] = ap]

(***************************************************************************)
(* Three faulty variants of the next definition, none of them used: the    *)
(* properties must tell each of them from the code.                        *)
(***************************************************************************)
OneSameIsNoChange(current_ssids, after) ==
  LET found == find_ssid_in_map(current_ssids, after.ssid)
  IN  IF found = AP_MAP_NOT_FOUND
        THEN [change_type |-> "NEW_SSID", changed_ssid_index |-> 1]
      ELSE IF \/ current_ssids[found].SNR = after.SNR
              \/ current_ssids[found].channel = after.channel
        THEN [change_type |-> "NO_CHANGE", changed_ssid_index |-> 1]
      ELSE [change_type |-> "PARAM_CHANGE", changed_ssid_index |-> found]

FoundIsAlwaysChanged(current_ssids, after) ==
  LET found == find_ssid_in_map(current_ssids, after.ssid)
  IN  IF found = AP_MAP_NOT_FOUND
        THEN [change_type |-> "NEW_SSID", changed_ssid_index |-> 1]
      ELSE [change_type |-> "PARAM_CHANGE", changed_ssid_index |-> found]

IndexIsNotSet(current_ssids, after) ==
  LET found == find_ssid_in_map(current_ssids, after.ssid)
  IN  IF found = AP_MAP_NOT_FOUND
        THEN [change_type |-> "NEW_SSID", changed_ssid_index |-> 1]
      ELSE IF /\ current_ssids[found].SNR = after.SNR
              /\ current_ssids[found].channel = after.channel
        THEN [change_type |-> "NO_CHANGE", changed_ssid_index |-> 1]
      ELSE [change_type |-> "PARAM_CHANGE", changed_ssid_index |-> 1]

(***************************************************************************)
(* What has become of one access point of the new file.  The index counts  *)
(* only for PARAM_CHANGE; the C initialisers leave it at the first entry   *)
(* otherwise.                                                              *)
(***************************************************************************)
detect_changed_ssid(current_ssids, after) ==
  LET found == find_ssid_in_map(current_ssids, after.ssid)
  IN  IF found = AP_MAP_NOT_FOUND
        THEN [change_type |-> "NEW_SSID", changed_ssid_index |-> 1]
      ELSE IF /\ current_ssids[found].SNR = after.SNR
              /\ current_ssids[found].channel = after.channel
        THEN [change_type |-> "NO_CHANGE", changed_ssid_index |-> 1]
      ELSE [change_type |-> "PARAM_CHANGE", changed_ssid_index |-> found]

detect_param_changes(lhs, rhs) ==
  [SNR_change     |-> lhs.SNR # rhs.SNR,
   channel_change |-> lhs.channel # rhs.channel]

(***************************************************************************)
(* The list of access points a map stands for, with the order forgotten.   *)
(* This is a notion of the specification, not of the code.                 *)
(***************************************************************************)
ParamsOf(ap) == [SNR |-> ap.SNR, channel |-> ap.channel]

ListOf(map) ==
  [s \in Ssid |-> IF HasKey(map, s)
                    THEN ParamsOf(map[find_ssid_in_map(map, s)])
                    ELSE Absent]

Lists == [Ssid -> Params \cup {Absent}]

=============================================================================

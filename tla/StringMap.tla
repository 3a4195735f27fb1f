----------------------------- MODULE StringMap -----------------------------
(***************************************************************************)
(* What module AccessPointsData takes an stb_ds string hash map to be, as  *)
(* an abstract specification: entries in an order, keys distinct, changed  *)
(* by adding, by a deletion that moves the last entry into the gap, and by *)
(* freeing the map.  No hash, table, bucket or tombstone.                  *)
(***************************************************************************)
EXTENDS AccessPointsData

VARIABLE map

SwapRemoved(m, k) ==
  [j \in 1..(Len(m) - 1) |-> IF j = k THEN m[Len(m)] ELSE m[j]]

Add(ap) == map' = add_to_map(map, ap)

Delete(ssid) ==
  /\ HasKey(map, ssid)
  /\ map' = SwapRemoved(map, find_ssid_in_map(map, ssid))

Clear == map' = create_access_point_map

MapInit == map = create_access_point_map

MapNext ==
  \/ \E ap \in AccessPoint : Add(ap)
  \/ \E ssid \in Ssid : Delete(ssid)
  \/ Clear

MapSpec == MapInit /\ [][MapNext]_map

=============================================================================

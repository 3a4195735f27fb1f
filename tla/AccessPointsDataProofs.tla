------------------------ MODULE AccessPointsDataProofs ------------------------
(***************************************************************************)
(* Facts about the access point map, for every set of names and values:    *)
(* what find_ssid_in_map finds, what add_to_map does, and the list a map   *)
(* stands for; and the principle of induction that the modules on top of   *)
(* this one use.                                                           *)
(***************************************************************************)
EXTENDS AccessPointsData, WellFoundedInduction, TLAPS

(***************************************************************************)
(* Induction over the naturals, for a set: the instance of WFMin for <.    *)
(***************************************************************************)
LEMMA NatSetInduction ==
  ASSUME NEW S, 0 \in S, \A n \in Nat : n \in S => n + 1 \in S
  PROVE  \A n \in Nat : n \in S
<1> DEFINE less == OpToRel(<, Nat)
<1>1. IsWellFoundedOn(less, Nat)
  BY NatLessThanWellFounded
<1>2. SUFFICES ASSUME Nat \ S # {} PROVE FALSE
  OBVIOUS
<1> HIDE DEF less
<1>3. PICK n \in Nat \ S : \A m \in Nat \ S : <<m, n>> \notin less
  BY <1>1, <1>2, WFMin
<1>4. n - 1 \in Nat \ S
  <2>1. n # 0
    BY <1>3
  <2>2. n - 1 \in Nat /\ (n - 1) + 1 = n
    BY <2>1
  <2>3. QED
    BY <2>2
<1>5. <<n - 1, n>> \in less
  BY <1>4 DEF less, OpToRel
<1>6. QED
  BY <1>3, <1>4, <1>5

(***************************************************************************)
(* find_ssid_in_map returns the position of the entry with the key, and    *)
(* AP_MAP_NOT_FOUND when there is none.                                    *)
(***************************************************************************)
LEMMA FindFinds ==
  ASSUME NEW map \in AccessPointMap, NEW s
  PROVE  /\ HasKey(map, s) => /\ find_ssid_in_map(map, s) \in DOMAIN map
                              /\ map[find_ssid_in_map(map, s)].ssid = s
         /\ find_ssid_in_map(map, s) = AP_MAP_NOT_FOUND <=> ~HasKey(map, s)
<1>1. DOMAIN map = 1..Len(map) /\ Len(map) \in Nat
  BY DEF AccessPointMap
<1>2. CASE HasKey(map, s)
  <2>1. PICK k \in DOMAIN map : map[k].ssid = s
    BY <1>2 DEF HasKey
  <2>2. /\ find_ssid_in_map(map, s) \in DOMAIN map
        /\ map[find_ssid_in_map(map, s)].ssid = s
    BY <1>2, <2>1 DEF find_ssid_in_map
  <2>3. find_ssid_in_map(map, s) # AP_MAP_NOT_FOUND
    BY <1>1, <2>2 DEF AP_MAP_NOT_FOUND
  <2>4. QED
    BY <1>2, <2>2, <2>3
<1>3. CASE ~HasKey(map, s)
  BY <1>3 DEF find_ssid_in_map
<1>4. QED
  BY <1>2, <1>3

(***************************************************************************)
(* Keys being distinct, the key of an entry leads back to that entry.      *)
(***************************************************************************)
LEMMA FindInverts ==
  ASSUME NEW map \in AccessPointMap, NEW k \in DOMAIN map
  PROVE  /\ HasKey(map, map[k].ssid)
         /\ find_ssid_in_map(map, map[k].ssid) = k
<1>1. HasKey(map, map[k].ssid)
  BY DEF HasKey
<1>2. /\ find_ssid_in_map(map, map[k].ssid) \in DOMAIN map
      /\ map[find_ssid_in_map(map, map[k].ssid)].ssid = map[k].ssid
  BY <1>1, FindFinds
<1>3. QED
  BY <1>1, <1>2 DEF AccessPointMap, DistinctKeys

LEMMA EntryIsAccessPoint ==
  ASSUME NEW map \in AccessPointMap, NEW k \in DOMAIN map
  PROVE  /\ map[k] \in AccessPoint
         /\ map[k].ssid \in Ssid
         /\ map[k].SNR \in Unsigned
         /\ map[k].channel \in Unsigned
         /\ ParamsOf(map[k]) \in Params
<1>1. map[k] \in AccessPoint
  BY DEF AccessPointMap
<1>2. QED
  BY <1>1 DEF AccessPoint, ParamsOf, Params

(***************************************************************************)
(* A map lists exactly its keys, each with the parameters of its entry.    *)
(***************************************************************************)
LEMMA ListOfMap ==
  ASSUME NEW map \in AccessPointMap
  PROVE  /\ ListOf(map) \in Lists
         /\ \A s \in Ssid : ListOf(map)[s] = Absent <=> ~HasKey(map, s)
         /\ \A k \in DOMAIN map :
              ListOf(map)[map[k].ssid] = ParamsOf(map[k])
<1>1. ASSUME NEW s \in Ssid
      PROVE  /\ HasKey(map, s) =>
                  ParamsOf(map[find_ssid_in_map(map, s)]) \in Params
             /\ ListOf(map)[s] = Absent <=> ~HasKey(map, s)
  <2>1. HasKey(map, s) => ParamsOf(map[find_ssid_in_map(map, s)]) \in Params
    BY FindFinds, EntryIsAccessPoint
  <2>2. QED
    BY <2>1, AbsentAssumption DEF ListOf
<1>2. ListOf(map) \in Lists
  BY <1>1 DEF ListOf, Lists
<1>3. ASSUME NEW k \in DOMAIN map
      PROVE  ListOf(map)[map[k].ssid] = ParamsOf(map[k])
  BY FindInverts, EntryIsAccessPoint DEF ListOf
<1>4. QED
  BY <1>1, <1>2, <1>3

LEMMA EmptyMap ==
  /\ << >> \in AccessPointMap
  /\ DOMAIN << >> = {}
  /\ \A s \in Ssid : ListOf(<< >>)[s] = Absent
  BY DEF AccessPointMap, DistinctKeys, ListOf, HasKey

(***************************************************************************)
(* add_to_map keeps the keys distinct, and changes the list the map stands *)
(* for in one access point, whether the key is new or known: of a file     *)
(* that names an SSID twice, the last entry counts.                        *)
(***************************************************************************)
THEOREM AddToMap ==
  ASSUME NEW map \in AccessPointMap, NEW ap \in AccessPoint
  PROVE  /\ add_to_map(map, ap) \in AccessPointMap
         /\ ListOf(add_to_map(map, ap)) =
              [ListOf(map) EXCEPT ![ap.ssid] = ParamsOf(ap)]
<1> DEFINE added == add_to_map(map, ap)
           found == find_ssid_in_map(map, ap.ssid)
<1>1. /\ map \in Seq(AccessPoint) /\ ap.ssid \in Ssid
      /\ DOMAIN map = 1..Len(map) /\ Len(map) \in Nat
  BY DEF AccessPointMap, AccessPoint
<1>2. /\ added \in AccessPointMap
      /\ \E k \in DOMAIN added : added[k] = ap
      /\ \A k \in DOMAIN added : added[k].ssid # ap.ssid
                                   => k \in DOMAIN map /\ added[k] = map[k]
      /\ \A k \in DOMAIN map : map[k].ssid # ap.ssid
                                 => k \in DOMAIN added /\ added[k] = map[k]
  <2>1. CASE HasKey(map, ap.ssid)
    <3>1. /\ found \in DOMAIN map /\ map[found].ssid = ap.ssid
          /\ added = [map EXCEPT ![found] = ap]
      BY <2>1, FindFinds DEF add_to_map
    <3>2. /\ added \in Seq(AccessPoint) /\ DOMAIN added = DOMAIN map
          /\ \A k \in DOMAIN added : added[k] = IF k = found THEN ap ELSE map[k]
      BY <1>1, <3>1
    <3>3. \A k \in DOMAIN added : added[k].ssid = map[k].ssid
      BY <3>1, <3>2
    <3>4. DistinctKeys(added)
      BY <3>2, <3>3 DEF AccessPointMap, DistinctKeys
    <3>5. QED
      BY <3>1, <3>2, <3>4 DEF AccessPointMap
  <2>2. CASE ~HasKey(map, ap.ssid)
    <3>1. added = Append(map, ap)
      BY <2>2, FindFinds DEF add_to_map
    <3>2. /\ added \in Seq(AccessPoint)
          /\ DOMAIN added = 1..(Len(map) + 1)
          /\ added[Len(map) + 1] = ap
          /\ \A k \in DOMAIN map : added[k] = map[k]
      BY <1>1, <3>1
    <3>3. \A k \in DOMAIN map : map[k].ssid # ap.ssid
      BY <2>2 DEF HasKey
    <3>4. DistinctKeys(added)
      <4> SUFFICES ASSUME NEW j \in DOMAIN added, NEW k \in DOMAIN added,
                          added[j].ssid = added[k].ssid
                   PROVE  j = k
        BY DEF DistinctKeys
      <4>1. CASE j \in DOMAIN map /\ k \in DOMAIN map
        BY <3>2, <4>1 DEF AccessPointMap, DistinctKeys
      <4>2. CASE ~(j \in DOMAIN map /\ k \in DOMAIN map)
        BY <1>1, <3>2, <3>3, <4>2
      <4>3. QED
        BY <4>1, <4>2
    <3>5. QED
      BY <1>1, <3>2, <3>4 DEF AccessPointMap
  <2>3. QED
    BY <2>1, <2>2
<1>3. ListOf(added)[ap.ssid] = ParamsOf(ap)
  BY <1>2, ListOfMap
<1>4. ASSUME NEW s \in Ssid, s # ap.ssid
      PROVE  ListOf(added)[s] = ListOf(map)[s]
  <2>1. CASE HasKey(map, s)
    <3>1. PICK k \in DOMAIN map : map[k].ssid = s
      BY <2>1 DEF HasKey
    <3>2. k \in DOMAIN added /\ added[k] = map[k]
      BY <1>2, <1>4, <3>1
    <3>3. /\ ListOf(map)[s] = ParamsOf(map[k])
          /\ ListOf(added)[s] = ParamsOf(map[k])
      BY <1>2, <3>1, <3>2, ListOfMap
    <3>4. QED
      BY <3>3
  <2>2. CASE ~HasKey(map, s)
    <3>1. ~HasKey(added, s)
      BY <1>2, <1>4, <2>2 DEF HasKey
    <3>2. QED
      BY <1>2, <2>2, <3>1, ListOfMap
  <2>3. QED
    BY <2>1, <2>2
<1>5. ListOf(added) = [ListOf(map) EXCEPT ![ap.ssid] = ParamsOf(ap)]
  <2>1. ListOf(added) \in Lists /\ ListOf(map) \in Lists
    BY <1>2, ListOfMap
  <2>2. QED
    BY <1>1, <1>3, <1>4, <2>1 DEF Lists
<1>6. QED
  BY <1>2, <1>5

=============================================================================

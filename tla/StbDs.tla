------------------------------- MODULE StbDs -------------------------------
(***************************************************************************)
(* The string hash map of 3rdp/stb/stb_ds.h that access_points_data.c is   *)
(* made of: entries in an array, and a table of slots, open addressing,    *)
(* that maps hashes to positions in that array.  The map is in the mode    *)
(* sh_new_strdup: it owns a copy of each key.                              *)
(*                                                                         *)
(* Each action is one call of the library; the map belongs to one thread.  *)
(* What can go wrong takes many calls: a table that grew, shrank or was    *)
(* rebuilt must still lead to every entry, and a search must end.          *)
(*                                                                         *)
(* A slot has the hash of its key and the position of its entry.  Positions*)
(* start at 1, an empty slot holds 0, a deleted one -1 (in C they start at *)
(* 0, with -1 and -2).  stbds_hash_string is any function; the seed that a *)
(* new map draws is the choice of one.                                     *)
(***************************************************************************)
EXTENDS AccessPointsData, Integers, FiniteSets

CONSTANTS
  BucketLength,   \* STBDS_BUCKET_LENGTH, a power of two
  HashFunctions,  \* the hash functions the seeds select
  Points          \* the access points that are put into the map

ASSUME BucketAssumption == BucketLength \in {4, 8}
ASSUME HashAssumption == HashFunctions \subseteq [Ssid -> Nat]
ASSUME PointsAssumption == Points \subseteq AccessPoint

VARIABLES
  hash,      \* stbds_hash_string with the seed of this map
  entries,   \* the array, without its default element
  capacity,  \* of the array, the default element counted
  table,     \* the hash index, or NoTable when there is no map
  heap       \* the copies of keys stbds_strdup made and nobody freed

vars == <<hash, entries, capacity, table, heap>>

Empty   == [hash |-> 0, index |-> 0]   \* STBDS_HASH_EMPTY, STBDS_INDEX_EMPTY
Deleted == [hash |-> 1, index |-> -1]  \* STBDS_HASH_DELETED, _INDEX_DELETED

NoTable == [slots |-> << >>, used |-> 0, tombstones |-> 0]

InUse(slot) == slot.index > 0

Slots(t) == DOMAIN t.slots

slot_count(t) == Cardinality(Slots(t))

(***************************************************************************)
(* The bounds of a table with n slots.  A faulty variant, not used, lets a *)
(* table fill up.                                                          *)
(***************************************************************************)
FullThreshold(n) == n

used_count_threshold(n) == n - n \div 4

tombstone_count_threshold(n) == n \div 8 + n \div 16

used_count_shrink_threshold(n) == IF n <= BucketLength THEN 0 ELSE n \div 4

(***************************************************************************)
(* The order in which a search visits the slots.  It starts at the hash's  *)
(* own position, goes round that bucket, and moves on by one bucket, two   *)
(* buckets, three ... at the same place in each.  Hashes 0 and 1 are kept  *)
(* for empty and deleted slots; a faulty variant, not used, forgets that.  *)
(***************************************************************************)
KeptHashes(key) == hash[key]

HashOf(key) == IF hash[key] < 2 THEN hash[key] + 2 ELSE hash[key]

VisitedBucket(h, n, v) ==
  (((h % n) + BucketLength * ((v * (v + 1)) \div 2)) % n) \div BucketLength

Probe(h, n) ==
  [k \in 0..(n - 1) |->
     (BucketLength * VisitedBucket(h, n, k \div BucketLength))
       + ((h + k) % BucketLength)]

(***************************************************************************)
(* The first step of a search at which a slot passes a test; there must be *)
(* one, the code would search for ever.                                    *)
(***************************************************************************)
FirstStep(t, h, Test(_)) ==
  CHOOSE k \in Slots(t) :
    /\ Test(t.slots[Probe(h, slot_count(t))[k]])
    /\ \A j \in 0..(k - 1) : ~Test(t.slots[Probe(h, slot_count(t))[j]])

EndsSearch(slot, ents, key) ==
  \/ slot.hash = Empty.hash
  \/ slot.hash = HashOf(key) /\ ents[slot.index].ssid = key

SearchStep(t, ents, key) ==
  FirstStep(t, HashOf(key), LAMBDA slot : EndsSearch(slot, ents, key))

(***************************************************************************)
(* stbds_hm_find_slot: the slot of a key, or an empty one when the key is  *)
(* not there.  stbds_hmget_key: the position it holds.                     *)
(***************************************************************************)
find_slot(t, ents, key) ==
  Probe(HashOf(key), slot_count(t))[SearchStep(t, ents, key)]

hmget_key(t, ents, key) == t.slots[find_slot(t, ents, key)].index

(***************************************************************************)
(* stbds_make_hash_index: a table with n slots, into which the slots in    *)
(* use of the old one are copied, in the order of the old table, each to   *)
(* the first free slot of its search.  A faulty variant, not used, copies  *)
(* each to its first position whether that is free or not.                 *)
(***************************************************************************)
EmptyTable(n) ==
  [slots |-> [k \in 0..(n - 1) |-> Empty], used |-> 0, tombstones |-> 0]

Copied(t, slot) ==
  LET step == FirstStep(t, slot.hash, LAMBDA s : s.hash = Empty.hash)
  IN  [t EXCEPT !.slots[Probe(slot.hash, slot_count(t))[step]] = slot]

CopiedOver(t, slot) ==
  [t EXCEPT !.slots[Probe(slot.hash, slot_count(t))[0]] = slot]

CopiesOverwrite(n, ot) ==
  LET after[k \in 0..slot_count(ot)] ==
        IF k = 0 THEN [EmptyTable(n) EXCEPT !.used = ot.used]
        ELSE IF InUse(ot.slots[k - 1])
               THEN CopiedOver(after[k - 1], ot.slots[k - 1])
               ELSE after[k - 1]
  IN  after[slot_count(ot)]

make_hash_index(n, ot) ==
  LET after[k \in 0..slot_count(ot)] ==
        IF k = 0 THEN [EmptyTable(n) EXCEPT !.used = ot.used]
        ELSE IF InUse(ot.slots[k - 1])
               THEN Copied(after[k - 1], ot.slots[k - 1])
               ELSE after[k - 1]
  IN  after[slot_count(ot)]

(***************************************************************************)
(* stbds_arrgrowf, by one element.  A faulty variant, not used: the        *)
(* capacity doubles only.                                                  *)
(***************************************************************************)
OnlyDoubles(length, cap) == IF length + 1 <= cap THEN cap ELSE 2 * cap

arrgrowf(length, cap) ==
  IF length + 1 <= cap THEN cap
  ELSE IF length + 1 < 2 * cap THEN 2 * cap
  ELSE IF length + 1 < 4 THEN 4
  ELSE length + 1

-----------------------------------------------------------------------------
Init ==
  /\ hash \in HashFunctions
  /\ entries = create_access_point_map
  /\ capacity = 0
  /\ table = NoTable
  /\ heap = {}

(***************************************************************************)
(* sh_new_strdup: an array that holds only the default element, and a      *)
(* table of one bucket.                                                    *)
(***************************************************************************)
shmode_func ==
  /\ table = NoTable
  /\ table' = EmptyTable(BucketLength)
  /\ capacity' = arrgrowf(0, 0)
  /\ UNCHANGED <<hash, entries, heap>>

(***************************************************************************)
(* shput.  The table grows first when it is full enough, for a key that is *)
(* present too.  A new key goes into the first deleted slot its search has *)
(* passed, else into the empty slot that ended it.                         *)
(***************************************************************************)
Grown(t) ==
  IF t.used >= used_count_threshold(slot_count(t))
    THEN make_hash_index(2 * slot_count(t), t)
    ELSE t

DeletedOnTheWay(t, key) ==
  {k \in 0..(SearchStep(t, entries, key) - 1) :
     t.slots[Probe(HashOf(key), slot_count(t))[k]] = Deleted}

(***************************************************************************)
(* A faulty variant of the next definition, not used: a reused slot is     *)
(* still counted as deleted.                                               *)
(***************************************************************************)
StillCounted(t, key) ==
  LET way   == DeletedOnTheWay(t, key)
      steps == IF way = {} THEN {SearchStep(t, entries, key)} ELSE way
      first == CHOOSE k \in steps : \A j \in steps : k <= j
      slot  == [hash |-> HashOf(key), index |-> Len(entries) + 1]
  IN  [t EXCEPT !.slots[Probe(HashOf(key), slot_count(t))[first]] = slot,
                !.used = @ + 1]

Inserted(t, key) ==
  LET way   == DeletedOnTheWay(t, key)
      steps == IF way = {} THEN {SearchStep(t, entries, key)} ELSE way
      first == CHOOSE k \in steps : \A j \in steps : k <= j
      slot  == [hash |-> HashOf(key), index |-> Len(entries) + 1]
  IN  [t EXCEPT !.slots[Probe(HashOf(key), slot_count(t))[first]] = slot,
                !.used = @ + 1,
                !.tombstones = IF way = {} THEN @ ELSE @ - 1]

shput(ap) ==
  /\ table # NoTable
  /\ LET t     == Grown(table)
         found == hmget_key(t, entries, ap.ssid)
     IN  \/ /\ found > 0
            /\ entries' = [entries EXCEPT ![found] = ap]
            /\ table' = t
            /\ UNCHANGED <<capacity, heap>>
         \/ /\ found = 0
            /\ entries' = Append(entries, ap)
            /\ heap' = heap \cup {ap.ssid}
            /\ capacity' = arrgrowf(Len(entries) + 1, capacity)
            /\ table' = Inserted(t, ap.ssid)
  /\ UNCHANGED hash

(***************************************************************************)
(* shdel, which the server does not call: the slot becomes a deleted one,  *)
(* the last entry moves to the position freed and its slot is told, and    *)
(* the table is made smaller, or rebuilt to be rid of deleted slots.       *)
(***************************************************************************)
SwapDeleted(k) ==
  LET final == Len(entries)
  IN  SubSeq([entries EXCEPT ![k] = entries[final]], 1, final - 1)

Resized(t) ==
  IF t.used < used_count_shrink_threshold(slot_count(t))
    THEN make_hash_index(slot_count(t) \div 2, t)
  ELSE IF t.tombstones > tombstone_count_threshold(slot_count(t))
    THEN make_hash_index(slot_count(t), t)
  ELSE t

(***************************************************************************)
(* A faulty variant of the next definition, not used: the key is freed     *)
(* after the last entry has moved over it.                                 *)
(***************************************************************************)
FreesAfterTheMove(key) ==
  /\ table # NoTable
  /\ hmget_key(table, entries, key) > 0
  /\ LET slot  == find_slot(table, entries, key)
         old   == table.slots[slot].index
         moved == entries[Len(entries)].ssid
         told  == [table EXCEPT
                     !.slots[find_slot(table, entries, moved)].index = old]
     IN  /\ table' = Resized([told EXCEPT !.slots[slot] = Deleted,
                                          !.used = @ - 1,
                                          !.tombstones = @ + 1])
         /\ entries' = SwapDeleted(old)
         /\ heap' = heap \ {moved}
  /\ UNCHANGED <<hash, capacity>>

shdel(key) ==
  /\ table # NoTable
  /\ hmget_key(table, entries, key) > 0
  /\ LET slot  == find_slot(table, entries, key)
         old   == table.slots[slot].index
         moved == entries[Len(entries)].ssid
         told  == [table EXCEPT
                     !.slots[find_slot(table, entries, moved)].index = old]
     IN  /\ table' = Resized([told EXCEPT !.slots[slot] = Deleted,
                                          !.used = @ - 1,
                                          !.tombstones = @ + 1])
         /\ entries' = SwapDeleted(old)
         /\ heap' = heap \ {key}
  /\ UNCHANGED <<hash, capacity>>

(***************************************************************************)
(* shfree: the copies of the keys, the table and the array.  The next map  *)
(* is made with another seed.                                              *)
(***************************************************************************)
shfree ==
  /\ table # NoTable
  /\ heap' = heap \ {entries[k].ssid : k \in DOMAIN entries}
  /\ entries' = create_access_point_map
  /\ capacity' = 0
  /\ table' = NoTable
  /\ hash' \in HashFunctions

Next ==
  \/ shmode_func
  \/ \E ap \in Points : shput(ap)
  \/ \E key \in Ssid : shdel(key)
  \/ shfree

Spec == Init /\ [][Next]_vars

-----------------------------------------------------------------------------
(***************************************************************************)
(* Every key is found at the position of its entry, and no other key is    *)
(* found: whatever the hashes, through growing, shrinking, rebuilding and  *)
(* the reuse of deleted slots.  shgeti is find_ssid_in_map.                *)
(***************************************************************************)
FindsEveryKey ==
  table # NoTable =>
    \A key \in Ssid :
      hmget_key(table, entries, key) = find_ssid_in_map(entries, key)

(***************************************************************************)
(* Every search ends: the slots a search visits are all slots, and one of  *)
(* them is empty (lines 934 and 935, "to avoid infinite loop, we need to   *)
(* guarantee that at least one slot is empty and will terminate probes").  *)
(***************************************************************************)
SearchesEnd ==
  table # NoTable =>
    \A key \in Ssid : \E k \in Slots(table) :
      table.slots[Probe(HashOf(key), slot_count(table))[k]] = Empty

(***************************************************************************)
(* The two counters that decide when the table is replaced are what they   *)
(* count, and as many slots are in use as there are entries.               *)
(***************************************************************************)
CountsAreRight ==
  /\ table.used = Cardinality({k \in Slots(table) : InUse(table.slots[k])})
  /\ table.tombstones =
       Cardinality({k \in Slots(table) : table.slots[k] = Deleted})
  /\ table.used = Len(entries)

(***************************************************************************)
(* Each entry owns the copy of its key, and no copy is left without an     *)
(* entry: none leaks, and none is freed under a live entry.                *)
(***************************************************************************)
KeysAreOwned == heap = {entries[k].ssid : k \in DOMAIN entries}

(***************************************************************************)
(* The array, with its default element, is never longer than its capacity  *)
(* (the assertion of line 1443), however arrgrowf chose that.              *)
(***************************************************************************)
FitsCapacity == table # NoTable => Len(entries) + 1 <= capacity

(***************************************************************************)
(* Seen through its entries the map is the one module AccessPointsData     *)
(* takes it for: shput is add_to_map.                                      *)
(***************************************************************************)
Abstract == INSTANCE StringMap WITH map <- entries

ImplementsStringMap == Abstract!MapSpec

=============================================================================

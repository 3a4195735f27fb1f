--------------------------- MODULE ServerMainProofs ---------------------------
(***************************************************************************)
(* Theorems about ServerMain, for every set of names, values and maps.     *)
(***************************************************************************)
EXTENDS ServerMain, AccessPointsDataProofs, FiniteSetTheorems, TLAPS

-----------------------------------------------------------------------------
(* Messages.                                                               *)

LEMMA CardinalityOfPair == Cardinality({"SNR", "channel"}) = 2
<1>1. /\ IsFiniteSet({"SNR"}) /\ Cardinality({"SNR"}) = 1
      /\ "channel" \notin {"SNR"}
  BY FS_Singleton
<1>2. Cardinality({"SNR"} \cup {"channel"}) = 2
  BY <1>1, FS_AddElement
<1>3. {"SNR"} \cup {"channel"} = {"SNR", "channel"}
  OBVIOUS
<1>4. QED
  BY <1>2, <1>3

LEMMA SendsMessages ==
  ASSUME NEW from \in AccessPoint, NEW to \in AccessPoint
  PROVE  /\ send_new_ssid(to) \in NewSsidMsg
         /\ send_removed_ssid(from) \in RemovedSsidMsg
         /\ send_param_change(from, to, detect_param_changes(from, to))
              \in ChangedSsidMsg
<1>1. send_new_ssid(to) \in NewSsidMsg
  BY DEF send_new_ssid, NewSsidMsg, AccessPoint, ParamsOf, Params
<1>2. send_removed_ssid(from) \in RemovedSsidMsg
  BY DEF send_removed_ssid, RemovedSsidMsg, AccessPoint
<1>3. send_param_change(from, to, detect_param_changes(from, to))
        \in ChangedSsidMsg
  <2> DEFINE changes == detect_param_changes(from, to)
             names == ChangedNames(changes)
             params == [p \in names |-> [old |-> from[p], new |-> to.SNR]]
  <2>1. names \in SUBSET {"SNR", "channel"}
    BY DEF ChangedNames
  <2>2. \A p \in names : from[p] \in Unsigned /\ to.SNR \in Unsigned
    <3>1. from.SNR \in Unsigned /\ from.channel \in Unsigned
      BY DEF AccessPoint
    <3>2. to.SNR \in Unsigned
      BY DEF AccessPoint
    <3>3. QED
      BY <2>1, <3>1, <3>2
  <2>3. params \in [names -> [old : Unsigned, new : Unsigned]]
    BY <2>2
  <2>4. params \in UNION {[ns -> [old : Unsigned, new : Unsigned]] :
                            ns \in SUBSET {"SNR", "channel"}}
    BY <2>1, <2>3
  <2>5. (IF changes.SNR_change THEN 1 ELSE 0)
          + (IF changes.channel_change THEN 1 ELSE 0) \in 0..2
    OBVIOUS
  <2>6. from.ssid \in Ssid
    BY DEF AccessPoint
  <2>7. QED
    BY <2>4, <2>5, <2>6 DEF send_param_change, ChangedSsidMsg
<1>4. QED
  BY <1>1, <1>2, <1>3

-----------------------------------------------------------------------------
(* What a message does to a subscriber's list.                             *)

LEMMA AppliedNew ==
  ASSUME NEW list \in Lists, NEW ap \in AccessPoint
  PROVE  /\ Applied(list, send_new_ssid(ap)) \in Lists
         /\ Applied(list, send_new_ssid(ap)) =
              [list EXCEPT ![ap.ssid] = ParamsOf(ap)]
<1>1. ap.ssid \in Ssid /\ ParamsOf(ap) \in Params
  BY DEF AccessPoint, ParamsOf, Params
<1>2. Applied(list, send_new_ssid(ap)) = [list EXCEPT ![ap.ssid] = ParamsOf(ap)]
  BY DEF Applied, send_new_ssid
<1>3. QED
  BY <1>1, <1>2 DEF Lists

LEMMA AppliedRemoved ==
  ASSUME NEW list \in Lists, NEW ap \in AccessPoint
  PROVE  /\ Applied(list, send_removed_ssid(ap)) \in Lists
         /\ Applied(list, send_removed_ssid(ap)) =
              [list EXCEPT ![ap.ssid] = Absent]
<1>1. ap.ssid \in Ssid
  BY DEF AccessPoint
<1>2. Applied(list, send_removed_ssid(ap)) = [list EXCEPT ![ap.ssid] = Absent]
  BY DEF Applied, send_removed_ssid
<1>3. QED
  BY <1>1, <1>2 DEF Lists

(***************************************************************************)
(* A CHANGED_SSID message brings the SNR of its access point up to date if *)
(* the subscriber held the old one.                                        *)
(***************************************************************************)
LEMMA AppliedChanged ==
  ASSUME NEW list \in Lists,
         NEW from \in AccessPoint, NEW to \in AccessPoint,
         list[from.ssid] # Absent,
         list[from.ssid].SNR = from.SNR
  PROVE  LET msg == send_param_change(from, to, detect_param_changes(from, to))
         IN  /\ Applied(list, msg) \in Lists
             /\ Applied(list, msg)[from.ssid] # Absent
             /\ Applied(list, msg)[from.ssid].SNR = to.SNR
             /\ \A s \in Ssid \ {from.ssid} : Applied(list, msg)[s] = list[s]
<1> DEFINE msg == send_param_change(from, to, detect_param_changes(from, to))
           names == ChangedNames(detect_param_changes(from, to))
           held == list[from.ssid]
           new == [p \in {"SNR", "channel"} |->
                     IF p \in names THEN to.SNR ELSE held[p]]
<1>1. /\ from.ssid \in Ssid
      /\ to.SNR \in Unsigned
      /\ held \in Params
  BY DEF AccessPoint, Lists
<1>2. held.SNR \in Unsigned /\ held.channel \in Unsigned
  BY <1>1 DEF Params
<1>3. msg.ssid = from.ssid /\ msg.id = "CHANGED_SSID"
  BY DEF send_param_change
<1>4. /\ msg.changes = [p \in names |-> [old |-> from[p], new |-> to.SNR]]
      /\ DOMAIN msg.changes = names
  BY DEF send_param_change
<1>5. \A p \in names : msg.changes[p].new = to.SNR
  BY <1>4
<1>6. Applied(list, msg) = [list EXCEPT ![from.ssid] = new]
  BY <1>1, <1>3, <1>4, <1>5 DEF Applied, Lists
<1>7. new \in Params
  <2>1. new["SNR"] \in Unsigned /\ new["channel"] \in Unsigned
    BY <1>1, <1>2
  <2>2. new = [SNR |-> new["SNR"], channel |-> new["channel"]]
    OBVIOUS
  <2>3. QED
    BY <2>1, <2>2 DEF Params
<1>8. new.SNR = to.SNR
  BY DEF ChangedNames, detect_param_changes
<1>9. Applied(list, msg) \in Lists /\ Applied(list, msg)[from.ssid] = new
  BY <1>1, <1>6, <1>7 DEF Lists
<1>10. \A s \in Ssid \ {from.ssid} : Applied(list, msg)[s] = list[s]
  BY <1>1, <1>6 DEF Lists
<1>11. QED
  BY <1>7, <1>8, <1>9, <1>10, AbsentAssumption

-----------------------------------------------------------------------------
(* The inductive invariant.                                                *)

(***************************************************************************)
(* Outside of a callback the loop index is at its start and no message of  *)
(* a batch is remembered.                                                  *)
(***************************************************************************)
Settled ==
  (InStartup \/ pc \in {"init_signal_handling", "monitor"})
    => i = 1 /\ batch = << >>

(***************************************************************************)
(* At every step of every loop, what the messages told is what the loop    *)
(* has done.  InSync is its instance between callbacks.                    *)
(***************************************************************************)
Tracks == pc # "return" => \A s \in Ssid : AgreeOn(view, Announced, s)

(***************************************************************************)
(* Which access points the messages of the batch in progress are about.    *)
(***************************************************************************)
BatchFollowsLoop ==
  \A j \in DOMAIN batch :
    /\ pc = "detect" => PassedIn(new_map, batch[j].ssid)
    /\ pc = "removal" => \/ HasKey(new_map, batch[j].ssid)
                         \/ PassedIn(current, batch[j].ssid)
    /\ pc = "deleted" => PassedIn(current, batch[j].ssid)

IInv == TypeOK /\ Settled /\ Tracks /\ BatchFollowsLoop /\ OneMessagePerSsid

LEMMA AnnouncedInLists == TypeOK => Announced \in Lists
<1> SUFFICES ASSUME TypeOK, NEW s \in Ssid
             PROVE  /\ ListOf(new_map)[s] \in Params \cup {Absent}
                    /\ ListOf(current)[s] \in Params \cup {Absent}
  BY DEF Announced, Lists
<1>1. new_map \in AccessPointMap /\ current \in AccessPointMap
  BY DEF TypeOK
<1>2. QED
  BY <1>1, ListOfMap DEF Lists

(***************************************************************************)
(* One turn of the pass over the new map: the access point it is about had *)
(* not been announced yet, it is afterwards, and the message sent fits.    *)
(***************************************************************************)
LEMMA DetectTurnEffect ==
  ASSUME TypeOK, DetectTurn
  PROVE  LET ap  == new_map[i]
             old == current[find_ssid_in_map(current, ap.ssid)]
         IN  /\ i \in DOMAIN new_map /\ ap \in AccessPoint
             /\ ~PassedIn(new_map, ap.ssid)
             /\ Announced[ap.ssid] = ListOf(current)[ap.ssid]
             /\ \A t \in Ssid : Announced'[t] =
                                 IF t = ap.ssid THEN ParamsOf(ap)
                                 ELSE Announced[t]
             /\ \/ /\ ~HasKey(current, ap.ssid)
                   /\ Send(send_new_ssid(ap))
                \/ /\ HasKey(current, ap.ssid)
                   /\ old \in AccessPoint
                   /\ old.ssid = ap.ssid
                   /\ Announced[ap.ssid] = ParamsOf(old)
                   /\ ParamsOf(old) # ParamsOf(ap)
                   /\ Send(send_param_change(old, ap,
                                             detect_param_changes(old, ap)))
                \/ /\ HasKey(current, ap.ssid)
                   /\ Announced[ap.ssid] = ParamsOf(ap)
                   /\ SendNothing
<1> DEFINE ap == new_map[i]
           f == find_ssid_in_map(current, ap.ssid)
           old == current[f]
           change == detect_changed_ssid(current, ap)
<1>1. /\ new_map \in AccessPointMap /\ current \in AccessPointMap
      /\ i \in Nat \ {0}
      /\ DOMAIN new_map = 1..Len(new_map) /\ Len(new_map) \in Nat
  BY DEF TypeOK, AccessPointMap
<1>2. /\ pc = "detect" /\ pc' = "detect" /\ i' = i + 1
      /\ new_map' = new_map /\ current' = current
  BY DEF DetectTurn, At
<1>3. i \in DOMAIN new_map
  BY <1>1 DEF DetectTurn, map_size
<1>4. ap \in AccessPoint /\ ap.ssid \in Ssid
  BY <1>1, <1>3, EntryIsAccessPoint
<1>5. ~PassedIn(new_map, ap.ssid)
  BY <1>1, <1>3 DEF PassedIn, AccessPointMap, DistinctKeys
<1>6. Announced[ap.ssid] = ListOf(current)[ap.ssid]
  BY <1>2, <1>4, <1>5
  DEF Announced, NewMapHolds, GoneFrom, InCleanup
<1>7. ASSUME NEW t \in Ssid
      PROVE  Announced'[t] = IF t = ap.ssid THEN ParamsOf(ap) ELSE Announced[t]
  <2>1. PassedIn(new_map, t)' <=> PassedIn(new_map, t) \/ t = ap.ssid
    BY <1>1, <1>2, <1>3 DEF PassedIn
  <2>2. Announced[t] = IF PassedIn(new_map, t) THEN ListOf(new_map)[t]
                       ELSE ListOf(current)[t]
    BY <1>2 DEF Announced, NewMapHolds, GoneFrom, InCleanup
  <2>3. Announced'[t] = IF PassedIn(new_map, t)' THEN ListOf(new_map)[t]
                        ELSE ListOf(current)[t]
    BY <1>2 DEF Announced, NewMapHolds, GoneFrom, InCleanup, ListOf
  <2>4. ListOf(new_map)[ap.ssid] = ParamsOf(ap)
    BY <1>1, <1>3, ListOfMap
  <2>5. QED
    BY <2>1, <2>2, <2>3, <2>4
<1>8. CASE ~HasKey(current, ap.ssid)
  <2>1. change.change_type = "NEW_SSID"
    BY <1>1, <1>8, FindFinds DEF detect_changed_ssid
  <2>2. Send(send_new_ssid(ap))
    BY <2>1 DEF DetectTurn
  <2>3. QED
    BY <1>3, <1>4, <1>5, <1>6, <1>7, <1>8, <2>2
<1>9. CASE HasKey(current, ap.ssid)
  <2>1. /\ f \in DOMAIN current /\ f # AP_MAP_NOT_FOUND
        /\ old \in AccessPoint /\ old.ssid = ap.ssid
    BY <1>1, <1>9, FindFinds, EntryIsAccessPoint
  <2>2. Announced[ap.ssid] = ParamsOf(old)
    BY <1>1, <1>6, <2>1, ListOfMap
  <2>3. CASE old.SNR = ap.SNR /\ old.channel = ap.channel
    <3>1. change.change_type = "NO_CHANGE"
      BY <2>1, <2>3 DEF detect_changed_ssid
    <3>2. SendNothing
      BY <3>1 DEF DetectTurn
    <3>3. ParamsOf(old) = ParamsOf(ap)
      BY <2>3 DEF ParamsOf
    <3>4. QED
      BY <1>3, <1>4, <1>5, <1>6, <1>7, <1>9, <2>2, <3>2, <3>3
  <2>4. CASE ~(old.SNR = ap.SNR /\ old.channel = ap.channel)
    <3>1. /\ change.change_type = "PARAM_CHANGE"
          /\ change.changed_ssid_index = f
      BY <2>1, <2>4 DEF detect_changed_ssid
    <3>2. Send(send_param_change(old, ap, detect_param_changes(old, ap)))
      BY <3>1 DEF DetectTurn
    <3>3. ParamsOf(old) # ParamsOf(ap)
      BY <2>4 DEF ParamsOf
    <3>4. QED
      BY <1>3, <1>4, <1>5, <1>6, <1>7, <1>9, <2>1, <2>2, <3>2, <3>3
  <2>5. QED
    BY <2>3, <2>4
<1>10. QED
  BY <1>8, <1>9

(***************************************************************************)
(* One turn of a pass over the current map that drops an access point from *)
(* the announced list, shared by RemovalTurn and DeletedTurn.              *)
(***************************************************************************)
LEMMA CurrentTurnEffect ==
  ASSUME TypeOK, i <= Len(current), i' = i + 1,
         pc \in {"removal", "deleted"}, pc' = pc,
         new_map' = new_map, current' = current
  PROVE  LET ap == current[i]
             kept == pc = "removal" /\ HasKey(new_map, ap.ssid)
         IN  /\ i \in DOMAIN current /\ ap \in AccessPoint
             /\ ~PassedIn(current, ap.ssid)
             /\ ~kept => Announced[ap.ssid] = ParamsOf(ap)
             /\ \A t \in Ssid : Announced'[t] =
                                 IF t = ap.ssid /\ ~kept THEN Absent
                                 ELSE Announced[t]
<1> DEFINE ap == current[i]
           kept == pc = "removal" /\ HasKey(new_map, ap.ssid)
<1>1. /\ current \in AccessPointMap
      /\ i \in Nat \ {0}
      /\ DOMAIN current = 1..Len(current) /\ Len(current) \in Nat
  BY DEF TypeOK, AccessPointMap
<1>2. i \in DOMAIN current
  BY <1>1
<1>3. ap \in AccessPoint /\ ap.ssid \in Ssid
  BY <1>1, <1>2, EntryIsAccessPoint
<1>4. ~PassedIn(current, ap.ssid)
  BY <1>1, <1>2 DEF PassedIn, AccessPointMap, DistinctKeys
<1>5. ListOf(current)[ap.ssid] = ParamsOf(ap)
  BY <1>1, <1>2, ListOfMap
<1>6. ~kept => Announced[ap.ssid] = ParamsOf(ap)
  BY <1>3, <1>4, <1>5 DEF Announced, NewMapHolds, GoneFrom
<1>7. ASSUME NEW t \in Ssid
      PROVE  Announced'[t] = IF t = ap.ssid /\ ~kept THEN Absent
                             ELSE Announced[t]
  <2> DEFINE stays == pc = "removal" /\ HasKey(new_map, t)
  <2>1. PassedIn(current, t)' <=> PassedIn(current, t) \/ t = ap.ssid
    BY <1>1, <1>2 DEF PassedIn
  <2>2. Announced[t] = IF stays THEN ListOf(new_map)[t]
                       ELSE IF PassedIn(current, t) THEN Absent
                       ELSE ListOf(current)[t]
    BY DEF Announced, NewMapHolds, GoneFrom
  <2>3. Announced'[t] = IF stays THEN ListOf(new_map)[t]
                        ELSE IF PassedIn(current, t)' THEN Absent
                        ELSE ListOf(current)[t]
    BY DEF Announced, NewMapHolds, GoneFrom, ListOf, HasKey
  <2>4. QED
    BY <2>1, <2>2, <2>3
<1>8. QED
  BY <1>2, <1>3, <1>4, <1>6, <1>7

(***************************************************************************)
(* The steps between the loops do not change what has been announced.      *)
(***************************************************************************)
LEMMA QuietSteps ==
  ASSUME TypeOK, Settled,
         \/ init_communication \/ init_signal_handling \/ termination_handler
         \/ \E parsed \in ParsedMaps \cup {NULL} : file_modified(parsed)
         \/ DetectEnd \/ RemovalEnd \/ file_deleted \/ DeletedEnd
         \/ monitor_file_fails \/ cleanup_communication
  PROVE  \A s \in Ssid : Announced'[s] = Announced[s]
<1> SUFFICES ASSUME NEW s \in Ssid PROVE Announced'[s] = Announced[s]
  OBVIOUS
<1> USE DEF At
<1>0. /\ new_map \in AccessPointMap /\ current \in AccessPointMap
      /\ DOMAIN new_map = 1..Len(new_map) /\ Len(new_map) \in Nat
      /\ DOMAIN current = 1..Len(current) /\ Len(current) \in Nat
      /\ i \in Nat \ {0}
  BY DEF TypeOK, AccessPointMap
<1>2. CASE init_communication \/ init_signal_handling
  BY <1>2 DEF init_communication, init_signal_handling, Announced,
              NewMapHolds, GoneFrom, InCleanup, PassedIn, ListOf
<1>3. CASE termination_handler
  BY <1>3 DEF termination_handler, Announced,
              NewMapHolds, GoneFrom, InCleanup, PassedIn, ListOf
<1>4. CASE \E parsed \in ParsedMaps \cup {NULL} : file_modified(parsed)
  <2>1. PICK parsed \in ParsedMaps \cup {NULL} : file_modified(parsed)
    BY <1>4
  <2>2. CASE parsed = NULL
    BY <2>1, <2>2 DEF file_modified, Announced,
                      NewMapHolds, GoneFrom, InCleanup, PassedIn, ListOf
  <2>3. CASE parsed # NULL
    <3>1. /\ parsed \in AccessPointMap
          /\ pc = "monitor" /\ pc' = "detect" /\ i' = 1 /\ new_map' = parsed
          /\ current' = current
      BY <2>1, <2>3, ParsedMapsAssumption DEF file_modified
    <3>2. DOMAIN parsed = 1..Len(parsed) /\ Len(parsed) \in Nat
      BY <3>1 DEF AccessPointMap
    <3>3. ~PassedIn(new_map, s)'
      BY <3>1, <3>2 DEF PassedIn
    <3>4. QED
      BY <3>1, <3>3 DEF Announced, NewMapHolds, GoneFrom, InCleanup, ListOf
  <2>4. QED
    BY <2>2, <2>3
<1>5. CASE DetectEnd
  <2>1. /\ pc = "detect" /\ pc' = "removal" /\ i > Len(new_map) /\ i' = 1
        /\ new_map' = new_map /\ current' = current
    BY <1>5 DEF DetectEnd, map_size
  <2>2. PassedIn(new_map, s) <=> HasKey(new_map, s)
    BY <1>0, <2>1 DEF PassedIn, HasKey
  <2>3. ~PassedIn(current, s)'
    BY <1>0, <2>1 DEF PassedIn
  <2>4. QED
    BY <2>1, <2>2, <2>3
    DEF Announced, NewMapHolds, GoneFrom, InCleanup, ListOf, HasKey
<1>6. CASE RemovalEnd
  <2>1. /\ pc = "removal" /\ pc' = "monitor" /\ i > Len(current)
        /\ current' = new_map
    BY <1>6 DEF RemovalEnd, map_size
  <2>2. PassedIn(current, s) <=> HasKey(current, s)
    BY <1>0, <2>1 DEF PassedIn, HasKey
  <2>3. Announced[s] = ListOf(new_map)[s]
    BY <1>0, <2>1, <2>2, ListOfMap
    DEF Announced, NewMapHolds, GoneFrom, InCleanup
  <2>4. Announced'[s] = ListOf(new_map)[s]
    BY <2>1 DEF Announced, NewMapHolds, GoneFrom, InCleanup, ListOf
  <2>5. QED
    BY <2>3, <2>4
<1>7. CASE file_deleted \/ monitor_file_fails
  <2>1. /\ pc = "monitor" /\ i' = 1 /\ current' = current
        /\ pc' \in {"deleted", "cleanup_communication"}
    BY <1>7 DEF file_deleted, monitor_file_fails, Settled
  <2>2. ~PassedIn(current, s)'
    BY <1>0, <2>1 DEF PassedIn
  <2>3. QED
    BY <2>1, <2>2 DEF Announced, NewMapHolds, GoneFrom, InCleanup, ListOf
<1>8. CASE DeletedEnd \/ cleanup_communication
  BY <1>8 DEF DeletedEnd, cleanup_communication, Announced,
              NewMapHolds, GoneFrom, InCleanup, PassedIn, ListOf
<1>9. QED
  BY <1>2, <1>3, <1>4, <1>5, <1>6, <1>7, <1>8

(***************************************************************************)
(* A message about an access point no message of the batch is about.       *)
(***************************************************************************)
LEMMA BatchGrows ==
  ASSUME batch \in Seq(Message), NEW msg \in Message,
         batch' = Append(batch, msg), OneMessagePerSsid,
         \A j \in DOMAIN batch : batch[j].ssid # msg.ssid
  PROVE  /\ batch' \in Seq(Message)
         /\ OneMessagePerSsid'
         /\ \A j \in DOMAIN batch' : \/ batch'[j].ssid = msg.ssid
                                     \/ \E k \in DOMAIN batch :
                                          batch'[j].ssid = batch[k].ssid
<1>1. /\ batch' \in Seq(Message)
      /\ DOMAIN batch = 1..Len(batch) /\ Len(batch) \in Nat
      /\ DOMAIN batch' = 1..(Len(batch) + 1)
      /\ \A j \in DOMAIN batch : batch'[j] = batch[j]
      /\ batch'[Len(batch) + 1] = msg
  OBVIOUS
<1>2. OneMessagePerSsid'
  <2> SUFFICES ASSUME NEW j \in DOMAIN batch', NEW k \in DOMAIN batch',
                      batch'[j].ssid = batch'[k].ssid
               PROVE  j = k
    BY DEF OneMessagePerSsid
  <2>1. CASE j \in DOMAIN batch /\ k \in DOMAIN batch
    BY <1>1, <2>1 DEF OneMessagePerSsid
  <2>2. CASE ~(j \in DOMAIN batch /\ k \in DOMAIN batch)
    BY <1>1, <2>2
  <2>3. QED
    BY <2>1, <2>2
<1>3. QED
  BY <1>1, <1>2

LEMMA InitInvariant == Init => IInv
<1> SUFFICES ASSUME Init PROVE IInv
  OBVIOUS
<1> USE DEF Init
<1>1. TypeOK
  <2>1. view \in Lists
    BY DEF Lists
  <2>2. << >> \in Seq(Message) /\ 1 \in Nat \ {0}
    OBVIOUS
  <2>3. QED
    BY <2>1, <2>2, EmptyMap DEF TypeOK, InStartup
<1>2. Settled /\ OneMessagePerSsid /\ BatchFollowsLoop
  BY DEF Settled, OneMessagePerSsid, BatchFollowsLoop
<1>3. Tracks
  <2>1. \A s \in Ssid : Announced[s] = Absent
    BY EmptyMap DEF Announced, NewMapHolds, GoneFrom, InCleanup
  <2>2. QED
    BY <2>1 DEF Tracks, AgreeOn
<1>4. QED
  BY <1>1, <1>2, <1>3 DEF IInv

(***************************************************************************)
(* The start of the server: the subscriber and the current map both start  *)
(* from what the first parse returned.                                     *)
(***************************************************************************)
LEMMA InitDataStep ==
  ASSUME IInv, NEW parsed \in ParsedMaps \cup {NULL}, init_data(parsed)
  PROVE  IInv'
<1> USE DEF IInv, init_data, At
<1>1. CASE parsed = NULL
  <2>1. \A s \in Ssid : Announced'[s] = Announced[s]
    BY <1>1 DEF Announced, NewMapHolds, GoneFrom, InCleanup, PassedIn, ListOf
  <2>2. Tracks'
    BY <1>1, <2>1 DEF Tracks, AgreeOn
  <2>3. QED
    BY <1>1, <2>2 DEF TypeOK, Settled, InStartup, InMonitor, InCleanup,
                      BatchFollowsLoop, PassedIn, OneMessagePerSsid
<1>2. CASE parsed # NULL
  <2>1. /\ parsed \in AccessPointMap
        /\ current' = parsed /\ view' = ListOf(parsed)
        /\ pc = "init_data" /\ pc' = "init_communication"
    BY <1>2, ParsedMapsAssumption
  <2>2. TypeOK'
    BY <2>1, ListOfMap DEF TypeOK, InStartup
  <2>3. Tracks'
    <3>1. \A s \in Ssid : Announced'[s] = view'[s]
      BY <2>1 DEF Announced, NewMapHolds, GoneFrom, InCleanup, ListOf
    <3>2. QED
      BY <3>1 DEF Tracks, AgreeOn
  <2>4. Settled' /\ OneMessagePerSsid' /\ BatchFollowsLoop'
    BY <2>1 DEF Settled, InStartup, OneMessagePerSsid, BatchFollowsLoop
  <2>5. QED
    BY <2>2, <2>3, <2>4
<1>3. QED
  BY <1>1, <1>2

(***************************************************************************)
(* A turn of the pass over the new map: by DetectTurnEffect the message,   *)
(* if any, is about an access point that had none in this batch, and moves *)
(* the subscriber's list as the announced one moves.                       *)
(***************************************************************************)
LEMMA DetectTurnStep ==
  ASSUME IInv, DetectTurn
  PROVE  IInv'
<1> DEFINE ap == new_map[i]
           old == current[find_ssid_in_map(current, ap.ssid)]
<1> USE DEF IInv
<1>1. /\ pc = "detect" /\ pc' = "detect" /\ i' = i + 1
      /\ exited' = exited /\ pub_socket' = pub_socket
      /\ new_map' = new_map /\ current' = current
  BY DEF DetectTurn, At
<1>2. /\ i \in DOMAIN new_map /\ ap \in AccessPoint
      /\ ~PassedIn(new_map, ap.ssid)
      /\ Announced[ap.ssid] = ListOf(current)[ap.ssid]
      /\ \A t \in Ssid : Announced'[t] =
                          IF t = ap.ssid THEN ParamsOf(ap) ELSE Announced[t]
  BY DetectTurnEffect
<1>3. /\ i \in Nat \ {0} /\ i' \in Nat \ {0}
      /\ ap.ssid \in Ssid
      /\ new_map \in AccessPointMap /\ current \in AccessPointMap
      /\ ParamsOf(ap) # Absent /\ ParamsOf(ap).SNR = ap.SNR
  BY <1>1, <1>2, AbsentAssumption
  DEF TypeOK, AccessPoint, ParamsOf, Params
<1>4. \A s : PassedIn(new_map, s)' <=> PassedIn(new_map, s) \/ s = ap.ssid
  BY <1>1, <1>2, <1>3 DEF PassedIn, AccessPointMap
<1>5. \A j \in DOMAIN batch : batch[j].ssid # ap.ssid
  BY <1>1, <1>2 DEF BatchFollowsLoop
<1>6. ASSUME view' \in Lists, sent' \in Message \cup {NoMsg},
             batch' \in Seq(Message)
      PROVE  TypeOK'
  BY <1>1, <1>3, <1>6 DEF TypeOK, InMonitor
<1>7. Settled'
  BY <1>1 DEF Settled, InStartup
<1>8. ASSUME NEW msg \in Message, Send(msg), msg.ssid = ap.ssid
      PROVE  /\ sent' \in Message /\ batch' \in Seq(Message)
             /\ OneMessagePerSsid' /\ BatchFollowsLoop'
  <2>1. /\ batch' \in Seq(Message) /\ OneMessagePerSsid'
        /\ \A j \in DOMAIN batch' : \/ batch'[j].ssid = msg.ssid
                                    \/ \E k \in DOMAIN batch :
                                         batch'[j].ssid = batch[k].ssid
    BY <1>5, <1>8, BatchGrows DEF TypeOK, Send
  <2>2. ASSUME NEW j \in DOMAIN batch'
        PROVE  PassedIn(new_map, batch'[j].ssid) \/ batch'[j].ssid = ap.ssid
    BY <1>1, <1>8, <2>1 DEF BatchFollowsLoop
  <2>3. BatchFollowsLoop'
    BY <1>1, <1>4, <2>2 DEF BatchFollowsLoop
  <2>4. QED
    BY <1>8, <2>1, <2>3 DEF Send
<1>9. CASE /\ ~HasKey(current, ap.ssid)
           /\ Send(send_new_ssid(ap))
  <2>1. send_new_ssid(ap) \in Message /\ send_new_ssid(ap).ssid = ap.ssid
    BY <1>2, SendsMessages DEF Message, send_new_ssid
  <2>2. view' = [view EXCEPT ![ap.ssid] = ParamsOf(ap)] /\ view' \in Lists
    BY <1>2, <1>9, AppliedNew DEF Send, TypeOK
  <2>3. Tracks'
    BY <1>1, <1>2, <1>3, <2>2 DEF Tracks, AgreeOn, TypeOK, Lists
  <2>4. QED
    BY <1>6, <1>7, <1>8, <1>9, <2>1, <2>2, <2>3
<1>10. CASE /\ old \in AccessPoint
            /\ old.ssid = ap.ssid
            /\ Announced[ap.ssid] = ParamsOf(old)
            /\ Send(send_param_change(old, ap,
                                      detect_param_changes(old, ap)))
  <2> DEFINE msg == send_param_change(old, ap, detect_param_changes(old, ap))
  <2>1. msg \in Message /\ msg.ssid = ap.ssid
    BY <1>2, <1>10, SendsMessages DEF Message, send_param_change
  <2>2. ParamsOf(old) # Absent /\ ParamsOf(old).SNR = old.SNR
    BY <1>10, AbsentAssumption DEF AccessPoint, ParamsOf, Params
  <2>3. view[old.ssid] # Absent /\ view[old.ssid].SNR = old.SNR
    BY <1>1, <1>3, <1>10, <2>2 DEF Tracks, AgreeOn
  <2>4. /\ view' \in Lists
        /\ view'[ap.ssid] # Absent
        /\ view'[ap.ssid].SNR = ap.SNR
        /\ \A s \in Ssid \ {ap.ssid} : view'[s] = view[s]
    BY <1>2, <1>10, <2>3, AppliedChanged DEF Send, TypeOK
  <2>5. Tracks'
    BY <1>1, <1>2, <1>3, <2>4 DEF Tracks, AgreeOn
  <2>6. QED
    BY <1>6, <1>7, <1>8, <1>10, <2>1, <2>4, <2>5
<1>11. CASE /\ Announced[ap.ssid] = ParamsOf(ap)
            /\ SendNothing
  <2>1. Tracks'
    BY <1>1, <1>2, <1>11 DEF Tracks, AgreeOn, SendNothing
  <2>2. BatchFollowsLoop'
    BY <1>1, <1>4, <1>11 DEF BatchFollowsLoop, SendNothing
  <2>3. QED
    BY <1>6, <1>7, <1>11, <2>1, <2>2
    DEF SendNothing, OneMessagePerSsid, TypeOK
<1>12. QED
  BY <1>9, <1>10, <1>11, DetectTurnEffect

(***************************************************************************)
(* A turn over the current map that announces a removal, in the pass after *)
(* a modification or in the one after the deletion.                        *)
(***************************************************************************)
LEMMA RemovingStep ==
  ASSUME IInv, i <= Len(current), i' = i + 1,
         pc \in {"removal", "deleted"}, pc' = pc,
         pc = "removal" => ~HasKey(new_map, current[i].ssid),
         exited' = exited, pub_socket' = pub_socket,
         new_map' = new_map, current' = current,
         Send(send_removed_ssid(current[i]))
  PROVE  IInv'
<1> DEFINE ap == current[i]
           msg == send_removed_ssid(ap)
<1> USE DEF IInv
<1>1. /\ i \in DOMAIN current /\ ap \in AccessPoint
      /\ ~PassedIn(current, ap.ssid)
      /\ \A t \in Ssid : Announced'[t] =
                          IF t = ap.ssid THEN Absent ELSE Announced[t]
  BY CurrentTurnEffect
<1>2. /\ i \in Nat \ {0} /\ ap.ssid \in Ssid
      /\ new_map \in AccessPointMap /\ current \in AccessPointMap
  BY <1>1 DEF TypeOK, AccessPoint
<1>3. msg \in Message /\ msg.ssid = ap.ssid
  BY <1>1, SendsMessages DEF Message, send_removed_ssid
<1>4. view' = [view EXCEPT ![ap.ssid] = Absent] /\ view' \in Lists
  BY <1>1, AppliedRemoved DEF Send, TypeOK
<1>5. \A j \in DOMAIN batch : batch[j].ssid # msg.ssid
  BY <1>1, <1>3 DEF BatchFollowsLoop
<1>6. /\ batch' \in Seq(Message) /\ OneMessagePerSsid'
      /\ \A j \in DOMAIN batch' : \/ batch'[j].ssid = msg.ssid
                                  \/ \E k \in DOMAIN batch :
                                       batch'[j].ssid = batch[k].ssid
  BY <1>3, <1>5, BatchGrows DEF TypeOK, Send
<1>7. TypeOK'
  BY <1>2, <1>3, <1>4, <1>6 DEF TypeOK, InMonitor, Send
<1>8. Settled'
  BY DEF Settled, InStartup
<1>9. Tracks'
  BY <1>1, <1>4 DEF Tracks, AgreeOn, TypeOK, Lists
<1>10. BatchFollowsLoop'
  <2>1. \A s : PassedIn(current, s)' <=> PassedIn(current, s) \/ s = ap.ssid
    BY <1>1, <1>2 DEF PassedIn, AccessPointMap
  <2>2. ASSUME NEW j \in DOMAIN batch'
        PROVE  \/ pc = "removal" /\ HasKey(new_map, batch'[j].ssid)
               \/ PassedIn(current, batch'[j].ssid)
               \/ batch'[j].ssid = ap.ssid
    BY <1>3, <1>6 DEF BatchFollowsLoop
  <2>3. QED
    BY <2>1, <2>2 DEF BatchFollowsLoop, HasKey
<1>11. QED
  BY <1>6, <1>7, <1>8, <1>9, <1>10

(***************************************************************************)
(* The steps between the loops: what was announced, and the subscriber's   *)
(* list, stay; the batch is empty where a new loop starts.                 *)
(***************************************************************************)
LEMMA QuietInvariant ==
  ASSUME IInv,
         \/ init_communication \/ init_signal_handling \/ termination_handler
         \/ \E parsed \in ParsedMaps \cup {NULL} : file_modified(parsed)
         \/ DetectEnd \/ RemovalEnd \/ file_deleted \/ DeletedEnd
         \/ monitor_file_fails \/ cleanup_communication
  PROVE  IInv'
<1> USE DEF IInv, At
<1>1. view' = view /\ sent' = sent /\ (batch' = batch \/ batch' = << >>)
  BY DEF init_communication, init_signal_handling, termination_handler,
         file_modified, DetectEnd, RemovalEnd, file_deleted, DeletedEnd,
         monitor_file_fails, cleanup_communication, SendNothing
<1>2. pc # "return" \/ pc' = "return"
  BY DEF init_communication, init_signal_handling, termination_handler,
         file_modified, DetectEnd, RemovalEnd, file_deleted, DeletedEnd,
         monitor_file_fails, cleanup_communication
<1>3. Tracks'
  <2>1. \A s \in Ssid : Announced'[s] = Announced[s]
    BY QuietSteps
  <2>2. QED
    BY <1>1, <1>2, <2>1 DEF Tracks, AgreeOn
<1>4. OneMessagePerSsid'
  BY <1>1 DEF OneMessagePerSsid
<1>5. TypeOK'
  <2>1. << >> \in Seq(Message) /\ << >> \in AccessPointMap
    BY EmptyMap
  <2>2. batch' \in Seq(Message) /\ sent' \in Message \cup {NoMsg}
        /\ view' \in Lists
    BY <1>1, <2>1 DEF TypeOK
  <2>3. /\ exited' = exited \/ exited' = TRUE
        /\ pub_socket' \in {pub_socket, TRUE, FALSE}
        /\ i' = i \/ i' = 1
    BY DEF init_communication, init_signal_handling,
           termination_handler, file_modified, DetectEnd, RemovalEnd,
           file_deleted, DeletedEnd, monitor_file_fails, cleanup_communication
  <2>4. current' \in AccessPointMap /\ new_map' \in AccessPointMap
    BY <2>1, ParsedMapsAssumption
    DEF TypeOK, init_communication, init_signal_handling,
        termination_handler, file_modified, DetectEnd, RemovalEnd,
        file_deleted, DeletedEnd, monitor_file_fails, cleanup_communication
  <2>5. (\/ pc = "init_signal_handling"
         \/ InStartup \/ InMonitor \/ InCleanup)'
    BY DEF InStartup, InMonitor, InCleanup, init_communication,
           init_signal_handling, termination_handler, file_modified,
           DetectEnd, RemovalEnd, file_deleted, DeletedEnd,
           monitor_file_fails, cleanup_communication
  <2>6. exited' \in BOOLEAN /\ pub_socket' \in BOOLEAN
    BY <2>3, Zenon DEF TypeOK
  <2>7. QED
    BY <2>2, <2>3, <2>4, <2>5, <2>6 DEF TypeOK
<1>6. Settled'
  BY DEF Settled, InStartup, InMonitor, InCleanup, init_communication,
         init_signal_handling, termination_handler, file_modified,
         DetectEnd, RemovalEnd, file_deleted, DeletedEnd,
         monitor_file_fails, cleanup_communication, SendNothing
<1>7. BatchFollowsLoop'
  <2>1. CASE DetectEnd
    <3>1. /\ pc = "detect" /\ pc' = "removal" /\ batch' = batch
          /\ new_map' = new_map
      BY <2>1 DEF DetectEnd, SendNothing
    <3>2. \A j \in DOMAIN batch : HasKey(new_map, batch[j].ssid)
      BY <3>1 DEF BatchFollowsLoop, PassedIn, HasKey
    <3>3. QED
      BY <3>1, <3>2 DEF BatchFollowsLoop, HasKey
  <2>2. CASE termination_handler
    BY <2>2 DEF termination_handler, BatchFollowsLoop, PassedIn, HasKey
  <2>3. CASE \/ init_communication \/ init_signal_handling
             \/ RemovalEnd \/ DeletedEnd
             \/ monitor_file_fails \/ cleanup_communication
    BY <2>3 DEF BatchFollowsLoop, init_communication, init_signal_handling,
                RemovalEnd, DeletedEnd, monitor_file_fails,
                cleanup_communication
  <2>4. CASE \/ file_deleted
             \/ \E parsed \in ParsedMaps \cup {NULL} : file_modified(parsed)
    BY <2>4 DEF BatchFollowsLoop, file_deleted, file_modified, Settled,
                SendNothing
  <2>5. QED
    BY <2>1, <2>2, <2>3, <2>4
<1>8. QED
  BY <1>3, <1>4, <1>5, <1>6, <1>7

(***************************************************************************)
(* The invariant is inductive: one step per action of the server.          *)
(***************************************************************************)
LEMMA StepInvariant == IInv /\ [Next]_vars => IInv'
<1> SUFFICES ASSUME IInv, [Next]_vars PROVE IInv'
  OBVIOUS
<1>1. ASSUME NEW parsed \in ParsedMaps \cup {NULL}, init_data(parsed)
      PROVE  IInv'
  BY <1>1, InitDataStep
<1>2. CASE \/ init_communication \/ init_signal_handling
           \/ termination_handler \/ FileEvent
           \/ DetectEnd \/ RemovalEnd \/ DeletedEnd \/ cleanup_communication
  BY <1>2, QuietInvariant DEF FileEvent
<1>3. CASE DetectTurn
  BY <1>3, DetectTurnStep
<1>4. CASE RemovalTurn
  <2>1. /\ pc = "removal" /\ pc' = pc /\ i <= Len(current) /\ i' = i + 1
        /\ exited' = exited /\ pub_socket' = pub_socket
        /\ current' = current /\ new_map' = new_map
    BY <1>4 DEF RemovalTurn, At, map_size
  <2>2. /\ new_map \in AccessPointMap
        /\ i \in DOMAIN current /\ current[i] \in AccessPoint
    BY <2>1, CurrentTurnEffect DEF IInv, TypeOK
  <2>3. CASE ~HasKey(new_map, current[i].ssid)
    <3>1. Send(send_removed_ssid(current[i]))
      BY <1>4, <2>2, <2>3, FindFinds DEF RemovalTurn
    <3>2. QED
      BY <2>1, <2>3, <3>1, RemovingStep
  <2>4. CASE HasKey(new_map, current[i].ssid)
    <3>1. SendNothing
      BY <1>4, <2>2, <2>4, FindFinds DEF RemovalTurn
    <3>2. \A s \in Ssid : Announced'[s] = Announced[s]
      BY <2>1, <2>4, CurrentTurnEffect DEF IInv
    <3>3. Tracks'
      BY <2>1, <3>1, <3>2 DEF IInv, Tracks, AgreeOn, SendNothing
    <3>4. BatchFollowsLoop'
      <4>1. \A s : PassedIn(current, s) => PassedIn(current, s)'
        BY <2>1, <2>2 DEF PassedIn, IInv, TypeOK, AccessPointMap
      <4>2. QED
        BY <2>1, <3>1, <4>1
        DEF IInv, BatchFollowsLoop, SendNothing, HasKey
    <3>5. TypeOK' /\ Settled' /\ OneMessagePerSsid'
      BY <2>1, <3>1 DEF IInv, TypeOK, Settled, OneMessagePerSsid,
                        SendNothing, InStartup, InMonitor, InCleanup
    <3>6. QED
      BY <3>3, <3>4, <3>5 DEF IInv
  <2>5. QED
    BY <2>3, <2>4
<1>5. CASE DeletedTurn
  BY <1>5, RemovingStep DEF DeletedTurn, At, map_size
<1>6. CASE cleanup_data
  <2>1. /\ pc' = "return" /\ i' = 1 /\ current' = << >> /\ exited' = TRUE
        /\ UNCHANGED <<pub_socket, new_map, sent, batch, view>>
    BY <1>6 DEF cleanup_data
  <2>2. TypeOK'
    BY <2>1, EmptyMap DEF IInv, TypeOK, InCleanup
  <2>3. QED
    BY <2>1, <2>2 DEF IInv, Settled, InStartup, Tracks, BatchFollowsLoop,
                      OneMessagePerSsid
<1>7. CASE UNCHANGED vars
  BY <1>7 DEF vars, IInv, TypeOK, Settled, Tracks, BatchFollowsLoop,
              OneMessagePerSsid, InStartup, InMonitor, InCleanup, AgreeOn,
              Announced, NewMapHolds, GoneFrom, PassedIn, ListOf, HasKey
<1>8. QED
  BY <1>1, <1>2, <1>3, <1>4, <1>5, <1>6, <1>7
  DEF Next, Startup, CallbackStep, Cleanup, FileEvent

THEOREM InvariantHolds == Spec => []IInv
<1>1. QED
  BY InitInvariant, StepInvariant, PTL DEF Spec

-----------------------------------------------------------------------------
(* What follows for the properties ServerMain states.                      *)

(***************************************************************************)
(* Every variable keeps its type, the maps their distinct keys.            *)
(***************************************************************************)
THEOREM TypeCorrect == Spec => []TypeOK
<1>1. IInv => TypeOK
  BY DEF IInv
<1>2. QED
  BY InvariantHolds, <1>1, PTL

(***************************************************************************)
(* Whatever files the server parsed, between callbacks a subscriber that   *)
(* applied every message holds the access points of the current map.       *)
(***************************************************************************)
THEOREM SubscriberInSync == Spec => []InSync
<1>1. IInv => InSync
  <2> SUFFICES ASSUME IInv, pc = "monitor", NEW s \in Ssid
               PROVE  AgreeOn(view, ListOf(current), s)
    BY DEF InSync
  <2>1. AgreeOn(view, Announced, s)
    BY DEF IInv, Tracks
  <2>2. Announced[s] = ListOf(current)[s]
    BY DEF Announced, NewMapHolds, GoneFrom, InCleanup
  <2>3. QED
    BY <2>1, <2>2 DEF AgreeOn
<1>2. QED
  BY InvariantHolds, <1>1, PTL

(***************************************************************************)
(* No callback sends two messages about one access point.                  *)
(***************************************************************************)
THEOREM NoSsidTwice == Spec => []OneMessagePerSsid
<1>1. IInv => OneMessagePerSsid
  BY DEF IInv
<1>2. QED
  BY InvariantHolds, <1>1, PTL

(***************************************************************************)
(* NEW_SSID and CHANGED_SSID messages have the frames their printing       *)
(* functions assert and pop: a CHANGED_SSID message is only ever sent for  *)
(* an access point one of whose parameters differs.                        *)
(***************************************************************************)
LEMMA Printable ==
  ASSUME NEW from \in AccessPoint, NEW to \in AccessPoint
  PROVE  /\ print_NEW_SSID_message(send_new_ssid(to))
         /\ print_REMOVED_SSID_message(send_removed_ssid(from))
         /\ ParamsOf(from) # ParamsOf(to) =>
              print_SSID_CHANGED_message(
                send_param_change(from, to, detect_param_changes(from, to)))
<1> DEFINE changes == detect_param_changes(from, to)
           msg == send_param_change(from, to, changes)
<1>1. print_NEW_SSID_message(send_new_ssid(to))
  <2> DEFINE new == send_new_ssid(to)
  <2>1. /\ DOMAIN new.params = {"SNR", "channel"}
        /\ new.id = "NEW_SSID" /\ new.number_of_params = 2
    BY DEF send_new_ssid, ParamsOf
  <2>2. Cardinality({"SNR", "channel"}) = 2
    BY CardinalityOfPair
  <2>3. Frames(new) = 6
    BY <2>1, <2>2 DEF Frames
  <2>4. QED
    BY <2>1, <2>3 DEF print_NEW_SSID_message
<1>2. print_REMOVED_SSID_message(send_removed_ssid(from))
  BY DEF print_REMOVED_SSID_message, Frames, send_removed_ssid
<1>3. ASSUME ParamsOf(from) # ParamsOf(to)
      PROVE  print_SSID_CHANGED_message(msg)
  <2>1. /\ DOMAIN msg.changes = ChangedNames(changes)
        /\ msg.id = "CHANGED_SSID"
        /\ msg.number_of_params = (IF changes.SNR_change THEN 1 ELSE 0)
                                  + (IF changes.channel_change THEN 1 ELSE 0)
    BY DEF send_param_change
  <2>2. changes.SNR_change \/ changes.channel_change
    BY <1>3 DEF detect_param_changes, ParamsOf
  <2>3. /\ Cardinality({"SNR", "channel"}) = 2
        /\ Cardinality({"SNR"}) = 1
        /\ Cardinality({"channel"}) = 1
    BY CardinalityOfPair, FS_Singleton
  <2>4. Cardinality(ChangedNames(changes)) = msg.number_of_params
    <3>1. CASE changes.SNR_change /\ changes.channel_change
      <4>1. ChangedNames(changes) = {"SNR", "channel"}
        BY <3>1 DEF ChangedNames
      <4>2. QED
        BY <2>1, <2>3, <3>1, <4>1
    <3>2. CASE changes.SNR_change /\ ~changes.channel_change
      <4>1. ChangedNames(changes) = {"SNR"}
        BY <3>2 DEF ChangedNames
      <4>2. QED
        BY <2>1, <2>3, <3>2, <4>1
    <3>3. CASE ~changes.SNR_change /\ changes.channel_change
      <4>1. ChangedNames(changes) = {"channel"}
        BY <3>3 DEF ChangedNames
      <4>2. QED
        BY <2>1, <2>3, <3>3, <4>1
    <3>4. QED
      BY <2>2, <3>1, <3>2, <3>3
  <2>5. msg.number_of_params \in 1..2
    BY <2>1, <2>2
  <2>6. Frames(msg) = 2 + 3 * msg.number_of_params
    BY <2>1, <2>4 DEF Frames
  <2>7. QED
    BY <2>5, <2>6 DEF print_SSID_CHANGED_message
<1>4. QED
  BY <1>1, <1>2, <1>3

(***************************************************************************)
(* No message of the server aborts a client that prints it.                *)
(***************************************************************************)
THEOREM MessagesPrint == Spec => []ClientCanPrint
<1>1. Init => ClientCanPrint
  BY DEF Init, ClientCanPrint, NoMsg
<1>2. IInv /\ ClientCanPrint /\ [Next]_vars => ClientCanPrint'
  <2> SUFFICES ASSUME IInv, ClientCanPrint, [Next]_vars
               PROVE  ClientCanPrint'
    OBVIOUS
  <2>1. CASE sent' = sent
    BY <2>1 DEF ClientCanPrint, print_NEW_SSID_message,
                print_REMOVED_SSID_message, print_SSID_CHANGED_message, Frames
  <2>2. CASE DetectTurn
    <3> DEFINE ap == new_map[i]
               old == current[find_ssid_in_map(current, ap.ssid)]
    <3>1. CASE Send(send_new_ssid(ap))
      BY <2>2, <3>1, DetectTurnEffect, Printable
      DEF IInv, ClientCanPrint, Send, send_new_ssid
    <3>2. CASE /\ old \in AccessPoint
               /\ ParamsOf(old) # ParamsOf(ap)
               /\ Send(send_param_change(old, ap,
                                         detect_param_changes(old, ap)))
      BY <2>2, <3>2, DetectTurnEffect, Printable
      DEF IInv, ClientCanPrint, Send, send_param_change
    <3>3. CASE SendNothing
      BY <2>1, <3>3 DEF SendNothing
    <3>4. QED
      BY <2>2, <3>1, <3>2, <3>3, DetectTurnEffect DEF IInv
  <2>3. CASE RemovalTurn \/ DeletedTurn
    <3>1. current[i] \in AccessPoint
      BY <2>3, CurrentTurnEffect
      DEF IInv, RemovalTurn, DeletedTurn, At, map_size
    <3>2. Send(send_removed_ssid(current[i])) \/ sent' = sent
      BY <2>3 DEF RemovalTurn, DeletedTurn, SendNothing
    <3>3. QED
      BY <2>1, <3>1, <3>2, Printable
      DEF ClientCanPrint, Send, send_removed_ssid
  <2>4. QED
    BY <2>1, <2>2, <2>3
    DEF Next, Startup, CallbackStep, Cleanup, FileEvent, vars, SendNothing,
        init_data, init_communication, init_signal_handling, file_modified,
        DetectEnd, RemovalEnd, file_deleted, DeletedEnd, monitor_file_fails,
        cleanup_communication, cleanup_data, termination_handler
<1>3. QED
  BY InvariantHolds, <1>1, <1>2, PTL DEF Spec

-----------------------------------------------------------------------------
(* The server implements the feed.                                         *)

(***************************************************************************)
(* The socket exists from init_communication to cleanup_communication, in  *)
(* a process that has not ended.                                           *)
(***************************************************************************)
SocketOK ==
  pub_socket <=> /\ ~exited
                 /\ \/ pc = "init_signal_handling" \/ InMonitor
                    \/ pc = "cleanup_communication"

LEMMA SocketStep == SocketOK /\ [Next]_vars => SocketOK'
  BY DEF SocketOK, Next, Startup, CallbackStep, Cleanup, FileEvent, vars, At,
         InMonitor, InCleanup, init_data, init_communication,
         init_signal_handling, file_modified, DetectTurn, DetectEnd,
         RemovalTurn, RemovalEnd, file_deleted, DeletedTurn, DeletedEnd,
         monitor_file_fails, cleanup_communication, cleanup_data,
         termination_handler

LEMMA SocketInvariant == Spec => []SocketOK
<1>1. Init => SocketOK
  BY DEF Init, SocketOK, InMonitor
<1>2. QED
  BY <1>1, SocketStep, PTL DEF Spec

LEMMA FeedInitial == Init => Feed!FeedInit
<1> SUFFICES ASSUME Init PROVE Feed!FeedInit
  OBVIOUS
<1>1. Announced = [s \in Ssid |-> Absent]
  <2>1. \A s \in Ssid : Announced[s] = Absent
    BY EmptyMap DEF Init, Announced, NewMapHolds, GoneFrom, InCleanup
  <2>2. QED
    BY <2>1 DEF Announced
<1>2. FeedPhase = "closed"
  BY DEF Init, FeedPhase, InStartup
<1>3. EventOf(sent) = [id |-> "none"]
  BY DEF Init, EventOf, NoMsg
<1>4. QED
  BY <1>1, <1>2, <1>3 DEF Feed!FeedInit, Feed!NoEvent

LEMMA EventsOf ==
  ASSUME NEW from \in AccessPoint, NEW to \in AccessPoint
  PROVE  /\ EventOf(send_new_ssid(to)) = [id |-> "NEW_SSID", ssid |-> to.ssid]
         /\ EventOf(send_removed_ssid(from)) =
              [id |-> "REMOVED_SSID", ssid |-> from.ssid]
         /\ EventOf(send_param_change(from, to, detect_param_changes(from, to)))
              = [id |-> "CHANGED_SSID", ssid |-> from.ssid,
                 names |-> {n \in {"SNR", "channel"} :
                              ParamsOf(from)[n] # ParamsOf(to)[n]}]
<1>1. EventOf(send_new_ssid(to)) = [id |-> "NEW_SSID", ssid |-> to.ssid]
  <2>1. send_new_ssid(to).id # NoMsg.id
    BY DEF send_new_ssid, NoMsg
  <2>2. QED
    BY <2>1 DEF EventOf, send_new_ssid
<1>2. EventOf(send_removed_ssid(from)) =
        [id |-> "REMOVED_SSID", ssid |-> from.ssid]
  <2>1. send_removed_ssid(from).id # NoMsg.id
    BY DEF send_removed_ssid, NoMsg
  <2>2. QED
    BY <2>1 DEF EventOf, send_removed_ssid
<1>3. EventOf(send_param_change(from, to, detect_param_changes(from, to)))
        = [id |-> "CHANGED_SSID", ssid |-> from.ssid,
           names |-> {n \in {"SNR", "channel"} :
                        ParamsOf(from)[n] # ParamsOf(to)[n]}]
  <2> DEFINE changes == detect_param_changes(from, to)
             msg == send_param_change(from, to, changes)
  <2>1. /\ msg.id = "CHANGED_SSID" /\ msg.ssid = from.ssid
        /\ DOMAIN msg.changes = ChangedNames(changes)
    BY DEF send_param_change
  <2>2. ChangedNames(changes) = {n \in {"SNR", "channel"} :
                                   ParamsOf(from)[n] # ParamsOf(to)[n]}
    <3>1. /\ changes.SNR_change <=> ParamsOf(from)["SNR"] # ParamsOf(to)["SNR"]
          /\ changes.channel_change
               <=> ParamsOf(from)["channel"] # ParamsOf(to)["channel"]
      BY DEF detect_param_changes, ParamsOf
    <3>2. QED
      BY <3>1 DEF ChangedNames
  <2>3. QED
    BY <2>1, <2>2 DEF EventOf
<1>4. QED
  BY <1>1, <1>2, <1>3

LEMMA FeedDetectTurn ==
  ASSUME IInv, SocketOK, DetectTurn
  PROVE  [Feed!FeedNext]_(Feed!feedVars)
<1> DEFINE ap == new_map[i]
           old == current[find_ssid_in_map(current, ap.ssid)]
<1>1. FeedPhase = "open" /\ FeedPhase' = "open"
  BY DEF DetectTurn, At, SocketOK, InMonitor, FeedPhase
<1>2. /\ ap \in AccessPoint /\ ap.ssid \in Ssid
      /\ ParamsOf(ap) \in Params
      /\ new_map \in AccessPointMap /\ current \in AccessPointMap
  BY DetectTurnEffect, EntryIsAccessPoint DEF IInv, TypeOK
<1>3. Announced \in Lists
  BY AnnouncedInLists DEF IInv
<1>4. Announced' = [Announced EXCEPT ![ap.ssid] = ParamsOf(ap)]
  <2>1. \A t \in Ssid : Announced'[t] =
                          IF t = ap.ssid THEN ParamsOf(ap) ELSE Announced[t]
    BY DetectTurnEffect DEF IInv
  <2>2. Announced' = [t \in Ssid |-> Announced'[t]]
    BY DEF Announced
  <2>3. QED
    BY <1>2, <1>3, <2>1, <2>2 DEF Lists
<1>5. CASE /\ ~HasKey(current, ap.ssid)
           /\ Send(send_new_ssid(ap))
  <2>1. Announced[ap.ssid] = Absent
    BY <1>2, <1>5, DetectTurnEffect, ListOfMap DEF IInv
  <2>2. EventOf(sent)' = [id |-> "NEW_SSID", ssid |-> ap.ssid]
    <3>1. sent' = send_new_ssid(ap)
      BY <1>5 DEF Send
    <3>2. EventOf(sent)' = EventOf(sent')
      BY DEF EventOf
    <3>3. QED
      BY <1>2, <3>1, <3>2, EventsOf
  <2>3. Feed!Appear(ap.ssid, ParamsOf(ap))
    BY <1>1, <1>4, <2>1, <2>2 DEF Feed!Appear
  <2>4. QED
    BY <1>2, <2>3 DEF Feed!FeedNext, Feed!Params, Params
<1>6. CASE /\ old \in AccessPoint
           /\ old.ssid = ap.ssid
           /\ Announced[ap.ssid] = ParamsOf(old)
           /\ ParamsOf(old) # ParamsOf(ap)
           /\ Send(send_param_change(old, ap, detect_param_changes(old, ap)))
  <2>1. ParamsOf(old) # Absent
    BY <1>6, AbsentAssumption DEF AccessPoint, ParamsOf, Params
  <2>2. EventOf(sent)' =
          [id |-> "CHANGED_SSID", ssid |-> ap.ssid,
           names |-> {n \in {"SNR", "channel"} :
                        Announced[ap.ssid][n] # ParamsOf(ap)[n]}]
    <3>1. sent' = send_param_change(old, ap, detect_param_changes(old, ap))
      BY <1>6 DEF Send
    <3>2. EventOf(sent)' = EventOf(sent')
      BY DEF EventOf
    <3>3. EventOf(sent') = [id |-> "CHANGED_SSID", ssid |-> old.ssid,
                            names |-> {n \in {"SNR", "channel"} :
                                         ParamsOf(old)[n] # ParamsOf(ap)[n]}]
      BY <1>2, <1>6, <3>1, EventsOf
    <3>4. QED
      BY <1>6, <3>2, <3>3
  <2>3. Feed!Change(ap.ssid, ParamsOf(ap))
    BY <1>1, <1>4, <1>6, <2>1, <2>2 DEF Feed!Change
  <2>4. QED
    BY <1>2, <2>3 DEF Feed!FeedNext, Feed!Params, Params
<1>7. CASE Announced[ap.ssid] = ParamsOf(ap) /\ SendNothing
  <2>1. Announced' = Announced
    BY <1>2, <1>3, <1>4, <1>7 DEF Lists
  <2>2. EventOf(sent)' = EventOf(sent)
    BY <1>7 DEF SendNothing, EventOf
  <2>3. QED
    BY <1>1, <2>1, <2>2 DEF Feed!feedVars
<1>8. QED
  BY <1>5, <1>6, <1>7, DetectTurnEffect DEF IInv

LEMMA FeedRemovingTurn ==
  ASSUME IInv, SocketOK, RemovalTurn \/ DeletedTurn
  PROVE  [Feed!FeedNext]_(Feed!feedVars)
<1> DEFINE ap == current[i]
           kept == pc = "removal" /\ HasKey(new_map, ap.ssid)
<1>1. FeedPhase = "open" /\ FeedPhase' = "open"
  BY DEF RemovalTurn, DeletedTurn, At, SocketOK, InMonitor, FeedPhase
<1>2. /\ pc \in {"removal", "deleted"} /\ pc' = pc
      /\ i <= Len(current) /\ i' = i + 1
      /\ new_map' = new_map /\ current' = current
      /\ new_map \in AccessPointMap
  BY DEF RemovalTurn, DeletedTurn, At, map_size, IInv, TypeOK
<1>3. /\ ap \in AccessPoint
      /\ ~kept => Announced[ap.ssid] = ParamsOf(ap)
      /\ \A t \in Ssid : Announced'[t] =
                          IF t = ap.ssid /\ ~kept THEN Absent ELSE Announced[t]
  BY <1>2, CurrentTurnEffect DEF IInv
<1>4. /\ Announced \in Lists
      /\ Announced' = [t \in Ssid |-> Announced'[t]]
  BY AnnouncedInLists DEF IInv, Announced
<1>5. ap.ssid \in Ssid /\ ParamsOf(ap) # Absent
  BY <1>3, AbsentAssumption DEF AccessPoint, ParamsOf, Params
<1>6. CASE ~kept
  <2>1. Send(send_removed_ssid(ap))
    BY <1>2, <1>6, FindFinds DEF RemovalTurn, DeletedTurn, At
  <2>2. EventOf(sent)' = [id |-> "REMOVED_SSID", ssid |-> ap.ssid]
    <3>1. sent' = send_removed_ssid(ap)
      BY <2>1 DEF Send
    <3>2. EventOf(sent)' = EventOf(sent')
      BY DEF EventOf
    <3>3. QED
      BY <1>3, <3>1, <3>2, EventsOf
  <2>3. Announced' = [Announced EXCEPT ![ap.ssid] = Absent]
    BY <1>3, <1>4, <1>5, <1>6 DEF Lists
  <2>4. Feed!Disappear(ap.ssid)
    BY <1>1, <1>3, <1>5, <1>6, <2>2, <2>3 DEF Feed!Disappear
  <2>5. QED
    BY <1>5, <2>4 DEF Feed!FeedNext
<1>7. CASE kept
  <2>1. SendNothing
    BY <1>2, <1>7, FindFinds DEF RemovalTurn, DeletedTurn, At
  <2>2. EventOf(sent)' = EventOf(sent)
    BY <2>1 DEF SendNothing, EventOf
  <2>3. Announced' = Announced
    BY <1>3, <1>4, <1>7 DEF Lists
  <2>4. QED
    BY <1>1, <2>2, <2>3 DEF Feed!feedVars
<1>8. QED
  BY <1>6, <1>7

(***************************************************************************)
(* The steps between the loops open the feed, close it, or do not concern  *)
(* it.                                                                     *)
(***************************************************************************)
LEMMA FeedQuiet ==
  ASSUME IInv, SocketOK,
         \/ init_communication \/ init_signal_handling \/ termination_handler
         \/ \E parsed \in ParsedMaps \cup {NULL} : file_modified(parsed)
         \/ DetectEnd \/ RemovalEnd \/ file_deleted \/ DeletedEnd
         \/ monitor_file_fails \/ cleanup_communication
  PROVE  [Feed!FeedNext]_(Feed!feedVars)
<1> USE DEF At
<1>1. Announced' = Announced
  <2>1. \A s \in Ssid : Announced'[s] = Announced[s]
    BY QuietSteps DEF IInv
  <2>2. Announced' = [s \in Ssid |-> Announced'[s]]
    BY DEF Announced
  <2>3. Announced = [s \in Ssid |-> Announced[s]]
    BY DEF Announced
  <2>4. QED
    BY <2>1, <2>2, <2>3
<1>2. EventOf(sent)' = EventOf(sent)
  <2>1. sent' = sent
    BY DEF init_communication, init_signal_handling, termination_handler,
           file_modified, DetectEnd, RemovalEnd, file_deleted, DeletedEnd,
           monitor_file_fails, cleanup_communication, SendNothing
  <2>2. QED
    BY <2>1 DEF EventOf
<1>3. CASE init_communication
  <2>1. /\ FeedPhase = "closed"
        /\ FeedPhase' = "open" \/ FeedPhase' = "over"
    BY <1>3 DEF init_communication, SocketOK, InStartup, InMonitor, FeedPhase
  <2>2. Feed!Open \/ Feed!Close
    BY <1>1, <1>2, <2>1 DEF Feed!Open, Feed!Close
  <2>3. QED
    BY <2>2 DEF Feed!FeedNext
<1>4. CASE termination_handler \/ cleanup_communication
  <2>1. FeedPhase' = "over"
    BY <1>4 DEF termination_handler, cleanup_communication, InStartup, FeedPhase
  <2>2. CASE FeedPhase = "over"
    BY <1>1, <1>2, <2>1, <2>2 DEF Feed!feedVars
  <2>3. CASE FeedPhase # "over"
    <3>1. Feed!Close
      BY <1>1, <1>2, <2>1, <2>3 DEF Feed!Close
    <3>2. QED
      BY <3>1 DEF Feed!FeedNext
  <2>4. QED
    BY <2>2, <2>3
<1>5. CASE \/ init_signal_handling \/ DetectEnd \/ RemovalEnd \/ DeletedEnd
           \/ \E parsed \in ParsedMaps \cup {NULL} : file_modified(parsed)
           \/ file_deleted \/ monitor_file_fails
  <2>1. FeedPhase = "open" /\ FeedPhase' = "open"
    BY <1>5 DEF init_signal_handling, file_modified, DetectEnd, RemovalEnd,
                file_deleted, DeletedEnd, monitor_file_fails, SocketOK,
                InMonitor, FeedPhase
  <2>2. QED
    BY <1>1, <1>2, <2>1 DEF Feed!feedVars
<1>6. QED
  BY <1>3, <1>4, <1>5

LEMMA FeedStep ==
  IInv /\ SocketOK /\ [Next]_vars => [Feed!FeedNext]_(Feed!feedVars)
<1> SUFFICES ASSUME IInv, SocketOK, [Next]_vars
             PROVE  [Feed!FeedNext]_(Feed!feedVars)
  OBVIOUS
<1>1. ASSUME NEW parsed \in ParsedMaps \cup {NULL}, init_data(parsed)
      PROVE  [Feed!FeedNext]_(Feed!feedVars)
  <2>1. FeedPhase = "closed"
    BY <1>1 DEF init_data, At, SocketOK, InMonitor, InStartup, FeedPhase
  <2>2. EventOf(sent)' = EventOf(sent)
    BY <1>1 DEF init_data, EventOf
  <2>3. CASE parsed = NULL
    <3>1. FeedPhase' = "over"
      BY <1>1, <2>3 DEF init_data, At, SocketOK, InMonitor, FeedPhase
    <3>2. Announced' = Announced
      BY <1>1, <2>3 DEF init_data, Announced, NewMapHolds, GoneFrom, InCleanup,
                        PassedIn, HasKey, ListOf
    <3>3. Feed!Close
      BY <2>1, <2>2, <3>1, <3>2 DEF Feed!Close
    <3>4. QED
      BY <3>3 DEF Feed!FeedNext
  <2>4. CASE parsed # NULL
    <3>1. FeedPhase' = "closed"
      BY <1>1, <2>4 DEF init_data, At, SocketOK, InMonitor, InStartup, FeedPhase
    <3>2. Announced' \in Lists
      <4>1. /\ parsed \in AccessPointMap
            /\ current' = parsed /\ pc' = "init_communication"
        BY <1>1, <2>4, ParsedMapsAssumption DEF init_data
      <4>2. Announced' = [s \in Ssid |-> ListOf(parsed)[s]]
        BY <4>1 DEF Announced, NewMapHolds, GoneFrom, InCleanup, ListOf
      <4>3. QED
        BY <4>1, <4>2, ListOfMap DEF Lists
    <3>3. Feed!Load
      BY <2>1, <2>2, <3>1, <3>2
      DEF Feed!Load, Feed!Lists, Lists, Feed!Params, Params
    <3>4. QED
      BY <3>3 DEF Feed!FeedNext
  <2>5. QED
    BY <2>3, <2>4
<1>2. CASE \/ init_communication \/ init_signal_handling
           \/ termination_handler \/ FileEvent
           \/ DetectEnd \/ RemovalEnd \/ DeletedEnd \/ cleanup_communication
  BY <1>2, FeedQuiet DEF FileEvent
<1>3. CASE DetectTurn
  BY <1>3, FeedDetectTurn
<1>4. CASE RemovalTurn \/ DeletedTurn
  BY <1>4, FeedRemovingTurn
<1>5. CASE cleanup_data
  <2>1. FeedPhase = "over" /\ FeedPhase' = "over"
    BY <1>5 DEF cleanup_data, At, SocketOK, InMonitor, InStartup, FeedPhase
  <2>2. EventOf(sent)' = EventOf(sent)
    BY <1>5 DEF cleanup_data, EventOf
  <2>3. Announced' = [s \in Ssid |-> Absent]
    <3>1. \A s \in Ssid : ListOf(current)'[s] = Absent
      BY <1>5 DEF cleanup_data, ListOf, HasKey
    <3>2. pc' = "return"
      BY <1>5 DEF cleanup_data
    <3>3. QED
      BY <3>1, <3>2 DEF Announced, NewMapHolds
  <2>4. Feed!Forget
    BY <2>1, <2>2, <2>3 DEF Feed!Forget
  <2>5. QED
    BY <2>4 DEF Feed!FeedNext
<1>6. CASE UNCHANGED vars
  BY <1>6 DEF vars, Feed!feedVars, FeedPhase, EventOf, InStartup, InCleanup,
              Announced, NewMapHolds, GoneFrom, PassedIn, ListOf, HasKey
<1>7. QED
  BY <1>1, <1>2, <1>3, <1>4, <1>5, <1>6
  DEF Next, Startup, CallbackStep, Cleanup, FileEvent

(***************************************************************************)
(* The loops of the server implement the feed of module ChangeFeed, for    *)
(* every set of names, values and parsed files.                            *)
(***************************************************************************)
THEOREM ServerImplementsFeed == Spec => ImplementsChangeFeed
<1>1. QED
  BY InvariantHolds, SocketInvariant, FeedInitial, FeedStep, PTL
  DEF Spec, ImplementsChangeFeed, Feed!FeedSpec

=============================================================================

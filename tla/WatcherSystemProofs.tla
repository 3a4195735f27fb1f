-------------------------- MODULE WatcherSystemProofs --------------------------
(***************************************************************************)
(* Theorems about the composed system, for every number of clients, every  *)
(* queue length, any number of restarts and every set of parsed files.     *)
(***************************************************************************)
EXTENDS WatcherSystem, ServerMainProofs

-----------------------------------------------------------------------------
(* A list after a sequence of messages.                                    *)

(***************************************************************************)
(* The lists a client shows one after the other while it applies messages. *)
(***************************************************************************)
IsRun(after, list, msgs) ==
  after = [k \in 0..Len(msgs) |-> IF k = 0 THEN list
                                  ELSE Applied(after[k - 1], msgs[k])]

LEMMA RunExists ==
  ASSUME NEW list, NEW msgs, Len(msgs) \in Nat
  PROVE  \E after : IsRun(after, list, msgs)
<1> DEFINE Run(n, f) == f = [k \in 0..n |-> IF k = 0 THEN list
                                            ELSE Applied(f[k - 1], msgs[k])]
           S == {n \in Nat : \E f : Run(n, f)}
<1>1. 0 \in S
  <2>1. Run(0, [k \in 0..0 |-> list])
    OBVIOUS
  <2>2. QED
    BY <2>1
<1>2. ASSUME NEW n \in Nat, n \in S
      PROVE  n + 1 \in S
  <2>1. PICK f : Run(n, f)
    BY <1>2
  <2> DEFINE g == [k \in 0..(n + 1) |-> IF k = n + 1
                                          THEN Applied(f[n], msgs[n + 1])
                                          ELSE f[k]]
             h == [k \in 0..(n + 1) |-> IF k = 0 THEN list
                                        ELSE Applied(g[k - 1], msgs[k])]
  <2>2. ASSUME NEW k \in 0..(n + 1)
        PROVE  g[k] = IF k = 0 THEN list ELSE Applied(g[k - 1], msgs[k])
    <3>1. CASE k = n + 1
      <4>1. k # 0 /\ k - 1 = n /\ n \in 0..(n + 1) /\ n # n + 1
        BY <3>1
      <4>2. g[n] = f[n] /\ g[k] = Applied(f[n], msgs[k])
        BY <3>1, <4>1
      <4>3. QED
        BY <4>1, <4>2
    <3>2. CASE k # n + 1
      <4>1. k \in 0..n /\ g[k] = f[k]
        BY <3>2
      <4>2. f[k] = IF k = 0 THEN list ELSE Applied(f[k - 1], msgs[k])
        BY <2>1, <4>1
      <4>3. k # 0 => k - 1 \in 0..(n + 1) /\ k - 1 # n + 1
        BY <4>1
      <4>4. k # 0 => g[k - 1] = f[k - 1]
        BY <4>3
      <4>5. QED
        BY <4>1, <4>2, <4>4
    <3>3. QED
      BY <3>1, <3>2
  <2>3. g = h
    BY <2>2
  <2>4. Run(n + 1, g)
    BY <2>3
  <2> HIDE DEF g
  <2>5. n + 1 \in Nat /\ \E e : Run(n + 1, e)
    BY <2>4
  <2>6. QED
    BY <2>5
<1> HIDE DEF S
<1>3. Len(msgs) \in S
  BY <1>1, <1>2, NatSetInduction
<1>4. QED
  BY <1>3 DEF S, IsRun

LEMMA RunUnique ==
  ASSUME NEW list, NEW msgs, Len(msgs) \in Nat,
         NEW f, IsRun(f, list, msgs), NEW g, IsRun(g, list, msgs)
  PROVE  f = g
<1> DEFINE S == {k \in Nat : k <= Len(msgs) => f[k] = g[k]}
<1>1. ASSUME NEW k \in 0..Len(msgs)
      PROVE  /\ f[k] = IF k = 0 THEN list ELSE Applied(f[k - 1], msgs[k])
             /\ g[k] = IF k = 0 THEN list ELSE Applied(g[k - 1], msgs[k])
  BY DEF IsRun
<1>2. 0 \in S
  BY <1>1
<1>3. ASSUME NEW k \in Nat, k \in S
      PROVE  k + 1 \in S
  <2> SUFFICES ASSUME k + 1 <= Len(msgs) PROVE f[k + 1] = g[k + 1]
    OBVIOUS
  <2>1. k + 1 \in 0..Len(msgs) /\ k + 1 # 0 /\ (k + 1) - 1 = k
    OBVIOUS
  <2>2. f[k] = g[k]
    BY <1>3, <2>1
  <2>3. QED
    BY <1>1, <2>1, <2>2
<1> HIDE DEF S
<1>4. \A k \in Nat : k \in S
  BY <1>2, <1>3, NatSetInduction
<1>5. \A k \in 0..Len(msgs) : f[k] = g[k]
  BY <1>4 DEF S
<1>6. QED
  BY <1>5 DEF IsRun

LEMMA AfterAllOfRun ==
  ASSUME NEW list, NEW msgs, Len(msgs) \in Nat,
         NEW f, IsRun(f, list, msgs)
  PROVE  AfterAll(list, msgs) = f[Len(msgs)]
<1> DEFINE g == CHOOSE h : IsRun(h, list, msgs)
<1>1. IsRun(g, list, msgs)
  OBVIOUS
<1>2. g = f
  BY <1>1, RunUnique
<1>3. AfterAll(list, msgs) = g[Len(msgs)]
  BY DEF AfterAll, IsRun
<1>4. QED
  BY <1>2, <1>3

LEMMA AfterAllAppend ==
  ASSUME NEW list, NEW msgs \in Seq(Message), NEW m \in Message
  PROVE  AfterAll(list, Append(msgs, m)) = Applied(AfterAll(list, msgs), m)
<1> DEFINE more == Append(msgs, m)
           n == Len(msgs)
<1>1. /\ Len(more) = n + 1 /\ n \in Nat /\ Len(more) \in Nat
      /\ more[n + 1] = m
      /\ \A k \in 1..n : more[k] = msgs[k]
  OBVIOUS
<1> HIDE DEF more
<1>2. PICK f : IsRun(f, list, more)
  BY <1>1, RunExists
<1>3. \A k \in 0..(n + 1) : f[k] = IF k = 0 THEN list
                                   ELSE Applied(f[k - 1], more[k])
  BY <1>1, <1>2 DEF IsRun
<1> DEFINE g == [k \in 0..n |-> f[k]]
           h == [k \in 0..n |-> IF k = 0 THEN list
                                ELSE Applied(g[k - 1], msgs[k])]
<1>4. IsRun(g, list, msgs)
  <2>1. ASSUME NEW k \in 0..n
        PROVE  g[k] = IF k = 0 THEN list ELSE Applied(g[k - 1], msgs[k])
    <3>1. k \in 0..(n + 1) /\ (k # 0 => k - 1 \in 0..n /\ k \in 1..n)
      BY <1>1
    <3>2. g[k] = IF k = 0 THEN list ELSE Applied(f[k - 1], more[k])
      BY <1>3, <3>1
    <3>3. k # 0 => g[k - 1] = f[k - 1] /\ more[k] = msgs[k]
      BY <1>1, <3>1
    <3>4. QED
      BY <3>2, <3>3
  <2>2. g = h
    BY <2>1
  <2>3. QED
    BY <2>2 DEF IsRun
<1>5. AfterAll(list, msgs) = f[n]
  <2>1. g[n] = f[n]
    BY <1>1
  <2> HIDE DEF g
  <2>2. QED
    BY <1>1, <1>4, <2>1, AfterAllOfRun
<1>6. AfterAll(list, more) = f[n + 1]
  BY <1>1, <1>2, AfterAllOfRun
<1>7. f[n + 1] = Applied(f[n], m)
  BY <1>1, <1>3
<1>8. QED
  BY <1>5, <1>6, <1>7 DEF more

LEMMA WillShowStays ==
  ASSUME NEW c, shown'[c] = shown[c], pipe'[c] = pipe[c], inbox'[c] = inbox[c]
  PROVE  WillShow(c)' = WillShow(c)
<1>1. UnderWay(c)' = UnderWay(c)
  BY DEF UnderWay
<1>2. QED
  BY <1>1 DEF WillShow, AfterAll

LEMMA AfterAllFirst ==
  ASSUME NEW list, NEW msgs \in Seq(Message), msgs # << >>
  PROVE  AfterAll(list, msgs) = AfterAll(Applied(list, Head(msgs)), Tail(msgs))
<1> DEFINE rest == Tail(msgs)
           n == Len(msgs)
           next == Applied(list, Head(msgs))
<1>1. /\ n \in Nat \ {0} /\ Len(rest) = n - 1 /\ n - 1 \in Nat
      /\ Head(msgs) = msgs[1]
      /\ \A k \in 1..(n - 1) : rest[k] = msgs[k + 1]
  OBVIOUS
<1> HIDE DEF rest
<1>2. PICK f : IsRun(f, list, msgs)
  BY <1>1, RunExists
<1>3. \A k \in 0..n : f[k] = IF k = 0 THEN list
                             ELSE Applied(f[k - 1], msgs[k])
  BY <1>1, <1>2 DEF IsRun
<1> DEFINE g == [k \in 0..(n - 1) |-> f[k + 1]]
           h == [k \in 0..(n - 1) |-> IF k = 0 THEN next
                                      ELSE Applied(g[k - 1], rest[k])]
<1>4. IsRun(g, next, rest)
  <2>1. ASSUME NEW k \in 0..(n - 1)
        PROVE  g[k] = IF k = 0 THEN next ELSE Applied(g[k - 1], rest[k])
    <3>1. k + 1 \in 0..n /\ k + 1 # 0 /\ (k + 1) - 1 = k
      BY <1>1
    <3>2. g[k] = Applied(f[k], msgs[k + 1])
      BY <1>3, <3>1
    <3>3. CASE k = 0
      <4>1. f[k] = list /\ msgs[k + 1] = Head(msgs)
        BY <1>1, <1>3, <3>3
      <4>2. QED
        BY <3>2, <3>3, <4>1
    <3>4. CASE k # 0
      <4>1. k - 1 \in 0..(n - 1) /\ (k - 1) + 1 = k /\ k \in 1..(n - 1)
        BY <1>1, <3>4
      <4>2. g[k - 1] = f[k] /\ rest[k] = msgs[k + 1]
        BY <1>1, <4>1
      <4>3. QED
        BY <3>2, <3>4, <4>2
    <3>5. QED
      BY <3>3, <3>4
  <2>2. g = h
    BY <2>1
  <2>3. QED
    BY <1>1, <2>2 DEF IsRun
<1>5. AfterAll(next, rest) = f[n]
  <2>1. g[n - 1] = f[n]
    BY <1>1
  <2> HIDE DEF g, next
  <2>2. QED
    BY <1>1, <1>4, <2>1, AfterAllOfRun
<1>6. AfterAll(list, msgs) = f[n]
  BY <1>1, <1>2, AfterAllOfRun
<1>7. QED
  BY <1>5, <1>6 DEF rest

(***************************************************************************)
(* A message leaves a list a list.                                         *)
(***************************************************************************)
LEMMA AppliedInLists ==
  ASSUME NEW list \in Lists, NEW m \in Message
  PROVE  Applied(list, m) \in Lists
<1> DEFINE held == list[m.ssid]
           new == [p \in {"SNR", "channel"} |->
                     IF p \in DOMAIN m.changes THEN m.changes[p].new
                     ELSE held[p]]
<1>1. m.ssid \in Ssid /\ held \in Params \cup {Absent}
  BY DEF Message, NewSsidMsg, RemovedSsidMsg, ChangedSsidMsg, Lists
<1>2. CASE m.id = "NEW_SSID"
  <2>1. m.params \in Params
    BY <1>2 DEF Message, NewSsidMsg, RemovedSsidMsg, ChangedSsidMsg
  <2>2. Applied(list, m) = [list EXCEPT ![m.ssid] = m.params]
    BY <1>2 DEF Applied
  <2>3. QED
    BY <1>1, <2>1, <2>2 DEF Lists
<1>3. CASE m.id = "REMOVED_SSID" \/ (m.id # "NEW_SSID" /\ held = Absent)
  <2>1. Applied(list, m) = [list EXCEPT ![m.ssid] = Absent]
    BY <1>3 DEF Applied, Lists
  <2>2. QED
    BY <1>1, <2>1 DEF Lists
<1>4. CASE m.id \notin {"NEW_SSID", "REMOVED_SSID"} /\ held # Absent
  <2>1. /\ m.changes \in UNION {[names -> [old : Unsigned, new : Unsigned]] :
                                  names \in SUBSET {"SNR", "channel"}}
        /\ held \in Params
    BY <1>1, <1>4 DEF Message, NewSsidMsg, RemovedSsidMsg, ChangedSsidMsg
  <2>2. /\ \A p \in DOMAIN m.changes : m.changes[p].new \in Unsigned
        /\ held["SNR"] \in Unsigned /\ held["channel"] \in Unsigned
    BY <2>1 DEF Params
  <2>3. new["SNR"] \in Unsigned /\ new["channel"] \in Unsigned
    BY <2>2
  <2>4. new = [SNR |-> new["SNR"], channel |-> new["channel"]]
    OBVIOUS
  <2>5. new \in Params
    BY <2>3, <2>4 DEF Params
  <2>6. Applied(list, m) = [list EXCEPT ![m.ssid] = new]
    BY <1>1, <1>4 DEF Applied, Lists
  <2>7. QED
    BY <1>1, <2>5, <2>6 DEF Lists
<1>5. QED
  BY <1>2, <1>3, <1>4

LEMMA AfterAllInLists ==
  ASSUME NEW list \in Lists, NEW msgs \in Seq(Message)
  PROVE  AfterAll(list, msgs) \in Lists
<1>1. Len(msgs) \in Nat /\ \A k \in 1..Len(msgs) : msgs[k] \in Message
  OBVIOUS
<1>2. PICK f : IsRun(f, list, msgs)
  BY <1>1, RunExists
<1>3. \A k \in 0..Len(msgs) : f[k] = IF k = 0 THEN list
                                     ELSE Applied(f[k - 1], msgs[k])
  BY <1>2 DEF IsRun
<1> DEFINE S == {k \in Nat : k <= Len(msgs) => f[k] \in Lists}
<1>4. 0 \in S
  BY <1>3
<1>5. ASSUME NEW k \in Nat, k \in S
      PROVE  k + 1 \in S
  <2> SUFFICES ASSUME k + 1 <= Len(msgs) PROVE f[k + 1] \in Lists
    OBVIOUS
  <2>1. /\ k + 1 \in 0..Len(msgs) /\ k + 1 # 0 /\ (k + 1) - 1 = k
        /\ k + 1 \in 1..Len(msgs)
    BY <1>1
  <2>2. f[k] \in Lists
    BY <1>1, <1>5, <2>1
  <2>3. f[k + 1] = Applied(f[k], msgs[k + 1])
    BY <1>3, <2>1
  <2>4. QED
    BY <1>1, <2>1, <2>2, <2>3, AppliedInLists
<1> HIDE DEF S
<1>6. Len(msgs) \in S
  BY <1>1, <1>4, <1>5, NatSetInduction
<1>7. f[Len(msgs)] \in Lists
  BY <1>1, <1>6 DEF S
<1>8. QED
  BY <1>1, <1>2, <1>7, AfterAllOfRun

-----------------------------------------------------------------------------
(* The inductive invariant.                                                *)

(***************************************************************************)
(* A message that its printing function prints to the end.                 *)
(***************************************************************************)
Printed == {m \in Message : Clients!PrintReturns(m)}

SystemTypeOK ==
  /\ link \in [Client -> {"none", "connecting", "subscribed"}]
  /\ cpc \in [Client -> {"init_communication", "init_signal_handling",
                         "receive_msg", "exited", "aborted"}]
  /\ shown \in [Client -> Lists]
  /\ heard \in [Client -> SUBSET Ssid]
  /\ pipe \in [Client -> Seq(Printed)]
  /\ inbox \in [Client -> Seq(Printed)]

(***************************************************************************)
(* The life of a subscription: there is none without a publishing socket,  *)
(* and a client that is yet to subscribe has heard nothing of this server. *)
(***************************************************************************)
LinksOK ==
  /\ InStartup => \A c \in Client : heard[c] = {}
  /\ \A c \in Client :
       /\ link[c] = "subscribed" => pub_socket
       /\ link[c] = "connecting" /\ pub_socket => heard[c] = {}
       /\ cpc[c] = "init_communication" => link[c] = "none" /\ heard[c] = {}

SystemInv ==
  /\ IInv /\ SocketOK
  /\ SystemTypeOK /\ LinksOK
  /\ HeardIsRight /\ NoClientAborts

-----------------------------------------------------------------------------
(* What a step of the server means for whoever listens.                    *)

(***************************************************************************)
(* The list after a message that is applied agrees with what has then been *)
(* announced, wherever the list agreed before, and for a message that      *)
(* carries all of an access point, or its removal, there in any case.      *)
(***************************************************************************)
Follows(list, m) ==
  \A s \in Ssid :
    (s = m.ssid /\ m.id # "CHANGED_SSID") \/ AgreeOn(list, Announced, s)
      => AgreeOn(Applied(list, m), Announced', s)

LEMMA PrintReturnsIs ==
  ASSUME NEW m
  PROVE  Clients!PrintReturns(m) <=>
           CASE m.id = "NEW_SSID"     -> print_NEW_SSID_message(m)
             [] m.id = "REMOVED_SSID" -> print_REMOVED_SSID_message(m)
             [] m.id = "CHANGED_SSID" -> print_SSID_CHANGED_message(m)
             [] OTHER                 -> TRUE
<1>1. \A S : Clients!Cardinality(S) = Cardinality(S)
  BY DEF Clients!Cardinality, Cardinality
<1>2. Clients!Frames(m) = Frames(m)
  BY <1>1 DEF Clients!Frames, Frames
<1>3. QED
  BY <1>2 DEF Clients!PrintReturns, Clients!print_NEW_SSID_message,
         Clients!print_REMOVED_SSID_message, Clients!print_SSID_CHANGED_message,
         print_NEW_SSID_message, print_REMOVED_SSID_message,
         print_SSID_CHANGED_message

LEMMA SentIsPrinted ==
  ASSUME NEW from \in AccessPoint, NEW to \in AccessPoint
  PROVE  /\ send_new_ssid(to) \in Printed
         /\ send_removed_ssid(from) \in Printed
         /\ ParamsOf(from) # ParamsOf(to) =>
              send_param_change(from, to, detect_param_changes(from, to))
                \in Printed
<1>1. send_new_ssid(to).id = "NEW_SSID"
  BY DEF send_new_ssid
<1>2. send_removed_ssid(from).id = "REMOVED_SSID"
  BY DEF send_removed_ssid
<1>3. send_param_change(from, to, detect_param_changes(from, to)).id
        = "CHANGED_SSID"
  BY DEF send_param_change
<1>4. QED
  BY <1>1, <1>2, <1>3, SendsMessages, Printable, PrintReturnsIs
  DEF Printed, Message

LEMMA SentInDetectTurn ==
  ASSUME IInv, DetectTurn
  PROVE  \/ /\ SendNothing
            /\ \A s \in Ssid : Announced'[s] = Announced[s]
         \/ \E m \in Printed : Send(m) /\ \A list \in Lists : Follows(list, m)
<1> DEFINE ap == new_map[i]
           old == current[find_ssid_in_map(current, ap.ssid)]
<1>1. /\ ap \in AccessPoint /\ ap.ssid \in Ssid
      /\ ParamsOf(ap) # Absent /\ ParamsOf(ap).SNR = ap.SNR
      /\ \A t \in Ssid : Announced'[t] = IF t = ap.ssid THEN ParamsOf(ap)
                                         ELSE Announced[t]
  BY DetectTurnEffect, AbsentAssumption
  DEF IInv, AccessPoint, ParamsOf, Params
<1>2. CASE Send(send_new_ssid(ap))
  <2> DEFINE m == send_new_ssid(ap)
  <2>1. m \in Printed /\ m.ssid = ap.ssid /\ m.id # "CHANGED_SSID"
    BY <1>1, SentIsPrinted DEF send_new_ssid
  <2>2. ASSUME NEW list \in Lists
        PROVE  Follows(list, m)
    <3>1. Applied(list, m) = [list EXCEPT ![ap.ssid] = ParamsOf(ap)]
      BY <1>1, AppliedNew
    <3>2. \A s \in Ssid : Applied(list, m)[s] =
                            IF s = ap.ssid THEN ParamsOf(ap) ELSE list[s]
      BY <3>1 DEF Lists
    <3>3. QED
      BY <1>1, <2>1, <3>2 DEF Follows, AgreeOn
  <2>3. QED
    BY <1>2, <2>1, <2>2
<1>3. CASE /\ old \in AccessPoint /\ old.ssid = ap.ssid
           /\ Announced[ap.ssid] = ParamsOf(old)
           /\ ParamsOf(old) # ParamsOf(ap)
           /\ Send(send_param_change(old, ap, detect_param_changes(old, ap)))
  <2> DEFINE m == send_param_change(old, ap, detect_param_changes(old, ap))
  <2>1. m \in Printed /\ m.ssid = ap.ssid /\ m.id = "CHANGED_SSID"
    BY <1>1, <1>3, SentIsPrinted DEF send_param_change
  <2>2. ParamsOf(old) # Absent /\ ParamsOf(old).SNR = old.SNR
    BY <1>3, AbsentAssumption DEF AccessPoint, ParamsOf, Params
  <2>3. ASSUME NEW list \in Lists
        PROVE  Follows(list, m)
    <3> SUFFICES ASSUME NEW s \in Ssid, AgreeOn(list, Announced, s)
                 PROVE  AgreeOn(Applied(list, m), Announced', s)
      BY <2>1 DEF Follows
    <3>1. CASE s = ap.ssid
      <4>1. list[old.ssid] # Absent /\ list[old.ssid].SNR = old.SNR
        BY <1>3, <2>2, <3>1 DEF AgreeOn
      <4>2. /\ Applied(list, m)[s] # Absent
            /\ Applied(list, m)[s].SNR = ap.SNR
        BY <1>1, <1>3, <3>1, <4>1, AppliedChanged
      <4>3. QED
        BY <1>1, <3>1, <4>2 DEF AgreeOn
    <3>2. CASE s # ap.ssid
      <4>1. Applied(list, m)[s] = list[s]
        BY <2>1, <3>2 DEF Applied, Lists
      <4>2. QED
        BY <1>1, <3>2, <4>1 DEF AgreeOn
    <3>3. QED
      BY <3>1, <3>2
  <2>4. QED
    BY <1>3, <2>1, <2>3
<1>4. CASE Announced[ap.ssid] = ParamsOf(ap) /\ SendNothing
  BY <1>1, <1>4
<1>5. QED
  BY <1>2, <1>3, <1>4, DetectTurnEffect DEF IInv

LEMMA SentInRemovingTurn ==
  ASSUME IInv, RemovalTurn \/ DeletedTurn
  PROVE  \/ /\ SendNothing
            /\ \A s \in Ssid : Announced'[s] = Announced[s]
         \/ \E m \in Printed : Send(m) /\ \A list \in Lists : Follows(list, m)
<1> DEFINE ap == current[i]
           kept == pc = "removal" /\ HasKey(new_map, ap.ssid)
           m == send_removed_ssid(ap)
<1>1. /\ pc \in {"removal", "deleted"} /\ pc' = pc
      /\ i <= Len(current) /\ i' = i + 1
      /\ new_map' = new_map /\ current' = current
      /\ new_map \in AccessPointMap
  BY DEF RemovalTurn, DeletedTurn, At, map_size, IInv, TypeOK
<1>2. /\ ap \in AccessPoint
      /\ \A t \in Ssid : Announced'[t] =
                          IF t = ap.ssid /\ ~kept THEN Absent ELSE Announced[t]
  BY <1>1, CurrentTurnEffect DEF IInv
<1>3. CASE kept
  <2>1. SendNothing
    BY <1>1, <1>3, FindFinds DEF RemovalTurn, DeletedTurn, At
  <2>2. QED
    BY <1>2, <1>3, <2>1
<1>4. CASE ~kept
  <2>1. Send(m)
    BY <1>1, <1>4, FindFinds DEF RemovalTurn, DeletedTurn, At
  <2>2. m \in Printed /\ m.ssid = ap.ssid /\ m.id # "CHANGED_SSID"
    BY <1>2, SentIsPrinted DEF send_removed_ssid
  <2>3. ASSUME NEW list \in Lists
        PROVE  Follows(list, m)
    <3>1. Applied(list, m) = [list EXCEPT ![ap.ssid] = Absent]
      BY <1>2, AppliedRemoved
    <3>2. \A s \in Ssid : Applied(list, m)[s] =
                            IF s = ap.ssid THEN Absent ELSE list[s]
      BY <3>1 DEF Lists
    <3>3. QED
      BY <1>2, <1>4, <2>2, <3>2 DEF Follows, AgreeOn
  <2>4. QED
    BY <2>1, <2>2, <2>3
<1>5. QED
  BY <1>3, <1>4

(***************************************************************************)
(* Every step of the server either hands one message to the socket, which  *)
(* every subscriber can print and which tells what the step has done, or   *)
(* changes nothing that a subscriber should know of.                       *)
(***************************************************************************)
LEMMA ServerTells ==
  ASSUME IInv, SocketOK, Next
  PROVE  \/ /\ Len(batch') <= Len(batch)
            /\ pub_socket' => \A s \in Ssid : Announced'[s] = Announced[s]
         \/ /\ Len(batch') > Len(batch)
            /\ pub_socket' = pub_socket
            /\ sent' \in Printed
            /\ \A list \in Lists : Follows(list, sent')
<1> USE DEF At
<1>1. batch \in Seq(Message) /\ Len(batch) \in Nat
  BY DEF IInv, TypeOK
<1>2. \A m : Send(m) => sent' = m /\ Len(batch') = Len(batch) + 1
  BY <1>1 DEF Send
<1>3. SendNothing => batch' = batch
  BY DEF SendNothing
<1>4. CASE DetectTurn
  <2>1. pub_socket' = pub_socket
    BY <1>4 DEF DetectTurn
  <2>2. QED
    BY <1>1, <1>2, <1>3, <1>4, <2>1, SentInDetectTurn
<1>5. CASE RemovalTurn \/ DeletedTurn
  <2>1. pub_socket' = pub_socket
    BY <1>5 DEF RemovalTurn, DeletedTurn
  <2>2. QED
    BY <1>1, <1>2, <1>3, <1>5, <2>1, SentInRemovingTurn
<1>6. CASE \/ init_communication \/ init_signal_handling
           \/ termination_handler \/ FileEvent
           \/ DetectEnd \/ RemovalEnd \/ DeletedEnd \/ cleanup_communication
  <2>1. batch' = batch \/ batch' = << >>
    BY <1>6 DEF init_communication, init_signal_handling, termination_handler,
           FileEvent, file_modified, DetectEnd, RemovalEnd, file_deleted,
           DeletedEnd, monitor_file_fails, cleanup_communication, SendNothing
  <2>2. \A s \in Ssid : Announced'[s] = Announced[s]
    BY <1>6, QuietSteps DEF FileEvent, IInv
  <2>3. QED
    BY <1>1, <2>1, <2>2
<1>7. CASE \/ cleanup_data
           \/ \E parsed \in ParsedMaps \cup {NULL} : init_data(parsed)
  BY <1>1, <1>7 DEF cleanup_data, init_data, SocketOK, InMonitor
<1>8. QED
  BY <1>4, <1>5, <1>6, <1>7
  DEF Next, Startup, CallbackStep, Cleanup, FileEvent

-----------------------------------------------------------------------------
(* Every step of the system keeps the invariant.                           *)

LEMMA PrintedMessages == Seq(Printed) \subseteq Seq(Message)
  BY DEF Printed

LEMMA ConcatAppend ==
  ASSUME NEW front \in Seq(Message), NEW back \in Seq(Message),
         NEW m \in Message
  PROVE  front \o Append(back, m) = Append(front \o back, m)
  OBVIOUS

LEMMA MovesOver ==
  ASSUME NEW front \in Seq(Printed), NEW back \in Seq(Printed), back # << >>
  PROVE  Append(front, Head(back)) \o Tail(back) = front \o back
  OBVIOUS

LEMMA ComesFirst ==
  ASSUME NEW front \in Seq(Printed), NEW back \in Seq(Printed), front # << >>
  PROVE  /\ front \o back # << >>
         /\ Head(front \o back) = Head(front)
         /\ Tail(front \o back) = Tail(front) \o back
  OBVIOUS

LEMMA UnderWayType ==
  ASSUME SystemTypeOK, NEW c \in Client
  PROVE  /\ UnderWay(c) \in Seq(Message)
         /\ pipe[c] \in Seq(Message) /\ inbox[c] \in Seq(Message)
         /\ WillShow(c) \in Lists
<1>1. pipe[c] \in Seq(Message) /\ inbox[c] \in Seq(Message)
  BY PrintedMessages DEF SystemTypeOK
<1>2. UnderWay(c) \in Seq(Message)
  BY <1>1 DEF UnderWay
<1>3. QED
  BY <1>1, <1>2, AfterAllInLists DEF WillShow, SystemTypeOK

LEMMA InitSystem == SystemInit => SystemInv
<1> SUFFICES ASSUME SystemInit PROVE SystemInv
  OBVIOUS
<1>1. IInv
  BY InitInvariant DEF SystemInit
<1>2. SocketOK
  BY DEF SystemInit, Init, SocketOK, InMonitor
<1>3. SystemTypeOK
  BY DEF SystemInit, PubSubInit, Clients!ClientInit, SystemTypeOK, Lists
<1>4. LinksOK /\ HeardIsRight /\ NoClientAborts
  BY DEF SystemInit, PubSubInit, Clients!ClientInit, LinksOK, HeardIsRight,
         NoClientAborts
<1>5. QED
  BY <1>1, <1>2, <1>3, <1>4 DEF SystemInv

(***************************************************************************)
(* The state of the server that its invariant speaks of does not depend on *)
(* the rest of the system.                                                 *)
(***************************************************************************)
LEMMA ServerRests ==
  ASSUME IInv, SocketOK, UNCHANGED vars
  PROVE  /\ IInv' /\ SocketOK'
         /\ pub_socket' = pub_socket /\ (InStartup' <=> InStartup)
         /\ \A list : \A s \in Ssid : AgreeOn(list, Announced', s)
                                        <=> AgreeOn(list, Announced, s)
<1>1. IInv' /\ SocketOK'
  BY StepInvariant, SocketStep
<1>2. \A s \in Ssid : Announced'[s] = Announced[s]
  BY DEF vars, Announced, NewMapHolds, GoneFrom, InCleanup, PassedIn, ListOf,
         HasKey
<1>3. QED
  BY <1>1, <1>2 DEF vars, AgreeOn, InStartup

LEMMA StartupEnds ==
  ASSUME Next
  PROVE  /\ InStartup' => InStartup
         /\ pub_socket' /\ ~pub_socket => InStartup
  BY DEF Next, Startup, CallbackStep, Cleanup, FileEvent, At, InStartup,
         InMonitor, InCleanup, init_data, init_communication,
         init_signal_handling, file_modified, DetectTurn, DetectEnd,
         RemovalTurn, RemovalEnd, file_deleted, DeletedTurn, DeletedEnd,
         monitor_file_fails, cleanup_communication, cleanup_data,
         termination_handler

(***************************************************************************)
(* A step of the server that publishes a message.                          *)
(***************************************************************************)
LEMMA PublishingStep ==
  ASSUME SystemInv, Next, Publish(sent'),
         heard' = [c \in Client |-> HeardAfter(c, sent')],
         UNCHANGED clients,
         pub_socket' = pub_socket, sent' \in Printed,
         \A list \in Lists : Follows(list, sent')
  PROVE  SystemInv'
<1>1. IInv' /\ SocketOK'
  BY StepInvariant, SocketStep DEF SystemInv
<1>2. /\ link' = link /\ inbox' = inbox /\ cpc' = cpc /\ shown' = shown
      /\ \A c \in Client : pipe'[c] = IF Reaches(c) THEN Append(pipe[c], sent')
                                                    ELSE pipe[c]
      /\ \A c \in Client : heard'[c] = HeardAfter(c, sent')
      /\ sent' \in Message /\ sent'.ssid \in Ssid
  BY DEF Publish, clients, Printed, Message, NewSsidMsg, RemovedSsidMsg,
         ChangedSsidMsg
<1>3. ASSUME NEW c \in Client
      PROVE  /\ heard'[c] \subseteq heard[c] \cup {sent'.ssid}
             /\ link[c] # "subscribed" => heard'[c] = heard[c]
             /\ Reaches(c) => \A s \in heard'[c] : \/ s \in heard[c]
                                                   \/ /\ s = sent'.ssid
                                                      /\ sent'.id # "CHANGED_SSID"
             /\ link[c] = "subscribed" /\ ~Reaches(c)
                  => heard'[c] = heard[c] \ {sent'.ssid}
  BY <1>2 DEF HeardAfter, Reaches, Overflows
<1>4. SystemTypeOK'
  <2>1. pipe' \in [Client -> Seq(Printed)]
    BY DEF Publish, SystemInv, SystemTypeOK
  <2>2. heard' \in [Client -> SUBSET Ssid]
    BY <1>2, <1>3 DEF SystemInv, SystemTypeOK
  <2>3. QED
    BY <1>2, <2>1, <2>2 DEF SystemInv, SystemTypeOK
<1>5. LinksOK'
  <2>1. InStartup => ~pub_socket
    BY DEF SystemInv, SocketOK, InStartup, InMonitor
  <2>2. InStartup' => InStartup
    BY StartupEnds
  <2>3. QED
    BY <1>2, <1>3, <2>1, <2>2 DEF SystemInv, LinksOK
<1>6. HeardIsRight'
  <2> SUFFICES ASSUME NEW c \in Client, link[c] = "subscribed",
                      NEW s \in heard'[c]
               PROVE  AgreeOn(WillShow(c)', Announced', s)
    BY <1>2 DEF HeardIsRight
  <2>1. /\ UnderWay(c) \in Seq(Message) /\ WillShow(c) \in Lists
        /\ pipe[c] \in Seq(Message) /\ inbox[c] \in Seq(Message)
        /\ s \in Ssid
    BY <1>4, UnderWayType DEF SystemInv, SystemTypeOK
  <2>2. CASE Reaches(c)
    <3>1. UnderWay(c)' = Append(UnderWay(c), sent')
      <4>1. UnderWay(c)' = inbox[c] \o Append(pipe[c], sent')
        BY <1>2, <2>2 DEF UnderWay
      <4>2. inbox[c] \o Append(pipe[c], sent') = Append(inbox[c] \o pipe[c], sent')
        BY <1>2, <2>1, ConcatAppend
      <4>3. QED
        BY <4>1, <4>2 DEF UnderWay
    <3>2. WillShow(c)' = AfterAll(shown[c], Append(UnderWay(c), sent'))
      BY <1>2, <3>1 DEF WillShow, AfterAll
    <3>3. WillShow(c)' = Applied(WillShow(c), sent')
      BY <1>2, <2>1, <3>2, AfterAllAppend DEF WillShow
    <3>4. \/ s = sent'.ssid /\ sent'.id # "CHANGED_SSID"
          \/ AgreeOn(WillShow(c), Announced, s)
      BY <1>3, <2>2 DEF SystemInv, HeardIsRight
    <3>5. QED
      BY <2>1, <3>3, <3>4 DEF Follows
  <2>3. CASE ~Reaches(c)
    <3>1. UnderWay(c)' = UnderWay(c)
      BY <1>2, <2>3 DEF UnderWay
    <3>2. WillShow(c)' = WillShow(c)
      BY <1>2, <3>1 DEF WillShow, AfterAll
    <3>3. s # sent'.ssid /\ AgreeOn(WillShow(c), Announced, s)
      BY <1>3, <2>3 DEF SystemInv, HeardIsRight
    <3>4. AgreeOn(Applied(WillShow(c), sent'), Announced', s)
      BY <2>1, <3>3 DEF Follows
    <3>5. Applied(WillShow(c), sent')[s] = WillShow(c)[s]
      BY <1>2, <2>1, <3>3 DEF Applied, Lists
    <3>6. QED
      BY <3>2, <3>4, <3>5 DEF AgreeOn
  <2>4. QED
    BY <2>2, <2>3
<1>7. NoClientAborts'
  BY <1>2 DEF SystemInv, NoClientAborts
<1>8. QED
  BY <1>1, <1>4, <1>5, <1>6, <1>7 DEF SystemInv

(***************************************************************************)
(* A step of the server that publishes nothing.                            *)
(***************************************************************************)
LEMMA SilentStep ==
  ASSUME SystemInv, Next, UNCHANGED <<heard, clients>>,
         IF pub_socket /\ ~pub_socket' THEN DestroyPub ELSE UNCHANGED transport,
         pub_socket' => \A s \in Ssid : Announced'[s] = Announced[s]
  PROVE  SystemInv'
<1>1. IInv' /\ SocketOK'
  BY StepInvariant, SocketStep DEF SystemInv
<1>2. cpc' = cpc /\ shown' = shown /\ heard' = heard
  BY DEF clients
<1>3. /\ InStartup' => InStartup
      /\ pub_socket' /\ ~pub_socket => InStartup
  BY StartupEnds
<1>4. pub_socket \in BOOLEAN /\ pub_socket' \in BOOLEAN
  BY <1>1 DEF SystemInv, IInv, TypeOK
<1>5. CASE pub_socket /\ ~pub_socket'
  <2>1. /\ link' = [c \in Client |-> IF link[c] = "subscribed" THEN "connecting"
                                                               ELSE link[c]]
        /\ pipe' = [c \in Client |-> << >>]
        /\ inbox' = inbox
    BY <1>5 DEF DestroyPub
  <2>2. SystemTypeOK'
    <3>1. link' \in [Client -> {"none", "connecting", "subscribed"}]
      BY <2>1 DEF SystemInv, SystemTypeOK
    <3>2. pipe' \in [Client -> Seq(Printed)]
      BY <2>1
    <3>3. QED
      BY <1>2, <2>1, <3>1, <3>2 DEF SystemInv, SystemTypeOK
  <2>3. \A c \in Client : /\ link'[c] # "subscribed"
                          /\ link[c] = "none" => link'[c] = "none"
    BY <2>1
  <2>4. LinksOK'
    BY <1>2, <1>3, <1>5, <2>3 DEF SystemInv, LinksOK
  <2>5. HeardIsRight'
    BY <2>3 DEF HeardIsRight
  <2>6. NoClientAborts'
    BY <1>2 DEF SystemInv, NoClientAborts
  <2>7. QED
    BY <1>1, <2>2, <2>4, <2>5, <2>6 DEF SystemInv
<1>6. CASE ~(pub_socket /\ ~pub_socket')
  <2>1. link' = link /\ pipe' = pipe /\ inbox' = inbox
    BY <1>6 DEF transport
  <2>2. SystemTypeOK'
    BY <1>2, <2>1 DEF SystemInv, SystemTypeOK
  <2>3. LinksOK'
    BY <1>2, <1>3, <1>4, <1>6, <2>1 DEF SystemInv, LinksOK
  <2>4. HeardIsRight'
    <3> SUFFICES ASSUME NEW c \in Client, link[c] = "subscribed",
                        NEW s \in heard[c]
                 PROVE  AgreeOn(WillShow(c)', Announced', s)
      BY <1>2, <2>1 DEF HeardIsRight
    <3>1. WillShow(c)' = WillShow(c)
      BY <1>2, <2>1, WillShowStays
    <3>2. AgreeOn(WillShow(c), Announced, s) /\ s \in Ssid
      BY DEF SystemInv, HeardIsRight, SystemTypeOK
    <3>3. Announced'[s] = Announced[s]
      BY <1>4, <1>6, <3>2 DEF SystemInv, LinksOK
    <3>4. QED
      BY <3>1, <3>2, <3>3 DEF AgreeOn
  <2>5. NoClientAborts'
    BY <1>2 DEF SystemInv, NoClientAborts
  <2>6. QED
    BY <1>1, <2>2, <2>3, <2>4, <2>5 DEF SystemInv
<1>7. QED
  BY <1>5, <1>6

LEMMA ServersStep ==
  ASSUME SystemInv, ServerRuns \/ ServerIsCalled
  PROVE  SystemInv'
<1>1. Next /\ OnTheWire /\ UNCHANGED clients
  BY DEF ServerRuns, ServerIsCalled, ServerStep, Next
<1>2. CASE /\ Len(batch') <= Len(batch)
           /\ pub_socket' => \A s \in Ssid : Announced'[s] = Announced[s]
  <2>1. /\ UNCHANGED heard
        /\ IF pub_socket /\ ~pub_socket' THEN DestroyPub ELSE UNCHANGED transport
    <3>1. Len(batch) \in Nat /\ Len(batch') \in Nat
      BY <1>1, StepInvariant DEF SystemInv, IInv, TypeOK
    <3>2. QED
      BY <1>1, <1>2, <3>1 DEF OnTheWire
  <2>2. QED
    BY <1>1, <1>2, <2>1, SilentStep
<1>3. CASE /\ Len(batch') > Len(batch)
           /\ pub_socket' = pub_socket /\ sent' \in Printed
           /\ \A list \in Lists : Follows(list, sent')
  <2>1. Publish(sent') /\ heard' = [c \in Client |-> HeardAfter(c, sent')]
    <3>1. Len(batch) \in Nat /\ Len(batch') \in Nat
      BY <1>1, StepInvariant DEF SystemInv, IInv, TypeOK
    <3>2. QED
      BY <1>1, <1>3, <3>1 DEF OnTheWire
  <2>2. QED
    BY <1>1, <1>3, <2>1, PublishingStep
<1>4. QED
  BY <1>1, <1>2, <1>3, ServerTells DEF SystemInv

(***************************************************************************)
(* A new process of the server: what holds initially holds of it, and no   *)
(* client has subscribed to it yet.                                        *)
(***************************************************************************)
LEMMA InitServerNext == (Init => IInv)'
  BY InitInvariant, PTL

LEMMA RestartStep ==
  ASSUME SystemInv, Restart
  PROVE  SystemInv'
<1>1. Init'
  BY DEF Restart, Init
<1>2. IInv' /\ SocketOK'
  BY <1>1, InitServerNext DEF Init, SocketOK, InMonitor
<1>3. /\ link' = link /\ pipe' = pipe /\ inbox' = inbox
      /\ cpc' = cpc /\ shown' = shown
      /\ heard' = [c \in Client |-> {}]
      /\ ~pub_socket' /\ ~pub_socket
  BY DEF Restart, transport, clients, SystemInv, SocketOK
<1>4. SystemTypeOK' /\ LinksOK'
  BY <1>3 DEF SystemInv, SystemTypeOK, LinksOK
<1>5. HeardIsRight' /\ NoClientAborts'
  BY <1>3 DEF SystemInv, HeardIsRight, NoClientAborts
<1>6. QED
  BY <1>2, <1>4, <1>5 DEF SystemInv

(***************************************************************************)
(* A step that leaves the server and what the clients have heard alone     *)
(* keeps the invariant if the lists that clients will show stay.           *)
(***************************************************************************)
LEMMA ClientsMove ==
  ASSUME SystemInv, UNCHANGED <<vars, heard>>,
         SystemTypeOK', NoClientAborts', LinksOK',
         \A c \in Client :
           link'[c] = "subscribed" =>
             heard[c] = {} \/ (link[c] = "subscribed" /\ WillShow(c)' = WillShow(c))
  PROVE  SystemInv'
<1>1. /\ IInv' /\ SocketOK'
      /\ \A list : \A s \in Ssid : AgreeOn(list, Announced', s)
                                     <=> AgreeOn(list, Announced, s)
  BY ServerRests DEF SystemInv
<1>2. HeardIsRight'
  <2> SUFFICES ASSUME NEW c \in Client, link'[c] = "subscribed",
                      NEW s \in heard[c]
               PROVE  AgreeOn(WillShow(c)', Announced', s)
    BY DEF HeardIsRight
  <2>1. /\ AgreeOn(WillShow(c), Announced, s) /\ s \in Ssid
        /\ WillShow(c)' = WillShow(c)
    BY DEF SystemInv, HeardIsRight, SystemTypeOK
  <2>2. QED
    BY <1>1, <2>1
<1>3. QED
  BY <1>1, <1>2 DEF SystemInv

LEMMA ArriveStep ==
  ASSUME SystemInv, NEW c \in Client, Arrive(c)
  PROVE  SystemInv'
<1>1. /\ pub_socket' = pub_socket /\ (InStartup' <=> InStartup)
      /\ UNCHANGED <<vars, heard>> /\ cpc' = cpc /\ shown' = shown
  BY ServerRests DEF Arrive, SystemInv, clients
<1>2. NoClientAborts'
  BY <1>1 DEF SystemInv, NoClientAborts
<1>3. CASE pub_socket /\ Subscribe(c)
  <2>1. /\ link' = [link EXCEPT ![c] = "subscribed"] /\ link[c] = "connecting"
        /\ pipe' = pipe /\ inbox' = inbox
    BY <1>3 DEF Subscribe
  <2>2. SystemTypeOK'
    BY <1>1, <2>1 DEF SystemInv, SystemTypeOK
  <2>3. LinksOK'
    BY <1>1, <1>3, <2>1 DEF SystemInv, SystemTypeOK, LinksOK
  <2>4. ASSUME NEW d \in Client, link'[d] = "subscribed"
        PROVE  \/ heard[d] = {}
               \/ link[d] = "subscribed" /\ WillShow(d)' = WillShow(d)
    <3>1. CASE d = c
      BY <1>3, <2>1, <3>1 DEF SystemInv, LinksOK
    <3>2. CASE d # c
      <4>1. WillShow(d)' = WillShow(d)
        BY <1>1, <2>1, WillShowStays
      <4>2. QED
        BY <2>1, <2>4, <3>2, <4>1 DEF SystemInv, SystemTypeOK
    <3>3. QED
      BY <3>1, <3>2
  <2>5. QED
    BY <1>1, <1>2, <2>2, <2>3, <2>4, ClientsMove
<1>4. CASE Transmit(c)
  <2>1. /\ link' = link /\ pipe[c] # << >>
        /\ inbox' = [inbox EXCEPT ![c] = Append(inbox[c], Head(pipe[c]))]
        /\ pipe' = [pipe EXCEPT ![c] = Tail(pipe[c])]
    BY <1>4 DEF Transmit
  <2>2. /\ pipe[c] \in Seq(Printed) /\ inbox[c] \in Seq(Printed)
        /\ Head(pipe[c]) \in Printed /\ Tail(pipe[c]) \in Seq(Printed)
        /\ Append(inbox[c], Head(pipe[c])) \in Seq(Printed)
    BY <2>1 DEF SystemInv, SystemTypeOK
  <2>3. SystemTypeOK'
    BY <1>1, <2>1, <2>2 DEF SystemInv, SystemTypeOK
  <2>4. LinksOK'
    BY <1>1, <2>1 DEF SystemInv, LinksOK
  <2>5. ASSUME NEW d \in Client
        PROVE  WillShow(d)' = WillShow(d)
    <3>1. UnderWay(d)' = UnderWay(d)
      <4>1. CASE d = c
        <5>1. UnderWay(d)' = Append(inbox[c], Head(pipe[c])) \o Tail(pipe[c])
          BY <2>1, <4>1 DEF UnderWay, SystemInv, SystemTypeOK
        <5>2. Append(inbox[c], Head(pipe[c])) \o Tail(pipe[c])
                = inbox[c] \o pipe[c]
          BY <2>1, <2>2, MovesOver
        <5>3. QED
          BY <4>1, <5>1, <5>2 DEF UnderWay
      <4>2. CASE d # c
        BY <2>1, <4>2 DEF UnderWay, SystemInv, SystemTypeOK
      <4>3. QED
        BY <4>1, <4>2
    <3>2. QED
      BY <1>1, <3>1 DEF WillShow, AfterAll
  <2>6. QED
    BY <1>1, <1>2, <2>1, <2>3, <2>4, <2>5, ClientsMove
<1>5. QED
  BY <1>3, <1>4 DEF Arrive

(***************************************************************************)
(* The client receives: the message is one that can be printed, and what   *)
(* it then shows and has under way makes the same list.                    *)
(***************************************************************************)
LEMMA ReceiveStep ==
  ASSUME SystemInv, NEW c \in Client, Clients!receive_msg(c),
         UNCHANGED <<vars, heard>>
  PROVE  SystemInv'
<1> DEFINE msg == Head(inbox[c])
<1>1. /\ pub_socket' = pub_socket /\ (InStartup' <=> InStartup)
      /\ heard' = heard
  BY ServerRests DEF SystemInv
<1>2. /\ inbox[c] \in Seq(Printed) /\ inbox[c] # << >>
      /\ msg \in Printed /\ Tail(inbox[c]) \in Seq(Printed)
      /\ msg \in Message /\ Clients!PrintReturns(msg)
  <2>1. /\ inbox[c] \in Seq(Printed) /\ inbox[c] # << >>
        /\ msg \in Printed /\ Tail(inbox[c]) \in Seq(Printed)
    BY DEF SystemInv, SystemTypeOK, Clients!receive_msg
  <2>2. msg \in Message /\ Clients!PrintReturns(msg)
    BY <2>1 DEF Printed
  <2>3. QED
    BY <2>1, <2>2
<1>3. /\ shown' = [shown EXCEPT ![c] = Clients!PrintedTo(shown[c], msg)]
      /\ inbox' = [inbox EXCEPT ![c] = Tail(inbox[c])]
      /\ cpc' = cpc /\ link' = link /\ pipe' = pipe
  BY <1>2 DEF Clients!receive_msg
<1>4. /\ Clients!PrintedTo(shown[c], msg) = Applied(shown[c], msg)
      /\ Applied(shown[c], msg) \in Lists
  <2>1. msg.id \in {"NEW_SSID", "REMOVED_SSID", "CHANGED_SSID"}
    BY <1>2 DEF Message, NewSsidMsg, RemovedSsidMsg, ChangedSsidMsg
  <2>2. Clients!PrintedTo(shown[c], msg) = Applied(shown[c], msg)
    BY <2>1 DEF Clients!PrintedTo, Clients!Applied, Applied
  <2>3. QED
    BY <1>2, <2>2, AppliedInLists DEF SystemInv, SystemTypeOK
<1>5. SystemTypeOK'
  BY <1>1, <1>2, <1>3, <1>4 DEF SystemInv, SystemTypeOK
<1>6. LinksOK'
  BY <1>1, <1>3 DEF SystemInv, LinksOK
<1>7. NoClientAborts'
  BY <1>3 DEF SystemInv, NoClientAborts
<1>8. ASSUME NEW d \in Client
      PROVE  WillShow(d)' = WillShow(d)
  <2>1. CASE d = c
    <3>1. /\ UnderWay(c) \in Seq(Message) /\ UnderWay(c) # << >>
          /\ Head(UnderWay(c)) = msg
          /\ Tail(UnderWay(c)) = Tail(inbox[c]) \o pipe[c]
      <4>1. pipe[c] \in Seq(Printed)
        BY DEF SystemInv, SystemTypeOK
      <4>2. QED
        BY <1>2, <4>1, ComesFirst, UnderWayType DEF UnderWay, SystemInv
    <3>2. UnderWay(c)' = Tail(UnderWay(c))
      BY <1>3, <3>1 DEF UnderWay, SystemInv, SystemTypeOK
    <3>3. shown'[c] = Applied(shown[c], msg)
      BY <1>3, <1>4 DEF SystemInv, SystemTypeOK
    <3>4. WillShow(c)' = AfterAll(Applied(shown[c], msg), Tail(UnderWay(c)))
      BY <3>2, <3>3 DEF WillShow, AfterAll
    <3>5. QED
      BY <2>1, <3>1, <3>4, AfterAllFirst DEF WillShow
  <2>2. CASE d # c
    <3>1. inbox'[d] = inbox[d] /\ shown'[d] = shown[d] /\ pipe' = pipe
      BY <1>3, <2>2 DEF SystemInv, SystemTypeOK
    <3>2. QED
      BY <3>1, WillShowStays
  <2>3. QED
    BY <2>1, <2>2
<1>9. QED
  BY <1>3, <1>5, <1>6, <1>7, <1>8, ClientsMove

(***************************************************************************)
(* The client starts, or it ends and its socket with it.                   *)
(***************************************************************************)
LEMMA ClientLifeStep ==
  ASSUME SystemInv, NEW c \in Client, UNCHANGED <<vars, heard>>,
         \/ Clients!init_communication(c) \/ Clients!init_signal_handling(c)
         \/ Clients!ClientEnds(c)
  PROVE  SystemInv'
<1>1. /\ pub_socket' = pub_socket /\ (InStartup' <=> InStartup)
      /\ heard' = heard
  BY ServerRests DEF SystemInv
<1>2. shown' = shown
  BY DEF Clients!init_communication, Clients!init_signal_handling,
         Clients!ClientEnds, Clients!zsock_recv_fails,
         Clients!termination_handler
<1>3. PICK place \in {"init_signal_handling", "receive_msg", "exited"} :
        cpc' = [cpc EXCEPT ![c] = place]
  BY DEF Clients!init_communication, Clients!init_signal_handling,
         Clients!ClientEnds, Clients!zsock_recv_fails,
         Clients!termination_handler, Clients!GoesTo
<1>4. \/ UNCHANGED transport
      \/ /\ cpc[c] = "init_communication"
         /\ link' = [link EXCEPT ![c] = "connecting"]
         /\ pipe' = pipe /\ inbox' = inbox
      \/ /\ link' = [link EXCEPT ![c] = "none"]
         /\ pipe' = [pipe EXCEPT ![c] = << >>]
         /\ inbox' = [inbox EXCEPT ![c] = << >>]
  BY DEF Clients!init_communication, Clients!init_signal_handling,
         Clients!ClientEnds, Clients!zsock_recv_fails,
         Clients!termination_handler, Clients!zsock_new_sub,
         Clients!DestroySub, Clients!transport, transport
<1>5. << >> \in Seq(Printed)
  OBVIOUS
<1>6. SystemTypeOK'
  <2>1. cpc' \in [Client -> {"init_communication", "init_signal_handling",
                             "receive_msg", "exited", "aborted"}]
    BY <1>3 DEF SystemInv, SystemTypeOK
  <2>2. link' \in [Client -> {"none", "connecting", "subscribed"}]
    BY <1>4 DEF SystemInv, SystemTypeOK, transport
  <2>3. pipe' \in [Client -> Seq(Printed)]
    BY <1>4, <1>5 DEF SystemInv, SystemTypeOK, transport
  <2>4. inbox' \in [Client -> Seq(Printed)]
    BY <1>4, <1>5 DEF SystemInv, SystemTypeOK, transport
  <2>5. QED
    BY <1>1, <1>2, <2>1, <2>2, <2>3, <2>4 DEF SystemInv, SystemTypeOK
<1>7. LinksOK'
  <2>1. \A d \in Client : cpc'[d] = IF d = c THEN place ELSE cpc[d]
    BY <1>3 DEF SystemInv, SystemTypeOK
  <2>2. \A d \in Client : \/ link'[d] = link[d]
                          \/ d = c /\ link'[d] = "none"
                          \/ /\ d = c /\ link'[d] = "connecting"
                             /\ cpc[d] = "init_communication"
    BY <1>4 DEF SystemInv, SystemTypeOK, transport
  <2>3. QED
    BY <1>1, <1>3, <2>1, <2>2 DEF SystemInv, LinksOK
<1>8. NoClientAborts'
  BY <1>3 DEF SystemInv, SystemTypeOK, NoClientAborts
<1>9. ASSUME NEW d \in Client, link'[d] = "subscribed"
      PROVE  link[d] = "subscribed" /\ WillShow(d)' = WillShow(d)
  <2>1. /\ link[d] = "subscribed" /\ pipe'[d] = pipe[d] /\ inbox'[d] = inbox[d]
    BY <1>4, <1>9 DEF SystemInv, SystemTypeOK, transport
  <2>2. QED
    BY <1>2, <2>1, WillShowStays
<1>10. QED
  BY <1>6, <1>7, <1>8, <1>9, ClientsMove

LEMMA StepSystem == SystemInv /\ [SystemNext]_systemVars => SystemInv'
<1> SUFFICES ASSUME SystemInv, [SystemNext]_systemVars
             PROVE  SystemInv'
  OBVIOUS
<1>1. CASE ServerRuns \/ ServerIsCalled
  BY <1>1, ServersStep
<1>2. CASE Restart
  BY <1>2, RestartStep
<1>3. ASSUME NEW c \in Client, Arrive(c)
      PROVE  SystemInv'
  BY <1>3, ArriveStep
<1>4. ASSUME NEW c \in Client, ClientRuns(c) \/ ClientStops(c)
      PROVE  SystemInv'
  <2>1. UNCHANGED <<vars, heard>>
    BY <1>4 DEF ClientRuns, ClientStops
  <2>2. CASE Clients!receive_msg(c)
    BY <2>1, <2>2, ReceiveStep
  <2>3. CASE \/ Clients!init_communication(c) \/ Clients!init_signal_handling(c)
             \/ Clients!ClientEnds(c)
    BY <2>1, <2>3, ClientLifeStep
  <2>4. QED
    BY <1>4, <2>2, <2>3 DEF ClientRuns, ClientStops, Clients!ClientStep
<1>5. CASE UNCHANGED systemVars
  <2>1. /\ UNCHANGED <<vars, heard>> /\ link' = link /\ pipe' = pipe
        /\ inbox' = inbox /\ cpc' = cpc /\ shown' = shown
    BY <1>5 DEF systemVars, transport, clients
  <2>2. pub_socket' = pub_socket /\ (InStartup' <=> InStartup)
    BY <2>1, ServerRests DEF SystemInv
  <2>3. SystemTypeOK' /\ LinksOK' /\ NoClientAborts'
    BY <2>1, <2>2 DEF SystemInv, SystemTypeOK, LinksOK, NoClientAborts
  <2>4. \A c \in Client : WillShow(c)' = WillShow(c)
    BY <2>1, WillShowStays
  <2>5. QED
    BY <2>1, <2>3, <2>4, ClientsMove
<1>6. QED
  BY <1>1, <1>2, <1>3, <1>4, <1>5 DEF SystemNext

LEMMA SystemInvariant == SystemSpec => []SystemInv
<1>1. QED
  BY InitSystem, StepSystem, PTL DEF SystemSpec

-----------------------------------------------------------------------------
(* What follows for the properties WatcherSystem states.                   *)

(***************************************************************************)
(* Whatever a client missed, and whenever it joined, it will show of the   *)
(* access points announced to it what the server announced last: for any   *)
(* number of clients, any length of the queues and any number of restarts. *)
(***************************************************************************)
THEOREM HeardLists == SystemSpec => []HeardIsRight
<1>1. SystemInv => HeardIsRight
  BY DEF SystemInv
<1>2. QED
  BY SystemInvariant, <1>1, PTL

(***************************************************************************)
(* No message that reaches a client, also one an earlier server sent, is   *)
(* one whose printing function fails an assertion.                         *)
(***************************************************************************)
THEOREM ClientsSurvive == SystemSpec => []NoClientAborts
<1>1. SystemInv => NoClientAborts
  BY DEF SystemInv
<1>2. QED
  BY SystemInvariant, <1>1, PTL

=============================================================================

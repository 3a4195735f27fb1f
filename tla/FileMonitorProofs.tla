-------------------------- MODULE FileMonitorProofs --------------------------
(***************************************************************************)
(* What FileMonitor promises for every document, every file system of any  *)
(* size and every buffer of get_file_events: no update of the watched file *)
(* is lost, and it is reported as deleted only when it is lost.            *)
(*                                                                         *)
(* The argument: while the watched inode is at the path, a text of it that *)
(* was not adopted is announced by an IN_MODIFY the server has not looked  *)
(* at yet, or is about to be read, or is being read and has not changed    *)
(* since ftell, so that what fread has got is a prefix of it.              *)
(***************************************************************************)
EXTENDS FileMonitor, TLAPS

Has(q, event) == \E k \in 1..Len(q) : q[k] = event

Reading == {"fopen", "ftell", "fread"}

OnePath == \A i, j \in Inode : AtPath(i) /\ AtPath(j) => i = j

HandlesInv ==
  /\ pc \in {"ftell", "fread"} => fd \in Inode
  /\ writer # Resting => writer.inode \in Inode

WatchInv ==
  /\ watch = NoInode => queue = << >> /\ events = << >>
  /\ watch # NoInode => name[watch] # "free"
  /\ watch # NoInode <=> \/ pc \in {"read", "events"}
                         \/ pc \in Reading /\ caller = "file_modified"
  /\ pc = "read" => events = << >>

LossInv ==
  \A event \in {"IN_DELETE_SELF", "IN_MOVE_SELF"} :
    Has(queue, event) \/ Has(events, event) => Lost

ReadsWatched ==
  /\ pc = "fread" /\ fd = watch
  /\ size = Len(text[watch])
  /\ Len(buf) <= size
  /\ \A k \in 1..Len(buf) : buf[k] = text[watch][k]

UpToDate ==
  \/ Has(queue, "IN_MODIFY") \/ Has(events, "IN_MODIFY")
  \/ pc = "fopen"
  \/ pc = "ftell" /\ fd = watch
  \/ ReadsWatched
  \/ pc \in {"read", "events"} /\ (text[watch] \in Parsable
                                     => adopted = text[watch])

UpdateInv == watch # NoInode /\ AtPath(watch) /\ ~missed => UpToDate

FInv ==
  /\ TypeOK /\ OnePath /\ HandlesInv /\ WatchInv /\ LossInv /\ UpdateInv

-----------------------------------------------------------------------------
(***************************************************************************)
(* What is in a queue after an event is merged into it, after its head is  *)
(* taken, and after it is cut in two.                                      *)
(***************************************************************************)
LEMMA MergedHas ==
  ASSUME NEW q \in Seq(Event), NEW e \in Event
  PROVE  /\ Merged(q, e) \in Seq(Event)
         /\ \A f : Has(Merged(q, e), f) <=> Has(q, f) \/ f = e
<1>1. CASE q # << >> /\ q[Len(q)] = e
  <2>1. Merged(q, e) = q
    BY <1>1 DEF Merged
  <2>2. Len(q) \in 1..Len(q)
    BY <1>1
  <2>3. Has(q, e)
    BY <1>1, <2>2 DEF Has
  <2>4. QED
    BY <2>1, <2>3
<1>2. CASE ~(q # << >> /\ q[Len(q)] = e)
  <2>1. Merged(q, e) = Append(q, e)
    BY <1>2 DEF Merged
  <2>2. /\ Append(q, e) \in Seq(Event)
        /\ Len(Append(q, e)) = Len(q) + 1 /\ Len(q) \in Nat
        /\ \A k \in 1..Len(q) : Append(q, e)[k] = q[k]
        /\ Append(q, e)[Len(q) + 1] = e
    OBVIOUS
  <2>3. \A f : Has(Append(q, e), f) <=> Has(q, f) \/ f = e
    BY <2>2 DEF Has
  <2>4. QED
    BY <2>1, <2>2, <2>3
<1>3. QED
  BY <1>1, <1>2

LEMMA TailHas ==
  ASSUME NEW q \in Seq(Event), q # << >>
  PROVE  /\ Head(q) \in Event /\ Tail(q) \in Seq(Event)
         /\ \A f : Has(q, f) <=> Has(Tail(q), f) \/ f = Head(q)
<1>1. /\ Head(q) \in Event /\ Tail(q) \in Seq(Event)
      /\ Head(q) = q[1] /\ Len(q) \in Nat \ {0} /\ Len(Tail(q)) = Len(q) - 1
      /\ \A k \in 1..Len(Tail(q)) : Tail(q)[k] = q[k + 1]
  OBVIOUS
<1>2. ASSUME NEW f PROVE Has(q, f) <=> Has(Tail(q), f) \/ f = Head(q)
  <2>1. ASSUME Has(q, f), f # Head(q) PROVE Has(Tail(q), f)
    <3>1. PICK k \in 1..Len(q) : q[k] = f
      BY <2>1 DEF Has
    <3>2. k - 1 \in 1..Len(Tail(q)) /\ (k - 1) + 1 = k
      BY <1>1, <2>1, <3>1
    <3>3. Tail(q)[k - 1] = f
      BY <1>1, <3>1, <3>2
    <3>4. QED
      BY <3>2, <3>3 DEF Has
  <2>2. ASSUME Has(Tail(q), f) PROVE Has(q, f)
    <3>1. PICK k \in 1..Len(Tail(q)) : Tail(q)[k] = f
      BY <2>2 DEF Has
    <3>2. k + 1 \in 1..Len(q)
      BY <1>1
    <3>3. QED
      BY <1>1, <3>1, <3>2 DEF Has
  <2>3. Has(q, Head(q))
    <3>1. 1 \in 1..Len(q)
      BY <1>1
    <3>2. QED
      BY <1>1, <3>1 DEF Has
  <2>4. QED
    BY <2>1, <2>2, <2>3
<1>3. QED
  BY <1>1, <1>2

LEMMA SplitHas ==
  ASSUME NEW q \in Seq(Event), NEW n \in 0..Len(q)
  PROVE  /\ SubSeq(q, 1, n) \in Seq(Event)
         /\ SubSeq(q, n + 1, Len(q)) \in Seq(Event)
         /\ \A f : Has(q, f) <=> \/ Has(SubSeq(q, 1, n), f)
                                 \/ Has(SubSeq(q, n + 1, Len(q)), f)
<1> DEFINE first == SubSeq(q, 1, n)
           rest == SubSeq(q, n + 1, Len(q))
<1>1. /\ first \in Seq(Event) /\ Len(first) = n
      /\ \A k \in 1..n : first[k] = q[k]
  OBVIOUS
<1>2. /\ rest \in Seq(Event) /\ Len(rest) = Len(q) - n
      /\ \A k \in 1..(Len(q) - n) : rest[k] = q[n + k]
  OBVIOUS
<1> HIDE DEF first, rest
<1>3. ASSUME NEW f PROVE Has(q, f) <=> Has(first, f) \/ Has(rest, f)
  <2>1. ASSUME Has(q, f) PROVE Has(first, f) \/ Has(rest, f)
    <3>1. PICK k \in 1..Len(q) : q[k] = f
      BY <2>1 DEF Has
    <3>2. CASE k <= n
      BY <1>1, <3>1, <3>2 DEF Has
    <3>3. CASE ~(k <= n)
      <4>1. k - n \in 1..(Len(q) - n) /\ n + (k - n) = k
        BY <3>3
      <4>2. rest[k - n] = f
        BY <1>2, <3>1, <4>1
      <4>3. QED
        BY <1>2, <4>1, <4>2 DEF Has
    <3>4. QED
      BY <3>2, <3>3
  <2>2. ASSUME Has(first, f) PROVE Has(q, f)
    BY <1>1, <2>2 DEF Has
  <2>3. ASSUME Has(rest, f) PROVE Has(q, f)
    <3>1. PICK k \in 1..(Len(q) - n) : rest[k] = f
      BY <1>2, <2>3 DEF Has
    <3>2. n + k \in 1..Len(q)
      OBVIOUS
    <3>3. QED
      BY <1>2, <3>1, <3>2 DEF Has
  <2>4. QED
    BY <2>1, <2>2, <2>3
<1>4. QED
  BY <1>1, <1>2, <1>3 DEF first, rest

LEMMA EmptyHasNone == \A f : ~Has(<< >>, f)
BY DEF Has

(***************************************************************************)
(* The inode at the path.                                                  *)
(***************************************************************************)
LEMMA PathIs ==
  ASSUME OnePath, PathExists
  PROVE  /\ Path \in Inode /\ AtPath(Path)
         /\ \A i \in Inode : AtPath(i) => i = Path
<1>1. PICK i \in Inode : AtPath(i)
  BY DEF PathExists
<1>2. Path = CHOOSE inode \in Inode : AtPath(inode)
  BY DEF Path
<1>3. Path \in Inode /\ AtPath(Path)
  BY <1>1, <1>2
<1>4. QED
  BY <1>3 DEF OnePath

-----------------------------------------------------------------------------
(***************************************************************************)
(* What happens to the file leaves the server alone.  Of the watched inode *)
(* it takes the name, and does not give it back; what it writes there it   *)
(* announces.                                                              *)
(***************************************************************************)
FilesTyped ==
  /\ name \in [Inode -> {"free", "path", "moved", "unlinked", "destroyed",
                         "unmounted"}]
  /\ text \in [Inode -> Text]
  /\ writer \in [inode : Inode \cup {NoInode}, doc : Text, at : Nat \ {0}]
  /\ writer # Resting => writer.inode \in Inode
  /\ ops \in 0..MaxOps
  /\ queue \in Seq(Event)
  /\ missed \in BOOLEAN

FilesChange ==
  /\ UnchangedServer
  /\ FilesTyped' /\ OnePath'
  /\ watch = NoInode => queue' = << >>
  /\ watch # NoInode =>
       /\ name'[watch] # "free"
       /\ name'[watch] = "path" => AtPath(watch)
       /\ Has(queue, "IN_MODIFY") => Has(queue', "IN_MODIFY")
       /\ \/ text'[watch] = text[watch] /\ (missed' <=> missed)
          \/ Has(queue', "IN_MODIFY")
       /\ Lost => Lost'
       /\ \A event \in {"IN_DELETE_SELF", "IN_MOVE_SELF"} :
            Has(queue', event) => Has(queue, event) \/ Lost'

LEMMA FilesChangeKeeps == FInv /\ FilesChange => FInv'
<1> SUFFICES ASSUME FInv, FilesChange PROVE FInv'
  OBVIOUS
<1>1. /\ watch' = watch /\ pc' = pc /\ caller' = caller /\ fd' = fd
      /\ size' = size /\ buf' = buf /\ events' = events /\ adopted' = adopted
  BY DEF FilesChange, UnchangedServer, readVars
<1>2. TypeOK'
  BY <1>1 DEF FInv, TypeOK, FilesChange, FilesTyped
<1>3. OnePath' /\ HandlesInv'
  BY <1>1 DEF FInv, HandlesInv, FilesChange, FilesTyped
<1>4. WatchInv'
  BY <1>1 DEF FInv, WatchInv, FilesChange, Reading
<1>5. LossInv'
  <2> SUFFICES ASSUME NEW event \in {"IN_DELETE_SELF", "IN_MOVE_SELF"},
                      Has(queue', event) \/ Has(events', event)
               PROVE  Lost'
    BY DEF LossInv, Has
  <2>1. CASE watch = NoInode
    <3>1. queue' = << >> /\ events' = << >>
      BY <1>1, <2>1 DEF FInv, WatchInv, FilesChange
    <3>2. QED
      BY <3>1, EmptyHasNone
  <2>2. CASE watch # NoInode
    <3>1. Has(queue, event) \/ Has(events, event) => Lost'
      BY <2>2 DEF FInv, LossInv, FilesChange
    <3>2. QED
      BY <1>1, <2>2, <3>1 DEF FilesChange
  <2>3. QED
    BY <2>1, <2>2
<1>6. UpdateInv'
  <2> SUFFICES ASSUME watch # NoInode, AtPath(watch)', ~missed'
               PROVE  UpToDate'
    BY <1>1 DEF UpdateInv
  <2>1. AtPath(watch)
    BY <1>1 DEF FilesChange, AtPath
  <2>2. CASE Has(queue', "IN_MODIFY")
    BY <2>2 DEF UpToDate, Has
  <2>3. CASE ~Has(queue', "IN_MODIFY")
    <3>1. /\ text'[watch] = text[watch] /\ ~missed
          /\ ~Has(queue, "IN_MODIFY")
      BY <2>3 DEF FilesChange
    <3>2. UpToDate
      BY <2>1, <3>1 DEF FInv, UpdateInv
    <3>3. CASE Has(events, "IN_MODIFY")
      BY <1>1, <3>3 DEF UpToDate, Has
    <3>4. CASE pc = "fopen" \/ (pc = "ftell" /\ fd = watch)
      BY <1>1, <3>4 DEF UpToDate
    <3>5. CASE ReadsWatched
      <4>1. ReadsWatched'
        BY <1>1, <3>1, <3>5 DEF ReadsWatched
      <4>2. QED
        BY <4>1 DEF UpToDate
    <3>6. CASE pc \in {"read", "events"} /\ (text[watch] \in Parsable
                                               => adopted = text[watch])
      BY <1>1, <3>1, <3>6 DEF UpToDate
    <3>7. QED
      BY <3>1, <3>2, <3>3, <3>4, <3>5, <3>6 DEF UpToDate
  <2>4. QED
    BY <2>2, <2>3
<1>7. QED
  BY <1>2, <1>3, <1>4, <1>5, <1>6 DEF FInv

(***************************************************************************)
(* The events of an inode reach the queue if it is the watched one.        *)
(***************************************************************************)
LEMMA NotifyHas ==
  ASSUME FInv, NEW inode \in Inode, NEW e \in Event, Notify(inode, e)
  PROVE  /\ queue' \in Seq(Event)
         /\ watch = NoInode => queue' = << >>
         /\ \A f : Has(queue', f) <=> \/ Has(queue, f)
                                      \/ f = e /\ inode = watch
<1>1. queue \in Seq(Event) /\ (watch = NoInode => queue = << >>)
  BY DEF FInv, TypeOK, WatchInv
<1>2. watch = NoInode => inode # watch
  BY NoInodeAssumption
<1>3. CASE inode = watch
  BY <1>1, <1>2, <1>3, MergedHas DEF Notify
<1>4. CASE inode # watch
  BY <1>1, <1>2, <1>4 DEF Notify
<1>5. QED
  BY <1>3, <1>4

LEMMA NotifyGoneHas ==
  ASSUME FInv, NEW inode \in Inode, NEW e \in Event, NotifyGone(inode, e)
  PROVE  /\ queue' \in Seq(Event)
         /\ watch = NoInode => queue' = << >>
         /\ \A f : Has(queue', f) <=>
              \/ Has(queue, f)
              \/ f \in {e, "IN_IGNORED"} /\ inode = watch
<1>1. queue \in Seq(Event) /\ (watch = NoInode => queue = << >>)
  BY DEF FInv, TypeOK, WatchInv
<1>2. watch = NoInode => inode # watch
  BY NoInodeAssumption
<1>3. CASE inode = watch
  <2> DEFINE q == Merged(queue, e)
  <2>1. q \in Seq(Event) /\ \A f : Has(q, f) <=> Has(queue, f) \/ f = e
    BY <1>1, MergedHas
  <2>2. queue' = Merged(q, "IN_IGNORED")
    BY <1>3 DEF NotifyGone
  <2> HIDE DEF q
  <2>3. /\ queue' \in Seq(Event)
        /\ \A f : Has(queue', f) <=> Has(q, f) \/ f = "IN_IGNORED"
    BY <2>1, <2>2, MergedHas DEF Event
  <2>4. QED
    BY <1>2, <1>3, <2>1, <2>3
<1>4. CASE inode # watch
  BY <1>1, <1>2, <1>4 DEF NotifyGone
<1>5. QED
  BY <1>3, <1>4

LEMMA UnlinkedHas ==
  ASSUME FInv, NEW inode \in Inode, NEW holders, Unlinked(inode, holders)
  PROVE  /\ \E state \in {"unlinked", "destroyed"} :
              name' = [name EXCEPT ![inode] = state]
         /\ queue' \in Seq(Event)
         /\ watch = NoInode => queue' = << >>
         /\ \A f : Has(queue, f) => Has(queue', f)
         /\ \A f : Has(queue', f) =>
              \/ Has(queue, f)
              \/ f \in {"IN_DELETE_SELF", "IN_IGNORED"} /\ inode = watch
<1>1. queue \in Seq(Event) /\ (watch = NoInode => queue = << >>)
  BY DEF FInv, TypeOK, WatchInv
<1>2. CASE inode \in holders
  BY <1>1, <1>2 DEF Unlinked
<1>3. CASE inode \notin holders
  <2>1. /\ name' = [name EXCEPT ![inode] = "destroyed"]
        /\ NotifyGone(inode, "IN_DELETE_SELF")
    BY <1>3 DEF Unlinked
  <2>2. QED
    BY <2>1, NotifyGoneHas DEF Event
<1>4. QED
  BY <1>2, <1>3

LEMMA OpenTruncatingChanges ==
  ASSUME FInv, NEW doc \in Docs, OpenTruncating(doc)
  PROVE  FilesChange
<1>1. /\ Path \in Inode /\ AtPath(Path)
      /\ ops < MaxOps /\ ops' = ops + 1
      /\ writer' = [inode |-> Path, doc |-> doc, at |-> 1]
      /\ text' = [text EXCEPT ![Path] = << >>]
      /\ Notify(Path, "IN_MODIFY")
      /\ missed' = (missed /\ Path # watch)
      /\ UNCHANGED name /\ UnchangedServer
  BY PathIs DEF FInv, OpenTruncating, Operation, Written
<1>2. /\ queue' \in Seq(Event)
      /\ watch = NoInode => queue' = << >>
      /\ \A f : Has(queue', f) <=> \/ Has(queue, f)
                                   \/ f = "IN_MODIFY" /\ Path = watch
  BY <1>1, NotifyHas DEF Event
<1>3. FilesTyped'
  BY <1>1, <1>2, DocsAssumption, MaxOpsAssumption
     DEF FInv, TypeOK, FilesTyped, Text
<1>4. OnePath'
  BY <1>1 DEF FInv, OnePath, AtPath
<1>5. ASSUME watch # NoInode
      PROVE  /\ name'[watch] # "free"
             /\ name'[watch] = "path" => AtPath(watch)
             /\ Lost => Lost'
  BY <1>1, <1>5 DEF FInv, WatchInv, AtPath, Lost, UnchangedServer
<1>6. \/ text'[watch] = text[watch] /\ (missed' <=> missed)
      \/ Path = watch
  <2>1. CASE Path # watch
    <3>1. text'[watch] = text[watch]
      BY <1>1, <2>1 DEF FInv, TypeOK
    <3>2. QED
      BY <1>1, <2>1, <3>1
  <2>2. QED
    BY <2>1
<1>7. QED
  BY <1>1, <1>2, <1>3, <1>4, <1>5, <1>6 DEF FilesChange

LEMMA OpenForUpdateChanges ==
  ASSUME FInv, NEW doc \in Docs, OpenForUpdate(doc)
  PROVE  FilesChange
<1>1. /\ Path \in Inode
      /\ ops < MaxOps /\ ops' = ops + 1
      /\ writer' = [inode |-> Path, doc |-> doc, at |-> 1]
      /\ UNCHANGED <<name, text, queue, missed>> /\ UnchangedServer
  BY PathIs DEF FInv, OpenForUpdate, Operation
<1>2. FilesTyped'
  BY <1>1, DocsAssumption, MaxOpsAssumption DEF FInv, TypeOK, FilesTyped
<1>3. OnePath'
  BY <1>1 DEF FInv, OnePath, AtPath
<1>4. QED
  BY <1>1, <1>2, <1>3
     DEF FilesChange, FInv, WatchInv, AtPath, Lost, UnchangedServer

LEMMA WriteChunkChanges == ASSUME FInv, WriteChunk PROVE FilesChange
<1> DEFINE to == writer.inode
           old == text[to]
           new == IF writer.at <= Len(old)
                    THEN [old EXCEPT ![writer.at] = writer.doc[writer.at]]
                    ELSE Append(old, writer.doc[writer.at])
<1>1. /\ to \in Inode /\ writer.doc \in Text /\ writer.at \in Nat \ {0}
      /\ writer.at <= Len(writer.doc)
      /\ text' = [text EXCEPT ![to] = new]
      /\ writer' = [writer EXCEPT !.at = @ + 1]
      /\ Notify(to, "IN_MODIFY")
      /\ missed' = (missed /\ to # watch)
      /\ UNCHANGED <<name, ops>> /\ UnchangedServer
  BY DEF FInv, TypeOK, HandlesInv, WriteChunk, Written
<1>2. /\ queue' \in Seq(Event)
      /\ watch = NoInode => queue' = << >>
      /\ \A f : Has(queue', f) <=> \/ Has(queue, f)
                                   \/ f = "IN_MODIFY" /\ to = watch
  BY <1>1, NotifyHas DEF Event
<1>3. new \in Text
  <2>1. /\ old \in Seq(Chunk)
        /\ writer.doc[writer.at] \in Chunk
    BY <1>1 DEF FInv, TypeOK, Text
  <2>2. QED
    BY <1>1, <2>1 DEF Text
<1>4. FilesTyped'
  <2> HIDE DEF new, old
  <2>1. text' \in [Inode -> Text]
    BY <1>1, <1>3 DEF FInv, TypeOK
  <2>2. /\ writer' \in
              [inode : Inode \cup {NoInode}, doc : Text, at : Nat \ {0}]
        /\ writer'.inode \in Inode
    BY <1>1 DEF FInv, TypeOK
  <2>3. QED
    BY <1>1, <1>2, <2>1, <2>2 DEF FInv, TypeOK, FilesTyped
<1> HIDE DEF to, new
<1>5. OnePath'
  BY <1>1 DEF FInv, OnePath, AtPath
<1>6. ASSUME watch # NoInode
      PROVE  /\ name'[watch] # "free"
             /\ name'[watch] = "path" => AtPath(watch)
             /\ Lost => Lost'
  BY <1>1, <1>6 DEF FInv, WatchInv, AtPath, Lost, UnchangedServer
<1>7. \/ text'[watch] = text[watch] /\ (missed' <=> missed)
      \/ to = watch
  <2>1. CASE to # watch
    <3>1. text'[watch] = text[watch]
      BY <1>1, <2>1 DEF FInv, TypeOK
    <3>2. QED
      BY <1>1, <2>1, <3>1
  <2>2. QED
    BY <2>1
<1>8. QED
  BY <1>1, <1>2, <1>4, <1>5, <1>6, <1>7 DEF FilesChange

(***************************************************************************)
(* What takes the name of an inode that is not free, and writes nothing.   *)
(***************************************************************************)
LEMMA NameTaken ==
  ASSUME FInv, UnchangedServer, FilesTyped', UNCHANGED <<text, missed>>,
         NEW inode \in Inode, name[inode] \in {"path", "unlinked"},
         NEW state \in {"moved", "unlinked", "destroyed", "unmounted"},
         name' = [name EXCEPT ![inode] = state],
         watch = NoInode => queue' = << >>,
         \A f : Has(queue, f) => Has(queue', f),
         name[inode] = "unlinked" => state # "unmounted",
         \A event \in {"IN_DELETE_SELF", "IN_MOVE_SELF"} :
           Has(queue', event) =>
             \/ Has(queue, event)
             \/ inode = watch /\ state # "unmounted"
  PROVE  FilesChange
<1>1. OnePath'
  BY DEF FInv, TypeOK, OnePath, AtPath
<1>2. ASSUME watch # NoInode
      PROVE  /\ name'[watch] # "free"
             /\ name'[watch] = "path" => AtPath(watch)
             /\ Lost => Lost'
             /\ inode = watch /\ state # "unmounted" => Lost'
  <2>1. watch \in Inode /\ name[watch] # "free" /\ watch' = watch
    BY <1>2 DEF FInv, TypeOK, WatchInv, UnchangedServer
  <2>2. name'[watch] = IF inode = watch THEN state ELSE name[watch]
    BY <2>1 DEF FInv, TypeOK
  <2>3. QED
    BY <1>2, <2>1, <2>2 DEF Lost, AtPath
<1>3. QED
  BY <1>1, <1>2 DEF FilesChange

LEMMA CloseWriterChanges == ASSUME FInv, CloseWriter PROVE FilesChange
<1>1. /\ writer.inode \in Inode /\ writer' = Resting
      /\ Released(writer.inode, {fd})
      /\ UNCHANGED <<text, ops, missed>> /\ UnchangedServer
  BY DEF FInv, HandlesInv, CloseWriter
<1>2. Resting \in [inode : Inode \cup {NoInode}, doc : Text, at : Nat \ {0}]
  BY DEF Resting, Text
<1>3. CASE name[writer.inode] = "unlinked"
  <2>1. Unlinked(writer.inode, {fd})
    BY <1>1, <1>3, NoInodeAssumption DEF Released
  <2>2. PICK state \in {"unlinked", "destroyed"} :
          name' = [name EXCEPT ![writer.inode] = state]
    BY <1>1, <2>1, UnlinkedHas
  <2>3. /\ queue' \in Seq(Event)
        /\ watch = NoInode => queue' = << >>
        /\ \A f : Has(queue, f) => Has(queue', f)
        /\ \A f : Has(queue', f) =>
             \/ Has(queue, f)
             \/ f \in {"IN_DELETE_SELF", "IN_IGNORED"} /\ writer.inode = watch
    BY <1>1, <2>1, UnlinkedHas
  <2>4. FilesTyped'
    BY <1>1, <1>2, <2>2, <2>3 DEF FInv, TypeOK, FilesTyped
  <2>5. QED
    BY <1>1, <1>3, <2>2, <2>3, <2>4, NameTaken
<1>4. CASE name[writer.inode] # "unlinked"
  <2>1. UNCHANGED <<name, queue>>
    BY <1>1, <1>4 DEF Released
  <2>2. FilesTyped'
    BY <1>1, <1>2, <2>1 DEF FInv, TypeOK, FilesTyped
  <2>3. OnePath'
    BY <2>1 DEF FInv, OnePath, AtPath
  <2>4. QED
    BY <1>1, <2>1, <2>2, <2>3
       DEF FilesChange, FInv, WatchInv, AtPath, Lost, UnchangedServer
<1>5. QED
  BY <1>3, <1>4

LEMMA UnlinkChanges == ASSUME FInv, Unlink PROVE FilesChange
<1>1. /\ Path \in Inode /\ AtPath(Path)
      /\ ops < MaxOps /\ ops' = ops + 1
      /\ Unlinked(Path, {fd, writer.inode})
      /\ UNCHANGED <<text, writer, missed>> /\ UnchangedServer
  BY PathIs DEF FInv, Unlink, Operation
<1>2. PICK state \in {"unlinked", "destroyed"} :
        name' = [name EXCEPT ![Path] = state]
  BY <1>1, UnlinkedHas
<1>3. /\ queue' \in Seq(Event)
      /\ watch = NoInode => queue' = << >>
      /\ \A f : Has(queue, f) => Has(queue', f)
      /\ \A f : Has(queue', f) =>
           \/ Has(queue, f)
           \/ f \in {"IN_DELETE_SELF", "IN_IGNORED"} /\ Path = watch
  BY <1>1, UnlinkedHas
<1>4. FilesTyped'
  BY <1>1, <1>2, <1>3, MaxOpsAssumption
     DEF FInv, TypeOK, HandlesInv, FilesTyped, Resting
<1>5. QED
  BY <1>1, <1>2, <1>3, <1>4, NameTaken DEF AtPath

LEMMA MoveAwayChanges == ASSUME FInv, MoveAway PROVE FilesChange
<1>1. /\ Path \in Inode /\ AtPath(Path)
      /\ ops < MaxOps /\ ops' = ops + 1
      /\ name' = [name EXCEPT ![Path] = "moved"]
      /\ Notify(Path, "IN_MOVE_SELF")
      /\ UNCHANGED <<text, writer, missed>> /\ UnchangedServer
  BY PathIs DEF FInv, MoveAway, Operation
<1>2. /\ queue' \in Seq(Event)
      /\ watch = NoInode => queue' = << >>
      /\ \A f : Has(queue', f) <=> \/ Has(queue, f)
                                   \/ f = "IN_MOVE_SELF" /\ Path = watch
  BY <1>1, NotifyHas DEF Event
<1>3. FilesTyped'
  BY <1>1, <1>2, MaxOpsAssumption
     DEF FInv, TypeOK, HandlesInv, FilesTyped, Resting
<1>4. QED
  BY <1>1, <1>2, <1>3, NameTaken DEF AtPath

LEMMA UnmountChanges == ASSUME FInv, Unmount PROVE FilesChange
<1>1. /\ Path \in Inode /\ AtPath(Path)
      /\ ops < MaxOps /\ ops' = ops + 1
      /\ name' = [name EXCEPT ![Path] = "unmounted"]
      /\ NotifyGone(Path, "IN_UNMOUNT")
      /\ UNCHANGED <<text, writer, missed>> /\ UnchangedServer
  BY PathIs DEF FInv, Unmount, Operation
<1>2. /\ queue' \in Seq(Event)
      /\ watch = NoInode => queue' = << >>
      /\ \A f : Has(queue', f) <=>
           \/ Has(queue, f)
           \/ f \in {"IN_UNMOUNT", "IN_IGNORED"} /\ Path = watch
  BY <1>1, NotifyGoneHas DEF Event
<1>3. FilesTyped'
  BY <1>1, <1>2, MaxOpsAssumption
     DEF FInv, TypeOK, HandlesInv, FilesTyped, Resting
<1>4. QED
  BY <1>1, <1>2, <1>3, NameTaken DEF AtPath

(***************************************************************************)
(* A new file at the path is not the watched one.                          *)
(***************************************************************************)
LEMMA CreateChanges ==
  ASSUME FInv, NEW inode \in Inode, NEW doc \in Docs, Create(inode, doc)
  PROVE  FilesChange
<1>1. /\ ops < MaxOps /\ ops' = ops + 1
      /\ ~PathExists /\ name[inode] = "free"
      /\ name' = [name EXCEPT ![inode] = "path"]
      /\ text' = [text EXCEPT ![inode] = doc]
      /\ UNCHANGED <<writer, queue, missed>> /\ UnchangedServer
  BY DEF Create, Operation
<1>2. FilesTyped'
  BY <1>1, DocsAssumption, MaxOpsAssumption
     DEF FInv, TypeOK, HandlesInv, FilesTyped, Resting
<1>3. OnePath'
  BY <1>1 DEF FInv, TypeOK, OnePath, AtPath, PathExists
<1>4. ASSUME watch # NoInode
      PROVE  /\ name'[watch] = name[watch] /\ text'[watch] = text[watch]
             /\ watch \in Inode /\ name[watch] # "free" /\ watch' = watch
  BY <1>1, <1>4 DEF FInv, TypeOK, WatchInv, UnchangedServer
<1>5. QED
  BY <1>1, <1>2, <1>3, <1>4
     DEF FilesChange, FInv, WatchInv, AtPath, Lost

LEMMA ReplaceChanges ==
  ASSUME FInv, NEW inode \in Inode, NEW doc \in Docs, Replace(inode, doc)
  PROVE  FilesChange
<1> DEFINE held == Path \in {fd, writer.inode}
           state == IF held THEN "unlinked" ELSE "destroyed"
<1>1. /\ Path \in Inode /\ AtPath(Path)
      /\ \A i \in Inode : AtPath(i) => i = Path
      /\ ops < MaxOps /\ ops' = ops + 1
      /\ name[inode] = "free"
      /\ name' = [name EXCEPT ![inode] = "path", ![Path] = state]
      /\ IF held THEN UNCHANGED queue ELSE NotifyGone(Path, "IN_DELETE_SELF")
      /\ text' = [text EXCEPT ![inode] = doc]
      /\ UNCHANGED <<writer, missed>> /\ UnchangedServer
  BY PathIs DEF FInv, Replace, Operation
<1>2. /\ queue' \in Seq(Event)
      /\ watch = NoInode => queue' = << >>
      /\ \A f : Has(queue, f) => Has(queue', f)
      /\ \A f : Has(queue', f) =>
           \/ Has(queue, f)
           \/ f \in {"IN_DELETE_SELF", "IN_IGNORED"} /\ Path = watch
  <2>1. CASE held
    BY <1>1, <2>1 DEF FInv, TypeOK, WatchInv
  <2>2. CASE ~held
    BY <1>1, <2>2, NotifyGoneHas DEF Event
  <2>3. QED
    BY <2>1, <2>2
<1>3. state \in {"unlinked", "destroyed"}
  OBVIOUS
<1> HIDE DEF held, state
<1>4. FilesTyped'
  BY <1>1, <1>2, <1>3, DocsAssumption, MaxOpsAssumption
     DEF FInv, TypeOK, HandlesInv, FilesTyped, Resting
<1>5. OnePath'
  BY <1>1, <1>3 DEF FInv, TypeOK, OnePath, AtPath
<1>6. ASSUME watch # NoInode
      PROVE  /\ name'[watch] = IF Path = watch THEN state ELSE name[watch]
             /\ text'[watch] = text[watch]
             /\ watch \in Inode /\ name[watch] # "free" /\ watch' = watch
  BY <1>1, <1>6 DEF FInv, TypeOK, WatchInv, UnchangedServer, AtPath
<1>7. QED
  BY <1>1, <1>2, <1>3, <1>4, <1>5, <1>6
     DEF FilesChange, FInv, WatchInv, AtPath, Lost

-----------------------------------------------------------------------------
(***************************************************************************)
(* The server reads the file.                                              *)
(***************************************************************************)
LEMMA Returns ==
  ASSUME FInv, NEW result \in Parsable \cup {NULL}, Return(result)
  PROVE  /\ adopted' \in Parsable \cup {NULL}
         /\ result # NULL => adopted' = result
         /\ result = NULL => adopted' = adopted
         /\ caller = "init_data" => pc' \in {"exited", "add_watch"}
         /\ caller = "file_modified" => pc' = "events"
BY DEF FInv, TypeOK, Return

LEMMA fopenKeeps == FInv /\ fopen => FInv'
<1> SUFFICES ASSUME FInv, fopen PROVE FInv'
  OBVIOUS
<1>1. /\ pc = "fopen"
      /\ UNCHANGED <<name, text, writer, ops, watch, queue, caller, size, buf,
                     events, missed>>
  BY DEF fopen, fileVars
<1>2. \/ PathExists /\ fd' = Path /\ pc' = "ftell" /\ UNCHANGED adopted
      \/ ~PathExists /\ Return(NULL) /\ UNCHANGED fd
  BY DEF fopen
<1>3. PathExists => /\ Path \in Inode /\ AtPath(Path)
                    /\ \A i \in Inode : AtPath(i) => i = Path
  BY PathIs DEF FInv
<1>4. ~PathExists => /\ adopted' = adopted
                     /\ caller = "init_data" => pc' \in {"exited", "add_watch"}
                     /\ caller = "file_modified" => pc' = "events"
  BY <1>2, Returns
<1>5. TypeOK'
  BY <1>1, <1>2, <1>3, <1>4 DEF FInv, TypeOK
<1>6. OnePath' /\ HandlesInv' /\ WatchInv'
  BY <1>1, <1>2, <1>3, <1>4
     DEF FInv, TypeOK, OnePath, AtPath, HandlesInv, WatchInv, Reading
<1>7. LossInv'
  BY <1>1 DEF FInv, LossInv, Lost, Has
<1>8. UpdateInv'
  <2> SUFFICES ASSUME watch # NoInode, AtPath(watch) PROVE UpToDate'
    BY <1>1 DEF UpdateInv, AtPath
  <2>1. watch \in Inode /\ PathExists
    BY DEF FInv, TypeOK, PathExists
  <2>2. pc' = "ftell" /\ fd' = watch' /\ watch' = watch
    BY <1>1, <1>2, <1>3, <2>1
  <2>3. QED
    BY <2>2 DEF UpToDate
<1>9. QED
  BY <1>5, <1>6, <1>7, <1>8 DEF FInv

LEMMA ftellKeeps == FInv /\ ftell => FInv'
<1> SUFFICES ASSUME FInv, ftell PROVE FInv'
  OBVIOUS
<1>1. /\ pc = "ftell" /\ pc' = "fread"
      /\ size' = Len(text[fd]) /\ buf' = << >>
      /\ fd \in Inode
      /\ UNCHANGED <<name, text, writer, ops, watch, queue, caller, fd, events,
                     adopted, missed>>
  BY DEF ftell, fileVars, FInv, HandlesInv
<1>2. text[fd] \in Seq(Chunk)
  BY <1>1 DEF FInv, TypeOK, Text
<1>3. TypeOK'
  BY <1>1, <1>2 DEF FInv, TypeOK, Text
<1>4. OnePath' /\ HandlesInv' /\ WatchInv'
  BY <1>1 DEF FInv, OnePath, AtPath, HandlesInv, WatchInv, Reading
<1>5. LossInv'
  BY <1>1 DEF FInv, LossInv, Lost, Has
<1>6. UpdateInv'
  <2> SUFFICES ASSUME watch # NoInode, AtPath(watch), ~missed PROVE UpToDate'
    BY <1>1 DEF UpdateInv, AtPath
  <2>1. UpToDate
    BY DEF FInv, UpdateInv
  <2>2. CASE Has(queue, "IN_MODIFY") \/ Has(events, "IN_MODIFY")
    BY <1>1, <2>2 DEF UpToDate, Has
  <2>3. CASE fd = watch
    <3>1. Len(buf') = 0 /\ 0 <= Len(text[fd])
      BY <1>1, <1>2
    <3>2. ReadsWatched'
      BY <1>1, <2>3, <3>1 DEF ReadsWatched
    <3>3. QED
      BY <3>2 DEF UpToDate
  <2>4. QED
    BY <1>1, <2>1, <2>2, <2>3 DEF UpToDate, ReadsWatched
<1>7. QED
  BY <1>3, <1>4, <1>5, <1>6 DEF FInv

LEMMA freadKeeps == FInv /\ fread => FInv'
<1> SUFFICES ASSUME FInv, fread PROVE FInv'
  OBVIOUS
<1>1. /\ pc = "fread" /\ fd \in Inode
      /\ Len(buf) < size /\ Len(buf) < Len(text[fd])
      /\ buf' = Append(buf, text[fd][Len(buf) + 1])
      /\ UNCHANGED <<name, text, writer, ops, watch, queue, pc, caller, fd,
                     size, events, adopted, missed>>
  BY DEF fread, fileVars, FInv, HandlesInv
<1>2. text[fd] \in Seq(Chunk) /\ buf \in Seq(Chunk) /\ size \in Nat
  BY <1>1 DEF FInv, TypeOK, Text
<1>3. /\ buf' \in Seq(Chunk) /\ Len(buf') = Len(buf) + 1
      /\ \A k \in 1..Len(buf) : buf'[k] = buf[k]
      /\ buf'[Len(buf) + 1] = text[fd][Len(buf) + 1]
  BY <1>1, <1>2
<1>4. TypeOK'
  BY <1>1, <1>3 DEF FInv, TypeOK, Text
<1>5. OnePath' /\ HandlesInv' /\ WatchInv'
  BY <1>1 DEF FInv, OnePath, AtPath, HandlesInv, WatchInv, Reading
<1>6. LossInv'
  BY <1>1 DEF FInv, LossInv, Lost, Has
<1>7. UpdateInv'
  <2> SUFFICES ASSUME watch # NoInode, AtPath(watch), ~missed PROVE UpToDate'
    BY <1>1 DEF UpdateInv, AtPath
  <2>1. UpToDate
    BY DEF FInv, UpdateInv
  <2>2. CASE Has(queue, "IN_MODIFY") \/ Has(events, "IN_MODIFY")
    BY <1>1, <2>2 DEF UpToDate, Has
  <2>3. CASE ReadsWatched
    <3>1. \A k \in 1..Len(buf') : buf'[k] = text[watch][k]
      BY <1>2, <1>3, <2>3 DEF ReadsWatched
    <3>2. Len(buf') <= size
      BY <1>1, <1>2, <1>3
    <3>3. ReadsWatched'
      BY <1>1, <2>3, <3>1, <3>2 DEF ReadsWatched
    <3>4. QED
      BY <3>3 DEF UpToDate
  <2>4. QED
    BY <1>1, <2>1, <2>2, <2>3 DEF UpToDate
<1>8. QED
  BY <1>4, <1>5, <1>6, <1>7 DEF FInv

(***************************************************************************)
(* Closing the file may be what destroys it.                               *)
(***************************************************************************)
LEMMA fcloseKeeps == FInv /\ fclose => FInv'
<1> SUFFICES ASSUME FInv, fclose PROVE FInv'
  OBVIOUS
<1> DEFINE result == IF Len(buf) = size THEN Parse(buf) ELSE NULL
<1>1. /\ pc = "fread" /\ fd \in Inode
      /\ Len(buf) = size \/ Len(buf) >= Len(text[fd])
      /\ Return(result)
      /\ fd' = NoInode /\ size' = 0 /\ buf' = << >>
      /\ Released(fd, {writer.inode})
      /\ UNCHANGED <<text, writer, ops, watch, caller, events, missed>>
  BY DEF fclose, FInv, HandlesInv
<1>2. result \in Parsable \cup {NULL}
  BY DEF Parse
<1>3. /\ adopted' \in Parsable \cup {NULL}
      /\ result # NULL => adopted' = result
      /\ result = NULL => adopted' = adopted
      /\ caller = "init_data" => pc' \in {"exited", "add_watch"}
      /\ caller = "file_modified" => pc' = "events"
  BY <1>1, <1>2, Returns
<1>4. /\ \/ UNCHANGED name
         \/ /\ name[fd] = "unlinked"
            /\ \E state \in {"unlinked", "destroyed"} :
                 name' = [name EXCEPT ![fd] = state]
      /\ queue' \in Seq(Event)
      /\ watch = NoInode => queue' = << >>
      /\ \A f : Has(queue, f) => Has(queue', f)
      /\ \A f : Has(queue', f) =>
           \/ Has(queue, f)
           \/ /\ f \in {"IN_DELETE_SELF", "IN_IGNORED"}
              /\ fd = watch /\ name[fd] = "unlinked"
  <2>1. CASE name[fd] = "unlinked"
    <3>1. Unlinked(fd, {writer.inode})
      BY <1>1, <2>1, NoInodeAssumption DEF Released
    <3>2. QED
      BY <1>1, <2>1, <3>1, UnlinkedHas
  <2>2. CASE name[fd] # "unlinked"
    BY <1>1, <2>2 DEF Released, FInv, TypeOK, WatchInv
  <2>3. QED
    BY <2>1, <2>2
<1>5. ASSUME watch # NoInode
      PROVE  /\ name'[watch] = "path" => name[watch] = "path"
             /\ name'[watch] # "free"
             /\ Lost => Lost'
             /\ fd = watch /\ name[fd] = "unlinked" => Lost'
  <2>1. watch \in Inode /\ name[watch] # "free" /\ watch' = watch
    BY <1>1, <1>5 DEF FInv, TypeOK, WatchInv
  <2>2. CASE UNCHANGED name
    BY <1>5, <2>1, <2>2 DEF Lost
  <2>3. CASE name[fd] = "unlinked" /\ ~UNCHANGED name
    <3>1. PICK state \in {"unlinked", "destroyed"} :
            name' = [name EXCEPT ![fd] = state]
      BY <1>4, <2>3
    <3>2. name'[watch] = IF watch = fd THEN state ELSE name[watch]
      BY <2>1, <3>1 DEF FInv, TypeOK
    <3>3. QED
      BY <1>5, <2>1, <2>3, <3>2 DEF Lost
  <2>4. QED
    BY <1>4, <2>2, <2>3
<1>6. TypeOK'
  <2>1. name' \in [Inode -> {"free", "path", "moved", "unlinked", "destroyed",
                             "unmounted"}]
    BY <1>1, <1>4 DEF FInv, TypeOK
  <2>2. caller \in {"init_data", "file_modified"}
    BY DEF FInv, TypeOK
  <2>3. /\ pc' \in {"exited", "add_watch", "events"}
        /\ fd' \in Inode \cup {NoInode} /\ size' \in Nat /\ buf' \in Text
    BY <1>1, <1>3, <2>2 DEF Text
  <2>4. QED
    BY <1>1, <1>3, <1>4, <2>1, <2>3 DEF FInv, TypeOK
<1>7. OnePath' /\ HandlesInv'
  <2>1. \A i \in Inode : AtPath(i)' => AtPath(i)
    BY <1>1, <1>4 DEF FInv, TypeOK, AtPath
  <2>2. OnePath'
    BY <2>1 DEF FInv, OnePath, AtPath
  <2>3. HandlesInv'
    BY <1>1, <1>3 DEF FInv, TypeOK, HandlesInv
  <2>4. QED
    BY <2>2, <2>3
<1>8. WatchInv'
  <2>1. caller \in {"init_data", "file_modified"}
    BY DEF FInv, TypeOK
  <2>2. QED
    BY <1>1, <1>3, <1>4, <1>5, <2>1 DEF FInv, WatchInv, Reading
<1>9. LossInv'
  <2> SUFFICES ASSUME NEW event \in {"IN_DELETE_SELF", "IN_MOVE_SELF"},
                      Has(queue', event) \/ Has(events', event)
               PROVE  Lost'
    BY DEF LossInv, Has
  <2>1. watch # NoInode
    BY <1>1, <1>4, EmptyHasNone DEF FInv, WatchInv
  <2>2. QED
    BY <1>1, <1>4, <1>5, <2>1 DEF FInv, LossInv
<1>10. UpdateInv'
  <2> SUFFICES ASSUME watch # NoInode, AtPath(watch)', ~missed PROVE UpToDate'
    BY <1>1 DEF UpdateInv
  <2>1. UpToDate
    BY <1>1, <1>5 DEF FInv, UpdateInv, AtPath
  <2>2. CASE Has(queue, "IN_MODIFY") \/ Has(events, "IN_MODIFY")
    BY <1>1, <1>4, <2>2 DEF UpToDate, Has
  <2>3. CASE ReadsWatched
    <3>1. /\ text[watch] \in Seq(Chunk) /\ buf \in Seq(Chunk)
          /\ fd = watch /\ Len(buf) = size /\ Len(buf) = Len(text[watch])
          /\ \A k \in 1..Len(buf) : buf[k] = text[watch][k]
      BY <1>1, <2>3 DEF ReadsWatched, FInv, TypeOK, Text
    <3>2. buf = text[watch]
      BY <3>1
    <3>3. text[watch] \in Parsable => adopted' = text[watch]
      BY <1>3, <3>1, <3>2, ParsableAssumption, NULLAssumption DEF Parse
    <3>4. pc' = "events"
      BY <1>1, <1>3 DEF FInv, WatchInv
    <3>5. QED
      BY <1>1, <3>3, <3>4 DEF UpToDate
  <2>4. QED
    BY <1>1, <2>1, <2>2, <2>3 DEF UpToDate
<1>11. QED
  BY <1>6, <1>7, <1>8, <1>9, <1>10 DEF FInv

-----------------------------------------------------------------------------
(***************************************************************************)
(* The server watches the file.                                            *)
(***************************************************************************)
LEMMA add_watchKeeps == FInv /\ add_watch => FInv'
<1> SUFFICES ASSUME FInv, add_watch PROVE FInv'
  OBVIOUS
<1>1. /\ pc = "add_watch" /\ watch = NoInode
      /\ queue = << >> /\ events = << >>
      /\ UNCHANGED <<name, text, writer, ops, queue, caller, fd, size, buf,
                     events, adopted>>
  BY DEF add_watch, fileVars, readVars, FInv, WatchInv, Reading
<1>2. CASE /\ PathExists /\ watch' = Path /\ pc' = "read"
           /\ missed' = (text[Path] # adopted)
  <2>1. Path \in Inode /\ AtPath(Path) /\ Path # NoInode
    BY <1>2, PathIs, NoInodeAssumption DEF FInv
  <2>2. TypeOK'
    BY <1>1, <1>2, <2>1 DEF FInv, TypeOK
  <2>3. OnePath' /\ HandlesInv' /\ WatchInv'
    BY <1>1, <1>2, <2>1
       DEF FInv, OnePath, AtPath, HandlesInv, WatchInv, Reading
  <2>4. LossInv'
    BY <1>1, EmptyHasNone DEF LossInv
  <2>5. UpdateInv'
    BY <1>1, <1>2 DEF UpdateInv, UpToDate
  <2>6. QED
    BY <2>2, <2>3, <2>4, <2>5 DEF FInv
<1>3. CASE pc' = "failed" /\ UNCHANGED <<watch, missed>>
  <2>1. TypeOK' /\ OnePath' /\ HandlesInv'
    BY <1>1, <1>3 DEF FInv, TypeOK, OnePath, AtPath, HandlesInv
  <2>2. WatchInv' /\ UpdateInv'
    BY <1>1, <1>3 DEF FInv, WatchInv, UpdateInv, Reading
  <2>3. LossInv'
    BY <1>1, EmptyHasNone DEF LossInv
  <2>4. QED
    BY <2>1, <2>2, <2>3 DEF FInv
<1>4. QED
  BY <1>2, <1>3 DEF add_watch

LEMMA readKeeps == FInv /\ read => FInv'
<1> SUFFICES ASSUME FInv, read PROVE FInv'
  OBVIOUS
<1> DEFINE got == IF Len(queue) < BufEvents THEN Len(queue) ELSE BufEvents
<1>1. /\ pc = "read" /\ pc' = "events" /\ watch # NoInode
      /\ events = << >>
      /\ events' = SubSeq(queue, 1, got)
      /\ queue' = SubSeq(queue, got + 1, Len(queue))
      /\ UNCHANGED <<name, text, writer, ops, watch, caller, fd, size, buf,
                     adopted, missed>>
  BY DEF read, fileVars, readVars, FInv, WatchInv
<1>2. queue \in Seq(Event) /\ got \in 0..Len(queue)
  BY BufEventsAssumption DEF FInv, TypeOK
<1> HIDE DEF got
<1>3. /\ events' \in Seq(Event) /\ queue' \in Seq(Event)
      /\ \A f : Has(queue, f) <=> Has(events', f) \/ Has(queue', f)
  BY <1>1, <1>2, SplitHas
<1>4. TypeOK'
  BY <1>1, <1>3 DEF FInv, TypeOK
<1>5. OnePath' /\ HandlesInv' /\ WatchInv'
  BY <1>1 DEF FInv, OnePath, AtPath, HandlesInv, WatchInv, Reading
<1>6. LossInv'
  <2> SUFFICES ASSUME NEW event \in {"IN_DELETE_SELF", "IN_MOVE_SELF"},
                      Has(queue', event) \/ Has(events', event)
               PROVE  Lost'
    BY DEF LossInv, Has
  <2>1. Lost
    BY <1>3 DEF FInv, LossInv
  <2>2. QED
    BY <1>1, <2>1 DEF Lost
<1>7. UpdateInv'
  <2> SUFFICES ASSUME AtPath(watch), ~missed PROVE UpToDate'
    BY <1>1 DEF UpdateInv, AtPath
  <2>1. UpToDate
    BY <1>1 DEF FInv, UpdateInv
  <2>2. CASE Has(queue, "IN_MODIFY")
    <3>1. Has(queue', "IN_MODIFY") \/ Has(events', "IN_MODIFY")
      BY <1>3, <2>2
    <3>2. QED
      BY <3>1 DEF UpToDate, Has
  <2>3. CASE text[watch] \in Parsable => adopted = text[watch]
    BY <1>1, <2>3 DEF UpToDate
  <2>4. QED
    BY <1>1, <2>1, <2>2, <2>3, EmptyHasNone DEF UpToDate, ReadsWatched
<1>8. QED
  BY <1>4, <1>5, <1>6, <1>7 DEF FInv

(***************************************************************************)
(* The end of monitoring, after which nothing is watched.                  *)
(***************************************************************************)
LEMMA StopKeeps ==
  ASSUME FInv, NEW how \in {"deleted", "failed"}, StopMonitoring(how),
         UNCHANGED <<fileVars, caller, readVars, adopted, missed>>
  PROVE  FInv'
<1>1. /\ pc' = how /\ watch' = NoInode /\ queue' = << >> /\ events' = << >>
      /\ UNCHANGED <<name, text, writer, ops, caller, fd, size, buf, adopted,
                     missed>>
  BY DEF StopMonitoring, fileVars, readVars
<1>2. TypeOK' /\ OnePath' /\ HandlesInv'
  BY <1>1 DEF FInv, TypeOK, OnePath, AtPath, HandlesInv
<1>3. WatchInv' /\ UpdateInv'
  BY <1>1 DEF WatchInv, UpdateInv, Reading
<1>4. LossInv'
  BY <1>1, EmptyHasNone DEF LossInv
<1>5. QED
  BY <1>2, <1>3, <1>4 DEF FInv

LEMMA NextEventKeeps == FInv /\ NextEvent => FInv'
<1> SUFFICES ASSUME FInv, NextEvent PROVE FInv'
  OBVIOUS
<1>1. /\ pc = "events" /\ events # << >> /\ watch # NoInode
      /\ events \in Seq(Event)
      /\ UNCHANGED <<name, text, writer, ops, fd, size, buf, adopted, missed>>
  BY DEF NextEvent, fileVars, readVars, FInv, WatchInv, TypeOK
<1>2. /\ Head(events) \in Event /\ Tail(events) \in Seq(Event)
      /\ \A f : Has(events, f) <=> Has(Tail(events), f) \/ f = Head(events)
  BY <1>1, TailHas
<1>3. CASE Head(events) \in {"IN_DELETE_SELF", "IN_MOVE_SELF"}
  BY <1>3, StopKeeps DEF NextEvent
<1>4. CASE Head(events) \notin {"IN_DELETE_SELF", "IN_MOVE_SELF"}
  <2>1. /\ events' = Tail(events) /\ UNCHANGED <<watch, queue>>
        /\ \/ /\ Head(events) = "IN_MODIFY"
              /\ caller' = "file_modified" /\ pc' = "fopen"
           \/ /\ Head(events) # "IN_MODIFY"
              /\ UNCHANGED <<pc, caller>>
    BY <1>4 DEF NextEvent
  <2>2. TypeOK' /\ OnePath' /\ HandlesInv'
    BY <1>1, <1>2, <2>1 DEF FInv, TypeOK, OnePath, AtPath, HandlesInv
  <2>3. WatchInv'
    BY <1>1, <2>1 DEF FInv, WatchInv, Reading
  <2>4. LossInv'
    <3> SUFFICES ASSUME NEW event \in {"IN_DELETE_SELF", "IN_MOVE_SELF"},
                        Has(queue', event) \/ Has(events', event)
                 PROVE  Lost'
      BY DEF LossInv, Has
    <3>1. Lost
      BY <1>2, <2>1 DEF FInv, LossInv
    <3>2. QED
      BY <1>1, <2>1, <3>1 DEF Lost
  <2>5. UpdateInv'
    <3> SUFFICES ASSUME AtPath(watch), ~missed PROVE UpToDate'
      BY <1>1, <2>1 DEF UpdateInv, AtPath
    <3>1. UpToDate
      BY <1>1 DEF FInv, UpdateInv
    <3>2. CASE pc' = "fopen"
      BY <3>2 DEF UpToDate
    <3>3. CASE Head(events) # "IN_MODIFY" /\ UNCHANGED pc
      <4>1. Has(events, "IN_MODIFY") => Has(events', "IN_MODIFY")
        BY <1>2, <2>1, <3>3
      <4>2. CASE Has(queue, "IN_MODIFY") \/ Has(events, "IN_MODIFY")
        BY <2>1, <4>1, <4>2 DEF UpToDate, Has
      <4>3. CASE text[watch] \in Parsable => adopted = text[watch]
        BY <1>1, <2>1, <3>3, <4>3 DEF UpToDate
      <4>4. QED
        BY <1>1, <3>1, <4>2, <4>3 DEF UpToDate, ReadsWatched
    <3>4. QED
      BY <2>1, <3>2, <3>3
  <2>6. QED
    BY <2>2, <2>3, <2>4, <2>5 DEF FInv
<1>5. QED
  BY <1>3, <1>4

LEMMA EventsDoneKeeps == FInv /\ EventsDone => FInv'
<1> SUFFICES ASSUME FInv, EventsDone PROVE FInv'
  OBVIOUS
<1>1. /\ pc = "events" /\ pc' = "read" /\ events = << >>
      /\ UNCHANGED <<name, text, writer, ops, watch, queue, caller, fd, size,
                     buf, events, adopted, missed>>
  BY DEF EventsDone, fileVars, readVars
<1>2. TypeOK' /\ OnePath' /\ HandlesInv' /\ WatchInv'
  BY <1>1
     DEF FInv, TypeOK, OnePath, AtPath, HandlesInv, WatchInv, Reading
<1>3. LossInv'
  BY <1>1 DEF FInv, LossInv, Lost, Has
<1>4. UpdateInv'
  <2> SUFFICES ASSUME watch # NoInode, AtPath(watch), ~missed PROVE UpToDate'
    BY <1>1 DEF UpdateInv, AtPath
  <2>1. UpToDate
    BY DEF FInv, UpdateInv
  <2>2. CASE Has(queue, "IN_MODIFY") \/ Has(events, "IN_MODIFY")
    BY <1>1, <2>2 DEF UpToDate, Has
  <2>3. CASE text[watch] \in Parsable => adopted = text[watch]
    BY <1>1, <2>3 DEF UpToDate
  <2>4. QED
    BY <1>1, <2>1, <2>2, <2>3 DEF UpToDate, ReadsWatched
<1>5. QED
  BY <1>2, <1>3, <1>4 DEF FInv

LEMMA StutterKeeps == FInv /\ UNCHANGED vars => FInv'
<1> SUFFICES ASSUME FInv, UNCHANGED vars PROVE FInv'
  OBVIOUS
<1>1. /\ UNCHANGED <<name, text, writer, ops, watch, queue, pc, caller, fd,
                     size, buf, events, adopted, missed>>
  BY DEF vars
<1>2. TypeOK' /\ OnePath' /\ HandlesInv' /\ WatchInv'
  BY <1>1
     DEF FInv, TypeOK, OnePath, AtPath, HandlesInv, WatchInv, Reading
<1>3. LossInv'
  BY <1>1 DEF FInv, LossInv, Lost, Has
<1>4. UpdateInv'
  BY <1>1
     DEF FInv, UpdateInv, UpToDate, ReadsWatched, AtPath, Has
<1>5. QED
  BY <1>2, <1>3, <1>4 DEF FInv

LEMMA InitHolds == Init => FInv
<1> SUFFICES ASSUME Init PROVE FInv
  OBVIOUS
<1>1. PICK first \in Inode, doc \in Docs :
        /\ name \in {[n \in Inode |-> IF n = first THEN "path" ELSE "free"],
                     [n \in Inode |-> "free"]}
        /\ text = [n \in Inode |-> IF n = first THEN doc ELSE << >>]
  BY DEF Init
<1>2. /\ writer = Resting /\ ops = 0 /\ watch = NoInode /\ queue = << >>
      /\ pc = "fopen" /\ caller = "init_data" /\ fd = NoInode /\ size = 0
      /\ buf = << >> /\ events = << >> /\ adopted = NULL /\ missed = FALSE
  BY DEF Init
<1>3. /\ name \in [Inode -> {"free", "path", "moved", "unlinked", "destroyed",
                             "unmounted"}]
      /\ text \in [Inode -> Text]
  BY <1>1, DocsAssumption DEF Text
<1>4. TypeOK
  <2>1. << >> \in Text /\ << >> \in Seq(Event)
    BY DEF Text
  <2>2. Resting \in [inode : Inode \cup {NoInode}, doc : Text, at : Nat \ {0}]
    BY <2>1 DEF Resting
  <2>3. ops \in 0..MaxOps /\ size \in Nat
    BY <1>2, MaxOpsAssumption
  <2>4. QED
    BY <1>2, <1>3, <2>1, <2>2, <2>3 DEF TypeOK
<1>5. OnePath /\ HandlesInv
  BY <1>1, <1>2 DEF OnePath, AtPath, HandlesInv
<1>6. WatchInv /\ UpdateInv
  BY <1>2 DEF WatchInv, UpdateInv, Reading
<1>7. LossInv
  BY <1>2, EmptyHasNone DEF LossInv
<1>8. QED
  BY <1>4, <1>5, <1>6, <1>7 DEF FInv

-----------------------------------------------------------------------------
(***************************************************************************)
(* The invariant holds, whatever happens to the file and when.             *)
(***************************************************************************)
THEOREM Invariance == Spec => []FInv
<1>1. FInv /\ [Next]_vars => FInv'
  <2> SUFFICES ASSUME FInv, [Next]_vars PROVE FInv'
    OBVIOUS
  <2>1. CASE FileSystem
    <3>1. FilesChange
      BY <2>1, OpenTruncatingChanges, OpenForUpdateChanges, CreateChanges,
         ReplaceChanges, WriteChunkChanges, CloseWriterChanges, UnlinkChanges,
         MoveAwayChanges, UnmountChanges DEF FileSystem
    <3>2. QED
      BY <3>1, FilesChangeKeeps
  <2>2. CASE ServerStep
    BY <2>2, fopenKeeps, ftellKeeps, freadKeeps, fcloseKeeps, add_watchKeeps,
       readKeeps, NextEventKeeps, EventsDoneKeeps DEF ServerStep
  <2>3. CASE read_fails
    BY <2>3, StopKeeps DEF read_fails
  <2>4. CASE UNCHANGED vars
    BY <2>4, StutterKeeps
  <2>5. QED
    BY <2>1, <2>2, <2>3, <2>4 DEF Next
<1>2. QED
  BY <1>1, InitHolds, PTL DEF Spec

(***************************************************************************)
(* Every variable has its type.                                            *)
(***************************************************************************)
THEOREM TypeCorrect == Spec => []TypeOK
<1>1. FInv => TypeOK
  BY DEF FInv
<1>2. QED
  BY <1>1, Invariance, PTL

(***************************************************************************)
(* When the server waits and has no event to look at, it has adopted the   *)
(* text of the monitored file.                                             *)
(***************************************************************************)
THEOREM NoUpdateLost == Spec => []NoLostUpdate
<1>1. FInv => NoLostUpdate
  <2> SUFFICES ASSUME FInv, Waiting, AtPath(watch), ~missed,
                      text[watch] \in Parsable
               PROVE  adopted = text[watch]
    BY DEF NoLostUpdate
  <2>1. /\ pc = "read" /\ queue = << >> /\ events = << >>
        /\ watch # NoInode
    BY DEF FInv, Waiting, WatchInv
  <2>2. UpToDate
    BY <2>1 DEF FInv, UpdateInv
  <2>3. QED
    BY <2>1, <2>2, EmptyHasNone DEF UpToDate, ReadsWatched
<1>2. QED
  BY <1>1, Invariance, PTL

(***************************************************************************)
(* The file is reported as deleted only when the watched inode has lost    *)
(* its name.                                                               *)
(***************************************************************************)
THEOREM DeletedIfLost == Spec => DeletedOnlyIfLost
<1>1. FInv /\ [Next]_vars => [pc' = "deleted" => pc = "deleted" \/ Lost]_vars
  <2> SUFFICES ASSUME FInv, Next, pc' = "deleted", pc # "deleted" PROVE Lost
    BY DEF vars
  <2>1. NextEvent
    <3>1. CASE FileSystem
      BY <3>1 DEF FileSystem, OpenTruncating, OpenForUpdate, Create, Replace,
         WriteChunk, CloseWriter, Unlink, MoveAway, Unmount, UnchangedServer
    <3>2. CASE read_fails
      BY <3>2 DEF read_fails, StopMonitoring
    <3>3. CASE ServerStep
      BY <3>3 DEF ServerStep, fopen, ftell, fread, fclose, Return, add_watch,
         read, EventsDone
    <3>4. QED
      BY <3>1, <3>2, <3>3 DEF Next
  <2>2. /\ events # << >> /\ events \in Seq(Event)
        /\ Head(events) \in {"IN_DELETE_SELF", "IN_MOVE_SELF"}
    BY <2>1 DEF NextEvent, FInv, TypeOK
  <2>3. Has(events, Head(events))
    BY <2>2, TailHas
  <2>4. QED
    BY <2>2, <2>3 DEF FInv, LossInv
<1>2. QED
  BY <1>1, Invariance, PTL DEF Spec, DeletedOnlyIfLost

=============================================================================

----------------------------- MODULE FileMonitor -----------------------------
(***************************************************************************)
(* The server's side of the monitored file: reading it                     *)
(* (server_src/json_parser.c, read_file and parse_json_from_file), watching *)
(* it (server_src/file_monitor.c), and main's order of the two: parse the  *)
(* file once, then add the watch, then parse it again at each event.       *)
(*                                                                         *)
(* Around it, as an environment: a file system with one path, a process    *)
(* that writes the file piece by piece, others that unlink, move or        *)
(* replace it, and inotify, which merges an event into the last unread one *)
(* when the two are equal.                                                 *)
(*                                                                         *)
(* A text is a sequence of chunks, a chunk being what one read or write    *)
(* moves.  Parsable holds the texts parse_json_from_buffer accepts; the    *)
(* map it makes of one is named by the text itself.                        *)
(***************************************************************************)
EXTENDS Naturals, Sequences

CONSTANTS
  Chunk,      \* pieces of text
  Docs,       \* the texts that are written to the file
  Parsable,   \* the texts that make a map
  NULL,       \* the result of parsing any other text
  Inode,      \* the inodes the path can ever name
  NoInode,    \* none of them
  BufEvents,  \* how many events fit in get_file_events' buffer
  MaxOps      \* bound on what happens to the file, writes of chunks apart

Text == Seq(Chunk)

ASSUME DocsAssumption == Docs \subseteq Text
ASSUME ParsableAssumption == Parsable \subseteq Text \ {<< >>}
ASSUME NULLAssumption == NULL \notin Text
ASSUME NoInodeAssumption == NoInode \notin Inode
ASSUME BufEventsAssumption == BufEvents \in Nat \ {0}
ASSUME MaxOpsAssumption == MaxOps \in Nat

VARIABLES
  name,     \* what each inode is: "path" while the path names it
  text,     \* what each inode holds
  writer,   \* the writing process: the inode it has open, what it writes
  ops,      \* how many operations the file has been through
  watch,    \* the inode the watch is on
  queue,    \* the events inotify holds for the server
  pc,       \* where the server stands
  caller,   \* who called parse_json_from_file
  fd,       \* the inode read_file has open
  size,     \* file_size
  buf,      \* what fread has got so far
  events,   \* the events in event_buf still to be looked at
  adopted,  \* the last text that was parsed into a map
  missed    \* history: the watched inode held another text than the adopted
            \* one when the watch was added, and has not been written since

fileVars == <<name, text, writer, ops>>
readVars == <<fd, size, buf>>
vars == <<name, text, writer, ops, watch, queue, pc, caller, fd, size, buf,
          events, adopted, missed>>

(***************************************************************************)
(* A faulty variant of Parse, not used: the parser's errors are ignored.   *)
(***************************************************************************)
ParseAnything(t) == t

Parse(t) == IF t \in Parsable THEN t ELSE NULL

AtPath(inode) == name[inode] = "path"
PathExists == \E inode \in Inode : AtPath(inode)
Path == IF PathExists THEN CHOOSE inode \in Inode : AtPath(inode) ELSE NoInode

Resting == [inode |-> NoInode, doc |-> << >>, at |-> 1]

Init ==
  /\ \E first \in Inode, doc \in Docs :
       /\ name \in {[n \in Inode |-> IF n = first THEN "path" ELSE "free"],
                    [n \in Inode |-> "free"]}
       /\ text = [n \in Inode |-> IF n = first THEN doc ELSE << >>]
  /\ writer = Resting
  /\ ops = 0
  /\ watch = NoInode
  /\ queue = << >>
  /\ pc = "fopen"
  /\ caller = "init_data"
  /\ fd = NoInode
  /\ size = 0
  /\ buf = << >>
  /\ events = << >>
  /\ adopted = NULL
  /\ missed = FALSE

-----------------------------------------------------------------------------
(* inotify and the file system.                                            *)

Merged(q, event) ==
  IF q # << >> /\ q[Len(q)] = event THEN q ELSE Append(q, event)

(***************************************************************************)
(* An event of an inode, queued if the inode is the watched one.           *)
(***************************************************************************)
Notify(inode, event) ==
  queue' = IF inode = watch THEN Merged(queue, event) ELSE queue

NotifyGone(inode, event) ==
  queue' = IF inode = watch
             THEN Merged(Merged(queue, event), "IN_IGNORED")
             ELSE queue

(***************************************************************************)
(* The inode has lost its name, or one of its holders: it is destroyed,    *)
(* and only then reported as deleted, if it has no name and no holder.     *)
(***************************************************************************)
Unlinked(inode, holders) ==
  IF inode \in holders
    THEN name' = [name EXCEPT ![inode] = "unlinked"] /\ UNCHANGED queue
    ELSE /\ name' = [name EXCEPT ![inode] = "destroyed"]
         /\ NotifyGone(inode, "IN_DELETE_SELF")

Released(inode, holders) ==
  IF inode # NoInode /\ name[inode] = "unlinked"
    THEN Unlinked(inode, holders)
    ELSE UNCHANGED <<name, queue>>

(***************************************************************************)
(* What others do to the file.                                             *)
(***************************************************************************)
Operation == ops < MaxOps /\ ops' = ops + 1

UnchangedServer == UNCHANGED <<watch, pc, caller, readVars, events, adopted>>

Written(inode) == missed' = (missed /\ inode # watch)

OpenTruncating(doc) ==
  /\ Operation /\ writer = Resting /\ PathExists
  /\ writer' = [inode |-> Path, doc |-> doc, at |-> 1]
  /\ text' = [text EXCEPT ![Path] = << >>]
  /\ Notify(Path, "IN_MODIFY")
  /\ Written(Path)
  /\ UNCHANGED name /\ UnchangedServer

OpenForUpdate(doc) ==
  /\ Operation /\ writer = Resting /\ PathExists
  /\ writer' = [inode |-> Path, doc |-> doc, at |-> 1]
  /\ UNCHANGED <<name, text, queue, missed>> /\ UnchangedServer

WriteChunk ==
  LET to == writer.inode
  IN  /\ writer # Resting
      /\ writer.at <= Len(writer.doc)
      /\ text' = [text EXCEPT ![to] =
                    IF writer.at <= Len(@)
                      THEN [@ EXCEPT ![writer.at] = writer.doc[writer.at]]
                      ELSE Append(@, writer.doc[writer.at])]
      /\ writer' = [writer EXCEPT !.at = @ + 1]
      /\ Notify(to, "IN_MODIFY")
      /\ Written(to)
      /\ UNCHANGED <<name, ops>> /\ UnchangedServer

(***************************************************************************)
(* The writer closes the file, done or not.                                *)
(***************************************************************************)
CloseWriter ==
  /\ writer # Resting
  /\ writer' = Resting
  /\ Released(writer.inode, {fd})
  /\ UNCHANGED <<text, ops, missed>> /\ UnchangedServer

Unlink ==
  /\ Operation /\ PathExists
  /\ Unlinked(Path, {fd, writer.inode})
  /\ UNCHANGED <<text, writer, missed>> /\ UnchangedServer

MoveAway ==
  /\ Operation /\ PathExists
  /\ name' = [name EXCEPT ![Path] = "moved"]
  /\ Notify(Path, "IN_MOVE_SELF")
  /\ UNCHANGED <<text, writer, missed>> /\ UnchangedServer

Create(inode, doc) ==
  /\ Operation /\ ~PathExists /\ name[inode] = "free"
  /\ name' = [name EXCEPT ![inode] = "path"]
  /\ text' = [text EXCEPT ![inode] = doc]
  /\ UNCHANGED <<writer, queue, missed>> /\ UnchangedServer

(***************************************************************************)
(* A complete new file is renamed over the path, as editors and deployment *)
(* tools do: the path never stops naming a file.                           *)
(***************************************************************************)
Replace(inode, doc) ==
  /\ Operation /\ PathExists /\ name[inode] = "free"
  /\ LET old == Path
         held == old \in {fd, writer.inode}
     IN  /\ name' = [name EXCEPT ![inode] = "path",
                                 ![old] = IF held THEN "unlinked"
                                          ELSE "destroyed"]
         /\ IF held THEN UNCHANGED queue
                        ELSE NotifyGone(old, "IN_DELETE_SELF")
  /\ text' = [text EXCEPT ![inode] = doc]
  /\ UNCHANGED <<writer, missed>> /\ UnchangedServer

Unmount ==
  /\ Operation /\ PathExists
  /\ writer = Resting /\ fd = NoInode
  /\ name' = [name EXCEPT ![Path] = "unmounted"]
  /\ NotifyGone(Path, "IN_UNMOUNT")
  /\ UNCHANGED <<text, writer, missed>> /\ UnchangedServer

-----------------------------------------------------------------------------
(* read_file and parse_json_from_file, for init_data and for file_modified. *)

(***************************************************************************)
(* The two callers and what they do with the result.  init_data's failure  *)
(* ends the process; file_modified ignores a file it cannot parse.         *)
(***************************************************************************)
Return(result) ==
  /\ IF result = NULL
       THEN /\ UNCHANGED adopted
            /\ pc' = IF caller = "init_data" THEN "exited" ELSE "events"
       ELSE /\ adopted' = result
            /\ pc' = IF caller = "init_data" THEN "add_watch" ELSE "events"

fopen ==
  /\ pc = "fopen"
  /\ IF PathExists
       THEN fd' = Path /\ pc' = "ftell" /\ UNCHANGED adopted
       ELSE Return(NULL) /\ UNCHANGED fd
  /\ UNCHANGED <<fileVars, watch, queue, caller, size, buf, events, missed>>

ftell ==
  /\ pc = "ftell"
  /\ size' = Len(text[fd])
  /\ buf' = << >>
  /\ pc' = "fread"
  /\ UNCHANGED <<fileVars, watch, queue, caller, fd, events, adopted, missed>>

fread ==
  /\ pc = "fread"
  /\ Len(buf) < size /\ Len(buf) < Len(text[fd])
  /\ buf' = Append(buf, text[fd][Len(buf) + 1])
  /\ UNCHANGED <<fileVars, watch, queue, pc, caller, fd, size, events, adopted,
                 missed>>

(***************************************************************************)
(* fread is over: all of file_size was read, or the file had shrunk.       *)
(***************************************************************************)
fclose ==
  /\ pc = "fread"
  /\ Len(buf) = size \/ Len(buf) >= Len(text[fd])
  /\ Return(IF Len(buf) = size THEN Parse(buf) ELSE NULL)
  /\ fd' = NoInode /\ size' = 0 /\ buf' = << >>
  /\ Released(fd, {writer.inode})
  /\ UNCHANGED <<text, writer, ops, watch, caller, events, missed>>

-----------------------------------------------------------------------------
(* monitor_file and get_file_events.                                       *)

add_watch ==
  /\ pc = "add_watch"
  /\ \/ /\ PathExists
        /\ watch' = Path
        /\ missed' = (text[Path] # adopted)
        /\ pc' = "read"
     \/ pc' = "failed" /\ UNCHANGED <<watch, missed>>
  /\ UNCHANGED <<fileVars, queue, caller, readVars, events, adopted>>

read ==
  /\ pc = "read"
  /\ queue # << >>
  /\ LET got == IF Len(queue) < BufEvents THEN Len(queue) ELSE BufEvents
     IN  /\ events' = SubSeq(queue, 1, got)
         /\ queue' = SubSeq(queue, got + 1, Len(queue))
  /\ pc' = "events"
  /\ UNCHANGED <<fileVars, watch, caller, readVars, adopted, missed>>

(***************************************************************************)
(* monitor_file's end, whatever get_file_events returned.                  *)
(***************************************************************************)
StopMonitoring(how) ==
  /\ pc' = how
  /\ watch' = NoInode
  /\ queue' = << >>
  /\ events' = << >>

read_fails ==
  /\ pc = "read"
  /\ StopMonitoring("failed")
  /\ UNCHANGED <<fileVars, caller, readVars, adopted, missed>>

(***************************************************************************)
(* Faulty variants of NextEvent, not used: a last branch that takes every  *)
(* other event for the deletion, a test for deletion that forgets moves,   *)
(* and a modification that calls nobody.                                   *)
(***************************************************************************)
OtherEventsDelete ==
  /\ pc = "events"
  /\ events # << >>
  /\ \/ /\ Head(events) = "IN_MODIFY"
        /\ caller' = "file_modified" /\ pc' = "fopen"
        /\ events' = Tail(events)
        /\ UNCHANGED <<watch, queue>>
     \/ /\ Head(events) # "IN_MODIFY"
        /\ StopMonitoring("deleted")
        /\ UNCHANGED caller
  /\ UNCHANGED <<fileVars, readVars, adopted, missed>>

MovesAreIgnored ==
  /\ pc = "events"
  /\ events # << >>
  /\ \/ /\ Head(events) = "IN_MODIFY"
        /\ caller' = "file_modified" /\ pc' = "fopen"
        /\ events' = Tail(events)
        /\ UNCHANGED <<watch, queue>>
     \/ /\ Head(events) = "IN_DELETE_SELF"
        /\ StopMonitoring("deleted")
        /\ UNCHANGED caller
     \/ /\ Head(events) \in {"IN_MOVE_SELF", "IN_UNMOUNT", "IN_IGNORED"}
        /\ events' = Tail(events)
        /\ UNCHANGED <<watch, queue, pc, caller>>
  /\ UNCHANGED <<fileVars, readVars, adopted, missed>>

ModificationsAreIgnored ==
  /\ pc = "events"
  /\ events # << >>
  /\ \/ /\ Head(events) \in {"IN_DELETE_SELF", "IN_MOVE_SELF"}
        /\ StopMonitoring("deleted")
        /\ UNCHANGED caller
     \/ /\ Head(events) \notin {"IN_DELETE_SELF", "IN_MOVE_SELF"}
        /\ events' = Tail(events)
        /\ UNCHANGED <<watch, queue, pc, caller>>
  /\ UNCHANGED <<fileVars, readVars, adopted, missed>>

(***************************************************************************)
(* The loop over event_buf.  Deletion ends both loops, whatever is left in *)
(* the buffer.                                                             *)
(***************************************************************************)
NextEvent ==
  /\ pc = "events"
  /\ events # << >>
  /\ \/ /\ Head(events) = "IN_MODIFY"
        /\ caller' = "file_modified" /\ pc' = "fopen"
        /\ events' = Tail(events)
        /\ UNCHANGED <<watch, queue>>
     \/ /\ Head(events) \in {"IN_DELETE_SELF", "IN_MOVE_SELF"}
        /\ StopMonitoring("deleted")
        /\ UNCHANGED caller
     \/ /\ Head(events) \in {"IN_UNMOUNT", "IN_IGNORED"}
        /\ events' = Tail(events)
        /\ UNCHANGED <<watch, queue, pc, caller>>
  /\ UNCHANGED <<fileVars, readVars, adopted, missed>>

(***************************************************************************)
(* A faulty variant, not used: what arrived during the callback is thrown  *)
(* away as already handled.                                                *)
(***************************************************************************)
EventsDrained ==
  /\ pc = "events"
  /\ events = << >>
  /\ pc' = "read"
  /\ queue' = << >>
  /\ UNCHANGED <<fileVars, watch, caller, readVars, events, adopted, missed>>

EventsDone ==
  /\ pc = "events"
  /\ events = << >>
  /\ pc' = "read"
  /\ UNCHANGED <<fileVars, watch, queue, caller, readVars, events, adopted,
                 missed>>

-----------------------------------------------------------------------------
FileSystem ==
  \/ \E doc \in Docs :
       \/ OpenTruncating(doc)
       \/ OpenForUpdate(doc)
       \/ \E inode \in Inode : Create(inode, doc) \/ Replace(inode, doc)
  \/ WriteChunk \/ CloseWriter \/ Unlink \/ MoveAway \/ Unmount

ServerStep ==
  \/ fopen \/ ftell \/ fread \/ fclose
  \/ add_watch \/ read \/ NextEvent \/ EventsDone

Next == FileSystem \/ ServerStep \/ read_fails

(***************************************************************************)
(* The server runs; nothing says that anything happens to the file, or     *)
(* that a writer goes on.                                                  *)
(***************************************************************************)
Spec == Init /\ [][Next]_vars /\ WF_vars(ServerStep)

-----------------------------------------------------------------------------
Event == {"IN_MODIFY", "IN_DELETE_SELF", "IN_MOVE_SELF", "IN_UNMOUNT",
          "IN_IGNORED"}

TypeOK ==
  /\ name \in [Inode -> {"free", "path", "moved", "unlinked", "destroyed",
                         "unmounted"}]
  /\ text \in [Inode -> Text]
  /\ writer \in [inode : Inode \cup {NoInode}, doc : Text, at : Nat \ {0}]
  /\ ops \in 0..MaxOps
  /\ watch \in Inode \cup {NoInode}
  /\ queue \in Seq(Event)
  /\ pc \in {"fopen", "ftell", "fread", "add_watch", "read", "events",
             "deleted", "failed", "exited"}
  /\ caller \in {"init_data", "file_modified"}
  /\ fd \in Inode \cup {NoInode}
  /\ size \in Nat
  /\ buf \in Text
  /\ events \in Seq(Event)
  /\ adopted \in Parsable \cup {NULL}
  /\ missed \in BOOLEAN

(***************************************************************************)
(* When the server waits and inotify holds nothing for it, the text of the *)
(* watched file, if it parses and is still at the path, is the adopted     *)
(* one: no write is lost to a reading it overlapped, to a merged event or  *)
(* to a full buffer.  The exception is a text that was written between the *)
(* first parse and the watch, and not written since.                       *)
(***************************************************************************)
Waiting == pc = "read" /\ queue = << >>

NoLostUpdate ==
  (Waiting /\ AtPath(watch) /\ ~missed /\ text[watch] \in Parsable)
    => adopted = text[watch]

(***************************************************************************)
(* The file is reported as deleted only after the watched inode was        *)
(* unlinked, replaced or moved away: not for a modification, an unmount or *)
(* a failure, and not for the fate of a file that is not the watched one.  *)
(***************************************************************************)
Lost == /\ watch # NoInode
        /\ name[watch] \in {"moved", "unlinked", "destroyed"}

DeletedOnlyIfLost == [][pc' = "deleted" => pc = "deleted" \/ Lost]_vars

(***************************************************************************)
(* A text that stays in the monitored file is adopted in the end, even if  *)
(* it was read half-written before, unless monitoring ends.                *)
(***************************************************************************)
Ended == pc \in {"deleted", "failed", "exited"}

Holds(doc) == /\ watch # NoInode
              /\ AtPath(watch)
              /\ ~missed
              /\ text[watch] = doc

LastTextIsAdopted ==
  \A doc \in Parsable : Holds(doc) ~> (adopted = doc \/ ~Holds(doc) \/ Ended)

(***************************************************************************)
(* The loss of the monitored file is reported and ends monitoring, however *)
(* many modifications are queued before it, once no writer holds the file. *)
(***************************************************************************)
DeletionIsReported == Lost ~> (Ended \/ (Lost /\ writer.inode = watch))

(***************************************************************************)
(* file_monitor.h, line 12, calls file_deleted the function "called when   *)
(* file is deleted", and line 15 has monitor_file block until then: when   *)
(* it is called, the path names no file.                                   *)
(***************************************************************************)
DeletedMeansNoFile == pc = "deleted" => ~PathExists

=============================================================================

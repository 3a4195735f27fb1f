------------------------------ MODULE ServerMain ------------------------------
(***************************************************************************)
(* The server process of server_src/server_main.c: start-up, the callbacks *)
(* file_modified and file_deleted, the handler of SIGINT and SIGTERM, and  *)
(* the way out of main.                                                    *)
(*                                                                         *)
(* The callbacks are loops that publish one message per turn.  A turn is a *)
(* step, so the state between two messages of one batch is a state of the  *)
(* model: a signal can end the process there, and a subscriber can look.   *)
(*                                                                         *)
(* What calls the callbacks (inotify and the file) is an environment here: *)
(* parse_json_from_file returns any map of ParsedMaps, or NULL.            *)
(***************************************************************************)
EXTENDS Communication

CONSTANTS
  ParsedMaps,  \* the maps parse_json_from_file can return
  NULL         \* its result for a file it cannot read or parse

ASSUME ParsedMapsAssumption == ParsedMaps \subseteq AccessPointMap
ASSUME NULLAssumption == NULL \notin ParsedMaps

VARIABLES
  pc,          \* where main, or the callback it is in, stands
  exited,      \* the process has ended; pc tells where
  pub_socket,  \* the publishing socket exists
  current,     \* CURRENT_AP_HASH_MAP; a NULL pointer is an empty map to stb_ds
  new_map,     \* file_modified's local: the map it has parsed
  i,           \* the index of the loop the process is in
  sent,        \* the last message handed to zsock_send
  batch,       \* history: the messages of the callback in progress
  view         \* history: the list of a subscriber that got every message
               \* and started from the list of the first parse

vars == <<pc, exited, pub_socket, current, new_map, i, sent, batch, view>>

InStartup == pc \in {"init_data", "init_communication"}
InMonitor == pc \in {"monitor", "detect", "removal", "deleted"}
InCleanup == pc \in {"cleanup_communication", "cleanup_data", "return"}

Init ==
  /\ pc = "init_data"
  /\ exited = FALSE
  /\ pub_socket = FALSE
  /\ current = << >>
  /\ new_map = << >>
  /\ i = 1
  /\ sent = NoMsg
  /\ batch = << >>
  /\ view = [s \in Ssid |-> Absent]

(***************************************************************************)
(* The process is alive and stands at a place.                             *)
(***************************************************************************)
At(place) == ~exited /\ pc = place

(***************************************************************************)
(* send_msg.  Its branch for a zsock_send that fails, which only logs, is  *)
(* left out: a PUB socket drops messages (see PubSub) instead of failing   *)
(* or blocking, and a handler that interrupts it ends the process.         *)
(***************************************************************************)
Send(msg) ==
  /\ sent' = msg
  /\ batch' = Append(batch, msg)
  /\ view' = Applied(view, msg)

SendNothing == UNCHANGED <<sent, batch, view>>

(***************************************************************************)
(* main, down to monitor_file.                                             *)
(***************************************************************************)
init_data(parsed) ==
  /\ At("init_data")
  /\ IF parsed = NULL
       THEN exited' = TRUE /\ UNCHANGED <<pc, current, view>>
       ELSE /\ current' = parsed
            /\ view' = ListOf(parsed)
            /\ pc' = "init_communication"
            /\ UNCHANGED exited
  /\ UNCHANGED <<pub_socket, new_map, i, sent, batch>>

init_communication ==
  /\ At("init_communication")
  /\ \/ pub_socket' = TRUE /\ pc' = "init_signal_handling" /\ UNCHANGED exited
     \/ exited' = TRUE /\ UNCHANGED <<pub_socket, pc>>
  /\ UNCHANGED <<current, new_map, i, sent, batch, view>>

init_signal_handling ==
  /\ At("init_signal_handling")
  /\ pc' = "monitor"
  /\ UNCHANGED <<exited, pub_socket, current, new_map, i, sent, batch, view>>

(***************************************************************************)
(* file_modified: nothing at all when the file does not parse; else a pass *)
(* over the new map, a pass over the current one, and the replacement.     *)
(***************************************************************************)
file_modified(parsed) ==
  /\ At("monitor")
  /\ IF parsed = NULL
       THEN UNCHANGED <<pc, new_map, i>>
       ELSE new_map' = parsed /\ i' = 1 /\ pc' = "detect"
  /\ UNCHANGED <<exited, pub_socket, current, sent, batch, view>>

DetectTurn ==
  /\ At("detect")
  /\ i <= map_size(new_map)
  /\ LET change == detect_changed_ssid(current, new_map[i])
         old    == current[change.changed_ssid_index]
     IN  \/ /\ change.change_type = "NEW_SSID"
            /\ Send(send_new_ssid(new_map[i]))
         \/ /\ change.change_type = "PARAM_CHANGE"
            /\ Send(send_param_change(old, new_map[i],
                                      detect_param_changes(old, new_map[i])))
         \/ /\ change.change_type = "NO_CHANGE"
            /\ SendNothing
  /\ i' = i + 1
  /\ UNCHANGED <<pc, exited, pub_socket, current, new_map>>

(***************************************************************************)
(* Faulty variants of the next definition, not used: the second loop       *)
(* starts before its first entry; the first stops before its last one.     *)
(***************************************************************************)
RemovalFromZero ==
  /\ At("detect")
  /\ i > map_size(new_map)
  /\ pc' = "removal"
  /\ i' = 0
  /\ SendNothing
  /\ UNCHANGED <<exited, pub_socket, current, new_map>>

DetectEndsEarly ==
  /\ At("detect")
  /\ i >= map_size(new_map)
  /\ pc' = "removal"
  /\ i' = 1
  /\ SendNothing
  /\ UNCHANGED <<exited, pub_socket, current, new_map>>

DetectEnd ==
  /\ At("detect")
  /\ i > map_size(new_map)
  /\ pc' = "removal"
  /\ i' = 1
  /\ SendNothing
  /\ UNCHANGED <<exited, pub_socket, current, new_map>>

(***************************************************************************)
(* A faulty variant, not used: every entry is taken for a removed one.     *)
(***************************************************************************)
RemovesAll ==
  /\ At("removal")
  /\ i <= map_size(current)
  /\ Send(send_removed_ssid(current[i]))
  /\ i' = i + 1
  /\ UNCHANGED <<pc, exited, pub_socket, current, new_map>>

RemovalTurn ==
  /\ At("removal")
  /\ i <= map_size(current)
  /\ IF find_ssid_in_map(new_map, current[i].ssid) = AP_MAP_NOT_FOUND
       THEN Send(send_removed_ssid(current[i]))
       ELSE SendNothing
  /\ i' = i + 1
  /\ UNCHANGED <<pc, exited, pub_socket, current, new_map>>

RemovalEnd ==
  /\ At("removal")
  /\ i > map_size(current)
  /\ current' = new_map
  /\ new_map' = << >>
  /\ i' = 1
  /\ pc' = "monitor"
  /\ batch' = << >>
  /\ UNCHANGED <<exited, pub_socket, sent, view>>

(***************************************************************************)
(* file_deleted, after which monitor_file returns.  It leaves the current  *)
(* map alone: cleanup_data frees it.                                       *)
(***************************************************************************)
file_deleted ==
  /\ At("monitor")
  /\ pc' = "deleted"
  /\ i' = 1
  /\ SendNothing
  /\ UNCHANGED <<exited, pub_socket, current, new_map>>

DeletedTurn ==
  /\ At("deleted")
  /\ i <= map_size(current)
  /\ Send(send_removed_ssid(current[i]))
  /\ i' = i + 1
  /\ UNCHANGED <<pc, exited, pub_socket, current, new_map>>

(***************************************************************************)
(* A faulty variant, not used: the last entry is left out.                 *)
(***************************************************************************)
DeletedEndsEarly ==
  /\ At("deleted")
  /\ i >= map_size(current)
  /\ pc' = "cleanup_communication"
  /\ SendNothing
  /\ UNCHANGED <<exited, pub_socket, current, new_map, i>>

DeletedEnd ==
  /\ At("deleted")
  /\ i > map_size(current)
  /\ pc' = "cleanup_communication"
  /\ SendNothing
  /\ UNCHANGED <<exited, pub_socket, current, new_map, i>>

(***************************************************************************)
(* monitor_file returns a failure (inotify could not be set up, or could   *)
(* not be read); main goes on to its clean-up all the same.                *)
(***************************************************************************)
monitor_file_fails ==
  /\ At("monitor")
  /\ pc' = "cleanup_communication"
  /\ SendNothing
  /\ UNCHANGED <<exited, pub_socket, current, new_map, i>>

cleanup_communication ==
  /\ At("cleanup_communication")
  /\ pub_socket' = FALSE
  /\ pc' = "cleanup_data"
  /\ UNCHANGED <<exited, current, new_map, i, sent, batch, view>>

cleanup_data ==
  /\ At("cleanup_data")
  /\ current' = << >>
  /\ i' = 1
  /\ pc' = "return"
  /\ exited' = TRUE
  /\ UNCHANGED <<pub_socket, new_map, sent, batch, view>>

(***************************************************************************)
(* SIGINT or SIGTERM, anywhere once init_signal_handling has run: the      *)
(* handler destroys the socket and ends the process with _Exit.            *)
(***************************************************************************)
termination_handler ==
  /\ ~exited
  /\ InMonitor \/ InCleanup
  /\ pub_socket' = FALSE
  /\ exited' = TRUE
  /\ UNCHANGED <<pc, current, new_map, i, sent, batch, view>>

Startup ==
  \/ \E parsed \in ParsedMaps \cup {NULL} : init_data(parsed)
  \/ init_communication
  \/ init_signal_handling

CallbackStep ==
  \/ DetectTurn \/ DetectEnd \/ RemovalTurn \/ RemovalEnd
  \/ DeletedTurn \/ DeletedEnd

Cleanup == cleanup_communication \/ cleanup_data

FileEvent ==
  \/ \E parsed \in ParsedMaps \cup {NULL} : file_modified(parsed)
  \/ file_deleted
  \/ monitor_file_fails

Next ==
  \/ Startup
  \/ CallbackStep
  \/ Cleanup
  \/ FileEvent
  \/ termination_handler

(***************************************************************************)
(* The process runs, so a callback it has entered goes on; nothing makes   *)
(* the file change or a signal arrive.                                     *)
(***************************************************************************)
ServerStep == Startup \/ CallbackStep \/ Cleanup

Spec == Init /\ [][Next]_vars /\ WF_vars(ServerStep)

-----------------------------------------------------------------------------
TypeOK ==
  /\ \/ pc = "init_signal_handling"
     \/ InStartup \/ InMonitor \/ InCleanup
  /\ exited \in BOOLEAN
  /\ pub_socket \in BOOLEAN
  /\ current \in AccessPointMap
  /\ new_map \in AccessPointMap
  /\ i \in Nat \ {0}
  /\ sent \in Message \cup {NoMsg}
  /\ batch \in Seq(Message)
  /\ view \in Lists

(***************************************************************************)
(* The list that has been announced, read off the server's own data: what  *)
(* the loops have done so far to the current map.                          *)
(***************************************************************************)
PassedIn(map, s) == \E k \in DOMAIN map : k < i /\ map[k].ssid = s

NewMapHolds(s) == \/ pc = "detect" /\ PassedIn(new_map, s)
                  \/ pc = "removal" /\ HasKey(new_map, s)

GoneFrom(s) == /\ pc \in {"removal", "deleted"} \/ InCleanup
               /\ PassedIn(current, s)

Announced ==
  [s \in Ssid |-> IF NewMapHolds(s) THEN ListOf(new_map)[s]
                  ELSE IF GoneFrom(s) THEN Absent
                  ELSE ListOf(current)[s]]

(***************************************************************************)
(* Two lists agree on an access point: both have it or neither, and its    *)
(* SNR is the same.  The channel is left out, see ChannelInSync.           *)
(***************************************************************************)
AgreeOn(list1, list2, s) ==
  /\ list1[s] = Absent <=> list2[s] = Absent
  /\ list1[s] # Absent => list1[s].SNR = list2[s].SNR

(***************************************************************************)
(* Whenever no callback is running, a subscriber that applied every        *)
(* message holds exactly the access points of the current map, with the    *)
(* SNR they have there: the messages of each batch were neither too few    *)
(* nor too many, whatever files came before.                               *)
(***************************************************************************)
InSync ==
  pc = "monitor" => \A s \in Ssid : AgreeOn(view, ListOf(current), s)

(***************************************************************************)
(* One callback sends at most one message about an access point: an SSID   *)
(* is never announced both as changed (or new) and as removed, nor twice.  *)
(***************************************************************************)
OneMessagePerSsid ==
  \A j, k \in DOMAIN batch : batch[j].ssid = batch[k].ssid => j = k

(***************************************************************************)
(* No message the server sends aborts the client: the printing function of *)
(* its kind finds the frames it asserts, and those number_of_params has it *)
(* pop (client_src/message_printer.c).                                     *)
(***************************************************************************)
ClientCanPrint ==
  /\ sent.id = "NEW_SSID" => print_NEW_SSID_message(sent)
  /\ sent.id = "REMOVED_SSID" => print_REMOVED_SSID_message(sent)
  /\ sent.id = "CHANGED_SSID" => print_SSID_CHANGED_message(sent)

(***************************************************************************)
(* The process was ended by a signal, at the place pc names.               *)
(***************************************************************************)
Killed == exited /\ pc # "return"

(***************************************************************************)
(* A file that parsed is announced in full: a subscriber comes to hold     *)
(* exactly its access points, unless a signal ends the process first.      *)
(***************************************************************************)
ParsedFileIsAnnounced ==
  \A map \in ParsedMaps :
    (pc = "detect" /\ new_map = map)
      ~> (Killed \/ \A s \in Ssid : AgreeOn(view, ListOf(map), s))

(***************************************************************************)
(* When the file is deleted every access point still announced is          *)
(* announced as removed, unless a signal ends the process first.           *)
(***************************************************************************)
DeletionEmptiesView ==
  pc = "deleted" ~> ((\A s \in Ssid : view[s] = Absent) \/ Killed)

(***************************************************************************)
(* The server implements the feed of module ChangeFeed: its loops, read    *)
(* as changes of one announced list, send an event for each real change    *)
(* and for nothing else, and only while the socket exists.                 *)
(***************************************************************************)
FeedPhase == IF pub_socket THEN "open"
             ELSE IF InStartup /\ ~exited THEN "closed"
             ELSE "over"

EventOf(msg) ==
  IF msg.id = "CHANGED_SSID"
    THEN [id |-> msg.id, ssid |-> msg.ssid, names |-> DOMAIN msg.changes]
    ELSE IF msg = NoMsg THEN NoMsg ELSE [id |-> msg.id, ssid |-> msg.ssid]

Feed == INSTANCE ChangeFeed WITH
          list <- Announced, phase <- FeedPhase, event <- EventOf(sent)

ImplementsChangeFeed == Feed!FeedSpec

(***************************************************************************)
(* The same as InSync for the channels too: what msg_interface.h line 27   *)
(* says of CHANGED_SSID, (param_name,old_value,new_value)+.                *)
(***************************************************************************)
ChannelInSync == pc = "monitor" => view = ListOf(current)

=============================================================================

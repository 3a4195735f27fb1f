---------------------------- MODULE Communication ----------------------------
(***************************************************************************)
(* The messages of server_src/communication.c, as common/msg_interface.h   *)
(* defines them, and what client_src/message_printer.c demands of each.    *)
(*                                                                         *)
(* On the wire a body is a sequence of string frames: the SSID, the number *)
(* of parameters, then per parameter its name and one or two values.  Here *)
(* a body is a record whose params, or changes, field is a function from   *)
(* the names of the parameters to their values: the order of the groups is *)
(* fixed by the code and carries nothing.  number_of_params is a field of  *)
(* its own, for the sender counts it apart from the groups it appends, and *)
(* the receiver trusts it.                                                 *)
(***************************************************************************)
EXTENDS AccessPointsData, FiniteSets

NoMsg == [id |-> "none"]

send_new_ssid(new_ssid) ==
  [id               |-> "NEW_SSID",
   ssid             |-> new_ssid.ssid,
   number_of_params |-> 2,
   params           |-> ParamsOf(new_ssid)]

send_removed_ssid(old_ssid) ==
  [id |-> "REMOVED_SSID", ssid |-> old_ssid.ssid]

(***************************************************************************)
(* CHANGED_SSID carries the old and the new value of each parameter that   *)
(* differs.  The new value is to->SNR for either parameter: line 120 sends *)
(* it in the place of to->channel.                                         *)
(***************************************************************************)
ChangedNames(changes) ==
  {p \in {"SNR", "channel"} : \/ p = "SNR" /\ changes.SNR_change
                              \/ p = "channel" /\ changes.channel_change}

send_param_change(from, to, changes) ==
  [id               |-> "CHANGED_SSID",
   ssid             |-> from.ssid,
   number_of_params |-> (IF changes.SNR_change THEN 1 ELSE 0)
                        + (IF changes.channel_change THEN 1 ELSE 0),
   changes          |-> [p \in ChangedNames(changes) |->
                           [old |-> from[p], new |-> to.SNR]]]

NewSsidMsg ==
  [id : {"NEW_SSID"}, ssid : Ssid, number_of_params : {2}, params : Params]

RemovedSsidMsg == [id : {"REMOVED_SSID"}, ssid : Ssid]

ChangedSsidMsg ==
  [id : {"CHANGED_SSID"}, ssid : Ssid, number_of_params : 0..2,
   changes : UNION {[names -> [old : Unsigned, new : Unsigned]] :
                       names \in SUBSET {"SNR", "channel"}}]

Message == NewSsidMsg \cup RemovedSsidMsg \cup ChangedSsidMsg

(***************************************************************************)
(* The number of body frames of a message, and how many of them the        *)
(* printing function of its kind pops before it returns.  A function that  *)
(* finds fewer frames than it asserts or pops aborts the client.           *)
(***************************************************************************)
Frames(msg) ==
  CASE msg.id = "NEW_SSID"     -> 2 + 2 * Cardinality(DOMAIN msg.params)
    [] msg.id = "REMOVED_SSID" -> 1
    [] msg.id = "CHANGED_SSID" -> 2 + 3 * Cardinality(DOMAIN msg.changes)

print_NEW_SSID_message(msg) ==
  Frames(msg) >= 4 /\ 2 + 2 * msg.number_of_params <= Frames(msg)

print_REMOVED_SSID_message(msg) == Frames(msg) = 1

print_SSID_CHANGED_message(msg) ==
  Frames(msg) >= 5 /\ 2 + 3 * msg.number_of_params <= Frames(msg)

(***************************************************************************)
(* The list a subscriber holds once it has applied a message to the list   *)
(* it held: what the printed lines tell a reader of the client's output.   *)
(* A change of an access point it does not hold leaves it without.         *)
(***************************************************************************)
Applied(list, msg) ==
  [list EXCEPT ![msg.ssid] =
     IF msg.id = "NEW_SSID" THEN msg.params
     ELSE IF msg.id = "REMOVED_SSID" \/ @ = Absent THEN Absent
     ELSE [p \in {"SNR", "channel"} |->
             IF p \in DOMAIN msg.changes THEN msg.changes[p].new ELSE @[p]]]

=============================================================================

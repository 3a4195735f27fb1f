------------------------------- MODULE Client -------------------------------
(***************************************************************************)
(* The client process of client_src/client_main.c, one or several of them: *)
(* it connects, installs its signal handler, and receives, dispatches and  *)
(* prints messages for ever.  What it prints is a list of access points to *)
(* whoever reads it; that list is shown.                                   *)
(*                                                                         *)
(* Signals inside of library calls are the subject of module Lifecycle.    *)
(***************************************************************************)
EXTENDS Communication, PubSub

VARIABLES
  cpc,    \* where a client stands
  shown   \* the list its printed lines tell

clients == <<cpc, shown>>

ClientInit ==
  /\ cpc = [c \in Client |-> "init_communication"]
  /\ shown = [c \in Client |-> [s \in Ssid |-> Absent]]

GoesTo(c, place) == cpc' = [cpc EXCEPT ![c] = place]

init_communication(c) ==
  /\ cpc[c] = "init_communication"
  /\ \/ zsock_new_sub(c) /\ GoesTo(c, "init_signal_handling")
     \/ UNCHANGED transport /\ GoesTo(c, "exited")
  /\ UNCHANGED shown

init_signal_handling(c) ==
  /\ cpc[c] = "init_signal_handling"
  /\ GoesTo(c, "receive_msg")
  /\ UNCHANGED <<shown, transport>>

(***************************************************************************)
(* The printing function a message is dispatched to by its id, and whether *)
(* it returns.  A message of another id is only traced.                    *)
(***************************************************************************)
PrintReturns(m) ==
  CASE m.id = "NEW_SSID"     -> print_NEW_SSID_message(m)
    [] m.id = "REMOVED_SSID" -> print_REMOVED_SSID_message(m)
    [] m.id = "CHANGED_SSID" -> print_SSID_CHANGED_message(m)
    [] OTHER                 -> TRUE

PrintedTo(list, m) ==
  IF m.id \in {"NEW_SSID", "REMOVED_SSID", "CHANGED_SSID"}
    THEN Applied(list, m)
    ELSE list

(***************************************************************************)
(* receive_msg: zsock_recv takes the oldest message or waits for one; the  *)
(* message is printed and freed, or an assertion of the printing function  *)
(* aborts the process.  Faulty variants, not used: removals are not among  *)
(* the ids compared; the client does not wait for a second message.        *)
(***************************************************************************)
RemovalsAreUnknown(c) ==
  /\ cpc[c] = "receive_msg"
  /\ inbox[c] # << >>
  /\ shown' = [shown EXCEPT ![c] = IF Head(inbox[c]).id = "REMOVED_SSID" THEN @
                                   ELSE PrintedTo(@, Head(inbox[c]))]
  /\ inbox' = [inbox EXCEPT ![c] = Tail(@)]
  /\ UNCHANGED <<cpc, link, pipe>>

OneMessageOnly(c) ==
  /\ cpc[c] = "receive_msg"
  /\ inbox[c] # << >>
  /\ shown[c] = [s \in Ssid |-> Absent]
  /\ shown' = [shown EXCEPT ![c] = PrintedTo(@, Head(inbox[c]))]
  /\ inbox' = [inbox EXCEPT ![c] = Tail(@)]
  /\ UNCHANGED <<cpc, link, pipe>>

receive_msg(c) ==
  /\ cpc[c] = "receive_msg"
  /\ inbox[c] # << >>
  /\ LET msg == Head(inbox[c]) IN
     \/ /\ PrintReturns(msg)
        /\ shown' = [shown EXCEPT ![c] = PrintedTo(@, msg)]
        /\ inbox' = [inbox EXCEPT ![c] = Tail(@)]
        /\ UNCHANGED <<cpc, link, pipe>>
     \/ /\ ~PrintReturns(msg)
        /\ GoesTo(c, "aborted")
        /\ DestroySub(c)
        /\ UNCHANGED shown

(***************************************************************************)
(* zsock_recv fails when a signal that has no handler interrupts it (a     *)
(* stopped process that is continued): the process exits, its socket with  *)
(* it.  SIGINT and SIGTERM destroy the socket and end the process.         *)
(***************************************************************************)
zsock_recv_fails(c) ==
  /\ cpc[c] = "receive_msg"
  /\ GoesTo(c, "exited")
  /\ DestroySub(c)
  /\ UNCHANGED shown

termination_handler(c) ==
  /\ cpc[c] = "receive_msg"
  /\ GoesTo(c, "exited")
  /\ DestroySub(c)
  /\ UNCHANGED shown

ClientStep(c) ==
  \/ init_communication(c) \/ init_signal_handling(c)
  \/ receive_msg(c)

ClientEnds(c) == zsock_recv_fails(c) \/ termination_handler(c)

=============================================================================

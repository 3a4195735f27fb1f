------------------------------- MODULE PubSub -------------------------------
(***************************************************************************)
(* What lies between zsock_send of the server and zsock_recv of a client:  *)
(* a ZMQ PUB socket and the SUB sockets connected to it.  The library is   *)
(* not part of the repository; this is its behaviour as the two programs   *)
(* set it up, with the defaults of czmq.                                   *)
(*                                                                         *)
(* A SUB socket connects in the background and for ever.  The publisher    *)
(* knows of it once its subscription has arrived; what is sent before is   *)
(* not for it.  Each connection has a queue at the publisher.  A message   *)
(* that finds it full is dropped for that subscriber; libzmq then drops    *)
(* until half of the queue is read, here it drops while the queue is full. *)
(* Destroying the PUB socket throws away what is queued (linger 0).        *)
(* Messages are neither reordered nor duplicated, and a message arrives    *)
(* whole or not at all.                                                    *)
(***************************************************************************)
EXTENDS Naturals, Sequences

CONSTANTS
  Client,  \* the clients
  HWM      \* high-water mark of a queue

ASSUME HWMAssumption == HWM \in Nat \ {0}

VARIABLES
  link,   \* a client's SUB socket: "none", "connecting" or "subscribed"
  pipe,   \* the publisher's queue for each client
  inbox   \* what has left the publisher's process and was not received

transport == <<link, pipe, inbox>>

PubSubInit ==
  /\ link = [c \in Client |-> "none"]
  /\ pipe = [c \in Client |-> << >>]
  /\ inbox = [c \in Client |-> << >>]

zsock_new_sub(c) ==
  /\ link' = [link EXCEPT ![c] = "connecting"]
  /\ UNCHANGED <<pipe, inbox>>

Subscribe(c) ==
  /\ link[c] = "connecting"
  /\ link' = [link EXCEPT ![c] = "subscribed"]
  /\ UNCHANGED <<pipe, inbox>>

(***************************************************************************)
(* A message sent on the PUB socket, and the clients that will not get it  *)
(* though they have subscribed.                                            *)
(***************************************************************************)
Reaches(c) == link[c] = "subscribed" /\ Len(pipe[c]) < HWM

Overflows(c) == link[c] = "subscribed" /\ ~Reaches(c)

Publish(msg) ==
  /\ pipe' = [c \in Client |-> IF Reaches(c) THEN Append(pipe[c], msg)
                                             ELSE pipe[c]]
  /\ UNCHANGED <<link, inbox>>

(***************************************************************************)
(* The oldest message of a queue reaches the subscriber's process.         *)
(***************************************************************************)
Transmit(c) ==
  /\ pipe[c] # << >>
  /\ Len(inbox[c]) < HWM
  /\ inbox' = [inbox EXCEPT ![c] = Append(@, Head(pipe[c]))]
  /\ pipe' = [pipe EXCEPT ![c] = Tail(@)]
  /\ UNCHANGED link

DestroyPub ==
  /\ link' = [c \in Client |-> IF link[c] = "subscribed" THEN "connecting"
                                                         ELSE link[c]]
  /\ pipe' = [c \in Client |-> << >>]
  /\ UNCHANGED inbox

DestroySub(c) ==
  /\ link' = [link EXCEPT ![c] = "none"]
  /\ pipe' = [pipe EXCEPT ![c] = << >>]
  /\ inbox' = [inbox EXCEPT ![c] = << >>]

=============================================================================

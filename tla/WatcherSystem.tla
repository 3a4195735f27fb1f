--------------------------- MODULE WatcherSystem ---------------------------
(***************************************************************************)
(* The whole of json_watcher_c but the file: a server (module ServerMain)  *)
(* that may end and be started again, the PUB/SUB transport, and clients.  *)
(*                                                                         *)
(* The server and the clients share nothing but messages.  A server's step *)
(* that hands a message to zsock_send is joined with the publishing of it, *)
(* a step that destroys its socket with the loss of what was queued there. *)
(***************************************************************************)
EXTENDS ServerMain, PubSub

CONSTANT
  MaxRestarts  \* bound: how often the server is started again

VARIABLES
  cpc, shown,  \* of the clients, see module Client
  restarts,    \* how often the server was started again
  heard        \* history: for each client the SSIDs this server announced as
               \* new or removed since, with no message about them dropped

Clients == INSTANCE Client

clients == <<cpc, shown>>

systemVars == <<vars, restarts, transport, clients, heard>>

SystemInit ==
  /\ Init
  /\ restarts = 0
  /\ PubSubInit
  /\ Clients!ClientInit
  /\ heard = [c \in Client |-> {}]

(***************************************************************************)
(* A step of the server, and what becomes of it on the wire.               *)
(***************************************************************************)
HeardAfter(c, m) ==
  CASE Overflows(c)                             -> heard[c] \ {m.ssid}
    [] Reaches(c) /\ m.id # "CHANGED_SSID"      -> heard[c] \cup {m.ssid}
    [] OTHER                                    -> heard[c]

OnTheWire ==
  \/ /\ Len(batch') > Len(batch)
     /\ Publish(sent')
     /\ heard' = [c \in Client |-> HeardAfter(c, sent')]
  \/ /\ Len(batch') <= Len(batch)
     /\ IF pub_socket /\ ~pub_socket' THEN DestroyPub ELSE UNCHANGED transport
     /\ UNCHANGED heard

ServerRuns == ServerStep /\ OnTheWire /\ UNCHANGED <<restarts, clients>>

ServerIsCalled ==
  /\ FileEvent \/ termination_handler
  /\ OnTheWire
  /\ UNCHANGED <<restarts, clients>>

(***************************************************************************)
(* The server is started again, by hand: a new process that parses the     *)
(* file as it is now and announces nothing.                                *)
(***************************************************************************)
Restart ==
  /\ exited
  /\ restarts < MaxRestarts
  /\ restarts' = restarts + 1
  /\ pc' = "init_data" /\ exited' = FALSE /\ pub_socket' = FALSE
  /\ current' = << >> /\ new_map' = << >> /\ i' = 1
  /\ sent' = NoMsg /\ batch' = << >>
  /\ view' = [s \in Ssid |-> Absent]
  /\ heard' = [c \in Client |-> {}]
  /\ UNCHANGED <<transport, clients>>

Arrive(c) ==
  /\ \/ pub_socket /\ Subscribe(c)
     \/ Transmit(c)
  /\ UNCHANGED <<vars, restarts, clients, heard>>

ClientRuns(c) == Clients!ClientStep(c) /\ UNCHANGED <<vars, restarts, heard>>

ClientStops(c) == Clients!ClientEnds(c) /\ UNCHANGED <<vars, restarts, heard>>

SystemNext ==
  \/ ServerRuns
  \/ ServerIsCalled
  \/ Restart
  \/ \E c \in Client : Arrive(c) \/ ClientRuns(c) \/ ClientStops(c)

(***************************************************************************)
(* The processes are scheduled and the network delivers.  Nothing makes    *)
(* the file change, signals come, or anybody restart a server.             *)
(***************************************************************************)
SystemSpec ==
  /\ SystemInit /\ [][SystemNext]_systemVars
  /\ WF_systemVars(ServerRuns)
  /\ \A c \in Client : WF_systemVars(Arrive(c)) /\ WF_systemVars(ClientRuns(c))

-----------------------------------------------------------------------------
(***************************************************************************)
(* The list a client will show when all that is under way to it has        *)
(* arrived, and whether nothing is.                                        *)
(***************************************************************************)
UnderWay(c) == inbox[c] \o pipe[c]

AfterAll(list, msgs) ==
  LET after[k \in 0..Len(msgs)] == IF k = 0 THEN list
                                   ELSE Applied(after[k - 1], msgs[k])
  IN  after[Len(msgs)]

WillShow(c) == AfterAll(shown[c], UnderWay(c))

Drained(c) == UnderWay(c) = << >>

(***************************************************************************)
(* Of every access point that the running server has announced to a client *)
(* as new or removed, the client will show what the server has announced   *)
(* last, however late it joined, however many messages about others its    *)
(* queue has dropped, and whatever it showed of an earlier server.         *)
(***************************************************************************)
HeardIsRight ==
  \A c \in Client : link[c] = "subscribed" =>
    \A s \in heard[c] : AgreeOn(WillShow(c), Announced, s)

(***************************************************************************)
(* No client is ended by a message: the assertions of message_printer.c    *)
(* hold of whatever arrives, from whichever server.                        *)
(***************************************************************************)
NoClientAborts == \A c \in Client : cpc[c] # "aborted"

(***************************************************************************)
(* When the file rests and a client lives, the client comes to show every  *)
(* access point announced to it as the server's current map has it.        *)
(***************************************************************************)
Connected(c) == link[c] = "subscribed" /\ cpc[c] = "receive_msg"

RestIsShown ==
  \A c \in Client :
    <>[](pc = "monitor" /\ ~exited /\ Connected(c))
      => <>[](\A s \in heard[c] :
                AgreeOn(shown[c], ListOf(current), s))

(***************************************************************************)
(* server_main.c line 79, "notify about all ssid being removed": once the  *)
(* server has announced all removals and ended, and a client has read all  *)
(* that came, it shows none of the access points announced to it.          *)
(***************************************************************************)
RemovalsAreNotified ==
  pc = "return" /\ (\A s \in Ssid : view[s] = Absent)
    => \A c \in Client : cpc[c] = "receive_msg" /\ Drained(c)
         => \A s \in heard[c] : shown[c][s] = Absent

=============================================================================

------------------------------ MODULE Lifecycle ------------------------------
(***************************************************************************)
(* The life of one of the two programs, server or client, as signals see   *)
(* it: start-up, the loop it works in, the way out, and termination_handler*)
(* interrupting any of them.  The two mains differ in their first and last *)
(* steps only.                                                             *)
(*                                                                         *)
(* A signal is sent, stays pending, and is delivered when it is not        *)
(* blocked.  sigaction is called with an empty mask and no flags, so a     *)
(* handler blocks its own signal and not the other one: two activations    *)
(* can be on the stack, over main.  Only the innermost one runs.           *)
(*                                                                         *)
(* External here: the default action of a signal; czmq, whose first socket *)
(* installs handlers that only set a flag, and whose zsock_destroy asserts *)
(* that the socket is one before it marks, frees and forgets it; and the   *)
(* allocator, which holds a lock at times that it cannot take twice.       *)
(***************************************************************************)
EXTENDS Naturals, Sequences

Signal == {"SIGINT", "SIGTERM"}

VARIABLES
  program,      \* which of the two mains runs, it does not change
  pc,           \* where main stands
  allocating,   \* main is inside the allocator and holds its lock
  disposition,  \* what the delivery of each signal does
  pending,      \* the signals sent and not delivered
  frames,       \* the activations of termination_handler, the innermost last
  socket,       \* what the socket pointer refers to: "none" is NULL
  outcome       \* "running", or how the process ended

vars == <<program, pc, allocating, disposition, pending, frames, socket, outcome>>

Init ==
  /\ program \in {"server", "client"}
  /\ pc = IF program = "server" THEN "init_data" ELSE "zsys_init"
  /\ allocating = FALSE
  /\ disposition = [s \in Signal |-> "default"]
  /\ pending = {}
  /\ frames = << >>
  /\ socket = "none"
  /\ outcome = "running"

(***************************************************************************)
(* The innermost activation, or main when there is none, is at a place,    *)
(* and goes to another.                                                    *)
(***************************************************************************)
Running == outcome = "running"

Here == IF frames = << >> THEN pc ELSE frames[Len(frames)].at

Main(place) == Running /\ frames = << >> /\ pc = place

GoTo(place) ==
  IF frames = << >>
    THEN pc' = place /\ UNCHANGED frames
    ELSE frames' = [frames EXCEPT ![Len(frames)].at = place] /\ UNCHANGED pc

Ends(how) == outcome' = how

-----------------------------------------------------------------------------
(***************************************************************************)
(* Start-up.  The server parses its file first.  zsock_new installs czmq's *)
(* handlers and then makes the socket; either main exits on a failure.     *)
(***************************************************************************)
init_data ==
  /\ Main("init_data")
  /\ \/ pc' = "zsys_init" /\ UNCHANGED outcome
     \/ Ends("failure") /\ UNCHANGED pc
  /\ UNCHANGED <<program, allocating, disposition, pending, frames, socket>>

zsys_init ==
  /\ Main("zsys_init")
  /\ disposition' = [s \in Signal |-> "czmq"]
  /\ pc' = "zsock_new"
  /\ UNCHANGED <<program, allocating, pending, frames, socket, outcome>>

zsock_new ==
  /\ Main("zsock_new")
  /\ \/ socket' = "open" /\ pc' = "SIGINT" /\ UNCHANGED outcome
     \/ Ends("failure") /\ UNCHANGED <<socket, pc>>
  /\ UNCHANGED <<program, allocating, disposition, pending, frames>>

(***************************************************************************)
(* init_signal_handling: two calls, the place names the signal of the next.*)
(* A faulty variant, not used, sets the first one twice.                   *)
(***************************************************************************)
SetsOneTwice(s) ==
  /\ Main(s)
  /\ disposition' = [disposition EXCEPT !["SIGINT"] = "termination_handler"]
  /\ pc' = IF s = "SIGINT" THEN "SIGTERM" ELSE "loop"
  /\ UNCHANGED <<program, allocating, pending, frames, socket, outcome>>

sigaction(s) ==
  /\ Main(s)
  /\ disposition' = [disposition EXCEPT ![s] = "termination_handler"]
  /\ pc' = IF s = "SIGINT" THEN "SIGTERM" ELSE "loop"
  /\ UNCHANGED <<program, allocating, pending, frames, socket, outcome>>

(***************************************************************************)
(* The loop: the callbacks of monitor_file, or receive_msg for ever.  Both *)
(* allocate and free.  The server's ends when monitor_file returns, the    *)
(* client's process when a message cannot be received.                     *)
(***************************************************************************)
EnterAllocator ==
  /\ Main("loop") /\ ~allocating
  /\ allocating' = TRUE
  /\ UNCHANGED <<program, pc, disposition, pending, frames, socket, outcome>>

LeaveAllocator ==
  /\ Main("loop") /\ allocating
  /\ allocating' = FALSE
  /\ UNCHANGED <<program, pc, disposition, pending, frames, socket, outcome>>

MonitorReturns ==
  /\ program = "server"
  /\ Main("loop") /\ ~allocating
  /\ pc' = "zsock_destroy"
  /\ UNCHANGED <<program, allocating, disposition, pending, frames, socket, outcome>>

ReceiveFails ==
  /\ program = "client"
  /\ Main("loop") /\ ~allocating
  /\ Ends("failure")
  /\ UNCHANGED <<program, pc, allocating, disposition, pending, frames, socket>>

-----------------------------------------------------------------------------
(***************************************************************************)
(* cleanup_communication, by main on its way out or by a handler.  A NULL  *)
(* pointer is let pass; a socket that somebody is already destroying fails *)
(* czmq's assertion.  Freeing may need the allocator's lock, or be served  *)
(* from the cache of the thread.                                           *)
(***************************************************************************)
AfterDestroy == IF frames = << >> THEN "cleanup_data" ELSE "_Exit"

zsock_destroy ==
  /\ Running
  /\ Here = "zsock_destroy"
  /\ \/ /\ socket = "none"
        /\ GoTo(AfterDestroy)
        /\ UNCHANGED <<socket, outcome>>
     \/ /\ socket = "open"
        /\ socket' = "closing"
        /\ \E how \in {"free", "free_locked"} : GoTo(how)
        /\ UNCHANGED outcome
     \/ /\ socket = "closing"
        /\ Ends("aborted")
        /\ UNCHANGED <<pc, frames, socket>>
  /\ UNCHANGED <<program, allocating, disposition, pending>>

(***************************************************************************)
(* A faulty variant of the next definition, not used: the pointer is not   *)
(* cleared, as by a destroy that is given a copy of it.                    *)
(***************************************************************************)
PointerIsKept ==
  /\ Running
  /\ \/ Here = "free"
     \/ Here = "free_locked" /\ ~allocating
  /\ GoTo(AfterDestroy)
  /\ UNCHANGED <<program, allocating, disposition, pending, socket, outcome>>

free ==
  /\ Running
  /\ \/ Here = "free"
     \/ Here = "free_locked" /\ ~allocating
  /\ socket' = "none"
  /\ GoTo(AfterDestroy)
  /\ UNCHANGED <<program, allocating, disposition, pending, outcome>>

cleanup_data ==
  /\ Main("cleanup_data")
  /\ Ends("success")
  /\ UNCHANGED <<program, pc, allocating, disposition, pending, frames, socket>>

(***************************************************************************)
(* The end of termination_handler.  A faulty variant, not used: the        *)
(* handler returns to what it interrupted.                                 *)
(***************************************************************************)
HandlerReturns ==
  /\ Running /\ frames # << >> /\ Here = "_Exit"
  /\ frames' = SubSeq(frames, 1, Len(frames) - 1)
  /\ UNCHANGED <<program, pc, allocating, disposition, pending, socket, outcome>>

_Exit ==
  /\ Running /\ frames # << >> /\ Here = "_Exit"
  /\ Ends("success")
  /\ UNCHANGED <<program, pc, allocating, disposition, pending, frames, socket>>

-----------------------------------------------------------------------------
(***************************************************************************)
(* A signal is sent by the user or another process, and delivered.         *)
(***************************************************************************)
kill(s) ==
  /\ Running /\ s \notin pending
  /\ pending' = pending \cup {s}
  /\ UNCHANGED <<program, pc, allocating, disposition, frames, socket, outcome>>

Blocked(s) == \E k \in DOMAIN frames : frames[k].signal = s

(***************************************************************************)
(* Faulty variants of the next definition, not used: the handler does not  *)
(* block its own signal; it does not destroy the socket.                   *)
(***************************************************************************)
Delivered(s, start) ==
  /\ pending' = pending \ {s}
  /\ \/ /\ disposition[s] = "default"
        /\ Ends("killed")
        /\ UNCHANGED frames
     \/ /\ disposition[s] = "czmq"
        /\ UNCHANGED <<frames, outcome>>
     \/ /\ disposition[s] = "termination_handler"
        /\ frames' = Append(frames, [signal |-> s, at |-> start])
        /\ UNCHANGED outcome
  /\ UNCHANGED <<program, pc, allocating, disposition, socket>>

NothingIsBlocked(s) ==
  /\ Running /\ s \in pending
  /\ Len(frames) < 3
  /\ Delivered(s, "zsock_destroy")

ExitsAtOnce(s) ==
  /\ Running /\ s \in pending /\ ~Blocked(s)
  /\ Delivered(s, "_Exit")

Deliver(s) ==
  /\ Running /\ s \in pending /\ ~Blocked(s)
  /\ Delivered(s, "zsock_destroy")

Startup == init_data \/ zsys_init \/ zsock_new \/ \E s \in Signal : sigaction(s)

Loop == EnterAllocator \/ LeaveAllocator \/ MonitorReturns \/ ReceiveFails

WayOut == zsock_destroy \/ free \/ cleanup_data \/ _Exit

Next == Startup \/ Loop \/ WayOut \/ \E s \in Signal : kill(s) \/ Deliver(s)

(***************************************************************************)
(* The process is scheduled and the kernel delivers.  Nothing makes the    *)
(* loop end, or a signal be sent.                                          *)
(***************************************************************************)
Fairness ==
  /\ WF_vars(Startup)
  /\ WF_vars(LeaveAllocator)
  /\ WF_vars(WayOut)
  /\ \A s \in Signal : WF_vars(Deliver(s))

Spec == Init /\ [][Next]_vars /\ Fairness

-----------------------------------------------------------------------------
MainPlace == {"init_data", "zsys_init", "zsock_new", "SIGINT", "SIGTERM",
              "loop", "zsock_destroy", "free", "free_locked", "cleanup_data"}

HandlerPlace == {"zsock_destroy", "free", "free_locked", "_Exit"}

TypeOK ==
  /\ program \in {"server", "client"}
  /\ pc \in MainPlace
  /\ allocating \in BOOLEAN
  /\ disposition \in [Signal -> {"default", "czmq", "termination_handler"}]
  /\ pending \subseteq Signal
  /\ frames \in Seq([signal : Signal, at : HandlerPlace])
  /\ \A j, k \in DOMAIN frames : frames[j].signal = frames[k].signal => j = k
  /\ socket \in {"none", "open", "closing"}
  /\ outcome \in {"running", "success", "failure", "killed", "aborted"}

(***************************************************************************)
(* Whenever main itself runs, from the moment it has the socket to the     *)
(* moment it starts to destroy it, the socket is there: no signal, in      *)
(* whatever order and however nested, leaves main running with a socket    *)
(* its handler destroyed (the assert(pub_socket) of the send functions,    *)
(* assert(sub_socket) of receive_msg).                                     *)
(***************************************************************************)
SocketInUseIsOpen ==
  Running /\ frames = << >> /\ pc \in {"SIGINT", "SIGTERM", "loop"}
    => socket = "open"

(***************************************************************************)
(* A process that ends with EXIT_SUCCESS has destroyed its socket, by main *)
(* or by a handler, entirely: no activation leaves while one below it is   *)
(* half-way through.                                                       *)
(***************************************************************************)
SuccessMeansDestroyed == outcome = "success" => socket = "none"

(***************************************************************************)
(* czmq's assertion can fail only when one activation interrupts another   *)
(* (or main's own clean-up) inside zsock_destroy: a single signal that     *)
(* finds main in its loop never aborts the process.                        *)
(***************************************************************************)
Destroying(place) == place \in {"free", "free_locked"}

AbortOnlyNested ==
  outcome = "aborted"
    => \/ frames # << >> /\ Destroying(pc)
       \/ \E k \in DOMAIN frames : k < Len(frames) /\ Destroying(frames[k].at)

(***************************************************************************)
(* A signal is swallowed only while czmq's handler is installed: after     *)
(* zsock_new has begun and before sigaction was called for it.  After that *)
(* a delivered signal has a handler running.                               *)
(***************************************************************************)
OnlyStartupSwallows ==
  [][\A s \in Signal :
       /\ s \in pending /\ s \notin pending'
       /\ frames' = frames /\ outcome' = "running"
       => \/ pc \in {"zsock_new", "SIGINT"}
          \/ pc = "SIGTERM" /\ s = "SIGTERM"]_vars

(***************************************************************************)
(* A signal sent to a process in its loop ends it, except that the handler *)
(* waits for ever when it interrupted main inside the allocator and needs  *)
(* the lock to free the socket.                                            *)
(***************************************************************************)
Stuck == allocating /\ frames # << >> /\ Here = "free_locked"

SignalEndsProcess ==
  \A s \in Signal : (pc = "loop" /\ s \in pending) ~> (~Running \/ Stuck)

=============================================================================

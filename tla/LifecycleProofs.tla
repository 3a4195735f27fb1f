--------------------------- MODULE LifecycleProofs ---------------------------
(***************************************************************************)
(* Theorems about Lifecycle: whatever signals come, in whatever order.     *)
(***************************************************************************)
EXTENDS Lifecycle, TLAPS

Frame == [signal : Signal, at : HandlerPlace]

(***************************************************************************)
(* What the invariants rest on.  Somebody who has finished with the socket *)
(* finished it, and a socket half-way through has somebody at it.  czmq's  *)
(* handler is installed at start-up only.                                  *)
(***************************************************************************)
Finished == pc = "cleanup_data" \/ \E k \in DOMAIN frames : frames[k].at = "_Exit"

AtIt == Destroying(pc) \/ \E k \in DOMAIN frames : Destroying(frames[k].at)

Nested ==
  \/ frames # << >> /\ Destroying(pc)
  \/ \E k \in DOMAIN frames : k < Len(frames) /\ Destroying(frames[k].at)

SocketInv ==
  /\ Finished => socket = "none"
  /\ socket = "closing" => AtIt

DispositionInv ==
  \A s \in Signal :
    disposition[s] = "czmq" => \/ pc \in {"zsock_new", "SIGINT"}
                               \/ pc = "SIGTERM" /\ s = "SIGTERM"

IInv ==
  /\ TypeOK /\ SocketInv /\ DispositionInv
  /\ SocketInUseIsOpen /\ SuccessMeansDestroyed /\ AbortOnlyNested

-----------------------------------------------------------------------------
(* Activations.                                                            *)

LEMMA GoToMoves ==
  ASSUME frames \in Seq(Frame), NEW place \in HandlerPlace, GoTo(place),
         frames # << >>
  PROVE  /\ pc' = pc
         /\ frames' \in Seq(Frame)
         /\ DOMAIN frames' = DOMAIN frames
         /\ \A k \in DOMAIN frames : frames'[k].signal = frames[k].signal
         /\ \A k \in DOMAIN frames : k # Len(frames) => frames'[k] = frames[k]
         /\ Len(frames) \in DOMAIN frames
         /\ frames'[Len(frames)].at = place
<1>1. /\ pc' = pc
      /\ frames' = [frames EXCEPT ![Len(frames)].at = place]
  BY DEF GoTo
<1>2. /\ Len(frames) \in Nat \ {0}
      /\ DOMAIN frames = 1..Len(frames)
      /\ \A k \in 1..Len(frames) : frames[k] \in Frame
  OBVIOUS
<1>3. [frames[Len(frames)] EXCEPT !.at = place] \in Frame
  BY <1>2 DEF Frame
<1>4. /\ frames' = [k \in 1..Len(frames) |->
                      IF k = Len(frames)
                        THEN [frames[Len(frames)] EXCEPT !.at = place]
                        ELSE frames[k]]
  BY <1>1, <1>2
<1>5. frames' \in [1..Len(frames) -> Frame]
  BY <1>2, <1>3, <1>4
<1>6. frames' \in Seq(Frame)
  BY <1>2, <1>5
<1>7. /\ DOMAIN frames' = DOMAIN frames
      /\ \A k \in DOMAIN frames : k # Len(frames) => frames'[k] = frames[k]
  BY <1>2, <1>4
<1>8. /\ frames'[Len(frames)].at = place
      /\ frames'[Len(frames)].signal = frames[Len(frames)].signal
  BY <1>2, <1>4 DEF Frame
<1>9. QED
  BY <1>1, <1>2, <1>6, <1>7, <1>8

LEMMA PushedFrame ==
  ASSUME frames \in Seq(Frame), NEW f \in Frame, frames' = Append(frames, f)
  PROVE  /\ frames' \in Seq(Frame)
         /\ Len(frames') = Len(frames) + 1
         /\ \A k \in DOMAIN frames : k \in DOMAIN frames' /\ frames'[k] = frames[k]
         /\ frames'[Len(frames')] = f
         /\ \A k \in DOMAIN frames' : k \in DOMAIN frames \/ k = Len(frames')
OBVIOUS

-----------------------------------------------------------------------------
LEMMA InitIInv == Init => IInv
<1> SUFFICES ASSUME Init PROVE IInv
  OBVIOUS
<1>1. frames = << >> /\ DOMAIN frames = {} /\ pc \in {"init_data", "zsys_init"}
  BY DEF Init
<1>2. TypeOK
  <2>1. disposition \in [Signal -> {"default", "czmq", "termination_handler"}]
    BY DEF Init
  <2>2. frames \in Seq(Frame) /\ DOMAIN frames = {}
    BY <1>1
  <2>3. QED
    BY <1>1, <2>1, <2>2 DEF Init, TypeOK, MainPlace, Frame
<1>3. SocketInv /\ DispositionInv
  BY <1>1 DEF Init, SocketInv, Finished, DispositionInv
<1>4. QED
  BY <1>1, <1>2, <1>3 DEF Init, IInv, SocketInUseIsOpen,
       SuccessMeansDestroyed, AbortOnlyNested

LEMMA StartupKeeps == IInv /\ Startup => IInv'
<1> SUFFICES ASSUME IInv, Startup PROVE IInv'
  OBVIOUS
<1>1. /\ Running /\ frames = << >> /\ frames' = << >>
      /\ DOMAIN frames = {} /\ DOMAIN frames' = {}
      /\ pc \in {"init_data", "zsys_init", "zsock_new", "SIGINT", "SIGTERM"}
      /\ pc' \in {"init_data", "zsys_init", "zsock_new", "SIGINT", "SIGTERM", "loop"}
      /\ outcome' \in {"running", "failure"}
  BY DEF Startup, init_data, zsys_init, zsock_new, sigaction, Main, Ends,
         Running, Signal
<1>2. TypeOK'
  <2>1. disposition' \in [Signal -> {"default", "czmq", "termination_handler"}]
    BY DEF IInv, TypeOK, Startup, init_data, zsys_init, zsock_new, sigaction
  <2>2. frames' \in Seq(Frame)
    BY <1>1
  <2>3. /\ program' = program /\ allocating' = allocating /\ pending' = pending
        /\ socket' \in {"none", "open", "closing"}
    BY DEF IInv, TypeOK, Startup, init_data, zsys_init, zsock_new, sigaction
  <2>4. pc' \in MainPlace
    BY <1>1 DEF MainPlace
  <2>5. QED
    BY <1>1, <2>1, <2>2, <2>3, <2>4 DEF IInv, TypeOK, Frame
<1>3. socket' \in {"none", "open"}
  BY <1>1 DEF IInv, TypeOK, SocketInv, AtIt, Destroying, Startup, init_data,
              zsys_init, zsock_new, sigaction
<1>4. SocketInv' /\ SuccessMeansDestroyed' /\ AbortOnlyNested'
  BY <1>1, <1>3 DEF SocketInv, Finished, SuccessMeansDestroyed, AbortOnlyNested
<1>5. DispositionInv'
  BY <1>1 DEF IInv, TypeOK, DispositionInv, Startup, init_data, zsys_init,
              zsock_new, sigaction, Main, Signal
<1>6. SocketInUseIsOpen'
  BY <1>1 DEF IInv, SocketInUseIsOpen, Startup, init_data, zsys_init,
              zsock_new, sigaction, Main, Running, Ends, Signal
<1>7. QED
  BY <1>2, <1>4, <1>5, <1>6 DEF IInv

LEMMA LoopKeeps == IInv /\ Loop => IInv'
<1> SUFFICES ASSUME IInv, Loop PROVE IInv'
  OBVIOUS
<1>1. /\ Running /\ frames = << >> /\ frames' = << >>
      /\ DOMAIN frames' = {}
      /\ pc = "loop" /\ pc' \in {"loop", "zsock_destroy"}
      /\ outcome' \in {"running", "failure"}
      /\ socket = "open" /\ socket' = "open"
      /\ disposition' = disposition
  BY DEF IInv, SocketInUseIsOpen, Loop, EnterAllocator, LeaveAllocator,
         MonitorReturns, ReceiveFails, Main, Ends, Running
<1>2. TypeOK'
  BY <1>1 DEF IInv, TypeOK, MainPlace, Loop, EnterAllocator, LeaveAllocator,
              MonitorReturns, ReceiveFails
<1>3. QED
  BY <1>1, <1>2 DEF IInv, SocketInv, Finished, DispositionInv,
       SocketInUseIsOpen, SuccessMeansDestroyed, AbortOnlyNested

(***************************************************************************)
(* A step of cleanup_communication that goes on: the socket is none, or    *)
(* somebody begins to destroy an open one.                                 *)
(***************************************************************************)
LEMMA MoveKeeps ==
  ASSUME IInv, Running,
         Here \in {"zsock_destroy", "free", "free_locked"},
         NEW place \in {"free", "free_locked", AfterDestroy}, GoTo(place),
         UNCHANGED <<program, allocating, disposition, pending, outcome>>,
         \/ socket' = "none"
         \/ socket = "open" /\ socket' = "closing" /\ Destroying(place)
  PROVE  IInv'
<1>1. /\ frames \in Seq(Frame) /\ pc \in MainPlace /\ outcome' = "running"
      /\ disposition' = disposition
  BY DEF IInv, TypeOK, Frame, Running
<1>2. CASE frames = << >>
  <2>1. /\ frames' = << >> /\ DOMAIN frames = {} /\ DOMAIN frames' = {}
        /\ pc \in {"zsock_destroy", "free", "free_locked"}
        /\ pc' = place /\ place \in {"free", "free_locked", "cleanup_data"}
    BY <1>2 DEF Here, GoTo, AfterDestroy
  <2>2. TypeOK'
    <3>1. frames' \in Seq([signal : Signal, at : HandlerPlace])
      BY <2>1
    <3>2. pc' \in MainPlace
      BY <2>1 DEF MainPlace
    <3>3. QED
      BY <2>1, <3>1, <3>2 DEF IInv, TypeOK
  <2>3. SocketInv'
    BY <2>1 DEF SocketInv, Finished, AtIt, Destroying
  <2>4. DispositionInv'
    BY <1>1, <2>1 DEF IInv, DispositionInv
  <2>5. QED
    BY <1>1, <2>1, <2>2, <2>3, <2>4 DEF IInv, SocketInUseIsOpen,
         SuccessMeansDestroyed, AbortOnlyNested
<1>3. CASE frames # << >>
  <2>1. place \in HandlerPlace /\ place \in {"free", "free_locked", "_Exit"}
    BY <1>3 DEF AfterDestroy, HandlerPlace
  <2>2. /\ pc' = pc
        /\ frames' \in Seq(Frame)
        /\ DOMAIN frames' = DOMAIN frames
        /\ \A k \in DOMAIN frames : frames'[k].signal = frames[k].signal
        /\ \A k \in DOMAIN frames : k # Len(frames) => frames'[k] = frames[k]
        /\ Len(frames) \in DOMAIN frames
        /\ frames'[Len(frames)].at = place
    BY <1>1, <1>3, <2>1, GoToMoves
  <2>3. frames' # << >>
    BY <2>2
  <2>4. TypeOK'
    <3>1. \A j, k \in DOMAIN frames' :
            frames'[j].signal = frames'[k].signal => j = k
      BY <2>2 DEF IInv, TypeOK
    <3>2. socket' \in {"none", "open", "closing"}
      OBVIOUS
    <3>3. QED
      BY <2>2, <3>1, <3>2 DEF IInv, TypeOK, Frame
  <2>5. SocketInv'
    <3>1. CASE socket' = "none"
      BY <3>1 DEF SocketInv
    <3>2. CASE socket = "open" /\ socket' = "closing" /\ Destroying(place)
      <4>1. ~Finished
        BY <3>2 DEF IInv, SocketInv
      <4>2. ~Finished'
        BY <2>2, <3>2, <4>1 DEF Finished, Destroying
      <4>3. AtIt'
        BY <2>2, <3>2 DEF AtIt
      <4>4. QED
        BY <4>2, <4>3 DEF SocketInv
    <3>3. QED
      BY <3>1, <3>2
  <2>6. DispositionInv'
    BY <1>1, <2>2 DEF IInv, DispositionInv
  <2>7. QED
    BY <1>1, <2>3, <2>4, <2>5, <2>6 DEF IInv, SocketInUseIsOpen,
         SuccessMeansDestroyed, AbortOnlyNested
<1>4. QED
  BY <1>2, <1>3

(***************************************************************************)
(* A step that only ends the process.                                      *)
(***************************************************************************)
LEMMA EndKeeps ==
  ASSUME IInv, NEW how \in {"success", "failure", "killed", "aborted"},
         outcome' = how,
         pending' \subseteq Signal,
         UNCHANGED <<program, pc, allocating, disposition, frames, socket>>,
         how = "success" => socket = "none",
         how = "aborted" => Nested
  PROVE  IInv'
<1>1. TypeOK'
  BY DEF IInv, TypeOK
<1>2. SocketInv' /\ DispositionInv'
  BY DEF IInv, SocketInv, Finished, AtIt, DispositionInv
<1>3. AbortOnlyNested'
  BY DEF AbortOnlyNested, Nested
<1>4. SocketInUseIsOpen' /\ SuccessMeansDestroyed'
  BY DEF SocketInUseIsOpen, SuccessMeansDestroyed, Running
<1>5. QED
  BY <1>1, <1>2, <1>3, <1>4 DEF IInv

LEMMA DestroyKeeps == IInv /\ zsock_destroy => IInv'
<1> SUFFICES ASSUME IInv, zsock_destroy PROVE IInv'
  OBVIOUS
<1>1. /\ Running /\ frames \in Seq(Frame) /\ Here = "zsock_destroy"
      /\ program' = program /\ allocating' = allocating
      /\ pending' = pending /\ disposition' = disposition
      /\ pending \subseteq Signal
  BY DEF IInv, TypeOK, Frame, zsock_destroy
<1>2. CASE socket = "none"
  <2>1. GoTo(AfterDestroy) /\ socket' = "none" /\ outcome' = outcome
    BY <1>2 DEF zsock_destroy
  <2>2. QED
    BY <1>1, <2>1, MoveKeeps
<1>3. CASE socket = "open"
  <2>1. /\ socket' = "closing" /\ outcome' = outcome
        /\ \E how \in {"free", "free_locked"} : GoTo(how)
    BY <1>3 DEF zsock_destroy
  <2>2. PICK how \in {"free", "free_locked"} : GoTo(how)
    BY <2>1
  <2>3. Destroying(how)
    BY DEF Destroying
  <2>4. QED
    BY <1>1, <1>3, <2>1, <2>2, <2>3, MoveKeeps
<1>4. CASE socket = "closing"
  <2>1. /\ outcome' = "aborted" /\ pc' = pc /\ frames' = frames
        /\ socket' = socket
    BY <1>4 DEF zsock_destroy, Ends
  <2>2. AtIt
    BY <1>4 DEF IInv, SocketInv
  <2>3. Nested
    <3>1. CASE Destroying(pc)
      BY <1>1, <3>1 DEF Here, Destroying, Nested
    <3>2. CASE \E k \in DOMAIN frames : Destroying(frames[k].at)
      <4>1. PICK k \in DOMAIN frames : Destroying(frames[k].at)
        BY <3>2
      <4>2. /\ DOMAIN frames = 1..Len(frames) /\ Len(frames) \in Nat
            /\ k \in Nat /\ k <= Len(frames) /\ frames # << >>
        BY <1>1, <4>1
      <4>3. k # Len(frames)
        BY <1>1, <4>1, <4>2 DEF Here, Destroying
      <4>4. k < Len(frames)
        BY <4>2, <4>3
      <4>5. QED
        BY <4>1, <4>4 DEF Nested
    <3>3. QED
      BY <2>2, <3>1, <3>2 DEF AtIt
  <2>4. QED
    BY <1>1, <2>1, <2>3, EndKeeps
<1>5. socket \in {"none", "open", "closing"}
  BY DEF IInv, TypeOK
<1>6. QED
  BY <1>2, <1>3, <1>4, <1>5

LEMMA WayOutKeeps == IInv /\ WayOut => IInv'
<1> SUFFICES ASSUME IInv, WayOut PROVE IInv'
  OBVIOUS
<1>1. pending \subseteq Signal
  BY DEF IInv, TypeOK
<1>2. CASE zsock_destroy
  BY <1>2, DestroyKeeps
<1>3. CASE free
  BY <1>3, MoveKeeps DEF free
<1>4. CASE cleanup_data
  <2>1. Finished
    BY <1>4 DEF cleanup_data, Main, Finished
  <2>2. socket = "none"
    BY <2>1 DEF IInv, SocketInv
  <2>3. QED
    BY <1>1, <1>4, <2>2, EndKeeps DEF cleanup_data, Ends
<1>5. CASE _Exit
  <2>1. frames \in Seq(Frame) /\ frames # << >> /\ frames[Len(frames)].at = "_Exit"
    BY <1>5 DEF IInv, TypeOK, Frame, _Exit, Here
  <2>2. Len(frames) \in DOMAIN frames
    BY <2>1
  <2>3. socket = "none"
    BY <2>1, <2>2 DEF Finished, IInv, SocketInv
  <2>4. QED
    BY <1>1, <1>5, <2>3, EndKeeps DEF _Exit, Ends
<1>6. QED
  BY <1>2, <1>3, <1>4, <1>5 DEF WayOut

LEMMA KillKeeps ==
  ASSUME IInv, NEW s \in Signal, kill(s)
  PROVE  IInv'
<1>1. TypeOK'
  BY DEF IInv, TypeOK, kill
<1>2. SocketInv' /\ DispositionInv'
  BY DEF IInv, kill, SocketInv, Finished, AtIt, DispositionInv
<1>3. QED
  BY <1>1, <1>2 DEF IInv, kill, Running, SocketInUseIsOpen,
       SuccessMeansDestroyed, AbortOnlyNested

LEMMA DeliverKeeps ==
  ASSUME IInv, NEW s \in Signal, Deliver(s)
  PROVE  IInv'
<1>1. /\ pending' \subseteq Signal
      /\ UNCHANGED <<program, pc, allocating, disposition, socket>>
      /\ outcome = "running" /\ frames \in Seq(Frame)
  BY DEF IInv, TypeOK, Frame, Deliver, Delivered, Running
<1>2. CASE frames' = frames /\ outcome' = "killed"
  BY <1>1, <1>2, EndKeeps
<1>3. CASE frames' = frames /\ outcome' = outcome
  <2>1. TypeOK'
    BY <1>1, <1>3 DEF IInv, TypeOK
  <2>2. SocketInv' /\ DispositionInv'
    BY <1>1, <1>3 DEF IInv, SocketInv, Finished, AtIt, DispositionInv
  <2>3. QED
    BY <1>1, <1>3, <2>1, <2>2 DEF IInv, Running, SocketInUseIsOpen,
         SuccessMeansDestroyed, AbortOnlyNested
<1>4. CASE /\ frames' = Append(frames, [signal |-> s, at |-> "zsock_destroy"])
           /\ outcome' = outcome
  <2> DEFINE f == [signal |-> s, at |-> "zsock_destroy"]
  <2>1. f \in Frame
    BY DEF Frame, HandlerPlace
  <2>2. /\ frames' \in Seq(Frame)
        /\ Len(frames') = Len(frames) + 1
        /\ \A k \in DOMAIN frames : k \in DOMAIN frames' /\ frames'[k] = frames[k]
        /\ frames'[Len(frames')] = f
        /\ \A k \in DOMAIN frames' : k \in DOMAIN frames \/ k = Len(frames')
    BY <1>1, <1>4, <2>1, PushedFrame
  <2>3. frames' # << >> /\ f.at = "zsock_destroy" /\ f.signal = s
    BY <1>1, <2>2
  <2>4. TypeOK'
    <3>1. \A k \in DOMAIN frames : frames[k].signal # s
      BY DEF Deliver, Blocked
    <3>2. \A j, k \in DOMAIN frames' :
            frames'[j].signal = frames'[k].signal => j = k
      BY <2>2, <2>3, <3>1 DEF IInv, TypeOK
    <3>3. QED
      BY <1>1, <1>4, <2>2, <3>2 DEF IInv, TypeOK, Frame
  <2>5. SocketInv'
    <3>1. Finished' => Finished
      BY <1>1, <2>2, <2>3 DEF Finished
    <3>2. AtIt => AtIt'
      BY <1>1, <2>2 DEF AtIt
    <3>3. QED
      BY <1>1, <3>1, <3>2 DEF IInv, SocketInv
  <2>6. DispositionInv'
    BY <1>1 DEF IInv, DispositionInv
  <2>7. QED
    BY <1>1, <1>4, <2>3, <2>4, <2>5, <2>6 DEF IInv, SocketInUseIsOpen,
         SuccessMeansDestroyed, AbortOnlyNested
<1>5. QED
  BY <1>2, <1>3, <1>4 DEF Deliver, Delivered, Ends

LEMMA StutterKeeps == IInv /\ UNCHANGED vars => IInv'
<1> SUFFICES ASSUME IInv, UNCHANGED vars PROVE IInv'
  OBVIOUS
<1>1. TypeOK'
  BY DEF IInv, TypeOK, vars
<1>2. SocketInv' /\ DispositionInv'
  BY DEF IInv, SocketInv, Finished, AtIt, DispositionInv, vars
<1>3. QED
  BY <1>1, <1>2 DEF IInv, vars, Running, SocketInUseIsOpen,
       SuccessMeansDestroyed, AbortOnlyNested

(***************************************************************************)
(* The invariant holds: every step of start-up, of the loop, of the way    *)
(* out and of the kernel keeps it.                                         *)
(***************************************************************************)
THEOREM Invariance == Spec => []IInv
<1>1. Init => IInv
  BY InitIInv
<1>2. IInv /\ [Next]_vars => IInv'
  <2> SUFFICES ASSUME IInv, [Next]_vars PROVE IInv'
    OBVIOUS
  <2>1. CASE Startup
    BY <2>1, StartupKeeps
  <2>2. CASE Loop
    BY <2>2, LoopKeeps
  <2>3. CASE WayOut
    BY <2>3, WayOutKeeps
  <2>4. CASE \E s \in Signal : kill(s) \/ Deliver(s)
    BY <2>4, KillKeeps, DeliverKeeps
  <2>5. CASE UNCHANGED vars
    BY <2>5, StutterKeeps
  <2>6. QED
    BY <2>1, <2>2, <2>3, <2>4, <2>5 DEF Next
<1>3. QED
  BY <1>1, <1>2, PTL DEF Spec

-----------------------------------------------------------------------------
(***************************************************************************)
(* Every variable has its type, and no signal has two activations of the   *)
(* handler.                                                                *)
(***************************************************************************)
THEOREM TypeCorrect == Spec => []TypeOK
<1>1. IInv => TypeOK
  BY DEF IInv
<1>2. QED
  BY <1>1, Invariance, PTL

(***************************************************************************)
(* Main never runs its loop with a socket a handler destroyed.             *)
(***************************************************************************)
THEOREM SocketThere == Spec => []SocketInUseIsOpen
<1>1. IInv => SocketInUseIsOpen
  BY DEF IInv
<1>2. QED
  BY <1>1, Invariance, PTL

(***************************************************************************)
(* A process that ends with EXIT_SUCCESS has destroyed its socket.         *)
(***************************************************************************)
THEOREM SuccessDestroyed == Spec => []SuccessMeansDestroyed
<1>1. IInv => SuccessMeansDestroyed
  BY DEF IInv
<1>2. QED
  BY <1>1, Invariance, PTL

(***************************************************************************)
(* czmq's assertion fails only in an activation that interrupted another   *)
(* one, or main, inside zsock_destroy.                                     *)
(***************************************************************************)
THEOREM AbortNested == Spec => []AbortOnlyNested
<1>1. IInv => AbortOnlyNested
  BY DEF IInv
<1>2. QED
  BY <1>1, Invariance, PTL

(***************************************************************************)
(* A delivered signal that neither runs the handler nor ends the process   *)
(* was delivered before sigaction was called for it.                       *)
(***************************************************************************)
THEOREM StartupSwallows == Spec => OnlyStartupSwallows
<1> DEFINE Swallowed(s) == /\ s \in pending /\ s \notin pending'
                           /\ frames' = frames /\ outcome' = "running"
           Early(s) == \/ pc \in {"zsock_new", "SIGINT"}
                       \/ pc = "SIGTERM" /\ s = "SIGTERM"
           Step == \A s \in Signal : Swallowed(s) => Early(s)
<1>1. IInv /\ [Next]_vars => [Step]_vars
  <2> SUFFICES ASSUME IInv, Next, NEW s \in Signal, Swallowed(s)
               PROVE  Early(s)
    BY DEF vars
  <2>1. ~(Startup \/ Loop \/ WayOut)
    BY DEF Startup, init_data, zsys_init, zsock_new, sigaction, Loop,
           EnterAllocator, LeaveAllocator, MonitorReturns, ReceiveFails,
           WayOut, zsock_destroy, free, cleanup_data, _Exit
  <2>2. PICK r \in Signal : kill(r) \/ Deliver(r)
    BY <2>1 DEF Next
  <2>3. Deliver(r) /\ r = s
    BY <2>2 DEF kill, Deliver, Delivered
  <2>4. disposition[s] = "czmq"
    <3>1. frames \in Seq(Frame)
      BY DEF IInv, TypeOK, Frame
    <3>2. frames # Append(frames, [signal |-> s, at |-> "zsock_destroy"])
      <4>1. Len(Append(frames, [signal |-> s, at |-> "zsock_destroy"]))
              = Len(frames) + 1 /\ Len(frames) \in Nat
        BY <3>1
      <4>2. QED
        BY <4>1
    <3>3. QED
      BY <2>3, <3>2 DEF Deliver, Delivered, Ends
  <2>5. QED
    BY <2>4 DEF IInv, DispositionInv
<1>2. QED
  BY <1>1, Invariance, PTL DEF Spec, OnlyStartupSwallows

=============================================================================

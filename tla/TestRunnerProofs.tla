-------------------------- MODULE TestRunnerProofs --------------------------
(***************************************************************************)
(* Theorems about TestRunner, for every tree of suites, every test and     *)
(* every command line: no result is lost on its way from what happened to  *)
(* a test to the counters of the runner, no child is left behind, a test   *)
(* that failed fatally does not come again, and a runner that has ended    *)
(* has run every combination of the parameters of the tests it selects.    *)
(***************************************************************************)
EXTENDS TestRunner, FiniteSetTheorems, WellFoundedInduction, TLAPS

Counters == {"successful", "skipped", "failed", "errored"}

(***************************************************************************)
(* A report tells what happened: the whole of it does, once the test is    *)
(* over.  Until then only successes have been counted.                     *)
(***************************************************************************)
Tells(rep, happened) ==
  \/ /\ happened \in Well
     /\ rep.successful > 0 /\ rep.skipped = 0
     /\ rep.failed = 0 /\ rep.errored = 0
  \/ /\ happened = "skipped"
     /\ rep.skipped > 0 /\ rep.failed = 0 /\ rep.errored = 0
  \/ happened \in Bad /\ (rep.failed > 0 \/ rep.errored > 0)
  \/ happened = "not run" /\ rep = Zero

Clean(rep) == rep.skipped = 0 /\ rep.failed = 0 /\ rep.errored = 0

Badly == {"killed", "exited with failure"}

(***************************************************************************)
(* What the runner may rely on while it reads: the child is in the test,   *)
(* or its report tells what happened, or something bad happened, and then  *)
(* its report stays incomplete or its end gives it away.                   *)
(***************************************************************************)
ReadingInv ==
  pc = "reading" =>
    /\ options.fork
    /\ received < ReportSize /\ received <= child.sent
    /\ \/ /\ child.state = "running" /\ child.sent = 0
          /\ truth = "nothing" /\ Clean(child.report)
       \/ child.state = "writing" /\ Tells(child.report, truth)
       \/ /\ child.state = "exited" /\ child.sent = ReportSize
          /\ Tells(child.report, truth)
       \/ child.state = "exited" /\ child.sent = 0 /\ truth = "bad"
       \/ child.state \in Badly /\ truth = "bad"

(***************************************************************************)
(* While it waits: it has the whole report, or something bad happened, and *)
(* then the report is incomplete or the end of the child gives it away.    *)
(***************************************************************************)
WaitingInv ==
  pc = "waiting" =>
    /\ options.fork
    /\ \/ truth = "bad" /\ received < ReportSize
       \/ /\ received = ReportSize
          /\ child.state \in {"writing", "exited"}
          /\ child.sent = ReportSize
          /\ report = child.report /\ Tells(report, truth)
       \/ child.state \in Badly /\ truth = "bad"

AfterInv ==
  /\ pc = "reaping" => options.fork /\ truth = "bad" /\ report.errored > 0
  /\ pc = "in place" => /\ ~options.fork /\ child.state = "running"
                        /\ truth = "nothing" /\ Clean(child.report)
  /\ pc = "print" => Tells(report, truth)

(***************************************************************************)
(* Outside these places there is no child, or one that was left.           *)
(***************************************************************************)
Gone == {"none", "left"}

ChildPlace ==
  pc \notin {"in place", "reading", "waiting", "reaping"} => child.state \in Gone

State == {"none", "running", "writing", "exited", "exited with failure",
          "killed", "left"}

Child == [state : State, iteration : Nat, report : Report,
          sent : 0..ReportSize]

Types ==
  /\ child \in Child /\ report \in Report /\ runner \in Report
  /\ received \in Nat
  /\ log \in Seq(ToSet(log))

RInv ==
  /\ Types /\ ChildPlace
  /\ ReadingInv /\ WaitingInv /\ AfterInv
  /\ VerdictsAreTrue

-----------------------------------------------------------------------------
(* Reports and the log.                                                    *)

LEMMA ZeroCounts == /\ DOMAIN Zero = Counters /\ Zero \in Report
                    /\ Zero.successful = 0 /\ Zero.skipped = 0
                    /\ Zero.failed = 0 /\ Zero.errored = 0
<1>1. DOMAIN Zero = Counters
  BY DEF Zero, Counters
<1>2. Report = [Counters -> Nat]
  BY <1>1 DEF Report
<1>3. Zero = [c \in Counters |-> 0]
  BY DEF Zero, Counters
<1>4. QED
  BY <1>1, <1>2, <1>3 DEF Counters

LEMMA ReportCounts ==
  ASSUME NEW r \in Report
  PROVE  /\ DOMAIN r = Counters
         /\ r.successful \in Nat /\ r.skipped \in Nat
         /\ r.failed \in Nat /\ r.errored \in Nat
         /\ \A c \in Counters : [r EXCEPT ![c] = @ + 1] \in Report
<1>1. r \in [Counters -> Nat]
  BY ZeroCounts DEF Report
<1>2. Report = [Counters -> Nat]
  BY ZeroCounts DEF Report
<1>3. QED
  BY <1>1, <1>2 DEF Counters

LEMMA ReadCounts ==
  ASSUME child.report \in Report, NEW n \in Nat
  PROVE  /\ ReadSoFar(n) \in Report
         /\ n = ReportSize => ReadSoFar(n) = child.report
<1>1. [child.report EXCEPT !.failed = 0, !.errored = 0] \in Report
  <2>1. child.report \in [Counters -> Nat]
    BY ZeroCounts DEF Report
  <2>2. QED
    BY <2>1, ZeroCounts DEF Report, Counters
<1>2. QED
  BY <1>1, ZeroCounts, ReportSizeAssumption DEF ReadSoFar

(***************************************************************************)
(* One more entry is counted once, where it belongs.                       *)
(***************************************************************************)
LEMMA OneMore ==
  ASSUME NEW n \in Nat, NEW Q \in SUBSET (1..(n + 1))
  PROVE  /\ Cardinality(Q \cap (1..n)) \in Nat
         /\ Cardinality(Q) = Cardinality(Q \cap (1..n))
                               + (IF n + 1 \in Q THEN 1 ELSE 0)
<1> DEFINE S == Q \cap (1..n)
<1>1. IsFiniteSet(1..n)
  BY FS_Interval
<1>2. S \subseteq 1..n
  OBVIOUS
<1>3. IsFiniteSet(S) /\ Cardinality(S) \in Nat
  BY <1>1, <1>2, FS_Subset, FS_CardinalityType
<1>4. n + 1 \notin S
  BY <1>2
<1> HIDE DEF S
<1>5. \A q : q \in Q <=> q \in S \/ (q = n + 1 /\ n + 1 \in Q)
  <2>1. \A q \in 1..(n + 1) : q \in 1..n \/ q = n + 1
    OBVIOUS
  <2>2. Q \subseteq 1..(n + 1)
    OBVIOUS
  <2>3. QED
    BY <2>1, <2>2 DEF S
<1>6. CASE n + 1 \in Q
  <2>1. Q = S \cup {n + 1}
    BY <1>5, <1>6
  <2>2. Cardinality(S \cup {n + 1}) = Cardinality(S) + 1
    BY <1>3, <1>4, FS_AddElement
  <2>3. QED
    BY <1>3, <1>6, <2>1, <2>2 DEF S
<1>7. CASE n + 1 \notin Q
  <2>1. Q = S
    BY <1>5, <1>7
  <2>2. QED
    BY <1>3, <1>7, <2>1 DEF S
<1>8. QED
  BY <1>6, <1>7 DEF S

Counted(entry, kinds, todo) ==
  IF entry.was \in kinds /\ (entry.test \in Todo) = todo THEN 1 ELSE 0

LEMMA Appended ==
  ASSUME log \in Seq(ToSet(log)), NEW entry, log' = Append(log, entry)
  PROVE  /\ log' \in Seq(ToSet(log'))
         /\ \A kinds, todo :
              /\ Times(kinds, todo) \in Nat
              /\ Times(kinds, todo)'
                   = Times(kinds, todo) + Counted(entry, kinds, todo)
<1> DEFINE n == Len(log)
<1>1. n \in Nat /\ DOMAIN log = 1..n
  OBVIOUS
<1>2. /\ Len(log') = n + 1 /\ DOMAIN log' = 1..(n + 1)
      /\ \A k \in 1..n : log'[k] = log[k]
      /\ log'[n + 1] = entry
  BY <1>1
<1>3. log' \in Seq(ToSet(log'))
  <2>1. log' \in Seq(ToSet(log) \cup {entry})
    OBVIOUS
  <2>2. \A k \in 1..Len(log') : log'[k] \in ToSet(log')
    BY <1>2 DEF ToSet
  <2>3. QED
    BY <2>1, <2>2
<1>4. ASSUME NEW kinds, NEW todo
      PROVE  /\ Times(kinds, todo) \in Nat
             /\ Times(kinds, todo)'
                  = Times(kinds, todo) + Counted(entry, kinds, todo)
  <2> DEFINE Q == {k \in 1..(n + 1) : /\ log'[k].was \in kinds
                                      /\ (log'[k].test \in Todo) = todo}
             S == Q \cap (1..n)
  <2>1. Times(kinds, todo) = Cardinality(S)
    <3>1. {k \in DOMAIN log : log[k].was \in kinds /\ (log[k].test \in Todo) = todo} = S
      BY <1>1, <1>2
    <3>2. QED
      BY <3>1 DEF Times
  <2>2. Times(kinds, todo)' = Cardinality(Q)
    BY <1>2 DEF Times
  <2>3. Counted(entry, kinds, todo) = IF n + 1 \in Q THEN 1 ELSE 0
    BY <1>1, <1>2 DEF Counted
  <2>4. Q \subseteq 1..(n + 1)
    OBVIOUS
  <2> HIDE DEF Q
  <2>5. /\ Cardinality(Q \cap (1..n)) \in Nat
        /\ Cardinality(Q) = Cardinality(Q \cap (1..n))
                              + (IF n + 1 \in Q THEN 1 ELSE 0)
    BY <1>1, <2>4, OneMore
  <2>6. QED
    BY <2>1, <2>2, <2>3, <2>5
<1>5. QED
  BY <1>3, <1>4

-----------------------------------------------------------------------------
(* Steps that leave the report and the log alone.                          *)

LEMMA NoChildFacts == NoChild \in Child /\ NoChild.state = "none"
BY ZeroCounts, ReportSizeAssumption DEF NoChild, Child, State

LEMMA InitRInv == Init => RInv
<1> SUFFICES ASSUME Init PROVE RInv
  OBVIOUS
<1>1. Types
  BY ZeroCounts, NoChildFacts, ReportSizeAssumption DEF Init, Types, ToSet
<1>2. ChildPlace /\ ReadingInv /\ WaitingInv /\ AfterInv
  BY NoChildFacts DEF Init, ChildPlace, Gone, ReadingInv, WaitingInv, AfterInv
<1>3. VerdictsAreTrue
  <2>1. \A kinds, todo : Times(kinds, todo) = 0
    BY FS_EmptySet DEF Init, Times
  <2>2. QED
    BY <2>1, ZeroCounts DEF Init, VerdictsAreTrue
<1>4. QED
  BY <1>1, <1>2, <1>3 DEF RInv

LEMMA CountsStand ==
  ASSUME VerdictsAreTrue, log' = log, runner' = runner
  PROVE  VerdictsAreTrue'
BY DEF VerdictsAreTrue, Times

LEMMA WalkKeeps ==
  ASSUME RInv, pc \in {"arguments", "suite", "next"},
         pc' \in {"suite", "start", "done", "crashed"},
         UNCHANGED <<options, child, report, received, runner, truth, log>>
  PROVE  RInv'
<1>1. child.state \in Gone
  BY DEF RInv, ChildPlace
<1>2. Types' /\ VerdictsAreTrue'
  BY CountsStand DEF RInv, Types
<1>3. ChildPlace' /\ ReadingInv' /\ WaitingInv' /\ AfterInv'
  BY <1>1 DEF ChildPlace, ReadingInv, WaitingInv, AfterInv
<1>4. QED
  BY <1>2, <1>3 DEF RInv

LEMMA StutterKeeps == RInv /\ UNCHANGED vars => RInv'
<1> SUFFICES ASSUME RInv, UNCHANGED vars PROVE RInv'
  OBVIOUS
<1>1. Types' /\ VerdictsAreTrue'
  BY CountsStand DEF RInv, Types, vars
<1>2. ChildPlace' /\ ReadingInv' /\ WaitingInv' /\ AfterInv'
  BY DEF RInv, ChildPlace, ReadingInv, WaitingInv, AfterInv, vars
<1>3. QED
  BY <1>1, <1>2 DEF RInv

(***************************************************************************)
(* The start of a combination.                                             *)
(***************************************************************************)
LEMMA BeginKeeps ==
  ASSUME RInv, BufferFails \/ PipeFails \/ ForkFails \/ fork \/ RunsInPlace
  PROVE  RInv'
<1> DEFINE started == [NoChild EXCEPT !.state = "running"]
           errored == [Zero EXCEPT !.errored = 1]
<1>1. /\ started \in Child /\ started.state = "running"
      /\ started.sent = 0 /\ started.report = Zero
  <2>1. NoChild \in Child
    BY NoChildFacts
  <2>2. started \in Child /\ started.state = "running"
    BY <2>1 DEF Child, State
  <2>3. started.sent = 0 /\ started.report = Zero
    BY DEF NoChild
  <2>4. QED
    BY <2>2, <2>3
<1>2. errored \in Report /\ errored.errored = 1
  <2>1. errored = [c \in Counters |-> IF c = "errored" THEN 1 ELSE 0]
    BY DEF Zero, Counters
  <2>2. QED
    BY <2>1, ZeroCounts DEF Report, Counters
<1> HIDE DEF started, errored
<1>3. options' = options /\ log' = log /\ runner' = runner /\ received' = 0
  BY DEF BufferFails, PipeFails, ForkFails, fork, RunsInPlace, Begin
<1>4. VerdictsAreTrue'
  BY <1>3, CountsStand DEF RInv
<1>5. CASE BufferFails \/ PipeFails
  <2>1. pc' = "print" /\ child' = NoChild /\ report' = Zero /\ truth' = "not run"
    BY <1>5 DEF BufferFails, PipeFails, Begin
  <2>2. Types'
    BY <1>3, <2>1, ZeroCounts, NoChildFacts, ReportSizeAssumption DEF RInv, Types
  <2>3. ChildPlace' /\ ReadingInv' /\ WaitingInv' /\ AfterInv'
    BY <2>1, NoChildFacts
       DEF ChildPlace, Gone, ReadingInv, WaitingInv, AfterInv, Tells
  <2>4. QED
    BY <1>4, <2>2, <2>3 DEF RInv
<1>6. CASE ForkFails
  <2>1. pc' = "print" /\ child' = NoChild /\ report' = errored /\ truth' = "bad"
    BY <1>6 DEF ForkFails, Begin, errored
  <2>2. Types'
    BY <1>2, <1>3, <2>1, ZeroCounts, NoChildFacts, ReportSizeAssumption
       DEF RInv, Types
  <2>3. ChildPlace' /\ ReadingInv' /\ WaitingInv'
    BY <2>1, NoChildFacts DEF ChildPlace, Gone, ReadingInv, WaitingInv
  <2>4. AfterInv'
    <3>1. Tells(report', truth')
      BY <1>2, <2>1 DEF Tells, Bad
    <3>2. QED
      BY <2>1, <3>1 DEF AfterInv
  <2>5. QED
    BY <1>4, <2>2, <2>3, <2>4 DEF RInv
<1>7. CASE fork \/ RunsInPlace
  <2>1. /\ child' = started /\ report' = Zero /\ truth' = "nothing"
        /\ \/ pc' = "reading" /\ options.fork
           \/ pc' = "in place" /\ ~options.fork
    BY <1>7 DEF fork, RunsInPlace, Begin, started
  <2>2. Types'
    BY <1>1, <1>3, <2>1, ZeroCounts, ReportSizeAssumption DEF RInv, Types
  <2>3. ChildPlace' /\ WaitingInv'
    BY <2>1 DEF ChildPlace, WaitingInv
  <2>4. ReadingInv' /\ AfterInv'
    <3>1. /\ child'.state = "running" /\ child'.sent = 0
          /\ child'.report = Zero /\ Clean(Zero)
      BY <1>1, <2>1, ZeroCounts DEF Clean
    <3>2. received' < ReportSize /\ received' <= child'.sent
      BY <1>3, <3>1, ReportSizeAssumption
    <3>3. QED
      BY <1>3, <2>1, <3>1, <3>2 DEF ReadingInv, AfterInv, Clean
  <2>5. QED
    BY <1>4, <2>2, <2>3, <2>4 DEF RInv
<1>8. QED
  BY <1>5, <1>6, <1>7

-----------------------------------------------------------------------------
(* The process the test runs in.                                           *)

LEMMA TestUnderWay ==
  ASSUME RInv, child.state = "running"
  PROVE  /\ pc \in {"in place", "reading", "waiting", "reaping"}
         /\ options.fork <=> pc # "in place"
         /\ pc \in {"in place", "reading"}
              => truth = "nothing" /\ Clean(child.report)
         /\ pc \in {"waiting", "reaping"} => truth = "bad"
<1>1. child.state \notin Gone
  BY DEF Gone
<1>2. pc \in {"in place", "reading", "waiting", "reaping"}
  BY <1>1 DEF RInv, ChildPlace
<1>3. pc = "reading" => /\ options.fork /\ truth = "nothing"
                        /\ Clean(child.report)
  BY DEF RInv, ReadingInv, Badly
<1>4. pc = "waiting" => options.fork /\ truth = "bad"
  BY DEF RInv, WaitingInv, Badly
<1>5. pc = "reaping" => options.fork /\ truth = "bad"
  BY DEF RInv, AfterInv
<1>6. pc = "in place" => /\ ~options.fork /\ truth = "nothing"
                         /\ Clean(child.report)
  BY DEF RInv, AfterInv
<1>7. QED
  BY <1>2, <1>3, <1>4, <1>5, <1>6

(***************************************************************************)
(* A step of the child that the runner does not see: it changes the child, *)
(* and what happened only for the worse.                                   *)
(***************************************************************************)
LEMMA ChildMoves ==
  ASSUME RInv, options.fork, child.state \notin Gone,
         child' \in Child,
         UNCHANGED <<options, pc, report, received, runner, log>>,
         truth = "bad" => truth' = "bad",
         ReadingInv', WaitingInv'
  PROVE  RInv'
<1>1. pc \in {"reading", "waiting", "reaping"}
  BY DEF RInv, ChildPlace, AfterInv
<1>2. Types' /\ VerdictsAreTrue'
  BY CountsStand DEF RInv, Types
<1>3. ChildPlace' /\ AfterInv'
  BY <1>1 DEF RInv, ChildPlace, AfterInv
<1>4. QED
  BY <1>2, <1>3 DEF RInv

(***************************************************************************)
(* The test is over, with a report that tells what happened.               *)
(***************************************************************************)
LEMMA TestIsOver ==
  ASSUME RInv, child.state = "running",
         NEW rep \in Report, NEW happened,
         truth = "nothing" => Tells(rep, happened),
         Reported(rep), Note(happened), UNCHANGED <<Unchanged, exit>>
  PROVE  RInv'
<1>1. /\ options' = options /\ received' = received
      /\ runner' = runner /\ log' = log
  BY DEF Unchanged
<1>2. CASE options.fork
  <2>1. /\ child' = [child EXCEPT !.state = "writing", !.report = rep]
        /\ pc' = pc /\ report' = report
    BY <1>2 DEF Reported
  <2>2. child \in Child /\ child.state \notin Gone
    BY DEF RInv, Types, Gone
  <2>3. /\ child' \in Child /\ child'.state = "writing"
        /\ child'.report = rep /\ child'.sent = child.sent
    BY <2>1, <2>2 DEF Child, State
  <2>5. truth = "bad" => truth' = "bad"
    BY DEF Note
  <2>6. ReadingInv'
    <3> SUFFICES ASSUME pc = "reading" PROVE ReadingInv'
      BY <2>1 DEF ReadingInv
    <3>1. truth = "nothing" /\ truth' = happened
      BY TestUnderWay DEF Note
    <3>2. received < ReportSize /\ received <= child.sent
      BY DEF RInv, ReadingInv
    <3>3. QED
      BY <1>1, <1>2, <2>3, <3>1, <3>2 DEF ReadingInv
  <2>7. WaitingInv'
    <3> SUFFICES ASSUME pc = "waiting" PROVE WaitingInv'
      BY <2>1 DEF WaitingInv
    <3>1. truth = "bad" /\ received < ReportSize
      BY DEF RInv, WaitingInv, Badly
    <3>2. QED
      BY <1>1, <1>2, <2>5, <3>1 DEF WaitingInv
  <2>8. QED
    BY <1>1, <1>2, <2>1, <2>2, <2>3, <2>5, <2>6, <2>7, ChildMoves
<1>3. CASE ~options.fork
  <2>1. pc = "in place" /\ truth = "nothing"
    BY <1>3, TestUnderWay
  <2>2. child' = NoChild /\ pc' = "print" /\ report' = rep /\ truth' = happened
    BY <1>3, <2>1 DEF Reported, Note
  <2>3. Types' /\ VerdictsAreTrue'
    BY <1>1, <2>2, CountsStand, NoChildFacts DEF RInv, Types
  <2>4. ChildPlace' /\ ReadingInv' /\ WaitingInv' /\ AfterInv'
    BY <2>1, <2>2, NoChildFacts
       DEF ChildPlace, Gone, ReadingInv, WaitingInv, AfterInv
  <2>5. QED
    BY <2>3, <2>4 DEF RInv
<1>4. QED
  BY <1>2, <1>3

LEMMA TestReturnsOKKeeps == RInv /\ TestReturnsOK => RInv'
<1> SUFFICES ASSUME RInv, TestReturnsOK PROVE RInv'
  OBVIOUS
<1> DEFINE counted == [child.report EXCEPT !.successful = @ + 1]
           i == child.iteration + 1
<1>1. /\ child \in Child /\ child.state = "running"
      /\ child.state \notin Gone
      /\ child.report \in Report /\ child.iteration \in Nat
  BY DEF RInv, Types, Child, TestReturnsOK, Gone
<1>2. /\ counted \in Report /\ counted.successful > 0
      /\ counted.skipped = child.report.skipped
      /\ counted.failed = child.report.failed
      /\ counted.errored = child.report.errored
  <2>1. child.report \in [Counters -> Nat]
    BY <1>1, ZeroCounts DEF Report
  <2>2. counted \in [Counters -> Nat]
    BY <2>1 DEF Counters
  <2>3. QED
    BY <2>1, <2>2, ZeroCounts DEF Report, Counters
<1>3. UNCHANGED <<Unchanged, exit>>
  BY DEF TestReturnsOK
<1> HIDE DEF counted
<1>4. CASE i < Iterations
  <2>1. /\ child' = [child EXCEPT !.report = counted, !.iteration = i]
        /\ pc' = pc /\ report' = report /\ truth' = truth
    BY <1>4 DEF TestReturnsOK, counted
  <2>2. /\ child' \in Child /\ child'.state = "running"
        /\ child'.sent = child.sent /\ child'.report = counted
    <3>1. i \in Nat
      BY <1>1
    <3> HIDE DEF i
    <3>2. QED
      BY <1>1, <1>2, <2>1, <3>1 DEF Child
  <2>4. /\ options' = options /\ received' = received
        /\ runner' = runner /\ log' = log
    BY <1>3 DEF Unchanged
  <2>5. Clean(child.report) => Clean(child'.report)
    BY <1>2, <2>2 DEF Clean
  <2>6. CASE options.fork
    <3>1. ReadingInv'
      BY <1>1, <2>1, <2>2, <2>4, <2>5, <2>6 DEF RInv, ReadingInv, Badly
    <3>2. WaitingInv'
      BY <1>1, <2>1, <2>2, <2>4, <2>6 DEF RInv, WaitingInv, Badly
    <3>3. QED
      BY <1>1, <2>1, <2>2, <2>4, <2>6, <3>1, <3>2, ChildMoves
  <2>7. CASE ~options.fork
    <3>1. pc = "in place" /\ truth = "nothing" /\ Clean(child.report)
      BY <1>1, <2>7, TestUnderWay
    <3>2. Types' /\ VerdictsAreTrue'
      BY <2>1, <2>2, <2>4, CountsStand DEF RInv, Types
    <3>3. ChildPlace' /\ ReadingInv' /\ WaitingInv' /\ AfterInv'
      BY <2>1, <2>2, <2>4, <2>5, <2>7, <3>1
         DEF ChildPlace, ReadingInv, WaitingInv, AfterInv
    <3>4. QED
      BY <3>2, <3>3 DEF RInv
  <2>8. QED
    BY <2>6, <2>7
<1>5. CASE ~(i < Iterations)
  <2>1. Reported(counted) /\ Note("passed")
    BY <1>5 DEF TestReturnsOK, counted
  <2>2. truth = "nothing" => Tells(counted, "passed")
    BY <1>1, <1>2, TestUnderWay DEF Clean, Tells, Well
  <2>3. QED
    BY <1>1, <1>2, <1>3, <2>1, <2>2, TestIsOver
<1>6. QED
  BY <1>4, <1>5

LEMMA TestReturnsOtherKeeps == RInv /\ TestReturnsOther => RInv'
<1> SUFFICES ASSUME RInv, TestReturnsOther PROVE RInv'
  OBVIOUS
<1>1. child.state = "running" /\ UNCHANGED <<Unchanged, exit>>
  BY DEF TestReturnsOther
<1>2. /\ child.report \in [Counters -> Nat] /\ Report = [Counters -> Nat]
      /\ child.report \in Report
  BY ZeroCounts DEF RInv, Types, Child, Report
<1>3. truth = "nothing" => Clean(child.report)
  BY <1>1, TestUnderWay
<1>4. ASSUME NEW result \in {"skipped", "failed", "errored"},
             Reported([child.report EXCEPT ![result] = @ + 1]),
             Note(IF result = "skipped" THEN "skipped" ELSE "bad")
      PROVE  RInv'
  <2> DEFINE rep == [child.report EXCEPT ![result] = @ + 1]
             happened == IF result = "skipped" THEN "skipped" ELSE "bad"
  <2>1. rep \in Report
    BY <1>2 DEF Counters
  <2>2. truth = "nothing" => Tells(rep, happened)
    <3>1. CASE result = "skipped"
      BY <1>2, <1>3, <3>1 DEF Tells, Clean, Counters
    <3>2. CASE result \in {"failed", "errored"}
      BY <1>2, <3>2 DEF Tells, Counters, Bad
    <3>3. QED
      BY <3>1, <3>2
  <2>3. QED
    BY <1>1, <1>4, <2>1, <2>2, TestIsOver
<1>5. ASSUME Reported(child.report),
             Note(IF child.report.successful > 0
                  THEN "passed before" ELSE "not run")
      PROVE  RInv'
  <2> DEFINE happened == IF child.report.successful > 0
                         THEN "passed before" ELSE "not run"
  <2>1. child.report.successful \in Nat
    BY <1>2 DEF Counters
  <2>2. CASE child.report.successful > 0
    <3>1. truth = "nothing" => Tells(child.report, "passed before")
      BY <1>3, <2>2 DEF Tells, Clean, Well
    <3>2. Note("passed before")
      BY <1>5, <2>2
    <3>3. QED
      BY <1>1, <1>2, <1>5, <3>1, <3>2, TestIsOver
  <2>3. CASE ~(child.report.successful > 0)
    <3>1. Clean(child.report) => child.report = Zero
      <4>1. child.report.successful = 0
        BY <2>1, <2>3
      <4>2. QED
        BY <1>2, <4>1, ZeroCounts DEF Clean, Counters
    <3>2. truth = "nothing" => Tells(child.report, "not run")
      BY <1>3, <3>1 DEF Tells
    <3>3. Note("not run")
      BY <1>5, <2>3
    <3>4. QED
      BY <1>1, <1>2, <1>5, <3>2, <3>3, TestIsOver
  <2>4. QED
    BY <2>1, <2>2, <2>3
<1>6. QED
  BY <1>4, <1>5 DEF TestReturnsOther

(***************************************************************************)
(* The child is killed, or leaves while it still is in the test: what      *)
(* happened is bad, and its end or its empty report give it away.          *)
(***************************************************************************)
LEMMA BadEnd ==
  ASSUME RInv, options.fork, NEW state,
         \/ state \in Badly /\ child.state \in {"running", "writing"}
         \/ state = "exited" /\ child.state = "running",
         child' = [child EXCEPT !.state = state], truth' = "bad",
         UNCHANGED <<options, pc, report, received, runner, log>>
  PROVE  RInv'
<1>1. child \in Child /\ child.state \notin Gone
  BY DEF RInv, Types, Gone
<1>2. /\ child' \in Child /\ child'.state = state
      /\ child'.sent = child.sent /\ child'.report = child.report
  BY <1>1 DEF Child, State, Badly
<1>4. ReadingInv'
  <2> SUFFICES ASSUME pc = "reading" PROVE ReadingInv'
    BY DEF ReadingInv
  <2>1. /\ received < ReportSize /\ received <= child.sent
        /\ child.state = "running" => child.sent = 0
    BY DEF RInv, ReadingInv, Badly
  <2>2. QED
    BY <1>2, <2>1 DEF ReadingInv
<1>5. WaitingInv'
  <2> SUFFICES ASSUME pc = "waiting" PROVE WaitingInv'
    BY DEF WaitingInv
  <2>1. child.state = "running" => truth = "bad" /\ received < ReportSize
    BY DEF RInv, WaitingInv, Badly
  <2>2. QED
    BY <1>2, <2>1 DEF WaitingInv
<1>6. QED
  BY <1>1, <1>2, <1>4, <1>5, ChildMoves

LEMMA ErrorfKeeps == RInv /\ errorf => RInv'
<1> SUFFICES ASSUME RInv, errorf PROVE RInv'
  OBVIOUS
<1>1. /\ child.state = "running" /\ Note("bad")
      /\ UNCHANGED <<Unchanged, exit>>
  BY DEF errorf
<1>2. CASE options.fork
  <2>1. /\ child' = [child EXCEPT !.state = "killed"]
        /\ truth' = "bad"
        /\ UNCHANGED <<options, pc, report, received, runner, log>>
    BY <1>1, <1>2 DEF errorf, Note, Unchanged
  <2>2. QED
    BY <1>1, <1>2, <2>1, BadEnd DEF Badly
<1>3. CASE ~options.fork
  <2> DEFINE rep == [child.report EXCEPT !.failed = @ + 1]
  <2>1. Reported(rep)
    BY <1>3 DEF errorf
  <2>2. child.report \in [Counters -> Nat] /\ Report = [Counters -> Nat]
    BY ZeroCounts DEF RInv, Types, Child, Report
  <2>3. rep \in Report /\ Tells(rep, "bad")
    BY <2>2 DEF Tells, Counters, Bad
  <2>4. QED
    BY <1>1, <2>1, <2>3, TestIsOver
<1>4. QED
  BY <1>2, <1>3

LEMMA EndsKeeps ==
  ASSUME RInv, NEW state, Ends(state),
         \/ state \in Badly
         \/ state = "exited" /\ child.state = "running"
  PROVE  RInv'
<1>1. /\ child.state \in {"running", "writing"} /\ Note("bad")
      /\ UNCHANGED <<Unchanged, report>>
  BY DEF Ends
<1>2. CASE options.fork
  <2>1. /\ child' = [child EXCEPT !.state = state] /\ truth' = "bad"
        /\ UNCHANGED <<options, pc, report, received, runner, log>>
    BY <1>1, <1>2 DEF Ends, Note, Unchanged
  <2>2. QED
    BY <1>1, <1>2, <2>1, BadEnd
<1>3. CASE ~options.fork
  <2>1. /\ pc' = "crashed" /\ child' = NoChild
        /\ UNCHANGED <<options, report, received, runner, log>>
    BY <1>1, <1>3 DEF Ends, Unchanged
  <2>2. Types' /\ VerdictsAreTrue'
    BY <2>1, CountsStand, NoChildFacts DEF RInv, Types
  <2>3. ChildPlace' /\ ReadingInv' /\ WaitingInv' /\ AfterInv'
    BY <2>1, NoChildFacts
       DEF ChildPlace, Gone, ReadingInv, WaitingInv, AfterInv
  <2>4. QED
    BY <2>2, <2>3 DEF RInv
<1>4. QED
  BY <1>2, <1>3

LEMMA WriteReportKeeps == RInv /\ WriteReport => RInv'
<1> SUFFICES ASSUME RInv, WriteReport PROVE RInv'
  OBVIOUS
<1>1. /\ child \in Child /\ child.state = "writing"
      /\ child.state \notin Gone /\ child.sent \in 0..ReportSize
      /\ UNCHANGED <<options, pc, report, received, runner, log, truth>>
  BY DEF RInv, Types, Child, WriteReport, Unchanged, Gone
<1>2. options.fork
  <2>1. pc \in {"in place", "reading", "waiting", "reaping"}
    BY <1>1 DEF RInv, ChildPlace
  <2>2. QED
    BY <1>1, <2>1 DEF RInv, ReadingInv, WaitingInv, AfterInv
<1>3. /\ child' \in Child /\ child'.report = child.report
      /\ \/ /\ child.sent < ReportSize /\ child'.state = "writing"
            /\ child'.sent = child.sent + 1
         \/ /\ child.sent = ReportSize /\ child'.state = "exited"
            /\ child'.sent = child.sent
  <2>1. CASE child.sent < ReportSize
    <3>1. child' = [child EXCEPT !.sent = @ + 1]
      BY <1>1, <2>1 DEF WriteReport
    <3>2. child.sent + 1 \in 0..ReportSize
      BY <1>1, <2>1, ReportSizeAssumption
    <3>3. QED
      BY <1>1, <2>1, <3>1, <3>2 DEF Child
  <2>2. CASE ~(child.sent < ReportSize)
    <3>1. child' = [child EXCEPT !.state = "exited"]
      BY <1>1, <2>2 DEF WriteReport
    <3>2. child.sent = ReportSize
      BY <1>1, <2>2, ReportSizeAssumption
    <3>3. QED
      BY <1>1, <3>1, <3>2 DEF Child, State
  <2>3. QED
    BY <2>1, <2>2
<1>5. ReadingInv'
  <2> SUFFICES ASSUME pc = "reading" PROVE ReadingInv'
    BY <1>1 DEF ReadingInv
  <2>1. /\ received < ReportSize /\ received <= child.sent
        /\ Tells(child.report, truth)
    BY <1>1 DEF RInv, ReadingInv, Badly
  <2>2. received' <= child'.sent
    BY <1>1, <1>3, <2>1, ReportSizeAssumption DEF RInv, Types
  <2>3. QED
    BY <1>1, <1>2, <1>3, <2>1, <2>2 DEF ReadingInv
<1>6. WaitingInv'
  <2> SUFFICES ASSUME pc = "waiting" PROVE WaitingInv'
    BY <1>1 DEF WaitingInv
  <2>1. \/ truth = "bad" /\ received < ReportSize
        \/ /\ received = ReportSize /\ child.sent = ReportSize
           /\ report = child.report /\ Tells(report, truth)
    BY <1>1 DEF RInv, WaitingInv, Badly
  <2>2. child.sent = ReportSize
          => child'.state = "exited" /\ child'.sent = ReportSize
    BY <1>3, ReportSizeAssumption
  <2>3. QED
    BY <1>1, <1>2, <1>3, <2>1, <2>2 DEF WaitingInv
<1>7. QED
  BY <1>1, <1>2, <1>3, <1>5, <1>6, ChildMoves

-----------------------------------------------------------------------------
(* The runner, from the pipe to the counters.                              *)

LEMMA OneErrorMore ==
  ASSUME report \in Report
  PROVE  /\ [report EXCEPT !.errored = @ + 1] \in Report
         /\ [report EXCEPT !.errored = @ + 1].errored > 0
<1>1. report \in [Counters -> Nat] /\ Report = [Counters -> Nat]
  BY ZeroCounts DEF Report
<1>2. QED
  BY <1>1 DEF Counters

LEMMA ReadReportKeeps == RInv /\ ReadReport => RInv'
<1> SUFFICES ASSUME RInv, ReadReport PROVE RInv'
  OBVIOUS
<1>1. PICK n \in (received + 1)..child.sent :
        /\ received' = n /\ report' = ReadSoFar(n)
        /\ pc' = IF n = ReportSize THEN "waiting" ELSE "reading"
  BY DEF ReadReport
<1>2. /\ pc = "reading"
      /\ UNCHANGED <<options, child, runner, log, truth>>
  BY DEF ReadReport
<1>3. /\ child \in Child /\ child.report \in Report
      /\ child.sent \in 0..ReportSize /\ received \in Nat
  BY DEF RInv, Types, Child
<1>4. /\ n \in Nat /\ n > 0 /\ n <= child.sent /\ n <= ReportSize
      /\ child.sent # 0
      /\ n = ReportSize => child.sent = ReportSize
  BY <1>3, ReportSizeAssumption
<1>5. Types' /\ VerdictsAreTrue'
  BY <1>1, <1>2, <1>3, <1>4, ReadCounts, CountsStand DEF RInv, Types
<1>6. /\ options.fork
      /\ \/ child.state = "writing" /\ Tells(child.report, truth)
         \/ /\ child.state = "exited" /\ child.sent = ReportSize
            /\ Tells(child.report, truth)
         \/ child.state \in Badly /\ truth = "bad"
  BY <1>2, <1>4 DEF RInv, ReadingInv
<1>7. ChildPlace' /\ AfterInv'
  BY <1>1 DEF ChildPlace, AfterInv
<1>8. CASE n = ReportSize
  <2>1. pc' = "waiting" /\ report' = child.report
    BY <1>1, <1>3, <1>4, <1>8, ReadCounts
  <2>2. ReadingInv'
    BY <2>1 DEF ReadingInv
  <2>3. WaitingInv'
    BY <1>1, <1>2, <1>4, <1>6, <1>8, <2>1 DEF WaitingInv
  <2>4. QED
    BY <1>5, <1>7, <2>2, <2>3 DEF RInv
<1>9. CASE n # ReportSize
  <2>1. pc' = "reading" /\ received' < ReportSize
    BY <1>1, <1>4, <1>9, ReportSizeAssumption
  <2>2. ReadingInv'
    BY <1>1, <1>2, <1>4, <1>6, <2>1 DEF ReadingInv
  <2>3. WaitingInv'
    BY <2>1 DEF WaitingInv
  <2>4. QED
    BY <1>5, <1>7, <2>2, <2>3 DEF RInv
<1>10. QED
  BY <1>8, <1>9

LEMMA ReadingEndsKeeps == RInv /\ (EndOfPipe \/ ReadFails) => RInv'
<1> SUFFICES ASSUME RInv, EndOfPipe \/ ReadFails PROVE RInv'
  OBVIOUS
<1>1. /\ pc = "reading" /\ pc' = "waiting"
      /\ UNCHANGED <<options, child, report, received, runner, log>>
  BY DEF EndOfPipe, ReadFails
<1>2. truth' = "bad"
  <2>1. CASE ReadFails
    BY <2>1 DEF ReadFails, Note
  <2>2. CASE EndOfPipe
    <3>1. /\ received = child.sent /\ truth' = truth
          /\ child.state \notin {"none", "running", "writing"}
      BY <2>2 DEF EndOfPipe, ChildHasEnded
    <3>2. child.sent # ReportSize
      BY <1>1, <3>1, ReportSizeAssumption DEF RInv, ReadingInv, Types
    <3>3. QED
      BY <1>1, <3>1, <3>2 DEF RInv, ReadingInv
  <2>3. QED
    BY <2>1, <2>2
<1>3. options.fork /\ received < ReportSize
  BY <1>1 DEF RInv, ReadingInv
<1>4. Types' /\ VerdictsAreTrue'
  BY <1>1, CountsStand DEF RInv, Types
<1>5. ChildPlace' /\ ReadingInv' /\ WaitingInv' /\ AfterInv'
  BY <1>1, <1>2, <1>3 DEF ChildPlace, ReadingInv, WaitingInv, AfterInv
<1>6. QED
  BY <1>4, <1>5 DEF RInv

LEMMA WaitpidKeeps == RInv /\ waitpid => RInv'
<1> SUFFICES ASSUME RInv, waitpid PROVE RInv'
  OBVIOUS
<1>1. /\ pc = "waiting" /\ pc' = "print" /\ child' = NoChild
      /\ child.state \notin {"none", "running", "writing"}
      /\ UNCHANGED <<options, received, runner, log, truth>>
      /\ report' = IF child.state = "exited" /\ received = ReportSize
                   THEN report ELSE [report EXCEPT !.errored = @ + 1]
  BY DEF waitpid, ChildHasEnded, Unchanged
<1>2. report \in Report
  BY DEF RInv, Types
<1>3. report' \in Report
  BY <1>1, <1>2, OneErrorMore
<1>4. Tells(report', truth')
  <2>1. CASE child.state = "exited" /\ received = ReportSize
    BY <1>1, <2>1, ReportSizeAssumption DEF RInv, WaitingInv, Badly
  <2>2. CASE ~(child.state = "exited" /\ received = ReportSize)
    <3>1. truth = "bad"
      BY <1>1, <2>2 DEF RInv, WaitingInv
    <3>2. report'.errored > 0
      BY <1>1, <1>2, <2>2, OneErrorMore
    <3>3. QED
      BY <1>1, <3>1, <3>2 DEF Tells, Bad
  <2>3. QED
    BY <2>1, <2>2
<1>5. Types' /\ VerdictsAreTrue'
  BY <1>1, <1>3, CountsStand, NoChildFacts DEF RInv, Types
<1>6. ChildPlace' /\ ReadingInv' /\ WaitingInv' /\ AfterInv'
  BY <1>1, <1>4, NoChildFacts
     DEF ChildPlace, Gone, ReadingInv, WaitingInv, AfterInv
<1>7. QED
  BY <1>5, <1>6 DEF RInv

LEMMA WaitpidFailsKeeps == RInv /\ (waitpid_fails \/ waitpid_again \/ waitpid_again_fails) => RInv'
<1> SUFFICES ASSUME RInv, waitpid_fails \/ waitpid_again \/ waitpid_again_fails
             PROVE  RInv'
  OBVIOUS
<1>1. UNCHANGED <<options, received, runner, log>>
  BY DEF waitpid_fails, waitpid_again, waitpid_again_fails, Unchanged
<1>2. report \in Report
  BY DEF RInv, Types
<1>3. CASE waitpid_fails
  <2>1. /\ pc = "waiting" /\ pc' = "reaping" /\ child' = child
        /\ truth' = "bad" /\ report' = [report EXCEPT !.errored = @ + 1]
    BY <1>3 DEF waitpid_fails, Note, Unchanged
  <2>2. options.fork /\ report' \in Report /\ report'.errored > 0
    BY <1>2, <2>1, OneErrorMore DEF RInv, WaitingInv
  <2>3. Types' /\ VerdictsAreTrue'
    BY <1>1, <2>1, <2>2, CountsStand DEF RInv, Types
  <2>4. ChildPlace' /\ ReadingInv' /\ WaitingInv' /\ AfterInv'
    BY <1>1, <2>1, <2>2 DEF ChildPlace, ReadingInv, WaitingInv, AfterInv
  <2>5. QED
    BY <2>3, <2>4 DEF RInv
<1>4. CASE waitpid_again
  <2>1. /\ pc = "reaping" /\ pc' = "print" /\ child' = NoChild
        /\ report' = report /\ truth' = truth
    BY <1>4 DEF waitpid_again
  <2>2. Tells(report', truth')
    BY <2>1 DEF RInv, AfterInv, Tells, Bad
  <2>3. Types' /\ VerdictsAreTrue'
    BY <1>1, <2>1, CountsStand, NoChildFacts DEF RInv, Types
  <2>4. ChildPlace' /\ ReadingInv' /\ WaitingInv' /\ AfterInv'
    BY <1>1, <2>1, <2>2, NoChildFacts
       DEF ChildPlace, Gone, ReadingInv, WaitingInv, AfterInv
  <2>5. QED
    BY <2>3, <2>4 DEF RInv
<1>5. CASE waitpid_again_fails
  <2>1. /\ pc = "reaping" /\ pc' = "print" /\ truth' = "left"
        /\ child' = [child EXCEPT !.state = "left"] /\ report' = report
    BY <1>5 DEF waitpid_again_fails
  <2>2. child' \in Child /\ child'.state = "left"
    BY <2>1 DEF RInv, Types, Child, State
  <2>3. Tells(report', truth')
    BY <2>1 DEF RInv, AfterInv, Tells, Bad
  <2>4. Types' /\ VerdictsAreTrue'
    BY <1>1, <2>1, <2>2, CountsStand DEF RInv, Types
  <2>5. ChildPlace' /\ ReadingInv' /\ WaitingInv' /\ AfterInv'
    BY <1>1, <2>1, <2>2, <2>3
       DEF ChildPlace, Gone, ReadingInv, WaitingInv, AfterInv
  <2>6. QED
    BY <2>4, <2>5 DEF RInv
<1>6. QED
  BY <1>3, <1>4, <1>5

(***************************************************************************)
(* The verdict is the one that what happened deserves.                     *)
(***************************************************************************)
LEMMA VerdictIsTrue ==
  ASSUME report \in Report, Tells(report, truth)
  PROVE  /\ truth \in {"skipped", "not run"} \cup Well \cup Bad
         /\ test \notin Todo =>
              /\ truth \in Well => Verdict = "successful"
              /\ truth = "skipped" => Verdict = "skipped"
              /\ truth \in Bad => Verdict \in {"failed", "errored"}
              /\ truth = "not run" => Verdict = "none"
         /\ test \in Todo =>
              Verdict = IF truth \in Well \cup {"not run"} THEN "failed"
                        ELSE "todo"
<1>1. /\ report.successful \in Nat /\ report.skipped \in Nat
      /\ report.failed \in Nat /\ report.errored \in Nat
  BY ReportCounts
<1>2. CASE truth \in Well
  <2>1. truth \notin Bad \cup {"skipped", "not run"}
    BY <1>2 DEF Well, Bad
  <2>2. /\ report.successful > 0 /\ report.skipped = 0
        /\ report.failed = 0 /\ report.errored = 0
    BY <1>2, <2>1 DEF Tells
  <2>3. Verdict = IF test \in Todo THEN "failed" ELSE "successful"
    BY <2>2 DEF Verdict
  <2>4. QED
    BY <1>2, <2>1, <2>3
<1>3. CASE truth = "skipped"
  BY <1>1, <1>3 DEF Tells, Verdict, Well, Bad
<1>4. CASE truth \in Bad
  <2>1. truth \notin Well \cup {"skipped", "not run"}
    BY <1>4 DEF Well, Bad
  <2>2. report.failed > 0 \/ report.errored > 0
    BY <1>4, <2>1 DEF Tells
  <2>3. /\ test \in Todo => Verdict = "todo"
        /\ test \notin Todo => Verdict \in {"failed", "errored"}
    BY <1>1, <2>2 DEF Verdict
  <2>4. QED
    BY <1>4, <2>1, <2>3
<1>5. CASE truth = "not run"
  <2>1. /\ report.successful = 0 /\ report.skipped = 0
        /\ report.failed = 0 /\ report.errored = 0
    BY <1>5, ZeroCounts DEF Tells, Well, Bad
  <2>2. /\ ~(report.failed # 0 \/ report.errored # 0 \/ report.skipped # 0)
        /\ ~(report.failed > 0) /\ ~(report.errored > 0)
        /\ ~(report.skipped > 0) /\ ~(report.successful > 0)
    BY <2>1
  <2>3. Verdict = IF test \in Todo THEN "failed" ELSE "none"
    BY <2>2, Zenon DEF Verdict
  <2>4. QED
    BY <1>5, <2>3 DEF Well, Bad
<1>6. QED
  BY <1>2, <1>3, <1>4, <1>5 DEF Tells

LEMMA PrintKeeps == RInv /\ print_result => RInv'
<1> SUFFICES ASSUME RInv, print_result PROVE RInv'
  OBVIOUS
<1> DEFINE entry == [test |-> test, pairs |-> Combination, was |-> truth]
<1>1. /\ pc = "print" /\ pc' = "next"
      /\ runner' = IF Verdict \in DOMAIN runner
                   THEN [runner EXCEPT ![Verdict] = @ + 1] ELSE runner
      /\ log' = Append(log, entry)
      /\ UNCHANGED <<options, child, report, received, truth>>
  BY DEF print_result
<1>2. /\ child.state \in Gone /\ report \in Report /\ runner \in Report
      /\ Tells(report, truth) /\ log \in Seq(ToSet(log))
  BY <1>1 DEF RInv, ChildPlace, Types, AfterInv
<1>3. /\ entry.test = test /\ entry.was = truth
  OBVIOUS
<1> HIDE DEF entry
<1>4. /\ log' \in Seq(ToSet(log'))
      /\ \A kinds, todo :
           /\ Times(kinds, todo) \in Nat
           /\ Times(kinds, todo)'
                = Times(kinds, todo) + Counted(entry, kinds, todo)
  BY <1>1, <1>2, Appended
<1>5. /\ DOMAIN runner = Counters
      /\ runner.successful \in Nat /\ runner.skipped \in Nat
      /\ runner.failed \in Nat /\ runner.errored \in Nat
      /\ runner \in [Counters -> Nat]
  BY <1>2, ReportCounts, ZeroCounts DEF Report
<1>6. runner' \in Report
  BY <1>1, <1>2, <1>5, ReportCounts
<1>7. VerdictsAreTrue'
  <2> DEFINE Gets(c) == IF Verdict = c THEN 1 ELSE 0
  <2>1. \A c \in Counters : runner'[c] = runner[c] + Gets(c)
    BY <1>1, <1>5 DEF Counters
  <2>2. /\ runner'.successful = runner.successful + Gets("successful")
        /\ runner'.skipped = runner.skipped + Gets("skipped")
        /\ runner'.failed = runner.failed + Gets("failed")
        /\ runner'.errored = runner.errored + Gets("errored")
    BY <2>1 DEF Counters
  <2>3. /\ Gets("successful") = Counted(entry, Well, FALSE)
        /\ Gets("skipped") = Counted(entry, {"skipped"}, FALSE)
        /\ Gets("failed") + Gets("errored")
             = Counted(entry, Bad, FALSE)
                 + Counted(entry, Well \cup {"not run"}, TRUE)
    <3> DEFINE isBad == Counted(entry, Bad, FALSE)
               isWell == Counted(entry, Well \cup {"not run"}, TRUE)
    <3>1. \A kinds :
            /\ Counted(entry, kinds, FALSE)
                 = IF truth \in kinds /\ test \notin Todo THEN 1 ELSE 0
            /\ Counted(entry, kinds, TRUE)
                 = IF truth \in kinds /\ test \in Todo THEN 1 ELSE 0
      BY <1>3 DEF Counted
    <3>2. /\ truth \in {"skipped", "not run"} \cup Well \cup Bad
          /\ test \notin Todo =>
               /\ truth \in Well => Verdict = "successful"
               /\ truth = "skipped" => Verdict = "skipped"
               /\ truth \in Bad => Verdict \in {"failed", "errored"}
               /\ truth = "not run" => Verdict = "none"
          /\ test \in Todo =>
               Verdict = IF truth \in Well \cup {"not run"} THEN "failed"
                         ELSE "todo"
      BY <1>2, VerdictIsTrue
    <3>3. CASE truth \in Well
      <4>1. /\ truth \in Well
            /\ truth \notin {"skipped"}
            /\ truth \notin Bad
            /\ truth \in Well \cup {"not run"}
        BY <3>3 DEF Well, Bad
      <4>2. CASE test \notin Todo
        <5>1. /\ Counted(entry, Well, FALSE) = 1
              /\ Counted(entry, {"skipped"}, FALSE) = 0
              /\ isBad = 0
              /\ isWell = 0
          BY <3>1, <3>3, <4>1, <4>2
        <5>2. Verdict = "successful"
          BY <3>2, <3>3, <4>2
        <5>3. QED
          BY <5>1, <5>2
      <4>3. CASE test \in Todo
        <5>1. /\ Counted(entry, Well, FALSE) = 0
              /\ Counted(entry, {"skipped"}, FALSE) = 0
              /\ isBad = 0
              /\ isWell = 1
          BY <3>1, <3>3, <4>1, <4>3
        <5>2. Verdict = "failed"
          BY <3>2, <3>3, <4>3
        <5>3. /\ Gets("successful") = 0 /\ Gets("skipped") = 0
              /\ Gets("failed") = 1 /\ Gets("errored") = 0
          BY <5>2
        <5> HIDE DEF Gets, isBad, isWell
        <5>4. Gets("failed") + Gets("errored") = isBad + isWell
          BY <5>1, <5>3
        <5>5. QED
          BY <5>1, <5>3, <5>4 DEF isBad, isWell
      <4>4. QED
        BY <4>2, <4>3
    <3>4. CASE truth = "skipped"
      <4>1. "skipped" \notin Well \cup Bad \cup {"not run"}
        BY DEF Well, Bad
      <4>2. QED
        BY <3>1, <3>2, <3>4, <4>1
    <3>5. CASE truth \in Bad
      <4>1. /\ truth \notin Well
            /\ truth \notin {"skipped"}
            /\ truth \in Bad
            /\ truth \notin Well \cup {"not run"}
        BY <3>5 DEF Well, Bad
      <4>2. CASE test \notin Todo
        <5>1. /\ Counted(entry, Well, FALSE) = 0
              /\ Counted(entry, {"skipped"}, FALSE) = 0
              /\ isBad = 1
              /\ isWell = 0
          BY <3>1, <3>5, <4>1, <4>2
        <5>2. CASE Verdict = "failed"
          <6>1. /\ Gets("successful") = 0 /\ Gets("skipped") = 0
                /\ Gets("failed") = 1 /\ Gets("errored") = 0
            BY <5>2
          <6> HIDE DEF Gets, isBad, isWell
          <6>2. Gets("failed") + Gets("errored") = isBad + isWell
            BY <5>1, <6>1
          <6>3. QED
            BY <5>1, <6>1, <6>2 DEF isBad, isWell
        <5>3. CASE Verdict = "errored"
          <6>1. /\ Gets("successful") = 0 /\ Gets("skipped") = 0
                /\ Gets("failed") = 0 /\ Gets("errored") = 1
            BY <5>3
          <6> HIDE DEF Gets, isBad, isWell
          <6>2. Gets("failed") + Gets("errored") = isBad + isWell
            BY <5>1, <6>1
          <6>3. QED
            BY <5>1, <6>1, <6>2 DEF isBad, isWell
        <5>4. QED
          BY <3>2, <3>5, <4>2, <5>2, <5>3
      <4>3. CASE test \in Todo
        <5>1. /\ Counted(entry, Well, FALSE) = 0
              /\ Counted(entry, {"skipped"}, FALSE) = 0
              /\ isBad = 0
              /\ isWell = 0
          BY <3>1, <3>5, <4>1, <4>3
        <5>2. Verdict = "todo"
          BY <3>2, <4>1, <4>3
        <5>3. QED
          BY <5>1, <5>2
      <4>4. QED
        BY <4>2, <4>3
    <3>6. CASE truth = "not run"
      <4>1. /\ "not run" \notin Well
            /\ "not run" \notin {"skipped"}
            /\ "not run" \notin Bad
            /\ "not run" \in Well \cup {"not run"}
        BY DEF Well, Bad
      <4>2. CASE test \notin Todo
        <5>1. /\ Counted(entry, Well, FALSE) = 0
              /\ Counted(entry, {"skipped"}, FALSE) = 0
              /\ isBad = 0
              /\ isWell = 0
          BY <3>1, <3>6, <4>1, <4>2
        <5>2. Verdict = "none"
          BY <3>2, <3>6, <4>2
        <5>3. QED
          BY <5>1, <5>2
      <4>3. CASE test \in Todo
        <5>1. /\ Counted(entry, Well, FALSE) = 0
              /\ Counted(entry, {"skipped"}, FALSE) = 0
              /\ isBad = 0
              /\ isWell = 1
          BY <3>1, <3>6, <4>1, <4>3
        <5>2. Verdict = "failed"
          BY <3>2, <3>6, <4>3
        <5>3. /\ Gets("successful") = 0 /\ Gets("skipped") = 0
              /\ Gets("failed") = 1 /\ Gets("errored") = 0
          BY <5>2
        <5> HIDE DEF Gets, isBad, isWell
        <5>4. Gets("failed") + Gets("errored") = isBad + isWell
          BY <5>1, <5>3
        <5>5. QED
          BY <5>1, <5>3, <5>4 DEF isBad, isWell
      <4>4. QED
        BY <4>2, <4>3
    <3>7. QED
      BY <3>2, <3>3, <3>4, <3>5, <3>6
  <2>4. /\ runner.successful = Times(Well, FALSE)
        /\ runner.skipped = Times({"skipped"}, FALSE)
        /\ runner.failed + runner.errored
             = Times(Bad, FALSE) + Times(Well \cup {"not run"}, TRUE)
    BY DEF RInv, VerdictsAreTrue
  <2>5. \A c : Gets(c) \in Nat
    OBVIOUS
  <2>6. \A kinds, todo : Counted(entry, kinds, todo) \in Nat
    BY DEF Counted
  <2> HIDE DEF Gets
  <2>7. /\ runner'.successful = Times(Well, FALSE)'
        /\ runner'.skipped = Times({"skipped"}, FALSE)'
    BY <1>4, <2>2, <2>3, <2>4
  <2>8. runner'.failed + runner'.errored
          = Times(Bad, FALSE)' + Times(Well \cup {"not run"}, TRUE)'
    <3> DEFINE bad == Times(Bad, FALSE)
               well == Times(Well \cup {"not run"}, TRUE)
               isBad == Counted(entry, Bad, FALSE)
               isWell == Counted(entry, Well \cup {"not run"}, TRUE)
    <3>1. /\ bad \in Nat /\ bad' = bad + isBad
          /\ well \in Nat /\ well' = well + isWell
      BY <1>4
    <3>2. /\ isBad \in Nat /\ isWell \in Nat
          /\ Gets("failed") \in Nat /\ Gets("errored") \in Nat
      BY <2>5, <2>6
    <3>3. /\ runner.failed + runner.errored = bad + well
          /\ Gets("failed") + Gets("errored") = isBad + isWell
      BY <2>3, <2>4
    <3> HIDE DEF bad, well, isBad, isWell
    <3>4. runner'.failed + runner'.errored = bad' + well'
      BY <1>5, <2>2, <3>1, <3>2, <3>3
    <3>5. QED
      BY <3>4 DEF bad, well
  <2>9. QED
    BY <2>7, <2>8 DEF VerdictsAreTrue
<1>8. Types'
  BY <1>1, <1>2, <1>4, <1>6 DEF RInv, Types
<1>9. ChildPlace' /\ ReadingInv' /\ WaitingInv' /\ AfterInv'
  BY <1>1, <1>2 DEF ChildPlace, ReadingInv, WaitingInv, AfterInv
<1>10. QED
  BY <1>7, <1>8, <1>9 DEF RInv

-----------------------------------------------------------------------------
(* The invariant holds: one step for each group of actions.                *)

LEMMA RInvStays ==
  ASSUME RInv, [Next]_vars
  PROVE  RInv'
<1>1. CASE \/ ParseArguments \/ SuitesRun \/ run_suite_children
           \/ run_test \/ run_test_wild
  <2>1. /\ pc \in {"arguments", "suite", "next"}
        /\ pc' \in {"suite", "start", "done", "crashed"}
        /\ UNCHANGED <<options, child, report, received, runner, truth, log>>
    BY <1>1 DEF ParseArguments, SuitesRun, run_suite_children, run_test,
                run_test_wild
  <2>2. QED
    BY <2>1, WalkKeeps
<1>2. CASE BufferFails \/ PipeFails \/ ForkFails \/ fork \/ RunsInPlace
  BY <1>2, BeginKeeps
<1>3. CASE \/ TestReturnsOK \/ TestReturnsOther \/ errorf \/ WriteReport
  BY <1>3, TestReturnsOKKeeps, TestReturnsOtherKeeps, ErrorfKeeps,
     WriteReportKeeps
<1>4. CASE Dies
  BY <1>4, EndsKeeps DEF Dies, Badly
<1>5. CASE TestExits
  BY <1>5, EndsKeeps DEF TestExits
<1>6. CASE \/ ReadReport \/ EndOfPipe \/ ReadFails
  BY <1>6, ReadReportKeeps, ReadingEndsKeeps
<1>7. CASE waitpid \/ waitpid_fails \/ waitpid_again \/ waitpid_again_fails
  BY <1>7, WaitpidKeeps, WaitpidFailsKeeps
<1>8. CASE print_result
  BY <1>8, PrintKeeps
<1>9. CASE UNCHANGED vars
  BY <1>9, StutterKeeps
<1>10. QED
  BY <1>1, <1>2, <1>3, <1>4, <1>5, <1>6, <1>7, <1>8, <1>9
     DEF Next, RunnerGoesOn, TestEnds, SomethingFails

(***************************************************************************)
(* A result on its way from the child to print_result is what happened, at *)
(* every place of munit_test_runner_run_test_with_params.                  *)
(***************************************************************************)
THEOREM Invariance == Spec => []RInv
<1>1. Init => RInv
  BY InitRInv
<1>2. RInv /\ [Next]_vars => RInv'
  BY RInvStays
<1>3. QED
  BY <1>1, <1>2, PTL DEF Spec

(***************************************************************************)
(* The counters of the runner are what happened to the combinations that   *)
(* were printed, whatever tests there are and however they end.            *)
(***************************************************************************)
THEOREM VerdictsTrue == Spec => []VerdictsAreTrue
<1>1. RInv => VerdictsAreTrue
  BY DEF RInv
<1>2. QED
  BY <1>1, Invariance, PTL

(***************************************************************************)
(* A runner that ends with success has counted no failure, or was asked for*)
(* no run.                                                                 *)
(***************************************************************************)
ExitInv ==
  /\ pc = "arguments" => log = << >>
  /\ pc = "done" /\ exit = "success" => ~HasFailed \/ log = << >>

LEMMA ExitInvStays ==
  ASSUME ExitInv, [Next]_vars
  PROVE  ExitInv'
<1>1. CASE ParseArguments
  BY <1>1 DEF ExitInv, ParseArguments
<1>2. CASE SuitesRun
  BY <1>2 DEF ExitInv, SuitesRun, HasFailed
<1>3. CASE \/ run_suite_children \/ run_test \/ run_test_wild
  BY <1>3 DEF ExitInv, run_suite_children, run_test, run_test_wild
<1>4. CASE \/ BufferFails \/ PipeFails \/ ForkFails \/ fork \/ RunsInPlace
  BY <1>4 DEF ExitInv, BufferFails, PipeFails, ForkFails, fork, RunsInPlace,
              Begin
<1>5. CASE \/ TestReturnsOK \/ TestReturnsOther \/ errorf \/ WriteReport
           \/ Dies \/ TestExits
  <2>1. /\ \/ pc' = pc /\ exit' = exit
           \/ pc' \in {"print", "crashed"}
        /\ log' = log /\ runner' = runner
    BY <1>5 DEF TestReturnsOK, TestReturnsOther, errorf, WriteReport, Dies,
                TestExits, Ends, Reported, Unchanged
  <2>2. QED
    BY <2>1 DEF ExitInv, HasFailed
<1>6. CASE \/ ReadReport \/ EndOfPipe \/ ReadFails \/ print_result
  BY <1>6 DEF ExitInv, ReadReport, EndOfPipe, ReadFails, print_result
<1>7. CASE waitpid \/ waitpid_fails \/ waitpid_again \/ waitpid_again_fails
  BY <1>7 DEF ExitInv, waitpid, waitpid_fails, waitpid_again,
              waitpid_again_fails
<1>8. CASE UNCHANGED vars
  BY <1>8 DEF ExitInv, HasFailed, vars
<1>9. QED
  BY <1>1, <1>2, <1>3, <1>4, <1>5, <1>6, <1>7, <1>8
     DEF Next, RunnerGoesOn, TestEnds, SomethingFails

(***************************************************************************)
(* No entry is of a kind that is counted zero times.                       *)
(***************************************************************************)
LEMMA TimesCounts ==
  ASSUME log \in Seq(ToSet(log)), NEW kinds, NEW todo
  PROVE  Times(kinds, todo) \in Nat
<1> DEFINE counted == {k \in DOMAIN log :
                         log[k].was \in kinds /\ (log[k].test \in Todo) = todo}
<1>1. counted \subseteq 1..Len(log) /\ Len(log) \in Nat
  OBVIOUS
<1>2. Times(kinds, todo) = Cardinality(counted)
  BY DEF Times
<1> HIDE DEF counted
<1>3. IsFiniteSet(1..Len(log))
  BY <1>1, FS_Interval
<1>4. IsFiniteSet(counted)
  BY <1>1, <1>3, FS_Subset
<1>5. QED
  BY <1>2, <1>4, FS_CardinalityType

LEMMA NoneCounted ==
  ASSUME log \in Seq(ToSet(log)), NEW kinds, Times(kinds, FALSE) = 0
  PROVE  \A k \in DOMAIN log : log[k].was \in kinds => log[k].test \in Todo
<1> DEFINE counted == {k \in DOMAIN log :
                         log[k].was \in kinds /\ (log[k].test \in Todo) = FALSE}
<1>1. counted \subseteq 1..Len(log) /\ Len(log) \in Nat
  OBVIOUS
<1>2. IsFiniteSet(counted)
  <2>1. IsFiniteSet(1..Len(log))
    BY <1>1, FS_Interval
  <2>2. QED
    BY <1>1, <2>1, FS_Subset
<1>3. Cardinality(counted) = 0
  BY DEF Times
<1> HIDE DEF counted
<1>4. counted = {}
  BY <1>2, <1>3, FS_EmptySet
<1>5. QED
  BY <1>4 DEF counted

LEMMA SuccessLeavesNoChild ==
  ASSUME RInv, ExitInv, pc = "done", exit = "success"
  PROVE  \A k \in DOMAIN log : log[k].was = "left" => log[k].test \in Todo
<1>1. CASE log = << >>
  BY <1>1
<1>2. CASE ~HasFailed
  <2>1. runner.failed = 0 /\ runner.errored = 0
    BY <1>2 DEF HasFailed
  <2>2. log \in Seq(ToSet(log))
    BY DEF RInv, Types
  <2>3. \A kinds, todo : Times(kinds, todo) \in Nat
    BY <2>2, TimesCounts
  <2>4. PICK bad \in Nat, well \in Nat :
          /\ bad = Times(Bad, FALSE) /\ well = Times(Well \cup {"not run"}, TRUE)
    BY <2>3
  <2>5. Times(Bad, FALSE) = 0
    <3>1. runner.failed + runner.errored = bad + well
      BY <2>4 DEF RInv, VerdictsAreTrue
    <3>2. bad + well = 0
      BY <2>1, <3>1
    <3>3. bad = 0
      BY <3>2
    <3>4. QED
      BY <2>4, <3>3
  <2>6. \A k \in DOMAIN log : log[k].was \in Bad => log[k].test \in Todo
    BY <2>2, <2>5, NoneCounted
  <2>7. QED
    BY <2>6 DEF Bad
<1>3. QED
  BY <1>1, <1>2 DEF ExitInv

(***************************************************************************)
(* The runner goes on only when it has waited for the process of a test,   *)
(* or when waitpid failed twice for it; and when it ends with success, no  *)
(* process was left behind in this way, but for that of a TODO test.       *)
(***************************************************************************)
THEOREM NoChildLeft == Spec => []NoChildIsLeft
<1>1. Init => ExitInv
  BY DEF Init, ExitInv
<1>2. ExitInv /\ [Next]_vars => ExitInv'
  BY ExitInvStays
<1>3. RInv /\ ExitInv => NoChildIsLeft
  BY SuccessLeavesNoChild DEF RInv, ChildPlace, Gone, NoChildIsLeft
<1>4. QED
  BY <1>1, <1>2, <1>3, Invariance, PTL DEF Spec

-----------------------------------------------------------------------------
(* Natural numbers.                                                        *)

LEMMA NatSetInduction ==
  ASSUME NEW S, 0 \in S, \A n \in Nat : n \in S => n + 1 \in S
  PROVE  \A n \in Nat : n \in S
<1> DEFINE less == OpToRel(<, Nat)
<1>1. IsWellFoundedOn(less, Nat)
  BY NatLessThanWellFounded
<1>2. SUFFICES ASSUME Nat \ S # {} PROVE FALSE
  OBVIOUS
<1> HIDE DEF less
<1>3. PICK n \in Nat \ S : \A m \in Nat \ S : <<m, n>> \notin less
  BY <1>1, <1>2, WFMin
<1>4. n - 1 \in Nat \ S
  <2>1. n # 0
    BY <1>3
  <2>2. n - 1 \in Nat /\ (n - 1) + 1 = n
    BY <2>1
  <2>3. QED
    BY <2>2
<1>5. <<n - 1, n>> \in less
  BY <1>4 DEF less, OpToRel
<1>6. QED
  BY <1>3, <1>4, <1>5

LEMMA HasSmallest ==
  ASSUME NEW A, A \subseteq Nat, A # {}
  PROVE  \E m \in A : \A k \in A : m <= k
<1> DEFINE S == {n \in Nat : \A k \in A : n <= k}
<1>1. SUFFICES ASSUME \A m \in A : \E k \in A : ~(m <= k)
               PROVE  FALSE
  OBVIOUS
<1>2. 0 \in S
  OBVIOUS
<1>3. ASSUME NEW n \in Nat, n \in S
      PROVE  n + 1 \in S
  <2>1. n \notin A
    BY <1>1, <1>3
  <2>2. \A k \in A : n + 1 <= k
    BY <1>3, <2>1
  <2>3. QED
    BY <2>2
<1> HIDE DEF S
<1>4. \A n \in Nat : n \in S
  BY <1>2, <1>3, NatSetInduction
<1>5. PICK k \in A : TRUE
  OBVIOUS
<1>6. k + 1 \in S
  BY <1>4, <1>5
<1>7. QED
  BY <1>5, <1>6 DEF S

LEMMA HasLargest ==
  ASSUME NEW A, NEW n \in Nat, A \subseteq 0..n, A # {}
  PROVE  \E m \in A : \A k \in A : k <= m
<1> DEFINE B == {n - k : k \in A}
<1>1. B \subseteq Nat /\ B # {}
  <2>1. \A k \in A : n - k \in Nat
    OBVIOUS
  <2>2. PICK k \in A : TRUE
    OBVIOUS
  <2>3. QED
    BY <2>1, <2>2
<1>2. PICK b \in B : \A k \in B : b <= k
  BY <1>1, HasSmallest
<1>3. PICK m \in A : b = n - m
  BY <1>2
<1>4. \A k \in A : n - k \in B
  OBVIOUS
<1>5. \A k \in A : n - m <= n - k
  BY <1>2, <1>3, <1>4
<1>6. QED
  BY <1>3, <1>5

LEMMA MaxIs ==
  ASSUME NEW A, NEW n \in Nat, A \subseteq 0..n, A # {}
  PROVE  Max(A) \in A /\ \A k \in A : k <= Max(A)
<1>1. PICK m \in A : \A k \in A : m >= k
  BY HasLargest
<1>2. QED
  BY <1>1 DEF Max

LEMMA MinIs ==
  ASSUME NEW A, A \subseteq Nat, A # {}
  PROVE  Min(A) \in A /\ \A k \in A : Min(A) <= k
<1>1. PICK m \in A : \A k \in A : m <= k
  BY HasSmallest
<1>2. QED
  BY <1>1 DEF Min

-----------------------------------------------------------------------------
(* FlattenSeq, which is a recursive function: its elements are those of    *)
(* the sequences, and what occurs in one of them occurs as often.          *)

IsFlattening(f, seqs, n) ==
  f = [i \in 1..n |-> IF i = 1 THEN seqs[i] ELSE f[i - 1] \o seqs[i]]

LEMMA FlatteningExists ==
  ASSUME NEW seqs
  PROVE  \A n \in Nat : \E f : IsFlattening(f, seqs, n)
<1> DEFINE S == {n \in Nat : \E f : IsFlattening(f, seqs, n)}
<1>1. 0 \in S
  <2>1. IsFlattening([i \in 1..0 |-> i], seqs, 0)
    BY DEF IsFlattening
  <2>2. QED
    BY <2>1
<1>2. ASSUME NEW n \in Nat, n \in S
      PROVE  n + 1 \in S
  <2>1. PICK f : IsFlattening(f, seqs, n)
    BY <1>2
  <2> DEFINE g == [i \in 1..(n + 1) |->
                     IF i = n + 1
                       THEN IF i = 1 THEN seqs[i] ELSE f[i - 1] \o seqs[i]
                       ELSE f[i]]
             Right(i) == g[i] = IF i = 1 THEN seqs[i] ELSE g[i - 1] \o seqs[i]
  <2>2. ASSUME NEW i \in 1..(n + 1)
        PROVE  Right(i)
    <3>1. i # 1 => /\ i - 1 \in 1..(n + 1) /\ i - 1 # n + 1
                   /\ g[i - 1] = f[i - 1]
      OBVIOUS
    <3>2. CASE i = n + 1
      BY <3>1, <3>2
    <3>3. CASE i # n + 1
      <4>1. i \in 1..n /\ g[i] = f[i]
        BY <3>3
      <4>2. f[i] = IF i = 1 THEN seqs[i] ELSE f[i - 1] \o seqs[i]
        BY <2>1, <4>1 DEF IsFlattening
      <4>3. QED
        BY <3>1, <4>1, <4>2
    <3>4. QED
      BY <3>2, <3>3
  <2>3. IsFlattening(g, seqs, n + 1)
    BY <2>2 DEF IsFlattening
  <2> HIDE DEF g
  <2>4. QED
    BY <2>3
<1> HIDE DEF S
<1>3. \A n \in Nat : n \in S
  BY <1>1, <1>2, NatSetInduction
<1>4. QED
  BY <1>3 DEF S

LEMMA FlatteningOf ==
  ASSUME NEW seqs, NEW n \in Nat \ {0}, Len(seqs) = n
  PROVE  \E f : IsFlattening(f, seqs, n) /\ FlattenSeq(seqs) = f[n]
<1> DEFINE g == CHOOSE f : IsFlattening(f, seqs, n)
<1>1. IsFlattening(g, seqs, n)
  BY FlatteningExists
<1>2. FlattenSeq(seqs) = g[n]
  BY DEF FlattenSeq, IsFlattening
<1>3. QED
  BY <1>1, <1>2

LEMMA FlattenedKeeps ==
  ASSUME NEW S, NEW seqs \in Seq(Seq(S))
  PROVE  FlattenSeq(seqs) \in Seq(S)
<1> DEFINE n == Len(seqs)
<1>1. n \in Nat /\ \A i \in 1..n : seqs[i] \in Seq(S)
  OBVIOUS
<1>2. CASE n = 0
  <2>1. FlattenSeq(seqs) = seqs /\ seqs = << >>
    BY <1>2 DEF FlattenSeq
  <2>2. QED
    BY <2>1
<1>3. CASE n # 0
  <2>1. PICK f : IsFlattening(f, seqs, n) /\ FlattenSeq(seqs) = f[n]
    BY <1>1, <1>3, FlatteningOf
  <2> DEFINE D == {i \in Nat : i + 1 \in 1..n => f[i + 1] \in Seq(S)}
  <2> HIDE DEF n
  <2>2. \A i \in 1..n : f[i] = IF i = 1 THEN seqs[i] ELSE f[i - 1] \o seqs[i]
    BY <2>1 DEF IsFlattening
  <2>3. 0 \in D
    <3>1. 1 \in 1..n => f[1] = seqs[1]
      BY <2>2
    <3>2. QED
      BY <1>1, <3>1
  <2>4. ASSUME NEW i \in Nat, i \in D
        PROVE  i + 1 \in D
    <3>1. PICK j \in Nat : j = i + 2
      OBVIOUS
    <3>2. SUFFICES ASSUME j \in 1..n PROVE f[j] \in Seq(S)
      BY <3>1
    <3>3. f[i + 1] \in Seq(S)
      BY <1>1, <2>4, <3>1, <3>2
    <3>4. j # 1 /\ j - 1 = i + 1
      BY <3>1
    <3>5. f[j] = f[i + 1] \o seqs[j]
      BY <2>2, <3>2, <3>4
    <3>6. seqs[j] \in Seq(S)
      BY <1>1, <3>2
    <3>7. QED
      BY <3>3, <3>5, <3>6
  <2> HIDE DEF D
  <2>5. \A i \in Nat : i \in D
    BY <2>3, <2>4, NatSetInduction
  <2>6. n - 1 \in D /\ (n - 1) + 1 = n
    BY <1>1, <1>3, <2>5
  <2>7. QED
    BY <1>1, <1>3, <2>1, <2>6 DEF D
<1>4. QED
  BY <1>2, <1>3

Occurs(s, x) == Cardinality({j \in DOMAIN s : s[j] = x})
LEMMA OccursOnce ==
  ASSUME NEW S, NEW s \in Seq(S), NEW x, Occurs(s, x) = 1
  PROVE  \E k \in DOMAIN s : s[k] = x /\ \A j \in DOMAIN s : s[j] = x => j = k
<1> DEFINE P == {j \in DOMAIN s : s[j] = x}
<1>1. IsFiniteSet(P)
  <2>1. IsFiniteSet(1..Len(s)) /\ P \subseteq 1..Len(s)
    BY FS_Interval
  <2>2. QED
    BY <2>1, FS_Subset
<1>2. Cardinality(P) = 1
  BY DEF Occurs
<1>3. \E k : P = {k}
  BY <1>1, <1>2, FS_Singleton
<1>4. PICK k : P = {k}
  BY <1>3
<1>5. k \in P /\ \A j \in P : j = k
  BY <1>4
<1>6. QED
  BY <1>5

Absent(s, x) == \A j \in 1..Len(s) : s[j] # x

Stretch(s, x, l, m) ==
  l + m <= Len(s) /\ \A j \in 1..Len(s) : s[j] = x <=> l < j /\ j <= l + m

LEMMA JoinedOccurs ==
  ASSUME NEW S, NEW s \in Seq(S), NEW t \in Seq(S), NEW x
  PROVE  /\ Absent(s, x) /\ Absent(t, x) => Absent(s \o t, x)
         /\ \A l, m \in Nat :
              Stretch(s, x, l, m) /\ Absent(t, x) => Stretch(s \o t, x, l, m)
         /\ Absent(s, x) /\ (\A j \in 1..Len(t) : t[j] = x)
              => Stretch(s \o t, x, Len(s), Len(t))
<1> DEFINE a == Len(s)
           b == Len(t)
           u == s \o t
<1>1. /\ a \in Nat /\ b \in Nat /\ Len(u) = a + b
      /\ \A j \in 1..(a + b) : u[j] = IF j <= a THEN s[j] ELSE t[j - a]
  OBVIOUS
<1> HIDE DEF a, b, u
<1>2. ASSUME NEW j \in 1..(a + b)
      PROVE  \/ j <= a /\ j \in 1..a /\ u[j] = s[j]
             \/ ~(j <= a) /\ j - a \in 1..b /\ u[j] = t[j - a]
  BY <1>1
<1>3. ASSUME Absent(s, x), Absent(t, x)
      PROVE  Absent(u, x)
  BY <1>1, <1>2, <1>3 DEF Absent, a, b
<1>4. ASSUME NEW l \in Nat, NEW m \in Nat, Stretch(s, x, l, m), Absent(t, x)
      PROVE  Stretch(u, x, l, m)
  <2>1. l + m <= a /\ \A j \in 1..a : s[j] = x <=> l < j /\ j <= l + m
    BY <1>4 DEF Stretch, a
  <2>2. \A j \in 1..b : t[j] # x
    BY <1>4 DEF Absent, b
  <2>3. ASSUME NEW j \in 1..(a + b)
        PROVE  u[j] = x <=> l < j /\ j <= l + m
    <3>1. CASE j <= a
      BY <1>1, <1>2, <2>1, <3>1
    <3>2. CASE ~(j <= a)
      <4>1. ~(j <= l + m)
        BY <1>1, <2>1, <3>2
      <4>2. QED
        BY <1>2, <2>2, <3>2, <4>1
    <3>3. QED
      BY <3>1, <3>2
  <2>4. l + m <= a + b
    BY <1>1, <2>1
  <2>5. QED
    BY <1>1, <2>3, <2>4 DEF Stretch
<1>5. ASSUME Absent(s, x), \A j \in 1..b : t[j] = x
      PROVE  Stretch(u, x, a, b)
  <2>1. \A j \in 1..a : s[j] # x
    BY <1>5 DEF Absent, a
  <2>2. ASSUME NEW j \in 1..(a + b)
        PROVE  u[j] = x <=> a < j /\ j <= a + b
    <3>1. CASE j <= a
      BY <1>1, <1>2, <2>1, <3>1
    <3>2. CASE ~(j <= a)
      BY <1>1, <1>2, <1>5, <3>2
    <3>3. QED
      BY <3>1, <3>2
  <2>3. QED
    BY <1>1, <2>2 DEF Stretch
<1>6. QED
  BY <1>3, <1>4, <1>5 DEF a, b, u

LEMMA StretchOccurs ==
  ASSUME NEW S, NEW s \in Seq(S), NEW x,
         NEW l \in Nat, NEW m \in Nat, Stretch(s, x, l, m)
  PROVE  Occurs(s, x) = m
<1>1. {j \in DOMAIN s : s[j] = x} = (l + 1)..(l + m)
  <2>1. /\ l + m <= Len(s) /\ Len(s) \in Nat /\ DOMAIN s = 1..Len(s)
        /\ \A j \in 1..Len(s) : s[j] = x <=> l < j /\ j <= l + m
    BY DEF Stretch
  <2>2. \A j \in (l + 1)..(l + m) : j \in 1..Len(s)
    BY <2>1
  <2>3. QED
    BY <2>1, <2>2
<1>2. l + 1 \in Int /\ l + m \in Int
  OBVIOUS
<1>3. Cardinality((l + 1)..(l + m))
        = IF l + 1 > l + m THEN 0 ELSE (l + m) - (l + 1) + 1
  BY <1>2, FS_Interval
<1>4. Cardinality((l + 1)..(l + m)) = m
  BY <1>3
<1>5. QED
  BY <1>1, <1>4 DEF Occurs

FlatSoFar(S, f, x, k, m, i) ==
  /\ f[i] \in Seq(S)
  /\ i < k => Absent(f[i], x)
  /\ i >= k => \E l \in Nat : Stretch(f[i], x, l, m)

LEMMA FlattenedOccurs ==
  ASSUME NEW S, NEW seqs \in Seq(Seq(S)), NEW x, NEW k \in DOMAIN seqs,
         NEW m \in Nat, seqs[k] = [j \in 1..m |-> x],
         \A i \in DOMAIN seqs : i # k => Absent(seqs[i], x)
  PROVE  Occurs(FlattenSeq(seqs), x) = m
<1> DEFINE n == Len(seqs)
<1>1. /\ n \in Nat /\ k \in 1..n /\ n # 0 /\ DOMAIN seqs = 1..n
      /\ \A i \in 1..n : seqs[i] \in Seq(S)
  OBVIOUS
<1>2. PICK f : IsFlattening(f, seqs, n) /\ FlattenSeq(seqs) = f[n]
  BY <1>1, FlatteningOf
<1> HIDE DEF n
<1> DEFINE Right(i) == FlatSoFar(S, f, x, k, m, i)
           D == {i \in Nat : i + 1 \in 1..n => Right(i + 1)}
<1>3. \A i \in 1..n : f[i] = IF i = 1 THEN seqs[i] ELSE f[i - 1] \o seqs[i]
  BY <1>2 DEF IsFlattening
<1>4. seqs[k] \in Seq(S) /\ Len(seqs[k]) = m /\ \A j \in 1..m : seqs[k][j] = x
  BY <1>1
<1>5. 1 \in 1..n => Right(1)
  <2>1. SUFFICES ASSUME 1 \in 1..n PROVE Right(1)
    OBVIOUS
  <2>2. f[1] = seqs[1] /\ seqs[1] \in Seq(S)
    BY <1>1, <1>3, <2>1
  <2>3. CASE k = 1
    <3>1. Stretch(f[1], x, 0, m)
      BY <1>4, <2>2, <2>3 DEF Stretch
    <3>2. 0 \in Nat /\ ~(1 < k)
      BY <2>3
    <3>3. QED
      BY <2>2, <3>1, <3>2 DEF FlatSoFar
  <2>4. CASE k # 1
    <3>1. 1 < k /\ ~(1 >= k)
      BY <1>1, <2>4
    <3>2. Absent(f[1], x)
      BY <1>1, <2>1, <2>2, <2>4
    <3>3. QED
      BY <2>2, <3>1, <3>2 DEF FlatSoFar
  <2>5. QED
    BY <2>3, <2>4
<1> HIDE DEF Right
<1>6. ASSUME NEW i \in Nat, i \in D
      PROVE  i + 1 \in D
  <2>1. PICK q \in Nat : q = i + 2
    OBVIOUS
  <2>2. SUFFICES ASSUME q \in 1..n PROVE Right(q)
    <3>1. i + 1 \in Nat /\ (i + 1) + 1 = q
      BY <2>1
    <3>2. QED
      BY <2>2, <3>1
  <2>3. PICK p \in Nat : p = i + 1
    OBVIOUS
  <2>4. /\ p \in 1..n /\ q # 1 /\ q - 1 = p /\ p < q /\ q = p + 1
    BY <1>1, <2>1, <2>2, <2>3
  <2>5. Right(p)
    BY <1>6, <2>3, <2>4
  <2>6. f[q] = f[p] \o seqs[q] /\ f[p] \in Seq(S) /\ seqs[q] \in Seq(S)
    BY <1>1, <1>3, <2>2, <2>4, <2>5 DEF Right, FlatSoFar
  <2>7. f[q] \in Seq(S)
    BY <2>6
  <2>8. CASE q = k
    <3>1. p < k /\ ~(q < k)
      BY <2>4, <2>8
    <3>2. Absent(f[p], x)
      BY <2>5, <3>1 DEF Right, FlatSoFar
    <3>3. Stretch(f[q], x, Len(f[p]), m)
      BY <1>4, <2>6, <2>8, <3>2, JoinedOccurs
    <3>4. Len(f[p]) \in Nat
      BY <2>6
    <3>5. QED
      BY <2>7, <3>1, <3>3, <3>4 DEF Right, FlatSoFar
  <2>9. CASE q < k
    <3>1. p < k /\ ~(q >= k) /\ q # k
      BY <1>1, <2>4, <2>9
    <3>2. Absent(f[p], x) /\ Absent(seqs[q], x)
      BY <1>1, <2>2, <2>5, <3>1 DEF Right, FlatSoFar
    <3>3. Absent(f[q], x)
      BY <2>6, <3>2, JoinedOccurs
    <3>4. QED
      BY <2>7, <3>1, <3>3 DEF Right, FlatSoFar
  <2>10. CASE q > k
    <3>1. p >= k /\ ~(q < k) /\ q # k
      BY <1>1, <2>4, <2>10
    <3>2. PICK l \in Nat : Stretch(f[p], x, l, m)
      BY <2>5, <3>1 DEF Right, FlatSoFar
    <3>3. Absent(seqs[q], x)
      BY <1>1, <2>2, <3>1
    <3>4. Stretch(f[q], x, l, m)
      BY <2>6, <3>2, <3>3, JoinedOccurs
    <3>5. QED
      BY <2>7, <3>1, <3>4 DEF Right, FlatSoFar
  <2>11. QED
    BY <1>1, <2>8, <2>9, <2>10
<1>7. 0 \in D
  <2>1. 0 + 1 = 1
    OBVIOUS
  <2>2. QED
    BY <1>5, <2>1
<1> HIDE DEF D
<1>8. \A i \in Nat : i \in D
  BY <1>6, <1>7, NatSetInduction
<1>9. n - 1 \in D /\ (n - 1) + 1 = n /\ n \in 1..n /\ n >= k
  BY <1>1, <1>8
<1>10. Right(n)
  BY <1>9 DEF D
<1>11. f[n] \in Seq(S) /\ \E l \in Nat : Stretch(f[n], x, l, m)
  BY <1>9, <1>10 DEF Right, FlatSoFar
<1>12. QED
  BY <1>2, <1>11, StretchOccurs

(***************************************************************************)
(* What Within keeps of a sequence that repeats nothing.                   *)
(***************************************************************************)
LEMMA WithinIs ==
  ASSUME NEW X, NEW s \in Seq(X), NEW S
  PROVE  /\ Within(s, S) \in Seq(X)
         /\ ToSet(Within(s, S)) \subseteq S
         /\ IsInjective(s) =>
              /\ IsInjective(Within(s, S))
              /\ ToSet(Within(s, S)) = ToSet(s) \cap S
<1> DEFINE q == [k \in DOMAIN s |-> IF s[k] \in S THEN <<s[k]>> ELSE << >>]
           w == FlattenSeq(q)
           XS == ToSet(s) \cap S
<1>1. q \in Seq(Seq(XS)) /\ DOMAIN q = DOMAIN s
  <2>1. ASSUME NEW k \in 1..Len(s)
        PROVE  (IF s[k] \in S THEN <<s[k]>> ELSE << >>) \in Seq(XS)
    <3>1. s[k] \in ToSet(s)
      BY DEF ToSet
    <3>2. s[k] \in S => s[k] \in XS
      BY <3>1
    <3> HIDE DEF XS
    <3>3. QED
      BY <3>2
  <2>2. DOMAIN s = 1..Len(s) /\ Len(s) \in Nat
    OBVIOUS
  <2>3. QED
    BY <2>1, <2>2
<1>2. w \in Seq(XS)
  BY <1>1, FlattenedKeeps
<1>3. ToSet(s) \subseteq X
  BY DEF ToSet
<1>4. w \in Seq(X) /\ ToSet(w) \subseteq XS
  BY <1>2, <1>3 DEF ToSet
<1>5. ASSUME IsInjective(s), NEW k \in DOMAIN s, s[k] \in S
      PROVE  Occurs(w, s[k]) = 1
  <2>1. q[k] = [j \in 1..1 |-> s[k]]
    BY <1>5
  <2>2. ASSUME NEW i \in DOMAIN q, i # k
        PROVE  Absent(q[i], s[k])
    <3>1. s[i] # s[k]
      BY <1>1, <1>5, <2>2 DEF IsInjective
    <3>2. \A j \in 1..Len(q[i]) : q[i][j] = s[i]
      BY <1>1, <2>2
    <3>3. QED
      BY <3>1, <3>2 DEF Absent
  <2> HIDE DEF q, XS
  <2>3. k \in DOMAIN q /\ 1 \in Nat
    BY <1>1, <1>5
  <2>4. QED
    BY <1>1, <2>1, <2>2, <2>3, FlattenedOccurs
<1>6. ASSUME IsInjective(s)
      PROVE  IsInjective(w) /\ ToSet(w) = XS
  <2>1. ASSUME NEW x \in XS
        PROVE  \E i \in DOMAIN w : w[i] = x /\ \A j \in DOMAIN w : w[j] = x => j = i
    <3>1. PICK k \in DOMAIN s : s[k] = x
      BY DEF ToSet
    <3>2. Occurs(w, x) = 1
      BY <1>5, <1>6, <3>1
    <3> HIDE DEF w, XS
    <3>3. QED
      BY <1>2, <3>2, OccursOnce
  <2>2. \A i \in DOMAIN w : w[i] \in XS
    BY <1>4 DEF ToSet
  <2> HIDE DEF w, XS
  <2>3. IsInjective(w)
    BY <2>1, <2>2 DEF IsInjective
  <2>4. XS \subseteq ToSet(w)
    BY <2>1 DEF ToSet
  <2>5. QED
    BY <1>4, <2>3, <2>4
<1>7. QED
  BY <1>4, <1>6 DEF Within
-----------------------------------------------------------------------------
(* What the tables of the runner say: the tests of a suite, the parameters *)
(* of a test.                                                              *)

LEMMA SuiteIs ==
  ASSUME NEW s \in Suites
  PROVE  /\ TestsOf[s] \in Seq(Tests) /\ IsInjective(TestsOf[s])
         /\ ToSet(TestsOf[s]) \subseteq Tests
         /\ ChildrenOf[s] \in Seq(Suites) /\ IsInjective(ChildrenOf[s])
         /\ ToSet(ChildrenOf[s]) \subseteq Suites
         /\ Root \notin ToSet(ChildrenOf[s])
<1>1. TestsOf[s] \in Seq(Tests) /\ ChildrenOf[s] \in Seq(Suites)
  BY SuitesAssumption
<1>2. ToSet(TestsOf[s]) \subseteq Tests
  BY DEF Tests
<1>3. \A x \in ToSet(ChildrenOf[s]) : x \in Suites
  BY <1>1 DEF ToSet
<1>4. QED
  BY <1>1, <1>2, <1>3, TreeAssumption

LEMMA MatchesCount ==
  ASSUME options \in OptionSets, NEW t
  PROVE  Cardinality(Matches(t)) \in Nat
<1>1. DOMAIN options.tests = 1..Len(options.tests) /\ Len(options.tests) \in Nat
  BY OptionsAssumption
<1>2. IsFiniteSet(1..Len(options.tests)) /\ Matches(t) \subseteq 1..Len(options.tests)
  BY <1>1, FS_Interval DEF Matches
<1>3. QED
  BY <1>2, FS_Subset, FS_CardinalityType

(***************************************************************************)
(* run_suite runs the tests of its suite only, and each as often as it is  *)
(* selected.                                                               *)
(***************************************************************************)
LEMMA SelectedIs ==
  ASSUME options \in OptionSets, NEW s \in Suites
  PROVE  /\ Selected(s) \in Seq(ToSet(TestsOf[s]))
         /\ \A t \in ToSet(TestsOf[s]) : Occurs(Selected(s), t) = TimesSelected(t)
<1> DEFINE ts == TestsOf[s]
           q == [k \in DOMAIN ts |-> [j \in 1..Cardinality(Matches(ts[k])) |-> ts[k]]]
<1>1. ts \in Seq(Tests) /\ IsInjective(ts)
  BY SuiteIs
<1>2. DOMAIN ts = 1..Len(ts) /\ Len(ts) \in Nat
  BY <1>1
<1>3. \A k \in DOMAIN ts : ts[k] \in ToSet(ts)
  BY DEF ToSet
<1> HIDE DEF ts
<1>4. CASE options.tests = << >>
  <2>1. Selected(s) = ts
    BY <1>4 DEF Selected, ts
  <2>2. ts \in Seq(ToSet(ts))
    BY <1>1, <1>3
  <2>3. ASSUME NEW t \in ToSet(ts)
        PROVE  Occurs(ts, t) = 1
    <3>1. PICK k \in DOMAIN ts : ts[k] = t
      BY DEF ToSet
    <3>2. {j \in DOMAIN ts : ts[j] = t} = {k}
      BY <1>1, <3>1 DEF IsInjective
    <3>3. QED
      BY <3>2, FS_Singleton DEF Occurs
  <2>4. \A t : TimesSelected(t) = 1
    BY <1>4 DEF TimesSelected
  <2>5. QED
    BY <2>1, <2>2, <2>3, <2>4 DEF ts
<1>5. CASE options.tests # << >>
  <2>1. Selected(s) = FlattenSeq(q)
    BY <1>5 DEF Selected, ts
  <2>2. /\ q \in Seq(Seq(ToSet(ts))) /\ DOMAIN q = DOMAIN ts
        /\ \A k \in DOMAIN q :
             /\ Cardinality(Matches(ts[k])) \in Nat
             /\ q[k] = [j \in 1..Cardinality(Matches(ts[k])) |-> ts[k]]
    <3>1. ASSUME NEW k \in 1..Len(ts)
          PROVE  /\ [j \in 1..Cardinality(Matches(ts[k])) |-> ts[k]]
                      \in Seq(ToSet(ts))
                 /\ Cardinality(Matches(ts[k])) \in Nat
      <4>1. Cardinality(Matches(ts[k])) \in Nat /\ ts[k] \in ToSet(ts)
        BY <1>2, <1>3, MatchesCount
      <4>2. QED
        BY <4>1
    <3> DEFINE b(k) == [j \in 1..Cardinality(Matches(ts[k])) |-> ts[k]]
    <3>2. q = [k \in 1..Len(ts) |-> b(k)]
      BY <1>2
    <3>3. \A k \in 1..Len(ts) : b(k) \in Seq(ToSet(ts))
      BY <3>1
    <3> HIDE DEF q, b
    <3>4. q \in Seq(Seq(ToSet(ts))) /\ DOMAIN q = DOMAIN ts
      BY <1>2, <3>2, <3>3
    <3>5. \A k \in DOMAIN q : q[k] = b(k)
      BY <1>2, <3>2
    <3>6. QED
      BY <1>2, <3>1, <3>4, <3>5 DEF b
  <2>3. ASSUME NEW t \in ToSet(ts)
        PROVE  Occurs(FlattenSeq(q), t) = TimesSelected(t)
    <3>1. PICK k \in DOMAIN ts : ts[k] = t
      BY DEF ToSet
    <3>2. q[k] = [j \in 1..Cardinality(Matches(t)) |-> t]
      BY <2>2, <3>1
    <3>3. Cardinality(Matches(t)) \in Nat /\ k \in DOMAIN q
      BY <2>2, <3>1
    <3>4. ASSUME NEW i \in DOMAIN q, i # k
          PROVE  Absent(q[i], t)
      <4>1. ts[i] # t
        BY <1>1, <2>2, <3>1, <3>4 DEF IsInjective
      <4>2. \A j \in 1..Len(q[i]) : q[i][j] = ts[i]
        BY <2>2
      <4>3. QED
        BY <4>1, <4>2 DEF Absent
    <3> HIDE DEF q
    <3>5. Occurs(FlattenSeq(q), t) = Cardinality(Matches(t))
      BY <2>2, <3>2, <3>3, <3>4, FlattenedOccurs
    <3>6. QED
      BY <1>5, <3>5 DEF TimesSelected
  <2> HIDE DEF q
  <2>4. FlattenSeq(q) \in Seq(ToSet(ts))
    BY <2>2, FlattenedKeeps
  <2>5. QED
    BY <2>1, <2>3, <2>4 DEF ts
<1>6. QED
  BY <1>4, <1>5

LEMMA FrameIs ==
  ASSUME options \in OptionSets, NEW s \in Suites
  PROVE  /\ Frame(s).tests = Selected(s)
         /\ Frame(s).children = ChildrenOf[s]
         /\ Frame(s).below = FALSE
         /\ Frame(s) \in [tests : Seq(Tests), children : Seq(Suites),
                          below : BOOLEAN]
<1>1. ToSet(TestsOf[s]) \subseteq Tests /\ ChildrenOf[s] \in Seq(Suites)
  BY SuiteIs
<1>2. Selected(s) \in Seq(Tests)
  <2>1. Selected(s) \in Seq(ToSet(TestsOf[s]))
    BY SelectedIs
  <2>2. QED
    BY <1>1, <2>1
<1>3. QED
  BY <1>1, <1>2 DEF Frame

(***************************************************************************)
(* run_test_wild is given parameters of the test that have values, and     *)
(* none of them twice.                                                     *)
(***************************************************************************)
LEMMA ParametersAre ==
  ASSUME NEW t \in Tests
  PROVE  LET ps == ParametersOf[t]
         IN  /\ ps \in Seq(ToSet(ps)) /\ IsInjective(ps)
             /\ \A p, r \in ToSet(ps) : p.name = r.name => p = r
             /\ \A p \in ToSet(ps) :
                  p.values \in Seq(ToSet(p.values)) /\ IsInjective(p.values)
<1> DEFINE ps == ParametersOf[t]
<1>1. /\ ps \in Seq(ToSet(ps))
      /\ \A j, k \in DOMAIN ps : ps[j].name = ps[k].name => j = k
      /\ \A p \in ToSet(ps) : /\ p.values \in Seq(ToSet(p.values))
                              /\ IsInjective(p.values)
  BY ParametersAssumption
<1> HIDE DEF ps
<1>2. IsInjective(ps)
  BY <1>1 DEF IsInjective
<1>3. \A p, r \in ToSet(ps) : p.name = r.name => p = r
  BY <1>1 DEF ToSet
<1>4. QED
  BY <1>1, <1>2, <1>3 DEF ps

LEMMA OpenIs ==
  ASSUME NEW t \in Tests
  PROVE  /\ IsInjective(Open(t)) /\ Open(t) \in Seq(ToSet(ParametersOf[t]))
         /\ ToSet(Open(t))
              = {p \in ToSet(ParametersOf[t]) : HasValues(p) /\ ~Given(p)}
<1> DEFINE ps == ParametersOf[t]
           S == {p \in ToSet(ps) : HasValues(p) /\ ~Given(p)}
<1>1. ps \in Seq(ToSet(ps)) /\ IsInjective(ps)
  BY ParametersAre
<1>2. ToSet(ps) \cap S = S
  OBVIOUS
<1>3. Open(t) = Within(ps, S)
  BY DEF Open
<1> HIDE DEF S, ps
<1>4. QED
  BY <1>1, <1>2, <1>3, WithinIs DEF S, ps

LEMMA WildIs ==
  ASSUME NEW t \in Tests
  PROVE  /\ Wild(t) \in Seq(ToSet(ParametersOf[t]))
         /\ \A k \in DOMAIN Wild(t) : HasValues(Wild(t)[k])
<1> DEFINE ps == ParametersOf[t]
           nulls == {k \in DOMAIN ps : ~HasValues(ps[k])}
<1>1. ps \in Seq(ToSet(ps)) /\ DOMAIN ps = 1..Len(ps) /\ Len(ps) \in Nat
  BY ParametersAre
<1>2. BeforeNull(t) \in Seq(ToSet(ps))
  <2>1. CASE nulls = {}
    BY <1>1, <2>1 DEF BeforeNull
  <2>2. CASE nulls # {}
    <3>1. Min(nulls) \in 1..Len(ps)
      <4>1. nulls \subseteq 1..Len(ps) /\ nulls \subseteq Nat
        BY <1>1
      <4> HIDE DEF nulls
      <4>2. QED
        BY <2>2, <4>1, MinIs
    <3>2. BeforeNull(t) = SubSeq(ps, 1, Min(nulls) - 1)
      BY <2>2 DEF BeforeNull
    <3> HIDE DEF nulls, ps
    <3>3. QED
      BY <1>1, <3>1, <3>2
  <2>3. QED
    BY <2>1, <2>2
<1>3. Wild(t) = Within(BeforeNull(t), ToSet(Open(t)))
  BY DEF Wild
<1>4. /\ Wild(t) \in Seq(ToSet(ps))
      /\ ToSet(Wild(t)) \subseteq ToSet(Open(t))
  BY <1>2, <1>3, WithinIs
<1>5. \A p \in ToSet(Open(t)) : HasValues(p)
  BY OpenIs
<1>6. \A k \in DOMAIN Wild(t) : Wild(t)[k] \in ToSet(Wild(t))
  BY DEF ToSet
<1>7. QED
  BY <1>4, <1>5, <1>6
-----------------------------------------------------------------------------
(***************************************************************************)
(* The calls of run_suite under way are those of the suites on the way to  *)
(* the root, each of which has called the one before it, has no more tests *)
(* to run, and will not call that one again.                               *)
(***************************************************************************)
Frames == [tests : Seq(Tests), children : Seq(Suites), below : BOOLEAN]

FrameOf(f, s, first) ==
  /\ s \in Suites /\ f \in Frames
  /\ ToSet(f.tests) \subseteq ToSet(TestsOf[s])
  /\ ToSet(f.children) \subseteq ToSet(ChildrenOf[s]) /\ IsInjective(f.children)
  /\ f.tests # << >> => first /\ ~f.below
  /\ ~first => f.below

OnTrail(st, su) ==
  /\ st \in Seq(Frames) /\ su \in Seq(Suites) /\ Len(su) = Len(st)
  /\ IsInjective(su)
  /\ st # << >> => su[Len(st)] = Root
  /\ \A i \in 1..Len(st) : FrameOf(st[i], su[i], i = 1)
  /\ \A i \in 1..(Len(st) - 1) :
       su[i] \in ToSet(ChildrenOf[su[i + 1]]) \ ToSet(st[i + 1].children)

LEMMA NewFrame ==
  ASSUME options \in OptionSets, NEW s \in Suites
  PROVE  FrameOf(Frame(s), s, TRUE)
<1>1. /\ Frame(s).tests = Selected(s) /\ Frame(s).children = ChildrenOf[s]
      /\ Frame(s).below = FALSE /\ Frame(s) \in Frames
  BY FrameIs DEF Frames
<1>2. Selected(s) \in Seq(ToSet(TestsOf[s]))
  BY SelectedIs
<1>3. ToSet(Selected(s)) \subseteq ToSet(TestsOf[s])
  BY <1>2 DEF ToSet
<1>4. IsInjective(ChildrenOf[s])
  BY SuiteIs
<1>5. QED
  BY <1>1, <1>3, <1>4 DEF FrameOf

LEMMA TailIs ==
  ASSUME NEW S, NEW s \in Seq(S), s # << >>
  PROVE  /\ Tail(s) \in Seq(S) /\ Len(Tail(s)) = Len(s) - 1
         /\ Len(s) \in Nat \ {0} /\ Head(s) = s[1] /\ Head(s) \in S
         /\ \A i \in 1..(Len(s) - 1) : Tail(s)[i] = s[i + 1]
         /\ \A x \in ToSet(Tail(s)) : x \in ToSet(s)
         /\ Head(s) \in ToSet(s)
         /\ IsInjective(s) => /\ IsInjective(Tail(s))
                              /\ ToSet(Tail(s)) = ToSet(s) \ {Head(s)}
<1> DEFINE t == Tail(s)
           n == Len(s)
<1>1. /\ t \in Seq(S) /\ n \in Nat \ {0} /\ Len(t) = n - 1
      /\ \A i \in 1..(n - 1) : t[i] = s[i + 1]
      /\ Head(s) = s[1] /\ Head(s) \in S /\ DOMAIN s = 1..n /\ DOMAIN t = 1..(n - 1)
  OBVIOUS
<1> HIDE DEF t, n
<1>2. ASSUME NEW x \in ToSet(t)
      PROVE  \E i \in 1..(n - 1) : x = s[i + 1] /\ i + 1 \in 1..n
  <2>1. PICK i \in 1..(n - 1) : x = t[i]
    BY <1>1 DEF ToSet
  <2>2. QED
    BY <1>1, <2>1
<1>3. \A x \in ToSet(t) : x \in ToSet(s)
  BY <1>1, <1>2 DEF ToSet
<1>4. Head(s) \in ToSet(s)
  BY <1>1 DEF ToSet
<1>5. ASSUME IsInjective(s)
      PROVE  IsInjective(t) /\ ToSet(t) = ToSet(s) \ {Head(s)}
  <2>1. ASSUME NEW i \in 1..(n - 1), NEW j \in 1..(n - 1), t[i] = t[j]
        PROVE  i = j
    <3>1. i + 1 \in 1..n /\ j + 1 \in 1..n /\ s[i + 1] = s[j + 1]
      BY <1>1, <2>1
    <3>2. i + 1 = j + 1
      BY <1>1, <1>5, <3>1 DEF IsInjective
    <3>3. QED
      BY <1>1, <3>2
  <2>2. ASSUME NEW x \in ToSet(t)
        PROVE  x # Head(s)
    <3>1. PICK i \in 1..(n - 1) : x = s[i + 1] /\ i + 1 \in 1..n
      BY <1>2
    <3>2. i + 1 # 1 /\ 1 \in 1..n
      BY <1>1
    <3>3. QED
      BY <1>1, <1>5, <3>1, <3>2 DEF IsInjective
  <2>3. ASSUME NEW x \in ToSet(s), x # Head(s)
        PROVE  x \in ToSet(t)
    <3>1. PICK j \in 1..n : x = s[j]
      BY <1>1 DEF ToSet
    <3>2. PICK i \in 1..(n - 1) : j = i + 1
      <4>1. j - 1 \in 1..(n - 1) /\ j = (j - 1) + 1
        BY <1>1, <2>3, <3>1
      <4>2. QED
        BY <4>1
    <3>3. t[i] = x
      BY <1>1, <3>1, <3>2
    <3>4. QED
      BY <1>1, <3>3 DEF ToSet
  <2>4. QED
    BY <1>1, <1>3, <2>1, <2>2, <2>3 DEF IsInjective
<1>6. QED
  BY <1>1, <1>3, <1>4, <1>5 DEF t, n

LEMMA ConcatIs ==
  ASSUME NEW S, NEW s \in Seq(S), NEW t \in Seq(S)
  PROVE  /\ s \o t \in Seq(S) /\ Len(s \o t) = Len(s) + Len(t)
         /\ \A i \in 1..(Len(s) + Len(t)) :
              (s \o t)[i] = IF i <= Len(s) THEN s[i] ELSE t[i - Len(s)]
  OBVIOUS

LEMMA TrailStarts ==
  ASSUME options \in OptionSets
  PROVE  OnTrail(<< >>, << >>) /\ OnTrail(<<Frame(Root)>>, <<Root>>)
<1>1. FrameOf(Frame(Root), Root, TRUE) /\ Root \in Suites
  BY NewFrame, SuitesAssumption
<1>2. Frame(Root) \in Frames
  BY <1>1 DEF FrameOf
<1>3. OnTrail(<< >>, << >>)
  BY DEF OnTrail, IsInjective
<1>4. OnTrail(<<Frame(Root)>>, <<Root>>)
  <2> DEFINE st == <<Frame(Root)>>
             su == <<Root>>
  <2>1. /\ st \in Seq(Frames) /\ su \in Seq(Suites) /\ Len(st) = 1 /\ Len(su) = 1
        /\ st[1] = Frame(Root) /\ su[1] = Root /\ DOMAIN su = 1..1
    BY <1>1, <1>2
  <2> HIDE DEF st, su
  <2>2. \A i \in 1..1 : i = 1
    OBVIOUS
  <2>3. IsInjective(su)
    BY <2>1, <2>2 DEF IsInjective
  <2>4. \A i \in 1..Len(st) : FrameOf(st[i], su[i], i = 1)
    BY <1>1, <2>1, <2>2
  <2>5. \A i \in 1..(Len(st) - 1) : FALSE
    BY <2>1
  <2>6. QED
    BY <2>1, <2>3, <2>4, <2>5 DEF OnTrail, st, su
<1>5. QED
  BY <1>3, <1>4

TrailFacts(st, su) ==
  /\ Len(st) \in Nat \ {0} /\ Len(su) = Len(st)
  /\ st \in Seq(Frames) /\ su \in Seq(Suites) /\ su # << >>
  /\ Head(st) = st[1] /\ Head(su) = su[1]
  /\ su[1] \in Suites /\ FrameOf(st[1], su[1], TRUE)
  /\ \A i \in 1..(Len(st) - 1) :
       /\ Tail(st)[i] = st[i + 1] /\ Tail(su)[i] = su[i + 1]
       /\ su[i + 1] # su[1] /\ su[i + 1] \in Suites
       /\ FrameOf(st[i + 1], su[i + 1], FALSE)

LEMMA TrailIs ==
  ASSUME NEW st, NEW su, OnTrail(st, su), st # << >>
  PROVE  TrailFacts(st, su)
<1>1. /\ st \in Seq(Frames) /\ su \in Seq(Suites) /\ Len(su) = Len(st)
      /\ IsInjective(su)
      /\ \A i \in 1..Len(st) : FrameOf(st[i], su[i], i = 1)
  BY DEF OnTrail
<1>2. Len(st) \in Nat \ {0} /\ su # << >> /\ DOMAIN su = 1..Len(st)
  BY <1>1
<1>3. /\ Head(st) = st[1] /\ Head(su) = su[1] /\ su[1] \in Suites
      /\ \A i \in 1..(Len(st) - 1) : /\ Tail(st)[i] = st[i + 1]
                                     /\ Tail(su)[i] = su[i + 1]
  BY <1>1, <1>2, TailIs
<1>4. ASSUME NEW i \in 1..(Len(st) - 1)
      PROVE  /\ su[i + 1] # su[1] /\ su[i + 1] \in Suites
             /\ FrameOf(st[i + 1], su[i + 1], FALSE)
  <2>1. PICK j \in 1..Len(st) : j = i + 1 /\ j # 1
    BY <1>2
  <2>2. su[j] # su[1] /\ su[j] \in Suites
    BY <1>1, <1>2, <2>1 DEF IsInjective
  <2>3. FrameOf(st[j], su[j], FALSE)
    <3>1. FrameOf(st[j], su[j], j = 1) /\ (j = 1) = FALSE
      BY <1>1, <2>1
    <3>2. QED
      BY <3>1
  <2>4. QED
    BY <2>1, <2>2, <2>3
<1>5. FrameOf(st[1], su[1], TRUE)
  <2>1. FrameOf(st[1], su[1], 1 = 1) /\ (1 = 1) = TRUE
    BY <1>1, <1>2
  <2>2. QED
    BY <2>1
<1>6. QED
  BY <1>1, <1>2, <1>3, <1>4, <1>5 DEF TrailFacts
LEMMA TrailPops ==
  ASSUME NEW st, NEW su, OnTrail(st, su), st # << >>
  PROVE  OnTrail(Tail(st), Tail(su))
<1> DEFINE n == Len(st)
           t == Tail(st)
           u == Tail(su)
<1>0. TrailFacts(st, su)
  BY TrailIs
<1>1. /\ n \in Nat \ {0} /\ Len(su) = n /\ st \in Seq(Frames)
      /\ su \in Seq(Suites) /\ su # << >>
      /\ \A i \in 1..(n - 1) : /\ t[i] = st[i + 1] /\ u[i] = su[i + 1]
                               /\ FrameOf(st[i + 1], su[i + 1], FALSE)
  BY <1>0 DEF TrailFacts
<1>2. /\ IsInjective(su) /\ su[n] = Root
      /\ \A i \in 1..(n - 1) :
           su[i] \in ToSet(ChildrenOf[su[i + 1]]) \ ToSet(st[i + 1].children)
  BY DEF OnTrail
<1>3. /\ t \in Seq(Frames) /\ u \in Seq(Suites) /\ Len(t) = n - 1
      /\ Len(u) = n - 1 /\ IsInjective(u)
  BY <1>1, <1>2, TailIs
<1> HIDE DEF n, t, u
<1>4. t # << >> => u[Len(t)] = Root
  <2>1. SUFFICES ASSUME t # << >> PROVE u[n - 1] = Root
    BY <1>3
  <2>2. n - 1 \in 1..(n - 1) /\ (n - 1) + 1 = n
    BY <1>1, <1>3, <2>1
  <2>3. QED
    BY <1>1, <1>2, <2>2
<1>5. ASSUME NEW i \in 1..(n - 1)
      PROVE  FrameOf(t[i], u[i], i = 1)
  BY <1>1 DEF FrameOf
<1>6. ASSUME NEW i \in 1..((n - 1) - 1)
      PROVE  u[i] \in ToSet(ChildrenOf[u[i + 1]]) \ ToSet(t[i + 1].children)
  <2>1. PICK j \in 1..(n - 1) : j = i + 1
    BY <1>1
  <2>2. i \in 1..(n - 1) /\ i + 1 = j
    BY <1>1, <2>1
  <2>3. u[i] = su[j] /\ u[j] = su[j + 1] /\ t[j] = st[j + 1]
    BY <1>1, <2>2
  <2>4. su[j] \in ToSet(ChildrenOf[su[j + 1]]) \ ToSet(st[j + 1].children)
    BY <1>2
  <2>5. QED
    BY <2>1, <2>3, <2>4
<1>7. OnTrail(t, u)
  BY <1>3, <1>4, <1>5, <1>6 DEF OnTrail
<1>8. QED
  BY <1>7 DEF t, u

(***************************************************************************)
(* The suite called next is none of those under way: a suite under way is  *)
(* the root or has been called by another, and its caller is the only one  *)
(* that has it for a child.                                                *)
(***************************************************************************)
LEMMA ChildIsNew ==
  ASSUME NEW st, NEW su, OnTrail(st, su), st # << >>,
         NEW c, c \in ToSet(Head(st).children)
  PROVE  /\ c \in Suites /\ c \in ToSet(ChildrenOf[Head(su)])
         /\ \A j \in 1..Len(su) : su[j] # c
<1> DEFINE n == Len(st)
<1>0. TrailFacts(st, su)
  BY TrailIs
<1>1. /\ n \in Nat \ {0} /\ Len(su) = n /\ su \in Seq(Suites)
      /\ Head(su) = su[1] /\ su[1] \in Suites
      /\ Head(st) = st[1] /\ FrameOf(Head(st), su[1], TRUE)
  BY <1>0 DEF TrailFacts
<1>2. c \in ToSet(ChildrenOf[su[1]])
  BY <1>1 DEF FrameOf
<1>3. c \in Suites /\ c # Root
  BY <1>1, <1>2, SuiteIs
<1> HIDE DEF n
<1>4. ASSUME NEW j \in 1..n
      PROVE  su[j] # c
  <2>1. CASE j = n
    <3>1. su[n] = Root
      BY DEF OnTrail, n
    <3>2. QED
      BY <1>3, <2>1, <3>1
  <2>2. CASE j # n
    <3>1. PICK k \in 1..n : k = j + 1 /\ k # 1
      BY <1>1, <2>2
    <3>2. j \in 1..(n - 1)
      BY <1>1, <2>2
    <3>3. su[j] \in ToSet(ChildrenOf[su[k]])
      BY <3>1, <3>2 DEF OnTrail, n
    <3>4. su[k] # su[1] /\ su[k] \in Suites
      <4>1. IsInjective(su) /\ DOMAIN su = 1..n /\ 1 \in 1..n
        BY <1>1 DEF OnTrail
      <4>2. QED
        BY <1>1, <3>1, <4>1 DEF IsInjective
    <3>5. ToSet(ChildrenOf[su[k]]) \cap ToSet(ChildrenOf[su[1]]) = {}
      BY <1>1, <3>4, TreeAssumption
    <3>6. QED
      BY <1>2, <3>3, <3>5
  <2>3. QED
    BY <2>1, <2>2
<1>5. QED
  BY <1>1, <1>2, <1>3, <1>4

Pushed(st) ==
  <<Frame(Head(Head(st).children)),
    [Head(st) EXCEPT !.children = Tail(@), !.below = TRUE]>> \o Tail(st)

PushedFacts(st, su) ==
  LET c == Head(Head(st).children)
      f == [Head(st) EXCEPT !.children = Tail(@), !.below = TRUE]
      n == Len(st)
  IN  /\ n \in Nat \ {0} /\ c \in Suites /\ f \in Frames
      /\ f.tests = Head(st).tests /\ f.below = TRUE
      /\ f.children = Tail(Head(st).children)
      /\ IsInjective(f.children)
      /\ ToSet(f.children) = ToSet(Head(st).children) \ {c}
      /\ c \in ToSet(Head(st).children)
      /\ Pushed(st) \in Seq(Frames) /\ Len(Pushed(st)) = n + 1
      /\ Pushed(st)[1] = Frame(c) /\ Pushed(st)[2] = f
      /\ \A i \in 3..(n + 1) : Pushed(st)[i] = st[i - 1]
      /\ <<c>> \o su \in Seq(Suites) /\ Len(<<c>> \o su) = n + 1
      /\ (<<c>> \o su)[1] = c
      /\ \A i \in 2..(n + 1) : (<<c>> \o su)[i] = su[i - 1]

LEMMA PushedIs ==
  ASSUME options \in OptionSets, NEW st, NEW su, OnTrail(st, su), st # << >>,
         Head(st).children # << >>
  PROVE  PushedFacts(st, su)
<1> DEFINE c == Head(Head(st).children)
           f == [Head(st) EXCEPT !.children = Tail(@), !.below = TRUE]
           n == Len(st)
           h == Head(st)
<1>0. TrailFacts(st, su)
  BY TrailIs
<1>1. /\ n \in Nat \ {0} /\ Len(su) = n /\ su \in Seq(Suites)
      /\ st \in Seq(Frames) /\ FrameOf(h, su[1], TRUE)
  BY <1>0 DEF TrailFacts
<1>2. h \in Frames /\ IsInjective(h.children)
  BY <1>1 DEF FrameOf
<1>3. h.children \in Seq(Suites) /\ h.tests \in Seq(Tests)
  BY <1>2 DEF Frames
<1> HIDE DEF h
<1>4. /\ c \in Suites /\ c \in ToSet(h.children)
      /\ Tail(h.children) \in Seq(Suites) /\ IsInjective(Tail(h.children))
      /\ ToSet(Tail(h.children)) = ToSet(h.children) \ {c}
  BY <1>2, <1>3, TailIs DEF h
<1>5. /\ f \in Frames /\ f.tests = h.tests /\ f.below = TRUE
      /\ f.children = Tail(h.children)
  <2>1. f = [h EXCEPT !.children = Tail(h.children), !.below = TRUE]
    BY DEF h
  <2>2. QED
    BY <1>2, <1>4, <2>1 DEF Frames
<1>6. Frame(c) \in Frames
  BY <1>4, FrameIs DEF Frames
<1>7. /\ Tail(st) \in Seq(Frames) /\ Len(Tail(st)) = n - 1
      /\ \A i \in 1..(n - 1) : Tail(st)[i] = st[i + 1]
  BY <1>1, TailIs
<1>8. Pushed(st) = <<Frame(c), f>> \o Tail(st)
  BY DEF Pushed
<1> HIDE DEF c, f, n
<1>9. /\ Pushed(st) \in Seq(Frames) /\ Len(Pushed(st)) = n + 1
      /\ Pushed(st)[1] = Frame(c) /\ Pushed(st)[2] = f
      /\ \A i \in 3..(n + 1) : Pushed(st)[i] = st[i - 1]
  <2> DEFINE p == <<Frame(c), f>>
             t == Tail(st)
  <2>1. p \in Seq(Frames) /\ Len(p) = 2 /\ p[1] = Frame(c) /\ p[2] = f
    BY <1>5, <1>6
  <2>2. t \in Seq(Frames) /\ Len(t) = n - 1
    BY <1>7
  <2> HIDE DEF p, t
  <2>3. /\ p \o t \in Seq(Frames) /\ Len(p \o t) = Len(p) + Len(t)
        /\ \A i \in 1..(Len(p) + Len(t)) :
             (p \o t)[i] = IF i <= Len(p) THEN p[i] ELSE t[i - Len(p)]
    BY <2>1, <2>2, ConcatIs
  <2>4. 2 + (n - 1) = n + 1
    BY <1>1
  <2>5. /\ p \o t \in Seq(Frames) /\ Len(p \o t) = n + 1
        /\ \A i \in 1..(n + 1) : (p \o t)[i] = IF i <= 2 THEN p[i] ELSE t[i - 2]
    BY <2>1, <2>2, <2>3, <2>4
  <2>6. ASSUME NEW i \in 3..(n + 1)
        PROVE  (p \o t)[i] = st[i - 1]
    <3>1. PICK k \in 1..(n - 1) : k = i - 2 /\ k + 1 = i - 1
      BY <1>1
    <3>2. (p \o t)[i] = t[k]
      BY <1>1, <2>5, <3>1
    <3>3. QED
      BY <1>7, <3>1, <3>2 DEF t
  <2>7. 1 \in 1..(n + 1) /\ 2 \in 1..(n + 1)
    BY <1>1
  <2>8. QED
    BY <1>8, <2>1, <2>5, <2>6, <2>7 DEF p, t
<1>10. /\ <<c>> \o su \in Seq(Suites) /\ Len(<<c>> \o su) = n + 1
       /\ (<<c>> \o su)[1] = c
       /\ \A i \in 2..(n + 1) : (<<c>> \o su)[i] = su[i - 1]
  BY <1>1, <1>4
<1>11. QED
  BY <1>1, <1>4, <1>5, <1>9, <1>10 DEF PushedFacts, c, f, n, h

LEMMA TrailPushes ==
  ASSUME options \in OptionSets, NEW st, NEW su, OnTrail(st, su), st # << >>,
         Head(st).tests = << >>, Head(st).children # << >>
  PROVE  OnTrail(Pushed(st), <<Head(Head(st).children)>> \o su)
<1> DEFINE c == Head(Head(st).children)
           f == [Head(st) EXCEPT !.children = Tail(@), !.below = TRUE]
           n == Len(st)
           p == Pushed(st)
           u == <<c>> \o su
<1>0. TrailFacts(st, su)
  BY TrailIs
<1>p. PushedFacts(st, su)
  BY PushedIs
<1>1. /\ n \in Nat \ {0} /\ c \in Suites /\ f \in Frames
      /\ f.tests = Head(st).tests /\ f.below = TRUE
      /\ IsInjective(f.children)
      /\ ToSet(f.children) = ToSet(Head(st).children) \ {c}
      /\ c \in ToSet(Head(st).children)
      /\ p \in Seq(Frames) /\ Len(p) = n + 1
      /\ p[1] = Frame(c) /\ p[2] = f /\ \A i \in 3..(n + 1) : p[i] = st[i - 1]
      /\ u \in Seq(Suites) /\ Len(u) = n + 1
      /\ u[1] = c /\ \A i \in 2..(n + 1) : u[i] = su[i - 1]
  BY <1>p DEF PushedFacts
<1>2. /\ Len(su) = n /\ su \in Seq(Suites) /\ Head(st) = st[1]
      /\ FrameOf(st[1], su[1], TRUE)
      /\ \A i \in 1..(n - 1) : FrameOf(st[i + 1], su[i + 1], FALSE)
  BY <1>0 DEF TrailFacts
<1>3. /\ IsInjective(su) /\ su[n] = Root
      /\ \A i \in 1..(n - 1) :
           su[i] \in ToSet(ChildrenOf[su[i + 1]]) \ ToSet(st[i + 1].children)
  BY DEF OnTrail
<1>h. Head(su) = su[1]
  BY <1>0 DEF TrailFacts
<1>4. c \in ToSet(ChildrenOf[su[1]]) /\ \A j \in 1..n : su[j] # c
  BY <1>1, <1>2, <1>h, ChildIsNew
<1>5. FrameOf(Frame(c), c, TRUE)
  BY <1>1, NewFrame
<1> HIDE DEF c, f, n, p, u
<1>6. FrameOf(f, su[1], FALSE)
  <2>1. ToSet(f.children) \subseteq ToSet(ChildrenOf[su[1]])
    BY <1>1, <1>2 DEF FrameOf
  <2>2. f.tests = << >> /\ ToSet(<< >>) = {}
    BY <1>1 DEF ToSet
  <2>3. QED
    BY <1>1, <1>2, <2>1, <2>2 DEF FrameOf
<1>7. IsInjective(u)
  <2>1. ASSUME NEW i \in 1..(n + 1), NEW j \in 1..(n + 1), u[i] = u[j]
        PROVE  i = j
    <3>1. \A k \in 1..(n + 1) : k # 1 => k - 1 \in 1..n /\ u[k] = su[k - 1]
      BY <1>1
    <3>2. i = 1 <=> j = 1
      BY <1>1, <1>4, <2>1, <3>1
    <3>3. CASE i # 1
      <4>1. i - 1 \in 1..n /\ j - 1 \in 1..n /\ su[i - 1] = su[j - 1]
        BY <2>1, <3>1, <3>2, <3>3
      <4>2. i - 1 = j - 1
        BY <1>2, <1>3, <4>1 DEF IsInjective
      <4>3. QED
        BY <1>1, <4>2
    <3>4. QED
      BY <3>2, <3>3
  <2>2. DOMAIN u = 1..(n + 1)
    BY <1>1
  <2>3. QED
    BY <2>1, <2>2 DEF IsInjective
<1>8. u[n + 1] = Root
  <2>1. n + 1 \in 2..(n + 1) /\ (n + 1) - 1 = n
    BY <1>1
  <2>2. QED
    BY <1>1, <1>3, <2>1
<1>9. ASSUME NEW i \in 1..(n + 1)
      PROVE  FrameOf(p[i], u[i], i = 1)
  <2>1. CASE i = 1
    <3>1. (i = 1) = TRUE
      BY <2>1
    <3>2. QED
      BY <1>1, <1>5, <2>1, <3>1
  <2>2. CASE i = 2
    <3>1. (i = 1) = FALSE /\ u[2] = su[1]
      BY <1>1, <2>2
    <3>2. QED
      BY <1>1, <1>6, <2>2, <3>1
  <2>3. CASE i # 1 /\ i # 2
    <3>1. PICK k \in 1..(n - 1) : k = i - 2 /\ k + 1 = i - 1 /\ i \in 3..(n + 1)
      BY <1>1, <2>3
    <3>2. p[i] = st[k + 1] /\ u[i] = su[k + 1] /\ (i = 1) = FALSE
      BY <1>1, <2>3, <3>1
    <3>3. QED
      BY <1>2, <3>2
  <2>4. QED
    BY <2>1, <2>2, <2>3
<1>10. ASSUME NEW i \in 1..((n + 1) - 1)
       PROVE  u[i] \in ToSet(ChildrenOf[u[i + 1]]) \ ToSet(p[i + 1].children)
  <2>1. CASE i = 1
    <3>1. i + 1 = 2 /\ u[2] = su[1]
      BY <1>1, <2>1
    <3>2. QED
      BY <1>1, <1>4, <2>1, <3>1
  <2>2. CASE i # 1
    <3>1. PICK k \in 1..(n - 1) : k = i - 1 /\ i = k + 1
      BY <1>1, <2>2
    <3>2. /\ i + 1 \in 3..(n + 1) /\ (i + 1) - 1 = k + 1 /\ i \in 2..(n + 1)
          /\ i + 1 \in 2..(n + 1)
      BY <1>1, <3>1
    <3>3. u[i] = su[k] /\ u[i + 1] = su[k + 1] /\ p[i + 1] = st[k + 1]
      BY <1>1, <3>1, <3>2
    <3>4. QED
      BY <1>3, <3>3
  <2>3. QED
    BY <2>1, <2>2
<1>11. OnTrail(p, u)
  BY <1>1, <1>7, <1>8, <1>9, <1>10 DEF OnTrail
<1>12. QED
  BY <1>11 DEF p, u, c

LEMMA TrailGoesOn ==
  ASSUME NEW st, NEW su, OnTrail(st, su), st # << >>, Head(st).tests # << >>
  PROVE  LET f == [Head(st) EXCEPT !.tests = Tail(@)]
         IN  /\ OnTrail(<<f>> \o Tail(st), su)
             /\ f.tests = Tail(Head(st).tests)
             /\ f.children = Head(st).children /\ f.below = FALSE
             /\ (<<f>> \o Tail(st))[1] = f
             /\ Len(<<f>> \o Tail(st)) = Len(st)
             /\ \A i \in 2..Len(st) : (<<f>> \o Tail(st))[i] = st[i]
<1> DEFINE h == Head(st)
           f == [Head(st) EXCEPT !.tests = Tail(@)]
           n == Len(st)
           q == <<f>> \o Tail(st)
<1>0. TrailFacts(st, su)
  BY TrailIs
<1>1. /\ n \in Nat \ {0} /\ Len(su) = n /\ su \in Seq(Suites) /\ su # << >>
      /\ st \in Seq(Frames) /\ FrameOf(h, su[1], TRUE) /\ h = st[1]
  BY <1>0 DEF TrailFacts
<1>2. /\ h \in Frames /\ h.tests \in Seq(Tests) /\ ~h.below
      /\ h.below \in BOOLEAN
      /\ ToSet(h.tests) \subseteq ToSet(TestsOf[su[1]])
  BY <1>1 DEF FrameOf, Frames
<1>3. /\ Tail(h.tests) \in Seq(Tests)
      /\ ToSet(Tail(h.tests)) \subseteq ToSet(TestsOf[su[1]])
  BY <1>2, TailIs
<1>4. /\ f \in Frames /\ f.tests = Tail(h.tests) /\ f.children = h.children
      /\ f.below = FALSE
  <2>1. f = [h EXCEPT !.tests = Tail(h.tests)]
    OBVIOUS
  <2> HIDE DEF h, f
  <2>2. QED
    BY <1>2, <1>3, <2>1 DEF Frames
<1>5. /\ Tail(st) \in Seq(Frames) /\ Len(Tail(st)) = n - 1
      /\ \A i \in 1..(n - 1) : Tail(st)[i] = st[i + 1]
  BY <1>1, TailIs
<1>6. /\ q \in Seq(Frames) /\ Len(q) = n /\ q[1] = f
      /\ \A i \in 2..n : q[i] = st[i]
  <2> DEFINE t == Tail(st)
  <2> HIDE DEF t, n, f
  <2>1. /\ <<f>> \o t \in Seq(Frames) /\ Len(<<f>> \o t) = n
        /\ \A i \in 1..n : (<<f>> \o t)[i] = IF i <= 1 THEN f ELSE t[i - 1]
    BY <1>1, <1>4, <1>5 DEF t
  <2>2. ASSUME NEW i \in 2..n
        PROVE  (<<f>> \o t)[i] = st[i]
    <3>1. i - 1 \in 1..(n - 1) /\ (i - 1) + 1 = i /\ i \in 1..n /\ ~(i <= 1)
      BY <1>1
    <3>2. QED
      BY <1>5, <2>1, <3>1 DEF t
  <2>3. 1 \in 1..n
    BY <1>1
  <2>4. QED
    BY <2>1, <2>2, <2>3 DEF t
<1>7. FrameOf(f, su[1], TRUE)
  BY <1>1, <1>3, <1>4 DEF FrameOf
<1> HIDE DEF h, f, n, q
<1>8. OnTrail(q, su)
  <2>1. /\ IsInjective(su) /\ su[n] = Root
        /\ \A i \in 1..n : FrameOf(st[i], su[i], i = 1)
        /\ \A i \in 1..(n - 1) :
             su[i] \in ToSet(ChildrenOf[su[i + 1]]) \ ToSet(st[i + 1].children)
    BY DEF OnTrail, n
  <2>2. ASSUME NEW i \in 1..n
        PROVE  FrameOf(q[i], su[i], i = 1)
    <3>1. CASE i = 1
      <4>1. (i = 1) = TRUE
        BY <3>1
      <4>2. QED
        BY <1>6, <1>7, <3>1, <4>1
    <3>2. CASE i # 1
      <4>1. i \in 2..n
        BY <1>1, <3>2
      <4>2. QED
        BY <1>6, <2>1, <4>1
    <3>3. QED
      BY <3>1, <3>2
  <2>3. ASSUME NEW i \in 1..(n - 1)
        PROVE  su[i] \in ToSet(ChildrenOf[su[i + 1]]) \ ToSet(q[i + 1].children)
    <3>1. i + 1 \in 2..n
      BY <1>1
    <3>2. QED
      BY <1>6, <2>1, <3>1
  <2>4. QED
    BY <1>1, <1>6, <2>1, <2>2, <2>3 DEF OnTrail
<1>9. QED
  BY <1>4, <1>6, <1>8 DEF q, f, h, n
-----------------------------------------------------------------------------
(***************************************************************************)
(* The walk over the suites: what the runner knows while it runs a         *)
(* combination is what run_test and run_test_wild have left it.            *)
(***************************************************************************)
Running == {"start", "in place", "reading", "waiting", "reaping", "print",
            "next"}

Places == Running \cup {"arguments", "suite", "done", "crashed"}

Parameters == UNION {ToSet(ParametersOf[t]) : t \in Tests}

Positions(w) == {a \in [DOMAIN w -> Nat] : \A k \in DOMAIN w : a[k] \in DOMAIN w[k].values}

Turn ==
  IF options.single
    THEN wild = << >> /\ \E pairs \in RandomValues(test) :
                           fixed = FromCommandLine(test) \cup pairs
    ELSE wild = Wild(test) /\ fixed = FromCommandLine(test)

WalkInv ==
  /\ options \in OptionSets /\ pc \in Places /\ test \in Tests
  /\ \E su : OnTrail(stack, su)
  /\ options.tests = << >> => \A i \in DOMAIN stack : IsInjective(stack[i].tests)
  /\ wild \in Seq(Parameters) /\ at \in Positions(wild)
  /\ pc \in Running => /\ stack # << >> /\ Head(stack).tests # << >>
                       /\ test = Head(Head(stack).tests) /\ Turn
  /\ pc = "arguments" => stack = << >> /\ log = << >>

LEMMA WalkStarts == Init => WalkInv
<1> SUFFICES ASSUME Init PROVE WalkInv
  OBVIOUS
<1>1. /\ options \in OptionSets /\ pc = "arguments" /\ test \in Tests
      /\ stack = << >> /\ log = << >> /\ wild = << >> /\ at = << >>
  BY DEF Init
<1>2. OnTrail(stack, << >>)
  BY <1>1, TrailStarts
<1>3. wild \in Seq(Parameters) /\ DOMAIN wild = {} /\ at \in Positions(wild)
  BY <1>1 DEF Positions
<1>4. DOMAIN stack = {}
  BY <1>1
<1>5. QED
  BY <1>1, <1>2, <1>3, <1>4 DEF WalkInv, Places, Running

LEMMA OptionsStand ==
  ASSUME options' = options
  PROVE  /\ \A p : Given(p)' = Given(p)
         /\ \A t : /\ FromCommandLine(t)' = FromCommandLine(t)
                  /\ Open(t)' = Open(t) /\ Wild(t)' = Wild(t)
                  /\ RandomValues(t)' = RandomValues(t)
<1>1. \A p : Given(p)' = Given(p)
  BY DEF Given
<1>2. \A t : FromCommandLine(t)' = FromCommandLine(t)
  BY DEF FromCommandLine
<1>3. \A t : Open(t)' = Open(t)
  BY <1>1 DEF Open
<1>4. \A t : Wild(t)' = Wild(t)
  BY <1>3 DEF Wild
<1>5. \A t : RandomValues(t)' = RandomValues(t)
  BY <1>3 DEF RandomValues
<1>6. QED
  BY <1>1, <1>2, <1>3, <1>4, <1>5

LEMMA WalkStands ==
  ASSUME WalkInv, UNCHANGED <<options, stack, test, fixed, wild, at>>,
         pc' \in Places, pc' \in Running => pc \in Running,
         pc' = "arguments" => pc = "arguments" /\ log' = log
  PROVE  WalkInv'
<1>1. pc \in Running => Turn'
  BY OptionsStand DEF WalkInv, Turn
<1>2. QED
  BY <1>1 DEF WalkInv

LEMMA ParseArgumentsWalks ==
  ASSUME WalkInv, ParseArguments
  PROVE  WalkInv'
<1>1. /\ pc = "arguments" /\ pc' \in {"suite", "done"}
      /\ UNCHANGED <<options, test, fixed, wild, at, log>>
      /\ pc' = "suite" => stack' = <<Frame(Root)>>
      /\ pc' = "done" => stack' = stack
  BY DEF ParseArguments
<1>2. /\ options \in OptionSets /\ Root \in Suites
  BY SuitesAssumption DEF WalkInv
<1>3. CASE pc' = "done"
  BY <1>1, <1>3, WalkStands DEF Places, Running
<1>4. CASE pc' = "suite"
  <2>1. OnTrail(stack', <<Root>>)
    BY <1>1, <1>2, <1>4, TrailStarts
  <2>2. ASSUME options.tests = << >>, NEW i \in DOMAIN stack'
        PROVE  IsInjective(stack'[i].tests)
    <3>1. stack'[i] = Frame(Root)
      BY <1>1, <1>4
    <3>2. Frame(Root).tests = TestsOf[Root]
      BY <1>2, <2>2, FrameIs DEF Selected
    <3>3. QED
      BY <1>2, <3>1, <3>2, SuiteIs
  <2>3. /\ pc' \in Places /\ pc' \notin Running /\ pc' # "arguments"
    BY <1>4 DEF Places, Running
  <2>4. QED
    BY <1>1, <2>1, <2>2, <2>3 DEF WalkInv
<1>5. QED
  BY <1>1, <1>3, <1>4

LEMMA ChildrenWalk ==
  ASSUME WalkInv, run_suite_children
  PROVE  WalkInv'
<1>1. /\ pc = "suite" /\ stack # << >> /\ Head(stack).tests = << >>
      /\ UNCHANGED <<options, pc, test, fixed, wild, at, log>>
      /\ \/ stack' = Tail(stack)
         \/ Head(stack).children # << >> /\ stack' = Pushed(stack)
  BY DEF run_suite_children, Pushed
<1>2. options \in OptionSets
  BY DEF WalkInv
<1>3. PICK su : OnTrail(stack, su)
  BY DEF WalkInv
<1>4. TrailFacts(stack, su)
  BY <1>1, <1>3, TrailIs
<1>5. /\ stack \in Seq(Frames) /\ Len(stack) \in Nat \ {0}
      /\ DOMAIN stack = 1..Len(stack) /\ Head(stack) = stack[1]
      /\ \A i \in 1..(Len(stack) - 1) : Tail(stack)[i] = stack[i + 1]
  BY <1>4 DEF TrailFacts
<1>6. CASE stack' = Tail(stack)
  <2>1. OnTrail(stack', Tail(su))
    BY <1>1, <1>3, <1>6, TrailPops
  <2>2. ASSUME options.tests = << >>, NEW i \in DOMAIN stack'
        PROVE  IsInjective(stack'[i].tests)
    <3>1. i \in 1..(Len(stack) - 1)
      BY <1>5, <1>6
    <3>2. i + 1 \in DOMAIN stack /\ stack'[i] = stack[i + 1]
      BY <1>5, <1>6, <3>1
    <3>3. QED
      BY <2>2, <3>2 DEF WalkInv
  <2>3. QED
    BY <1>1, <2>1, <2>2 DEF WalkInv, Running
<1>7. CASE Head(stack).children # << >> /\ stack' = Pushed(stack)
  <2>1. \E us : OnTrail(stack', us)
    BY <1>1, <1>2, <1>3, <1>7, TrailPushes
  <2>2. PushedFacts(stack, su)
    BY <1>1, <1>2, <1>3, <1>7, PushedIs
  <2> DEFINE c == Head(Head(stack).children)
             n == Len(stack)
  <2>3. /\ c \in Suites /\ Len(stack') = n + 1 /\ stack'[1] = Frame(c)
        /\ stack'[2].tests = Head(stack).tests
        /\ \A i \in 3..(n + 1) : stack'[i] = stack[i - 1]
        /\ stack' \in Seq(Frames)
    BY <1>7, <2>2 DEF PushedFacts
  <2> HIDE DEF c
  <2>4. ASSUME options.tests = << >>, NEW i \in DOMAIN stack'
        PROVE  IsInjective(stack'[i].tests)
    <3>1. i \in 1..(n + 1)
      BY <1>5, <2>3
    <3>2. CASE i = 1
      <4>1. Frame(c).tests = TestsOf[c]
        BY <1>2, <2>3, <2>4, FrameIs DEF Selected
      <4>2. QED
        BY <2>3, <3>2, <4>1, SuiteIs
    <3>3. CASE i # 1
      <4>1. i - 1 \in 1..n /\ (i = 2 \/ i \in 3..(n + 1))
        BY <1>5, <3>1, <3>3
      <4>2. stack'[i].tests = stack[i - 1].tests
        BY <1>5, <2>3, <4>1
      <4>3. QED
        BY <1>5, <2>4, <4>1, <4>2 DEF WalkInv
    <3>4. QED
      BY <3>2, <3>3
  <2>5. QED
    BY <1>1, <2>1, <2>4 DEF WalkInv, Running
<1>8. QED
  BY <1>1, <1>6, <1>7

LEMMA RunTestWalks ==
  ASSUME WalkInv, run_test
  PROVE  WalkInv'
<1>1. /\ pc = "suite" /\ stack # << >> /\ Head(stack).tests # << >>
      /\ test' = Head(Head(stack).tests)
      /\ UNCHANGED <<options, stack, log>>
  BY DEF run_test
<1>2. test' \in Tests
  <2>1. PICK su : OnTrail(stack, su)
    BY DEF WalkInv
  <2>2. stack \in Seq(Frames)
    BY <2>1 DEF OnTrail
  <2>3. Head(stack).tests \in Seq(Tests)
    <3>1. Head(stack) \in Frames
      BY <1>1, <2>2
    <3>2. QED
      BY <3>1 DEF Frames
  <2>4. QED
    BY <1>1, <2>3
<1>3. CASE pc' = "crashed"
  <2>1. UNCHANGED <<fixed, wild, at>>
    BY <1>3 DEF run_test
  <2>2. QED
    BY <1>1, <1>2, <1>3, <2>1 DEF WalkInv, Places, Running
<1>4. CASE pc' # "crashed"
  <2>1. /\ pc' = "start" /\ at' = [k \in DOMAIN wild' |-> 1]
        /\ IF options.single
             THEN wild' = << >> /\ \E pairs \in RandomValues(test') :
                           fixed' = FromCommandLine(test') \cup pairs
             ELSE wild' = Wild(test') /\ fixed' = FromCommandLine(test')
    BY <1>1, <1>4 DEF run_test
  <2>2. Turn'
    BY <1>1, <2>1, OptionsStand DEF Turn
  <2>3. /\ wild' \in Seq(Parameters)
        /\ \A k \in DOMAIN wild' : HasValues(wild'[k])
    <3>1. CASE options.single
      BY <2>1, <3>1
    <3>2. CASE ~options.single
      <4>1. /\ wild' \in Seq(ToSet(ParametersOf[test']))
            /\ \A k \in DOMAIN wild' : HasValues(wild'[k])
        BY <1>2, <2>1, <3>2, WildIs
      <4>2. ToSet(ParametersOf[test']) \subseteq Parameters
        BY <1>2 DEF Parameters
      <4>3. QED
        BY <4>1, <4>2
    <3>3. QED
      BY <3>1, <3>2
  <2>4. at' \in Positions(wild')
    <3>1. ASSUME NEW k \in DOMAIN wild'
          PROVE  1 \in DOMAIN wild'[k].values
      <4>1. wild'[k] \in Parameters
        BY <2>3
      <4>2. wild'[k].values \in Seq(ToSet(wild'[k].values))
        BY <4>1, ParametersAre DEF Parameters
      <4>3. wild'[k].values # << >>
        BY <2>3, <3>1 DEF HasValues
      <4>4. QED
        BY <4>2, <4>3
    <3>2. QED
      BY <2>1, <3>1 DEF Positions
  <2>5. pc' \in Places /\ pc' # "arguments"
    BY <2>1 DEF Places, Running
  <2>6. QED
    BY <1>1, <1>2, <2>2, <2>3, <2>4, <2>5 DEF WalkInv
<1>5. QED
  BY <1>3, <1>4
LEMMA TurnableIs ==
  ASSUME WalkInv, Turnable # {}
  PROVE  LET k == Max(Turnable)
         IN  /\ k \in DOMAIN wild /\ at[k] < Len(wild[k].values)
             /\ \A j \in DOMAIN wild : j > k => ~(at[j] < Len(wild[j].values))
<1>1. wild \in Seq(Parameters)
  BY DEF WalkInv
<1>2. DOMAIN wild = 1..Len(wild) /\ Len(wild) \in Nat
  BY <1>1
<1>3. Turnable \subseteq 0..Len(wild)
  BY <1>2 DEF Turnable
<1>4. Max(Turnable) \in Turnable /\ \A j \in Turnable : j <= Max(Turnable)
  BY <1>2, <1>3, MaxIs
<1>5. Max(Turnable) \in DOMAIN wild
  BY <1>4 DEF Turnable
<1>6. ASSUME NEW j \in DOMAIN wild, j > Max(Turnable)
      PROVE  ~(at[j] < Len(wild[j].values))
  <2>1. at[j] < Len(wild[j].values) => j \in Turnable
    BY DEF Turnable
  <2>2. j \in Nat /\ Max(Turnable) \in Nat
    BY <1>2, <1>5
  <2>3. QED
    BY <1>4, <1>6, <2>1, <2>2
<1>7. QED
  BY <1>4, <1>5, <1>6 DEF Turnable

LEMMA ValuesAre ==
  ASSUME WalkInv, NEW k \in DOMAIN wild
  PROVE  /\ wild[k] \in Parameters
         /\ wild[k].values \in Seq(ToSet(wild[k].values))
         /\ IsInjective(wild[k].values)
         /\ DOMAIN wild[k].values = 1..Len(wild[k].values)
         /\ at[k] \in 1..Len(wild[k].values) /\ Len(wild[k].values) \in Nat
<1>1. wild \in Seq(Parameters) /\ at \in Positions(wild)
  BY DEF WalkInv
<1>2. wild[k] \in Parameters
  BY <1>1
<1>3. wild[k].values \in Seq(ToSet(wild[k].values)) /\ IsInjective(wild[k].values)
  BY <1>2, ParametersAre DEF Parameters
<1>4. QED
  BY <1>1, <1>2, <1>3 DEF Positions

LEMMA TurnedIs ==
  ASSUME WalkInv, Turnable # {}
  PROVE  Turned(Max(Turnable)) \in Positions(wild)
<1> DEFINE k == Max(Turnable)
           new(j) == IF j < k THEN at[j] ELSE IF j = k THEN at[j] + 1 ELSE 1
<1>1. k \in DOMAIN wild /\ at[k] < Len(wild[k].values)
  BY TurnableIs
<1>2. at \in [DOMAIN wild -> Nat]
  BY DEF WalkInv, Positions
<1>3. ASSUME NEW j \in DOMAIN wild
      PROVE  new(j) \in DOMAIN wild[j].values /\ new(j) \in Nat
  <2>1. /\ DOMAIN wild[j].values = 1..Len(wild[j].values)
        /\ at[j] \in 1..Len(wild[j].values) /\ Len(wild[j].values) \in Nat
    BY ValuesAre
  <2>2. QED
    BY <1>1, <2>1
<1>4. Turned(k) = [j \in DOMAIN wild |-> new(j)]
  BY <1>2 DEF Turned
<1>5. QED
  BY <1>3, <1>4 DEF Positions

(***************************************************************************)
(* Where run_suite goes on after a test: it has one test less to run, or   *)
(* none.                                                                   *)
(***************************************************************************)
LEMMA AfterTestIs ==
  ASSUME WalkInv, stack # << >>, Head(stack).tests # << >>,
         NEW su, OnTrail(stack, su)
  PROVE  \/ /\ options.tests # << >> /\ options.fatal_failures /\ HasFailed
            /\ AfterTest = Tail(stack) /\ OnTrail(AfterTest, Tail(su))
         \/ /\ ~(options.tests # << >> /\ options.fatal_failures /\ HasFailed)
            /\ OnTrail(AfterTest, su) /\ Len(AfterTest) = Len(stack)
            /\ AfterTest[1].tests = Tail(Head(stack).tests)
            /\ AfterTest[1].children = Head(stack).children
            /\ AfterTest[1].below = FALSE
            /\ \A i \in 2..Len(stack) : AfterTest[i] = stack[i]
<1>1. CASE options.tests # << >> /\ options.fatal_failures /\ HasFailed
  <2>1. AfterTest = Tail(stack)
    BY <1>1 DEF AfterTest
  <2>2. OnTrail(Tail(stack), Tail(su))
    BY TrailPops
  <2>3. QED
    BY <1>1, <2>1, <2>2
<1>2. CASE ~(options.tests # << >> /\ options.fatal_failures /\ HasFailed)
  <2> DEFINE f == [Head(stack) EXCEPT !.tests = Tail(@)]
  <2>1. AfterTest = <<f>> \o Tail(stack)
    BY <1>2 DEF AfterTest
  <2>2. /\ OnTrail(<<f>> \o Tail(stack), su)
        /\ f.tests = Tail(Head(stack).tests)
        /\ f.children = Head(stack).children /\ f.below = FALSE
        /\ (<<f>> \o Tail(stack))[1] = f
        /\ Len(<<f>> \o Tail(stack)) = Len(stack)
        /\ \A i \in 2..Len(stack) : (<<f>> \o Tail(stack))[i] = stack[i]
    BY TrailGoesOn
  <2> HIDE DEF f
  <2>3. QED
    BY <1>2, <2>1, <2>2
<1>3. QED
  BY <1>1, <1>2

LEMMA RunTestWildWalks ==
  ASSUME WalkInv, run_test_wild
  PROVE  WalkInv'
<1>1. /\ pc = "next" /\ UNCHANGED <<options, test, fixed, wild, log>>
      /\ \/ /\ Turnable # {} /\ pc' = "start"
            /\ at' = Turned(Max(Turnable)) /\ UNCHANGED stack
         \/ pc' = "suite" /\ stack' = AfterTest /\ UNCHANGED at
  BY DEF run_test_wild
<1>2. /\ stack # << >> /\ Head(stack).tests # << >>
      /\ test = Head(Head(stack).tests) /\ Turn
  BY <1>1 DEF WalkInv, Running
<1>3. CASE Turnable # {} /\ pc' = "start" /\ at' = Turned(Max(Turnable))
           /\ UNCHANGED stack
  <2>1. at' \in Positions(wild')
    BY <1>1, <1>3, TurnedIs
  <2>2. Turn'
    BY <1>1, <1>2, OptionsStand DEF Turn
  <2>3. pc' \in Places /\ pc' # "arguments"
    BY <1>3 DEF Places, Running
  <2>4. QED
    BY <1>1, <1>2, <1>3, <2>1, <2>2, <2>3 DEF WalkInv
<1>4. CASE pc' = "suite" /\ stack' = AfterTest /\ UNCHANGED at
  <2>1. PICK su : OnTrail(stack, su)
    BY DEF WalkInv
  <2>2. TrailFacts(stack, su)
    BY <1>2, <2>1, TrailIs
  <2>3. /\ stack \in Seq(Frames) /\ Len(stack) \in Nat \ {0}
        /\ DOMAIN stack = 1..Len(stack) /\ Head(stack) = stack[1]
        /\ \A i \in 1..(Len(stack) - 1) : Tail(stack)[i] = stack[i + 1]
    BY <2>2 DEF TrailFacts
  <2>4. \E us : OnTrail(stack', us)
    BY <1>2, <1>4, <2>1, AfterTestIs
  <2>5. ASSUME options.tests = << >>
        PROVE  \A i \in DOMAIN stack' : IsInjective(stack'[i].tests)
    <3>1. /\ OnTrail(stack', su) /\ Len(stack') = Len(stack)
          /\ stack'[1].tests = Tail(Head(stack).tests)
          /\ \A i \in 2..Len(stack) : stack'[i] = stack[i]
      BY <1>2, <1>4, <2>1, <2>5, AfterTestIs
    <3>2. DOMAIN stack' = 1..Len(stack)
      BY <3>1 DEF OnTrail
    <3>3. IsInjective(Tail(Head(stack).tests))
      <4>1. Head(stack).tests \in Seq(Tests) /\ IsInjective(Head(stack).tests)
        <5>1. Head(stack) \in Frames /\ 1 \in DOMAIN stack
          BY <2>3
        <5>2. QED
          BY <2>3, <2>5, <5>1 DEF WalkInv, Frames
      <4>2. QED
        BY <1>2, <4>1, TailIs
    <3>4. ASSUME NEW i \in 1..Len(stack), i # 1
          PROVE  IsInjective(stack'[i].tests)
      <4>1. i \in 2..Len(stack)
        BY <2>3, <3>4
      <4>2. QED
        BY <2>3, <2>5, <3>1, <4>1 DEF WalkInv
    <3>5. QED
      BY <3>1, <3>2, <3>3, <3>4
  <2>6. pc' \in Places /\ pc' \notin Running /\ pc' # "arguments"
    BY <1>4 DEF Places, Running
  <2>7. QED
    BY <1>1, <1>4, <2>4, <2>5, <2>6 DEF WalkInv
<1>5. QED
  BY <1>1, <1>3, <1>4

OtherSteps ==
  \/ SuitesRun \/ fork \/ RunsInPlace \/ ReadReport \/ EndOfPipe
  \/ waitpid \/ waitpid_again \/ print_result
  \/ TestEnds \/ SomethingFails

LEMMA OthersLeave ==
  ASSUME RInv, WalkInv, OtherSteps
  PROVE  /\ UNCHANGED <<options, stack, test, fixed, wild, at>>
         /\ pc' \in Places /\ (pc' \in Running => pc \in Running)
         /\ pc' # "arguments" /\ pc' # "suite" /\ pc # "next"
         /\ pc' = "done" => pc = "suite" /\ stack = << >>
         /\ print_result \/ (log' = log /\ pc' # "next" /\ runner' = runner)
<1> USE DEF Places, Running, Begin, Unchanged
<1>1. CASE \/ SuitesRun \/ fork \/ RunsInPlace \/ ReadReport \/ EndOfPipe
           \/ waitpid \/ waitpid_again
  BY <1>1 DEF SuitesRun, fork, RunsInPlace, ReadReport, EndOfPipe, waitpid,
              waitpid_again
<1>2. CASE print_result
  BY <1>2 DEF print_result
<1>3. CASE \/ BufferFails \/ PipeFails \/ ForkFails \/ ReadFails
           \/ waitpid_fails \/ waitpid_again_fails
  BY <1>3 DEF BufferFails, PipeFails, ForkFails, ReadFails, waitpid_fails,
              waitpid_again_fails
<1>4. CASE TestEnds \/ TestReturnsOther \/ errorf \/ Dies \/ TestExits
  <2>1. pc \in {"in place", "reading", "waiting", "reaping"}
    <3>1. child.state \notin Gone
      BY <1>4 DEF Gone, TestEnds, TestReturnsOK, WriteReport,
         TestReturnsOther, errorf, Dies, TestExits, Ends
    <3>2. QED
      BY <3>1 DEF RInv, ChildPlace
  <2>2. /\ UNCHANGED <<options, stack, test, fixed, wild, at, runner, log>>
        /\ pc' = pc \/ pc' \in {"print", "crashed"}
    BY <1>4 DEF TestEnds, TestReturnsOK, WriteReport, TestReturnsOther, errorf,
                Dies, TestExits, Ends, Reported
  <2>3. QED
    BY <2>1, <2>2
<1>5. QED
  BY <1>1, <1>2, <1>3, <1>4 DEF OtherSteps, SomethingFails

LEMMA WalkStays ==
  ASSUME RInv, WalkInv, [Next]_vars
  PROVE  WalkInv'
<1>1. CASE OtherSteps
  BY <1>1, OthersLeave, WalkStands
<1>2. CASE UNCHANGED vars
  BY <1>2, WalkStands DEF vars, WalkInv
<1>3. QED
  BY <1>1, <1>2, ParseArgumentsWalks, ChildrenWalk, RunTestWalks,
     RunTestWildWalks DEF Next, RunnerGoesOn, OtherSteps
-----------------------------------------------------------------------------
(* Types.                                                                  *)

Truths == {"nothing", "skipped", "not run"} \cup Well \cup Bad

RestInv ==
  /\ exit \in {"none", "success", "failure"}
  /\ truth \in Truths
  /\ child.state \notin Gone => received <= child.sent

LEMMA RestStarts == Init => RestInv
  BY NoChildFacts DEF Init, RestInv, Truths, Gone

LEMMA SentCounts ==
  ASSUME NEW c \in Child
  PROVE  c.sent \in Nat
  BY ReportSizeAssumption DEF Child

LEMMA SentStays ==
  ASSUME RInv, RestInv, child' \in Child, child'.sent >= child.sent,
         child.state \notin Gone, received' = received
  PROVE  received' <= child'.sent
<1>1. child \in Child /\ received \in Nat
  BY DEF RInv, Types
<1>2. child.sent \in Nat /\ child'.sent \in Nat /\ received <= child.sent
  BY <1>1, SentCounts DEF RestInv
<1>3. QED
  BY <1>1, <1>2

LEMMA ChildMovesOn ==
  ASSUME RInv, RInv', RestInv, child.state \notin Gone, received' = received,
         child'.sent >= child.sent, exit' \in {"none", "success", "failure"},
         (\E happened \in Truths : Note(happened)) \/ truth' = truth
  PROVE  RestInv'
<1>1. received' <= child'.sent
  BY SentStays DEF RInv, Types
<1>2. truth' \in Truths
  BY DEF RestInv, Note, Truths, Bad
<1>3. QED
  BY <1>1, <1>2 DEF RestInv

LEMMA ChildGoes ==
  ASSUME RestInv, child' = NoChild, exit' \in {"none", "success", "failure"},
         (\E happened \in Truths : Note(happened)) \/ truth' = truth
  PROVE  RestInv'
  BY NoChildFacts DEF RestInv, Note, Truths, Bad, Gone

LEMMA TestStepsRest ==
  ASSUME RInv, RInv', RestInv,
         \/ TestReturnsOK \/ TestReturnsOther \/ errorf \/ WriteReport
         \/ Dies \/ TestExits
  PROVE  RestInv'
<1>1. child \in Child /\ child.state \notin Gone
  BY DEF RInv, Types, Gone, TestReturnsOK, TestReturnsOther, errorf,
     WriteReport, Dies, TestExits, Ends
<1>2. received' = received /\ exit' \in {"none", "success", "failure"}
  BY DEF RestInv, Unchanged, TestReturnsOK, TestReturnsOther, errorf,
     WriteReport, Dies, TestExits, Ends
<1>3. (\E happened \in Truths : Note(happened)) \/ truth' = truth
  <2>1. {"passed", "passed before", "skipped", "bad", "not run"} \subseteq Truths
    BY DEF Truths, Well, Bad
  <2>2. CASE TestReturnsOther
    <3>1. ASSUME NEW result \in {"skipped", "failed", "errored"},
                 Note(IF result = "skipped" THEN "skipped" ELSE "bad")
          PROVE  Note("skipped") \/ Note("bad")
      BY <3>1
    <3>2. ASSUME Note(IF child.report.successful > 0
                      THEN "passed before" ELSE "not run")
          PROVE  Note("passed before") \/ Note("not run")
      BY <3>2
    <3>3. QED
      BY <2>1, <2>2, <3>1, <3>2 DEF TestReturnsOther
  <2>3. CASE TestReturnsOK \/ errorf \/ WriteReport \/ Dies \/ TestExits
    BY <2>1, <2>3 DEF TestReturnsOK, errorf, WriteReport, Dies, TestExits, Ends
  <2>4. QED
    BY <2>2, <2>3
<1>4. child' = NoChild \/ child'.sent >= child.sent
  <2>1. \/ child' = NoChild
        \/ \E x : child' = [child EXCEPT !.state = x]
        \/ \E x, y : child' = [child EXCEPT !.state = x, !.report = y]
        \/ \E x, y : child' = [child EXCEPT !.report = x, !.iteration = y]
        \/ child' = [child EXCEPT !.sent = @ + 1]
    BY DEF TestReturnsOK, TestReturnsOther, errorf, WriteReport, Dies,
       TestExits, Ends, Reported
  <2>2. child.sent \in Nat
    BY <1>1, SentCounts
  <2>3. CASE child' = [child EXCEPT !.sent = @ + 1]
    <3>1. child'.sent = child.sent + 1
      BY <1>1, <2>3 DEF Child
    <3>2. QED
      BY <2>2, <3>1
  <2>4. ASSUME child' # NoChild, child' # [child EXCEPT !.sent = @ + 1]
        PROVE  child'.sent = child.sent
    <3>1. ASSUME NEW x, child' = [child EXCEPT !.state = x]
          PROVE  child'.sent = child.sent
      BY <1>1, <3>1 DEF Child
    <3>2. ASSUME NEW x, NEW y, child' = [child EXCEPT !.state = x, !.report = y]
          PROVE  child'.sent = child.sent
      BY <1>1, <3>2 DEF Child
    <3>3. ASSUME NEW x, NEW y,
                 child' = [child EXCEPT !.report = x, !.iteration = y]
          PROVE  child'.sent = child.sent
      BY <1>1, <3>3 DEF Child
    <3>4. QED
      BY <2>1, <2>4, <3>1, <3>2, <3>3, Zenon
  <2>5. QED
    BY <2>2, <2>3, <2>4
<1>5. QED
  BY <1>1, <1>2, <1>3, <1>4, ChildMovesOn, ChildGoes

LEMMA RunnerStepsRest ==
  ASSUME RInv, RInv', RestInv,
         \/ ReadReport \/ EndOfPipe \/ ReadFails \/ waitpid \/ waitpid_fails
         \/ waitpid_again \/ waitpid_again_fails \/ print_result
  PROVE  RestInv'
<1>1. CASE ReadReport
  <2>1. /\ received' \in (received + 1)..child.sent /\ child' = child
        /\ UNCHANGED <<exit, truth>>
    BY <1>1 DEF ReadReport
  <2>2. child.sent \in Nat /\ received \in Nat
    BY SentCounts DEF RInv, Types
  <2>3. received' <= child.sent
    BY <2>1, <2>2
  <2>4. QED
    BY <2>1, <2>3 DEF RestInv
<1>2. CASE EndOfPipe \/ ReadFails \/ waitpid_fails \/ print_result
  BY <1>2 DEF EndOfPipe, ReadFails, waitpid_fails, print_result, RestInv, Note,
              Unchanged, Truths, Bad
<1>3. CASE waitpid \/ waitpid_again
  BY <1>3, ChildGoes DEF waitpid, waitpid_again, RestInv, Unchanged
<1>4. CASE waitpid_again_fails
  <2>1. /\ pc = "reaping" /\ child' = [child EXCEPT !.state = "left"]
        /\ truth' = "left" /\ received' = received /\ exit' = exit
    BY <1>4 DEF waitpid_again_fails, Unchanged
  <2>2. child'.state \in Gone
    BY <2>1 DEF RInv, Types, Child, Gone
  <2>3. truth' \in Truths
    BY <2>1 DEF Truths, Bad
  <2>4. QED
    BY <2>1, <2>2, <2>3 DEF RestInv
<1>5. QED
  BY <1>1, <1>2, <1>3, <1>4

LEMMA WalkStepsRest ==
  ASSUME RestInv,
         \/ ParseArguments \/ SuitesRun \/ run_suite_children \/ run_test
         \/ run_test_wild \/ UNCHANGED vars
  PROVE  RestInv'
<1>1. UNCHANGED <<child, received, truth>>
  BY DEF ParseArguments, SuitesRun, run_suite_children, run_test,
     run_test_wild, vars
<1>2. exit' \in {"none", "success", "failure"}
  BY DEF RestInv, ParseArguments, SuitesRun, run_suite_children, run_test,
     run_test_wild, vars
<1>3. QED
  BY <1>1, <1>2 DEF RestInv

LEMMA BeginRests ==
  ASSUME RestInv, BufferFails \/ PipeFails \/ ForkFails \/ fork \/ RunsInPlace
  PROVE  RestInv'
<1>1. PICK p, process, rep, happened :
        /\ Begin(p, process, rep, happened)
        /\ process = NoChild \/ process = [NoChild EXCEPT !.state = "running"]
        /\ happened \in {"not run", "bad", "nothing"}
  BY DEF BufferFails, PipeFails, ForkFails, fork, RunsInPlace
<1>2. received' = 0 /\ child' = process /\ truth' = happened /\ exit' = exit
  BY <1>1 DEF Begin
<1>3. process.sent = 0
  <2>1. NoChild.sent = 0 /\ [NoChild EXCEPT !.state = "running"].sent = 0
    BY DEF NoChild
  <2>2. QED
    BY <1>1, <2>1
<1>4. received' <= child'.sent
  BY <1>2, <1>3
<1>5. truth' \in Truths
  BY <1>1, <1>2 DEF Truths, Bad
<1>6. QED
  BY <1>2, <1>4, <1>5 DEF RestInv

LEMMA RestStays ==
  ASSUME RInv, RInv', RestInv, [Next]_vars
  PROVE  RestInv'
  BY TestStepsRest, RunnerStepsRest, WalkStepsRest, BeginRests
     DEF Next, RunnerGoesOn, TestEnds, SomethingFails

(***************************************************************************)
(* The whole invariant of the runner, for each of its steps.               *)
(***************************************************************************)
THEOREM Walking == Spec => [](RInv /\ WalkInv /\ RestInv)
<1> DEFINE Inv == RInv /\ WalkInv /\ RestInv
<1>1. Init => Inv
  BY InitRInv, WalkStarts, RestStarts
<1>2. Inv /\ [Next]_vars => Inv'
  BY RInvStays, WalkStays, RestStays
<1>3. QED
  BY <1>1, <1>2, PTL DEF Spec

(***************************************************************************)
(* The positions of run_test_wild are within the values of its parameters, *)
(* the tests it is about to run are tests, the counters are counters, for  *)
(* every tree of suites and every command line.                            *)
(***************************************************************************)
THEOREM TypeCorrect == Spec => []TypeOK
<1>1. RInv /\ WalkInv /\ RestInv => TypeOK
  <2> SUFFICES ASSUME RInv, WalkInv, RestInv PROVE TypeOK
    OBVIOUS
  <2>1. PICK su : OnTrail(stack, su)
    BY DEF WalkInv
  <2>2. stack \in Seq(Frames)
    BY <2>1 DEF OnTrail
  <2>3. \A k \in DOMAIN stack : stack[k].tests \in Seq(Tests)
    <3>1. \A k \in DOMAIN stack : stack[k] \in Frames
      BY <2>2
    <3>2. QED
      BY <3>1 DEF Frames
  <2>4. DOMAIN at = DOMAIN wild /\ \A k \in DOMAIN at : at[k] \in DOMAIN wild[k].values
    BY DEF WalkInv, Positions
  <2>5. /\ child.state \in State /\ child.report \in Report
        /\ report \in Report /\ runner \in Report
    BY DEF RInv, Types, Child
  <2>6. options \in OptionSets /\ pc \in Places /\ test \in Tests
    BY DEF WalkInv
  <2>7. QED
    BY <2>3, <2>4, <2>5, <2>6 DEF TypeOK, RestInv, State, Places, Running,
                                    Gone, Truths
<1>2. QED
  BY <1>1, Walking, PTL
-----------------------------------------------------------------------------
(***************************************************************************)
(* With --fatal-failures: what run_suite may still come to after a test    *)
(* that failed is not that test.                                           *)
(***************************************************************************)
LastEntry == log[Len(log)]

LastWasBad ==
  log # << >> /\ LastEntry.was \in Bad /\ LastEntry.test \notin Todo

NotAgain(st, t) ==
  \A i \in 1..Len(st) :
    /\ t \notin ToSet(st[i].tests)
    /\ st[i].below => \A c \in ToSet(st[i].children) : t \notin ToSet(TestsOf[c])

FatalInv ==
  options.fatal_failures =>
    /\ FatalStopsTheTest
    /\ LastWasBad => /\ HasFailed
                     /\ IF pc = "next" THEN test = LastEntry.test
                        ELSE NotAgain(stack, LastEntry.test)

LEMMA FatalStarts == Init => FatalInv
<1> SUFFICES ASSUME Init PROVE FatalInv
  OBVIOUS
<1>1. log = << >> /\ Len(log) = 0
  BY DEF Init
<1>2. QED
  BY <1>1 DEF FatalInv, FatalStopsTheTest, LastWasBad

LEMMA FatalStands ==
  ASSUME FatalInv, UNCHANGED <<options, log, runner>>,
         LastWasBad => IF pc' = "next" THEN pc = "next" /\ test' = test
                       ELSE NotAgain(stack', LastEntry.test)
  PROVE  FatalInv'
<1>1. LastWasBad' = LastWasBad /\ LastEntry' = LastEntry /\ HasFailed' = HasFailed
      /\ FatalStopsTheTest' = FatalStopsTheTest
  BY DEF LastWasBad, LastEntry, HasFailed, FatalStopsTheTest
<1>2. QED
  BY <1>1 DEF FatalInv

(***************************************************************************)
(* A test is not to come again when it is over: not in its suite, where    *)
(* the tests that are left are others, nor in a suite that its callers     *)
(* have still to call, which is another.                                   *)
(***************************************************************************)
LEMMA OverIsOver ==
  ASSUME WalkInv, pc = "next", options.fatal_failures, HasFailed
  PROVE  NotAgain(AfterTest, test)
<1>1. PICK su : OnTrail(stack, su)
  BY DEF WalkInv
<1>2. /\ stack # << >> /\ Head(stack).tests # << >>
      /\ test = Head(Head(stack).tests)
  BY DEF WalkInv, Running
<1>3. TrailFacts(stack, su)
  BY <1>1, <1>2, TrailIs
<1> DEFINE n == Len(stack)
<1>4. /\ n \in Nat \ {0} /\ Len(su) = n /\ su \in Seq(Suites)
      /\ stack \in Seq(Frames) /\ Head(stack) = stack[1]
      /\ su[1] \in Suites /\ FrameOf(stack[1], su[1], TRUE)
      /\ \A i \in 1..(n - 1) :
           /\ Tail(stack)[i] = stack[i + 1]
           /\ su[i + 1] # su[1] /\ su[i + 1] \in Suites
           /\ FrameOf(stack[i + 1], su[i + 1], FALSE)
  BY <1>3 DEF TrailFacts
<1>5. Head(stack).tests \in Seq(Tests)
  BY <1>4 DEF FrameOf, Frames
<1>6. test \in ToSet(TestsOf[su[1]])
  <2>1. test \in ToSet(Head(stack).tests)
    BY <1>2, <1>5, TailIs
  <2>2. QED
    BY <1>4, <2>1 DEF FrameOf
<1> HIDE DEF n
<1>7. ASSUME NEW i \in 2..n
      PROVE  /\ test \notin ToSet(stack[i].tests)
             /\ \A c \in ToSet(stack[i].children) : test \notin ToSet(TestsOf[c])
  <2>1. PICK j \in 1..(n - 1) : i = j + 1
    <3>1. i - 1 \in 1..(n - 1) /\ i = (i - 1) + 1
      BY <1>4
    <3>2. QED
      BY <3>1
  <2>2. FrameOf(stack[i], su[i], FALSE) /\ su[i] \in Suites /\ su[i] # su[1]
    BY <1>4, <2>1
  <2>3. stack[i].tests = << >> /\ ToSet(<< >>) = {}
    BY <2>2 DEF FrameOf, ToSet
  <2>4. ASSUME NEW c \in ToSet(stack[i].children), test \in ToSet(TestsOf[c])
        PROVE  FALSE
    <3>1. c \in ToSet(ChildrenOf[su[i]])
      BY <2>2 DEF FrameOf
    <3>2. c \in Suites
      BY <2>2, <3>1, SuiteIs
    <3>3. c = su[1]
      BY <1>4, <1>6, <2>4, <3>2, TreeAssumption
    <3>4. 1 \in 1..(n - 1) /\ 1 + 1 = 2
      BY <1>4, <2>1
    <3>5. su[1] \in ToSet(ChildrenOf[su[2]]) \ ToSet(stack[2].children)
      BY <1>1, <3>4 DEF OnTrail, n
    <3>6. su[2] \in Suites
      BY <1>4, <3>4
    <3>7. su[2] = su[i]
      BY <2>2, <3>1, <3>3, <3>5, <3>6, TreeAssumption
    <3>8. i = 2
      <4>1. IsInjective(su) /\ DOMAIN su = 1..n /\ i \in 1..n /\ 2 \in 1..n
        BY <1>1, <1>4, <3>4 DEF OnTrail
      <4>2. QED
        BY <3>7, <4>1 DEF IsInjective
    <3>9. QED
      BY <2>4, <3>3, <3>5, <3>8
  <2>5. QED
    BY <2>3, <2>4
<1>8. CASE options.tests # << >>
  <2>1. AfterTest = Tail(stack)
    BY <1>8 DEF AfterTest
  <2>2. Len(Tail(stack)) = n - 1
    BY <1>2, <1>4, TailIs DEF n
  <2>3. \A i \in 1..(n - 1) : i + 1 \in 2..n
    BY <1>4
  <2>4. \A i \in 1..(n - 1) : Tail(stack)[i] = stack[i + 1]
    BY <1>4
  <2>5. QED
    BY <1>7, <2>1, <2>2, <2>3, <2>4 DEF NotAgain
<1>9. CASE options.tests = << >>
  <2>1. /\ Len(AfterTest) = n /\ AfterTest[1].below = FALSE
        /\ AfterTest[1].tests = Tail(Head(stack).tests)
        /\ \A i \in 2..n : AfterTest[i] = stack[i]
    BY <1>1, <1>2, <1>9, AfterTestIs DEF n
  <2>2. test \notin ToSet(Tail(Head(stack).tests))
    <3>1. IsInjective(Head(stack).tests)
      <4>1. 1 \in DOMAIN stack
        BY <1>4 DEF n
      <4>2. QED
        BY <1>4, <1>9, <4>1 DEF WalkInv
    <3>2. QED
      BY <1>2, <1>5, <3>1, TailIs
  <2>3. \A i \in 1..n : i = 1 \/ i \in 2..n
    BY <1>4
  <2>4. QED
    BY <1>7, <2>1, <2>2, <2>3 DEF NotAgain
<1>10. QED
  BY <1>8, <1>9

LEMMA ChildrenFatal ==
  ASSUME WalkInv, FatalInv, run_suite_children
  PROVE  FatalInv'
<1>1. /\ pc = "suite" /\ stack # << >> /\ Head(stack).tests = << >>
      /\ UNCHANGED <<options, pc, test, log, runner>>
      /\ stack' = IF \/ Head(stack).children = << >>
                     \/ /\ ~Head(stack).below
                        /\ options.fatal_failures /\ HasFailed
                  THEN Tail(stack) ELSE Pushed(stack)
  BY DEF run_suite_children, Pushed
<1>2. SUFFICES ASSUME options.fatal_failures, LastWasBad
               PROVE  NotAgain(stack', LastEntry.test)
  <2>1. options.fatal_failures \/ ~options.fatal_failures => FatalInv'
    <3>1. CASE options.fatal_failures
      BY <1>1, <1>2, <3>1, FatalStands
    <3>2. CASE ~options.fatal_failures
      BY <1>1, <3>2 DEF FatalInv
    <3>3. QED
      BY <3>1, <3>2
  <2>2. QED
    BY <2>1
<1> DEFINE t == LastEntry.test
           n == Len(stack)
<1>3. HasFailed /\ NotAgain(stack, t)
  BY <1>1, <1>2 DEF FatalInv
<1> HIDE DEF t
<1>4. PICK su : OnTrail(stack, su)
  BY DEF WalkInv
<1>5. TrailFacts(stack, su)
  BY <1>1, <1>4, TrailIs
<1>6. /\ stack \in Seq(Frames) /\ n \in Nat \ {0} /\ Head(stack) = stack[1]
      /\ \A i \in 1..(n - 1) : Tail(stack)[i] = stack[i + 1]
  BY <1>5 DEF TrailFacts
<1>7. \A i \in 1..n :
        /\ t \notin ToSet(stack[i].tests)
        /\ stack[i].below
             => \A c \in ToSet(stack[i].children) : t \notin ToSet(TestsOf[c])
  BY <1>3 DEF NotAgain
<1>8. CASE stack' = Tail(stack)
  <2>1. Len(Tail(stack)) = n - 1
    BY <1>1, <1>6, TailIs
  <2> HIDE DEF n
  <2>2. \A i \in 1..(n - 1) : i + 1 \in 1..n
    BY <1>6
  <2>3. \A i \in 1..(n - 1) : Tail(stack)[i] = stack[i + 1]
    BY <1>6
  <2>4. NotAgain(Tail(stack), t)
    BY <1>7, <2>1, <2>2, <2>3 DEF NotAgain
  <2>5. QED
    BY <1>8, <2>4 DEF t
<1>9. CASE stack' # Tail(stack)
  <2>1. Head(stack).children # << >> /\ Head(stack).below /\ stack' = Pushed(stack)
    BY <1>1, <1>2, <1>3, <1>9
  <2>2. options \in OptionSets
    BY DEF WalkInv
  <2>3. PushedFacts(stack, su)
    BY <1>1, <1>4, <2>1, <2>2, PushedIs
  <2> DEFINE c == Head(Head(stack).children)
             p == Pushed(stack)
  <2>4. /\ c \in Suites /\ c \in ToSet(Head(stack).children)
        /\ Len(p) = n + 1 /\ p[1] = Frame(c)
        /\ p[2].tests = Head(stack).tests
        /\ ToSet(p[2].children) = ToSet(Head(stack).children) \ {c}
        /\ \A i \in 3..(n + 1) : p[i] = stack[i - 1]
    BY <2>3 DEF PushedFacts
  <2> HIDE DEF c, p, n
  <2>5. t \notin ToSet(TestsOf[c])
    BY <1>6, <1>7, <2>1, <2>4
  <2>6. t \notin ToSet(Frame(c).tests) /\ Frame(c).below = FALSE
    <3>1. Frame(c).tests \in Seq(ToSet(TestsOf[c])) /\ Frame(c).below = FALSE
      BY <2>2, <2>4, FrameIs, SelectedIs
    <3>2. QED
      BY <2>5, <3>1 DEF ToSet
  <2>7. /\ t \notin ToSet(p[2].tests)
        /\ \A d \in ToSet(p[2].children) : t \notin ToSet(TestsOf[d])
    BY <1>6, <1>7, <2>1, <2>4
  <2>8. ASSUME NEW i \in 3..(n + 1)
        PROVE  i - 1 \in 1..n /\ p[i] = stack[i - 1]
    BY <1>6, <2>4
  <2>9. \A i \in 1..(n + 1) : i = 1 \/ i = 2 \/ i \in 3..(n + 1)
    BY <1>6
  <2>10. NotAgain(p, t)
    BY <1>7, <2>4, <2>6, <2>7, <2>8, <2>9 DEF NotAgain
  <2>11. QED
    BY <2>1, <2>10 DEF p, t
<1>10. QED
  BY <1>8, <1>9

(***************************************************************************)
(* A combination printed as bad leaves a failure in the runner, and comes  *)
(* after one that was not this test's, or was not bad.                     *)
(***************************************************************************)
LEMMA BadIsCounted ==
  ASSUME RInv, print_result, truth \in Bad, test \notin Todo
  PROVE  HasFailed'
<1>1. /\ report \in Report /\ runner \in Report /\ Tells(report, truth)
      /\ runner' = IF Verdict \in DOMAIN runner
                   THEN [runner EXCEPT ![Verdict] = @ + 1] ELSE runner
  BY DEF RInv, Types, AfterInv, print_result
<1>2. Verdict \in {"failed", "errored"}
  BY <1>1, VerdictIsTrue
<1>3. DOMAIN runner = Counters /\ runner \in [Counters -> Nat]
  BY <1>1, ZeroCounts DEF Report
<1>4. CASE Verdict = "failed"
  <2>1. runner'.failed = runner.failed + 1 /\ runner.failed \in Nat
    BY <1>1, <1>3, <1>4 DEF Counters
  <2>2. QED
    BY <2>1 DEF HasFailed
<1>5. CASE Verdict = "errored"
  <2>1. runner'.errored = runner.errored + 1 /\ runner.errored \in Nat
    BY <1>1, <1>3, <1>5 DEF Counters
  <2>2. QED
    BY <2>1 DEF HasFailed
<1>6. QED
  BY <1>2, <1>4, <1>5

LEMMA TestIsNext ==
  ASSUME WalkInv, pc \in Running
  PROVE  /\ 1 \in 1..Len(stack) /\ Head(stack) = stack[1]
         /\ test \in ToSet(stack[1].tests)
<1>1. PICK su : OnTrail(stack, su)
  BY DEF WalkInv
<1>2. /\ stack # << >> /\ Head(stack).tests # << >>
      /\ test = Head(Head(stack).tests)
  BY DEF WalkInv
<1>3. TrailFacts(stack, su)
  BY <1>1, <1>2, TrailIs
<1>4. /\ stack \in Seq(Frames) /\ Len(stack) \in Nat \ {0}
      /\ Head(stack) = stack[1]
  BY <1>3 DEF TrailFacts
<1>5. 1 \in 1..Len(stack)
  BY <1>4
<1>6. Head(stack).tests \in Seq(Tests)
  <2>1. Head(stack) \in Frames
    BY <1>4, <1>5
  <2>2. QED
    BY <2>1 DEF Frames
<1>7. test \in ToSet(Head(stack).tests)
  BY <1>2, <1>6, TailIs
<1>8. QED
  BY <1>4, <1>5, <1>7

LEMMA PrintFatal ==
  ASSUME RInv, WalkInv, FatalInv, print_result
  PROVE  FatalInv'
<1> DEFINE entry == [test |-> test, pairs |-> Combination, was |-> truth]
           n == Len(log)
<1>1. /\ pc = "print" /\ pc' = "next"
      /\ log' = Append(log, entry) /\ UNCHANGED <<options, stack, test>>
  BY DEF print_result
<1>2. entry.test = test /\ entry.was = truth
  OBVIOUS
<1> HIDE DEF entry
<1>3. log \in Seq(ToSet(log))
  BY DEF RInv, Types
<1>4. /\ n \in Nat /\ Len(log') = n + 1 /\ log'[n + 1] = entry
      /\ \A k \in 1..n : log'[k] = log[k]
  BY <1>1, <1>3
<1> HIDE DEF n
<1>5. LastEntry' = entry
  BY <1>4 DEF LastEntry
<1>6. SUFFICES ASSUME options.fatal_failures
               PROVE  FatalStopsTheTest' /\ (LastWasBad' => HasFailed')
  BY <1>1, <1>2, <1>5 DEF FatalInv
<1>7. LastWasBad' => HasFailed'
  BY <1>2, <1>5, BadIsCounted DEF LastWasBad
<1>8. ASSUME NEW k \in 1..n, log'[k].was \in Bad, log'[k].test \notin Todo
      PROVE  log'[k + 1].test # log'[k].test
  <2>1. CASE k \in 1..(n - 1)
    <3>1. k + 1 \in 1..n
      BY <1>4, <2>1
    <3>2. QED
      BY <1>4, <1>6, <1>8, <2>1, <3>1 DEF FatalInv, FatalStopsTheTest, n
  <2>2. CASE k = n
    <3>1. LastEntry = log'[k] /\ log # << >>
      BY <1>4, <1>8, <2>2 DEF LastEntry, n
    <3>2. NotAgain(stack, log'[k].test)
      BY <1>1, <1>6, <1>8, <3>1 DEF FatalInv, LastWasBad
    <3>3. 1 \in 1..Len(stack) /\ test \in ToSet(stack[1].tests)
      BY <1>1, TestIsNext DEF Running
    <3>4. log'[k].test # test
      BY <3>2, <3>3 DEF NotAgain
    <3>5. QED
      BY <1>2, <1>4, <2>2, <3>4
  <2>3. QED
    BY <1>4, <2>1, <2>2
<1>9. FatalStopsTheTest'
  <2>1. 1..(Len(log') - 1) = 1..n
    BY <1>4
  <2>2. QED
    BY <1>8, <2>1 DEF FatalStopsTheTest
<1>10. QED
  BY <1>7, <1>9

LEMMA WildFatal ==
  ASSUME WalkInv, FatalInv, run_test_wild
  PROVE  FatalInv'
<1>1. /\ pc = "next" /\ UNCHANGED <<options, test, log, runner>>
      /\ \/ ~(options.fatal_failures /\ HasFailed) /\ pc' = "start"
         \/ pc' = "suite" /\ stack' = AfterTest
  BY DEF run_test_wild
<1>2. CASE options.fatal_failures /\ LastWasBad
  <2>1. HasFailed /\ test = LastEntry.test
    BY <1>1, <1>2 DEF FatalInv
  <2>2. pc' = "suite" /\ stack' = AfterTest
    BY <1>1, <1>2, <2>1
  <2>3. NotAgain(stack', LastEntry.test)
    BY <1>1, <1>2, <2>1, <2>2, OverIsOver
  <2>4. QED
    BY <1>1, <2>2, <2>3, FatalStands
<1>3. CASE options.fatal_failures /\ ~LastWasBad
  BY <1>1, <1>3, FatalStands
<1>4. CASE ~options.fatal_failures
  BY <1>1, <1>4 DEF FatalInv
<1>5. QED
  BY <1>2, <1>3, <1>4

LEMMA FatalStays ==
  ASSUME RInv, WalkInv, FatalInv, [Next]_vars
  PROVE  FatalInv'
<1>1. CASE ParseArguments
  <2>1. log = << >> /\ UNCHANGED <<options, log, runner>>
    BY <1>1 DEF WalkInv, ParseArguments
  <2>2. QED
    BY <2>1 DEF FatalInv, LastWasBad, FatalStopsTheTest
<1>2. CASE run_test
  <2>1. /\ UNCHANGED <<options, log, runner, stack>>
        /\ pc = "suite" /\ pc' \in {"start", "crashed"}
    BY <1>2 DEF run_test
  <2>2. options.fatal_failures /\ LastWasBad => NotAgain(stack', LastEntry.test)
    BY <2>1 DEF FatalInv
  <2>3. CASE options.fatal_failures
    BY <2>1, <2>2, <2>3, FatalStands
  <2>4. CASE ~options.fatal_failures
    BY <2>1, <2>4 DEF FatalInv
  <2>5. QED
    BY <2>3, <2>4
<1>3. CASE OtherSteps /\ ~print_result
  <2>1. /\ UNCHANGED <<options, log, runner, stack>>
        /\ pc # "next" /\ pc' # "next"
    BY <1>3, OthersLeave
  <2>2. options.fatal_failures /\ LastWasBad => NotAgain(stack', LastEntry.test)
    BY <2>1 DEF FatalInv
  <2>3. CASE options.fatal_failures
    BY <2>1, <2>2, <2>3, FatalStands
  <2>4. CASE ~options.fatal_failures
    BY <2>1, <2>4 DEF FatalInv
  <2>5. QED
    BY <2>3, <2>4
<1>4. CASE UNCHANGED vars
  <2>1. UNCHANGED <<options, log, runner, stack, pc, test>>
    BY <1>4 DEF vars
  <2>2. CASE options.fatal_failures
    BY <2>1, <2>2, FatalStands DEF FatalInv
  <2>3. CASE ~options.fatal_failures
    BY <2>1, <2>3 DEF FatalInv
  <2>4. QED
    BY <2>2, <2>3
<1>5. QED
  BY <1>1, <1>2, <1>3, <1>4, ChildrenFatal, WildFatal, PrintFatal
     DEF Next, RunnerGoesOn, OtherSteps

(***************************************************************************)
(* With --fatal-failures no further combination of a test is run after one *)
(* that failed, for every tree of suites and every command line: the names *)
(* of the command line may select a test several times, and its suite is   *)
(* given up then (line 1677 of munit.c); no other suite has it, and none   *)
(* is called twice.                                                        *)
(***************************************************************************)
THEOREM FatalStops == Spec => []FatalStopsTheTest
<1> DEFINE Inv == RInv /\ WalkInv /\ FatalInv
<1>1. Init => Inv
  BY InitRInv, WalkStarts, FatalStarts
<1>2. Inv /\ [Next]_vars => Inv'
  BY RInvStays, WalkStays, FatalStays
<1>3. Inv => FatalStopsTheTest
  BY DEF FatalInv, FatalStopsTheTest
<1>4. QED
  BY <1>1, <1>2, <1>3, PTL DEF Spec

-----------------------------------------------------------------------------
(***************************************************************************)
(* The order of run_test_wild: the last parameter turns fastest.  A        *)
(* position comes before another when it is less at the first place where  *)
(* they differ.                                                            *)
(***************************************************************************)
Less(v, w) ==
  \E i \in DOMAIN w : v[i] < w[i] /\ \A j \in DOMAIN w : j < i => v[j] = w[j]

LEMMA FirstDifference ==
  ASSUME NEW n \in Nat, NEW v \in [1..n -> Nat], NEW w \in [1..n -> Nat],
         \A i \in 1..n : (\A j \in 1..n : j < i => v[j] = w[j]) => v[i] <= w[i]
  PROVE  v = w \/ Less(v, w)
<1> DEFINE D == {i \in 1..n : v[i] # w[i]}
<1>1. CASE D = {}
  <2>1. \A i \in 1..n : v[i] = w[i]
    BY <1>1
  <2>2. QED
    BY <2>1
<1>2. CASE D # {}
  <2>1. D \subseteq Nat
    OBVIOUS
  <2>2. PICK i \in D : \A k \in D : i <= k
    <3> HIDE DEF D
    <3>1. QED
      BY <1>2, <2>1, HasSmallest
  <2>3. \A j \in 1..n : j < i => v[j] = w[j]
    BY <2>2
  <2>4. v[i] < w[i]
    BY <2>2, <2>3
  <2>5. QED
    BY <2>2, <2>3, <2>4 DEF Less
<1>3. QED
  BY <1>1, <1>2

LEMMA PositionIs ==
  ASSUME NEW w \in Seq(Parameters), NEW v \in Positions(w)
  PROVE  /\ DOMAIN w = 1..Len(w) /\ Len(w) \in Nat /\ v \in [1..Len(w) -> Nat]
         /\ \A k \in 1..Len(w) : /\ v[k] \in 1..Len(w[k].values)
                                 /\ Len(w[k].values) \in Nat
<1>1. DOMAIN w = 1..Len(w) /\ Len(w) \in Nat
  OBVIOUS
<1>2. ASSUME NEW k \in 1..Len(w)
      PROVE  v[k] \in 1..Len(w[k].values) /\ Len(w[k].values) \in Nat
  <2>1. w[k] \in Parameters
    OBVIOUS
  <2>2. w[k].values \in Seq(ToSet(w[k].values))
    BY <2>1, ParametersAre DEF Parameters
  <2>3. v[k] \in DOMAIN w[k].values
    BY <1>1 DEF Positions
  <2>4. QED
    BY <2>2, <2>3
<1>3. QED
  BY <1>1, <1>2 DEF Positions

LEMMA NotLessItself ==
  ASSUME NEW w \in Seq(Parameters), NEW v \in Positions(w)
  PROVE  ~Less(v, v)
<1>1. v \in [1..Len(w) -> Nat]
  BY PositionIs
<1>2. \A i \in 1..Len(w) : ~(v[i] < v[i])
  BY <1>1
<1>3. QED
  BY <1>1, <1>2 DEF Less

LEMMA NoneBeforeFirst ==
  ASSUME NEW w \in Seq(Parameters), NEW v \in Positions(w)
  PROVE  ~Less(v, [k \in DOMAIN w |-> 1])
<1>1. DOMAIN w = 1..Len(w) /\ \A k \in 1..Len(w) : v[k] \in 1..Len(w[k].values)
  BY PositionIs
<1>2. \A k \in 1..Len(w) : ~(v[k] < 1)
  BY <1>1, PositionIs
<1>3. QED
  BY <1>1, <1>2 DEF Less

LEMMA LastIsLast ==
  ASSUME WalkInv, Turnable = {}, NEW v \in Positions(wild)
  PROVE  v = at \/ Less(v, at)
<1> DEFINE n == Len(wild)
<1>1. wild \in Seq(Parameters) /\ at \in Positions(wild)
  BY DEF WalkInv
<1>2. /\ n \in Nat /\ DOMAIN wild = 1..n
      /\ v \in [1..n -> Nat] /\ at \in [1..n -> Nat]
  BY <1>1, PositionIs
<1>3. ASSUME NEW i \in 1..n
      PROVE  v[i] <= at[i]
  <2>1. /\ v[i] \in 1..Len(wild[i].values) /\ at[i] \in 1..Len(wild[i].values)
        /\ Len(wild[i].values) \in Nat
    BY <1>1, PositionIs
  <2>2. ~(at[i] < Len(wild[i].values))
    BY <1>2 DEF Turnable
  <2>3. QED
    BY <2>1, <2>2
<1> HIDE DEF n
<1>4. QED
  BY <1>2, <1>3, FirstDifference

(***************************************************************************)
(* The next position comes right after the one it is made from.            *)
(***************************************************************************)
LEMMA TurnedIsNext ==
  ASSUME WalkInv, Turnable # {}, NEW v \in Positions(wild)
  PROVE  Less(v, Turned(Max(Turnable))) <=> Less(v, at) \/ v = at
<1> DEFINE n == Len(wild)
           k == Max(Turnable)
           new == Turned(k)
<1>1. wild \in Seq(Parameters) /\ at \in Positions(wild)
  BY DEF WalkInv
<1>2. /\ n \in Nat /\ DOMAIN wild = 1..n
      /\ v \in [1..n -> Nat] /\ at \in [1..n -> Nat]
      /\ \A i \in 1..n : /\ v[i] \in 1..Len(wild[i].values)
                         /\ at[i] \in 1..Len(wild[i].values)
                         /\ Len(wild[i].values) \in Nat
  BY <1>1, PositionIs
<1>3. /\ k \in 1..n
      /\ \A j \in 1..n : j > k => ~(at[j] < Len(wild[j].values))
  BY <1>2, TurnableIs
<1>4. /\ DOMAIN new = 1..n
      /\ \A j \in 1..n : new[j] = IF j < k THEN at[j]
                                  ELSE IF j = k THEN at[j] + 1 ELSE 1
  BY <1>2 DEF Turned
<1> HIDE DEF n, k, new
<1>5. \A j \in 1..n : j < k => new[j] = at[j]
  BY <1>3, <1>4
<1>6. new[k] = at[k] + 1
  BY <1>3, <1>4
<1>7. ASSUME v = at
      PROVE  Less(v, new)
  BY <1>2, <1>3, <1>4, <1>5, <1>6, <1>7 DEF Less
<1>8. ASSUME Less(v, at)
      PROVE  Less(v, new)
  <2>1. PICK i \in 1..n : v[i] < at[i] /\ \A j \in 1..n : j < i => v[j] = at[j]
    BY <1>2, <1>8 DEF Less
  <2>2. CASE i < k
    <3>1. v[i] < new[i] /\ \A j \in 1..n : j < i => v[j] = new[j]
      BY <1>3, <1>5, <2>1, <2>2
    <3>2. QED
      BY <1>4, <3>1 DEF Less
  <2>3. CASE ~(i < k)
    <3>1. v[k] <= at[k]
      BY <1>2, <1>3, <2>1, <2>3
    <3>2. v[k] < new[k] /\ \A j \in 1..n : j < k => v[j] = new[j]
      BY <1>2, <1>3, <1>5, <1>6, <2>1, <2>3, <3>1
    <3>3. QED
      BY <1>3, <1>4, <3>2 DEF Less
  <2>4. QED
    BY <2>2, <2>3
<1>9. ASSUME Less(v, new)
      PROVE  Less(v, at) \/ v = at
  <2>1. PICK i \in 1..n : v[i] < new[i] /\ \A j \in 1..n : j < i => v[j] = new[j]
    BY <1>4, <1>9 DEF Less
  <2>2. ~(i > k)
    <3>1. i > k => new[i] = 1
      BY <1>3, <1>4
    <3>2. v[i] \in Nat /\ v[i] >= 1
      BY <1>2
    <3>3. QED
      BY <2>1, <3>1, <3>2
  <2>3. CASE i < k
    <3>1. v[i] < at[i] /\ \A j \in 1..n : j < i => v[j] = at[j]
      BY <1>3, <1>5, <2>1, <2>3
    <3>2. QED
      BY <1>2, <3>1 DEF Less
  <2>4. CASE i = k
    <3>1. v[k] <= at[k] /\ \A j \in 1..n : j < k => v[j] = at[j]
      <4>1. v[k] < at[k] + 1 /\ v[k] \in Nat /\ at[k] \in Nat
        BY <1>2, <1>3, <1>6, <2>1, <2>4
      <4>2. \A j \in 1..n : j < k => v[j] = at[j]
        BY <1>5, <2>1, <2>4
      <4>3. QED
        BY <4>1, <4>2
    <3>2. ASSUME NEW j \in 1..n
          PROVE  v[j] <= at[j]
      <4>1. CASE j < k
        BY <1>2, <3>1, <4>1
      <4>2. CASE j = k
        BY <3>1, <4>2
      <4>3. CASE j > k
        <5>1. ~(at[j] < Len(wild[j].values))
          BY <1>3, <4>3
        <5>2. QED
          BY <1>2, <5>1
      <4>4. QED
        BY <1>3, <4>1, <4>2, <4>3
    <3>3. QED
      BY <1>2, <3>2, FirstDifference
  <2>5. QED
    BY <1>3, <2>2, <2>3, <2>4
<1>10. QED
  BY <1>7, <1>8, <1>9 DEF new, k

-----------------------------------------------------------------------------
(***************************************************************************)
(* A combination gives each of some parameters one of its values: it is    *)
(* the graph of a choice.                                                  *)
(***************************************************************************)
PairsOf(S, f) == {<<p.name, f[p]>> : p \in S}

Picks(S, V) ==
  {pairs \in SUBSET UNION {{p.name} \X V[p] : p \in S} :
     \A p \in S : Cardinality({pair \in pairs : pair[1] = p.name}) = 1}

Named(S) == \A p, r \in S : p.name = r.name => p = r

LEMMA GraphIsChoice ==
  ASSUME NEW S, Named(S), NEW V, NEW f, \A p \in S : f[p] \in V[p]
  PROVE  PairsOf(S, f) \in Picks(S, V)
<1>1. ASSUME NEW p \in S
      PROVE  /\ <<p.name, f[p]>> \in {p.name} \X V[p]
             /\ Cardinality({pair \in PairsOf(S, f) : pair[1] = p.name}) = 1
  <2>1. {pair \in PairsOf(S, f) : pair[1] = p.name} = {<<p.name, f[p]>>}
    <3>1. ASSUME NEW pair \in PairsOf(S, f), pair[1] = p.name
          PROVE  pair = <<p.name, f[p]>>
      <4>1. PICK r \in S : pair = <<r.name, f[r]>>
        BY DEF PairsOf
      <4>2. r = p
        BY <3>1, <4>1 DEF Named
      <4>3. QED
        BY <4>1, <4>2
    <3>2. <<p.name, f[p]>> \in PairsOf(S, f) /\ <<p.name, f[p]>>[1] = p.name
      BY DEF PairsOf
    <3>3. QED
      BY <3>1, <3>2
  <2>2. QED
    BY <2>1, FS_Singleton
<1>2. PairsOf(S, f) \subseteq UNION {{p.name} \X V[p] : p \in S}
  BY <1>1 DEF PairsOf
<1>3. QED
  BY <1>1, <1>2 DEF Picks

LEMMA FinitePairs ==
  ASSUME NEW T, IsFiniteSet(T), NEW n
  PROVE  IsFiniteSet({n} \X T)
<1> DEFINE f == [x \in T |-> <<n, x>>]
<1>1. f \in Surjection(T, {n} \X T)
  <2>1. f \in [T -> {n} \X T]
    OBVIOUS
  <2>2. \A y \in {n} \X T : y[2] \in T /\ f[y[2]] = y
    OBVIOUS
  <2>3. QED
    BY <2>1, <2>2 DEF Surjection
<1>2. QED
  BY <1>1, FS_Surjection

LEMMA ChoiceIsGraph ==
  ASSUME NEW S, Named(S), NEW V, \A p \in S : IsFiniteSet(V[p]),
         NEW pairs \in Picks(S, V)
  PROVE  \E f : (\A p \in S : f[p] \in V[p]) /\ pairs = PairsOf(S, f)
<1>1. ASSUME NEW pair \in pairs
      PROVE  \E p \in S : pair \in {p.name} \X V[p]
  BY DEF Picks
<1>2. ASSUME NEW p \in S
      PROVE  \E x \in V[p] :
               \A pair \in pairs : pair[1] = p.name <=> pair = <<p.name, x>>
  <2> DEFINE A == {pair \in pairs : pair[1] = p.name}
  <2>1. A \subseteq {p.name} \X V[p]
    <3>1. ASSUME NEW pair \in A
          PROVE  pair \in {p.name} \X V[p]
      <4>1. PICK r \in S : pair \in {r.name} \X V[r]
        BY <1>1
      <4>2. r.name = p.name
        BY <4>1
      <4>3. r = p
        BY <4>2 DEF Named
      <4>4. QED
        BY <4>1, <4>3
    <3>2. QED
      BY <3>1
  <2>2. IsFiniteSet(A)
    <3>1. IsFiniteSet({p.name} \X V[p])
      BY FinitePairs
    <3> HIDE DEF A
    <3>2. QED
      BY <2>1, <3>1, FS_Subset
  <2>3. Cardinality(A) = 1
    BY DEF Picks
  <2>4. \E y : A = {y}
    <3> HIDE DEF A
    <3>1. QED
      BY <2>2, <2>3, FS_Singleton
  <2>5. PICK y : A = {y}
    BY <2>4
  <2>6. y \in A /\ y \in {p.name} \X V[p]
    BY <2>1, <2>5
  <2>7. y = <<p.name, y[2]>> /\ y[2] \in V[p]
    BY <2>6
  <2>8. \A pair \in pairs : pair[1] = p.name <=> pair = y
    BY <2>5, <2>6
  <2>9. QED
    BY <2>7, <2>8
<1>3. ASSUME NEW p \in S
      PROVE  \E x \in V[p] : <<p.name, x>> \in pairs
  <2>1. PICK x \in V[p] :
          \A pair \in pairs : pair[1] = p.name <=> pair = <<p.name, x>>
    BY <1>2
  <2>2. Cardinality({pair \in pairs : pair[1] = p.name}) = 1
    BY DEF Picks
  <2>3. Cardinality({}) = 0
    BY FS_EmptySet
  <2>4. {pair \in pairs : pair[1] = p.name} # {}
    BY <2>2, <2>3
  <2>5. QED
    BY <2>1, <2>4
<1> DEFINE f == [p \in S |-> CHOOSE x \in V[p] : <<p.name, x>> \in pairs]
<1>4. \A p \in S : f[p] \in V[p] /\ <<p.name, f[p]>> \in pairs
  BY <1>3
<1> HIDE DEF f
<1>5. PairsOf(S, f) \subseteq pairs
  BY <1>4 DEF PairsOf
<1>6. ASSUME NEW pair \in pairs
      PROVE  pair \in PairsOf(S, f)
  <2>1. PICK p \in S : pair \in {p.name} \X V[p]
    BY <1>1
  <2>2. pair[1] = p.name
    BY <2>1
  <2>3. PICK x \in V[p] :
          \A q \in pairs : q[1] = p.name <=> q = <<p.name, x>>
    BY <1>2
  <2>4. <<p.name, f[p]>> \in pairs /\ <<p.name, f[p]>>[1] = p.name
    BY <1>4
  <2>5. pair = <<p.name, f[p]>>
    BY <2>2, <2>3, <2>4
  <2>6. QED
    BY <2>5 DEF PairsOf
<1>7. pairs = PairsOf(S, f)
  BY <1>5, <1>6
<1>8. QED
  BY <1>4, <1>7

(***************************************************************************)
(* The combinations of a test are what the command line gives, with a      *)
(* value for each open parameter.                                          *)
(***************************************************************************)
OpenSet(t) == ToSet(Open(t))

Fits(t, g) == \A p \in OpenSet(t) : g[p] \in ToSet(p.values)

LEMMA FiniteValues ==
  ASSUME NEW t \in Tests, NEW p \in ToSet(ParametersOf[t])
  PROVE  IsFiniteSet(ToSet(p.values))
<1>1. p.values \in Seq(ToSet(p.values))
  BY ParametersAre
<1>2. /\ Len(p.values) \in Nat /\ p.values \in [1..Len(p.values) -> ToSet(p.values)]
      /\ DOMAIN p.values = 1..Len(p.values)
  BY <1>1
<1>3. p.values \in Surjection(1..Len(p.values), ToSet(p.values))
  BY <1>2 DEF Surjection, ToSet
<1>4. IsFiniteSet(1..Len(p.values))
  BY <1>2, FS_Interval
<1>5. QED
  BY <1>3, <1>4, FS_Surjection

LEMMA PossibleIs ==
  ASSUME options \in OptionSets, NEW t \in Tests, NEW p \in ToSet(ParametersOf[t])
  PROVE  /\ IsFiniteSet(PossibleValues(p))
         /\ ~Given(p) => PossibleValues(p) = ToSet(p.values)
         /\ Given(p) => \E v : /\ PossibleValues(p) = {v}
                               /\ <<p.name, v>> \in options.parameters
                               /\ \A pair \in options.parameters :
                                    pair[1] = p.name => pair = <<p.name, v>>
<1>1. ~Given(p) => PossibleValues(p) = ToSet(p.values)
  BY DEF PossibleValues
<1>2. ASSUME Given(p)
      PROVE  \E v : /\ PossibleValues(p) = {v}
                    /\ <<p.name, v>> \in options.parameters
                    /\ \A pair \in options.parameters :
                         pair[1] = p.name => pair = <<p.name, v>>
  <2>1. PICK y \in options.parameters : y[1] = p.name
    BY <1>2 DEF Given
  <2>2. \A pair \in options.parameters :
          /\ pair = <<pair[1], pair[2]>>
          /\ pair[1] = p.name => pair = y
    BY <2>1, OptionsAssumption
  <2>3. y = <<p.name, y[2]>>
    BY <2>1, <2>2
  <2>4. \A v : <<p.name, v>> \in options.parameters <=> v = y[2]
    <3>1. \A v : <<p.name, v>>[1] = p.name /\ <<p.name, v>>[2] = v
      OBVIOUS
    <3>2. QED
      BY <2>1, <2>2, <2>3, <3>1
  <2>5. y[2] \in {pair[2] : pair \in options.parameters}
    BY <2>1
  <2>6. PossibleValues(p) = {y[2]}
    BY <1>2, <2>4, <2>5 DEF PossibleValues
  <2>7. QED
    BY <2>1, <2>2, <2>3, <2>6
<1>3. IsFiniteSet(PossibleValues(p))
  BY <1>1, <1>2, FiniteValues, FS_Singleton
<1>4. QED
  BY <1>1, <1>2, <1>3

LEMMA FilledIs ==
  ASSUME options \in OptionSets, NEW t \in Tests
  PROVE  /\ Named(Filled(t)) /\ Filled(t) \subseteq ToSet(ParametersOf[t])
         /\ OpenSet(t) = {p \in Filled(t) : ~Given(p)}
         /\ OpenSet(t) \subseteq ToSet(ParametersOf[t])
         /\ FromCommandLine(t)
              = {pair \in options.parameters :
                   \E p \in Filled(t) : Given(p) /\ pair[1] = p.name}
         /\ Combinations(t)
              = Picks(Filled(t), [p \in Filled(t) |-> PossibleValues(p)])
         /\ RandomValues(t)
              = Picks(OpenSet(t), [p \in OpenSet(t) |-> ToSet(p.values)])
<1>1. /\ \A p, r \in ToSet(ParametersOf[t]) : p.name = r.name => p = r
      /\ ParametersOf[t] \in Seq(ToSet(ParametersOf[t]))
  BY ParametersAre
<1>2. Named(Filled(t)) /\ Filled(t) \subseteq ToSet(ParametersOf[t])
  BY <1>1 DEF Named, Filled
<1>3. OpenSet(t) = {p \in ToSet(ParametersOf[t]) : HasValues(p) /\ ~Given(p)}
  BY OpenIs DEF OpenSet
<1>4. OpenSet(t) = {p \in Filled(t) : ~Given(p)}
  BY <1>3 DEF Filled
<1>5. ASSUME NEW pair \in options.parameters
      PROVE  (\E k \in DOMAIN ParametersOf[t] : ParametersOf[t][k].name = pair[1])
               <=> \E p \in Filled(t) : Given(p) /\ pair[1] = p.name
  <2>1. ASSUME NEW k \in DOMAIN ParametersOf[t], ParametersOf[t][k].name = pair[1]
        PROVE  \E p \in Filled(t) : Given(p) /\ pair[1] = p.name
    <3>1. Given(ParametersOf[t][k]) /\ ParametersOf[t][k] \in ToSet(ParametersOf[t])
      BY <2>1 DEF Given, ToSet
    <3>2. QED
      BY <2>1, <3>1 DEF Filled
  <2>2. ASSUME NEW p \in Filled(t), pair[1] = p.name
        PROVE  \E k \in DOMAIN ParametersOf[t] : ParametersOf[t][k].name = pair[1]
    BY <2>2 DEF Filled, ToSet
  <2>3. QED
    BY <2>1, <2>2
<1>6. FromCommandLine(t)
        = {pair \in options.parameters :
             \E p \in Filled(t) : Given(p) /\ pair[1] = p.name}
  BY <1>5 DEF FromCommandLine
<1>7. Combinations(t)
        = Picks(Filled(t), [p \in Filled(t) |-> PossibleValues(p)])
  <2> DEFINE V == [p \in Filled(t) |-> PossibleValues(p)]
  <2>1. {{p.name} \X PossibleValues(p) : p \in Filled(t)}
          = {{p.name} \X V[p] : p \in Filled(t)}
    OBVIOUS
  <2>2. QED
    BY <2>1 DEF Combinations, Picks
<1>8. RandomValues(t)
        = Picks(OpenSet(t), [p \in OpenSet(t) |-> ToSet(p.values)])
  <2> DEFINE V == [p \in OpenSet(t) |-> ToSet(p.values)]
  <2>1. {{p.name} \X ToSet(p.values) : p \in OpenSet(t)}
          = {{p.name} \X V[p] : p \in OpenSet(t)}
    OBVIOUS
  <2>2. QED
    BY <2>1 DEF RandomValues, Picks, OpenSet
<1>9. QED
  BY <1>2, <1>3, <1>4, <1>6, <1>7, <1>8

LEMMA OpenMakesCombination ==
  ASSUME options \in OptionSets, NEW t \in Tests, NEW g, Fits(t, g)
  PROVE  FromCommandLine(t) \cup PairsOf(OpenSet(t), g) \in Combinations(t)
<1> DEFINE S == Filled(t)
           V == [p \in S |-> PossibleValues(p)]
           f == [p \in S |-> IF Given(p) THEN CHOOSE v \in V[p] : TRUE ELSE g[p]]
<1>1. /\ Named(S) /\ S \subseteq ToSet(ParametersOf[t])
      /\ OpenSet(t) = {p \in S : ~Given(p)}
      /\ FromCommandLine(t) = {pair \in options.parameters :
                                 \E p \in S : Given(p) /\ pair[1] = p.name}
      /\ Combinations(t) = Picks(S, V)
  BY FilledIs
<1>2. ASSUME NEW p \in S
      PROVE  /\ f[p] \in V[p] /\ V[p] = PossibleValues(p)
             /\ ~Given(p) => f[p] = g[p]
             /\ Given(p) => /\ <<p.name, f[p]>> \in options.parameters
                            /\ \A pair \in options.parameters :
                                 pair[1] = p.name => pair = <<p.name, f[p]>>
  <2>1. p \in ToSet(ParametersOf[t])
    BY <1>1
  <2>2. CASE Given(p)
    <3>1. PICK v : /\ PossibleValues(p) = {v}
                   /\ <<p.name, v>> \in options.parameters
                   /\ \A pair \in options.parameters :
                        pair[1] = p.name => pair = <<p.name, v>>
      BY <2>1, <2>2, PossibleIs
    <3>2. f[p] = v
      BY <2>2, <3>1
    <3>3. QED
      BY <2>2, <3>1, <3>2
  <2>3. CASE ~Given(p)
    <3>1. p \in OpenSet(t) /\ PossibleValues(p) = ToSet(p.values)
      BY <1>1, <2>1, <2>3, PossibleIs
    <3>2. g[p] \in ToSet(p.values)
      BY <3>1 DEF Fits
    <3>3. QED
      BY <2>3, <3>1, <3>2
  <2>4. QED
    BY <2>2, <2>3
<1> HIDE DEF f, V, S
<1>3. PairsOf(S, f) \in Picks(S, V)
  BY <1>1, <1>2, GraphIsChoice
<1>4. FromCommandLine(t) \cup PairsOf(OpenSet(t), g) = PairsOf(S, f)
  <2>1. ASSUME NEW pair \in FromCommandLine(t)
        PROVE  pair \in PairsOf(S, f)
    <3>1. PICK p \in S : Given(p) /\ pair[1] = p.name /\ pair \in options.parameters
      BY <1>1
    <3>2. pair = <<p.name, f[p]>>
      BY <1>2, <3>1
    <3>3. QED
      BY <3>2 DEF PairsOf
  <2>2. ASSUME NEW p \in OpenSet(t)
        PROVE  <<p.name, g[p]>> \in PairsOf(S, f)
    <3>1. p \in S /\ f[p] = g[p]
      BY <1>1, <1>2
    <3>2. QED
      BY <3>1 DEF PairsOf
  <2>3. ASSUME NEW p \in S
        PROVE  <<p.name, f[p]>> \in FromCommandLine(t) \cup PairsOf(OpenSet(t), g)
    <3>1. CASE Given(p)
      <4>1. <<p.name, f[p]>> \in options.parameters /\ <<p.name, f[p]>>[1] = p.name
        BY <1>2, <3>1
      <4>2. QED
        BY <1>1, <3>1, <4>1
    <3>2. CASE ~Given(p)
      <4>1. p \in OpenSet(t) /\ f[p] = g[p]
        BY <1>1, <1>2, <3>2
      <4>2. QED
        BY <4>1 DEF PairsOf
    <3>3. QED
      BY <3>1, <3>2
  <2>4. PairsOf(OpenSet(t), g) \subseteq PairsOf(S, f)
    BY <2>2 DEF PairsOf
  <2>5. PairsOf(S, f) \subseteq FromCommandLine(t) \cup PairsOf(OpenSet(t), g)
    BY <2>3 DEF PairsOf
  <2>6. QED
    BY <2>1, <2>4, <2>5
<1>5. QED
  BY <1>1, <1>3, <1>4

LEMMA CombinationHasOpen ==
  ASSUME options \in OptionSets, NEW t \in Tests, NEW pairs \in Combinations(t)
  PROVE  \E g : /\ Fits(t, g)
                /\ pairs = FromCommandLine(t) \cup PairsOf(OpenSet(t), g)
<1> DEFINE S == Filled(t)
           V == [p \in S |-> PossibleValues(p)]
<1>1. /\ Named(S) /\ S \subseteq ToSet(ParametersOf[t])
      /\ OpenSet(t) = {p \in S : ~Given(p)}
      /\ FromCommandLine(t) = {pair \in options.parameters :
                                 \E p \in S : Given(p) /\ pair[1] = p.name}
      /\ Combinations(t) = Picks(S, V)
  BY FilledIs
<1>2. \A p \in S : V[p] = PossibleValues(p) /\ IsFiniteSet(V[p])
  BY <1>1, PossibleIs
<1> HIDE DEF V, S
<1>3. PICK f : (\A p \in S : f[p] \in V[p]) /\ pairs = PairsOf(S, f)
  BY <1>1, <1>2, ChoiceIsGraph
<1>4. Fits(t, f)
  <2>1. ASSUME NEW p \in OpenSet(t)
        PROVE  f[p] \in ToSet(p.values)
    <3>1. p \in S /\ ~Given(p) /\ p \in ToSet(ParametersOf[t])
      BY <1>1
    <3>2. PossibleValues(p) = ToSet(p.values)
      BY <3>1, PossibleIs
    <3>3. QED
      BY <1>2, <1>3, <3>1, <3>2
  <2>2. QED
    BY <2>1 DEF Fits
<1>5. ASSUME NEW p \in S, Given(p)
      PROVE  /\ <<p.name, f[p]>> \in options.parameters
             /\ \A pair \in options.parameters :
                  pair[1] = p.name => pair = <<p.name, f[p]>>
  <2>1. p \in ToSet(ParametersOf[t])
    BY <1>1
  <2>2. PICK v : /\ PossibleValues(p) = {v}
                 /\ <<p.name, v>> \in options.parameters
                 /\ \A pair \in options.parameters :
                      pair[1] = p.name => pair = <<p.name, v>>
    BY <1>5, <2>1, PossibleIs
  <2>3. f[p] = v
    BY <1>2, <1>3, <2>2
  <2>4. QED
    BY <2>2, <2>3
<1>6. PairsOf(S, f) = FromCommandLine(t) \cup PairsOf(OpenSet(t), f)
  <2>1. ASSUME NEW pair \in FromCommandLine(t)
        PROVE  pair \in PairsOf(S, f)
    <3>1. PICK p \in S : Given(p) /\ pair[1] = p.name /\ pair \in options.parameters
      BY <1>1
    <3>2. pair = <<p.name, f[p]>>
      BY <1>5, <3>1
    <3>3. QED
      BY <3>2 DEF PairsOf
  <2>2. PairsOf(OpenSet(t), f) \subseteq PairsOf(S, f)
    BY <1>1 DEF PairsOf
  <2>3. ASSUME NEW p \in S
        PROVE  <<p.name, f[p]>> \in FromCommandLine(t) \cup PairsOf(OpenSet(t), f)
    <3>1. CASE Given(p)
      <4>1. <<p.name, f[p]>> \in options.parameters /\ <<p.name, f[p]>>[1] = p.name
        BY <1>5, <3>1
      <4>2. QED
        BY <1>1, <3>1, <4>1
    <3>2. CASE ~Given(p)
      BY <1>1, <3>2 DEF PairsOf
    <3>3. QED
      BY <3>1, <3>2
  <2>4. PairsOf(S, f) \subseteq FromCommandLine(t) \cup PairsOf(OpenSet(t), f)
    BY <2>3 DEF PairsOf
  <2>5. QED
    BY <2>1, <2>2, <2>4
<1>7. QED
  BY <1>3, <1>4, <1>6

LEMMA RandomFits ==
  ASSUME options \in OptionSets, NEW t \in Tests, NEW pairs \in RandomValues(t)
  PROVE  FromCommandLine(t) \cup pairs \in Combinations(t)
<1> DEFINE V == [p \in OpenSet(t) |-> ToSet(p.values)]
<1>1. /\ OpenSet(t) \subseteq Filled(t) /\ Named(Filled(t))
      /\ OpenSet(t) \subseteq ToSet(ParametersOf[t])
      /\ RandomValues(t) = Picks(OpenSet(t), V)
  BY FilledIs
<1>2. Named(OpenSet(t))
  BY <1>1 DEF Named
<1>3. \A p \in OpenSet(t) : V[p] = ToSet(p.values) /\ IsFiniteSet(V[p])
  BY <1>1, FiniteValues
<1> HIDE DEF V
<1>4. PICK g : (\A p \in OpenSet(t) : g[p] \in V[p]) /\ pairs = PairsOf(OpenSet(t), g)
  BY <1>1, <1>2, <1>3, ChoiceIsGraph
<1>5. Fits(t, g)
  BY <1>3, <1>4 DEF Fits
<1>6. QED
  BY <1>4, <1>5, OpenMakesCombination

(***************************************************************************)
(* The positions of run_test_wild and the combinations of its test are one *)
(* to one, when no open parameter was dropped; with --single there is one  *)
(* position, for any combination.                                          *)
(***************************************************************************)
CombinationOf(f, w, v) ==
  f \cup {<<w[k].name, w[k].values[v[k]]>> : k \in DOMAIN w}

Covered(t) == Wild(t) = Open(t) \/ options.single

LEMMA WildIsOpen ==
  ASSUME WalkInv, pc \in Running, ~options.single, Wild(test) = Open(test)
  PROVE  /\ wild = Open(test) /\ fixed = FromCommandLine(test)
         /\ IsInjective(wild) /\ ToSet(wild) = OpenSet(test)
         /\ \A j, k \in DOMAIN wild : wild[j].name = wild[k].name => j = k
         /\ \A k \in DOMAIN wild : wild[k] \in OpenSet(test) /\ ~Given(wild[k])
<1>1. /\ wild = Open(test) /\ fixed = FromCommandLine(test)
      /\ test \in Tests /\ options \in OptionSets
  BY DEF WalkInv, Turn
<1>2. IsInjective(wild) /\ ToSet(wild) = OpenSet(test)
  BY <1>1, OpenIs DEF OpenSet
<1>3. /\ Named(Filled(test)) /\ OpenSet(test) = {p \in Filled(test) : ~Given(p)}
  BY <1>1, FilledIs
<1>4. \A k \in DOMAIN wild : wild[k] \in OpenSet(test)
  BY <1>2 DEF ToSet
<1>5. \A j, k \in DOMAIN wild : wild[j].name = wild[k].name => wild[j] = wild[k]
  BY <1>3, <1>4 DEF Named
<1>6. QED
  BY <1>1, <1>2, <1>3, <1>4, <1>5 DEF IsInjective

LEMMA PositionMakesCombination ==
  ASSUME WalkInv, pc \in Running, ~options.single, Wild(test) = Open(test),
         NEW v \in Positions(wild)
  PROVE  CombinationOf(fixed, wild, v) \in Combinations(test)
<1>1. /\ wild = Open(test) /\ fixed = FromCommandLine(test)
      /\ IsInjective(wild) /\ ToSet(wild) = OpenSet(test)
      /\ \A k \in DOMAIN wild : wild[k] \in OpenSet(test)
  BY WildIsOpen
<1>2. test \in Tests /\ options \in OptionSets
  BY DEF WalkInv
<1> DEFINE place(p) == CHOOSE k \in DOMAIN wild : wild[k] = p
           g == [p \in OpenSet(test) |-> p.values[v[place(p)]]]
<1>3. \A p \in OpenSet(test) : place(p) \in DOMAIN wild /\ wild[place(p)] = p
  BY <1>1 DEF ToSet
<1>4. \A k \in DOMAIN wild : place(wild[k]) = k
  BY <1>1, <1>3 DEF IsInjective
<1>5. \A p \in OpenSet(test) : g[p] = p.values[v[place(p)]]
  OBVIOUS
<1> HIDE DEF g, place
<1>6. ASSUME NEW k \in DOMAIN wild
      PROVE  /\ g[wild[k]] = wild[k].values[v[k]]
             /\ wild[k].values[v[k]] \in ToSet(wild[k].values)
  <2>1. g[wild[k]] = wild[k].values[v[k]]
    BY <1>1, <1>4, <1>5
  <2>2. v[k] \in DOMAIN wild[k].values
    BY DEF Positions
  <2>3. QED
    BY <2>1, <2>2 DEF ToSet
<1>7. Fits(test, g)
  BY <1>3, <1>6 DEF Fits
<1>8. {<<wild[k].name, wild[k].values[v[k]]>> : k \in DOMAIN wild}
        = PairsOf(OpenSet(test), g)
  <2>1. ASSUME NEW k \in DOMAIN wild
        PROVE  <<wild[k].name, wild[k].values[v[k]]>> \in PairsOf(OpenSet(test), g)
    BY <1>1, <1>6 DEF PairsOf
  <2>2. ASSUME NEW p \in OpenSet(test)
        PROVE  \E k \in DOMAIN wild :
                 <<p.name, g[p]>> = <<wild[k].name, wild[k].values[v[k]]>>
    BY <1>3, <1>6
  <2>3. QED
    BY <2>1, <2>2 DEF PairsOf
<1>9. QED
  BY <1>1, <1>2, <1>7, <1>8, OpenMakesCombination DEF CombinationOf

LEMMA PositionsDiffer ==
  ASSUME WalkInv, pc \in Running, ~options.single, Wild(test) = Open(test),
         NEW u \in Positions(wild), NEW v \in Positions(wild),
         CombinationOf(fixed, wild, u) = CombinationOf(fixed, wild, v)
  PROVE  u = v
<1>1. /\ fixed = FromCommandLine(test)
      /\ \A j, k \in DOMAIN wild : wild[j].name = wild[k].name => j = k
      /\ \A k \in DOMAIN wild : ~Given(wild[k])
  BY WildIsOpen
<1>2. wild \in Seq(Parameters)
  BY DEF WalkInv
<1>3. ASSUME NEW k \in DOMAIN wild
      PROVE  u[k] = v[k]
  <2> DEFINE x == <<wild[k].name, wild[k].values[u[k]]>>
  <2>1. x \in CombinationOf(fixed, wild, v)
    <3>1. x \in CombinationOf(fixed, wild, u)
      BY DEF CombinationOf
    <3>2. QED
      BY <3>1
  <2>2. x \notin fixed
    <3>1. x[1] = wild[k].name
      OBVIOUS
    <3>2. x \in fixed => Given(wild[k])
      BY <1>1, <3>1 DEF FromCommandLine, Given
    <3>3. QED
      BY <1>1, <3>2
  <2>3. PICK j \in DOMAIN wild : x = <<wild[j].name, wild[j].values[v[j]]>>
    BY <2>1, <2>2 DEF CombinationOf
  <2>4. wild[k].name = wild[j].name /\ wild[k].values[u[k]] = wild[j].values[v[j]]
    BY <2>3
  <2>5. j = k
    BY <1>1, <2>4
  <2>6. /\ u[k] \in DOMAIN wild[k].values /\ v[k] \in DOMAIN wild[k].values
        /\ IsInjective(wild[k].values)
    BY ValuesAre DEF Positions
  <2>7. QED
    BY <2>4, <2>5, <2>6 DEF IsInjective
<1>4. u \in [1..Len(wild) -> Nat] /\ v \in [1..Len(wild) -> Nat] /\ DOMAIN wild = 1..Len(wild)
  BY <1>2, PositionIs
<1>5. QED
  BY <1>3, <1>4

LEMMA CombinationHasPosition ==
  ASSUME WalkInv, pc \in Running, ~options.single, Wild(test) = Open(test),
         NEW pairs \in Combinations(test)
  PROVE  \E v \in Positions(wild) : CombinationOf(fixed, wild, v) = pairs
<1>1. /\ wild = Open(test) /\ fixed = FromCommandLine(test)
      /\ ToSet(wild) = OpenSet(test)
      /\ \A k \in DOMAIN wild : wild[k] \in OpenSet(test)
  BY WildIsOpen
<1>2. test \in Tests /\ options \in OptionSets
  BY DEF WalkInv
<1>3. PICK g : /\ Fits(test, g)
               /\ pairs = FromCommandLine(test) \cup PairsOf(OpenSet(test), g)
  BY <1>2, CombinationHasOpen
<1> DEFINE v == [k \in DOMAIN wild |->
                   CHOOSE j \in DOMAIN wild[k].values :
                     wild[k].values[j] = g[wild[k]]]
<1>4. ASSUME NEW k \in DOMAIN wild
      PROVE  /\ v[k] \in DOMAIN wild[k].values /\ v[k] \in Nat
             /\ wild[k].values[v[k]] = g[wild[k]]
  <2>1. g[wild[k]] \in ToSet(wild[k].values)
    BY <1>1, <1>3 DEF Fits
  <2>2. \E j \in DOMAIN wild[k].values : wild[k].values[j] = g[wild[k]]
    BY <2>1 DEF ToSet
  <2>3. v[k] \in DOMAIN wild[k].values /\ wild[k].values[v[k]] = g[wild[k]]
    BY <2>2
  <2>4. DOMAIN wild[k].values = 1..Len(wild[k].values)
    BY ValuesAre
  <2> HIDE DEF v
  <2>5. QED
    BY <2>3, <2>4
<1>5. DOMAIN v = DOMAIN wild /\ v = [k \in DOMAIN v |-> v[k]]
  OBVIOUS
<1> HIDE DEF v
<1>6. v \in Positions(wild)
  BY <1>4, <1>5 DEF Positions
<1>7. {<<wild[k].name, wild[k].values[v[k]]>> : k \in DOMAIN wild}
        = PairsOf(OpenSet(test), g)
  <2>1. ASSUME NEW k \in DOMAIN wild
        PROVE  <<wild[k].name, wild[k].values[v[k]]>> \in PairsOf(OpenSet(test), g)
    BY <1>1, <1>4 DEF PairsOf
  <2>2. ASSUME NEW p \in OpenSet(test)
        PROVE  \E k \in DOMAIN wild :
                 <<p.name, g[p]>> = <<wild[k].name, wild[k].values[v[k]]>>
    <3>1. PICK k \in DOMAIN wild : wild[k] = p
      BY <1>1 DEF ToSet
    <3>2. QED
      BY <1>4, <3>1
  <2>3. QED
    BY <2>1, <2>2 DEF PairsOf
<1>8. CombinationOf(fixed, wild, v) = pairs
  BY <1>1, <1>3, <1>7 DEF CombinationOf
<1>9. QED
  BY <1>6, <1>8

(***************************************************************************)
(* What a test is to be run for: each of its combinations, or one of them. *)
(***************************************************************************)
Goals(t) ==
  IF options.single THEN {Combinations(t)}
  ELSE {{pairs} : pairs \in Combinations(t)}

LEMMA TurnReachesGoals ==
  ASSUME WalkInv, pc \in Running, Covered(test)
  PROVE  /\ \A v \in Positions(wild) :
              CombinationOf(fixed, wild, v) \in Combinations(test)
         /\ \A P \in Goals(test) :
              \E v \in Positions(wild) :
                /\ CombinationOf(fixed, wild, v) \in P
                /\ \A u \in Positions(wild) :
                     CombinationOf(fixed, wild, u) \in P => u = v
<1>1. CASE options.single
  <2>1. /\ wild = << >> /\ test \in Tests /\ options \in OptionSets
        /\ \E pairs \in RandomValues(test) : fixed = FromCommandLine(test) \cup pairs
    BY <1>1 DEF WalkInv, Turn
  <2>2. fixed \in Combinations(test)
    BY <2>1, RandomFits
  <2>3. DOMAIN wild = {}
    BY <2>1
  <2>4. \A v : CombinationOf(fixed, wild, v) = fixed
    BY <2>3 DEF CombinationOf
  <2>5. \A u, v \in Positions(wild) : u = v
    BY <2>3 DEF Positions
  <2>6. at \in Positions(wild)
    BY DEF WalkInv
  <2>7. QED
    BY <1>1, <2>2, <2>4, <2>5, <2>6 DEF Goals
<1>2. CASE ~options.single
  <2>1. Wild(test) = Open(test)
    BY <1>2 DEF Covered
  <2>2. \A v \in Positions(wild) :
          CombinationOf(fixed, wild, v) \in Combinations(test)
    BY <1>2, <2>1, PositionMakesCombination
  <2>3. ASSUME NEW P \in Goals(test)
        PROVE  \E v \in Positions(wild) :
                 /\ CombinationOf(fixed, wild, v) \in P
                 /\ \A u \in Positions(wild) :
                      CombinationOf(fixed, wild, u) \in P => u = v
    <3>1. PICK pairs \in Combinations(test) : P = {pairs}
      BY <1>2 DEF Goals
    <3>2. PICK v \in Positions(wild) : CombinationOf(fixed, wild, v) = pairs
      BY <1>2, <2>1, CombinationHasPosition
    <3>3. \A u \in Positions(wild) :
            CombinationOf(fixed, wild, u) = pairs => u = v
      BY <1>2, <2>1, <3>2, PositionsDiffer
    <3>4. QED
      BY <3>1, <3>2, <3>3
  <2>4. QED
    BY <2>2, <2>3
<1>3. QED
  BY <1>1, <1>2

-----------------------------------------------------------------------------
(***************************************************************************)
(* Every suite is called: those that have been, E, are closed but for the  *)
(* children that the calls under way have still to come to.                *)
(***************************************************************************)
EnteredAre(E, st, su) ==
  /\ E \subseteq Suites /\ Root \in E /\ ToSet(su) \subseteq E
  /\ \A s \in E \ ToSet(su) : ToSet(ChildrenOf[s]) \subseteq E
  /\ \A i \in DOMAIN su :
       /\ ToSet(ChildrenOf[su[i]]) \ ToSet(st[i].children) \subseteq E
       /\ ToSet(st[i].children) \cap E = {}
  /\ \A s \in E, r \in Suites : s \in ToSet(ChildrenOf[r]) => r \in E

LEMMA EnteredStarts ==
  ASSUME options \in OptionSets
  PROVE  EnteredAre({Root}, <<Frame(Root)>>, <<Root>>)
<1>1. Root \in Suites /\ Frame(Root).children = ChildrenOf[Root]
  BY FrameIs, SuitesAssumption
<1>2. \A r \in Suites : Root \notin ToSet(ChildrenOf[r])
  BY TreeAssumption
<1>3. DOMAIN <<Root>> = {1} /\ <<Root>>[1] = Root /\ ToSet(<<Root>>) = {Root}
  BY DEF ToSet
<1>4. <<Frame(Root)>>[1] = Frame(Root)
  OBVIOUS
<1>5. QED
  BY <1>1, <1>2, <1>3, <1>4 DEF EnteredAre

LEMMA EnteredAll ==
  ASSUME NEW E, EnteredAre(E, << >>, << >>)
  PROVE  E = Suites
<1>1. ToSet(<< >>) = {}
  BY DEF ToSet
<1>2. E \in SUBSET Suites /\ Root \in E /\ \A s \in E : ToSet(ChildrenOf[s]) \subseteq E
  BY <1>1 DEF EnteredAre
<1>3. QED
  BY <1>2, TreeAssumption

LEMMA EnteredGoesOn ==
  ASSUME NEW E, NEW st, NEW st2, NEW su, EnteredAre(E, st, su),
         \A i \in DOMAIN su : st2[i].children = st[i].children
  PROVE  EnteredAre(E, st2, su)
  BY DEF EnteredAre

LEMMA EnteredPops ==
  ASSUME NEW E, NEW st, NEW su, OnTrail(st, su), st # << >>,
         EnteredAre(E, st, su), Head(st).children = << >>
  PROVE  EnteredAre(E, Tail(st), Tail(su))
<1> DEFINE n == Len(st)
<1>1. /\ n \in Nat \ {0} /\ Len(su) = n /\ su \in Seq(Suites) /\ su # << >>
      /\ Head(st) = st[1] /\ Head(su) = su[1] /\ su[1] \in Suites
      /\ \A i \in 1..(n - 1) : Tail(st)[i] = st[i + 1] /\ Tail(su)[i] = su[i + 1]
  <2>1. TrailFacts(st, su)
    BY TrailIs
  <2>2. QED
    BY <2>1 DEF TrailFacts
<1>2. /\ Tail(su) \in Seq(Suites) /\ Len(Tail(su)) = n - 1
      /\ \A x \in ToSet(Tail(su)) : x \in ToSet(su)
      /\ IsInjective(su) => ToSet(Tail(su)) = ToSet(su) \ {Head(su)}
  BY <1>1, TailIs
<1>3. ToSet(Tail(su)) = ToSet(su) \ {su[1]}
  BY <1>1, <1>2 DEF OnTrail
<1>4. DOMAIN su = 1..n /\ DOMAIN Tail(su) = 1..(n - 1) /\ 1 \in 1..n
  BY <1>1, <1>2
<1> HIDE DEF n
<1>5. ToSet(ChildrenOf[su[1]]) \subseteq E
  <2>1. ToSet(st[1].children) = {}
    BY <1>1 DEF ToSet
  <2>2. QED
    BY <1>4, <2>1 DEF EnteredAre
<1>6. \A s \in E \ ToSet(Tail(su)) : ToSet(ChildrenOf[s]) \subseteq E
  BY <1>3, <1>5 DEF EnteredAre
<1>7. ASSUME NEW i \in 1..(n - 1)
      PROVE  /\ ToSet(ChildrenOf[Tail(su)[i]]) \ ToSet(Tail(st)[i].children) \subseteq E
             /\ ToSet(Tail(st)[i].children) \cap E = {}
  <2>1. i + 1 \in DOMAIN su
    BY <1>1, <1>4
  <2>2. Tail(su)[i] = su[i + 1] /\ Tail(st)[i] = st[i + 1]
    BY <1>1
  <2>3. QED
    BY <2>1, <2>2 DEF EnteredAre
<1>8. QED
  BY <1>2, <1>4, <1>6, <1>7 DEF EnteredAre

LEMMA EnteredPushes ==
  ASSUME options \in OptionSets, NEW E, NEW st, NEW su, OnTrail(st, su),
         st # << >>, EnteredAre(E, st, su), Head(st).children # << >>
  PROVE  LET c == Head(Head(st).children)
         IN  /\ c \in Suites /\ c \notin E
             /\ EnteredAre(E \cup {c}, Pushed(st), <<c>> \o su)
<1> DEFINE c == Head(Head(st).children)
           n == Len(st)
           p == Pushed(st)
           us == <<c>> \o su
<1>1. PushedFacts(st, su)
  BY PushedIs
<1>2. /\ n \in Nat \ {0} /\ c \in Suites
      /\ ToSet(p[2].children) = ToSet(Head(st).children) \ {c}
      /\ c \in ToSet(Head(st).children)
      /\ p[1] = Frame(c)
      /\ \A i \in 3..(n + 1) : p[i] = st[i - 1]
      /\ us \in Seq(Suites) /\ Len(us) = n + 1 /\ us[1] = c
      /\ \A i \in 2..(n + 1) : us[i] = su[i - 1]
  BY <1>1 DEF PushedFacts
<1>3. /\ Len(su) = n /\ su \in Seq(Suites) /\ Head(st) = st[1] /\ su[1] \in Suites
      /\ FrameOf(st[1], su[1], TRUE)
      /\ \A i \in 1..(n - 1) : /\ su[i + 1] # su[1] /\ su[i + 1] \in Suites
                               /\ FrameOf(st[i + 1], su[i + 1], FALSE)
  <2>1. TrailFacts(st, su)
    BY TrailIs
  <2>2. QED
    BY <2>1 DEF TrailFacts
<1>4. Frame(c).children = ChildrenOf[c]
  BY <1>2, FrameIs
<1> HIDE DEF c, n, p, us
<1>5. DOMAIN su = 1..n /\ DOMAIN us = 1..(n + 1) /\ 1 \in 1..n
  BY <1>2, <1>3
<1>6. su[1] \in E /\ \A i \in 1..n : su[i] \in E /\ su[i] \in Suites
  <2>1. \A i \in 1..n : su[i] \in ToSet(su) /\ su[i] \in Suites
    BY <1>3, <1>5 DEF ToSet
  <2>2. QED
    BY <1>5, <2>1 DEF EnteredAre
<1>7. c \notin E
  BY <1>2, <1>3, <1>5 DEF EnteredAre
<1>8. c \in ToSet(ChildrenOf[su[1]])
  BY <1>2, <1>3 DEF FrameOf
<1>9. ToSet(us) = ToSet(su) \cup {c}
  <2>1. ASSUME NEW x \in ToSet(us)
        PROVE  x \in ToSet(su) \cup {c}
    <3>1. PICK i \in 1..(n + 1) : us[i] = x
      BY <1>5 DEF ToSet
    <3>2. CASE i = 1
      BY <1>2, <3>1, <3>2
    <3>3. CASE i # 1
      <4>1. i \in 2..(n + 1) /\ i - 1 \in 1..n
        BY <1>2, <3>1, <3>3
      <4>2. us[i] = su[i - 1]
        BY <1>2, <4>1
      <4>3. QED
        BY <1>5, <3>1, <4>1, <4>2 DEF ToSet
    <3>4. QED
      BY <3>2, <3>3
  <2>2. ASSUME NEW x \in ToSet(su)
        PROVE  x \in ToSet(us)
    <3>1. PICK i \in 1..n : su[i] = x
      BY <1>5 DEF ToSet
    <3>2. i + 1 \in 2..(n + 1) /\ i + 1 \in DOMAIN us /\ (i + 1) - 1 = i
      BY <1>2, <1>5
    <3>3. us[i + 1] = su[(i + 1) - 1]
      BY <1>2, <3>2
    <3>4. QED
      BY <3>1, <3>2, <3>3 DEF ToSet
  <2>3. c \in ToSet(us)
    <3>1. 1 \in DOMAIN us
      BY <1>2, <1>5
    <3>2. QED
      BY <1>2, <3>1 DEF ToSet
  <2>4. QED
    BY <2>1, <2>2, <2>3
<1>10. \A r \in Suites : c \in ToSet(ChildrenOf[r]) => r = su[1]
  BY <1>3, <1>8, TreeAssumption
<1>11. ToSet(ChildrenOf[c]) \cap (E \cup {c}) = {}
  <2>1. c \notin ToSet(ChildrenOf[c])
    BY <1>2, <1>6, <1>7, <1>10
  <2>2. \A d \in ToSet(ChildrenOf[c]) : d \notin E
    BY <1>2, <1>7 DEF EnteredAre
  <2>3. QED
    BY <2>1, <2>2
<1>12. \A i \in 2..(n + 1) :
         /\ ToSet(ChildrenOf[us[i]]) \ ToSet(p[i].children) \subseteq E \cup {c}
         /\ ToSet(p[i].children) \cap (E \cup {c}) = {}
  <2>1. /\ ToSet(ChildrenOf[su[1]]) \ ToSet(st[1].children) \subseteq E
        /\ ToSet(st[1].children) \cap E = {}
    BY <1>5 DEF EnteredAre
  <2>2. us[2] = su[1]
    <3>1. 2 \in 2..(n + 1) /\ 2 - 1 = 1
      BY <1>2
    <3>2. QED
      BY <1>2, <3>1
  <2>3. /\ ToSet(ChildrenOf[us[2]]) \ ToSet(p[2].children) \subseteq E \cup {c}
        /\ ToSet(p[2].children) \cap (E \cup {c}) = {}
    BY <1>2, <1>3, <2>1, <2>2
  <2>4. ASSUME NEW i \in 3..(n + 1)
        PROVE  /\ ToSet(ChildrenOf[us[i]]) \ ToSet(p[i].children) \subseteq E \cup {c}
               /\ ToSet(p[i].children) \cap (E \cup {c}) = {}
    <3>1. i - 1 \in 1..n /\ i - 2 \in 1..(n - 1) /\ (i - 2) + 1 = i - 1
          /\ i \in 2..(n + 1)
      BY <1>2
    <3>2. us[i] = su[i - 1] /\ p[i] = st[i - 1]
      BY <1>2, <3>1
    <3>3. /\ su[i - 1] # su[1] /\ su[i - 1] \in Suites
          /\ FrameOf(st[i - 1], su[i - 1], FALSE)
      BY <1>3, <3>1
    <3>4. c \notin ToSet(ChildrenOf[su[i - 1]])
      BY <1>10, <3>3
    <3>5. c \notin ToSet(st[i - 1].children)
      BY <3>3, <3>4 DEF FrameOf
    <3>6. /\ ToSet(ChildrenOf[su[i - 1]]) \ ToSet(st[i - 1].children) \subseteq E
          /\ ToSet(st[i - 1].children) \cap E = {}
      BY <1>5, <3>1 DEF EnteredAre
    <3>7. QED
      BY <3>2, <3>5, <3>6
  <2>5. \A i \in 2..(n + 1) : i = 2 \/ i \in 3..(n + 1)
    BY <1>2
  <2>6. QED
    BY <2>3, <2>4, <2>5
<1>13. \A i \in 1..(n + 1) :
         /\ ToSet(ChildrenOf[us[i]]) \ ToSet(p[i].children) \subseteq E \cup {c}
         /\ ToSet(p[i].children) \cap (E \cup {c}) = {}
  <2>1. \A i \in 1..(n + 1) : i = 1 \/ i \in 2..(n + 1)
    BY <1>2
  <2>2. p[1].children = ChildrenOf[c] /\ us[1] = c
    BY <1>2, <1>4
  <2>3. QED
    BY <1>11, <1>12, <2>1, <2>2
<1>14. \A s \in (E \cup {c}) \ ToSet(us) : ToSet(ChildrenOf[s]) \subseteq E \cup {c}
  BY <1>9 DEF EnteredAre
<1>15. \A s \in E \cup {c}, r \in Suites :
         s \in ToSet(ChildrenOf[r]) => r \in E \cup {c}
  BY <1>6, <1>10 DEF EnteredAre
<1>16. E \cup {c} \subseteq Suites /\ Root \in E \cup {c} /\ ToSet(us) \subseteq E \cup {c}
  BY <1>2, <1>9 DEF EnteredAre
<1>17. EnteredAre(E \cup {c}, p, us)
  BY <1>5, <1>13, <1>14, <1>15, <1>16 DEF EnteredAre
<1>18. QED
  BY <1>2, <1>7, <1>17 DEF c, p, us

-----------------------------------------------------------------------------
(***************************************************************************)
(* How often a test has been run, and how often it is still to be run.     *)
(***************************************************************************)
LEMMA OccursIs ==
  ASSUME NEW S, NEW s \in Seq(S), NEW x
  PROVE  Occurs(s, x) \in Nat /\ (x \notin S => Occurs(s, x) = 0)
<1> DEFINE P == {j \in DOMAIN s : s[j] = x}
<1>1. P \subseteq 1..Len(s) /\ IsFiniteSet(1..Len(s))
  BY FS_Interval
<1>2. x \notin S => P = {}
  OBVIOUS
<1>3. IsFiniteSet(P)
  <2> HIDE DEF P
  <2>1. QED
    BY <1>1, FS_Subset
<1>4. Cardinality(P) \in Nat /\ (x \notin S => Cardinality(P) = 0)
  <2> HIDE DEF P
  <2>1. QED
    BY <1>2, <1>3, FS_CardinalityType, FS_EmptySet
<1>5. QED
  BY <1>4 DEF Occurs

LEMMA OccursTail ==
  ASSUME NEW S, NEW s \in Seq(S), s # << >>, NEW x
  PROVE  /\ Occurs(Tail(s), x) \in Nat
         /\ Occurs(s, x) = Occurs(Tail(s), x) + (IF Head(s) = x THEN 1 ELSE 0)
<1> DEFINE n == Len(s)
           A == {j \in 1..(n - 1) : s[j + 1] = x}
           B == {j \in 2..n : s[j] = x}
           P == {j \in 1..n : s[j] = x}
           f == [j \in A |-> j + 1]
<1>1. /\ n \in Nat \ {0} /\ DOMAIN s = 1..n /\ Head(s) = s[1]
      /\ Tail(s) \in Seq(S) /\ Len(Tail(s)) = n - 1
      /\ \A i \in 1..(n - 1) : Tail(s)[i] = s[i + 1]
  BY TailIs
<1> HIDE DEF n
<1>2. Occurs(Tail(s), x) = Cardinality(A)
  <2>1. DOMAIN Tail(s) = 1..(n - 1)
    BY <1>1
  <2>2. {j \in DOMAIN Tail(s) : Tail(s)[j] = x} = A
    BY <1>1, <2>1
  <2>3. QED
    BY <2>2 DEF Occurs
<1>3. Occurs(s, x) = Cardinality(P)
  BY <1>1 DEF Occurs
<1>4. IsFiniteSet(A) /\ Cardinality(A) \in Nat
  <2>1. A \subseteq 1..(n - 1) /\ IsFiniteSet(1..(n - 1))
    BY <1>1, FS_Interval
  <2> HIDE DEF A
  <2>2. QED
    BY <2>1, FS_Subset, FS_CardinalityType
<1>5. f \in Bijection(A, B)
  <2>1. f \in [A -> B]
    <3>1. \A j \in A : j + 1 \in B
      <4>1. \A j \in 1..(n - 1) : j + 1 \in 2..n
        BY <1>1
      <4>2. QED
        BY <4>1
    <3>2. QED
      BY <3>1
  <2>2. \A j, k \in A : f[j] = f[k] => j = k
    <3>1. \A j \in A : j \in Int /\ f[j] = j + 1
      OBVIOUS
    <3> HIDE DEF A, f
    <3>2. QED
      BY <3>1
  <2>3. ASSUME NEW k \in B
        PROVE  \E j \in A : f[j] = k
    <3>1. k - 1 \in 1..(n - 1) /\ (k - 1) + 1 = k
      BY <1>1
    <3>2. k - 1 \in A
      BY <3>1
    <3>3. QED
      BY <3>1, <3>2
  <2>4. QED
    BY <2>1, <2>2, <2>3 DEF Bijection, Injection, Surjection, IsInjective
<1>6. IsFiniteSet(B) /\ Cardinality(B) = Cardinality(A)
  <2> HIDE DEF A, B, f
  <2>1. ExistsBijection(A, B)
    BY <1>5 DEF ExistsBijection
  <2>2. QED
    BY <1>4, <2>1, FS_Bijection
<1>7. 1 \notin B /\ \A j \in 1..n : j = 1 \/ j \in 2..n
  BY <1>1
<1>8. CASE s[1] = x
  <2>1. P = B \cup {1}
    BY <1>1, <1>7, <1>8
  <2> HIDE DEF A, B, P
  <2>2. Cardinality(P) = Cardinality(B) + 1
    BY <1>6, <1>7, <2>1, FS_AddElement
  <2>3. QED
    BY <1>1, <1>2, <1>3, <1>4, <1>6, <1>8, <2>2
<1>9. CASE s[1] # x
  <2>1. P = B
    BY <1>1, <1>7, <1>9
  <2> HIDE DEF A, B, P
  <2>2. QED
    BY <1>1, <1>2, <1>3, <1>4, <1>6, <1>9, <2>1
<1>10. QED
  BY <1>8, <1>9

TimesIn(t, P) ==
  Cardinality({k \in DOMAIN log : log[k].test = t /\ log[k].pairs \in P})

LEMMA TimesAre ==
  ASSUME log \in Seq(ToSet(log)), NEW t, NEW P
  PROVE  /\ TimesIn(t, P) \in Nat
         /\ (\A k \in DOMAIN log : log[k].test # t) => TimesIn(t, P) = 0
<1> DEFINE Q == {k \in DOMAIN log : log[k].test = t /\ log[k].pairs \in P}
<1>1. Q \subseteq 1..Len(log) /\ IsFiniteSet(1..Len(log))
  BY FS_Interval
<1>2. (\A k \in DOMAIN log : log[k].test # t) => Q = {}
  OBVIOUS
<1>3. Cardinality(Q) \in Nat /\ (Q = {} => Cardinality(Q) = 0)
  <2> HIDE DEF Q
  <2>1. QED
    BY <1>1, FS_Subset, FS_CardinalityType, FS_EmptySet
<1>4. QED
  BY <1>2, <1>3 DEF TimesIn

LEMMA TimesGrow ==
  ASSUME log \in Seq(ToSet(log)), NEW entry, log' = Append(log, entry),
         NEW t, NEW P
  PROVE  TimesIn(t, P)'
           = TimesIn(t, P)
               + (IF entry.test = t /\ entry.pairs \in P THEN 1 ELSE 0)
<1> DEFINE n == Len(log)
           Q == {k \in 1..(n + 1) : log'[k].test = t /\ log'[k].pairs \in P}
           S == Q \cap (1..n)
<1>1. n \in Nat /\ DOMAIN log = 1..n
  OBVIOUS
<1>2. /\ Len(log') = n + 1 /\ DOMAIN log' = 1..(n + 1)
      /\ \A k \in 1..n : log'[k] = log[k]
      /\ log'[n + 1] = entry
  BY <1>1
<1>3. TimesIn(t, P) = Cardinality(S)
  <2>1. {k \in DOMAIN log : log[k].test = t /\ log[k].pairs \in P} = S
    BY <1>1, <1>2
  <2>2. QED
    BY <2>1 DEF TimesIn
<1>4. TimesIn(t, P)' = Cardinality(Q)
  BY <1>2 DEF TimesIn
<1>5. n + 1 \in Q <=> entry.test = t /\ entry.pairs \in P
  BY <1>1, <1>2
<1>6. Q \subseteq 1..(n + 1)
  OBVIOUS
<1> HIDE DEF Q
<1>7. Cardinality(Q) = Cardinality(Q \cap (1..n)) + (IF n + 1 \in Q THEN 1 ELSE 0)
  BY <1>1, <1>6, OneMore
<1>8. QED
  BY <1>3, <1>4, <1>5, <1>7

(***************************************************************************)
(* A test of a suite that has been called has been run, or is still to be  *)
(* run, as often as it is selected, for each of its combinations; while    *)
(* the loops of run_test_wild go through them, those passed count twice.   *)
(***************************************************************************)
ReachedNow(P) ==
  \E v \in Positions(wild) :
    /\ Less(v, at) \/ (pc = "next" /\ v = at)
    /\ CombinationOf(fixed, wild, v) \in P

LeftOf(st, t) == IF st = << >> THEN 0 ELSE Occurs(Head(st).tests, t)

ToCome(t) == LeftOf(stack, t)

Passed(t, P) == IF pc \in Running /\ test = t /\ ReachedNow(P) THEN 1 ELSE 0

CountsAre(E) ==
  \A s \in Suites : \A t \in ToSet(TestsOf[s]) : Covered(t) =>
    /\ \A k \in DOMAIN log :
         log[k].test = t => s \in E /\ log[k].pairs \in Combinations(t)
    /\ s \in E => \A P \in Goals(t) :
         TimesIn(t, P) + ToCome(t) = TimesSelected(t) + Passed(t, P)

EachInv ==
  /\ options.ask = "run" /\ ~options.fatal_failures
  /\ pc \notin {"arguments", "crashed"}
  => /\ pc = "done" => stack = << >>
     /\ \E su, E : /\ OnTrail(stack, su) /\ EnteredAre(E, stack, su)
                   /\ CountsAre(E)

LEMMA AsksStand ==
  ASSUME options' = options
  PROVE  /\ \A t : /\ Covered(t)' = Covered(t) /\ Goals(t)' = Goals(t)
                   /\ Combinations(t)' = Combinations(t)
                   /\ TimesSelected(t)' = TimesSelected(t)
<1>1. \A p : Given(p)' = Given(p)
  BY OptionsStand
<1>2. \A p : PossibleValues(p)' = PossibleValues(p)
  BY <1>1 DEF PossibleValues
<1>3. \A t : Filled(t)' = Filled(t)
  BY <1>1 DEF Filled
<1>4. \A t : Combinations(t)' = Combinations(t)
  BY <1>2, <1>3 DEF Combinations
<1>5. \A t : Open(t)' = Open(t) /\ Wild(t)' = Wild(t)
  BY OptionsStand
<1>6. \A t : Covered(t)' = Covered(t)
  BY <1>5 DEF Covered
<1>7. \A t : Goals(t)' = Goals(t)
  BY <1>4 DEF Goals
<1>8. \A t : TimesSelected(t)' = TimesSelected(t)
  BY DEF TimesSelected, Matches
<1>9. QED
  BY <1>4, <1>6, <1>7, <1>8

LEMMA LeftIs ==
  ASSUME NEW st, NEW su, OnTrail(st, su), NEW t
  PROVE  LeftOf(st, t) \in Nat
<1>1. ASSUME st # << >>
      PROVE  Head(st).tests \in Seq(Tests)
  <2>1. Head(st) \in Frames
    BY <1>1 DEF OnTrail
  <2>2. QED
    BY <2>1 DEF Frames
<1>2. QED
  BY <1>1, OccursIs DEF LeftOf

LEMMA NumbersAre ==
  ASSUME RInv, WalkInv, NEW t, NEW P
  PROVE  /\ TimesIn(t, P) \in Nat /\ ToCome(t) \in Nat /\ TimesSelected(t) \in Nat
         /\ Passed(t, P) \in {0, 1}
<1>1. TimesIn(t, P) \in Nat
  BY TimesAre DEF RInv, Types
<1>2. ToCome(t) \in Nat
  BY LeftIs DEF ToCome, WalkInv
<1>3. TimesSelected(t) \in Nat
  BY MatchesCount DEF TimesSelected, WalkInv
<1>4. QED
  BY <1>1, <1>2, <1>3 DEF Passed

(***************************************************************************)
(* A step that prints nothing keeps the counts when it leaves the sum as   *)
(* it is, and has all of a suite it calls to come.                         *)
(***************************************************************************)
LEMMA CountsFollow ==
  ASSUME RInv, WalkInv, WalkInv', UNCHANGED <<options, log>>,
         NEW E, NEW F, E \subseteq F, CountsAre(E),
         \A s \in Suites : \A t \in ToSet(TestsOf[s]) :
           \A P \in Goals(t) : Covered(t) =>
             /\ s \in E => ToCome(t)' + Passed(t, P) = ToCome(t) + Passed(t, P)'
             /\ s \in F \ E => ToCome(t)' = TimesSelected(t) /\ Passed(t, P)' = 0
  PROVE  CountsAre(F)'
<1> SUFFICES ASSUME NEW s \in Suites, NEW t \in ToSet(TestsOf[s]), Covered(t)
             PROVE  /\ \A k \in DOMAIN log : log[k].test = t =>
                         s \in F /\ log[k].pairs \in Combinations(t)
                    /\ s \in F => \A P \in Goals(t) :
                         TimesIn(t, P) + ToCome(t)' = TimesSelected(t) + Passed(t, P)'
  <2>1. \A u, P : TimesIn(u, P)' = TimesIn(u, P)
    BY DEF TimesIn
  <2>2. QED
    BY <2>1, AsksStand DEF CountsAre
<1>1. \A k \in DOMAIN log : log[k].test = t =>
        s \in E /\ log[k].pairs \in Combinations(t)
  BY DEF CountsAre
<1>2. ASSUME NEW P \in Goals(t), s \in F
      PROVE  TimesIn(t, P) + ToCome(t)' = TimesSelected(t) + Passed(t, P)'
  <2>1. /\ TimesIn(t, P) \in Nat /\ ToCome(t) \in Nat /\ TimesSelected(t) \in Nat
        /\ Passed(t, P) \in Nat
    BY NumbersAre
  <2>2. ToCome(t)' \in Nat /\ Passed(t, P)' \in Nat
    <3>1. ToCome(t)' \in Nat
      BY LeftIs DEF ToCome, WalkInv
    <3>2. QED
      BY <3>1 DEF Passed
  <2>3. CASE s \in E
    <3>1. TimesIn(t, P) + ToCome(t) = TimesSelected(t) + Passed(t, P)
      BY <2>3 DEF CountsAre
    <3>2. ToCome(t)' + Passed(t, P) = ToCome(t) + Passed(t, P)'
      BY <2>3
    <3>3. QED
      BY <2>1, <2>2, <3>1, <3>2
  <2>4. CASE s \notin E
    <3>1. \A k \in DOMAIN log : log[k].test # t
      BY <1>1, <2>4
    <3>2. log \in Seq(ToSet(log))
      BY DEF RInv, Types
    <3>3. TimesIn(t, P) = 0
      BY <3>1, <3>2, TimesAre
    <3>4. ToCome(t)' = TimesSelected(t) /\ Passed(t, P)' = 0
      BY <1>2, <2>4
    <3>5. QED
      BY <2>1, <3>3, <3>4
  <2>5. QED
    BY <2>3, <2>4
<1>3. QED
  BY <1>1, <1>2

EachGoal == options.ask = "run" /\ ~options.fatal_failures

LEMMA ParseArgumentsEach ==
  ASSUME RInv, WalkInv, WalkInv', EachGoal, ParseArguments
  PROVE  EachInv'
<1>1. /\ pc' = "suite" /\ stack' = <<Frame(Root)>>
      /\ UNCHANGED <<options, log>> /\ log = << >> /\ options \in OptionSets
  BY DEF ParseArguments, EachGoal, WalkInv
<1>2. OnTrail(stack', <<Root>>) /\ EnteredAre({Root}, stack', <<Root>>)
  BY <1>1, TrailStarts, EnteredStarts
<1>3. CountsAre({})
  <2>1. DOMAIN log = {}
    BY <1>1
  <2>2. QED
    BY <2>1 DEF CountsAre
<1>4. ASSUME NEW t \in ToSet(TestsOf[Root])
      PROVE  ToCome(t)' = TimesSelected(t)
  <2>1. Root \in Suites /\ Frame(Root).tests = Selected(Root)
    BY <1>1, SuitesAssumption, FrameIs
  <2>2. Occurs(Selected(Root), t) = TimesSelected(t)
    BY <1>1, <2>1, SelectedIs
  <2>3. stack' # << >> /\ Head(stack') = Frame(Root)
    BY <1>1
  <2>4. QED
    BY <2>1, <2>2, <2>3 DEF ToCome, LeftOf
<1>5. \A t, P : Passed(t, P)' = 0
  BY <1>1 DEF Passed, Running
<1>6. CountsAre({Root})'
  BY <1>1, <1>3, <1>4, <1>5, CountsFollow
<1>7. QED
  BY <1>1, <1>2, <1>6 DEF EachInv

LEMMA PopEach ==
  ASSUME RInv, WalkInv, WalkInv', NEW su, NEW E, OnTrail(stack, su),
         EnteredAre(E, stack, su), CountsAre(E), pc = "suite", pc' = pc,
         stack # << >>, Head(stack).tests = << >>, Head(stack).children = << >>,
         stack' = Tail(stack), UNCHANGED <<options, log>>
  PROVE  EachInv'
<1>1. OnTrail(stack', Tail(su)) /\ EnteredAre(E, stack', Tail(su))
  BY TrailPops, EnteredPops
<1>2. Occurs(<< >>, 0) = 0 /\ \A t : Occurs(<< >>, t) = 0
  BY FS_EmptySet DEF Occurs
<1>3. \A t : ToCome(t) = 0
  BY <1>2 DEF ToCome, LeftOf
<1>4. ASSUME NEW t
      PROVE  ToCome(t)' = 0
  <2>1. CASE stack' = << >>
    BY <2>1 DEF ToCome, LeftOf
  <2>2. CASE stack' # << >>
    <3>1. TrailFacts(stack, su)
      BY TrailIs
    <3>2. /\ Len(stack) \in Nat \ {0} /\ stack \in Seq(Frames)
          /\ \A i \in 1..(Len(stack) - 1) :
               /\ Tail(stack)[i] = stack[i + 1]
               /\ FrameOf(stack[i + 1], su[i + 1], FALSE)
      BY <3>1 DEF TrailFacts
    <3>3. Tail(stack) \in Seq(Frames) /\ Len(Tail(stack)) = Len(stack) - 1
      BY <3>2, TailIs
    <3>4. 1 \in 1..(Len(stack) - 1) /\ Head(stack') = stack'[1]
      BY <2>2, <3>2, <3>3
    <3>5. FrameOf(Head(stack'), su[1 + 1], FALSE)
      BY <3>2, <3>4
    <3>6. Head(stack').tests = << >>
      BY <3>5 DEF FrameOf
    <3>7. QED
      BY <1>2, <3>6 DEF ToCome, LeftOf
  <2>3. QED
    BY <2>1, <2>2
<1>5. \A t, P : Passed(t, P) = 0 /\ Passed(t, P)' = 0
  BY DEF Passed, Running
<1>6. CountsAre(E)'
  BY <1>3, <1>4, <1>5, CountsFollow
<1>7. QED
  BY <1>1, <1>6 DEF EachInv

LEMMA PushEach ==
  ASSUME RInv, WalkInv, WalkInv', NEW su, NEW E, OnTrail(stack, su),
         EnteredAre(E, stack, su), CountsAre(E), pc = "suite", pc' = pc,
         stack # << >>, Head(stack).tests = << >>, Head(stack).children # << >>,
         stack' = Pushed(stack), UNCHANGED <<options, log>>
  PROVE  EachInv'
<1>0. PICK c : c = Head(Head(stack).children)
  OBVIOUS
<1> DEFINE F == E \cup {c}
           us == <<c>> \o su
<1>1. options \in OptionSets
  BY DEF WalkInv
<1>2. OnTrail(stack', <<c>> \o su)
  BY <1>0, <1>1, TrailPushes
<1>3. c \in Suites /\ c \notin E /\ EnteredAre(F, stack', <<c>> \o su)
  BY <1>0, <1>1, EnteredPushes
<1>4. stack' # << >> /\ Head(stack') = Frame(c)
  BY <1>0 DEF Pushed
<1>5. /\ Frame(c).tests = Selected(c)
      /\ Selected(c) \in Seq(ToSet(TestsOf[c]))
      /\ \A t \in ToSet(TestsOf[c]) : Occurs(Selected(c), t) = TimesSelected(t)
  BY <1>1, <1>3, FrameIs, SelectedIs
<1>6. \A t : ToCome(t) = 0
  <2>1. \A t : Occurs(<< >>, t) = 0
    BY FS_EmptySet DEF Occurs
  <2>2. QED
    BY <2>1 DEF ToCome, LeftOf
<1>7. \A t : ToCome(t)' = Occurs(Selected(c), t)
  BY <1>4, <1>5 DEF ToCome, LeftOf
<1>8. \A t, P : Passed(t, P) = 0 /\ Passed(t, P)' = 0
  BY DEF Passed, Running
<1>9. ASSUME NEW s \in Suites, NEW t \in ToSet(TestsOf[s])
      PROVE  /\ s \in E => ToCome(t)' = 0
             /\ s \in F \ E => ToCome(t)' = TimesSelected(t)
  <2>1. CASE s = c
    BY <1>3, <1>5, <1>7, <2>1
  <2>2. CASE s # c
    <3>1. t \notin ToSet(TestsOf[c])
      BY <1>3, <2>2, TreeAssumption
    <3>2. Occurs(Selected(c), t) = 0
      BY <1>5, <3>1, OccursIs
    <3>3. QED
      BY <1>7, <2>2, <3>2
  <2>3. QED
    BY <2>1, <2>2
<1>10. CountsAre(F)'
  <2>1. E \subseteq F
    OBVIOUS
  <2> HIDE DEF F
  <2>2. ASSUME NEW s \in Suites, NEW t \in ToSet(TestsOf[s]), NEW P
        PROVE  /\ s \in E => ToCome(t)' + Passed(t, P) = ToCome(t) + Passed(t, P)'
               /\ s \in F \ E => ToCome(t)' = TimesSelected(t) /\ Passed(t, P)' = 0
    <3>1. /\ Passed(t, P) = 0 /\ Passed(t, P)' = 0 /\ ToCome(t) = 0
          /\ s \in E => ToCome(t)' = 0
          /\ s \in F \ E => ToCome(t)' = TimesSelected(t)
      BY <1>6, <1>8, <1>9
    <3>2. QED
      BY <3>1
  <2>3. QED
    BY <2>1, <2>2, CountsFollow
<1> HIDE DEF F, us
<1>11. OnTrail(stack', us) /\ EnteredAre(F, stack', us) /\ CountsAre(F)'
  BY <1>2, <1>3, <1>10 DEF us, F
<1>12. QED
  BY <1>11 DEF EachInv

LEMMA ChildrenEach ==
  ASSUME RInv, WalkInv, WalkInv', EachGoal, EachInv, run_suite_children
  PROVE  EachInv'
<1>1. /\ pc = "suite" /\ stack # << >> /\ Head(stack).tests = << >>
      /\ UNCHANGED <<options, pc, log>>
      /\ \/ Head(stack).children = << >> /\ stack' = Tail(stack)
         \/ Head(stack).children # << >> /\ stack' = Pushed(stack)
  BY DEF run_suite_children, Pushed, EachGoal
<1>2. PICK su, E : OnTrail(stack, su) /\ EnteredAre(E, stack, su) /\ CountsAre(E)
  BY <1>1 DEF EachInv, EachGoal
<1>3. QED
  BY <1>1, <1>2, PopEach, PushEach

LEMMA RunTestEach ==
  ASSUME RInv, WalkInv, WalkInv', EachGoal, EachInv, run_test, pc' # "crashed"
  PROVE  EachInv'
<1>1. /\ pc = "suite" /\ pc' = "start" /\ UNCHANGED <<options, stack, log>>
      /\ at' = [k \in DOMAIN wild' |-> 1]
  BY DEF run_test
<1>2. PICK su, E : OnTrail(stack, su) /\ EnteredAre(E, stack, su) /\ CountsAre(E)
  BY <1>1 DEF EachInv, EachGoal
<1>3. \A P : ~ReachedNow(P)'
  <2>1. wild' \in Seq(Parameters)
    BY DEF WalkInv
  <2>2. \A v \in Positions(wild') : ~Less(v, at')
    BY <1>1, <2>1, NoneBeforeFirst
  <2>3. QED
    BY <1>1, <2>2 DEF ReachedNow
<1>4. \A t, P : Passed(t, P) = 0 /\ Passed(t, P)' = 0
  BY <1>1, <1>3 DEF Passed, Running
<1>5. \A t : ToCome(t)' = ToCome(t)
  BY <1>1 DEF ToCome
<1>6. CountsAre(E)'
  BY <1>1, <1>2, <1>4, <1>5, CountsFollow
<1>7. QED
  BY <1>1, <1>2, <1>6 DEF EachInv

LEMMA OthersEach ==
  ASSUME RInv, WalkInv, WalkInv', EachGoal, EachInv, OtherSteps, ~print_result,
         pc' # "crashed"
  PROVE  EachInv'
<1>1. /\ UNCHANGED <<options, stack, test, fixed, wild, at, log>>
      /\ pc' \in Places /\ (pc' \in Running => pc \in Running)
      /\ pc' # "arguments" /\ pc' # "suite" /\ pc # "next" /\ pc' # "next"
      /\ pc' = "done" => pc = "suite" /\ stack = << >>
  BY OthersLeave
<1>2. /\ pc \in Running <=> pc' \in Running
      /\ pc \notin {"arguments", "crashed"}
  BY <1>1 DEF Places, Running
<1>3. PICK su, E : OnTrail(stack, su) /\ EnteredAre(E, stack, su) /\ CountsAre(E)
  BY <1>2 DEF EachInv, EachGoal
<1>4. \A P : ReachedNow(P)' = ReachedNow(P)
  BY <1>1 DEF ReachedNow
<1>5. \A t, P : Passed(t, P)' = Passed(t, P)
  BY <1>1, <1>2, <1>4 DEF Passed
<1>6. \A t : ToCome(t)' = ToCome(t)
  BY <1>1 DEF ToCome
<1>7. CountsAre(E)'
  BY <1>1, <1>3, <1>5, <1>6, CountsFollow
<1>8. QED
  BY <1>1, <1>3, <1>7 DEF EachInv

(***************************************************************************)
(* From one combination to the next, and after the last: by then every     *)
(* combination of the test has been reached.                               *)
(***************************************************************************)
LEMMA TurnEach ==
  ASSUME RInv, WalkInv, WalkInv', EachGoal, EachInv, pc = "next", pc' = "start",
         Turnable # {}, at' = Turned(Max(Turnable)),
         UNCHANGED <<options, stack, test, fixed, wild, log>>
  PROVE  EachInv'
<1>1. PICK su, E : OnTrail(stack, su) /\ EnteredAre(E, stack, su) /\ CountsAre(E)
  BY DEF EachInv, EachGoal
<1>2. \A v \in Positions(wild) : Less(v, at') <=> Less(v, at) \/ v = at
  BY TurnedIsNext
<1>3. \A P : ReachedNow(P)' <=> ReachedNow(P)
  BY <1>2 DEF ReachedNow
<1>4. \A t, P : Passed(t, P)' = Passed(t, P)
  BY <1>3 DEF Passed, Running
<1>5. \A t : ToCome(t)' = ToCome(t)
  BY DEF ToCome
<1>6. CountsAre(E)'
  BY <1>1, <1>4, <1>5, CountsFollow
<1>7. QED
  BY <1>1, <1>6 DEF EachInv

LEMMA LeaveEach ==
  ASSUME RInv, WalkInv, WalkInv', EachGoal, EachInv, pc = "next", pc' = "suite",
         Turnable = {}, stack' = AfterTest, UNCHANGED <<options, test, log>>
  PROVE  EachInv'
<1>1. PICK su, E : OnTrail(stack, su) /\ EnteredAre(E, stack, su) /\ CountsAre(E)
  BY DEF EachInv, EachGoal
<1>2. /\ stack # << >> /\ Head(stack).tests # << >>
      /\ test = Head(Head(stack).tests)
  BY DEF WalkInv, Running
<1>3. TrailFacts(stack, su)
  BY <1>1, <1>2, TrailIs
<1>4. /\ stack \in Seq(Frames) /\ Len(stack) \in Nat \ {0}
      /\ Len(su) = Len(stack) /\ su \in Seq(Suites) /\ Head(stack) = stack[1]
  BY <1>3 DEF TrailFacts
<1>5. /\ OnTrail(stack', su) /\ Len(stack') = Len(stack)
      /\ stack'[1].tests = Tail(Head(stack).tests)
      /\ stack'[1].children = Head(stack).children
      /\ \A i \in 2..Len(stack) : stack'[i] = stack[i]
  BY <1>1, <1>2, AfterTestIs DEF EachGoal
<1>6. EnteredAre(E, stack', su)
  <2>1. DOMAIN su = 1..Len(stack) /\ \A i \in 1..Len(stack) : i = 1 \/ i \in 2..Len(stack)
    BY <1>4
  <2>2. \A i \in DOMAIN su : stack'[i].children = stack[i].children
    BY <1>4, <1>5, <2>1
  <2>3. QED
    BY <1>1, <2>2, EnteredGoesOn
<1>7. Head(stack).tests \in Seq(Tests)
  <2>1. Head(stack) \in Frames
    BY <1>4
  <2>2. QED
    BY <2>1 DEF Frames
<1>8. stack' # << >> /\ Head(stack') = stack'[1]
  <2>1. stack' \in Seq(Frames) /\ Len(stack') \in Nat \ {0}
    BY <1>4, <1>5 DEF OnTrail
  <2>2. QED
    BY <2>1
<1>9. ASSUME NEW t
      PROVE  /\ ToCome(t)' \in Nat
             /\ ToCome(t) = ToCome(t)' + (IF test = t THEN 1 ELSE 0)
  <2>1. /\ Occurs(Tail(Head(stack).tests), t) \in Nat
        /\ Occurs(Head(stack).tests, t)
             = Occurs(Tail(Head(stack).tests), t) + (IF test = t THEN 1 ELSE 0)
    BY <1>2, <1>7, OccursTail
  <2>2. ToCome(t)' = Occurs(Tail(Head(stack).tests), t)
    BY <1>5, <1>8 DEF ToCome, LeftOf
  <2>3. ToCome(t) = Occurs(Head(stack).tests, t)
    BY <1>2 DEF ToCome, LeftOf
  <2>4. QED
    BY <2>1, <2>2, <2>3
<1>10. ASSUME NEW t, Covered(t), NEW P \in Goals(t)
       PROVE  Passed(t, P) = IF test = t THEN 1 ELSE 0
  <2>1. CASE test = t
    <3>1. PICK v \in Positions(wild) : CombinationOf(fixed, wild, v) \in P
      BY <1>10, <2>1, TurnReachesGoals DEF Running
    <3>2. v = at \/ Less(v, at)
      BY LastIsLast
    <3>3. ReachedNow(P)
      BY <3>1, <3>2 DEF ReachedNow
    <3>4. QED
      BY <2>1, <3>3 DEF Passed, Running
  <2>2. CASE test # t
    BY <2>2 DEF Passed
  <2>3. QED
    BY <2>1, <2>2
<1>11. \A t, P : Passed(t, P)' = 0
  BY DEF Passed, Running
<1>12. ASSUME NEW t, Covered(t), NEW P \in Goals(t)
       PROVE  ToCome(t)' + Passed(t, P) = ToCome(t) + Passed(t, P)'
  <2>1. /\ ToCome(t)' \in Nat
        /\ ToCome(t) = ToCome(t)' + (IF test = t THEN 1 ELSE 0)
        /\ Passed(t, P) = IF test = t THEN 1 ELSE 0
        /\ Passed(t, P)' = 0
    BY <1>9, <1>10, <1>11, <1>12
  <2>2. QED
    BY <2>1
<1>13. CountsAre(E)'
  BY <1>1, <1>12, CountsFollow
<1>14. QED
  BY <1>5, <1>6, <1>13 DEF EachInv

LEMMA WildEach ==
  ASSUME RInv, WalkInv, WalkInv', EachGoal, EachInv, run_test_wild
  PROVE  EachInv'
<1>1. /\ pc = "next" /\ UNCHANGED <<options, test, fixed, wild, log>>
      /\ \/ /\ Turnable # {} /\ pc' = "start"
            /\ at' = Turned(Max(Turnable)) /\ UNCHANGED stack
         \/ Turnable = {} /\ pc' = "suite" /\ stack' = AfterTest
  BY DEF run_test_wild, EachGoal
<1>2. QED
  BY <1>1, TurnEach, LeaveEach

(***************************************************************************)
(* A combination that is printed is one of its test, and was not printed   *)
(* before in this turn.                                                    *)
(***************************************************************************)
LEMMA PrintEach ==
  ASSUME RInv, WalkInv, EachGoal, EachInv, print_result
  PROVE  EachInv'
<1> DEFINE entry == [test |-> test, pairs |-> Combination, was |-> truth]
<1>1. /\ pc = "print" /\ pc' = "next" /\ log' = Append(log, entry)
      /\ UNCHANGED <<options, stack, test, fixed, wild, at>>
  BY DEF print_result
<1>2. /\ entry.test = test /\ entry.pairs = CombinationOf(fixed, wild, at)
  BY DEF Combination, CombinationOf
<1> HIDE DEF entry
<1>3. PICK su, E : OnTrail(stack, su) /\ EnteredAre(E, stack, su) /\ CountsAre(E)
  BY <1>1 DEF EachInv, EachGoal
<1>4. log \in Seq(ToSet(log)) /\ wild \in Seq(Parameters) /\ at \in Positions(wild)
  BY DEF RInv, Types, WalkInv
<1>5. /\ Len(log) \in Nat /\ DOMAIN log = 1..Len(log)
      /\ DOMAIN log' = 1..(Len(log) + 1) /\ log'[Len(log) + 1] = entry
      /\ \A k \in 1..Len(log) : log'[k] = log[k]
  BY <1>1, <1>4
<1>6. \A t : ToCome(t)' = ToCome(t)
  BY <1>1 DEF ToCome
<1>7. \A t, P : TimesIn(t, P)' = TimesIn(t, P)
                  + (IF entry.test = t /\ entry.pairs \in P THEN 1 ELSE 0)
  BY <1>1, <1>4, TimesGrow
<1>8. \A P : ReachedNow(P)' <=> ReachedNow(P) \/ entry.pairs \in P
  BY <1>1, <1>2, <1>4 DEF ReachedNow
<1>9. SUFFICES ASSUME NEW s \in Suites, NEW t \in ToSet(TestsOf[s]), Covered(t)
               PROVE  /\ \A k \in DOMAIN log' : log'[k].test = t =>
                           s \in E /\ log'[k].pairs \in Combinations(t)
                      /\ s \in E => \A P \in Goals(t) :
                           TimesIn(t, P)' + ToCome(t)
                             = TimesSelected(t) + Passed(t, P)'
  <2>1. CountsAre(E)'
    BY <1>1, <1>6, <1>9, AsksStand DEF CountsAre
  <2>2. QED
    BY <1>1, <1>3, <2>1 DEF EachInv
<1>10. /\ \A k \in 1..Len(log) : log[k].test = t =>
            s \in E /\ log[k].pairs \in Combinations(t)
       /\ s \in E => \A P \in Goals(t) :
            TimesIn(t, P) + ToCome(t) = TimesSelected(t) + Passed(t, P)
  BY <1>3, <1>5, <1>9 DEF CountsAre
<1>11. CASE t # test
  <2>1. \A k \in DOMAIN log' : log'[k].test = t =>
          s \in E /\ log'[k].pairs \in Combinations(t)
    <3>1. \A k \in 1..(Len(log) + 1) : k \in 1..Len(log) \/ k = Len(log) + 1
      BY <1>5
    <3>2. QED
      BY <1>2, <1>5, <1>10, <1>11, <3>1
  <2>2. \A P : Passed(t, P)' = Passed(t, P)
    BY <1>1, <1>11 DEF Passed
  <2>3. \A P : TimesIn(t, P)' = TimesIn(t, P)
    <3>1. \A P : TimesIn(t, P) \in Nat
      BY <1>4, TimesAre
    <3>2. QED
      BY <1>2, <1>7, <1>11, <3>1
  <2>4. QED
    BY <1>10, <2>1, <2>2, <2>3
<1>12. CASE t = test
  <2>1. s \in E
    <3>1. /\ 1 \in 1..Len(stack) /\ test \in ToSet(stack[1].tests)
          /\ stack # << >>
      BY <1>1, TestIsNext DEF Running, WalkInv
    <3>2. TrailFacts(stack, su)
      BY <1>3, <3>1, TrailIs
    <3>3. /\ su[1] \in Suites /\ FrameOf(stack[1], su[1], TRUE)
          /\ Len(su) = Len(stack) /\ su \in Seq(Suites)
      BY <3>2 DEF TrailFacts
    <3>4. test \in ToSet(TestsOf[su[1]])
      BY <3>1, <3>3 DEF FrameOf
    <3>5. s = su[1]
      BY <1>9, <1>12, <3>3, <3>4, TreeAssumption
    <3>6. su[1] \in ToSet(su)
      <4>1. 1 \in DOMAIN su
        BY <3>1, <3>3
      <4>2. QED
        BY <4>1 DEF ToSet
    <3>7. QED
      BY <1>3, <3>5, <3>6 DEF EnteredAre
  <2>2. pc \in Running /\ pc' \in Running /\ test' = t
    BY <1>1, <1>12 DEF Running
  <2>3. entry.pairs \in Combinations(t)
    BY <1>2, <1>4, <1>9, <1>12, <2>2, TurnReachesGoals
  <2>4. \A k \in DOMAIN log' : log'[k].test = t =>
          s \in E /\ log'[k].pairs \in Combinations(t)
    <3>1. \A k \in 1..(Len(log) + 1) : k \in 1..Len(log) \/ k = Len(log) + 1
      BY <1>5
    <3>2. QED
      BY <1>5, <1>10, <2>1, <2>3, <3>1
  <2>5. ASSUME NEW P \in Goals(t)
        PROVE  TimesIn(t, P)' + ToCome(t) = TimesSelected(t) + Passed(t, P)'
    <3>1. /\ TimesIn(t, P) \in Nat /\ ToCome(t) \in Nat /\ TimesSelected(t) \in Nat
      BY NumbersAre
    <3>2. TimesIn(t, P) + ToCome(t) = TimesSelected(t) + Passed(t, P)
      BY <1>10, <2>1
    <3>3. CASE entry.pairs \in P
      <4>1. PICK v \in Positions(wild) :
              \A u \in Positions(wild) : CombinationOf(fixed, wild, u) \in P => u = v
        BY <1>9, <1>12, <2>2, TurnReachesGoals
      <4>2. at = v
        BY <1>2, <1>4, <3>3, <4>1
      <4>3. ~Less(at, at)
        BY <1>4, NotLessItself
      <4>4. ~ReachedNow(P)
        BY <1>1, <4>1, <4>2, <4>3 DEF ReachedNow
      <4>5. Passed(t, P) = 0
        BY <4>4 DEF Passed
      <4>6. Passed(t, P)' = 1
        BY <1>8, <2>2, <3>3 DEF Passed
      <4>7. TimesIn(t, P)' = TimesIn(t, P) + 1
        BY <1>2, <1>7, <1>12, <3>3
      <4>8. QED
        BY <3>1, <3>2, <4>5, <4>6, <4>7
    <3>4. CASE entry.pairs \notin P
      <4>1. ReachedNow(P)' <=> ReachedNow(P)
        BY <1>8, <3>4
      <4>2. Passed(t, P)' = Passed(t, P)
        BY <1>1, <2>2, <4>1 DEF Passed
      <4>3. TimesIn(t, P)' = TimesIn(t, P)
        BY <1>7, <3>1, <3>4
      <4>4. QED
        BY <3>2, <4>2, <4>3
    <3>5. QED
      BY <3>3, <3>4
  <2>6. QED
    BY <2>4, <2>5
<1>13. QED
  BY <1>11, <1>12

LEMMA EachStays ==
  ASSUME RInv, WalkInv, WalkInv', EachInv, [Next]_vars
  PROVE  EachInv'
<1>1. options' = options
  BY OthersLeave DEF Next, RunnerGoesOn, OtherSteps, ParseArguments,
     run_suite_children, run_test, run_test_wild, vars
<1>2. SUFFICES ASSUME EachGoal, pc' # "crashed"
               PROVE  EachInv'
  BY <1>1, <1>2 DEF EachInv, EachGoal
<1>3. CASE UNCHANGED vars
  <2>1. UNCHANGED <<options, pc, stack, test, fixed, wild, at, log>>
    BY <1>3 DEF vars
  <2>2. CASE pc = "arguments"
    BY <2>1, <2>2 DEF EachInv
  <2>3. CASE pc # "arguments"
    <3>1. PICK su, E : OnTrail(stack, su) /\ EnteredAre(E, stack, su) /\ CountsAre(E)
      BY <1>2, <2>1, <2>3 DEF EachInv, EachGoal
    <3>2. \A t : ToCome(t)' = ToCome(t)
      BY <2>1 DEF ToCome
    <3>3. \A P : ReachedNow(P)' = ReachedNow(P)
      BY <2>1 DEF ReachedNow
    <3>4. \A t, P : Passed(t, P)' = Passed(t, P)
      BY <2>1, <3>3 DEF Passed
    <3>5. CountsAre(E)'
      BY <2>1, <3>1, <3>2, <3>4, CountsFollow
    <3>6. pc' = "done" => stack' = << >>
      BY <1>2, <2>1, <2>3 DEF EachInv, EachGoal
    <3>7. QED
      BY <2>1, <3>1, <3>5, <3>6 DEF EachInv
  <2>4. QED
    BY <2>2, <2>3
<1>4. CASE OtherSteps
  BY <1>2, <1>4, OthersEach, PrintEach
<1>5. QED
  BY <1>2, <1>3, <1>4, ParseArgumentsEach, ChildrenEach, RunTestEach, WildEach
     DEF Next, RunnerGoesOn, OtherSteps

(***************************************************************************)
(* When no failure is fatal, the runner that has come to its end has run   *)
(* every test that was selected for every combination of its parameters,   *)
(* as often as the test was selected, or for one with --single, and for    *)
(* nothing else: for every tree of suites, every table of parameters and   *)
(* every command line, but for the tests of which line 1631 of munit.c     *)
(* drops an open parameter.                                                *)
(***************************************************************************)
THEOREM EachCombinationRuns == Spec => []EachCombinationOnce
<1> DEFINE Inv == RInv /\ WalkInv /\ EachInv
<1>1. Init => Inv
  <2>1. Init => EachInv
    BY DEF Init, EachInv
  <2>2. QED
    BY <2>1, InitRInv, WalkStarts
<1>2. Inv /\ [Next]_vars => Inv'
  BY RInvStays, WalkStays, EachStays
<1>3. Inv => EachCombinationOnce
  <2> SUFFICES ASSUME RInv, WalkInv, EachInv, pc = "done", options.ask = "run",
                      ~options.fatal_failures, NEW t \in Tests, Covered(t)
               PROVE  /\ \A k \in DOMAIN log :
                           log[k].test = t => log[k].pairs \in Combinations(t)
                      /\ IF options.single
                           THEN Cardinality({k \in DOMAIN log : log[k].test = t})
                                  = TimesSelected(t)
                           ELSE \A pairs \in Combinations(t) :
                                  TimesRun(t, pairs) = TimesSelected(t)
    BY DEF EachCombinationOnce, Covered
  <2>1. PICK su, E : OnTrail(stack, su) /\ EnteredAre(E, stack, su) /\ CountsAre(E)
    BY DEF EachInv
  <2>2. stack = << >>
    BY DEF EachInv
  <2>3. su = << >>
    BY <2>1, <2>2 DEF OnTrail
  <2>4. E = Suites
    BY <2>1, <2>2, <2>3, EnteredAll
  <2>5. PICK s \in Suites : t \in ToSet(TestsOf[s])
    BY DEF Tests
  <2>6. \A k \in DOMAIN log : log[k].test = t => log[k].pairs \in Combinations(t)
    BY <2>1, <2>5 DEF CountsAre
  <2>7. ASSUME NEW P \in Goals(t)
        PROVE  TimesIn(t, P) = TimesSelected(t)
    <3>1. TimesIn(t, P) + ToCome(t) = TimesSelected(t) + Passed(t, P)
      BY <2>1, <2>4, <2>5, <2>7 DEF CountsAre
    <3>2. ToCome(t) = 0 /\ Passed(t, P) = 0
      BY <2>2 DEF ToCome, LeftOf, Passed, Running
    <3>3. TimesIn(t, P) \in Nat /\ TimesSelected(t) \in Nat
      BY NumbersAre
    <3>4. QED
      BY <3>1, <3>2, <3>3
  <2>8. CASE options.single
    <3>1. {k \in DOMAIN log : log[k].test = t}
            = {k \in DOMAIN log : log[k].test = t /\ log[k].pairs \in Combinations(t)}
      BY <2>6
    <3>2. Cardinality({k \in DOMAIN log : log[k].test = t}) = TimesIn(t, Combinations(t))
      BY <3>1 DEF TimesIn
    <3>3. Combinations(t) \in Goals(t)
      BY <2>8 DEF Goals
    <3>4. QED
      BY <2>6, <2>7, <2>8, <3>2, <3>3
  <2>9. CASE ~options.single
    <3>1. ASSUME NEW pairs \in Combinations(t)
          PROVE  TimesRun(t, pairs) = TimesSelected(t)
      <4>1. {pairs} \in Goals(t)
        BY <2>9 DEF Goals
      <4>2. {k \in DOMAIN log : log[k].test = t /\ log[k].pairs = pairs}
              = {k \in DOMAIN log : log[k].test = t /\ log[k].pairs \in {pairs}}
        OBVIOUS
      <4>3. TimesRun(t, pairs) = TimesIn(t, {pairs})
        BY <4>2 DEF TimesRun, TimesIn
      <4>4. QED
        BY <2>7, <4>1, <4>3
    <3>2. QED
      BY <2>6, <2>9, <3>1
  <2>10. QED
    BY <2>8, <2>9
<1>4. QED
  BY <1>1, <1>2, <1>3, PTL DEF Spec

=============================================================================

---------------------------- MODULE TestRunner ----------------------------
(***************************************************************************)
(* The test runner of 3rdp/munit/munit.c, which the unit tests of the      *)
(* server are written for.  munit_suite_main_custom walks a tree of suites;*)
(* a test is run for every combination of its parameters; each combination *)
(* runs in a child process, which sends its report through a pipe.         *)
(*                                                                         *)
(* A result may come from the test, from the way its process ended and from*)
(* a system call that failed: what is hard is that none of them is lost.   *)
(* A test may return, fail an assertion (abort in a child, a longjmp out of*)
(* the test with --no-fork), leave through exit, or be killed at any time, *)
(* also after it sent its report (a sanitizer that aborts at exit).        *)
(*                                                                         *)
(* The variables log and truth are history variables: what happened to each*)
(* combination, whatever the runner made of it.                            *)
(***************************************************************************)
EXTENDS Integers, FiniteSets, SequencesExt

CONSTANTS
  Suites, Root,    \* the suites, and the one munit_suite_main is called with
  ChildrenOf,      \* the child suites of a suite, in order
  TestsOf,         \* its tests, in order
  Todo,            \* the tests with MUNIT_TEST_OPTION_TODO
  Once,            \* those with MUNIT_TEST_OPTION_SINGLE_ITERATION
  ParametersOf,    \* [name, values] for each parameter of a test, in order;
                   \* no values where the code has NULL
  OptionSets,      \* what the command line may ask for, once parsed
  ReportSize       \* how many pieces a report may be sent in

Tests == UNION {ToSet(TestsOf[s]) : s \in Suites}

ASSUME SuitesAssumption ==
  /\ Root \in Suites
  /\ ChildrenOf \in [Suites -> Seq(Suites)]
  /\ TestsOf \in [Suites -> Seq(Tests)]
  /\ Todo \subseteq Tests /\ Once \subseteq Tests
ASSUME ReportSizeAssumption == ReportSize = 2

(***************************************************************************)
(* A suite, a test and a value stand for their places in the tables that   *)
(* munit_suite_main is called with: a tree, all of it below Root.          *)
(***************************************************************************)
ASSUME TreeAssumption ==
  /\ \A s \in Suites : /\ IsInjective(TestsOf[s]) /\ IsInjective(ChildrenOf[s])
                       /\ Root \notin ToSet(ChildrenOf[s])
  /\ \A s, r \in Suites :
       s # r => /\ ToSet(TestsOf[s]) \cap ToSet(TestsOf[r]) = {}
                /\ ToSet(ChildrenOf[s]) \cap ToSet(ChildrenOf[r]) = {}
  /\ \A S \in SUBSET Suites :
       Root \in S /\ (\A s \in S : ToSet(ChildrenOf[s]) \subseteq S) => S = Suites
ASSUME ParametersAssumption ==
  \A t \in Tests :
    /\ ParametersOf[t] \in Seq(ToSet(ParametersOf[t]))
    /\ \A j, k \in DOMAIN ParametersOf[t] :
         ParametersOf[t][j].name = ParametersOf[t][k].name => j = k
    /\ \A p \in ToSet(ParametersOf[t]) :
         p.values \in Seq(ToSet(p.values)) /\ IsInjective(p.values)

(***************************************************************************)
(* A test of the command line is the set of those whose names match it; of *)
(* the values it has for a parameter the first one counts.                 *)
(***************************************************************************)
ASSUME OptionsAssumption ==
  \A o \in OptionSets :
    /\ o.tests \in Seq(SUBSET Tests)
    /\ \A pair \in o.parameters : pair = <<pair[1], pair[2]>>
    /\ \A x, y \in o.parameters : x[1] = y[1] => x = y

VARIABLES
  options,   \* fork, fatal_failures, iterations, tests, parameters, single
  pc,        \* where the runner is
  stack,     \* the calls of run_suite under way, the innermost first
  test,      \* the test run_test was called with
  fixed,     \* its parameters with one value: a set of <<name, value>>
  wild,      \* its parameters that take every value
  at,        \* the positions of the loops of run_test_wild in those values
  child,     \* the process the test runs in
  report,    \* the report of the combination, in the runner
  received,  \* how many pieces of it have been read
  runner,    \* the report of the runner
  exit,      \* the exit status of the runner
  truth,     \* what has happened to the combination
  log        \* what happened to each combination that was printed

vars == <<options, pc, stack, test, fixed, wild, at, child, report, received,
          runner, exit, truth, log>>

Zero == [successful |-> 0, skipped |-> 0, failed |-> 0, errored |-> 0]

NoChild == [state |-> "none", iteration |-> 0, report |-> Zero, sent |-> 0]

HasFailed == runner.failed # 0 \/ runner.errored # 0

-----------------------------------------------------------------------------
(***************************************************************************)
(* The tests run_suite runs: all, or for each those names of the command   *)
(* line that match it, a name standing for the tests it is a prefix of.    *)
(***************************************************************************)
Matches(t) == {j \in DOMAIN options.tests : t \in options.tests[j]}

Selected(suite) ==
  IF options.tests = << >> THEN TestsOf[suite]
  ELSE FlattenSeq([k \in DOMAIN TestsOf[suite] |->
                     [j \in 1..Cardinality(Matches(TestsOf[suite][k])) |->
                        TestsOf[suite][k]]])

Frame(suite) ==
  [tests |-> Selected(suite), children |-> ChildrenOf[suite], below |-> FALSE]

Given(p) == \E pair \in options.parameters : pair[1] = p.name

HasValues(p) == p.values # << >>

(***************************************************************************)
(* The parameters run_test fills in from the command line, and those it    *)
(* leaves to run_test_wild.  The second loop over the parameters ends at   *)
(* the first one without values (line 1631), so that a parameter that      *)
(* comes after it is dropped.                                              *)
(***************************************************************************)
FromCommandLine(t) ==
  {pair \in options.parameters :
     \E k \in DOMAIN ParametersOf[t] : ParametersOf[t][k].name = pair[1]}

Within(s, S) ==
  FlattenSeq([k \in DOMAIN s |-> IF s[k] \in S THEN <<s[k]>> ELSE << >>])

Open(t) ==
  Within(ParametersOf[t],
         {p \in ToSet(ParametersOf[t]) : HasValues(p) /\ ~Given(p)})

BeforeNull(t) ==
  LET nulls == {k \in DOMAIN ParametersOf[t] : ~HasValues(ParametersOf[t][k])}
  IN  IF nulls = {} THEN ParametersOf[t]
      ELSE SubSeq(ParametersOf[t], 1, Min(nulls) - 1)

Wild(t) == Within(BeforeNull(t), ToSet(Open(t)))

Combination ==
  fixed \cup {<<wild[k].name, wild[k].values[at[k]]>> : k \in DOMAIN wild}

-----------------------------------------------------------------------------
Init ==
  /\ options \in OptionSets
  /\ pc = "arguments"
  /\ stack = << >>
  /\ test \in Tests
  /\ fixed = {} /\ wild = << >> /\ at = << >>
  /\ child = NoChild
  /\ report = Zero /\ received = 0
  /\ runner = Zero
  /\ exit = "none"
  /\ truth = "nothing"
  /\ log = << >>

-----------------------------------------------------------------------------
(***************************************************************************)
(* munit_suite_main_custom: wrong arguments end it with a failure, --list  *)
(* and --help with success; otherwise the suites are run, and the status   *)
(* tells of their failures.                                                *)
(***************************************************************************)
ParseArguments ==
  /\ pc = "arguments"
  /\ \/ /\ options.ask = "run"
        /\ pc' = "suite" /\ stack' = <<Frame(Root)>>
        /\ UNCHANGED exit
     \/ /\ options.ask # "run"
        /\ pc' = "done"
        /\ exit' = IF options.ask = "list" THEN "success" ELSE "failure"
        /\ UNCHANGED stack
  /\ UNCHANGED <<options, test, fixed, wild, at, child, report, received,
                 runner, truth, log>>

SuitesRun ==
  /\ pc = "suite" /\ stack = << >>
  /\ pc' = "done"
  /\ exit' = IF HasFailed THEN "failure" ELSE "success"
  /\ UNCHANGED <<options, stack, test, fixed, wild, at, child, report,
                 received, runner, truth, log>>

(***************************************************************************)
(* munit_test_runner_run_suite after its tests: with --fatal-failures it   *)
(* looks for a failure before the first child suite, and only there.       *)
(***************************************************************************)
run_suite_children ==
  /\ pc = "suite" /\ stack # << >>
  /\ LET frame == Head(stack)
     IN  /\ frame.tests = << >>
         /\ stack' =
              IF \/ frame.children = << >>
                 \/ ~frame.below /\ options.fatal_failures /\ HasFailed
              THEN Tail(stack)
              ELSE <<Frame(Head(frame.children)),
                     [frame EXCEPT !.children = Tail(@), !.below = TRUE]>>
                     \o Tail(stack)
  /\ UNCHANGED <<options, pc, test, fixed, wild, at, child, report, received,
                 runner, exit, truth, log>>

(***************************************************************************)
(* munit_test_runner_run_test.  With --single a parameter gets a random    *)
(* value, at_most(salt, possible - 1), which divides by zero when one value*)
(* is possible.  When the loop of line 1631 drops every open parameter,    *)
(* run_test_wild looks for a name that is NULL and reads values that are.  *)
(***************************************************************************)
run_test_crashes(t) ==
  \/ options.single /\ \E p \in ToSet(Open(t)) : Len(p.values) = 1
  \/ ~options.single /\ Open(t) # << >> /\ Wild(t) = << >>

RandomValues(t) ==
  {pairs \in SUBSET UNION {{p.name} \X ToSet(p.values) : p \in ToSet(Open(t))} :
     \A p \in ToSet(Open(t)) :
       Cardinality({pair \in pairs : pair[1] = p.name}) = 1}

run_test ==
  /\ pc = "suite" /\ stack # << >> /\ Head(stack).tests # << >>
  /\ LET t == Head(Head(stack).tests)
     IN  /\ test' = t
         /\ \/ /\ run_test_crashes(t)
               /\ pc' = "crashed"
               /\ UNCHANGED <<fixed, wild, at>>
            \/ /\ ~run_test_crashes(t)
               /\ pc' = "start"
               /\ IF options.single
                    THEN /\ \E pairs \in RandomValues(t) :
                              fixed' = FromCommandLine(t) \cup pairs
                         /\ wild' = << >>
                    ELSE /\ fixed' = FromCommandLine(t)
                         /\ wild' = Wild(t)
               /\ at' = [k \in DOMAIN wild' |-> 1]
  /\ UNCHANGED <<options, stack, child, report, received, runner, exit, truth,
                 log>>

(***************************************************************************)
(* After a combination: run_test_wild goes on to the next one, the last    *)
(* parameter turning fastest, unless a failure is fatal.  After the last,  *)
(* run_suite goes on; it gives up its suite at a fatal failure when the    *)
(* command line named tests, and not when it runs all (line 1677).  Faulty *)
(* variants, not used: a loop goes one too far; the loops inside the one   *)
(* that turns do not start again; only the innermost loop is left.         *)
(***************************************************************************)
OneTooFar == {k \in DOMAIN wild : at[k] <= Len(wild[k].values)}

Turnable == {k \in DOMAIN wild : at[k] < Len(wild[k].values)}

NotReset(k) == [at EXCEPT ![k] = @ + 1]

Turned(k) ==
  [j \in DOMAIN at |-> IF j < k THEN at[j] ELSE IF j = k THEN at[j] + 1 ELSE 1]

AfterTest ==
  LET frame == Head(stack)
  IN  IF options.tests # << >> /\ options.fatal_failures /\ HasFailed
        THEN Tail(stack)
        ELSE <<[frame EXCEPT !.tests = Tail(@)]>> \o Tail(stack)

LeavesInnerLoop ==
  /\ pc = "next"
  /\ LET turnable == IF options.fatal_failures /\ HasFailed
                     THEN Turnable \ {Len(at)} ELSE Turnable
     IN  IF turnable # {}
           THEN /\ pc' = "start"
                /\ at' = Turned(Max(turnable))
                /\ UNCHANGED stack
           ELSE /\ pc' = "suite"
                /\ stack' = AfterTest
                /\ UNCHANGED at
  /\ UNCHANGED <<options, test, fixed, wild, child, report, received, runner,
                 exit, truth, log>>

run_test_wild ==
  /\ pc = "next"
  /\ IF Turnable # {} /\ ~(options.fatal_failures /\ HasFailed)
       THEN /\ pc' = "start"
            /\ at' = Turned(Max(Turnable))
            /\ UNCHANGED stack
       ELSE /\ pc' = "suite"
            /\ stack' = AfterTest
            /\ UNCHANGED at
  /\ UNCHANGED <<options, test, fixed, wild, child, report, received, runner,
                 exit, truth, log>>

-----------------------------------------------------------------------------
(***************************************************************************)
(* munit_test_runner_run_test_with_params, in its parts.  First the buffer *)
(* for stderr, the pipe and the child.  When the buffer or the pipe fails  *)
(* the report stays empty (lines 1338 and 1348); when fork fails an error  *)
(* is counted.                                                             *)
(***************************************************************************)
Begin(p, process, rep, happened) ==
  /\ pc = "start"
  /\ pc' = p /\ child' = process /\ report' = rep /\ truth' = happened
  /\ received' = 0
  /\ UNCHANGED <<options, stack, test, fixed, wild, at, runner, exit, log>>

BufferFails == Begin("print", NoChild, Zero, "not run")

PipeFails == options.fork /\ Begin("print", NoChild, Zero, "not run")

ForkFails ==
  options.fork /\ Begin("print", NoChild, [Zero EXCEPT !.errored = 1], "bad")

fork ==
  /\ options.fork
  /\ Begin("reading", [NoChild EXCEPT !.state = "running"], Zero, "nothing")

RunsInPlace ==
  /\ ~options.fork
  /\ Begin("in place", [NoChild EXCEPT !.state = "running"], Zero, "nothing")

(***************************************************************************)
(* munit_test_runner_exec, in the child or in place: the test is run until *)
(* it does not return MUNIT_OK, or often enough.  What happened is noted;  *)
(* what was bad stays bad.                                                 *)
(***************************************************************************)
Iterations == IF test \in Once THEN 1 ELSE options.iterations

Note(happened) == truth' = IF truth = "bad" THEN "bad" ELSE happened

Reported(rep) ==
  IF options.fork
    THEN /\ child' = [child EXCEPT !.state = "writing", !.report = rep]
         /\ UNCHANGED <<pc, report>>
    ELSE /\ child' = NoChild
         /\ pc' = "print" /\ report' = rep

Unchanged == <<options, stack, test, fixed, wild, at, received, runner, log>>

TestReturnsOK ==
  /\ child.state = "running"
  /\ LET counted == [child.report EXCEPT !.successful = @ + 1]
         i       == child.iteration + 1
     IN  IF i < Iterations
           THEN /\ child' = [child EXCEPT !.report = counted, !.iteration = i]
                /\ UNCHANGED <<pc, report, truth>>
           ELSE Reported(counted) /\ Note("passed")
  /\ UNCHANGED <<Unchanged, exit>>

(***************************************************************************)
(* Another result ends the iterations; one that is none of the four is     *)
(* counted nowhere, and the report tells of the iterations before it.      *)
(***************************************************************************)
TestReturnsOther ==
  /\ child.state = "running"
  /\ \/ \E result \in {"skipped", "failed", "errored"} :
          /\ Reported([child.report EXCEPT ![result] = @ + 1])
          /\ Note(IF result = "skipped" THEN "skipped" ELSE "bad")
     \/ /\ Reported(child.report)
        /\ Note(IF child.report.successful > 0
                THEN "passed before" ELSE "not run")
  /\ UNCHANGED <<Unchanged, exit>>

(***************************************************************************)
(* munit_errorf_ex: a failed assertion jumps out of the test when a jump   *)
(* is prepared, which is so in place only; else it aborts.                 *)
(***************************************************************************)
errorf ==
  /\ child.state = "running"
  /\ IF options.fork
       THEN /\ child' = [child EXCEPT !.state = "killed"]
            /\ UNCHANGED <<pc, report>>
       ELSE Reported([child.report EXCEPT !.failed = @ + 1])
  /\ Note("bad")
  /\ UNCHANGED <<Unchanged, exit>>

(***************************************************************************)
(* The process that runs the test is killed, or leaves through exit; in    *)
(* place that is the runner.                                               *)
(***************************************************************************)
Ends(state) ==
  /\ child.state \in {"running", "writing"}
  /\ IF options.fork
       THEN /\ child' = [child EXCEPT !.state = state]
            /\ UNCHANGED <<pc, exit>>
       ELSE /\ pc' = "crashed"
            /\ exit' = IF state = "exited" THEN "success" ELSE "failure"
            /\ child' = NoChild
  /\ Note("bad")
  /\ UNCHANGED <<Unchanged, report>>

Dies == Ends("killed") \/ Ends("exited with failure")

TestExits == child.state = "running" /\ Ends("exited")

(***************************************************************************)
(* The child sends its report, in as many writes as it takes; a write that *)
(* fails ends it.  When all is written it exits with success.              *)
(***************************************************************************)
WriteReport ==
  /\ child.state = "writing"
  /\ IF child.sent < ReportSize
       THEN child' = [child EXCEPT !.sent = @ + 1]
       ELSE child' = [child EXCEPT !.state = "exited"]
  /\ UNCHANGED <<Unchanged, pc, report, exit, truth>>

(***************************************************************************)
(* The runner reads until it has a report, or the end of the pipe: nobody  *)
(* holds its other end, the runner having closed its own (line 1388).  A   *)
(* faulty variant, not used, forgets that.  A report read in part has its  *)
(* first counters only.                                                    *)
(***************************************************************************)
ChildHasEnded == child.state \notin {"none", "running", "writing"}

ReadSoFar(n) ==
  IF n = 0 THEN Zero
  ELSE IF n = ReportSize THEN child.report
  ELSE [child.report EXCEPT !.failed = 0, !.errored = 0]

ReadReport ==
  /\ pc = "reading"
  /\ \E n \in (received + 1)..child.sent :
       /\ received' = n
       /\ report' = ReadSoFar(n)
       /\ pc' = IF n = ReportSize THEN "waiting" ELSE "reading"
  /\ UNCHANGED <<options, stack, test, fixed, wild, at, child, runner, exit,
                 truth, log>>

KeepsWriteEnd == FALSE

EndOfPipe ==
  /\ pc = "reading" /\ received = child.sent /\ ChildHasEnded
  /\ pc' = "waiting"
  /\ UNCHANGED <<options, stack, test, fixed, wild, at, child, report,
                 received, runner, exit, truth, log>>

ReadFails ==
  /\ pc = "reading"
  /\ pc' = "waiting"
  /\ Note("bad")
  /\ UNCHANGED <<options, stack, test, fixed, wild, at, child, report,
                 received, runner, exit, log>>

(***************************************************************************)
(* waitpid: an error unless the child exited with success and its report   *)
(* is complete.  A waitpid that fails is an error too.  The second one gets*)
(* hold of the child then, or fails as well: its result is not looked at,  *)
(* and the child is left to itself, running or dead.  The runner has closed*)
(* the pipe, so that nothing the child still does reaches it.  Two faulty  *)
(* variants, not used: how the child ended does not matter; nor does       *)
(* whether waitpid failed (status is 0 then, line 1304).                   *)
(***************************************************************************)
BelievesTheReport ==
  /\ pc = "waiting" /\ ChildHasEnded
  /\ report' = IF received = ReportSize THEN report
               ELSE [report EXCEPT !.errored = @ + 1]
  /\ pc' = "print" /\ child' = NoChild
  /\ UNCHANGED <<Unchanged, exit, truth>>

waitpid ==
  /\ pc = "waiting" /\ ChildHasEnded
  /\ report' = IF child.state = "exited" /\ received = ReportSize THEN report
               ELSE [report EXCEPT !.errored = @ + 1]
  /\ pc' = "print" /\ child' = NoChild
  /\ UNCHANGED <<Unchanged, exit, truth>>

StatusOfAnyWait ==
  /\ pc = "waiting"
  /\ report' = IF received = ReportSize THEN report
               ELSE [report EXCEPT !.errored = @ + 1]
  /\ pc' = "reaping"
  /\ Note("bad")
  /\ UNCHANGED <<Unchanged, exit, child>>

waitpid_fails ==
  /\ pc = "waiting"
  /\ report' = [report EXCEPT !.errored = @ + 1]
  /\ pc' = "reaping"
  /\ Note("bad")
  /\ UNCHANGED <<Unchanged, exit, child>>

waitpid_again ==
  /\ pc = "reaping" /\ ChildHasEnded
  /\ pc' = "print" /\ child' = NoChild
  /\ UNCHANGED <<Unchanged, exit, report, truth>>

waitpid_again_fails ==
  /\ pc = "reaping"
  /\ pc' = "print" /\ child' = [child EXCEPT !.state = "left"]
  /\ truth' = "left"
  /\ UNCHANGED <<Unchanged, exit, report>>

(***************************************************************************)
(* print_result: one counter of the runner for the combination, or none.   *)
(***************************************************************************)
Verdict ==
  IF test \in Todo
    THEN IF report.failed # 0 \/ report.errored # 0 \/ report.skipped # 0
           THEN "todo" ELSE "failed"
  ELSE IF report.failed > 0 THEN "failed"
  ELSE IF report.errored > 0 THEN "errored"
  ELSE IF report.skipped > 0 THEN "skipped"
  ELSE IF report.successful > 0 THEN "successful"
  ELSE "none"

print_result ==
  /\ pc = "print"
  /\ pc' = "next"
  /\ runner' = IF Verdict \in DOMAIN runner
               THEN [runner EXCEPT ![Verdict] = @ + 1] ELSE runner
  /\ log' = Append(log, [test |-> test, pairs |-> Combination, was |-> truth])
  /\ UNCHANGED <<options, stack, test, fixed, wild, at, child, report,
                 received, exit, truth>>

-----------------------------------------------------------------------------
RunnerGoesOn ==
  \/ ParseArguments \/ SuitesRun \/ run_suite_children \/ run_test
  \/ run_test_wild \/ fork \/ RunsInPlace \/ ReadReport \/ EndOfPipe
  \/ waitpid \/ waitpid_again \/ print_result

TestEnds == TestReturnsOK \/ WriteReport

SomethingFails ==
  \/ BufferFails \/ PipeFails \/ ForkFails \/ ReadFails \/ waitpid_fails
  \/ waitpid_again_fails \/ TestReturnsOther \/ errorf \/ Dies \/ TestExits

Next == RunnerGoesOn \/ TestEnds \/ SomethingFails

(***************************************************************************)
(* The runner goes on when it can, and so does the test: a test that hangs *)
(* hangs the runner, which sets no time limit.  Nothing need fail.         *)
(***************************************************************************)
Spec == Init /\ [][Next]_vars /\ WF_vars(RunnerGoesOn) /\ WF_vars(TestEnds)

-----------------------------------------------------------------------------
Report == [DOMAIN Zero -> Nat]

(***************************************************************************)
(* What went well and what did not, of what can happen to a combination.   *)
(***************************************************************************)
Well == {"passed", "passed before"}
Bad == {"bad", "left"}

TypeOK ==
  /\ options \in OptionSets
  /\ pc \in {"arguments", "suite", "start", "in place", "reading", "waiting",
             "reaping", "print", "next", "done", "crashed"}
  /\ \A k \in DOMAIN stack : stack[k].tests \in Seq(Tests)
  /\ test \in Tests
  /\ DOMAIN at = DOMAIN wild
  /\ \A k \in DOMAIN at : at[k] \in DOMAIN wild[k].values
  /\ child.state \in {"none", "running", "writing", "exited",
                      "exited with failure", "killed", "left"}
  /\ child.report \in Report /\ report \in Report /\ runner \in Report
  /\ received <= child.sent \/ child.state \in {"none", "left"}
  /\ exit \in {"none", "success", "failure"}
  /\ truth \in {"nothing", "skipped", "not run"} \cup Well \cup Bad

(***************************************************************************)
(* The counters of the runner, which decide its exit status, are what      *)
(* really happened: a combination counts as a success only when its test   *)
(* passed every time, its whole report arrived and its process exited with *)
(* success, whatever was killed, cut short or failed on the way.  One whose*)
(* buffer or pipe could not be made is not counted at all.  A test marked  *)
(* TODO counts only when it does not fail, as a failure.  Not so for a     *)
(* result that is none of the four: it ends the test, and the iterations   *)
(* before it make it a success, or nothing when there are none.            *)
(***************************************************************************)
Times(kinds, todo) ==
  Cardinality({k \in DOMAIN log :
                 log[k].was \in kinds /\ (log[k].test \in Todo) = todo})

VerdictsAreTrue ==
  /\ runner.successful = Times(Well, FALSE)
  /\ runner.skipped = Times({"skipped"}, FALSE)
  /\ runner.failed + runner.errored =
       Times(Bad, FALSE) + Times(Well \cup {"not run"}, TRUE)

(***************************************************************************)
(* When no failure is fatal every test selected was run, for every         *)
(* combination of its parameters once (for one, with --single), those from *)
(* the command line fixed.  Not so for a test with a parameter without     *)
(* values before an open one, of which line 1631 drops the latter.         *)
(***************************************************************************)
Filled(t) ==
  {p \in ToSet(ParametersOf[t]) : Given(p) \/ HasValues(p)}

PossibleValues(p) ==
  {v \in ToSet(p.values) \cup {pair[2] : pair \in options.parameters} :
     IF Given(p) THEN <<p.name, v>> \in options.parameters
     ELSE v \in ToSet(p.values)}

Combinations(t) ==
  {pairs \in SUBSET UNION {{p.name} \X PossibleValues(p) : p \in Filled(t)} :
     \A p \in Filled(t) :
       Cardinality({pair \in pairs : pair[1] = p.name}) = 1}

TimesRun(t, pairs) ==
  Cardinality({k \in DOMAIN log : log[k].test = t /\ log[k].pairs = pairs})

TimesSelected(t) ==
  IF options.tests = << >> THEN 1
  ELSE Cardinality(Matches(t))

EachCombinationOnce ==
  pc = "done" /\ options.ask = "run" /\ ~options.fatal_failures =>
    \A t \in Tests : Wild(t) = Open(t) \/ options.single =>
      /\ \A k \in DOMAIN log :
           log[k].test = t => log[k].pairs \in Combinations(t)
      /\ IF options.single
           THEN Cardinality({k \in DOMAIN log : log[k].test = t})
                  = TimesSelected(t)
           ELSE \A pairs \in Combinations(t) :
                  TimesRun(t, pairs) = TimesSelected(t)

(***************************************************************************)
(* With --fatal-failures no further combination of a test is run after one *)
(* that failed.  Other tests may be: in the suite when all tests are run,  *)
(* and in the next child suites.                                           *)
(***************************************************************************)
FatalStopsTheTest ==
  options.fatal_failures =>
    \A k \in 1..(Len(log) - 1) :
      log[k].was \in Bad /\ log[k].test \notin Todo
        => log[k + 1].test # log[k].test

(***************************************************************************)
(* The runner goes on when the child was waited for, or when waitpid has   *)
(* failed twice for it (line 1420 does not look at the second result); a   *)
(* run that left a child behind in this way does not end with success,     *)
(* whatever the child had reported, but for a test marked TODO.            *)
(***************************************************************************)
NoChildIsLeft ==
  /\ pc \notin {"in place", "reading", "waiting", "reaping"}
       => child.state \in {"none", "left"}
  /\ pc = "done" /\ exit = "success" =>
       \A k \in DOMAIN log : log[k].was = "left" => log[k].test \in Todo

(***************************************************************************)
(* The runner comes to an end, however the children end: it never reads    *)
(* from a pipe that nobody will write to.                                  *)
(***************************************************************************)
RunnerEnds == <>(pc \in {"done", "crashed"})

=============================================================================

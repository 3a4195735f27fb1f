---------------------------- MODULE MCTestRunner ----------------------------
(***************************************************************************)
(* TestRunner for TLC: a suite with a test of two parameters and a test    *)
(* marked TODO, and two child suites; the last test has a parameter of one *)
(* value, and one for any value in front of it.                            *)
(***************************************************************************)
EXTENDS TestRunner

CONSTANTS root, first, second, t1, t2, t3, A, B

MCSuites == {root, first, second}

MCChildrenOf ==
  [s \in MCSuites |-> IF s = root THEN <<first, second>> ELSE << >>]

MCTestsOf ==
  [s \in MCSuites |-> IF s = root THEN <<t1>>
                      ELSE IF s = first THEN <<t2>> ELSE <<t3>>]

Param(name, values) == [name |-> name, values |-> values]

MCParametersOf ==
  [t \in {t1, t2, t3} |->
     IF t = t1 THEN <<Param(A, <<1, 2>>), Param(B, <<1, 2>>)>>
     ELSE IF t = t2 THEN << >>
     ELSE <<Param(A, << >>), Param(B, <<1>>)>>]

Default ==
  [ask |-> "run", fork |-> TRUE, fatal_failures |-> FALSE, iterations |-> 1,
   tests |-> << >>, parameters |-> {}, single |-> FALSE]

MCOptionSets ==
  {[Default EXCEPT !.tests = <<{t1, t2}>>, !.parameters = {<<B, 1>>}],
   [Default EXCEPT !.tests = <<{t1}>>],
   [Default EXCEPT !.tests = <<{t1}>>, !.iterations = 2, !.parameters = {<<A, 2>>}],
   [Default EXCEPT !.fatal_failures = TRUE, !.parameters = {<<B, 1>>}],
   [Default EXCEPT !.fatal_failures = TRUE, !.tests = <<{t2}, {t1}>>],
   [Default EXCEPT !.tests = <<{t3}, {t1, t3}>>, !.parameters = {<<A, 2>>, <<B, 1>>}],
   [Default EXCEPT !.fork = FALSE, !.iterations = 2],
   [Default EXCEPT !.fork = FALSE, !.fatal_failures = TRUE],
   [Default EXCEPT !.single = TRUE, !.parameters = {<<B, 1>>}],
   [Default EXCEPT !.single = TRUE],
   [Default EXCEPT !.ask = "list"],
   [Default EXCEPT !.ask = "wrong"]}

=============================================================================

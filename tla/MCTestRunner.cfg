CONSTANTS
  root = root
  first = first
  second = second
  t1 = t1
  t2 = t2
  t3 = t3
  A = A
  B = B
  Suites <- MCSuites
  Root = root
  ChildrenOf <- MCChildrenOf
  TestsOf <- MCTestsOf
  Todo = {t2}
  Once = {t3}
  ParametersOf <- MCParametersOf
  OptionSets <- MCOptionSets
  ReportSize = 2
SPECIFICATION Spec
INVARIANTS
  TypeOK
  VerdictsAreTrue
  EachCombinationOnce
  FatalStopsTheTest
  NoChildIsLeft
PROPERTY RunnerEnds
CHECK_DEADLOCK FALSE

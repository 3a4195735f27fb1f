SPECIFICATION Spec
INVARIANTS TypeOK SocketInUseIsOpen SuccessMeansDestroyed AbortOnlyNested
PROPERTIES OnlyStartupSwallows SignalEndsProcess
CHECK_DEADLOCK FALSE

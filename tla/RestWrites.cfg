\* Two calls with up to two retries each, two faults; an operation may fail before
\* it has written as often as it likes.
SPECIFICATION Spec
CONSTANTS
  Limit = 2
  MaxCalls = 2
  MaxFaults = 2
INVARIANTS TypeOK LatestWriteStands
PROPERTIES OnlyRepeatsBringBack EveryCallReturns ImplementsRemoteStore
CHECK_DEADLOCK FALSE

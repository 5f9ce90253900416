SPECIFICATION FairSpec
CONSTANTS ONE_SECOND_IN_USECS = 10
          InitSizes <- MCInitSizes
          Intervals <- MCIntervals
          Delays <- MCDelays
          MaxTimers = 5
          MaxTime = 1
INVARIANTS HeapOrdered LookupExact FreeIndicesExact
PROPERTIES ImplementsTimerSet EveryTimerServed
CHECK_DEADLOCK FALSE

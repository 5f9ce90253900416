SPECIFICATION FairSpec
CONSTANTS Hwm = 4
          Bodies <- MCNoBodies
          MaxRequests = 0
          Faults <- MCFaults
          Clients = 2
          Rows <- MCRows
          Requests <- MCMore
INVARIANTS ClientsExclusive
PROPERTIES ImplementsService EveryRequestAnswered ClientsReturn
CHECK_DEADLOCK FALSE

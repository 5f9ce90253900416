SPECIFICATION Spec
CONSTANTS Hwm = 3
          Bodies <- MCNoBodies
          MaxRequests = 0
          Faults <- MCRace
          Clients = 2
          Rows <- MCRows
          Requests <- MCRequests
INVARIANTS IdsEchoed
CHECK_DEADLOCK FALSE

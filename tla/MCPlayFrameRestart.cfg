SPECIFICATION Spec
CONSTANTS Hwm = 6
          Bodies <- MCGood
          MaxRequests = 2
          Faults <- MCKill
          ConnPoolSize = 1
          MaxConns = 1
          PlayerPoolSize = 2
          CityPoolSize = 2
          MaxCities = 2
          Trunc <- MCTrunc
          Clients = 2
          Rows <- MCRows
INVARIANTS RestartRestores
CHECK_DEADLOCK FALSE

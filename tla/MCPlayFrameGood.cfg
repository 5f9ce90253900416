SPECIFICATION FairSpec
CONSTANTS Hwm = 6
          Bodies <- MCGood
          MaxRequests = 3
          Faults <- MCNone
          ConnPoolSize = 2
          MaxConns = 3
          PlayerPoolSize = 2
          CityPoolSize = 2
          MaxCities = 2
          Trunc <- MCTrunc
          Clients = 2
          Rows <- MCRows
INVARIANTS SessionsMatch RightClient CitiesKept NeverDown
PROPERTIES RequestsAnswered
CHECK_DEADLOCK FALSE

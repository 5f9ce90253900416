SPECIFICATION FairSpec
CONSTANTS Hwm = 2
          Bodies <- MCGood
          MaxRequests = 3
          Faults <- MCLossy
          ConnPoolSize = 1
          MaxConns = 2
          PlayerPoolSize = 2
          CityPoolSize = 2
          MaxCities = 2
          Trunc <- MCTrunc
          Clients = 2
          Rows <- MCRows
PROPERTIES LogicsEnd
CHECK_DEADLOCK FALSE

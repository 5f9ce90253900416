SPECIFICATION FairSpec
CONSTANTS Hwm = 4
          Bodies <- MCLogins
          MaxRequests = 2
          Faults <- MCStop
          ConnPoolSize = 2
          MaxConns = 2
          PlayerPoolSize = 2
          CityPoolSize = 1
          MaxCities = 2
          Trunc <- MCTrunc
          Clients = 2
          Rows <- MCRows
PROPERTIES ShutdownEnds
CHECK_DEADLOCK FALSE

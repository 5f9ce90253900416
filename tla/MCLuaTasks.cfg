SPECIFICATION FairSpec
CONSTANTS Hwm = 4
          Bodies <- MCLong
          MaxRequests = 2
          Faults <- MCImpatient
          ConnPoolSize = 2
          MaxConns = 2
          PlayerPoolSize = 2
          CityPoolSize = 1
          MaxCities = 2
          Trunc <- MCTrunc
          Clients = 2
          Rows <- MCRows
INVARIANTS TimersHaveTasks
PROPERTIES TasksEnd ShutdownEndsAlone
CHECK_DEADLOCK FALSE

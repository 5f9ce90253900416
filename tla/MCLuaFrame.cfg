SPECIFICATION Spec
CONSTANTS Hwm = 3
          Bodies <- MCKinds
          MaxRequests = 2
          Faults <- MCHard
          ConnPoolSize = 2
          MaxConns = 3
          PlayerPoolSize = 1
          CityPoolSize = 1
          MaxCities = 2
          Trunc <- MCTrunc
          Clients = 2
          Rows <- MCRows
INVARIANTS AnswerOnce  TaskGetsItsAnswer
CHECK_DEADLOCK FALSE

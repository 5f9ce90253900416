SPECIFICATION Spec
CONSTANTS Hwm = 2
          Bodies <- MCKinds
          MaxRequests = 2
          Faults <- MCAll
          ConnPoolSize = 2
          MaxConns = 2
          PlayerPoolSize = 2
          CityPoolSize = 1
          MaxCities = 2
          Trunc <- MCTrunc
          Clients = 2
          Rows <- MCRows
INVARIANTS TypeOK CityOwnership AnswerOnce AnswersExpected PlayerVerified StopIsLast
CHECK_DEADLOCK FALSE

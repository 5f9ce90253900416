SPECIFICATION FairSpec
CONSTANTS Hwm = 1
          Bodies <- MCBodies
          MaxRequests = 2
          Faults <- MCFaults
          ConnPoolSize = 1
          MaxConns = 2
          MaxEvents = 2
          Size = 3
          PkgBufSize = 4
          SocketBuf = 3
          MaxMessages = 3
INVARIANTS StreamsIntact WatchExact
PROPERTIES ImplementsConnSvr SendBufDrains
CHECK_DEADLOCK FALSE

SPECIFICATION FairServer
CONSTANTS UnitCounts <- MCUnitCounts
          Pids <- MCPids
INVARIANTS FreeListExact FindExact ReleaseNeverAborts PidFileNamesServer
PROPERTIES ImplementsPool StopEnds

SPECIFICATION FairSpec
CONSTANTS
  c1 = c1
  c2 = c2
  q1 = q1
  q2 = q2
  q3 = q3
  Conns <- MCConns
  Queries <- MCQueries
  Views <- MCViews
  MaxTimes = 2
  MaxLost = 1
  Console = Console
  Nobody = Nobody
INVARIANTS
  CountIsHolders
  MemoryIffHeld
  
  
PROPERTIES
  SafeQuitQuits
\* The process ends.
CHECK_DEADLOCK FALSE

SPECIFICATION FairSpec
CONSTANTS
  Peers = {"peer"}
  Chats = {"peer"}
  Msgs = {"msg"}
  Callables = {"f"}
  NoObject = "none"
  Lists <- MCLists
  Elements <- MCElements
  Functions <- MCFunctions
  Methods <- MCMethods
  MaxEntries = 2
  MaxObjects = 2
  MaxCalls = 2
INVARIANTS
  CountsAreHolders
  UsedIsAlive
  QuitLosesNoCall
PROPERTIES
  ImplementsCalls
  QueuedIsMade
\* The process ends, by safe_quit, a signal, an assertion or an error.
CHECK_DEADLOCK FALSE

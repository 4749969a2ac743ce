SPECIFICATION FairSpec
CONSTANTS
  Exchanges = {"Bitfinex", "Qryptos"}
  Popups <- MCPopups
  Products = {"BTC-ETH"}
  FatalRejections = FALSE
  MaxAsks = 3
INVARIANTS
  EachRequestInOnePlace
  QueuesInOrder
  ShownBookIsItsOwn
  SpinnerHasAReason
PROPERTIES
  ImplementsService
  QueuedIsTaken
\* The process may end, and the bound on requests is reached.
CHECK_DEADLOCK FALSE

SPECIFICATION Spec
CONSTANTS
  Exchanges = {"Bittrex", "Poloniex"}
  Ids <- MCIdsJunk
  Junk <- MCJunk
  CurrencyOf <- MCCurrencyOfJunk
  Clients = {c1}
  Prompt = FALSE
  FatalRejections = FALSE
  MaxSent = 4
INVARIANTS
  KeptMarketsAreComparable
  SameCurrencySameStatus
\* The process may end, and the bound on requests is reached.
CHECK_DEADLOCK FALSE

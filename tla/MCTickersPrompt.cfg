SPECIFICATION FairSpec
CONSTANTS
  Exchanges = {"Bitfinex", "Exmo", "Qryptos"}
  Ids <- MCIds
  Junk <- MCNoJunk
  CurrencyOf <- MCCurrencyOf
  Clients = {}
  Prompt = TRUE
  FatalRejections = TRUE
  MaxSent = 3
INVARIANTS
  LabelledQryptosRowsHaveAnId
PROPERTIES
  StartsUp
  PromptQuotesNeverGoBack
\* The process may end, and the bound on requests is reached.
CHECK_DEADLOCK FALSE

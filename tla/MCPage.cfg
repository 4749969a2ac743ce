SPECIFICATION PageSpec
CONSTANTS
  Ids <- MCIds
  MaxVersion = 4
  MaxRestarts = 1
  Exchanges <- MCExchanges
  Guarded <- MCGuarded
  Quotes <- MCQuotes
  NoPrice <- MCNoPrice
  Books <- MCBooks
  Inputs <- MCInputs
  MaxLevels = 3
  Scale = 10
INVARIANTS
  DotsShowTheSpread
  GainNeedsTwoExchanges
  ColouredPriceIsBest
  FieldsAgree
PROPERTIES
  PlacedRowsAreCompared
  NeverGoesBack
  CatchesUp
\* The first request may fail, and then the page sends no other.
CHECK_DEADLOCK FALSE

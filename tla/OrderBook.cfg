CONSTANTS
  Prices = {2, 3, 5}
  Quantities = {1, 2}

SPECIFICATION BookSpec

INVARIANTS
  BookTypeOK
  BestFirst
  BestExecution
PROPERTIES
  QuotesKept
  EachCallQuotes

CONSTANTS
  Prices = {2, 3}
  Quantities = {2}
  Capital = 10
  Methods = {"fixedFraction", "riskBased"}
  Allocation = 50
  MaxAllocation = 100
  RiskFraction = 45
  MaxPosition = 90
  Multipliers = {0, 60, 100}
  NoOrder = NoOrder
  MaxOrders = 1

SPECIFICATION Spec
CHECK_DEADLOCK FALSE

PROPERTIES
  MatchTakesLiquidity

SPECIFICATION Spec
CONSTANTS
  Symbols = {"RELIANCE", "TCS", "INFY", "HDFCBANK", "NIFTY50", "INDIAVIX"}
  Lists <- TickLists
  Callers = {c1}
  TTL = 4
  TimeOut = 1
  MadeUp = madeup
  Never = never
  MaxTime = 2
INVARIANT VendorLimitKept
CHECK_DEADLOCK FALSE

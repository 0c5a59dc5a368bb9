SPECIFICATION Spec
CONSTANTS
  Symbols = {"RELIANCE", "TCS"}
  Lists <- TwoLists
  Callers = {c1, c2}
  TTL = 2
  TimeOut = 1
  MadeUp = madeup
  Never = never
  MaxTime = 4
SYMMETRY Anyone
INVARIANT ReturnedAgeBounded
PROPERTIES QuotesRegressAtMostTimeOut OneFetchPerPeriod
CHECK_DEADLOCK FALSE

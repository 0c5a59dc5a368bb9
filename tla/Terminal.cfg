SPECIFICATION Spec
CONSTANTS
  Calls = {1, 2, 3}
  Remote = {1, 2}
  Squeeze = Squeeze
  Reversion = Reversion
  Compression = Compression
  Reliance = Reliance
  Tcs = Tcs
  Find1 = Find1
  Strategies = {Squeeze, Reversion}
  FirstStrategy = Squeeze
  Symbols = {Reliance, Tcs}
  FirstSymbol = Reliance
  Opportunities <- MCOpportunities
  Seeded = Seeded
  Others = {Theirs}
  MaxElsewhere = 1
  Sample = Sample
  None = None
  Rows <- MCRows
  Terms = {Find1}
  NoTerm = NoTerm
  Fields <- MCFields
  Sizes = {1}
  FirstSize = 1
  AllRows = AllRows
  Closed = Closed
  MaxRequests = 3
  MaxVisits = 2
  MaxHistory = 2
  FirstTabs = {"landing", "scanner", "data-lab"}
INVARIANTS FiguresMatchHeading PagesCoverMatches
PROPERTIES OneEngineAnswers OpensLaunched LoadingEnds CallsSettle
CHECK_DEADLOCK FALSE

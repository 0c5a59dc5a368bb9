CONSTANTS
  RawSymbols <- MCRawSymbols
  UpperCase <- MCUpperCase
  NoSymbol = NoSymbol
  RawTimes <- MCRawTimes
  ParseDate <- MCParseDate
  InvalidTime = InvalidTime
  NotFinite = NotFinite
  NormalHeader <- MCNormalHeader
  Begins <- MCBegins
  NumberOf <- MCNumberOf
  TickerOf <- MCTickerOf
  ExtensionOf <- MCExtensionOf
  NoFile = NoFile
  NotText = NotText
  SampleDirs <- MCSampleDirs
  CsvNames = {"zed", "latest", "unknown"}
  FirstTicker = "ACME"
  BuiltIn <- MCBuiltIn
  r1 = r1
  r2 = r2
  r3 = r3
  c1 = c1
  u1 = u1
  i1 = i1
  a1 = a1
  Replicas = {r1}
  Uploads = {u1}
  Creations = {}
  Insertions = {}
  Analyses = {}
  Files <- AllFiles
  Payloads <- MCPayloads
  SampleId = SampleId
  SampleSymbol = "ACME"
  SampleSeries <- MCSampleSeries
  Absent = Absent
  MaxFaults = 0

SPECIFICATION Spec
CHECK_DEADLOCK FALSE

INVARIANT UploadedDatasetAnalysable

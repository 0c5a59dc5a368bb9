SPECIFICATION PagesSpec
CONSTANTS
  Providers = {"simulated", "alphavantage", "zerodha"}
  Simulated = "simulated"
  Remote = {"alphavantage"}
  KeyFree = {}
  Keys = {k1}
  NoKey = nokey
  NoConfig = noconfig
  Accepted <- VendorAccepts
  Seeded <- FromEnvironment
  DefaultProvider = "alphavantage"
  Requests = {r1, r2}
  StartUp = startup
  Mount = mount
  NoFeed = nofeed
INVARIANTS SavedConfigInUse StatusOfKeyInUse QuietPageShowsFeed
PROPERTIES FeedMovesAsAsked PageUnblocks
CHECK_DEADLOCK FALSE

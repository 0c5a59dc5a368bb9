-------------------------- MODULE ProviderRegistry --------------------------
(***************************************************************************)
(* The registry of market data providers of one backend process            *)
(* (modules/providers): saved configurations, the configuration and the    *)
(* connection each provider holds, and the active one.                     *)
(*                                                                         *)
(* What a handler does between two awaits is one step.  Only a probe of a  *)
(* remote vendor is answered in a later turn of the event loop, so that    *)
(* requests meet there: BeginRequest is a handler up to that await,        *)
(* EndProbe the vendor's answer and the rest of the handler.               *)
(***************************************************************************)
CONSTANTS
  Providers,        \* the registered providers
  Simulated,        \* the built-in simulator
  Remote,           \* those whose connection test calls a vendor over HTTP
  KeyFree,          \* those that are probed without an API key
  Keys, NoKey,      \* API keys, and the lack of one
  NoConfig,         \* nothing configured
  Accepted,         \* the pairs of provider and key the vendors accept
  Seeded,           \* configurations seeded from the environment
  DefaultProvider,  \* MARKET_DATA_PROVIDER
  Requests,         \* requests of clients
  StartUp           \* the connect of the constructor, which nobody awaits

Config == [key : Keys \cup {NoKey}, enabled : BOOLEAN]

Operations == {"configure", "switch", "test", "start"}

Request ==
  [state : {"idle", "sent", "probing", "succeeded", "refused"},
   op : Operations, provider : Providers, config : Config \cup {NoConfig}]

\* Constants of one kind are told from those of another.
ASSUME ProvidersAssumption ==
  /\ Simulated \in Providers \ Remote
  /\ DefaultProvider \in Providers
  /\ Remote \subseteq Providers /\ KeyFree \subseteq Providers
  /\ NoKey \notin Keys
  /\ NoConfig \notin Config
  /\ Seeded \in [Providers -> Config \cup {NoConfig}]
  /\ StartUp \notin Requests

VARIABLES
  configs,    \* the saved configuration of each provider
  held,       \* the configuration each external provider holds (this.config)
  connected,  \* isConnected of each provider
  active,     \* activeProviderType
  requests,   \* the requests in flight and answered
  tangled     \* history: providers two of whose connects were in flight at once

registryVars == <<configs, held, connected, active, requests, tangled>>

AllRequests == Requests \cup {StartUp}

KeyOf(config) == IF config = NoConfig THEN NoKey ELSE config.key

TakenOnlyOnce(p, config) ==
  IF held[p] # NoConfig \/ p = Simulated THEN held[p] ELSE config

\* The configuration a provider holds after connect(config).
Taken(p, config) == IF config = NoConfig \/ p = Simulated THEN held[p] ELSE config

KeyOptional(p, key) == p = Simulated \/ p \notin Remote

\* Whether connect or testConnection settles without calling the vendor.
SettlesAtOnce(p, key) ==
  \/ p = Simulated
  \/ p \notin Remote
  \/ key = NoKey /\ p \notin KeyFree

LocalVerdict(p, key) == p = Simulated \/ key # NoKey

Connecting(r) == requests[r].state = "probing" /\ requests[r].op # "test"

Probing(p) == \E r \in AllRequests : Connecting(r) /\ requests[r].provider = p

Init ==
  LET p == DefaultProvider
      key == KeyOf(Seeded[p])
      wait == ~SettlesAtOnce(p, key)
  IN /\ configs = Seeded
     /\ held = [q \in Providers |-> IF q = p /\ p # Simulated THEN Seeded[p] ELSE NoConfig]
     /\ connected = [q \in Providers |-> q = p /\ ~wait /\ LocalVerdict(p, key)]
     /\ active = p
     /\ requests = [r \in AllRequests |->
                      [state |-> IF r = StartUp /\ wait THEN "probing" ELSE "idle",
                       op |-> "start", provider |-> p, config |-> Seeded[p]]]
     /\ tangled = {}

\* A client's request is on its way to the backend.
Send(r, op, p, config) ==
  /\ requests[r].state = "idle"
  /\ requests' = [requests EXCEPT ![r] =
                    [state |-> "sent", op |-> op, provider |-> p, config |-> config]]
  /\ UNCHANGED <<configs, held, connected, active, tangled>>

Answered(r, state) == [requests EXCEPT ![r] = [@ EXCEPT !.state = state]]

\* The rest of a handler once connect or testConnection has settled.
Outcome(r, ok) ==
  IF ok \/ requests[r].op \in {"configure", "start"} THEN "succeeded" ELSE "refused"

FeedAfterUnchecked(r, ok) ==
  IF requests[r].op # "start" THEN requests[r].provider ELSE active

FeedAfter(r, ok) ==
  IF requests[r].op \in {"configure", "switch"} /\ Outcome(r, ok) = "succeeded"
    THEN requests[r].provider
    ELSE active

Settle(r, ok) ==
  LET p == requests[r].provider
  IN /\ connected' = IF requests[r].op = "test" THEN connected
                       ELSE [connected EXCEPT ![p] = ok]
     /\ active' = FeedAfter(r, ok)
     /\ requests' = Answered(r, Outcome(r, ok))

\* The vendor is called with the configuration at hand.
Probe(r, config) ==
  /\ requests' = [requests EXCEPT ![r] = [@ EXCEPT !.state = "probing", !.config = config]]
  /\ UNCHANGED <<connected, active>>

\* connect(config), up to the vendor's answer: a missing key fails at once.
Connect(r, p, config) ==
  LET mine == Taken(p, config)
  IN /\ held' = [held EXCEPT ![p] = mine]
     /\ tangled' = IF Probing(p) THEN tangled \cup {p} ELSE tangled
     /\ IF SettlesAtOnce(p, KeyOf(mine))
          THEN Settle(r, LocalVerdict(p, KeyOf(mine)))
          ELSE Probe(r, mine)

\* Saved as disabled: the simulator takes over if this was the feed.
Disable(r) ==
  /\ requests' = Answered(r, "succeeded")
  /\ IF active = requests[r].provider
       THEN /\ active' = Simulated
            /\ connected' = [connected EXCEPT ![Simulated] = TRUE]
       ELSE UNCHANGED <<active, connected>>
  /\ UNCHANGED <<held, tangled>>

ConfigureProvider(r) ==
  LET p == requests[r].provider
      config == requests[r].config
  IN /\ requests[r].state = "sent" /\ requests[r].op = "configure"
     /\ configs' = [configs EXCEPT ![p] = config]
     /\ IF config.enabled THEN Connect(r, p, config) ELSE Disable(r)

SwitchProvider(r) ==
  LET p == requests[r].provider
  IN /\ requests[r].state = "sent" /\ requests[r].op = "switch"
     /\ Connect(r, p, configs[p])
     /\ UNCHANGED configs

TestProvider(r) ==
  LET p == requests[r].provider
      key == KeyOf(requests[r].config)
  IN /\ requests[r].state = "sent" /\ requests[r].op = "test"
     /\ IF SettlesAtOnce(p, key) THEN Settle(r, LocalVerdict(p, key))
                             ELSE Probe(r, requests[r].config)
     /\ UNCHANGED <<configs, held, tangled>>

BeginRequest(r) == ConfigureProvider(r) \/ SwitchProvider(r) \/ TestProvider(r)

\* The vendor accepts the key, or refuses, fails or lets the time-out pass.
EndProbe(r) ==
  /\ requests[r].state = "probing"
  /\ \/ <<requests[r].provider, KeyOf(requests[r].config)>> \in Accepted /\ Settle(r, TRUE)
     \/ Settle(r, FALSE)
  /\ UNCHANGED <<configs, held, tangled>>

Next ==
  \/ \E r \in Requests, p \in Providers :
       \/ \E op \in {"configure", "test"}, config \in Config : Send(r, op, p, config)
       \/ Send(r, "switch", p, NoConfig)
  \/ \E r \in Requests : BeginRequest(r)
  \/ \E r \in AllRequests : EndProbe(r)

Spec == Init /\ [][Next]_registryVars

\* Why the feed can be trusted.
TypeOK ==
  /\ configs \in [Providers -> Config \cup {NoConfig}]
  /\ held \in [Providers -> Config \cup {NoConfig}]
  /\ connected \in [Providers -> BOOLEAN]
  /\ active \in Providers
  /\ requests \in [AllRequests -> Request]
  /\ tangled \subseteq Providers

\* A provider that has once been given a configuration works with the one
\* saved last, unless that one is disabled: configureProvider and
\* switchProvider save and hand over in one turn, whatever is in flight.
SavedConfigInUse ==
  \A p \in Providers \ {Simulated} :
    held[p] # NoConfig /\ configs[p] # NoConfig /\ configs[p].enabled
      => held[p] = configs[p]

\* As long as no two connects of a provider were in flight at once, its status
\* says connected only if the vendor accepted the key it now holds (a status
\* is set where connect fails at once as well as where it is answered).
StatusOfKeyInUse ==
  \A p \in Providers \ ({Simulated} \cup tangled) :
    connected[p] /\ ~Probing(p) =>
      IF p \in Remote THEN <<p, KeyOf(held[p])>> \in Accepted ELSE KeyOf(held[p]) # NoKey

\* The feed moves only as ActiveFeed allows: to what an unanswered request
\* names, once for each request, or back to the simulator.
Feed == INSTANCE ActiveFeed WITH
  feed <- active,
  asked <- {<<r, requests[r].provider>> : r \in
              {s \in Requests : /\ requests[s].state \in {"sent", "probing"}
                               /\ requests[s].op \in {"configure", "switch"}}}

FeedMovesAsAsked == Feed!Spec
=============================================================================

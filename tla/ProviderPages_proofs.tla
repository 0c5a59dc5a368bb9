-------------------------- MODULE ProviderPages_proofs --------------------------
(***************************************************************************)
(* Why the feed can be trusted, for any providers, keys and requests.      *)
(*                                                                         *)
(* The registry: a configuration is saved and handed over in one turn, so  *)
(* that what a provider holds is what was saved (SavedConfigInUse); unless *)
(* two connects of a provider meet, the one being probed was given what    *)
(* the provider holds (ProbeInv), so that its answer is about that key.    *)
(* A request moves the feed in the step that answers it, and no other.     *)
(*                                                                         *)
(* The page: while a careful user waits, at most one flow runs, it alone   *)
(* has a request in the registry, and what is shown is the feed unless     *)
(* that flow is going to show it (ShownInv).                               *)
(***************************************************************************)
EXTENDS ProviderPages, TLAPS

-----------------------------------------------------------------------------
(* The registry                                                            *)

(* Only clients save, and always a configuration; only the constructor     *)
(* starts.                                                                 *)
SentInv ==
  /\ requests[StartUp].op = "start" /\ requests[StartUp].state # "sent"
  /\ \A r \in Requests :
       requests[r].state = "sent" /\ requests[r].op = "configure" => requests[r].config \in Config

(* Unless its connects met, a provider holds what is being probed.         *)
ProbeInv ==
  \A r \in AllRequests : Connecting(r) =>
    LET p == requests[r].provider
    IN  /\ p \in Remote
        /\ p \notin tangled =>
             /\ requests[r].config = held[p]
             /\ \A s \in AllRequests : Connecting(s) /\ requests[s].provider = p => s = r

RegistryInv == TypeOK /\ SentInv /\ ProbeInv /\ SavedConfigInUse /\ StatusOfKeyInUse

-----------------------------------------------------------------------------
(* The page                                                                *)

PageTypeOK ==
  /\ selected \in Providers
  /\ loading \in BOOLEAN /\ careful \in BOOLEAN
  /\ flow \in [Flows -> {"none", "waiting", "listing", "listed", "ended"}]
  /\ flow[Mount] \in {"listing", "listed", "ended"}
  /\ listed \in [Flows -> Providers \cup {NoFeed}]
  /\ \A f \in Flows : flow[f] = "listed" => listed[f] \in Providers

InFlight(r) == requests[r].state \in {"sent", "probing"}

(* The answer to an activation is on its way: the feed may have moved.     *)
Activated(r) == requests[r].state = "succeeded" /\ requests[r].op # "test"

(* One flow at a time, which alone has a request at the backend.           *)
OneFlow ==
  /\ \A f, g \in Flows : Running(f) /\ Running(g) => f = g
  /\ \A r \in Requests : InFlight(r) => flow[r] = "waiting"

ShownInv ==
  careful =>
    /\ OneFlow
    /\ \A f \in Flows : flow[f] = "listed" => listed[f] = active
    /\ \/ shown = active
       \/ \E f \in Flows : flow[f] \in {"listing", "listed"}
       \/ \E r \in Requests : flow[r] = "waiting" /\ Activated(r)

PagesInv == RegistryInv /\ PageTypeOK /\ ShownInv

-----------------------------------------------------------------------------
(* Steps of the registry                                                   *)

(* A request whose state alone changes.                                    *)
LEMMA AnsweredIs ==
  ASSUME TypeOK, NEW r \in AllRequests, NEW state, requests' = Answered(r, state)
  PROVE  /\ \A s \in AllRequests : s # r => requests'[s] = requests[s]
         /\ requests'[r].state = state /\ requests'[r].op = requests[r].op
         /\ requests'[r].provider = requests[r].provider
         /\ requests'[r].config = requests[r].config
         /\ state \in {"succeeded", "refused"} => requests' \in [AllRequests -> Request]
<1>1. requests \in [AllRequests -> Request] /\ requests[r] \in Request
  BY DEF TypeOK
<1> QED
  BY <1>1 DEF Answered, Request

LEMMA KeysAssumption ==
  /\ Remote \subseteq Providers /\ Simulated \in Providers /\ Simulated \notin Remote
  /\ StartUp \in AllRequests /\ Requests \subseteq AllRequests /\ StartUp \notin Requests
  /\ \A r \in AllRequests : r = StartUp \/ r \in Requests
BY ProvidersAssumption DEF AllRequests

(* A key that is there, of a provider that settles at once, is no vendor's.*)
LEMMA LocalVerdictIs ==
  ASSUME NEW p \in Providers, p # Simulated, NEW key,
         SettlesAtOnce(p, key), LocalVerdict(p, key)
  PROVE  p \notin Remote /\ key # NoKey
BY DEF SettlesAtOnce, LocalVerdict

(* connect with the configuration that is now the saved one: whether it    *)
(* fails at once or awaits the vendor, and whatever else is in flight.     *)
LEMMA ConnectKeepsInv ==
  ASSUME RegistryInv, NEW r \in Requests, NEW p \in Providers, NEW config,
         requests[r].state = "sent", requests[r].op \in {"configure", "switch"},
         p = requests[r].provider, config \in Config \cup {NoConfig},
         configs' = [configs EXCEPT ![p] = config],
         Connect(r, p, config)
  PROVE  RegistryInv'
<1> USE DEF RegistryInv
<1> DEFINE mine == Taken(p, config)
<1>1. /\ mine \in Config \cup {NoConfig}
      /\ config # NoConfig /\ p # Simulated => mine = config
  BY DEF Taken, TypeOK
<1>2. /\ held' = [held EXCEPT ![p] = mine]
      /\ tangled' = IF Probing(p) THEN tangled \cup {p} ELSE tangled
  BY DEF Connect
<1>3. /\ r \in AllRequests /\ r # StartUp
      /\ requests \in [AllRequests -> Request] /\ requests[r] \in Request
  BY KeysAssumption DEF TypeOK
<1>4. SavedConfigInUse'
  BY <1>1, <1>2 DEF SavedConfigInUse, TypeOK
<1>5. /\ configs' \in [Providers -> Config \cup {NoConfig}]
      /\ held' \in [Providers -> Config \cup {NoConfig}]
      /\ tangled' \subseteq Providers
      /\ held'[p] = mine /\ \A q \in Providers : q # p => held'[q] = held[q]
  <2> HIDE DEF mine
  <2> QED
    BY <1>1, <1>2 DEF TypeOK
<1>6. CASE SettlesAtOnce(p, KeyOf(mine))
  <2>1. Settle(r, LocalVerdict(p, KeyOf(mine)))
    BY <1>6 DEF Connect
  <2>2. /\ connected' = [connected EXCEPT ![p] = LocalVerdict(p, KeyOf(mine))]
        /\ active' \in Providers
        /\ requests' = Answered(r, Outcome(r, LocalVerdict(p, KeyOf(mine))))
        /\ Outcome(r, LocalVerdict(p, KeyOf(mine))) \in {"succeeded", "refused"}
    BY <2>1 DEF Settle, FeedAfter, Outcome, TypeOK
  <2>3. /\ \A s \in AllRequests : s # r => requests'[s] = requests[s]
        /\ requests'[r].state \in {"succeeded", "refused"}
        /\ requests' \in [AllRequests -> Request]
    BY <1>3, <2>2, AnsweredIs
  <2>4. LocalVerdict(p, KeyOf(mine)) \in BOOLEAN
    BY DEF LocalVerdict
  <2>5. TypeOK'
    <3> HIDE DEF mine
    <3> QED
      BY <1>5, <2>2, <2>3, <2>4 DEF TypeOK
  <2>6. SentInv'
    BY <1>3, <2>3, KeysAssumption DEF SentInv
  <2>7. \A s \in AllRequests : Connecting(s)' => Connecting(s) /\ requests'[s] = requests[s] /\ s # r
    BY <2>3 DEF Connecting
  <2>8. ProbeInv'
    <3> HIDE DEF mine
    <3> SUFFICES ASSUME NEW s \in AllRequests, Connecting(s)'
                 PROVE  /\ requests[s].provider \in Remote
                        /\ requests[s].provider \notin tangled' =>
                             /\ requests[s].config = held'[requests[s].provider]
                             /\ \A t \in AllRequests :
                                  Connecting(t)' /\ requests[t].provider = requests[s].provider
                                    => t = s
      BY <2>7 DEF ProbeInv
    <3>1. Connecting(s)
      BY <2>7
    <3>2. requests[s].provider = p => p \in tangled'
      BY <1>2, <3>1 DEF Probing
    <3>3. requests[s].provider \in Remote /\ requests[s].provider \in Providers
      BY <3>1, KeysAssumption DEF ProbeInv
    <3> QED
      BY <1>2, <1>5, <2>7, <3>1, <3>2, <3>3 DEF ProbeInv
  <2>9. StatusOfKeyInUse'
    <3> HIDE DEF mine
    <3> SUFFICES ASSUME NEW q \in Providers, q # Simulated, q \notin tangled',
                        connected'[q], ~Probing(q)'
                 PROVE  IF q \in Remote THEN <<q, KeyOf(held'[q])>> \in Accepted
                                        ELSE KeyOf(held'[q]) # NoKey
      BY DEF StatusOfKeyInUse, KeyOf
    <3>1. CASE q = p
      BY <1>5, <1>6, <2>2, <3>1, LocalVerdictIs DEF TypeOK
    <3>2. CASE q # p
      <4>1. connected[q] /\ held'[q] = held[q] /\ q \notin tangled
        BY <1>2, <1>5, <2>2, <3>2 DEF TypeOK
      <4>2. ~Probing(q)
        BY <1>3, <2>3, <3>2 DEF Probing, Connecting
      <4> QED
        BY <4>1, <4>2 DEF StatusOfKeyInUse
    <3> QED
      BY <3>1, <3>2
  <2> QED
    BY <1>4, <2>5, <2>6, <2>8, <2>9
<1>7. CASE ~SettlesAtOnce(p, KeyOf(mine))
  <2>1. /\ requests' = [requests EXCEPT ![r] = [@ EXCEPT !.state = "probing", !.config = mine]]
        /\ connected' = connected /\ active' = active
    BY <1>7 DEF Connect, Probe
  <2>2. /\ \A s \in AllRequests : s # r => requests'[s] = requests[s]
        /\ requests'[r].state = "probing" /\ requests'[r].op = requests[r].op
        /\ requests'[r].provider = p /\ requests'[r].config = mine
        /\ requests' \in [AllRequests -> Request]
    <3> HIDE DEF mine
    <3> QED
      BY <1>1, <1>3, <2>1 DEF Request
  <2>3. p \in Remote /\ p # Simulated
    BY <1>7 DEF SettlesAtOnce
  <2>4. TypeOK'
    <3> HIDE DEF mine
    <3> QED
      BY <1>5, <2>1, <2>2 DEF TypeOK
  <2>5. SentInv'
    BY <1>3, <2>2, KeysAssumption DEF SentInv
  <2>6. Connecting(r)' /\ \A s \in AllRequests : s # r => (Connecting(s)' <=> Connecting(s))
    BY <2>2 DEF Connecting
  <2>7. ProbeInv'
    <3> HIDE DEF mine
    <3> SUFFICES ASSUME NEW s \in AllRequests, Connecting(s)'
                 PROVE  /\ requests'[s].provider \in Remote
                        /\ requests'[s].provider \notin tangled' =>
                             /\ requests'[s].config = held'[requests'[s].provider]
                             /\ \A t \in AllRequests :
                                  Connecting(t)' /\ requests'[t].provider = requests'[s].provider
                                    => t = s
      BY DEF ProbeInv
    <3>1. p \notin tangled' => \A t \in AllRequests : Connecting(t) => requests[t].provider # p
      BY <1>2 DEF Probing
    <3>2. CASE s = r
      BY <1>5, <2>2, <2>3, <2>6, <3>1, <3>2
    <3>3. CASE s # r
      <4>1. Connecting(s) /\ requests'[s] = requests[s]
        BY <2>2, <2>6, <3>3
      <4>2. requests[s].provider \in Remote /\ requests[s].provider \in Providers
        BY <4>1, KeysAssumption DEF ProbeInv
      <4> QED
        BY <1>2, <1>5, <2>2, <2>6, <3>1, <3>3, <4>1, <4>2 DEF ProbeInv
    <3> QED
      BY <3>2, <3>3
  <2>8. StatusOfKeyInUse'
    <3> HIDE DEF mine
    <3> SUFFICES ASSUME NEW q \in Providers, q # Simulated, q \notin tangled',
                        connected'[q], ~Probing(q)'
                 PROVE  IF q \in Remote THEN <<q, KeyOf(held'[q])>> \in Accepted
                                        ELSE KeyOf(held'[q]) # NoKey
      BY DEF StatusOfKeyInUse, KeyOf
    <3>1. q # p
      BY <1>3, <2>2, <2>6 DEF Probing
    <3>2. connected[q] /\ held'[q] = held[q] /\ q \notin tangled
      BY <1>2, <1>5, <2>1, <3>1
    <3>3. ~Probing(q)
      BY <1>3, <2>2, <2>6, <3>1 DEF Probing, Connecting
    <3> QED
      BY <3>2, <3>3 DEF StatusOfKeyInUse
  <2> QED
    BY <1>4, <2>4, <2>5, <2>7, <2>8
<1> QED
  BY <1>6, <1>7

LEMMA ConfigureKeepsInv ==
  ASSUME RegistryInv, NEW r \in Requests, ConfigureProvider(r)
  PROVE  RegistryInv'
<1> USE DEF RegistryInv
<1> DEFINE p == requests[r].provider
           config == requests[r].config
<1>1. /\ requests[r].state = "sent" /\ requests[r].op = "configure"
      /\ configs' = [configs EXCEPT ![p] = config]
      /\ IF config.enabled THEN Connect(r, p, config) ELSE Disable(r)
  BY DEF ConfigureProvider
<1>2. /\ r \in AllRequests /\ r # StartUp /\ p \in Providers /\ config \in Config
  BY <1>1, KeysAssumption DEF TypeOK, SentInv, Request
<1>3. CASE config.enabled
  BY <1>1, <1>2, <1>3, ConnectKeepsInv
<1>4. CASE ~config.enabled
  <2> HIDE DEF p, config
  <2>1. /\ requests' = Answered(r, "succeeded")
        /\ active' \in Providers /\ connected' \in [Providers -> BOOLEAN]
        /\ \A q \in Providers : q # Simulated => connected'[q] = connected[q]
        /\ held' = held /\ tangled' = tangled
    BY <1>1, <1>4, KeysAssumption DEF Disable, TypeOK
  <2>2. /\ \A s \in AllRequests : s # r => requests'[s] = requests[s]
        /\ requests'[r].state = "succeeded"
        /\ requests' \in [AllRequests -> Request]
    BY <1>2, <2>1, AnsweredIs
  <2>3. TypeOK'
    BY <1>1, <1>2, <2>1, <2>2 DEF TypeOK
  <2>4. SentInv'
    BY <1>2, <2>2, KeysAssumption DEF SentInv
  <2>5. \A s \in AllRequests : /\ Connecting(s)' <=> Connecting(s)
                               /\ Connecting(s) => requests'[s] = requests[s]
    BY <1>1, <2>2 DEF Connecting
  <2>6. ProbeInv'
    BY <2>1, <2>5 DEF ProbeInv
  <2>7. \A q \in Providers : Probing(q)' <=> Probing(q)
    BY <2>5 DEF Probing
  <2>8. StatusOfKeyInUse'
    BY <2>1, <2>7 DEF StatusOfKeyInUse, KeyOf
  <2>9. SavedConfigInUse'
    BY <1>1, <1>2, <1>4, <2>1 DEF SavedConfigInUse, TypeOK
  <2> QED
    BY <2>3, <2>4, <2>6, <2>8, <2>9
<1> QED
  BY <1>3, <1>4

LEMMA SwitchKeepsInv ==
  ASSUME RegistryInv, NEW r \in Requests, SwitchProvider(r)
  PROVE  RegistryInv'
<1> USE DEF RegistryInv
<1> DEFINE p == requests[r].provider
<1>1. /\ requests[r].state = "sent" /\ requests[r].op = "switch"
      /\ Connect(r, p, configs[p]) /\ configs' = configs
  BY DEF SwitchProvider
<1>2. p \in Providers /\ configs[p] \in Config \cup {NoConfig}
  BY KeysAssumption DEF TypeOK, Request
<1>3. configs' = [configs EXCEPT ![p] = configs[p]]
  BY <1>1, <1>2 DEF TypeOK
<1> QED
  BY <1>1, <1>2, <1>3, ConnectKeepsInv

(* A test changes nothing but its own request.                             *)
LEMMA TestKeepsInv ==
  ASSUME RegistryInv, NEW r \in Requests, TestProvider(r)
  PROVE  /\ RegistryInv' /\ active' = active
<1> USE DEF RegistryInv
<1>1. /\ requests[r].state = "sent" /\ requests[r].op = "test"
      /\ configs' = configs /\ held' = held /\ tangled' = tangled
      /\ connected' = connected /\ active' = active
  BY DEF TestProvider, Settle, Probe, FeedAfter
<1>2. /\ r \in AllRequests /\ r # StartUp
      /\ requests \in [AllRequests -> Request] /\ requests[r] \in Request
  BY KeysAssumption DEF TypeOK
<1>3. \/ \E state \in {"succeeded", "refused"} : requests' = Answered(r, state)
      \/ requests' = [requests EXCEPT ![r] =
                        [@ EXCEPT !.state = "probing", !.config = requests[r].config]]
  BY DEF TestProvider, Settle, Probe, Outcome
<1>4. /\ \A s \in AllRequests : s # r => requests'[s] = requests[s]
      /\ requests'[r].state # "sent" /\ requests'[r].op = "test"
      /\ requests' \in [AllRequests -> Request]
  <2>1. CASE \E state \in {"succeeded", "refused"} : requests' = Answered(r, state)
    BY <1>1, <1>2, <2>1, AnsweredIs
  <2>2. CASE requests' = [requests EXCEPT ![r] =
                        [@ EXCEPT !.state = "probing", !.config = requests[r].config]]
    BY <1>1, <1>2, <2>2 DEF Request
  <2> QED
    BY <1>3, <2>1, <2>2
<1>5. TypeOK' /\ SentInv' /\ SavedConfigInUse'
  BY <1>1, <1>2, <1>4, KeysAssumption DEF TypeOK, SentInv, SavedConfigInUse
<1>6. \A s \in AllRequests : /\ Connecting(s)' <=> Connecting(s)
                             /\ Connecting(s) => requests'[s] = requests[s]
  BY <1>1, <1>4 DEF Connecting
<1>7. ProbeInv'
  BY <1>1, <1>6 DEF ProbeInv
<1>8. \A q \in Providers : Probing(q)' <=> Probing(q)
  BY <1>6 DEF Probing
<1>9. StatusOfKeyInUse'
  BY <1>1, <1>8 DEF StatusOfKeyInUse, KeyOf
<1> QED
  BY <1>1, <1>5, <1>7, <1>9

(* The vendor's answer is about the key its provider holds, unless the     *)
(* provider's connects met.                                                *)
LEMMA EndProbeKeepsInv ==
  ASSUME RegistryInv, NEW r \in AllRequests, EndProbe(r)
  PROVE  RegistryInv'
<1> USE DEF RegistryInv
<1> DEFINE p == requests[r].provider
<1>1. PICK ok \in BOOLEAN :
        /\ ok => <<p, KeyOf(requests[r].config)>> \in Accepted
        /\ Settle(r, ok)
  BY DEF EndProbe
<1>2. /\ requests[r].state = "probing"
      /\ configs' = configs /\ held' = held /\ tangled' = tangled
  BY DEF EndProbe
<1>3. /\ requests \in [AllRequests -> Request] /\ requests[r] \in Request /\ p \in Providers
  BY DEF TypeOK, Request
<1>4. /\ connected' = IF requests[r].op = "test" THEN connected ELSE [connected EXCEPT ![p] = ok]
      /\ active' \in Providers
      /\ requests' = Answered(r, Outcome(r, ok))
      /\ Outcome(r, ok) \in {"succeeded", "refused"}
  BY <1>1, <1>3 DEF Settle, FeedAfter, Outcome, TypeOK
<1>5. /\ \A s \in AllRequests : s # r => requests'[s] = requests[s]
      /\ requests'[r].state \in {"succeeded", "refused"} /\ requests'[r].op = requests[r].op
      /\ requests' \in [AllRequests -> Request]
  BY <1>4, AnsweredIs
<1>6. TypeOK'
  <2> HIDE DEF p
  <2> QED
    BY <1>2, <1>3, <1>4, <1>5 DEF TypeOK
<1>7. SentInv'
  BY <1>5, KeysAssumption DEF SentInv
<1>8. SavedConfigInUse'
  BY <1>2 DEF SavedConfigInUse
<1>9. /\ ~Connecting(r)'
      /\ \A s \in AllRequests : s # r => (Connecting(s)' <=> Connecting(s))
      /\ Connecting(r) <=> requests[r].op # "test"
  BY <1>2, <1>5 DEF Connecting
<1>10. ProbeInv'
  <2> SUFFICES ASSUME NEW s \in AllRequests, Connecting(s)'
               PROVE  /\ requests'[s].provider \in Remote
                      /\ requests'[s].provider \notin tangled' =>
                           /\ requests'[s].config = held'[requests'[s].provider]
                           /\ \A t \in AllRequests :
                                Connecting(t)' /\ requests'[t].provider = requests'[s].provider
                                  => t = s
    BY DEF ProbeInv
  <2> QED
    BY <1>2, <1>5, <1>9 DEF ProbeInv
<1>11. StatusOfKeyInUse'
  <2> SUFFICES ASSUME NEW q \in Providers, q # Simulated, q \notin tangled,
                      connected'[q], ~Probing(q)'
               PROVE  IF q \in Remote THEN <<q, KeyOf(held[q])>> \in Accepted
                                      ELSE KeyOf(held[q]) # NoKey
    BY <1>2 DEF StatusOfKeyInUse, KeyOf
  <2>1. CASE q = p /\ Connecting(r)
    <3>1. ok
      BY <1>3, <1>4, <1>9, <2>1 DEF TypeOK
    <3>2. p \in Remote /\ requests[r].config = held[p]
      BY <2>1 DEF ProbeInv
    <3> QED
      BY <1>1, <2>1, <3>1, <3>2
  <2>2. CASE ~(q = p /\ Connecting(r))
    <3>1. connected[q]
      BY <1>3, <1>4, <1>9, <2>2 DEF TypeOK
    <3>2. ~Probing(q)
      BY <1>5, <1>9, <2>2 DEF Probing
    <3> QED
      BY <3>1, <3>2 DEF StatusOfKeyInUse
  <2> QED
    BY <2>1, <2>2
<1> QED
  BY <1>6, <1>7, <1>8, <1>10, <1>11

LEMMA SendKeepsInv ==
  ASSUME RegistryInv, NEW r \in Requests, NEW op \in {"configure", "test", "switch"},
         NEW p \in Providers, NEW config \in Config \cup {NoConfig},
         op = "configure" => config \in Config,
         Send(r, op, p, config)
  PROVE  /\ RegistryInv'
         /\ requests[r].state = "idle"
         /\ \A s \in AllRequests : s # r => requests'[s] = requests[s]
         /\ requests'[r] = [state |-> "sent", op |-> op, provider |-> p, config |-> config]
         /\ active' = active
<1> USE DEF RegistryInv
<1>1. /\ requests[r].state = "idle"
      /\ requests' = [requests EXCEPT ![r] =
                        [state |-> "sent", op |-> op, provider |-> p, config |-> config]]
      /\ configs' = configs /\ held' = held /\ connected' = connected
      /\ active' = active /\ tangled' = tangled
  BY DEF Send
<1>2. r \in AllRequests /\ r # StartUp /\ requests \in [AllRequests -> Request]
  BY KeysAssumption DEF TypeOK
<1>3. /\ \A s \in AllRequests : s # r => requests'[s] = requests[s]
      /\ requests'[r] = [state |-> "sent", op |-> op, provider |-> p, config |-> config]
      /\ requests'[r] \in Request
      /\ requests' \in [AllRequests -> Request]
  BY <1>1, <1>2 DEF Request, Operations
<1>4. TypeOK' /\ SentInv' /\ SavedConfigInUse'
  BY <1>1, <1>2, <1>3, KeysAssumption DEF TypeOK, SentInv, SavedConfigInUse
<1>5. \A s \in AllRequests : /\ Connecting(s)' <=> Connecting(s)
                             /\ Connecting(s) => requests'[s] = requests[s]
  BY <1>1, <1>3 DEF Connecting
<1>6. ProbeInv'
  BY <1>1, <1>5 DEF ProbeInv
<1>7. \A q \in Providers : Probing(q)' <=> Probing(q)
  BY <1>5 DEF Probing
<1>8. StatusOfKeyInUse'
  BY <1>1, <1>7 DEF StatusOfKeyInUse, KeyOf
<1> QED
  BY <1>1, <1>3, <1>4, <1>6, <1>8

LEMMA RegistryInit == Init => RegistryInv
<1> SUFFICES ASSUME Init PROVE RegistryInv
  OBVIOUS
<1> DEFINE p == DefaultProvider
           key == KeyOf(Seeded[p])
           wait == ~SettlesAtOnce(p, key)
<1>1. /\ configs = Seeded
      /\ held = [q \in Providers |-> IF q = p /\ p # Simulated THEN Seeded[p] ELSE NoConfig]
      /\ connected = [q \in Providers |-> q = p /\ ~wait /\ LocalVerdict(p, key)]
      /\ active = p
      /\ requests = [r \in AllRequests |->
                       [state |-> IF r = StartUp /\ wait THEN "probing" ELSE "idle",
                        op |-> "start", provider |-> p, config |-> Seeded[p]]]
      /\ tangled = {}
  BY DEF Init
<1>2. p \in Providers /\ Seeded \in [Providers -> Config \cup {NoConfig}]
  BY ProvidersAssumption
<1>3. wait => p \in Remote /\ p # Simulated
  BY DEF SettlesAtOnce
<1>4. wait \in BOOLEAN
  OBVIOUS
<1>5. /\ \A r \in AllRequests : /\ requests[r].state \in {"probing", "idle"}
                                /\ requests[r].op = "start" /\ requests[r].provider = p
                                /\ requests[r].config = Seeded[p]
                                /\ requests[r] \in Request
                                /\ requests[r].state = "probing" <=> r = StartUp /\ wait
      /\ requests \in [AllRequests -> Request]
  <2> HIDE DEF p, wait
  <2> QED
    BY <1>1, <1>2 DEF Request, Operations
<1>6. TypeOK
  <2> HIDE DEF p, wait
  <2> QED
    BY <1>1, <1>2, <1>5 DEF TypeOK
<1>7. SentInv
  BY <1>5, KeysAssumption DEF SentInv
<1>8. ProbeInv
  <2> HIDE DEF p, wait
  <2> QED
    BY <1>1, <1>2, <1>3, <1>5 DEF ProbeInv, Connecting
<1>9. SavedConfigInUse
  BY <1>1, <1>2 DEF SavedConfigInUse
<1>10. StatusOfKeyInUse
  <2> SUFFICES ASSUME NEW q \in Providers, q # Simulated, connected[q]
               PROVE  IF q \in Remote THEN <<q, KeyOf(held[q])>> \in Accepted
                                      ELSE KeyOf(held[q]) # NoKey
    BY DEF StatusOfKeyInUse
  <2>1. q = p /\ SettlesAtOnce(p, key) /\ LocalVerdict(p, key)
    BY <1>1
  <2>2. held[q] = Seeded[p]
    BY <1>1, <2>1
  <2> QED
    BY <2>1, <2>2, LocalVerdictIs
<1> QED
  BY <1>6, <1>7, <1>8, <1>9, <1>10 DEF RegistryInv

LEMMA RegistryStep ==
  ASSUME RegistryInv, [Next]_registryVars
  PROVE  RegistryInv'
<1>1. CASE UNCHANGED registryVars
  BY <1>1 DEF registryVars, RegistryInv, TypeOK, SentInv, ProbeInv, SavedConfigInUse,
              StatusOfKeyInUse, Connecting, Probing, KeyOf
<1>2. ASSUME NEW r \in Requests, NEW p \in Providers,
             NEW op \in {"configure", "test"}, NEW config \in Config, Send(r, op, p, config)
      PROVE  RegistryInv'
  BY <1>2, SendKeepsInv
<1>3. ASSUME NEW r \in Requests, NEW p \in Providers, Send(r, "switch", p, NoConfig)
      PROVE  RegistryInv'
  BY <1>3, SendKeepsInv
<1>4. ASSUME NEW r \in Requests, BeginRequest(r)
      PROVE  RegistryInv'
  BY <1>4, ConfigureKeepsInv, SwitchKeepsInv, TestKeepsInv DEF BeginRequest
<1>5. ASSUME NEW r \in AllRequests, EndProbe(r)
      PROVE  RegistryInv'
  BY <1>5, EndProbeKeepsInv
<1> QED
  BY <1>1, <1>2, <1>3, <1>4, <1>5 DEF Next

-----------------------------------------------------------------------------
(* The feed                                                                *)

Asking(r) == InFlight(r) /\ requests[r].op \in {"configure", "switch"}

Asked == {<<r, requests[r].provider>> : r \in
            {s \in Requests : /\ requests[s].state \in {"sent", "probing"}
                              /\ requests[s].op \in {"configure", "switch"}}}

LEMMA AskedIs ==
  /\ \A q \in Asked : \E r \in Requests : Asking(r) /\ q = <<r, requests[r].provider>>
  /\ \A r \in Requests : Asking(r) => <<r, requests[r].provider>> \in Asked
BY DEF Asked, Asking, InFlight

(* Only a request whose asking changes changes what is asked.              *)
LEMMA AskedKept ==
  ASSUME \A s \in Requests : /\ Asking(s)' <=> Asking(s)
                             /\ Asking(s) => requests'[s].provider = requests[s].provider
  PROVE  Asked' = Asked
<1>1. \A q \in Asked : q \in Asked'
  BY DEF Asked, Asking, InFlight
<1>2. \A q \in Asked' : q \in Asked
  BY DEF Asked, Asking, InFlight
<1> QED
  BY <1>1, <1>2

(* An answer ends the asking of its request alone.                         *)
LEMMA AskedLess ==
  ASSUME NEW r \in Requests, Asking(r), ~Asking(r)',
         \A s \in Requests : s # r => requests'[s] = requests[s]
  PROVE  Asked' = Asked \ {<<r, requests[r].provider>>}
<1>1. \A s \in Requests : s # r => (Asking(s)' <=> Asking(s))
  BY DEF Asking, InFlight
<1>2. \A q \in Asked \ {<<r, requests[r].provider>>} : q \in Asked'
  <2> SUFFICES ASSUME NEW s \in Requests, Asking(s), s # r
               PROVE  <<s, requests[s].provider>> \in Asked'
    BY AskedIs
  <2>1. Asking(s)' /\ requests'[s] = requests[s]
    BY <1>1
  <2> QED
    BY <2>1 DEF Asked, Asking, InFlight
<1>3. \A q \in Asked' : \E s \in Requests : Asking(s)' /\ q = <<s, requests'[s].provider>>
  BY DEF Asked, Asking, InFlight
<1>4. \A q \in Asked' : q \in Asked \ {<<r, requests[r].provider>>}
  BY <1>1, <1>3, AskedIs
<1> QED
  BY <1>2, <1>4

LEMMA AskedMore ==
  ASSUME NEW r \in Requests, ~Asking(r), Asking(r)',
         \A s \in Requests : s # r => requests'[s] = requests[s]
  PROVE  Asked' = Asked \cup {<<r, requests'[r].provider>>}
<1>1. \A s \in Requests : s # r => (Asking(s)' <=> Asking(s))
  BY DEF Asking, InFlight
<1>2. \A q \in Asked' : \E s \in Requests : Asking(s)' /\ q = <<s, requests'[s].provider>>
  BY DEF Asked, Asking, InFlight
<1>3. \A s \in Requests : Asking(s)' => <<s, requests'[s].provider>> \in Asked'
  BY DEF Asked, Asking, InFlight
<1>4. \A q \in Asked' : q \in Asked \cup {<<r, requests'[r].provider>>}
  BY <1>1, <1>2, AskedIs
<1>5. \A q \in Asked : q \in Asked'
  BY <1>1, <1>3, AskedIs
<1> QED
  BY <1>3, <1>4, <1>5

(* The actions of ActiveFeed, under the mapping.                           *)
LEMMA FeedActions ==
  ASSUME NEW q \in Asked, Asked' = Asked \ {q}
  PROVE  /\ active' = q[2] => Feed!Next
         /\ active = q[2] /\ active' = Simulated => Feed!Next
         /\ active' = active => Feed!Next
<1>1. active' = q[2] => Feed!Grant(q)
  BY DEF Feed!Grant, Asked
<1>2. active = q[2] /\ active' = Simulated => Feed!FallBack(q)
  BY DEF Feed!FallBack, Asked
<1>3. active' = active => Feed!Refuse(q)
  BY DEF Feed!Refuse, Asked
<1>4. Feed!Grant(q) \/ Feed!FallBack(q) \/ Feed!Refuse(q) => Feed!Next
  BY DEF Feed!Next, Asked
<1> QED
  BY <1>1, <1>2, <1>3, <1>4

(* A request that is answered moves the feed as ActiveFeed lets it.        *)
LEMMA SettleMovesFeed ==
  ASSUME RegistryInv, NEW r \in Requests, InFlight(r), NEW ok \in BOOLEAN, Settle(r, ok)
  PROVE  [Feed!Next]_<<active, Asked>>
<1> DEFINE q == <<r, requests[r].provider>>
<1>1. /\ r \in AllRequests /\ requests[r] \in Request
      /\ requests' = Answered(r, Outcome(r, ok)) /\ active' = FeedAfter(r, ok)
      /\ Outcome(r, ok) \in {"succeeded", "refused"}
  BY KeysAssumption DEF Settle, Outcome, RegistryInv, TypeOK
<1>2. /\ \A s \in AllRequests : s # r => requests'[s] = requests[s]
      /\ requests'[r].state \in {"succeeded", "refused"}
      /\ requests'[r].provider = requests[r].provider
  BY <1>1, AnsweredIs DEF RegistryInv
<1>3. ~Asking(r)' /\ \A s \in Requests : s # r => requests'[s] = requests[s]
  BY <1>2, KeysAssumption DEF Asking, InFlight
<1>4. CASE Asking(r)
  <2>1. q \in Asked /\ Asked' = Asked \ {q}
    BY <1>3, <1>4, AskedIs, AskedLess
  <2>2. active' = q[2] \/ active' = active
    BY <1>1 DEF FeedAfter
  <2> HIDE DEF q
  <2> QED
    BY <2>1, <2>2, FeedActions
<1>5. CASE ~Asking(r)
  <2>1. active' = active
    BY <1>1, <1>5 DEF FeedAfter, Asking
  <2>2. Asked' = Asked
    BY <1>2, <1>3, <1>5, AskedKept DEF Asking, InFlight
  <2> QED
    BY <2>1, <2>2
<1> QED
  BY <1>4, <1>5

LEMMA ProbeKeepsAsked ==
  ASSUME RegistryInv, NEW r \in Requests, requests[r].state = "sent", NEW config, Probe(r, config)
  PROVE  active' = active /\ Asked' = Asked
<1>1. r \in AllRequests /\ requests \in [AllRequests -> Request]
  BY KeysAssumption DEF RegistryInv, TypeOK
<1>2. /\ \A s \in AllRequests : s # r => requests'[s] = requests[s]
      /\ requests'[r].state = "probing" /\ requests'[r].op = requests[r].op
      /\ requests'[r].provider = requests[r].provider
  BY <1>1 DEF Probe, Request
<1>3. \A s \in Requests : /\ Asking(s)' <=> Asking(s)
                          /\ Asking(s) => requests'[s].provider = requests[s].provider
  BY <1>2, KeysAssumption DEF Asking, InFlight
<1> QED
  BY <1>3, AskedKept DEF Probe

LEMMA BeginMovesFeed ==
  ASSUME RegistryInv, NEW r \in Requests, BeginRequest(r)
  PROVE  [Feed!Next]_<<active, Asked>>
<1>1. requests[r].state = "sent" /\ InFlight(r) /\ r \in AllRequests
  BY KeysAssumption DEF BeginRequest, ConfigureProvider, SwitchProvider, TestProvider, InFlight
<1>2. \A p, config : Connect(r, p, config) =>
        \/ \E ok \in BOOLEAN : Settle(r, ok)
        \/ Probe(r, Taken(p, config))
  BY DEF Connect, LocalVerdict
<1>3. TestProvider(r) =>
        \/ \E ok \in BOOLEAN : Settle(r, ok)
        \/ Probe(r, requests[r].config)
  BY DEF TestProvider, LocalVerdict
<1>4. CASE \E ok \in BOOLEAN : Settle(r, ok)
  BY <1>1, <1>4, SettleMovesFeed
<1>5. CASE \E config : Probe(r, config)
  BY <1>1, <1>5, ProbeKeepsAsked
<1>6. CASE Disable(r) /\ requests[r].op = "configure"
  <2> DEFINE q == <<r, requests[r].provider>>
  <2>1. /\ \A s \in AllRequests : s # r => requests'[s] = requests[s]
        /\ requests'[r].state = "succeeded"
    BY <1>1, <1>6, AnsweredIs DEF Disable, RegistryInv
  <2>2. q \in Asked /\ Asked' = Asked \ {q}
    <3>1. Asking(r) /\ ~Asking(r)'
      BY <1>1, <1>6, <2>1 DEF Asking, InFlight
    <3>2. \A s \in Requests : s # r => requests'[s] = requests[s]
      BY <2>1, KeysAssumption
    <3> QED
      BY <3>1, <3>2, AskedIs, AskedLess
  <2>3. active' = active \/ (active = q[2] /\ active' = Simulated)
    BY <1>6 DEF Disable
  <2> HIDE DEF q
  <2> QED
    BY <2>2, <2>3, FeedActions
<1> QED
  BY <1>2, <1>3, <1>4, <1>5, <1>6 DEF BeginRequest, ConfigureProvider, SwitchProvider

LEMMA SendMovesFeed ==
  ASSUME RegistryInv, NEW r \in Requests, NEW op \in {"configure", "test", "switch"},
         NEW p \in Providers, NEW config \in Config \cup {NoConfig},
         op = "configure" => config \in Config,
         Send(r, op, p, config)
  PROVE  [Feed!Next]_<<active, Asked>>
<1>1. /\ requests[r].state = "idle" /\ active' = active
      /\ \A s \in Requests : s # r => requests'[s] = requests[s]
      /\ requests'[r].state = "sent" /\ requests'[r].op = op /\ requests'[r].provider = p
  <2>1. /\ requests[r].state = "idle" /\ active' = active
        /\ \A s \in AllRequests : s # r => requests'[s] = requests[s]
        /\ requests'[r] = [state |-> "sent", op |-> op, provider |-> p, config |-> config]
    BY SendKeepsInv
  <2> QED
    BY <2>1, KeysAssumption
<1>2. ~Asking(r)
  BY <1>1 DEF Asking, InFlight
<1>3. CASE op = "test"
  <2>1. \A s \in Requests : /\ Asking(s)' <=> Asking(s)
                            /\ Asking(s) => requests'[s].provider = requests[s].provider
    BY <1>1, <1>2, <1>3 DEF Asking, InFlight
  <2> QED
    BY <1>1, <2>1, AskedKept
<1>4. CASE op # "test"
  <2>1. Asking(r)'
    BY <1>1, <1>4 DEF Asking, InFlight
  <2>2. Asked' = Asked \cup {<<r, p>>}
    BY <1>1, <1>2, <2>1, AskedMore
  <2>3. \A q \in Asked : q[1] # r
    BY <1>2, AskedIs
  <2>4. Feed!Ask(r, p)
    BY <1>1, <2>2, <2>3 DEF Feed!Ask, Asked
  <2> QED
    BY <2>4 DEF Feed!Next
<1> QED
  BY <1>3, <1>4

LEMMA FeedStep ==
  ASSUME RegistryInv, [Next]_registryVars
  PROVE  [Feed!Next]_<<active, Asked>>
<1>1. CASE UNCHANGED registryVars
  BY <1>1 DEF registryVars, Asked
<1>2. ASSUME NEW r \in Requests, NEW p \in Providers,
             NEW op \in {"configure", "test"}, NEW config \in Config, Send(r, op, p, config)
      PROVE  [Feed!Next]_<<active, Asked>>
  BY <1>2, SendMovesFeed
<1>3. ASSUME NEW r \in Requests, NEW p \in Providers, Send(r, "switch", p, NoConfig)
      PROVE  [Feed!Next]_<<active, Asked>>
  BY <1>3, SendMovesFeed
<1>4. ASSUME NEW r \in Requests, BeginRequest(r)
      PROVE  [Feed!Next]_<<active, Asked>>
  BY <1>4, BeginMovesFeed
<1>5. ASSUME NEW r \in AllRequests, EndProbe(r)
      PROVE  [Feed!Next]_<<active, Asked>>
  <2>1. PICK ok \in BOOLEAN : Settle(r, ok)
    BY <1>5 DEF EndProbe
  <2>2. requests[r].state = "probing" /\ InFlight(r)
    BY <1>5 DEF EndProbe, InFlight
  <2>3. CASE r \in Requests
    BY <2>1, <2>2, <2>3, SettleMovesFeed
  <2>4. CASE r = StartUp
    <3>1. active' = active
      BY <2>1, <2>4 DEF RegistryInv, SentInv, Settle, FeedAfter
    <3>2. \A s \in AllRequests : s # r => requests'[s] = requests[s]
      BY <2>1, AnsweredIs DEF RegistryInv, Settle
    <3>3. \A s \in Requests : requests'[s] = requests[s]
      BY <2>4, <3>2, KeysAssumption
    <3>4. Asked' = Asked
      BY <3>3, AskedKept DEF Asking, InFlight
    <3> QED
      BY <3>1, <3>4
  <2> QED
    BY <2>3, <2>4, KeysAssumption
<1> QED
  BY <1>1, <1>2, <1>3, <1>4, <1>5 DEF Next

LEMMA FeedInit == Init => Feed!Init
<1> SUFFICES ASSUME Init PROVE Feed!Init
  OBVIOUS
<1>1. active \in Providers
  BY RegistryInit DEF RegistryInv, TypeOK
<1>2. \A r \in Requests : requests[r].state = "idle"
  BY KeysAssumption DEF Init
<1> QED
  BY <1>1, <1>2 DEF Feed!Init

-----------------------------------------------------------------------------
(* Theorems on the registry                                                *)

THEOREM RegistryCorrect == Spec => []RegistryInv
<1> QED
  BY RegistryInit, RegistryStep, PTL DEF Spec

THEOREM RegistryTypes == Spec => []TypeOK
<1>1. RegistryInv => TypeOK
  BY DEF RegistryInv
<1> QED
  BY <1>1, RegistryCorrect, PTL

(* configureProvider and switchProvider hand over what they save or find   *)
(* saved, whatever else awaits a vendor.                                   *)
THEOREM SavedIsUsed == Spec => []SavedConfigInUse
<1>1. RegistryInv => SavedConfigInUse
  BY DEF RegistryInv
<1> QED
  BY <1>1, RegistryCorrect, PTL

(* A status tells of the key in use, unless two connects met.              *)
THEOREM StatusIsTrue == Spec => []StatusOfKeyInUse
<1>1. RegistryInv => StatusOfKeyInUse
  BY DEF RegistryInv
<1> QED
  BY <1>1, RegistryCorrect, PTL

(* The registry implements ActiveFeed.                                     *)
THEOREM FeedIsAsked == Spec => FeedMovesAsAsked
<1>1. RegistryInv /\ [Next]_registryVars => [Feed!Next]_<<active, Asked>>
  BY FeedStep
<1>2. RegistryInv /\ [Next]_registryVars => [Feed!Next]_Feed!feedVars
  BY <1>1 DEF Feed!feedVars, Asked
<1> QED
  BY <1>2, FeedInit, RegistryCorrect, PTL DEF Spec, FeedMovesAsAsked, Feed!Spec

-----------------------------------------------------------------------------
(* The page                                                                *)

LEMMA FlowsAssumption ==
  /\ Mount \in Flows /\ Requests \subseteq Flows /\ Mount \notin Requests
  /\ \A f \in Flows : f = Mount \/ f \in Requests
  /\ FormConfig \subseteq Config
  /\ [key |-> NoKey, enabled |-> FALSE] \in Config
BY PagesAssumption DEF Flows, AllRequests, FormConfig, Config

(* What a click does: its request is sent and its flow waits.              *)
LEMMA ClickIs ==
  ASSUME RegistryInv, PageTypeOK, NEW r \in Requests, NEW op \in {"configure", "test", "switch"},
         NEW p \in Providers, NEW config \in Config \cup {NoConfig},
         op = "configure" => config \in Config,
         Click(r, op, p, config)
  PROVE  /\ RegistryInv' /\ PageTypeOK'
         /\ requests[r].state = "idle"
         /\ requests'[r].state = "sent"
         /\ \A s \in Requests : s # r => requests'[s] = requests[s]
         /\ active' = active /\ shown' = shown /\ listed' = listed
         /\ flow' = [flow EXCEPT ![r] = "waiting"]
         /\ careful' = (careful /\ \A f \in Flows : ~Running(f))
<1>1. /\ Send(r, op, p, config) /\ loading' = TRUE
      /\ flow' = [flow EXCEPT ![r] = "waiting"]
      /\ careful' = (careful /\ \A f \in Flows : ~Running(f))
      /\ selected' = selected /\ shown' = shown /\ listed' = listed
  BY DEF Click
<1>2. /\ RegistryInv' /\ active' = active
      /\ requests[r].state = "idle"
      /\ \A s \in AllRequests : s # r => requests'[s] = requests[s]
      /\ requests'[r] = [state |-> "sent", op |-> op, provider |-> p, config |-> config]
  BY <1>1, SendKeepsInv
<1>3. PageTypeOK'
  BY <1>1, FlowsAssumption DEF PageTypeOK
<1> QED
  BY <1>1, <1>2, <1>3, KeysAssumption

(* The three handlers of the page are clicks.                              *)
LEMMA HandlersClick ==
  ASSUME RegistryInv, PageTypeOK, NEW r \in Requests,
         HandleTestConnection(r) \/ HandleSaveAndActivate(r) \/ HandleQuickSwitch(r)
  PROVE  \E op \in {"configure", "test", "switch"}, p \in Providers, config \in Config \cup {NoConfig} :
           /\ op = "configure" => config \in Config
           /\ op = "switch" => config = NoConfig
           /\ op = "test" => config \in Config
           /\ Click(r, op, p, config)
<1>1. selected \in Providers /\ Simulated \in Providers
  BY KeysAssumption DEF PageTypeOK
<1>2. CASE HandleTestConnection(r)
  BY <1>1, <1>2, FlowsAssumption DEF HandleTestConnection
<1>3. CASE HandleSaveAndActivate(r)
  BY <1>1, <1>3, FlowsAssumption DEF HandleSaveAndActivate
<1>4. CASE HandleQuickSwitch(r)
  BY <1>1, <1>4 DEF HandleQuickSwitch
<1> QED
  BY <1>2, <1>3, <1>4

(* The page does to the registry what its clients may.                     *)
LEMMA PagesStepRegistry ==
  ASSUME RegistryInv, PageTypeOK, [PagesNext]_vars
  PROVE  [Next]_registryVars
<1>1. CASE UNCHANGED vars
  BY <1>1 DEF vars
<1>2. ASSUME NEW p \in Providers, SelectCard(p)
      PROVE  UNCHANGED registryVars
  BY <1>2 DEF SelectCard
<1>3. ASSUME NEW r \in Requests,
             HandleTestConnection(r) \/ HandleSaveAndActivate(r) \/ HandleQuickSwitch(r)
      PROVE  Next
  <2>1. PICK op \in {"configure", "test", "switch"}, p \in Providers,
             config \in Config \cup {NoConfig} :
          /\ op = "configure" => config \in Config
          /\ op = "switch" => config = NoConfig
          /\ op = "test" => config \in Config
          /\ Click(r, op, p, config)
    BY <1>3, HandlersClick
  <2>2. Send(r, op, p, config)
    BY <2>1 DEF Click
  <2> QED
    BY <2>1, <2>2 DEF Next
<1>4. ASSUME NEW r \in Requests, DisableElsewhere(r)
      PROVE  Next
  <2>1. PICK p \in Providers : Send(r, "configure", p, [key |-> NoKey, enabled |-> FALSE])
    BY <1>4 DEF DisableElsewhere
  <2> QED
    BY <2>1, FlowsAssumption DEF Next
<1>5. ASSUME NEW f \in Flows, FlowStep(f)
      PROVE  UNCHANGED registryVars
  BY <1>5 DEF FlowStep, ShowTestResult, ShowActivated, GetProviders, ShowProviders, ShowFailure
<1>6. ASSUME NEW r \in Requests, BeginRequest(r)
      PROVE  Next
  BY <1>6 DEF Next
<1>7. ASSUME NEW r \in AllRequests, EndProbe(r)
      PROVE  Next
  BY <1>7 DEF Next
<1> QED
  BY <1>1, <1>2, <1>3, <1>4, <1>5, <1>6, <1>7 DEF PagesNext, User

LEMMA PagesStart == PagesInit => PagesInv
<1> SUFFICES ASSUME Init, PageInit PROVE PagesInv
  BY DEF PagesInit
<1>1. RegistryInv
  BY RegistryInit
<1>2. /\ selected \in Remote /\ loading = FALSE /\ careful = TRUE
      /\ flow = [f \in Flows |-> IF f = Mount THEN "listing" ELSE "none"]
      /\ listed = [f \in Flows |-> NoFeed]
  BY DEF PageInit
<1>3. PageTypeOK
  BY <1>2, KeysAssumption, FlowsAssumption DEF PageTypeOK
<1>4. \A r \in Requests : requests[r].state = "idle"
  BY KeysAssumption DEF Init
<1>5. ShownInv
  BY <1>2, <1>4, FlowsAssumption DEF ShownInv, OneFlow, Running, InFlight
<1> QED
  BY <1>1, <1>3, <1>5 DEF PagesInv

(* What the backend does to requests in flight, seen from the page: only   *)
(* the flow that waits for an answer can find the feed moved.              *)
LEMMA BackendKeepsShown ==
  ASSUME PagesInv, RegistryInv', UNCHANGED pageVars, NEW r \in AllRequests,
         r = StartUp \/ InFlight(r),
         r = StartUp => active' = active,
         \A s \in AllRequests : s # r => requests'[s] = requests[s],
         active' = active \/ Activated(r)'
  PROVE  PagesInv'
<1>1. /\ selected' = selected /\ loading' = loading /\ shown' = shown /\ flow' = flow
      /\ listed' = listed /\ careful' = careful
  BY DEF pageVars
<1>2. PageTypeOK'
  BY <1>1 DEF PagesInv, PageTypeOK
<1>3. ASSUME careful PROVE ShownInv'
  <2>1. /\ OneFlow
        /\ \A f \in Flows : flow[f] = "listed" => listed[f] = active
        /\ \/ shown = active
           \/ \E f \in Flows : flow[f] \in {"listing", "listed"}
           \/ \E s \in Requests : flow[s] = "waiting" /\ Activated(s)
    BY <1>3 DEF PagesInv, ShownInv
  <2>2. CASE r = StartUp
    <3>1. \A s \in Requests : requests'[s] = requests[s]
      BY <2>2, KeysAssumption
    <3> QED
      BY <1>1, <2>1, <2>2, <3>1 DEF ShownInv, OneFlow, Running, InFlight, Activated
  <2>3. CASE r # StartUp
    <3>1. r \in Requests /\ r \in Flows /\ flow[r] = "waiting" /\ ~Activated(r)
      BY <2>1, <2>3, KeysAssumption, FlowsAssumption DEF OneFlow, InFlight, Activated
    <3>2. \A f \in Flows : f # r => ~Running(f)
      BY <2>1, <3>1 DEF OneFlow, Running
    <3>3. shown = active
      BY <2>1, <3>1, <3>2, FlowsAssumption DEF Running
    <3>4. OneFlow'
      BY <1>1, <2>1, <3>1, KeysAssumption DEF OneFlow, Running, InFlight
    <3>5. \A f \in Flows : flow[f] # "listed"
      BY <3>1, <3>2 DEF Running
    <3> QED
      BY <1>1, <3>1, <3>3, <3>4, <3>5 DEF ShownInv
  <2> QED
    BY <2>2, <2>3
<1>4. ShownInv'
  BY <1>1, <1>3 DEF ShownInv
<1> QED
  BY <1>2, <1>4 DEF PagesInv

(* An answered request.                                                    *)
LEMMA SettleShows ==
  ASSUME RegistryInv, NEW r \in AllRequests, NEW ok \in BOOLEAN, Settle(r, ok)
  PROVE  /\ \A s \in AllRequests : s # r => requests'[s] = requests[s]
         /\ r = StartUp => active' = active
         /\ active' = active \/ Activated(r)'
<1>1. /\ active' = FeedAfter(r, ok) /\ requests' = Answered(r, Outcome(r, ok))
  BY DEF Settle
<1>2. /\ \A s \in AllRequests : s # r => requests'[s] = requests[s]
      /\ requests'[r].state = Outcome(r, ok) /\ requests'[r].op = requests[r].op
  BY <1>1, AnsweredIs DEF RegistryInv
<1>3. r = StartUp => requests[r].op = "start"
  BY DEF RegistryInv, SentInv
<1> QED
  BY <1>1, <1>2, <1>3 DEF FeedAfter, Activated

LEMMA BeginKeepsShown ==
  ASSUME PagesInv, NEW r \in Requests, BeginRequest(r), UNCHANGED pageVars
  PROVE  PagesInv'
<1>1. RegistryInv /\ r \in AllRequests /\ r # StartUp /\ requests[r].state = "sent" /\ InFlight(r)
  BY KeysAssumption DEF PagesInv, BeginRequest, ConfigureProvider, SwitchProvider, TestProvider, InFlight
<1>2. RegistryInv'
  BY <1>1, ConfigureKeepsInv, SwitchKeepsInv, TestKeepsInv DEF BeginRequest
<1>3. /\ \A s \in AllRequests : s # r => requests'[s] = requests[s]
      /\ active' = active \/ Activated(r)'
  <2>1. CASE \E ok \in BOOLEAN : Settle(r, ok)
    BY <1>1, <2>1, SettleShows
  <2>2. CASE \E config : Probe(r, config)
    BY <1>1, <2>2 DEF Probe, RegistryInv, TypeOK
  <2>3. CASE Disable(r) /\ requests[r].op = "configure"
    BY <1>1, <2>3, AnsweredIs DEF Disable, RegistryInv, Activated
  <2>4. \A p, config : Connect(r, p, config) =>
          (\E ok \in BOOLEAN : Settle(r, ok)) \/ Probe(r, Taken(p, config))
    BY DEF Connect, LocalVerdict
  <2>5. TestProvider(r) => (\E ok \in BOOLEAN : Settle(r, ok)) \/ Probe(r, requests[r].config)
    BY DEF TestProvider, LocalVerdict
  <2> QED
    BY <2>1, <2>2, <2>3, <2>4, <2>5 DEF BeginRequest, ConfigureProvider, SwitchProvider
<1> QED
  BY <1>1, <1>2, <1>3, BackendKeepsShown

LEMMA EndProbeKeepsShown ==
  ASSUME PagesInv, NEW r \in AllRequests, EndProbe(r), UNCHANGED pageVars
  PROVE  PagesInv'
<1>1. PICK ok \in BOOLEAN : Settle(r, ok)
  BY DEF EndProbe
<1>2. RegistryInv /\ InFlight(r)
  BY DEF PagesInv, EndProbe, InFlight
<1>3. RegistryInv'
  BY <1>2, EndProbeKeepsInv
<1> QED
  BY <1>1, <1>2, <1>3, SettleShows, BackendKeepsShown

LEMMA ClickKeepsShown ==
  ASSUME PagesInv, NEW r \in Requests,
         HandleTestConnection(r) \/ HandleSaveAndActivate(r) \/ HandleQuickSwitch(r)
  PROVE  PagesInv'
<1>1. RegistryInv /\ PageTypeOK
  BY DEF PagesInv
<1>2. PICK op \in {"configure", "test", "switch"}, p \in Providers, config \in Config \cup {NoConfig} :
        /\ op = "configure" => config \in Config
        /\ Click(r, op, p, config)
  BY <1>1, HandlersClick
<1>3. /\ RegistryInv' /\ PageTypeOK'
      /\ requests[r].state = "idle"
      /\ requests'[r].state = "sent"
      /\ \A s \in Requests : s # r => requests'[s] = requests[s]
      /\ active' = active /\ shown' = shown /\ listed' = listed
      /\ flow' = [flow EXCEPT ![r] = "waiting"]
      /\ careful' = (careful /\ \A f \in Flows : ~Running(f))
  BY <1>1, <1>2, ClickIs
<1>4. ASSUME careful' PROVE ShownInv'
  <2>1. careful /\ \A f \in Flows : ~Running(f)
    BY <1>3, <1>4
  <2>2. /\ shown = active
        /\ \A s \in Requests : ~InFlight(s)
    BY <2>1, FlowsAssumption DEF PagesInv, ShownInv, OneFlow, Running
  <2>3. /\ flow'[r] = "waiting" /\ \A f \in Flows : f # r => flow'[f] = flow[f]
        /\ r \in Flows
    BY <1>1, <1>3, FlowsAssumption DEF PageTypeOK
  <2>4. OneFlow'
    BY <1>3, <2>1, <2>2, <2>3, FlowsAssumption DEF OneFlow, Running, InFlight
  <2>5. \A f \in Flows : flow'[f] # "listed"
    BY <2>1, <2>3 DEF Running
  <2> QED
    BY <1>3, <2>2, <2>4, <2>5 DEF ShownInv
<1> QED
  BY <1>3, <1>4 DEF PagesInv, ShownInv

LEMMA FlowStepKeepsShown ==
  ASSUME PagesInv, NEW f \in Flows, FlowStep(f)
  PROVE  PagesInv'
<1>1. RegistryInv /\ PageTypeOK /\ ShownInv /\ (f # Mount => f \in Requests)
  BY FlowsAssumption DEF PagesInv
<1>2. UNCHANGED registryVars
  BY DEF FlowStep, ShowTestResult, ShowActivated, GetProviders, ShowProviders, ShowFailure
<1>3. requests' = requests /\ active' = active
  BY <1>2 DEF registryVars
<1>4. RegistryInv'
  BY <1>1, <1>2, RegistryStep
<1>5. /\ active \in Providers
      /\ flow \in [Flows -> {"none", "waiting", "listing", "listed", "ended"}]
      /\ listed \in [Flows -> Providers \cup {NoFeed}]
      /\ requests \in [AllRequests -> Request]
  BY <1>1 DEF RegistryInv, TypeOK, PageTypeOK
<1>6. CASE f # Mount /\ ShowTestResult(f)
  <2>1. /\ flow[f] = "waiting" /\ requests[f].op = "test"
        /\ requests[f].state \in {"succeeded", "refused"}
        /\ loading' \in BOOLEAN /\ flow' = [flow EXCEPT ![f] = "ended"]
        /\ selected' = selected /\ shown' = shown /\ listed' = listed /\ careful' = careful
    BY <1>6 DEF ShowTestResult, End
  <2>2. PageTypeOK'
    BY <1>1, <1>6, <2>1 DEF PageTypeOK
  <2>3. ShownInv'
    BY <1>1, <1>3, <1>5, <2>1, FlowsAssumption DEF ShownInv, OneFlow, Running, InFlight, Activated
  <2> QED
    BY <1>4, <2>2, <2>3 DEF PagesInv
<1>7. CASE f # Mount /\ ShowActivated(f)
  <2>1. /\ flow[f] = "waiting" /\ requests[f].state = "succeeded"
        /\ selected' \in Providers
        /\ flow' = [flow EXCEPT ![f] = "listing"]
        /\ loading' = loading /\ shown' = shown /\ listed' = listed /\ careful' = careful
    BY <1>1, <1>5, <1>7, KeysAssumption
    DEF ShowActivated, AfterActivation, FetchProviders, PageTypeOK, Request
  <2>2. PageTypeOK'
    BY <1>1, <1>7, <2>1 DEF PageTypeOK
  <2>3. ShownInv'
    BY <1>1, <1>3, <1>5, <2>1, FlowsAssumption DEF ShownInv, OneFlow, Running, InFlight, Activated
  <2> QED
    BY <1>4, <2>2, <2>3 DEF PagesInv
<1>8. CASE GetProviders(f)
  <2>1. /\ flow[f] = "listing"
        /\ listed' = [listed EXCEPT ![f] = active]
        /\ flow' = [flow EXCEPT ![f] = "listed"]
        /\ selected' = selected /\ shown' = shown /\ loading' = loading /\ careful' = careful
    BY <1>8 DEF GetProviders
  <2>2. PageTypeOK'
    BY <1>1, <1>5, <2>1 DEF PageTypeOK
  <2>3. ShownInv'
    BY <1>1, <1>3, <1>5, <2>1, FlowsAssumption DEF ShownInv, OneFlow, Running, InFlight, Activated
  <2> QED
    BY <1>4, <2>2, <2>3 DEF PagesInv
<1>9. CASE ShowProviders(f)
  <2>1. /\ flow[f] = "listed"
        /\ shown' = listed[f] /\ selected' = listed[f] /\ listed[f] \in Providers
        /\ loading' \in BOOLEAN
        /\ listed' = [listed EXCEPT ![f] = NoFeed]
        /\ flow' = [flow EXCEPT ![f] = "ended"]
        /\ careful' = careful
    BY <1>1, <1>9 DEF ShowProviders, End, Unblocked, PageTypeOK
  <2>2. PageTypeOK'
    BY <1>1, <1>5, <2>1 DEF PageTypeOK
  <2>3. ShownInv'
    BY <1>1, <1>3, <1>5, <2>1, FlowsAssumption DEF ShownInv, OneFlow, Running, InFlight, Activated
  <2> QED
    BY <1>4, <2>2, <2>3 DEF PagesInv
<1>10. CASE ShowFailure(f)
  <2>1. /\ listed' = [listed EXCEPT ![f] = NoFeed]
        /\ flow' = [flow EXCEPT ![f] = "ended"]
        /\ selected' = selected /\ shown' = shown
    BY <1>10 DEF ShowFailure, End
  <2>2. PageTypeOK'
    <3>1. loading' = Unblocked(f) /\ loading \in BOOLEAN /\ careful \in BOOLEAN
      BY <1>1, <1>10 DEF ShowFailure, PageTypeOK
    <3>2. loading' \in BOOLEAN
      BY <3>1 DEF Unblocked
    <3>3. careful' \in BOOLEAN
      BY <1>10, <3>1 DEF ShowFailure
    <3> QED
      BY <1>1, <1>5, <2>1, <3>2, <3>3 DEF PageTypeOK
  <2>3. ShownInv'
    <3>1. ASSUME careful, flow[f] = "waiting", requests[f].state = "refused", careful' = careful
          PROVE  ShownInv'
      <4>1. f \in Requests /\ ~Activated(f) /\ ~InFlight(f)
        BY <1>1, <3>1 DEF PageTypeOK, Activated, InFlight
      <4>2. \A g \in Flows : g # f => ~Running(g)
        BY <1>1, <3>1 DEF ShownInv, OneFlow, Running
      <4>3. shown = active
        BY <1>1, <3>1, <4>1, <4>2, FlowsAssumption DEF ShownInv, Running
      <4>4. flow'[f] = "ended" /\ \A g \in Flows : g # f => flow'[g] = flow[g]
        BY <1>5, <2>1
      <4>5. OneFlow'
        BY <1>1, <1>3, <3>1, <4>1, <4>2, <4>4, FlowsAssumption DEF ShownInv, OneFlow, Running, InFlight
      <4>6. \A g \in Flows : flow'[g] # "listed"
        BY <4>2, <4>4 DEF Running
      <4> QED
        BY <1>3, <2>1, <4>3, <4>5, <4>6 DEF ShownInv
    <3>2. \/ flow[f] = "waiting" /\ requests[f].state = "refused" /\ careful' = careful
          \/ careful' = FALSE
      BY <1>10 DEF ShowFailure
    <3>3. careful \in BOOLEAN /\ careful' \in BOOLEAN
      BY <1>1, <2>2 DEF PageTypeOK
    <3> QED
      BY <3>1, <3>2, <3>3 DEF ShownInv
  <2> QED
    BY <1>4, <2>2, <2>3 DEF PagesInv
<1> QED
  BY <1>6, <1>7, <1>8, <1>9, <1>10 DEF FlowStep

LEMMA PagesStep ==
  ASSUME PagesInv, [PagesNext]_vars
  PROVE  PagesInv'
<1>1. RegistryInv /\ PageTypeOK /\ RegistryInv'
  BY PagesStepRegistry, RegistryStep DEF PagesInv
<1>2. CASE UNCHANGED vars
  BY <1>1, <1>2 DEF vars, pageVars, registryVars, PagesInv, PageTypeOK, ShownInv, OneFlow,
                    Running, InFlight, Activated
<1>3. ASSUME NEW p \in Providers, SelectCard(p)
      PROVE  PagesInv'
  BY <1>1, <1>3 DEF SelectCard, registryVars, PagesInv, PageTypeOK, ShownInv, OneFlow,
                    Running, InFlight, Activated
<1>4. ASSUME NEW r \in Requests, DisableElsewhere(r)
      PROVE  PagesInv'
  BY <1>1, <1>4 DEF DisableElsewhere, PagesInv, PageTypeOK, ShownInv
<1> QED
  BY <1>2, <1>3, <1>4, ClickKeepsShown, FlowStepKeepsShown, BeginKeepsShown, EndProbeKeepsShown
  DEF PagesNext, User

-----------------------------------------------------------------------------
(* Theorems on the page                                                    *)

THEOREM PagesCorrect == PagesSpec => []PagesInv
<1> QED
  BY PagesStart, PagesStep, PTL DEF PagesSpec

(* Whatever the page and other clients do, the registry behaves as it      *)
(* does under any requests; so its theorems hold behind the page.          *)
THEOREM PagesUseRegistry == PagesSpec => Spec
<1>1. PagesInv /\ [PagesNext]_vars => [Next]_registryVars
  BY PagesStepRegistry DEF PagesInv
<1> QED
  BY <1>1, PagesCorrect, PTL DEF PagesSpec, PagesInit, Spec

(* A user who waits for each answer and loses none sees the feed.          *)
THEOREM FeedIsShown == PagesSpec => []QuietPageShowsFeed
<1>1. PagesInv => QuietPageShowsFeed
  <2> SUFFICES ASSUME PagesInv, careful, \A f \in Flows : ~Running(f)
               PROVE  shown = active
    BY DEF QuietPageShowsFeed
  <2> QED
    BY FlowsAssumption DEF PagesInv, ShownInv, Running
<1> QED
  BY <1>1, PagesCorrect, PTL
=============================================================================

--------------------------- MODULE ProviderPages ---------------------------
(***************************************************************************)
(* The page on which a user chooses the feed (features/providers, and the  *)
(* settings dialog with the same handlers), composed with the registry.    *)
(* A flow is what one click starts: the request, its answer and the list   *)
(* of providers that is fetched afterwards.  The network may lose an       *)
(* answer, and reorder the answers of flows that overlap.                  *)
(***************************************************************************)
EXTENDS ProviderRegistry

CONSTANTS
  Mount,      \* the fetch of the list when the page opens
  NoFeed      \* no list has been shown yet

ASSUME PagesAssumption == Mount \notin AllRequests

VARIABLES
  selected,   \* the selected card
  loading,    \* isLoading: disables the buttons to test and to save
  shown,      \* the provider marked as the live feed
  flow,       \* how far each flow is
  listed,     \* the active provider in the list on its way to a flow
  careful     \* history: no answer was lost, and no flow met another

pageVars == <<selected, loading, shown, flow, listed, careful>>
vars == <<pageVars, registryVars>>

Flows == Requests \cup {Mount}

Running(f) == flow[f] \in {"waiting", "listing", "listed"}

PageInit ==
  /\ selected \in Remote
  /\ loading = FALSE
  /\ shown = NoFeed
  /\ flow = [f \in Flows |-> IF f = Mount THEN "listing" ELSE "none"]
  /\ listed = [f \in Flows |-> NoFeed]
  /\ careful = TRUE

\* A click on a card.
SelectCard(p) ==
  /\ selected' = p
  /\ UNCHANGED <<loading, shown, flow, listed, careful, registryVars>>

Click(r, op, p, config) ==
  /\ Send(r, op, p, config)
  /\ loading' = TRUE
  /\ flow' = [flow EXCEPT ![r] = "waiting"]
  /\ careful' = (careful /\ \A f \in Flows : ~Running(f))
  /\ UNCHANGED <<selected, shown, listed>>

\* The form submits whatever key is in it, or none.
FormConfig == [key : Keys \cup {NoKey}, enabled : {TRUE}]

HandleTestConnection(r) ==
  /\ ~loading /\ selected # Simulated
  /\ \E config \in FormConfig : Click(r, "test", selected, config)

HandleSaveAndActivate(r) ==
  /\ ~loading
  /\ \E config \in FormConfig : Click(r, "configure", selected, config)

\* The button for the simulator is never disabled.
HandleQuickSwitch(r) == Click(r, "switch", Simulated, NoConfig)

\* Another client of the API disables a provider.
DisableElsewhere(r) ==
  /\ \E p \in Providers : Send(r, "configure", p, [key |-> NoKey, enabled |-> FALSE])
  /\ careful' = FALSE
  /\ UNCHANGED <<selected, loading, shown, flow, listed>>

End(f) == flow' = [flow EXCEPT ![f] = "ended"]

FetchProviders(f) == flow' = [flow EXCEPT ![f] = "listing"]

\* An answer reaches the page.
ShowTestResult(r) ==
  /\ flow[r] = "waiting" /\ requests[r].op = "test"
  /\ requests[r].state \in {"succeeded", "refused"}
  /\ loading' = FALSE
  /\ End(r)
  /\ UNCHANGED <<selected, shown, listed, careful, registryVars>>

AfterActivationUnlisted(r) == End(r) /\ loading' = FALSE

AfterActivation(r) == FetchProviders(r) /\ UNCHANGED loading

ShowActivated(r) ==
  /\ flow[r] = "waiting" /\ requests[r].op # "test"
  /\ requests[r].state = "succeeded"
  /\ selected' = IF requests[r].op = "switch" THEN requests[r].provider ELSE selected
  /\ AfterActivation(r)
  /\ UNCHANGED <<shown, listed, careful, registryVars>>

\* What isLoading becomes when a flow ends (finally).
StillBlocked(f) == loading

Unblocked(f) == f = Mount /\ loading

\* GET /api/providers is answered by the backend ...
GetProviders(f) ==
  /\ flow[f] = "listing"
  /\ listed' = [listed EXCEPT ![f] = active]
  /\ flow' = [flow EXCEPT ![f] = "listed"]
  /\ UNCHANGED <<selected, loading, shown, careful, registryVars>>

\* ... and moves both the mark and the selection.
ShowProviders(f) ==
  /\ flow[f] = "listed"
  /\ shown' = listed[f]
  /\ selected' = listed[f]
  /\ loading' = Unblocked(f)
  /\ listed' = [listed EXCEPT ![f] = NoFeed]
  /\ End(f)
  /\ UNCHANGED <<careful, registryVars>>

\* A request is refused, or its answer or the list does not reach the page.
ShowFailure(f) ==
  /\ \/ /\ flow[f] = "waiting" /\ requests[f].state = "refused" /\ requests[f].op # "test"
        /\ UNCHANGED careful
     \/ /\ Running(f)
        /\ careful' = FALSE
  /\ loading' = Unblocked(f)
  /\ listed' = [listed EXCEPT ![f] = NoFeed]
  /\ End(f)
  /\ UNCHANGED <<selected, shown, registryVars>>

User ==
  \/ \E p \in Providers : SelectCard(p)
  \/ \E r \in Requests :
       \/ HandleTestConnection(r) \/ HandleSaveAndActivate(r) \/ HandleQuickSwitch(r)
       \/ DisableElsewhere(r)

\* The browser ends every call at the latest after its own time-out (15 s in
\* apiClient): a flow goes on or fails.  Users and vendors owe nothing.
FlowStep(f) ==
  \/ f # Mount /\ (ShowTestResult(f) \/ ShowActivated(f))
  \/ GetProviders(f) \/ ShowProviders(f) \/ ShowFailure(f)

PagesNext ==
  \/ User
  \/ \E f \in Flows : FlowStep(f)
  \/ \E r \in Requests : BeginRequest(r) /\ UNCHANGED pageVars
  \/ \E r \in AllRequests : EndProbe(r) /\ UNCHANGED pageVars

Fairness == \A f \in Flows : WF_vars(FlowStep(f))

PagesInit == Init /\ PageInit
PagesSpec == PagesInit /\ [][PagesNext]_vars /\ Fairness

\* A user who waits for each click to be answered, and loses no answer, sees
\* the feed the backend serves: every way a click can end in the registry
\* (activated though unconnected, refused, switched) is followed by what
\* the page does with it.
QuietPageShowsFeed ==
  careful /\ (\A f \in Flows : ~Running(f)) => shown = active

\* The buttons never stay disabled, whatever fails.
PageUnblocks == loading ~> ~loading
=============================================================================

------------------------- MODULE RealTimeStream_proofs -------------------------
(***************************************************************************)
(* No page leaks a connection, for any pages, symbols and disturbances.    *)
(*                                                                         *)
(* The argument: a page that is open refers to a connection it opened with *)
(* its symbol, and another page to none (HooksInv); connect closes that    *)
(* connection and opens one that nobody has used, which exists because the *)
(* connections are numbered as they are opened, at most one for each page  *)
(* and each disturbance (NumbersInv).                                      *)
(***************************************************************************)
EXTENDS RealTimeStream, TLAPS, FiniteSetTheorems

StreamTypeOK ==
  /\ page \in [Hooks -> {"unopened", "mounted", "left"}]
  /\ symbol \in [Hooks -> Symbols]
  /\ source \in [Hooks -> Connections \cup {None}]
  /\ retry \subseteq Hooks
  /\ link \in [Connections -> {"unused", "connecting", "open", "closed"}]
  /\ asked \in [Connections -> Symbols]
  /\ disturbances \in 0..Disturbances

Used == {k \in Connections : link[k] # "unused"}

Opened == {h \in Hooks : page[h] # "unopened"}

NumbersInv ==
  /\ \A k \in Connections : link[k] # "unused" <=> k <= Cardinality(Used)
  /\ Cardinality(Used) + Cardinality(retry) <= Cardinality(Opened) + disturbances

HooksInv ==
  \A h \in Hooks :
    /\ page[h] = "mounted" =>
         /\ source[h] \in Connections
         /\ link[source[h]] # "unused" /\ asked[source[h]] = symbol[h]
    /\ page[h] # "mounted" => source[h] = None /\ h \notin retry

StreamInv == StreamTypeOK /\ NumbersInv /\ HooksInv /\ SourceFollowsHook

-----------------------------------------------------------------------------
(* Counting                                                                *)

LEMMA CountsAssumption ==
  /\ Pages \in Nat /\ Disturbances \in Nat /\ None \notin Connections
  /\ IsFiniteSet(Connections) /\ IsFiniteSet(Hooks)
  /\ Cardinality(Hooks) = Pages
  /\ \A k \in Connections : k \in Nat /\ k >= 1 /\ k <= Pages + Disturbances
  /\ \A k \in Nat : k >= 1 /\ k <= Pages + Disturbances => k \in Connections
<1>1. Pages \in Nat /\ Disturbances \in Nat /\ None \notin Nat
  BY StreamAssumption
<1> QED
  BY <1>1, FS_Interval DEF Connections, Hooks

LEMMA Counted ==
  ASSUME StreamTypeOK
  PROVE  /\ IsFiniteSet(Used) /\ Cardinality(Used) \in Nat
         /\ IsFiniteSet(retry) /\ Cardinality(retry) \in Nat
         /\ IsFiniteSet(Opened) /\ Cardinality(Opened) \in Nat
         /\ Cardinality(Opened) <= Pages
         /\ disturbances \in Nat /\ disturbances <= Disturbances
         /\ Used \subseteq Connections
<1>1. Used \subseteq Connections /\ Opened \subseteq Hooks /\ retry \subseteq Hooks
  BY DEF Used, Opened, StreamTypeOK
<1>2. /\ IsFiniteSet(Used) /\ IsFiniteSet(retry) /\ IsFiniteSet(Opened)
      /\ Cardinality(Opened) <= Cardinality(Hooks)
  BY <1>1, CountsAssumption, FS_Subset
<1> QED
  BY <1>1, <1>2, CountsAssumption, FS_CardinalityType DEF StreamTypeOK

(* connect, wherever it is called from: there is an unused connection.     *)
LEMMA ConnectKeepsInv ==
  ASSUME StreamInv, NEW h \in Hooks, NEW s \in Symbols, Connect(h, s),
         page' = [page EXCEPT ![h] = "mounted"],
         symbol' = [symbol EXCEPT ![h] = s],
         disturbances' \in 0..Disturbances,
         Cardinality(Used) + 1 + Cardinality(retry \ {h})
           <= Cardinality(Opened') + disturbances'
  PROVE  StreamInv'
<1> DEFINE k == NextConnection
<1>1. /\ StreamTypeOK /\ NumbersInv /\ HooksInv /\ SourceFollowsHook
  BY DEF StreamInv
<1>2. /\ link' = [Closing(h) EXCEPT ![k] = "connecting"]
      /\ asked' = [asked EXCEPT ![k] = s]
      /\ source' = [source EXCEPT ![h] = k]
      /\ retry' = retry \ {h}
  BY DEF Connect
<1>3. k = Cardinality(Used) + 1
  BY DEF NextConnection, Used
<1>4. /\ Opened' \subseteq Hooks /\ IsFiniteSet(Opened') /\ Cardinality(Opened') \in Nat
      /\ Cardinality(Opened') <= Pages
  <2>1. Opened' \subseteq Hooks
    BY DEF Opened
  <2> QED
    BY <2>1, CountsAssumption, FS_Subset, FS_CardinalityType
<1>5. IsFiniteSet(retry \ {h}) /\ Cardinality(retry \ {h}) \in Nat
  BY <1>1, Counted, FS_RemoveElement, FS_CardinalityType
<1>6. k \in Connections /\ link[k] = "unused" /\ k \in Nat
  <2>1. Cardinality(Used) \in Nat /\ disturbances' \in Nat /\ disturbances' <= Disturbances
    BY <1>1, Counted, CountsAssumption
  <2>2. k >= 1 /\ k <= Pages + Disturbances /\ k \in Nat
    BY <1>3, <1>4, <1>5, <2>1, CountsAssumption
  <2>3. k \in Connections
    BY <2>2, CountsAssumption
  <2> QED
    BY <1>1, <1>3, <2>1, <2>2, <2>3 DEF NumbersInv, StreamTypeOK
<1> HIDE DEF k
<1>7. /\ link'[k] = "connecting"
      /\ \A j \in Connections : j # k => link'[j] = IF j = source[h] THEN "closed" ELSE link[j]
      /\ link' \in [Connections -> {"unused", "connecting", "open", "closed"}]
  BY <1>1, <1>2, <1>6 DEF Closing, StreamTypeOK
<1>8. /\ page'[h] = "mounted" /\ symbol'[h] = s /\ source'[h] = k /\ asked'[k] = s
      /\ \A g \in Hooks : g # h => /\ page'[g] = page[g] /\ symbol'[g] = symbol[g]
                                   /\ source'[g] = source[g]
      /\ \A j \in Connections : j # k => asked'[j] = asked[j]
  BY <1>1, <1>2, <1>6 DEF StreamTypeOK
<1>9. source[h] # None => source[h] \in Connections /\ link[source[h]] # "unused"
  BY <1>1 DEF HooksInv, StreamTypeOK
<1>10. StreamTypeOK'
  BY <1>1, <1>2, <1>6, <1>7 DEF StreamTypeOK
<1>11. Used' = Used \cup {k} /\ Cardinality(Used') = Cardinality(Used) + 1
  <2>1. \A j \in Connections : link'[j] # "unused" <=> link[j] # "unused" \/ j = k
    BY <1>6, <1>7, <1>9, CountsAssumption
  <2>2. Used' = Used \cup {k} /\ k \notin Used
    BY <1>6, <2>1 DEF Used
  <2> QED
    BY <1>1, <2>2, Counted, FS_AddElement
<1>12. NumbersInv'
  <2>1. ASSUME NEW j \in Connections
        PROVE  link'[j] # "unused" <=> j <= Cardinality(Used')
    <3>1. link[j] # "unused" <=> j <= Cardinality(Used)
      BY <1>1 DEF NumbersInv
    <3>2. j \in Nat /\ Cardinality(Used) \in Nat
      BY <1>1, Counted, CountsAssumption
    <3>3. link'[j] # "unused" <=> j \in Used \/ j = k
      BY <1>11 DEF Used
    <3>4. j \in Used <=> link[j] # "unused"
      BY DEF Used
    <3> QED
      BY <1>3, <1>11, <3>1, <3>2, <3>3, <3>4
  <2>2. Cardinality(Used') + Cardinality(retry') <= Cardinality(Opened') + disturbances'
    BY <1>2, <1>11
  <2> QED
    BY <2>1, <2>2 DEF NumbersInv
<1>13. HooksInv'
  <2> SUFFICES ASSUME NEW g \in Hooks
               PROVE  /\ page'[g] = "mounted" =>
                           /\ source'[g] \in Connections
                           /\ link'[source'[g]] # "unused" /\ asked'[source'[g]] = symbol'[g]
                      /\ page'[g] # "mounted" => source'[g] = None /\ g \notin retry'
    BY DEF HooksInv
  <2>1. CASE g = h
    BY <1>6, <1>7, <1>8, <2>1
  <2>2. CASE g # h /\ page[g] = "mounted"
    <3>1. source[g] \in Connections /\ link[source[g]] # "unused" /\ asked[source[g]] = symbol[g]
      BY <1>1, <2>2 DEF HooksInv
    <3>2. page'[g] = page[g] /\ symbol'[g] = symbol[g] /\ source'[g] = source[g]
      BY <1>8, <2>2
    <3>3. source[g] # k
      BY <1>6, <3>1
    <3>4. asked'[source[g]] = asked[source[g]]
      BY <1>8, <3>1, <3>3
    <3>5. link'[source[g]] # "unused"
      BY <1>7, <3>1, <3>3
    <3> QED
      BY <2>2, <3>1, <3>2, <3>4, <3>5
  <2>3. CASE g # h /\ page[g] # "mounted"
    BY <1>1, <1>2, <1>8, <2>3 DEF HooksInv
  <2> QED
    BY <2>1, <2>2, <2>3
<1>14. SourceFollowsHook'
  <2>1. ASSUME NEW j \in Connections, Live(j)'
        PROVE  \E g \in Hooks : page'[g] = "mounted" /\ source'[g] = j /\ asked'[j] = symbol'[g]
    <3>1. CASE j = k
      BY <1>8, <3>1
    <3>2. CASE j # k
      <4>1. j # source[h] /\ Live(j)
        BY <1>7, <2>1, <3>2 DEF Live
      <4>2. PICK g \in Hooks : page[g] = "mounted" /\ source[g] = j /\ asked[j] = symbol[g]
        BY <1>1, <4>1 DEF SourceFollowsHook
      <4> QED
        BY <1>8, <3>2, <4>1, <4>2
    <3> QED
      BY <3>1, <3>2
  <2>2. ASSUME NEW g \in retry'
        PROVE  page'[g] = "mounted" /\ link'[source'[g]] \notin {"connecting", "open"}
    <3>1. g \in Hooks /\ g # h /\ g \in retry
      BY <1>1, <1>2, <2>2 DEF StreamTypeOK
    <3>2. page[g] = "mounted" /\ link[source[g]] \notin {"connecting", "open"}
      BY <1>1, <3>1 DEF SourceFollowsHook, Live
    <3>3. source[g] \in Connections /\ link[source[g]] # "unused"
      BY <1>1, <3>1, <3>2 DEF HooksInv
    <3>4. source'[g] = source[g] /\ page'[g] = page[g] /\ source[g] # k
      BY <1>6, <1>8, <3>1, <3>3
    <3>5. link'[source[g]] = "closed" \/ link'[source[g]] = link[source[g]]
      BY <1>7, <3>3, <3>4
    <3> QED
      BY <3>2, <3>4, <3>5
  <2> QED
    BY <2>1, <2>2 DEF SourceFollowsHook, Live
<1> QED
  BY <1>10, <1>12, <1>13, <1>14 DEF StreamInv

-----------------------------------------------------------------------------
(* The steps                                                               *)

LEMMA MountKeepsInv ==
  ASSUME StreamInv, NEW h \in Hooks, Mount(h)
  PROVE  StreamInv'
<1>1. /\ page[h] = "unopened" /\ page' = [page EXCEPT ![h] = "mounted"]
      /\ Connect(h, symbol[h]) /\ symbol' = symbol /\ disturbances' = disturbances
  BY DEF Mount
<1>2. StreamTypeOK /\ NumbersInv /\ HooksInv
  BY DEF StreamInv
<1>3. symbol[h] \in Symbols /\ symbol' = [symbol EXCEPT ![h] = symbol[h]]
  BY <1>1, <1>2 DEF StreamTypeOK
<1>4. h \notin retry /\ retry \ {h} = retry
  BY <1>1, <1>2 DEF HooksInv
<1>5. Cardinality(Opened') = Cardinality(Opened) + 1
  <2>1. Opened' = Opened \cup {h} /\ h \notin Opened
    BY <1>1, <1>2 DEF Opened, StreamTypeOK
  <2>2. IsFiniteSet(Opened)
    BY <1>2, Counted
  <2>3. Cardinality(Opened \cup {h}) = Cardinality(Opened) + 1
    BY <2>1, <2>2, FS_AddElement
  <2> QED
    BY <2>1, <2>3
<1>6. Cardinality(Used) + 1 + Cardinality(retry \ {h}) <= Cardinality(Opened') + disturbances'
  <2>1. /\ Cardinality(Used) \in Nat /\ Cardinality(retry) \in Nat
        /\ Cardinality(Opened) \in Nat /\ disturbances \in Nat
    BY <1>2, Counted
  <2>2. Cardinality(Used) + Cardinality(retry) <= Cardinality(Opened) + disturbances
    BY <1>2 DEF NumbersInv
  <2> QED
    BY <1>1, <1>4, <1>5, <2>1, <2>2
<1> QED
  BY <1>1, <1>2, <1>3, <1>6, ConnectKeepsInv DEF StreamTypeOK

LEMMA ChangeSymbolKeepsInv ==
  ASSUME StreamInv, NEW h \in Hooks, NEW s \in Symbols, ChangeSymbol(h, s)
  PROVE  StreamInv'
<1>1. /\ page[h] = "mounted" /\ page' = page /\ symbol' = [symbol EXCEPT ![h] = s]
      /\ Connect(h, s)
      /\ disturbances < Disturbances /\ disturbances' = disturbances + 1
  BY DEF ChangeSymbol, Disturbed
<1>2. StreamTypeOK /\ NumbersInv /\ HooksInv
  BY DEF StreamInv
<1>3. page' = [page EXCEPT ![h] = "mounted"] /\ Opened' = Opened
  BY <1>1, <1>2 DEF StreamTypeOK, Opened
<1>4. IsFiniteSet(retry \ {h}) /\ Cardinality(retry \ {h}) <= Cardinality(retry)
      /\ Cardinality(retry \ {h}) \in Nat
  BY <1>2, Counted, FS_Subset, FS_CardinalityType
<1>5. /\ disturbances' \in 0..Disturbances
      /\ Cardinality(Used) + 1 + Cardinality(retry \ {h}) <= Cardinality(Opened') + disturbances'
  BY <1>1, <1>2, <1>3, <1>4, Counted, CountsAssumption DEF NumbersInv
<1> QED
  BY <1>1, <1>3, <1>5, ConnectKeepsInv

LEMMA RetryKeepsInv ==
  ASSUME StreamInv, NEW h \in Hooks, Retry(h)
  PROVE  StreamInv'
<1>1. /\ h \in retry /\ page' = page /\ symbol' = symbol
      /\ Connect(h, symbol[h]) /\ disturbances' = disturbances
  BY DEF Retry
<1>2. StreamTypeOK /\ NumbersInv /\ HooksInv
  BY DEF StreamInv
<1>3. /\ page[h] = "mounted" /\ symbol[h] \in Symbols
      /\ page' = [page EXCEPT ![h] = "mounted"] /\ symbol' = [symbol EXCEPT ![h] = symbol[h]]
      /\ Opened' = Opened
  BY <1>1, <1>2 DEF StreamTypeOK, HooksInv, Opened
<1>4. Cardinality(retry \ {h}) = Cardinality(retry) - 1
  BY <1>1, <1>2, Counted, FS_RemoveElement
<1>5. Cardinality(Used) + 1 + Cardinality(retry \ {h}) <= Cardinality(Opened') + disturbances'
  BY <1>1, <1>2, <1>3, <1>4, Counted DEF NumbersInv
<1> QED
  BY <1>1, <1>2, <1>3, <1>5, ConnectKeepsInv DEF StreamTypeOK

(* A connection that is closed or opened is neither used nor forgotten.    *)
LEMMA LinksKeepInv ==
  ASSUME StreamInv, NEW h \in Hooks,
         page[h] = "mounted", page' = page, symbol' = symbol, source' = source, asked' = asked,
         \/ /\ link[source[h]] = "connecting" /\ link' = [link EXCEPT ![source[h]] = "open"]
            /\ retry' = retry /\ disturbances' = disturbances
         \/ /\ link' = [link EXCEPT ![source[h]] = "closed"] /\ retry' = retry \cup {h}
            /\ disturbances < Disturbances /\ disturbances' = disturbances + 1
  PROVE  StreamInv'
<1> DEFINE k == source[h]
<1>1. /\ StreamTypeOK /\ NumbersInv /\ HooksInv /\ SourceFollowsHook
  BY DEF StreamInv
<1>2. k \in Connections /\ link[k] # "unused"
  BY <1>1 DEF HooksInv
<1> HIDE DEF k
<1>3. /\ link' \in [Connections -> {"unused", "connecting", "open", "closed"}]
      /\ \A j \in Connections : j # k => link'[j] = link[j]
      /\ link'[k] \in {"open", "closed"}
      /\ disturbances' \in 0..Disturbances
      /\ retry' \subseteq Hooks
  BY <1>1, <1>2, CountsAssumption DEF StreamTypeOK, k
<1>4. StreamTypeOK'
  BY <1>1, <1>3 DEF StreamTypeOK
<1>5. Used' = Used /\ Opened' = Opened
  BY <1>2, <1>3 DEF Used, Opened
<1>6. NumbersInv'
  <2>1. \A j \in Connections : link'[j] # "unused" <=> j <= Cardinality(Used')
    BY <1>1, <1>2, <1>3, <1>5 DEF NumbersInv
  <2>2. CASE retry' = retry /\ disturbances' = disturbances
    BY <1>1, <1>5, <2>1, <2>2 DEF NumbersInv
  <2>3. CASE retry' = retry \cup {h} /\ disturbances' = disturbances + 1
    <3>1. Cardinality(retry') <= Cardinality(retry) + 1 /\ Cardinality(retry') \in Nat
      <4>1. IsFiniteSet(retry) /\ Cardinality(retry) \in Nat
        BY <1>1, Counted
      <4>2. /\ IsFiniteSet(retry \cup {h})
            /\ \/ Cardinality(retry \cup {h}) = Cardinality(retry) + 1
               \/ Cardinality(retry \cup {h}) = Cardinality(retry)
        BY <4>1, FS_AddElement
      <4> QED
        BY <2>3, <4>1, <4>2
    <3> QED
      BY <1>1, <1>5, <2>1, <2>3, <3>1, Counted DEF NumbersInv
  <2> QED
    BY <2>2, <2>3
<1>7. HooksInv'
  BY <1>1, <1>2, <1>3 DEF HooksInv
<1>8. SourceFollowsHook'
  <2>1. ASSUME NEW j \in Connections, Live(j)'
        PROVE  Live(j)
    BY <1>3, <2>1 DEF Live, k
  <2>2. ASSUME NEW g \in retry'
        PROVE  page[g] = "mounted" /\ ~Live(source[g])'
    <3>1. CASE link[k] = "connecting" /\ link' = [link EXCEPT ![k] = "open"] /\ retry' = retry
      <4>1. page[g] = "mounted" /\ ~Live(source[g]) /\ g \in Hooks
        BY <1>1, <2>2, <3>1 DEF SourceFollowsHook, StreamTypeOK
      <4>2. source[g] \in Connections /\ source[g] # k
        BY <1>1, <3>1, <4>1 DEF HooksInv, Live
      <4> QED
        BY <1>3, <4>1, <4>2 DEF Live
    <3>2. CASE link' = [link EXCEPT ![k] = "closed"] /\ retry' = retry \cup {h}
      <4>1. link'[k] = "closed"
        BY <1>1, <1>2, <3>2 DEF StreamTypeOK
      <4>2. CASE g = h
        BY <4>1, <4>2 DEF Live, k
      <4>3. CASE g # h
        <5>1. page[g] = "mounted" /\ ~Live(source[g]) /\ g \in Hooks
          BY <1>1, <2>2, <3>2, <4>3 DEF SourceFollowsHook, StreamTypeOK
        <5>2. source[g] \in Connections
          BY <1>1, <5>1 DEF HooksInv
        <5> QED
          BY <1>3, <4>1, <5>1, <5>2 DEF Live
      <4> QED
        BY <4>2, <4>3
    <3> QED
      BY <3>1, <3>2 DEF k
  <2> QED
    BY <1>1, <2>1, <2>2 DEF SourceFollowsHook, Live
<1> QED
  BY <1>4, <1>6, <1>7, <1>8 DEF StreamInv

LEMMA UnmountKeepsInv ==
  ASSUME StreamInv, NEW h \in Hooks, Unmount(h)
  PROVE  StreamInv'
<1>1. /\ page[h] = "mounted" /\ page' = [page EXCEPT ![h] = "left"]
      /\ link' = Closing(h) /\ source' = [source EXCEPT ![h] = None]
      /\ retry' = retry \ {h} /\ symbol' = [symbol EXCEPT ![h] = DefaultSymbol]
      /\ asked' = asked /\ disturbances' = disturbances
  BY DEF Unmount
<1>2. /\ StreamTypeOK /\ NumbersInv /\ HooksInv /\ SourceFollowsHook
  BY DEF StreamInv
<1>3. source[h] \in Connections /\ link[source[h]] # "unused"
  BY <1>1, <1>2 DEF HooksInv
<1>4. /\ link' \in [Connections -> {"unused", "connecting", "open", "closed"}]
      /\ \A j \in Connections : link'[j] = IF j = source[h] THEN "closed" ELSE link[j]
  BY <1>1, <1>2 DEF Closing, StreamTypeOK
<1>5. /\ page'[h] = "left" /\ source'[h] = None
      /\ \A g \in Hooks : g # h => /\ page'[g] = page[g] /\ symbol'[g] = symbol[g]
                                   /\ source'[g] = source[g]
  BY <1>1, <1>2 DEF StreamTypeOK
<1>6. StreamTypeOK'
  BY <1>1, <1>2, <1>4, StreamAssumption DEF StreamTypeOK
<1>7. Used' = Used /\ Opened' = Opened
  BY <1>1, <1>2, <1>3, <1>4, <1>5 DEF Used, Opened
<1>8. NumbersInv'
  <2>1. \A j \in Connections : link'[j] # "unused" <=> j <= Cardinality(Used')
    BY <1>2, <1>3, <1>4, <1>7 DEF NumbersInv
  <2>2. Cardinality(retry') <= Cardinality(retry) /\ Cardinality(retry') \in Nat
    BY <1>1, <1>2, Counted, FS_Subset, FS_CardinalityType
  <2> QED
    BY <1>1, <1>2, <1>7, <2>1, <2>2, Counted DEF NumbersInv
<1>9. HooksInv'
  BY <1>1, <1>2, <1>4, <1>5 DEF HooksInv
<1>10. SourceFollowsHook'
  <2>1. ASSUME NEW j \in Connections, Live(j)'
        PROVE  \E g \in Hooks : page'[g] = "mounted" /\ source'[g] = j /\ asked'[j] = symbol'[g]
    <3>1. j # source[h] /\ Live(j)
      BY <1>4, <2>1 DEF Live
    <3>2. PICK g \in Hooks : page[g] = "mounted" /\ source[g] = j /\ asked[j] = symbol[g]
      BY <1>2, <3>1 DEF SourceFollowsHook
    <3> QED
      BY <1>1, <1>5, <3>1, <3>2
  <2>2. ASSUME NEW g \in retry'
        PROVE  page'[g] = "mounted" /\ link'[source'[g]] \notin {"connecting", "open"}
    <3>1. g \in Hooks /\ g # h /\ g \in retry
      BY <1>1, <1>2, <2>2 DEF StreamTypeOK
    <3>2. page[g] = "mounted" /\ link[source[g]] \notin {"connecting", "open"}
      BY <1>2, <3>1 DEF SourceFollowsHook, Live
    <3>3. source[g] \in Connections
      BY <1>2, <3>1, <3>2 DEF HooksInv
    <3>4. source'[g] = source[g] /\ page'[g] = page[g]
      BY <1>5, <3>1
    <3>5. link'[source[g]] = "closed" \/ link'[source[g]] = link[source[g]]
      BY <1>4, <3>3
    <3> QED
      BY <3>2, <3>4, <3>5
  <2> QED
    BY <2>1, <2>2 DEF SourceFollowsHook, Live
<1> QED
  BY <1>6, <1>8, <1>9, <1>10 DEF StreamInv

(* The service, and requests that are not streams, leave the hooks alone.  *)
LEMMA OthersKeepInv ==
  ASSUME StreamInv,
         UNCHANGED <<page, symbol, source, retry, link, asked>>,
         disturbances' = disturbances \/ Disturbed
  PROVE  StreamInv'
<1>1. /\ StreamTypeOK /\ NumbersInv /\ HooksInv /\ SourceFollowsHook
  BY DEF StreamInv
<1>2. disturbances' \in 0..Disturbances /\ disturbances <= disturbances' /\ disturbances' \in Nat
  BY <1>1, Counted, CountsAssumption DEF Disturbed
<1>3. StreamTypeOK'
  BY <1>1, <1>2 DEF StreamTypeOK
<1>4. Used' = Used /\ Opened' = Opened
  BY DEF Used, Opened
<1>5. NumbersInv'
  BY <1>1, <1>2, <1>4, Counted DEF NumbersInv
<1>6. HooksInv' /\ SourceFollowsHook'
  BY <1>1 DEF HooksInv, SourceFollowsHook, Live
<1> QED
  BY <1>3, <1>5, <1>6 DEF StreamInv

LEMMA StreamStart == Init => StreamInv
<1> SUFFICES ASSUME Init PROVE StreamInv
  OBVIOUS
<1>1. StreamTypeOK
  BY StreamAssumption DEF Init, StreamTypeOK
<1>2. Used = {} /\ Opened = {} /\ retry = {} /\ disturbances = 0
  BY DEF Init, Used, Opened
<1>3. NumbersInv
  BY <1>2, CountsAssumption, FS_EmptySet DEF Init, NumbersInv
<1>4. HooksInv /\ SourceFollowsHook
  BY DEF Init, HooksInv, SourceFollowsHook, Live
<1> QED
  BY <1>1, <1>3, <1>4 DEF StreamInv

LEMMA StreamStep ==
  ASSUME StreamInv, [Next]_vars
  PROVE  StreamInv'
<1>1. CASE UNCHANGED vars
  BY <1>1, OthersKeepInv DEF vars, browser
<1>2. ASSUME NEW h \in Hooks, User(h)
      PROVE  StreamInv'
  BY <1>2, MountKeepsInv, UnmountKeepsInv, ChangeSymbolKeepsInv DEF User
<1>3. ASSUME NEW h \in Hooks, OnOpen(h) \/ OnError(h)
      PROVE  StreamInv'
  <2>1. page[h] = "mounted"
    BY <1>3 DEF OnOpen, OnError, StreamInv, HooksInv
  <2>2. CASE OnOpen(h)
    BY <2>1, <2>2, LinksKeepInv DEF OnOpen
  <2>3. CASE OnError(h)
    BY <2>1, <2>3, LinksKeepInv DEF OnError, Disturbed, RetryTimers
  <2> QED
    BY <1>3, <2>2, <2>3
<1>4. ASSUME NEW h \in Hooks, Retry(h)
      PROVE  StreamInv'
  BY <1>4, RetryKeepsInv
<1>5. ASSUME NEW k \in Connections, AddClient(k) \/ ForgetClient(k) \/ SnapshotStep(k)
      PROVE  StreamInv'
  BY <1>5, OthersKeepInv DEF AddClient, ForgetClient, SnapshotStep, browser
<1>6. ASSUME NEW s \in Symbols, CallbackStep(s)
      PROVE  StreamInv'
  BY <1>6, OthersKeepInv DEF CallbackStep
<1>7. CASE Interval \/ OtherRequest
  BY <1>7, OthersKeepInv DEF Interval, OtherRequest, browser
<1> QED
  BY <1>1, <1>2, <1>3, <1>4, <1>5, <1>6, <1>7 DEF Next

-----------------------------------------------------------------------------
(* Theorems                                                                *)

THEOREM StreamCorrect == Spec => []StreamInv
<1> QED
  BY StreamStart, StreamStep, PTL DEF Spec

(* Whatever breaks while a page is opened, left or changed: an open        *)
(* connection is that of an open page, for the symbol it shows, and a page *)
(* that waits to retry has none.                                           *)
THEOREM NoConnectionLeaks == Spec => []SourceFollowsHook
<1>1. StreamInv => SourceFollowsHook
  BY DEF StreamInv
<1> QED
  BY <1>1, StreamCorrect, PTL
=============================================================================

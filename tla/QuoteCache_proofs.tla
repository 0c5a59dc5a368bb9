--------------------------- MODULE QuoteCache_proofs ---------------------------
(***************************************************************************)
(* What the cache of quotes bounds, for any symbols, lists, callers,       *)
(* expiry and time-out.                                                    *)
(*                                                                         *)
(* The argument: a fetch lasts at most a time-out, so that a quote is      *)
(* cached at most a time-out after the vendor read it, and a call that has *)
(* k symbols behind it is at most k time-outs old; what a call has fetched *)
(* is cached no earlier than the fetch began, or still awaited.            *)
(*                                                                         *)
(* At the end: rounding to hundredths keeps the made-up books in order at  *)
(* any price; it merges neighbours only at low ones.                       *)
(***************************************************************************)
EXTENDS QuoteCache, DepthBook, TLAPS, FiniteSetTheorems

Injective(list) == \A i, j \in 1..Len(list) : list[i] = list[j] => i = j

(* Quotes are cached at most a time-out after the vendor read them.        *)
CacheInv ==
  \A s \in Symbols :
    /\ cachedAt[s] <= now
    /\ quote[s] \in Nat => /\ quote[s] <= cachedAt[s]
                           /\ cachedAt[s] - quote[s] <= TimeOut

(* The age that a result may have when n of the longest list's symbols are *)
(* left to reach.                                                          *)
Allowed(n) == TTL + (LongestList - n) * TimeOut

(* A call awaits one symbol, no longer than the time-out, and has reached  *)
(* neither that symbol nor those left before.                              *)
CallInv ==
  \A c \in Callers :
    /\ awaited[c] = Never => read[c] = Never
    /\ awaited[c] # Never =>
         /\ since[c] <= now /\ now - since[c] <= TimeOut
         /\ read[c] # Never => since[c] <= read[c] /\ read[c] <= now
         /\ Injective(left[c]) /\ Len(left[c]) < LongestList
         /\ \A i \in 1..Len(left[c]) : left[c][i] # awaited[c]
         /\ oldest[c] # Never =>
              oldest[c] <= since[c] /\ since[c] - oldest[c] < Allowed(Len(left[c]) + 1)

(* A symbol that a call fetched is awaited still, or was cached since.     *)
FetchInv ==
  \A c \in Callers, s \in Symbols :
    lastFetch[c][s] # Never =>
      /\ lastFetch[c][s] <= now
      /\ \/ awaited[c] = s
         \/ quote[s] # Never /\ lastFetch[c][s] <= cachedAt[s]

IInv == TypeOK /\ CacheInv /\ CallInv /\ FetchInv /\ ReturnedAgeBounded

-----------------------------------------------------------------------------
(* Operators                                                               *)

(* Sets of natural numbers have a least element.                           *)
LEMMA LeastExists ==
  ASSUME NEW T, T \subseteq Nat, T # {}
  PROVE  \E x \in T : \A y \in T : x <= y
<1>1. PICK x \in T : \A y \in T : <<y, x>> \notin OpToRel(<, Nat)
  BY NatLessThanWellFounded, WFMin
<1>2. \A y \in T : ~(y < x)
  BY <1>1 DEF OpToRel
<1> QED
  BY <1>2

(* The longest list bounds the others.                                     *)
LEMMA LongestListIs ==
  /\ LongestList \in Nat
  /\ \A list \in Lists : Len(list) <= LongestList
<1> DEFINE lengths == {Len(list) : list \in Lists}
<1>1. PICK longest \in Lists : \A list \in Lists : Len(list) <= Len(longest)
  BY CacheAssumption
<1>2. /\ Len(longest) \in lengths
      /\ \A list \in Lists : Len(list) <= Len(longest)
  BY <1>1
<1>3. LongestList \in lengths /\ \A list \in Lists : Len(list) <= LongestList
  BY <1>2 DEF LongestList
<1>4. lengths \subseteq Nat
  BY CacheAssumption
<1> QED
  BY <1>3, <1>4

(* The more symbols are reached, the older a result may be.                *)
LEMMA AllowedGrows ==
  /\ \A n \in 0..LongestList : Allowed(n) \in Nat
  /\ \A m, n \in 0..LongestList : m <= n => Allowed(n) <= Allowed(m)
  /\ \A n \in 0..LongestList : n < LongestList => TTL + TimeOut <= Allowed(n)
  /\ Allowed(LongestList) = TTL
<1>1. TTL \in Nat /\ TimeOut \in Nat /\ LongestList \in Nat
  BY CacheAssumption, LongestListIs
<1>2. \A a, b \in Nat : a <= b => a * TimeOut <= b * TimeOut /\ a * TimeOut \in Nat
  BY <1>1
<1>3. \A n \in 0..LongestList : LongestList - n \in Nat
  BY <1>1
<1>4. \A m, n \in 0..LongestList : m <= n => Allowed(n) <= Allowed(m)
  <2> SUFFICES ASSUME NEW m \in 0..LongestList, NEW n \in 0..LongestList, m <= n
               PROVE  Allowed(n) <= Allowed(m)
    OBVIOUS
  <2>1. (LongestList - n) * TimeOut <= (LongestList - m) * TimeOut
    BY <1>1, <1>2, <1>3
  <2>2. (LongestList - n) * TimeOut \in Nat /\ (LongestList - m) * TimeOut \in Nat
    BY <1>2, <1>3
  <2> QED
    BY <1>1, <2>1, <2>2 DEF Allowed
<1>5. \A n \in 0..LongestList : n < LongestList => TTL + TimeOut <= Allowed(n)
  <2> SUFFICES ASSUME NEW n \in 0..LongestList, n < LongestList
               PROVE  TTL + TimeOut <= Allowed(n)
    OBVIOUS
  <2>1. 1 * TimeOut <= (LongestList - n) * TimeOut /\ (LongestList - n) * TimeOut \in Nat
    BY <1>1, <1>2, <1>3
  <2> QED
    BY <1>1, <2>1 DEF Allowed
<1>6. \A n \in 0..LongestList : Allowed(n) \in Nat
  BY <1>1, <1>2, <1>3 DEF Allowed
<1>7. Allowed(LongestList) = TTL
  BY <1>1 DEF Allowed
<1> QED
  BY <1>4, <1>5, <1>6, <1>7

(* The loop fetches the first symbol that is not fresh, if it may.         *)
LEMMA FirstFetchedIs ==
  ASSUME NEW list \in Seq(Symbols), keyed \in BOOLEAN
  PROVE  /\ FirstFetched(list) \in 1..Len(list) + 1
         /\ FirstFetched(list) <= Len(list) => keyed /\ ~Fresh(list[FirstFetched(list)])
<1> DEFINE Stops == {i \in 1..Len(list) + 1 : i <= Len(list) => ~Fresh(list[i])}
           First(i) == /\ \A j \in 1..i - 1 : keyed => Fresh(list[j])
                       /\ i <= Len(list) => keyed /\ ~Fresh(list[i])
<1>1. \E i \in 1..Len(list) + 1 : First(i)
  <2>1. CASE keyed
    <3>1. Stops \subseteq Nat /\ Len(list) + 1 \in Stops
      OBVIOUS
    <3>2. PICK i \in Stops : \A j \in Stops : i <= j
      <4> HIDE DEF Stops
      <4> QED
        BY <3>1, LeastExists
    <3>3. \A j \in 1..i - 1 : Fresh(list[j])
      BY <3>2
    <3> QED
      BY <2>1, <3>2, <3>3
  <2>2. CASE ~keyed
    BY <2>2
  <2> QED
    BY <2>1, <2>2
<1>2. FirstFetched(list) = CHOOSE i \in 1..Len(list) + 1 : First(i)
  BY DEF FirstFetched
<1>3. FirstFetched(list) \in 1..Len(list) + 1 /\ First(FirstFetched(list))
  <2> HIDE DEF First
  <2> QED
    BY <1>1, <1>2
<1> QED
  BY <1>3

LEMMA OldestOfIs ==
  ASSUME NEW T, T \subseteq Nat
  PROVE  /\ OldestOf(T) \in T \cup {Never}
         /\ \A t \in T : OldestOf(T) <= t
<1>1. CASE T = {}
  BY <1>1 DEF OldestOf
<1>2. CASE T # {}
  BY <1>2, LeastExists DEF OldestOf
<1> QED
  BY <1>1, <1>2

(* A result is one of those before, or a fresh quote: not a time-out older *)
(* than the expiry.                                                        *)
LEMMA ServedIs ==
  ASSUME TypeOK, CacheInv, NEW list \in Seq(Symbols), NEW before,
         Served(list, before) # Never
  PROVE  /\ Served(list, before) \in Nat
         /\ \/ Served(list, before) \in before
            \/ /\ FirstFetched(list) > 1 /\ Len(list) >= 1
               /\ Served(list, before) <= now
               /\ now - Served(list, before) < TTL + TimeOut
<1> DEFINE hits == {j \in 1..FirstFetched(list) - 1 : Fresh(list[j])}
           seen == (before \cup {quote[list[j]] : j \in hits}) \cap Nat
<1>1. Served(list, before) = OldestOf(seen) /\ seen \subseteq Nat
  BY DEF Served
<1>2. Served(list, before) \in seen
  <2> HIDE DEF seen
  <2> QED
    BY <1>1, OldestOfIs
<1>3. ASSUME NEW j \in hits, Served(list, before) = quote[list[j]]
      PROVE  /\ FirstFetched(list) > 1 /\ Len(list) >= 1
             /\ Served(list, before) <= now
             /\ now - Served(list, before) < TTL + TimeOut
  <2>1. FirstFetched(list) \in 1..Len(list) + 1
    BY FirstFetchedIs DEF TypeOK
  <2>2. j \in 1..Len(list) /\ list[j] \in Symbols
    BY <2>1
  <2>3. quote[list[j]] \in Nat /\ cachedAt[list[j]] \in Nat /\ now \in Nat
    BY <1>2, <1>3, <2>2, CacheAssumption DEF TypeOK, Time
  <2>4. now - cachedAt[list[j]] < TTL
    BY DEF Fresh
  <2>5. /\ cachedAt[list[j]] <= now
        /\ quote[list[j]] <= cachedAt[list[j]] /\ cachedAt[list[j]] - quote[list[j]] <= TimeOut
    BY <2>2, <2>3 DEF CacheInv
  <2>6. TTL \in Nat /\ TimeOut \in Nat
    BY CacheAssumption
  <2>7. FirstFetched(list) > 1 /\ Len(list) >= 1
    BY <2>1, <2>2
  <2> QED
    BY <1>3, <2>3, <2>4, <2>5, <2>6, <2>7
<1> QED
  BY <1>2, <1>3

-----------------------------------------------------------------------------
(* A loop from a state in order                                            *)

LoopFrom(c, list, before) ==
  /\ list \in Seq(Symbols) /\ Injective(list) /\ Len(list) <= LongestList
  /\ \A t \in before \cap Nat : t <= now /\ now - t < Allowed(Len(list))
  /\ Loop(c, list, before)

LEMMA LoopKeepsTypes ==
  ASSUME TypeOK, CacheInv, NEW c \in Callers, NEW list, NEW before,
         LoopFrom(c, list, before)
  PROVE  /\ left' \in [Callers -> Seq(Symbols)]
         /\ awaited' \in [Callers -> Symbols \cup {Never}]
         /\ since' \in [Callers -> Time]
         /\ oldest' \in [Callers -> Nat \cup {Never}]
         /\ lastFetch' \in [Callers -> [Symbols -> Time \cup {Never}]]
         /\ worst' \in Nat
<1> DEFINE i == FirstFetched(list)
           seen == Served(list, before)
<1>1. list \in Seq(Symbols) /\ i \in 1..Len(list) + 1
  BY FirstFetchedIs DEF TypeOK, LoopFrom
<1>2. seen \in Nat \cup {Never}
  BY <1>1, ServedIs
<1>3. now \in Time /\ now \in Nat /\ 0 \in Time /\ MaxTime \in Nat
  BY CacheAssumption DEF TypeOK, Time
<1>4. CASE i <= Len(list)
  <2>1. SubSeq(list, i + 1, Len(list)) \in Seq(Symbols) /\ list[i] \in Symbols
    BY <1>1, <1>4
  <2>2. /\ left' = [left EXCEPT ![c] = SubSeq(list, i + 1, Len(list))]
        /\ awaited' = [awaited EXCEPT ![c] = list[i]]
        /\ since' = [since EXCEPT ![c] = now]
        /\ oldest' = [oldest EXCEPT ![c] = seen]
        /\ lastFetch' = [lastFetch EXCEPT ![c] = [@ EXCEPT ![list[i]] = now]]
        /\ worst' = worst
    BY <1>4 DEF LoopFrom, Loop
  <2> HIDE DEF i, seen
  <2> QED
    BY <1>2, <1>3, <2>1, <2>2 DEF TypeOK
<1>5. CASE ~(i <= Len(list))
  <2>1. /\ left' = [left EXCEPT ![c] = <<>>]
        /\ awaited' = [awaited EXCEPT ![c] = Never]
        /\ since' = [since EXCEPT ![c] = 0]
        /\ oldest' = [oldest EXCEPT ![c] = Never]
        /\ worst' = IF seen # Never /\ now - seen > worst THEN now - seen ELSE worst
        /\ lastFetch' = lastFetch
    BY <1>5 DEF LoopFrom, Loop
  <2>2. worst' \in Nat
    <3> HIDE DEF seen
    <3> QED
      BY <1>2, <1>3, <2>1 DEF TypeOK
  <2> HIDE DEF i, seen
  <2> QED
    BY <1>3, <2>1, <2>2 DEF TypeOK
<1> QED
  BY <1>4, <1>5

(* Its caller awaits the next symbol as CallInv demands, or returns        *)
(* nothing that is too old.                                                *)
LEMMA LoopKeepsCalls ==
  ASSUME TypeOK, CacheInv, CallInv, ReturnedAgeBounded,
         NEW c \in Callers, NEW list, NEW before,
         LoopFrom(c, list, before), read' = [read EXCEPT ![c] = Never], now' = now
  PROVE  CallInv' /\ ReturnedAgeBounded'
<1> DEFINE i == FirstFetched(list)
           seen == Served(list, before)
           rest == SubSeq(list, i + 1, Len(list))
<1>1. /\ list \in Seq(Symbols) /\ i \in 1..Len(list) + 1 /\ Len(list) \in Nat
      /\ Injective(list) /\ Len(list) <= LongestList
  BY FirstFetchedIs DEF TypeOK, LoopFrom
<1>2. now \in Nat /\ worst \in Nat /\ TTL \in Nat /\ TimeOut \in Nat /\ LongestList \in Nat
  BY CacheAssumption, LongestListIs DEF TypeOK, Time
<1>3. seen # Never =>
        /\ seen \in Nat /\ seen <= now
        /\ \/ now - seen < Allowed(Len(list))
           \/ i > 1 /\ Len(list) >= 1 /\ now - seen < TTL + TimeOut
  BY <1>1, ServedIs DEF LoopFrom
<1>4. /\ \A n \in 0..LongestList : Allowed(n) \in Nat
      /\ \A m, n \in 0..LongestList : m <= n => Allowed(n) <= Allowed(m)
      /\ \A n \in 0..LongestList : n < LongestList => TTL + TimeOut <= Allowed(n)
  BY AllowedGrows
<1>5. read' \in [Callers -> Time \cup {Never}] /\ read'[c] = Never
  BY DEF TypeOK
<1>6. CASE i <= Len(list)
  <2>1. /\ left' = [left EXCEPT ![c] = rest]
        /\ awaited' = [awaited EXCEPT ![c] = list[i]]
        /\ since' = [since EXCEPT ![c] = now]
        /\ oldest' = [oldest EXCEPT ![c] = seen]
        /\ worst' = worst
    BY <1>6 DEF LoopFrom, Loop
  <2>2. /\ rest \in Seq(Symbols) /\ Len(rest) = Len(list) - i
        /\ \A k \in 1..Len(rest) : rest[k] = list[k + i]
    BY <1>1, <1>6
  <2>3. Injective(rest) /\ \A k \in 1..Len(rest) : rest[k] # list[i]
    <3> HIDE DEF rest, i
    <3>1. i \in 1..Len(list) /\ \A k \in 1..Len(rest) : k + i \in 1..Len(list) /\ k + i # i
      BY <1>1, <1>6, <2>2
    <3>2. ASSUME NEW k \in 1..Len(rest)
          PROVE  rest[k] # list[i]
      BY <1>1, <2>2, <3>1 DEF Injective
    <3>3. ASSUME NEW k \in 1..Len(rest), NEW m \in 1..Len(rest), rest[k] = rest[m]
          PROVE  k = m
      <4>1. k + i = m + i
        BY <1>1, <2>2, <3>1, <3>3 DEF Injective
      <4> QED
        BY <3>1, <4>1, <2>2
    <3> QED
      BY <3>2, <3>3 DEF Injective
  <2>4. seen # Never => seen <= now /\ now - seen < Allowed(Len(rest) + 1)
    <3>1. Len(rest) + 1 \in 0..LongestList /\ Len(rest) + 1 <= Len(list)
          /\ Len(list) \in 0..LongestList
      BY <1>1, <1>2, <1>6, <2>2
    <3>2. Allowed(Len(list)) <= Allowed(Len(rest) + 1)
      BY <1>4, <3>1
    <3>3. i > 1 => TTL + TimeOut <= Allowed(Len(rest) + 1)
      BY <1>1, <1>2, <1>4, <2>2, <3>1
    <3>4. Allowed(Len(list)) \in Nat /\ Allowed(Len(rest) + 1) \in Nat
      BY <1>4, <3>1
    <3> HIDE DEF seen, rest, i
    <3> QED
      BY <1>2, <1>3, <3>2, <3>3, <3>4
  <2>5. Len(rest) < LongestList
    BY <1>1, <1>2, <1>6, <2>2
  <2>6. ASSUME NEW d \in Callers, d # c
        PROVE  /\ left'[d] = left[d] /\ awaited'[d] = awaited[d] /\ since'[d] = since[d]
               /\ oldest'[d] = oldest[d] /\ read'[d] = read[d]
    BY <2>1, <2>6 DEF TypeOK
  <2>7. /\ left'[c] = rest /\ awaited'[c] = list[i] /\ since'[c] = now /\ oldest'[c] = seen
        /\ list[i] # Never
    <3>1. list[i] \in Symbols
      BY <1>1, <1>6
    <3> HIDE DEF rest, i, seen
    <3> QED
      BY <2>1, <3>1, CacheAssumption DEF TypeOK
  <2>8. ReturnedAgeBounded'
    BY <2>1 DEF ReturnedAgeBounded, LongestList
  <2>9. CallInv'
    <3> HIDE DEF seen, rest, i
    <3> SUFFICES ASSUME NEW d \in Callers
                 PROVE  /\ awaited'[d] = Never => read'[d] = Never
                        /\ awaited'[d] # Never =>
                             /\ since'[d] <= now /\ now - since'[d] <= TimeOut
                             /\ read'[d] # Never => since'[d] <= read'[d] /\ read'[d] <= now
                             /\ Injective(left'[d]) /\ Len(left'[d]) < LongestList
                             /\ \A k \in 1..Len(left'[d]) : left'[d][k] # awaited'[d]
                             /\ oldest'[d] # Never =>
                                  /\ oldest'[d] <= since'[d]
                                  /\ since'[d] - oldest'[d] < Allowed(Len(left'[d]) + 1)
      BY DEF CallInv, Allowed, LongestList, Injective
    <3>1. CASE d = c
      BY <3>1, <1>2, <1>5, <2>3, <2>4, <2>5, <2>7
    <3>2. CASE d # c
      BY <3>2, <2>6 DEF CallInv
    <3> QED
      BY <3>1, <3>2
  <2> QED
    BY <2>8, <2>9
<1>7. CASE ~(i <= Len(list))
  <2>1. /\ left' = [left EXCEPT ![c] = <<>>]
        /\ awaited' = [awaited EXCEPT ![c] = Never]
        /\ since' = [since EXCEPT ![c] = 0]
        /\ oldest' = [oldest EXCEPT ![c] = Never]
        /\ worst' = IF seen # Never /\ now - seen > worst THEN now - seen ELSE worst
    BY <1>7 DEF LoopFrom, Loop
  <2>2. Allowed(0) = TTL + LongestList * TimeOut
    BY <1>2 DEF Allowed
  <2>3. seen # Never => now - seen < Allowed(0)
    <3>1. Allowed(Len(list)) <= Allowed(0)
      BY <1>1, <1>2, <1>4
    <3>2. Len(list) >= 1 => TTL + TimeOut <= Allowed(0)
      BY <1>1, <1>2, <1>4
    <3>3. Allowed(Len(list)) \in Nat /\ Allowed(0) \in Nat
      BY <1>1, <1>2, <1>4
    <3> HIDE DEF seen, i
    <3> QED
      BY <1>2, <1>3, <3>1, <3>2, <3>3
  <2>4. ReturnedAgeBounded'
    <3> HIDE DEF seen, i
    <3> QED
      BY <2>1, <2>2, <2>3 DEF ReturnedAgeBounded, LongestList
  <2>5. ASSUME NEW d \in Callers, d # c
        PROVE  /\ left'[d] = left[d] /\ awaited'[d] = awaited[d] /\ since'[d] = since[d]
               /\ oldest'[d] = oldest[d] /\ read'[d] = read[d]
    BY <2>1, <2>5 DEF TypeOK
  <2>6. awaited'[c] = Never
    BY <2>1 DEF TypeOK
  <2>7. CallInv'
    <3> HIDE DEF seen, i
    <3> SUFFICES ASSUME NEW d \in Callers
                 PROVE  /\ awaited'[d] = Never => read'[d] = Never
                        /\ awaited'[d] # Never =>
                             /\ since'[d] <= now /\ now - since'[d] <= TimeOut
                             /\ read'[d] # Never => since'[d] <= read'[d] /\ read'[d] <= now
                             /\ Injective(left'[d]) /\ Len(left'[d]) < LongestList
                             /\ \A k \in 1..Len(left'[d]) : left'[d][k] # awaited'[d]
                             /\ oldest'[d] # Never =>
                                  /\ oldest'[d] <= since'[d]
                                  /\ since'[d] - oldest'[d] < Allowed(Len(left'[d]) + 1)
      BY DEF CallInv, Allowed, LongestList, Injective
    <3>1. CASE d = c
      BY <3>1, <1>5, <2>6
    <3>2. CASE d # c
      BY <3>2, <2>5 DEF CallInv
    <3> QED
      BY <3>1, <3>2
  <2> QED
    BY <2>4, <2>7
<1> QED
  BY <1>6, <1>7

(* What is fetched anew is awaited; the rest was fetched before.           *)
LEMMA LoopFetches ==
  ASSUME TypeOK, CacheInv, NEW c \in Callers, NEW list, NEW before,
         LoopFrom(c, list, before)
  PROVE  \A d \in Callers, s \in Symbols :
           /\ d # c => awaited'[d] = awaited[d]
           /\ \/ lastFetch'[d][s] = lastFetch[d][s]
              \/ /\ d = c /\ lastFetch'[d][s] = now /\ awaited'[d] = s
                 /\ ~Fresh(s) /\ \E i \in 1..Len(list) : s = list[i]
<1> DEFINE i == FirstFetched(list)
<1>1. list \in Seq(Symbols) /\ i \in 1..Len(list) + 1 /\ (i <= Len(list) => ~Fresh(list[i]))
  BY FirstFetchedIs DEF TypeOK, LoopFrom
<1>2. CASE i <= Len(list)
  <2>1. /\ awaited' = [awaited EXCEPT ![c] = list[i]]
        /\ lastFetch' = [lastFetch EXCEPT ![c] = [@ EXCEPT ![list[i]] = now]]
    BY <1>2 DEF LoopFrom, Loop
  <2>2. i \in 1..Len(list) /\ list[i] \in Symbols /\ ~Fresh(list[i])
    BY <1>1, <1>2
  <2> HIDE DEF i
  <2> QED
    BY <2>1, <2>2 DEF TypeOK
<1>3. CASE ~(i <= Len(list))
  <2>1. awaited' = [awaited EXCEPT ![c] = Never] /\ lastFetch' = lastFetch
    BY <1>3 DEF LoopFrom, Loop
  <2> QED
    BY <2>1 DEF TypeOK
<1> QED
  BY <1>2, <1>3

(* Cache keeps the cache in order, and no symbol loses its quote.          *)
LEMMA CacheKeeps ==
  ASSUME TypeOK, CacheInv, now' = now,
         NEW s, NEW q, NEW list, Cache(s, q, list),
         q = MadeUp \/ (q \in Nat /\ q <= now /\ now - q <= TimeOut)
  PROVE  /\ quote' \in [Symbols -> Nat \cup {MadeUp, Never}]
         /\ cachedAt' \in [Symbols -> Time]
         /\ CacheInv'
         /\ \A t \in Symbols : /\ cachedAt[t] <= cachedAt'[t]
                               /\ quote[t] # Never => quote'[t] # Never
                               /\ t = s => quote'[t] = q /\ cachedAt'[t] = now
                               /\ quote'[t] \in Nat => quote'[t] \in {quote[t], q}
<1>1. now \in Nat /\ now \in Time /\ MadeUp \notin Nat /\ MadeUp # Never /\ Never \notin Nat
  BY CacheAssumption DEF TypeOK, Time
<1>2. /\ quote' = [t \in Symbols |-> IF t = s THEN q ELSE IF t \in Missing(list) THEN MadeUp ELSE quote[t]]
      /\ cachedAt' = [t \in Symbols |-> IF t = s \/ t \in Missing(list) THEN now ELSE cachedAt[t]]
  BY DEF Cache
<1>3. \A t \in Symbols : cachedAt[t] \in Time /\ cachedAt[t] \in Nat /\ quote[t] \in Nat \cup {MadeUp, Never}
  BY DEF TypeOK, Time
<1>4. TimeOut \in Nat
  BY CacheAssumption
<1>5. ASSUME NEW t \in Symbols
      PROVE  /\ quote'[t] \in Nat \cup {MadeUp, Never}
             /\ cachedAt'[t] \in Time
             /\ cachedAt'[t] <= now
             /\ quote'[t] \in Nat => quote'[t] <= cachedAt'[t] /\ cachedAt'[t] - quote'[t] <= TimeOut
             /\ cachedAt[t] <= cachedAt'[t]
             /\ quote[t] # Never => quote'[t] # Never
             /\ t = s => quote'[t] = q /\ cachedAt'[t] = now
             /\ quote'[t] \in Nat => quote'[t] \in {quote[t], q}
  <2>1. CASE t = s
    BY <2>1, <1>1, <1>2, <1>3, <1>4 DEF CacheInv
  <2>2. CASE t # s /\ t \in Missing(list)
    BY <2>2, <1>1, <1>2, <1>3, <1>4 DEF CacheInv
  <2>3. CASE t # s /\ t \notin Missing(list)
    BY <2>3, <1>1, <1>2, <1>3, <1>4 DEF CacheInv
  <2> QED
    BY <2>1, <2>2, <2>3
<1>6. CacheInv'
  BY <1>5 DEF CacheInv
<1>7. quote' \in [Symbols -> Nat \cup {MadeUp, Never}] /\ cachedAt' \in [Symbols -> Time]
  BY <1>2, <1>5
<1> QED
  BY <1>5, <1>6, <1>7


-----------------------------------------------------------------------------
(* The steps                                                               *)

(* What the steps of callers have in common: quote q of the symbol awaited *)
(* (none at the start of a call) is cached and the loop goes on.           *)
Goes(c, q, list, before) ==
  /\ LoopFrom(c, list, before)
  /\ \A i \in 1..Len(list) : list[i] # awaited[c]
  /\ Cache(awaited[c], q, list)
  /\ q = MadeUp \/ (q \in Nat /\ q <= now /\ now - q <= TimeOut)
  /\ read' = [read EXCEPT ![c] = Never]
  /\ UNCHANGED <<now, keyed>>

LEMMA GoesKeepsInv ==
  ASSUME IInv, NEW c \in Callers, NEW q, NEW list, NEW before, Goes(c, q, list, before)
  PROVE  IInv'
<1>1. /\ TypeOK /\ CacheInv /\ CallInv /\ FetchInv /\ ReturnedAgeBounded
      /\ LoopFrom(c, list, before) /\ Cache(awaited[c], q, list)
      /\ q = MadeUp \/ (q \in Nat /\ q <= now /\ now - q <= TimeOut)
      /\ read' = [read EXCEPT ![c] = Never]
      /\ now' = now /\ keyed' = keyed
  BY DEF IInv, Goes
<1>2. /\ quote' \in [Symbols -> Nat \cup {MadeUp, Never}]
      /\ cachedAt' \in [Symbols -> Time]
      /\ CacheInv'
      /\ \A t \in Symbols : /\ cachedAt[t] <= cachedAt'[t]
                            /\ quote[t] # Never => quote'[t] # Never
                            /\ t = awaited[c] => quote'[t] = q /\ cachedAt'[t] = now
  BY <1>1, CacheKeeps
<1>3. TypeOK'
  <2>1. read' \in [Callers -> Time \cup {Never}]
    BY <1>1 DEF TypeOK
  <2> QED
    BY <1>1, <1>2, <2>1, LoopKeepsTypes DEF TypeOK
<1>4. CallInv' /\ ReturnedAgeBounded'
  BY <1>1, LoopKeepsCalls
<1>5. FetchInv'
  <2> SUFFICES ASSUME NEW d \in Callers, NEW t \in Symbols, lastFetch'[d][t] # Never
               PROVE  /\ lastFetch'[d][t] <= now
                      /\ \/ awaited'[d] = t
                         \/ quote'[t] # Never /\ lastFetch'[d][t] <= cachedAt'[t]
    BY <1>1 DEF FetchInv
  <2>1. /\ d # c => awaited'[d] = awaited[d]
        /\ \/ lastFetch'[d][t] = lastFetch[d][t]
           \/ d = c /\ lastFetch'[d][t] = now /\ awaited'[d] = t
    BY <1>1, LoopFetches
  <2>2. now \in Nat /\ cachedAt[t] \in Nat /\ cachedAt'[t] \in Nat /\ Never \notin Nat
        /\ lastFetch[d][t] \in Nat \cup {Never}
    BY <1>1, <1>2, CacheAssumption DEF TypeOK, Time
  <2>3. CASE d = c /\ lastFetch'[d][t] = now /\ awaited'[d] = t
    BY <2>2, <2>3
  <2>4. CASE lastFetch'[d][t] = lastFetch[d][t]
    <3>1. /\ lastFetch[d][t] \in Nat /\ lastFetch[d][t] <= now
          /\ awaited[d] = t \/ (quote[t] # Never /\ lastFetch[d][t] <= cachedAt[t])
      BY <1>1, <2>2, <2>4 DEF FetchInv
    <3>2. CASE awaited[d] = t /\ d # c
      BY <2>1, <2>4, <3>1, <3>2
    <3>3. CASE awaited[d] = t /\ d = c
      BY <1>1, <1>2, <2>2, <2>4, <3>1, <3>3, CacheAssumption
    <3>4. CASE quote[t] # Never /\ lastFetch[d][t] <= cachedAt[t]
      BY <1>2, <2>2, <2>4, <3>1, <3>4
    <3> QED
      BY <3>1, <3>2, <3>3, <3>4
  <2> QED
    BY <2>1, <2>3, <2>4
<1> QED
  BY <1>2, <1>3, <1>4, <1>5 DEF IInv

(* Each step of a caller goes on so.                                       *)
LEMMA CallersGo ==
  ASSUME IInv, NEW c \in Callers, GetQuotes(c) \/ ReceiveQuote(c) \/ FetchFails(c)
  PROVE  \E q, list, before : Goes(c, q, list, before)
<1> USE DEF IInv
<1>1. /\ read \in [Callers -> Time \cup {Never}]
      /\ now \in Nat /\ LongestList \in Nat /\ Never \notin Nat /\ Never \notin Symbols
      /\ TTL \in Nat \ {0} /\ TimeOut \in Nat
  BY CacheAssumption, LongestListIs DEF TypeOK, Time
<1>2. CASE GetQuotes(c)
  <2>1. PICK list \in Lists : Loop(c, list, {}) /\ Cache(Never, MadeUp, list)
    BY <1>2 DEF GetQuotes
  <2>2. awaited[c] = Never /\ read[c] = Never /\ read' = read /\ now' = now /\ keyed' = keyed
    BY <1>2 DEF GetQuotes, CallInv
  <2>3. list \in Seq(Symbols) /\ Injective(list) /\ Len(list) <= LongestList
    BY CacheAssumption, LongestListIs DEF Injective
  <2>4. \A i \in 1..Len(list) : list[i] # awaited[c]
    BY <1>1, <2>2, <2>3
  <2>5. read' = [read EXCEPT ![c] = Never]
    BY <1>1, <2>2
  <2>6. LoopFrom(c, list, {})
    BY <2>1, <2>3 DEF LoopFrom
  <2>7. Goes(c, MadeUp, list, {})
    BY <2>1, <2>2, <2>4, <2>5, <2>6 DEF Goes
  <2> QED
    BY <2>7
<1>3. ASSUME awaited[c] # Never
      PROVE  /\ left[c] \in Seq(Symbols) /\ Injective(left[c]) /\ Len(left[c]) <= LongestList
             /\ \A i \in 1..Len(left[c]) : left[c][i] # awaited[c]
             /\ oldest[c] \in Nat => oldest[c] <= now /\ now - oldest[c] < Allowed(Len(left[c]))
             /\ read[c] \in Nat => /\ read[c] <= now /\ now - read[c] <= TimeOut
                                   /\ now - read[c] < Allowed(Len(left[c]))
  <2>1. /\ left[c] \in Seq(Symbols) /\ Len(left[c]) \in Nat /\ since[c] \in Nat
        /\ oldest[c] \in Nat \cup {Never} /\ read[c] \in Nat \cup {Never}
    BY <1>1 DEF TypeOK, Time
  <2>2. /\ since[c] <= now /\ now - since[c] <= TimeOut
        /\ read[c] # Never => since[c] <= read[c] /\ read[c] <= now
        /\ Injective(left[c]) /\ Len(left[c]) < LongestList
        /\ \A i \in 1..Len(left[c]) : left[c][i] # awaited[c]
        /\ oldest[c] # Never =>
             oldest[c] <= since[c] /\ since[c] - oldest[c] < Allowed(Len(left[c]) + 1)
    BY <1>3 DEF CallInv
  <2>3. TTL + TimeOut <= Allowed(Len(left[c])) /\ Allowed(Len(left[c])) \in Nat
    BY <1>1, <2>1, <2>2, AllowedGrows
  <2>4. /\ Allowed(Len(left[c])) = Allowed(Len(left[c]) + 1) + TimeOut
        /\ Allowed(Len(left[c]) + 1) \in Nat
    <3>1. Len(left[c]) + 1 \in 0..LongestList
      BY <1>1, <2>1, <2>2
    <3>2. \A a \in Nat : (a + 1) * TimeOut = a * TimeOut + TimeOut /\ a * TimeOut \in Nat
      BY <1>1
    <3>3. /\ LongestList - (Len(left[c]) + 1) \in Nat
          /\ LongestList - Len(left[c]) = (LongestList - (Len(left[c]) + 1)) + 1
      BY <1>1, <2>1, <2>2
    <3>4. /\ (LongestList - Len(left[c])) * TimeOut
               = (LongestList - (Len(left[c]) + 1)) * TimeOut + TimeOut
          /\ (LongestList - (Len(left[c]) + 1)) * TimeOut \in Nat
      BY <3>2, <3>3
    <3>5. Allowed(Len(left[c]) + 1) \in Nat
      BY <3>1, AllowedGrows
    <3>6. /\ Allowed(Len(left[c])) = TTL + (LongestList - Len(left[c])) * TimeOut
          /\ Allowed(Len(left[c]) + 1) = TTL + (LongestList - (Len(left[c]) + 1)) * TimeOut
      BY DEF Allowed
    <3> DEFINE waits == (LongestList - (Len(left[c]) + 1)) * TimeOut
    <3>7. /\ waits \in Nat /\ Allowed(Len(left[c]) + 1) = TTL + waits
          /\ Allowed(Len(left[c])) = TTL + (waits + TimeOut)
      BY <3>4, <3>6
    <3> HIDE DEF waits
    <3> QED
      BY <1>1, <3>5, <3>7
  <2>5. ASSUME oldest[c] \in Nat
        PROVE  oldest[c] <= now /\ now - oldest[c] < Allowed(Len(left[c]))
    <3>1. oldest[c] <= since[c] /\ since[c] - oldest[c] < Allowed(Len(left[c]) + 1)
      BY <1>1, <2>2, <2>5
    <3> QED
      BY <1>1, <2>1, <2>2, <2>4, <2>5, <3>1
  <2>6. ASSUME read[c] \in Nat
        PROVE  /\ read[c] <= now /\ now - read[c] <= TimeOut
               /\ now - read[c] < Allowed(Len(left[c]))
    <3>1. since[c] <= read[c] /\ read[c] <= now
      BY <1>1, <2>2, <2>6
    <3> QED
      BY <1>1, <2>1, <2>2, <2>3, <2>6, <3>1
  <2>7. Len(left[c]) <= LongestList
    BY <1>1, <2>1, <2>2
  <2> QED
    BY <2>1, <2>2, <2>5, <2>6, <2>7
<1>4. CASE ReceiveQuote(c)
  <2>1. /\ awaited[c] # Never /\ read[c] # Never
        /\ Cache(awaited[c], read[c], left[c])
        /\ Loop(c, left[c], {oldest[c], read[c]})
        /\ read' = [read EXCEPT ![c] = Never]
        /\ now' = now /\ keyed' = keyed
    BY <1>4 DEF ReceiveQuote
  <2>2. read[c] \in Nat
    BY <1>1, <2>1 DEF Time
  <2>3. \A t \in {oldest[c], read[c]} \cap Nat : t <= now /\ now - t < Allowed(Len(left[c]))
    BY <1>3, <2>1
  <2>4. LoopFrom(c, left[c], {oldest[c], read[c]})
    BY <1>3, <2>1, <2>3 DEF LoopFrom
  <2>5. Goes(c, read[c], left[c], {oldest[c], read[c]})
    BY <1>3, <2>1, <2>2, <2>4 DEF Goes
  <2> QED
    BY <2>5
<1>5. CASE FetchFails(c)
  <2>1. /\ awaited[c] # Never
        /\ Cache(awaited[c], MadeUp, left[c])
        /\ Loop(c, left[c], {oldest[c]})
        /\ read' = [read EXCEPT ![c] = Never]
        /\ now' = now /\ keyed' = keyed
    BY <1>5 DEF FetchFails, FallBack
  <2>2. \A t \in {oldest[c]} \cap Nat : t <= now /\ now - t < Allowed(Len(left[c]))
    BY <1>3, <2>1
  <2>3. LoopFrom(c, left[c], {oldest[c]})
    BY <1>3, <2>1, <2>2 DEF LoopFrom
  <2>4. Goes(c, MadeUp, left[c], {oldest[c]})
    BY <1>3, <2>1, <2>3 DEF Goes
  <2> QED
    BY <2>4
<1> QED
  BY <1>2, <1>4, <1>5

LEMMA InitInv == Init => IInv
<1> SUFFICES ASSUME Init PROVE IInv
  OBVIOUS
<1>1. /\ 0 \in Time /\ TTL \in Nat \ {0} /\ TimeOut \in Nat /\ LongestList \in Nat
      /\ Never \notin Nat
  BY CacheAssumption, LongestListIs DEF Time
<1>2. TypeOK
  BY <1>1 DEF Init, TypeOK
<1>3. CacheInv /\ CallInv /\ FetchInv
  BY <1>1 DEF Init, CacheInv, CallInv, FetchInv
<1>4. ReturnedAgeBounded
  <2>1. LongestList * TimeOut \in Nat
    BY <1>1
  <2> QED
    <3>1. worst = 0
      BY DEF Init
    <3>2. 0 < TTL + LongestList * TimeOut
      <4> DEFINE m == LongestList * TimeOut
      <4>1. m \in Nat
        BY <2>1
      <4> HIDE DEF m
      <4>2. 0 < TTL + m
        BY <1>1, <4>1
      <4> QED
        BY <4>2 DEF m
    <3> QED
      BY <3>1, <3>2 DEF ReturnedAgeBounded
<1> QED
  BY <1>2, <1>3, <1>4 DEF IInv

LEMMA StepInv ==
  ASSUME IInv, [Next]_vars
  PROVE  IInv'
<1>1. /\ now \in Nat /\ MaxTime \in Nat /\ TimeOut \in Nat /\ Never \notin Nat
      /\ \A c \in Callers : since[c] \in Nat
      /\ \A c \in Callers : read[c] \in Nat \cup {Never}
      /\ \A c \in Callers, s \in Symbols : lastFetch[c][s] \in Nat \cup {Never}
      /\ \A s \in Symbols : cachedAt[s] \in Nat
  BY CacheAssumption DEF IInv, TypeOK, Time
<1>2. CASE Tick
  <2>1. /\ now' = now + 1 /\ now < MaxTime
        /\ \A c \in Callers : awaited[c] # Never => now - since[c] < TimeOut
        /\ UNCHANGED <<keyed, quote, cachedAt, left, awaited, since, read, oldest, lastFetch, worst>>
    BY <1>2 DEF Tick, callVars
  <2>2. TypeOK'
    BY <1>1, <2>1 DEF IInv, TypeOK, Time
  <2>3. CacheInv'
    BY <1>1, <2>1 DEF IInv, CacheInv
  <2>4. CallInv'
    <3>1. CallInv
      BY DEF IInv
    <3>2. ASSUME NEW c \in Callers, awaited[c] # Never
          PROVE  /\ since[c] <= now' /\ now' - since[c] <= TimeOut
                 /\ read[c] # Never => since[c] <= read[c] /\ read[c] <= now'
      BY <1>1, <2>1, <3>1, <3>2 DEF CallInv
    <3> SUFFICES ASSUME NEW c \in Callers
                 PROVE  /\ awaited[c] = Never => read[c] = Never
                        /\ awaited[c] # Never =>
                             /\ since[c] <= now' /\ now' - since[c] <= TimeOut
                             /\ read[c] # Never => since[c] <= read[c] /\ read[c] <= now'
                             /\ Injective(left[c]) /\ Len(left[c]) < LongestList
                             /\ \A i \in 1..Len(left[c]) : left[c][i] # awaited[c]
                             /\ oldest[c] # Never =>
                                  /\ oldest[c] <= since[c]
                                  /\ since[c] - oldest[c] < Allowed(Len(left[c]) + 1)
      BY <2>1 DEF CallInv, Allowed, LongestList, Injective
    <3> QED
      BY <3>1, <3>2 DEF CallInv
  <2>5. FetchInv'
    BY <1>1, <2>1 DEF IInv, FetchInv
  <2>6. ReturnedAgeBounded'
    BY <2>1 DEF IInv, ReturnedAgeBounded, LongestList
  <2> QED
    BY <2>2, <2>3, <2>4, <2>5, <2>6 DEF IInv
<1>3. CASE Reconfigure \/ UNCHANGED vars
  <2>1. /\ UNCHANGED <<now, quote, cachedAt, left, awaited, since, read, oldest, lastFetch, worst>>
        /\ keyed' \in BOOLEAN
    BY <1>3 DEF IInv, Reconfigure, callVars, vars, TypeOK
  <2> QED
    BY <2>1 DEF IInv, TypeOK, CacheInv, CallInv, FetchInv, ReturnedAgeBounded, Allowed, LongestList, Injective
<1>4. ASSUME NEW c \in Callers, VendorReads(c)
      PROVE  IInv'
  <2>1. /\ awaited[c] # Never /\ read' = [read EXCEPT ![c] = now]
        /\ UNCHANGED <<now, keyed, quote, cachedAt, left, awaited, since, oldest, lastFetch, worst>>
    BY <1>4 DEF VendorReads
  <2>2. TypeOK' /\ CacheInv' /\ FetchInv' /\ ReturnedAgeBounded'
    BY <2>1 DEF IInv, TypeOK, CacheInv, FetchInv, ReturnedAgeBounded, LongestList
  <2>3. CallInv'
    <3> SUFFICES ASSUME NEW d \in Callers
                 PROVE  /\ awaited[d] = Never => read'[d] = Never
                        /\ awaited[d] # Never /\ read'[d] # Never =>
                             since[d] <= read'[d] /\ read'[d] <= now
      BY <2>1 DEF IInv, CallInv, Allowed, LongestList, Injective
    <3>1. d # c => read'[d] = read[d]
      BY <2>1 DEF IInv, TypeOK
    <3>2. read'[c] = now
      BY <2>1 DEF IInv, TypeOK
    <3> QED
      BY <1>1, <2>1, <3>1, <3>2 DEF IInv, CallInv
  <2> QED
    BY <2>2, <2>3 DEF IInv
<1>5. ASSUME NEW c \in Callers, GetQuotes(c) \/ ReceiveQuote(c) \/ FetchFails(c)
      PROVE  IInv'
  <2>1. PICK q, list, before : Goes(c, q, list, before)
    BY <1>5, CallersGo
  <2> QED
    BY <2>1, GoesKeepsInv
<1> QED
  BY <1>2, <1>3, <1>4, <1>5 DEF Next

-----------------------------------------------------------------------------
(* Theorems                                                                *)

THEOREM Invariance == Spec => []IInv
<1> QED
  BY InitInv, StepInv, PTL DEF Spec

THEOREM QuoteCacheTypes == Spec => []TypeOK
<1>1. IInv => TypeOK
  BY DEF IInv
<1> QED
  BY <1>1, Invariance, PTL

(* However calls overlap, are answered late or fail, a quote that is       *)
(* returned is younger than the expiry and a time-out for each symbol of   *)
(* the longest list.                                                       *)
THEOREM AgeBounded == Spec => []ReturnedAgeBounded
<1>1. IInv => ReturnedAgeBounded
  BY DEF IInv
<1> QED
  BY <1>1, Invariance, PTL

(* A quote is never replaced by one more than a time-out older.            *)
THEOREM QuotesHardlyRegress == Spec => QuotesRegressAtMostTimeOut
<1>1. ASSUME IInv, [Next]_vars
      PROVE  [\A s \in Symbols :
                quote[s] \in Nat /\ quote'[s] \in Nat => quote'[s] >= quote[s] - TimeOut]_vars
  <2> SUFFICES ASSUME NEW s \in Symbols, quote[s] \in Nat, quote'[s] \in Nat
               PROVE  quote'[s] >= quote[s] - TimeOut
    OBVIOUS
  <2>1. TimeOut \in Nat /\ now \in Nat /\ MadeUp \notin Nat /\ cachedAt[s] \in Nat
    BY <1>1, CacheAssumption DEF IInv, TypeOK, Time
  <2>2. CASE quote' = quote
    BY <2>1, <2>2
  <2>3. ASSUME NEW c \in Callers, GetQuotes(c) \/ ReceiveQuote(c) \/ FetchFails(c)
        PROVE  quote'[s] >= quote[s] - TimeOut
    <3>1. PICK q, list, before : Goes(c, q, list, before)
      BY <1>1, <2>3, CallersGo
    <3>2. /\ quote'[s] \in {quote[s], q}
          /\ q = MadeUp \/ (q \in Nat /\ q <= now /\ now - q <= TimeOut)
      BY <1>1, <3>1, CacheKeeps DEF IInv, Goes
    <3>3. quote[s] <= now
      BY <1>1, <2>1 DEF IInv, CacheInv
    <3> QED
      BY <2>1, <3>2, <3>3
  <2>4. \/ quote' = quote
        \/ \E c \in Callers : GetQuotes(c) \/ ReceiveQuote(c) \/ FetchFails(c)
    BY <1>1 DEF Next, Tick, Reconfigure, VendorReads, vars
  <2> QED
    BY <2>2, <2>3, <2>4
<1> QED
  BY <1>1, Invariance, PTL DEF Spec, QuotesRegressAtMostTimeOut

(* A caller fetches a symbol at most once in a period of expiry, whatever  *)
(* fails and whoever fetches it besides.                                   *)
THEOREM FetchesSpaced == Spec => OneFetchPerPeriod
<1>1. ASSUME IInv, [Next]_vars
      PROVE  [\A c \in Callers, s \in Symbols :
                lastFetch[c][s] # Never /\ lastFetch'[c][s] # lastFetch[c][s]
                  => lastFetch'[c][s] - lastFetch[c][s] >= TTL]_vars
  <2> SUFFICES ASSUME NEW d \in Callers, NEW s \in Symbols,
                      lastFetch[d][s] # Never, lastFetch'[d][s] # lastFetch[d][s]
               PROVE  lastFetch'[d][s] - lastFetch[d][s] >= TTL
    OBVIOUS
  <2>1. PICK c \in Callers : GetQuotes(c) \/ ReceiveQuote(c) \/ FetchFails(c)
    BY <1>1 DEF Next, Tick, Reconfigure, VendorReads, vars, callVars
  <2>2. PICK q, list, before : Goes(c, q, list, before)
    BY <1>1, <2>1, CallersGo
  <2>3. /\ lastFetch'[d][s] = now /\ ~Fresh(s) /\ s # awaited[d]
    BY <1>1, <2>2, LoopFetches DEF IInv, Goes
  <2>4. quote[s] # Never /\ lastFetch[d][s] <= cachedAt[s]
    BY <1>1, <2>3 DEF IInv, FetchInv
  <2>5. TTL \in Nat /\ now \in Nat /\ cachedAt[s] \in Nat /\ lastFetch[d][s] \in Nat
    BY <1>1, CacheAssumption DEF IInv, TypeOK, Time
  <2>6. now - cachedAt[s] >= TTL
    BY <2>3, <2>4, <2>5 DEF Fresh
  <2> QED
    BY <2>3, <2>4, <2>5, <2>6
<1> QED
  BY <1>1, Invariance, PTL DEF Spec, OneFetchPerPeriod

-----------------------------------------------------------------------------
(* Books and quotes around a price (DepthBook)                             *)

\* A nearest number is at most half away.
LEMMA NearestIsNear ==
  ASSUME NEW n \in Int, NEW d \in Nat \ {0}, NEW r \in Nearest(n, d)
  PROVE  r \in Int /\ 2 * (r * d - n) <= d /\ 2 * (n - r * d) <= d
BY DEF Nearest

\* A fraction between two whole numbers is rounded to one between them.
LEMMA NearestBetween ==
  ASSUME NEW n \in Int, NEW d \in Nat \ {0}, NEW r \in Nearest(n, d),
         NEW low \in Int, NEW high \in Int, low * d <= n, n <= high * d
  PROVE  low <= r /\ r <= high
<1>1. r \in Int /\ 2 * (r * d - n) <= d /\ 2 * (n - r * d) <= d
  BY NearestIsNear
<1>2. r <= high
  <2>1. SUFFICES ASSUME r >= high + 1 PROVE FALSE
    BY <1>1
  <2>2. (r - high - 1) * d >= 0
    BY <1>1, <2>1
  <2>3. r * d >= high * d + d
    BY <1>1, <2>2
  <2> QED
    BY <1>1, <2>3
<1>3. low <= r
  <2>1. SUFFICES ASSUME r <= low - 1 PROVE FALSE
    BY <1>1
  <2>2. (low - 1 - r) * d >= 0
    BY <1>1, <2>1
  <2>3. r * d <= low * d - d
    BY <1>1, <2>2
  <2> QED
    BY <1>1, <2>3
<1> QED
  BY <1>2, <1>3

\* The best level of a side has the price it is built from.
LEMMA FirstLevel ==
  ASSUME NEW levels, NEW best \in Int, NEW step \in Int, NEW side,
         IsLadder(levels, best, step, side)
  PROVE  levels[1].price = best
<1>1. levels[1].price \in Nearest(10000 * best + 0 * step, 10000)
  BY DEF IsLadder, Depth
<1>2. levels[1].price \in Nearest(10000 * best, 10000)
  BY <1>1
<1> QED
  BY <1>2 DEF Nearest

\* Neighbouring levels: rounding keeps the order of their prices, and keeps them
\* apart when they are more than a hundredth apart.
LEMMA Neighbours ==
  ASSUME NEW levels, NEW best \in Int, NEW step \in Int, NEW side,
         IsLadder(levels, best, step, side), NEW i \in 1..(Depth - 1)
  PROVE  /\ levels[i].price \in Int /\ levels[i + 1].price \in Int
         /\ step > 0 => levels[i].price <= levels[i + 1].price
         /\ step < 0 => levels[i + 1].price <= levels[i].price
         /\ step > 10000 => levels[i].price < levels[i + 1].price
         /\ step < -10000 => levels[i + 1].price < levels[i].price
<1> DEFINE n == 10000 * best + (i - 1) * step
           m == 10000 * best + i * step
<1>1. i \in Int /\ i \in 1..Depth /\ i + 1 \in 1..Depth
  BY DEF Depth
<1>2. n \in Int /\ m \in Int /\ m = n + step
  BY <1>1
<1>3. levels[i].price \in Nearest(n, 10000) /\ levels[i + 1].price \in Nearest(m, 10000)
  BY <1>1 DEF IsLadder
<1> HIDE DEF n, m
<1>4. /\ levels[i].price \in Int
      /\ 2 * (levels[i].price * 10000 - n) <= 10000
      /\ 2 * (n - levels[i].price * 10000) <= 10000
  BY <1>2, <1>3, NearestIsNear
<1>5. /\ levels[i + 1].price \in Int
      /\ 2 * (levels[i + 1].price * 10000 - m) <= 10000
      /\ 2 * (m - levels[i + 1].price * 10000) <= 10000
  BY <1>2, <1>3, NearestIsNear
<1> QED
  BY <1>2, <1>4, <1>5

\* The quantities of a best level are positive.
LEMMA QuantityPositive ==
  ASSUME NEW provider \in {Simulated, External}
  PROVE  /\ Quantities(provider.bids, 1) \subseteq Nat \ {0}
         /\ Quantities(provider.asks, 1) \subseteq Nat \ {0}
BY DEF Quantities, Simulated, External, Depth

\* The facts about a book that both theorems use.
LEMMA BookPrices ==
  ASSUME NEW base \in Nat \ {0}, NEW provider \in {Simulated, External}, NEW book,
         IsBook(book, base, provider)
  PROVE  \E bid, ask \in Int :
           /\ bid <= base /\ base <= ask
           /\ base > 3750 => bid < ask
           /\ IsLadder(book.bids, bid, -3 * base, provider.bids)
           /\ IsLadder(book.asks, ask, 3 * base, provider.asks)
           /\ book.midPrice \in bid..ask
           /\ book.microprice \in bid..ask
<1>1. PICK bid \in Nearest(2 * base - book.spread, 2),
           ask \in Nearest(2 * base + book.spread, 2) :
        /\ book.spread \in Nearest(4 * base, 10000)
        /\ IsLadder(book.bids, bid, -3 * base, provider.bids)
        /\ IsLadder(book.asks, ask, 3 * base, provider.asks)
        /\ book.midPrice \in Nearest(bid + ask, 2)
        /\ book.microprice \in
             Nearest(bid * book.asks[1].quantity + ask * book.bids[1].quantity,
                     book.bids[1].quantity + book.asks[1].quantity)
  BY DEF IsBook
<1> DEFINE spread == book.spread
<1>2. /\ spread \in Int
      /\ 2 * (spread * 10000 - 4 * base) <= 10000
      /\ 2 * (4 * base - spread * 10000) <= 10000
  <2>1. 4 * base \in Int /\ 10000 \in Nat \ {0}
    OBVIOUS
  <2> QED
    BY <1>1, <2>1, NearestIsNear
<1>3. spread >= 0 /\ (base > 3750 => spread >= 2)
  BY <1>2
<1> HIDE DEF spread
<1>4. /\ bid \in Int /\ 2 * (bid * 2 - (2 * base - spread)) <= 2
      /\ 2 * ((2 * base - spread) - bid * 2) <= 2
  <2>1. 2 * base - spread \in Int /\ 2 \in Nat \ {0}
    BY <1>2
  <2> QED
    BY <1>1, <2>1, NearestIsNear DEF spread
<1>5. /\ ask \in Int /\ 2 * (ask * 2 - (2 * base + spread)) <= 2
      /\ 2 * ((2 * base + spread) - ask * 2) <= 2
  <2>1. 2 * base + spread \in Int /\ 2 \in Nat \ {0}
    BY <1>2
  <2> QED
    BY <1>1, <2>1, NearestIsNear DEF spread
<1>6. bid <= base /\ base <= ask
  BY <1>2, <1>3, <1>4, <1>5
<1>7. base > 3750 => bid < ask
  BY <1>2, <1>3, <1>4, <1>5
<1>8. book.midPrice \in bid..ask
  <2>1. 2 \in Nat \ {0} /\ bid + ask \in Int
    BY <1>4, <1>5
  <2>2. book.midPrice \in Nearest(bid + ask, 2)
    BY <1>1
  <2>3. /\ book.midPrice \in Int /\ 2 * (book.midPrice * 2 - (bid + ask)) <= 2
        /\ 2 * ((bid + ask) - book.midPrice * 2) <= 2
    BY <2>1, <2>2, NearestIsNear
  <2> QED
    BY <1>4, <1>5, <1>6, <2>3
<1>9. book.microprice \in bid..ask
  <2> DEFINE p == book.bids[1].quantity
             q == book.asks[1].quantity
             n == bid * q + ask * p
  <2>1. p \in Nat \ {0} /\ q \in Nat \ {0}
    BY <1>1, QuantityPositive DEF IsLadder, Depth
  <2> HIDE DEF p, q
  <2>2. n \in Int /\ p + q \in Nat \ {0}
    BY <1>4, <1>5, <2>1
  <2>3. (ask - bid) * p >= 0 /\ (ask - bid) * q >= 0
    BY <1>4, <1>5, <1>6, <2>1
  <2>4. bid * (p + q) <= n /\ n <= ask * (p + q)
    BY <1>4, <1>5, <2>1, <2>3
  <2>5. book.microprice \in Nearest(n, p + q)
    BY <1>1 DEF p, q
  <2> HIDE DEF n
  <2>6. bid <= book.microprice /\ book.microprice <= ask
    BY <1>4, <1>5, <2>2, <2>4, <2>5, NearestBetween
  <2>7. book.microprice \in Int
    BY <2>2, <2>5, NearestIsNear
  <2> QED
    BY <1>4, <1>5, <2>6, <2>7
<1> QED
  BY <1>1, <1>4, <1>5, <1>6, <1>7, <1>8, <1>9

\* A book made up around any price is in order (getOrderBook of both providers).
THEOREM BookInOrder ==
  ASSUME NEW base \in Nat \ {0}, NEW provider \in {Simulated, External}, NEW book,
         IsBook(book, base, provider)
  PROVE  BookOrdered(book)
<1>1. PICK bid, ask \in Int :
        /\ bid <= base /\ base <= ask
        /\ IsLadder(book.bids, bid, -3 * base, provider.bids)
        /\ IsLadder(book.asks, ask, 3 * base, provider.asks)
        /\ book.midPrice \in bid..ask
        /\ book.microprice \in bid..ask
  BY BookPrices
<1>2. -3 * base \in Int /\ -3 * base < 0 /\ 3 * base \in Int /\ 3 * base > 0
  OBVIOUS
<1>3. book.bids[1].price = bid /\ book.asks[1].price = ask
  BY <1>1, <1>2, FirstLevel
<1>4. ASSUME NEW i \in 1..(Depth - 1)
      PROVE  /\ book.bids[i + 1].price <= book.bids[i].price
             /\ book.asks[i].price <= book.asks[i + 1].price
  BY <1>1, <1>2, Neighbours
<1> QED
  BY <1>1, <1>3, <1>4 DEF BookOrdered

\* Above 37.50 a spread is left and no price occurs twice.
THEOREM LevelsDistinct ==
  ASSUME NEW base \in Nat, base > 3750, NEW provider \in {Simulated, External}, NEW book,
         IsBook(book, base, provider)
  PROVE  BookDistinct(book)
<1>1. PICK bid, ask \in Int :
        /\ bid < ask
        /\ IsLadder(book.bids, bid, -3 * base, provider.bids)
        /\ IsLadder(book.asks, ask, 3 * base, provider.asks)
  BY BookPrices
<1>2. /\ -3 * base \in Int /\ -3 * base < 0 - 10000
      /\ 3 * base \in Int /\ 3 * base > 10000
  OBVIOUS
<1>3. book.bids[1].price = bid /\ book.asks[1].price = ask
  BY <1>1, <1>2, FirstLevel
<1>4. ASSUME NEW i \in 1..(Depth - 1)
      PROVE  /\ book.bids[i + 1].price < book.bids[i].price
             /\ book.asks[i].price < book.asks[i + 1].price
  BY <1>1, <1>2, Neighbours
<1> QED
  BY <1>1, <1>3, <1>4 DEF BookDistinct

\* The price of a simulated quote is between the low and the high it comes with.
THEOREM QuoteInRange ==
  ASSUME NEW base \in Nat \ {0}, NEW sent, IsQuote(sent, base)
  PROVE  sent.low24h <= sent.price /\ sent.price <= sent.high24h
<1>1. PICK random \in 0..999 :
        sent.price \in Nearest(base * (Million + random - 490), Million)
  <2>1. IsMoved(sent.price, base)
    BY SMT DEF IsQuote
  <2> QED
    BY <2>1, Zenon DEF IsMoved
<1> DEFINE n == base * (Million + random - 490)
<1>2. n \in Int /\ base * 999510 <= n /\ n <= base * 1000509
  <2>1. base * random >= 0 /\ base * (999 - random) >= 0
    BY SMT
  <2> QED
    BY <2>1, SMT DEF Million
<1>3. sent.price \in Nearest(n, Million)
  BY <1>1
<1> HIDE DEF n
<1>4. /\ sent.price \in Int /\ 2 * (sent.price * Million - n) <= Million
      /\ 2 * (n - sent.price * Million) <= Million
  <2>1. Million \in Nat \ {0}
    BY SMT DEF Million
  <2>2. n \in Int
    BY <1>2, SMT
  <2> QED
    BY <1>3, <2>1, <2>2, NearestIsNear, Zenon
<1>5. /\ sent.high24h \in Int /\ 2 * (base * 1018 - sent.high24h * 1000) <= 1000
      /\ sent.low24h \in Int /\ 2 * (sent.low24h * 1000 - base * 985) <= 1000
  <2>1. base * 1018 \in Int /\ base * 985 \in Int /\ 1000 \in Nat \ {0}
    BY SMT
  <2>2. sent.high24h \in Nearest(base * 1018, 1000) /\ sent.low24h \in Nearest(base * 985, 1000)
    BY SMT DEF IsQuote
  <2> QED
    BY <2>1, <2>2, NearestIsNear, SMT
<1> QED
  BY <1>2, <1>4, <1>5, SMT DEF Million
=============================================================================

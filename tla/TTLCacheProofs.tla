--------------------------- MODULE TTLCacheProofs ---------------------------
(***************************************************************************)
(* Proofs about TTLCache, for every number of goroutines and keys, every   *)
(* capacity and every bound on the clock: first the invariant of the map,  *)
(* the list and the flights, then what the cache hands out and keeps: that *)
(* nothing is fetched that it could answer, that answers never go back in  *)
(* time, and that eviction is by last use.                                 *)
(***************************************************************************)
EXTENDS TTLCache, LRUProofs

\* The goroutine runs a flight: from the registration in singleflight.Do to
\* the end of doCall.
Leads(p) == call[p].pc \in {"recheck", "fetch", "store", "finish"}

\* The records of calls make sense: a busy goroutine has a key and a ttl, a
\* goroutine about to store carries an answer.
CallsOK ==
  \A p \in Procs :
    /\ ~At(p, "idle") => call[p].key \in Keys
    /\ At(p, "store") => call[p].res \in Answers

\* The singleflight map points at the leaders, and at nobody else: the
\* strengthening that makes OneFetchPerKey and NoOrphanWaiter inductive.
FlightsOK ==
  /\ \A p \in Procs : Leads(p) => flight[call[p].key] = p
  /\ \A k \in Keys : flight[k] # NoProc => Leads(flight[k]) /\ call[flight[k]].key = k
  /\ \A p \in Procs : At(p, "wait") => flight[call[p].key] # NoProc

\* The history keeps to keys that were used, once each.
HistoryOK == Distinct(used)

SafeInv == TypeOK /\ ListMatchesMap /\ CallsOK /\ FlightsOK /\ HistoryOK

-----------------------------------------------------------------------------
\* The capacity is positive, whatever New was given.
LEMMA CapPositive == Cap \in Nat \ {0}
BY TTLCacheAssumption DEF Cap

\* A promoted history stays a sequence of distinct keys.
LEMMA UseProperties ==
  ASSUME NEW history \in Seq(Keys), Distinct(history), NEW k \in Keys
  PROVE  Use(history, k) \in Seq(Keys) /\ Distinct(Use(history, k))
<1>1. CASE k \in KeysOf(history)
  BY <1>1, MoveToFrontProperties DEF Use
<1>2. CASE k \notin KeysOf(history)
  <2>1. <<k>> \o history \in Seq(Keys) OBVIOUS
  <2>2. ASSUME NEW a \in 1..Len(history) + 1, NEW b \in 1..Len(history) + 1,
               (<<k>> \o history)[a] = (<<k>> \o history)[b]
        PROVE  a = b
    <3>1. \A c \in 2..Len(history) + 1 :
            /\ (<<k>> \o history)[c] = history[c - 1]
            /\ c - 1 \in 1..Len(history)
            /\ history[c - 1] # k
      BY <1>2 DEF KeysOf
    <3>2. (<<k>> \o history)[1] = k OBVIOUS
    <3>3. CASE a = 1 \/ b = 1 BY <3>1, <3>2, <3>3, <2>2
    <3>4. CASE a # 1 /\ b # 1
      <4>1. a \in 2..Len(history) + 1 /\ b \in 2..Len(history) + 1 BY <3>4
      <4>2. history[a - 1] = history[b - 1] BY <4>1, <3>1, <2>2
      <4>3. a - 1 = b - 1 BY <4>1, <4>2, <3>1 DEF Distinct
      <4> QED BY <4>3
    <3> QED BY <3>3, <3>4
  <2>3. Len(<<k>> \o history) = Len(history) + 1 OBVIOUS
  <2>4. Distinct(<<k>> \o history)
    BY <2>2, <2>3 DEF Distinct
  <2> QED BY <1>2, <2>1, <2>4 DEF Use
<1> QED BY <1>1, <1>2

\* What the store part of the state satisfies.
StoreOK ==
  /\ DOMAIN items \subseteq Keys /\ items \in [DOMAIN items -> Entries]
  /\ lru \in Seq(Keys) /\ used \in Seq(Keys) /\ Distinct(used)
  /\ ListMatchesMap

\* A hit keeps the store in order.
LEMMA TouchStore ==
  ASSUME StoreOK, NEW k \in DOMAIN items, Touch(k)
  PROVE  StoreOK'
<1>1. k \in KeysOf(lru) /\ k \in Keys BY DEF StoreOK, ListMatchesMap
<1>2. /\ lru' \in Seq(Keys) /\ Len(lru') = Len(lru)
      /\ KeysOf(lru') = KeysOf(lru) /\ Distinct(lru')
  BY <1>1, MoveToFrontProperties DEF StoreOK, ListMatchesMap, Touch
<1>3. used' \in Seq(Keys) /\ Distinct(used')
  BY <1>1, UseProperties DEF StoreOK, Touch
<1>4. items' = items BY DEF Touch
<1>5. ListMatchesMap' BY <1>2, <1>4 DEF StoreOK, ListMatchesMap, Cap
<1> QED BY <1>2, <1>3, <1>4, <1>5 DEF StoreOK

\* So does a Set, whether it replaces, inserts or evicts.
LEMMA PutStore ==
  ASSUME StoreOK, NEW k \in Keys, NEW e \in Entries, Put(k, e)
  PROVE  StoreOK'
<1>1. used' \in Seq(Keys) /\ Distinct(used')
  BY UseProperties DEF StoreOK, Put
<1>2. CASE k \in DOMAIN items
  <2>1. /\ items' = [items EXCEPT ![k] = e]
        /\ lru' = MoveToFront(lru, k)
    BY <1>2 DEF Put
  <2>2. k \in KeysOf(lru) BY <1>2 DEF StoreOK, ListMatchesMap
  <2>3. /\ lru' \in Seq(Keys) /\ Len(lru') = Len(lru)
        /\ KeysOf(lru') = KeysOf(lru) /\ Distinct(lru')
    BY <2>1, <2>2, MoveToFrontProperties DEF StoreOK, ListMatchesMap
  <2>4. DOMAIN items' = DOMAIN items /\ items' \in [DOMAIN items' -> Entries]
    BY <2>1 DEF StoreOK
  <2>5. ListMatchesMap' BY <2>3, <2>4 DEF StoreOK, ListMatchesMap, Cap
  <2> QED BY <1>1, <2>3, <2>4, <2>5 DEF StoreOK
<1>3. CASE k \notin DOMAIN items
  <2> DEFINE D == (DOMAIN items \cup {k}) \ Evicted(lru, k, Cap)
  <2>1. /\ lru' = PushFront(lru, k, Cap)
        /\ items' = [x \in D |-> IF x = k THEN e ELSE items[x]]
    BY <1>3 DEF Put
  <2>2. k \notin KeysOf(lru) /\ KeysOf(lru) = DOMAIN items
    BY <1>3 DEF StoreOK, ListMatchesMap
  <2>3. /\ lru' \in Seq(Keys) /\ Len(lru') <= Cap /\ Distinct(lru')
        /\ KeysOf(lru') \subseteq KeysOf(lru) \cup {k}
    BY <2>1, <2>2, CapPositive, PushFrontProperties DEF StoreOK, ListMatchesMap
  <2>4. D = KeysOf(lru')
    BY <2>1, <2>2, <2>3 DEF Evicted
  <2>5. /\ DOMAIN items' = D /\ D \subseteq Keys
        /\ items' \in [D -> Entries]
    BY <2>1, <2>2 DEF StoreOK
  <2>6. ListMatchesMap' BY <2>3, <2>4, <2>5 DEF ListMatchesMap, Cap
  <2> QED BY <1>1, <2>3, <2>5, <2>6 DEF StoreOK
<1> QED BY <1>2, <1>3

-----------------------------------------------------------------------------
\* The part of the state goroutines carry.
GoroutineOK ==
  /\ flight \in [Keys -> Procs \cup {NoProc}]
  /\ call \in [Procs -> [pc : PCs, key : Keys \cup {NoKey}, ttl : Nat,
                        res : Answers \cup {Failure}]]
  /\ seen \in [Procs -> [Keys -> 0..MaxNow]]
  /\ CallsOK
  /\ FlightsOK

\* The inductive invariant in the two parts the actions treat differently.
LEMMA SafeInvParts == SafeInv <=> now \in 1..MaxNow /\ StoreOK /\ GoroutineOK
BY DEF SafeInv, TypeOK, StoreOK, GoroutineOK, HistoryOK

LEMMA SafeInvPartsNext ==
  now' \in 1..MaxNow /\ StoreOK' /\ GoroutineOK' => SafeInv'
BY DEF SafeInv, TypeOK, StoreOK, GoroutineOK, HistoryOK

\* An answer can be handed to any goroutine.
LEMMA GiveSeen ==
  ASSUME seen \in [Procs -> [Keys -> 0..MaxNow]], MaxNow \in Nat,
         NEW p \in Procs, NEW k \in Keys, NEW a \in Answers \cup {Failure},
         Give(p, k, a)
  PROVE  seen' \in [Procs -> [Keys -> 0..MaxNow]]
BY DEF Give, Answers

\* A step of p that leaves the singleflight map alone keeps the goroutines in
\* order if p leads after it exactly when p led before, with the same key.
LEMMA LocalStep ==
  ASSUME GoroutineOK, NEW p \in Procs,
         NEW c \in [pc : PCs, key : Keys \cup {NoKey}, ttl : Nat,
                    res : Answers \cup {Failure}],
         call' = [call EXCEPT ![p] = c], flight' = flight,
         seen' \in [Procs -> [Keys -> 0..MaxNow]],
         c.pc # "idle" => c.key \in Keys,
         c.pc = "store" => c.res \in Answers,
         c.pc # "wait",
         c.pc \in {"recheck", "fetch", "store", "finish"} <=> Leads(p),
         Leads(p) => c.key = call[p].key
  PROVE  GoroutineOK'
<1>1. /\ flight' \in [Keys -> Procs \cup {NoProc}]
      /\ call' \in [Procs -> [pc : PCs, key : Keys \cup {NoKey}, ttl : Nat,
                              res : Answers \cup {Failure}]]
  BY DEF GoroutineOK
<1>2. \A q \in Procs : call'[q] = IF q = p THEN c ELSE call[q]
  BY DEF GoroutineOK
<1>3. CallsOK' BY <1>2 DEF GoroutineOK, CallsOK, At
<1>4. FlightsOK'
  <2>1. \A q \in Procs : Leads(q)' => flight'[call'[q].key] = q
    BY <1>2 DEF GoroutineOK, FlightsOK, Leads
  <2>2. ASSUME NEW k \in Keys, flight[k] # NoProc
        PROVE  /\ call'[flight[k]].pc \in {"recheck", "fetch", "store", "finish"}
               /\ call'[flight[k]].key = k
    <3>1. flight[k] \in Procs /\ Leads(flight[k]) /\ call[flight[k]].key = k
      BY <2>2 DEF GoroutineOK, FlightsOK
    <3> QED BY <3>1, <1>2 DEF Leads
  <2>3. \A q \in Procs : At(q, "wait")' => flight'[call'[q].key] # NoProc
    BY <1>2 DEF GoroutineOK, FlightsOK, At
  <2> QED BY <2>1, <2>2, <2>3 DEF FlightsOK, Leads
<1> QED BY <1>1, <1>3, <1>4 DEF GoroutineOK

\* A leader moves on within its flight, with an answer when it is to be stored.
LEMMA AdvanceStep ==
  ASSUME GoroutineOK, NEW p \in Procs, Leads(p),
         NEW to \in {"recheck", "fetch", "store", "finish"},
         NEW r \in Answers \cup {Failure}, to = "store" => r \in Answers,
         call' = [call EXCEPT ![p].pc = to, ![p].res = r],
         flight' = flight, seen' = seen
  PROVE  GoroutineOK'
<1> DEFINE c == [call[p] EXCEPT !.pc = to, !.res = r]
<1>1. call[p].key \in Keys BY DEF GoroutineOK, CallsOK, Leads, At
<1>2. /\ c \in [pc : PCs, key : Keys \cup {NoKey}, ttl : Nat,
                res : Answers \cup {Failure}]
      /\ c.pc = to /\ c.key = call[p].key /\ c.res = r
  BY DEF GoroutineOK, PCs
<1>3. call' = [call EXCEPT ![p] = c] BY DEF GoroutineOK
<1>4. seen' \in [Procs -> [Keys -> 0..MaxNow]] BY DEF GoroutineOK
<1> HIDE DEF c
<1> QED BY <1>1, <1>2, <1>3, <1>4, LocalStep

LEMMA UnchangedStore ==
  ASSUME StoreOK, UNCHANGED store PROVE StoreOK'
BY DEF StoreOK, store, ListMatchesMap, Cap

LEMMA InitSafe == Init => SafeInv
<1> SUFFICES ASSUME Init PROVE SafeInv OBVIOUS
<1> USE TTLCacheAssumption, CapPositive
<1>1. lru \in Seq(Keys) /\ used \in Seq(Keys) /\ Len(lru) = 0 /\ Len(used) = 0
  BY DEF Init
<1>2. DOMAIN items = {} /\ KeysOf(lru) = {} /\ Distinct(lru) /\ Distinct(used)
  BY <1>1 DEF Init, KeysOf, Distinct
<1>3. StoreOK BY <1>1, <1>2 DEF Init, StoreOK, ListMatchesMap, Entries
<1>4. GoroutineOK
  BY DEF Init, GoroutineOK, CallsOK, FlightsOK, Idle, PCs, At, Leads
<1>5. now \in 1..MaxNow BY DEF Init
<1> QED BY <1>3, <1>4, <1>5, SafeInvParts

\* GetOrFetch's first Get.
LEMMA CallSafe ==
  ASSUME SafeInv, NEW p \in Procs, NEW k \in Keys, NEW d \in TTLs, Call(p, k, d)
  PROVE  SafeInv'
<1> USE TTLCacheAssumption
<1>1. now \in 1..MaxNow /\ StoreOK /\ GoroutineOK BY SafeInvParts
<1>2. CASE Hit(k)
  <2>1. Touch(k) /\ Give(p, k, items[k].ans) /\ UNCHANGED <<call, now, flight>>
    BY <1>2 DEF Call
  <2>2. k \in DOMAIN items /\ items[k].ans \in Answers
    BY <1>1, <1>2 DEF Hit, StoreOK, Entries
  <2>3. StoreOK' BY <1>1, <2>1, <2>2, TouchStore
  <2>4. GoroutineOK'
    BY <1>1, <2>1, <2>2, GiveSeen DEF GoroutineOK, CallsOK, FlightsOK, At, Leads
  <2> QED BY <1>1, <2>1, <2>3, <2>4, SafeInvPartsNext
<1>3. CASE ~Hit(k)
  <2>1. /\ call' = [call EXCEPT ![p] =
                      [pc |-> "miss", key |-> k, ttl |-> d, res |-> Failure]]
        /\ UNCHANGED <<store, seen, now, flight>>
        /\ At(p, "idle")
    BY <1>3 DEF Call
  <2> DEFINE c == [pc |-> "miss", key |-> k, ttl |-> d, res |-> Failure]
  <2>2. /\ c \in [pc : PCs, key : Keys \cup {NoKey}, ttl : Nat,
                 res : Answers \cup {Failure}]
        /\ c.pc = "miss" /\ c.key = k
    BY DEF PCs
  <2>3. ~Leads(p) BY <2>1 DEF At, Leads
  <2>4. seen' \in [Procs -> [Keys -> 0..MaxNow]] BY <1>1, <2>1 DEF GoroutineOK
  <2> HIDE DEF c
  <2>5. call' = [call EXCEPT ![p] = c] BY <2>1 DEF c
  <2>6. GoroutineOK' BY <1>1, <2>1, <2>2, <2>3, <2>4, <2>5, LocalStep
  <2> QED BY <1>1, <2>1, <2>6, UnchangedStore, SafeInvPartsNext
<1> QED BY <1>2, <1>3

\* singleflight.Do.
LEMMA EnterSafe ==
  ASSUME SafeInv, NEW p \in Procs, Enter(p)
  PROVE  SafeInv'
<1> USE TTLCacheAssumption
<1>1. now \in 1..MaxNow /\ StoreOK /\ GoroutineOK BY SafeInvParts
<1>2. UNCHANGED <<now, store, seen>> BY DEF Enter
<1> DEFINE k == call[p].key
<1>3. At(p, "miss") /\ k \in Keys /\ ~Leads(p)
  BY <1>1 DEF Enter, GoroutineOK, CallsOK, At, Leads
<1>4. PICK to \in {"recheck", "wait"} :
        /\ call' = [call EXCEPT ![p].pc = to]
        /\ to = "recheck" => flight[k] = NoProc /\ flight' = [flight EXCEPT ![k] = p]
        /\ to = "wait" => flight[k] # NoProc /\ flight' = flight
  BY DEF Enter
<1>5. /\ call' \in [Procs -> [pc : PCs, key : Keys \cup {NoKey}, ttl : Nat,
                              res : Answers \cup {Failure}]]
      /\ \A q \in Procs : call'[q] = IF q = p THEN [call[p] EXCEPT !.pc = to] ELSE call[q]
      /\ call'[p].pc = to /\ call'[p].key = k /\ call'[p].res = call[p].res
  <2> DEFINE T == [pc : PCs, key : Keys \cup {NoKey}, ttl : Nat,
                   res : Answers \cup {Failure}]
             c == [call[p] EXCEPT !.pc = to]
  <2>1. call \in [Procs -> T] BY <1>1 DEF GoroutineOK
  <2>2. call' = [call EXCEPT ![p] = c] BY <1>4, <2>1
  <2>3. call[p] \in T /\ to \in PCs BY <2>1 DEF PCs
  <2>4. c \in T /\ c.pc = to /\ c.key = k /\ c.res = call[p].res BY <2>3
  <2> HIDE DEF T, c, k
  <2>5. call' \in [Procs -> T] BY <2>1, <2>2, <2>4
  <2>6. \A q \in Procs : call'[q] = IF q = p THEN c ELSE call[q] BY <2>1, <2>2
  <2>7. call'[p].pc = to /\ call'[p].key = k /\ call'[p].res = call[p].res
    BY <2>4, <2>6
  <2> QED BY <2>5, <2>6, <2>7 DEF T, c, k
<1>6. CallsOK' BY <1>1, <1>3, <1>5 DEF GoroutineOK, CallsOK, At
<1>7. ASSUME to = "recheck" PROVE GoroutineOK'
  <2>1. flight[k] = NoProc /\ flight' = [flight EXCEPT ![k] = p] BY <1>4, <1>7
  <2>2. flight' \in [Keys -> Procs \cup {NoProc}] BY <2>1, <1>1 DEF GoroutineOK
  <2>3. \A x \in Keys : flight'[x] = IF x = k THEN p ELSE flight[x]
    BY <2>1, <1>1 DEF GoroutineOK
  <2>4. \A q \in Procs : Leads(q)' => flight'[call'[q].key] = q
    <3> SUFFICES ASSUME NEW q \in Procs, Leads(q)' PROVE flight'[call'[q].key] = q
      OBVIOUS
    <3>1. CASE q = p BY <3>1, <1>3, <1>5, <2>3
    <3>2. CASE q # p
      <4>1. Leads(q) /\ call'[q] = call[q] BY <3>2, <1>5 DEF Leads
      <4>2. flight[call[q].key] = q /\ call[q].key \in Keys
        BY <4>1, <1>1 DEF GoroutineOK, FlightsOK, CallsOK, Leads, At
      <4>3. call[q].key # k BY <4>2, <2>1, TTLCacheAssumption
      <4> QED BY <4>1, <4>2, <4>3, <2>3
    <3> QED BY <3>1, <3>2
  <2>5. ASSUME NEW x \in Keys, flight'[x] # NoProc
        PROVE  /\ call'[flight'[x]].pc \in {"recheck", "fetch", "store", "finish"}
               /\ call'[flight'[x]].key = x
    <3>1. CASE x = k BY <3>1, <2>3, <1>5, <1>7
    <3>2. CASE x # k
      <4>1. flight[x] \in Procs /\ Leads(flight[x]) /\ call[flight[x]].key = x
        BY <3>2, <2>5, <2>3, <1>1 DEF GoroutineOK, FlightsOK
      <4>2. call'[flight[x]] = call[flight[x]] BY <4>1, <1>3, <1>5
      <4> QED BY <3>2, <4>1, <4>2, <2>3 DEF Leads
    <3> QED BY <3>1, <3>2
  <2>6. \A q \in Procs : At(q, "wait")' => flight'[call'[q].key] # NoProc
    <3> SUFFICES ASSUME NEW q \in Procs, At(q, "wait")'
                 PROVE  flight'[call'[q].key] # NoProc
      OBVIOUS
    <3>1. q # p BY <1>5, <1>7 DEF At
    <3>2. call'[q] = call[q] /\ At(q, "wait") BY <3>1, <1>5 DEF At
    <3>3. flight[call[q].key] # NoProc /\ call[q].key \in Keys
      BY <3>2, <1>1 DEF GoroutineOK, FlightsOK, CallsOK, At
    <3> QED BY <3>2, <3>3, <2>3, TTLCacheAssumption
  <2>7. FlightsOK' BY <2>4, <2>5, <2>6 DEF FlightsOK, Leads
  <2> QED BY <1>1, <1>2, <1>5, <1>6, <2>2, <2>7 DEF GoroutineOK
<1>8. ASSUME to = "wait" PROVE GoroutineOK'
  <2>1. flight[k] # NoProc /\ flight' = flight BY <1>4, <1>8
  <2>2. \A q \in Procs : Leads(q)' => Leads(q) /\ call'[q] = call[q]
    BY <1>5, <1>8 DEF Leads
  <2>3. ASSUME NEW x \in Keys, flight[x] # NoProc
        PROVE  /\ call'[flight[x]].pc \in {"recheck", "fetch", "store", "finish"}
               /\ call'[flight[x]].key = x
    <3>1. flight[x] \in Procs /\ Leads(flight[x]) /\ call[flight[x]].key = x
      BY <2>3, <1>1 DEF GoroutineOK, FlightsOK
    <3>2. call'[flight[x]] = call[flight[x]] BY <3>1, <1>3, <1>5
    <3> QED BY <3>1, <3>2 DEF Leads
  <2>4. \A q \in Procs : At(q, "wait")' => flight'[call'[q].key] # NoProc
    BY <2>1, <1>1, <1>5 DEF GoroutineOK, FlightsOK, At
  <2>5. FlightsOK'
    BY <2>1, <2>2, <2>3, <2>4, <1>1 DEF FlightsOK, GoroutineOK, Leads
  <2> QED BY <1>1, <1>2, <1>5, <1>6, <2>1, <2>5 DEF GoroutineOK
<1>9. GoroutineOK' BY <1>7, <1>8
<1> QED BY <1>1, <1>2, <1>9, UnchangedStore, SafeInvPartsNext

\* The leader's second Get.
LEMMA RecheckSafe ==
  ASSUME SafeInv, NEW p \in Procs, Recheck(p)
  PROVE  SafeInv'
<1> USE TTLCacheAssumption
<1> DEFINE k == call[p].key
<1>1. now \in 1..MaxNow /\ StoreOK /\ GoroutineOK BY SafeInvParts
<1>2. UNCHANGED <<now, flight, seen>> /\ Leads(p) /\ k \in Keys
  BY <1>1 DEF Recheck, GoroutineOK, CallsOK, At, Leads
<1>3. CASE Hit(k)
  <2>1. Touch(k) /\ call' = [call EXCEPT ![p].pc = "finish", ![p].res = items[k].ans]
    BY <1>3 DEF Recheck
  <2>2. k \in DOMAIN items /\ items[k].ans \in Answers
    BY <1>1, <1>3 DEF Hit, StoreOK, Entries
  <2>3. StoreOK' BY <1>1, <2>1, <2>2, TouchStore
  <2>4. GoroutineOK'
    BY <1>1, <1>2, <2>1, <2>2, AdvanceStep
  <2> QED BY <1>1, <1>2, <2>3, <2>4, SafeInvPartsNext
<1>4. CASE ~Hit(k)
  <2>1. UNCHANGED store /\ call' = [call EXCEPT ![p].pc = "fetch"]
    BY <1>4 DEF Recheck
  <2>2. call' = [call EXCEPT ![p].pc = "fetch", ![p].res = call[p].res]
        /\ call[p].res \in Answers \cup {Failure}
    BY <1>1, <2>1 DEF GoroutineOK
  <2>3. GoroutineOK' BY <1>1, <1>2, <2>2, AdvanceStep
  <2> QED BY <1>1, <1>2, <2>1, <2>3, UnchangedStore, SafeInvPartsNext
<1> QED BY <1>3, <1>4

\* The upstream answers or fails.
LEMMA AnswerSafe ==
  ASSUME SafeInv, NEW p \in Procs, Answer(p)
  PROVE  SafeInv'
<1> USE TTLCacheAssumption
<1>1. now \in 1..MaxNow /\ StoreOK /\ GoroutineOK BY SafeInvParts
<1>2. UNCHANGED <<now, store, flight, seen>> /\ Leads(p)
  BY DEF Answer, At, Leads
<1>3. CASE call' = [call EXCEPT ![p].pc = "finish"]
  <2>0. call' = [call EXCEPT ![p].pc = "finish", ![p].res = call[p].res]
        /\ call[p].res \in Answers \cup {Failure}
    BY <1>1, <1>3 DEF GoroutineOK
  <2>1. GoroutineOK' BY <1>1, <1>2, <2>0, AdvanceStep
  <2> QED BY <1>1, <1>2, <2>1, UnchangedStore, SafeInvPartsNext
<1>4. CASE \E v \in Payloads :
             call' = [call EXCEPT ![p].pc = "store",
                                  ![p].res = [payload |-> v, at |-> now]]
  <2>1. PICK v \in Payloads :
             call' = [call EXCEPT ![p].pc = "store",
                                  ![p].res = [payload |-> v, at |-> now]]
    BY <1>4
  <2>2. [payload |-> v, at |-> now] \in Answers BY <1>1 DEF Answers
  <2>3. GoroutineOK'
    BY <1>1, <1>2, <2>1, <2>2, AdvanceStep
  <2> QED BY <1>1, <1>2, <2>3, UnchangedStore, SafeInvPartsNext
<1> QED BY <1>3, <1>4 DEF Answer

\* The leader stores what it fetched.
LEMMA StoreSafe ==
  ASSUME SafeInv, NEW p \in Procs, Store(p)
  PROVE  SafeInv'
<1> USE TTLCacheAssumption
<1>1. now \in 1..MaxNow /\ StoreOK /\ GoroutineOK BY SafeInvParts
<1> DEFINE e == [ans |-> call[p].res, exp |-> now + call[p].ttl]
<1>2. /\ UNCHANGED <<now, flight, seen>> /\ At(p, "store") /\ Leads(p)
      /\ Put(call[p].key, e)
      /\ call' = [call EXCEPT ![p].pc = "finish"]
  BY DEF Store, At, Leads
<1>3. call[p].key \in Keys /\ call[p].res \in Answers /\ call[p].ttl \in Nat
  BY <1>1, <1>2 DEF GoroutineOK, CallsOK, At
<1>4. e \in Entries BY <1>1, <1>3 DEF Entries
<1>5. StoreOK' BY <1>1, <1>2, <1>3, <1>4, PutStore
<1>6. call' = [call EXCEPT ![p].pc = "finish", ![p].res = call[p].res]
  BY <1>1, <1>2 DEF GoroutineOK
<1>7. GoroutineOK' BY <1>1, <1>2, <1>3, <1>6, AdvanceStep
<1> QED BY <1>1, <1>2, <1>5, <1>7, SafeInvPartsNext

\* The flight closes and its waiters are woken.
LEMMA FinishSafe ==
  ASSUME SafeInv, NEW p \in Procs, Finish(p)
  PROVE  SafeInv'
<1> USE TTLCacheAssumption
<1> DEFINE k == call[p].key
           r == call[p].res
<1>1. now \in 1..MaxNow /\ StoreOK /\ GoroutineOK BY SafeInvParts
<1>2. /\ UNCHANGED <<now, store>> /\ At(p, "finish")
      /\ flight' = [flight EXCEPT ![k] = NoProc]
      /\ call' = [q \in Procs |->
                    IF q = p THEN Idle
                    ELSE IF q \in Waiters(k) THEN [call[q] EXCEPT !.pc = "woken", !.res = r]
                    ELSE call[q]]
      /\ Give(p, k, r)
  BY DEF Finish
<1>3. k \in Keys /\ r \in Answers \cup {Failure}
  BY <1>1, <1>2 DEF GoroutineOK, CallsOK, At
<1>4. seen' \in [Procs -> [Keys -> 0..MaxNow]]
  BY <1>1, <1>2, <1>3, GiveSeen DEF GoroutineOK
<1> DEFINE woken(q) == [call[q] EXCEPT !.pc = "woken", !.res = r]
           CallType == [pc : PCs, key : Keys \cup {NoKey}, ttl : Nat,
                        res : Answers \cup {Failure}]
<1>5. ASSUME NEW q \in Procs
      PROVE  /\ q = p => call'[q] = Idle
             /\ q # p /\ q \in Waiters(k) => call'[q] = woken(q)
             /\ q # p /\ q \notin Waiters(k) => call'[q] = call[q]
  BY <1>2
<1>21. ASSUME NEW q \in Procs
       PROVE /\ woken(q) \in CallType
             /\ woken(q).pc = "woken" /\ woken(q).key = call[q].key
  <2>1. call[q] \in CallType BY <1>1 DEF GoroutineOK
  <2>2. "woken" \in PCs BY DEF PCs
  <2> QED BY <2>1, <2>2, <1>3
<1>22. Idle \in CallType /\ Idle.pc = "idle" BY DEF Idle, PCs
<1>23. call' = [q \in Procs |-> call'[q]]
  <2>1. DOMAIN call' = Procs BY <1>2
  <2>2. call' = [q \in DOMAIN call' |-> call'[q]] BY <1>2
  <2> QED BY <2>1, <2>2
<1> HIDE DEF woken, CallType
<1>24. \A q \in Procs : call'[q] \in CallType
  BY <1>1, <1>5, <1>21, <1>22 DEF GoroutineOK, CallType
<1>6. call' \in [Procs -> CallType] BY <1>23, <1>24
<1>7. CallsOK'
  <2> SUFFICES ASSUME NEW q \in Procs
               PROVE  /\ call'[q].pc # "idle" => call'[q].key \in Keys
                      /\ call'[q].pc = "store" => call'[q].res \in Answers
    BY DEF CallsOK, At
  <2>1. CASE q = p BY <2>1, <1>5, <1>22
  <2>2. CASE q # p /\ q \in Waiters(k)
    BY <2>2, <1>1, <1>5, <1>21 DEF Waiters, GoroutineOK, CallsOK, At
  <2>3. CASE q # p /\ q \notin Waiters(k)
    BY <2>3, <1>1, <1>5 DEF GoroutineOK, CallsOK, At
  <2> QED BY <2>1, <2>2, <2>3
<1>8. flight' \in [Keys -> Procs \cup {NoProc}]
  BY <1>1, <1>2, <1>3 DEF GoroutineOK
<1>9. flight[k] = p
  BY <1>1, <1>2 DEF GoroutineOK, FlightsOK, At, Leads
<1>10. \A q \in Procs : Leads(q)' => q # p /\ Leads(q) /\ call'[q] = call[q]
  BY <1>5, <1>21, <1>22 DEF Leads
<1>11. FlightsOK'
  <2>1. \A q \in Procs : Leads(q)' => flight'[call'[q].key] = q
    <3> SUFFICES ASSUME NEW q \in Procs, Leads(q)' PROVE flight'[call'[q].key] = q
      OBVIOUS
    <3>1. flight[call[q].key] = q /\ q # p /\ call[q].key \in Keys
      BY <1>1, <1>10 DEF GoroutineOK, FlightsOK, CallsOK, Leads, At
    <3>2. call[q].key # k BY <3>1, <1>9
    <3>3. flight'[call[q].key] = flight[call[q].key]
      BY <3>1, <3>2, <1>1, <1>2 DEF GoroutineOK
    <3> QED BY <3>1, <3>3, <1>10
  <2>2. \A x \in Keys : flight'[x] # NoProc =>
            /\ call'[flight'[x]].pc \in {"recheck", "fetch", "store", "finish"}
            /\ call'[flight'[x]].key = x
    <3> SUFFICES ASSUME NEW x \in Keys, flight'[x] # NoProc
                 PROVE  /\ call'[flight'[x]].pc \in {"recheck", "fetch", "store", "finish"}
                        /\ call'[flight'[x]].key = x
      OBVIOUS
    <3>1. x # k /\ flight'[x] = flight[x] BY <1>1, <1>2 DEF GoroutineOK
    <3>2. flight[x] \in Procs /\ Leads(flight[x]) /\ call[flight[x]].key = x
      BY <3>1, <1>1 DEF GoroutineOK, FlightsOK
    <3>3. flight[x] # p /\ flight[x] \notin Waiters(k)
      BY <3>1, <3>2 DEF Waiters, Leads, At
    <3>4. call'[flight[x]] = call[flight[x]] BY <1>5, <3>2, <3>3
    <3> QED BY <3>1, <3>2, <3>4 DEF Leads
  <2>3. \A q \in Procs : At(q, "wait")' => flight'[call'[q].key] # NoProc
    <3> SUFFICES ASSUME NEW q \in Procs, At(q, "wait")' PROVE flight'[call'[q].key] # NoProc
      OBVIOUS
    <3>0. call'[q].pc = "wait" BY DEF At
    <3>1. q # p BY <3>0, <1>5, <1>22
    <3>2. q \notin Waiters(k) BY <3>0, <3>1, <1>5, <1>21
    <3>3. call'[q] = call[q] BY <1>5, <3>1, <3>2
    <3>4. At(q, "wait") /\ call[q].key # k /\ call[q].key \in Keys
      BY <3>0, <3>2, <3>3, <1>1 DEF At, Waiters, GoroutineOK, CallsOK
    <3>5. flight[call[q].key] # NoProc BY <3>4, <1>1 DEF GoroutineOK, FlightsOK
    <3>6. flight'[call[q].key] = flight[call[q].key]
      BY <3>4, <1>1, <1>2 DEF GoroutineOK
    <3> QED BY <3>3, <3>5, <3>6
  <2> QED BY <2>1, <2>2, <2>3 DEF FlightsOK, Leads
<1>12. GoroutineOK' BY <1>4, <1>6, <1>7, <1>8, <1>11 DEF GoroutineOK, CallType
<1> QED BY <1>1, <1>2, <1>12, UnchangedStore, SafeInvPartsNext

\* A waiter returns the shared result.
LEMMA ReturnSafe ==
  ASSUME SafeInv, NEW p \in Procs, Return(p)
  PROVE  SafeInv'
<1> USE TTLCacheAssumption
<1>1. now \in 1..MaxNow /\ StoreOK /\ GoroutineOK BY SafeInvParts
<1>2. /\ UNCHANGED <<now, store, flight>> /\ At(p, "woken")
      /\ call' = [call EXCEPT ![p] = Idle] /\ Give(p, call[p].key, call[p].res)
  BY DEF Return
<1>3. call[p].key \in Keys /\ call[p].res \in Answers \cup {Failure}
  BY <1>1, <1>2 DEF GoroutineOK, CallsOK, At
<1>4. seen' \in [Procs -> [Keys -> 0..MaxNow]]
  BY <1>1, <1>2, <1>3, GiveSeen DEF GoroutineOK
<1>5. /\ Idle \in [pc : PCs, key : Keys \cup {NoKey}, ttl : Nat,
                    res : Answers \cup {Failure}]
      /\ Idle.pc = "idle" /\ ~Leads(p)
  BY <1>2 DEF Idle, PCs, At, Leads
<1>6. GoroutineOK' BY <1>1, <1>2, <1>4, <1>5, LocalStep
<1> QED BY <1>1, <1>2, <1>6, UnchangedStore, SafeInvPartsNext

\* Set from outside.
LEMMA SetEntrySafe ==
  ASSUME SafeInv, NEW k \in SetKeys, NEW v \in Payloads, NEW e \in Nat,
         SetEntry(k, v, e)
  PROVE  SafeInv'
<1> USE TTLCacheAssumption
<1>1. now \in 1..MaxNow /\ StoreOK /\ GoroutineOK BY SafeInvParts
<1> DEFINE new == [ans |-> [payload |-> v, at |-> now], exp |-> e]
<1>2. Put(k, new) /\ UNCHANGED <<now, flight, call, seen>> BY DEF SetEntry
<1>3. new \in Entries /\ k \in Keys BY <1>1 DEF Entries, Answers
<1>4. StoreOK' BY <1>1, <1>2, <1>3, PutStore
<1>5. GoroutineOK' BY <1>1, <1>2 DEF GoroutineOK, CallsOK, FlightsOK, At, Leads
<1> QED BY <1>1, <1>2, <1>4, <1>5, SafeInvPartsNext

\* Every step keeps the inductive invariant.
LEMMA NextSafe == SafeInv /\ [Next]_vars => SafeInv'
<1> SUFFICES ASSUME SafeInv, [Next]_vars PROVE SafeInv' OBVIOUS
<1> USE TTLCacheAssumption
<1>0. now \in 1..MaxNow /\ StoreOK /\ GoroutineOK BY SafeInvParts
<1>1. ASSUME NEW p \in Procs, NEW k \in Keys, NEW d \in TTLs, Call(p, k, d)
      PROVE  SafeInv'
  BY <1>1, CallSafe
<1>2. ASSUME NEW p \in Procs, Step(p) PROVE SafeInv'
  BY <1>2, EnterSafe, RecheckSafe, AnswerSafe, StoreSafe, FinishSafe, ReturnSafe DEF Step
<1>3. ASSUME NEW k \in SetKeys, NEW v \in Payloads,
             NEW e \in {NoExpiry} \cup {now + d : d \in TTLs}, SetEntry(k, v, e)
      PROVE  SafeInv'
  <2>1. e \in Nat BY <1>0 DEF NoExpiry
  <2> QED BY <2>1, <1>3, SetEntrySafe
<1>4. CASE Tick
  <2>1. now' \in 1..MaxNow /\ UNCHANGED <<store, flight, call, seen>>
    BY <1>0, <1>4 DEF Tick
  <2>2. GoroutineOK' BY <1>0, <2>1 DEF GoroutineOK, CallsOK, FlightsOK, At, Leads
  <2> QED BY <1>0, <2>1, <2>2, UnchangedStore, SafeInvPartsNext
<1>5. CASE UNCHANGED vars
  <2>1. UNCHANGED <<now, store, flight, call, seen>> BY <1>5 DEF vars, store
  <2>2. GoroutineOK' BY <1>0, <2>1 DEF GoroutineOK, CallsOK, FlightsOK, At, Leads
  <2> QED BY <1>0, <2>1, <2>2, UnchangedStore, SafeInvPartsNext
<1> QED BY <1>1, <1>2, <1>3, <1>4, <1>5 DEF Next

\* The inductive invariant holds in every reachable state.
THEOREM Safety == Spec => []SafeInv
BY InitSafe, NextSafe, PTL DEF Spec

\* The state is well typed.
THEOREM TypeCorrect == Spec => []TypeOK
<1>1. SafeInv => TypeOK BY DEF SafeInv
<1> QED BY <1>1, Safety, PTL

\* Map and list agree and the capacity is never exceeded, whatever the
\* interleaving of hits, fills, outside Sets and evictions.
THEOREM ListAndMapAgree == Spec => []ListMatchesMap
<1>1. SafeInv => ListMatchesMap BY DEF SafeInv
<1> QED BY <1>1, Safety, PTL

\* Two goroutines never fetch the same key at the same time.
THEOREM AtMostOneFetch == Spec => []OneFetchPerKey
<1>1. SafeInv => OneFetchPerKey
  BY DEF SafeInv, OneFetchPerKey, FlightsOK, Leads, At
<1> QED BY <1>1, Safety, PTL

\* Whoever waits, waits for a goroutine that is still at work on his key.
THEOREM WaitersHaveLeaders == Spec => []NoOrphanWaiter
<1>1. SafeInv => NoOrphanWaiter
  <2> SUFFICES ASSUME SafeInv, NEW p \in Procs, At(p, "wait")
               PROVE  \E q \in Procs : /\ flight[call[p].key] = q
                                       /\ call[q].key = call[p].key
                                       /\ Leads(q)
    BY DEF NoOrphanWaiter, Leads
  <2>1. call[p].key \in Keys /\ flight[call[p].key] # NoProc
    BY DEF SafeInv, CallsOK, FlightsOK, At
  <2>2. flight[call[p].key] \in Procs
    BY <2>1 DEF SafeInv, TypeOK
  <2> QED BY <2>1, <2>2 DEF SafeInv, FlightsOK
<1> QED BY <1>1, Safety, PTL

-----------------------------------------------------------------------------

\* Put changes one key; others stay or are evicted.
LEMMA PutEffect ==
  ASSUME StoreOK, NEW k \in Keys, NEW e, Put(k, e)
  PROVE  \A x \in DOMAIN items' :
           /\ x = k => items'[x] = e
           /\ x # k => x \in DOMAIN items /\ items'[x] = items[x]
BY DEF Put, StoreOK

\* Give changes one goroutine's view of one key, if there is an answer.
LEMMA GiveEffect ==
  ASSUME seen \in [Procs -> [Keys -> 0..MaxNow]], NEW p \in Procs, NEW k \in Keys,
         NEW a, Give(p, k, a)
  PROVE  \A q \in Procs, x \in Keys :
           seen'[q][x] = IF q = p /\ x = k /\ a # Failure THEN a.at ELSE seen[q][x]
BY DEF Give

\* Leaders of one key are one.
LEMMA OneLeader ==
  ASSUME SafeInv, NEW p \in Procs, NEW q \in Procs, Leads(p), Leads(q),
         call[p].key = call[q].key
  PROVE  p = q
BY DEF SafeInv, FlightsOK

\* A busy goroutine has a key.
LEMMA BusyKey ==
  ASSUME SafeInv, NEW p \in Procs, ~At(p, "idle")
  PROVE  call[p].key \in Keys
BY DEF SafeInv, CallsOK

-----------------------------------------------------------------------------
\* FetchOnlyWhenCold: only the leader of a key stores it, and it is not at "fetch"
\* when it does; time turns no entry fresh.
LEMMA ColdStep ==
  ASSUME SafeInv, SafeInv', FetchOnlyWhenCold, [Next]_vars
  PROVE  FetchOnlyWhenCold'
<1> USE TTLCacheAssumption
<1> SUFFICES ASSUME NEW p \in Procs, At(p, "fetch")', call'[p].key \notin SetKeys
             PROVE  ~Hit(call[p].key)'
  BY DEF FetchOnlyWhenCold
<1> DEFINE k == call'[p].key
<1>0. StoreOK /\ GoroutineOK BY SafeInvParts
<1>1. PICK x : x = k OBVIOUS
<1> SUFFICES ~Hit(x)' BY <1>1 DEF Hit, Live
<1> HIDE DEF k
<1>2. (At(p, "fetch") /\ call[p].key = x) \/ (Recheck(p) /\ call[p].key = x /\ ~Hit(x))
  <2>1. CASE \E q \in Procs, y \in Keys, d \in TTLs : Call(q, y, d)
    BY <1>0, <1>1, <2>1 DEF Call, GoroutineOK, At, k
  <2>2. ASSUME NEW q \in Procs, Step(q)
        PROVE  (At(p, "fetch") /\ call[p].key = x)
               \/ (Recheck(p) /\ call[p].key = x /\ ~Hit(x))
    <3>1. CASE Enter(q)
      <4>1. call'[q].pc \in {"recheck", "wait"}
            /\ \A o \in Procs : o # q => call'[o] = call[o]
        BY <1>0, <3>1 DEF Enter, GoroutineOK, At
      <4>2. call'[p].pc = "fetch" BY DEF At
      <4>3. call'[p] = call[p] BY <4>1, <4>2
      <4> QED BY <1>1, <4>2, <4>3 DEF At, k
    <3>2. CASE Recheck(q)
      <4>1. \A o \in Procs : o # q => call'[o] = call[o]
        BY <1>0, <3>2 DEF Recheck, GoroutineOK
      <4>2. call'[q].key = call[q].key /\ (Hit(call[q].key) => call'[q].pc = "finish")
        BY <1>0, <3>2 DEF Recheck, GoroutineOK
      <4>3. call'[p].pc = "fetch" BY DEF At
      <4>4. CASE p = q BY <1>1, <3>2, <4>2, <4>3, <4>4 DEF k
      <4>5. CASE p # q BY <1>1, <4>1, <4>3, <4>5 DEF At, k
      <4> QED BY <4>4, <4>5
    <3>3. CASE Answer(q)
      <4>1. call'[q].pc \in {"store", "finish"}
            /\ \A o \in Procs : o # q => call'[o] = call[o]
        BY <1>0, <3>3 DEF Answer, GoroutineOK, At
      <4>2. call'[p].pc = "fetch" BY DEF At
      <4>3. call'[p] = call[p] BY <4>1, <4>2
      <4> QED BY <1>1, <4>2, <4>3 DEF At, k
    <3>4. CASE Store(q) BY <1>0, <1>1, <3>4 DEF Store, GoroutineOK, At, k
    <3>5. CASE Finish(q)
      <4>0. call'[p] = IF p = q THEN Idle
                       ELSE IF p \in Waiters(call[q].key)
                            THEN [call[p] EXCEPT !.pc = "woken", !.res = call[q].res]
                            ELSE call[p]
        BY <3>5 DEF Finish
      <4>2. call'[p].pc = "fetch" BY DEF At
      <4>3. p # q BY <4>0, <4>2 DEF Idle
      <4>4. [call[p] EXCEPT !.pc = "woken", !.res = call[q].res].pc = "woken"
        BY <1>0 DEF GoroutineOK
      <4>1. call'[p] = call[p] BY <4>0, <4>2, <4>3, <4>4
      <4> QED BY <1>1, <4>1 DEF At, k
    <3>6. CASE Return(q) BY <1>0, <1>1, <3>6 DEF Return, GoroutineOK, At, k, Idle
    <3> QED BY <2>2, <3>1, <3>2, <3>3, <3>4, <3>5, <3>6 DEF Step
  <2>3. CASE UNCHANGED call BY <1>1, <2>3 DEF At, k
  <2> QED BY <2>1, <2>2, <2>3 DEF Next, SetEntry, Tick, vars
<1>3. ~Hit(x) /\ x \notin SetKeys BY <1>1, <1>2 DEF FetchOnlyWhenCold, k
<1>4. Leads(p) /\ call[p].key = x BY <1>2 DEF Recheck, At, Leads
<1>5. ASSUME now' >= now,
             x \in DOMAIN items' => x \in DOMAIN items /\ items'[x] = items[x]
      PROVE  ~Hit(x)'
  <2>1. \A y \in DOMAIN items : items[y].exp \in Nat BY <1>0 DEF StoreOK, Entries
  <2>2. now \in Nat /\ now' \in Nat BY DEF SafeInv, TypeOK
  <2> QED BY <1>3, <1>5, <2>1, <2>2 DEF Hit, Live
<1>6. now \in Nat BY DEF SafeInv, TypeOK
<1>7. CASE UNCHANGED <<now, items>> BY <1>5, <1>6, <1>7
<1>8. ASSUME NEW q \in Procs, Store(q) PROVE ~Hit(x)'
  <2>1. Leads(q) /\ call[q].key \in Keys /\ now' = now
    BY <1>8, BusyKey DEF Store, At, Leads
  <2>2. q # p BY <1>2, <1>8 DEF Store, Recheck, At
  <2>3. x # call[q].key BY <1>4, <2>1, <2>2, OneLeader
  <2> QED BY <1>0, <1>5, <1>6, <1>8, <2>1, <2>3, PutEffect DEF Store
<1>9. ASSUME NEW y \in SetKeys, NEW v \in Payloads, NEW e, SetEntry(y, v, e)
      PROVE  ~Hit(x)'
  <2>1. y \in Keys /\ x # y /\ now' = now BY <1>3, <1>9 DEF SetEntry
  <2> QED BY <1>0, <1>5, <1>6, <1>9, <2>1, PutEffect DEF SetEntry
<1>10. CASE Tick BY <1>5, <1>6, <1>10 DEF Tick, store
<1>11. ASSUME NEW q \in Procs, Step(q), ~Store(q) PROVE UNCHANGED <<now, items>>
  BY <1>11 DEF Step, Enter, Recheck, Answer, Finish, Return, Touch, store
<1>12. ASSUME NEW q \in Procs, NEW y \in Keys, NEW d \in TTLs, Call(q, y, d)
       PROVE  UNCHANGED <<now, items>>
  BY <1>12 DEF Call, Touch, store
<1>13. CASE UNCHANGED vars BY <1>7, <1>13 DEF vars
<1> QED BY <1>7, <1>8, <1>9, <1>10, <1>11, <1>12, <1>13 DEF Next

\* As long as a fetch runs, its key is cold (ttlcache.go: GetOrFetch's second Get).
THEOREM FetchedWhenCold == Spec => []FetchOnlyWhenCold
<1>1. Init => FetchOnlyWhenCold BY DEF Init, FetchOnlyWhenCold, At, Idle
<1>2. SafeInv /\ SafeInv' /\ FetchOnlyWhenCold /\ [Next]_vars => FetchOnlyWhenCold'
  BY ColdStep
<1> QED BY <1>1, <1>2, Safety, PTL DEF Spec

-----------------------------------------------------------------------------
\* p leads the flight of a key only GetOrFetch writes, and has its answer.
Holds(p) == Leads(p) /\ call[p].res # Failure /\ call[p].key \notin SetKeys

\* p has been woken with the answer of such a flight, and has not returned it.
Owed(p) == At(p, "woken") /\ call[p].res # Failure /\ call[p].key \notin SetKeys

\* Only who is past the fetch carries an answer, and none is from the future.
Carried ==
  /\ \A p \in Procs : call[p].pc \in {"idle", "miss", "recheck", "fetch", "wait"} =>
                        call[p].res = Failure
  /\ \A p \in Procs : call[p].res # Failure => call[p].res.at <= now
  /\ \A k \in DOMAIN items : items[k].ans.at <= now
  /\ \A p \in Procs, k \in Keys : seen[p][k] <= now

\* The entry of a key is no older than any answer given for it.
EntryIsLatest ==
  \A p \in Procs, k \in DOMAIN items \ SetKeys : seen[p][k] <= items[k].ans.at

\* A leader's answer is no older than any answer given, and than the entry, which
\* at the end of the flight is that answer, unless it was evicted.
LeaderIsLatest ==
  \A p \in Procs : Holds(p) =>
    /\ \A q \in Procs : seen[q][call[p].key] <= call[p].res.at
    /\ call[p].key \in DOMAIN items =>
         /\ items[call[p].key].ans.at <= call[p].res.at
         /\ At(p, "finish") => items[call[p].key].ans.at = call[p].res.at

\* An answer a woken goroutine still has to return is no older than what it was
\* given before, and no newer than the entry and a later flight's answer.
OwedIsBetween ==
  \A p \in Procs : Owed(p) =>
    /\ seen[p][call[p].key] <= call[p].res.at
    /\ call[p].key \in DOMAIN items => call[p].res.at <= items[call[p].key].ans.at
    /\ \A q \in Procs : Holds(q) /\ call[q].key = call[p].key =>
                          call[p].res.at <= call[q].res.at

ReadsInv == Carried /\ EntryIsLatest /\ LeaderIsLatest /\ OwedIsBetween

\* What a step must show: the invariant, and that no view goes back.
NoOlder == \A p \in Procs, k \in Keys \ SetKeys : seen'[p][k] >= seen[p][k]

\* All times are integers.
LEMMA Times ==
  ASSUME SafeInv
  PROVE  /\ now \in Int
         /\ \A p \in Procs : call[p].res # Failure => call[p].res.at \in Int
         /\ \A k \in DOMAIN items : k \in Keys /\ items[k].ans.at \in Int
         /\ \A p \in Procs, k \in Keys : seen[p][k] \in Int
<1> USE TTLCacheAssumption
<1>1. now \in Int BY DEF SafeInv, TypeOK
<1>2. ASSUME NEW p \in Procs, call[p].res # Failure PROVE call[p].res.at \in Int
  BY <1>2 DEF SafeInv, TypeOK, Answers
<1>3. ASSUME NEW k \in DOMAIN items PROVE k \in Keys /\ items[k].ans.at \in Int
  BY <1>3 DEF SafeInv, TypeOK, Entries, Answers
<1>4. ASSUME NEW p \in Procs, NEW k \in Keys PROVE seen[p][k] \in Int
  BY <1>4 DEF SafeInv, TypeOK
<1> QED BY <1>1, <1>2, <1>3, <1>4

\* Steps after which a goroutine carries what it carried or nothing, and that give
\* and store nothing.
LEMMA QuietStep ==
  ASSUME SafeInv, ReadsInv, now' \in Int, now' >= now, UNCHANGED <<items, seen>>,
         \A q \in Procs : call'[q] = call[q] \/ call'[q].res = Failure
  PROVE  ReadsInv' /\ NoOlder
<1>1. \A q \in Procs : (Holds(q)' => Holds(q) /\ call'[q] = call[q])
                      /\ (Owed(q)' => Owed(q) /\ call'[q] = call[q])
  BY DEF Holds, Owed, Leads, At
<1>2. Carried' BY Times DEF ReadsInv, Carried
<1>3. EntryIsLatest' BY DEF ReadsInv, EntryIsLatest
<1>4. LeaderIsLatest' BY <1>1 DEF ReadsInv, LeaderIsLatest, At
<1>5. OwedIsBetween' BY <1>1 DEF ReadsInv, OwedIsBetween
<1>6. NoOlder BY Times DEF NoOlder
<1> QED BY <1>2, <1>3, <1>4, <1>5, <1>6 DEF ReadsInv

\* The first Get hits.
LEMMA CallReads ==
  ASSUME SafeInv, ReadsInv, NEW p \in Procs, NEW k \in Keys, NEW d \in TTLs,
         Call(p, k, d)
  PROVE  ReadsInv' /\ NoOlder
<1>1. CASE Hit(k)
  <2>1. /\ At(p, "idle") /\ UNCHANGED <<call, now, items>>
        /\ k \in DOMAIN items /\ Give(p, k, items[k].ans)
    BY <1>1 DEF Call, Touch, Hit
  <2>2. \A q \in Procs, x \in Keys :
          seen'[q][x] = seen[q][x] \/ (q = p /\ x = k /\ seen'[q][x] = items[k].ans.at)
    BY <2>1, GiveEffect DEF SafeInv, TypeOK
  <2>3. \A q \in Procs : Holds(q)' = Holds(q) /\ Owed(q)' = Owed(q) /\ call'[q] = call[q]
    BY <2>1 DEF Holds, Owed, Leads, At
  <2>4. ~Owed(p) BY <2>1 DEF Owed, At
  <2>5. \A q \in Procs : Holds(q) \/ Owed(q) => call[q].key \in Keys
    BY BusyKey DEF Holds, Owed, Leads, At
  <2>6. Carried' BY <2>1, <2>2 DEF ReadsInv, Carried
  <2>7. EntryIsLatest' BY <2>1, <2>2, Times DEF ReadsInv, EntryIsLatest
  <2>8. LeaderIsLatest' BY <2>1, <2>2, <2>3, <2>5 DEF ReadsInv, LeaderIsLatest, At
  <2>9. OwedIsBetween' BY <2>1, <2>2, <2>3, <2>4, <2>5 DEF ReadsInv, OwedIsBetween
  <2>10. NoOlder BY <2>1, <2>2, Times DEF NoOlder, ReadsInv, EntryIsLatest
  <2> QED BY <2>6, <2>7, <2>8, <2>9, <2>10 DEF ReadsInv
<1>2. CASE ~Hit(k)
  <2>1. /\ UNCHANGED <<now, items, seen>>
        /\ call' = [call EXCEPT ![p] =
                      [pc |-> "miss", key |-> k, ttl |-> d, res |-> Failure]]
    BY <1>2 DEF Call, store
  <2>2. \A q \in Procs : call'[q] = call[q] \/ call'[q].res = Failure
    BY <2>1 DEF SafeInv, TypeOK
  <2> QED BY <2>1, <2>2, Times, QuietStep
<1> QED BY <1>1, <1>2

\* singleflight.Do.
LEMMA EnterReads ==
  ASSUME SafeInv, ReadsInv, NEW p \in Procs, Enter(p)
  PROVE  ReadsInv' /\ NoOlder
<1>1. UNCHANGED <<now, items, seen>> BY DEF Enter, store
<1>2. \A q \in Procs : call'[q].res = call[q].res /\ (q # p => call'[q] = call[q])
  BY DEF Enter, SafeInv, TypeOK
<1>3. call[p].res = Failure BY DEF Enter, At, ReadsInv, Carried
<1> QED BY <1>1, <1>2, <1>3, Times, QuietStep

\* The leader's second Get.
LEMMA RecheckReads ==
  ASSUME SafeInv, ReadsInv, NEW p \in Procs, Recheck(p)
  PROVE  ReadsInv' /\ NoOlder
<1> DEFINE k == call[p].key
<1>1. UNCHANGED <<now, items, seen>> BY DEF Recheck, store, Touch
<1>2. call[p].res = Failure BY DEF Recheck, At, ReadsInv, Carried
<1>3. k \in Keys BY BusyKey DEF Recheck, At
<1>4. CASE ~Hit(k)
  <2>1. \A q \in Procs : call'[q].res = call[q].res /\ (q # p => call'[q] = call[q])
    BY <1>4 DEF Recheck, SafeInv, TypeOK
  <2> QED BY <1>1, <1>2, <2>1, Times, QuietStep
<1>5. CASE Hit(k)
  <2>1. /\ call'[p].pc = "finish" /\ call'[p].key = k /\ call'[p].res = items[k].ans
        /\ \A q \in Procs : q # p => call'[q] = call[q]
    BY <1>5 DEF Recheck, SafeInv, TypeOK
  <2>2. k \in DOMAIN items BY <1>5 DEF Hit
  <2>3. \A q \in Procs : q # p => Holds(q)' = Holds(q) /\ Owed(q)' = Owed(q)
    BY <2>1 DEF Holds, Owed, Leads, At
  <2>4. ~Owed(p)' BY <2>1 DEF Owed, At
  <2>5. Carried' BY <1>1, <2>1, <2>2 DEF ReadsInv, Carried
  <2>6. EntryIsLatest' BY <1>1 DEF ReadsInv, EntryIsLatest
  <2>7. LeaderIsLatest'
    <3> SUFFICES ASSUME NEW q \in Procs, Holds(q)'
                 PROVE  /\ \A o \in Procs : seen[o][call'[q].key] <= call'[q].res.at
                        /\ call'[q].key \in DOMAIN items =>
                             /\ items[call'[q].key].ans.at <= call'[q].res.at
                             /\ call'[q].pc = "finish" =>
                                  items[call'[q].key].ans.at = call'[q].res.at
      BY <1>1 DEF LeaderIsLatest, At
    <3>1. CASE q = p
      BY <3>1, <2>1, <2>2, Times DEF Holds, ReadsInv, EntryIsLatest
    <3>2. CASE q # p
      BY <3>2, <2>1, <2>3 DEF ReadsInv, LeaderIsLatest, At
    <3> QED BY <3>1, <3>2
  <2>8. OwedIsBetween'
    <3> SUFFICES ASSUME NEW q \in Procs, Owed(q)'
                 PROVE  /\ seen[q][call'[q].key] <= call'[q].res.at
                        /\ call'[q].key \in DOMAIN items =>
                             call'[q].res.at <= items[call'[q].key].ans.at
                        /\ \A o \in Procs : Holds(o)' /\ call'[o].key = call'[q].key =>
                                              call'[q].res.at <= call'[o].res.at
      BY <1>1 DEF OwedIsBetween
    <3>1. q # p /\ Owed(q) /\ call'[q] = call[q] BY <2>1, <2>3, <2>4
    <3> QED BY <3>1, <2>1, <2>2, <2>3 DEF ReadsInv, OwedIsBetween
  <2>9. NoOlder BY <1>1, Times DEF NoOlder
  <2> QED BY <2>5, <2>6, <2>7, <2>8, <2>9 DEF ReadsInv
<1> QED BY <1>4, <1>5

\* The upstream answers, now, or fails.
LEMMA AnswerReads ==
  ASSUME SafeInv, ReadsInv, NEW p \in Procs, Answer(p)
  PROVE  ReadsInv' /\ NoOlder
<1> DEFINE k == call[p].key
<1>1. UNCHANGED <<now, items, seen>> BY DEF Answer, store
<1>2. call[p].res = Failure BY DEF Answer, At, ReadsInv, Carried
<1>3. k \in Keys BY BusyKey DEF Answer, At
<1>4. CASE call' = [call EXCEPT ![p].pc = "finish"]
  <2>1. \A q \in Procs : call'[q].res = call[q].res /\ (q # p => call'[q] = call[q])
    BY <1>4 DEF SafeInv, TypeOK
  <2> QED BY <1>1, <1>2, <2>1, Times, QuietStep
<1>5. ASSUME NEW v \in Payloads,
             call' = [call EXCEPT ![p].pc = "store",
                                  ![p].res = [payload |-> v, at |-> now]]
      PROVE  ReadsInv' /\ NoOlder
  <2>1. /\ call'[p].pc = "store" /\ call'[p].key = k
        /\ call'[p].res = [payload |-> v, at |-> now]
        /\ \A q \in Procs : q # p => call'[q] = call[q]
    BY <1>5 DEF SafeInv, TypeOK
  <2>2. call'[p].res.at = now BY <2>1
  <2>3. \A q \in Procs : q # p => Holds(q)' = Holds(q) /\ Owed(q)' = Owed(q)
    BY <2>1 DEF Holds, Owed, Leads, At
  <2>4. ~Owed(p)' BY <2>1 DEF Owed, At
  <2>5. Carried' BY <1>1, <2>1, <2>2, Times DEF ReadsInv, Carried
  <2>6. EntryIsLatest' BY <1>1 DEF ReadsInv, EntryIsLatest
  <2>7. LeaderIsLatest'
    <3> SUFFICES ASSUME NEW q \in Procs, Holds(q)'
                 PROVE  /\ \A o \in Procs : seen[o][call'[q].key] <= call'[q].res.at
                        /\ call'[q].key \in DOMAIN items =>
                             /\ items[call'[q].key].ans.at <= call'[q].res.at
                             /\ call'[q].pc = "finish" =>
                                  items[call'[q].key].ans.at = call'[q].res.at
      BY <1>1 DEF LeaderIsLatest, At
    <3>1. CASE q = p
      BY <3>1, <1>3, <2>1, <2>2 DEF ReadsInv, Carried
    <3>2. CASE q # p
      BY <3>2, <2>1, <2>3 DEF ReadsInv, LeaderIsLatest, At
    <3> QED BY <3>1, <3>2
  <2>8. OwedIsBetween'
    <3> SUFFICES ASSUME NEW q \in Procs, Owed(q)'
                 PROVE  /\ seen[q][call'[q].key] <= call'[q].res.at
                        /\ call'[q].key \in DOMAIN items =>
                             call'[q].res.at <= items[call'[q].key].ans.at
                        /\ \A o \in Procs : Holds(o)' /\ call'[o].key = call'[q].key =>
                                              call'[q].res.at <= call'[o].res.at
      BY <1>1 DEF OwedIsBetween
    <3>1. q # p /\ Owed(q) /\ call'[q] = call[q] BY <2>1, <2>3, <2>4
    <3>2. call[q].res.at <= now BY <3>1 DEF Owed, ReadsInv, Carried
    <3> QED BY <3>1, <3>2, <2>1, <2>2, <2>3 DEF ReadsInv, OwedIsBetween
  <2>9. NoOlder BY <1>1, Times DEF NoOlder
  <2> QED BY <2>5, <2>6, <2>7, <2>8, <2>9 DEF ReadsInv
<1> QED BY <1>4, <1>5 DEF Answer

\* The leader's answer becomes the entry.
LEMMA StoreReads ==
  ASSUME SafeInv, ReadsInv, NEW p \in Procs, Store(p)
  PROVE  ReadsInv' /\ NoOlder
<1> DEFINE k == call[p].key
<1>1. /\ UNCHANGED <<now, seen>> /\ At(p, "store") /\ Leads(p)
      /\ Put(k, [ans |-> call[p].res, exp |-> now + call[p].ttl])
  BY DEF Store, At, Leads
<1>2. k \in Keys /\ call[p].res \in Answers
  BY <1>1 DEF SafeInv, CallsOK, At
<1>3. /\ call'[p].pc = "finish" /\ call'[p].key = k /\ call'[p].res = call[p].res
      /\ \A q \in Procs : q # p => call'[q] = call[q]
  BY DEF Store, SafeInv, TypeOK
<1>4. \A x \in DOMAIN items' :
        /\ x = k => items'[x].ans = call[p].res
        /\ x # k => x \in DOMAIN items /\ items'[x] = items[x]
  <2>1. StoreOK BY SafeInvParts
  <2> QED BY <1>1, <1>2, <2>1, PutEffect
<1>5. \A q \in Procs : /\ Holds(q)' = Holds(q) /\ Owed(q)' = Owed(q)
                       /\ call'[q].res = call[q].res /\ call'[q].key = call[q].key
                       /\ q # p => call'[q].pc = call[q].pc
  BY <1>1, <1>3 DEF Holds, Owed, Leads, At
<1>6. call[p].res # Failure /\ (k \notin SetKeys => Holds(p))
  BY <1>1, <1>2, TTLCacheAssumption DEF Holds, Answers
<1>7. Carried'
  BY <1>1, <1>3, <1>4, <1>5, <1>6 DEF ReadsInv, Carried
<1>8. EntryIsLatest'
  <2> SUFFICES ASSUME NEW q \in Procs, NEW x \in DOMAIN items', x \notin SetKeys
               PROVE  seen[q][x] <= items'[x].ans.at
    BY <1>1 DEF EntryIsLatest
  <2>1. CASE x = k BY <2>1, <1>4, <1>6 DEF ReadsInv, LeaderIsLatest
  <2>2. CASE x # k BY <2>2, <1>4 DEF ReadsInv, EntryIsLatest
  <2> QED BY <2>1, <2>2
<1>9. LeaderIsLatest'
  <2> SUFFICES ASSUME NEW q \in Procs, Holds(q)
               PROVE  /\ \A o \in Procs : seen[o][call[q].key] <= call[q].res.at
                      /\ call[q].key \in DOMAIN items' =>
                           /\ items'[call[q].key].ans.at <= call[q].res.at
                           /\ call'[q].pc = "finish" =>
                                items'[call[q].key].ans.at = call[q].res.at
    BY <1>1, <1>5 DEF LeaderIsLatest, At
  <2>1. CASE q = p
    BY <2>1, <1>2, <1>4, Times, TTLCacheAssumption DEF ReadsInv, LeaderIsLatest, Holds
  <2>2. CASE q # p
    <3>1. call[q].key # k BY <2>2, <1>1, OneLeader DEF Holds
    <3> QED BY <2>2, <3>1, <1>4, <1>5 DEF ReadsInv, LeaderIsLatest, At
  <2> QED BY <2>1, <2>2
<1>10. OwedIsBetween'
  <2> SUFFICES ASSUME NEW q \in Procs, Owed(q)
               PROVE  /\ seen[q][call[q].key] <= call[q].res.at
                      /\ call[q].key \in DOMAIN items' =>
                           call[q].res.at <= items'[call[q].key].ans.at
                      /\ \A o \in Procs : Holds(o) /\ call[o].key = call[q].key =>
                                            call[q].res.at <= call[o].res.at
    BY <1>1, <1>5 DEF OwedIsBetween
  <2>1. CASE call[q].key = k
    BY <2>1, <1>4, <1>6 DEF ReadsInv, OwedIsBetween, Owed
  <2>2. CASE call[q].key # k
    BY <2>2, <1>4 DEF ReadsInv, OwedIsBetween
  <2> QED BY <2>1, <2>2
<1>11. NoOlder BY <1>1, Times DEF NoOlder
<1> QED BY <1>7, <1>8, <1>9, <1>10, <1>11 DEF ReadsInv

\* The flight ends: the leader returns its answer and owes it to the waiters.
LEMMA FinishReads ==
  ASSUME SafeInv, ReadsInv, NEW p \in Procs, Finish(p)
  PROVE  ReadsInv' /\ NoOlder
<1> DEFINE k == call[p].key
           r == call[p].res
<1>1. /\ UNCHANGED <<now, items>> /\ At(p, "finish") /\ Leads(p)
      /\ Give(p, k, r)
  BY DEF Finish, store, At, Leads
<1>2. k \in Keys BY <1>1, BusyKey DEF At
<1>3. \A q \in Procs, x \in Keys :
        seen'[q][x] = IF q = p /\ x = k /\ r # Failure THEN r.at ELSE seen[q][x]
  BY <1>1, <1>2, GiveEffect DEF SafeInv, TypeOK
<1>4. call'[p] = Idle BY DEF Finish
<1>5. ASSUME NEW q \in Procs, q # p
      PROVE  \/ call'[q] = call[q]
             \/ /\ At(q, "wait") /\ call[q].key = k
                /\ call'[q].pc = "woken" /\ call'[q].key = k /\ call'[q].res = r
  <2>1. CASE q \in Waiters(k)
    <3>1. call'[q] = [call[q] EXCEPT !.pc = "woken", !.res = r]
      BY <1>5, <2>1 DEF Finish
    <3> QED BY <2>1, <3>1 DEF Waiters, SafeInv, TypeOK
  <2>2. CASE q \notin Waiters(k) BY <1>5, <2>2 DEF Finish
  <2> QED BY <2>1, <2>2
<1>6. ~Holds(p)' /\ ~Owed(p)' BY <1>4 DEF Holds, Owed, Leads, At, Idle
<1>7. \A q \in Procs : Holds(q)' =>
        q # p /\ Holds(q) /\ call'[q] = call[q] /\ call[q].key # k
  <2> SUFFICES ASSUME NEW q \in Procs, Holds(q)'
               PROVE  q # p /\ Holds(q) /\ call'[q] = call[q] /\ call[q].key # k
    OBVIOUS
  <2>1. q # p /\ call'[q] = call[q] /\ Holds(q)
    BY <1>5, <1>6 DEF Holds, Leads, At
  <2>2. call[q].key # k BY <2>1, <1>1, OneLeader DEF Holds
  <2> QED BY <2>1, <2>2
<1>8. Carried'
  <2>1. r # Failure => r.at <= now BY DEF ReadsInv, Carried
  <2>2. \A q \in Procs : /\ call'[q].res # Failure => call'[q].res.at <= now
                         /\ call'[q].pc \in {"idle", "miss", "recheck", "fetch", "wait"}
                              => call'[q].res = Failure
    BY <2>1, <1>4, <1>5 DEF ReadsInv, Carried, Idle
  <2>3. \A q \in Procs, x \in Keys : seen'[q][x] <= now
    BY <2>1, <1>3 DEF ReadsInv, Carried
  <2> QED BY <2>2, <2>3, <1>1 DEF ReadsInv, Carried
<1>9. Holds(p) \/ r = Failure \/ k \in SetKeys BY <1>1 DEF Holds
<1>10. EntryIsLatest'
  <2> SUFFICES ASSUME NEW q \in Procs, NEW x \in DOMAIN items, x \notin SetKeys
               PROVE  seen'[q][x] <= items[x].ans.at
    BY <1>1 DEF EntryIsLatest
  <2>0. x \in Keys BY Times
  <2>1. CASE q = p /\ x = k /\ r # Failure
    BY <2>0, <2>1, <1>1, <1>3, <1>9, Times DEF ReadsInv, LeaderIsLatest
  <2>2. CASE ~(q = p /\ x = k /\ r # Failure)
    BY <2>0, <2>2, <1>3 DEF ReadsInv, EntryIsLatest
  <2> QED BY <2>1, <2>2
<1>11. LeaderIsLatest'
  <2> SUFFICES ASSUME NEW q \in Procs, Holds(q), call[q].key # k
               PROVE  /\ \A o \in Procs : seen'[o][call[q].key] <= call[q].res.at
                      /\ call[q].key \in DOMAIN items =>
                           /\ items[call[q].key].ans.at <= call[q].res.at
                           /\ At(q, "finish") =>
                                items[call[q].key].ans.at = call[q].res.at
    BY <1>1, <1>7 DEF LeaderIsLatest, At
  <2>1. call[q].key \in Keys BY BusyKey DEF Holds, Leads, At
  <2> QED BY <2>1, <1>3 DEF ReadsInv, LeaderIsLatest
<1>12. OwedIsBetween'
  <2> SUFFICES ASSUME NEW q \in Procs, Owed(q)'
               PROVE  /\ seen'[q][call'[q].key] <= call'[q].res.at
                      /\ call'[q].key \in DOMAIN items =>
                           call'[q].res.at <= items[call'[q].key].ans.at
                      /\ \A o \in Procs : Holds(o)' /\ call'[o].key = call'[q].key =>
                                            call'[q].res.at <= call'[o].res.at
    BY <1>1 DEF OwedIsBetween
  <2>1. q # p BY <1>6
  <2>2. CASE call'[q] = call[q]
    <3>1. Owed(q) BY <2>2 DEF Owed, At
    <3>2. call[q].key \in Keys BY <3>1, BusyKey DEF Owed, At
    <3>3. seen'[q][call[q].key] = seen[q][call[q].key] BY <2>1, <3>2, <1>3
    <3> QED BY <2>2, <3>1, <3>3, <1>7 DEF ReadsInv, OwedIsBetween
  <2>3. CASE call'[q] # call[q]
    <3>1. call'[q].key = k /\ call'[q].res = r BY <2>1, <2>3, <1>5
    <3>2. Holds(p) BY <3>1, <1>9 DEF Owed
    <3>3. seen'[q][k] = seen[q][k] BY <2>1, <1>2, <1>3
    <3>4. seen[q][k] <= r.at BY <3>2 DEF ReadsInv, LeaderIsLatest
    <3>5. k \in DOMAIN items => r.at = items[k].ans.at
      BY <3>2, <1>1 DEF ReadsInv, LeaderIsLatest
    <3>6. k \in DOMAIN items => r.at <= items[k].ans.at BY <3>5, Times
    <3> QED BY <3>1, <3>3, <3>4, <3>6, <1>7
  <2> QED BY <2>2, <2>3
<1>13. NoOlder
  <2> SUFFICES ASSUME NEW q \in Procs, NEW x \in Keys, x \notin SetKeys
               PROVE  seen'[q][x] >= seen[q][x]
    BY DEF NoOlder
  <2>1. CASE q = p /\ x = k /\ r # Failure
    BY <2>1, <1>3, <1>9, Times DEF ReadsInv, LeaderIsLatest
  <2>2. CASE ~(q = p /\ x = k /\ r # Failure)
    BY <2>2, <1>3, Times
  <2> QED BY <2>1, <2>2
<1> QED BY <1>8, <1>10, <1>11, <1>12, <1>13 DEF ReadsInv

\* A waiter returns what he is owed.
LEMMA ReturnReads ==
  ASSUME SafeInv, ReadsInv, NEW p \in Procs, Return(p)
  PROVE  ReadsInv' /\ NoOlder
<1> DEFINE k == call[p].key
           r == call[p].res
<1>1. UNCHANGED <<now, items>> /\ At(p, "woken") /\ Give(p, k, r)
  BY DEF Return, store
<1>2. k \in Keys BY <1>1, BusyKey DEF At
<1>3. \A q \in Procs, x \in Keys :
        seen'[q][x] = IF q = p /\ x = k /\ r # Failure THEN r.at ELSE seen[q][x]
  BY <1>1, <1>2, GiveEffect DEF SafeInv, TypeOK
<1>4. call'[p] = Idle /\ \A q \in Procs : q # p => call'[q] = call[q]
  BY DEF Return, SafeInv, TypeOK
<1>5. \A q \in Procs : /\ Holds(q)' => q # p /\ Holds(q) /\ call'[q] = call[q]
                       /\ Owed(q)' => q # p /\ Owed(q) /\ call'[q] = call[q]
  BY <1>4 DEF Holds, Owed, Leads, At, Idle
<1>6. Owed(p) \/ r = Failure \/ k \in SetKeys BY <1>1 DEF Owed
<1>7. Carried'
  <2>1. r # Failure => r.at <= now BY DEF ReadsInv, Carried
  <2>2. \A q \in Procs : /\ call'[q].res # Failure => call'[q].res.at <= now
                         /\ call'[q].pc \in {"idle", "miss", "recheck", "fetch", "wait"}
                              => call'[q].res = Failure
    BY <1>4 DEF ReadsInv, Carried, Idle
  <2>3. \A q \in Procs, x \in Keys : seen'[q][x] <= now
    BY <2>1, <1>3 DEF ReadsInv, Carried
  <2> QED BY <2>2, <2>3, <1>1 DEF ReadsInv, Carried
<1>8. EntryIsLatest'
  <2> SUFFICES ASSUME NEW q \in Procs, NEW x \in DOMAIN items, x \notin SetKeys
               PROVE  seen'[q][x] <= items[x].ans.at
    BY <1>1 DEF EntryIsLatest
  <2>0. x \in Keys BY Times
  <2>1. CASE q = p /\ x = k /\ r # Failure
    BY <2>0, <2>1, <1>3, <1>6 DEF ReadsInv, OwedIsBetween
  <2>2. CASE ~(q = p /\ x = k /\ r # Failure)
    BY <2>0, <2>2, <1>3 DEF ReadsInv, EntryIsLatest
  <2> QED BY <2>1, <2>2
<1>9. LeaderIsLatest'
  <2> SUFFICES ASSUME NEW q \in Procs, Holds(q)
               PROVE  /\ \A o \in Procs : seen'[o][call[q].key] <= call[q].res.at
                      /\ call[q].key \in DOMAIN items =>
                           /\ items[call[q].key].ans.at <= call[q].res.at
                           /\ At(q, "finish") =>
                                items[call[q].key].ans.at = call[q].res.at
    BY <1>1, <1>5 DEF LeaderIsLatest, At
  <2>1. call[q].key \in Keys BY BusyKey DEF Holds, Leads, At
  <2>2. ASSUME NEW o \in Procs PROVE seen'[o][call[q].key] <= call[q].res.at
    <3>1. CASE o = p /\ call[q].key = k /\ r # Failure
      <4>1. Owed(p) BY <3>1, <1>6 DEF Holds
      <4> QED BY <3>1, <4>1, <2>1, <1>3 DEF ReadsInv, OwedIsBetween
    <3>2. CASE ~(o = p /\ call[q].key = k /\ r # Failure)
      BY <3>2, <2>1, <1>3 DEF ReadsInv, LeaderIsLatest
    <3> QED BY <3>1, <3>2
  <2> QED BY <2>2 DEF ReadsInv, LeaderIsLatest
<1>10. OwedIsBetween'
  <2> SUFFICES ASSUME NEW q \in Procs, Owed(q), q # p
               PROVE  /\ seen'[q][call[q].key] <= call[q].res.at
                      /\ call[q].key \in DOMAIN items =>
                           call[q].res.at <= items[call[q].key].ans.at
                      /\ \A o \in Procs : Holds(o) /\ call[o].key = call[q].key =>
                                            call[q].res.at <= call[o].res.at
    BY <1>1, <1>5 DEF OwedIsBetween
  <2>1. call[q].key \in Keys BY BusyKey DEF Owed, At
  <2> QED BY <2>1, <1>3 DEF ReadsInv, OwedIsBetween
<1>11. NoOlder
  <2> SUFFICES ASSUME NEW q \in Procs, NEW x \in Keys, x \notin SetKeys
               PROVE  seen'[q][x] >= seen[q][x]
    BY DEF NoOlder
  <2>1. CASE q = p /\ x = k /\ r # Failure
    BY <2>1, <1>3, <1>6, Times DEF ReadsInv, OwedIsBetween
  <2>2. CASE ~(q = p /\ x = k /\ r # Failure)
    BY <2>2, <1>3, Times
  <2> QED BY <2>1, <2>2
<1> QED BY <1>7, <1>8, <1>9, <1>10, <1>11 DEF ReadsInv

\* Set from outside touches keys of its own, and evicts.
LEMMA SetReads ==
  ASSUME SafeInv, ReadsInv, NEW k \in SetKeys, NEW v \in Payloads, NEW e,
         SetEntry(k, v, e)
  PROVE  ReadsInv' /\ NoOlder
<1>1. k \in Keys BY TTLCacheAssumption
<1>2. /\ UNCHANGED <<now, flight, call, seen>>
      /\ Put(k, [ans |-> [payload |-> v, at |-> now], exp |-> e])
  BY DEF SetEntry
<1>3. \A x \in DOMAIN items' :
        /\ x = k => items'[x].ans.at = now
        /\ x # k => x \in DOMAIN items /\ items'[x] = items[x]
  <2>1. StoreOK BY SafeInvParts
  <2> QED BY <1>1, <1>2, <2>1, PutEffect
<1>4. \A q \in Procs : Holds(q)' = Holds(q) /\ Owed(q)' = Owed(q)
  BY <1>2 DEF Holds, Owed, Leads, At
<1>5. \A q \in Procs : Holds(q) \/ Owed(q) => call[q].key # k
  BY DEF Holds, Owed
<1>6. Carried'
  <2>1. now <= now BY Times
  <2> QED BY <2>1, <1>2, <1>3 DEF ReadsInv, Carried
<1>7. EntryIsLatest' BY <1>2, <1>3 DEF ReadsInv, EntryIsLatest
<1>8. LeaderIsLatest' BY <1>2, <1>3, <1>4, <1>5 DEF ReadsInv, LeaderIsLatest, At
<1>9. OwedIsBetween' BY <1>2, <1>3, <1>4, <1>5 DEF ReadsInv, OwedIsBetween
<1>10. NoOlder BY <1>2, Times DEF NoOlder
<1> QED BY <1>6, <1>7, <1>8, <1>9, <1>10 DEF ReadsInv

LEMMA ReadsStep == SafeInv /\ ReadsInv /\ [Next]_vars => ReadsInv' /\ NoOlder
<1> SUFFICES ASSUME SafeInv, ReadsInv, [Next]_vars PROVE ReadsInv' /\ NoOlder
  OBVIOUS
<1>1. ASSUME NEW p \in Procs, NEW k \in Keys, NEW d \in TTLs, Call(p, k, d)
      PROVE  ReadsInv' /\ NoOlder
  BY <1>1, CallReads
<1>2. ASSUME NEW p \in Procs, Step(p) PROVE ReadsInv' /\ NoOlder
  BY <1>2, EnterReads, RecheckReads, AnswerReads, StoreReads, FinishReads, ReturnReads
     DEF Step
<1>3. ASSUME NEW k \in SetKeys, NEW v \in Payloads, NEW e, SetEntry(k, v, e)
      PROVE  ReadsInv' /\ NoOlder
  BY <1>3, SetReads
<1>4. CASE Tick
  <2>1. now' = now + 1 /\ UNCHANGED <<items, seen, call>> BY <1>4 DEF Tick, store
  <2>2. now' \in Int /\ now' >= now BY <2>1, Times
  <2> QED BY <2>1, <2>2, QuietStep
<1>5. CASE UNCHANGED vars
  <2>1. now' = now /\ UNCHANGED <<items, seen, call>> BY <1>5 DEF vars
  <2> QED BY <2>1, Times, QuietStep
<1> QED BY <1>1, <1>2, <1>3, <1>4, <1>5 DEF Next

\* Nobody is given an older answer than one he was given before, whatever mixture of
\* hits, own and shared flights, evictions and late wake-ups he goes through.
THEOREM ReadsMoveForward == Spec => MonotoneReads
<1>1. Init => ReadsInv
  BY DEF Init, ReadsInv, Carried, EntryIsLatest, LeaderIsLatest, OwedIsBetween,
         Holds, Owed, Leads, At, Idle
<1>2. SafeInv /\ ReadsInv /\ [Next]_vars => ReadsInv' /\ NoOlder BY ReadsStep
<1>3. NoOlder => \A p \in Procs, k \in Keys \ SetKeys : seen'[p][k] >= seen[p][k]
  BY DEF NoOlder
<1> QED BY <1>1, <1>2, <1>3, Safety, PTL DEF Spec, MonotoneReads

-----------------------------------------------------------------------------
\* List l is the beginning of history u.
Recent(l, u) == Len(l) <= Len(u) /\ \A i \in 1..Len(l) : l[i] = u[i]

LEMMA RecentIsPrefix ==
  ASSUME NEW S, NEW l \in Seq(S), NEW u \in Seq(S), Len(l) <= Len(u)
  PROVE  (l = SubSeq(u, 1, Len(l))) <=> (\A i \in 1..Len(l) : l[i] = u[i])
<1>1. /\ SubSeq(u, 1, Len(l)) \in Seq(S) /\ Len(SubSeq(u, 1, Len(l))) = Len(l)
      /\ \A i \in 1..Len(l) : SubSeq(u, 1, Len(l))[i] = u[i]
  OBVIOUS
<1> DEFINE s == SubSeq(u, 1, Len(l))
<1> HIDE DEF s
<1>2. s \in Seq(S) /\ Len(s) = Len(l) /\ \A i \in 1..Len(l) : s[i] = u[i]
  BY <1>1 DEF s
<1>3. (l = s) <=> (\A i \in 1..Len(l) : l[i] = s[i]) BY <1>2
<1> QED BY <1>2, <1>3 DEF s

\* Where MoveToFront puts the elements.
LEMMA MoveAt ==
  ASSUME NEW S, NEW list \in Seq(S), Distinct(list), NEW i \in 1..Len(list)
  PROVE  LET moved == MoveToFront(list, list[i])
         IN  /\ moved \in Seq(S) /\ Len(moved) = Len(list)
             /\ \A j \in 1..Len(list) :
                  moved[j] = IF j = 1 THEN list[i]
                             ELSE IF j <= i THEN list[j - 1] ELSE list[j]
<1> DEFINE k == list[i]
           rest == Unlink(list, k)
           n == Len(list)
<1>1. k \in KeysOf(list) /\ k \in S BY DEF KeysOf
<1>2. Position(list, k) = i BY <1>1, PositionProperties DEF Distinct
<1>3. /\ rest \in Seq(S) /\ Len(rest) = n - 1
      /\ \A j \in 1..n - 1 : rest[j] = IF j < i THEN list[j] ELSE list[j + 1]
  BY <1>1, <1>2, UnlinkProperties
<1>4. MoveToFront(list, k) = <<k>> \o rest BY DEF MoveToFront
<1> HIDE DEF rest, k
<1>5. /\ <<k>> \o rest \in Seq(S) /\ Len(<<k>> \o rest) = n /\ (<<k>> \o rest)[1] = k
      /\ \A j \in 2..n : (<<k>> \o rest)[j] = rest[j - 1]
  BY <1>1, <1>3
<1>6. \A j \in 2..n : rest[j - 1] = IF j <= i THEN list[j - 1] ELSE list[j]
  <2> SUFFICES ASSUME NEW j \in 2..n
               PROVE  rest[j - 1] = IF j <= i THEN list[j - 1] ELSE list[j]
    OBVIOUS
  <2>1. j - 1 \in 1..n - 1 /\ (j - 1 < i <=> j <= i) /\ j - 1 + 1 = j OBVIOUS
  <2> QED BY <2>1, <1>3
<1>7. \A j \in 1..n : j = 1 \/ j \in 2..n OBVIOUS
<1> QED BY <1>4, <1>5, <1>6, <1>7 DEF k

\* A use of a listed key keeps list and history in step.
LEMMA RecentMove ==
  ASSUME NEW S, NEW l \in Seq(S), NEW u \in Seq(S), Distinct(l), Distinct(u),
         Recent(l, u), NEW k \in KeysOf(l)
  PROVE  /\ Recent(MoveToFront(l, k), Use(u, k))
         /\ Len(MoveToFront(l, k)) = Len(l) /\ Len(Use(u, k)) = Len(u)
<1>1. PICK i \in 1..Len(l) : k = l[i] BY DEF KeysOf
<1>2. i \in 1..Len(u) /\ u[i] = k /\ k \in KeysOf(u) BY <1>1 DEF Recent, KeysOf
<1>3. Use(u, k) = MoveToFront(u, k) BY <1>2 DEF Use
<1> DEFINE ml == MoveToFront(l, k)
           mu == MoveToFront(u, k)
<1>4. /\ Len(ml) = Len(l)
      /\ \A j \in 1..Len(l) : ml[j] = IF j = 1 THEN k ELSE IF j <= i THEN l[j - 1] ELSE l[j]
  BY <1>1, MoveAt
<1>5. /\ Len(mu) = Len(u)
      /\ \A j \in 1..Len(u) : mu[j] = IF j = 1 THEN k ELSE IF j <= i THEN u[j - 1] ELSE u[j]
  BY <1>2, MoveAt
<1> HIDE DEF ml, mu
<1>6. \A j \in 1..Len(l) : j \in 1..Len(u) /\ (j = 1 \/ j - 1 \in 1..Len(l))
  BY DEF Recent
<1>7. \A j \in 1..Len(l) : ml[j] = mu[j] BY <1>4, <1>5, <1>6 DEF Recent
<1>8. Recent(ml, mu) BY <1>4, <1>5, <1>7 DEF Recent
<1> QED BY <1>3, <1>4, <1>5, <1>8 DEF ml, mu

\* A key used for the first time, or again after its eviction, comes first in both.
LEMMA UseNew ==
  ASSUME NEW S, NEW u \in Seq(S), Distinct(u), NEW k \in S, NEW m \in 0..Len(u),
         \A i \in 1..m : u[i] # k
  PROVE  /\ Use(u, k) \in Seq(S)
         /\ Len(Use(u, k)) = IF k \in KeysOf(u) THEN Len(u) ELSE Len(u) + 1
         /\ k \in KeysOf(u) => m < Len(u)
         /\ Use(u, k)[1] = k
         /\ \A j \in 2..m + 1 : Use(u, k)[j] = u[j - 1]
<1>1. CASE k \in KeysOf(u)
  <2>1. PICK i \in 1..Len(u) : k = u[i] BY <1>1 DEF KeysOf
  <2>2. i > m BY <2>1
  <2>3. Use(u, k) = MoveToFront(u, u[i]) BY <1>1, <2>1 DEF Use
  <2> DEFINE mu == MoveToFront(u, u[i])
  <2>4. /\ mu \in Seq(S) /\ Len(mu) = Len(u)
        /\ \A j \in 1..Len(u) :
             mu[j] = IF j = 1 THEN u[i] ELSE IF j <= i THEN u[j - 1] ELSE u[j]
    BY MoveAt
  <2> HIDE DEF mu
  <2>5. Use(u, k) = mu BY <2>3 DEF mu
  <2>6. \A j \in 2..m + 1 : j \in 1..Len(u) /\ j # 1 /\ j <= i BY <2>1, <2>2
  <2>7. 1 \in 1..Len(u) BY <2>1
  <2> QED BY <1>1, <2>1, <2>2, <2>4, <2>5, <2>6, <2>7
<1>2. CASE k \notin KeysOf(u)
  <2>1. Use(u, k) = <<k>> \o u BY <1>2 DEF Use
  <2>2. /\ <<k>> \o u \in Seq(S) /\ Len(<<k>> \o u) = Len(u) + 1 /\ (<<k>> \o u)[1] = k
        /\ \A j \in 2..Len(u) + 1 : (<<k>> \o u)[j] = u[j - 1]
    OBVIOUS
  <2>3. \A j \in 2..m + 1 : j \in 2..Len(u) + 1 OBVIOUS
  <2> QED BY <1>2, <2>1, <2>2, <2>3
<1> QED BY <1>1, <1>2

\* A push keeps list and history in step, and a list that is not full holds them all.
LEMMA RecentPush ==
  ASSUME NEW S, NEW l \in Seq(S), NEW u \in Seq(S), Distinct(u),
         Recent(l, u), NEW k \in S, k \notin KeysOf(l), NEW cap \in Nat \ {0},
         Len(l) <= cap, Len(l) < cap => Len(l) = Len(u)
  PROVE  /\ Recent(PushFront(l, k, cap), Use(u, k))
         /\ Len(PushFront(l, k, cap)) < cap => Len(PushFront(l, k, cap)) = Len(Use(u, k))
<1> DEFINE m == Len(l)
           uu == Use(u, k)
           new == PushFront(l, k, cap)
           long == <<k>> \o l
<1>1. /\ m \in 0..Len(u) /\ \A i \in 1..m : u[i] = l[i] /\ u[i] # k
  BY DEF Recent, KeysOf
<1>2. /\ uu \in Seq(S)
      /\ Len(uu) = IF k \in KeysOf(u) THEN Len(u) ELSE Len(u) + 1
      /\ k \in KeysOf(u) => m < Len(u)
      /\ uu[1] = k
      /\ \A j \in 2..m + 1 : uu[j] = u[j - 1]
  BY <1>1, UseNew
<1>3. /\ long \in Seq(S) /\ Len(long) = m + 1 /\ long[1] = k
      /\ \A j \in 2..m + 1 : long[j] = l[j - 1]
  OBVIOUS
<1>4. new = IF Len(long) > cap THEN SubSeq(long, 1, cap) ELSE long
  BY DEF PushFront, Trim
<1> HIDE DEF new, long, uu
<1>5. /\ Len(new) = IF m + 1 > cap THEN cap ELSE m + 1
      /\ \A j \in 1..Len(new) : j \in 1..m + 1 /\ new[j] = long[j]
  <2>1. CASE m + 1 > cap
    <3>1. /\ Len(SubSeq(long, 1, cap)) = cap
          /\ \A j \in 1..cap : SubSeq(long, 1, cap)[j] = long[j]
      BY <2>1, <1>3
    <3> QED BY <2>1, <3>1, <1>3, <1>4
  <2>2. CASE ~(m + 1 > cap) BY <2>2, <1>3, <1>4
  <2> QED BY <2>1, <2>2
<1>6. \A j \in 1..m + 1 : long[j] = uu[j]
  <2> SUFFICES ASSUME NEW j \in 1..m + 1 PROVE long[j] = uu[j] OBVIOUS
  <2>1. CASE j = 1 BY <2>1, <1>2, <1>3
  <2>2. CASE j # 1
    <3>1. j \in 2..m + 1 /\ j - 1 \in 1..m BY <2>2
    <3> QED BY <3>1, <1>1, <1>2, <1>3
  <2> QED BY <2>1, <2>2
<1>7. Len(new) <= Len(uu) /\ (Len(new) < cap => Len(new) = Len(uu))
  BY <1>1, <1>2, <1>5
<1>8. Recent(new, uu) BY <1>5, <1>6, <1>7 DEF Recent
<1> QED BY <1>7, <1>8 DEF new, uu

\* What HoldsMostRecent says, element by element.
LEMMA MostRecent ==
  ASSUME StoreOK
  PROVE  HoldsMostRecent <=> Recent(lru, used) /\ (Len(lru) < Cap => Len(lru) = Len(used))
<1>1. lru \in Seq(Keys) /\ used \in Seq(Keys) BY DEF StoreOK
<1>2. Len(lru) \in Nat /\ Len(used) \in Nat BY <1>1
<1>3. Len(lru) <= Len(used) =>
        ((lru = SubSeq(used, 1, Len(lru))) <=> (\A i \in 1..Len(lru) : lru[i] = used[i]))
  BY <1>1, RecentIsPrefix
<1> QED BY <1>2, <1>3 DEF HoldsMostRecent, Recent

LEMMA TouchRecent ==
  ASSUME StoreOK, StoreOK', HoldsMostRecent, NEW k \in DOMAIN items, Touch(k)
  PROVE  HoldsMostRecent'
<1>1. /\ lru \in Seq(Keys) /\ used \in Seq(Keys) /\ Distinct(lru) /\ Distinct(used)
      /\ k \in KeysOf(lru) /\ Recent(lru, used) /\ (Len(lru) < Cap => Len(lru) = Len(used))
  BY MostRecent DEF StoreOK, ListMatchesMap
<1>2. lru' = MoveToFront(lru, k) /\ used' = Use(used, k) BY DEF Touch
<1>3. Recent(lru', used') /\ Len(lru') = Len(lru) /\ Len(used') = Len(used)
  BY <1>1, <1>2, RecentMove
<1>4. Recent(lru', used') /\ (Len(lru') < Cap => Len(lru') = Len(used')) BY <1>1, <1>3
<1>5. lru' \in Seq(Keys) /\ used' \in Seq(Keys) BY DEF StoreOK
<1>6. Len(lru') <= Len(used') => lru' = SubSeq(used', 1, Len(lru'))
  BY <1>4, <1>5, RecentIsPrefix DEF Recent
<1> QED BY <1>4, <1>5, <1>6 DEF HoldsMostRecent, Recent, Cap

LEMMA PutRecent ==
  ASSUME StoreOK, StoreOK', HoldsMostRecent, NEW k \in Keys, NEW e, Put(k, e)
  PROVE  HoldsMostRecent'
<1>1. /\ lru \in Seq(Keys) /\ used \in Seq(Keys) /\ Distinct(lru) /\ Distinct(used)
      /\ KeysOf(lru) = DOMAIN items /\ Len(lru) <= Cap
      /\ Recent(lru, used) /\ (Len(lru) < Cap => Len(lru) = Len(used))
  BY MostRecent DEF StoreOK, ListMatchesMap
<1>2. used' = Use(used, k) BY DEF Put
<1>3. ASSUME k \in DOMAIN items
      PROVE  Recent(lru', used') /\ (Len(lru') < Cap => Len(lru') = Len(used'))
  <2>1. lru' = MoveToFront(lru, k) BY <1>3 DEF Put
  <2>2. Recent(lru', used') /\ Len(lru') = Len(lru) /\ Len(used') = Len(used)
    BY <1>1, <1>2, <1>3, <2>1, RecentMove
  <2> QED BY <1>1, <2>2
<1>4. ASSUME k \notin DOMAIN items
      PROVE  Recent(lru', used') /\ (Len(lru') < Cap => Len(lru') = Len(used'))
  <2>1. lru' = PushFront(lru, k, Cap) BY <1>4 DEF Put
  <2> QED BY <1>1, <1>2, <1>4, <2>1, CapPositive, RecentPush
<1>5. Recent(lru', used') /\ (Len(lru') < Cap => Len(lru') = Len(used')) BY <1>3, <1>4
<1>6. lru' \in Seq(Keys) /\ used' \in Seq(Keys) BY DEF StoreOK
<1>7. Len(lru') <= Len(used') => lru' = SubSeq(used', 1, Len(lru'))
  BY <1>5, <1>6, RecentIsPrefix DEF Recent
<1> QED BY <1>5, <1>6, <1>7 DEF HoldsMostRecent, Recent, Cap

\* Eviction is by last use: the cache holds the most recently used keys, in their
\* order, as many as fit (ttlcache.go: Get's promotion, Set's eviction loop).
THEOREM EvictsLeastRecent == Spec => []HoldsMostRecent
<1>1. Init => HoldsMostRecent
  <2> SUFFICES ASSUME Init PROVE HoldsMostRecent OBVIOUS
  <2>1. Len(lru) = 0 /\ Len(used) = 0 /\ lru \in Seq(Keys) /\ used \in Seq(Keys)
    BY DEF Init
  <2>2. lru = SubSeq(used, 1, Len(lru)) BY <2>1, RecentIsPrefix
  <2> QED BY <2>1, <2>2 DEF HoldsMostRecent
<1>2. SafeInv /\ SafeInv' /\ HoldsMostRecent /\ [Next]_vars => HoldsMostRecent'
  <2> SUFFICES ASSUME SafeInv, SafeInv', HoldsMostRecent, [Next]_vars
               PROVE  HoldsMostRecent'
    OBVIOUS
  <2>1. StoreOK BY SafeInvParts
  <2>2. StoreOK'
    BY DEF SafeInv, TypeOK, StoreOK, HistoryOK
  <2>3. ASSUME UNCHANGED store PROVE HoldsMostRecent'
    BY <2>3 DEF store, HoldsMostRecent, Cap
  <2>4. ASSUME NEW p \in Procs, NEW k \in Keys, NEW d \in TTLs, Call(p, k, d)
        PROVE  HoldsMostRecent'
    <3>1. UNCHANGED store \/ (Hit(k) /\ Touch(k)) BY <2>4 DEF Call
    <3> QED BY <3>1, <2>1, <2>2, <2>3, TouchRecent DEF Hit
  <2>5. ASSUME NEW p \in Procs, Step(p) PROVE HoldsMostRecent'
    <3>1. CASE Recheck(p)
      <4>1. UNCHANGED store \/ (Hit(call[p].key) /\ Touch(call[p].key))
        BY <3>1 DEF Recheck
      <4> QED BY <4>1, <2>1, <2>2, <2>3, TouchRecent DEF Hit
    <3>2. CASE Store(p)
      <4>1. call[p].key \in Keys BY <3>2, BusyKey DEF Store, At
      <4> QED BY <3>2, <4>1, <2>1, <2>2, PutRecent DEF Store
    <3>3. CASE Enter(p) \/ Answer(p) \/ Finish(p) \/ Return(p)
      BY <3>3, <2>3 DEF Enter, Answer, Finish, Return
    <3> QED BY <2>5, <3>1, <3>2, <3>3 DEF Step
  <2>6. ASSUME NEW k \in SetKeys, NEW v \in Payloads, NEW e, SetEntry(k, v, e)
        PROVE  HoldsMostRecent'
    <3>1. k \in Keys BY TTLCacheAssumption
    <3> QED BY <2>6, <3>1, <2>1, <2>2, PutRecent DEF SetEntry
  <2>7. CASE Tick BY <2>7, <2>3 DEF Tick
  <2>8. CASE UNCHANGED vars BY <2>8, <2>3 DEF vars, store
  <2> QED BY <2>4, <2>5, <2>6, <2>7, <2>8 DEF Next
<1> QED BY <1>1, <1>2, Safety, PTL DEF Spec
=============================================================================

-------------------------- MODULE HTMLCacheProofs --------------------------
(***************************************************************************)
(* Proofs about HTMLCache, for every number of goroutines, every set of    *)
(* requests and lifetimes, every capacity and every bound on the clock.    *)
(***************************************************************************)
EXTENDS HTMLCache, LRUProofs

\* An entry filed under key k: the page of a request with that key, to be
\* dropped no later than its max-age after it was rendered.
Filed(k, e) ==
  /\ e \in Entries
  /\ e.deadline <= e.at + e.ttl
  /\ \E r \in Requests : Storable(r) /\ CacheKey(r) = k /\ e.page = Page(r)

\* Map and list are in step, and each entry is filed under its key.
StoreOK ==
  /\ DOMAIN items \subseteq PageKeys
  /\ items = [k \in DOMAIN items |-> items[k]]
  /\ \A k \in DOMAIN items : Filed(k, items[k])
  /\ list \in Seq(PageKeys)
  /\ ListMatchesMap

Rendered == [page : Pages, at : 0..MaxNow]
Shown == Entries \cup Rendered \cup {Nothing}
Conns == [pc : PCs, req : Requests \cup {Nothing}, asked : 0..MaxNow, held : Nat,
          on : Procs \cup {NoProc}, page : Shown]

\* What goroutines carry makes sense: a page about to be stored is the one that was
\* asked for and was rendered after that; an entry about to be served is filed
\* under the request's key and was fresh when the goroutine looked.
Sane(c) ==
  /\ c \in Conns
  /\ c.pc # "idle" => c.req \in Requests
  /\ c.pc = "store" =>
       /\ c.page \in Rendered /\ c.asked <= c.page.at
       /\ Storable(c.req) /\ c.page.page = Page(c.req)
  /\ c.pc = "serve" => Filed(CacheKey(c.req), c.page) /\ c.asked < c.page.deadline

ConnsOK ==
  /\ conn = [p \in Procs |-> conn[p]]
  /\ \A p \in Procs : Sane(conn[p]) /\ conn[p].asked <= now

\* Who leads is registered: the strengthening that makes OneLeaderPerKey inductive.
FlightsOK ==
  /\ flight \in [PageKeys -> Procs \cup {NoProc}]
  /\ \A p \in Procs : Leading(p) => flight[KeyOf(p)] = p

CacheInv == now \in 0..MaxNow /\ StoreOK /\ ConnsOK /\ FlightsOK

-----------------------------------------------------------------------------
\* The capacity is positive, whatever NewWithCapacity was given.
LEMMA MaxPositive == Max \in Nat \ {0}
BY HTMLCacheAssumption DEF Max

\* A request's key is a key.
LEMMA KeyOfRequest == \A r \in Requests : CacheKey(r) \in PageKeys
BY DEF PageKeys

\* Dropping an expired entry keeps the store in order.
LEMMA DropStore ==
  ASSUME StoreOK, NEW k \in DOMAIN items, list' = Unlink(list, k),
         items' = [x \in DOMAIN items \ {k} |-> items[x]]
  PROVE  StoreOK'
<1>1. k \in KeysOf(list) BY DEF StoreOK, ListMatchesMap
<1>2. /\ list' \in Seq(PageKeys) /\ Len(list') = Len(list) - 1
      /\ KeysOf(list') = KeysOf(list) \ {k} /\ Distinct(list')
  BY <1>1, UnlinkProperties, UnlinkKeys DEF StoreOK, ListMatchesMap
<1>3. DOMAIN items' = DOMAIN items \ {k} /\ \A x \in DOMAIN items' : items'[x] = items[x]
  OBVIOUS
<1>4. Len(list') <= Max
  <2>1. Len(list) \in Nat /\ Len(list) <= Max BY DEF StoreOK, ListMatchesMap
  <2> QED BY <2>1, <1>2, MaxPositive
<1>5. ListMatchesMap' BY <1>2, <1>3, <1>4 DEF StoreOK, ListMatchesMap, Max
<1>6. \A x \in DOMAIN items' : Filed(x, items'[x]) BY <1>3 DEF StoreOK
<1> QED BY <1>2, <1>3, <1>5, <1>6 DEF StoreOK, Filed, Entries, Pages

\* A hit, or a page replaced by a newer one, keeps the store in order.
LEMMA PromoteStore ==
  ASSUME StoreOK, NEW k \in DOMAIN items, list' = MoveToFront(list, k),
         DOMAIN items' = DOMAIN items, items' = [x \in DOMAIN items |-> items'[x]],
         \A x \in DOMAIN items : Filed(x, items'[x])
  PROVE  StoreOK'
<1>1. k \in KeysOf(list) BY DEF StoreOK, ListMatchesMap
<1>2. /\ list' \in Seq(PageKeys) /\ Len(list') = Len(list)
      /\ KeysOf(list') = KeysOf(list) /\ Distinct(list')
  BY <1>1, MoveToFrontProperties DEF StoreOK, ListMatchesMap
<1>3. ListMatchesMap' BY <1>2 DEF StoreOK, ListMatchesMap, Max
<1> QED BY <1>2, <1>3 DEF StoreOK, Filed, Entries, Pages

\* The two ways a page is stored.
Replaces(k, e) ==
  /\ k \in DOMAIN items
  /\ items' = [items EXCEPT ![k] = e]
  /\ list' = MoveToFront(list, k)
Inserts(k, e) ==
  /\ k \notin DOMAIN items
  /\ list' = PushFront(list, k, Max)
  /\ items' = [x \in (DOMAIN items \cup {k}) \ Evicted(list, k, Max) |->
                 IF x = k THEN e ELSE items[x]]

LEMMA ReplaceStore ==
  ASSUME StoreOK, NEW k, NEW e, Filed(k, e), Replaces(k, e)
  PROVE  StoreOK'
<1>1. /\ k \in DOMAIN items /\ list' = MoveToFront(list, k)
      /\ DOMAIN items' = DOMAIN items /\ items' = [x \in DOMAIN items |-> items'[x]]
      /\ \A x \in DOMAIN items : items'[x] = IF x = k THEN e ELSE items[x]
  BY DEF Replaces, StoreOK
<1>2. \A x \in DOMAIN items : Filed(x, items'[x]) BY <1>1 DEF StoreOK
<1> QED BY <1>1, <1>2, PromoteStore

\* A new page does, too, whatever is evicted for it.
LEMMA InsertStore ==
  ASSUME StoreOK, NEW k \in PageKeys, NEW e, Filed(k, e), Inserts(k, e)
  PROVE  StoreOK'
<1> USE DEF Inserts
<1> DEFINE D == (DOMAIN items \cup {k}) \ Evicted(list, k, Max)
<1>1. k \notin KeysOf(list) /\ KeysOf(list) = DOMAIN items
  BY DEF StoreOK, ListMatchesMap
<1>2. /\ list' \in Seq(PageKeys) /\ Len(list') <= Max /\ Distinct(list')
      /\ KeysOf(list') \subseteq KeysOf(list) \cup {k}
  BY <1>1, MaxPositive, PushFrontProperties DEF StoreOK, ListMatchesMap
<1>3. D = KeysOf(list') BY <1>1, <1>2 DEF Evicted
<1>4. DOMAIN items' = D /\ D \subseteq PageKeys BY <1>1 DEF StoreOK
<1>5. \A x \in D : Filed(x, items'[x]) BY <1>1 DEF StoreOK
<1>6. ListMatchesMap' BY <1>2, <1>3, <1>4 DEF ListMatchesMap, Max
<1> QED BY <1>2, <1>4, <1>5, <1>6 DEF StoreOK, Filed, Entries, Pages

LEMMA SameStore ==
  ASSUME StoreOK, UNCHANGED store
  PROVE  StoreOK'
BY DEF StoreOK, store, ListMatchesMap, Max, Filed, Entries, Pages

-----------------------------------------------------------------------------
\* A step of one goroutine that registers nobody and makes nobody a leader.
LEMMA OwnStep ==
  ASSUME CacheInv, NEW p \in Procs, NEW c, Sane(c), c.asked <= now,
         c.pc \in {"lead", "store", "release"} => Leading(p) /\ c.req = conn[p].req,
         conn' = [conn EXCEPT ![p] = c], UNCHANGED <<now, flight>>, StoreOK'
  PROVE  CacheInv'
<1>1. /\ conn' = [q \in Procs |-> conn'[q]] /\ conn'[p] = c
      /\ \A q \in Procs \ {p} : conn'[q] = conn[q]
  BY DEF CacheInv, ConnsOK
<1>2. ConnsOK'
  BY <1>1 DEF CacheInv, ConnsOK, Sane, Filed, Conns, Entries, Pages, Rendered, Shown, PCs
<1>3. FlightsOK'
  BY <1>1 DEF CacheInv, FlightsOK, Leading, KeyOf, PageKeys
<1> QED BY <1>2, <1>3 DEF CacheInv

\* The record types behind Sane, by field.
LEMMA ConnFields ==
  ASSUME NEW c, Sane(c)
  PROVE  /\ c.pc \in PCs /\ c.asked \in 0..MaxNow /\ c.held \in Nat /\ c.on \in Procs \cup {NoProc}
         /\ c.req \in Requests \cup {Nothing}
         /\ c.page \in Shown /\ c \in Conns
BY DEF Sane, Conns

LEMMA IdleSane == Sane(Idle)
BY HTMLCacheAssumption DEF Sane, Conns, Idle, PCs, Shown

LEMMA Init_CacheInv == Init => CacheInv
<1> SUFFICES ASSUME Init PROVE CacheInv OBVIOUS
<1> USE HTMLCacheAssumption
<1>1. now \in 0..MaxNow BY DEF Init
<1>2. StoreOK
  <2>1. items = <<>> /\ list = <<>> BY DEF Init
  <2>2. DOMAIN items = {} /\ items = [k \in {} |-> items[k]] BY <2>1
  <2>3. list \in Seq(PageKeys) /\ Len(list) = 0 /\ KeysOf(list) = {} /\ Distinct(list)
    BY <2>1 DEF KeysOf, Distinct
  <2>4. ListMatchesMap BY <2>2, <2>3, MaxPositive DEF ListMatchesMap
  <2> QED BY <2>2, <2>3, <2>4 DEF StoreOK
<1>3. ConnsOK BY IdleSane DEF Init, ConnsOK, Idle
<1>4. FlightsOK BY DEF Init, FlightsOK, Leading, Idle
<1> QED BY <1>1, <1>2, <1>3, <1>4 DEF CacheInv

-----------------------------------------------------------------------------
LEMMA ArriveSafe ==
  ASSUME CacheInv, NEW p \in Procs, NEW r \in Requests, Arrive(p, r)
  PROVE  CacheInv'
<1> DEFINE c == [Idle EXCEPT !.pc = "lookup", !.req = r, !.asked = now]
<1>1. now \in 0..MaxNow /\ Idle \in Conns BY IdleSane, ConnFields DEF CacheInv
<1>2. conn' = [conn EXCEPT ![p] = c] /\ UNCHANGED <<now, store, flight>> BY DEF Arrive
<1>3. c \in Conns /\ c.pc = "lookup" /\ c.req = r /\ c.asked = now
  BY <1>1 DEF Conns, PCs
<1>4. StoreOK' BY <1>2, SameStore DEF CacheInv
<1> HIDE DEF c
<1>5. Sane(c) /\ c.asked <= now BY <1>1, <1>3 DEF Sane
<1> QED BY <1>2, <1>3, <1>4, <1>5, OwnStep

\* lookup, wherever a miss leads.
LEMMA LookSafe ==
  ASSUME CacheInv, NEW p \in Procs, NEW miss \in {"missed", "follow"},
         ~At(p, "idle"), Look(p, miss), UNCHANGED <<now, flight>>
  PROVE  CacheInv'
<1> DEFINE k == KeyOf(p)
           c == [conn[p] EXCEPT !.pc = "serve", !.page = items[k]]
           d == [conn[p] EXCEPT !.pc = miss, !.held = 0]
<1>1. /\ Sane(conn[p]) /\ conn[p].asked <= now /\ conn[p].req \in Requests
      /\ conn = [q \in Procs |-> conn[q]] /\ StoreOK
  BY DEF CacheInv, ConnsOK, At, Sane
<1>2. /\ d.pc = miss /\ d.req = conn[p].req /\ d.asked = conn[p].asked
      /\ Sane(d)
  BY <1>1, ConnFields DEF Sane, Conns, PCs
<1>3. CASE /\ Fresh(k, conn[p].asked)
           /\ list' = MoveToFront(list, k)
           /\ conn' = [conn EXCEPT ![p].pc = "serve", ![p].page = items[k]]
           /\ UNCHANGED items
  <2>1. k \in DOMAIN items /\ conn[p].asked < items[k].deadline BY <1>3 DEF Fresh
  <2>2. Filed(k, items[k]) /\ items[k] \in Entries BY <1>1, <2>1 DEF StoreOK, Filed
  <2>3. /\ c.pc = "serve" /\ c.page = items[k] /\ c.req = conn[p].req
        /\ c.asked = conn[p].asked /\ c \in Conns
    <3>1. conn[p] \in Conns /\ items[k] \in Shown BY <1>1, <2>2, ConnFields DEF Shown
    <3> QED BY <3>1 DEF Conns, PCs
  <2> HIDE DEF c
  <2>4. Sane(c) BY <1>1, <2>1, <2>2, <2>3 DEF Sane, KeyOf
  <2>5. conn' = [conn EXCEPT ![p] = c] BY <1>1, <1>3 DEF c
  <2>6. StoreOK' BY <1>1, <1>3, <2>1, PromoteStore DEF StoreOK
  <2> HIDE DEF c, k
  <2> QED BY <1>1, <2>3, <2>4, <2>5, <2>6, OwnStep
<1>4. CASE /\ k \in DOMAIN items /\ ~Fresh(k, conn[p].asked)
           /\ list' = Unlink(list, k)
           /\ items' = [x \in DOMAIN items \ {k} |-> items[x]]
           /\ conn' = [conn EXCEPT ![p].pc = miss, ![p].held = 0]
  <2>1. conn' = [conn EXCEPT ![p] = d] BY <1>1, <1>4
  <2>2. StoreOK' BY <1>1, <1>4, DropStore
  <2> HIDE DEF d, k
  <2> QED BY <1>1, <1>2, <2>1, <2>2, OwnStep
<1>5. CASE /\ k \notin DOMAIN items
           /\ conn' = [conn EXCEPT ![p].pc = miss, ![p].held = 0]
           /\ UNCHANGED store
  <2>1. conn' = [conn EXCEPT ![p] = d] BY <1>1, <1>5
  <2>2. StoreOK' BY <1>1, <1>5, SameStore
  <2> HIDE DEF d, k
  <2> QED BY <1>1, <1>2, <2>1, <2>2, OwnStep
<1> QED BY <1>3, <1>4, <1>5 DEF Look

\* acquireFlight: the registration and the lead go together.
LEMMA AcquireSafe ==
  ASSUME CacheInv, NEW p \in Procs, Acquire(p)
  PROVE  CacheInv'
<1>1. /\ Sane(conn[p]) /\ conn[p].asked <= now /\ conn[p].req \in Requests
      /\ conn = [q \in Procs |-> conn[q]] /\ KeyOf(p) \in PageKeys
      /\ flight \in [PageKeys -> Procs \cup {NoProc}]
      /\ UNCHANGED <<now, store>> /\ StoreOK' /\ ~Leading(p)
  BY SameStore, KeyOfRequest
  DEF Acquire, CacheInv, ConnsOK, FlightsOK, At, Sane, KeyOf, Leading
<1>2. CASE /\ flight[KeyOf(p)] = NoProc
           /\ flight' = [flight EXCEPT ![KeyOf(p)] = p]
           /\ conn' = [conn EXCEPT ![p].pc = "lead"]
  <2> DEFINE c == [conn[p] EXCEPT !.pc = "lead"]
  <2>1. c.pc = "lead" /\ c.req = conn[p].req /\ c.asked = conn[p].asked /\ Sane(c)
    BY <1>1, ConnFields DEF Sane, Conns, PCs
  <2>2. /\ conn' = [q \in Procs |-> conn'[q]] /\ conn'[p] = c
        /\ \A q \in Procs \ {p} : conn'[q] = conn[q]
    BY <1>1, <1>2
  <2> HIDE DEF c
  <2>3. ConnsOK'
    BY <1>1, <2>1, <2>2
    DEF CacheInv, ConnsOK, Sane, Filed, Conns, Entries, Pages, Rendered, Shown, PCs
  <2>4. FlightsOK'
    <3>1. flight' \in [PageKeys -> Procs \cup {NoProc}] BY <1>1, <1>2
    <3>2. ASSUME NEW q \in Procs, Leading(q)' PROVE (flight[KeyOf(q)] = q)'
      <4>1. CASE q = p BY <4>1, <1>1, <1>2, <2>1, <2>2 DEF KeyOf
      <4>2. CASE q # p
        <5>1. Leading(q) /\ KeyOf(q)' = KeyOf(q) BY <3>2, <4>2, <2>2 DEF Leading, KeyOf
        <5>2. flight[KeyOf(q)] = q /\ q # NoProc
          BY <5>1, HTMLCacheAssumption DEF CacheInv, FlightsOK
        <5> QED BY <5>1, <5>2, <1>1, <1>2
      <4> QED BY <4>1, <4>2
    <3> QED BY <3>1, <3>2 DEF FlightsOK, PageKeys
  <2> QED BY <1>1, <2>3, <2>4 DEF CacheInv
<1>3. CASE /\ flight[KeyOf(p)] # NoProc
           /\ conn' = [conn EXCEPT ![p].pc = "wait", ![p].on = flight[KeyOf(p)]]
           /\ UNCHANGED flight
  <2> DEFINE c == [conn[p] EXCEPT !.pc = "wait", !.on = flight[KeyOf(p)]]
  <2>1. c.pc = "wait" /\ c.req = conn[p].req /\ c.asked = conn[p].asked /\ Sane(c)
    BY <1>1, ConnFields DEF Sane, Conns, PCs
  <2>2. conn' = [conn EXCEPT ![p] = c] BY <1>1, <1>3
  <2> HIDE DEF c
  <2> QED BY <1>1, <1>3, <2>1, <2>2, OwnStep
<1> QED BY <1>2, <1>3 DEF Acquire

LEMMA WakeSafe ==
  ASSUME CacheInv, NEW p \in Procs, Wake(p)
  PROVE  CacheInv'
<1>1. /\ Sane(conn[p]) /\ conn[p].req \in Requests /\ now \in 0..MaxNow
      /\ conn = [q \in Procs |-> conn[q]]
      /\ UNCHANGED <<now, store, flight>> /\ StoreOK'
  BY SameStore DEF Wake, CacheInv, ConnsOK, At, Sane
<1> DEFINE c == [conn[p] EXCEPT !.pc = "relook", !.asked = now, !.on = NoProc]
<1>2. c \in Conns /\ c.pc = "relook" /\ c.req = conn[p].req /\ c.asked = now
  <2>1. conn[p] \in Conns /\ now \in 0..MaxNow BY <1>1, ConnFields
  <2> QED BY <2>1 DEF Conns, PCs
<1>3. conn' = [conn EXCEPT ![p] = c] BY <1>1 DEF Wake
<1> HIDE DEF c
<1>4. c.pc = "relook" /\ c.asked <= now /\ Sane(c) BY <1>1, <1>2 DEF Sane
<1> QED BY <1>1, <1>3, <1>4, OwnStep

\* Serve and RenderAlone end a request.
LEMMA IdleSafe ==
  ASSUME CacheInv, NEW p \in Procs, conn' = [conn EXCEPT ![p] = Idle],
         UNCHANGED <<now, store, flight>>
  PROVE  CacheInv'
<1>1. StoreOK' BY SameStore DEF CacheInv
<1>2. Idle.pc = "idle" /\ Idle.asked <= now BY DEF Idle, CacheInv
<1> QED BY <1>1, <1>2, IdleSane, OwnStep

\* The handlers: what goes to the store is the page that was asked for.
LEMMA RenderSafe ==
  ASSUME CacheInv, NEW p \in Procs, Render(p)
  PROVE  CacheInv'
<1>1. /\ Sane(conn[p]) /\ conn[p].req \in Requests /\ now \in 0..MaxNow
      /\ conn[p].asked <= now /\ conn = [q \in Procs |-> conn[q]] /\ Leading(p)
      /\ UNCHANGED <<now, store, flight>> /\ StoreOK'
  BY SameStore DEF Render, CacheInv, ConnsOK, At, Sane, Leading
<1>2. CASE /\ Storable(conn[p].req)
           /\ conn' = [conn EXCEPT ![p].pc = "store",
                                   ![p].page = [page |-> Page(conn[p].req), at |-> now]]
  <2> DEFINE g == [page |-> Page(conn[p].req), at |-> now]
             c == [conn[p] EXCEPT !.pc = "store", !.page = g]
  <2>1. g \in Rendered /\ g.page = Page(conn[p].req) /\ g.at = now
    BY <1>1 DEF Rendered, Pages
  <2> HIDE DEF g
  <2>2. /\ c.pc = "store" /\ c.req = conn[p].req /\ c.asked = conn[p].asked
        /\ c.page = g /\ c \in Conns
    <3>1. conn[p] \in Conns /\ g \in Shown BY <1>1, <2>1, ConnFields DEF Shown
    <3> QED BY <3>1 DEF Conns, PCs
  <2>3. conn' = [conn EXCEPT ![p] = c] BY <1>1, <1>2 DEF g
  <2> HIDE DEF c
  <2>5. Sane(c) BY <1>1, <1>2, <2>1, <2>2 DEF Sane
  <2> QED BY <1>1, <2>2, <2>3, <2>5, OwnStep
<1>3. CASE conn' = [conn EXCEPT ![p].pc = "release"]
  <2> DEFINE c == [conn[p] EXCEPT !.pc = "release"]
  <2>1. c.pc = "release" /\ c.req = conn[p].req /\ c.asked = conn[p].asked /\ Sane(c)
    BY <1>1, ConnFields DEF Sane, Conns, PCs
  <2>2. conn' = [conn EXCEPT ![p] = c] BY <1>1, <1>3
  <2> HIDE DEF c
  <2> QED BY <1>1, <2>1, <2>2, OwnStep
<1> QED BY <1>2, <1>3 DEF Render

\* store: the deadline is counted from the arrival, which was before the render.
LEMMA StoreSafe ==
  ASSUME CacheInv, NEW p \in Procs, Store(p)
  PROVE  CacheInv'
<1> DEFINE k == KeyOf(p)
           g == conn[p].page
<1>1. /\ Sane(conn[p]) /\ conn[p].req \in Requests /\ conn[p].asked <= now
      /\ conn = [q \in Procs |-> conn[q]] /\ Leading(p) /\ StoreOK
      /\ g \in Rendered /\ conn[p].asked <= g.at
      /\ Storable(conn[p].req) /\ g.page = Page(conn[p].req)
      /\ UNCHANGED <<now, flight>>
      /\ conn' = [conn EXCEPT ![p].pc = "release", ![p].page = Nothing]
  BY DEF Store, CacheInv, ConnsOK, At, Sane, Leading
<1>2. k \in PageKeys /\ k = CacheKey(conn[p].req) BY <1>1, KeyOfRequest DEF KeyOf
<1>3. PICK d \in MaxAges :
        LET e == [page |-> g.page, at |-> g.at, ttl |-> d, deadline |-> Deadline(p, d)]
        IN Replaces(k, e) \/ Inserts(k, e)
  BY DEF Store, Replaces, Inserts
<1> DEFINE e == [page |-> g.page, at |-> g.at, ttl |-> d, deadline |-> Deadline(p, d)]
<1>4. conn[p].asked \in Nat /\ d \in Nat /\ g.at \in Nat /\ g.at \in 0..MaxNow
      /\ g.page \in Pages
  BY <1>1, ConnFields, HTMLCacheAssumption DEF Rendered
<1>5. Deadline(p, d) \in Nat /\ Deadline(p, d) <= g.at + d BY <1>1, <1>4 DEF Deadline
<1>6. e \in Entries /\ e.deadline <= e.at + e.ttl /\ e.page = Page(conn[p].req)
  BY <1>1, <1>4, <1>5 DEF Entries
<1>7. Filed(k, e) BY <1>1, <1>2, <1>6 DEF Filed
<1> HIDE DEF e, k
<1>8. ASSUME Replaces(k, e) PROVE StoreOK'
  <2>1. StoreOK BY <1>1
  <2> QED BY <2>1, <1>7, <1>8, ReplaceStore
<1>9. ASSUME Inserts(k, e) PROVE StoreOK'
  <2>1. StoreOK /\ k \in PageKeys BY <1>1, <1>2
  <2> QED BY <2>1, <1>7, <1>9, InsertStore
<1>10. StoreOK' BY <1>3, <1>8, <1>9 DEF e
<1> DEFINE c == [conn[p] EXCEPT !.pc = "release", !.page = Nothing]
<1>11. c.pc = "release" /\ c.req = conn[p].req /\ c.asked = conn[p].asked /\ Sane(c)
  BY <1>1, ConnFields DEF Sane, Conns, PCs
<1>12. conn' = [conn EXCEPT ![p] = c] BY <1>1
<1> HIDE DEF c
<1> QED BY <1>1, <1>10, <1>11, <1>12, OwnStep

\* releaseFlight's first half: nobody else leads this key, so nobody else's
\* registration goes.
LEMMA ReleaseSafe ==
  ASSUME CacheInv, NEW p \in Procs, Release(p)
  PROVE  CacheInv'
<1>1. /\ Sane(conn[p]) /\ conn[p].asked <= now /\ conn[p].req \in Requests
      /\ conn = [q \in Procs |-> conn[q]] /\ KeyOf(p) \in PageKeys
      /\ flight \in [PageKeys -> Procs \cup {NoProc}] /\ flight[KeyOf(p)] = p
      /\ UNCHANGED <<now, store>> /\ StoreOK'
      /\ flight' = [flight EXCEPT ![KeyOf(p)] = NoProc]
      /\ conn' = [conn EXCEPT ![p].pc = "close"]
  BY SameStore, KeyOfRequest
  DEF Release, CacheInv, ConnsOK, FlightsOK, At, Sane, KeyOf, Leading
<1> DEFINE c == [conn[p] EXCEPT !.pc = "close"]
<1>2. c.pc = "close" /\ c.asked = conn[p].asked /\ Sane(c)
  BY <1>1, ConnFields DEF Sane, Conns, PCs
<1>3. /\ conn' = [q \in Procs |-> conn'[q]] /\ conn'[p] = c
      /\ \A q \in Procs \ {p} : conn'[q] = conn[q]
  BY <1>1
<1> HIDE DEF c
<1>4. ConnsOK'
  BY <1>1, <1>2, <1>3
  DEF CacheInv, ConnsOK, Sane, Filed, Conns, Entries, Pages, Rendered, Shown, PCs
<1>5. FlightsOK'
  <2>1. flight' \in [PageKeys -> Procs \cup {NoProc}] BY <1>1
  <2>2. ASSUME NEW q \in Procs, Leading(q)' PROVE (flight[KeyOf(q)] = q)'
    <3>1. q # p BY <2>2, <1>2, <1>3 DEF Leading
    <3>2. Leading(q) /\ KeyOf(q)' = KeyOf(q) BY <2>2, <3>1, <1>3 DEF Leading, KeyOf
    <3>3. flight[KeyOf(q)] = q BY <3>2 DEF CacheInv, FlightsOK
    <3> QED BY <3>1, <3>2, <3>3, <1>1
  <2> QED BY <2>1, <2>2 DEF FlightsOK, PageKeys
<1> QED BY <1>1, <1>4, <1>5 DEF CacheInv

\* releaseFlight's second half moves waiters on.
LEMMA CloseSafe ==
  ASSUME CacheInv, NEW p \in Procs, Close(p)
  PROVE  CacheInv'
<1>1. UNCHANGED <<now, store, flight>> /\ StoreOK'
      /\ conn' = [q \in Procs |->
                    IF q = p THEN Idle
                    ELSE IF At(q, "wait") /\ conn[q].on = p
                         THEN [conn[q] EXCEPT !.pc = "woken"]
                         ELSE conn[q]]
  BY SameStore DEF Close, CacheInv
<1>2. ASSUME NEW q \in Procs
      PROVE  /\ Sane(conn'[q]) /\ conn'[q].asked <= now
             /\ Leading(q)' => Leading(q) /\ conn'[q].req = conn[q].req
  <2>1. Sane(conn[q]) /\ conn[q].asked <= now BY DEF CacheInv, ConnsOK
  <2>2. CASE q = p
    <3>1. conn'[q] = Idle BY <1>1, <2>2
    <3>2. Idle.pc = "idle" /\ Idle.asked <= now BY DEF Idle, CacheInv
    <3> QED BY <3>1, <3>2, IdleSane DEF Leading
  <2>3. CASE q # p /\ At(q, "wait") /\ conn[q].on = p
    <3> DEFINE c == [conn[q] EXCEPT !.pc = "woken"]
    <3>1. conn'[q] = c BY <1>1, <2>3
    <3>2. c.pc = "woken" /\ c.asked = conn[q].asked /\ Sane(c)
      BY <2>1, <2>3, ConnFields DEF Sane, Conns, PCs, At
    <3> HIDE DEF c
    <3> QED BY <2>1, <3>1, <3>2 DEF Leading
  <2>4. CASE q # p /\ ~(At(q, "wait") /\ conn[q].on = p)
    <3>1. conn'[q] = conn[q] BY <1>1, <2>4
    <3> QED BY <2>1, <3>1 DEF Leading
  <2> QED BY <2>2, <2>3, <2>4
<1>3. conn' = [q \in Procs |-> conn'[q]] BY <1>1
<1>4. ConnsOK'
  <2>1. ASSUME NEW q \in Procs PROVE (Sane(conn[q]) /\ conn[q].asked <= now)'
    <3>1. Sane(conn'[q]) /\ conn'[q].asked <= now BY <1>2
    <3> QED
      BY <1>1, <3>1 DEF Sane, Filed, Conns, Entries, Pages, Rendered, Shown, PCs
  <2> QED BY <1>3, <2>1 DEF ConnsOK
<1>5. FlightsOK'
  BY <1>1, <1>2 DEF CacheInv, FlightsOK, KeyOf, PageKeys
<1> QED BY <1>1, <1>4, <1>5 DEF CacheInv

\* Time passes: whoever looks is held up.
LEMMA TickSafe ==
  ASSUME CacheInv, Tick
  PROVE  CacheInv'
<1>1. now \in 0..MaxNow /\ now' \in 0..MaxNow /\ now <= now'
      /\ UNCHANGED <<store, flight>> /\ StoreOK'
      /\ conn' = [q \in Procs |-> IF Looking(q) THEN [conn[q] EXCEPT !.held = @ + 1]
                                  ELSE conn[q]]
  BY SameStore, HTMLCacheAssumption DEF Tick, CacheInv
<1>2. ASSUME NEW q \in Procs
      PROVE  /\ Sane(conn'[q]) /\ conn'[q].asked <= now'
             /\ conn'[q].pc = conn[q].pc /\ conn'[q].req = conn[q].req
  <2>1. Sane(conn[q]) /\ conn[q].asked <= now BY DEF CacheInv, ConnsOK
  <2>2. conn[q] \in Conns /\ conn[q].asked \in 0..MaxNow /\ conn[q].held \in Nat
    BY <2>1, ConnFields
  <2>3. conn[q].asked <= now' BY <1>1, <2>1, <2>2
  <2>4. CASE Looking(q)
    <3> DEFINE c == [conn[q] EXCEPT !.held = @ + 1]
    <3>1. conn'[q] = c BY <1>1, <2>4
    <3>2. /\ c \in Conns /\ c.pc = conn[q].pc /\ c.req = conn[q].req
          /\ c.asked = conn[q].asked /\ c.page = conn[q].page
      BY <2>2 DEF Conns
    <3> HIDE DEF c
    <3>3. Sane(c) BY <2>1, <3>2 DEF Sane
    <3> QED BY <2>3, <3>1, <3>2, <3>3
  <2>5. CASE ~Looking(q)
    <3>1. conn'[q] = conn[q] BY <1>1, <2>5
    <3> QED BY <2>1, <2>3, <3>1
  <2> QED BY <2>4, <2>5
<1>3. ConnsOK'
  BY <1>1, <1>2
  DEF CacheInv, ConnsOK, Sane, Filed, Conns, Entries, Pages, Rendered, Shown, PCs
<1>4. FlightsOK' BY <1>1, <1>2 DEF CacheInv, FlightsOK, Leading, KeyOf, PageKeys
<1> QED BY <1>1, <1>3, <1>4 DEF CacheInv

LEMMA StutterSafe ==
  ASSUME CacheInv, UNCHANGED vars
  PROVE  CacheInv'
<1>1. UNCHANGED <<now, store, flight, conn>> BY DEF vars, store
<1>2. StoreOK' BY <1>1, SameStore DEF CacheInv
<1>3. ConnsOK'
  BY <1>1 DEF CacheInv, ConnsOK, Sane, Filed, Conns, Entries, Pages, Rendered, Shown, PCs
<1>4. FlightsOK' BY <1>1 DEF CacheInv, FlightsOK, Leading, KeyOf, PageKeys
<1> QED BY <1>1, <1>2, <1>3, <1>4 DEF CacheInv

-----------------------------------------------------------------------------
\* The inductive invariant holds: map and list in step, leaders registered, every
\* entry filed under the key of the page it holds and no longer than its max-age.
THEOREM Safety == Spec => []CacheInv
<1>1. Init => CacheInv BY Init_CacheInv
<1>2. CacheInv /\ [Next]_vars => CacheInv'
  <2> SUFFICES ASSUME CacheInv, [Next]_vars PROVE CacheInv' OBVIOUS
  <2>1. ASSUME NEW p \in Procs, NEW r \in Requests, Arrive(p, r) PROVE CacheInv'
    BY <2>1, ArriveSafe
  <2>2. ASSUME NEW p \in Procs, Step(p) PROVE CacheInv'
    <3>1. CASE Lookup(p) BY <3>1, LookSafe DEF Lookup, At
    <3>2. CASE Acquire(p) BY <3>2, AcquireSafe
    <3>3. CASE Wake(p) BY <3>3, WakeSafe
    <3>4. CASE Relook(p) BY <3>4, LookSafe DEF Relook, At
    <3>5. CASE Serve(p) BY <3>5, IdleSafe DEF Serve
    <3>6. CASE Render(p) BY <3>6, RenderSafe
    <3>7. CASE RenderAlone(p) BY <3>7, IdleSafe DEF RenderAlone
    <3>8. CASE Store(p) BY <3>8, StoreSafe
    <3>9. CASE Release(p) BY <3>9, ReleaseSafe
    <3>10. CASE Close(p) BY <3>10, CloseSafe
    <3> QED
      BY <2>2, <3>1, <3>2, <3>3, <3>4, <3>5, <3>6, <3>7, <3>8, <3>9, <3>10 DEF Step
  <2>3. CASE Tick BY <2>3, TickSafe
  <2>4. CASE UNCHANGED vars BY <2>4, StutterSafe
  <2> QED BY <2>1, <2>2, <2>3, <2>4 DEF Next
<1> QED BY <1>1, <1>2, PTL DEF Spec

\* The state is well typed.
THEOREM TypeCorrect == Spec => []TypeOK
<1>1. CacheInv => TypeOK
  <2> SUFFICES ASSUME CacheInv PROVE TypeOK OBVIOUS
  <2>1. now \in 0..MaxNow /\ DOMAIN items \subseteq PageKeys
        /\ items \in [DOMAIN items -> Entries]
        /\ list \in Seq(PageKeys) /\ flight \in [PageKeys -> Procs \cup {NoProc}]
    BY DEF CacheInv, StoreOK, FlightsOK, Filed
  <2>2. ASSUME NEW p \in Procs
        PROVE  /\ conn[p].pc \in PCs /\ conn[p].asked \in 0..MaxNow /\ conn[p].held \in Nat
               /\ conn[p].on \in Procs \cup {NoProc}
               /\ ~At(p, "idle") => conn[p].req \in Requests
               /\ At(p, "store") => conn[p].page \in [page : Pages, at : 0..MaxNow]
               /\ At(p, "serve") => conn[p].page \in Entries
    <3>1. Sane(conn[p]) BY DEF CacheInv, ConnsOK
    <3> QED BY <3>1, ConnFields DEF Sane, At, Rendered, Filed
  <2> QED BY <2>1, <2>2 DEF TypeOK
<1> QED BY <1>1, Safety, PTL

\* The map and the list hold the same keys, once each, within the capacity
\* (htmlcache.go: lookup, store).
THEOREM ListAndMapAgree == Spec => []ListMatchesMap
<1>1. CacheInv => ListMatchesMap BY DEF CacheInv, StoreOK
<1> QED BY <1>1, Safety, PTL

\* A key has one leader at a time (htmlcache.go: acquireFlight, releaseFlight).
THEOREM AtMostOneLeader == Spec => []OneLeaderPerKey
<1>1. CacheInv => OneLeaderPerKey
  BY DEF CacheInv, FlightsOK, OneLeaderPerKey
<1> QED BY <1>1, Safety, PTL

\* Nobody looks with a clock that is older than what he has been held up since: a
\* waiter, too, has read it after the leader's end.
Counted == \A p \in Procs : Looking(p) => now <= conn[p].asked + conn[p].held

\* Who reads the clock reads it now; time that passes afterwards is counted.
LEMMA CountedStep ==
  ASSUME CacheInv, Counted, [Next]_vars
  PROVE  Counted'
<1>1. now \in 0..MaxNow /\ conn = [q \in Procs |-> conn[q]]
  BY DEF CacheInv, ConnsOK
<1>2. ASSUME NEW q \in Procs PROVE conn[q].asked \in 0..MaxNow /\ conn[q].held \in Nat
  BY ConnFields DEF CacheInv, ConnsOK
<1>3. ASSUME NEW p \in Procs, NEW c, conn' = [conn EXCEPT ![p] = c], now' = now,
             c.pc \in {"lookup", "relook", "serve"} => now <= c.asked + c.held
      PROVE  Counted'
  BY <1>1, <1>3 DEF Counted, Looking
<1>4. ASSUME NEW p \in Procs, NEW r \in Requests, Arrive(p, r) PROVE Counted'
  <2> DEFINE c == [Idle EXCEPT !.pc = "lookup", !.req = r, !.asked = now]
  <2>1. c.asked = now /\ c.held = 0 BY DEF Idle
  <2>2. conn' = [conn EXCEPT ![p] = c] /\ now' = now BY <1>4 DEF Arrive
  <2> HIDE DEF c
  <2> QED BY <1>1, <1>3, <2>1, <2>2
<1>5. ASSUME NEW p \in Procs, NEW miss \in {"missed", "follow"}, Looking(p),
             Look(p, miss), now' = now
      PROVE  Counted'
  <2> DEFINE c == [conn[p] EXCEPT !.pc = "serve", !.page = items[KeyOf(p)]]
             d == [conn[p] EXCEPT !.pc = miss, !.held = 0]
  <2>1. conn[p] \in Conns BY ConnFields DEF CacheInv, ConnsOK
  <2>2. c.asked = conn[p].asked /\ c.held = conn[p].held /\ d.pc = miss
    BY <2>1 DEF Conns
  <2>3. conn' = [conn EXCEPT ![p] = c] \/ conn' = [conn EXCEPT ![p] = d]
    BY <1>1, <1>5 DEF Look
  <2>4. now <= conn[p].asked + conn[p].held BY <1>5 DEF Counted
  <2> HIDE DEF c, d
  <2> QED BY <1>3, <1>5, <2>2, <2>3, <2>4
<1>6. ASSUME NEW p \in Procs, Wake(p) PROVE Counted'
  <2> DEFINE c == [conn[p] EXCEPT !.pc = "relook", !.asked = now, !.on = NoProc]
  <2>1. conn[p] \in Conns BY ConnFields DEF CacheInv, ConnsOK
  <2>2. c.asked = now /\ c.held = conn[p].held BY <2>1 DEF Conns
  <2>3. conn' = [conn EXCEPT ![p] = c] /\ now' = now BY <1>1, <1>6 DEF Wake
  <2> HIDE DEF c
  <2> QED BY <1>1, <1>2, <1>3, <2>2, <2>3
<1>7. ASSUME NEW p \in Procs,
             Acquire(p) \/ Serve(p) \/ Render(p) \/ RenderAlone(p) \/ Store(p) \/ Release(p)
      PROVE  Counted'
  <2>1. now' = now /\ \A q \in Procs \ {p} : conn'[q] = conn[q]
    BY <1>1, <1>7 DEF Acquire, Serve, Render, RenderAlone, Store, Release
  <2>2. conn'[p].pc \in {"lead", "wait", "idle", "store", "release", "close"}
    <3>1. conn[p] \in Conns BY ConnFields DEF CacheInv, ConnsOK
    <3> QED BY <1>1, <1>7, <3>1 
        DEF Acquire, Serve, Render, RenderAlone, Store, Release, Idle, Conns
  <2> QED BY <2>1, <2>2 DEF Counted, Looking
<1>8. ASSUME NEW p \in Procs, Close(p) PROVE Counted'
  <2>1. ASSUME NEW q \in Procs
        PROVE  conn'[q] = conn[q] \/ conn'[q].pc \in {"idle", "woken"}
    <3>1. conn[q] \in Conns BY ConnFields DEF CacheInv, ConnsOK
    <3> QED BY <1>8, <3>1 DEF Close, Idle, Conns
  <2> QED BY <1>8, <2>1 DEF Counted, Looking, Close
<1>9. CASE Tick
  <2> SUFFICES ASSUME NEW q \in Procs, Looking(q)'
               PROVE  now' <= conn'[q].asked + conn'[q].held
    BY DEF Counted
  <2>1. conn[q] \in Conns BY ConnFields DEF CacheInv, ConnsOK
  <2>2. now' = now + 1
        /\ conn'[q] = IF Looking(q) THEN [conn[q] EXCEPT !.held = @ + 1] ELSE conn[q]
    BY <1>9 DEF Tick
  <2>3. Looking(q) BY <2>2 DEF Looking
  <2>4. conn'[q].asked = conn[q].asked /\ conn'[q].held = conn[q].held + 1
    BY <2>1, <2>2, <2>3 DEF Conns
  <2> QED BY <1>1, <1>2, <2>2, <2>3, <2>4 DEF Counted
<1>10. CASE UNCHANGED vars
  BY <1>10 DEF vars, Counted, Looking
<1>11. ASSUME NEW p \in Procs, Step(p) PROVE Counted'
  <2>1. CASE Lookup(p) BY <1>5, <2>1 DEF Lookup, Looking, At
  <2>2. CASE Relook(p) BY <1>5, <2>2 DEF Relook, Looking, At
  <2> QED BY <1>6, <1>7, <1>8, <1>11, <2>1, <2>2 DEF Step
<1> QED BY <1>4, <1>9, <1>10, <1>11 DEF Next

\* A page that leaves the cache is younger than its max-age by the wall clock, but for
\* what its own request was held up between reading the clock and the page's going
\* out, however long its leader took and however long it waited for one
\* (htmlcache.go: Middleware, lookup, serve).
THEOREM ServedUpToOwnDelay == Spec => []YoungUpToOwnDelay
<1>1. Init => Counted BY DEF Init, Counted, Looking, Idle
<1>2. CacheInv /\ Counted /\ [Next]_vars => Counted' BY CountedStep
<1>3. CacheInv /\ Counted => YoungUpToOwnDelay
  <2> SUFFICES ASSUME CacheInv, Counted, NEW p \in Procs, At(p, "serve")
               PROVE  now < conn[p].page.at + conn[p].page.ttl + conn[p].held
    BY DEF YoungUpToOwnDelay
  <2>1. Sane(conn[p]) /\ now \in 0..MaxNow BY DEF CacheInv, ConnsOK
  <2>2. /\ conn[p].page \in Entries /\ conn[p].asked < conn[p].page.deadline
        /\ conn[p].page.deadline <= conn[p].page.at + conn[p].page.ttl
    BY <2>1 DEF Sane, Filed, At
  <2>3. conn[p].asked \in 0..MaxNow /\ conn[p].held \in Nat BY <2>1, ConnFields
  <2>4. /\ conn[p].page.deadline \in Nat /\ conn[p].page.at \in 0..MaxNow
        /\ conn[p].page.ttl \in MaxAges
    BY <2>2 DEF Entries
  <2>5. \A d \in MaxAges : d \in Nat BY HTMLCacheAssumption
  <2>6. conn[p].page.ttl \in Nat BY <2>4, <2>5
  <2>7. now <= conn[p].asked + conn[p].held BY DEF Counted, Looking, At
  <2> QED BY <2>1, <2>2, <2>3, <2>4, <2>6, <2>7
<1> QED BY <1>1, <1>2, <1>3, Safety, PTL DEF Spec

\* What cacheKey's comment demands of the key: a request whose page is kept shares
\* its key only with requests for the same page.
KeyDeterminesPage ==
  \A r, s \in Requests : Storable(r) /\ CacheKey(r) = CacheKey(s) => Page(r) = Page(s)

\* Where the key does what its comment demands, a hit is the page that was asked for:
\* the cache mixes up no pages that its key tells apart (htmlcache.go: Middleware).
THEOREM ServedOwn ==
  ASSUME KeyDeterminesPage
  PROVE  Spec => []ServesOwnPage
<1>1. CacheInv => ServesOwnPage
  <2> SUFFICES ASSUME CacheInv, NEW p \in Procs, At(p, "serve")
               PROVE  conn[p].page.page = Page(conn[p].req)
    BY DEF ServesOwnPage
  <2>1. Sane(conn[p]) BY DEF CacheInv, ConnsOK
  <2>2. conn[p].req \in Requests /\ Filed(CacheKey(conn[p].req), conn[p].page)
    BY <2>1 DEF Sane, At
  <2>3. PICK r \in Requests : /\ Storable(r) /\ CacheKey(r) = CacheKey(conn[p].req)
                              /\ conn[p].page.page = Page(r)
    BY <2>2 DEF Filed
  <2> QED BY <2>2, <2>3 DEF KeyDeterminesPage
<1> QED BY <1>1, Safety, PTL
=============================================================================

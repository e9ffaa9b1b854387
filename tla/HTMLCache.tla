----------------------------- MODULE HTMLCache -----------------------------
(***************************************************************************)
(* internal/htmlcache: the gin middleware that keeps rendered HTML pages.  *)
(*                                                                         *)
(* A goroutine serves a request: it reads the clock (Arrive), looks the    *)
(* key up with that time (Lookup), claims the flight or waits for its      *)
(* leader (Acquire), runs the handlers behind it (Render), and, as the     *)
(* leader, stores the page (Store), gives the flight up (Release) and      *)
(* closes the channel (Close).  Release and Close are two steps:           *)
(* releaseFlight closes the channel after it has let go of the mutex.  The *)
(* channel of a flight is identified by its leader, who leads no other     *)
(* until he has closed it.                                                 *)
(***************************************************************************)
EXTENDS LRU, Request, FiniteSets

CONSTANTS
  Procs,      \* goroutines that serve requests
  Requests,   \* the requests clients send
  MaxAges,    \* max-age values of cacheable responses
  MaxArg,     \* the argument of NewWithCapacity
  DefaultMaxEntries,
  MaxNow,     \* bound: the clock stops here
  NoProc,     \* "nobody leads"
  Nothing     \* "no request", "no page"

\* NewWithCapacity: a capacity that is not positive means the default.
Max == IF MaxArg <= 0 THEN DefaultMaxEntries ELSE MaxArg

ASSUME HTMLCacheAssumption ==
  /\ MaxAges \subseteq Nat \ {0}
  /\ MaxArg \in Int
  /\ DefaultMaxEntries \in Nat \ {0}
  /\ MaxNow \in Nat
  /\ NoProc \notin Procs

PageKeys == {CacheKey(r) : r \in Requests}

VARIABLES
  now,      \* the wall clock
  items,    \* the map: a function from the keys held to their entries
  list,     \* the list, front = most recently used
  flight,   \* who leads the flight of each key
  conn      \* each goroutine's request: where it is, the request, the time it
            \* read, how long ago that is while it looks and serves, the leader
            \* it waits on, the entry it was rendering or serves

vars == <<now, items, list, flight, conn>>
store == <<items, list>>

PCs == {"idle", "lookup", "missed", "wait", "woken", "relook", "serve",
        "lead", "follow", "store", "release", "close"}
Idle == [pc |-> "idle", req |-> Nothing, asked |-> 0, held |-> 0, on |-> NoProc,
         page |-> Nothing]
Pages == {Page(r) : r \in Requests}
Entries == [page : Pages, at : 0..MaxNow, ttl : MaxAges, deadline : Nat]

At(p, where) == conn[p].pc = where
KeyOf(p) == CacheKey(conn[p].req)
Leading(p) == conn[p].pc \in {"lead", "store", "release"}

\* p has read the clock for a lookup and has not come away from the cache since.
\* conn[p].held is a history variable: the ticks p has been at that.
Looking(p) == conn[p].pc \in {"lookup", "relook", "serve"}

Init ==
  /\ now = 0
  /\ items = <<>>
  /\ list = <<>>
  /\ flight = [k \in PageKeys |-> NoProc]
  /\ conn = [p \in Procs |-> Idle]

\* The middleware is entered and reads the clock.  Any method but GET passes
\* through untouched.
Arrive(p, r) ==
  /\ At(p, "idle")
  /\ r.method = "GET"
  /\ conn' = [conn EXCEPT ![p] = [Idle EXCEPT !.pc = "lookup", !.req = r, !.asked = now]]
  /\ UNCHANGED <<now, store, flight>>

\* lookup finds an entry that time t has not reached the deadline of.
Fresh(k, t) == k \in DOMAIN items /\ t < items[k].deadline

\* Mutant: lookup drops an expired entry from the map and leaves the list.
LookKeepingElement(p, miss) ==
  LET k == KeyOf(p)
  IN  IF Fresh(k, conn[p].asked)
      THEN /\ list' = MoveToFront(list, k)
           /\ conn' = [conn EXCEPT ![p].pc = "serve", ![p].page = items[k]]
           /\ UNCHANGED items
      ELSE /\ items' = [x \in DOMAIN items \ {k} |-> items[x]]
           /\ conn' = [conn EXCEPT ![p].pc = miss, ![p].held = 0]
           /\ UNCHANGED list

\* lookup with the time p has read: a hit is promoted and on its way to serve;
\* an expired entry is dropped and is a miss.
Look(p, miss) ==
  LET k == KeyOf(p)
  IN  \/ /\ Fresh(k, conn[p].asked)
         /\ list' = MoveToFront(list, k)
         /\ conn' = [conn EXCEPT ![p].pc = "serve", ![p].page = items[k]]
         /\ UNCHANGED items
      \/ /\ k \in DOMAIN items /\ ~Fresh(k, conn[p].asked)
         /\ list' = Unlink(list, k)
         /\ items' = [x \in DOMAIN items \ {k} |-> items[x]]
         /\ conn' = [conn EXCEPT ![p].pc = miss, ![p].held = 0]
      \/ /\ k \notin DOMAIN items
         /\ conn' = [conn EXCEPT ![p].pc = miss, ![p].held = 0]
         /\ UNCHANGED store

Lookup(p) ==
  /\ At(p, "lookup")
  /\ Look(p, "missed")
  /\ UNCHANGED <<now, flight>>

\* acquireFlight
Acquire(p) ==
  /\ At(p, "missed")
  /\ \/ /\ flight[KeyOf(p)] = NoProc
        /\ flight' = [flight EXCEPT ![KeyOf(p)] = p]
        /\ conn' = [conn EXCEPT ![p].pc = "lead"]
     \/ /\ flight[KeyOf(p)] # NoProc
        /\ conn' = [conn EXCEPT ![p].pc = "wait", ![p].on = flight[KeyOf(p)]]
        /\ UNCHANGED flight
  /\ UNCHANGED <<now, store>>

\* Mutant: the waiter looks again with the time of its arrival.
WakeWithArrival(p) ==
  /\ At(p, "woken")
  /\ conn' = [conn EXCEPT ![p].pc = "relook", ![p].on = NoProc]
  /\ UNCHANGED <<now, store, flight>>

\* A woken waiter reads the clock again (a waiter never stores, so the time of
\* its arrival is of no more use) ...
Wake(p) ==
  /\ At(p, "woken")
  /\ conn' = [conn EXCEPT ![p].pc = "relook", ![p].asked = now, ![p].on = NoProc]
  /\ UNCHANGED <<now, store, flight>>

\* ... and looks again; when the leader left nothing to serve, it renders too.
Relook(p) ==
  /\ At(p, "relook")
  /\ Look(p, "follow")
  /\ UNCHANGED <<now, flight>>

\* serve: the entry goes out and the request is over.
Serve(p) ==
  /\ At(p, "serve")
  /\ conn' = [conn EXCEPT ![p] = Idle]
  /\ UNCHANGED <<now, store, flight>>

\* Mutant: a panic skips releaseFlight (no defer).
RenderPanicking(p) ==
  /\ At(p, "lead")
  /\ conn' = [conn EXCEPT ![p] = Idle]
  /\ UNCHANGED <<now, store, flight>>

\* Mutant: a response is kept whatever its status.
RenderKeepingErrors(p) ==
  /\ At(p, "lead")
  /\ conn' = [conn EXCEPT ![p].pc = "store"]
  /\ UNCHANGED <<now, store, flight>>

\* The handlers run for a leader.  They answer with the page, which may be worth
\* keeping; or with an error status (an upstream is down); or they panic, and
\* the deferred releaseFlight is all that still runs.
Render(p) ==
  /\ At(p, "lead")
  /\ \/ /\ Storable(conn[p].req)
        /\ conn' = [conn EXCEPT ![p].pc = "store",
                                ![p].page = [page |-> Page(conn[p].req), at |-> now]]
     \/ conn' = [conn EXCEPT ![p].pc = "release"]
  /\ UNCHANGED <<now, store, flight>>

\* Mutant: whoever has rendered gives the flight up, leader or not.
RenderAloneReleasing(p) ==
  /\ At(p, "follow")
  /\ conn' = [conn EXCEPT ![p] = Idle]
  /\ flight' = [flight EXCEPT ![KeyOf(p)] = NoProc]
  /\ UNCHANGED <<now, store>>

\* The handlers run for a waiter that found nothing: nothing is kept.
RenderAlone(p) ==
  /\ At(p, "follow")
  /\ conn' = [conn EXCEPT ![p] = Idle]
  /\ UNCHANGED <<now, store, flight>>

\* The deadline of a page: its leader's arrival plus max-age.
Deadline(p, d) == conn[p].asked + d

\* store: replace, or insert and evict.
Store(p) ==
  LET k == KeyOf(p)
  IN  /\ At(p, "store")
      /\ \E d \in MaxAges :
           LET e == [page |-> conn[p].page.page, at |-> conn[p].page.at,
                     ttl |-> d, deadline |-> Deadline(p, d)]
           IN \/ /\ k \in DOMAIN items
                 /\ items' = [items EXCEPT ![k] = e]
                 /\ list' = MoveToFront(list, k)
              \/ /\ k \notin DOMAIN items
                 /\ list' = PushFront(list, k, Max)
                 /\ items' = [x \in (DOMAIN items \cup {k}) \ Evicted(list, k, Max) |->
                                IF x = k THEN e ELSE items[x]]
      /\ conn' = [conn EXCEPT ![p].pc = "release", ![p].page = Nothing]
      /\ UNCHANGED <<now, flight>>

\* releaseFlight, under the mutex.
Release(p) ==
  /\ At(p, "release")
  /\ flight' = [flight EXCEPT ![KeyOf(p)] = NoProc]
  /\ conn' = [conn EXCEPT ![p].pc = "close"]
  /\ UNCHANGED <<now, store>>

\* releaseFlight closes the channel: everybody who waits on it may go on.
Close(p) ==
  /\ At(p, "close")
  /\ conn' = [q \in Procs |->
                IF q = p THEN Idle
                ELSE IF At(q, "wait") /\ conn[q].on = p THEN [conn[q] EXCEPT !.pc = "woken"]
                ELSE conn[q]]
  /\ UNCHANGED <<now, store, flight>>

Tick ==
  /\ now < MaxNow
  /\ now' = now + 1
  /\ conn' = [p \in Procs |-> IF Looking(p) THEN [conn[p] EXCEPT !.held = @ + 1]
                              ELSE conn[p]]
  /\ UNCHANGED <<store, flight>>

Step(p) ==
  \/ Lookup(p)
  \/ Acquire(p)
  \/ Wake(p)
  \/ Relook(p)
  \/ Serve(p)
  \/ Render(p)
  \/ RenderAlone(p)
  \/ Store(p)
  \/ Release(p)
  \/ Close(p)

Next ==
  \/ \E p \in Procs, r \in Requests : Arrive(p, r)
  \/ \E p \in Procs : Step(p)
  \/ Tick

Spec == Init /\ [][Next]_vars

\* Goroutines are scheduled and handlers end: the upstream clients carry
\* deadlines.  Nobody is obliged to send a request.
FairSpec == Spec /\ \A p \in Procs : WF_vars(Step(p))
-----------------------------------------------------------------------------
\* Types of the state.
TypeOK ==
  /\ now \in 0..MaxNow
  /\ DOMAIN items \subseteq PageKeys /\ items \in [DOMAIN items -> Entries]
  /\ list \in Seq(PageKeys)
  /\ flight \in [PageKeys -> Procs \cup {NoProc}]
  /\ \A p \in Procs :
       /\ conn[p].pc \in PCs /\ conn[p].asked \in 0..MaxNow /\ conn[p].held \in Nat
       /\ conn[p].on \in Procs \cup {NoProc}
       /\ ~At(p, "idle") => conn[p].req \in Requests
       /\ At(p, "store") => conn[p].page \in [page : Pages, at : 0..MaxNow]
       /\ At(p, "serve") => conn[p].page \in Entries

\* Map and list never disagree and the capacity is never exceeded, with three
\* ways to take an entry out: expiry in lookup, replacement, eviction.
ListMatchesMap ==
  /\ KeysOf(list) = DOMAIN items
  /\ Distinct(list)
  /\ Len(list) <= Max

\* One leader per key at a time, from acquireFlight until releaseFlight, with
\* followers rendering the same key beside him.
OneLeaderPerKey ==
  \A p, q \in Procs : Leading(p) /\ Leading(q) /\ KeyOf(p) = KeyOf(q) => p = q

\* A page from the cache is the page its request asked for: the one the
\* handlers would have rendered (cacheKey: "Captures everything that affects
\* the rendered HTML so two requests producing different bodies don't collide").
ServesOwnPage ==
  \A p \in Procs : At(p, "serve") => conn[p].page.page = Page(conn[p].req)

\* By the wall clock, for as long as a page is on its way out of the cache: its age,
\* counted from when it was rendered, is below its max-age plus what its own request
\* has been held up since it last read the clock (Middleware reads it before lookup
\* takes the mutex, and does not look at it again before serve).  That is all
\* that is added: neither the time between the leader's arrival, render and store
\* nor the time a waiter spends behind a leader.
YoungUpToOwnDelay ==
  \A p \in Procs : At(p, "serve") =>
    now < conn[p].page.at + conn[p].page.ttl + conn[p].held

\* Every request is answered, also behind a leader whose handler panicked.
EveryRequestEnds == \A p \in Procs : ~At(p, "idle") ~> At(p, "idle")
=============================================================================

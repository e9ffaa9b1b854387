------------------------------ MODULE TTLCache ------------------------------
(***************************************************************************)
(* internal/ttlcache: the TTL + LRU + singleflight cache in front of every *)
(* upstream market provider.                                               *)
(*                                                                         *)
(* One action per critical section: a goroutine p calls GetOrFetch (Call), *)
(* enters singleflight.Do (Enter), and, when it leads the flight, looks    *)
(* again (Recheck), waits for the upstream (Answer), stores what it got    *)
(* (Store) and closes the flight (Finish).  Everybody else on the flight   *)
(* waits and shares its result.  Set called from outside GetOrFetch        *)
(* (retail futures, snapshot load) is SetEntry.                            *)
(*                                                                         *)
(* A value is abstracted to its payload and to the time the upstream       *)
(* answered it.  The payload stands for the pair (Value, Found): a         *)
(* negative answer is one more payload.                                    *)
(***************************************************************************)
EXTENDS LRU, FiniteSets

CONSTANTS
  Procs,        \* goroutines that call the cache
  Keys,         \* cache keys
  SetKeys,      \* the keys some caller also writes with Set
  Payloads,     \* (Value, Found) pairs an upstream can answer
  TTLs,         \* the ttl arguments of callers
  CapArg,       \* the argument of New
  DefaultCap,   \* ttlcache.DefaultCap (4096 in the code)
  MaxNow,       \* bound: the clock stops here
  Failure,      \* what a caller gets when fetch failed
  NoProc,       \* "no goroutine"
  NoKey         \* "no key": the goroutine is not in a call

\* New: a capacity that is not positive means the default.
Cap == IF CapArg <= 0 THEN DefaultCap ELSE CapArg

ASSUME TTLCacheAssumption ==
  /\ SetKeys \subseteq Keys
  /\ TTLs \subseteq Nat \ {0}
  /\ CapArg \in Int
  /\ DefaultCap \in Nat \ {0}
  /\ MaxNow \in Nat \ {0}
  /\ NoProc \notin Procs
  /\ NoKey \notin Keys
  /\ Failure \notin [payload : Payloads, at : 1..MaxNow]

VARIABLES
  now,      \* the wall clock, in ticks
  items,    \* the map: a function on the keys it holds
  lru,      \* the list, front = most recently used
  flight,   \* singleflight.Group.m: the goroutine that runs the key's call
  call,     \* each goroutine's GetOrFetch: where it is, its arguments, and the
            \* answer it carries (fetched, found, shared, or Failure)
  used,     \* history: all keys by last use, most recent first
  seen      \* history: when the last answer given to a goroutine was fetched

store == <<items, lru, used>>
vars == <<now, items, lru, flight, call, used, seen>>

Answers == [payload : Payloads, at : 1..MaxNow]
NoExpiry == 0        \* the zero time.Time: the entry never expires
Entries == [ans : Answers, exp : Nat]
PCs == {"idle", "miss", "recheck", "fetch", "store", "finish", "wait", "woken"}
Idle == [pc |-> "idle", key |-> NoKey, ttl |-> 0, res |-> Failure]

\* The test of Get and All: zero, or strictly after the clock.
Live(e, t) == e.exp = NoExpiry \/ e.exp > t

\* Get finds an entry that has not expired.
Hit(k) == k \in DOMAIN items /\ Live(items[k], now)

At(p, where) == call[p].pc = where

Init ==
  /\ now = 1
  /\ items = <<>>
  /\ lru = <<>>
  /\ flight = [k \in Keys |-> NoProc]
  /\ call = [p \in Procs |-> Idle]
  /\ used = <<>>
  /\ seen = [p \in Procs |-> [k \in Keys |-> 0]]

\* Mutant: a hit does not promote.
TouchWithoutPromote(k) == used' = Use(used, k) /\ UNCHANGED <<items, lru>>

\* Get on a hit: promote the key.
Touch(k) ==
  /\ lru' = MoveToFront(lru, k)
  /\ used' = Use(used, k)
  /\ UNCHANGED items

\* Mutant: eviction takes the key off the list and forgets the map.
PutLeaking(k, e) ==
  /\ used' = Use(used, k)
  /\ items' = [x \in DOMAIN items \cup {k} |-> IF x = k THEN e ELSE items[x]]
  /\ lru' = IF k \in DOMAIN items THEN MoveToFront(lru, k) ELSE PushFront(lru, k, Cap)

\* Set, all of it: replace and promote, or insert and evict.
Put(k, e) ==
  /\ used' = Use(used, k)
  /\ \/ /\ k \in DOMAIN items
        /\ items' = [items EXCEPT ![k] = e]
        /\ lru' = MoveToFront(lru, k)
     \/ /\ k \notin DOMAIN items
        /\ lru' = PushFront(lru, k, Cap)
        /\ items' = [x \in (DOMAIN items \cup {k}) \ Evicted(lru, k, Cap) |->
                       IF x = k THEN e ELSE items[x]]

\* p's call on k returns the answer a.
Give(p, k, a) ==
  seen' = [seen EXCEPT ![p][k] = IF a = Failure THEN @ ELSE a.at]

\* GetOrFetch is called: the first Get answers it or misses.
Call(p, k, d) ==
  /\ At(p, "idle")
  /\ \/ /\ Hit(k)
        /\ Touch(k)
        /\ Give(p, k, items[k].ans)
        /\ UNCHANGED call
     \/ /\ ~Hit(k)
        /\ call' = [call EXCEPT ![p] =
                      [pc |-> "miss", key |-> k, ttl |-> d, res |-> Failure]]
        /\ UNCHANGED <<store, seen>>
  /\ UNCHANGED <<now, flight>>

\* Mutant: no singleflight, every miss runs its own call.
EnterAlone(p) ==
  /\ At(p, "miss")
  /\ flight' = [flight EXCEPT ![call[p].key] = p]
  /\ call' = [call EXCEPT ![p].pc = "recheck"]
  /\ UNCHANGED <<now, store, seen>>

\* singleflight.Do: join the call in progress, or register a new one.
Enter(p) ==
  /\ At(p, "miss")
  /\ \/ /\ flight[call[p].key] = NoProc
        /\ flight' = [flight EXCEPT ![call[p].key] = p]
        /\ call' = [call EXCEPT ![p].pc = "recheck"]
     \/ /\ flight[call[p].key] # NoProc
        /\ call' = [call EXCEPT ![p].pc = "wait"]
        /\ UNCHANGED flight
  /\ UNCHANGED <<now, store, seen>>

\* Mutant: the leader does not look again.
RecheckSkipped(p) ==
  /\ At(p, "recheck")
  /\ call' = [call EXCEPT ![p].pc = "fetch"]
  /\ UNCHANGED <<now, store, flight, seen>>

\* The leader looks again: somebody may have stored the key meanwhile.
Recheck(p) ==
  LET k == call[p].key
  IN  /\ At(p, "recheck")
      /\ \/ /\ Hit(k)
            /\ Touch(k)
            /\ call' = [call EXCEPT ![p].pc = "finish", ![p].res = items[k].ans]
         \/ /\ ~Hit(k)
            /\ call' = [call EXCEPT ![p].pc = "fetch"]
            /\ UNCHANGED store
      /\ UNCHANGED <<now, flight, seen>>

\* Mutant: a failed fetch is stored like an answer.
AnswerCachingErrors(p) ==
  /\ At(p, "fetch")
  /\ call' = [call EXCEPT ![p].pc = "store"]
  /\ UNCHANGED <<now, store, flight, seen>>

\* fetch returns.  An error goes straight to the end of the flight; a value,
\* positive or negative, is on its way to Set.
Answer(p) ==
  /\ At(p, "fetch")
  /\ \/ \E v \in Payloads :
          call' = [call EXCEPT ![p].pc = "store",
                               ![p].res = [payload |-> v, at |-> now]]
     \/ call' = [call EXCEPT ![p].pc = "finish"]
  /\ UNCHANGED <<now, store, flight, seen>>

\* c.Set(key, Entry{..., c.now().Add(ttl)}): the expiry counts from when the
\* fetch is over, whenever the ttl was computed.
Store(p) ==
  /\ At(p, "store")
  /\ Put(call[p].key, [ans |-> call[p].res, exp |-> now + call[p].ttl])
  /\ call' = [call EXCEPT ![p].pc = "finish"]
  /\ UNCHANGED <<now, flight, seen>>

\* The goroutines blocked on the flight of k.
Waiters(k) == {q \in Procs : At(q, "wait") /\ call[q].key = k}

\* Mutant: the flight closes and nobody wakes the waiters.
FinishSilently(p) ==
  /\ At(p, "finish")
  /\ flight' = [flight EXCEPT ![call[p].key] = NoProc]
  /\ call' = [call EXCEPT ![p] = Idle]
  /\ Give(p, call[p].key, call[p].res)
  /\ UNCHANGED <<now, store>>

\* doCall ends: the key leaves the group, the waiters get the result, the
\* leader returns it.
Finish(p) ==
  LET k == call[p].key
      r == call[p].res
  IN  /\ At(p, "finish")
      /\ flight' = [flight EXCEPT ![k] = NoProc]
      /\ call' = [q \in Procs |->
                    IF q = p THEN Idle
                    ELSE IF q \in Waiters(k) THEN [call[q] EXCEPT !.pc = "woken", !.res = r]
                    ELSE call[q]]
      /\ Give(p, k, r)
      /\ UNCHANGED <<now, store>>

\* A waiter is scheduled again and returns the shared result.
Return(p) ==
  /\ At(p, "woken")
  /\ call' = [call EXCEPT ![p] = Idle]
  /\ Give(p, call[p].key, call[p].res)
  /\ UNCHANGED <<now, store, flight>>

\* Set called from outside GetOrFetch.
SetEntry(k, v, e) ==
  /\ Put(k, [ans |-> [payload |-> v, at |-> now], exp |-> e])
  /\ UNCHANGED <<now, flight, call, seen>>

\* Time passes, whatever the goroutines are doing.
Tick ==
  /\ now < MaxNow
  /\ now' = now + 1
  /\ UNCHANGED <<store, flight, call, seen>>

Step(p) ==
  \/ Enter(p)
  \/ Recheck(p)
  \/ Answer(p)
  \/ Store(p)
  \/ Finish(p)
  \/ Return(p)

Next ==
  \/ \E p \in Procs, k \in Keys, d \in TTLs : Call(p, k, d)
  \/ \E p \in Procs : Step(p)
  \/ \E k \in SetKeys, v \in Payloads, e \in {NoExpiry} \cup {now + d : d \in TTLs} :
       SetEntry(k, v, e)
  \/ Tick

Spec == Init /\ [][Next]_vars

\* Goroutines are scheduled, and a fetch always ends: every upstream client
\* carries a deadline.  Nobody is obliged to call.
FairSpec == Spec /\ \A p \in Procs : WF_vars(Step(p))
-----------------------------------------------------------------------------
\* Types of the state.
TypeOK ==
  /\ now \in 1..MaxNow
  /\ DOMAIN items \subseteq Keys /\ items \in [DOMAIN items -> Entries]
  /\ lru \in Seq(Keys) /\ used \in Seq(Keys)
  /\ flight \in [Keys -> Procs \cup {NoProc}]
  /\ call \in [Procs -> [pc : PCs, key : Keys \cup {NoKey}, ttl : Nat,
                        res : Answers \cup {Failure}]]
  /\ seen \in [Procs -> [Keys -> 0..MaxNow]]

\* The map and the list of Cache never disagree: every cached key is on the
\* list exactly once, nothing else is, and the cache is within its capacity
\* (Set's eviction removes from both).
ListMatchesMap ==
  /\ KeysOf(lru) = DOMAIN items
  /\ Distinct(lru)
  /\ Len(lru) <= Cap

\* "concurrent callers for the same key make at most one upstream call"
\* (GetOrFetch's comment).
OneFetchPerKey ==
  \A p, q \in Procs :
    At(p, "fetch") /\ At(q, "fetch") /\ call[p].key = call[q].key => p = q

\* The upstream is never asked for what the cache could answer: as long as a
\* fetch runs its key is cold, whoever stored it while the leader was on its
\* way.  This is what the second Get of GetOrFetch is for.  (Keys written
\* with Set from outside can turn warm during a fetch.)
FetchOnlyWhenCold ==
  \A p \in Procs : At(p, "fetch") /\ call[p].key \notin SetKeys => ~Hit(call[p].key)

\* Everybody who waits has a leader to wake him: a flight outlives neither its
\* leader nor its waiters.
NoOrphanWaiter ==
  \A p \in Procs : At(p, "wait") =>
    \E q \in Procs : /\ flight[call[p].key] = q
                     /\ call[q].key = call[p].key
                     /\ call[q].pc \in {"recheck", "fetch", "store", "finish"}

\* Eviction is by last use: what the cache holds is the most recently used
\* keys, in that order, as many as fit; an unexpired Get and a Set are uses.
HoldsMostRecent ==
  /\ Len(used) >= Len(lru)
  /\ lru = SubSeq(used, 1, Len(lru))
  /\ Len(lru) < Cap => Len(lru) = Len(used)

\* Answers never go back in time: whatever mixture of hits, flights of his own
\* and shared flights a goroutine goes through, it is never given an older
\* answer than one it has already been given for that key.
MonotoneReads ==
  [][\A p \in Procs, k \in Keys \ SetKeys : seen'[p][k] >= seen[p][k]]_vars

\* Every call returns: no waiter and no leader is left behind.
EveryCallReturns ==
  \A p \in Procs : ~At(p, "idle") ~> At(p, "idle")
=============================================================================

----------------------------- MODULE StaleCache -----------------------------
(***************************************************************************)
(* The three caches that keep errors and go on serving what they had when  *)
(* a refresh fails: quotes (service/stock/quote/cached), GitHub profiles   *)
(* and repositories (service/github/profile/cached) and DNS records        *)
(* (service/dns/resolver/cached).  They differ in the outcomes they know   *)
(* and in the lifetimes they give them; "kind" says which one this is.     *)
(*                                                                         *)
(* A goroutine reads the clock and the pointer to the key's entry (Peek),  *)
(* looks at the entry after it has let go of the mutex (Check), leads or   *)
(* joins a flight (Enter), and takes the mutex again to write what came    *)
(* back (Settle), whether it led the flight or waited on it.  Between      *)
(* these steps others replace the entry, or change its deadline in place.  *)
(* A value is abstracted to the time the upstream answered it.             *)
(***************************************************************************)
EXTENDS Integers, FiniteSets

CONSTANTS
  Procs,     \* goroutines that serve requests
  Keys,      \* symbols, logins, hosts
  Kinds,     \* the caches to look at
  OkTTL,     \* lifetime of a value, by kind
  FailTTL,   \* lifetime of a transient failure, by kind
  GoneTTL,   \* lifetime of "not found", by kind
  MinTTLs,   \* what the records of a DNS answer carry as their least TTL
  TTLMin,    \* SuccessTTLMin: the least lifetime DNS records are given
  TTLMax,    \* SuccessTTLMax: and the greatest
  MaxNow,    \* bound: the clock stops here
  NoProc,    \* "no goroutine"
  NoKey,     \* "no key"
  Nil        \* the nil pointer

ASSUME StaleCacheAssumption ==
  /\ Kinds \subseteq {"quote", "profile", "dns"}
  /\ \A k \in Kinds : /\ OkTTL[k] \in Nat \ {0} /\ FailTTL[k] \in Nat \ {0}
                      /\ GoneTTL[k] \in Nat \ {0}
  /\ MinTTLs \subseteq Nat /\ TTLMin \in Nat \ {0} /\ TTLMax \in Nat /\ TTLMin <= TTLMax
  /\ MaxNow \in Nat \ {0}
  /\ NoProc \notin Procs /\ NoKey \notin Keys /\ Nil \notin Nat
  /\ IsFiniteSet(Procs) /\ IsFiniteSet(Keys)

VARIABLES
  kind,      \* which of the caches this is
  now,       \* the wall clock
  entries,   \* the map: from keys to entries on the heap, or Nil
  heap,      \* the entries somebody still has a pointer to
  flight,    \* singleflight.Group.m: the goroutine that runs the key's call
  call,      \* each goroutine's Get
  failedAt   \* history: when a refresh of the key last failed (0: never)

vars == <<kind, now, entries, heap, flight, call, failedAt>>

PCs == {"idle", "check", "enter", "wait", "fetch", "settle", "reply"}
NoValue == 0
Ids == 1..(Cardinality(Keys) + Cardinality(Procs) + 1)
Outcomes == {"ok", "gone", "fail", "throttled"}
Entries == [state : {"ok", "gone", "fail"}, val : 0..MaxNow, deadline : Nat]
Idle == [pc |-> "idle", key |-> NoKey, asked |-> 0, ptr |-> Nil,
         got |-> "ok", val |-> NoValue, ttl |-> 0]

At(p, where) == call[p].pc = where

Init ==
  /\ kind \in Kinds
  /\ now = 1
  /\ entries = [k \in Keys |-> Nil]
  /\ heap = <<>>
  /\ flight = [k \in Keys |-> NoProc]
  /\ call = [p \in Procs |-> Idle]
  /\ failedAt = [k \in Keys |-> 0]

\* After a step the heap holds what is still pointed to.
Collected(h) ==
  LET live == {entries'[k] : k \in Keys} \cup {call'[p].ptr : p \in Procs}
  IN  [i \in DOMAIN h \cap live |-> h[i]]

\* A call begins: the clock, then the map.
Peek(p, k) ==
  /\ At(p, "idle")
  /\ call' = [call EXCEPT ![p] = [Idle EXCEPT !.pc = "check", !.key = k,
                                              !.asked = now, !.ptr = entries[k]]]
  /\ UNCHANGED <<kind, now, entries, heap, flight, failedAt>>

\* p is about to return this outcome and this value; its pointer is dropped.
Reply(p, got, val) == [call EXCEPT ![p].pc = "reply", ![p].ptr = Nil,
                                   ![p].got = got, ![p].val = val]

\* The entry is looked at: within its deadline it is the answer.
Check(p) ==
  LET e == heap[call[p].ptr]
  IN  /\ At(p, "check")
      /\ \/ /\ call[p].ptr # Nil /\ call[p].asked < e.deadline
            /\ call' = Reply(p, e.state, e.val)
         \/ /\ call[p].ptr # Nil => call[p].asked >= e.deadline
            /\ call' = [call EXCEPT ![p].pc = "enter"]
      /\ UNCHANGED <<kind, now, entries, flight, failedAt>>
      /\ heap' = Collected(heap)

\* singleflight.Do: run the call, or wait for the one that is running.
Enter(p) ==
  LET k == call[p].key
  IN  /\ At(p, "enter")
      /\ \/ /\ flight[k] = NoProc
            /\ flight' = [flight EXCEPT ![k] = p]
            /\ call' = [call EXCEPT ![p].pc = "fetch"]
         \/ /\ flight[k] # NoProc
            /\ call' = [call EXCEPT ![p].pc = "wait"]
            /\ UNCHANGED flight
      /\ UNCHANGED <<kind, now, entries, heap, failedAt>>

\* What an upstream of this kind can come back with.  Cancelling the request
\* of the leader is one way to fail.
Possible ==
  [quote |-> {"ok", "fail"},
   profile |-> {"ok", "gone", "fail"},
   dns |-> {"ok", "gone", "fail", "throttled"}]

\* The upstream answers: the flight is over, the leader and everybody who
\* waited have the result.
Answer(p) ==
  LET k == call[p].key
      sharers == {p} \cup {q \in Procs : At(q, "wait") /\ call[q].key = k}
  IN  /\ At(p, "fetch")
      /\ flight' = [flight EXCEPT ![k] = NoProc]
      /\ \E got \in Possible[kind], m \in IF kind = "dns" THEN MinTTLs ELSE {0} :
           /\ call' = [q \in Procs |->
                IF q \in sharers
                THEN [call[q] EXCEPT !.pc = "settle", !.got = got, !.ttl = m,
                                     !.val = IF got = "ok" THEN now ELSE NoValue]
                ELSE call[q]]
           /\ failedAt' = [failedAt EXCEPT ![k] = IF got = "fail" THEN now ELSE @]
      /\ UNCHANGED <<kind, now, entries, heap>>

\* successDeadline of the DNS cache: the records' own TTL, clamped.
Clamp(m) == IF m < TTLMin THEN TTLMin ELSE IF m > TTLMax THEN TTLMax ELSE m

\* ttlFor: how long an outcome is kept.
Lifetime(got, m) ==
  IF got = "ok" THEN IF kind = "dns" THEN Clamp(m) ELSE OkTTL[kind]
  ELSE IF got = "gone" THEN GoneTTL[kind]
  ELSE FailTTL[kind]

\* Mutant: a stale value is also served to who was told "not found".
ServesStaleAlways(p) ==
  call[p].got # "ok" /\ call[p].ptr # Nil /\ heap[call[p].ptr].state = "ok"

\* Stale-serve: the entry found on arrival held a value and the refresh failed.
ServesStale(p) ==
  call[p].got = "fail" /\ call[p].ptr # Nil /\ heap[call[p].ptr].state = "ok"

\* Mutant: a failure extends the entry as long as "not found" would last.
ExtendedByGone(p) == call[p].asked + GoneTTL[kind]

\* The new deadline of an entry whose refresh failed.
Extended(p) == call[p].asked + FailTTL[kind]

\* Mutant: every outcome goes into the map, self-throttling included.
PassesThroughNever(p) == FALSE

\* ErrSelfThrottled is nobody's state.
PassesThrough(p) == call[p].got = "throttled"

\* The entry found on arrival is changed in place.
Extend(p) ==
  LET i == call[p].ptr
  IN  /\ call' = Reply(p, call[p].got, heap[i].val)
      /\ UNCHANGED entries
      /\ heap' = Collected([heap EXCEPT ![i].deadline = Extended(p)])

\* The entry in the map is replaced by a new one.
Replace(p) ==
  LET i == CHOOSE x \in Ids : x \notin DOMAIN heap
      e == [state |-> call[p].got, val |-> call[p].val,
            deadline |-> call[p].asked + Lifetime(call[p].got, call[p].ttl)]
  IN  /\ entries' = [entries EXCEPT ![call[p].key] = i]
      /\ call' = Reply(p, call[p].got, call[p].val)
      /\ heap' = Collected([x \in DOMAIN heap \cup {i} |-> IF x = i THEN e ELSE heap[x]])

\* Under the mutex again, with the clock and the entry of before.
Settle(p) ==
  /\ At(p, "settle")
  /\ \/ /\ PassesThrough(p)
        /\ call' = Reply(p, call[p].got, NoValue)
        /\ UNCHANGED entries
        /\ heap' = Collected(heap)
     \/ ~PassesThrough(p) /\ ServesStale(p) /\ Extend(p)
     \/ ~PassesThrough(p) /\ ~ServesStale(p) /\ Replace(p)
  /\ UNCHANGED <<kind, now, flight, failedAt>>

\* The caller has its answer.
Return(p) ==
  /\ At(p, "reply")
  /\ call' = [call EXCEPT ![p] = Idle]
  /\ UNCHANGED <<kind, now, entries, heap, flight, failedAt>>

Tick ==
  /\ now < MaxNow
  /\ now' = now + 1
  /\ UNCHANGED <<kind, entries, heap, flight, call, failedAt>>

Step(p) == Check(p) \/ Enter(p) \/ Answer(p) \/ Settle(p) \/ Return(p)

Next ==
  \/ \E p \in Procs, k \in Keys : Peek(p, k)
  \/ \E p \in Procs : Step(p)
  \/ Tick

Spec == Init /\ [][Next]_vars
-----------------------------------------------------------------------------
\* The lifetime of the longest-lived value.
Longest == IF kind = "dns" THEN TTLMax ELSE OkTTL[kind]

\* Types of the state; no pointer dangles, and "throttled" is no entry's state.
TypeOK ==
  /\ kind \in Kinds /\ now \in 1..MaxNow
  /\ entries \in [Keys -> Ids \cup {Nil}]
  /\ DOMAIN heap \subseteq Ids /\ heap \in [DOMAIN heap -> Entries]
  /\ \A k \in Keys : entries[k] # Nil => entries[k] \in DOMAIN heap
  /\ flight \in [Keys -> Procs \cup {NoProc}]
  /\ call \in [Procs -> [pc : PCs, key : Keys \cup {NoKey}, asked : 0..MaxNow,
                         ptr : Ids \cup {Nil}, got : Outcomes, val : 0..MaxNow,
                         ttl : MinTTLs \cup {0}]]
  /\ \A p \in Procs : call[p].ptr # Nil => call[p].ptr \in DOMAIN heap

\* A value comes with no error, or with the transient error of the refresh
\* that failed; who is told "not found" or "throttled" is given none, and who is
\* told nothing went wrong is given one.
ValueFitsError ==
  \A p \in Procs : At(p, "reply") =>
    /\ call[p].got = "ok" => call[p].val # NoValue
    /\ call[p].val # NoValue => call[p].got \in {"ok", "fail"}

\* A value given without an error is within its lifetime, or a refresh has
\* failed less than a failure's lifetime ago: there is no other way for an old
\* value to pass for a fresh one, in whatever order the waiters of several
\* flights write what they got.
StaleOnlyInBackoff ==
  \A p \in Procs : At(p, "reply") /\ call[p].got = "ok" =>
    \/ call[p].asked < call[p].val + Longest
    \/ call[p].asked < failedAt[call[p].key] + FailTTL[kind]
=============================================================================

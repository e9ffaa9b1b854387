------------------------------- MODULE Market -------------------------------
(***************************************************************************)
(* The caches of service/stock/twse/cached_walkback.go in front of the     *)
(* TWSE and TAIFEX providers, and the exact-day fetches behind them.       *)
(*                                                                         *)
(* "daily" and "futures" feeds are keyed by trading day: a call walks back *)
(* from the day it asks for, one GetOrFetch per probe, past weekends and   *)
(* past days of which the cache or the upstream says "no data".  "latest"  *)
(* and "static" feeds are one dump under one key, whatever day is asked    *)
(* for.  Lifetimes depend on the day and on the hour of publication        *)
(* (ttlForAsOf), and are chosen before the fetch.                          *)
(*                                                                         *)
(* GetOrFetch is taken as TTLCache shows it to be: an unexpired entry, or  *)
(* one flight per key that others join.  Time is in ticks, DayTicks a day. *)
(* A value is abstracted to the trading day it is about.                   *)
(***************************************************************************)
EXTENDS Integers, FiniteSets

CONSTANTS
  Procs,        \* goroutines that render stock pages
  Kinds,        \* the feeds to look at: "daily", "futures", "latest", "static"
  MaxDay,       \* bound: the last day of the calendar
  Weekend,      \* the Saturdays and Sundays among them
  Schedules,    \* when the upstream publishes each day (Never: a holiday)
  Never,        \* a time after the end of the calendar
  DayTicks,     \* ticks in a day
  PublishAt,    \* twPublishHour
  MinTodayTTL,  \* minTodayTTL, and partialEntryTTL
  FailSets,     \* the sets of contracts that can fail together
  Lookback,     \* maxLookbackDays
  Evictable,    \* bound: the keys that others push out of the cache
  AsOfs,        \* the days asked for
  NoDate,       \* the zero time: no ?date= was given
  Start,        \* when the process starts
  MaxNow,       \* bound: the clock stops here
  NoProc,       \* "no goroutine"
  Nothing       \* "no entry"

Days == 0..MaxDay
Latest == MaxDay + 1              \* the only key of a dump
Keys == Days \cup {Latest}
Contracts == {"MXF", "TMF", "TXF"}
ClosedSessionTTL == DayTicks      \* closedSessionTTL: 24 hours

ASSUME MarketAssumption ==
  /\ Kinds \subseteq {"daily", "futures", "latest", "static"}
  /\ MaxDay \in Nat /\ Weekend \subseteq Days
  /\ Never \in Nat /\ Never > MaxNow
  /\ Schedules \subseteq [Days -> 0..Never]
  /\ DayTicks \in Nat \ {0} /\ PublishAt \in 1..(DayTicks - 1)
  /\ MinTodayTTL \in 1..DayTicks /\ Lookback \in Nat \ {0}
  /\ FailSets \subseteq SUBSET Contracts /\ Evictable \subseteq Keys
  /\ AsOfs \subseteq Nat \cup {NoDate} /\ NoDate \notin Nat
  /\ Start \in Nat /\ MaxNow \in Nat /\ Start <= MaxNow /\ MaxNow < DayTicks * Latest
  /\ NoProc \notin Procs

VARIABLES
  kind,         \* which of the feeds this is
  publishedAt,  \* the upstream: when each day's data appears
  now,          \* the wall clock
  entries,      \* the ttlcache, by key
  flight,       \* singleflight.Group.m: the goroutine that fetches the key
  call,         \* each goroutine's Get...
  failedAt      \* history: when contracts last failed and the day was given up (0: never)

vars == <<kind, publishedAt, now, entries, flight, call, failedAt>>

DayOf(t) == t \div DayTicks
PublishHour(d) == d * DayTicks + PublishAt
Out(d) == now >= publishedAt[d]
AtMost(a, b) == IF a <= b THEN a ELSE b

PCs == {"idle", "probe", "fetch", "wait", "fixup", "reply"}
Answers == [found : BOOLEAN, day : Days, partial : BOOLEAN]
NoAnswer == [found |-> FALSE, day |-> 0, partial |-> FALSE]
Idle == [pc |-> "idle", asOf |-> 0, back |-> 0, ttl |-> 0, began |-> 0,
         ans |-> NoAnswer, err |-> FALSE]
At(p, where) == call[p].pc = where
Dump == kind \in {"latest", "static"}

Init ==
  /\ kind \in Kinds
  /\ publishedAt \in Schedules
  /\ now = Start
  /\ entries = [k \in Keys |-> Nothing]
  /\ flight = [k \in Keys |-> NoProc]
  /\ call = [p \in Procs |-> Idle]
  /\ failedAt = [k \in Keys |-> 0]

\* Mutant: today's entries live as long as those of closed sessions.
TTLForAsOfAnyDay(d) == ClosedSessionTTL

\* ttlForAsOf: a day before today, or today past the hour, is settled.
TTLForAsOf(d) ==
  IF d < DayOf(now) \/ now >= PublishHour(DayOf(now)) THEN ClosedSessionTTL
  ELSE AtMost(PublishHour(DayOf(now)) - now, MinTodayTTL)

\* clampAsOfTWAt: no day and a day to come both mean now.
ClampAsOf(a) == IF a = NoDate \/ a * DayTicks > now THEN DayOf(now) ELSE a

\* walkBackTradingDays: the next probe at or before "back" days from asOf, past
\* Saturdays and Sundays; a dump has but one.  (Bound: the calendar begins at 0.)
Reach(asOf) == IF Dump THEN 1 ELSE AtMost(Lookback, asOf + 1)
NextBack(asOf, back) ==
  LET open == {b \in back..(Reach(asOf) - 1) : Dump \/ asOf - b \notin Weekend}
  IN  IF open = {} THEN Reach(asOf) ELSE CHOOSE b \in open : \A c \in open : b <= c
Probe(p) == call[p].asOf - call[p].back
KeyOf(p) == IF Dump THEN Latest ELSE Probe(p)
Exhausted(p) == call[p].back >= Reach(call[p].asOf)

\* The lifetime this probe's entry will have; dumps that hardly ever change
\* have a fixed one.
TTLOf(p) == IF kind = "static" THEN ClosedSessionTTL
            ELSE TTLForAsOf(IF Dump THEN call[p].asOf ELSE Probe(p))

Live(k) == entries[k] # Nothing /\ now < entries[k].exp

\* A call begins: the requested day is clamped to the clock.
Call(p, a) ==
  /\ At(p, "idle")
  /\ call' = [call EXCEPT ![p] = [Idle EXCEPT !.pc = "probe", !.asOf = ClampAsOf(a),
                                    !.back = NextBack(ClampAsOf(a), 0), !.began = now]]
  /\ UNCHANGED <<kind, publishedAt, now, entries, flight, failedAt>>

\* What visit makes of a probe's outcome: found ends the walk, "no data" moves it
\* one day back.
Visited(c, ans) ==
  IF ans.found THEN [c EXCEPT !.pc = "reply", !.ttl = 0, !.ans = ans]
  ELSE [c EXCEPT !.pc = "probe", !.ttl = 0, !.back = NextBack(c.asOf, @ + 1)]

\* The walk has run out of days: ErrUnavailable.
GiveUp(p) ==
  /\ At(p, "probe") /\ Exhausted(p)
  /\ call' = [call EXCEPT ![p].pc = "reply"]
  /\ UNCHANGED <<kind, publishedAt, now, entries, flight, failedAt>>

\* GetOrFetch of one probe: an entry, or a flight to lead or to join.
Look(p) ==
  LET k == KeyOf(p)
      c == call[p]
  IN  /\ At(p, "probe") /\ ~Exhausted(p)
      /\ \/ /\ Live(k)
            /\ call' = [call EXCEPT ![p] = Visited(c, entries[k].ans)]
            /\ UNCHANGED flight
         \/ /\ ~Live(k) /\ flight[k] = NoProc
            /\ flight' = [flight EXCEPT ![k] = p]
            /\ call' = [call EXCEPT ![p].pc = "fetch", ![p].ttl = TTLOf(p)]
         \/ /\ ~Live(k) /\ flight[k] # NoProc
            /\ call' = [call EXCEPT ![p].pc = "wait"]
            /\ UNCHANGED flight
      /\ UNCHANGED <<kind, publishedAt, now, entries, failedAt>>

\* FetchTAIFEXFuturesExact: contracts that fail are contained; the call fails only
\* when all three do, and "found" is what the two minis say.
FuturesFail(errs) == errs = Contracts
FuturesAnswer(d, errs) ==
  [found |-> Out(d) /\ ~({"MXF", "TMF"} \subseteq errs), day |-> d,
   partial |-> Out(d) /\ ~({"MXF", "TMF"} \subseteq errs) /\ errs # {}]

\* The exact-day fetch of every other feed: a publish gap is no error.
DailyAnswer(d) == [found |-> Out(d), day |-> d, partial |-> FALSE]

\* A dump is what the upstream last published, whatever day was asked for.
DumpAnswer ==
  LET out == {d \in Days : Out(d)}
  IN  [found |-> out # {}, partial |-> FALSE,
       day |-> IF out = {} THEN 0 ELSE CHOOSE d \in out : \A e \in out : e <= d]

ExactAnswer(p, errs) ==
  IF Dump THEN DumpAnswer
  ELSE IF kind = "futures" THEN FuturesAnswer(Probe(p), errs) ELSE DailyAnswer(Probe(p))

Sharers(p) == {p} \cup {q \in Procs : At(q, "wait") /\ KeyOf(q) = KeyOf(p)}

\* Mutant: a failed probe is taken for one without data.
FailedAsGap(c) == Visited(c, NoAnswer)

\* A failed probe ends the walk with the error; nothing is cached.
Failed(c) == [c EXCEPT !.pc = "reply", !.ttl = 0, !.err = TRUE]

\* Mutant: the rewrite of partial answers is forgotten.
NeedsFixupNever(ans) == FALSE

\* GetRetailFutures rewrites what it fetched itself, found and partial.
NeedsFixup(ans) == ans.found /\ ans.partial

\* The upstream fails the flight, for its leader and for all who wait on it.
AnswerError(p) ==
  /\ At(p, "fetch")
  /\ flight' = [flight EXCEPT ![KeyOf(p)] = NoProc]
  /\ call' = [q \in Procs |-> IF q \in Sharers(p) THEN Failed(call[q]) ELSE call[q]]
  /\ UNCHANGED <<kind, publishedAt, now, entries, failedAt>>

\* A published day is given up because contracts failed.
Hides(k, errs, ans) == errs # {} /\ ~ans.found /\ Out(k)

\* The upstream answers: the entry is stored with the lifetime chosen before the
\* fetch.  errs are the contracts whose failure was swallowed.
AnswerOK(p, errs) ==
  LET k == KeyOf(p)
      ans == ExactAnswer(p, errs)
  IN  /\ At(p, "fetch")
      /\ errs # {} => kind = "futures" /\ ~FuturesFail(errs)
      /\ flight' = [flight EXCEPT ![k] = NoProc]
      /\ entries' = [entries EXCEPT ![k] = [ans |-> ans, exp |-> now + call[p].ttl]]
      /\ call' = [q \in Procs |->
           IF q = p /\ NeedsFixup(ans) THEN [call[q] EXCEPT !.pc = "fixup", !.ans = ans]
           ELSE IF q \in Sharers(p) THEN Visited(call[q], ans) ELSE call[q]]
      /\ failedAt' = [failedAt EXCEPT ![k] = IF Hides(k, errs, ans) THEN now ELSE @]
      /\ UNCHANGED <<kind, publishedAt, now>>

\* The second Set of GetRetailFutures, over whatever the key holds by now.
Fixup(p) ==
  /\ At(p, "fixup")
  /\ entries' = [entries EXCEPT ![KeyOf(p)] =
       [ans |-> call[p].ans, exp |-> now + AtMost(call[p].ttl, MinTodayTTL)]]
  /\ call' = [call EXCEPT ![p] = Visited(call[p], call[p].ans)]
  /\ UNCHANGED <<kind, publishedAt, now, flight, failedAt>>

\* The caller has its answer: a day's data, ErrUnavailable or the error.
Return(p) ==
  /\ At(p, "reply")
  /\ call' = [call EXCEPT ![p] = Idle]
  /\ UNCHANGED <<kind, publishedAt, now, entries, flight, failedAt>>

\* Other keys push this one out of the cache.
Evict(k) ==
  /\ Live(k)
  /\ entries' = [entries EXCEPT ![k] = Nothing]
  /\ UNCHANGED <<kind, publishedAt, now, flight, call, failedAt>>

\* Time passes.  What has expired is as good as gone.
Tick ==
  /\ now < MaxNow
  /\ now' = now + 1
  /\ entries' = [k \in Keys |-> IF Live(k) /\ entries[k].exp > now + 1 THEN entries[k]
                               ELSE Nothing]
  /\ UNCHANGED <<kind, publishedAt, flight, call, failedAt>>

Next ==
  \/ \E p \in Procs, a \in AsOfs : Call(p, a)
  \/ \E p \in Procs : GiveUp(p) \/ Look(p) \/ AnswerError(p) \/ Fixup(p) \/ Return(p)
  \/ \E p \in Procs, errs \in FailSets : AnswerOK(p, errs)
  \/ \E k \in Evictable : Evict(k)
  \/ Tick

Spec == Init /\ [][Next]_vars
-----------------------------------------------------------------------------
\* Types of the state.
TypeOK ==
  /\ kind \in Kinds /\ publishedAt \in Schedules /\ now \in Start..MaxNow
  /\ entries \in [Keys -> [ans : Answers, exp : Nat] \cup {Nothing}]
  /\ flight \in [Keys -> Procs \cup {NoProc}]
  /\ call \in [Procs -> [pc : PCs, asOf : Days, back : 0..Lookback, ttl : 0..DayTicks,
                         began : 0..MaxNow, ans : Answers, err : BOOLEAN]]
  /\ failedAt \in [Keys -> 0..MaxNow]

\* The trading days a reply has passed over: those after the day it gives, or all
\* of the walk when it gives none.
PassedOver(p) ==
  LET c == call[p]
      last == IF Dump THEN DayOf(c.began) ELSE c.asOf
      first == IF c.ans.found THEN c.ans.day + 1
               ELSE IF Dump THEN 0 ELSE c.asOf - Lookback + 1
  IN  {d \in Days \ Weekend : first <= d /\ d <= last}

\* A reply without an error passes over a day only if the cache cannot have known
\* better for more than the longest lifetime: the day was published less than 24
\* hours before the call began, or a contract of it failed that recently.  A
\* failed fetch in particular never sends the walk to an older day.
NewestWithinADay ==
  \A p \in Procs : At(p, "reply") /\ ~call[p].err =>
    \A d \in PassedOver(p) :
      \/ publishedAt[d] > call[p].began - ClosedSessionTTL
      \/ ~Dump /\ failedAt[d] > call[p].began - ClosedSessionTTL

\* "the cache flips to fresh once afterTrading publishes the day's data": a day
\* that is out by the publishing hour is passed over by nobody who asks later than
\* minTodayTTL after it, however long the fetch of a "no data" was under way.
OnTimeDayShows ==
  \A p \in Procs : At(p, "reply") /\ ~call[p].err /\ kind = "daily" =>
    \A d \in PassedOver(p) :
      publishedAt[d] > PublishHour(d) \/ call[p].began < PublishHour(d) + MinTodayTTL

\* A partial answer that will outlive partialEntryTTL is about to be rewritten by
\* the goroutine that fetched it: between the two Sets others may hit it, but it
\* is not left behind, whatever is evicted or stored in between.
PartialIsBrief ==
  \A d \in Days : Live(d) /\ entries[d].ans.partial /\ entries[d].exp > now + MinTodayTTL
    => \E p \in Procs : At(p, "fixup") /\ KeyOf(p) = d

\* "Partial lets CachedRetailFutures hold the degraded answer only briefly" (exact.go,
\* on contained failures): what is passed over because a contract failed is
\* looked for again after partialEntryTTL.
FailureIsBrief ==
  \A p \in Procs : At(p, "reply") /\ ~call[p].err =>
    \A d \in PassedOver(p) :
      \/ publishedAt[d] > call[p].began - ClosedSessionTTL
      \/ failedAt[d] >= call[p].began - MinTodayTTL
=============================================================================

---------------------------- MODULE MarketProofs ----------------------------
(***************************************************************************)
(* Proofs about the walk-back caches, for any calendar, hours, lifetimes,  *)
(* goroutines and upstream: types, that a partial answer is brief, and the *)
(* two bounds on what a reply may pass over.                               *)
(*                                                                         *)
(* The argument: an entry that says "no data" of a day is fair for as long *)
(* as it may be hit, since it was stored when the day was not out (or was  *)
(* given up) with a lifetime chosen before; a walk only passes over days   *)
(* of which such an entry or such a fetch told it; fairness at an instant  *)
(* implies fairness at every earlier one, so at the start of the call.     *)
(***************************************************************************)
EXTENDS Market, WellFoundedInduction, TLAPS

\* What an answer under key k says of day d: there is nothing.
Missing(k, ans, d) ==
  IF Dump THEN ~ans.found \/ d > ans.day ELSE d = k /\ ~ans.found

\* Whoever asks at t cannot complain that day d is passed over.
Fair(d, t, failed) ==
  /\ \/ publishedAt[d] > t - ClosedSessionTTL
     \/ ~Dump /\ failed[d] > t - ClosedSessionTTL
  /\ kind = "daily" =>
       \/ publishedAt[d] > PublishHour(d)
       \/ t < PublishHour(d) + MinTodayTTL

\* An answer may be given to whoever asks at t.
GoodAnswer(k, ans, t, failed) ==
  /\ ~Dump /\ ans.found => ans.day = k
  /\ \A d \in Days : Missing(k, ans, d) => Fair(d, t, failed)

CKey(c) == IF Dump THEN Latest ELSE c.asOf - c.back

\* Every trading day the walk has left behind.
Walked(c, failed) ==
  IF Dump THEN c.back # 0 => \A d \in Days : Fair(d, c.began, failed)
  ELSE \A d \in Days \ Weekend :
         c.asOf - c.back < d /\ d <= c.asOf => Fair(d, c.began, failed)

\* A lifetime chosen before the publishing hour is still short when the fetch
\* ends before that hour.
ShortTTL(c, t) ==
  c.pc = "fetch" /\ kind = "daily" /\ t < PublishHour(c.asOf - c.back)
    => c.ttl <= MinTodayTTL

Replied(c, failed) ==
  c.pc = "fixup" \/ (c.pc = "reply" /\ ~c.err) =>
    IF c.ans.found THEN GoodAnswer(CKey(c), c.ans, c.began, failed)
    ELSE c.back = Reach(c.asOf)

GoodCall(c, failed, t) ==
  /\ c.asOf * DayTicks <= c.began /\ c.began <= t
  /\ c.back <= Reach(c.asOf)
  /\ Walked(c, failed)
  /\ c.pc \in {"probe", "fetch", "wait"} => ~c.ans.found
  /\ c.pc \in {"fetch", "wait", "fixup"} => c.back < Reach(c.asOf)
  /\ ShortTTL(c, t)
  /\ c.pc = "fixup" => c.ans.found /\ ~Dump
  /\ Replied(c, failed)

GoodEntry(k, e, failed) == e # Nothing => GoodAnswer(k, e.ans, e.exp - 1, failed)

HistoryOK == \A k \in Keys : failedAt[k] <= now
EntriesOK == \A k \in Keys : GoodEntry(k, entries[k], failedAt)
CallsOK == \A p \in Procs : call[p].pc # "idle" => GoodCall(call[p], failedAt, now)

IInv == TypeOK /\ HistoryOK /\ EntriesOK /\ CallsOK /\ PartialIsBrief

Entry == [ans : Answers, exp : Nat]
CallRec == [pc : PCs, asOf : Days, back : 0..Lookback, ttl : 0..DayTicks,
            began : 0..MaxNow, ans : Answers, err : BOOLEAN]
-----------------------------------------------------------------------------
\* Days and hours.

LEMMA Numbers ==
  /\ DayTicks \in Nat \ {0} /\ PublishAt \in Nat /\ PublishAt < DayTicks
  /\ MinTodayTTL \in Nat \ {0} /\ MinTodayTTL <= DayTicks /\ Lookback \in Nat \ {0}
  /\ Start \in Nat /\ MaxNow \in Nat /\ MaxDay \in Nat /\ Latest \in Nat
  /\ Never \in Nat /\ MaxNow < DayTicks * Latest /\ Days \subseteq Keys
  /\ Latest \in Keys /\ Latest \notin Days /\ ClosedSessionTTL = DayTicks
  BY MarketAssumption DEF MarketAssumption, Days, Keys, Latest, ClosedSessionTTL

LEMMA Times ==
  ASSUME NEW a \in Nat, NEW b \in Nat, NEW c \in Nat \ {0}, a < b
  PROVE  a * c + c <= b * c
  OBVIOUS

LEMMA DayOfTime ==
  ASSUME NEW t \in Nat
  PROVE  /\ DayOf(t) \in Nat /\ DayOf(t) * DayTicks <= t
         /\ t < DayOf(t) * DayTicks + DayTicks
         /\ \A d \in Nat : d * DayTicks <= t => d <= DayOf(t)
<1> DEFINE DT == DayTicks
<1>1. DT \in Nat \ {0}
  BY Numbers
<1> HIDE DEF DT
<1>2. /\ t \div DT \in Nat /\ (t \div DT) * DT <= t
      /\ t < (t \div DT) * DT + DT
  BY <1>1
<1>3. ASSUME NEW d \in Nat, d * DT <= t
      PROVE  d <= t \div DT
  <2> DEFINE q == t \div DT
  <2>1. q \in Nat /\ t < q * DT + DT
    BY <1>2
  <2> HIDE DEF q
  <2>2. q < d => q * DT + DT <= d * DT
    BY <1>1, <2>1, Times
  <2>3. d * DT \in Nat /\ q * DT \in Nat
    BY <1>1, <2>1
  <2>4. ~(q < d)
    <3>1. PICK x, y \in Nat : x = q * DT /\ y = d * DT
      BY <2>3
    <3>2. t < x + DT /\ y <= t /\ (q < d => x + DT <= y)
      BY <1>3, <2>1, <2>2, <3>1
    <3> QED BY <1>1, <3>1, <3>2
  <2>5. d <= q
    BY <2>1, <2>4
  <2> QED BY <2>5 DEF q
<1> QED BY <1>2, <1>3 DEF DayOf, DT

LEMMA DayIsInCalendar ==
  ASSUME NEW t \in 0..MaxNow
  PROVE  DayOf(t) \in Days
<1>1. DayOf(t) \in Nat /\ DayOf(t) * DayTicks <= t
  BY DayOfTime, Numbers
<1>2. Latest < DayOf(t) \/ Latest = DayOf(t) => Latest * DayTicks <= DayOf(t) * DayTicks
  <2>1. ASSUME Latest < DayOf(t)
        PROVE  Latest * DayTicks + DayTicks <= DayOf(t) * DayTicks
    BY <1>1, <2>1, Times, Numbers
  <2>2. Latest * DayTicks \in Nat /\ DayOf(t) * DayTicks \in Nat
    BY <1>1, Numbers
  <2> QED BY <2>1, <2>2, Numbers
<1>3. DayTicks * Latest = Latest * DayTicks /\ DayOf(t) * DayTicks \in Nat
  BY <1>1, Numbers
<1>4. ~(Latest <= DayOf(t))
  BY <1>1, <1>2, <1>3, Numbers
<1> QED BY <1>1, <1>4, Numbers DEF Days, Latest

LEMMA HourOfDay ==
  ASSUME NEW d \in Nat
  PROVE  /\ PublishHour(d) \in Nat /\ d * DayTicks \in Nat
         /\ d * DayTicks <= PublishHour(d)
         /\ PublishHour(d) < d * DayTicks + DayTicks
  BY Numbers DEF PublishHour

\* The lifetime chosen for day d is at most a day, and short before its hour.
LEMMA Lifetime ==
  ASSUME now \in Nat, NEW d \in Nat, d * DayTicks <= now
  PROVE  /\ TTLForAsOf(d) \in 0..DayTicks
         /\ now < PublishHour(d) => TTLForAsOf(d) <= MinTodayTTL
<1> DEFINE q == DayOf(now)
           h == PublishHour(q)
<1>1. q \in Nat /\ q * DayTicks <= now /\ d <= q
  BY DayOfTime
<1>2. h \in Nat /\ h < q * DayTicks + DayTicks
  BY <1>1, HourOfDay
<1>3. ASSUME d < q
      PROVE  PublishHour(d) <= now
  <2>1. d * DayTicks + DayTicks <= q * DayTicks
    BY <1>1, <1>3, Times, Numbers
  <2>2. q * DayTicks \in Nat
    BY <1>1, Numbers
  <2> QED BY <1>1, <2>1, <2>2, HourOfDay, Numbers
<1>4. TTLForAsOf(d) = IF d < q \/ now >= h THEN DayTicks ELSE AtMost(h - now, MinTodayTTL)
  BY Numbers DEF TTLForAsOf
<1>5. PublishHour(d) \in Nat /\ (d = q => PublishHour(d) = h)
  BY HourOfDay
<1> HIDE DEF q, h
<1> QED BY <1>1, <1>2, <1>3, <1>4, <1>5, Numbers DEF AtMost
-----------------------------------------------------------------------------
\* The next probe.

LEMMA Least ==
  ASSUME NEW T, T \subseteq Nat, T # {}
  PROVE  \E x \in T : \A y \in T : x <= y
<1>1. PICK R : R = OpToRel(<, Nat)
  OBVIOUS
<1>2. IsWellFoundedOn(R, Nat)
  BY <1>1, NatLessThanWellFounded
<1>3. \E x \in T : \A y \in T : <<y, x>> \notin R
  BY <1>2, WFMin
<1>4. \A x, y \in Nat : x < y => <<x, y>> \in R
  BY <1>1 DEF OpToRel
<1>5. PICK x \in T : \A y \in T : <<y, x>> \notin R
  BY <1>3
<1>6. \A y \in T : ~(y < x)
  BY <1>4, <1>5
<1> QED BY <1>6

LEMMA ReachOK ==
  ASSUME NEW a \in Days
  PROVE  /\ Reach(a) \in 1..Lookback
         /\ ~Dump => Reach(a) <= a + 1 /\ (Reach(a) = Lookback \/ Reach(a) = a + 1)
  BY Numbers DEF Reach, AtMost, Days

LEMMA NextProbe ==
  ASSUME NEW a \in Days, NEW b \in 0..Reach(a)
  PROVE  /\ NextBack(a, b) \in b..Reach(a)
         /\ \A c \in b..(NextBack(a, b) - 1) : ~Dump /\ a - c \in Weekend
<1> DEFINE R == Reach(a)
           open == {i \in b..(R - 1) : Dump \/ a - i \notin Weekend}
<1>1. R \in Nat /\ b \in Nat /\ b <= R
  BY ReachOK, Numbers
<1>2. NextBack(a, b) = IF open = {} THEN R ELSE CHOOSE i \in open : \A c \in open : i <= c
  BY DEF NextBack
<1> HIDE DEF R
<1>3. open \subseteq b..(R - 1) /\ open \subseteq Nat
  BY <1>1
<1>4. \A c \in b..(R - 1) : c \notin open => ~Dump /\ a - c \in Weekend
  OBVIOUS
<1> HIDE DEF open
<1>5. CASE open = {}
  <2>1. NextBack(a, b) = R
    BY <1>2, <1>5
  <2> QED BY <1>1, <1>4, <1>5, <2>1 DEF R
<1>6. CASE open # {}
  <2>1. \E i \in open : \A c \in open : i <= c
    BY <1>3, <1>6, Least
  <2>2. PICK n : n = CHOOSE i \in open : \A c \in open : i <= c
    OBVIOUS
  <2>3. n \in open /\ \A c \in open : n <= c
    BY <2>1, <2>2
  <2>4. NextBack(a, b) = n
    BY <1>2, <1>6, <2>2
  <2>5. n \in b..(R - 1)
    BY <1>3, <2>3
  <2>6. \A c \in b..(n - 1) : c \notin open /\ c \in b..(R - 1)
    BY <1>1, <2>3, <2>5
  <2> QED BY <1>1, <1>4, <2>4, <2>5, <2>6 DEF R
<1> QED BY <1>5, <1>6
-----------------------------------------------------------------------------
\* What the upstream answers.

LEMMA LatestDayOut ==
  ASSUME NEW T, T \subseteq Days, T # {}
  PROVE  /\ (CHOOSE d \in T : \A e \in T : e <= d) \in T
         /\ \A e \in T : e <= (CHOOSE d \in T : \A f \in T : f <= d)
<1> DEFINE U == {MaxDay - d : d \in T}
<1>1. U \subseteq Nat /\ U # {}
  <2>1. \A d \in T : d \in Nat /\ MaxDay - d \in Nat
    BY Numbers DEF Days
  <2>2. PICK d : d \in T
    OBVIOUS
  <2>3. MaxDay - d \in U
    BY <2>2
  <2> QED BY <2>1, <2>3
<1>2. PICK x \in U : \A y \in U : x <= y
  BY <1>1, Least
<1>3. PICK d \in T : x = MaxDay - d
  BY <1>2
<1>4. ASSUME NEW e \in T
      PROVE  e <= d
  <2>1. MaxDay - e \in U
    OBVIOUS
  <2>2. x <= MaxDay - e
    BY <1>2, <2>1
  <2> QED BY <1>3, <2>2, Numbers DEF Days
<1>5. \E i \in T : \A e \in T : e <= i
  BY <1>4
<1>6. PICK n : n = CHOOSE i \in T : \A e \in T : e <= i
  OBVIOUS
<1>7. n \in T /\ \A e \in T : e <= n
  BY <1>5, <1>6
<1> QED BY <1>6, <1>7

LEMMA DumpAnswerOK ==
  /\ DumpAnswer \in Answers /\ ~DumpAnswer.partial
  /\ \A d \in Days : Out(d) => DumpAnswer.found /\ d <= DumpAnswer.day
<1> DEFINE out == {d \in Days : Out(d)}
           n == IF out = {} THEN 0 ELSE CHOOSE d \in out : \A e \in out : e <= d
<1>1. out \subseteq Days /\ \A d \in Days : Out(d) => d \in out
  OBVIOUS
<1>2. DumpAnswer = [found |-> out # {}, partial |-> FALSE, day |-> n]
  BY DEF DumpAnswer
<1> HIDE DEF out
<1>3. n \in Days /\ \A d \in out : d <= n
  <2>1. CASE out = {}
    BY <2>1, Numbers DEF Days
  <2>2. CASE out # {}
    BY <1>1, <2>2, LatestDayOut
  <2> QED BY <2>1, <2>2
<1> HIDE DEF n
<1> QED BY <1>1, <1>2, <1>3 DEF Answers

LEMMA ExactAnswerOK ==
  ASSUME NEW p \in Procs, NEW errs, ~Dump => Probe(p) \in Days
  PROVE  /\ ExactAnswer(p, errs) \in Answers
         /\ ExactAnswer(p, errs).partial => ExactAnswer(p, errs).found /\ ~Dump
         /\ Dump => ExactAnswer(p, errs) = DumpAnswer
         /\ ~Dump => /\ ExactAnswer(p, errs).day = Probe(p)
                     /\ ~ExactAnswer(p, errs).found =>
                          ~Out(Probe(p)) \/ (kind = "futures" /\ {"MXF", "TMF"} \subseteq errs)
<1>1. CASE Dump
  BY <1>1, DumpAnswerOK DEF ExactAnswer
<1>2. CASE ~Dump
  <2>1. PICK d \in Days : d = Probe(p)
    BY <1>2
  <2>2. CASE kind = "futures"
    <3> DEFINE some == Out(d) /\ ~({"MXF", "TMF"} \subseteq errs)
               part == some /\ errs # {}
    <3>1. ExactAnswer(p, errs) = [found |-> some, day |-> d, partial |-> part]
      BY <1>2, <2>1, <2>2, Zenon DEF ExactAnswer, FuturesAnswer
    <3>2. /\ some \in BOOLEAN /\ part \in BOOLEAN /\ (part => some)
          /\ ~some => ~Out(d) \/ {"MXF", "TMF"} \subseteq errs
      OBVIOUS
    <3> HIDE DEF some, part
    <3> QED BY <1>2, <2>1, <2>2, <3>1, <3>2 DEF Answers
  <2>3. CASE kind # "futures"
    <3>1. ExactAnswer(p, errs) = [found |-> Out(d), day |-> d, partial |-> FALSE]
      BY <1>2, <2>1, <2>3 DEF ExactAnswer, DailyAnswer
    <3>2. Out(d) \in BOOLEAN
      BY DEF Out
    <3> QED BY <1>2, <2>1, <3>1, <3>2 DEF Answers
  <2> QED BY <2>2, <2>3
<1> QED BY <1>1, <1>2
-----------------------------------------------------------------------------
\* What is fair stays fair: to who asked earlier, and when more has failed.

LEMMA FairStays ==
  ASSUME NEW d \in Days, NEW t \in Int, NEW u \in Int, t <= u,
         NEW f \in [Keys -> Nat], NEW g \in [Keys -> Nat], \A k \in Keys : f[k] <= g[k],
         publishedAt \in Schedules, Fair(d, u, f)
  PROVE  Fair(d, t, g)
<1>1. publishedAt[d] \in Nat /\ f[d] \in Nat /\ g[d] \in Nat /\ f[d] <= g[d]
  BY Numbers, MarketAssumption DEF MarketAssumption
<1>2. PublishHour(d) \in Nat
  BY HourOfDay, Numbers DEF Days
<1> QED BY <1>1, <1>2, Numbers DEF Fair

LEMMA GoodAnswerStays ==
  ASSUME NEW k, NEW ans, NEW t \in Int, NEW u \in Int, t <= u,
         NEW f \in [Keys -> Nat], NEW g \in [Keys -> Nat], \A l \in Keys : f[l] <= g[l],
         publishedAt \in Schedules, GoodAnswer(k, ans, u, f)
  PROVE  GoodAnswer(k, ans, t, g)
BY FairStays DEF GoodAnswer

LEMMA GoodCallStays ==
  ASSUME NEW c \in CallRec, NEW t \in Nat, NEW u \in Nat, t <= u,
         NEW f \in [Keys -> Nat], NEW g \in [Keys -> Nat], \A l \in Keys : f[l] <= g[l],
         publishedAt \in Schedules, GoodCall(c, f, t)
  PROVE  GoodCall(c, g, u)
<1>1. c.began \in Int /\ c.asOf * DayTicks \in Nat
  BY Numbers DEF CallRec, Days
<1>2. Walked(c, g)
  BY <1>1, FairStays DEF GoodCall, Walked
<1>3. Replied(c, g)
  BY <1>1, GoodAnswerStays DEF GoodCall, Replied
<1>4. ShortTTL(c, u)
  <2>1. ASSUME c.pc = "fetch"
        PROVE  PublishHour(c.asOf - c.back) \in Int
    BY Numbers DEF PublishHour, CallRec, Days
  <2> QED BY <2>1, Numbers DEF GoodCall, ShortTTL
<1> QED BY <1>1, <1>2, <1>3, <1>4 DEF GoodCall, CallRec
-----------------------------------------------------------------------------
\* A probe's outcome, from the cache or from a flight.

LEMMA KeyInKeys ==
  ASSUME NEW c \in CallRec, c.back < Reach(c.asOf)
  PROVE  /\ CKey(c) \in Keys
         /\ ~Dump => CKey(c) \in Days /\ CKey(c) = c.asOf - c.back /\ CKey(c) <= c.asOf
<1>1. c.asOf \in Days /\ c.back \in Nat
  BY Numbers DEF CallRec
<1>2. ~Dump => c.back <= c.asOf
  BY <1>1, ReachOK, Numbers DEF Days
<1> QED BY <1>1, <1>2, Numbers DEF CKey, Days

LEMMA VisitedType ==
  ASSUME NEW c \in CallRec, NEW ans \in Answers, c.back < Reach(c.asOf)
  PROVE  /\ Visited(c, ans) \in CallRec /\ Visited(c, ans).asOf = c.asOf
         /\ Visited(c, ans).began = c.began /\ Visited(c, ans).err = c.err
         /\ ans.found => /\ Visited(c, ans).pc = "reply" /\ Visited(c, ans).ans = ans
                         /\ Visited(c, ans).back = c.back
         /\ ~ans.found => /\ Visited(c, ans).pc = "probe" /\ Visited(c, ans).ans = c.ans
                          /\ Visited(c, ans).back = NextBack(c.asOf, c.back + 1)
<1>0. 0 \in 0..DayTicks /\ "reply" \in PCs /\ "probe" \in PCs
  BY Numbers DEF PCs
<1>1. CASE ans.found
  <2>1. Visited(c, ans) = [c EXCEPT !.pc = "reply", !.ttl = 0, !.ans = ans]
    BY <1>1 DEF Visited
  <2> QED BY <1>0, <1>1, <2>1 DEF CallRec
<1>2. CASE ~ans.found
  <2>1. PICK n : n = NextBack(c.asOf, c.back + 1)
    OBVIOUS
  <2>2. n \in 0..Lookback
    <3>0. c.asOf \in Days /\ c.back \in 0..Lookback
      BY DEF CallRec
    <3>a. Reach(c.asOf) \in 1..Lookback
      BY <3>0, ReachOK
    <3>1. c.asOf \in Days /\ c.back \in Nat /\ Reach(c.asOf) \in 1..Lookback
      BY <3>0, <3>a, Numbers
    <3>2. c.back + 1 \in 0..Reach(c.asOf)
      BY <3>1, Numbers
    <3>3. n \in (c.back + 1)..Reach(c.asOf)
      BY <2>1, <3>1, <3>2, NextProbe
    <3> QED BY <3>1, <3>3, Numbers
  <2>3. Visited(c, ans) = [c EXCEPT !.pc = "probe", !.ttl = 0, !.back = n]
    BY <1>2, <2>1 DEF Visited
  <2> QED BY <1>0, <1>2, <2>1, <2>2, <2>3 DEF CallRec
<1> QED BY <1>1, <1>2

\* The walk goes on, past what the outcome says has nothing and past weekends.
LEMMA WalkOn ==
  ASSUME NEW c \in CallRec, NEW ans \in Answers, c.back < Reach(c.asOf), NEW f,
         Walked(c, f), ~ans.found, GoodAnswer(CKey(c), ans, c.began, f)
  PROVE  Walked(Visited(c, ans), f)
<1>1. PICK v \in CallRec : v = Visited(c, ans)
  BY VisitedType
<1>2. v.asOf = c.asOf /\ v.began = c.began /\ v.back = NextBack(c.asOf, c.back + 1)
  BY <1>1, VisitedType
<1>3. c.asOf \in Days /\ c.back \in Nat /\ v.back \in Nat
  BY Numbers DEF CallRec
<1>4. \A i \in (c.back + 1)..(v.back - 1) : ~Dump /\ c.asOf - i \in Weekend
  <2>1. Reach(c.asOf) \in 1..Lookback
    BY <1>3, ReachOK
  <2>2. c.back + 1 \in 0..Reach(c.asOf)
    BY <1>3, <2>1, Numbers
  <2> QED BY <1>2, <1>3, <2>2, NextProbe
<1>5. CASE Dump
  <2>1. \A d \in Days : Fair(d, c.began, f)
    BY <1>5 DEF GoodAnswer, Missing
  <2> QED BY <1>1, <1>2, <1>5, <2>1 DEF Walked
<1>6. CASE ~Dump
  <2> SUFFICES ASSUME NEW d \in Days \ Weekend, v.asOf - v.back < d, d <= v.asOf
               PROVE  Fair(d, c.began, f)
    BY <1>1, <1>2, <1>6 DEF Walked
  <2>1. CASE c.asOf - c.back < d
    BY <1>2, <1>6, <2>1 DEF Walked
  <2>2. CASE d = c.asOf - c.back
    <3>1. Missing(CKey(c), ans, d)
      BY <1>6, <2>2 DEF Missing, CKey
    <3> QED BY <3>1 DEF GoodAnswer
  <2>3. CASE d < c.asOf - c.back
    <3>1. c.asOf - d \in (c.back + 1)..(v.back - 1) /\ c.asOf - (c.asOf - d) = d
      BY <1>2, <1>3, <2>3, Numbers DEF Days
    <3> QED BY <1>4, <3>1
  <2> QED BY <1>3, <2>1, <2>2, <2>3, Numbers DEF Days
<1> QED BY <1>5, <1>6

LEMMA VisitedOK ==
  ASSUME NEW c \in CallRec, NEW ans \in Answers, NEW f, NEW t,
         GoodCall(c, f, t), c.back < Reach(c.asOf), ~c.ans.found \/ ans.found,
         GoodAnswer(CKey(c), ans, c.began, f)
  PROVE  GoodCall(Visited(c, ans), f, t)
<1>1. PICK v \in CallRec : v = Visited(c, ans)
  BY VisitedType
<1>2. v.asOf = c.asOf /\ v.began = c.began
  BY <1>1, VisitedType
<1>3. CASE ans.found
  <2>1. v.pc = "reply" /\ v.ans = ans /\ v.back = c.back
    BY <1>1, <1>3, VisitedType
  <2>2. Walked(v, f)
    BY <1>2, <2>1 DEF GoodCall, Walked
  <2>3. Replied(v, f)
    BY <1>2, <1>3, <2>1 DEF Replied, CKey
  <2> QED BY <1>1, <1>2, <2>1, <2>2, <2>3 DEF GoodCall, ShortTTL
<1>4. CASE ~ans.found
  <2>1. v.pc = "probe" /\ v.ans = c.ans /\ v.back = NextBack(c.asOf, c.back + 1)
    BY <1>1, <1>4, VisitedType
  <2>2. Walked(v, f)
    BY <1>1, <1>4, WalkOn DEF GoodCall
  <2>3. v.back <= Reach(v.asOf)
    <3>0. c.asOf \in Days /\ c.back \in 0..Lookback
      BY DEF CallRec
    <3>a. Reach(c.asOf) \in 1..Lookback
      BY <3>0, ReachOK
    <3>1. c.asOf \in Days /\ c.back \in Nat /\ Reach(c.asOf) \in 1..Lookback
      BY <3>0, <3>a, Numbers
    <3>2. c.back + 1 \in 0..Reach(c.asOf)
      BY <3>1, Numbers
    <3>3. NextBack(c.asOf, c.back + 1) \in (c.back + 1)..Reach(c.asOf)
      BY <3>1, <3>2, NextProbe
    <3> QED BY <1>2, <2>1, <3>1, <3>3, Numbers
  <2> QED BY <1>1, <1>2, <1>4, <2>1, <2>2, <2>3 DEF GoodCall, ShortTTL, Replied
<1> QED BY <1>3, <1>4
-----------------------------------------------------------------------------
\* The steps, one lemma for each.

LEMMA Types ==
  ASSUME TypeOK
  PROVE  /\ kind \in Kinds /\ publishedAt \in Schedules /\ now \in Start..MaxNow
         /\ now \in Nat /\ now \in 0..MaxNow
         /\ entries \in [Keys -> Entry \cup {Nothing}]
         /\ flight \in [Keys -> Procs \cup {NoProc}] /\ call \in [Procs -> CallRec]
         /\ failedAt \in [Keys -> 0..MaxNow] /\ failedAt \in [Keys -> Nat]
<1>1. now \in Nat /\ now \in 0..MaxNow
  BY Numbers DEF TypeOK
<1>2. failedAt \in [Keys -> Nat]
  BY Numbers DEF TypeOK
<1> QED BY <1>1, <1>2 DEF TypeOK, Entry, CallRec

LEMMA TypesAgain ==
  ASSUME TypeOK, UNCHANGED <<kind, publishedAt>>, now' \in Start..MaxNow,
         entries' \in [Keys -> Entry \cup {Nothing}],
         flight' \in [Keys -> Procs \cup {NoProc}], call' \in [Procs -> CallRec],
         failedAt' \in [Keys -> 0..MaxNow]
  PROVE  TypeOK'
BY DEF TypeOK, Entry, CallRec

\* A partial answer that will outlive partialEntryTTL, and who will rewrite it.
Lasting(e, t) == e # Nothing /\ e.ans.partial /\ e.exp > t + MinTodayTTL
Rewrites(c, k) == c.pc = "fixup" /\ CKey(c) = k

LEMMA BriefMeans ==
  ASSUME TypeOK
  PROVE  PartialIsBrief <=>
           \A d \in Days : Lasting(entries[d], now) => \E p \in Procs : Rewrites(call[p], d)
<1>1. \A d \in Days : Live(d) /\ entries[d].ans.partial /\ entries[d].exp > now + MinTodayTTL
                        <=> Lasting(entries[d], now)
  <2> TAKE d \in Days
  <2>1. entries[d] \in Entry \cup {Nothing} /\ now \in Nat
    BY Types, Numbers
  <2> QED BY <2>1, Numbers DEF Live, Lasting, Entry
<1>2. \A p \in Procs, d \in Days : At(p, "fixup") /\ KeyOf(p) = d <=> Rewrites(call[p], d)
  BY DEF At, KeyOf, Probe, Rewrites, CKey
<1> QED BY <1>1, <1>2 DEF PartialIsBrief

\* The invariant of the next state, in terms of this state's kind and calendar.
LEMMA Carry ==
  ASSUME TypeOK', UNCHANGED <<kind, publishedAt>>,
         \A k \in Keys : failedAt'[k] <= now',
         \A k \in Keys : GoodEntry(k, entries'[k], failedAt'),
         \A p \in Procs : call'[p].pc # "idle" => GoodCall(call'[p], failedAt', now'),
         \A d \in Days : Lasting(entries'[d], now')
            => \E p \in Procs : Rewrites(call'[p], d)
  PROVE  IInv'
<1>1. HistoryOK'
  BY DEF HistoryOK
<1>2. Dump' <=> Dump
  BY DEF Dump
<1>3. EntriesOK'
  BY <1>2 DEF EntriesOK, GoodEntry, GoodAnswer, Missing, Fair
<1>4. CallsOK'
  BY <1>2 DEF CallsOK, GoodCall, Walked, ShortTTL, Replied, GoodAnswer, Missing, Fair,
              CKey, Reach
<1>5. PartialIsBrief'
  <2>1. (PartialIsBrief <=> \A d \in Days :
           Lasting(entries[d], now) => \E p \in Procs : Rewrites(call[p], d))'
    BY BriefMeans, PTL
  <2> QED BY <1>2, <2>1 DEF Lasting, Rewrites, CKey
<1> QED BY <1>1, <1>3, <1>4, <1>5 DEF IInv

\* A step of one goroutine's call alone.
LEMMA OneCall ==
  ASSUME IInv, NEW p \in Procs, NEW c \in CallRec,
         UNCHANGED <<kind, publishedAt, now, entries, failedAt>>,
         flight' \in [Keys -> Procs \cup {NoProc}],
         call' = [call EXCEPT ![p] = c], ~At(p, "fixup"),
         c.pc # "idle" => GoodCall(c, failedAt, now)
  PROVE  IInv'
<1>1. TypeOK /\ HistoryOK /\ EntriesOK /\ CallsOK /\ PartialIsBrief
  BY DEF IInv
<1>2. \A q \in Procs : call'[q] = IF q = p THEN c ELSE call[q]
  BY <1>1, Types
<1>3. TypeOK'
  BY <1>1, Types, TypesAgain
<1>4. \A q \in Procs : call'[q].pc # "idle" => GoodCall(call'[q], failedAt', now')
  BY <1>1, <1>2 DEF CallsOK
<1>5. \A d \in Days : Lasting(entries'[d], now') => \E q \in Procs : Rewrites(call'[q], d)
  <2>1. \A d \in Days : Lasting(entries[d], now) => \E q \in Procs : Rewrites(call[q], d)
    BY <1>1, BriefMeans
  <2>2. \A d \in Days, q \in Procs : Rewrites(call[q], d) => Rewrites(call'[q], d)
    BY <1>2 DEF Rewrites, At
  <2> QED BY <2>1, <2>2
<1> QED BY <1>1, <1>3, <1>4, <1>5, Carry DEF HistoryOK, EntriesOK

LEMMA CallStep ==
  ASSUME IInv, NEW p \in Procs, NEW a \in AsOfs, Call(p, a)
  PROVE  IInv'
<1>1. TypeOK
  BY DEF IInv
<1>2. PICK d : d = ClampAsOf(a)
  OBVIOUS
<1>3. d \in Days /\ d * DayTicks <= now /\ now \in Nat /\ now \in 0..MaxNow
  <2>1. now \in Nat /\ now \in 0..MaxNow
    BY <1>1, Types
  <2>2. DayOf(now) \in Days /\ DayOf(now) * DayTicks <= now
    BY <2>1, DayOfTime, DayIsInCalendar
  <2>3. CASE a = NoDate \/ a * DayTicks > now
    BY <1>2, <2>1, <2>2, <2>3 DEF ClampAsOf
  <2>4. CASE ~(a = NoDate \/ a * DayTicks > now)
    <3>1. a \in Nat
      BY <2>4, MarketAssumption DEF MarketAssumption
    <3>2. a * DayTicks \in Nat
      BY <3>1, Numbers
    <3>3. a <= DayOf(now)
      BY <2>1, <2>4, <3>1, <3>2, DayOfTime
    <3>4. d = a
      BY <1>2, <2>4 DEF ClampAsOf
    <3> QED BY <2>1, <2>2, <2>4, <3>1, <3>2, <3>3, <3>4, Numbers DEF Days
  <2> QED BY <2>3, <2>4
<1>4. PICK b : b = NextBack(d, 0)
  OBVIOUS
<1>5. Reach(d) \in 1..Lookback
  BY <1>3, ReachOK
<1>6. b \in 0..Reach(d) /\ \A c \in 0..(b - 1) : ~Dump /\ d - c \in Weekend
  <2>1. 0 \in 0..Reach(d)
    BY <1>5, Numbers
  <2> QED BY <1>3, <1>4, <2>1, NextProbe
<1>7. b \in 0..Lookback
  BY <1>5, <1>6, Numbers
<1>8. PICK c : c = [Idle EXCEPT !.pc = "probe", !.asOf = d, !.back = b, !.began = now]
  OBVIOUS
<1>9. /\ c \in CallRec /\ c.pc = "probe" /\ c.asOf = d /\ c.back = b /\ c.began = now
      /\ c.ans = NoAnswer
  <2>1. Idle \in CallRec /\ Idle.ans = NoAnswer
    BY Numbers DEF CallRec, PCs, Idle, NoAnswer, Answers, Days
  <2>2. "probe" \in PCs
    BY DEF PCs
  <2> QED BY <1>3, <1>7, <1>8, <2>1, <2>2 DEF CallRec
<1>10. call' = [call EXCEPT ![p] = c]
  BY <1>2, <1>4, <1>8 DEF Call
<1>11. Walked(c, failedAt)
  <2>1. CASE Dump
    <3>1. b = 0
      BY <1>5, <1>6, <2>1, Numbers
    <3> QED BY <1>9, <2>1, <3>1 DEF Walked
  <2>2. CASE ~Dump
    <3> SUFFICES ASSUME NEW e \in Days \ Weekend, d - b < e, e <= d
                 PROVE  FALSE
      BY <1>9, <2>2 DEF Walked
    <3>1. d - e \in 0..(b - 1) /\ d - (d - e) = e
      BY <1>3, <1>7, Numbers DEF Days
    <3> QED BY <1>6, <3>1
  <2> QED BY <2>1, <2>2
<1>12. GoodCall(c, failedAt, now)
  <2>1. b <= Reach(d)
    BY <1>5, <1>6, Numbers
  <2> QED BY <1>3, <1>9, <1>11, <2>1 DEF GoodCall, ShortTTL, Replied, NoAnswer
<1> QED BY <1>1, <1>9, <1>10, <1>12, OneCall, Types DEF Call, At

LEMMA GiveUpStep ==
  ASSUME IInv, NEW p \in Procs, GiveUp(p)
  PROVE  IInv'
<1>1. TypeOK /\ call[p] \in CallRec /\ GoodCall(call[p], failedAt, now)
  BY Types DEF IInv, CallsOK, GiveUp, At
<1>2. PICK c : c = [call[p] EXCEPT !.pc = "reply"]
  OBVIOUS
<1>3. c \in CallRec
  BY <1>1, <1>2 DEF CallRec, PCs
<1>4. call' = [call EXCEPT ![p] = c]
  BY <1>1, <1>2 DEF GiveUp
<1>5. GoodCall(c, failedAt, now)
  <2>1. /\ c.pc = "reply" /\ c.asOf = call[p].asOf /\ c.back = call[p].back
        /\ c.began = call[p].began /\ c.ans = call[p].ans
    BY <1>1, <1>2 DEF CallRec
  <2>2. call[p].pc = "probe" /\ call[p].back >= Reach(call[p].asOf)
    BY DEF GiveUp, At, Exhausted
  <2>3. call[p].back = Reach(call[p].asOf)
    <3>1. call[p].asOf \in Days /\ call[p].back \in 0..Lookback
      BY <1>1 DEF CallRec
    <3>2. Reach(call[p].asOf) \in 1..Lookback
      BY <3>1, ReachOK
    <3> QED BY <1>1, <2>2, <3>1, <3>2, Numbers DEF GoodCall
  <2> QED BY <1>1, <2>1, <2>2, <2>3 DEF GoodCall, Walked, ShortTTL, Replied
<1> QED BY <1>1, <1>3, <1>4, <1>5, OneCall, Types DEF GiveUp, At

LEMMA ReturnStep ==
  ASSUME IInv, NEW p \in Procs, Return(p)
  PROVE  IInv'
<1>1. TypeOK
  BY DEF IInv
<1>2. PICK c : c = Idle
  OBVIOUS
<1>3. c \in CallRec /\ c.pc = "idle"
  BY <1>2, Numbers DEF CallRec, PCs, Idle, NoAnswer, Answers, Days
<1> QED BY <1>1, <1>2, <1>3, OneCall, Types DEF Return, At

\* The lifetime a goroutine chooses before it fetches.
LEMMA ChosenTTL ==
  ASSUME TypeOK, NEW p \in Procs, call[p].back < Reach(call[p].asOf),
         GoodCall(call[p], failedAt, now)
  PROVE  /\ TTLOf(p) \in 0..DayTicks
         /\ kind = "daily" /\ now < PublishHour(Probe(p)) => TTLOf(p) <= MinTodayTTL
<1>1. call[p] \in CallRec /\ now \in Nat
  BY Types
<1>2. PICK a, b : a = call[p].asOf /\ b = call[p].back
  OBVIOUS
<1>3. a \in Days /\ b \in 0..Lookback
  BY <1>1, <1>2 DEF CallRec
<1>4. a * DayTicks \in Nat /\ a * DayTicks <= now
  BY <1>1, <1>2, <1>3, Numbers DEF GoodCall, CallRec, Days
<1>5. ASSUME ~Dump
      PROVE  a - b \in Nat /\ (a - b) * DayTicks <= now
  <2>1. a - b \in Nat /\ a - b <= a
    BY <1>2, <1>3, <1>5, ReachOK, Numbers DEF Days
  <2>2. (a - b) * DayTicks \in Nat
    BY <2>1, Numbers
  <2>3. CASE a - b = a
    BY <1>4, <2>1, <2>3
  <2>4. CASE a - b < a
    <3>1. (a - b) * DayTicks + DayTicks <= a * DayTicks
      BY <1>3, <2>1, <2>4, Times, Numbers DEF Days
    <3> QED BY <1>1, <1>4, <2>1, <2>2, <3>1, Numbers
  <2> QED BY <1>3, <2>1, <2>3, <2>4, Numbers DEF Days
<1>6. PICK d : d = IF Dump THEN a ELSE a - b
  OBVIOUS
<1>7. d \in Nat /\ d * DayTicks <= now
  BY <1>3, <1>4, <1>5, <1>6, Numbers DEF Days
<1>8. /\ TTLForAsOf(d) \in 0..DayTicks
      /\ now < PublishHour(d) => TTLForAsOf(d) <= MinTodayTTL
  BY <1>1, <1>7, Lifetime
<1>9. TTLOf(p) = IF kind = "static" THEN ClosedSessionTTL ELSE TTLForAsOf(d)
  BY <1>2, <1>6 DEF TTLOf, Probe
<1>10. kind = "daily" => d = Probe(p)
  BY <1>2, <1>6 DEF Probe, Dump
<1> QED BY <1>8, <1>9, <1>10, Numbers

LEMMA LookStep ==
  ASSUME IInv, NEW p \in Procs, Look(p)
  PROVE  IInv'
<1>1. TypeOK /\ call[p] \in CallRec /\ GoodCall(call[p], failedAt, now)
  BY Types DEF IInv, CallsOK, Look, At
<1>2. call[p].pc = "probe" /\ ~At(p, "fixup")
  BY DEF Look, At
<1>3. call[p].back < Reach(call[p].asOf)
  <2>1. call[p].asOf \in Days /\ call[p].back \in 0..Lookback
    BY <1>1 DEF CallRec
  <2>2. Reach(call[p].asOf) \in 1..Lookback
    BY <2>1, ReachOK
  <2> QED BY <2>1, <2>2, Numbers DEF Look, Exhausted
<1>4. PICK k : k = KeyOf(p)
  OBVIOUS
<1>5. k = CKey(call[p]) /\ k \in Keys
  BY <1>1, <1>3, <1>4, KeyInKeys DEF KeyOf, CKey, Probe
<1>6. UNCHANGED <<kind, publishedAt, now, entries, failedAt>>
  BY DEF Look
<1>7. CASE Live(k) /\ call' = [call EXCEPT ![p] = Visited(call[p], entries[k].ans)]
           /\ flight' = flight
  <2>1. PICK e : e = entries[k]
    OBVIOUS
  <2>2. e # Nothing /\ e \in Entry /\ now < e.exp
    BY <1>1, <1>5, <1>7, <2>1, Types DEF Live
  <2>3. PICK t : t = e.exp - 1
    OBVIOUS
  <2>4. t \in Int /\ call[p].began \in Int /\ call[p].began <= t
    BY <1>1, <2>2, <2>3, Types, Numbers DEF Entry, CallRec, GoodCall
  <2>5. GoodAnswer(k, e.ans, t, failedAt)
    BY <1>5, <2>1, <2>2, <2>3 DEF IInv, EntriesOK, GoodEntry
  <2>6. GoodAnswer(k, e.ans, call[p].began, failedAt)
    <3>1. \A l \in Keys : failedAt[l] <= failedAt[l]
      BY <1>1, Types
    <3> QED BY <1>1, <2>4, <2>5, <3>1, GoodAnswerStays, Types
  <2>7. e.ans \in Answers
    BY <2>2 DEF Entry
  <2>8. PICK c : c = Visited(call[p], e.ans)
    OBVIOUS
  <2>9. c \in CallRec
    BY <1>1, <1>3, <2>7, <2>8, VisitedType
  <2>10. GoodCall(c, failedAt, now)
    BY <1>1, <1>2, <1>3, <1>5, <2>6, <2>7, <2>8, VisitedOK DEF GoodCall
  <2> QED BY <1>1, <1>2, <1>6, <1>7, <2>1, <2>8, <2>9, <2>10, OneCall, Types
<1>8. CASE /\ flight' = [flight EXCEPT ![k] = p]
           /\ call' = [call EXCEPT ![p].pc = "fetch", ![p].ttl = TTLOf(p)]
  <2>1. PICK n : n = TTLOf(p)
    OBVIOUS
  <2>2. /\ n \in 0..DayTicks
        /\ kind = "daily" /\ now < PublishHour(Probe(p)) => n <= MinTodayTTL
    BY <1>1, <1>3, <2>1, ChosenTTL
  <2>3. PICK c : c = [call[p] EXCEPT !.pc = "fetch", !.ttl = n]
    OBVIOUS
  <2>4. c \in CallRec
    BY <1>1, <2>2, <2>3 DEF CallRec, PCs
  <2>5. call' = [call EXCEPT ![p] = c]
    BY <1>1, <1>8, <2>1, <2>3, Types
  <2>6. /\ c.pc = "fetch" /\ c.asOf = call[p].asOf /\ c.back = call[p].back /\ c.ttl = n
        /\ c.began = call[p].began /\ c.ans = call[p].ans
    BY <1>1, <2>3 DEF CallRec
  <2>7. GoodCall(c, failedAt, now)
    BY <1>1, <1>2, <1>3, <2>2, <2>6 DEF GoodCall, Walked, ShortTTL, Replied, Probe
  <2>8. flight' \in [Keys -> Procs \cup {NoProc}]
    BY <1>1, <1>8, Types
  <2> QED BY <1>1, <1>2, <1>6, <2>4, <2>5, <2>7, <2>8, OneCall
<1>9. CASE call' = [call EXCEPT ![p].pc = "wait"] /\ flight' = flight
  <2>1. PICK c : c = [call[p] EXCEPT !.pc = "wait"]
    OBVIOUS
  <2>2. c \in CallRec
    BY <1>1, <2>1 DEF CallRec, PCs
  <2>3. call' = [call EXCEPT ![p] = c]
    BY <1>1, <1>9, <2>1, Types
  <2>4. /\ c.pc = "wait" /\ c.asOf = call[p].asOf /\ c.back = call[p].back
        /\ c.began = call[p].began /\ c.ans = call[p].ans
    BY <1>1, <2>1 DEF CallRec
  <2>5. GoodCall(c, failedAt, now)
    BY <1>1, <1>2, <1>3, <2>4 DEF GoodCall, Walked, ShortTTL, Replied
  <2> QED BY <1>1, <1>2, <1>6, <1>9, <2>2, <2>3, <2>5, OneCall, Types
<1> QED BY <1>4, <1>7, <1>8, <1>9 DEF Look

LEMMA AnswerErrorStep ==
  ASSUME IInv, NEW p \in Procs, AnswerError(p)
  PROVE  IInv'
<1>1. TypeOK /\ HistoryOK /\ EntriesOK /\ CallsOK /\ PartialIsBrief
  BY DEF IInv
<1>2. UNCHANGED <<kind, publishedAt, now, entries, failedAt>>
  BY DEF AnswerError
<1>3. /\ call \in [Procs -> CallRec]
      /\ \A q \in Procs : call'[q] = IF q \in Sharers(p) THEN Failed(call[q]) ELSE call[q]
  BY <1>1, Types DEF AnswerError
<1>4. ASSUME NEW c \in CallRec
      PROVE  /\ Failed(c) \in CallRec
             /\ GoodCall(c, failedAt, now) => GoodCall(Failed(c), failedAt, now)
  <2>1. PICK f : f = Failed(c)
    OBVIOUS
  <2>2. 0 \in 0..DayTicks /\ "reply" \in PCs
    BY Numbers DEF PCs
  <2>3. /\ f \in CallRec /\ f.pc = "reply" /\ f.err = TRUE /\ f.asOf = c.asOf
        /\ f.back = c.back /\ f.began = c.began /\ f.ans = c.ans
    BY <2>1, <2>2 DEF Failed, CallRec
  <2>4. GoodCall(c, failedAt, now) => GoodCall(f, failedAt, now)
    BY <2>3 DEF GoodCall, Walked, ShortTTL, Replied
  <2> QED BY <2>1, <2>3, <2>4
<1>5. \A q \in Sharers(p) : q \in Procs /\ call[q].pc \in {"fetch", "wait"}
  BY DEF AnswerError, At, Sharers
<1>6. TypeOK'
  <2>1. call' \in [Procs -> CallRec]
    <3>1. \A q \in Procs : call'[q] \in CallRec
      BY <1>3, <1>4
    <3>2. call' = [q \in Procs |-> call'[q]]
      BY DEF AnswerError
    <3> QED BY <3>1, <3>2
  <2>2. flight' \in [Keys -> Procs \cup {NoProc}]
    BY <1>1, Types DEF AnswerError
  <2> QED BY <1>1, <1>2, <2>1, <2>2, Types, TypesAgain
<1>7. \A q \in Procs : call'[q].pc # "idle" => GoodCall(call'[q], failedAt', now')
  <2> TAKE q \in Procs
  <2>1. CASE q \in Sharers(p)
    <3>1. call[q] \in CallRec /\ GoodCall(call[q], failedAt, now)
      BY <1>1, <1>3, <1>5, <2>1 DEF CallsOK
    <3> QED BY <1>2, <1>3, <1>4, <2>1, <3>1
  <2>2. CASE q \notin Sharers(p)
    BY <1>1, <1>2, <1>3, <2>2 DEF CallsOK
  <2> QED BY <2>1, <2>2
<1>8. \A d \in Days : Lasting(entries'[d], now') => \E q \in Procs : Rewrites(call'[q], d)
  <2>1. \A d \in Days : Lasting(entries[d], now) => \E q \in Procs : Rewrites(call[q], d)
    BY <1>1, BriefMeans
  <2>2. \A d \in Days, q \in Procs : Rewrites(call[q], d) => Rewrites(call'[q], d)
    BY <1>3, <1>5 DEF Rewrites
  <2> QED BY <1>2, <2>1, <2>2
<1> QED BY <1>1, <1>2, <1>6, <1>7, <1>8, Carry DEF HistoryOK, EntriesOK

\* What a flight brings may be given to whoever asked by now, and to whoever hits
\* the entry while it lives.
LEMMA FreshAnswer ==
  ASSUME TypeOK, NEW p \in Procs, NEW errs, errs # {} => kind = "futures",
         NEW k \in Keys, k = KeyOf(p), ~Dump => k \in Days,
         NEW ans, ans = ExactAnswer(p, errs),
         NEW g \in [Keys -> Nat], Hides(k, errs, ans) => g[k] = now,
         NEW t \in Int, t < now + DayTicks,
         kind = "daily" /\ now < PublishHour(k) => t < PublishHour(k) + MinTodayTTL
  PROVE  GoodAnswer(k, ans, t, g)
<1>1. /\ publishedAt \in [Days -> Nat] /\ now \in Nat
  BY Types, MarketAssumption, Numbers DEF MarketAssumption
<1>2. \A d \in Days : ~Out(d) => publishedAt[d] > now
  BY <1>1 DEF Out
<1>3. CASE Dump
  <2>1. ans = DumpAnswer
    BY <1>3 DEF ExactAnswer
  <2>2. \A d \in Days : Missing(k, ans, d) => ~Out(d)
    <3> SUFFICES ASSUME NEW d \in Days, Missing(k, ans, d), Out(d)
                 PROVE  FALSE
      OBVIOUS
    <3>1. ans.found /\ d <= ans.day /\ ans.day \in Days
      BY <2>1, DumpAnswerOK DEF Answers
    <3> QED BY <1>3, <3>1, Numbers DEF Missing, Days
  <2>3. kind # "daily"
    BY <1>3 DEF Dump
  <2> QED BY <1>1, <1>2, <1>3, <2>2, <2>3, Numbers DEF GoodAnswer, Fair
<1>4. CASE ~Dump
  <2>1. k = Probe(p) /\ k \in Days
    BY <1>4 DEF KeyOf
  <2>2. /\ ans.day = k
        /\ ~ans.found => ~Out(k) \/ (kind = "futures" /\ {"MXF", "TMF"} \subseteq errs)
    BY <1>4, <2>1, ExactAnswerOK
  <2>3. ASSUME ~ans.found
        PROVE  Fair(k, t, g)
    <3>1. CASE ~Out(k)
      <4>1. publishedAt[k] \in Nat /\ publishedAt[k] > now
        BY <1>1, <1>2, <2>1, <3>1
      <4>2. PublishHour(k) \in Nat
        BY <2>1, HourOfDay, Numbers DEF Days
      <4> QED BY <1>1, <4>1, <4>2, Numbers DEF Fair
    <3>2. CASE Out(k)
      <4>1. kind = "futures" /\ errs # {}
        BY <2>2, <2>3, <3>2
      <4>2. g[k] = now
        BY <2>3, <3>2, <4>1 DEF Hides
      <4> QED BY <1>1, <1>4, <4>1, <4>2, Numbers DEF Fair
    <3> QED BY <3>1, <3>2
  <2> QED BY <1>4, <2>2, <2>3 DEF GoodAnswer, Missing
<1> QED BY <1>3, <1>4

LEMMA AnswerOKStep ==
  ASSUME IInv, NEW p \in Procs, NEW errs \in FailSets, AnswerOK(p, errs)
  PROVE  IInv'
<1>1. TypeOK /\ HistoryOK /\ EntriesOK /\ CallsOK /\ PartialIsBrief
  BY DEF IInv
<1>2. UNCHANGED <<kind, publishedAt, now>> /\ now \in Nat
  BY <1>1, Types DEF AnswerOK
<1>3. call[p] \in CallRec /\ call[p].pc = "fetch" /\ GoodCall(call[p], failedAt, now)
  BY <1>1, Types DEF CallsOK, AnswerOK, At
<1>4. call[p].back < Reach(call[p].asOf)
  BY <1>3 DEF GoodCall
<1>5. PICK k, ans, ttl : k = KeyOf(p) /\ ans = ExactAnswer(p, errs) /\ ttl = call[p].ttl
  OBVIOUS
<1>6. k = CKey(call[p]) /\ k \in Keys /\ (~Dump => k \in Days /\ k = Probe(p))
  BY <1>3, <1>4, <1>5, KeyInKeys DEF KeyOf, CKey, Probe
<1>7. ans \in Answers /\ (ans.partial => ans.found /\ ~Dump)
  BY <1>5, <1>6, ExactAnswerOK
<1>8. ttl \in Nat /\ ttl <= DayTicks
      /\ (kind = "daily" /\ now < PublishHour(k) => ttl <= MinTodayTTL)
  <2>1. ttl \in 0..DayTicks
    BY <1>3, <1>5 DEF CallRec
  <2>2. kind = "daily" => k = call[p].asOf - call[p].back
    BY <1>6 DEF Dump, Probe
  <2>3. kind = "daily" /\ now < PublishHour(k) => ttl <= MinTodayTTL
    BY <1>3, <1>5, <2>2 DEF GoodCall, ShortTTL
  <2> QED BY <2>1, <2>3, Numbers
<1>9. PICK g : g = failedAt'
  OBVIOUS
<1>10. /\ g \in [Keys -> Nat] /\ g \in [Keys -> 0..MaxNow]
       /\ (Hides(k, errs, ans) => g[k] = now)
       /\ \A l \in Keys : failedAt[l] <= g[l] /\ g[l] <= now
  <2>1. g = [failedAt EXCEPT ![k] = IF Hides(k, errs, ans) THEN now ELSE @]
    BY <1>5, <1>9 DEF AnswerOK
  <2>2. PICK w : w = IF Hides(k, errs, ans) THEN now ELSE failedAt[k]
    OBVIOUS
  <2>3. failedAt \in [Keys -> 0..MaxNow] /\ failedAt \in [Keys -> Nat] /\ now \in 0..MaxNow
        /\ \A l \in Keys : failedAt[l] <= now
    BY <1>1, Types DEF HistoryOK
  <2>4. w \in 0..MaxNow /\ w \in Nat /\ failedAt[k] <= w /\ w <= now
    BY <1>2, <1>6, <2>2, <2>3
  <2>5. g = [failedAt EXCEPT ![k] = w]
    BY <2>1, <2>2
  <2>6. g \in [Keys -> Nat] /\ g \in [Keys -> 0..MaxNow]
    BY <2>3, <2>4, <2>5
  <2>7. \A l \in Keys : g[l] = IF l = k THEN w ELSE failedAt[l]
    BY <2>3, <2>5
  <2>8. \A l \in Keys : failedAt[l] <= g[l] /\ g[l] <= now
    BY <2>3, <2>4, <2>7
  <2> QED BY <1>6, <2>2, <2>6, <2>7, <2>8
<1>11. errs # {} => kind = "futures"
  BY DEF AnswerOK
<1>12. GoodAnswer(k, ans, now, g)
  <2>1. now < now + DayTicks /\ now \in Int
    BY <1>2, Numbers
  <2>2. kind = "daily" /\ now < PublishHour(k) => now < PublishHour(k) + MinTodayTTL
    <3>1. kind = "daily" => PublishHour(k) \in Nat
      BY <1>6, HourOfDay, Numbers DEF Dump, Days
    <3> QED BY <1>2, <3>1, Numbers
  <2> QED BY <1>1, <1>5, <1>6, <1>10, <1>11, <2>1, <2>2, FreshAnswer
<1>13. GoodAnswer(k, ans, now + ttl - 1, g)
  <2>1. PICK t : t = now + ttl - 1
    OBVIOUS
  <2>2. t \in Int /\ t < now + DayTicks
    BY <1>2, <1>8, <2>1, Numbers
  <2>3. kind = "daily" /\ now < PublishHour(k) => t < PublishHour(k) + MinTodayTTL
    <3>1. kind = "daily" => PublishHour(k) \in Nat
      BY <1>6, HourOfDay, Numbers DEF Dump, Days
    <3> QED BY <1>2, <1>8, <2>1, <3>1, Numbers
  <2>4. GoodAnswer(k, ans, t, g)
    BY <1>1, <1>5, <1>6, <1>10, <1>11, <2>2, <2>3, FreshAnswer
  <2> QED BY <2>1, <2>4
<1>14. PICK e : e = [ans |-> ans, exp |-> now + ttl]
  OBVIOUS
<1>15. e \in Entry /\ GoodEntry(k, e, g)
  BY <1>2, <1>7, <1>8, <1>13, <1>14 DEF Entry, GoodEntry
<1>16. /\ entries' = [entries EXCEPT ![k] = e] /\ entries \in [Keys -> Entry \cup {Nothing}]
       /\ \A l \in Keys : entries'[l] = IF l = k THEN e ELSE entries[l]
  <2>1. entries' = [entries EXCEPT ![k] = e] /\ entries \in [Keys -> Entry \cup {Nothing}]
    BY <1>1, <1>5, <1>14, Types DEF AnswerOK
  <2> QED BY <2>1
<1>17. /\ call \in [Procs -> CallRec] /\ call' = [q \in Procs |-> call'[q]]
       /\ \A q \in Procs : call'[q] =
            IF q = p /\ NeedsFixup(ans) THEN [call[q] EXCEPT !.pc = "fixup", !.ans = ans]
            ELSE IF q \in Sharers(p) THEN Visited(call[q], ans) ELSE call[q]
  BY <1>1, <1>5, Types DEF AnswerOK
<1>18. ASSUME NEW q \in Sharers(p)
       PROVE  /\ q \in Procs /\ call[q] \in CallRec /\ call[q].pc \in {"fetch", "wait"}
              /\ CKey(call[q]) = k /\ GoodCall(call[q], g, now)
              /\ call[q].back < Reach(call[q].asOf) /\ ~call[q].ans.found
              /\ GoodAnswer(CKey(call[q]), ans, call[q].began, g)
  <2>1. q \in Procs /\ call[q].pc \in {"fetch", "wait"} /\ CKey(call[q]) = k
    BY <1>3, <1>5, <1>6 DEF Sharers, At, KeyOf, CKey, Probe
  <2>2. call[q] \in CallRec /\ GoodCall(call[q], failedAt, now)
    BY <1>17, <1>1, <2>1 DEF CallsOK
  <2>3. GoodCall(call[q], g, now)
    BY <1>1, <1>2, <1>10, <2>2, GoodCallStays, Types
  <2>4. call[q].began \in Int /\ call[q].began <= now /\ now \in Int
    BY <1>2, <2>2, Numbers DEF CallRec, GoodCall
  <2>5. \A l \in Keys : g[l] <= g[l]
    BY <1>10
  <2>6. GoodAnswer(k, ans, call[q].began, g)
    BY <1>1, <1>10, <1>12, <2>4, <2>5, GoodAnswerStays, Types
  <2> QED BY <2>1, <2>2, <2>3, <2>6 DEF GoodCall
<1>19. ASSUME NeedsFixup(ans)
       PROVE  /\ call'[p] \in CallRec /\ GoodCall(call'[p], g, now)
              /\ call'[p].pc = "fixup" /\ CKey(call'[p]) = k
  <2>1. PICK c : c = [call[p] EXCEPT !.pc = "fixup", !.ans = ans]
    OBVIOUS
  <2>2. call'[p] = c
    BY <1>17, <1>19, <2>1
  <2>3. /\ c \in CallRec /\ c.pc = "fixup" /\ c.ans = ans /\ c.asOf = call[p].asOf
        /\ c.back = call[p].back /\ c.began = call[p].began
    BY <1>3, <1>7, <2>1 DEF CallRec, PCs
  <2>4. ans.found /\ ~Dump
    BY <1>7, <1>19 DEF NeedsFixup
  <2>5. p \in Sharers(p)
    BY DEF Sharers
  <2>6. CKey(c) = k
    BY <1>6, <2>3 DEF CKey
  <2>7. GoodCall(call[p], g, now) /\ GoodAnswer(k, ans, call[p].began, g)
    BY <1>6, <1>18, <2>5
  <2>8. GoodCall(c, g, now)
    BY <1>4, <2>3, <2>4, <2>6, <2>7 DEF GoodCall, Walked, ShortTTL, Replied
  <2> QED BY <2>2, <2>3, <2>6, <2>8
<1>20. ASSUME NEW q \in Procs
       PROVE  call'[q] \in CallRec /\ (call'[q].pc # "idle" => GoodCall(call'[q], g, now))
  <2>1. CASE q = p /\ NeedsFixup(ans)
    BY <1>19, <2>1
  <2>2. CASE ~(q = p /\ NeedsFixup(ans)) /\ q \in Sharers(p)
    <3>1. PICK c : c = call[q]
      OBVIOUS
    <3>2. /\ c \in CallRec /\ GoodCall(c, g, now) /\ c.back < Reach(c.asOf) /\ ~c.ans.found
          /\ GoodAnswer(CKey(c), ans, c.began, g)
      BY <1>18, <2>2, <3>1
    <3>3. Visited(c, ans) \in CallRec /\ GoodCall(Visited(c, ans), g, now)
      BY <1>7, <3>2, VisitedType, VisitedOK
    <3>4. call'[q] = Visited(c, ans)
      BY <1>17, <2>2, <3>1
    <3> QED BY <3>3, <3>4
  <2>3. CASE ~(q = p /\ NeedsFixup(ans)) /\ q \notin Sharers(p)
    <3>1. call'[q] = call[q] /\ call[q] \in CallRec
      BY <1>17, <2>3
    <3>2. call[q].pc # "idle" => GoodCall(call[q], failedAt, now)
      BY <1>1 DEF CallsOK
    <3> QED BY <1>1, <1>2, <1>10, <3>1, <3>2, GoodCallStays, Types
  <2> QED BY <2>1, <2>2, <2>3
<1>21. TypeOK'
  <2>1. call' \in [Procs -> CallRec]
    BY <1>17, <1>20
  <2>2. flight' \in [Keys -> Procs \cup {NoProc}]
    BY <1>1, Types DEF AnswerOK
  <2>3. entries' \in [Keys -> Entry \cup {Nothing}]
    BY <1>15, <1>16
  <2> QED BY <1>1, <1>2, <1>9, <1>10, <2>1, <2>2, <2>3, Types, TypesAgain
<1>22. \A l \in Keys : GoodEntry(l, entries'[l], g)
  <2> TAKE l \in Keys
  <2>1. CASE l = k
    BY <1>15, <1>16, <2>1
  <2>2. CASE l # k
    <3>1. PICK x : x = entries[l]
      OBVIOUS
    <3>2. x \in Entry \cup {Nothing} /\ GoodEntry(l, x, failedAt) /\ entries'[l] = x
      BY <1>1, <1>16, <2>2, <3>1 DEF EntriesOK
    <3>3. ASSUME x # Nothing
          PROVE  GoodAnswer(l, x.ans, x.exp - 1, g)
      <4>1. PICK t : t = x.exp - 1
        OBVIOUS
      <4>2. t \in Int /\ t <= t
        BY <3>2, <3>3, <4>1 DEF Entry
      <4>3. GoodAnswer(l, x.ans, t, failedAt)
        BY <3>2, <3>3, <4>1 DEF GoodEntry
      <4>4. GoodAnswer(l, x.ans, t, g)
        BY <1>1, <1>10, <4>2, <4>3, GoodAnswerStays, Types
      <4> QED BY <4>1, <4>4
    <3> QED BY <3>2, <3>3 DEF GoodEntry
  <2> QED BY <2>1, <2>2
<1>23. \A d \in Days : Lasting(entries'[d], now') => \E q \in Procs : Rewrites(call'[q], d)
  <2> SUFFICES ASSUME NEW d \in Days, Lasting(entries'[d], now)
               PROVE  \E q \in Procs : Rewrites(call'[q], d)
    BY <1>2
  <2>1. CASE d = k
    <3>1. ans.partial
      BY <1>6, <1>14, <1>16, <2>1 DEF Lasting
    <3>2. NeedsFixup(ans)
      BY <1>7, <3>1 DEF NeedsFixup
    <3> QED BY <1>19, <2>1, <3>2 DEF Rewrites
  <2>2. CASE d # k
    <3>1. entries'[d] = entries[d]
      BY <1>16, <2>2, Numbers
    <3>2. PICK q \in Procs : Rewrites(call[q], d)
      BY <1>1, <3>1, BriefMeans
    <3>3. q # p /\ q \notin Sharers(p)
      BY <1>3, <1>18, <3>2 DEF Rewrites
    <3>4. call'[q] = call[q]
      BY <1>17, <3>3
    <3> QED BY <3>2, <3>4
  <2> QED BY <2>1, <2>2
<1> QED BY <1>2, <1>9, <1>10, <1>20, <1>21, <1>22, <1>23, Carry

LEMMA FixupStep ==
  ASSUME IInv, NEW p \in Procs, Fixup(p)
  PROVE  IInv'
<1>1. TypeOK /\ HistoryOK /\ EntriesOK /\ CallsOK /\ PartialIsBrief
  BY DEF IInv
<1>2. UNCHANGED <<kind, publishedAt, now, flight, failedAt>> /\ now \in Nat
  BY <1>1, Types DEF Fixup
<1>3. PICK c : c = call[p]
  OBVIOUS
<1>4. c \in CallRec /\ c.pc = "fixup" /\ GoodCall(c, failedAt, now)
  BY <1>1, <1>3, Types DEF CallsOK, Fixup, At
<1>5. c.back < Reach(c.asOf) /\ c.ans.found /\ ~Dump /\ c.ans \in Answers
      /\ GoodAnswer(CKey(c), c.ans, c.began, failedAt)
  BY <1>4 DEF GoodCall, Replied, CallRec
<1>6. PICK k : k = KeyOf(p)
  OBVIOUS
<1>7. k = CKey(c) /\ k \in Keys /\ c.ans.day = k
  BY <1>3, <1>4, <1>5, <1>6, KeyInKeys DEF KeyOf, CKey, Probe, GoodAnswer
<1>8. PICK exp : exp = now + AtMost(c.ttl, MinTodayTTL)
  OBVIOUS
<1>9. exp \in Nat /\ exp <= now + MinTodayTTL
  <2>1. c.ttl \in Nat
    BY <1>4, Numbers DEF CallRec
  <2> QED BY <1>2, <1>8, <2>1, Numbers DEF AtMost
<1>10. PICK e : e = [ans |-> c.ans, exp |-> exp]
  OBVIOUS
<1>11. e \in Entry /\ e.ans = c.ans /\ e.exp = exp
  BY <1>5, <1>9, <1>10 DEF Entry
<1>12. GoodEntry(k, e, failedAt)
  BY <1>5, <1>7, <1>11 DEF GoodEntry, GoodAnswer, Missing
<1>13. /\ entries' = [entries EXCEPT ![k] = e] /\ entries \in [Keys -> Entry \cup {Nothing}]
  BY <1>1, <1>3, <1>6, <1>8, <1>10, Types DEF Fixup
<1>14. \A l \in Keys : entries'[l] = IF l = k THEN e ELSE entries[l]
  BY <1>13
<1>15. PICK v : v = Visited(c, c.ans)
  OBVIOUS
<1>16. v \in CallRec /\ v.pc = "reply" /\ GoodCall(v, failedAt, now)
  BY <1>4, <1>5, <1>15, VisitedType, VisitedOK
<1>17. /\ call' = [call EXCEPT ![p] = v] /\ call \in [Procs -> CallRec]
       /\ \A q \in Procs : call'[q] = IF q = p THEN v ELSE call[q]
  <2>1. call' = [call EXCEPT ![p] = v] /\ call \in [Procs -> CallRec]
    BY <1>1, <1>3, <1>15, Types DEF Fixup
  <2> QED BY <2>1
<1>18. TypeOK'
  BY <1>1, <1>2, <1>11, <1>13, <1>16, <1>17, Types, TypesAgain
<1>19. \A q \in Procs : call'[q].pc # "idle" => GoodCall(call'[q], failedAt', now')
  BY <1>1, <1>2, <1>16, <1>17 DEF CallsOK
<1>20. \A l \in Keys : GoodEntry(l, entries'[l], failedAt')
  BY <1>1, <1>2, <1>12, <1>14 DEF EntriesOK
<1>21. \A d \in Days : Lasting(entries'[d], now') => \E q \in Procs : Rewrites(call'[q], d)
  <2> SUFFICES ASSUME NEW d \in Days, Lasting(entries'[d], now)
               PROVE  \E q \in Procs : Rewrites(call'[q], d)
    BY <1>2
  <2>1. d # k
    <3>1. CASE d = k
      <4>1. exp > now + MinTodayTTL
        BY <1>7, <1>11, <1>14, <3>1 DEF Lasting
      <4> QED BY <1>2, <1>9, <4>1, Numbers
    <3> QED BY <3>1
  <2>2. entries'[d] = entries[d]
    BY <1>14, <2>1, Numbers
  <2>3. PICK q \in Procs : Rewrites(call[q], d)
    BY <1>1, <2>2, BriefMeans
  <2>4. q # p
    BY <1>3, <1>7, <2>1, <2>3 DEF Rewrites
  <2> QED BY <1>17, <2>3, <2>4
<1> QED BY <1>1, <1>2, <1>18, <1>19, <1>20, <1>21, Carry DEF HistoryOK

LEMMA EvictStep ==
  ASSUME IInv, NEW k \in Evictable, Evict(k)
  PROVE  IInv'
<1>1. TypeOK /\ HistoryOK /\ EntriesOK /\ CallsOK /\ PartialIsBrief
  BY DEF IInv
<1>2. UNCHANGED <<kind, publishedAt, now, flight, call, failedAt>>
  BY DEF Evict
<1>3. entries' = [entries EXCEPT ![k] = Nothing] /\ entries \in [Keys -> Entry \cup {Nothing}]
  BY <1>1, Types DEF Evict
<1>4. \A l \in Keys : entries'[l] = IF l = k THEN Nothing ELSE entries[l]
  BY <1>3
<1>5. TypeOK'
  BY <1>1, <1>2, <1>3, Types, TypesAgain
<1>6. \A l \in Keys : GoodEntry(l, entries'[l], failedAt')
  BY <1>1, <1>2, <1>4 DEF EntriesOK, GoodEntry
<1>7. \A d \in Days : Lasting(entries'[d], now') => \E p \in Procs : Rewrites(call'[p], d)
  <2>1. \A d \in Days : Lasting(entries'[d], now) => Lasting(entries[d], now)
    BY <1>4, Numbers DEF Lasting
  <2>2. \A d \in Days : Lasting(entries[d], now) => \E p \in Procs : Rewrites(call[p], d)
    BY <1>1, BriefMeans
  <2> QED BY <1>2, <2>1, <2>2
<1> QED BY <1>1, <1>2, <1>5, <1>6, <1>7, Carry DEF HistoryOK, CallsOK

LEMMA TickStep ==
  ASSUME IInv, Tick
  PROVE  IInv'
<1>1. TypeOK /\ HistoryOK /\ EntriesOK /\ CallsOK /\ PartialIsBrief
  BY DEF IInv
<1>2. UNCHANGED <<kind, publishedAt, flight, call, failedAt>>
  BY DEF Tick
<1>3. now \in Nat /\ now' = now + 1 /\ now' \in Start..MaxNow
  BY <1>1, Types, Numbers DEF Tick
<1>4. \A k \in Keys : entries'[k] = entries[k] \/ entries'[k] = Nothing
  BY DEF Tick
<1>5. TypeOK'
  <2>1. entries' = [k \in Keys |-> entries'[k]]
    BY DEF Tick
  <2>2. \A k \in Keys : entries'[k] \in Entry \cup {Nothing}
    BY <1>1, <1>4, Types
  <2>3. entries' \in [Keys -> Entry \cup {Nothing}]
    BY <2>1, <2>2
  <2> QED BY <1>1, <1>2, <1>3, <2>3, Types, TypesAgain
<1>6. \A k \in Keys : failedAt[k] \in Nat /\ failedAt[k] <= failedAt[k] /\ failedAt[k] <= now
  BY <1>1, Types DEF HistoryOK
<1>7. \A k \in Keys : failedAt'[k] <= now'
  BY <1>2, <1>3, <1>6
<1>8. \A k \in Keys : GoodEntry(k, entries'[k], failedAt')
  BY <1>1, <1>2, <1>4 DEF EntriesOK, GoodEntry
<1>9. \A p \in Procs : call'[p].pc # "idle" => GoodCall(call'[p], failedAt', now')
  <2> SUFFICES ASSUME NEW p \in Procs, call[p].pc # "idle"
               PROVE  GoodCall(call[p], failedAt, now')
    BY <1>2
  <2>1. PICK t \in Nat : t = now' /\ now <= t
    BY <1>3
  <2>2. call[p] \in CallRec /\ GoodCall(call[p], failedAt, now)
    BY <1>1, Types DEF CallsOK
  <2>3. GoodCall(call[p], failedAt, t)
    BY <1>1, <1>3, <1>6, <2>1, <2>2, GoodCallStays, Types
  <2> QED BY <2>1, <2>3
<1>10. \A d \in Days : Lasting(entries'[d], now') => \E p \in Procs : Rewrites(call'[p], d)
  <2> SUFFICES ASSUME NEW d \in Days, Lasting(entries'[d], now')
               PROVE  \E p \in Procs : Rewrites(call[p], d)
    BY <1>2
  <2>1. entries'[d] = entries[d] /\ entries[d] \in Entry
    BY <1>1, <1>4, Types, Numbers DEF Lasting
  <2>2. Lasting(entries[d], now)
    BY <1>3, <2>1, Numbers DEF Lasting, Entry
  <2> QED BY <1>1, <2>2, BriefMeans
<1> QED BY <1>2, <1>5, <1>7, <1>8, <1>9, <1>10, Carry
-----------------------------------------------------------------------------

LEMMA InitIInv == Init => IInv
<1> SUFFICES ASSUME Init PROVE IInv
  OBVIOUS
<1>1. TypeOK
  <2>1. now \in Start..MaxNow
    BY Numbers, MarketAssumption DEF Init, MarketAssumption
  <2>2. Idle \in CallRec
    BY Numbers DEF CallRec, PCs, Idle, NoAnswer, Answers, Days
  <2>3. 0 \in 0..MaxNow
    BY Numbers
  <2> QED BY <2>1, <2>2, <2>3 DEF Init, TypeOK, CallRec
<1>2. HistoryOK /\ EntriesOK
  BY Numbers DEF Init, HistoryOK, EntriesOK, GoodEntry
<1>3. \A p \in Procs : call[p].pc = "idle"
  BY DEF Init, Idle
<1>4. PartialIsBrief
  BY Numbers DEF Init, PartialIsBrief, Live
<1> QED BY <1>1, <1>2, <1>3, <1>4 DEF IInv, CallsOK

LEMMA NextIInv == IInv /\ [Next]_vars => IInv'
<1> SUFFICES ASSUME IInv, [Next]_vars PROVE IInv'
  OBVIOUS
<1>1. ASSUME NEW p \in Procs, NEW a \in AsOfs, Call(p, a) PROVE IInv'
  BY <1>1, CallStep
<1>2. ASSUME NEW p \in Procs, GiveUp(p) PROVE IInv'
  BY <1>2, GiveUpStep
<1>3. ASSUME NEW p \in Procs, Look(p) PROVE IInv'
  BY <1>3, LookStep
<1>4. ASSUME NEW p \in Procs, AnswerError(p) PROVE IInv'
  BY <1>4, AnswerErrorStep
<1>5. ASSUME NEW p \in Procs, NEW errs \in FailSets, AnswerOK(p, errs) PROVE IInv'
  BY <1>5, AnswerOKStep
<1>6. ASSUME NEW p \in Procs, Fixup(p) PROVE IInv'
  BY <1>6, FixupStep
<1>7. ASSUME NEW p \in Procs, Return(p) PROVE IInv'
  BY <1>7, ReturnStep
<1>8. ASSUME NEW k \in Evictable, Evict(k) PROVE IInv'
  BY <1>8, EvictStep
<1>9. CASE Tick
  BY <1>9, TickStep
<1>10. CASE UNCHANGED vars
  <2>1. UNCHANGED <<kind, publishedAt, now, entries, flight, call, failedAt>>
    BY <1>10 DEF vars
  <2>2. TypeOK /\ HistoryOK /\ EntriesOK /\ CallsOK /\ PartialIsBrief
    BY DEF IInv
  <2>3. TypeOK'
    BY <2>1, <2>2, Types, TypesAgain
  <2>4. \A d \in Days : Lasting(entries'[d], now') => \E p \in Procs : Rewrites(call'[p], d)
    BY <2>1, <2>2, BriefMeans
  <2> QED BY <2>1, <2>2, <2>3, <2>4, Carry DEF HistoryOK, EntriesOK, CallsOK
<1> QED BY <1>1, <1>2, <1>3, <1>4, <1>5, <1>6, <1>7, <1>8, <1>9, <1>10 DEF Next

\* The inductive invariant: entries, walks and replies are fair.
THEOREM MarketSafe == Spec => []IInv
BY InitIInv, NextIInv, PTL DEF Spec

\* The state has its type: a walk stays inside its reach and the calendar, a
\* lifetime is at most a day, for every calendar and every choice of hours.
THEOREM MarketTypeCorrect == Spec => []TypeOK
<1>1. IInv => TypeOK
  BY DEF IInv
<1> QED BY <1>1, MarketSafe, PTL

\* GetRetailFutures leaves no partial answer behind that outlives partialEntryTTL.
THEOREM PartialsAreBrief == Spec => []PartialIsBrief
<1>1. IInv => PartialIsBrief
  BY DEF IInv
<1> QED BY <1>1, MarketSafe, PTL

\* What a reply without an error passes over is fair at the start of its call.
LEMMA PassedOverIsFair ==
  ASSUME IInv, NEW p \in Procs, At(p, "reply"), ~call[p].err, NEW d \in PassedOver(p)
  PROVE  Fair(d, call[p].began, failedAt)
<1>1. PICK c : c = call[p]
  OBVIOUS
<1>2. c \in CallRec /\ c.pc = "reply" /\ ~c.err /\ GoodCall(c, failedAt, now)
  BY <1>1, Types DEF IInv, CallsOK, At
<1>3. c.asOf \in Days /\ c.back \in 0..Lookback /\ c.ans \in Answers
  BY <1>2 DEF CallRec
<1>4. Walked(c, failedAt) /\ Replied(c, failedAt)
  BY <1>2 DEF GoodCall
<1>5. Reach(c.asOf) \in 1..Lookback /\ d \in Days \ Weekend
  BY <1>3, ReachOK DEF PassedOver
<1>6. CASE Dump
  <2>1. CASE c.ans.found
    <3>1. d >= c.ans.day + 1
      BY <1>1, <1>6, <2>1 DEF PassedOver
    <3>2. Missing(CKey(c), c.ans, d)
      BY <1>3, <1>5, <1>6, <3>1, Numbers DEF Missing, Answers, Days
    <3> QED BY <1>1, <1>2, <1>4, <1>5, <2>1, <3>2 DEF Replied, GoodAnswer
  <2>2. CASE ~c.ans.found
    <3>1. c.back # 0
      BY <1>2, <1>4, <1>5, <2>2, Numbers DEF Replied
    <3> QED BY <1>1, <1>4, <1>5, <1>6, <3>1 DEF Walked
  <2> QED BY <2>1, <2>2
<1>7. CASE ~Dump
  <2>1. d <= c.asOf
    BY <1>1, <1>7 DEF PassedOver
  <2>2. c.asOf - c.back < d
    <3>1. CASE c.ans.found
      <4>1. c.ans.day = c.asOf - c.back
        BY <1>2, <1>4, <1>7, <3>1 DEF Replied, GoodAnswer, CKey
      <4>2. c.ans.day + 1 <= d
        BY <1>1, <3>1 DEF PassedOver
      <4> QED BY <1>3, <1>5, <4>1, <4>2, Numbers DEF Days
    <3>2. CASE ~c.ans.found
      <4>1. c.back = Reach(c.asOf)
        BY <1>2, <1>4, <3>2 DEF Replied
      <4>2. c.asOf - Lookback + 1 <= d
        BY <1>1, <1>7, <3>2 DEF PassedOver
      <4>3. Reach(c.asOf) = Lookback \/ Reach(c.asOf) = c.asOf + 1
        BY <1>3, <1>7, ReachOK
      <4> QED BY <1>3, <1>5, <4>1, <4>2, <4>3, Numbers DEF Days
    <3> QED BY <3>1, <3>2
  <2> QED BY <1>1, <1>4, <1>5, <1>7, <2>1, <2>2 DEF Walked
<1> QED BY <1>6, <1>7

\* A day is passed over only if it came out, or a contract of it failed, within
\* 24 hours before the call: no failed fetch ever sends a walk to an older day.
THEOREM NewestDayWins == Spec => []NewestWithinADay
<1>1. IInv => NewestWithinADay
  BY PassedOverIsFair DEF NewestWithinADay, Fair
<1> QED BY <1>1, MarketSafe, PTL

\* A day that is out by its publishing hour is passed over by nobody who asks
\* minTodayTTL after it, for lifetimes chosen before the fetches they are for.
THEOREM PublishedDayShows == Spec => []OnTimeDayShows
<1>1. IInv => OnTimeDayShows
  BY PassedOverIsFair DEF OnTimeDayShows, Fair
<1> QED BY <1>1, MarketSafe, PTL
=============================================================================

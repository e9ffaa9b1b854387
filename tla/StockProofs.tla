---------------------------- MODULE StockProofs ----------------------------
(***************************************************************************)
(* Proofs about the parts of a stock page beside the daily feeds: one      *)
(* invariant for each part, which its own steps keep, and which rests when *)
(* another part moves.                                                     *)
(***************************************************************************)
EXTENDS Stock, SequenceTheorems, WellFoundedInduction, TLAPS

-----------------------------------------------------------------------------
(* Aggregate.  The copy a goroutine decides on may be old by then: what    *)
(* makes its answer good is that the copied value is as old as its time    *)
(* says or has outlived a failure since, that failures are only ever       *)
(* younger, and that a copy made after a success holds a value.            *)

AggregatePCs == {"idle", "decide", "enter", "wait", "fetch", "done", "reply"}
AggregateCalls == [pc : AggregatePCs, seen : A!Records, began : 0..MaxClock,
                   hadOK : BOOLEAN, val : A!Values, err : BOOLEAN]

AggregateTypes ==
  /\ kind \in Kinds /\ clock \in 0..MaxClock
  /\ cached \in A!Records
  /\ universe \in [A!Exchanges -> {A!Never} \cup 0..MaxClock]
  /\ leader \in Procs \cup {NoProc}
  /\ get \in [Procs -> AggregateCalls]
  /\ failedAt \in {A!Never} \cup 0..MaxClock
  /\ everOK \in BOOLEAN
  /\ kind = "breadth" /\ A!HasOK(cached) => cached.val.parts \cap Batches["TSE"] # {}

\* A value is of the time beside it, or a refresh has failed then or later.
Aged(c, failed) == A!HasOK(c) => c.val.at = c.at \/ failed >= c.at

\* Nobody is given an old value, or nothing, without the cause being known.
Answered(c, failed) ==
  /\ ~c.err => /\ c.val # NoValue
               /\ \/ c.val.at > c.began - SuccessTTL[kind]
                  \/ failed > c.began - SuccessTTL[kind]
  /\ kind = "market" /\ c.hadOK => c.val # NoValue

GoodGet(c, failed, t) ==
  /\ c.began <= t /\ Aged(c.seen, failed)
  /\ c.pc \in {"decide", "enter", "wait", "fetch", "done"} /\ c.hadOK => A!HasOK(c.seen)
  /\ c.pc = "done" /\ ~c.err => c.val # NoValue /\ c.val.at = t
  /\ c.pc = "reply" => Answered(c, failed)

\* The inductive invariant of the aggregate and the breadth.
AggregateInv ==
  /\ AggregateTypes
  /\ failedAt <= clock /\ Aged(cached, failedAt)
  /\ everOK => A!HasOK(cached)
  /\ \A p \in Procs : GoodGet(get[p], failedAt, clock)

\* Lifetimes and values.
LEMMA Lifetimes ==
  /\ \A k \in Kinds : SuccessTTL[k] \in Nat /\ SuccessTTL[k] > 0 /\ FailureTTL[k] \in Nat
  /\ UniverseTTL \in Nat /\ MaxClock \in Nat /\ A!Never \in Int /\ A!Never <= 0
  BY StockAssumption DEF StockAssumption, A!Never

LEMMA FetchedValue ==
  ASSUME NEW t \in 0..MaxClock, NEW parts \in SUBSET A!Parts, parts # {}
  PROVE  [at |-> t, parts |-> parts] \in A!Values /\ [at |-> t, parts |-> parts] # NoValue
<1>1. [at |-> t, parts |-> parts] \in [at : 0..MaxClock, parts : SUBSET A!Parts]
  OBVIOUS
<1>2. NoValue \notin [at : 0..MaxClock, parts : SUBSET A!Parts]
  BY StockAssumption DEF StockAssumption, A!Parts, A!Feeds
<1>3. parts \in (SUBSET A!Parts) \ {{}}
  OBVIOUS
<1>4. PICK r : r = [at |-> t, parts |-> parts]
  OBVIOUS
<1>5. r \in [at : 0..MaxClock, parts : (SUBSET A!Parts) \ {{}}]
  BY <1>3, <1>4
<1>6. r \in A!Values
  BY <1>5 DEF A!Values
<1> QED BY <1>1, <1>2, <1>4, <1>6

LEMMA NothingFetched ==
  /\ NoValue \in A!Values /\ A!Empty \in A!Records /\ ~A!HasOK(A!Empty)
  /\ A!Idle \in AggregateCalls
  BY Lifetimes DEF A!Values, A!Records, A!Empty, A!HasOK, A!Idle, AggregateCalls, AggregatePCs

\* What was good stays good when time passes and more has failed.
LEMMA GoodGetStays ==
  ASSUME kind \in Kinds, NEW c \in AggregateCalls, NEW f \in Int, NEW g \in Int, f <= g,
         NEW t \in Nat, NEW u \in Nat, t <= u, c.pc = "done" => t = u,
         GoodGet(c, f, t)
  PROVE  GoodGet(c, g, u)
<1>1. c.began \in Int /\ c.seen \in A!Records /\ SuccessTTL[kind] \in Nat
  BY Lifetimes DEF AggregateCalls
<1>2. c.seen.at \in Int
  BY <1>1, Lifetimes DEF A!Records
<1>3. Aged(c.seen, g)
  BY <1>2 DEF GoodGet, Aged
<1>4. c.pc = "reply" => Answered(c, g)
  BY <1>1 DEF GoodGet, Answered
<1> QED BY <1>1, <1>3, <1>4 DEF GoodGet

LEMMA AggregateCarry ==
  ASSUME AggregateTypes', kind' = kind, failedAt' <= clock', Aged(cached', failedAt'),
         everOK' => A!HasOK(cached'),
         \A p \in Procs : GoodGet(get'[p], failedAt', clock')
  PROVE  AggregateInv'
<1>1. (everOK => A!HasOK(cached))' /\ Aged(cached, failedAt)'
  BY DEF Aged, A!HasOK
<1>2. \A p \in Procs : GoodGet(get[p], failedAt, clock)'
  BY DEF GoodGet, Answered, Aged, A!HasOK
<1> QED BY <1>1, <1>2 DEF AggregateInv

\* A step of one goroutine's call alone.
LEMMA OneGet ==
  ASSUME AggregateInv, NEW p \in Procs, NEW c \in AggregateCalls,
         UNCHANGED <<kind, clock, cached, universe, failedAt, everOK>>,
         leader' \in Procs \cup {NoProc},
         get' = [get EXCEPT ![p] = c], GoodGet(c, failedAt, clock)
  PROVE  AggregateInv'
<1>1. \A q \in Procs : get'[q] = IF q = p THEN c ELSE get[q]
  BY DEF AggregateInv, AggregateTypes
<1>2. AggregateTypes'
  BY DEF AggregateInv, AggregateTypes, A!HasOK
<1>3. \A q \in Procs : GoodGet(get'[q], failedAt', clock')
  BY <1>1 DEF AggregateInv
<1> QED BY <1>2, <1>3, AggregateCarry DEF AggregateInv

LEMMA ReadStep ==
  ASSUME AggregateInv, NEW p \in Procs, A!Read(p)
  PROVE  AggregateInv'
<1>1. PICK c : c = [A!Idle EXCEPT !.pc = "decide", !.seen = cached, !.began = clock,
                                  !.hadOK = everOK]
  OBVIOUS
<1>2. cached \in A!Records /\ clock \in 0..MaxClock /\ everOK \in BOOLEAN
  BY DEF AggregateInv, AggregateTypes
<1>3. /\ c \in AggregateCalls /\ c.pc = "decide" /\ c.seen = cached /\ c.began = clock
      /\ c.hadOK = everOK
  BY <1>1, <1>2, NothingFetched DEF AggregateCalls, AggregatePCs
<1>4. GoodGet(c, failedAt, clock)
  BY <1>2, <1>3 DEF GoodGet, AggregateInv
<1>5. get' = [get EXCEPT ![p] = c]
  BY <1>1 DEF A!Read
<1> QED BY <1>3, <1>4, <1>5, OneGet DEF A!Read, AggregateInv, AggregateTypes

\* A reply that ends a call.
LEMMA ReplyType ==
  ASSUME NEW c \in AggregateCalls, NEW v \in A!Values, NEW e \in BOOLEAN
  PROVE  /\ A!Reply(c, v, e) \in AggregateCalls /\ A!Reply(c, v, e).pc = "reply"
         /\ A!Reply(c, v, e).val = v /\ A!Reply(c, v, e).err = e
         /\ A!Reply(c, v, e).began = c.began /\ A!Reply(c, v, e).hadOK = c.hadOK
         /\ A!Reply(c, v, e).seen = A!Empty
BY NothingFetched DEF A!Reply, AggregateCalls, AggregatePCs

LEMMA ReplyOK ==
  ASSUME NEW c \in AggregateCalls, NEW v \in A!Values, NEW e \in BOOLEAN, NEW f, NEW t,
         GoodGet(c, f, t),
         ~e => v # NoValue /\ (\/ v.at > c.began - SuccessTTL[kind]
                               \/ f > c.began - SuccessTTL[kind]),
         kind = "market" /\ c.hadOK => v # NoValue
  PROVE  GoodGet(A!Reply(c, v, e), f, t)
BY ReplyType, NothingFetched DEF GoodGet, Answered, Aged

LEMMA DecideStep ==
  ASSUME AggregateInv, NEW p \in Procs, A!Decide(p)
  PROVE  AggregateInv'
<1>1. PICK c : c = get[p]
  OBVIOUS
<1>2. c \in AggregateCalls /\ GoodGet(c, failedAt, clock) /\ c.pc = "decide"
  BY <1>1 DEF AggregateInv, AggregateTypes, A!Decide, A!At
<1>3. /\ kind \in Kinds /\ clock \in Nat /\ failedAt \in Int /\ c.began \in Int
      /\ SuccessTTL[kind] \in Nat
  BY <1>2, Lifetimes DEF AggregateInv, AggregateTypes, AggregateCalls
<1>4. PICK s : s = c.seen
  OBVIOUS
<1>5. s \in A!Records /\ s.at \in Int /\ s.val \in A!Values
  BY <1>2, <1>4, Lifetimes DEF AggregateCalls, A!Records
<1>6. /\ get' = [get EXCEPT ![p] = IF A!Fresh(s) THEN A!Reply(c, s.val, FALSE)
                                   ELSE IF A!BackedOff(s) THEN A!Reply(c, NoValue, TRUE)
                                   ELSE [c EXCEPT !.pc = "enter"]]
      /\ UNCHANGED <<kind, clock, cached, universe, leader, failedAt, everOK>>
  BY <1>1, <1>4 DEF A!Decide
<1>7. c.hadOK => A!HasOK(s)
  BY <1>2, <1>4 DEF GoodGet
<1>8. CASE A!Fresh(s)
  <2>1. s.val # NoValue /\ clock - s.at < SuccessTTL[kind]
    BY <1>8 DEF A!Fresh, A!HasOK
  <2>2. \/ s.val.at > c.began - SuccessTTL[kind]
        \/ failedAt > c.began - SuccessTTL[kind]
    <3>1. s.val.at = s.at \/ failedAt >= s.at
      BY <1>2, <1>4, <2>1 DEF GoodGet, Aged, A!HasOK
    <3>2. c.began <= clock
      BY <1>2 DEF GoodGet
    <3> QED BY <1>3, <1>5, <2>1, <3>1, <3>2
  <2>3. PICK r : r = A!Reply(c, s.val, FALSE)
    OBVIOUS
  <2>4. r \in AggregateCalls /\ GoodGet(r, failedAt, clock)
    BY <1>2, <1>5, <2>1, <2>2, <2>3, ReplyType, ReplyOK
  <2> QED BY <1>6, <1>8, <2>3, <2>4, OneGet DEF AggregateInv, AggregateTypes
<1>9. CASE ~A!Fresh(s) /\ A!BackedOff(s)
  <2>1. ~c.hadOK
    BY <1>7, <1>9 DEF A!BackedOff
  <2>2. PICK r : r = A!Reply(c, NoValue, TRUE)
    OBVIOUS
  <2>3. r \in AggregateCalls /\ GoodGet(r, failedAt, clock)
    BY <1>2, <2>1, <2>2, NothingFetched, ReplyType, ReplyOK
  <2> QED BY <1>6, <1>9, <2>2, <2>3, OneGet DEF AggregateInv, AggregateTypes
<1>10. CASE ~A!Fresh(s) /\ ~A!BackedOff(s)
  <2>1. PICK r : r = [c EXCEPT !.pc = "enter"]
    OBVIOUS
  <2>2. /\ r \in AggregateCalls /\ r.pc = "enter" /\ r.seen = c.seen /\ r.began = c.began
        /\ r.hadOK = c.hadOK
    BY <1>2, <2>1 DEF AggregateCalls, AggregatePCs
  <2>3. GoodGet(r, failedAt, clock)
    BY <1>2, <2>2 DEF GoodGet
  <2> QED BY <1>6, <1>10, <2>1, <2>2, <2>3, OneGet DEF AggregateInv, AggregateTypes
<1> QED BY <1>8, <1>9, <1>10

LEMMA EnterStep ==
  ASSUME AggregateInv, NEW p \in Procs, A!Enter(p)
  PROVE  AggregateInv'
<1>1. PICK c : c = get[p]
  OBVIOUS
<1>2. c \in AggregateCalls /\ GoodGet(c, failedAt, clock) /\ c.pc = "enter"
  BY <1>1 DEF AggregateInv, AggregateTypes, A!Enter, A!At
<1>3. PICK pc \in {"fetch", "wait"} : /\ get' = [get EXCEPT ![p].pc = pc]
                                     /\ leader' \in Procs \cup {NoProc}
  BY DEF A!Enter, AggregateInv, AggregateTypes
<1>4. PICK r : r = [c EXCEPT !.pc = pc]
  OBVIOUS
<1>5. /\ r \in AggregateCalls /\ r.pc = pc /\ r.seen = c.seen /\ r.began = c.began
      /\ r.hadOK = c.hadOK
  BY <1>2, <1>4 DEF AggregateCalls, AggregatePCs
<1>6. GoodGet(r, failedAt, clock)
  BY <1>2, <1>5 DEF GoodGet
<1>7. get' = [get EXCEPT ![p] = r]
  BY <1>1, <1>3, <1>4 DEF AggregateInv, AggregateTypes
<1> QED BY <1>3, <1>5, <1>6, <1>7, OneGet DEF A!Enter

LEMMA ReturnGetStep ==
  ASSUME AggregateInv, NEW p \in Procs, A!Return(p)
  PROVE  AggregateInv'
<1>1. PICK c : c = A!Idle
  OBVIOUS
<1>2. c \in AggregateCalls /\ c.pc = "idle" /\ c.began = 0 /\ ~A!HasOK(c.seen)
  BY <1>1, NothingFetched DEF A!Idle
<1>3. GoodGet(c, failedAt, clock)
  BY <1>2, Lifetimes DEF GoodGet, Aged, AggregateInv, AggregateTypes
<1> QED BY <1>1, <1>2, <1>3, OneGet DEF A!Return, AggregateInv, AggregateTypes

\* What the closure of a flight writes, whatever it has fetched.
LEMMA SettledStep ==
  ASSUME AggregateInv, NEW p \in Procs, NEW parts \in SUBSET A!Parts,
         A!At(p, "fetch"), A!Settled(p, parts),
         universe' \in [A!Exchanges -> {A!Never} \cup 0..MaxClock],
         kind = "breadth" /\ parts # {} => parts \cap Batches["TSE"] # {}
  PROVE  AggregateInv'
<1>1. PICK c : c = get[p]
  OBVIOUS
<1>2. c \in AggregateCalls /\ GoodGet(c, failedAt, clock) /\ c.pc = "fetch"
  BY <1>1 DEF AggregateInv, AggregateTypes, A!At
<1>3. /\ kind \in Kinds /\ clock \in 0..MaxClock /\ clock \in Nat /\ failedAt \in Int
      /\ cached \in A!Records /\ failedAt <= clock
  BY Lifetimes DEF AggregateInv, AggregateTypes
<1>4. PICK s : s = A!Refreshed(parts)
  OBVIOUS
<1>5. PICK e \in BOOLEAN : e <=> parts = {}
  <2>1. CASE parts = {}
    BY <2>1
  <2>2. CASE parts # {}
    BY <2>2
  <2> QED BY <2>1, <2>2
<1>6. PICK v : v = IF e THEN NoValue ELSE s.val
  OBVIOUS
<1>7. /\ cached' = s /\ UNCHANGED <<kind, clock, leader>>
      /\ get' = [get EXCEPT ![p].pc = "done", ![p].err = e, ![p].val = v]
      /\ failedAt' = (IF e THEN clock ELSE failedAt)
      /\ everOK' = (everOK \/ ~e)
  <2>1. e = (parts = {})
    BY <1>5
  <2> QED BY <1>4, <1>5, <1>6, <2>1 DEF A!Settled
<1>8. s \in A!Records /\ v \in A!Values /\ Aged(s, failedAt')
      /\ (everOK' => A!HasOK(s)) /\ (~e => v # NoValue /\ v.at = clock)
      /\ (kind = "breadth" /\ A!HasOK(s) => s.val.parts \cap Batches["TSE"] # {})
  <2>1. CASE e
    <3>1. s = [cached EXCEPT !.at = clock, !.err = TRUE] /\ parts = {}
      BY <1>4, <1>5, <2>1 DEF A!Refreshed
    <3>2. s \in A!Records /\ s.val = cached.val /\ s.at = clock
      BY <1>3, <3>1 DEF A!Records
    <3>3. failedAt' = clock /\ everOK' = everOK
      BY <1>7, <2>1 DEF AggregateInv, AggregateTypes
    <3> QED BY <1>3, <1>6, <2>1, <3>2, <3>3, NothingFetched
            DEF Aged, A!HasOK, AggregateInv, AggregateTypes
  <2>2. CASE ~e
    <3>1. PICK r : r = [at |-> clock, parts |-> parts]
      OBVIOUS
    <3>2. r \in A!Values /\ r # NoValue /\ r.at = clock /\ r.parts = parts
      BY <1>3, <1>5, <2>2, <3>1, FetchedValue
    <3>3. s = [val |-> r, at |-> clock, err |-> FALSE] /\ parts # {}
      BY <1>4, <1>5, <2>2, <3>1 DEF A!Refreshed
    <3>4. s \in A!Records /\ s.val = r /\ s.at = clock
      BY <1>3, <3>2, <3>3 DEF A!Records
    <3> QED BY <1>3, <1>6, <2>2, <3>2, <3>3, <3>4 DEF Aged, A!HasOK
  <2> QED BY <2>1, <2>2
<1>9. PICK d : d = [c EXCEPT !.pc = "done", !.err = e, !.val = v]
  OBVIOUS
<1>10. /\ d \in AggregateCalls /\ d.pc = "done" /\ d.seen = c.seen /\ d.began = c.began
       /\ d.hadOK = c.hadOK /\ d.err = e /\ d.val = v
  BY <1>2, <1>5, <1>8, <1>9 DEF AggregateCalls, AggregatePCs
<1>11. PICK g : g = failedAt'
  OBVIOUS
<1>12. g \in Int /\ failedAt <= g /\ g <= clock /\ g \in {A!Never} \cup 0..MaxClock
  BY <1>3, <1>7, <1>11 DEF AggregateInv, AggregateTypes
<1>13. GoodGet(c, g, clock)
  BY <1>2, <1>3, <1>12, GoodGetStays
<1>14. GoodGet(d, g, clock)
  BY <1>2, <1>8, <1>10, <1>13 DEF GoodGet
<1>15. get' = [get EXCEPT ![p] = d] /\ get \in [Procs -> AggregateCalls]
  BY <1>1, <1>7, <1>9 DEF AggregateInv, AggregateTypes
<1>16. \A q \in Procs : get'[q] = IF q = p THEN d ELSE get[q]
  BY <1>15
<1>17. \A q \in Procs : GoodGet(get'[q], g, clock)
  <2> TAKE q \in Procs
  <2>1. CASE q = p
    BY <1>14, <1>16, <2>1
  <2>2. CASE q # p
    <3>1. get[q] \in AggregateCalls /\ GoodGet(get[q], failedAt, clock)
      BY <1>15 DEF AggregateInv
    <3>2. GoodGet(get[q], g, clock)
      BY <1>3, <1>12, <3>1, GoodGetStays
    <3> QED BY <1>16, <2>2, <3>2
  <2> QED BY <2>1, <2>2
<1>18. AggregateTypes'
  <2>1. everOK' \in BOOLEAN
    BY <1>7 DEF AggregateInv, AggregateTypes
  <2>2. get' \in [Procs -> AggregateCalls]
    BY <1>10, <1>15
  <2> QED BY <1>7, <1>8, <1>11, <1>12, <2>1, <2>2 DEF AggregateInv, AggregateTypes, A!HasOK
<1> QED BY <1>7, <1>8, <1>11, <1>12, <1>17, <1>18, AggregateCarry

LEMMA FetchMarketStep ==
  ASSUME AggregateInv, NEW p \in Procs, NEW days \in Weathers, A!FetchMarket(p, days)
  PROVE  AggregateInv'
<1>1. A!WalkBack(days) \in SUBSET A!Parts
  BY DEF A!WalkBack, A!DayRows, A!Parts
<1>2. universe' \in [A!Exchanges -> {A!Never} \cup 0..MaxClock]
  BY DEF A!FetchMarket, AggregateInv, AggregateTypes
<1> QED BY <1>1, <1>2, SettledStep DEF A!FetchMarket

LEMMA FetchBreadthStep ==
  ASSUME AggregateInv, NEW p \in Procs, NEW answered \in SUBSET A!Exchanges,
         NEW empty \in SUBSET A!Exchanges,
         NEW good \in SUBSET (Batches["TSE"] \cup Batches["OTC"]),
         A!FetchBreadth(p, answered, empty, good)
  PROVE  AggregateInv'
<1>1. PICK lists, stored : /\ A!Settled(p, A!BreadthOf(lists, good))
                           /\ universe' = [x \in A!Exchanges |->
                                             IF x \notin stored THEN universe[x]
                                             ELSE IF x \in empty THEN A!Never ELSE clock]
  BY DEF A!FetchBreadth
<1>2. A!BreadthOf(lists, good) \in SUBSET A!Parts
  BY DEF A!BreadthOf, A!Parts
<1>3. A!BreadthOf(lists, good) # {} =>
        A!BreadthOf(lists, good) \cap Batches["TSE"] # {}
  BY DEF A!BreadthOf
<1>4. universe' \in [A!Exchanges -> {A!Never} \cup 0..MaxClock]
  BY <1>1 DEF AggregateInv, AggregateTypes
<1>5. A!At(p, "fetch")
  BY DEF A!FetchBreadth
<1> QED BY <1>1, <1>2, <1>3, <1>4, <1>5, SettledStep

\* A flight lands: who shares it gets what it brought, or what it copied before.
LEMMA LandStep ==
  ASSUME AggregateInv, NEW p \in Procs, A!Land(p)
  PROVE  AggregateInv'
<1>1. PICK v, e : v = get[p].val /\ e = get[p].err
  OBVIOUS
<1>2. /\ kind \in Kinds /\ clock \in Nat /\ failedAt \in Int
      /\ SuccessTTL[kind] \in Nat /\ SuccessTTL[kind] > 0
      /\ get \in [Procs -> AggregateCalls]
  BY Lifetimes DEF AggregateInv, AggregateTypes
<1>3. v \in A!Values /\ e \in BOOLEAN /\ (~e => v # NoValue /\ v.at = clock)
  BY <1>1, <1>2 DEF A!Land, A!At, AggregateInv, GoodGet, AggregateCalls
<1>4. /\ UNCHANGED <<kind, clock, cached, universe, failedAt, everOK>>
      /\ leader' = NoProc
      /\ get' = [q \in Procs |-> IF q = p \/ A!At(q, "wait") THEN A!Handed(get[q], v, e)
                                 ELSE get[q]]
  BY <1>1 DEF A!Land
<1>5. ASSUME NEW c \in AggregateCalls, GoodGet(c, failedAt, clock), c.pc \in {"wait", "done"}
      PROVE  A!Handed(c, v, e) \in AggregateCalls
             /\ GoodGet(A!Handed(c, v, e), failedAt, clock)
  <2>1. /\ c.began \in Int /\ c.began <= clock /\ (c.hadOK => A!HasOK(c.seen))
        /\ c.seen.val \in A!Values
    BY <1>5, Lifetimes DEF GoodGet, AggregateCalls, A!Records
  <2>2. CASE e /\ kind = "market" /\ A!HasOK(c.seen)
    <3>1. A!Handed(c, v, e) = A!Reply(c, c.seen.val, TRUE)
      BY <2>2 DEF A!Handed
    <3> QED BY <1>5, <2>1, <2>2, <3>1, ReplyType, ReplyOK DEF A!HasOK
  <2>3. CASE ~(e /\ kind = "market" /\ A!HasOK(c.seen))
    <3>1. A!Handed(c, v, e) = A!Reply(c, v, e)
      BY <2>3 DEF A!Handed
    <3>2. ~e => v # NoValue /\ v.at > c.began - SuccessTTL[kind]
      BY <1>2, <1>3, <2>1
    <3>3. kind = "market" /\ c.hadOK => v # NoValue
      BY <1>3, <2>1, <2>3
    <3> QED BY <1>3, <1>5, <3>1, <3>2, <3>3, ReplyType, ReplyOK
  <2> QED BY <2>2, <2>3
<1>6. ASSUME NEW q \in Procs
      PROVE  get'[q] \in AggregateCalls /\ GoodGet(get'[q], failedAt, clock)
  <2>1. PICK c : c = get[q]
    OBVIOUS
  <2>2. c \in AggregateCalls /\ GoodGet(c, failedAt, clock)
    BY <1>2, <2>1 DEF AggregateInv
  <2>3. CASE q = p \/ A!At(q, "wait")
    <3>1. c.pc \in {"wait", "done"}
      BY <2>1, <2>3 DEF A!Land, A!At
    <3>2. get'[q] = A!Handed(c, v, e)
      BY <1>4, <2>1, <2>3
    <3> QED BY <1>5, <2>2, <3>1, <3>2
  <2>4. CASE ~(q = p \/ A!At(q, "wait"))
    BY <1>4, <2>1, <2>2, <2>4
  <2> QED BY <2>3, <2>4
<1>7. AggregateTypes'
  <2>1. get' \in [Procs -> AggregateCalls]
    BY <1>4, <1>6
  <2> QED BY <1>4, <2>1 DEF AggregateInv, AggregateTypes, A!HasOK
<1> QED BY <1>4, <1>6, <1>7, AggregateCarry DEF AggregateInv

LEMMA AggregateTickStep ==
  ASSUME AggregateInv, A!Tick
  PROVE  AggregateInv'
<1>1. UNCHANGED <<kind, cached, universe, leader, get, failedAt, everOK>>
  BY DEF A!Tick
<1>2. /\ kind \in Kinds /\ clock \in Nat /\ failedAt \in Int /\ failedAt <= clock
      /\ get \in [Procs -> AggregateCalls] /\ clock < MaxClock /\ clock' = clock + 1
      /\ clock \in 0..MaxClock
  BY Lifetimes DEF AggregateInv, AggregateTypes, A!Tick
<1>3. PICK t \in Nat : t = clock'
  BY <1>2
<1>4. clock <= t /\ t \in 0..MaxClock /\ failedAt <= t /\ failedAt <= failedAt
  BY <1>2, <1>3, Lifetimes
<1>5. \A p \in Procs : GoodGet(get[p], failedAt, t)
  <2> TAKE p \in Procs
  <2>1. get[p] \in AggregateCalls /\ GoodGet(get[p], failedAt, clock) /\ get[p].pc # "done"
    BY <1>2 DEF AggregateInv, A!Tick, A!At
  <2> QED BY <1>2, <1>4, <2>1, GoodGetStays
<1>6. AggregateTypes'
  BY <1>1, <1>3, <1>4 DEF AggregateInv, AggregateTypes, A!HasOK
<1> QED BY <1>1, <1>3, <1>4, <1>5, <1>6, AggregateCarry DEF AggregateInv

LEMMA AggregateRests ==
  ASSUME AggregateInv, UNCHANGED aggregateVars
  PROVE  AggregateInv'
<1>1. UNCHANGED <<kind, clock, cached, universe, leader, get, failedAt, everOK>>
  BY DEF aggregateVars
<1>2. AggregateTypes'
  BY <1>1 DEF AggregateInv, AggregateTypes, A!HasOK
<1> QED BY <1>1, <1>2, AggregateCarry DEF AggregateInv

LEMMA AggregateNext ==
  ASSUME AggregateInv, A!Next
  PROVE  AggregateInv'
<1>1. ASSUME NEW p \in Procs, A!Read(p) PROVE AggregateInv'
  BY <1>1, ReadStep
<1>2. ASSUME NEW p \in Procs, A!Decide(p) PROVE AggregateInv'
  BY <1>2, DecideStep
<1>3. ASSUME NEW p \in Procs, A!Enter(p) PROVE AggregateInv'
  BY <1>3, EnterStep
<1>4. ASSUME NEW p \in Procs, A!Land(p) PROVE AggregateInv'
  BY <1>4, LandStep
<1>5. ASSUME NEW p \in Procs, A!Return(p) PROVE AggregateInv'
  BY <1>5, ReturnGetStep
<1>6. ASSUME NEW p \in Procs, NEW days \in Weathers, A!FetchMarket(p, days) PROVE AggregateInv'
  BY <1>6, FetchMarketStep
<1>7. ASSUME NEW p \in Procs, NEW answered \in SUBSET A!Exchanges,
             NEW empty \in SUBSET A!Exchanges,
             NEW good \in SUBSET (Batches["TSE"] \cup Batches["OTC"]),
             A!FetchBreadth(p, answered, empty, good)
      PROVE  AggregateInv'
  BY <1>7, FetchBreadthStep
<1>8. CASE A!Tick
  BY <1>8, AggregateTickStep
<1> QED BY <1>1, <1>2, <1>3, <1>4, <1>5, <1>6, <1>7, <1>8 DEF A!Next

LEMMA AggregateInit ==
  ASSUME A!Init
  PROVE  AggregateInv
<1>1. PICK c : c = A!Idle
  OBVIOUS
<1>2. PICK s : s = A!Empty
  OBVIOUS
<1>3. /\ c \in AggregateCalls /\ c.pc = "idle" /\ c.began = 0 /\ s \in A!Records
      /\ c.seen = s /\ ~A!HasOK(s)
  BY <1>1, <1>2, NothingFetched DEF A!Idle
<1>4. /\ kind \in Kinds /\ clock = 0 /\ cached = s /\ leader = NoProc /\ everOK = FALSE
      /\ universe = [x \in A!Exchanges |-> A!Never] /\ failedAt = A!Never
      /\ get = [p \in Procs |-> c]
  BY <1>1, <1>2 DEF A!Init
<1>5. AggregateTypes
  <2>1. get \in [Procs -> AggregateCalls] /\ 0 \in 0..MaxClock
    BY <1>3, <1>4, Lifetimes
  <2>2. universe \in [A!Exchanges -> {A!Never} \cup 0..MaxClock]
    BY <1>4
  <2>3. ~A!HasOK(cached)
    BY <1>3, <1>4
  <2> QED BY <1>3, <1>4, <2>1, <2>2, <2>3 DEF AggregateTypes
<1>6. \A p \in Procs : GoodGet(get[p], failedAt, clock)
  <2> TAKE p \in Procs
  <2>1. get[p] = c
    BY <1>4
  <2>2. ~A!HasOK(c.seen)
    BY <1>3
  <2> QED BY <1>3, <1>4, <2>1, <2>2 DEF GoodGet, Aged
<1> QED BY <1>3, <1>4, <1>5, <1>6, Lifetimes DEF AggregateInv, Aged

\* What the run checks of it.
LEMMA AggregateSays == AggregateInv => A!TypeOK /\ OldOnlyAfterFailure /\ OutageKeepsValue
<1> SUFFICES ASSUME AggregateInv PROVE A!TypeOK /\ OldOnlyAfterFailure /\ OutageKeepsValue
  OBVIOUS
<1>1. A!TypeOK
  BY DEF AggregateInv, AggregateTypes, AggregateCalls, AggregatePCs, A!TypeOK
<1>2. \A p \in Procs : get[p].pc = "reply" => Answered(get[p], failedAt)
  BY DEF AggregateInv, GoodGet
<1>3. OldOnlyAfterFailure /\ OutageKeepsValue
  BY <1>2 DEF OldOnlyAfterFailure, OutageKeepsValue, A!OldOnlyAfterFailure,
              A!OutageKeepsValue, A!At, Answered
<1> QED BY <1>1, <1>3
-----------------------------------------------------------------------------
(* Recursive functions.  What one does is shown step by step, from 0 up to *)
(* the length of what it goes through.                                     *)

\* Induction, by a least counterexample: a set that holds 0 and with every number
\* below N the next one holds all of them.
LEMMA UpTo ==
  ASSUME NEW N \in Nat, NEW T, 0 \in T, \A n \in 0..(N - 1) : n \in T => n + 1 \in T
  PROVE  \A n \in 0..N : n \in T
<1> DEFINE Out == {n \in 0..N : n \notin T}
<1> SUFFICES ASSUME Out # {} PROVE FALSE
  OBVIOUS
<1>1. PICK R : R = OpToRel(<, Nat)
  OBVIOUS
<1>2. IsWellFoundedOn(R, Nat)
  BY <1>1, NatLessThanWellFounded
<1>3. Out \subseteq Nat
  OBVIOUS
<1>4. PICK x \in Out : \A y \in Out : <<y, x>> \notin R
  <2> HIDE DEF Out
  <2> QED BY <1>2, <1>3, WFMin
<1>5. \A y, z \in Nat : y < z => <<y, z>> \in R
  BY <1>1 DEF OpToRel
<1>6. \A y \in Out : ~(y < x)
  <2> HIDE DEF Out
  <2> QED BY <1>3, <1>4, <1>5
<1>7. x # 0 /\ x \in 0..N /\ x \notin T
  OBVIOUS
<1>8. x - 1 \in 0..(N - 1) /\ x - 1 < x /\ (x - 1) + 1 = x
  BY <1>7
<1>9. x - 1 \in T
  BY <1>6, <1>8
<1> QED BY <1>7, <1>8, <1>9

\* A function that is defined step by step.
Steps(f, base, step, N) == f[0] = base /\ \A n \in 1..N : f[n] = step[n][f[n - 1]]

\* There is one, and it has its type.
LEMMA StepByStep ==
  ASSUME NEW N \in Nat, NEW X, NEW base \in X, NEW step \in [1..N -> [X -> X]]
  PROVE  \E f \in [0..N -> X] : Steps(f, base, step, N)
<1> DEFINE Good(n, f) == f[0] = base /\ \A i \in 1..n : f[i] = step[i][f[i - 1]]
           T == {n \in 0..N : \E f \in [0..n -> X] : Good(n, f)}
<1>1. 0 \in T
  <2>1. [i \in 0..0 |-> base] \in [0..0 -> X] /\ Good(0, [i \in 0..0 |-> base])
    OBVIOUS
  <2>2. 0 \in 0..N
    OBVIOUS
  <2> HIDE DEF Good
  <2> QED BY <2>1, <2>2
<1>2. ASSUME NEW n \in 0..(N - 1), n \in T
      PROVE  n + 1 \in T
  <2>1. PICK f \in [0..n -> X] : Good(n, f)
    BY <1>2
  <2> DEFINE g == [i \in 0..(n + 1) |-> IF i <= n THEN f[i] ELSE step[n + 1][f[n]]]
  <2>2. f[n] \in X /\ step[n + 1] \in [X -> X] /\ step[n + 1][f[n]] \in X
    OBVIOUS
  <2>3. g \in [0..(n + 1) -> X]
    BY <2>2
  <2>4. \A i \in 0..n : g[i] = f[i]
    OBVIOUS
  <2>5. g[n + 1] = step[n + 1][f[n]]
    OBVIOUS
  <2> HIDE DEF g
  <2>6. ASSUME NEW i \in 1..(n + 1) PROVE g[i] = step[i][g[i - 1]]
    <3>1. CASE i = n + 1
      <4>1. i - 1 = n /\ n \in 0..n
        BY <3>1
      <4> QED BY <2>4, <2>5, <3>1, <4>1
    <3>2. CASE i \in 1..n
      <4>1. i \in 0..n /\ i - 1 \in 0..n
        BY <3>2
      <4> QED BY <2>1, <2>4, <3>2, <4>1
    <3> QED BY <3>1, <3>2
  <2>7. g[0] = base
    BY <2>1, <2>4
  <2> QED BY <2>3, <2>6, <2>7
<1>3. N \in T
  <2> HIDE DEF T
  <2>1. \A n \in 0..N : n \in T
    BY <1>1, <1>2, UpTo
  <2> QED BY <2>1
<1>4. PICK f \in [0..N -> X] : Good(N, f)
  BY <1>3
<1> QED BY <1>4 DEF Steps
-----------------------------------------------------------------------------
(* Card.  What renderSymbol asks for and what buildBlocks shows are gated  *)
(* apart; the argument goes row by row: a row is not shown, or every       *)
(* segment of it fits the page.                                            *)

AllSegments ==
  {"ohlc", "ohlc figures", "ma", "ma figures"}
    \cup C!Daily \cup C!OfTheMarket \cup C!OfTheStock

\* The segments a page must not have, by what it is about.
Foreign(r, q) ==
  (IF C!HasStockID(r.symbol) THEN C!OfTheMarket ELSE C!OfTheStock)
    \cup (IF q.closed THEN {} ELSE C!Daily)
    \cup (IF ~C!IsTW(r.symbol) \/ r.english
          THEN C!Daily \cup C!OfTheMarket \cup C!OfTheStock ELSE {})

Fitting(r, q) == AllSegments \ Foreign(r, q)

PositioningNames == {"foreign net", "trust net", "dealer net", "total net"}
FuturesNames == {"foreign futures", "trust futures", "dealer futures", "total futures"}

\* Rows made of segments of X.
LEMMA Joined ==
  ASSUME NEW S, NEW a \in Seq(S), NEW b \in Seq(S)
  PROVE  a \o b \in Seq(S)
OBVIOUS

LEMMA NoRow ==
  ASSUME NEW S
  PROVE  << >> \in Seq(S)
OBVIOUS

LEMMA One ==
  ASSUME NEW S, NEW a \in S
  PROVE  <<a>> \in Seq(S)
<1>1. <<a>> = [i \in 1..1 |-> a]
  OBVIOUS
<1> QED BY <1>1

LEMMA Two ==
  ASSUME NEW S, NEW a \in S, NEW b \in S
  PROVE  <<a, b>> \in Seq(S)
<1>1. <<a, b>> = [i \in 1..2 |-> <<a, b>>[i]]
  OBVIOUS
<1>2. \A i \in 1..2 : <<a, b>>[i] \in S
  OBVIOUS
<1> QED BY <1>1, <1>2

LEMMA Four ==
  ASSUME NEW S, NEW a \in S, NEW b \in S, NEW c \in S, NEW d \in S
  PROVE  <<a, b, c, d>> \in Seq(S)
<1>1. <<a, b, c, d>> = [i \in 1..4 |-> <<a, b, c, d>>[i]]
  OBVIOUS
<1>2. \A i \in 1..4 : <<a, b, c, d>>[i] \in S
  OBVIOUS
<1> QED BY <1>1, <1>2

LEMMA RowIfShown ==
  ASSUME NEW X, NEW b, NEW x, b => x \in SUBSET X
  PROVE  C!When(b, x) \in Seq(SUBSET X)
<1>1. CASE b
  <2>1. C!When(b, x) = <<x>>
    BY <1>1 DEF C!When
  <2> QED BY <1>1, <2>1, One
<1>2. CASE ~b
  <2>1. C!When(b, x) = << >>
    BY <1>2 DEF C!When
  <2> QED BY <2>1
<1> QED BY <1>1, <1>2

LEMMA RowsOfNames ==
  ASSUME NEW X, NEW names \in Seq(X)
  PROVE  C!RowsOf(names) \in Seq(SUBSET X)
<1>1. C!RowsOf(names) = [i \in 1..Len(names) |-> {names[i]}] /\ Len(names) \in Nat
  BY DEF C!RowsOf
<1>2. \A i \in 1..Len(names) : {names[i]} \in SUBSET X
  OBVIOUS
<1> QED BY <1>1, <1>2

LEMMA GroupFits ==
  ASSUME NEW X, NEW b, NEW rows, b => rows \in Seq(SUBSET X)
  PROVE  C!Group(b, rows) \in Seq(SUBSET X)
<1>1. CASE b
  <2>1. <<C!Blank>> \in Seq(SUBSET X)
    BY One DEF C!Blank
  <2>2. C!Group(b, rows) = <<C!Blank>> \o rows
    BY <1>1 DEF C!Group
  <2> QED BY <1>1, <2>1, <2>2, Joined
<1>2. CASE ~b
  <2>1. C!Group(b, rows) = << >>
    BY <1>2 DEF C!Group
  <2> QED BY <2>1
<1> QED BY <1>1, <1>2

\* The slow signals of a stock are each shown for a fact of the stock.
SlowSegments ==
  {"big holders", "previous", "all holders", "block trades", "yield", "per", "pbr", "sector",
   "listed since", "holding", "mean", "revenue"}
SlowFacts ==
  {"holders", "trades", "yield", "per", "pbr", "sector", "listed since", "holding", "revenue"}

LEMMA SlowRowsFit ==
  ASSUME NEW X, NEW in, in \cap SlowFacts = {} \/ SlowSegments \subseteq X
  PROVE  C!SlowGroup(in) \in Seq(SUBSET X)
<1>1. ASSUME NEW f \in SlowFacts, f \in in
      PROVE  SlowSegments \subseteq X
  BY <1>1
<1>2. C!HoldersRows(in) \in Seq(SUBSET X)
  <2>1. CASE "holders" \in in
    <3>1. SlowSegments \subseteq X
      BY <1>1, <2>1 DEF SlowFacts
    <3>2. {"big holders"} \cup (in \cap {"previous"}) \in SUBSET X /\ {"all holders"} \in SUBSET X
      BY <3>1 DEF SlowSegments
    <3>3. C!HoldersRows(in) = <<{"big holders"} \cup (in \cap {"previous"}), {"all holders"}>>
      BY <2>1 DEF C!HoldersRows
    <3> QED BY <3>2, <3>3, Two
  <2>2. CASE "holders" \notin in
    BY <2>2 DEF C!HoldersRows
  <2> QED BY <2>1, <2>2
<1>3. C!When("trades" \in in, {"block trades"}) \in Seq(SUBSET X)
  <2>1. "trades" \in in => {"block trades"} \in SUBSET X
    BY <1>1 DEF SlowFacts, SlowSegments
  <2> QED BY <2>1, RowIfShown
<1>4. C!FundamentalsRow(in) \in Seq(SUBSET X)
  <2> DEFINE s == in \cap {"yield", "per", "pbr"}
  <2>1. s # {} => s \in SUBSET X
    BY <1>1 DEF SlowFacts, SlowSegments
  <2>2. C!FundamentalsRow(in) = C!When(s # {}, s)
    BY DEF C!FundamentalsRow
  <2> QED BY <2>1, <2>2, RowIfShown
<1>5. C!ContextRow(in) \in Seq(SUBSET X)
  <2> DEFINE own == in \cap {"sector", "listed since", "holding"}
             s == own \cup (IF "holding" \in in THEN in \cap {"mean"} ELSE {})
  <2>1. s # {} => own # {}
    OBVIOUS
  <2>2. own # {} => SlowSegments \subseteq X
    BY <1>1 DEF SlowFacts
  <2>3. s \subseteq SlowSegments
    BY DEF SlowSegments
  <2>4. C!ContextRow(in) = C!When(s # {}, s)
    BY DEF C!ContextRow
  <2> HIDE DEF s, own
  <2>5. s # {} => s \in SUBSET X
    BY <2>1, <2>2, <2>3
  <2> QED BY <2>4, <2>5, RowIfShown
<1>6. C!When("revenue" \in in, {"revenue"}) \in Seq(SUBSET X)
  <2>1. "revenue" \in in => {"revenue"} \in SUBSET X
    BY <1>1 DEF SlowFacts, SlowSegments
  <2> QED BY <2>1, RowIfShown
<1>7. C!StockRows(in) \in Seq(SUBSET X)
  BY <1>2, <1>3, <1>4, <1>5, <1>6, Joined DEF C!StockRows
<1> QED BY <1>7, GroupFits DEF C!SlowGroup

LEMMA PositioningFits ==
  ASSUME NEW X, PositioningNames \subseteq X
  PROVE  C!Positioning \in Seq(SUBSET X)
<1>1. <<"foreign net", "trust net", "dealer net", "total net">> \in Seq(X)
  BY Four DEF PositioningNames
<1> QED BY <1>1, RowsOfNames DEF C!Positioning

CreditNames == {"margin balance", "short balance", "securities lending"}

LEMMA StockGroupsFit ==
  ASSUME NEW X, NEW q, NEW in, SlowSegments \subseteq X,
         q.closed => PositioningNames \subseteq X /\ CreditNames \subseteq X
  PROVE  C!StockGroups(q, in) \in Seq(SUBSET X)
<1>1. C!Group(q.closed /\ "flow" \in in, C!Positioning) \in Seq(SUBSET X)
  BY PositioningFits, GroupFits
<1>2. C!Group(q.closed /\ in \cap {"margin", "lending"} # {}, C!StockCreditRows(in))
        \in Seq(SUBSET X)
  <2>1. ASSUME q.closed
        PROVE  C!StockCreditRows(in) \in Seq(SUBSET X)
    <3>1. <<"margin balance", "short balance">> \in Seq(X) /\ {"securities lending"} \in SUBSET X
      BY <2>1, Two DEF CreditNames
    <3>2. C!RowsOf(<<"margin balance", "short balance">>) \in Seq(SUBSET X)
      BY <3>1, RowsOfNames
    <3>3. C!When("lending" \in in, {"securities lending"}) \in Seq(SUBSET X)
      BY <3>1, RowIfShown
    <3>4. << >> \in Seq(SUBSET X)
      OBVIOUS
    <3> QED BY <3>2, <3>3, <3>4, Joined DEF C!StockCreditRows
  <2> QED BY <2>1, GroupFits
<1>3. C!SlowGroup(in) \in Seq(SUBSET X)
  BY SlowRowsFit
<1> QED BY <1>1, <1>2, <1>3, Joined DEF C!StockGroups

\* The market's rows are each shown for a fact of the market.
LEMMA MarketGroupsFit ==
  ASSUME NEW X, NEW q, NEW in, in \cap SlowFacts = {},
         q.closed /\ in # {} => PositioningNames \cup FuturesNames
                                 \cup {"credit", "pcr", "vix", "mxf", "tmf"} \subseteq X,
         in # {} => {"tse", "tpex"} \subseteq X,
         "breadth" \in in => "advance and decline" \in X
  PROVE  C!MarketGroups(q, in) \in Seq(SUBSET X)
<1>1. C!Group(q.closed /\ "institutional" \in in, C!Positioning) \in Seq(SUBSET X)
  BY PositioningFits, GroupFits
<1>2. C!BreadthRows(q, in) \in Seq(SUBSET X)
  <2> DEFINE exchanges == C!When("tse" \in in, {"tse"}) \o C!When("tpex" \in in, {"tpex"})
  <2>1. C!When("tse" \in in, {"tse"}) \in Seq(SUBSET X)
    <3>1. "tse" \in in => {"tse"} \in SUBSET X
      OBVIOUS
    <3> QED BY <3>1, RowIfShown
  <2>2. C!When("tpex" \in in, {"tpex"}) \in Seq(SUBSET X)
    <3>1. "tpex" \in in => {"tpex"} \in SUBSET X
      OBVIOUS
    <3> QED BY <3>1, RowIfShown
  <2>3. C!When("breadth" \in in, {"advance and decline"}) \in Seq(SUBSET X)
    <3>1. "breadth" \in in => {"advance and decline"} \in SUBSET X
      OBVIOUS
    <3> QED BY <3>1, RowIfShown
  <2>4. exchanges \in Seq(SUBSET X)
    BY <2>1, <2>2, Joined
  <2>5. \/ C!BreadthRows(q, in) = exchanges
        \/ C!BreadthRows(q, in) = C!When("breadth" \in in, {"advance and decline"})
    BY DEF C!BreadthRows
  <2> HIDE DEF exchanges
  <2> QED BY <2>3, <2>4, <2>5
<1>3. C!Group(C!BreadthRows(q, in) # << >>, C!BreadthRows(q, in)) \in Seq(SUBSET X)
  BY <1>2, GroupFits
<1>4. C!Group(q.closed /\ "credit" \in in, <<{"credit"}>>) \in Seq(SUBSET X)
  <2>1. ASSUME q.closed, "credit" \in in
        PROVE  <<{"credit"}>> \in Seq(SUBSET X)
    <3>1. {"credit"} \in SUBSET X
      BY <2>1
    <3> QED BY <3>1, One
  <2> QED BY <2>1, GroupFits
<1>5. C!SlowGroup(in) \in Seq(SUBSET X)
  BY SlowRowsFit
<1>6. C!Group(q.closed /\ in \cap {"pcr", "vix"} # {}, C!SentimentRow(in)) \in Seq(SUBSET X)
  <2>1. ASSUME q.closed, in \cap {"pcr", "vix"} # {}
        PROVE  C!SentimentRow(in) \in Seq(SUBSET X)
    <3>1. in \cap {"pcr", "vix"} \in SUBSET X
      BY <2>1
    <3>2. C!SentimentRow(in) = <<in \cap {"pcr", "vix"}>>
      BY DEF C!SentimentRow
    <3> QED BY <3>1, <3>2, One
  <2> QED BY <2>1, GroupFits
<1>7. C!Group(q.closed /\ "txf" \in in, C!FuturesRows) \in Seq(SUBSET X)
  <2>1. ASSUME q.closed, "txf" \in in
        PROVE  C!FuturesRows \in Seq(SUBSET X)
    <3>1. <<"foreign futures", "trust futures", "dealer futures", "total futures">> \in Seq(X)
      BY <2>1, Four DEF FuturesNames
    <3> QED BY <3>1, RowsOfNames DEF C!FuturesRows
  <2> QED BY <2>1, GroupFits
<1>8. C!Group(q.closed /\ in \cap {"mxf", "tmf"} # {}, C!RetailRows(in)) \in Seq(SUBSET X)
  <2>1. ASSUME q.closed, in \cap {"mxf", "tmf"} # {}
        PROVE  C!RetailRows(in) \in Seq(SUBSET X)
    <3>1. {"mxf"} \in SUBSET X /\ {"tmf"} \in SUBSET X
      BY <2>1
    <3> QED BY <3>1, RowIfShown, Joined DEF C!RetailRows
  <2> QED BY <2>1, GroupFits
<1> QED BY <1>1, <1>3, <1>4, <1>5, <1>6, <1>7, <1>8, Joined DEF C!MarketGroups

\* What is asked of a page that is about no stock.
MarketFacts == {"institutional", "credit", "breadth", "tse", "tpex", "mxf", "tmf", "txf", "pcr", "vix"}

LEMMA MarketInput ==
  ASSUME NEW r, NEW q, NEW facts, ~C!HasStockID(r.symbol)
  PROVE  /\ C!Input(r, q, facts) \subseteq MarketFacts
         /\ ~C!IsTW(r.symbol) \/ ~C!ShowsTWSE(r) => C!Input(r, q, facts) = {}
         /\ ~q.closed /\ ~r.dated => C!Input(r, q, facts) \subseteq {"tse", "tpex"}
<1>1. CASE ~C!IsTW(r.symbol) \/ ~C!ShowsTWSE(r)
  <2>1. C!Asked(r, q, facts) = {}
    BY <1>1 DEF C!Asked
  <2> QED BY <2>1 DEF C!Input
<1>2. CASE ~(~C!IsTW(r.symbol) \/ ~C!ShowsTWSE(r))
  <2>1. C!Asked(r, q, facts) = {C!MarketFeed(r, q)} \cup C!IndexFeeds(r, q)
    BY <1>2 DEF C!Asked
  <2>2. /\ C!MarketFeed(r, q) \in {"day", "dayAt", "live"}
        /\ C!IndexFeeds(r, q) \subseteq {"futures", "pcr", "vix"}
        /\ ~q.closed /\ ~r.dated => C!MarketFeed(r, q) = "live" /\ C!IndexFeeds(r, q) = {}
    BY DEF C!MarketFeed, C!IndexFeeds, C!AfterClose
  <2>3. /\ C!FactsOf["day"] \subseteq MarketFacts /\ C!FactsOf["dayAt"] \subseteq MarketFacts
        /\ C!FactsOf["live"] = {"tse", "tpex"} /\ C!FactsOf["futures"] \subseteq MarketFacts
        /\ C!FactsOf["pcr"] \subseteq MarketFacts /\ C!FactsOf["vix"] \subseteq MarketFacts
    BY DEF C!FactsOf, MarketFacts
  <2>4. \A f \in C!Asked(r, q, facts) : C!FactsOf[f] \subseteq MarketFacts
    BY <2>1, <2>2, <2>3 DEF MarketFacts
  <2>5. ~q.closed /\ ~r.dated => C!Asked(r, q, facts) = {"live"}
    BY <2>1, <2>2
  <2> QED BY <1>2, <2>3, <2>4, <2>5 DEF C!Input
<1> QED BY <1>1, <1>2

\* What fits a page.
LEMMA WhatFits ==
  ASSUME NEW r, NEW q
  PROVE  /\ {"ohlc", "ohlc figures", "ma", "ma figures"} \subseteq Fitting(r, q)
         /\ C!IsTW(r.symbol) /\ ~r.english /\ C!HasStockID(r.symbol) =>
              /\ SlowSegments \subseteq Fitting(r, q)
              /\ q.closed => /\ PositioningNames \subseteq Fitting(r, q)
                             /\ CreditNames \subseteq Fitting(r, q)
         /\ C!IsTW(r.symbol) /\ ~r.english /\ ~C!HasStockID(r.symbol) =>
              /\ {"tse", "tpex"} \subseteq Fitting(r, q)
              /\ q.closed => PositioningNames \cup FuturesNames \cup
                   {"credit", "pcr", "vix", "mxf", "tmf", "advance and decline"}
                     \subseteq Fitting(r, q)
<1> USE DEF Fitting, Foreign, AllSegments, C!Daily, C!OfTheMarket, C!OfTheStock
<1>1. {"ohlc", "ohlc figures", "ma", "ma figures"} \subseteq Fitting(r, q)
  OBVIOUS
<1>2. ASSUME C!IsTW(r.symbol), ~r.english, C!HasStockID(r.symbol)
      PROVE  SlowSegments \subseteq Fitting(r, q)
  BY <1>2 DEF SlowSegments
<1>3. ASSUME C!IsTW(r.symbol), ~r.english, C!HasStockID(r.symbol), q.closed
      PROVE  PositioningNames \subseteq Fitting(r, q) /\ CreditNames \subseteq Fitting(r, q)
  BY <1>3 DEF PositioningNames, CreditNames
<1>4. ASSUME C!IsTW(r.symbol), ~r.english, ~C!HasStockID(r.symbol)
      PROVE  {"tse", "tpex"} \subseteq Fitting(r, q)
  BY <1>4
<1>5. ASSUME C!IsTW(r.symbol), ~r.english, ~C!HasStockID(r.symbol), q.closed
      PROVE  PositioningNames \cup FuturesNames \cup
               {"credit", "pcr", "vix", "mxf", "tmf", "advance and decline"} \subseteq Fitting(r, q)
  BY <1>5 DEF PositioningNames, FuturesNames
<1> QED BY <1>1, <1>2, <1>3, <1>4, <1>5

LEMMA BarsFit ==
  ASSUME NEW X, NEW q, {"ohlc", "ohlc figures", "ma", "ma figures"} \subseteq X
  PROVE  C!Bars(q) \in Seq(SUBSET X)
<1> DEFINE a == IF q.ohlc THEN C!RowsOf(<<"ohlc", "ohlc figures">>) ELSE << >>
           b == IF q.ma THEN C!RowsOf(<<"ma", "ma figures">>) ELSE << >>
<1>1. <<"ohlc", "ohlc figures">> \in Seq(X) /\ <<"ma", "ma figures">> \in Seq(X)
  BY Two
<1>2. a \in Seq(SUBSET X) /\ b \in Seq(SUBSET X)
  <2>1. << >> \in Seq(SUBSET X)
    BY NoRow
  <2> QED BY <1>1, <2>1, RowsOfNames
<1>3. <<C!Blank>> \in Seq(SUBSET X)
  BY One DEF C!Blank
<1>4. C!Bars(q) = IF a \o b = << >> THEN << >> ELSE <<C!Blank>> \o (a \o b) \o <<C!Blank>>
  BY DEF C!Bars
<1> HIDE DEF a, b
<1>5. a \o b \in Seq(SUBSET X)
  BY <1>2, Joined
<1>6. <<C!Blank>> \o (a \o b) \in Seq(SUBSET X)
  BY <1>3, <1>5, Joined
<1>7. (<<C!Blank>> \o (a \o b)) \o <<C!Blank>> \in Seq(SUBSET X)
  BY <1>3, <1>6, Joined
<1>8. << >> \in Seq(SUBSET X)
  BY NoRow
<1> QED BY <1>4, <1>7, <1>8

\* Every page fits, whatever its feeds have to say.
LEMMA BoxFits ==
  ASSUME NEW r, NEW q, NEW facts, r.dated => q.closed
  PROVE  C!Box(r, q, C!Input(r, q, facts)) \in Seq(SUBSET Fitting(r, q))
<1> DEFINE X == Fitting(r, q)
           in == C!Input(r, q, facts)
<1>1. {"ohlc", "ohlc figures", "ma", "ma figures"} \subseteq X
  BY WhatFits
<1>2. C!Body(r, q, in) \in Seq(SUBSET X)
  <2>1. CASE r.english
    <3>1. C!Body(r, q, in) = << >>
      BY <2>1 DEF C!Body, C!ShowsTWSE
    <3> QED BY <3>1
  <2>2. CASE ~r.english
    <3>1. C!Groups(r, q, in) \in Seq(SUBSET X)
      <4>1. CASE C!HasStockID(r.symbol)
        <5>1. C!IsTW(r.symbol)
          BY <4>1 DEF C!HasStockID, C!IsTW
        <5>2. SlowSegments \subseteq X
              /\ (q.closed => PositioningNames \subseteq X /\ CreditNames \subseteq X)
          BY <2>2, <4>1, <5>1, WhatFits
        <5>3. C!Groups(r, q, in) = C!StockGroups(q, in)
          BY <4>1 DEF C!Groups
        <5> HIDE DEF X, in
        <5> QED BY <5>2, <5>3, StockGroupsFit
      <4>2. CASE ~C!HasStockID(r.symbol)
        <5>1. C!Groups(r, q, in) = C!MarketGroups(q, in)
          BY <4>2 DEF C!Groups
        <5>2. in \subseteq MarketFacts /\ (~C!IsTW(r.symbol) => in = {})
              /\ (~q.closed => in \subseteq {"tse", "tpex"})
          BY <4>2, MarketInput
        <5>3. CASE C!IsTW(r.symbol)
          <6>1. /\ {"tse", "tpex"} \subseteq X
                /\ q.closed => PositioningNames \cup FuturesNames \cup
                     {"credit", "pcr", "vix", "mxf", "tmf", "advance and decline"} \subseteq X
            BY <2>2, <4>2, <5>3, WhatFits
          <6> HIDE DEF X, in
          <6>2. in \cap SlowFacts = {}
            BY <5>2 DEF MarketFacts, SlowFacts
          <6>3. q.closed /\ in # {} => PositioningNames \cup FuturesNames
                       \cup {"credit", "pcr", "vix", "mxf", "tmf"} \subseteq X
            BY <6>1
          <6>4. "breadth" \in in => "advance and decline" \in X
            BY <5>2, <6>1
          <6>5. in # {} => {"tse", "tpex"} \subseteq X
            BY <6>1
          <6> QED BY <5>1, <6>2, <6>3, <6>4, <6>5, MarketGroupsFit
        <5>4. CASE ~C!IsTW(r.symbol)
          <6>1. in = {}
            BY <5>2, <5>4
          <6> HIDE DEF X, in
          <6> QED BY <5>1, <6>1, MarketGroupsFit
        <5> QED BY <5>3, <5>4
      <4> QED BY <4>1, <4>2
    <3> DEFINE groups == C!Groups(r, q, in)
    <3>2. C!Body(r, q, in) = IF ~C!ShowsTWSE(r) \/ groups = << >> THEN << >> ELSE Tail(groups)
      BY DEF C!Body
    <3> HIDE DEF groups, X
    <3>3. groups \in Seq(SUBSET X)
      BY <3>1 DEF groups
    <3>4. groups # << >> => Tail(groups) \in Seq(SUBSET X)
      BY <3>3
    <3>5. << >> \in Seq(SUBSET X)
      OBVIOUS
    <3> QED BY <3>2, <3>4, <3>5
  <2> QED BY <2>1, <2>2
<1>3. C!Bars(q) \in Seq(SUBSET X)
  BY <1>1, BarsFit
<1> QED BY <1>2, <1>3, Joined DEF C!Box

\* A dated page is of a closed day, and the page is what is known says.
CardInv ==
  /\ request \in [symbol : C!Symbols, english : BOOLEAN, dated : BOOLEAN]
  /\ request.dated => quote.closed
  /\ page = C!Page(request, quote, known)

LEMMA CardInit == C!Init => CardInv
BY DEF C!Init, CardInv

LEMMA CardNext ==
  ASSUME CardInv, C!Next \/ UNCHANGED cardVars
  PROVE  CardInv'
<1>1. UNCHANGED <<request, quote>>
  BY DEF C!Next, C!Lose, cardVars
<1>2. page' = C!Page(request, quote, known')
  <2>1. CASE C!Next
    <3>1. PICK fact \in Losable : /\ known' = known \ {fact}
                                  /\ page' = C!Page(request, quote, known \ {fact})
      BY <2>1 DEF C!Next, C!Lose
    <3> QED BY <3>1
  <2>2. CASE UNCHANGED cardVars
    BY <2>2 DEF cardVars, CardInv
  <2> QED BY <2>1, <2>2
<1> QED BY <1>1, <1>2 DEF CardInv

LEMMA CardSays == CardInv => OnlyWhatBelongs
<1> SUFFICES ASSUME CardInv PROVE OnlyWhatBelongs
  OBVIOUS
<1> DEFINE X == Fitting(request, quote)
<1>1. page.box = C!Box(request, quote, C!Input(request, quote, known))
  BY DEF CardInv, C!Page
<1>2. page.box \in Seq(SUBSET X)
  BY <1>1, BoxFits DEF CardInv
<1>3. C!Segments \subseteq X
  <2> HIDE DEF X
  <2>1. \A i \in DOMAIN page.box : page.box[i] \subseteq X
    BY <1>2
  <2> QED BY <2>1 DEF C!Segments
<1>4. X \cap Foreign(request, quote) = {}
  BY DEF Fitting
<1> HIDE DEF X
<1>5. C!Segments \cap Foreign(request, quote) = {}
  BY <1>3, <1>4
<1>6. C!OnlyWhatBelongs
  BY <1>5 DEF Foreign, C!OnlyWhatBelongs
<1> QED BY <1>6 DEF OnlyWhatBelongs
-----------------------------------------------------------------------------
(* What a page loses with a feed.  FailsAlone compares two pages without   *)
(* the segments that rest on the lost fact: nothing is left of a row of    *)
(* these segments alone, what is left of two pieces is what is left of     *)
(* each, so the pages are compared piece by piece, and a separator counts  *)
(* for nothing.                                                            *)

\* All that a page may say, and the facts it says it from.
Said ==
  {"ohlc", "ohlc figures", "ma", "ma figures", "symbol", "local name", "price", "STALE",
   "CLOSED", "volume", "foreign net", "trust net", "dealer net", "total net",
   "advance and decline", "tse", "tpex", "credit", "pcr", "vix", "mxf", "tmf",
   "foreign futures", "trust futures", "dealer futures", "total futures", "margin balance",
   "short balance", "securities lending", "big holders", "previous", "all holders",
   "block trades", "yield", "per", "pbr", "sector", "listed since", "holding", "mean",
   "revenue"}
Facts ==
  {"institutional", "credit", "breadth", "tse", "tpex", "short name", "flow", "listed name",
   "holders", "previous", "trades", "yield", "per", "pbr", "sector", "listed since",
   "holding", "mean", "revenue", "lending", "margin", "mxf", "tmf", "txf", "pcr", "vix"}

\* Rows of them.
Rows == Seq(SUBSET Said)

\* A row that is there or not.
LEMMA WhenRows ==
  ASSUME NEW b, NEW x \in SUBSET Said
  PROVE  C!When(b, x) \in Rows
<1>1. <<x>> \in Seq(SUBSET Said)
  BY One
<1>2. << >> \in Seq(SUBSET Said)
  OBVIOUS
<1> QED BY <1>1, <1>2 DEF C!When, Rows

LEMMA JoinedRows ==
  ASSUME NEW a \in Rows, NEW b \in Rows
  PROVE  a \o b \in Rows
BY DEF Rows

LEMMA Associative ==
  ASSUME NEW S, NEW x \in Seq(S), NEW y \in Seq(S), NEW z \in Seq(S)
  PROVE  x \o (y \o z) = (x \o y) \o z
OBVIOUS

\* What is left of a page after each of its rows.
LeftRow(row, gone) == C!When(row \ gone # {}, row \ gone)
IsLeft(left, rows, gone) ==
  /\ left \in [0..Len(rows) -> Rows]
  /\ left[0] = << >>
  /\ \A n \in 1..Len(rows) : left[n] = left[n - 1] \o LeftRow(rows[n], gone)

LEMMA WithoutStep ==
  ASSUME NEW rows \in Rows, NEW gone
  PROVE  \E left : IsLeft(left, rows, gone) /\ C!Without(rows, gone) = left[Len(rows)]
<1> DEFINE N == Len(rows)
           step == [n \in 1..N |-> [sofar \in Rows |-> sofar \o LeftRow(rows[n], gone)]]
           IsIt(f) == f = [n \in 0..N |-> IF n = 0 THEN << >> ELSE f[n - 1] \o LeftRow(rows[n], gone)]
<1>1. N \in Nat /\ \A n \in 1..N : LeftRow(rows[n], gone) \in Rows
  <2>1. ASSUME NEW n \in 1..N PROVE LeftRow(rows[n], gone) \in Rows
    <3>1. PICK x : x = rows[n] \ gone
      OBVIOUS
    <3>2. x \in SUBSET Said
      BY <3>1 DEF Rows
    <3> QED BY <3>1, <3>2, WhenRows DEF LeftRow
  <2> QED BY <2>1 DEF Rows
<1>2. << >> \in Rows
  BY DEF Rows
<1>3. step \in [1..N -> [Rows -> Rows]]
  BY <1>1, JoinedRows
<1>4. PICK f \in [0..N -> Rows] : Steps(f, << >>, step, N)
  <2>1. N \in Nat
    BY <1>1
  <2> HIDE DEF N, step
  <2> QED BY <1>2, <1>3, <2>1, StepByStep
<1>5. IsIt(f)
  <2>1. ASSUME NEW n \in 1..N PROVE step[n][f[n - 1]] = f[n - 1] \o LeftRow(rows[n], gone)
    <3>1. f[n - 1] \in Rows
      BY <1>1
    <3> QED BY <3>1
  <2>2. \A n \in 0..N : n = 0 \/ n \in 1..N
    BY <1>1
  <2> HIDE DEF step
  <2> QED BY <1>4, <2>1, <2>2 DEF Steps
<1>6. C!Without(rows, gone) = (CHOOSE g : IsIt(g))[N]
  BY DEF C!Without, LeftRow
<1>7. PICK g : IsIt(g) /\ C!Without(rows, gone) = g[N]
  <2>1. IsIt(CHOOSE g : IsIt(g))
    <3> HIDE DEF IsIt
    <3> QED BY <1>5
  <2> HIDE DEF IsIt
  <2> QED BY <1>6, <2>1
<1>8. g[0] = << >> /\ \A n \in 1..N : g[n] = g[n - 1] \o LeftRow(rows[n], gone)
  <2>1. PICK M \in Nat : M = N
    BY <1>1
  <2>2. g = [n \in 0..M |-> IF n = 0 THEN << >> ELSE g[n - 1] \o LeftRow(rows[n], gone)]
    BY <1>7, <2>1
  <2> HIDE DEF N
  <2>3. g[0] = << >>
    BY <2>2
  <2>4. ASSUME NEW n \in 1..M PROVE g[n] = g[n - 1] \o LeftRow(rows[n], gone)
    <3>1. n \in 0..M /\ n # 0
      OBVIOUS
    <3> QED BY <2>2, <3>1
  <2> QED BY <2>1, <2>3, <2>4
<1>9. \A n \in 0..N : g[n] \in Rows
  <2> DEFINE T == {n \in 0..N : g[n] \in Rows}
  <2>1. 0 \in T
    BY <1>1, <1>2, <1>8
  <2>2. ASSUME NEW n \in 0..(N - 1), n \in T PROVE n + 1 \in T
    <3>1. n + 1 \in 1..N /\ n + 1 \in 0..N /\ (n + 1) - 1 = n
      BY <1>1
    <3>2. g[n] \o LeftRow(rows[n + 1], gone) \in Rows
      BY <1>1, <2>2, <3>1, JoinedRows
    <3> QED BY <1>8, <3>1, <3>2
  <2>3. \A n \in 0..N : n \in T
    <3> HIDE DEF T
    <3> QED BY <1>1, <2>1, <2>2, UpTo
  <2> QED BY <2>3
<1>10. g \in [0..N -> Rows]
  <2>1. g = [n \in 0..N |-> g[n]]
    BY <1>7
  <2> HIDE DEF N
  <2> QED BY <1>9, <2>1
<1> QED BY <1>7, <1>8, <1>10 DEF IsLeft

\* There is only one way to go through the rows.
LEMMA LeftOnly ==
  ASSUME NEW rows \in Rows, NEW gone, NEW left, IsLeft(left, rows, gone)
  PROVE  C!Without(rows, gone) = left[Len(rows)]
<1>1. PICK f : IsLeft(f, rows, gone) /\ C!Without(rows, gone) = f[Len(rows)]
  BY WithoutStep
<1> DEFINE N == Len(rows)
           T == {n \in 0..N : f[n] = left[n]}
<1>2. N \in Nat
  BY DEF Rows
<1>3. 0 \in T
  BY <1>1, <1>2 DEF IsLeft
<1>4. ASSUME NEW n \in 0..(N - 1), n \in T PROVE n + 1 \in T
  <2>1. n + 1 \in 1..N /\ n + 1 \in 0..N /\ (n + 1) - 1 = n
    BY <1>2
  <2> QED BY <1>1, <1>4, <2>1 DEF IsLeft
<1>5. \A n \in 0..N : n \in T
  <2> HIDE DEF T, N
  <2> QED BY <1>2, <1>3, <1>4, UpTo
<1> QED BY <1>1, <1>2, <1>5

LEMMA WithoutType ==
  ASSUME NEW rows \in Rows, NEW gone
  PROVE  C!Without(rows, gone) \in Rows
<1>1. PICK f : IsLeft(f, rows, gone) /\ C!Without(rows, gone) = f[Len(rows)]
  BY WithoutStep
<1>2. Len(rows) \in 0..Len(rows)
  BY DEF Rows
<1> QED BY <1>1, <1>2 DEF IsLeft

\* Nothing is left of nothing, and of one row what is not gone of it.
LEMMA WithoutNone ==
  ASSUME NEW gone
  PROVE  C!Without(<< >>, gone) = << >>
<1>1. << >> \in Rows /\ Len(<< >>) = 0
  BY DEF Rows
<1> QED BY <1>1, WithoutStep DEF IsLeft

LeftWhen(b, x, gone) == C!When(b /\ x \ gone # {}, x \ gone)

LEMMA WithoutWhen ==
  ASSUME NEW b, NEW x \in SUBSET Said, NEW gone
  PROVE  C!Without(C!When(b, x), gone) = LeftWhen(b, x, gone)
<1> USE DEF LeftWhen
<1>1. CASE b
  <2>1. PICK rows \in Rows : rows = C!When(b, x)
    BY WhenRows
  <2>2. rows = <<x>> /\ Len(rows) = 1 /\ rows[1] = x
    BY <1>1, <2>1 DEF C!When
  <2>3. PICK f : IsLeft(f, rows, gone) /\ C!Without(rows, gone) = f[Len(rows)]
    BY WithoutStep
  <2>4. f[0] = << >> /\ f[1] = f[0] \o LeftRow(x, gone)
    <3>1. 1 \in 1..Len(rows) /\ 1 - 1 = 0
      BY <2>2
    <3>2. f[0] = << >> /\ f[1] = f[1 - 1] \o LeftRow(rows[1], gone)
      BY <2>3, <3>1, Zenon DEF IsLeft
    <3>3. f[1 - 1] = f[0]
      OBVIOUS
    <3> QED BY <2>2, <3>2, <3>3, Zenon
  <2>5. x \ gone \in SUBSET Said
    OBVIOUS
  <2>6. PICK r \in Rows : r = LeftRow(x, gone)
    BY <2>5, WhenRows DEF LeftRow
  <2>7. << >> \o r = r
    BY <2>6 DEF Rows
  <2>8. C!Without(rows, gone) = LeftRow(x, gone)
    BY <2>2, <2>3, <2>4, <2>6, <2>7
  <2> QED BY <1>1, <2>1, <2>8 DEF LeftRow
<1>2. CASE ~b
  <2>1. C!When(b, x) = << >> /\ C!When(b /\ x \ gone # {}, x \ gone) = << >>
    BY <1>2 DEF C!When
  <2> QED BY <2>1, WithoutNone
<1> QED BY <1>1, <1>2

\* What is left of two pieces is what is left of each.
LEMMA WithoutJoined ==
  ASSUME NEW a \in Rows, NEW b \in Rows, NEW gone
  PROVE  C!Without(a \o b, gone) = C!Without(a, gone) \o C!Without(b, gone)
<1>1. PICK f : IsLeft(f, a, gone) /\ C!Without(a, gone) = f[Len(a)]
  BY WithoutStep
<1>2. PICK g : IsLeft(g, b, gone) /\ C!Without(b, gone) = g[Len(b)]
  BY WithoutStep
<1> DEFINE N == Len(a)
           M == Len(b)
           h == [n \in 0..(N + M) |-> IF n <= N THEN f[n] ELSE f[N] \o g[n - N]]
<1>3. /\ N \in Nat /\ M \in Nat /\ Len(a \o b) = N + M
      /\ \A n \in 1..N : (a \o b)[n] = a[n]
      /\ \A n \in (N + 1)..(N + M) : (a \o b)[n] = b[n - N]
  BY DEF Rows
<1>4. f[N] \in Rows /\ \A n \in 0..M : g[n] \in Rows
  BY <1>1, <1>2, <1>3 DEF IsLeft
<1>5. /\ f[0] = << >> /\ \A n \in 1..N : f[n] = f[n - 1] \o LeftRow(a[n], gone)
      /\ g[0] = << >> /\ \A n \in 1..M : g[n] = g[n - 1] \o LeftRow(b[n], gone)
      /\ f \in [0..N -> Rows]
  BY <1>1, <1>2 DEF IsLeft
<1>6. \A n \in 1..M : LeftRow(b[n], gone) \in Rows
  <2> TAKE n \in 1..M
  <2>1. PICK x : x = b[n] \ gone
    OBVIOUS
  <2>2. x \in SUBSET Said
    BY <2>1 DEF Rows
  <2> QED BY <2>1, <2>2, WhenRows DEF LeftRow
<1> HIDE DEF N, M
<1>7. h \in [0..(N + M) -> Rows]
  <2>1. ASSUME NEW n \in 0..(N + M) PROVE h[n] \in Rows
    <3>1. CASE n <= N
      BY <1>3, <1>5, <3>1
    <3>2. CASE ~(n <= N)
      <4>1. n - N \in 0..M
        BY <1>3, <3>2
      <4>2. f[N] \o g[n - N] \in Rows
        BY <1>4, <4>1, JoinedRows
      <4> QED BY <3>2, <4>2
    <3> QED BY <3>1, <3>2
  <2>2. h = [n \in 0..(N + M) |-> h[n]]
    OBVIOUS
  <2> HIDE DEF h
  <2> QED BY <2>1, <2>2
<1>8. h[0] = << >> /\ \A n \in 0..N : h[n] = f[n]
  BY <1>3, <1>5
<1>9. \A n \in 0..M : h[N + n] = f[N] \o g[n]
  <2> TAKE n \in 0..M
  <2>1. CASE n = 0
    <3>1. f[N] \o << >> = f[N]
      BY <1>4 DEF Rows
    <3>2. N \in 0..N /\ N + n = N /\ g[n] = << >>
      BY <1>3, <1>5, <2>1
    <3>3. h[N] = f[N]
      BY <1>8, <3>2
    <3> QED BY <3>1, <3>2, <3>3
  <2>2. CASE n # 0
    <3>1. N + n \in 0..(N + M) /\ ~(N + n <= N) /\ (N + n) - N = n
      BY <1>3, <2>2
    <3> QED BY <3>1
  <2> QED BY <2>1, <2>2
<1> HIDE DEF h
<1>10. ASSUME NEW n \in 1..(N + M)
       PROVE  h[n] = h[n - 1] \o LeftRow((a \o b)[n], gone)
  <2>1. CASE n \in 1..N
    <3>1. n \in 0..N /\ n - 1 \in 0..N
      BY <1>3, <2>1
    <3> QED BY <1>3, <1>5, <1>8, <2>1, <3>1
  <2>2. CASE n \in (N + 1)..(N + M)
    <3>1. PICK i \in 1..M : n = N + i
      <4>1. n - N \in 1..M /\ n = N + (n - N)
        BY <1>3, <2>2
      <4> QED BY <4>1
    <3>2. i \in 0..M /\ i - 1 \in 0..M /\ n - 1 = N + (i - 1) /\ n - N = i
      BY <1>3, <3>1
    <3>3. h[n] = f[N] \o g[i] /\ h[n - 1] = f[N] \o g[i - 1]
      BY <1>9, <3>1, <3>2
    <3>4. g[i] = g[i - 1] \o LeftRow(b[i], gone) /\ (a \o b)[n] = b[i]
      BY <1>3, <1>5, <2>2, <3>1, <3>2
    <3>5. f[N] \o (g[i - 1] \o LeftRow(b[i], gone)) = (f[N] \o g[i - 1]) \o LeftRow(b[i], gone)
      <4>1. PICK x \in Rows : x = f[N]
        BY <1>4
      <4>2. PICK y \in Rows : y = g[i - 1]
        BY <1>4, <3>2
      <4>3. PICK z \in Rows : z = LeftRow(b[i], gone)
        BY <1>6
      <4>4. x \o (y \o z) = (x \o y) \o z
        BY Associative DEF Rows
      <4> QED BY <4>1, <4>2, <4>3, <4>4
    <3> QED BY <3>3, <3>4, <3>5
  <2>3. n \in 1..N \/ n \in (N + 1)..(N + M)
    BY <1>3
  <2> QED BY <2>1, <2>2, <2>3
<1>11. PICK ab \in Rows : ab = a \o b
  BY JoinedRows
<1>12. IsLeft(h, ab, gone)
  BY <1>3, <1>7, <1>8, <1>10, <1>11 DEF IsLeft
<1>13. C!Without(ab, gone) = h[N + M]
  BY <1>3, <1>11, <1>12, LeftOnly
<1>14. h[N + M] = f[N] \o g[M]
  <2>1. M \in 0..M
    BY <1>3
  <2> QED BY <1>9, <2>1
<1> QED BY <1>1, <1>2, <1>11, <1>13, <1>14 DEF N, M

\* Without some segments two pieces of a page are the same.
Same(a, b, gone) ==
  a \in Rows /\ b \in Rows /\ C!Without(a, gone) = C!Without(b, gone)

LEMMA SameItself ==
  ASSUME NEW a \in Rows, NEW gone
  PROVE  Same(a, a, gone)
BY DEF Same

LEMMA SameJoined ==
  ASSUME NEW a, NEW a2, NEW b, NEW b2, NEW gone, Same(a, a2, gone), Same(b, b2, gone)
  PROVE  Same(a \o b, a2 \o b2, gone)
<1>1. /\ a \in Rows /\ b \in Rows /\ C!Without(a, gone) = C!Without(a2, gone)
      /\ a2 \in Rows /\ b2 \in Rows /\ C!Without(b, gone) = C!Without(b2, gone)
  BY DEF Same
<1>2. a \o b \in Rows /\ a2 \o b2 \in Rows
  BY <1>1, JoinedRows
<1>3. C!Without(a \o b, gone) = C!Without(a, gone) \o C!Without(b, gone)
  BY <1>1, WithoutJoined
<1>4. C!Without(a2 \o b2, gone) = C!Without(a2, gone) \o C!Without(b2, gone)
  BY <1>1, WithoutJoined
<1> QED BY <1>1, <1>2, <1>3, <1>4 DEF Same

LEMMA SameWhen ==
  ASSUME NEW b, NEW b2, NEW x \in SUBSET Said, NEW x2 \in SUBSET Said, NEW gone,
         (IF b THEN x \ gone ELSE {}) = (IF b2 THEN x2 \ gone ELSE {})
  PROVE  Same(C!When(b, x), C!When(b2, x2), gone)
<1>1. C!When(b, x) \in Rows /\ C!When(b2, x2) \in Rows
  BY WhenRows
<1>2. /\ C!Without(C!When(b, x), gone) = LeftWhen(b, x, gone)
      /\ C!Without(C!When(b2, x2), gone) = LeftWhen(b2, x2, gone)
  BY WithoutWhen
<1>3. LeftWhen(b, x, gone) = LeftWhen(b2, x2, gone)
  BY DEF LeftWhen, C!When
<1> QED BY <1>1, <1>2, <1>3 DEF Same

\* A group's own row is blank, and nothing without its rows.
LEMMA GroupLeft ==
  ASSUME NEW b, NEW rows \in Rows, NEW gone, ~b => C!Without(rows, gone) = << >>
  PROVE  /\ C!Group(b, rows) \in Rows
         /\ C!Without(C!Group(b, rows), gone) = C!Without(rows, gone)
<1>1. CASE b
  <2>1. C!When(TRUE, {}) = <<C!Blank>> /\ C!When(TRUE, {}) \in Rows
    BY WhenRows DEF C!When, C!Blank
  <2>2. C!Group(b, rows) = C!When(TRUE, {}) \o rows
    BY <1>1, <2>1 DEF C!Group
  <2>3. C!Without(C!When(TRUE, {}), gone) = << >>
    <3>1. C!Without(C!When(TRUE, {}), gone) = LeftWhen(TRUE, {}, gone)
      BY WithoutWhen
    <3> QED BY <3>1 DEF LeftWhen, C!When
  <2>4. C!Without(C!Group(b, rows), gone) = << >> \o C!Without(rows, gone)
    BY <2>1, <2>2, <2>3, WithoutJoined
  <2>5. << >> \o C!Without(rows, gone) = C!Without(rows, gone)
    BY WithoutType DEF Rows
  <2> QED BY <2>1, <2>2, <2>4, <2>5, JoinedRows
<1>2. CASE ~b
  <2>1. C!Group(b, rows) = << >> /\ << >> \in Rows
    BY <1>2 DEF C!Group, Rows
  <2> QED BY <1>2, <2>1, WithoutNone
<1> QED BY <1>1, <1>2

\* A page begins with a blank row, or has none.
Headed(rows) == rows = << >> \/ (Len(rows) > 0 /\ rows[1] = {})

LEMMA GroupHeaded ==
  ASSUME NEW b, NEW rows \in Rows
  PROVE  Headed(C!Group(b, rows))
<1>1. CASE b
  <2>1. C!Group(b, rows) = <<{}>> \o rows
    BY <1>1 DEF C!Group, C!Blank
  <2>2. <<{}>> \in Rows
    BY One DEF Rows
  <2>3. Len(<<{}>> \o rows) > 0 /\ (<<{}>> \o rows)[1] = {}
    BY <2>2 DEF Rows
  <2> QED BY <2>1, <2>3 DEF Headed
<1>2. CASE ~b
  BY <1>2 DEF C!Group, Headed
<1> QED BY <1>1, <1>2

LEMMA HeadedJoined ==
  ASSUME NEW a \in Rows, NEW b \in Rows, Headed(a), Headed(b)
  PROVE  Headed(a \o b)
<1>1. CASE a = << >>
  <2>1. << >> \o b = b
    BY DEF Rows
  <2> QED BY <1>1, <2>1
<1>2. CASE a # << >>
  <2>1. Len(a) > 0 /\ a[1] = {}
    BY <1>2 DEF Headed
  <2>2. Len(a \o b) > 0 /\ (a \o b)[1] = a[1]
    BY <2>1 DEF Rows
  <2> QED BY <2>1, <2>2 DEF Headed
<1> QED BY <1>1, <1>2

\* The same groups, or none.
SameGroups(a, b, gone) == Same(a, b, gone) /\ Headed(a) /\ Headed(b)

LEMMA SameGroupsJoined ==
  ASSUME NEW a, NEW a2, NEW b, NEW b2, NEW gone, SameGroups(a, a2, gone), SameGroups(b, b2, gone)
  PROVE  SameGroups(a \o b, a2 \o b2, gone)
<1>1. Same(a \o b, a2 \o b2, gone)
  BY SameJoined DEF SameGroups
<1>2. a \in Rows /\ a2 \in Rows /\ b \in Rows /\ b2 \in Rows
  BY DEF SameGroups, Same
<1> QED BY <1>1, <1>2, HeadedJoined DEF SameGroups

LEMMA SameGroup ==
  ASSUME NEW b, NEW b2, NEW rows, NEW rows2, NEW gone, Same(rows, rows2, gone),
         ~b => C!Without(rows, gone) = << >>, ~b2 => C!Without(rows2, gone) = << >>
  PROVE  SameGroups(C!Group(b, rows), C!Group(b2, rows2), gone)
BY GroupLeft, GroupHeaded DEF Same, SameGroups

LEMMA AfterHead ==
  ASSUME NEW S, NEW a \in Seq(S), NEW b \in Seq(S), Len(a) = 1
  PROVE  /\ Len(a \o b) = Len(b) + 1 /\ Len(b) \in Nat /\ (a \o b)[1] = a[1]
         /\ \A i \in 2..(Len(b) + 1) : (a \o b)[i] = b[i - 1]
<1>1. Len(b) \in Nat
  OBVIOUS
<1>2. Len(a \o b) = Len(a) + Len(b)
  BY ConcatProperties
<1>3. Len(a \o b) = Len(b) + 1
  BY <1>1, <1>2
<1>4. \A i \in 1..(Len(a) + Len(b)) :
       (a \o b)[i] = IF i <= Len(a) THEN a[i] ELSE b[i - Len(a)]
  BY ConcatProperties
<1>5. 1 \in 1..(Len(a) + Len(b)) /\ 1 <= Len(a)
  BY <1>1
<1>6. ASSUME NEW i \in 2..(Len(b) + 1) PROVE (a \o b)[i] = b[i - 1]
  <2>1. i \in 1..(Len(a) + Len(b)) /\ ~(i <= Len(a)) /\ i - Len(a) = i - 1
    BY <1>1
  <2> QED BY <1>4, <2>1
<1> QED BY <1>1, <1>3, <1>4, <1>5, <1>6

\* It is not missed.
LEMMA WithoutHead ==
  ASSUME NEW rows \in Rows, NEW gone, Headed(rows), rows # << >>
  PROVE  Tail(rows) \in Rows /\ C!Without(Tail(rows), gone) = C!Without(rows, gone)
<1>1. Tail(rows) \in Rows
  BY DEF Rows
<1>2. rows = <<{}>> \o Tail(rows)
  <2>1. rows[1] = {} /\ Len(rows) > 0
    BY DEF Headed
  <2>2. PICK rest \in Rows : rest = Tail(rows)
    BY <1>1
  <2>3. <<{}>> \in Rows
    BY One DEF Rows
  <2>4. /\ Len(<<{}>> \o rest) = Len(rows)
        /\ \A i \in 1..Len(rows) : rows[i] = (<<{}>> \o rest)[i]
    <3>1. Len(rest) = Len(rows) - 1 /\ \A i \in 1..(Len(rows) - 1) : rest[i] = rows[i + 1]
      BY <2>1, <2>2 DEF Rows
    <3>2. PICK head \in Rows : head = <<{}>>
      BY <2>3
    <3>3. Len(head) = 1 /\ head[1] = {}
      BY <3>2
    <3>4. Len(head \o rest) = Len(rows) /\ Len(rows) \in Nat
      BY <2>1, <3>1, <3>3, AfterHead DEF Rows
    <3>5. ASSUME NEW i \in 1..Len(rows) PROVE rows[i] = (head \o rest)[i]
      <4>1. CASE i = 1
        <5>1. (head \o rest)[1] = head[1]
          BY <3>3, AfterHead DEF Rows
        <5> QED BY <2>1, <3>3, <4>1, <5>1
      <4>2. CASE i # 1
        <5>1. i - 1 \in 1..(Len(rows) - 1) /\ (i - 1) + 1 = i
          BY <3>4, <4>2
        <5>2. (head \o rest)[i] = rest[i - 1]
          BY <3>1, <3>3, <3>4, <4>2, AfterHead DEF Rows
        <5> QED BY <3>1, <5>1, <5>2
      <4> QED BY <4>1, <4>2
    <3> QED BY <3>2, <3>4, <3>5
  <2>5. PICK all \in Rows : all = <<{}>> \o rest
    BY <2>3, JoinedRows
  <2>6. rows = all
    BY <2>4, <2>5, SeqEqual DEF Rows
  <2> QED BY <2>2, <2>5, <2>6
<1>3. <<{}>> \o Tail(rows) = C!Group(TRUE, Tail(rows))
  BY DEF C!Group, C!Blank
<1>4. C!Without(C!Group(TRUE, Tail(rows)), gone) = C!Without(Tail(rows), gone)
  BY <1>1, GroupLeft
<1> QED BY <1>1, <1>2, <1>3, <1>4

\* Nothing is left of rows that go altogether.
LEMMA AllGone ==
  ASSUME NEW gone \in SUBSET Said, NEW rows \in Seq(SUBSET gone)
  PROVE  rows \in Rows /\ C!Without(rows, gone) = << >>
<1>1. rows \in Rows
  <2>1. SUBSET gone \subseteq SUBSET Said
    OBVIOUS
  <2>2. Seq(SUBSET gone) \subseteq Seq(SUBSET Said)
    BY <2>1, SeqMonotonic
  <2> QED BY <2>2 DEF Rows
<1>2. PICK f : IsLeft(f, rows, gone) /\ C!Without(rows, gone) = f[Len(rows)]
  BY <1>1, WithoutStep
<1> DEFINE N == Len(rows)
           T == {n \in 0..N : f[n] = << >>}
<1>3. N \in Nat /\ f[0] = << >>
  BY <1>2 DEF IsLeft
<1>4. 0 \in T
  BY <1>3
<1>5. ASSUME NEW n \in 0..(N - 1), n \in T PROVE n + 1 \in T
  <2>1. n + 1 \in 1..N /\ n + 1 \in 0..N /\ (n + 1) - 1 = n
    BY <1>3
  <2>2. rows[n + 1] \ gone = {}
    BY <2>1
  <2>3. LeftRow(rows[n + 1], gone) = << >>
    BY <2>2 DEF LeftRow, C!When
  <2>4. f[n + 1] = << >> \o << >>
    BY <1>2, <1>5, <2>1, <2>3 DEF IsLeft
  <2> QED BY <2>1, <2>4
<1>6. \A n \in 0..N : n \in T
  <2> HIDE DEF T, N
  <2> QED BY <1>3, <1>4, <1>5, UpTo
<1> QED BY <1>1, <1>2, <1>3, <1>6

\* What a page has to work with after a feed has failed: all but what it knew, and
\* but the mean of a sector whose name nobody gave; MIS may now give the name.
After(in, in2, f) ==
  /\ f \in Facts /\ f \in in /\ f \notin in2
  /\ f = "sector" => "mean" \notin in2
  /\ \A x : x # f /\ (f = "sector" => x # "mean") /\ (f = "short name" => x # "listed name")
       => (x \in in <=> x \in in2)

LEMMA NamedRows ==
  ASSUME NEW X, NEW a \in X, NEW b \in X, NEW c \in X, NEW d \in X
  PROVE  /\ C!RowsOf(<<a, b>>) \in Seq(SUBSET X)
         /\ C!RowsOf(<<a, b, c, d>>) \in Seq(SUBSET X)
<1>1. <<a, b>> \in Seq(X) /\ <<a, b, c, d>> \in Seq(X)
  BY Two, Four
<1> QED BY <1>1, RowsOfNames

LEMMA RowsInRows ==
  ASSUME NEW X, X \subseteq Said, NEW rows \in Seq(SUBSET X)
  PROVE  rows \in Rows
<1>1. SUBSET X \subseteq SUBSET Said
  OBVIOUS
<1>2. Seq(SUBSET X) \subseteq Seq(SUBSET Said)
  BY <1>1, SeqMonotonic
<1> QED BY <1>2 DEF Rows

\* Rows that are there or not: for a fact that is still known, or which go with it.
LEMMA SameIf ==
  ASSUME NEW b, NEW b2, NEW rows \in Rows, NEW gone \in SUBSET Said,
         (b <=> b2) \/ rows \in Seq(SUBSET gone)
  PROVE  Same(IF b THEN rows ELSE << >>, IF b2 THEN rows ELSE << >>, gone)
<1>1. << >> \in Rows /\ C!Without(<< >>, gone) = << >>
  BY WithoutNone DEF Rows
<1>2. CASE rows \in Seq(SUBSET gone)
  <2>1. C!Without(rows, gone) = << >>
    BY <1>2, AllGone
  <2> QED BY <1>1, <2>1 DEF Same
<1>3. CASE b <=> b2
  BY <1>1, <1>3 DEF Same
<1> QED BY <1>2, <1>3

LEMMA SameWhenIf ==
  ASSUME NEW b, NEW b2, NEW x \in SUBSET Said, NEW gone,
         (b <=> b2) \/ x \subseteq gone
  PROVE  Same(C!When(b, x), C!When(b2, x), gone)
<1>1. (IF b THEN x \ gone ELSE {}) = (IF b2 THEN x \ gone ELSE {})
  OBVIOUS
<1> QED BY <1>1, SameWhen

LEMMA SameGroupIf ==
  ASSUME NEW b, NEW b2, NEW rows \in Rows, NEW gone \in SUBSET Said,
         (b <=> b2) \/ rows \in Seq(SUBSET gone)
  PROVE  SameGroups(C!Group(b, rows), C!Group(b2, rows), gone)
<1>1. C!When(TRUE, {}) = <<C!Blank>> /\ C!When(TRUE, {}) \in Rows
  BY WhenRows DEF C!When, C!Blank
<1>2. C!Group(TRUE, rows) \in Rows /\ C!Group(FALSE, rows) = << >> /\ << >> \in Rows
  <2>1. <<C!Blank>> \o rows \in Rows
    BY <1>1, JoinedRows
  <2> QED BY <2>1 DEF C!Group, Rows
<1>3. CASE rows \in Seq(SUBSET gone)
  <2>1. C!Without(rows, gone) = << >>
    BY <1>3, AllGone
  <2>2. Same(rows, rows, gone)
    BY SameItself
  <2> QED BY <2>1, <2>2, SameGroup
<1>4. CASE b <=> b2
  <2>1. C!Group(b, rows) = C!Group(b2, rows) /\ C!Group(b, rows) \in Rows
    BY <1>2, <1>4 DEF C!Group
  <2> QED BY <2>1, GroupHeaded DEF Same, SameGroups
<1> QED BY <1>3, <1>4

\* Two rows, one by one.
LEMMA Pair ==
  ASSUME NEW S, NEW x \in S, NEW y \in S
  PROVE  <<x>> \o <<y>> = <<x, y>>
<1>1. <<x>> \in Seq(S) /\ <<y>> \in Seq(S) /\ <<x, y>> \in Seq(S)
  BY One, Two
<1>2. PICK a \in Seq(S) : a = <<x>>
  BY <1>1
<1>3. PICK b \in Seq(S) : b = <<y>>
  BY <1>1
<1>4. PICK c \in Seq(S) : c = <<x, y>>
  BY <1>1
<1>5. /\ Len(a) = 1 /\ a[1] = x /\ Len(b) = 1 /\ b[1] = y
      /\ Len(c) = 2 /\ c[1] = x /\ c[2] = y
  BY <1>2, <1>3, <1>4
<1>6. PICK ab \in Seq(S) : ab = a \o b
  BY ConcatProperties
<1>7. Len(ab) = 2 /\ ab[1] = x /\ ab[2] = y
  <2>1. 2 \in 2..(Len(b) + 1) /\ 2 - 1 = 1
    BY <1>5
  <2> QED BY <1>5, <1>6, <2>1, AfterHead
<1>8. \A i \in 1..Len(ab) : ab[i] = c[i]
  <2>1. \A i \in 1..2 : i = 1 \/ i = 2
    OBVIOUS
  <2> QED BY <1>5, <1>7, <2>1
<1>9. ab = c
  BY <1>5, <1>7, <1>8, SeqEqual
<1> QED BY <1>2, <1>3, <1>4, <1>6, <1>9

LEMMA SameTwo ==
  ASSUME NEW x \in SUBSET Said, NEW y \in SUBSET Said, NEW x2 \in SUBSET Said,
         NEW gone, x \ gone = x2 \ gone
  PROVE  Same(<<x, y>>, <<x2, y>>, gone)
<1>1. Same(C!When(TRUE, x), C!When(TRUE, x2), gone)
  BY SameWhen
<1>2. Same(C!When(TRUE, y), C!When(TRUE, y), gone)
  BY SameWhen
<1>3. Same(C!When(TRUE, x) \o C!When(TRUE, y), C!When(TRUE, x2) \o C!When(TRUE, y), gone)
  BY <1>1, <1>2, SameJoined
<1>4. C!When(TRUE, x) \o C!When(TRUE, y) = <<x, y>> /\ C!When(TRUE, x2) \o C!When(TRUE, y) = <<x2, y>>
  BY Pair DEF C!When
<1> QED BY <1>3, <1>4

\* What rests on which fact.
LEMMA Rests ==
  ASSUME NEW f \in Facts
  PROVE  /\ C!RestsOn(f) \in SUBSET Said
         /\ f \in {"institutional", "flow"} =>
              C!RestsOn(f) = {"foreign net", "trust net", "dealer net", "total net"}
         /\ f = "breadth" => C!RestsOn(f) = {"advance and decline"}
         /\ f = "txf" => C!RestsOn(f) =
              {"foreign futures", "trust futures", "dealer futures", "total futures"}
         /\ f = "margin" => C!RestsOn(f) = {"margin balance", "short balance"}
         /\ f = "lending" => C!RestsOn(f) = {"securities lending"}
         /\ f = "holders" => C!RestsOn(f) = {"big holders", "previous", "all holders"}
         /\ f = "trades" => C!RestsOn(f) = {"block trades"}
         /\ f = "sector" => C!RestsOn(f) = {"sector", "mean"}
         /\ f = "holding" => C!RestsOn(f) = {"holding", "mean"}
         /\ f \in {"short name", "listed name"} => C!RestsOn(f) = {"local name"}
         /\ f \in {"tse", "tpex", "credit", "previous", "yield", "per", "pbr", "listed since",
                   "mean", "revenue", "pcr", "vix", "mxf", "tmf"} => C!RestsOn(f) = {f}
<1> DEFINE a == {"foreign net", "trust net", "dealer net", "total net"}
           t == {"foreign futures", "trust futures", "dealer futures", "total futures"}
           own == {"tse", "tpex", "credit", "previous", "yield", "per", "pbr", "listed since",
                   "mean", "revenue", "pcr", "vix", "mxf", "tmf"}
<1>1. f \in {"institutional", "flow"} => C!RestsOn(f) = a
  BY DEF C!RestsOn
<1>2. f = "breadth" => C!RestsOn(f) = {"advance and decline"}
  BY DEF C!RestsOn
<1>3. f = "txf" => C!RestsOn(f) = t
  BY DEF C!RestsOn
<1>4. f = "margin" => C!RestsOn(f) = {"margin balance", "short balance"}
  BY DEF C!RestsOn
<1>5. f = "lending" => C!RestsOn(f) = {"securities lending"}
  BY DEF C!RestsOn
<1>6. f = "holders" => C!RestsOn(f) = {"big holders", "previous", "all holders"}
  BY DEF C!RestsOn
<1>7. f = "trades" => C!RestsOn(f) = {"block trades"}
  BY DEF C!RestsOn
<1>8. f = "sector" => C!RestsOn(f) = {"sector", "mean"}
  BY DEF C!RestsOn
<1>9. f = "holding" => C!RestsOn(f) = {"holding", "mean"}
  BY DEF C!RestsOn
<1>10. f \in {"short name", "listed name"} => C!RestsOn(f) = {"local name"}
  BY DEF C!RestsOn
<1>11. f \in own => C!RestsOn(f) = {f}
  BY DEF C!RestsOn
<1>12. C!RestsOn(f) \in SUBSET Said
  <2>1. a \in SUBSET Said /\ t \in SUBSET Said /\ own \subseteq Said
    BY DEF Said
  <2>2. /\ {"advance and decline"} \in SUBSET Said
        /\ {"margin balance", "short balance"} \in SUBSET Said
        /\ {"securities lending"} \in SUBSET Said
        /\ {"big holders", "previous", "all holders"} \in SUBSET Said
        /\ {"block trades"} \in SUBSET Said
        /\ {"sector", "mean"} \in SUBSET Said
        /\ {"holding", "mean"} \in SUBSET Said
        /\ {"local name"} \in SUBSET Said
    BY DEF Said
  <2>3. \/ f \in {"institutional", "flow"} \/ f = "breadth" \/ f = "txf" \/ f = "margin"
        \/ f = "lending" \/ f = "holders" \/ f = "trades" \/ f = "sector" \/ f = "holding"
        \/ f \in {"short name", "listed name"} \/ f \in own
    BY DEF Facts
  <2>4. f \in own => {f} \in SUBSET Said
    BY <2>1
  <2> HIDE DEF a, t, own
  <2> QED BY <1>1, <1>2, <1>3, <1>4, <1>5, <1>6, <1>7, <1>8, <1>9, <1>10, <1>11,
             <2>1, <2>2, <2>3, <2>4
<1> QED BY <1>1, <1>2, <1>3, <1>4, <1>5, <1>6, <1>7, <1>8, <1>9, <1>10, <1>11, <1>12

\* What no longer is known of some facts is gone with the fact that is lost.
LEMMA OthersStay ==
  ASSUME NEW in, NEW in2, NEW f, After(in, in2, f), NEW x,
         x # f, x # "mean", x # "listed name"
  PROVE  x \in in <=> x \in in2
BY DEF After

\* Rows and segments that rest on one fact.
LEMMA OneFact ==
  ASSUME NEW in, NEW in2, NEW f, After(in, in2, f), NEW x, x # "mean", x # "listed name"
  PROVE  (x \in in <=> x \in in2) \/ x = f
BY DEF After

\* holdersRows.
LEMMA HoldersSame ==
  ASSUME NEW in, NEW in2, NEW f, After(in, in2, f)
  PROVE  Same(C!HoldersRows(in), C!HoldersRows(in2), C!RestsOn(f))
<1> DEFINE gone == C!RestsOn(f)
<1>1. f \in Facts /\ gone \in SUBSET Said
  BY Rests DEF After
<1>2. ASSUME NEW s PROVE {"big holders"} \cup (s \cap {"previous"}) \in SUBSET Said
  BY DEF Said
<1>3. {"all holders"} \in SUBSET Said
  BY DEF Said
<1>4. \A s : C!HoldersRows(s) =
        IF "holders" \in s THEN <<{"big holders"} \cup (s \cap {"previous"}), {"all holders"}>> ELSE << >>
  BY DEF C!HoldersRows
<1>5. << >> \in Rows
  BY DEF Rows
<1>6. ASSUME NEW s PROVE C!HoldersRows(s) \in Rows
  <2>1. <<{"big holders"} \cup (s \cap {"previous"}), {"all holders"}>> \in Rows
    BY <1>2, <1>3, Two DEF Rows
  <2> QED BY <1>4, <1>5, <2>1
<1>7. CASE f = "holders"
  <2>1. gone = {"big holders", "previous", "all holders"}
    BY <1>1, <1>7, Rests
  <2>2. PICK x : x = {"big holders"} \cup (in \cap {"previous"})
    OBVIOUS
  <2>3. x \in SUBSET gone /\ {"all holders"} \in SUBSET gone
    BY <2>1, <2>2
  <2>4. <<x, {"all holders"}>> \in Seq(SUBSET gone)
    BY <2>3, Two
  <2>5. C!HoldersRows(in) = <<x, {"all holders"}>> /\ C!HoldersRows(in2) = << >>
    BY <1>4, <1>7, <2>2 DEF After
  <2>6. C!Without(C!HoldersRows(in), gone) = << >> /\ C!Without(C!HoldersRows(in2), gone) = << >>
    BY <1>1, <2>4, <2>5, AllGone, WithoutNone
  <2> QED BY <1>6, <2>6 DEF Same
<1>8. CASE f # "holders" /\ "holders" \in in
  <2>1. "holders" \in in2
    BY <1>8, OthersStay
  <2>2. "previous" \in in <=> "previous" \in in2 \/ f = "previous"
    BY OneFact DEF After
  <2>3. f = "previous" => gone = {"previous"}
    BY <1>1, Rests
  <2>4. ({"big holders"} \cup (in \cap {"previous"})) \ gone
          = ({"big holders"} \cup (in2 \cap {"previous"})) \ gone
    <3>1. CASE f = "previous"
      BY <2>3, <3>1
    <3>2. CASE f # "previous"
      BY <2>2, <3>2
    <3> QED BY <3>1, <3>2
  <2>5. PICK x \in SUBSET Said : x = {"big holders"} \cup (in \cap {"previous"})
    BY <1>2
  <2>6. PICK x2 \in SUBSET Said : x2 = {"big holders"} \cup (in2 \cap {"previous"})
    BY <1>2
  <2>7. Same(<<x, {"all holders"}>>, <<x2, {"all holders"}>>, gone)
    BY <1>3, <2>4, <2>5, <2>6, SameTwo
  <2> QED BY <1>4, <1>8, <2>1, <2>5, <2>6, <2>7
<1>9. CASE f # "holders" /\ "holders" \notin in
  <2>1. "holders" \notin in2
    BY <1>9, OthersStay
  <2> QED BY <1>4, <1>5, <1>9, <2>1, SameItself
<1> QED BY <1>7, <1>8, <1>9

\* A row of the figures that are there.
LEMMA FiguresSame ==
  ASSUME NEW s \in SUBSET Said, NEW s2 \in SUBSET Said, NEW gone, s \ gone = s2 \ gone
  PROVE  Same(C!When(s # {}, s), C!When(s2 # {}, s2), gone)
<1>1. (IF s # {} THEN s \ gone ELSE {}) = (IF s2 # {} THEN s2 \ gone ELSE {})
  OBVIOUS
<1> QED BY <1>1, SameWhen

\* Facts that are shown as they are.
OwnName == {"tse", "tpex", "credit", "previous", "yield", "per", "pbr", "listed since",
            "revenue", "pcr", "vix", "mxf", "tmf"}

LEMMA OwnNameSame ==
  ASSUME NEW in, NEW in2, NEW f, After(in, in2, f), NEW names \in SUBSET OwnName
  PROVE  (in \cap names) \ C!RestsOn(f) = (in2 \cap names) \ C!RestsOn(f)
<1>1. f \in OwnName => C!RestsOn(f) = {f}
  BY Rests DEF After, OwnName
<1>2. \A x \in OwnName : (x \in in <=> x \in in2) \/ x = f
  BY OneFact DEF OwnName
<1> QED BY <1>1, <1>2

\* fundamentalsRow.
LEMMA FundamentalsSame ==
  ASSUME NEW in, NEW in2, NEW f, After(in, in2, f)
  PROVE  Same(C!FundamentalsRow(in), C!FundamentalsRow(in2), C!RestsOn(f))
<1> DEFINE names == {"yield", "per", "pbr"}
<1>1. names \in SUBSET OwnName /\ names \in SUBSET Said
  BY DEF OwnName, Said
<1>2. (in \cap names) \ C!RestsOn(f) = (in2 \cap names) \ C!RestsOn(f)
  <2> HIDE DEF names
  <2> QED BY <1>1, OwnNameSame
<1>3. \A s : C!FundamentalsRow(s) = C!When(s \cap names # {}, s \cap names)
  BY DEF C!FundamentalsRow
<1> HIDE DEF names
<1>4. in \cap names \in SUBSET Said /\ in2 \cap names \in SUBSET Said
  BY <1>1
<1>5. Same(C!When(in \cap names # {}, in \cap names), C!When(in2 \cap names # {}, in2 \cap names),
           C!RestsOn(f))
  BY <1>2, <1>4, FiguresSame
<1> QED BY <1>3, <1>5

\* contextRow: the mean goes with the sector and with the holding.
LEMMA ContextSame ==
  ASSUME NEW in, NEW in2, NEW f, After(in, in2, f)
  PROVE  Same(C!ContextRow(in), C!ContextRow(in2), C!RestsOn(f))
<1> DEFINE gone == C!RestsOn(f)
           names == {"sector", "listed since", "holding"}
           row(s) == (s \cap names) \cup (IF "holding" \in s THEN s \cap {"mean"} ELSE {})
<1>1. \A s : C!ContextRow(s) = C!When(row(s) # {}, row(s))
  BY DEF C!ContextRow
<1>2. ASSUME NEW s PROVE row(s) \in SUBSET Said
  BY DEF Said
<1>3. f \in Facts
  BY DEF After
<1>4. row(in) \ gone = row(in2) \ gone
  <2>1. CASE f = "sector"
    <3>1. gone = {"sector", "mean"}
      BY <1>3, <2>1, Rests
    <3>2. /\ "listed since" \in in <=> "listed since" \in in2
          /\ "holding" \in in <=> "holding" \in in2
      BY <2>1 DEF After
    <3> QED BY <3>1, <3>2
  <2>2. CASE f = "holding"
    <3>1. gone = {"holding", "mean"}
      BY <1>3, <2>2, Rests
    <3>2. /\ "listed since" \in in <=> "listed since" \in in2
          /\ "sector" \in in <=> "sector" \in in2
      BY <2>2 DEF After
    <3> QED BY <3>1, <3>2
  <2>3. CASE f \in {"listed since", "mean"}
    <3>1. gone = {f}
      BY <1>3, <2>3, Rests
    <3>2. \A x \in {"sector", "listed since", "holding", "mean"} : x # f => (x \in in <=> x \in in2)
      BY <2>3 DEF After
    <3> QED BY <2>3, <3>1, <3>2
  <2>4. CASE f \notin {"sector", "holding", "listed since", "mean"}
    <3>1. \A x \in {"sector", "listed since", "holding", "mean"} : x \in in <=> x \in in2
      BY <2>4 DEF After
    <3> QED BY <3>1
  <2> QED BY <2>1, <2>2, <2>3, <2>4
<1> HIDE DEF row, gone
<1>5. Same(C!When(row(in) # {}, row(in)), C!When(row(in2) # {}, row(in2)), gone)
  BY <1>2, <1>4, FiguresSame
<1> QED BY <1>1, <1>5 DEF gone

\* A row of one fact.
LEMMA RowSame ==
  ASSUME NEW in, NEW in2, NEW f, After(in, in2, f), NEW x, x # "mean", x # "listed name",
         NEW row \in SUBSET Said, f = x => row \subseteq C!RestsOn(f)
  PROVE  Same(C!When(x \in in, row), C!When(x \in in2, row), C!RestsOn(f))
<1>1. (x \in in <=> x \in in2) \/ x = f
  BY OneFact
<1>2. (x \in in <=> x \in in2) \/ row \subseteq C!RestsOn(f)
  BY <1>1
<1> QED BY <1>2, SameWhenIf

\* The slow signals.
LEMMA SlowSame ==
  ASSUME NEW in, NEW in2, NEW f, After(in, in2, f)
  PROVE  SameGroups(C!SlowGroup(in), C!SlowGroup(in2), C!RestsOn(f))
<1> DEFINE gone == C!RestsOn(f)
<1>1. f \in Facts
  BY DEF After
<1>2. Same(C!When("trades" \in in, {"block trades"}), C!When("trades" \in in2, {"block trades"}), gone)
  <2>1. {"block trades"} \in SUBSET Said /\ (f = "trades" => {"block trades"} \subseteq gone)
    BY <1>1, Rests DEF Said
  <2> QED BY <2>1, RowSame
<1>3. Same(C!When("revenue" \in in, {"revenue"}), C!When("revenue" \in in2, {"revenue"}), gone)
  <2>1. {"revenue"} \in SUBSET Said /\ (f = "revenue" => {"revenue"} \subseteq gone)
    BY <1>1, Rests DEF Said
  <2> QED BY <2>1, RowSame
<1> HIDE DEF gone
<1>4. Same(C!HoldersRows(in) \o C!When("trades" \in in, {"block trades"}),
           C!HoldersRows(in2) \o C!When("trades" \in in2, {"block trades"}), gone)
  BY <1>2, HoldersSame, SameJoined DEF gone
<1>5. Same((C!HoldersRows(in) \o C!When("trades" \in in, {"block trades"})) \o C!FundamentalsRow(in),
           (C!HoldersRows(in2) \o C!When("trades" \in in2, {"block trades"})) \o C!FundamentalsRow(in2),
           gone)
  BY <1>4, FundamentalsSame, SameJoined DEF gone
<1>6. Same(((C!HoldersRows(in) \o C!When("trades" \in in, {"block trades"})) \o C!FundamentalsRow(in))
             \o C!ContextRow(in),
           ((C!HoldersRows(in2) \o C!When("trades" \in in2, {"block trades"})) \o C!FundamentalsRow(in2))
             \o C!ContextRow(in2), gone)
  BY <1>5, ContextSame, SameJoined DEF gone
<1>7. Same(C!StockRows(in), C!StockRows(in2), gone)
  BY <1>3, <1>6, SameJoined DEF C!StockRows
<1>8. SameGroups(C!Group(C!StockRows(in) # << >>, C!StockRows(in)),
                 C!Group(C!StockRows(in2) # << >>, C!StockRows(in2)), gone)
  BY <1>7, SameGroup, WithoutNone
<1> QED BY <1>8 DEF C!SlowGroup, gone

\* positioningRows and perStockPositioningRows; institutionalFuturesRows.
LEMMA FourRows ==
  /\ C!Positioning \in Rows /\ C!FuturesRows \in Rows
  /\ \A f \in Facts : f \in {"institutional", "flow"} => C!Positioning \in Seq(SUBSET C!RestsOn(f))
  /\ \A f \in Facts : f = "txf" => C!FuturesRows \in Seq(SUBSET C!RestsOn(f))
<1> DEFINE a == {"foreign net", "trust net", "dealer net", "total net"}
           t == {"foreign futures", "trust futures", "dealer futures", "total futures"}
<1>1. C!Positioning \in Seq(SUBSET a)
  <2>1. "foreign net" \in a /\ "trust net" \in a /\ "dealer net" \in a /\ "total net" \in a
    OBVIOUS
  <2> HIDE DEF a
  <2> QED BY <2>1, NamedRows DEF C!Positioning
<1>2. C!FuturesRows \in Seq(SUBSET t)
  <2>1. /\ "foreign futures" \in t /\ "trust futures" \in t
        /\ "dealer futures" \in t /\ "total futures" \in t
    OBVIOUS
  <2> HIDE DEF t
  <2> QED BY <2>1, NamedRows DEF C!FuturesRows
<1>3. a \subseteq Said /\ t \subseteq Said
  BY DEF Said
<1>4. \A f \in Facts : (f \in {"institutional", "flow"} => C!RestsOn(f) = a)
                       /\ (f = "txf" => C!RestsOn(f) = t)
  BY Rests
<1> HIDE DEF a, t
<1> QED BY <1>1, <1>2, <1>3, <1>4, RowsInRows

\* perStockCreditRows.
LEMMA StockCreditSame ==
  ASSUME NEW in, NEW in2, NEW f, After(in, in2, f)
  PROVE  Same(C!StockCreditRows(in), C!StockCreditRows(in2), C!RestsOn(f))
<1> DEFINE m == {"margin balance", "short balance"}
           rows == C!RowsOf(<<"margin balance", "short balance">>)
<1>1. f \in Facts /\ C!RestsOn(f) \in SUBSET Said
  BY Rests DEF After
<1>2. rows \in Seq(SUBSET m)
  <2>1. "margin balance" \in m /\ "short balance" \in m
    OBVIOUS
  <2> HIDE DEF m
  <2> QED BY <2>1, NamedRows
<1>3. m \subseteq Said /\ (f = "margin" => C!RestsOn(f) = m)
  BY <1>1, Rests DEF Said
<1>4. {"securities lending"} \in SUBSET Said
      /\ (f = "lending" => {"securities lending"} \subseteq C!RestsOn(f))
  BY <1>1, Rests DEF Said
<1>5. \A s : C!StockCreditRows(s) = (IF "margin" \in s THEN rows ELSE << >>)
                                      \o C!When("lending" \in s, {"securities lending"})
  BY DEF C!StockCreditRows
<1> HIDE DEF m, rows
<1>6. rows \in Rows
  BY <1>2, <1>3, RowsInRows
<1>7. Same(IF "margin" \in in THEN rows ELSE << >>, IF "margin" \in in2 THEN rows ELSE << >>,
           C!RestsOn(f))
  <2>1. ("margin" \in in <=> "margin" \in in2) \/ "margin" = f
    BY OneFact
  <2>2. ("margin" \in in <=> "margin" \in in2) \/ rows \in Seq(SUBSET C!RestsOn(f))
    BY <1>2, <1>3, <2>1
  <2> QED BY <1>1, <1>6, <2>2, SameIf
<1>8. Same(C!When("lending" \in in, {"securities lending"}),
           C!When("lending" \in in2, {"securities lending"}), C!RestsOn(f))
  BY <1>4, RowSame
<1>9. PICK a, b : /\ a = IF "margin" \in in THEN rows ELSE << >>
                  /\ b = IF "margin" \in in2 THEN rows ELSE << >>
  OBVIOUS
<1>10. Same(a \o C!When("lending" \in in, {"securities lending"}),
            b \o C!When("lending" \in in2, {"securities lending"}), C!RestsOn(f))
  BY <1>7, <1>8, <1>9, SameJoined
<1> QED BY <1>5, <1>9, <1>10

\* Groups that only a closed market has, for any of some facts.
LEMMA ClosedGroupSame ==
  ASSUME NEW b, NEW b2, NEW closed, NEW rows, NEW rows2, NEW gone, Same(rows, rows2, gone),
         ~closed => ~b /\ ~b2,
         closed /\ ~b => C!Without(rows, gone) = << >>,
         closed /\ ~b2 => C!Without(rows2, gone) = << >>
  PROVE  SameGroups(C!Group(b, rows), C!Group(b2, rows2), gone)
<1>1. CASE closed
  BY <1>1, SameGroup
<1>2. CASE ~closed
  <2>1. C!Group(b, rows) = << >> /\ C!Group(b2, rows2) = << >> /\ << >> \in Rows
    BY <1>2 DEF C!Group, Rows
  <2> QED BY <2>1 DEF Same, SameGroups, Headed
<1> QED BY <1>1, <1>2

\* The rows of a stock's page.
LEMMA StockGroupsSame ==
  ASSUME NEW q, NEW in, NEW in2, NEW f, After(in, in2, f)
  PROVE  SameGroups(C!StockGroups(q, in), C!StockGroups(q, in2), C!RestsOn(f))
<1>1. SameGroups(C!Group(q.closed /\ "flow" \in in, C!Positioning),
           C!Group(q.closed /\ "flow" \in in2, C!Positioning), C!RestsOn(f))
  <2>1. f = "flow" => C!Positioning \in Seq(SUBSET C!RestsOn(f))
    BY FourRows DEF After
  <2>2. C!Positioning \in Rows
    BY FourRows
  <2>3. PICK b, b2 : /\ b = (q.closed /\ "flow" \in in)
                       /\ b2 = (q.closed /\ "flow" \in in2)
    OBVIOUS
  <2>4. ("flow" \in in <=> "flow" \in in2) \/ "flow" = f
    BY OneFact
  <2>5. (b <=> b2) \/ C!Positioning \in Seq(SUBSET C!RestsOn(f))
    BY <2>1, <2>2, <2>3, <2>4
  <2>6. C!RestsOn(f) \in SUBSET Said
    BY Rests DEF After
  <2>7. SameGroups(C!Group(b, C!Positioning), C!Group(b2, C!Positioning), C!RestsOn(f))
    BY <2>1, <2>2, <2>5, <2>6, SameGroupIf
  <2> QED BY <2>3, <2>7
<1>2. SameGroups(C!Group(q.closed /\ in \cap {"margin", "lending"} # {}, C!StockCreditRows(in)),
           C!Group(q.closed /\ in2 \cap {"margin", "lending"} # {}, C!StockCreditRows(in2)),
           C!RestsOn(f))
  <2>1. ASSUME NEW s, s \cap {"margin", "lending"} = {}
        PROVE  C!Without(C!StockCreditRows(s), C!RestsOn(f)) = << >>
    <3>1. C!StockCreditRows(s) = << >> \o << >>
      BY <2>1 DEF C!StockCreditRows, C!When
    <3>2. << >> \o << >> = << >>
      OBVIOUS
    <3> QED BY <3>1, <3>2, WithoutNone
  <2>2. PICK b, b2, closed :
           /\ b = (q.closed /\ in \cap {"margin", "lending"} # {}) /\ closed = q.closed
           /\ b2 = (q.closed /\ in2 \cap {"margin", "lending"} # {})
    OBVIOUS
  <2>3. /\ ~closed => ~b /\ ~b2
        /\ closed /\ ~b => C!Without(C!StockCreditRows(in), C!RestsOn(f)) = << >>
        /\ closed /\ ~b2 => C!Without(C!StockCreditRows(in2), C!RestsOn(f)) = << >>
    BY <2>2, <2>1
  <2>4. SameGroups(C!Group(b, C!StockCreditRows(in)), C!Group(b2, C!StockCreditRows(in2)), C!RestsOn(f))
    BY <2>3, StockCreditSame, ClosedGroupSame
  <2> QED BY <2>2, <2>4
<1>3. SameGroups(C!Group(q.closed /\ "flow" \in in, C!Positioning)
             \o C!Group(q.closed /\ in \cap {"margin", "lending"} # {}, C!StockCreditRows(in)),
           C!Group(q.closed /\ "flow" \in in2, C!Positioning)
             \o C!Group(q.closed /\ in2 \cap {"margin", "lending"} # {}, C!StockCreditRows(in2)),
           C!RestsOn(f))
  BY <1>1, <1>2, SameGroupsJoined
<1> QED BY <1>3, SlowSame, SameGroupsJoined DEF C!StockGroups

\* breadthRows: of an open market only the exchanges are asked for.
LEMMA BreadthSame ==
  ASSUME NEW q, NEW in, NEW in2, NEW f, After(in, in2, f), ~q.closed => "breadth" \notin in
  PROVE  Same(C!BreadthRows(q, in), C!BreadthRows(q, in2), C!RestsOn(f))
<1> DEFINE ex(s) == C!When("tse" \in s, {"tse"}) \o C!When("tpex" \in s, {"tpex"})
           totals(s) == C!When("breadth" \in s, {"advance and decline"})
<1>1. f \in Facts /\ {"tse"} \in SUBSET Said /\ {"tpex"} \in SUBSET Said
      /\ {"advance and decline"} \in SUBSET Said
  BY DEF After, Said
<1>2. /\ f = "tse" => {"tse"} \subseteq C!RestsOn(f)
      /\ f = "tpex" => {"tpex"} \subseteq C!RestsOn(f)
      /\ f = "breadth" => {"advance and decline"} \subseteq C!RestsOn(f)
  BY <1>1, Rests
<1>3. Same(totals(in), totals(in2), C!RestsOn(f))
  BY <1>1, <1>2, RowSame
<1>4. Same(ex(in), ex(in2), C!RestsOn(f))
  <2>1. Same(C!When("tse" \in in, {"tse"}), C!When("tse" \in in2, {"tse"}), C!RestsOn(f))
    BY <1>1, <1>2, RowSame
  <2>2. Same(C!When("tpex" \in in, {"tpex"}), C!When("tpex" \in in2, {"tpex"}), C!RestsOn(f))
    BY <1>1, <1>2, RowSame
  <2> QED BY <2>1, <2>2, SameJoined
<1>5. \A s : C!BreadthRows(q, s) = IF ~q.closed /\ ex(s) # << >> THEN ex(s) ELSE totals(s)
  BY DEF C!BreadthRows
<1>6. ~q.closed => totals(in) = << >> /\ totals(in2) = << >>
  <2>1. ~q.closed => "breadth" \notin in /\ "breadth" \notin in2
    BY DEF After
  <2> QED BY <2>1 DEF C!When
<1> HIDE DEF ex, totals
<1>7. CASE q.closed
  BY <1>3, <1>5, <1>7
<1>8. CASE ~q.closed
  BY <1>4, <1>5, <1>6, <1>8
<1> QED BY <1>7, <1>8

\* The rows of the market's page.
LEMMA MarketGroupsSame ==
  ASSUME NEW q, NEW in, NEW in2, NEW f, After(in, in2, f), ~q.closed => "breadth" \notin in
  PROVE  SameGroups(C!MarketGroups(q, in), C!MarketGroups(q, in2), C!RestsOn(f))
<1>0. f \in Facts
  BY DEF After
<1> DEFINE gone == C!RestsOn(f)
           g1(s) == C!Group(q.closed /\ "institutional" \in s, C!Positioning)
           g2(s) == C!Group(C!BreadthRows(q, s) # << >>, C!BreadthRows(q, s))
           g3(s) == C!Group(q.closed /\ "credit" \in s, <<{"credit"}>>)
           g4(s) == C!Group(q.closed /\ s \cap {"pcr", "vix"} # {}, C!SentimentRow(s))
           g5(s) == C!Group(q.closed /\ "txf" \in s, C!FuturesRows)
           g6(s) == C!Group(q.closed /\ s \cap {"mxf", "tmf"} # {}, C!RetailRows(s))
<1>1. SameGroups(g1(in), g1(in2), gone)
  <2>1. f = "institutional" => C!Positioning \in Seq(SUBSET gone)
    BY FourRows DEF After
  <2>2. C!Positioning \in Rows
    BY FourRows
  <2>3. PICK b, b2 : /\ b = (q.closed /\ "institutional" \in in)
                       /\ b2 = (q.closed /\ "institutional" \in in2)
    OBVIOUS
  <2>4. ("institutional" \in in <=> "institutional" \in in2) \/ "institutional" = f
    BY OneFact
  <2>5. (b <=> b2) \/ C!Positioning \in Seq(SUBSET C!RestsOn(f))
    BY <2>1, <2>2, <2>3, <2>4
  <2>6. C!RestsOn(f) \in SUBSET Said
    BY Rests DEF After
  <2>7. SameGroups(C!Group(b, C!Positioning), C!Group(b2, C!Positioning), C!RestsOn(f))
    BY <2>1, <2>2, <2>5, <2>6, SameGroupIf
  <2> QED BY <2>3, <2>7
<1>2. SameGroups(g2(in), g2(in2), gone)
  BY BreadthSame, SameGroup, WithoutNone
<1>3. SameGroups(g3(in), g3(in2), gone)
  <2>1. {"credit"} \in SUBSET Said /\ (f = "credit" => {"credit"} \in SUBSET gone)
    BY <1>0, Rests DEF Said
  <2>2. <<{"credit"}>> \in Rows
    BY <2>1, One DEF Rows
  <2>3. f = "credit" => <<{"credit"}>> \in Seq(SUBSET gone)
    BY <2>1, One
  <2>4. PICK b, b2 : /\ b = (q.closed /\ "credit" \in in)
                       /\ b2 = (q.closed /\ "credit" \in in2)
    OBVIOUS
  <2>5. ("credit" \in in <=> "credit" \in in2) \/ "credit" = f
    BY OneFact
  <2>6. (b <=> b2) \/ <<{"credit"}>> \in Seq(SUBSET C!RestsOn(f))
    BY <2>2, <2>3, <2>4, <2>5
  <2>7. C!RestsOn(f) \in SUBSET Said
    BY Rests DEF After
  <2>8. SameGroups(C!Group(b, <<{"credit"}>>), C!Group(b2, <<{"credit"}>>), C!RestsOn(f))
    BY <2>2, <2>3, <2>6, <2>7, SameGroupIf
  <2> QED BY <2>4, <2>8
<1>4. SameGroups(g4(in), g4(in2), gone)
  <2>1. \A s : s \cap {"pcr", "vix"} \in SUBSET Said /\ {"pcr", "vix"} \in SUBSET OwnName
    BY DEF Said, OwnName
  <2>2. (in \cap {"pcr", "vix"}) \ gone = (in2 \cap {"pcr", "vix"}) \ gone
    BY <2>1, OwnNameSame
  <2>3. \A s : C!SentimentRow(s) = C!When(TRUE, s \cap {"pcr", "vix"})
    BY DEF C!SentimentRow, C!When
  <2>4. Same(C!SentimentRow(in), C!SentimentRow(in2), gone)
    <3>1. PICK x \in SUBSET Said : x = in \cap {"pcr", "vix"}
      BY <2>1
    <3>2. PICK x2 \in SUBSET Said : x2 = in2 \cap {"pcr", "vix"}
      BY <2>1
    <3>3. Same(C!When(TRUE, x), C!When(TRUE, x2), gone)
      BY <2>2, <3>1, <3>2, SameWhen
    <3> QED BY <2>3, <3>1, <3>2, <3>3
  <2>5. ASSUME NEW s, s \cap {"pcr", "vix"} = {}
        PROVE  C!Without(C!SentimentRow(s), gone) = << >>
    <3>1. C!SentimentRow(s) = C!When(TRUE, {})
      BY <2>3, <2>5
    <3>2. C!Without(C!When(TRUE, {}), gone) = LeftWhen(TRUE, {}, gone)
      BY WithoutWhen
    <3> QED BY <3>1, <3>2 DEF LeftWhen, C!When
  <2>6. PICK b, b2, closed :
           /\ b = (q.closed /\ in \cap {"pcr", "vix"} # {}) /\ closed = q.closed
           /\ b2 = (q.closed /\ in2 \cap {"pcr", "vix"} # {})
    OBVIOUS
  <2>7. /\ ~closed => ~b /\ ~b2
        /\ closed /\ ~b => C!Without(C!SentimentRow(in), C!RestsOn(f)) = << >>
        /\ closed /\ ~b2 => C!Without(C!SentimentRow(in2), C!RestsOn(f)) = << >>
    BY <2>6, <2>5
  <2>8. SameGroups(C!Group(b, C!SentimentRow(in)), C!Group(b2, C!SentimentRow(in2)), C!RestsOn(f))
    BY <2>7, <2>4, ClosedGroupSame
  <2> QED BY <2>6, <2>8
<1>5. SameGroups(g5(in), g5(in2), gone)
  <2>1. f = "txf" => C!FuturesRows \in Seq(SUBSET gone)
    BY FourRows DEF After
  <2>2. C!FuturesRows \in Rows
    BY FourRows
  <2>3. PICK b, b2 : /\ b = (q.closed /\ "txf" \in in)
                       /\ b2 = (q.closed /\ "txf" \in in2)
    OBVIOUS
  <2>4. ("txf" \in in <=> "txf" \in in2) \/ "txf" = f
    BY OneFact
  <2>5. (b <=> b2) \/ C!FuturesRows \in Seq(SUBSET C!RestsOn(f))
    BY <2>1, <2>2, <2>3, <2>4
  <2>6. C!RestsOn(f) \in SUBSET Said
    BY Rests DEF After
  <2>7. SameGroups(C!Group(b, C!FuturesRows), C!Group(b2, C!FuturesRows), C!RestsOn(f))
    BY <2>1, <2>2, <2>5, <2>6, SameGroupIf
  <2> QED BY <2>3, <2>7
<1>6. SameGroups(g6(in), g6(in2), gone)
  <2>1. /\ {"mxf"} \in SUBSET Said /\ (f = "mxf" => {"mxf"} \subseteq gone)
        /\ {"tmf"} \in SUBSET Said /\ (f = "tmf" => {"tmf"} \subseteq gone)
    BY <1>0, Rests DEF Said
  <2>2. Same(C!When("mxf" \in in, {"mxf"}), C!When("mxf" \in in2, {"mxf"}), gone)
    BY <2>1, RowSame
  <2>3. Same(C!When("tmf" \in in, {"tmf"}), C!When("tmf" \in in2, {"tmf"}), gone)
    BY <2>1, RowSame
  <2>4. Same(C!RetailRows(in), C!RetailRows(in2), gone)
    BY <2>2, <2>3, SameJoined DEF C!RetailRows
  <2>5. ASSUME NEW s, s \cap {"mxf", "tmf"} = {}
        PROVE  C!Without(C!RetailRows(s), gone) = << >>
    <3>1. C!RetailRows(s) = << >> \o << >>
      BY <2>5 DEF C!RetailRows, C!When
    <3>2. << >> \o << >> = << >>
      OBVIOUS
    <3> QED BY <3>1, <3>2, WithoutNone
  <2>6. PICK b, b2, closed :
           /\ b = (q.closed /\ in \cap {"mxf", "tmf"} # {}) /\ closed = q.closed
           /\ b2 = (q.closed /\ in2 \cap {"mxf", "tmf"} # {})
    OBVIOUS
  <2>7. /\ ~closed => ~b /\ ~b2
        /\ closed /\ ~b => C!Without(C!RetailRows(in), C!RestsOn(f)) = << >>
        /\ closed /\ ~b2 => C!Without(C!RetailRows(in2), C!RestsOn(f)) = << >>
    BY <2>6, <2>5
  <2>8. SameGroups(C!Group(b, C!RetailRows(in)), C!Group(b2, C!RetailRows(in2)), C!RestsOn(f))
    BY <2>7, <2>4, ClosedGroupSame
  <2> QED BY <2>6, <2>8
<1>7. \A s : C!MarketGroups(q, s) =
        (((((g1(s) \o g2(s)) \o g3(s)) \o C!SlowGroup(s)) \o g4(s)) \o g5(s)) \o g6(s)
  BY DEF C!MarketGroups
<1>8. SameGroups(C!SlowGroup(in), C!SlowGroup(in2), gone)
  BY SlowSame
<1> HIDE DEF g1, g2, g3, g4, g5, g6, gone
<1>15. C!MarketGroups(q, in) =
         (((((g1(in) \o g2(in)) \o g3(in)) \o C!SlowGroup(in)) \o g4(in)) \o g5(in)) \o g6(in)
  BY <1>7
<1>16. C!MarketGroups(q, in2) =
         (((((g1(in2) \o g2(in2)) \o g3(in2)) \o C!SlowGroup(in2)) \o g4(in2)) \o g5(in2)) \o g6(in2)
  BY <1>7
<1>9. SameGroups(g1(in) \o g2(in), g1(in2) \o g2(in2), gone)
  BY <1>1, <1>2, SameGroupsJoined
<1>10. SameGroups((g1(in) \o g2(in)) \o g3(in), (g1(in2) \o g2(in2)) \o g3(in2), gone)
  BY <1>3, <1>9, SameGroupsJoined
<1>11. SameGroups(((g1(in) \o g2(in)) \o g3(in)) \o C!SlowGroup(in),
            ((g1(in2) \o g2(in2)) \o g3(in2)) \o C!SlowGroup(in2), gone)
  BY <1>8, <1>10, SameGroupsJoined
<1>12. SameGroups((((g1(in) \o g2(in)) \o g3(in)) \o C!SlowGroup(in)) \o g4(in),
            (((g1(in2) \o g2(in2)) \o g3(in2)) \o C!SlowGroup(in2)) \o g4(in2), gone)
  BY <1>4, <1>11, SameGroupsJoined
<1>13. SameGroups(((((g1(in) \o g2(in)) \o g3(in)) \o C!SlowGroup(in)) \o g4(in)) \o g5(in),
            ((((g1(in2) \o g2(in2)) \o g3(in2)) \o C!SlowGroup(in2)) \o g4(in2)) \o g5(in2), gone)
  BY <1>5, <1>12, SameGroupsJoined
<1>14. SameGroups((((((g1(in) \o g2(in)) \o g3(in)) \o C!SlowGroup(in)) \o g4(in)) \o g5(in)) \o g6(in),
            (((((g1(in2) \o g2(in2)) \o g3(in2)) \o C!SlowGroup(in2)) \o g4(in2)) \o g5(in2)) \o g6(in2),
            gone)
  BY <1>6, <1>13, SameGroupsJoined
<1> QED BY <1>14, <1>15, <1>16 DEF gone

\* buildBlocks: the row above the first group goes, and is nothing.
LEMMA BodySame ==
  ASSUME NEW r, NEW q, NEW in, NEW in2, NEW f, After(in, in2, f), ~q.closed => "breadth" \notin in
  PROVE  Same(C!Body(r, q, in), C!Body(r, q, in2), C!RestsOn(f))
<1> DEFINE gone == C!RestsOn(f)
           body(groups) == IF groups = << >> THEN << >> ELSE Tail(groups)
<1>1. SameGroups(C!Groups(r, q, in), C!Groups(r, q, in2), gone)
  <2>1. CASE C!HasStockID(r.symbol)
    BY <2>1, StockGroupsSame DEF C!Groups
  <2>2. CASE ~C!HasStockID(r.symbol)
    BY <2>2, MarketGroupsSame DEF C!Groups
  <2> QED BY <2>1, <2>2
<1>2. << >> \in Rows /\ C!Without(<< >>, gone) = << >>
  BY WithoutNone DEF Rows
<1>3. ASSUME NEW groups \in Rows, Headed(groups)
      PROVE  body(groups) \in Rows /\ C!Without(body(groups), gone) = C!Without(groups, gone)
  <2>1. CASE groups = << >>
    BY <1>2, <2>1
  <2>2. CASE groups # << >>
    BY <1>3, <2>2, WithoutHead
  <2> QED BY <2>1, <2>2
<1>4. \A s : C!Body(r, q, s) = IF ~C!ShowsTWSE(r) THEN << >> ELSE body(C!Groups(r, q, s))
  BY DEF C!Body
<1>5. PICK a, b : a = C!Groups(r, q, in) /\ b = C!Groups(r, q, in2)
  OBVIOUS
<1> HIDE DEF body, gone
<1>6. Same(body(a), body(b), gone)
  BY <1>1, <1>3, <1>5 DEF Same, SameGroups
<1>7. CASE C!ShowsTWSE(r)
  BY <1>4, <1>5, <1>6, <1>7 DEF gone
<1>8. CASE ~C!ShowsTWSE(r)
  BY <1>2, <1>4, <1>8 DEF Same, gone
<1> QED BY <1>7, <1>8

\* The bars rest on no feed.
LEMMA BoxSame ==
  ASSUME NEW r, NEW q, NEW in, NEW in2, NEW f, After(in, in2, f), ~q.closed => "breadth" \notin in
  PROVE  Same(C!Box(r, q, in), C!Box(r, q, in2), C!RestsOn(f))
<1>1. C!Bars(q) \in Rows
  <2>1. {"ohlc", "ohlc figures", "ma", "ma figures"} \subseteq Said
    BY DEF Said
  <2> QED BY <2>1, BarsFit DEF Rows
<1>2. Same(C!Bars(q), C!Bars(q), C!RestsOn(f))
  BY <1>1, SameItself
<1> QED BY <1>2, BodySame, SameJoined DEF C!Box

\* titleFor: a local name that no feed gives is missing from the title only.
LEMMA CaptionsSame ==
  ASSUME NEW q, NEW in, NEW in2, NEW f, After(in, in2, f)
  PROVE  Same(C!Captions(q, in), C!Captions(q, in2), C!RestsOn(f))
<1> DEFINE gone == C!RestsOn(f)
           price == {"price"} \cup C!Tag(q)
<1>1. f \in Facts
  BY DEF After
<1>2. ASSUME NEW s PROVE C!Title(s) \in SUBSET Said
  BY DEF C!Title, Said
<1>3. price \in SUBSET Said /\ {"volume"} \in SUBSET Said
  BY DEF C!Tag, Said
<1>4. C!Title(in) \ gone = C!Title(in2) \ gone
  <2>1. CASE f \in {"short name", "listed name"}
    <3>1. gone = {"local name"}
      BY <1>1, <2>1, Rests
    <3> QED BY <3>1 DEF C!Title
  <2>2. CASE f \notin {"short name", "listed name"}
    <3>1. \A x \in {"short name", "listed name"} : x \in in <=> x \in in2
      BY <2>2 DEF After
    <3> QED BY <3>1 DEF C!Title
  <2> QED BY <2>1, <2>2
<1> HIDE DEF gone, price
<1>5. PICK t \in SUBSET Said : t = C!Title(in)
  BY <1>2
<1>6. PICK t2 \in SUBSET Said : t2 = C!Title(in2)
  BY <1>2
<1>7. Same(<<t, price>>, <<t2, price>>, gone)
  BY <1>3, <1>4, <1>5, <1>6, SameTwo
<1>8. C!When(q.volume, {"volume"}) \in Rows
  <2>1. PICK b : b = q.volume
    OBVIOUS
  <2> QED BY <1>3, <2>1, WhenRows
<1>9. Same(C!When(q.volume, {"volume"}), C!When(q.volume, {"volume"}), gone)
  BY <1>8, SameItself
<1>10. Same(<<t, price>> \o C!When(q.volume, {"volume"}), <<t2, price>> \o C!When(q.volume, {"volume"}), gone)
  BY <1>7, <1>9, SameJoined
<1> QED BY <1>5, <1>6, <1>10 DEF C!Captions, gone, price

\* Which feeds know what.
FeedNames ==
  {"day", "dayAt", "live", "t86", "name", "holders", "blocktrades", "fundamentals", "listing",
   "otcListing", "foreign", "industry", "revenue", "otcRevenue", "lending", "margin", "futures",
   "pcr", "vix"}

OfFeed(g, facts) ==
  /\ facts \subseteq Facts
  /\ g # "industry" => "mean" \notin facts
  /\ g # "name" => "listed name" \notin facts
  /\ g = "industry" => facts = {"mean"}
  /\ g = "name" => facts = {"listed name"}
  /\ g \notin {"day", "dayAt"} => "breadth" \notin facts

LEMMA WhoKnows ==
  ASSUME NEW g \in FeedNames
  PROVE  OfFeed(g, C!FactsOf[g])
<1>1. /\ C!FactsOf["day"] = {"institutional", "credit", "breadth"}
      /\ C!FactsOf["dayAt"] = {"institutional", "credit", "breadth"}
      /\ C!FactsOf["live"] = {"tse", "tpex"} /\ C!FactsOf["t86"] = {"short name", "flow"}
      /\ C!FactsOf["name"] = {"listed name"} /\ C!FactsOf["industry"] = {"mean"}
  BY DEF C!FactsOf
<1>2. /\ C!FactsOf["holders"] = {"holders", "previous"} /\ C!FactsOf["blocktrades"] = {"trades"}
      /\ C!FactsOf["fundamentals"] = {"yield", "per", "pbr"}
      /\ C!FactsOf["listing"] = {"sector", "listed since"}
      /\ C!FactsOf["otcListing"] = {"sector", "listed since"}
      /\ C!FactsOf["foreign"] = {"holding"}
  BY DEF C!FactsOf
<1>3. /\ C!FactsOf["revenue"] = {"revenue"} /\ C!FactsOf["otcRevenue"] = {"revenue"}
      /\ C!FactsOf["lending"] = {"lending"} /\ C!FactsOf["margin"] = {"margin"}
      /\ C!FactsOf["futures"] = {"mxf", "tmf", "txf"} /\ C!FactsOf["pcr"] = {"pcr"}
      /\ C!FactsOf["vix"] = {"vix"}
  BY DEF C!FactsOf
<1>4. /\ OfFeed("day", {"institutional", "credit", "breadth"})
      /\ OfFeed("dayAt", {"institutional", "credit", "breadth"})
      /\ OfFeed("live", {"tse", "tpex"}) /\ OfFeed("t86", {"short name", "flow"})
      /\ OfFeed("name", {"listed name"}) /\ OfFeed("industry", {"mean"})
  BY DEF OfFeed, Facts
<1>5. /\ OfFeed("holders", {"holders", "previous"}) /\ OfFeed("blocktrades", {"trades"})
      /\ OfFeed("fundamentals", {"yield", "per", "pbr"})
      /\ OfFeed("listing", {"sector", "listed since"})
      /\ OfFeed("otcListing", {"sector", "listed since"})
      /\ OfFeed("foreign", {"holding"})
  BY DEF OfFeed, Facts
<1>6. /\ OfFeed("revenue", {"revenue"}) /\ OfFeed("otcRevenue", {"revenue"})
      /\ OfFeed("lending", {"lending"}) /\ OfFeed("margin", {"margin"})
      /\ OfFeed("futures", {"mxf", "tmf", "txf"}) /\ OfFeed("pcr", {"pcr"})
      /\ OfFeed("vix", {"vix"})
  BY DEF OfFeed, Facts
<1>7. CASE g \in {"day", "dayAt", "live", "t86", "name", "industry"}
  BY <1>1, <1>4, <1>7
<1>8. CASE g \in {"holders", "blocktrades", "foreign", "fundamentals", "listing", "otcListing"}
  BY <1>2, <1>5, <1>8
<1>9. CASE g \in {"revenue", "otcRevenue", "lending", "margin", "futures", "pcr", "vix"}
  BY <1>3, <1>6, <1>9
<1> QED BY <1>7, <1>8, <1>9 DEF FeedNames

\* What is asked for hangs on two facts: the name of T86, and the sector.
LEMMA AskedAfter ==
  ASSUME NEW r, NEW q, NEW facts, NEW f, NEW g, g # "name" \/ f # "short name",
         g # "industry" \/ f # "sector"
  PROVE  g \in C!Asked(r, q, facts) <=> g \in C!Asked(r, q, facts \ {f})
<1>1. ("short name" \in facts <=> "short name" \in facts \ {f}) \/ g # "name"
  OBVIOUS
<1>2. ("sector" \in facts <=> "sector" \in facts \ {f}) \/ g # "industry"
  OBVIOUS
<1>3. g \in C!StockFeeds(r, q, facts) <=> g \in C!StockFeeds(r, q, facts \ {f})
  BY <1>1, <1>2 DEF C!StockFeeds
<1> QED BY <1>3 DEF C!Asked

LEMMA AskedFeeds ==
  ASSUME NEW r, NEW q, NEW facts
  PROVE  /\ C!Asked(r, q, facts) \subseteq FeedNames
         /\ "industry" \in C!Asked(r, q, facts) => "sector" \in facts
         /\ "day" \in C!Asked(r, q, facts) => q.closed
         /\ "dayAt" \in C!Asked(r, q, facts) => r.dated
<1>1. /\ C!MarketFeed(r, q) \in {"day", "dayAt", "live"}
      /\ C!MarketFeed(r, q) = "day" => q.closed
      /\ C!MarketFeed(r, q) = "dayAt" => r.dated
  BY DEF C!MarketFeed
<1>2. C!IndexFeeds(r, q) \subseteq {"futures", "pcr", "vix"}
  BY DEF C!IndexFeeds, C!AfterClose
<1>3. /\ C!StockFeeds(r, q, facts) \subseteq
           {"t86", "name", "holders", "blocktrades", "fundamentals", "listing", "otcListing",
            "foreign", "industry", "revenue", "otcRevenue", "lending", "margin"}
      /\ "industry" \in C!StockFeeds(r, q, facts) => "sector" \in facts
  BY DEF C!StockFeeds, C!AfterClose
<1>4. C!Asked(r, q, facts) \subseteq
        {C!MarketFeed(r, q)} \cup C!IndexFeeds(r, q) \cup C!StockFeeds(r, q, facts)
  BY DEF C!Asked
<1>5. C!Asked(r, q, facts) \subseteq FeedNames
  BY <1>1, <1>2, <1>3, <1>4 DEF FeedNames
<1>6. "industry" \in C!Asked(r, q, facts) => "sector" \in facts
  BY <1>1, <1>2, <1>3, <1>4
<1>7. "day" \in C!Asked(r, q, facts) => q.closed
  BY <1>1, <1>2, <1>3, <1>4
<1>8. "dayAt" \in C!Asked(r, q, facts) => r.dated
  BY <1>1, <1>2, <1>3, <1>4
<1> QED BY <1>5, <1>6, <1>7, <1>8

\* A feed that has nothing to say leaves what the others know, in what the page is
\* made of; only the mean goes with the sector, and the listed name may come.
LEMMA InputAfter ==
  ASSUME NEW r, NEW q, NEW facts, NEW f \in C!Input(r, q, facts)
  PROVE  After(C!Input(r, q, facts), C!Input(r, q, facts \ {f}), f)
<1> DEFINE in == C!Input(r, q, facts)
           in2 == C!Input(r, q, facts \ {f})
<1>1. /\ \A x : x \in in <=> x \in facts /\ \E g \in C!Asked(r, q, facts) : x \in C!FactsOf[g]
      /\ \A x : x \in in2 <=> x \in facts \ {f}
                              /\ \E g \in C!Asked(r, q, facts \ {f}) : x \in C!FactsOf[g]
  BY DEF C!Input
<1>2. C!Asked(r, q, facts) \subseteq FeedNames /\ C!Asked(r, q, facts \ {f}) \subseteq FeedNames
  BY AskedFeeds
<1>3. f \in in /\ f \notin in2
  BY <1>1
<1>4. f \in Facts
  BY <1>1, <1>2, WhoKnows DEF OfFeed
<1>5. f = "sector" => "mean" \notin in2
  <2>1. f = "sector" => "industry" \notin C!Asked(r, q, facts \ {f})
    BY AskedFeeds
  <2> QED BY <1>1, <1>2, <2>1, WhoKnows DEF OfFeed
<1>6. ASSUME NEW x, x # f, f = "sector" => x # "mean", f = "short name" => x # "listed name"
      PROVE  x \in in <=> x \in in2
  <2>1. ASSUME NEW g \in FeedNames, x \in C!FactsOf[g]
        PROVE  g \in C!Asked(r, q, facts) <=> g \in C!Asked(r, q, facts \ {f})
    <3>1. g = "industry" => x = "mean"
      BY <2>1, WhoKnows DEF OfFeed
    <3>2. g = "name" => x = "listed name"
      BY <2>1, WhoKnows DEF OfFeed
    <3>3. (g # "name" \/ f # "short name") /\ (g # "industry" \/ f # "sector")
      BY <1>6, <3>1, <3>2
    <3> QED BY <3>3, AskedAfter
  <2>2. x \in facts <=> x \in facts \ {f}
    BY <1>6
  <2> HIDE DEF in, in2
  <2> QED BY <1>1, <1>2, <2>1, <2>2
<1> HIDE DEF in, in2
<1>7. After(in, in2, f)
  BY <1>3, <1>4, <1>5, <1>6 DEF After
<1> QED BY <1>7 DEF in, in2

\* Of an open market there is no breadth of the day.
LEMMA OpenBreadth ==
  ASSUME NEW r, NEW q, NEW facts, r.dated => q.closed, ~q.closed
  PROVE  "breadth" \notin C!Input(r, q, facts)
<1>1. /\ C!Asked(r, q, facts) \subseteq FeedNames
      /\ "day" \notin C!Asked(r, q, facts) /\ "dayAt" \notin C!Asked(r, q, facts)
  BY AskedFeeds
<1>2. \A g \in C!Asked(r, q, facts) : "breadth" \notin C!FactsOf[g]
  BY <1>1, WhoKnows DEF OfFeed
<1> QED BY <1>2 DEF C!Input

\* A step of a page loses one fact and what rests on it.
LEMMA LosesAlone ==
  ASSUME CardInv, C!Next
  PROVE  C!KeepsTheRest
<1>1. PICK f \in C!Input(request, quote, known) :
        known' = known \ {f} /\ page' = C!Page(request, quote, known \ {f})
  BY DEF C!Next, C!Lose
<1>2. PICK in, in2 : in = C!Input(request, quote, known) /\ in2 = C!Input(request, quote, known \ {f})
  OBVIOUS
<1>3. After(in, in2, f)
  BY <1>2, InputAfter
<1>4. ~quote.closed => "breadth" \notin in
  BY <1>2, OpenBreadth DEF CardInv
<1>5. Same(C!Captions(quote, in), C!Captions(quote, in2), C!RestsOn(f))
  BY <1>3, CaptionsSame
<1>6. Same(C!Box(request, quote, in), C!Box(request, quote, in2), C!RestsOn(f))
  BY <1>3, <1>4, BoxSame
<1>7. /\ page["captions"] = C!Captions(quote, in) /\ page["box"] = C!Box(request, quote, in)
      /\ page'["captions"] = C!Captions(quote, in2) /\ page'["box"] = C!Box(request, quote, in2)
  BY <1>1, <1>2 DEF CardInv, C!Page
<1>8. \A fact \in known \ known' : fact = f
  BY <1>1
<1> QED BY <1>5, <1>6, <1>7, <1>8 DEF Same, C!KeepsTheRest
-----------------------------------------------------------------------------
(* Fetchers.  A fetch keeps nothing for the next one: an answer is what is *)
(* made of its reply, form by form.                                        *)

\* The reply is one of the feed's, and the answer is what it says.
FetchInv ==
  /\ feed \in F!Feeds
  /\ \/ reply = F!NoReply
     \/ reply \in Replies[feed] /\ answer = F!Answer(feed, reply)

\* The forms of reply that say nothing.
LEMMA Unsaid ==
  ASSUME NEW r, NEW x, r.outcome \in {"refused", "status", "garbled", "missing"}
  PROVE  /\ F!Fetched(r, x) = F!Error
         /\ F!Downloaded(r, x) = F!Error
         /\ F!OnlyRows(r, x) = F!Error
         /\ r.outcome # "missing" => F!do(r, x) = F!Error
BY DEF F!Fetched, F!Downloaded, F!OnlyRows, F!do

LEMMA OutageAnswer ==
  ASSUME NEW f \in F!Feeds, NEW r,
         \/ r.outcome \in {"refused", "status"}
         \/ r.outcome = "garbled" /\ f # "vix"
         \/ r.outcome = "missing" /\ f \notin {"vix", "user", "repo"}
  PROVE  F!Answer(f, r) = F!Error
<1>1. r.outcome \in {"refused", "status", "garbled", "missing"}
  OBVIOUS
<1>2. CASE f \in {"t86", "lending", "margin", "foreign"}
  BY <1>1, <1>2, Unsaid DEF F!Answer, F!FetchT86Exact, F!FetchTWT93UExact,
     F!FetchMIMARGNStockExact, F!FetchForeignExact
<1>3. CASE f \in {"fundamentals", "listing", "otcListing", "revenue", "industry", "blocktrades"}
  BY <1>1, <1>3, Unsaid DEF F!Answer, F!FetchFundamentalsExact, F!FetchListingInfoExact,
     F!FetchOTCListingInfoExact, F!parseRevenue, F!FetchIndustryForeignExact,
     F!FetchBlockTradesExact
<1>4. CASE f \in {"pcr", "futures"}
  BY <1>1, <1>4, Unsaid DEF F!Answer, F!fetchPCROnce, F!fetchTAIFEXOnce
<1>5. CASE f = "vix"
  BY <1>5 DEF F!Answer, F!fetchVIXMonth
<1>6. CASE f \in {"mis", "name", "quote", "quoteAt"}
  BY <1>1, <1>6, Unsaid DEF F!Answer, F!fetchMISBatch, F!LookupName, F!Get, F!GetAt
<1>7. CASE f \in {"user", "repo"}
  BY <1>1, <1>7, Unsaid DEF F!Answer, F!User, F!Repo
<1> QED BY <1>2, <1>3, <1>4, <1>5, <1>6, <1>7 DEF F!Feeds

LEMMA FetchNext ==
  ASSUME FetchInv, F!Next \/ UNCHANGED fetchVars
  PROVE  FetchInv'
<1>1. CASE F!Next
  <2>1. PICK r \in Replies[feed] :
          feed' = feed /\ reply' = r /\ answer' = F!Answer(feed, r)
    BY <1>1 DEF F!Next, F!Fetch
  <2> QED BY <2>1 DEF FetchInv
<1>2. CASE UNCHANGED fetchVars
  BY <1>2 DEF FetchInv, fetchVars
<1> QED BY <1>1, <1>2

LEMMA FetchSays == FetchInv => OutageIsNotHoliday
<1> SUFFICES ASSUME FetchInv,
                    \/ reply.outcome \in {"refused", "status"}
                    \/ reply.outcome = "garbled" /\ feed # "vix"
                    \/ reply.outcome = "missing" /\ feed \notin {"vix", "user", "repo"}
             PROVE  answer = F!Error
  BY DEF OutageIsNotHoliday, F!OutageIsNotHoliday
<1>1. reply # F!NoReply
  BY DEF F!NoReply
<1> QED BY <1>1, OutageAnswer DEF FetchInv

\* A futures file, row by row.
FuturesRow == [form : STRING, party : STRING, net : Int]
Accounts == [ok : BOOLEAN, seen : SUBSET F!Parties, net : [F!Parties -> Int]]

\* One row leaves an account an account.
LEMMA TakeType ==
  ASSUME NEW acc \in Accounts, NEW row \in FuturesRow
  PROVE  F!Take(acc, row) \in Accounts
<1>1. CASE row.form = "blank" \/ ~acc.ok
  BY <1>1 DEF F!Take
<1>2. CASE ~(row.form = "blank" \/ ~acc.ok) /\ ~F!Attributable(acc.seen, row)
  BY <1>2 DEF F!Take, Accounts
<1>3. CASE ~(row.form = "blank" \/ ~acc.ok) /\ F!Attributable(acc.seen, row)
  <2>1. F!Canonical(row.party) \in F!Parties
    BY <1>3 DEF F!Attributable
  <2>2. PICK c \in F!Parties : c = F!Canonical(row.party)
    BY <2>1
  <2>3. F!Take(acc, row) = [acc EXCEPT !.seen = @ \cup {c}, !.net[c] = row.net]
    BY <1>3, <2>2 DEF F!Take
  <2>4. row.net \in Int
    BY DEF FuturesRow
  <2>5. acc.net \in [F!Parties -> Int] /\ acc.seen \in SUBSET F!Parties /\ acc.ok \in BOOLEAN
    BY DEF Accounts
  <2>6. [acc.net EXCEPT ![c] = row.net] \in [F!Parties -> Int]
    BY <2>4, <2>5
  <2>7. F!Take(acc, row) = [ok |-> acc.ok, seen |-> acc.seen \cup {c},
                           net |-> [acc.net EXCEPT ![c] = row.net]]
    BY <2>3 DEF Accounts
  <2> QED BY <2>2, <2>5, <2>6, <2>7 DEF Accounts
<1> QED BY <1>1, <1>2, <1>3

\* The accounts after each row.
LEMMA TakenStep ==
  ASSUME NEW rows \in Seq(FuturesRow)
  PROVE  /\ F!Taken(rows) \in [0..Len(rows) -> Accounts]
         /\ F!Taken(rows)[0] = [ok |-> TRUE, seen |-> {}, net |-> F!Nobody]
         /\ \A n \in 1..Len(rows) : F!Taken(rows)[n] = F!Take(F!Taken(rows)[n - 1], rows[n])
<1> DEFINE N == Len(rows)
           base == [ok |-> TRUE, seen |-> {}, net |-> F!Nobody]
           step == [n \in 1..N |-> [acc \in Accounts |-> F!Take(acc, rows[n])]]
           IsIt(f) == f = [n \in 0..N |-> IF n = 0 THEN base ELSE F!Take(f[n - 1], rows[n])]
<1>1. N \in Nat /\ \A n \in 1..N : rows[n] \in FuturesRow
  OBVIOUS
<1>2. base \in Accounts
  BY DEF F!Nobody, Accounts
<1>3. step \in [1..N -> [Accounts -> Accounts]]
  BY <1>1, TakeType
<1>4. PICK f \in [0..N -> Accounts] : Steps(f, base, step, N)
  <2>1. N \in Nat
    OBVIOUS
  <2> HIDE DEF N, base, step
  <2> QED BY <1>2, <1>3, <2>1, StepByStep
<1>5. IsIt(f)
  <2>1. ASSUME NEW n \in 1..N PROVE step[n][f[n - 1]] = F!Take(f[n - 1], rows[n])
    <3>1. f[n - 1] \in Accounts
      BY <1>1
    <3> QED BY <3>1
  <2>2. \A n \in 0..N : n = 0 \/ n \in 1..N
    BY <1>1
  <2> HIDE DEF step
  <2> QED BY <1>4, <2>1, <2>2 DEF Steps
<1>6. F!Taken(rows) = CHOOSE g : IsIt(g)
  BY DEF F!Taken
<1>7. IsIt(F!Taken(rows))
  <2> HIDE DEF IsIt
  <2> QED BY <1>5, <1>6
<1>8. PICK g : g = F!Taken(rows) /\ IsIt(g)
  BY <1>7
<1>11. g[0] = base /\ \A n \in 1..N : g[n] = F!Take(g[n - 1], rows[n])
  <2>1. PICK M \in Nat : M = N
    BY <1>1
  <2>2. g = [n \in 0..M |-> IF n = 0 THEN base ELSE F!Take(g[n - 1], rows[n])]
    BY <1>8, <2>1
  <2> HIDE DEF base, N
  <2>3. g[0] = base
    BY <2>2
  <2>4. ASSUME NEW n \in 1..M PROVE g[n] = F!Take(g[n - 1], rows[n])
    <3>1. n \in 0..M /\ n # 0
      OBVIOUS
    <3> QED BY <2>2, <3>1
  <2> QED BY <2>1, <2>3, <2>4
<1>9. \A n \in 0..N : g[n] \in Accounts
  <2> DEFINE T == {n \in 0..N : g[n] \in Accounts}
  <2>2. 0 \in T
    BY <1>1, <1>2, <1>11
  <2>3. ASSUME NEW n \in 0..(N - 1), n \in T PROVE n + 1 \in T
    <3>1. n + 1 \in 1..N /\ n + 1 \in 0..N /\ (n + 1) - 1 = n
      BY <1>1
    <3>2. PICK acc \in Accounts : acc = g[n]
      BY <2>3
    <3>3. rows[n + 1] \in FuturesRow
      BY <1>1, <3>1
    <3>4. F!Take(acc, rows[n + 1]) \in Accounts
      BY <3>3, TakeType
    <3> QED BY <1>11, <3>1, <3>2, <3>4
  <2>4. \A n \in 0..N : n \in T
    <3> HIDE DEF T
    <3> QED BY <1>1, <2>2, <2>3, UpTo
  <2> QED BY <2>4
<1>10. g \in [0..N -> Accounts]
  <2>1. g = [n \in 0..N |-> g[n]]
    BY <1>8
  <2> HIDE DEF N
  <2> QED BY <1>9, <2>1
<1> QED BY <1>8, <1>10, <1>11

\* The sums after each row.
Figure(row) == IF row.form = "blank" THEN 0 ELSE row.net

LEMMA SumsStep ==
  ASSUME NEW rows \in Seq(FuturesRow)
  PROVE  /\ F!Sums(rows) \in [0..Len(rows) -> Int]
         /\ F!Sums(rows)[0] = 0
         /\ \A n \in 1..Len(rows) : F!Sums(rows)[n] = F!Sums(rows)[n - 1] + Figure(rows[n])
<1> DEFINE N == Len(rows)
           step == [n \in 1..N |-> [sum \in Int |-> sum + Figure(rows[n])]]
           IsIt(f) == f = [n \in 0..N |-> IF n = 0 THEN 0 ELSE f[n - 1] + Figure(rows[n])]
<1>1. N \in Nat /\ \A n \in 1..N : Figure(rows[n]) \in Int
  <2>1. ASSUME NEW n \in 1..N PROVE Figure(rows[n]) \in Int
    <3>1. rows[n] \in FuturesRow
      OBVIOUS
    <3> QED BY <3>1 DEF FuturesRow, Figure
  <2> QED BY <2>1
<1>2. step \in [1..N -> [Int -> Int]]
  BY <1>1
<1>3. PICK f \in [0..N -> Int] : Steps(f, 0, step, N)
  <2>1. N \in Nat /\ 0 \in Int
    BY <1>1
  <2> HIDE DEF N, step
  <2> QED BY <1>2, <2>1, StepByStep
<1>4. IsIt(f)
  <2>1. ASSUME NEW n \in 1..N PROVE step[n][f[n - 1]] = f[n - 1] + Figure(rows[n])
    <3>1. f[n - 1] \in Int
      BY <1>1
    <3> QED BY <3>1
  <2>2. \A n \in 0..N : n = 0 \/ n \in 1..N
    BY <1>1
  <2> HIDE DEF step
  <2> QED BY <1>3, <2>1, <2>2 DEF Steps
<1>5. F!Sums(rows) = CHOOSE g : IsIt(g)
  BY DEF F!Sums, Figure
<1>6. IsIt(F!Sums(rows))
  <2> HIDE DEF IsIt
  <2> QED BY <1>4, <1>5
<1>7. PICK g : g = F!Sums(rows) /\ IsIt(g)
  BY <1>6
<1>8. g[0] = 0 /\ \A n \in 1..N : g[n] = g[n - 1] + Figure(rows[n])
  <2>1. PICK M \in Nat : M = N
    BY <1>1
  <2>2. g = [n \in 0..M |-> IF n = 0 THEN 0 ELSE g[n - 1] + Figure(rows[n])]
    BY <1>7, <2>1
  <2> HIDE DEF N
  <2>3. g[0] = 0
    BY <2>2
  <2>4. ASSUME NEW n \in 1..M PROVE g[n] = g[n - 1] + Figure(rows[n])
    <3>1. n \in 0..M /\ n # 0
      OBVIOUS
    <3> QED BY <2>2, <3>1
  <2> QED BY <2>1, <2>3, <2>4
<1>9. \A n \in 0..N : g[n] \in Int
  <2> DEFINE T == {n \in 0..N : g[n] \in Int}
  <2>1. 0 \in T
    BY <1>1, <1>8
  <2>2. ASSUME NEW n \in 0..(N - 1), n \in T PROVE n + 1 \in T
    <3>1. n + 1 \in 1..N /\ n + 1 \in 0..N /\ (n + 1) - 1 = n
      BY <1>1
    <3> QED BY <1>1, <1>8, <2>2, <3>1
  <2>3. \A n \in 0..N : n \in T
    <3> HIDE DEF T
    <3> QED BY <1>1, <2>1, <2>2, UpTo
  <2> QED BY <2>3
<1>10. g \in [0..N -> Int]
  <2>1. g = [n \in 0..N |-> g[n]]
    BY <1>7
  <2> HIDE DEF N
  <2> QED BY <1>9, <2>1
<1> QED BY <1>7, <1>8, <1>10

\* An account's net is the sum of what was read, and who was not seen has none.
Balanced(acc, sum) ==
  /\ acc.ok => F!instNet(acc.net) = sum
  /\ \A p \in F!Parties \ acc.seen : acc.net[p] = 0

LEMMA TakeBalanced ==
  ASSUME NEW acc \in Accounts, NEW row \in FuturesRow, NEW sum \in Int, Balanced(acc, sum)
  PROVE  Balanced(F!Take(acc, row), sum + Figure(row))
<1>1. CASE ~acc.ok
  <2>1. F!Take(acc, row) = acc
    BY <1>1 DEF F!Take
  <2> QED BY <1>1, <2>1 DEF Balanced
<1>2. CASE acc.ok /\ row.form = "blank"
  <2>1. F!Take(acc, row) = acc /\ sum + Figure(row) = sum
    BY <1>2 DEF F!Take, Figure
  <2> QED BY <2>1
<1>3. CASE acc.ok /\ row.form # "blank" /\ ~F!Attributable(acc.seen, row)
  <2>1. F!Take(acc, row) = [acc EXCEPT !.ok = FALSE]
    BY <1>3 DEF F!Take
  <2> QED BY <2>1 DEF Balanced, Accounts
<1>4. CASE acc.ok /\ row.form # "blank" /\ F!Attributable(acc.seen, row)
  <2>1. PICK c \in F!Parties \ acc.seen : c = F!Canonical(row.party)
    BY <1>4 DEF F!Attributable
  <2>2. /\ acc.net \in [F!Parties -> Int] /\ acc.seen \in SUBSET F!Parties
        /\ row.net \in Int
    BY DEF Accounts, FuturesRow
  <2>3. F!Take(acc, row) = [acc EXCEPT !.seen = @ \cup {c}, !.net[c] = row.net]
    BY <1>4, <2>1 DEF F!Take
  <2>4. PICK net : net = [acc.net EXCEPT ![c] = row.net]
    OBVIOUS
  <2>5. F!Take(acc, row) = [ok |-> acc.ok, seen |-> acc.seen \cup {c}, net |-> net]
    BY <2>3, <2>4 DEF Accounts
  <2>6. acc.net[c] = 0 /\ net[c] = row.net /\ \A p \in F!Parties \ {c} : net[p] = acc.net[p]
    BY <2>1, <2>2, <2>4 DEF Balanced
  <2>7. F!instNet(net) = F!instNet(acc.net) + row.net
    <3>1. \A p \in F!Parties : acc.net[p] \in Int
      BY <2>2
    <3>2. F!Parties = {"dealer", "trust", "foreign"}
      BY DEF F!Parties
    <3> QED BY <2>1, <2>2, <2>6, <3>1, <3>2 DEF F!instNet
  <2>8. \A p \in F!Parties \ (acc.seen \cup {c}) : net[p] = 0
    BY <2>6 DEF Balanced
  <2>9. Figure(row) = row.net /\ F!instNet(acc.net) = sum
    BY <1>4 DEF Figure, Balanced
  <2> QED BY <2>5, <2>7, <2>8, <2>9 DEF Balanced
<1> QED BY <1>1, <1>2, <1>3, <1>4

\* A file that is accepted is summed up to the last of its rows.
LEMMA FileBalanced ==
  ASSUME NEW rows \in Seq(FuturesRow), F!parseTAIFEXFuturesCSV(rows).is = "found"
  PROVE  F!instNet(F!parseTAIFEXFuturesCSV(rows).what) = F!Sums(rows)[Len(rows)]
<1> DEFINE T == {n \in 0..Len(rows) : Balanced(F!Taken(rows)[n], F!Sums(rows)[n])}
<1>1. Len(rows) \in Nat /\ \A n \in 1..Len(rows) : rows[n] \in FuturesRow
  OBVIOUS
<1>2. 0 \in T
  <2>1. F!Taken(rows)[0] = [ok |-> TRUE, seen |-> {}, net |-> F!Nobody] /\ F!Sums(rows)[0] = 0
    BY TakenStep, SumsStep
  <2> QED BY <1>1, <2>1 DEF Balanced, F!Nobody, F!instNet, F!Parties
<1>3. ASSUME NEW n \in 0..(Len(rows) - 1), n \in T PROVE n + 1 \in T
  <2>1. n + 1 \in 1..Len(rows) /\ n + 1 \in 0..Len(rows) /\ (n + 1) - 1 = n /\ n \in 0..Len(rows)
    BY <1>1
  <2>2. PICK acc \in Accounts : acc = F!Taken(rows)[n]
    BY <2>1, TakenStep
  <2>3. PICK sum \in Int : sum = F!Sums(rows)[n]
    BY <2>1, SumsStep
  <2>4. /\ F!Taken(rows)[n + 1] = F!Take(acc, rows[n + 1])
        /\ F!Sums(rows)[n + 1] = sum + Figure(rows[n + 1])
    BY <2>1, <2>2, <2>3, TakenStep, SumsStep
  <2>5. Balanced(F!Take(acc, rows[n + 1]), sum + Figure(rows[n + 1]))
    BY <1>1, <1>3, <2>1, <2>2, <2>3, TakeBalanced
  <2> QED BY <2>1, <2>4, <2>5
<1>4. \A n \in 0..Len(rows) : n \in T
  <2> HIDE DEF T
  <2> QED BY <1>1, <1>2, <1>3, UpTo
<1>5. Balanced(F!Taken(rows)[Len(rows)], F!Sums(rows)[Len(rows)])
  BY <1>1, <1>4
<1>6. PICK end : end = F!Taken(rows)[Len(rows)]
  OBVIOUS
<1>7. F!parseTAIFEXFuturesCSV(rows) = IF end.ok THEN F!Found(end.net) ELSE F!Error
  BY <1>6 DEF F!parseTAIFEXFuturesCSV
<1>8. end.ok /\ F!parseTAIFEXFuturesCSV(rows).what = end.net
  BY <1>7 DEF F!Found, F!Error
<1> QED BY <1>5, <1>6, <1>8 DEF Balanced

LEMMA RowsCounted == FetchInv => EveryRowCounts
<1> SUFFICES ASSUME FetchInv, feed = "futures", reply.outcome = "rows", answer.is = "found"
             PROVE  F!instNet(answer.what) = F!Sums(reply.rows)[Len(reply.rows)]
  BY DEF EveryRowCounts, F!EveryRowCounts
<1>1. reply # F!NoReply
  BY DEF F!NoReply
<1>2. reply \in Replies["futures"] /\ answer = F!Answer("futures", reply)
  BY <1>1 DEF FetchInv
<1>3. PICK rows \in Seq(FuturesRow) : rows = reply.rows
  BY <1>2, StockAssumption DEF StockAssumption, FuturesRow
<1>4. answer = F!parseTAIFEXFuturesCSV(rows)
  BY <1>2, <1>3 DEF F!Answer, F!fetchTAIFEXOnce, F!Downloaded
<1> QED BY <1>3, <1>4, FileBalanced
-----------------------------------------------------------------------------
(* The weekly dump.  ComparesBackwards relates what a page holds to what   *)
(* it compares it with.  Between the two lie both locks: whoever leads the *)
(* flight finds a dead entry and may alone rotate, the weeks it carries    *)
(* only move forward, and a dump which is held without a rotation since is *)
(* the last one, whose predecessor is earlier.                             *)

USE HoldersAssumption

\* What a goroutine of CachedHolders carries.
Calls == [pc : PCs, found : BOOLEAN, week : Weeks \cup {None}, prev : Weeks \cup {None},
          err : BOOLEAN, rotated : BOOLEAN]

\* A stored dump is of a week that has been published.
Real(e) == e # Nothing /\ e.found => e.week # None /\ e.week <= published

\* Who fetches has the flight to himself and no live entry to contradict him.
Leads ==
  \A p \in Procs : call[p].pc \in {"fetch", "rotate", "store"} => flight = p /\ ~Live(entry)

\* The dumps move forward with the upstream.
Forward == /\ lastDump <= published /\ PreviousIsEarlier
           /\ Real(entry) /\ Real(file)

\* What a leader carries to the second lock is not older than the last dump, and
\* what it carries on to the first one is the last dump.
Carries ==
  \A p \in Procs :
    /\ At(p, "rotate") => /\ call[p].found /\ call[p].week # None
                          /\ lastDump <= call[p].week /\ call[p].week <= published
    /\ At(p, "store") /\ call[p].found =>
         call[p].week # None /\ call[p].week = lastDump /\ call[p].week <= published

\* What a page holds is the last dump, if none has come in since.
HoldsLast ==
  \A p \in Procs :
    /\ At(p, "compare") => call[p].found
    /\ HoldsDump(p) /\ call[p].found /\ ~call[p].rotated => call[p].week = lastDump

\* The inductive invariant.
HoldersInv ==
  TypeOK /\ Leads /\ Forward /\ MirrorsEntry /\ Carries /\ HoldsLast /\ ComparesBackwards

\* All of it holds at the start: nothing is cached and nobody calls.
LEMMA HoldersInit == Init => HoldersInv
<1> SUFFICES ASSUME Init PROVE HoldersInv
  OBVIOUS
<1> USE DEF Init, Idle, None, Weeks, At
<1>1. TypeOK
  BY DEF TypeOK, PCs
<1>2. Leads /\ MirrorsEntry /\ Carries /\ HoldsLast /\ ComparesBackwards
  BY DEF Leads, MirrorsEntry, Carries, HoldsLast, ComparesBackwards, HoldsDump, Live
<1>3. Forward
  BY DEF Forward, PreviousIsEarlier, Real
<1> QED BY <1>1, <1>2, <1>3 DEF HoldersInv

\* A call begins.
LEMMA CallKeepsInv ==
  ASSUME HoldersInv, NEW p \in Procs, Call(p)
  PROVE  HoldersInv'
<1> USE DEF At, HoldersInv
<1>1. TypeOK'
  BY DEF Call, Idle, TypeOK, Calls, PCs, Weeks, None
<1>2. Leads'
  BY DEF Call, Idle, Leads, Live, TypeOK
<1>3. Forward'
  BY DEF Call, Idle, Forward, PreviousIsEarlier, Real, TypeOK, Weeks, None
<1>4. MirrorsEntry'
  BY DEF Call, Idle, MirrorsEntry, Live, Leads, TypeOK
<1>5. Carries'
  BY DEF Call, Idle, Carries, Leads, Forward, TypeOK, Weeks, None
<1>6. HoldsLast'
  BY DEF Call, Idle, HoldsLast, HoldsDump, MirrorsEntry, Carries, TypeOK
<1>7. ComparesBackwards'
  BY DEF Call, Idle, ComparesBackwards, TypeOK, Calls, PCs, Weeks, None
<1> QED BY <1>1, <1>2, <1>3, <1>4, <1>5, <1>6, <1>7

\* GetOrFetch finds the entry, or a flight to lead or to wait for.
LEMMA LookKeepsInv ==
  ASSUME HoldersInv, NEW p \in Procs, Look(p)
  PROVE  HoldersInv'
<1> USE DEF At, HoldersInv
<1>1. /\ UNCHANGED <<now, published, entry, lastDump, previous, file>>
      /\ \A q \in Procs : q # p => call'[q] = call[q]
      /\ DOMAIN call' = Procs /\ call' = [q \in Procs |-> call'[q]]
  BY DEF Look, TypeOK
<1>2. /\ call[p] \in Calls /\ call'[p] \in Calls
      /\ \/ /\ Live(entry) /\ call'[p].pc = "lookup" /\ flight' = flight
            /\ call'[p].found = entry.found /\ call'[p].week = entry.week
         \/ /\ ~Live(entry) /\ flight = NoProc /\ flight' = p
            /\ call'[p].pc = "fetch"
         \/ /\ flight' = flight /\ call'[p].pc = "wait"
  <2>0. call[p] \in Calls
    BY DEF TypeOK, Calls
  <2>1. CASE Live(entry)
    <3>1. entry \in Entries
      BY <2>1 DEF TypeOK, Live
    <3>2. call'[p] = Holding(call[p], entry.found, entry.week) /\ flight' = flight
      BY <2>1 DEF Look, TypeOK
    <3> QED BY <2>0, <2>1, <3>1, <3>2 DEF Holding, Calls, PCs, Entries
  <2>2. CASE ~Live(entry) /\ flight = NoProc
    <3>1. call'[p] = [call[p] EXCEPT !.pc = "fetch"] /\ flight' = p
      BY <2>2 DEF Look, TypeOK
    <3> QED BY <2>0, <2>2, <3>1 DEF Calls, PCs
  <2>3. CASE ~Live(entry) /\ flight # NoProc
    <3>1. call'[p] = [call[p] EXCEPT !.pc = "wait"] /\ flight' = flight
      BY <2>3 DEF Look, TypeOK
    <3> QED BY <2>0, <2>3, <3>1 DEF Calls, PCs
  <2> QED BY <2>1, <2>2, <2>3
<1>3. TypeOK'
  BY <1>1, <1>2 DEF TypeOK, Calls, PCs, Weeks, None
<1>4. Leads'
  BY <1>1, <1>2 DEF Leads, Live, TypeOK
<1>5. Forward'
  BY <1>1, <1>2 DEF Forward, PreviousIsEarlier, Real, TypeOK, Weeks, None
<1>6. MirrorsEntry'
  BY <1>1, <1>2 DEF MirrorsEntry, Live, Leads, TypeOK
<1>7. Carries'
  BY <1>1, <1>2 DEF Carries, Leads, Forward, TypeOK, Weeks, None
<1>8. HoldsLast'
  BY <1>1, <1>2 DEF HoldsLast, HoldsDump, MirrorsEntry, Carries, TypeOK
<1>9. ComparesBackwards'
  BY <1>1, <1>2 DEF ComparesBackwards, TypeOK, Calls, PCs, Weeks, None
<1> QED BY <1>3, <1>4, <1>5, <1>6, <1>7, <1>8, <1>9

\* The upstream answers: an error ends the flight, a gap goes to the store, and a
\* dump to the other lock first.
LEMMA FetchKeepsInv ==
  ASSUME HoldersInv, NEW p \in Procs, NEW resp \in Responses, Fetch(p, resp)
  PROVE  HoldersInv'
<1> USE DEF At, HoldersInv
<1>0. call[p].pc = "fetch" /\ \A q \in Procs : call[q] \in Calls
  BY DEF Fetch, TypeOK, Calls
<1>1. /\ UNCHANGED <<now, published, entry, lastDump, previous, file>>
      /\ call' = [q \in Procs |-> call'[q]]
  BY DEF Fetch, TypeOK
<1>2. /\ \A q \in Procs : call'[q] \in Calls
      /\ \/ /\ flight' = NoProc
            /\ \A q \in Procs : IF q \in Sharers(p) THEN call'[q].pc = "reply" /\ call'[q].err
                                  ELSE call'[q] = call[q]
         \/ /\ flight' = flight /\ \A q \in Procs : q # p => call'[q] = call[q]
            /\ call'[p].pc = "store" /\ ~call'[p].found
         \/ /\ flight' = flight /\ \A q \in Procs : q # p => call'[q] = call[q]
            /\ call'[p].pc = "rotate" /\ call'[p].found /\ call'[p].week = published
  <2>1. CASE resp \in Errors
    <3>1. /\ flight' = NoProc
          /\ \A q \in Procs : call'[q] = IF q \in Sharers(p) THEN Failed(call[q]) ELSE call[q]
      BY <2>1 DEF Fetch, Errors, Gaps
    <3>2. ASSUME NEW q \in Procs
          PROVE  /\ Failed(call[q]) \in Calls
                 /\ Failed(call[q]).pc = "reply" /\ Failed(call[q]).err
      BY <1>0 DEF Failed, Calls, PCs
    <3> QED BY <1>0, <3>1, <3>2
  <2>2. CASE resp \in Gaps
    <3>1. /\ flight' = flight /\ \A q \in Procs : q # p => call'[q] = call[q]
          /\ call'[p] = [call[p] EXCEPT !.pc = "store", !.found = FALSE]
      BY <2>2 DEF Fetch, Errors, Gaps, TypeOK
    <3>2. call'[p] \in Calls /\ call'[p].pc = "store" /\ ~call'[p].found
      BY <1>0, <3>1 DEF Calls, PCs
    <3>3. \A q \in Procs : call'[q] \in Calls
      BY <1>0, <3>1, <3>2
    <3> QED BY <3>1, <3>2, <3>3
  <2>3. CASE resp = "dump"
    <3>1. /\ flight' = flight /\ \A q \in Procs : q # p => call'[q] = call[q]
          /\ call'[p] = [call[p] EXCEPT !.pc = "rotate", !.found = TRUE, !.week = published]
      BY <2>3 DEF Fetch, Errors, Gaps, TypeOK
    <3>2. /\ call'[p] \in Calls /\ call'[p].pc = "rotate" /\ call'[p].found
          /\ call'[p].week = published
      BY <1>0, <3>1 DEF Calls, PCs, TypeOK
    <3>3. \A q \in Procs : call'[q] \in Calls
      BY <1>0, <3>1, <3>2
    <3> QED BY <3>1, <3>2, <3>3
  <2> QED BY <2>1, <2>2, <2>3 DEF Fetch
<1>3. TypeOK'
  BY <1>0, <1>1, <1>2 DEF TypeOK, Calls, PCs, Weeks, None
<1>4. Leads'
  BY <1>0, <1>1, <1>2 DEF Leads, Live, TypeOK, Sharers
<1>5. Forward'
  BY <1>0, <1>1, <1>2 DEF Forward, PreviousIsEarlier, Real, TypeOK, Weeks, None
<1>6. MirrorsEntry'
  BY <1>0, <1>1, <1>2 DEF MirrorsEntry, Live, Leads, TypeOK
<1>7. Carries'
  BY <1>0, <1>1, <1>2 DEF Sharers, Carries, Leads, Forward, TypeOK, Weeks, None
<1>8. HoldsLast'
  BY <1>0, <1>1, <1>2 DEF Sharers, HoldsLast, HoldsDump, MirrorsEntry, Carries, TypeOK
<1>9. ComparesBackwards'
  BY <1>0, <1>1, <1>2 DEF Sharers, ComparesBackwards, TypeOK, Calls, PCs, Weeks, None
<1> QED BY <1>3, <1>4, <1>5, <1>6, <1>7, <1>8, <1>9

\* Under the other lock: no dump that others hold is the last one any more, unless
\* it is the same.
LEMMA RotateKeepsInv ==
  ASSUME HoldersInv, NEW p \in Procs, Rotate(p)
  PROVE  HoldersInv'
<1> USE DEF At, HoldersInv
<1>1. /\ UNCHANGED <<now, published, entry, flight, file>>
      /\ lastDump' = call[p].week
      /\ previous' = IF Supersedes(call[p].week) THEN lastDump ELSE previous
      /\ call[p].pc = "rotate" /\ call[p].found /\ call[p].week \in Weeks
      /\ lastDump <= call[p].week /\ call[p].week <= published
      /\ flight = p /\ ~Live(entry)
      /\ call' = [q \in Procs |-> call'[q]]
  BY DEF Rotate, Carries, Leads, TypeOK
<1>2. \A q \in Procs :
        /\ call'[q] \in Calls
        /\ q = p => call'[q].pc = "store" /\ call'[q].found /\ call'[q].week = call[p].week
        /\ q # p => /\ call'[q].pc = call[q].pc /\ call'[q].found = call[q].found
                    /\ call'[q].week = call[q].week /\ call'[q].prev = call[q].prev
                    /\ call'[q].err = call[q].err
                    /\ call[q].rotated => call'[q].rotated
                    /\ HoldsDump(q) /\ lastDump # call[p].week => call'[q].rotated
  <2>1. \A q \in Procs : call[q] \in Calls
    BY DEF TypeOK, Calls
  <2>2. call'[p] = [call[p] EXCEPT !.pc = "store"]
    BY DEF Rotate
  <2>3. ASSUME NEW q \in Procs, q # p
        PROVE  call'[q] = [call[q] EXCEPT !.rotated =
                             @ \/ (HoldsDump(q) /\ lastDump # call[p].week)]
    BY <2>3 DEF Rotate
  <2>4. ASSUME NEW q \in Procs
        PROVE  (HoldsDump(q) /\ lastDump # call[p].week) \in BOOLEAN
    BY DEF HoldsDump
  <2> QED BY <1>1, <2>1, <2>2, <2>3, <2>4 DEF Calls, PCs
<1>3. TypeOK'
  BY <1>1, <1>2 DEF TypeOK, Calls, PCs, Weeks, None
<1>4. Leads'
  BY <1>1, <1>2 DEF Leads, Live, TypeOK
<1>5. Forward'
  <2>1. lastDump' <= published' /\ Real(entry)' /\ Real(file)'
    BY <1>1 DEF Forward, Real
  <2>2. CASE Supersedes(call[p].week)
    <3>1. previous' = lastDump /\ lastDump < call[p].week
      BY <1>1, <2>2 DEF Supersedes, TypeOK, Weeks, None
    <3> QED BY <1>1, <2>1, <3>1 DEF Forward, PreviousIsEarlier
  <2>3. CASE ~Supersedes(call[p].week)
    <3>1. previous' = previous /\ (lastDump = None \/ lastDump = call[p].week)
      BY <1>1, <2>3 DEF Supersedes
    <3>2. lastDump = None => previous = None
      BY DEF Forward, PreviousIsEarlier, TypeOK, Weeks, None
    <3> QED BY <1>1, <2>1, <3>1, <3>2 DEF Forward, PreviousIsEarlier
  <2> QED BY <2>2, <2>3
<1>6. MirrorsEntry'
  BY <1>1, <1>2 DEF MirrorsEntry, Live, Leads, TypeOK
<1>7. Carries'
  BY <1>1, <1>2 DEF Carries, Leads, Forward, TypeOK, Weeks, None
<1>8. HoldsLast'
  BY <1>1, <1>2 DEF HoldsLast, HoldsDump, MirrorsEntry, Carries, TypeOK
<1>9. ComparesBackwards'
  BY <1>1, <1>2 DEF ComparesBackwards, TypeOK, Calls, PCs, Weeks, None
<1> QED BY <1>3, <1>4, <1>5, <1>6, <1>7, <1>8, <1>9

\* The flight ends: the entry is stored, and who shares it holds what it holds.
LEMMA StoreKeepsInv ==
  ASSUME HoldersInv, NEW p \in Procs, Store(p)
  PROVE  HoldersInv'
<1> USE DEF At, HoldersInv
<1>1. /\ UNCHANGED <<now, published, lastDump, previous, file>>
      /\ entry' = [found |-> call[p].found, week |-> call[p].week, exp |-> now + TTL]
      /\ entry' \in Entries
      /\ flight' = NoProc /\ flight = p /\ call[p].pc = "store"
      /\ call' = [q \in Procs |-> call'[q]]
  BY DEF Store, Leads, TypeOK, Entries
<1>2. \A q \in Procs :
        /\ call'[q] \in Calls
        /\ q \in Sharers(p) => /\ call'[q].pc = "lookup" /\ call'[q].found = call[p].found
                               /\ call'[q].week = call[p].week
        /\ q \notin Sharers(p) => call'[q] = call[q]
  <2>1. \A q \in Procs : call[q] \in Calls
    BY DEF TypeOK, Calls
  <2>2. \A q \in Procs : call'[q] = IF q \in Sharers(p)
                                    THEN Holding(call[q], call[p].found, call[p].week)
                                    ELSE call[q]
    BY DEF Store
  <2>3. ASSUME NEW c \in Calls
        PROVE  LET held == Holding(c, call[p].found, call[p].week)
               IN  /\ held \in Calls /\ held.pc = "lookup"
                   /\ held.found = call[p].found /\ held.week = call[p].week
    <3>1. call[p].found \in BOOLEAN /\ call[p].week \in Weeks \cup {None}
      BY <2>1 DEF Calls
    <3> QED BY <3>1 DEF Holding, Calls, PCs
  <2> QED BY <2>1, <2>2, <2>3
<1>3. TypeOK'
  BY <1>1, <1>2 DEF Carries, Sharers, TypeOK, Calls, PCs, Weeks, None
<1>4. Leads'
  BY <1>1, <1>2 DEF Leads, Live, TypeOK, Sharers
<1>5. Forward'
  BY <1>1, <1>2 DEF Forward, PreviousIsEarlier, Real, Carries, TypeOK, Weeks, None
<1>6. MirrorsEntry'
  BY <1>1, <1>2 DEF MirrorsEntry, Live, Carries, TypeOK
<1>7. Carries'
  BY <1>1, <1>2 DEF Sharers, Carries, Leads, Forward, TypeOK, Weeks, None
<1>8. HoldsLast'
  BY <1>1, <1>2 DEF HoldsLast, HoldsDump, MirrorsEntry, Carries, TypeOK
<1>9. ComparesBackwards'
  BY <1>1, <1>2 DEF Sharers, ComparesBackwards, TypeOK, Calls, PCs, Weeks, None
<1> QED BY <1>3, <1>4, <1>5, <1>6, <1>7, <1>8, <1>9

\* The dump has a row of the stock, or it has not.
LEMMA LookupKeepsInv ==
  ASSUME HoldersInv, NEW p \in Procs, Lookup(p)
  PROVE  HoldersInv'
<1> USE DEF At, HoldersInv
<1>1. /\ UNCHANGED <<now, published, entry, flight, lastDump, previous, file>>
      /\ call' = [q \in Procs |-> call'[q]]
      /\ \A q \in Procs : q # p => call'[q] = call[q]
  BY DEF Lookup, TypeOK
<1>2. /\ call'[p] \in Calls
      /\ \/ /\ call'[p].pc = "reply" /\ call'[p].err
         \/ /\ call[p].pc = "lookup" /\ call'[p].pc = "compare" /\ call[p].found
            /\ call[p].week \in Listed
            /\ call'[p].found = call[p].found /\ call'[p].week = call[p].week
            /\ call'[p].rotated = call[p].rotated
  <2>1. call[p] \in Calls
    BY DEF TypeOK, Calls
  <2>2. CASE HasRow(call[p])
    <3>1. call[p].pc = "lookup" /\ call'[p] = [call[p] EXCEPT !.pc = "compare"]
      BY <2>2 DEF Lookup, TypeOK
    <3> QED BY <2>1, <2>2, <3>1 DEF HasRow, Calls, PCs
  <2>3. CASE ~HasRow(call[p])
    <3>1. call'[p] = Failed(call[p])
      BY <2>3 DEF Lookup, TypeOK
    <3> QED BY <2>1, <3>1 DEF Failed, Calls, PCs
  <2> QED BY <2>2, <2>3
<1>3. TypeOK'
  BY <1>1, <1>2 DEF TypeOK, Calls, PCs, Weeks, None
<1>4. Leads'
  BY <1>1, <1>2 DEF Leads, Live, TypeOK
<1>5. Forward'
  BY <1>1, <1>2 DEF Forward, PreviousIsEarlier, Real, TypeOK, Weeks, None
<1>6. MirrorsEntry'
  BY <1>1, <1>2 DEF MirrorsEntry, Live, Leads, TypeOK
<1>7. Carries'
  BY <1>1, <1>2 DEF Carries, Leads, Forward, TypeOK, Weeks, None
<1>8. HoldsLast'
  BY <1>1, <1>2 DEF HoldsLast, HoldsDump, MirrorsEntry, Carries, TypeOK
<1>9. ComparesBackwards'
  BY <1>1, <1>2 DEF ComparesBackwards, TypeOK, Calls, PCs, Weeks, None
<1> QED BY <1>3, <1>4, <1>5, <1>6, <1>7, <1>8, <1>9

\* The other lock: what is held is the last dump, and its predecessor earlier.
LEMMA CompareKeepsInv ==
  ASSUME HoldersInv, NEW p \in Procs, Compare(p)
  PROVE  HoldersInv'
<1> USE DEF At, HoldersInv
<1>1. /\ UNCHANGED <<now, published, entry, flight, lastDump, previous, file>>
      /\ call' = [q \in Procs |-> call'[q]]
      /\ \A q \in Procs : q # p => call'[q] = call[q]
  BY DEF Compare, TypeOK
<1>2. /\ call'[p] \in Calls
      /\ call[p].pc = "compare" /\ call'[p].pc = "reply"
      /\ call'[p].prev = (IF previous \in Listed THEN previous ELSE None)
      /\ call'[p].week = call[p].week /\ call'[p].rotated = call[p].rotated
  <2>1. call[p] \in Calls
    BY DEF TypeOK, Calls
  <2>2. /\ call[p].pc = "compare"
        /\ call'[p] = [call[p] EXCEPT !.pc = "reply",
                                     !.prev = IF previous \in Listed THEN previous ELSE None]
    BY DEF Compare, TypeOK
  <2> QED BY <2>1, <2>2 DEF Calls, PCs, TypeOK
<1>3. TypeOK'
  BY <1>1, <1>2 DEF TypeOK, Calls, PCs, Weeks, None
<1>4. Leads'
  BY <1>1, <1>2 DEF Leads, Live, TypeOK
<1>5. Forward'
  BY <1>1, <1>2 DEF Forward, PreviousIsEarlier, Real, TypeOK, Weeks, None
<1>6. MirrorsEntry'
  BY <1>1, <1>2 DEF MirrorsEntry, Live, Leads, TypeOK
<1>7. Carries'
  BY <1>1, <1>2 DEF Carries, Leads, Forward, TypeOK, Weeks, None
<1>8. HoldsLast'
  BY <1>1, <1>2 DEF HoldsLast, HoldsDump, MirrorsEntry, Carries, TypeOK
<1>9. ComparesBackwards'
  BY <1>1, <1>2 DEF ComparesBackwards, HoldsLast, HoldsDump, Forward,
         PreviousIsEarlier, TypeOK, Calls, PCs, Weeks, None
<1> QED BY <1>3, <1>4, <1>5, <1>6, <1>7, <1>8, <1>9

\* The caller has its answer.
LEMMA ReturnKeepsInv ==
  ASSUME HoldersInv, NEW p \in Procs, Return(p)
  PROVE  HoldersInv'
<1> USE DEF At, HoldersInv
<1>1. TypeOK'
  BY DEF Return, Idle, TypeOK, Calls, PCs, Weeks, None
<1>2. Leads'
  BY DEF Return, Idle, Leads, Live, TypeOK
<1>3. Forward'
  BY DEF Return, Idle, Forward, PreviousIsEarlier, Real, TypeOK, Weeks, None
<1>4. MirrorsEntry'
  BY DEF Return, Idle, MirrorsEntry, Live, Leads, TypeOK
<1>5. Carries'
  BY DEF Return, Idle, Carries, Leads, Forward, TypeOK, Weeks, None
<1>6. HoldsLast'
  BY DEF Return, Idle, HoldsLast, HoldsDump, MirrorsEntry, Carries, TypeOK
<1>7. ComparesBackwards'
  BY DEF Return, Idle, ComparesBackwards, TypeOK, Calls, PCs, Weeks, None
<1> QED BY <1>1, <1>2, <1>3, <1>4, <1>5, <1>6, <1>7

\* A restart forgets the calls and the previous dump, and mirrors what it restores.
LEMMA RestartKeepsInv ==
  ASSUME HoldersInv, NEW saves \in BOOLEAN, Restart(saves)
  PROVE  HoldersInv'
<1> USE DEF At, HoldersInv
<1>1. TypeOK'
  <2> DEFINE saved == IF ~saves THEN file ELSE IF Live(entry) THEN entry ELSE Nothing
             loaded == IF Live(saved) THEN saved ELSE Nothing
  <2>1. /\ saved \in Entries \cup {Nothing} /\ loaded \in Entries \cup {Nothing}
        /\ Real(loaded)
    BY DEF TypeOK, Live, Forward, Real
  <2>2. Mirror(loaded) \in Weeks \cup {None}
    BY <2>1 DEF Mirror, Entries
  <2>3. [p \in Procs |-> Idle] \in [Procs -> Calls] /\ \A p \in Procs : Idle.pc # "compare"
    BY DEF Idle, Calls, PCs
  <2>4. /\ file' = saved /\ entry' = loaded /\ lastDump' = Mirror(loaded) /\ previous' = None
        /\ flight' = NoProc /\ call' = [p \in Procs |-> Idle]
        /\ UNCHANGED <<now, published>>
    BY DEF Restart
  <2> HIDE DEF saved, loaded
  <2> QED BY <2>1, <2>2, <2>3, <2>4 DEF TypeOK, Calls, Real
<1>2. Leads'
  BY DEF Restart, Mirror, Idle, Leads, Live, TypeOK
<1>3. Forward'
  BY DEF Restart, Mirror, Idle, Forward, PreviousIsEarlier, Real, TypeOK, Weeks, None,
         Live, Entries
<1>4. MirrorsEntry'
  BY DEF Restart, Mirror, Idle, MirrorsEntry, Live, Leads, TypeOK
<1>5. Carries'
  BY DEF Restart, Mirror, Idle, Carries, Leads, Forward, TypeOK, Weeks, None
<1>6. HoldsLast'
  BY DEF Restart, Mirror, Idle, HoldsLast, HoldsDump, MirrorsEntry, Carries, TypeOK
<1>7. ComparesBackwards'
  BY DEF Restart, Mirror, Idle, ComparesBackwards, TypeOK, Calls, PCs, Weeks, None
<1> QED BY <1>1, <1>2, <1>3, <1>4, <1>5, <1>6, <1>7

\* The upstream moves on.
LEMMA PublishKeepsInv ==
  ASSUME HoldersInv, Publish
  PROVE  HoldersInv'
<1> USE DEF At, HoldersInv
<1>1. TypeOK'
  BY DEF Publish, TypeOK, Calls, PCs, Weeks, None
<1>2. Leads'
  BY DEF Publish, Leads, Live, TypeOK
<1>3. Forward'
  BY DEF Publish, Forward, PreviousIsEarlier, Real, TypeOK, Entries, Weeks, None
<1>4. MirrorsEntry'
  BY DEF Publish, MirrorsEntry, Live, Leads, TypeOK
<1>5. Carries'
  BY DEF Publish, Carries, Leads, Forward, TypeOK, Weeks, None
<1>6. HoldsLast'
  BY DEF Publish, HoldsLast, HoldsDump, MirrorsEntry, Carries, TypeOK
<1>7. ComparesBackwards'
  BY DEF Publish, ComparesBackwards, TypeOK, Calls, PCs, Weeks, None
<1> QED BY <1>1, <1>2, <1>3, <1>4, <1>5, <1>6, <1>7

\* Time passes; a dead entry stays dead.
LEMMA TickKeepsInv ==
  ASSUME HoldersInv, Tick
  PROVE  HoldersInv'
<1> USE DEF At, HoldersInv
<1>1. TypeOK'
  BY DEF Tick, TypeOK, Calls, PCs, Weeks, None
<1>2. Leads'
  BY DEF Tick, Leads, Live, TypeOK, Entries
<1>3. Forward'
  BY DEF Tick, Forward, PreviousIsEarlier, Real, TypeOK, Weeks, None
<1>4. MirrorsEntry'
  BY DEF Tick, MirrorsEntry, Live, TypeOK, Entries
<1>5. Carries'
  BY DEF Tick, Carries, Leads, Forward, TypeOK, Weeks, None
<1>6. HoldsLast'
  BY DEF Tick, HoldsLast, HoldsDump, MirrorsEntry, Carries, TypeOK
<1>7. ComparesBackwards'
  BY DEF Tick, ComparesBackwards, TypeOK, Calls, PCs, Weeks, None
<1> QED BY <1>1, <1>2, <1>3, <1>4, <1>5, <1>6, <1>7

\* Every step keeps it.
LEMMA HoldersNext == HoldersInv /\ [Next]_vars => HoldersInv'
<1> SUFFICES ASSUME HoldersInv, [Next]_vars PROVE HoldersInv'
  OBVIOUS
<1>1. ASSUME NEW p \in Procs, Call(p) \/ Look(p) \/ Rotate(p) \/ Store(p) PROVE HoldersInv'
  BY <1>1, CallKeepsInv, LookKeepsInv, RotateKeepsInv, StoreKeepsInv
<1>2. ASSUME NEW p \in Procs, Lookup(p) \/ Compare(p) \/ Return(p) PROVE HoldersInv'
  BY <1>2, LookupKeepsInv, CompareKeepsInv, ReturnKeepsInv
<1>3. ASSUME NEW p \in Procs, NEW resp \in Responses, Fetch(p, resp) PROVE HoldersInv'
  BY <1>3, FetchKeepsInv
<1>4. ASSUME NEW saves \in BOOLEAN, Restart(saves) PROVE HoldersInv'
  BY <1>4, RestartKeepsInv
<1>5. CASE Publish \/ Tick
  BY <1>5, PublishKeepsInv, TickKeepsInv
<1>6. CASE UNCHANGED vars
  BY <1>6 DEF vars, HoldersInv, TypeOK, Leads, Forward, Real, PreviousIsEarlier,
         MirrorsEntry,
              Carries, HoldsLast, HoldsDump, ComparesBackwards, Live, At
<1> QED BY <1>1, <1>2, <1>3, <1>4, <1>5, <1>6 DEF Next

-----------------------------------------------------------------------------
(* The parts together. *)

\* The invariant of the whole: each part's own.
StockInv == HoldersInv /\ AggregateInv /\ FetchInv /\ CardInv

\* Each part starts well.
LEMMA StockStarts == StockInit => StockInv
<1> SUFFICES ASSUME StockInit PROVE StockInv
  OBVIOUS
<1>1. Init /\ A!Init /\ F!Init /\ C!Init
  BY DEF StockInit
<1>2. FetchInv
  BY <1>1 DEF F!Init, FetchInv
<1> QED BY <1>1, <1>2, HoldersInit, AggregateInit, CardInit DEF StockInv

\* One part moves and the others rest.
LEMMA StockMoves == StockInv /\ [StockNext]_stockVars => StockInv'
<1> SUFFICES ASSUME StockInv, [StockNext]_stockVars PROVE StockInv'
  OBVIOUS
<1> USE DEF StockInv
<1>1. [Next]_vars
  BY DEF StockNext, stockVars
<1>2. A!Next \/ UNCHANGED aggregateVars
  BY DEF StockNext, stockVars
<1>3. F!Next \/ UNCHANGED fetchVars
  BY DEF StockNext, stockVars
<1>4. C!Next \/ UNCHANGED cardVars
  BY DEF StockNext, stockVars
<1>5. HoldersInv'
  BY <1>1, HoldersNext
<1>6. AggregateInv'
  BY <1>2, AggregateNext, AggregateRests
<1>7. FetchInv'
  BY <1>3, FetchNext
<1>8. CardInv'
  BY <1>4, CardNext
<1> QED BY <1>5, <1>6, <1>7, <1>8

\* The invariants of the parts hold together.
THEOREM StockSafe == StockSpec => []StockInv
<1> QED BY StockStarts, StockMoves, PTL DEF StockSpec

\* The weekly dump's state and the aggregate's are well typed.
THEOREM StockTypeCorrect == StockSpec => []Types
<1>1. StockInv => Types
  BY AggregateSays DEF StockInv, HoldersInv, Types
<1> QED BY <1>1, StockSafe, PTL

\* The dumps rotate forward, over restarts and repeated weeks (CachedHolders'
\* previous and lastDump).
THEOREM Rotates == StockSpec => []PreviousIsEarlier
<1>1. StockInv => PreviousIsEarlier
  BY DEF StockInv, HoldersInv, Forward
<1> QED BY <1>1, StockSafe, PTL

\* The restored or fetched entry and the last dump agree (loadFrom, and the closure
\* of GetHoldersDistribution).
THEOREM Mirrored == StockSpec => []MirrorsEntry
<1>1. StockInv => MirrorsEntry
  BY DEF StockInv, HoldersInv
<1> QED BY <1>1, StockSafe, PTL

\* The drift on a page is against an earlier week, unless the dumps rotated while
\* the page was between the two locks (GetHoldersDistribution).
THEOREM DriftIsBackwards == StockSpec => []ComparesBackwards
<1>1. StockInv => ComparesBackwards
  BY DEF StockInv, HoldersInv
<1> QED BY <1>1, StockSafe, PTL

\* An aggregate or a breadth older than its lifetime is handed out only when a
\* refresh has failed in that time (twse.Cached.Get, FetchLiveBreadth).
THEOREM OldMeansFailed == StockSpec => []OldOnlyAfterFailure
<1>1. StockInv => OldOnlyAfterFailure
  BY AggregateSays DEF StockInv
<1> QED BY <1>1, StockSafe, PTL

\* Once the market's rows have been fetched, no failed refresh leaves a caller
\* without a value (twse.Cached.Get).
THEOREM OutagesKeepRows == StockSpec => []OutageKeepsValue
<1>1. StockInv => OutageKeepsValue
  BY AggregateSays DEF StockInv
<1> QED BY <1>1, StockSafe, PTL

\* What did not answer is an error and never a day without data, whatever rows the
\* replies carry (twse.fetch, the TAIFEX downloads, Yahoo's charts, GitHub's do).
THEOREM OutagesAreErrors == StockSpec => []OutageIsNotHoliday
<1>1. StockInv => OutageIsNotHoliday
  BY FetchSays DEF StockInv
<1> QED BY <1>1, StockSafe, PTL

\* Whatever facts are missing, a page shows rows of its own kind of symbol only
\* (renderSymbol's gates against buildBlocks').
THEOREM RowsBelong == StockSpec => []OnlyWhatBelongs
<1>1. StockInv => OnlyWhatBelongs
  BY CardSays DEF StockInv
<1> QED BY <1>1, StockSafe, PTL

\* A futures file that is accepted is summed up to the last of its rows, however
\* many it has (parseTAIFEXFuturesCSV).
THEOREM RowsAllCount == StockSpec => []EveryRowCounts
<1>1. StockInv => EveryRowCounts
  BY RowsCounted DEF StockInv
<1> QED BY <1>1, StockSafe, PTL

\* A feed that fails takes its own rows with it and nothing else (renderSymbol and
\* buildBlocks, every feed best effort).
THEOREM LosesOwnRows == StockSpec => FailsAlone
<1>1. StockInv /\ [StockNext]_stockVars => C!KeepsTheRest
  <2> SUFFICES ASSUME StockInv, [StockNext]_stockVars PROVE C!KeepsTheRest
    OBVIOUS
  <2>1. CASE C!Next
    BY <2>1, LosesAlone DEF StockInv
  <2>2. CASE ~C!Next
    <3>1. known' = known
      BY <2>2 DEF StockNext, stockVars, cardVars
    <3> QED BY <3>1 DEF C!KeepsTheRest
  <2> QED BY <2>1, <2>2
<1> QED BY <1>1, StockSafe, PTL DEF StockSpec, FailsAlone, C!FailsAlone
=============================================================================

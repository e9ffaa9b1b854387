----------------------------- MODULE Aggregate -----------------------------
(***************************************************************************)
(* The two feeds kept as one value each: the market-wide aggregate         *)
(* (twse.Cached.Get) and the live breadth (HTTPProvider.FetchLiveBreadth). *)
(*                                                                         *)
(* Both copy the cached fields under a mutex, decide on the copy after the *)
(* unlock, and refresh through singleflight; the flight writes the fields, *)
(* and on a failed refresh it still moves cachedAt.  They differ in what a *)
(* failed refresh gives to its callers: Get the old value with the error,  *)
(* FetchLiveBreadth the error alone.                                       *)
(*                                                                         *)
(* A value is abstracted to when it was fetched and to the parts it is     *)
(* made of: the rows of a trading day, or the batches of quotes counted.   *)
(***************************************************************************)
EXTENDS Integers, Sequences

CONSTANTS
  Procs,        \* goroutines
  Kinds,        \* the feeds to look at: "market", "breadth"
  SuccessTTL,   \* per kind: 4 hours, liveBreadthSuccessTTL
  FailureTTL,   \* per kind: 30 minutes, liveBreadthFailureTTL
  UniverseTTL,  \* universeRefreshTTL
  Weathers,     \* what the upstreams may answer, by day and feed, in one walk
  Batches,      \* the batches of quotes, by exchange: [TSE |-> , OTC |-> ]
  MaxNow,       \* bound: the clock stops here
  NoProc,       \* "no goroutine"
  NoValue       \* nothing fetched, or an error

VARIABLES
  kind,       \* which feed this is
  now,        \* the wall clock
  cached,     \* cached, cachedAt, cachedErr, cachedHasOK
  universe,   \* when each exchange's list was last stored; Never: empty, or not at all
  flight,     \* singleflight.Group.m
  call,       \* each goroutine's Get
  failedAt,   \* history: when a refresh last failed
  everOK      \* history: a refresh has succeeded

vars == <<kind, now, cached, universe, flight, call, failedAt, everOK>>

Never == 0 - UniverseTTL
Feeds == {"bfi", "margn", "index"}
Exchanges == {"TSE", "OTC"}
Parts == Feeds \cup Batches["TSE"] \cup Batches["OTC"]
Empty == [val |-> NoValue, at |-> 0, err |-> FALSE]
Idle == [pc |-> "idle", seen |-> Empty, began |-> 0, hadOK |-> FALSE,
         val |-> NoValue, err |-> FALSE]
At(p, where) == call[p].pc = where
HasOK(c) == c.val # NoValue

Init ==
  /\ kind \in Kinds
  /\ now = 0
  /\ cached = Empty
  /\ universe = [x \in Exchanges |-> Never]
  /\ flight = NoProc
  /\ call = [p \in Procs |-> Idle]
  /\ failedAt = Never
  /\ everOK = FALSE
-----------------------------------------------------------------------------
(* What a refresh fetches. *)

\* fetchBFI82U, fetchMIMARGN, fetchMIIndex: no answer or no JSON is an error, a
\* closed day is no data; zeros count as data but for the index's breadth.
Outcome(feed, resp) ==
  CASE resp \in {"refused", "garbled"} -> "error"
    [] resp = "closed" \/ (resp = "zeros" /\ feed = "index") -> "none"
    [] OTHER -> resp

\* fetchForDate: an error of any feed is the day's; the rows of a feed show when
\* they are not all zero, and a day with no row to show is no day.
DayRows(resps) == {f \in Feeds : Outcome(f, resps[f]) = "rows"}
DayFails(resps) == \E f \in Feeds : Outcome(f, resps[f]) = "error"

\* GetAt: the walk back over trading days ends at the first that has rows or fails;
\* past maxLookbackDays there is nothing.
WalkBack(days) ==
  LET ends == {i \in DOMAIN days : DayFails(days[i]) \/ DayRows(days[i]) # {}}
      first == CHOOSE i \in ends : \A j \in ends : i <= j
  IN  IF ends = {} \/ (ends # {} /\ DayFails(days[first])) THEN {} ELSE DayRows(days[first])

\* fetchUniverse: the list is re-used while it is fresh and not empty.
UniverseHeld(x) == now - universe[x] < UniverseTTL

\* fetchLiveBreadth: the batches of the exchanges whose list is at hand, as far as
\* their quotes came; without any of the main board there is no breadth.
BreadthOf(lists, good) ==
  IF "TSE" \in lists /\ good \cap Batches["TSE"] # {}
  THEN good \cap UNION {Batches[x] : x \in lists} ELSE {}
-----------------------------------------------------------------------------
\* The copy under the mutex.
Read(p) ==
  /\ At(p, "idle")
  /\ call' = [call EXCEPT ![p] = [Idle EXCEPT !.pc = "decide", !.seen = cached,
                                    !.began = now, !.hadOK = everOK]]
  /\ UNCHANGED <<kind, now, cached, universe, flight, failedAt, everOK>>

Reply(c, val, err) == [c EXCEPT !.pc = "reply", !.val = val, !.err = err, !.seen = Empty]

\* Mutant: off by one.
FreshOnTheDot(c) == HasOK(c) /\ now - c.at <= SuccessTTL[kind]

\* The copy is fresh, or its error is: no fetch.
Fresh(c) == HasOK(c) /\ now - c.at < SuccessTTL[kind]
BackedOff(c) == ~HasOK(c) /\ c.err /\ now - c.at < FailureTTL[kind]

Decide(p) ==
  LET c == call[p].seen
  IN  /\ At(p, "decide")
      /\ call' = [call EXCEPT ![p] =
           IF Fresh(c) THEN Reply(@, c.val, FALSE)
           ELSE IF BackedOff(c) THEN Reply(@, NoValue, TRUE)
           ELSE [@ EXCEPT !.pc = "enter"]]
      /\ UNCHANGED <<kind, now, cached, universe, flight, failedAt, everOK>>

Enter(p) ==
  /\ At(p, "enter")
  /\ \/ /\ flight = NoProc
        /\ flight' = p
        /\ call' = [call EXCEPT ![p].pc = "fetch"]
     \/ /\ flight # NoProc
        /\ call' = [call EXCEPT ![p].pc = "wait"]
        /\ UNCHANGED flight
  /\ UNCHANGED <<kind, now, cached, universe, failedAt, everOK>>

\* Mutant: a failed refresh drops the last success.
RefreshedOrGone(parts) ==
  IF parts # {} THEN [val |-> [at |-> now, parts |-> parts], at |-> now, err |-> FALSE]
  ELSE [Empty EXCEPT !.at = now, !.err = TRUE]

\* What the closure writes under the mutex: on failure the last success stays, with
\* a new time.
Refreshed(parts) ==
  IF parts # {} THEN [val |-> [at |-> now, parts |-> parts], at |-> now, err |-> FALSE]
  ELSE [cached EXCEPT !.at = now, !.err = TRUE]

Settled(p, parts) ==
  /\ cached' = Refreshed(parts)
  /\ call' = [call EXCEPT ![p].pc = "done", ![p].err = parts = {},
                          ![p].val = IF parts = {} THEN NoValue ELSE Refreshed(parts).val]
  /\ failedAt' = IF parts = {} THEN now ELSE failedAt
  /\ everOK' = (everOK \/ parts # {})
  /\ UNCHANGED <<kind, now, flight>>

\* The market's refresh.
FetchMarket(p, days) ==
  /\ At(p, "fetch") /\ kind = "market"
  /\ Settled(p, WalkBack(days))
  /\ UNCHANGED universe

\* The breadth's refresh: stored lists the upstream had to be asked for, of which
\* empty ones are held by nobody; the OTC list is not asked for without the other.
FetchBreadth(p, answered, empty, good) ==
  LET asked == {x \in Exchanges : ~UniverseHeld(x)}
      tse == "TSE" \notin asked \/ "TSE" \in answered \ empty
      stored == answered \cap (IF tse THEN asked ELSE {"TSE"})
      lists == (Exchanges \ asked) \cup (stored \ empty)
  IN  /\ At(p, "fetch") /\ kind = "breadth"
      /\ answered \subseteq asked /\ empty \subseteq answered
      /\ universe' = [x \in Exchanges |-> IF x \notin stored THEN universe[x]
                                         ELSE IF x \in empty THEN Never ELSE now]
      /\ Settled(p, BreadthOf(lists, good))

\* The result of the flight, for its leader and who waited: with an error, Get gives
\* the value of the goroutine's own copy.
Handed(c, val, err) ==
  IF err /\ kind = "market" /\ HasOK(c.seen) THEN Reply(c, c.seen.val, TRUE) ELSE Reply(c, val, err)

Land(p) ==
  /\ At(p, "done")
  /\ flight' = NoProc
  /\ call' = [q \in Procs |-> IF q = p \/ At(q, "wait")
                              THEN Handed(call[q], call[p].val, call[p].err) ELSE call[q]]
  /\ UNCHANGED <<kind, now, cached, universe, failedAt, everOK>>

Return(p) ==
  /\ At(p, "reply")
  /\ call' = [call EXCEPT ![p] = Idle]
  /\ UNCHANGED <<kind, now, cached, universe, flight, failedAt, everOK>>

\* Time passes.  (A tick is half a minute or more: a flight that has written the
\* fields is not held up that long before it lands.)
Tick ==
  /\ now < MaxNow /\ \A p \in Procs : ~At(p, "done")
  /\ now' = now + 1
  /\ UNCHANGED <<kind, cached, universe, flight, call, failedAt, everOK>>

Next ==
  \/ \E p \in Procs : Read(p) \/ Decide(p) \/ Enter(p) \/ Land(p) \/ Return(p)
  \/ \E p \in Procs, days \in Weathers : FetchMarket(p, days)
  \/ \E p \in Procs, answered, empty \in SUBSET Exchanges,
        good \in SUBSET (Batches["TSE"] \cup Batches["OTC"]) : FetchBreadth(p, answered, empty, good)
  \/ Tick
-----------------------------------------------------------------------------
\* Types of the state.  A value has something to show, and the live breadth counts
\* the main board.
Values == [at : 0..MaxNow, parts : (SUBSET Parts) \ {{}}] \cup {NoValue}
Records == [val : Values, at : 0..MaxNow, err : BOOLEAN]
TypeOK ==
  /\ kind \in Kinds /\ now \in 0..MaxNow
  /\ cached \in Records
  /\ universe \in [Exchanges -> {Never} \cup 0..MaxNow]
  /\ flight \in Procs \cup {NoProc}
  /\ \A p \in Procs :
       /\ call[p].pc \in {"idle", "decide", "enter", "wait", "fetch", "done", "reply"}
       /\ call[p].seen \in Records /\ call[p].val \in Values
  /\ failedAt \in {Never} \cup 0..MaxNow
  /\ kind = "breadth" /\ HasOK(cached) => cached.val.parts \cap Batches["TSE"] # {}

\* A value older than the success TTL passes for fresh only when a refresh has
\* failed within the success TTL.  (For the market that is four hours of an old
\* aggregate without the error that marks it STALE.)
OldOnlyAfterFailure ==
  \A p \in Procs : At(p, "reply") /\ ~call[p].err =>
    \/ call[p].val.at > call[p].began - SuccessTTL[kind]
    \/ failedAt > call[p].began - SuccessTTL[kind]

\* "the previous successful entry (if any) + the err": once a fetch has succeeded,
\* no outage makes the market's rows disappear for who asks after it.
OutageKeepsValue ==
  \A p \in Procs : At(p, "reply") /\ kind = "market" /\ call[p].hadOK =>
    call[p].val # NoValue
=============================================================================

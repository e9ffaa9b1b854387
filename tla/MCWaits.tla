------------------------------ MODULE MCWaits ------------------------------
(***************************************************************************)
(* What a request can be held up by, for TLC: the two limiters (Limits),   *)
(* and the leader of its flight in the two caches with flights of their    *)
(* own (TTLCache, HTMLCache).  The initial state chooses one; the          *)
(* variables of the others rest.                                           *)
(***************************************************************************)
EXTENDS Limits

CONSTANTS c1, c2, g1, g2, k1, k2, found, NoProc, NoKey, Failure, Nothing

TwoClients == {c1, c2}
TwoServers == <<"dot", "fallback">>

\* The type that decides, one of addresses and one that comes with others'
\* records; answers with no record, with a private address, with a TTL of 0.
SomeTypes == {"NS", "A", "CNAME"}
Record(type, public, ttl) == [type |-> type, public |-> public, ttl |-> ttl]
SomeRRSets == {<<>>, <<Record("CNAME", TRUE, 2), Record("A", FALSE, 1)>>,
               <<Record("A", TRUE, 0)>>}
-----------------------------------------------------------------------------
\* Two goroutines and two keys that expire, in a ttlcache of one.
VARIABLES waits, clock, items, lru, flight, call, used, seen

valueVars == <<clock, items, lru, flight, call, used, seen>>

V == INSTANCE TTLCache WITH
  Procs <- {g1, g2}, Keys <- {k1, k2}, SetKeys <- {}, Payloads <- {found}, TTLs <- {1},
  CapArg <- 1, DefaultCap <- 2, MaxNow <- 2, now <- clock

\* Two goroutines and a page as a browser gets it and as a terminal does, which is
\* never kept, in an htmlcache of one.
VARIABLES time, pages, list, leader, conn

pageVars == <<time, pages, list, leader, conn>>

Visits ==
  {[method |-> "GET", path |-> "/stock/2330.TW", lang |-> "", region |-> "", format |-> "",
    country |-> "TW", ua |-> {agent}, accept |-> "any"] : agent \in {"prefix", "cli"}}

P == INSTANCE HTMLCache WITH
  Procs <- {g1, g2}, Requests <- Visits, MaxAges <- {1}, MaxArg <- 1,
  DefaultMaxEntries <- 2, MaxNow <- 2, now <- time, items <- pages,
  flight <- leader
-----------------------------------------------------------------------------
limitVars == <<limit, vars, lookupVars>>

Limiters == waits = "limiters" /\ UNCHANGED <<waits, valueVars, pageVars>>
Values == waits = "values" /\ UNCHANGED <<waits, limitVars, pageVars>>
Html == waits = "pages" /\ UNCHANGED <<waits, limitVars, valueVars>>

\* What does not step starts in one state.
MCInit ==
  /\ waits \in {"limiters", "values", "pages"}
  /\ LInit /\ V!Init /\ P!Init
  /\ limit = "visitors" => tokens = Burst
  /\ limit = "queries" \/ waits # "limiters" => watched = c1
  /\ waits # "limiters" => limit = "visitors"

MCNext == (Limiters /\ LNext) \/ (Values /\ V!Next) \/ (Html /\ P!Next)

\* The fairness of each module's FairSpec.
MCSpec ==
  /\ MCInit /\ [][MCNext]_<<waits, limitVars, valueVars, pageVars>>
  /\ WF_lookupVars(Limiters /\ Queries /\ L!Pick)
  /\ WF_lookupVars(Limiters /\ Queries /\ L!Join)
  /\ WF_lookupVars(Limiters /\ Queries /\ L!End)
  /\ \A t \in Types : WF_lookupVars(Limiters /\ Queries /\ L!Step(t))
  /\ \A p \in {g1, g2} : /\ WF_valueVars(Values /\ V!Step(p))
                         /\ WF_pageVars(Html /\ P!Step(p))
-----------------------------------------------------------------------------
\* Every GetOrFetch returns, also behind a leader whose fetch failed (ttlcache.go).
EveryCallReturns == V!EveryCallReturns

\* Every request is answered, also behind a leader whose handler panicked or whose
\* page is not kept (htmlcache.Middleware).
EveryRequestEnds == P!EveryRequestEnds
=============================================================================

-------------------------------- MODULE Stock --------------------------------
(***************************************************************************)
(* The parts of a stock page beside the daily feeds, each with its module: *)
(* the weekly dump (Holders), the market's and the breadth's one value     *)
(* (Aggregate), the fetchers (Fetchers) and the card (Card).  The initial  *)
(* state chooses one; the variables of the others rest.                    *)
(***************************************************************************)
EXTENDS Holders, Sequences

CONSTANTS
  Kinds, SuccessTTL, FailureTTL, UniverseTTL, Weathers, Batches,  \* Aggregate
  MaxClock, NoValue,
  Ours, NoCode, Today, Replies,                                   \* Fetchers
  Quotes, Losable                                                 \* Card

\* Lifetimes are positive; a value that was fetched is not "nothing"; the rows of a
\* futures file have figures.
ASSUME StockAssumption ==
  /\ Kinds \subseteq {"market", "breadth"}
  /\ \A k \in Kinds : SuccessTTL[k] \in Nat \ {0} /\ FailureTTL[k] \in Nat
  /\ UniverseTTL \in Nat /\ MaxClock \in Nat
  /\ NoValue \notin [at : 0..MaxClock,
                     parts : SUBSET ({"bfi", "margn", "index"} \cup Batches["TSE"]
                                                              \cup Batches["OTC"])]
  /\ \A r \in Replies["futures"] :
       r.rows \in Seq([form : STRING, party : STRING, net : Int])
  /\ Quotes \subseteq [closed : BOOLEAN, stale : BOOLEAN, ohlc : BOOLEAN, ma : BOOLEAN,
                       volume : BOOLEAN]

VARIABLES
  part,
  kind, clock, cached, universe, leader, get, failedAt, everOK,   \* Aggregate
  feed, reply, answer,                                            \* Fetchers
  request, quote, known, page                                     \* Card

aggregateVars == <<kind, clock, cached, universe, leader, get, failedAt, everOK>>
fetchVars == <<feed, reply, answer>>
cardVars == <<request, quote, known, page>>
stockVars == <<part, vars, aggregateVars, fetchVars, cardVars>>

A == INSTANCE Aggregate WITH MaxNow <- MaxClock, now <- clock, flight <- leader, call <- get
F == INSTANCE Fetchers
C == INSTANCE Card

StockInit ==
  /\ part \in {"holders", "aggregate", "fetchers", "card"}
  /\ Init /\ A!Init /\ F!Init /\ C!Init

StockNext ==
  /\ UNCHANGED part
  /\ \/ part = "holders" /\ Next /\ UNCHANGED <<aggregateVars, fetchVars, cardVars>>
     \/ part = "aggregate" /\ A!Next /\ UNCHANGED <<vars, fetchVars, cardVars>>
     \/ part = "fetchers" /\ F!Next /\ UNCHANGED <<vars, aggregateVars, cardVars>>
     \/ part = "card" /\ C!Next /\ UNCHANGED <<vars, aggregateVars, fetchVars>>

StockSpec == StockInit /\ [][StockNext]_stockVars
-----------------------------------------------------------------------------
\* Types of the weekly dump's state, and of the aggregate's.
Types == TypeOK /\ A!TypeOK

\* An old aggregate or breadth passes for fresh only when a refresh has failed
\* (twse.go, Get; breadth_live.go, FetchLiveBreadth).
OldOnlyAfterFailure == A!OldOnlyAfterFailure

\* No outage takes the market's rows away again (twse.go, Get).
OutageKeepsValue == A!OutageKeepsValue

\* What did not answer has not said that there is no data (twse.go, fetch).
OutageIsNotHoliday == F!OutageIsNotHoliday

\* No row of a futures file is left out or counted twice (futures.go,
\* parseTAIFEXFuturesCSV).
EveryRowCounts == F!EveryRowCounts

\* A page shows rows of its own kind of symbol only (stock.go, buildBlocks).
OnlyWhatBelongs == C!OnlyWhatBelongs

\* A feed that fails takes its own rows with it and nothing else (stock.go).
FailsAlone == C!FailsAlone
=============================================================================

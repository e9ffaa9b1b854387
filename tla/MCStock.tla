------------------------------- MODULE MCStock -------------------------------
(* Stock for TLC. *)
EXTENDS Stock, TLC

CONSTANTS g1, g2, ours, other, blank

TwoProcs == {g1, g2}
ProcSymmetry == Permutations(Procs)
-----------------------------------------------------------------------------
\* Aggregate.  Ticks of half an hour or of half a minute; four hours are cut to
\* two ticks.  Days on which everything, a part, or nothing is out, or a feed fails.
BothKinds == {"market", "breadth"}
SomeSuccessTTL == [market |-> 2, breadth |-> 1]
SomeFailureTTL == [market |-> 1, breadth |-> 2]
SomeBatches == [TSE |-> {"tse1"}, OTC |-> {"otc1"}]
Day(bfi, margn, index) == [bfi |-> bfi, margn |-> margn, index |-> index]
SomeWeathers == {
  <<Day("rows", "rows", "rows")>>,
  <<Day("closed", "closed", "zeros"), Day("rows", "closed", "closed")>>,
  <<Day("closed", "refused", "rows")>>,
  <<Day("zeros", "zeros", "closed"), Day("garbled", "rows", "rows")>>,
  <<Day("zeros", "closed", "closed")>>}
-----------------------------------------------------------------------------
\* Fetchers.  Up to three rows of each form.
Upto(n, rows) == UNION {[1..m -> rows] : m \in 0..n}
Broken == [outcome : {"refused", "status", "missing", "html", "garbled", "closed"},
           rows : {<<>>}]
Files(n, rows) == Broken \cup [outcome : {"rows"}, rows : Upto(n, rows)]
Tables == Files(2, [code : {ours, other, blank}, wide : BOOLEAN, val : {1, 2}])
Contracts ==
  Files(3, [form : {"data"}, net : {1, -2},
            party : {"dealer", "trust", "foreign", "foreign and mainland", "unknown"}]
           \cup [form : {"blank", "short", "no number"}, net : {1}, party : {"dealer"}])

GitHub(bodies) ==
  Broken \cup [outcome : {"limited"}, rows : {<<>>}] \cup [outcome : {"rows"}, rows : [1..1 -> bodies]]

SomeReplies ==
  [f \in {"t86", "lending", "margin", "foreign", "fundamentals", "listing",
          "otcListing", "revenue", "industry", "blocktrades", "pcr"} |-> Tables]
  @@ [vix |-> Files(3, [day : 1..3]), futures |-> Contracts,
      mis |-> Files(2, [y : 0..2, z : {0, 1, 3}, pz : {0, 2}, o : {0, 1}]),
      name |-> Files(1, [named : BOOLEAN]),
      quote |-> Files(1, [close : 0..1]),
      quoteAt |-> Files(3, [day : 1..3, close : 0..1]),
      user |-> GitHub([named : BOOLEAN]),
      repo |-> GitHub([named : BOOLEAN, private : BOOLEAN,
                       release : {"rows", "missing", "limited", "refused"}])]
-----------------------------------------------------------------------------
\* Card.  A quote of an open and of a closed market, a stale one, one without bars;
\* two of the fundamentals' figures and the rest that is not named are always there.
Quote(closed, stale, bars) ==
  [closed |-> closed, stale |-> stale, ohlc |-> bars, ma |-> bars, volume |-> bars]
SomeQuotes == {Quote(TRUE, FALSE, TRUE), Quote(FALSE, FALSE, FALSE), Quote(FALSE, TRUE, TRUE)}
SomeFacts ==
  {"institutional", "credit", "breadth", "tse", "tpex", "flow", "short name",
   "listed name", "holders", "trades", "yield", "sector", "holding", "mean",
   "revenue", "lending", "margin", "mxf", "tmf", "txf", "pcr", "vix"}

Anyone == [symbol |-> "abroad", english |-> TRUE, dated |-> FALSE]
-----------------------------------------------------------------------------
\* The parts that do not step start in one state.
MCInit ==
  /\ StockInit
  /\ part # "holders" => published = 1
  /\ part # "aggregate" => kind = "market"
  /\ part # "fetchers" => feed = "t86"
  /\ part # "card" => request = Anyone /\ quote = Quote(FALSE, FALSE, FALSE)

MCSpec == MCInit /\ [][StockNext]_stockVars
=============================================================================

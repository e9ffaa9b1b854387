-------------------------------- MODULE Card --------------------------------
(***************************************************************************)
(* The card a stock page shows: which feeds the /stock handler asks for it *)
(* (service/stock/stock.go, renderSymbol) and which rows it makes of what  *)
(* they answer (buildBlocks).                                              *)
(*                                                                         *)
(* A request is [symbol, english, dated]: what kind of symbol it names,    *)
(* whether the visitor reads English, whether ?date= pins a day.           *)
(*   "index"  ^TWII            "listed"  2330.TW       "otc"  6488.TWO     *)
(*   "named"  FUND.TW, a Taiwan symbol without a stock number              *)
(*   "abroad" any other                                                    *)
(* A quote is [closed, stale, ohlc, ma, volume], all BOOLEAN.  What a feed *)
(* knows is a set of facts; a feed that fails, or has no row for the       *)
(* stock, contributes none.  Labels, bars and figures are left out: a row  *)
(* is the set of the segments it is made of.                               *)
(*                                                                         *)
(* Every feed is best effort: the steps of this module take facts away one *)
(* by one, and the properties say what a page may lose with them.  The     *)
(* gate that drops a weekly dump too far from a ?date= is one way to lose  *)
(* a fact.                                                                 *)
(***************************************************************************)
EXTENDS Naturals, Sequences

CONSTANTS
  Quotes,    \* the quotes to look at
  Losable    \* bound: the facts that may be missing

VARIABLES
  request,   \* the request
  quote,     \* what the quote provider answered
  known,     \* the facts the feeds have to give
  page       \* the page this makes

vars == <<request, quote, known, page>>

Symbols == {"index", "listed", "otc", "named", "abroad"}

\* isTWSymbol: .TW, .TWO and ^TWII.  twStockID: a number before the suffix.
IsTW(s) == s # "abroad"
HasStockID(s) == s \in {"listed", "otc"}

\* showTWSEEnrichment: English pages carry no Taiwan block.
ShowsTWSE(r) == ~r.english

FactsOf ==
  [day          |-> {"institutional", "credit", "breadth"},  \* twse.Cached.Get
   dayAt        |-> {"institutional", "credit", "breadth"},  \* its GetAt
   live         |-> {"tse", "tpex"},
   t86          |-> {"short name", "flow"},
   name         |-> {"listed name"},                         \* MIS getStockInfo
   holders      |-> {"holders", "previous"},
   blocktrades  |-> {"trades"},
   fundamentals |-> {"yield", "per", "pbr"},
   listing      |-> {"sector", "listed since"},
   otcListing   |-> {"sector", "listed since"},
   foreign      |-> {"holding"},
   industry     |-> {"mean"},
   revenue      |-> {"revenue"},
   otcRevenue   |-> {"revenue"},
   lending      |-> {"lending"},
   margin       |-> {"margin"},
   futures      |-> {"mxf", "tmf", "txf"},
   pcr          |-> {"pcr"},
   vix          |-> {"vix"}]
Feeds == DOMAIN FactsOf

\* The market-wide feed: the day's aggregate, or the breadth of an open market.
MarketFeed(r, q) ==
  IF r.dated THEN "dayAt" ELSE IF q.closed THEN "day" ELSE "live"

\* Feeds that publish after the close are asked only then, or for a ?date=.
AfterClose(r, q, feeds) == IF q.closed \/ r.dated THEN feeds ELSE {}

\* The feeds of one stock.  MIS is asked for a name T86 has not given; TPEx has
\* its own listings and revenues and no foreign holdings; the sector's mean is
\* asked for by the sector's name.
StockFeeds(r, q, facts) ==
  LET flow == AfterClose(r, q, {"t86"})
  IN  flow
      \cup (IF flow # {} /\ "short name" \in facts THEN {} ELSE {"name"})
      \cup {"holders", "blocktrades", "fundamentals"}
      \cup (IF r.symbol = "otc" THEN {"otcListing", "otcRevenue"}
            ELSE {"listing", "foreign", "revenue"})
      \cup (IF "sector" \in facts THEN {"industry"} ELSE {})
      \cup AfterClose(r, q, {"lending", "margin"})

\* The feeds of the market's own page.
IndexFeeds(r, q) == AfterClose(r, q, {"futures", "pcr", "vix"})

\* All that renderSymbol asks, when the feeds have these facts to give.
Asked(r, q, facts) ==
  IF ~IsTW(r.symbol) \/ ~ShowsTWSE(r) THEN {}
  ELSE {MarketFeed(r, q)} \cup (IF HasStockID(r.symbol) THEN StockFeeds(r, q, facts)
                                ELSE IndexFeeds(r, q))

\* What the page has to work with.
Input(r, q, facts) == facts \cap UNION {FactsOf[f] : f \in Asked(r, q, facts)}

-----------------------------------------------------------------------------
\* Rows of one segment each, and a row that is there or not.
RowsOf(names) == [i \in DOMAIN names |-> {names[i]}]
When(b, x) == IF b THEN <<x>> ELSE <<>>

\* positioningRows and perStockPositioningRows.
Positioning == RowsOf(<<"foreign net", "trust net", "dealer net", "total net">>)

\* breadthRows: the exchanges of an open market, else the day's totals.
BreadthRows(q, in) ==
  LET exchanges == When("tse" \in in, {"tse"}) \o When("tpex" \in in, {"tpex"})
  IN  IF ~q.closed /\ exchanges # <<>> THEN exchanges
      ELSE When("breadth" \in in, {"advance and decline"})

\* perStockCreditRows: two rows of margin trading, one of lending.
StockCreditRows(in) ==
  (IF "margin" \in in THEN RowsOf(<<"margin balance", "short balance">>) ELSE <<>>)
    \o When("lending" \in in, {"securities lending"})

\* holdersRows with holdersDeltaPill: the drift only against a previous week.
HoldersRows(in) ==
  IF "holders" \notin in THEN <<>>
  ELSE <<{"big holders"} \cup (in \cap {"previous"}), {"all holders"}>>

\* fundamentalsRow: a figure the exchange left out is left out.
FundamentalsRow(in) ==
  LET segments == in \cap {"yield", "per", "pbr"}
  IN  When(segments # {}, segments)

\* Mutant: no sector, no row.
ContextRowBySector(in) ==
  When("sector" \in in, in \cap {"sector", "listed since", "holding", "mean"})

\* contextRow: the sector's mean is shown only beside the stock's own holding.
ContextRow(in) ==
  LET segments == (in \cap {"sector", "listed since", "holding"})
                    \cup (IF "holding" \in in THEN in \cap {"mean"} ELSE {})
  IN  When(segments # {}, segments)

\* The slow signals of a stock, in one group.
StockRows(in) ==
  HoldersRows(in) \o When("trades" \in in, {"block trades"}) \o FundamentalsRow(in)
    \o ContextRow(in) \o When("revenue" \in in, {"revenue"})

\* marketSentimentRow, institutionalFuturesRows, retailFuturesRows.
SentimentRow(in) == <<in \cap {"pcr", "vix"}>>
FuturesRows ==
  RowsOf(<<"foreign futures", "trust futures", "dealer futures", "total futures">>)
RetailRows(in) == When("mxf" \in in, {"mxf"}) \o When("tmf" \in in, {"tmf"})

-----------------------------------------------------------------------------
\* buildBlocks: the groups in their order, each under a row of its own (a
\* zero-width space).  Some are appended for their fact, some only when they
\* have a row.
Blank == {}
Group(b, rows) == IF b THEN <<Blank>> \o rows ELSE <<>>

SlowGroup(in) == Group(StockRows(in) # <<>>, StockRows(in))

StockGroups(q, in) ==
  Group(q.closed /\ "flow" \in in, Positioning)
    \o Group(q.closed /\ in \cap {"margin", "lending"} # {}, StockCreditRows(in))
    \o SlowGroup(in)

MarketGroups(q, in) ==
  Group(q.closed /\ "institutional" \in in, Positioning)
    \o Group(BreadthRows(q, in) # <<>>, BreadthRows(q, in))
    \o Group(q.closed /\ "credit" \in in, <<{"credit"}>>)
    \o SlowGroup(in)
    \o Group(q.closed /\ in \cap {"pcr", "vix"} # {}, SentimentRow(in))
    \o Group(q.closed /\ "txf" \in in, FuturesRows)
    \o Group(q.closed /\ in \cap {"mxf", "tmf"} # {}, RetailRows(in))

\* Mutant: a stock without figures of its own falls back to the market's.
GroupsFallingBack(r, q, in) ==
  IF HasStockID(r.symbol) /\ "flow" \in in THEN StockGroups(q, in) ELSE MarketGroups(q, in)

Groups(r, q, in) ==
  IF HasStockID(r.symbol) THEN StockGroups(q, in) ELSE MarketGroups(q, in)

\* There is no separator above the first group.
Body(r, q, in) ==
  LET groups == Groups(r, q, in)
  IN  IF ~ShowsTWSE(r) \/ groups = <<>> THEN <<>> ELSE Tail(groups)

\* The two bars over the body, with air above the first and below the last.
Bars(q) ==
  LET bars == (IF q.ohlc THEN RowsOf(<<"ohlc", "ohlc figures">>) ELSE <<>>)
                \o (IF q.ma THEN RowsOf(<<"ma", "ma figures">>) ELSE <<>>)
  IN  IF bars = <<>> THEN <<>> ELSE <<Blank>> \o bars \o <<Blank>>

\* stockBlocks.boxes: bars and body are one box.
Box(r, q, in) == Bars(q) \o Body(r, q, in)

\* The captions: the title, with the stock's local name where a feed gave it
\* (titleFor), the price with its tag, the volume.
Title(in) == {"symbol"} \cup (IF in \cap {"short name", "listed name"} # {}
                              THEN {"local name"} ELSE {})
Tag(q) == IF q.stale THEN {"STALE"} ELSE IF q.closed THEN {"CLOSED"} ELSE {}
Captions(q, in) == <<Title(in), {"price"} \cup Tag(q)>> \o When(q.volume, {"volume"})

Page(r, q, facts) ==
  LET in == Input(r, q, facts)
  IN  [captions |-> Captions(q, in), box |-> Box(r, q, in)]

\* Cache-Control: max-age by what the page represents, in seconds.
MaxAge(r, q) == IF r.dated THEN 86400 ELSE IF q.closed THEN 300 ELSE 60
-----------------------------------------------------------------------------
\* GetAt answers with a closed bar, never with a stale one.
Init ==
  /\ request \in [symbol : Symbols, english : BOOLEAN, dated : BOOLEAN]
  /\ quote \in Quotes
  /\ request.dated => quote.closed /\ ~quote.stale
  /\ known = UNION {FactsOf[f] : f \in Feeds}
  /\ page = Page(request, quote, known)

\* A feed has nothing to say on this point, or fails.
Lose(fact) ==
  /\ known' = known \ {fact}
  /\ page' = Page(request, quote, known \ {fact})
  /\ UNCHANGED <<request, quote>>

Next == \E fact \in Losable \cap Input(request, quote, known) : Lose(fact)

Spec == Init /\ [][Next]_vars

-----------------------------------------------------------------------------
\* Segments of the rows that are about the whole market, or about one stock.
OfTheMarket ==
  {"advance and decline", "tse", "tpex", "credit", "pcr", "vix", "mxf", "tmf",
   "foreign futures", "trust futures", "dealer futures", "total futures"}
OfTheStock ==
  {"margin balance", "short balance", "securities lending", "big holders", "previous",
   "all holders", "block trades", "yield", "per", "pbr", "sector", "listed since",
   "holding", "mean", "revenue"}
\* And those whose figures are published once a day, after the close.
Daily ==
  {"foreign net", "trust net", "dealer net", "total net", "advance and decline",
   "credit", "margin balance", "short balance", "securities lending", "pcr", "vix",
   "mxf", "tmf", "foreign futures", "trust futures", "dealer futures", "total futures"}

Segments == UNION {page.box[i] : i \in DOMAIN page.box}

\* A page about a stock has no row about the market and the other way round,
\* a page of an open market none of figures that are not out yet, and a page of
\* another country's market, or in English, none of these rows at all: what
\* renderSymbol asks for and what buildBlocks shows are gated apart.
OnlyWhatBelongs ==
  LET segments == Segments
  IN  /\ HasStockID(request.symbol) => segments \cap OfTheMarket = {}
      /\ ~HasStockID(request.symbol) => segments \cap OfTheStock = {}
      /\ ~quote.closed => segments \cap Daily = {}
      /\ ~IsTW(request.symbol) \/ request.english =>
           segments \cap (Daily \cup OfTheMarket \cup OfTheStock) = {}

\* What is shown on the strength of a fact.
RestsOn(fact) ==
  CASE fact \in {"institutional", "flow"} -> {"foreign net", "trust net", "dealer net", "total net"}
    [] fact = "breadth" -> {"advance and decline"}
    [] fact = "txf" -> {"foreign futures", "trust futures", "dealer futures", "total futures"}
    [] fact = "margin" -> {"margin balance", "short balance"}
    [] fact = "lending" -> {"securities lending"}
    [] fact = "holders" -> {"big holders", "previous", "all holders"}
    [] fact = "trades" -> {"block trades"}
    [] fact = "sector" -> {"sector", "mean"}
    [] fact = "holding" -> {"holding", "mean"}
    [] fact \in {"short name", "listed name"} -> {"local name"}
    [] OTHER -> {fact}

\* The rows that are left of a page when some segments are gone.
Without(rows, gone) ==
  LET left[n \in 0..Len(rows)] ==
        IF n = 0 THEN <<>>
        ELSE left[n - 1] \o When(rows[n] \ gone # {}, rows[n] \ gone)
  IN  left[Len(rows)]

\* What is left of a page without what rests on a fact that was lost is what was
\* left of it before.
KeepsTheRest ==
  \A fact \in known \ known' :
    \A field \in {"captions", "box"} :
      Without(page'[field], RestsOn(fact)) = Without(page[field], RestsOn(fact))

\* A feed that fails takes its own rows with it and nothing else: the rest of
\* the page, and its order, stay as they were.
FailsAlone == [][KeepsTheRest]_vars
=============================================================================

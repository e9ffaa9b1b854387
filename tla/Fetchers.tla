------------------------------ MODULE Fetchers ------------------------------
(***************************************************************************)
(* What the fetchers of service/stock/twse, service/stock/quote/yahoo and  *)
(* service/github/profile make of an upstream's reply.                     *)
(*                                                                         *)
(* Each FetchXExact(reply) answers "found" with what it parsed, "nodata"   *)
(* (found = false without an error) or "error".  The difference matters    *)
(* above: the walk back skips a day without data and the caches keep it,   *)
(* an error is handed to the caller and is not kept.  In the same way      *)
(* "gone" (ErrNotFound) replaces a GitHub profile, and "limited"           *)
(* (ErrRateLimited) and "error" do not.                                    *)
(*                                                                         *)
(* A reply is [outcome, rows]: no connection, a status, or a body that is  *)
(* an HTML page, no file of the expected format, a well-formed "no data"   *)
(* or a file of rows.  Columns and figures are abstracted to one number.   *)
(***************************************************************************)
EXTENDS Integers, Sequences, SequencesExt

CONSTANTS
  Ours,      \* the stock's code
  NoCode,    \* a row without a code
  Today,     \* the day asked for
  Replies    \* by feed, the replies to look at

VARIABLES feed, reply, answer

vars == <<feed, reply, answer>>

Found(what) == [is |-> "found", what |-> what]
NoData == [is |-> "nodata", what |-> 0]
Error == [is |-> "error", what |-> 0]
Gone == [is |-> "gone", what |-> 0]
RateLimited == [is |-> "limited", what |-> 0]

\* Mutant: whatever is not a file is a day without data.
FetchedOrNoData(r, parsed) == IF r.outcome = "rows" THEN parsed ELSE NoData

\* fetch, and json.Unmarshal: only a body of the expected format is looked at.
Fetched(r, parsed) ==
  CASE r.outcome = "rows" -> parsed
    [] r.outcome = "closed" -> NoData
    [] OTHER -> Error

\* The first row of the stock that is wide enough.  (For FetchMIMARGNStockExact the
\* rows of all tables: the narrow ones are of the market.)
OwnRow(rows) ==
  LET own == SelectSeq(rows, LAMBDA row : row.wide /\ row.code = Ours)
  IN  IF own = <<>> THEN NoData ELSE Found(Head(own).val)

FetchT86Exact(r) == Fetched(r, OwnRow(r.rows))
FetchTWT93UExact(r) == Fetched(r, OwnRow(r.rows))
FetchMIMARGNStockExact(r) == Fetched(r, OwnRow(r.rows))
FetchForeignExact(r) == Fetched(r, OwnRow(r.rows))

\* The dumps that come whole: by code the rows, of which the last one is kept.
Codes(rows) == {rows[i].code : i \in DOMAIN rows} \ {NoCode}
RowsOfCode(rows, c) == SelectSeq(rows, LAMBDA row : row.code = c)
Dump(rows) ==
  IF rows = <<>> THEN NoData
  ELSE Found([c \in Codes(rows) |-> Last(RowsOfCode(rows, c)).val])

FetchFundamentalsExact(r) == Fetched(r, Dump(r.rows))
FetchListingInfoExact(r) == Fetched(r, Dump(r.rows))
FetchOTCListingInfoExact(r) == Fetched(r, Dump(r.rows))
parseRevenue(r) == Fetched(r, Dump(r.rows))
FetchIndustryForeignExact(r) == Fetched(r, Dump(r.rows))

\* A stock has any number of block trades in a day.
FetchBlockTradesExact(r) ==
  Fetched(r, IF r.rows = <<>> THEN NoData
             ELSE Found([c \in Codes(r.rows) |-> RowsOfCode(r.rows, c)]))

-----------------------------------------------------------------------------
(* TAIFEX answers a day without data with a page that re-renders its form. *)
Downloaded(r, parsed) ==
  CASE r.outcome = "rows" -> parsed
    [] r.outcome = "html" -> NoData
    [] OTHER -> Error

\* parsePCRCSV: one row under a header.
parsePCRCSV(rows) == IF rows = <<>> \/ ~Head(rows).wide THEN Error ELSE Found(Head(rows).val)
fetchPCROnce(r) == Downloaded(r, parsePCRCSV(r.rows))

\* parseVIXMonth: the last row of the month that is not after the day; lines of
\* another form are skipped, whatever the body is.
parseVIXMonth(rows) ==
  LET past == SelectSeq(rows, LAMBDA row : row.day <= Today)
  IN  IF past = <<>> THEN NoData ELSE Found(Last(past))

fetchVIXMonth(r) ==
  CASE r.outcome \in {"refused", "status"} -> Error
    [] r.outcome = "rows" -> parseVIXMonth(r.rows)
    [] OTHER -> NoData

\* The alias table of parseTAIFEXFuturesCSV, exact.
Parties == {"dealer", "trust", "foreign"}
Canonical(party) == IF party = "foreign and mainland" THEN "foreign" ELSE party
Nobody == [p \in Parties |-> 0]

\* Mutant: a party that was seen before is overwritten.
AttributableAgain(seen, row) == row.form = "data" /\ Canonical(row.party) \in Parties

\* A row that is not padding is as wide as the header says, carries a number, and
\* is of a known party that has no row yet.
Attributable(seen, row) ==
  row.form = "data" /\ Canonical(row.party) \in Parties \ seen

\* The rows in turn; the first that cannot be attributed is an error.
Take(acc, row) ==
  IF row.form = "blank" \/ ~acc.ok THEN acc
  ELSE IF ~Attributable(acc.seen, row) THEN [acc EXCEPT !.ok = FALSE]
  ELSE [acc EXCEPT !.seen = @ \cup {Canonical(row.party)},
                   !.net[Canonical(row.party)] = row.net]

Taken(rows) ==
  LET upto[n \in 0..Len(rows)] ==
        IF n = 0 THEN [ok |-> TRUE, seen |-> {}, net |-> Nobody]
        ELSE Take(upto[n - 1], rows[n])
  IN  upto

parseTAIFEXFuturesCSV(rows) ==
  LET end == Taken(rows)[Len(rows)]
  IN  IF end.ok THEN Found(end.net) ELSE Error

\* One contract.  A file with another header is as good as garbled.
fetchTAIFEXOnce(r) == Downloaded(r, parseTAIFEXFuturesCSV(r.rows))

instNet(net) == net["dealer"] + net["trust"] + net["foreign"]
-----------------------------------------------------------------------------
(* The quotes of an open market, from MIS: a figure that is not there is 0. *)
OnlyRows(r, parsed) == IF r.outcome = "rows" THEN parsed ELSE Error

\* pickPrice: the last trade, the one before, the opening.
pickPrice(row) == IF row.z > 0 THEN row.z ELSE IF row.pz > 0 THEN row.pz ELSE row.o

\* classifyTick: without a price or a close to compare it with, untraded.
classifyTick(row) ==
  IF row.y = 0 \/ pickPrice(row) = 0 THEN "untraded"
  ELSE IF pickPrice(row) > row.y THEN "up"
  ELSE IF pickPrice(row) < row.y THEN "down" ELSE "flat"

Ticks(rows) ==
  [d \in {"up", "down", "flat"} |->
     Len(SelectSeq(rows, LAMBDA row : classifyTick(row) = d))]

fetchMISBatch(r) == OnlyRows(r, Found(Ticks(r.rows)))

\* The listing's local name: that of the first row.  A name once found is kept for the
\* life of the process (nameCache); this is the fetch for a stock it does not hold.
LookupName(r) ==
  OnlyRows(r, IF r.rows = <<>> \/ ~Head(r.rows).named THEN Error ELSE Found(1))

(* Yahoo: a chart without a price is an error like any other. *)
Get(r) ==
  OnlyRows(r, IF r.rows = <<>> \/ Head(r.rows).close = 0 THEN Error
              ELSE Found(Head(r.rows).close))

\* GetAt: the last bar up to the day that has a close.
GetAt(r) ==
  LET bars == SelectSeq(r.rows, LAMBDA row : row.day <= Today /\ row.close > 0)
  IN  OnlyRows(r, IF bars = <<>> THEN Error ELSE Found(Last(bars)))

(* GitHub: 404 says that there is nothing there; 429, or 403 with no requests  *)
(* left, that we ask too often.                                               *)
do(r, parsed) ==
  CASE r.outcome = "rows" -> parsed
    [] r.outcome = "missing" -> Gone
    [] r.outcome = "limited" -> RateLimited
    [] OTHER -> Error

\* A profile without a login is no profile.
User(r) == do(r, IF Head(r.rows).named THEN Found(1) ELSE Error)

\* A private repository is not there; the latest release is asked for apart, and
\* is left out however that fails.
Repo(r) ==
  LET raw == Head(r.rows)
  IN  do(r, IF raw.private THEN Gone
            ELSE IF ~raw.named THEN Error ELSE Found(raw.release = "rows"))
-----------------------------------------------------------------------------
Answer(f, r) ==
  CASE f = "t86"          -> FetchT86Exact(r)
    [] f = "lending"      -> FetchTWT93UExact(r)
    [] f = "margin"       -> FetchMIMARGNStockExact(r)
    [] f = "foreign"      -> FetchForeignExact(r)
    [] f = "fundamentals" -> FetchFundamentalsExact(r)
    [] f = "listing"      -> FetchListingInfoExact(r)
    [] f = "otcListing"   -> FetchOTCListingInfoExact(r)
    [] f = "revenue"      -> parseRevenue(r)
    [] f = "industry"     -> FetchIndustryForeignExact(r)
    [] f = "blocktrades"  -> FetchBlockTradesExact(r)
    [] f = "pcr"          -> fetchPCROnce(r)
    [] f = "vix"          -> fetchVIXMonth(r)
    [] f = "futures"      -> fetchTAIFEXOnce(r)
    [] f = "mis"          -> fetchMISBatch(r)
    [] f = "name"         -> LookupName(r)
    [] f = "quote"        -> Get(r)
    [] f = "quoteAt"      -> GetAt(r)
    [] f = "user"         -> User(r)
    [] f = "repo"         -> Repo(r)
Feeds == {"t86", "lending", "margin", "foreign", "fundamentals", "listing", "otcListing",
          "revenue", "industry", "blocktrades", "pcr", "vix", "futures",
          "mis", "name", "quote", "quoteAt", "user", "repo"}

NoReply == [outcome |-> "none", rows |-> <<>>]

Init == feed \in Feeds /\ reply = NoReply /\ answer = NoData

\* One fetch: it keeps nothing for the next one (LookupName's memo aside).
Fetch(r) ==
  /\ reply = NoReply
  /\ reply' = r
  /\ answer' = Answer(feed, r)
  /\ UNCHANGED feed

Next == \E r \in Replies[feed] : Fetch(r)
-----------------------------------------------------------------------------
\* An upstream that cannot be reached, that answers with an error status, or with
\* something that is no file, has not said that there is no data, nor GitHub that
\* there is nobody of the name: its answer must not end up in the caches.  (But a
\* month of the VIX that is not there yet is no data, and so is a month's file
\* without a line of the expected form; and GitHub says "nobody" with a 404.)
OutageIsNotHoliday ==
  (\/ reply.outcome \in {"refused", "status"}
   \/ reply.outcome = "garbled" /\ feed # "vix"
   \/ reply.outcome = "missing" /\ feed \notin {"vix", "user", "repo"}) => answer = Error

\* The sum of what the rows say, up to each of them.
Sums(rows) ==
  LET sum[n \in 0..Len(rows)] ==
        IF n = 0 THEN 0
        ELSE sum[n - 1] + (IF rows[n].form = "blank" THEN 0 ELSE rows[n].net)
  IN  sum

\* "Anything the table doesn't cover is an error rather than a silent drop, as is a
\* repeated party: both would leave the breakdown incomplete or inflated": a
\* futures file that is accepted is summed up to the last of its rows.
EveryRowCounts ==
  feed = "futures" /\ reply.outcome = "rows" /\ answer.is = "found" =>
    instNet(answer.what) = Sums(reply.rows)[Len(reply.rows)]
=============================================================================

-------------------------------- MODULE Dated -------------------------------
(***************************************************************************)
(* A stock page pinned to a day by ?date=: what middleware/date.go lets    *)
(* through, the bar yahoo.Provider.GetAt picks for it (which no cache      *)
(* keeps: quote/cached delegates), and the day the rendered page then      *)
(* spends in internal/htmlcache under its own URL.                         *)
(*                                                                         *)
(* The clock counts in ticks, Day of them from midnight to midnight; the   *)
(* session of a trading day is open from Opens until Closes.  A bar is     *)
(* [day, at]: the day it belongs to and when it was read, at most the      *)
(* moment its session closed: from then on it does not change.             *)
(***************************************************************************)
EXTENDS Integers, FiniteSetsExt

CONSTANTS
  Day,        \* ticks in a day
  Opens,      \* the tick of the day at which the session begins
  Closes,     \* and the one at which it ends
  Trading,    \* the days the exchange trades on
  Lookback,   \* historicalLookbackDays
  MaxPast,    \* dateOverrideMinAge, in ticks
  MaxFuture,  \* dateOverrideMaxFuture, in ticks
  DatedAge,   \* max-age of a dated page, in ticks
  MaxNow      \* bound: the clock stops here

VARIABLES
  now,    \* the wall clock
  pages,  \* htmlcache: by date, the bar on the page and until when it is fresh
  shown   \* the last page served: its date, its bar, when

vars == <<now, pages, shown>>

Dates == 0..(MaxNow \div Day + 1)
Nothing == [date |-> 0, bar |-> [day |-> 0, at |-> 0], when |-> 0]

Init ==
  /\ now = Day
  /\ pages = [d \in Dates |-> [bar |-> [day |-> 0, at |-> 0], until |-> 0]]
  /\ shown = Nothing

\* The day of time.Now(), to which GetAt clamps a date in the future.
Today == now \div Day
Least(a, b) == IF a < b THEN a ELSE b

\* The upstream's side: when the bar of a trading day is final.
ClosedAt(d) == d * Day + Closes

\* DateOverrideDetector: midnight of the date, at most MaxPast ago and MaxFuture
\* ahead; any other ?date= is ignored.
InRange(d) == now - MaxPast <= d * Day /\ d * Day <= now + MaxFuture

\* The bars Yahoo has by now, from Lookback days before the date to its end.
\* GetAt takes "now" for a date in the future.
Bars(d) ==
  LET asOf == Least(d, Today)
  IN  {b \in Trading : asOf - Lookback <= b /\ b <= asOf /\ b * Day + Opens <= now}

\* GetAt: the latest of them, "closed" whatever the hour.
BarFor(d) ==
  LET b == Max(Bars(d))
  IN  [day |-> b, at |-> Least(now, ClosedAt(b))]

Serve(d, bar) == shown' = [date |-> d, bar |-> bar, when |-> now]

\* htmlcache has the page.
Hit(d) ==
  /\ InRange(d) /\ now < pages[d].until
  /\ Serve(d, pages[d].bar)
  /\ UNCHANGED <<now, pages>>

\* What a dated page's max-age makes of it: it is kept for a day.
Keep(d, bar) == pages' = [pages EXCEPT ![d] = [bar |-> bar, until |-> now + DatedAge]]

\* The page is rendered from the bar GetAt has for its date.
Render(d) ==
  /\ InRange(d) /\ now >= pages[d].until
  /\ Bars(d) # {}
  /\ Serve(d, BarFor(d))
  /\ Keep(d, BarFor(d))
  /\ UNCHANGED now

\* No bar, or Yahoo is away: 503, which is not kept.
Unavailable(d) ==
  /\ InRange(d) /\ now >= pages[d].until
  /\ UNCHANGED vars

Tick ==
  /\ now < MaxNow
  /\ now' = now + 1
  /\ UNCHANGED <<pages, shown>>

Next == Tick \/ \E d \in Dates : Hit(d) \/ Render(d) \/ Unavailable(d)

Spec == Init /\ [][Next]_vars

-----------------------------------------------------------------------------
\* The page of a past date shows the last session up to that date, as it ended:
\* "a historical snapshot, immutable upstream" (service/stock/stock.go, on the
\* max-age of dated pages).
PastIsSettled ==
  shown.when >= (shown.date + 1) * Day =>
    LET last == Max({b \in Trading : b <= shown.date})
    IN  shown.bar = [day |-> last, at |-> ClosedAt(last)]
=============================================================================

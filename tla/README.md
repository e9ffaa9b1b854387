# imagelet in TLA+

A verification project for `imagelet`, the HTTP service that renders stock
quotes, GitHub profiles, DNS records and a few static pages as HTML, PNG, SVG
or text. The service keeps no database. What it has instead are caches: in front
of every upstream, around every rendered page, on disk between two processes.
Most of what can go wrong in it goes wrong between two goroutines that share a
cache, between two processes that share a directory, or between an upstream that
fails in part and a page that is made of twenty upstreams; so that is where
these models are.

## 1. The system

| Component | State | Operations | Talks to |
| --- | --- | --- | --- |
| `internal/ttlcache` | map + recency list, singleflight group | `Get`, `Set`, `GetOrFetch`, `All` | every walk-back cache of `service/stock/twse` |
| snapshots (`ttlcache/snapshot.go`, `twse.LoadSnapshots`/`SaveSnapshots`, `cmd/imagelet/main.go`) | one JSON file per cache, a temporary file while saving | load at start, save at graceful shutdown | ttlcache, the disk, signals |
| `internal/htmlcache` | map + recency list of responses, a channel per key in flight | the gin middleware | every page handler |
| request middlewares (`middleware/region.go`, `client.go`, `date.go`, `internal/i18n`) | values stashed on one request | country, locale, surface, day | htmlcache's key, handlers |
| quote cache, profile caches, DNS cache (`*/cached/cached.go`) | map of entries with deadline and error, singleflight group | `Get`, `User`, `Repo`, `Lookup` | Yahoo, GitHub, the resolver |
| `middleware/iplimit` | a token bucket per IP | `allow` | `/github`, `/dns` |
| walk-back caches (`twse/cached_walkback.go`, `exact.go`) | a ttlcache keyed by trading day, or by "latest" | `Get…` for a day | TWSE, TPEx, TAIFEX |
| holders dump (`twse/holders.go`, `CachedHolders`) | one entry, the last and the previous dump | `GetHoldersDistribution` | TDCC |
| market aggregate and live breadth (`twse/twse.go`, `breadth_live.go`) | one value with time and error; two lists of stocks | `Get`, `GetAt`, `FetchLiveBreadth` | TWSE, MIS |
| fetchers (`twse/*.go`, `quote/yahoo`, `github/profile`) | none | one reply to found / no data / error | HTTP |
| `/stock`, `/github`, `/dns` handlers | none | compose providers, choose rows, status and `Cache-Control` | everything above |
| DNS resolver (`dns/resolver/lookup.go`) | an egress limiter | nine-way fan-out with fallback | resolvers |
| reqcounter, `/metrics` and `/sysinfo` | counters, a refreshed pointer | count, snapshot | |
| rendering, static pages, i18n catalogs, logger, server wiring | none | pure | |

They interact in three ways. A request passes reqcounter, the region, locale
and client middlewares and htmlcache before its handler, and htmlcache decides
from the *response* (status, type, `Cache-Control`) whether to keep it. A
handler calls its providers, each behind its own cache with its own flight per
key; a flight runs with the context of the request that leads it. The process
loads the ttlcaches from disk before it listens and saves them after it has
drained its connections.

### What is hard, and what makes each component correct

* **ttlcache.** Two lookups around a flight, a list and a map kept in step by
  hand. Correct when a key is fetched once at a time and only when it is cold,
  when the list and the map are one thing, when the cache holds the most recently
  used keys, and when every call returns.
* **snapshots.** A crash between any two steps, a disk that fails, a new build
  that reads an old file. Correct when no file is ever truncated or lost, nothing
  expired comes back, and a graceful shutdown saves what it can.
* **htmlcache.** A leader may store, decline, fail or panic, and its release is
  two steps. Correct when a hit is the page that was asked for and older than its
  `max-age` by no more than its own request was held up, and every request is
  answered.
* **stale-serving caches.** The entry is read under the mutex, looked at outside
  it, used after a flight and then changed in place or replaced. Correct when a
  value and an error are never mismatched, an old value never passes for a fresh
  one without a reason, and the lifetimes of the value and of the page made of it
  add up to no more than their sum.
* **iplimit.** Idle buckets are forgotten. Correct when forgetting cannot be
  noticed.
* **walk-back caches.** A lifetime chosen before the fetch it is for; "no data" is
  an answer that is kept, and sends the reader to an older day. Correct when what
  is passed over cannot have been known for longer than the longest lifetime, when
  a day that is out on time shows, and when a partial answer is held briefly.
* **holders dump.** An entry under one lock and two dumps under another, one of
  which survives a restart. Correct when a week is compared with an earlier one: it is, unless
  the dump rotates while a page is between the two locks.
* **market aggregate, live breadth.** A time stamp that failures renew, too.
  Correct when an old value passes for fresh only after a failure, and no outage
  takes the rows away from who had them.
* **fetchers.** Every upstream says "closed" in its own way. Correct when an outage
  is never taken for a day without data, and no row of a file is dropped silently.
* **/stock.** What is asked for and what is shown are gated apart, by the kind of
  symbol, the session, the date and the language. Correct when a page shows what
  belongs on it, and a feed that fails takes nothing else with it.
* **DNS resolver.** Nine queries of which one decides and one error cancels the
  rest. Correct when only the NS query says that a name does not exist, when
  "throttled" is said only of who was, and when every lookup ends.

`PROJECT.json` lists the hazards one by one, at their lines, with the properties
that cover them.

## 2. Modules

| Module | Models | Notes |
| --- | --- | --- |
| `LRU` | `container/list` as both LRU caches use it | operators on sequences; extended by the two caches |
| `TTLCache` | `internal/ttlcache/ttlcache.go` and the singleflight group | extends `LRU` |
| `Request` | what the middlewares and `/stock` derive from a request; `cacheKey` | operators on a request record |
| `HTMLCache` | `internal/htmlcache/htmlcache.go` | composes `LRU` and `Request` |
| `Snapshot` | `ttlcache/snapshot.go`, the snapshot part of `cached_walkback.go`, `main.go` | |
| `StaleCache` | the quote, profile and DNS caches | one module, `kind` chooses the cache |
| `Pages` | what the three handlers make of those caches' answers, and how long htmlcache keeps it | extends `StaleCache` |
| `TokenBucket` | the promise of a rate limit | abstract specification |
| `IPLimit` | `middleware/iplimit` | implements `TokenBucket` by a refinement mapping |
| `Resolver` | `dns/resolver/lookup.go` | one `Lookup` among others that drain the limiter |
| `Market` | the walk-back and dump caches of `cached_walkback.go`, the exact-day fetches of `exact.go` | on top of what `TTLCache` shows |
| `Holders` | `holders.go`, `CachedHolders` and its persistence | |
| `Aggregate` | `twse.Cached.Get` and `GetAt`, `FetchLiveBreadth`, `fetchUniverse` | one module, `kind` chooses the feed |
| `Fetchers` | the fetchers and parsers of TWSE, TPEx, TAIFEX, MIS, Yahoo and GitHub | one operator per fetcher |
| `Card` | `renderSymbol` and `buildBlocks` of `/stock` | |
| `Dated` | pages with `?date=`: the window, Yahoo's `GetAt`, the max-age of a day | |
| `Limits` | the two token buckets side by side | extends `IPLimit`, composes `Resolver` |
| `Stock` | the parts of a stock page beside the daily feeds | extends `Holders`, composes `Aggregate`, `Fetchers`, `Card` |
| `LRUProofs`, `TTLCacheProofs`, `HTMLCacheProofs`, `SnapshotProofs`, `PagesProofs`, `LimitsProofs`, `MarketProofs`, `StockProofs` | theorems | section 4 |
| `MC…` | instances for TLC | |

**TTLCache.** One action per piece of `GetOrFetch` between two
synchronisations: `Call` (the first `Get`), `Enter` (singleflight: join or
lead), `Recheck` (the second `Get`), `Answer` (the upstream), `Store` (`Set`),
`Finish` (the flight ends), `Return` (a waiter runs again). `Put` is all of
`Set`, eviction loop included. `SetEntry` is a `Set` from outside a flight.
An answer is a payload and the time it was fetched at. `used` and `seen` are
history variables: the keys by last use, and how new an answer each goroutine
has seen.

**Request.** `Page(r)` identifies the page the handlers render for `r`: what it
is about, its language, its surface, and whether it has the Taiwan block.
`CacheKey(r)` is the record of what `cacheKey` hashes; the hash is taken to be
injective.

**HTMLCache.** `Arrive` reads the clock, and so does `Wake`, behind a leader;
`Lookup`/`Relook` are the two lookups, which compare with that reading; `held`, a
history variable, counts the time that passes between it and the end of `serve`.
`Acquire` is `acquireFlight`, `Render` the handler chain of a leader (a page, an
error status, or a panic that only the deferred release survives),
`RenderAlone` that of a follower, `Store` is `store` with the deadline counted
from arrival, and `Release` and `Close` are the two halves of `releaseFlight`.

**Snapshot.** `phase` is where `main` is and `turn` the cache that is being
loaded or saved. `LoadOne` is `loadOne` on top of `LoadJSONFile`; `OpenTmp`,
`WriteTmp` and `RenameTmp` are the steps of `SaveJSONFile` at which the disk
changes, each with its failure; `Die` is a kill, an out-of-memory, or one of
`main`'s `log.Fatal`s, at any point. `Fill` lets any entries be evicted, which
is weaker than what `TTLCache` shows of eviction.

**StaleCache.** Entries live on a heap, because goroutines hold pointers to
them across a flight and write through them: `Peek` copies the pointer under
the mutex, `Check` reads the entry after the unlock, `Answer` ends a flight for
its leader and all who wait on it, and `Settle` lets each of them write what it
got (`Extend` in place, `Replace` in the map, or nothing at all for
`ErrSelfThrottled`). Reading a deadline that another goroutine is changing is a
data race in the code; the model reads the old or the new value.
A value is the time at which the upstream gave it.

**Pages.** `Responses` is the handlers' mapping from outcome to page: the value,
the value marked as old, GitHub's banner, or an error that htmlcache does not
keep, each with its max-age. `Visit` and `Respond` wrap the steps of `StaleCache`;
`Limited` is the per-IP limit, whose banner htmlcache also keeps.

**IPLimit.** Fractions of a token become integer units: a tick is the time in
which one unit flows in, and a request takes `Cost`. The observer
(`watched`, `spent`, `since`) starts to count one client's grants at any moment.

**Resolver.** `Dial` is `pickResolver`, then each record type has its goroutine:
`Queue` (the check of the context), `Pass` or `Refuse` (`limiter.Wait`), and one
of `Answer`, `BadCode` and `Broken`. `failure` is errgroup's first error, which
also cancels the group; `End` the deadline or a client that hangs up;
`Elsewhere` the rest of the process at the same limiter.

**Market.** A call walks back: `Look` is one probe's `GetOrFetch`, `AnswerOK` and
`AnswerError` the exact-day fetch, `Fixup` the second `Set` of
`GetRetailFutures`, which may land on a newer entry. `TTLForAsOf` is evaluated
in `Look`, before the fetch. `publishedAt` is the upstream's side: when each day's
data appears. `failedAt` is a history variable.

**Holders.** `Rotate` and `Compare` are the two critical sections of the second
lock, `Store` the first one's; `Restart` keeps the file and drops `previous`.

**Aggregate.** `Read` copies the value under the mutex, `Decide` looks at the copy,
`FetchMarket` and `FetchBreadth` are the flight's closure with its write under the
mutex, and `Handed` gives who gets an error the value of its own copy.
`WalkBack` is `GetAt`.

**Fetchers.** A reply is an outcome (no connection, a status, HTML, something that
is no file, "no data", rows) and its rows; each operator is one fetcher.

**Card.** `Asked` is what `renderSymbol` asks for, `Groups` what `buildBlocks`
makes of it, in order, rows as sets of segments. The initial page has every fact;
each step takes one away.

**Dated.** Time is in ticks, several a day. `Bars` are those Yahoo has by now.

**Composition.** `HTMLCache` composes the recency list with the request; `Pages`
lies on `StaleCache`; `Limits` puts the two token buckets side by side, `MCWaits` these
and the two caches with flights of their own, and `Stock` the parts of a stock page
that have their own modules. In these three the initial state chooses one part and the variables of
the others rest: they share no variable in the code either.

## 3. Runs

| Run | Expected | Shows |
| --- | --- | --- |
| `ttlcache_all` | pass | `ListMatchesMap`, `HoldsMostRecent`, `OneFetchPerKey`, `FetchOnlyWhenCold`, `MonotoneReads`: two goroutines and outside `Set`s on three expiring keys in two slots |
| `htmlcache_page` | pass | `ServesOwnPage`, `YoungUpToOwnDelay`, `OneLeaderPerKey`, `ListMatchesMap` over two language versions and a terminal version of a page |
| `snapshot_life` | pass | `NoResurrection`, `SavedUnlessFailed`, `KeepsSnapshot` over restarts, crashes and failing disks |
| `pages_all` | pass | `ValueFitsError`, `StaleOnlyInBackoff` for all three stale-serving caches, `PagesAreYoung`, `BannerIsRecent` for the pages made of them |
| `waits_end` | pass | what holds a request up: `WithinBudget`, `ImplementsTokenBucket` for visitors; `NSDecides`, `ThrottledByLimiter`, `EveryLookupEnds` for DNS queries; `EveryCallReturns`, `EveryRequestEnds` behind every kind of leader, in both caches with flights of their own |
| `market_days` | pass | `NewestWithinADay`, `OnTimeDayShows`, `PartialIsBrief` from Monday's opening into Tuesday, for four kinds of feed and three schedules |
| `stock_page` | pass | `ComparesBackwards`, `MirrorsEntry` (holders), `OldOnlyAfterFailure`, `OutageKeepsValue` (aggregate), `OutageIsNotHoliday`, `EveryRowCounts` (fetchers), `OnlyWhatBelongs`, `FailsAlone` (card) |
| `htmlcache_region` | violation | `ServesOwnPage`: finding 1 |
| `snapshot_leftover` | violation | `SavedOnGracefulShutdown`: finding 2 |
| `market_pinned` | violation | `FailureIsBrief`: finding 3 |
| `dated_settled` | violation | `PastIsSettled`: finding 4 |
| `holders_race` | violation | `CarriesPriorWeek`: finding 5 |

The type invariants are checked in the passing runs, too. To run one:
`tlc -config TTLCache_all.cfg MCTTLCache`.

### Findings

1. **A region-routed page is cached across regions.** `GET /stock` picks its
   symbol by `CF-IPCountry`; `cacheKey` (htmlcache.go:414) knows the country only
   through the locale. US and JP share `en`, TW and HK share `zh-TW`: the second
   visitor gets the first one's index. The comment above `cacheKey` promises that
   "two requests producing different bodies don't collide".
   The same comment says of the surface that "the bit suffices": that bit is a
   prefix test of the User-Agent (htmlcache.go:437), while `middleware.classify`
   (client.go:212) looks for bots first, so a crawler with a `Mozilla/` prefix shares
   a browser's key and not its page. The run shows that, too, with `BotPages` in
   place of `RegionPages`.
2. **A crash during a save disables that cache's snapshots.** `<path>.tmp`
   outlives the process, `O_EXCL` (snapshot.go:143) refuses to open it again, and
   nothing removes it. The `--cache-dir` help says "saved on graceful shutdown".
3. **A failure is cached as a day without data.** When both mini contracts fail and
   the big one answers, `FetchTAIFEXFuturesExact` (exact.go:155) returns
   `found = false` and no error, and the day is skipped for 24 hours, against
   "hold the degraded answer only briefly".
4. **A page pinned to today is kept as history.** Every `?date=` gets a max-age of a
   day (stock.go:535), also today's, whose bar is still growing: the next morning
   the page shows yesterday's unfinished bar as its close, against "a historical
   snapshot, immutable upstream".
5. **A week compared with itself.** `GetHoldersDistribution` reads the dump of the
   week from the cache and `previous` later, under the other lock
   (cached_walkback.go:466). If the entry expires in between and another goroutine
   brings the next week, `previous` is the very dump the page holds: its drift is
   zero, where holders.go:86 promises "the prior week's snapshot".
6. **A name without NS records is a success.** docs/dns.md:108 gives a 404 also when
   "NS came back empty on success", and resolver.go:105 says the same of
   `ErrNotFound`. `Lookup` (lookup.go:173) makes an empty row of it and
   returns the records of the other types; the comments in lookup.go (lines 42 and
   173) want it so. The document and the comment of `ErrNotFound` are out of date.
   `waits_end` has an empty answer to the NS query among its answers, and passes with
   `NSDecides`, which says that "not found" is an NXDOMAIN and nothing else.

What does hold in their place: `SavedUnlessFailed` and `KeepsSnapshot` for 2,
`NewestWithinADay` for 3, `ComparesBackwards` for 5 (unless the dump rotated
meanwhile).

### Behaviour worth knowing

Seen while modelling; none has a run of its own, because the code's own words leave
room for it or the models allow it by design.

* The middleware reads the clock before it takes the mutex (htmlcache.go:154, and
  166 behind a leader) and not again: a request that is held up there or in `serve`
  is given a page past its max-age by that delay. `YoungUpToOwnDelay` says that
  nothing else is added, neither the leader's time to render nor the waiter's wait.
* A goroutine whose cache had no value when it started, and whose refresh fails,
  replaces an entry that another stored meanwhile (quote/cached/cached.go:106);
  the profile and DNS caches are alike.
* A stale quote is a fresh hit without an error for the ten minutes of the failure
  TTL (quote/cached/cached.go:102), and its page has the full max-age and no
  STALE tag. `StaleOnlyInBackoff` and `PagesAreYoung` bound it.
* GitHub's `ErrRateLimited` is looked at before the stale value, which is dropped.
* A visitor over the per-IP limit gets a 200 with `max-age=60`, and htmlcache
  keeps it for everyone who asks for that page in the next minute
  (`Limited` in `Pages`).
* A record-type query that the deadline cuts off drops its row, and `Lookup`
  succeeds if the NS query had its answer; a client that hangs up in the preflight
  counts as `ErrUnavailable` and is cached as such.
* `twse.Cached` retries a failed refresh only after the success TTL once it has a
  value (twse.go:973), and the page drops the rows that come with the error
  (stock.go:263): they vanish from one page and are back on the next.
* A futures file that lacks a party is accepted with a zero; an HTML page from
  TAIFEX, an error page included, is a day without data; VIX returns the last row
  up to the day under the day's key.

### Bounds, and why they are enough

* *Goroutines.* Three in `htmlcache_page`: a leader, one who waits on it and one who
  arrives between its release and the waiter's awakening. Two where the
  question is about two accesses to one entry, or about liveness behind a leader,
  where symmetry cannot be used.
* *Capacity 1 with two keys or more, or 2 with three*: every insertion can evict. In
  `ttlcache_all` the capacity comes from `New(0)`.
* *Clocks* stop after two ticks where expiry only has to happen, and after three to
  eight elsewhere: entries expire, are replaced, and in the longer runs expire
  again.
* *TTLs* are small numbers in the order of the code's defaults: quotes live
  shorter than their failures (60 s against 10 min), profiles longer (5 min
  against 1 min), "not found" longest (1 h). `MinTTLs` are a TTL below the DNS
  clamp and one above it. The max-ages of `pages_all` include one above the
  value's TTL, as a closed market's is.
* *market_days*: Friday, a weekend, Monday and Tuesday, four ticks a day; the clock
  runs from Monday's opening past the hour of publication into Tuesday. Monday's
  data come on time, late (after the hour, when the 24-hour lifetime is already
  given out) or never. `FailSets` are the failures of no contract, of the large
  one, of both minis. One key is evictable. `market_pinned` needs one goroutine.
* *stock_page*: three weeks of dumps, of which the stock is missing from the first;
  four hours are two ticks; one batch of quotes per exchange; every file of up to
  two rows of each form, three for the futures and the VIX; every fact of the
  card's can be lost, in any combination, except `previous`, `per`, `pbr` and
  `listed since`, which only add a segment to a row.
* *waits_end*: a burst of two requests, one request per two ticks, so a bucket can
  be empty, half way to a token, at one, or full; `Cleanup` is the least the
  assumption admits, the hardest case. The code's 30/min, burst 30 and five
  minutes satisfy it with room. Three record types are the one that decides, one
  with addresses and one that comes with others' records; the remaining ones
  differ from these in nothing but their row. Each of the two caches holds one entry,
  which expires once, for two goroutines: of two keys in the one, of a page that is
  kept and one that never is in the other.
* *holders_race*: two goroutines, three weeks, and an entry that expires in between.
* *snapshot_life*: two caches, one that is saved before or after the other one's
  save has failed. Two schemas: an upgrade and a roll-back.
* *dated_settled*: four days of four ticks, one of them without a session.

Deadlock is checked in the snapshot runs, where some step is always possible.
In the others it is off because the clock stops by the bound, and goroutines, a
lookup or a fetch may by then have nothing left to do.

### Fairness

Weak fairness of each goroutine's steps in `TTLCache` and `HTMLCache`: the Go
scheduler runs what is runnable, and fetches and handlers end because every
upstream client carries a timeout. Nobody is obliged to make a request, and time is
not obliged to pass: neither `Call`, `Arrive` nor `Tick` is fair. In `Resolver`
each record type's goroutine is fair, and so is `End`, the five-second deadline;
that the limiter ever has a token is not assumed. `MCWaits` states the
same conditions for the part that runs.

## 4. Proofs

TLC checks small instances; the theorems below hold for every value of the
constants that satisfies the assumption its module states by name. `PROJECT.json`
lists them with what each establishes.

* **`LRUProofs`**: what promoting, unlinking and pushing do to a list of distinct
  keys: its length, its keys, that they stay distinct.
* **`TTLCacheProofs`**: `ListMatchesMap` and `OneFetchPerKey` are inductive only
  together with the singleflight map (`FlightsOK`: it points at the leaders, at
  nobody else, and whoever waits, waits on an entry of it) and with what a busy
  goroutine carries (`CallsOK`). From the same invariant `SafeInv` follows
  `NoOrphanWaiter`, the reason why `EveryCallReturns` holds.
  On top of `SafeInv` stands what the cache hands out. `FetchOnlyWhenCold`
  is inductive: only its leader stores a key, and time turns nothing fresh.
  `MonotoneReads` needs the order in which answers stand to each other
  (`ReadsInv`): whatever was given for a key is no newer than its entry; the
  entry is no newer than what a leader is about to store; what a woken waiter
  still has to return lies between what it was given before and the entry.
  `HoldsMostRecent` follows from the list being the beginning of the history of
  uses, element by element, through promotions, pushes and trims.
* **`HTMLCacheProofs`**: `CacheInv` says that map and list agree, that leaders are
  registered until they have released, and that every entry is filed under the key
  of the page it holds, for no longer than its max-age (`Filed`). `ServedUpToOwnDelay`
  adds that nobody looks with a clock older than what he has been held up since
  (`Counted`), which holds because a waiter reads it anew when it wakes. `ServedOwn` is
  proved under the hypothesis `KeyDeterminesPage`: requests that are kept and have
  one key have one page. That is what the comment above `cacheKey` claims, and
  what finding 1 refutes: the rest of the cache keeps its promise.
* **`SnapshotProofs`**: `StateOK` says of memory, of every file and of every temporary
  file alike that no entry outlives its TTL; `NoResurrection` alone is not
  inductive, because files come back. `SaveOK` says how far a save has come: the
  temporary file that is about to be renamed is a copy of its cache, and what is
  before the turn is on disk or could not be. `SavedUnlessFailed` and
  `KeepsSnapshot` follow. They assume that "no file" and "a file that is none" are
  not snapshots, which a model value satisfies and an untyped constant need not.

* **`LimitsProofs`**: a dropped bucket would have been full (`DroppedIsFull`), so an
  account of what was granted and what flowed in (`Account`) is kept over drops;
  with it `WithinBudget`, and each step of `IPLimit` is one of `TokenBucket` or
  stutters. For a lookup, `LookupInv`: every error a goroutine hands to the group
  stays traceable to the query it comes from (`ThrottleTraced`), and the NS query
  cannot end without an answer and without an error (`NSReports`). Assumes that "NS"
  is among the record types and, for the refinement, the idle time of `IPLimit`'s
  own assumption.
* **`PagesProofs`**: entries are shared by pointer and changed in place, so the
  invariant is about the heap: it holds what somebody points to and nothing else
  (which is why a new identity never meets an old pointer), each entry belongs to
  one key (`HeapOK`), and its deadline is explained by its value's age or by a
  failure of that key. A flight's outcome is no older than the questions of all who
  share it. `ValueFitsError` and `StaleOnlyInBackoff` follow; for `PagesAreYoung` and
  `BannerIsRecent` a page's own deadline is added to that of the entry it was made
  of. Assumes finitely many goroutines and keys, and a longest max-age.
* **`MarketProofs`**: `Fair(d, t, failed)` says that who asks at `t` cannot complain
  that day `d` is passed over. Fairness at an instant implies fairness at every
  earlier one, so an entry is only asked to be fair at the last instant it can be
  hit (`EntriesOK`), and a walk at the instant its call began (`CallsOK`). A
  lifetime is chosen before the fetch it is for; `ShortTTL` keeps what was known
  then: before the publishing hour it is at most `minTodayTTL`. Joining a flight needs
  no word of its own, because whoever joins reads the leader's answer at its end.
  `NewestWithinADay` and `OnTimeDayShows` follow, and `PartialIsBrief` is part of
  the invariant. That there is a next day for a walk to probe (`NextBack`) follows
  from the library's well-founded order of the naturals.
* **`StockProofs`**: one invariant per part; the others rest while one moves.
  *Holders*: the leader of the flight is alone and has no live entry against him;
  weeks only move forward; what a page holds is the last dump as long as nothing
  rotated under it. *Aggregate*: a copied value is as old as the time beside it says
  or has outlived a failure since (`Aged`), a copy made after a success holds a
  value, and failures only get younger; so what a caller is handed, of whichever
  copy, is excused (`Answered`). *Fetchers*: by cases on the feeds, what did not
  answer is an error whatever rows it carries. For `EveryRowCounts` the parser's
  accounts and the sum of the rows are followed side by side: as long as no row was
  rejected they agree, and a party that was not seen has nothing to its name
  (`Balanced`); a step keeps that for any row, so it holds at the end of a file of any
  length. *Card*: `renderSymbol` and `buildBlocks` are gated apart, so the argument for
  `OnlyWhatBelongs` goes row by row: a row is not shown, or every segment of it fits
  the page (`Fitting`). For `FailsAlone`, what a page is made of loses with a fact that
  fact, the sector's mean with the sector, and may gain a listed name (`After`);
  what is left of two pieces of a page is what is left of each (`WithoutJoined`), so
  the pages are compared piece by piece (`Same`), and the separators, one of
  which `Body` drops, count for nothing.

Both `EveryRowCounts` and `FailsAlone` go through data of any length. The
library's induction theorems take an operator the provers cannot instantiate;
`UpTo` is induction for a set of numbers, by a least counterexample, and
`StepByStep` builds the function a recursive definition chooses, step by step. For them
the futures parser of `Fetchers` and `Without` of `Card` are recursive functions and
not a fold and a filter; `BreadthRows` and `RetailRows` of `Card` are concatenations of
rows that may be empty. The assumptions of `StaleCache` and `Pages` name what was
tacit: that lifetimes and max-ages are positive; that of `Stock`, that the rows of a
futures file have a form, a party and a figure.

Only model-checked: liveness (`EveryCallReturns`, `EveryRequestEnds`,
`EveryLookupEnds`) with the fairness it rests on, which is out of the provers' reach.
Every other property of a passing run has its theorem. `Dated` has none: its only
run exhibits a finding.

## 5. Not modelled

* Bodies, prices, wording and layout: a page is what it is about. Rendering,
  static pages and i18n catalogs are pure functions of it.
* Inputs of a request besides the ones `Request` lists: `Host`, `CF-Timezone` and
  `?tz=`. They choose links and clocks on a page. Validation of names and symbols,
  and captions.
* Parsing of numbers and dates, and the rules of `safehttp`. `Fetchers` has what
  makes a row count, and one number in place of its figures.
* `nameCache` (breadth_live.go:478), where the names of `LookupName` stay for the life
  of the process: the model's `LookupName` is that of a name it does not hold, and no
  property depends on it.
* A panic inside a singleflight, which `golang.org/x/sync` turns into the end of the
  process. Panicking handlers are modelled, in `HTMLCache`.
* The `entries` maps of the stale-serving caches only grow; a bounded model
  cannot tell.
* `All` returns entries in no order, and the snapshot is a map.
* reqcounter, `/metrics`, `/sysinfo`: counters that are read and written in one
  statement, a pointer that is replaced as a whole. A model would restate them.
* Logger, server construction and flags: sequential, without state.
* The mutex that `fetchUniverse` holds during a request: it delays the others and
  changes no result, so the model has no step for it. Decoding of DNS records and
  the AD bit.
* `/github` and `/dns` beyond what they do with an outcome, and the `User-Agent` rules
  beyond the ones that decide a surface.

## 6. Plan

Done: the caches and what persists and limits them; the providers above them; the
pages made of those; the proofs of section 4. What is left, in this order:

1. An abstract cache (a key has an answer that may vanish at any time, and moves
   forward) that `TTLCache` and `StaleCache` implement, with `ReadsInv` as the
   heart of the refinement of the first, proved step by step.
2. `Market` on `TTLCache` instead of on what was shown of it, for a capacity that
   evicts in the middle of a walk.
3. A `/stock` page over several providers with their caches, where lifetimes add up as
   they do in `Pages`.

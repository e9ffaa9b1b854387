---------------------------- MODULE MCHTMLCache ----------------------------
(* Instances of HTMLCache for TLC. *)
EXTENDS HTMLCache, TLC

CONSTANTS g1, g2, g3

TwoProcs == {g1, g2}
ThreeProcs == {g1, g2, g3}

Browser == {"prefix"}
Ask(path, country, lang, ua) ==
  [method |-> "GET", path |-> path, lang |-> lang, region |-> "", format |-> "",
   country |-> country, ua |-> ua, accept |-> "any"]

\* Goroutines are interchangeable.
ProcSymmetry == Permutations(Procs)

\* Two visitors of one stock page whose locales differ, and a third who asks
\* from a terminal and gets what is never kept.
SymbolPages ==
  {Ask("/stock/2330.TW", "TW", "", Browser), Ask("/stock/2330.TW", "US", "", Browser)}
ThreeVisits == SymbolPages \cup {Ask("/stock/2330.TW", "TW", "", {"cli"})}

\* The region-routed page, from two countries that share a locale.
RegionPages == {Ask("/stock", "US", "", Browser), Ask("/stock", "JP", "", Browser)}

\* In place of these: a stock page, asked for by a browser and by a bot that
\* unfurls links under a User-Agent that starts with "Mozilla/" (Discordbot),
\* with the same Accept.
Unfurler == {"prefix", "bot"}
BotPages ==
  {Ask("/stock/2330.TW", "US", "", Browser), Ask("/stock/2330.TW", "US", "", Unfurler)}
=============================================================================

------------------------------ MODULE Request ------------------------------
(***************************************************************************)
(* What the request middlewares and the page handlers derive from one GET  *)
(* request: country, locale, surface, symbol, and the page it asks for;    *)
(* and the key internal/htmlcache files that page under.                   *)
(*                                                                         *)
(* A request is a record                                                   *)
(*   method   GET or another verb                                          *)
(*   path     "/", "/stock", "/now", or a stock page "/stock/<symbol>"     *)
(*   lang     ?lang=    region  ?region=   format  ?format=  ("" = absent) *)
(*   country  the CF-IPCountry header, upper-cased ("" = absent)           *)
(*   ua       the markers found in the User-Agent: "Mozilla/" as its       *)
(*            prefix, "mozilla" further in, a CLI tool, an unfurl bot      *)
(*   accept   "any" or "pylon"                                             *)
(* Bodies, labels and prices are abstracted to what identifies the page.   *)
(***************************************************************************)
EXTENDS Integers, Sequences

\* middleware.GetCountry: what RegionDetector stashed, or the default.
Country(r) == IF r.country = "" THEN "US" ELSE r.country

\* i18n.parseLocaleQuery: ?lang= values that are recognised, lower-cased.
LangLocale ==
  [l \in {"en", "zh", "zh-tw", "zh-hant", "zh-cn", "zh-hans"} |->
     IF l = "en" THEN "en"
     ELSE IF l \in {"zh-cn", "zh-hans"} THEN "zh-CN" ELSE "zh-TW"]

\* i18n.countryToLocale
CountryLocale ==
  [c \in {"TW", "HK", "MO", "CN", "SG"} |->
     IF c \in {"CN", "SG"} THEN "zh-CN" ELSE "zh-TW"]

\* i18n.resolveLocale: ?lang=, then the country, then English.
Locale(r) ==
  IF r.lang \in DOMAIN LangLocale THEN LangLocale[r.lang]
  ELSE IF Country(r) \in DOMAIN CountryLocale THEN CountryLocale[Country(r)]
  ELSE "en"

\* middleware.classify: CLI tools first, then bots, then browsers.
Classify(ua) ==
  IF "cli" \in ua THEN "ascii"
  ELSE IF "bot" \in ua THEN "png"
  ELSE IF ua \cap {"prefix", "inside"} # {} THEN "html"
  ELSE "png"

\* middleware.ResolveMode: a known ?format= beats the User-Agent.
ResolveMode(r) ==
  IF r.format \in {"html", "svg", "png", "ascii"} THEN r.format ELSE Classify(r.ua)

\* middleware.WantsPylonSource, which handlers ask before ResolveMode.
WantsPylonSource(r) == r.accept = "pylon" \/ r.format = "pylon"

Surface(r) == IF WantsPylonSource(r) THEN "pylon" ELSE ResolveMode(r)

\* stock.resolveCountry: ?region= beats the header.
StockCountry(r) == IF r.region # "" THEN r.region ELSE Country(r)

\* stock.symbolByCountry and symbolFor.
SymbolByCountry ==
  [TW |-> "^TWII", US |-> "^GSPC", JP |-> "^N225",
   HK |-> "^HSI", GB |-> "^FTSE", DE |-> "^GDAXI"]
SymbolFor(c) == IF c \in DOMAIN SymbolByCountry THEN SymbolByCountry[c] ELSE "^GSPC"

\* stock.isTWSymbol, for the stock pages of the model.
TWSymbols == {"^TWII", "2330.TW", "6488.TWO"}

\* The symbol a stock page is about: routed by region, or named in the path.
PathSymbol == [p \in {"/stock/2330.TW", "/stock/AAPL"} |->
                 IF p = "/stock/AAPL" THEN "AAPL" ELSE "2330.TW"]
Symbol(r) == IF r.path = "/stock" THEN SymbolFor(StockCountry(r)) ELSE PathSymbol[r.path]

IsStock(r) == r.path = "/stock" \/ r.path \in DOMAIN PathSymbol

\* The page a handler renders: what it is about, in which language and on which
\* surface, and whether it carries the Taiwan block (which English pages drop).
Page(r) ==
  [about |-> IF IsStock(r) THEN Symbol(r) ELSE r.path,
   locale |-> Locale(r),
   surface |-> Surface(r),
   enriched |-> IsStock(r) /\ Symbol(r) \in TWSymbols /\ Locale(r) # "en"]

\* shouldStore on the response of a successful render: only HTML is kept, and
\* only from a route that sends max-age (/now sends no-store).
Storable(r) == Surface(r) = "html" /\ r.path # "/now"

\* Mutant: the key leaves the locale out.
CacheKeyWithoutLocale(r) ==
  [method |-> r.method, path |-> r.path,
   query |-> [lang |-> r.lang, region |-> r.region, format |-> r.format],
   accept |-> r.accept, mozilla |-> "prefix" \in r.ua]

\* htmlcache.cacheKey: method, path, sorted query, Accept, whether the
\* User-Agent starts with "Mozilla/" (isMozilla), and the locale.
CacheKey(r) ==
  [method |-> r.method, path |-> r.path,
   query |-> [lang |-> r.lang, region |-> r.region, format |-> r.format],
   accept |-> r.accept, mozilla |-> "prefix" \in r.ua, locale |-> Locale(r)]
=============================================================================

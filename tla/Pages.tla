-------------------------------- MODULE Pages --------------------------------
(***************************************************************************)
(* The pages the /stock, /github and /dns handlers make of what the caches *)
(* of StaleCache answer, and their stay in internal/htmlcache.             *)
(*                                                                         *)
(* Two caches lie on top of each other, each with lifetimes of its own,    *)
(* and between them the handler decides: which answers become a page (the  *)
(* others are errors, which htmlcache does not keep), for how long the     *)
(* page may be shown (max-age), and whether it says that its data is old.  *)
(* The per-IP limit of /github and /dns answers with a page as well.       *)
(*                                                                         *)
(* One page is followed per key, the one browsers get; htmlcache's own     *)
(* steps are module HTMLCache's matter: here a request finds the page, or  *)
(* its handler runs.                                                       *)
(***************************************************************************)
EXTENDS StaleCache

CONSTANTS
  OkAges,     \* by kind, the max-ages of a page without an error
  BannerAge   \* rateLimitMaxAge and staleMaxAge, the same for all

ASSUME PagesAssumption ==
  /\ \A k \in Kinds : /\ OkAges[k] \subseteq Nat \ {0}
                      /\ \E a \in OkAges[k] : \A b \in OkAges[k] : b <= a
  /\ BannerAge \in Nat \ {0}

VARIABLE page   \* htmlcache: by key, the page, until when it is fresh

pageVars == <<vars, page>>

\* What a page says: a value, a value marked as old, that the upstream has had
\* enough of us, or that this visitor's IP has used up its budget.
NoPage == [says |-> "nothing", val |-> NoValue, until |-> 0]

PInit == Init /\ page = [k \in Keys |-> NoPage]

Fresh(k) == now < page[k].until

\* A page with this text, and its max-age.
Html(says, val, age) == [says |-> says, val |-> val, age |-> age]
Kept(says, val, ages) == {Html(says, val, age) : age \in ages}
\* An error status: 404, 502 or 503, with or without a max-age.
Error == {Html("error", NoValue, 0)}

\* Mutant: the banner gets the max-age of any other page.
OnFailureOneAge(val) ==
  (IF val = NoValue THEN Error ELSE Kept("stale", val, OkAges[kind]))
    \cup (IF kind = "profile" THEN Kept("banner", NoValue, OkAges[kind]) ELSE {})

\* The quote page with its STALE tag has the max-age of any quote; the others
\* append "( stale data )" and are kept a minute.  GitHub's rate limit is a
\* banner, value or no value.
OnFailure(val) ==
  LET ages == IF kind = "quote" THEN OkAges[kind] ELSE {BannerAge}
  IN  (IF val = NoValue THEN Error ELSE Kept("stale", val, ages))
        \cup (IF kind = "profile" THEN Kept("banner", NoValue, {BannerAge}) ELSE {})

\* What the handler may respond with.
Responses(p) ==
  CASE call[p].got = "ok"   -> Kept("value", call[p].val, OkAges[kind])
    [] call[p].got = "fail" -> OnFailure(call[p].val)
    [] OTHER                -> Error

\* Mutant: the page's lifetime is counted from the moment it is stored.
UntilFromStore(p, age) == now + age

\* A page is fresh for its max-age, counted from the request's arrival.
Until(p, age) == call[p].asked + age

\* The request found no fresh page: the handler runs.
Visit(p, k) == ~Fresh(k) /\ Peek(p, k) /\ UNCHANGED page

\* Or the limit of its IP stops it; the banner is a page like any other.
Limited(p, k) ==
  /\ kind # "quote"
  /\ At(p, "idle") /\ ~Fresh(k)
  /\ page' = [page EXCEPT ![k] = [says |-> "limit", val |-> NoValue,
                                  until |-> now + BannerAge]]
  /\ UNCHANGED vars

\* The response goes out; if it is a page, and this request leads htmlcache's
\* flight, it is kept.
Respond(p) ==
  LET k == call[p].key
  IN  /\ Return(p)
      /\ \/ UNCHANGED page
         \/ \E r \in Responses(p) :
              /\ r.age # 0
              /\ now < Until(p, r.age)
              /\ page' = [page EXCEPT ![k] = [says |-> r.says, val |-> r.val,
                                              until |-> Until(p, r.age)]]

\* Time passes; a page past its deadline is as good as gone.
Expire ==
  /\ Tick
  /\ page' = [k \in Keys |-> IF now' < page[k].until THEN page[k] ELSE NoPage]

PNext ==
  \/ \E p \in Procs, k \in Keys : Visit(p, k) \/ Limited(p, k)
  \/ \E p \in Procs : \/ (Check(p) \/ Enter(p) \/ Answer(p) \/ Settle(p)) /\ UNCHANGED page
                      \/ Respond(p)
  \/ Expire

PSpec == PInit /\ [][PNext]_pageVars
-----------------------------------------------------------------------------
LongestAge == CHOOSE a \in OkAges[kind] : \A b \in OkAges[kind] : b <= a

\* The two lifetimes add up and no more: a page that does not say its data is
\* old shows a value younger than a value's and a page's lifetime together, or a
\* refresh has failed no longer ago than a failure's and a page's lifetime.
PagesAreYoung ==
  \A k \in Keys : Fresh(k) /\ page[k].says = "value" =>
    \/ now < page[k].val + Longest + LongestAge
    \/ now < failedAt[k] + FailTTL[kind] + LongestAge

\* GitHub's trouble is over for the visitor soon after it is over: the banner is
\* shown no longer than a failure's lifetime and a minute after the last failure.
BannerIsRecent ==
  \A k \in Keys : Fresh(k) /\ page[k].says = "banner" =>
    now < failedAt[k] + FailTTL[kind] + BannerAge
=============================================================================

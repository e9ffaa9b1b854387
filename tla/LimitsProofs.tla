---------------------------- MODULE LimitsProofs ----------------------------
(***************************************************************************)
(* Proofs about the two limits and about the Lookup behind the second, for *)
(* any clients, budgets, record types, resolvers, answers and burst.       *)
(***************************************************************************)
EXTENDS Limits, TLAPS

(***************************************************************************)
(* Resolver.  What a Lookup reports is the first error that one of its     *)
(* goroutines handed to the group; the argument is that each of these      *)
(* errors stays traceable to the query it comes from, and that the NS      *)
(* query cannot end without an answer and without an error.                *)
(***************************************************************************)

\* Where a query is and how it ended.
QueryStates == [pc : {"start", "gate", "sent", "back"}, preCancelled : BOOLEAN,
            out : {"none", "answer", "NXDOMAIN", "SERVFAIL", "denied", "cut",
                   "cancelled", "broken"}]

\* Every query is somewhere, and a Lookup is over when all are back, or none left.
Shape ==
  /\ phase \in {"preflight", "fanout", "done"} /\ over \in BOOLEAN
  /\ query \in [Types -> QueryStates]
  /\ phase = "preflight" => failure = "none" /\ \A t \in Types : L!At(t, "start")
  /\ phase = "done" =>
       L!Back \/ (failure = "unavailable" /\ \A t \in Types : L!At(t, "start"))

\* The NS query comes back with an answer, or the group has an error; "not found"
\* is its own.
NSReports ==
  /\ L!At("NS", "back") => L!Outs("NS") = "answer" \/ failure # "none"
  /\ failure = "notFound" => L!At("NS", "back") /\ L!Outs("NS") = "NXDOMAIN"

\* "Self-throttled" goes back to a query that the limiter denied or the caller cut.
ThrottleTraced ==
  failure = "selfThrottled" =>
    \E t \in Types : L!At(t, "back") /\ L!Outs(t) \in {"denied", "cut"}

\* The inductive invariant.
LookupInv == Shape /\ NSReports /\ ThrottleTraced

\* At the start nothing has been sent.
LEMMA InitInv == ASSUME L!Init PROVE LookupInv
  BY LimitsAssumption
     DEF L!Init, LookupInv, Shape, NSReports, ThrottleTraced, L!Unsent, QueryStates,
         L!At, L!Back, L!Outs

\* A query that ends with an error: its outcome is kept, and the group's error is
\* the first one that was handed to it.
LEMMA FailKeepsInv ==
  ASSUME LookupInv, NEW t \in Types, NEW err, NEW out, L!Fail(t, err, out),
         phase = "fanout", ~L!At(t, "back"),
         out \in {"NXDOMAIN", "SERVFAIL", "denied", "cut", "cancelled", "broken"},
         err \in {"notFound", "unavailable", "ended", "selfThrottled"},
         err = "notFound" => out = "NXDOMAIN",
         err = "selfThrottled" => out \in {"denied", "cut"} \/ failure # "none"
  PROVE  LookupInv'
<1> USE DEF L!At, L!Outs
<1>1. /\ UNCHANGED <<phase, over>>
      /\ failure' = IF L!Propagates(t, err) THEN L!First(err) ELSE failure
      /\ query' \in [Types -> QueryStates]
      /\ query'[t].pc = "back" /\ query'[t].out = out
      /\ \A u \in Types : u # t => query'[u] = query[u]
  BY DEF L!Fail, LookupInv, Shape, QueryStates
<1>2. Shape'
  BY <1>1 DEF LookupInv, Shape
<1>3. NSReports'
  BY <1>1, LimitsAssumption DEF LookupInv, NSReports, L!Propagates, L!First
<1>4. ThrottleTraced'
  BY <1>1 DEF LookupInv, ThrottleTraced, L!Propagates, L!First
<1> QED BY <1>2, <1>3, <1>4 DEF LookupInv

\* A query that is on its way is so while the Lookup fans out.
LEMMA UnderWay ==
  ASSUME LookupInv, NEW t \in Types, query[t].pc \in {"gate", "sent"}
  PROVE  phase = "fanout" /\ ~L!At(t, "back")
  BY DEF LookupInv, Shape, L!Back, L!At

\* Who gives up waiting for a token without an error of the group has been cut off
\* by the caller's end.
LEMMA RefuseKeepsInv ==
  ASSUME LookupInv, NEW t \in Types, L!Refuse(t)
  PROVE  LookupInv'
<1>1. phase = "fanout" /\ ~L!At(t, "back")
  BY UnderWay DEF L!Refuse, L!At
<1>2. CASE L!Cancelled
  <2> DEFINE err == IF query[t].preCancelled THEN "ended" ELSE "selfThrottled"
             out == IF over THEN "cut" ELSE "cancelled"
  <2>1. L!Fail(t, err, out)
    BY <1>2 DEF L!Refuse, L!GivesUp
  <2>2. err \in {"ended", "selfThrottled"} /\ out \in {"cut", "cancelled"}
        /\ (out = "cut" \/ failure # "none")
    BY <1>2 DEF L!Cancelled
  <2> HIDE DEF err, out
  <2> QED BY <1>1, <2>1, <2>2, FailKeepsInv
<1>3. CASE ~L!Cancelled
  <2>1. L!Fail(t, "selfThrottled", "denied")
    BY <1>3 DEF L!Refuse, L!GivesUp
  <2> QED BY <1>1, <2>1, FailKeepsInv
<1> QED BY <1>2, <1>3

\* The exchange ends with a response code, or breaks.
LEMMA ErrorKeepsInv ==
  ASSUME LookupInv, NEW t \in Types,
         L!Broken(t) \/ \E code \in {"NXDOMAIN", "SERVFAIL"} : L!BadCode(t, code)
  PROVE  LookupInv'
<1>1. phase = "fanout" /\ ~L!At(t, "back")
  BY UnderWay DEF L!Broken, L!BadCode, L!At
<1>2. CASE L!Broken(t)
  <2> DEFINE err == IF L!Cancelled THEN "ended" ELSE "unavailable"
             out == IF over THEN "cut" ELSE IF L!Cancelled THEN "cancelled" ELSE "broken"
  <2>1. L!Fail(t, err, out)
    BY <1>2 DEF L!Broken
  <2>2. err \in {"ended", "unavailable"} /\ out \in {"cut", "cancelled", "broken"}
    OBVIOUS
  <2> HIDE DEF err, out
  <2> QED BY <1>1, <2>1, <2>2, FailKeepsInv
<1>3. ASSUME NEW code \in {"NXDOMAIN", "SERVFAIL"}, L!BadCode(t, code) PROVE LookupInv'
  <2> DEFINE err == IF code = "NXDOMAIN" THEN "notFound" ELSE "unavailable"
  <2>1. L!Fail(t, err, code)
    BY <1>3 DEF L!BadCode
  <2>2. err \in {"notFound", "unavailable"} /\ (err = "notFound" => code = "NXDOMAIN")
    OBVIOUS
  <2> HIDE DEF err
  <2> QED BY <1>1, <1>3, <2>1, <2>2, FailKeepsInv
<1> QED BY <1>2, <1>3

\* A query moves on, or is answered: no error comes of it.
LEMMA MoveKeepsInv ==
  ASSUME LookupInv, NEW t \in Types,
         L!Queue(t) \/ L!Pass(t) \/ \E answer \in RRSets : L!Answer(t, answer)
  PROVE  LookupInv'
<1> USE DEF L!At, L!Outs
<1>1. phase = "fanout" /\ query[t].pc # "back"
  BY UnderWay DEF L!Queue, L!Pass, L!Answer
<1>2. /\ UNCHANGED <<phase, over, failure>>
      /\ query' \in [Types -> QueryStates]
      /\ \A u \in Types : u # t => query'[u] = query[u]
      /\ query'[t].pc = "back" => query'[t].out = "answer"
  <2>1. query[t] \in QueryStates /\ query \in [Types -> QueryStates]
    BY DEF LookupInv, Shape
  <2>2. CASE L!Queue(t)
    <3>1. L!Cancelled \in BOOLEAN
      BY DEF L!Cancelled, LookupInv, Shape
    <3> QED BY <2>1, <2>2, <3>1 DEF L!Queue, QueryStates
  <2>3. CASE L!Pass(t)
    BY <2>1, <2>3 DEF L!Pass, QueryStates
  <2>4. ASSUME NEW answer \in RRSets, L!Answer(t, answer)
        PROVE  /\ UNCHANGED <<phase, over, failure>>
               /\ query' \in [Types -> QueryStates]
               /\ \A u \in Types : u # t => query'[u] = query[u]
               /\ query'[t].pc = "back" => query'[t].out = "answer"
    BY <2>1, <2>4 DEF L!Answer, QueryStates
  <2> QED BY <2>2, <2>3, <2>4
<1>3. Shape'
  BY <1>1, <1>2 DEF LookupInv, Shape
<1>4. NSReports' /\ ThrottleTraced'
  BY <1>1, <1>2, LimitsAssumption DEF LookupInv, NSReports, ThrottleTraced
<1> QED BY <1>3, <1>4 DEF LookupInv

\* The rest of a Lookup touches no query.
LEMMA RestKeepsInv ==
  ASSUME LookupInv, L!Pick \/ L!Join \/ L!End \/ L!Elsewhere \/ UNCHANGED L!vars
  PROVE  LookupInv'
<1> USE DEF LookupInv, Shape, NSReports, ThrottleTraced, L!At, L!Outs, L!Back
<1>1. CASE \E answers \in BOOLEAN : L!Dial(answers)
  BY <1>1 DEF L!Dial
<1>2. CASE L!NoResolver
  BY <1>2 DEF L!NoResolver
<1>3. CASE L!Join
  BY <1>3 DEF L!Join
<1>4. CASE L!End
  BY <1>4 DEF L!End
<1>5. CASE L!Elsewhere
  BY <1>5 DEF L!Elsewhere
<1>6. CASE UNCHANGED L!vars
  BY <1>6 DEF L!vars
<1> QED BY <1>1, <1>2, <1>3, <1>4, <1>5, <1>6 DEF L!Pick

\* Every step keeps it.
LEMMA InvInductive ==
  ASSUME LookupInv, [L!Next]_(L!vars)
  PROVE  LookupInv'
<1>1. ASSUME NEW t \in Types, L!Step(t) PROVE LookupInv'
  BY <1>1, MoveKeepsInv, RefuseKeepsInv, ErrorKeepsInv DEF L!Step
<1> QED BY <1>1, RestKeepsInv DEF L!Next

\* The inductive invariant is one.
THEOREM LookupSafe == L!Spec => []LookupInv
<1>1. L!Init => LookupInv
  BY InitInv
<1>2. LookupInv /\ [L!Next]_(L!vars) => LookupInv'
  BY InvInductive
<1> QED BY <1>1, <1>2, PTL DEF L!Spec

\* The two limits side by side are each what they are alone.
LEMMA PartsAlone == LSpec => Spec /\ L!Spec
<1>1. LInit => Init /\ L!Init BY DEF LInit
<1>2. [LNext]_<<limit, vars, lookupVars>> => [Next]_vars /\ [L!Next]_(L!vars)
  BY DEF LNext, Visitors, Queries, vars, lookupVars, L!vars
<1> QED BY <1>1, <1>2, PTL DEF LSpec, Spec, L!Spec

\* Only the NS query decides on existence (lookup.go, Lookup), whatever the other
\* queries, of whatever types and however many, come back with: a success has had
\* its answer, empty or not, and "not found" its NXDOMAIN.
THEOREM OnlyNSDecides == LSpec => []NSDecides
<1>1. LookupInv => NSDecides
  BY LimitsAssumption
     DEF LookupInv, Shape, NSReports, NSDecides, L!NSDecides, L!Done, L!OK, L!Outs,
         L!Back, L!At
<1> QED BY <1>1, LookupSafe, PartsAlone, PTL

\* A Lookup is never told it was throttled by a sibling's error (lookup.go,
\* exchange).
THEOREM ThrottleIsReal == LSpec => []ThrottledByLimiter
<1>1. LookupInv => ThrottledByLimiter
  BY DEF LookupInv, ThrottleTraced, ThrottledByLimiter, L!ThrottledByLimiter, L!Done
<1> QED BY <1>1, LookupSafe, PartsAlone, PTL

-----------------------------------------------------------------------------
(***************************************************************************)
(* IPLimit.                                                                *)
(***************************************************************************)
USE IPLimitAssumption

\* The observer's account: what the watched client has been granted and what
\* he could still spend come out of one burst and of what has flowed in.
Account == TypeOK /\ spent + Level(watched) <= Full + (now - since)

\* A bucket holds between nothing and Full, however long it fills.
LEMMA AdvanceBounds ==
  ASSUME NEW b \in Buckets, now \in Nat, b.last <= now
  PROVE  /\ Advance(b) \in 0..Full
         /\ Advance(b) >= b.tokens
  BY DEF Advance, Buckets

\* A bucket the clean-up drops is full.
LEMMA DroppedIsFull ==
  ASSUME TypeOK, NEW c \in DOMAIN buckets, c \notin Kept
  PROVE  Advance(buckets[c]) = Full
<1>1. buckets[c] \in Buckets /\ buckets[c].last <= buckets[c].lastSeen
  BY DEF TypeOK
<1>2. now - buckets[c].lastSeen > Cleanup
  BY <1>1 DEF Kept, Buckets, TypeOK
<1>3. now - buckets[c].last >= Full
  BY <1>1, <1>2 DEF Buckets, TypeOK
<1> QED BY <1>1, <1>3 DEF Advance, Buckets, TypeOK

\* What Allow works on is worth what the client could spend before it.
LEMMA FoundIsLevel ==
  ASSUME TypeOK, NEW c \in Clients
  PROVE  /\ Found(c) \in Buckets
         /\ Found(c).last <= Found(c).lastSeen /\ Found(c).lastSeen <= now
         /\ Advance(Found(c)) = Level(c)
         /\ Level(c) \in 0..Full
<1>1. CASE c \in Kept
  <2>1. c \in DOMAIN buckets /\ Found(c) = buckets[c]
    BY <1>1 DEF Kept, Found
  <2> QED BY <2>1, AdvanceBounds DEF TypeOK, Level, Buckets
<1>2. CASE c \notin Kept
  <2>1. Found(c) = [tokens |-> Full, last |-> now, lastSeen |-> now]
    BY <1>2 DEF Found
  <2>2. Found(c) \in Buckets /\ Advance(Found(c)) = Full
    BY <2>1 DEF Buckets, Advance, TypeOK
  <2>3. Level(c) = Full
    BY <1>2, DroppedIsFull DEF Level
  <2> QED BY <2>1, <2>2, <2>3 DEF TypeOK
<1> QED BY <1>1, <1>2

\* What Allow leaves: a well-formed bucket, charged exactly for a grant.
LEMMA DrawnIsCharged ==
  ASSUME TypeOK, NEW c \in Clients
  PROVE  /\ Drawn(c) \in Buckets
         /\ Drawn(c).last <= Drawn(c).lastSeen /\ Drawn(c).lastSeen = now
         /\ Advance(Drawn(c)) = IF Level(c) >= Cost THEN Level(c) - Cost ELSE Level(c)
<1> DEFINE b == Found(c)
<1>1. /\ b \in Buckets /\ b.last <= b.lastSeen /\ b.lastSeen <= now
      /\ Advance(b) = Level(c) /\ Level(c) \in 0..Full
  BY FoundIsLevel
<1>2. CASE Level(c) >= Cost
  <2>1. Drawn(c) = [tokens |-> Level(c) - Cost, last |-> now, lastSeen |-> now]
    BY <1>1, <1>2 DEF Drawn
  <2> QED BY <2>1, <1>1, <1>2 DEF Buckets, Advance, TypeOK
<1>3. CASE ~(Level(c) >= Cost)
  <2>1. Drawn(c) = [b EXCEPT !.lastSeen = now]
    BY <1>1, <1>3 DEF Drawn
  <2> HIDE DEF b
  <2>2. Drawn(c) \in Buckets /\ Drawn(c).last = b.last /\ Drawn(c).tokens = b.tokens
        /\ Drawn(c).lastSeen = now
    BY <2>1, <1>1 DEF Buckets, TypeOK
  <2> QED BY <2>2, <1>1, <1>3 DEF Advance, Buckets
<1> QED BY <1>2, <1>3

\* A request of a client moves his level alone, and by the price of a grant.
LEMMA AllowLevels ==
  ASSUME TypeOK, NEW c \in Clients, Allow(c), NEW d \in Clients
  PROVE  Level(d)' = IF d = c /\ Level(c) >= Cost THEN Level(d) - Cost ELSE Level(d)
<1>1. now' = now /\ DOMAIN buckets' = Kept \cup {c}
  BY DEF Allow
<1>2. CASE d = c
  <2>1. d \in DOMAIN buckets' /\ buckets'[d] = Drawn(c)
    BY <1>1, <1>2 DEF Allow
  <2>2. Level(d)' = Advance(Drawn(c))
    BY <2>1, <1>1 DEF Level, Advance
  <2> QED BY <2>2, <1>2, DrawnIsCharged
<1>3. CASE d # c /\ d \in Kept
  <2>1. d \in DOMAIN buckets /\ d \in DOMAIN buckets' /\ buckets'[d] = buckets[d]
    BY <1>1, <1>3 DEF Allow, Kept
  <2> QED BY <2>1, <1>1, <1>3 DEF Level, Advance
<1>4. CASE d # c /\ d \notin Kept
  <2>1. Level(d)' = Full
    BY <1>1, <1>4 DEF Level
  <2>2. Level(d) = Full
    BY <1>4, DroppedIsFull DEF Level
  <2> QED BY <2>1, <2>2, <1>4
<1> QED BY <1>2, <1>3, <1>4

\* With the passing of a tick everybody's level rises by one unit, up to Full.
LEMMA TickLevels ==
  ASSUME TypeOK, Tick, NEW d \in Clients
  PROVE  Level(d)' = IF Level(d) < Full THEN Level(d) + 1 ELSE Full
<1>1. now' = now + 1 /\ buckets' = buckets
  BY DEF Tick
<1>2. CASE d \in DOMAIN buckets
  <2>1. buckets[d] \in Buckets /\ buckets[d].last <= now
    BY <1>2 DEF TypeOK, Buckets
  <2> QED BY <1>1, <1>2, <2>1 DEF Level, Advance, Buckets, TypeOK
<1>3. CASE d \notin DOMAIN buckets
  BY <1>1, <1>3 DEF Level
<1> QED BY <1>2, <1>3

\* The account balances from the start and every step keeps it.
LEMMA AccountInductive == Account /\ [Next]_vars => Account'
<1> SUFFICES ASSUME Account, [Next]_vars PROVE Account'
  OBVIOUS
<1>0. TypeOK /\ spent + Level(watched) <= Full + (now - since)
  BY DEF Account
<1>1. ASSUME NEW c \in Clients, Allow(c) PROVE Account'
  <2>1. /\ UNCHANGED <<now, watched, since>>
        /\ DOMAIN buckets' = Kept \cup {c}
        /\ \A x \in Kept \cup {c} : buckets'[x] = IF x = c THEN Drawn(c) ELSE buckets[x]
        /\ buckets' = [x \in DOMAIN buckets' |-> buckets'[x]]
    BY <1>1 DEF Allow
  <2>2. Kept \subseteq DOMAIN buckets
    BY DEF Kept
  <2>3. passed' = [client |-> c, ok |-> Level(c) >= Cost]
    BY <1>0, <1>1, FoundIsLevel DEF Allow
  <2>4. spent' = IF c = watched /\ Level(c) >= Cost THEN spent + Cost ELSE spent
    BY <1>0, <1>1, FoundIsLevel DEF Allow
  <2>5. TypeOK'
    BY <1>0, <2>1, <2>2, <2>3, <2>4, DrawnIsCharged DEF TypeOK
  <2>6. Level(watched)' = IF watched = c /\ Level(c) >= Cost THEN Level(watched) - Cost
                          ELSE Level(watched)
    BY <1>0, <1>1, <2>1, AllowLevels DEF TypeOK
  <2>7. Level(watched) \in 0..Full
    BY <1>0, FoundIsLevel DEF TypeOK
  <2> QED BY <1>0, <2>1, <2>4, <2>5, <2>6, <2>7 DEF Account, TypeOK
<1>2. ASSUME AllowUnknown PROVE Account'
  BY <1>0, <1>2 DEF Account, AllowUnknown, observer, TypeOK, Level, Advance
<1>3. ASSUME Tick PROVE Account'
  <2>1. TypeOK'
    <3>1. now' = now + 1 /\ now' \in 0..MaxNow
          /\ UNCHANGED <<buckets, passed, watched, spent, since>>
      BY <1>0, <1>3 DEF TypeOK, Tick, observer
    <3>2. \A c \in DOMAIN buckets : buckets[c] \in Buckets
      BY <1>0 DEF TypeOK
    <3>3. \A c \in DOMAIN buckets : buckets[c].lastSeen <= now'
      BY <1>0, <3>1, <3>2 DEF TypeOK, Buckets
    <3>4. since' \in 0..now'
      BY <1>0, <3>1 DEF TypeOK
    <3> QED BY <1>0, <3>1, <3>3, <3>4 DEF TypeOK
  <2>2. Level(watched)' = IF Level(watched) < Full THEN Level(watched) + 1 ELSE Full
    BY <1>0, <1>3, TickLevels DEF TypeOK, Tick, observer
  <2>3. Level(watched) \in 0..Full
    BY <1>0, FoundIsLevel DEF TypeOK
  <2> QED BY <1>0, <1>3, <2>1, <2>2, <2>3 DEF Account, Tick, observer, TypeOK
<1>4. ASSUME Watch PROVE Account'
  <2>1. TypeOK'
    BY <1>0, <1>4 DEF TypeOK, Watch
  <2>2. Level(watched)' \in 0..Full
    BY <2>1, FoundIsLevel, <1>0, <1>4 DEF Watch, TypeOK, Level, Advance
  <2> QED BY <1>0, <1>4, <2>1, <2>2 DEF Account, Watch, TypeOK
<1>5. CASE UNCHANGED vars
  BY <1>0, <1>5 DEF Account, vars, TypeOK, Level, Advance
<1> QED BY <1>1, <1>2, <1>3, <1>4, <1>5 DEF Next

LEMMA AccountInitially == Init => Account
  BY DEF Init, Account, TypeOK, Level

\* The state has its types in every behaviour.
THEOREM TypeCorrect == Spec => []TypeOK
<1>1. Account => TypeOK
  BY DEF Account
<1> QED BY <1>1, AccountInitially, AccountInductive, PTL DEF Spec

\* No client is ever granted more than a burst and what has flowed in.
THEOREM Budget == Spec => []WithinBudget
<1>1. Account => WithinBudget
  <2> SUFFICES ASSUME Account PROVE WithinBudget
    OBVIOUS
  <2>1. Level(watched) \in 0..Full
    BY FoundIsLevel DEF Account, TypeOK
  <2> QED BY <2>1 DEF Account, WithinBudget, TypeOK
<1> QED BY <1>1, AccountInitially, AccountInductive, PTL DEF Spec

\* The limiter with its clean-up implements one bucket per client for ever.
THEOREM Refinement == Spec => ImplementsTokenBucket
<1>1. Init => Promise!Init
  BY DEF Init, Promise!Init, Level
<1>2. TypeOK /\ [Next]_vars => [Promise!Next]_(Promise!tokens)
  <2> SUFFICES ASSUME TypeOK, [Next]_vars PROVE [Promise!Next]_(Promise!tokens)
    OBVIOUS
  <2> DEFINE level == [c \in Clients |-> Level(c)]
  <2>0. \A c \in Clients : Level(c) \in 0..Full
    BY FoundIsLevel
  <2>1. ASSUME NEW c \in Clients, Allow(c) PROVE Promise!Next
    <3>1. level' = [d \in Clients |-> IF d = c /\ Level(c) >= Cost THEN Level(d) - Cost
                                      ELSE Level(d)]
      BY <2>1, AllowLevels
    <3>2. UNCHANGED <<watched, now - since>>
      BY <2>1 DEF Allow
    <3>3. /\ passed' = [client |-> c, ok |-> Level(c) >= Cost]
          /\ spent' = IF c = watched /\ Level(c) >= Cost THEN spent + Cost ELSE spent
      BY <2>1, FoundIsLevel DEF Allow
    <3>4. CASE Level(c) >= Cost
      <4>1. level' = [level EXCEPT ![c] = @ - Cost]
        BY <3>1, <3>4
      <4>2. passed' = [client |-> c, ok |-> TRUE]
        BY <3>3, <3>4
      <4>3. Promise!Grant(c)
        BY <3>2, <3>3, <3>4, <4>1, <4>2 DEF Promise!Grant
      <4> QED BY <4>3 DEF Promise!Next
    <3>5. CASE ~(Level(c) >= Cost)
      <4>1. level' = level
        BY <3>1, <3>5
      <4>2. passed' = [client |-> c, ok |-> FALSE]
        <5>1. (Level(c) >= Cost) = FALSE
          BY <3>5
        <5> QED BY <3>3, <5>1, Zenon
      <4>3. level[c] < Cost
        BY <2>0, <3>5
      <4>4. Promise!Refuse(c)
        BY <3>2, <3>3, <3>5, <4>1, <4>2, <4>3 DEF Promise!Refuse
      <4> QED BY <4>4 DEF Promise!Next
    <3> QED BY <3>4, <3>5
  <2>2. ASSUME AllowUnknown PROVE Promise!Next
    <3>1. level' = level
      BY <2>2 DEF AllowUnknown, Level, Advance
    <3>2. Promise!Exempt
      BY <2>2, <3>1 DEF AllowUnknown, observer, Promise!Exempt
    <3> QED BY <3>2 DEF Promise!Next
  <2>3. ASSUME Tick PROVE Promise!Next
    <3>1. level' = [c \in Clients |-> IF level[c] < Full THEN level[c] + 1 ELSE Full]
      BY <2>3, TickLevels
    <3>2. (now - since)' = (now - since) + 1
      BY <2>3 DEF Tick, observer, TypeOK
    <3>3. Promise!Flow
      BY <2>3, <3>1, <3>2 DEF Tick, observer, Promise!Flow
    <3> QED BY <3>3 DEF Promise!Next
  <2>4. ASSUME Watch PROVE Promise!Next
    <3>1. level' = level
      BY <2>4 DEF Watch, Level, Advance
    <3>2. (now - since)' = 0
      BY <2>4 DEF Watch, TypeOK
    <3>3. Promise!Watch
      BY <2>4, <3>1, <3>2 DEF Watch, Promise!Watch
    <3> QED BY <3>3 DEF Promise!Next
  <2>5. CASE UNCHANGED vars
    <3>1. level' = level
      BY <2>5 DEF vars, Level, Advance
    <3> QED BY <2>5, <3>1 DEF vars, Promise!tokens
  <2> QED BY <2>1, <2>2, <2>3, <2>4, <2>5 DEF Next
<1> QED BY <1>1, <1>2, TypeCorrect, PTL DEF Spec, ImplementsTokenBucket, Promise!Spec
=============================================================================

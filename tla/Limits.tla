------------------------------- MODULE Limits -------------------------------
(***************************************************************************)
(* The two token buckets in the way of a request, each with its module:    *)
(* the one that lets a visitor in (IPLimit) and the one that lets a DNS     *)
(* query out (Resolver).  The initial state chooses one; the variables of  *)
(* the other rest.                                                         *)
(***************************************************************************)
EXTENDS IPLimit, Sequences

CONSTANTS Types, Servers, RRSets, Burst, NoTTL   \* Resolver

\* The query that decides is one of those that are sent.
ASSUME LimitsAssumption == "NS" \in Types /\ Burst \in Nat

VARIABLES limit, phase, server, over, tokens, query, failure, rec, minTTL

lookupVars == <<phase, server, over, tokens, query, failure, rec, minTTL>>

L == INSTANCE Resolver

Visitors == limit = "visitors" /\ UNCHANGED <<limit, lookupVars>>
Queries == limit = "queries" /\ UNCHANGED <<limit, vars>>

LInit == limit \in {"visitors", "queries"} /\ Init /\ L!Init
LNext == (Next /\ Visitors) \/ (L!Next /\ Queries)
LSpec == LInit /\ [][LNext]_<<limit, vars, lookupVars>>
-----------------------------------------------------------------------------
\* Only the NS query says whether a name exists (lookup.go, Lookup).
NSDecides == L!NSDecides

\* Who is told he was throttled was throttled, or went away (lookup.go, exchange).
ThrottledByLimiter == L!ThrottledByLimiter

\* Every Lookup ends, also when the limiter never has a token for it (lookup.go,
\* lookupDeadline).
EveryLookupEnds == limit = "queries" => L!EveryLookupEnds
=============================================================================

------------------------------ MODULE IPLimit ------------------------------
(***************************************************************************)
(* middleware/iplimit: the per-IP token buckets in front of /github and    *)
(* /dns.  A request takes the mutex, drops every bucket nobody has used    *)
(* for longer than Cleanup, makes its client a full one when he has none,  *)
(* and asks golang.org/x/time/rate whether it may pass.  The limiter works *)
(* in fractions of a token; here a tick is the time one unit takes to flow *)
(* in, and a request costs Cost units.                                     *)
(***************************************************************************)
EXTENDS Integers

CONSTANTS
  Clients,  \* IPs that can be told apart
  NoIP,     \* clientIP could not tell: the empty string
  Full,     \* burst, in units
  Cost,     \* a token, in units: ticks per request at the sustained rate
  Cleanup,  \* how long a bucket may be idle
  MaxNow    \* bound: the clock stops here

\* A bucket that may be dropped has filled up again: at 30 requests a minute
\* with a burst of 30 that takes one of the five minutes of DefaultCleanup.
ASSUME IPLimitAssumption ==
  /\ NoIP \notin Clients
  /\ Full \in Nat /\ Cost \in Nat \ {0} /\ Cleanup \in Nat /\ MaxNow \in Nat
  /\ Full <= Cleanup + 1

VARIABLES
  now,      \* the clock
  buckets,  \* the map: from clients to their buckets
  passed,   \* what the last request was told: its client, and whether it passed
  watched, spent, since   \* history: an observer who counts one client's grants

vars == <<now, buckets, passed, watched, spent, since>>
observer == <<watched, spent, since>>

Buckets == [tokens : 0..Full, last : 0..MaxNow, lastSeen : 0..MaxNow]

\* rate.Limiter: what has flowed in since the bucket was last drawn from.
Advance(b) ==
  IF b.tokens + (now - b.last) < Full THEN b.tokens + (now - b.last) ELSE Full

\* What client c could spend now.
Level(c) == IF c \in DOMAIN buckets THEN Advance(buckets[c]) ELSE Full

Init ==
  /\ now = 0
  /\ buckets = <<>>
  /\ passed = [client |-> NoIP, ok |-> TRUE]
  /\ watched \in Clients
  /\ spent = 0
  /\ since = 0

\* Mutant: the clean-up is off by one.
KeptStrictly == {c \in DOMAIN buckets : now - buckets[c].lastSeen < Cleanup}

\* The buckets the opportunistic clean-up spares.
Kept == {c \in DOMAIN buckets : now - buckets[c].lastSeen <= Cleanup}

\* The bucket allow works on: c's, or a new and full one.
Found(c) ==
  IF c \in Kept THEN buckets[c] ELSE [tokens |-> Full, last |-> now, lastSeen |-> now]

\* Mutant: only a refused client is seen.
DrawnUnseen(c) ==
  LET b == Found(c)
  IN  IF Advance(b) >= Cost
      THEN [b EXCEPT !.tokens = Advance(b) - Cost, !.last = now]
      ELSE [b EXCEPT !.lastSeen = now]

\* lim.AllowN(now, 1): a token is taken, or the limiter is left as it is;
\* either way the client has been seen.
Drawn(c) ==
  LET b == Found(c)
  IN  IF Advance(b) >= Cost
      THEN [tokens |-> Advance(b) - Cost, last |-> now, lastSeen |-> now]
      ELSE [b EXCEPT !.lastSeen = now]

\* Mutant: the bucket is asked and never charged.
AllowUncharged(c) ==
  /\ buckets' = [x \in Kept \cup {c} |-> IF x = c THEN Found(c) ELSE buckets[x]]
  /\ passed' = [client |-> c, ok |-> Advance(Found(c)) >= Cost]
  /\ spent' = IF c = watched /\ Advance(Found(c)) >= Cost THEN spent + Cost ELSE spent
  /\ UNCHANGED <<now, watched, since>>

\* A request of client c.
Allow(c) ==
  /\ buckets' = [x \in Kept \cup {c} |-> IF x = c THEN Drawn(c) ELSE buckets[x]]
  /\ passed' = [client |-> c, ok |-> Advance(Found(c)) >= Cost]
  /\ spent' = IF c = watched /\ Advance(Found(c)) >= Cost THEN spent + Cost ELSE spent
  /\ UNCHANGED <<now, watched, since>>

\* A request whose client cannot be told passes.
AllowUnknown ==
  /\ passed' = [client |-> NoIP, ok |-> TRUE]
  /\ UNCHANGED <<now, buckets, observer>>

Tick ==
  /\ now < MaxNow
  /\ now' = now + 1
  /\ UNCHANGED <<buckets, passed, observer>>

\* The observer starts to count, whoever he watches from now on.
Watch ==
  /\ watched' \in Clients
  /\ spent' = 0
  /\ since' = now
  /\ UNCHANGED <<now, buckets, passed>>

Next == (\E c \in Clients : Allow(c)) \/ AllowUnknown \/ Tick \/ Watch

Spec == Init /\ [][Next]_vars
-----------------------------------------------------------------------------
\* Types of the state.
TypeOK ==
  /\ now \in 0..MaxNow /\ since \in 0..now /\ spent \in Nat /\ watched \in Clients
  /\ passed \in [client : Clients \cup {NoIP}, ok : BOOLEAN]
  /\ DOMAIN buckets \subseteq Clients /\ buckets \in [DOMAIN buckets -> Buckets]
  /\ \A c \in DOMAIN buckets : buckets[c].last <= buckets[c].lastSeen
                               /\ buckets[c].lastSeen <= now

\* From whatever moment one counts, a client is granted no more than a burst and
\* what has flowed in since ("30 requests/min/IP with a burst of 30"): not by
\* coming and going so that his bucket is dropped in between, either.
WithinBudget == spent <= Full + (now - since)

\* Dropping idle buckets cannot be told from keeping them all, and a refused
\* request costs nothing: the limiter is the one of TokenBucket.
Promise == INSTANCE TokenBucket WITH
  level <- [c \in Clients |-> Level(c)], elapsed <- now - since
ImplementsTokenBucket == Promise!Spec
=============================================================================

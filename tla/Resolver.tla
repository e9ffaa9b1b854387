------------------------------ MODULE Resolver ------------------------------
(***************************************************************************)
(* One Lookup of the DNS resolver (service/dns/resolver/lookup.go): it     *)
(* picks a resolver that answers a dial, sends one query per record type   *)
(* concurrently in an errgroup, each through the process-wide egress       *)
(* limiter, and puts the answers together.                                 *)
(*                                                                         *)
(* Only the NS query decides about existence; the errors of the others     *)
(* drop their row, but for ErrSelfThrottled.  The first error cancels the  *)
(* group's context.  The caller's own context ends with the 5 s deadline   *)
(* or when the client hangs up.  Other Lookups drain the limiter.          *)
(***************************************************************************)
EXTENDS Integers, Sequences, SequencesExt

CONSTANTS
  Types,      \* the record types asked for, "NS" among them
  Servers,    \* c.resolvers, in order
  RRSets,     \* NOERROR answers: sequences of records [type, public, ttl]
  Burst,      \* rateBurst
  NoTTL       \* math.MaxUint32: no record set had a TTL

VARIABLES
  phase,    \* where Lookup is
  server,   \* the resolver dialled, or picked
  over,     \* the caller's context has ended
  tokens,   \* rate.Limiter
  query,    \* each type's goroutine
  failure,  \* errgroup: the first error, which also cancels the group
  rec,      \* the rows noted so far, by type, with their TTL
  minTTL    \* the least TTL noted

vars == <<phase, server, over, tokens, query, failure, rec, minTTL>>

\* out is a history variable: how the query ended.
Unsent == [pc |-> "start", preCancelled |-> FALSE, out |-> "none"]
Absent == [rows |-> <<>>, ttl |-> NoTTL]
At(t, where) == query[t].pc = where
Back == \A t \in Types : At(t, "back")

Init ==
  /\ phase = "preflight"
  /\ server = 1
  /\ over = FALSE
  /\ tokens \in 0..Burst
  /\ query = [t \in Types |-> Unsent]
  /\ failure = "none"
  /\ rec = [t \in Types |-> Absent]
  /\ minTTL = NoTTL

\* gctx.Done()
Cancelled == over \/ failure # "none"
-----------------------------------------------------------------------------
\* pickResolver: the first that answers a dial within 200 ms.
Dial(answers) ==
  /\ phase = "preflight" /\ server <= Len(Servers)
  /\ answers => ~over
  /\ phase' = IF answers THEN "fanout" ELSE phase
  /\ server' = IF answers THEN server ELSE server + 1
  /\ UNCHANGED <<over, tokens, query, failure, rec, minTTL>>

\* None does: ErrUnavailable.
NoResolver ==
  /\ phase = "preflight" /\ server > Len(Servers)
  /\ phase' = "done"
  /\ failure' = "unavailable"
  /\ UNCHANGED <<server, over, tokens, query, rec, minTTL>>

\* exchange looks at the context before it queues up.
Queue(t) ==
  /\ phase = "fanout" /\ At(t, "start")
  /\ query' = [query EXCEPT ![t].pc = "gate", ![t].preCancelled = Cancelled]
  /\ UNCHANGED <<phase, server, over, tokens, failure, rec, minTTL>>

\* limiter.Wait lets the query out.
Pass(t) ==
  /\ At(t, "gate") /\ ~Cancelled /\ tokens > 0
  /\ tokens' = tokens - 1
  /\ query' = [query EXCEPT ![t].pc = "sent"]
  /\ UNCHANGED <<phase, server, over, failure, rec, minTTL>>

\* Mutant: NS is a type like any other.
PropagatesThrottleOnly(t, err) == err = "selfThrottled"

\* What a goroutine returns to the group.
Propagates(t, err) == t = "NS" \/ err = "selfThrottled"

\* Mutant: the last error is reported.
FirstOrLast(err) == err

\* errgroup keeps the first.
First(err) == IF failure = "none" THEN err ELSE failure

Fail(t, err, out) ==
  /\ query' = [query EXCEPT ![t].pc = "back", ![t].out = out]
  /\ failure' = IF Propagates(t, err) THEN First(err) ELSE failure
  /\ UNCHANGED <<phase, server, over, rec, minTTL>>

\* Mutant: who waits for a token does not hear of the end of the context.
GivesUpNever(t) == FALSE

GivesUp(t) == Cancelled

\* limiter.Wait returns an error: the context is done, or no token will come
\* before the deadline.
Refuse(t) ==
  /\ At(t, "gate")
  /\ \/ GivesUp(t) /\ Fail(t, IF query[t].preCancelled THEN "ended" ELSE "selfThrottled",
                           IF over THEN "cut" ELSE "cancelled")
     \/ ~Cancelled /\ tokens = 0 /\ Fail(t, "selfThrottled", "denied")
  /\ UNCHANGED tokens

\* The per-type helpers: others' types are passed over (a CNAME before an address),
\* private addresses dropped; CNAME and SOA keep the first, the rest all.
OfType(t, answer) ==
  SelectSeq(answer, LAMBDA r : r.type = t /\ (t \in {"A", "AAAA"} => r.public))
RowsOf(t, answer) ==
  LET own == OfType(t, answer)
  IN  IF t \in {"CNAME", "SOA"} /\ own # <<>> THEN <<Head(own)>> ELSE own

\* minRRTTL: over all records, the dropped ones too; 0 if there are none.
TTLOf(answer) == IF answer = <<>> THEN 0
                 ELSE FoldLeft(LAMBDA ttl, r : IF r.ttl < ttl THEN r.ttl ELSE ttl, NoTTL, answer)

\* noteTTL: 0 says nothing.
Noted(ttl) == IF ttl # 0 /\ ttl < minTTL THEN ttl ELSE minTTL

\* NOERROR: the row is noted, under the mutex, also when the group is cancelled.
Answer(t, answer) ==
  /\ At(t, "sent")
  /\ query' = [query EXCEPT ![t].pc = "back", ![t].out = "answer"]
  /\ rec' = [rec EXCEPT ![t] = [rows |-> RowsOf(t, answer), ttl |-> TTLOf(answer)]]
  /\ minTTL' = Noted(TTLOf(answer))
  /\ UNCHANGED <<phase, server, over, tokens, failure>>

\* classifyTransportErr: the response codes that are no success.
BadCode(t, code) ==
  /\ At(t, "sent")
  /\ Fail(t, IF code = "NXDOMAIN" THEN "notFound" ELSE "unavailable", code)
  /\ UNCHANGED tokens

\* The exchange fails: with the context, or by itself.
Broken(t) ==
  /\ At(t, "sent")
  /\ Fail(t, IF Cancelled THEN "ended" ELSE "unavailable",
          IF over THEN "cut" ELSE IF Cancelled THEN "cancelled" ELSE "broken")
  /\ UNCHANGED tokens

\* g.Wait
Join ==
  /\ phase = "fanout" /\ Back
  /\ phase' = "done"
  /\ UNCHANGED <<server, over, tokens, query, failure, rec, minTTL>>

\* The deadline passes, or the client hangs up.
End ==
  /\ ~over /\ phase # "done"
  /\ over' = TRUE
  /\ UNCHANGED <<phase, server, tokens, query, failure, rec, minTTL>>

\* The limiter fills, and other Lookups draw on it.
Elsewhere ==
  /\ tokens' \in {tokens - 1, tokens + 1} \cap (0..Burst)
  /\ phase # "done"
  /\ UNCHANGED <<phase, server, over, query, failure, rec, minTTL>>

Step(t) ==
  \/ Queue(t) \/ Pass(t) \/ Refuse(t) \/ Broken(t)
  \/ \E code \in {"NXDOMAIN", "SERVFAIL"} : BadCode(t, code)
  \/ \E answer \in RRSets : Answer(t, answer)

Pick == NoResolver \/ \E answers \in BOOLEAN : Dial(answers)

Next == Pick \/ Join \/ End \/ Elsewhere \/ \E t \in Types : Step(t)

Spec == Init /\ [][Next]_vars

\* The deadline fires; goroutines run; an exchange has a timeout of its own (3 s).
\* Nothing says that the limiter ever has a token for this Lookup.
FairSpec == Spec /\ WF_vars(Pick) /\ WF_vars(Join) /\ WF_vars(End)
                 /\ \A t \in Types : WF_vars(Step(t))
-----------------------------------------------------------------------------
Done == phase = "done"
OK == Done /\ failure = "none"
Outs(t) == query[t].out

\* Only the NS query says whether the name exists: whatever the other types answered
\* and in whatever order, a success has an NS answer, of records or of none, and
\* "not found" an NXDOMAIN.  This is the code, and what the comments in lookup.go
\* (lines 42 and 173) say of it.  docs/dns.md:108 and resolver.go:105 call a name
\* whose NS set is empty "not found", too: that it never is.
NSDecides ==
  /\ OK => Outs("NS") = "answer"
  /\ Done /\ failure = "notFound" => Outs("NS") = "NXDOMAIN"

\* A Lookup says it was throttled only if the limiter denied one of its queries, or
\* its caller went away: the cancellation of siblings by another error, which ends
\* their waits on the limiter too, does not overwrite that error.
ThrottledByLimiter ==
  Done /\ failure = "selfThrottled" =>
    \E t \in Types : Outs(t) = "denied" \/ Outs(t) = "cut"

\* "enforces a 5s wall-clock deadline": also a drained limiter holds nobody up.
EveryLookupEnds == <>Done
=============================================================================

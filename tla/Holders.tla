------------------------------ MODULE Holders ------------------------------
(***************************************************************************)
(* The weekly TDCC dispersion dump (service/stock/twse/holders.go and      *)
(* CachedHolders in cached_walkback.go): one ttlcache entry for the whole  *)
(* market, and under a mutex of its own the last dump and the one of the   *)
(* week before, from which the page shows the drift of large holdings.     *)
(*                                                                         *)
(* A dump is abstracted to the week it is of; None is the zero AsOf.  The  *)
(* closure that GetOrFetch runs rotates the dumps before the entry is      *)
(* stored; a reader looks up the entry and reads "previous" later, under   *)
(* the other lock.  The upstream only moves forward.                       *)
(***************************************************************************)
EXTENDS Integers

CONSTANTS
  Procs,      \* goroutines that render stock pages
  MaxWeek,    \* bound: the last week TDCC publishes
  Listed,     \* the weeks whose dump has a row for the stock at hand
  TTL,        \* holdersSuccessTTL
  MaxNow,     \* bound: the clock stops here
  NoProc,     \* "no goroutine"
  Nothing     \* "no entry", "no file"

None == 0
Weeks == 1..MaxWeek

ASSUME HoldersAssumption ==
  /\ MaxWeek \in Nat /\ Listed \subseteq Weeks
  /\ TTL \in Nat \ {0} /\ MaxNow \in Nat
  /\ NoProc \notin Procs

VARIABLES
  now,        \* the wall clock
  published,  \* the upstream: the week it serves
  entry,      \* the ttlcache under its only key
  flight,     \* who fetches
  lastDump,   \* the last dump fetched or restored
  previous,   \* the dump that lastDump superseded
  call,       \* each goroutine's GetHoldersDistribution
  file        \* tdcc-holders.json

vars == <<now, published, entry, flight, lastDump, previous, call, file>>

PCs == {"idle", "look", "wait", "fetch", "rotate", "store", "lookup", "compare", "reply"}
Entries == [found : BOOLEAN, week : Weeks \cup {None}, exp : Nat]
\* rotated is a history variable: a new week came in since the entry was read.
Idle == [pc |-> "idle", found |-> FALSE, week |-> None, prev |-> None, err |-> FALSE,
         rotated |-> FALSE]
At(p, where) == call[p].pc = where

Init ==
  /\ now = 0
  /\ published \in Weeks
  /\ entry = Nothing
  /\ flight = NoProc
  /\ lastDump = None
  /\ previous = None
  /\ call = [p \in Procs |-> Idle]
  /\ file = Nothing

Live(e) == e # Nothing /\ now < e.exp

\* A goroutine holds the result of the shared dump's lookup.
Holding(c, found, week) == [c EXCEPT !.pc = "lookup", !.found = found, !.week = week]
Failed(c) == [c EXCEPT !.pc = "reply", !.err = TRUE]

Call(p) ==
  /\ At(p, "idle")
  /\ call' = [call EXCEPT ![p] = [Idle EXCEPT !.pc = "look"]]
  /\ UNCHANGED <<now, published, entry, flight, lastDump, previous, file>>

\* GetOrFetch: a live entry, or a flight to lead or to join.
Look(p) ==
  /\ At(p, "look")
  /\ \/ /\ Live(entry)
        /\ call' = [call EXCEPT ![p] = Holding(@, entry.found, entry.week)]
        /\ UNCHANGED flight
     \/ /\ ~Live(entry) /\ flight = NoProc
        /\ flight' = p
        /\ call' = [call EXCEPT ![p].pc = "fetch"]
     \/ /\ ~Live(entry) /\ flight # NoProc
        /\ call' = [call EXCEPT ![p].pc = "wait"]
        /\ UNCHANGED flight
  /\ UNCHANGED <<now, published, entry, lastDump, previous, file>>

\* fetchHolders: no answer, no JSON and an unknown schema are errors; an empty
\* array, or one without a usable row, is a publish gap.
Responses == {"refused", "garbled", "drifted", "empty", "unusable", "dump"}
Errors == {"refused", "garbled", "drifted"}
Gaps == {"empty", "unusable"}

Sharers(p) == {p} \cup {q \in Procs : At(q, "wait")}

\* The closure's fetch.  An error is handed to everyone in the flight at once.
Fetch(p, resp) ==
  /\ At(p, "fetch")
  /\ \/ /\ resp \in Errors
        /\ flight' = NoProc
        /\ call' = [q \in Procs |-> IF q \in Sharers(p) THEN Failed(call[q]) ELSE call[q]]
     \/ /\ resp \in Gaps
        /\ call' = [call EXCEPT ![p].pc = "store", ![p].found = FALSE]
        /\ UNCHANGED flight
     \/ /\ resp = "dump"
        /\ call' = [call EXCEPT ![p].pc = "rotate", ![p].found = TRUE, ![p].week = published]
        /\ UNCHANGED flight
  /\ UNCHANGED <<now, published, entry, lastDump, previous, file>>

\* Mutant: every fetch rotates, also one of the same week.
SupersedesAlways(week) == lastDump # None

\* A dump of another week than the last one.
Supersedes(week) == lastDump # None /\ lastDump # week

\* A goroutine has its dump and not yet the one to compare it with.
HoldsDump(q) == At(q, "lookup") \/ At(q, "compare")

\* Under the mutex: the last dump becomes the previous one when a new week comes.
Rotate(p) ==
  /\ At(p, "rotate")
  /\ previous' = IF Supersedes(call[p].week) THEN lastDump ELSE previous
  /\ lastDump' = call[p].week
  /\ call' = [q \in Procs |->
       IF q = p THEN [call[p] EXCEPT !.pc = "store"]
       ELSE [call[q] EXCEPT !.rotated = @ \/ (HoldsDump(q) /\ lastDump # call[p].week)]]
  /\ UNCHANGED <<now, published, entry, flight, file>>

\* GetOrFetch stores the answer, gaps included, and wakes who waits.
Store(p) ==
  /\ At(p, "store")
  /\ entry' = [found |-> call[p].found, week |-> call[p].week, exp |-> now + TTL]
  /\ flight' = NoProc
  /\ call' = [q \in Procs |->
       IF q \in Sharers(p) THEN Holding(call[q], call[p].found, call[p].week) ELSE call[q]]
  /\ UNCHANGED <<now, published, lastDump, previous, file>>

\* Mutant: a dump without the stock gives an empty row.
HasRowAnyhow(c) == c.found

\* holdersLookup: the stock's row, if the dump has one.
HasRow(c) == c.found /\ c.week \in Listed

Lookup(p) ==
  /\ At(p, "lookup")
  /\ call' = [call EXCEPT ![p] =
       IF HasRow(@) THEN [@ EXCEPT !.pc = "compare"] ELSE Failed(@)]
  /\ UNCHANGED <<now, published, entry, flight, lastDump, previous, file>>

\* The other lock: the row of the week before, for the drift.
Compare(p) ==
  /\ At(p, "compare")
  /\ call' = [call EXCEPT ![p].pc = "reply",
                          ![p].prev = IF previous \in Listed THEN previous ELSE None]
  /\ UNCHANGED <<now, published, entry, flight, lastDump, previous, file>>

Return(p) ==
  /\ At(p, "reply")
  /\ call' = [call EXCEPT ![p] = Idle]
  /\ UNCHANGED <<now, published, entry, flight, lastDump, previous, file>>

\* Mutant: the restored entry is not mirrored.
MirrorNot(e) == None

\* loadFrom mirrors a restored dump, so that the next one rotates it out.
Mirror(e) == IF e # Nothing /\ e.found THEN e.week ELSE None

\* The process ends, saving what is unexpired or not, and comes up again with
\* what the file holds and has not expired; "previous" is in memory only.
Restart(saves) ==
  LET saved == IF ~saves THEN file ELSE IF Live(entry) THEN entry ELSE Nothing
      loaded == IF Live(saved) THEN saved ELSE Nothing
  IN  /\ file' = saved
      /\ entry' = loaded
      /\ lastDump' = Mirror(loaded)
      /\ previous' = None
      /\ flight' = NoProc
      /\ call' = [p \in Procs |-> Idle]
      /\ UNCHANGED <<now, published>>

Publish ==
  /\ published < MaxWeek
  /\ published' = published + 1
  /\ UNCHANGED <<now, entry, flight, lastDump, previous, call, file>>

Tick ==
  /\ now < MaxNow
  /\ now' = now + 1
  /\ UNCHANGED <<published, entry, flight, lastDump, previous, call, file>>

Next ==
  \/ \E p \in Procs : \/ Call(p) \/ Look(p) \/ Rotate(p) \/ Store(p) \/ Lookup(p)
                      \/ Compare(p) \/ Return(p)
  \/ \E p \in Procs, resp \in Responses : Fetch(p, resp)
  \/ \E saves \in BOOLEAN : Restart(saves)
  \/ Publish \/ Tick

Spec == Init /\ [][Next]_vars
-----------------------------------------------------------------------------
\* Types of the state.  A dump has its week, and only a row goes on to be compared.
TypeOK ==
  /\ now \in 0..MaxNow /\ published \in Weeks
  /\ entry \in Entries \cup {Nothing} /\ file \in Entries \cup {Nothing}
  /\ flight \in Procs \cup {NoProc}
  /\ lastDump \in Weeks \cup {None} /\ previous \in Weeks \cup {None}
  /\ call \in [Procs -> [pc : PCs, found : BOOLEAN, week : Weeks \cup {None},
                         prev : Weeks \cup {None}, err : BOOLEAN, rotated : BOOLEAN]]
  /\ entry # Nothing /\ entry.found => entry.week # None
  /\ \A p \in Procs : At(p, "compare") => call[p].week \in Listed

\* The dumps rotate: what is kept for comparison is of an earlier week than what it
\* is compared with, however often the same week is fetched and the process restarts.
PreviousIsEarlier == previous # None => previous < lastDump

\* The cache and its mirror agree as long as the entry lives: else the next week's
\* dump would not rotate this one out.
MirrorsEntry == Live(entry) /\ entry.found => lastDump = entry.week

\* A page compares its week with an earlier one, unless the dump rotated between the
\* two locks while the page was held up.
ComparesBackwards ==
  \A p \in Procs : At(p, "reply") /\ ~call[p].err /\ call[p].prev # None =>
    call[p].prev < call[p].week \/ call[p].rotated

\* holders.go:86 of what a page compares with: it is "the prior week's snapshot of
\* the same stock", there "only when a prior dump with a different AsOf has rotated
\* through this process".
CarriesPriorWeek ==
  \A p \in Procs : At(p, "reply") /\ ~call[p].err /\ call[p].prev # None =>
    call[p].prev < call[p].week
=============================================================================

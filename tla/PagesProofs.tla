---------------------------- MODULE PagesProofs ----------------------------
(***************************************************************************)
(* Proofs about StaleCache and the pages made of what it answers, for any  *)
(* finite numbers of goroutines and keys, any lifetimes and any max-ages.  *)
(***************************************************************************)
EXTENDS Pages, FiniteSetTheorems, TLAPS

\* Somebody who serves k, or the map, has a pointer to entry i.
Points(k, i) ==
  /\ i # Nil
  /\ entries[k] = i \/ \E p \in Procs : call[p].ptr = i /\ call[p].key = k

\* What an entry promises, its key having failed at "failed": a value outlives
\* its lifetime only through a failure, and a kept failure is a recent one.
EntryOK(e, failed) ==
  /\ e.state = "ok" => /\ e.val # NoValue
                       /\ \/ e.deadline <= e.val + Longest
                          \/ e.deadline <= failed + FailTTL[kind]
  /\ e.state = "fail" => e.deadline <= failed + FailTTL[kind]
  /\ e.state # "ok" => e.val = NoValue

\* The heap is what is pointed to; an entry belongs to one key, which is what
\* makes changing its deadline in place harmless to the others.
HeapOK ==
  /\ \A i \in DOMAIN heap : \E k \in Keys : Points(k, i)
  /\ \A k \in Keys, i \in Ids : Points(k, i) => i \in DOMAIN heap /\ EntryOK(heap[i], failedAt[k])
  /\ \A k, l \in Keys, i \in Ids : Points(k, i) /\ Points(l, i) => k = l

\* A flight's outcome in the hands of who led it or waited for it: the upstream
\* answered after both had asked.
OutcomeOK(c) ==
  /\ c.got = "ok" => c.asked <= c.val /\ c.val # NoValue
  /\ c.got # "ok" => c.val = NoValue
  /\ c.got = "fail" => c.asked <= failedAt[c.key]

\* What is returned: ValueFitsError and StaleOnlyInBackoff, and that who is told
\* of a failure asked less than a failure's lifetime after it.
ReplyOK(c) ==
  /\ c.got = "ok" => /\ c.val # NoValue
                     /\ \/ c.asked < c.val + Longest
                        \/ c.asked < failedAt[c.key] + FailTTL[kind]
  /\ c.val # NoValue => c.got \in {"ok", "fail"}
  /\ c.got = "fail" => c.asked < failedAt[c.key] + FailTTL[kind]

CallOK(c) ==
  /\ c.pc # "idle" => c.key \in Keys
  /\ c.pc \in {"idle", "reply"} => c.ptr = Nil
  /\ c.asked <= now
  /\ c.pc = "settle" => OutcomeOK(c)
  /\ c.pc = "reply" => ReplyOK(c)

HistoryOK ==
  /\ failedAt \in [Keys -> 0..MaxNow]
  /\ \A k \in Keys : failedAt[k] <= now

SafeInv == TypeOK /\ HistoryOK /\ HeapOK /\ \A p \in Procs : CallOK(call[p])

\* What no step takes back: the clock and the failures only go on.
Onward ==
  /\ kind' = kind
  /\ now' \in 1..MaxNow /\ now <= now'
  /\ failedAt' \in [Keys -> 0..MaxNow]
  /\ \A k \in Keys : failedAt[k] <= failedAt'[k] /\ failedAt'[k] <= now'

Calls == [pc : PCs, key : Keys \cup {NoKey}, asked : 0..MaxNow,
          ptr : Ids \cup {Nil}, got : Outcomes, val : 0..MaxNow,
          ttl : MinTTLs \cup {0}]

-----------------------------------------------------------------------------
\* Identities are counted, and Nil is none of them.
LEMMA IdFacts ==
  /\ Cardinality(Keys) \in Nat /\ Cardinality(Procs) \in Nat
  /\ Ids \subseteq Nat \ {0} /\ Nil \notin Ids
BY StaleCacheAssumption, FS_CardinalityType DEF Ids

\* The lifetimes are positive numbers.
LEMMA LifetimeFacts ==
  ASSUME kind \in Kinds
  PROVE  /\ Longest \in Nat \ {0} /\ FailTTL[kind] \in Nat \ {0}
         /\ \A got \in Outcomes, m \in MinTTLs \cup {0} :
              /\ Lifetime(got, m) \in Nat
              /\ got = "ok" => Lifetime(got, m) <= Longest
              /\ got = "fail" => Lifetime(got, m) = FailTTL[kind]
BY StaleCacheAssumption DEF Longest, Lifetime, Clamp, Outcomes

\* There are more identities than pointers: a new entry always finds one.
LEMMA FreshId ==
  ASSUME SafeInv
  PROVE  \E x \in Ids : x \notin DOMAIN heap
<1> DEFINE E == {entries[k] : k \in Keys}
           C == {call[p].ptr : p \in Procs}
<1> SUFFICES ASSUME Ids \subseteq DOMAIN heap PROVE FALSE OBVIOUS
<1>1. IsFiniteSet(E) /\ Cardinality(E) <= Cardinality(Keys)
  <2>1. [k \in Keys |-> entries[k]] \in Surjection(Keys, E) BY DEF Surjection
  <2> QED BY <2>1, FS_Surjection, StaleCacheAssumption
<1>2. IsFiniteSet(C) /\ Cardinality(C) <= Cardinality(Procs)
  <2>1. [p \in Procs |-> call[p].ptr] \in Surjection(Procs, C) BY DEF Surjection
  <2> QED BY <2>1, FS_Surjection, StaleCacheAssumption
<1>3. Ids \subseteq E \cup C BY DEF SafeInv, HeapOK, Points
<1> HIDE DEF E, C
<1>4. IsFiniteSet(E \cup C) /\ Cardinality(E \cup C) <= Cardinality(E) + Cardinality(C)
  <2>1. IsFiniteSet(E \cap C) BY <1>1, FS_Intersection
  <2>2. Cardinality(E \cap C) \in Nat BY <2>1, FS_CardinalityType
  <2>3. Cardinality(E) \in Nat /\ Cardinality(C) \in Nat
    BY <1>1, <1>2, FS_CardinalityType
  <2>4. Cardinality(E \cup C) = Cardinality(E) + Cardinality(C) - Cardinality(E \cap C)
    BY <1>1, <1>2, FS_Union
  <2>5. IsFiniteSet(E \cup C) BY <1>1, <1>2, FS_Union
  <2> QED BY <2>2, <2>3, <2>4, <2>5
<1>5. Cardinality(Ids) = Cardinality(Keys) + Cardinality(Procs) + 1
  BY IdFacts, FS_Interval DEF Ids
<1>6. Cardinality(Ids) <= Cardinality(E \cup C) BY <1>3, <1>4, FS_Subset
<1>7. Cardinality(E) \in Nat /\ Cardinality(C) \in Nat /\ Cardinality(E \cup C) \in Nat
  BY <1>1, <1>2, <1>4, FS_CardinalityType
<1> QED BY <1>1, <1>2, <1>4, <1>5, <1>6, <1>7, IdFacts

\* Who led or waited for p's flight.
Sharers(p) == {p} \cup {q \in Procs : At(q, "wait") /\ call[q].key = call[p].key}

\* An answer reaches all of them, and it is dated.
LEMMA AnswerEffect ==
  ASSUME SafeInv, NEW p \in Procs, Answer(p)
  PROVE  \E got \in Outcomes, m \in MinTTLs \cup {0} :
           /\ call' = [q \in Procs |->
                IF q \in Sharers(p)
                THEN [call[q] EXCEPT !.pc = "settle", !.got = got, !.ttl = m,
                                     !.val = IF got = "ok" THEN now ELSE NoValue]
                ELSE call[q]]
           /\ failedAt' = [failedAt EXCEPT ![call[p].key] =
                             IF got = "fail" THEN now ELSE @]
<1>1. kind \in {"quote", "profile", "dns"} BY StaleCacheAssumption DEF SafeInv, TypeOK
<1>2. Possible[kind] \subseteq Outcomes BY <1>1 DEF Possible, Outcomes
<1>3. (IF kind = "dns" THEN MinTTLs ELSE {0}) \subseteq MinTTLs \cup {0} OBVIOUS
<1> QED BY <1>2, <1>3, Zenon DEF Answer, Sharers

\* The clock and the failures go on.
LEMMA StepOnward ==
  ASSUME SafeInv, [Next]_vars
  PROVE  Onward
<1>1. ASSUME UNCHANGED <<kind, now, failedAt>> PROVE Onward
  BY <1>1 DEF SafeInv, TypeOK, HistoryOK, Onward
<1>2. CASE Tick
  BY <1>2, StaleCacheAssumption DEF Tick, SafeInv, TypeOK, HistoryOK, Onward
<1>3. ASSUME NEW p \in Procs, Answer(p) PROVE Onward
  <2>1. call[p].key \in Keys BY <1>3 DEF Answer, At, SafeInv, CallOK
  <2>2. PICK got \in Outcomes :
          failedAt' = [failedAt EXCEPT ![call[p].key] = IF got = "fail" THEN now ELSE @]
    BY <1>3, AnswerEffect, Zenon
  <2>3. UNCHANGED <<kind, now>> BY <1>3 DEF Answer
  <2> QED
    BY <2>1, <2>2, <2>3, StaleCacheAssumption DEF SafeInv, TypeOK, HistoryOK, Onward
<1> QED BY <1>1, <1>2, <1>3 DEF Next, Step, vars, Peek, Check, Enter, Settle, Return

-----------------------------------------------------------------------------
\* A call that a step leaves alone stays in order.
LEMMA CallKept ==
  ASSUME SafeInv, Onward, NEW p \in Procs, call'[p] = call[p]
  PROVE  CallOK(call[p])'
<1>1. CallOK(call[p]) /\ call[p] \in Calls BY DEF SafeInv, TypeOK, Calls
<1>2. Longest \in Nat /\ FailTTL[kind] \in Nat /\ Longest' = Longest
  BY LifetimeFacts DEF SafeInv, TypeOK, Onward, Longest
<1>3. now \in Nat /\ now' \in Nat /\ now <= now' /\ kind' = kind
  BY DEF SafeInv, TypeOK, Onward
<1>4. \A k \in Keys : /\ failedAt[k] \in Nat /\ failedAt'[k] \in Nat
                      /\ failedAt[k] <= failedAt'[k]
  BY DEF SafeInv, HistoryOK, Onward
<1>5. call[p].asked \in Nat /\ call[p].val \in Nat BY <1>1 DEF Calls
<1>6. call[p].pc = "settle" => OutcomeOK(call[p])'
  BY <1>1, <1>4, <1>5 DEF CallOK, OutcomeOK
<1>7. call[p].pc = "reply" => ReplyOK(call[p])'
  BY <1>1, <1>2, <1>3, <1>4, <1>5 DEF CallOK, ReplyOK
<1> QED BY <1>1, <1>3, <1>5, <1>6, <1>7 DEF CallOK

\* So does an entry, whatever failed since.
LEMMA EntryKept ==
  ASSUME SafeInv, Onward, NEW k \in Keys, NEW e \in Entries, EntryOK(e, failedAt[k])
  PROVE  EntryOK(e, failedAt'[k])
<1>1. Longest \in Nat /\ FailTTL[kind] \in Nat BY LifetimeFacts DEF SafeInv, TypeOK
<1>2. failedAt[k] \in Nat /\ failedAt'[k] \in Nat /\ failedAt[k] <= failedAt'[k]
  BY DEF SafeInv, HistoryOK, Onward
<1>3. e.deadline \in Nat /\ e.val \in Nat BY DEF Entries
<1> QED BY <1>1, <1>2, <1>3 DEF EntryOK

\* An entry of h that a pointer to it will find, by the failures there will be.
Sound(h, k, i) == i \in DOMAIN h /\ EntryOK(h[i], failedAt'[k])

\* A pointer that is there now is no danger.
LEMMA PointerKept ==
  ASSUME SafeInv, Onward, NEW k \in Keys, NEW i \in Ids, Points(k, i)
  PROVE  Sound(heap, k, i)
<1>1. i \in DOMAIN heap /\ EntryOK(heap[i], failedAt[k]) BY DEF SafeInv, HeapOK
<1>2. heap[i] \in Entries BY <1>1 DEF SafeInv, TypeOK
<1> QED BY <1>1, <1>2, EntryKept DEF Sound

\* A step that neither makes nor drops a pointer leaves the heap in order.
LEMMA HeapKept ==
  ASSUME SafeInv, Onward, UNCHANGED heap,
         \A k \in Keys, i \in Ids : Points(k, i)' <=> Points(k, i)
  PROVE  /\ HeapOK'
         /\ DOMAIN heap' \subseteq Ids /\ heap' \in [DOMAIN heap' -> Entries]
<1>1. DOMAIN heap \subseteq Ids /\ heap \in [DOMAIN heap -> Entries]
  BY DEF SafeInv, TypeOK
<1>2. \A k \in Keys, i \in Ids : Points(k, i)' => Sound(heap, k, i) BY PointerKept
<1>3. \A i \in DOMAIN heap : \E k \in Keys : Points(k, i) BY DEF SafeInv, HeapOK
<1>4. \A k, l \in Keys, i \in Ids : Points(k, i) /\ Points(l, i) => k = l
  BY DEF SafeInv, HeapOK
<1>5. (\A i \in DOMAIN heap : \E k \in Keys : Points(k, i))' BY <1>1, <1>3
<1>6. (\A k \in Keys, i \in Ids :
         Points(k, i) => i \in DOMAIN heap /\ EntryOK(heap[i], failedAt[k]))'
  BY <1>2 DEF Sound, EntryOK, Onward, Longest
<1>7. (\A k, l \in Keys, i \in Ids : Points(k, i) /\ Points(l, i) => k = l)'
  BY <1>4
<1> QED BY <1>1, <1>5, <1>6, <1>7 DEF HeapOK

\* A step that collects leaves the heap in order if the entries it keeps are.
LEMMA HeapCollected ==
  ASSUME Onward, NEW h, heap' = Collected(h),
         DOMAIN h \subseteq Ids, \A i \in DOMAIN h : h[i] \in Entries,
         \A p \in Procs : call'[p].ptr # Nil => call'[p].key \in Keys,
         \A k \in Keys, i \in Ids : Points(k, i)' => Sound(h, k, i),
         \A k, l \in Keys, i \in Ids : Points(k, i)' /\ Points(l, i)' => k = l
  PROVE  /\ HeapOK'
         /\ DOMAIN heap' \subseteq Ids /\ heap' \in [DOMAIN heap' -> Entries]
<1> DEFINE live == {entries'[k] : k \in Keys} \cup {call'[p].ptr : p \in Procs}
<1>1. heap' = [i \in DOMAIN h \cap live |-> h[i]] BY Zenon DEF Collected
<1>2. \A i \in Ids : i \in live <=> \E k \in Keys : Points(k, i)'
  BY IdFacts DEF Points
<1> HIDE DEF live
<1>3. DOMAIN heap' = DOMAIN h \cap live /\ \A i \in DOMAIN heap' : heap'[i] = h[i]
  BY <1>1
<1>4. DOMAIN heap' \subseteq Ids /\ heap' \in [DOMAIN heap' -> Entries]
  BY <1>1, <1>3
<1>5. (\A i \in DOMAIN heap : \E k \in Keys : Points(k, i))' BY <1>2, <1>3
<1>6. (\A k \in Keys, i \in Ids :
         Points(k, i) => i \in DOMAIN heap /\ EntryOK(heap[i], failedAt[k]))'
  <2>1. \A k \in Keys, i \in Ids : Points(k, i)' => i \in DOMAIN heap' /\ heap'[i] = h[i]
    BY <1>2, <1>3 DEF Sound
  <2> QED BY <2>1 DEF Sound, EntryOK, Onward, Longest
<1>7. (\A k, l \in Keys, i \in Ids : Points(k, i) /\ Points(l, i) => k = l)' OBVIOUS
<1> QED BY <1>4, <1>5, <1>6, <1>7 DEF HeapOK

\* Whoever is told something has no pointer any more.
LEMMA ReplyEffect ==
  ASSUME SafeInv, NEW p \in Procs, NEW got \in Outcomes, NEW val \in 0..MaxNow,
         call' = Reply(p, got, val)
  PROVE  /\ call' \in [Procs -> Calls]
         /\ \A q \in Procs : q # p => call'[q] = call[q]
         /\ call'[p].pc = "reply" /\ call'[p].ptr = Nil
         /\ call'[p].got = got /\ call'[p].val = val
         /\ call'[p].key = call[p].key /\ call'[p].asked = call[p].asked
<1>1. call \in [Procs -> Calls] BY DEF SafeInv, TypeOK, Calls
<1>2. /\ \A q \in Procs : q # p => call'[q] = call[q]
      /\ call'[p] = [call[p] EXCEPT !.pc = "reply", !.ptr = Nil, !.got = got, !.val = val]
      /\ call' = [q \in Procs |-> call'[q]]
  BY <1>1 DEF Reply, Calls
<1>3. call[p] \in Calls BY <1>1
<1>4. /\ call'[p].pc = "reply" /\ call'[p].ptr = Nil
      /\ call'[p].got = got /\ call'[p].val = val
      /\ call'[p].key = call[p].key /\ call'[p].asked = call[p].asked
  BY <1>2, <1>3 DEF Calls
<1>5. call'[p] \in Calls BY <1>2, <1>3 DEF Calls, PCs
<1>6. call' \in [Procs -> Calls] BY <1>1, <1>2, <1>5
<1> QED BY <1>2, <1>4, <1>6

\* Pointers are only dropped by a reply that leaves the map alone.
LEMMA ReplyPoints ==
  ASSUME SafeInv, NEW p \in Procs, NEW got \in Outcomes, NEW val \in 0..MaxNow,
         call' = Reply(p, got, val), NEW k \in Keys, NEW i
  PROVE  /\ Points(k, i)' => \/ Points(k, i)
                             \/ i # Nil /\ entries'[k] = i
         /\ (\E q \in Procs : call'[q].ptr = i /\ call'[q].key = k) /\ i # Nil => Points(k, i)
BY ReplyEffect DEF Points

\* The parts of the invariant from which the rest of it follows.
LEMMA Assemble ==
  ASSUME Onward,
         entries' \in [Keys -> Ids \cup {Nil}], flight' \in [Keys -> Procs \cup {NoProc}],
         call' \in [Procs -> Calls],
         DOMAIN heap' \subseteq Ids, heap' \in [DOMAIN heap' -> Entries],
         kind \in Kinds, HeapOK', \A p \in Procs : CallOK(call[p])'
  PROVE  SafeInv'
<1>1. ASSUME NEW k \in Keys, entries'[k] # Nil PROVE entries'[k] \in DOMAIN heap'
  BY <1>1 DEF HeapOK, Points
<1>2. ASSUME NEW p \in Procs, call'[p].ptr # Nil PROVE call'[p].ptr \in DOMAIN heap'
  <2>1. call'[p] \in Calls /\ call'[p].ptr \in Ids BY <1>2 DEF Calls
  <2>0. CallOK(call[p])' OBVIOUS
  <2>2. call'[p].pc # "idle" /\ call'[p].key \in Keys BY <1>2, <2>0 DEF CallOK
  <2>3. Points(call[p].key, call[p].ptr)' BY <1>2, <2>2 DEF Points
  <2> QED BY <2>1, <2>2, <2>3 DEF HeapOK
<1>3. TypeOK' BY <1>1, <1>2 DEF TypeOK, Onward, Calls
<1>4. HistoryOK' BY DEF HistoryOK, Onward
<1> QED BY <1>3, <1>4 DEF SafeInv

-----------------------------------------------------------------------------
\* A call that begins copies the map's pointer.
LEMMA PeekStep ==
  ASSUME SafeInv, Onward, NEW p \in Procs, NEW k \in Keys, Peek(p, k)
  PROVE  SafeInv'
<1> USE DEF Peek
<1>1. call \in [Procs -> Calls] /\ entries \in [Keys -> Ids \cup {Nil}]
      /\ flight \in [Keys -> Procs \cup {NoProc}] /\ now \in 0..MaxNow /\ kind \in Kinds
  BY StaleCacheAssumption DEF SafeInv, TypeOK, Calls
<1>2. /\ \A q \in Procs : q # p => call'[q] = call[q]
      /\ call'[p] = [pc |-> "check", key |-> k, asked |-> now, ptr |-> entries[k],
                     got |-> "ok", val |-> NoValue, ttl |-> 0]
      /\ call' = [q \in Procs |-> call'[q]]
  BY <1>1 DEF Idle
<1>3. call'[p] \in Calls
  <2>1. 0 \in 0..MaxNow BY StaleCacheAssumption
  <2>2. "check" \in PCs /\ "ok" \in Outcomes BY DEF PCs, Outcomes
  <2>3. entries[k] \in Ids \cup {Nil} BY <1>1
  <2>4. NoValue \in 0..MaxNow BY <2>1 DEF NoValue
  <2>5. \A i \in Ids \cup {Nil}, t \in 0..MaxNow :
          [pc |-> "check", key |-> k, asked |-> t, ptr |-> i,
           got |-> "ok", val |-> NoValue, ttl |-> 0] \in Calls
    BY <2>2, <2>4 DEF Calls
  <2> QED BY <1>1, <1>2, <2>3, <2>5
<1>4. call' \in [Procs -> Calls] BY <1>1, <1>2, <1>3
<1>5. call[p].ptr = Nil BY DEF SafeInv, CallOK, At
<1>6. \A l \in Keys, i \in Ids : Points(l, i)' <=> Points(l, i)
  BY <1>2, <1>5 DEF Points
<1>7. CallOK(call[p])' BY <1>1, <1>2, StaleCacheAssumption DEF CallOK
<1>8. \A q \in Procs : CallOK(call[q])' BY <1>2, <1>7, CallKept
<1> QED BY <1>1, <1>4, <1>6, <1>8, HeapKept, Assemble

\* The entry is the answer, or the goroutine goes on with its pointer.
LEMMA CheckStep ==
  ASSUME SafeInv, Onward, NEW p \in Procs, Check(p)
  PROVE  SafeInv'
<1>1. /\ call \in [Procs -> Calls] /\ entries \in [Keys -> Ids \cup {Nil}]
      /\ flight \in [Keys -> Procs \cup {NoProc}] /\ kind \in Kinds
      /\ DOMAIN heap \subseteq Ids /\ heap \in [DOMAIN heap -> Entries]
      /\ call[p] \in Calls
  BY DEF SafeInv, TypeOK, Calls
<1>2. call[p].key \in Keys /\ call[p].pc = "check" BY DEF SafeInv, CallOK, Check, At
<1>3. UNCHANGED <<kind, now, entries, flight, failedAt>> /\ heap' = Collected(heap)
  BY DEF Check
<1>4. ASSUME call' \in [Procs -> Calls],
             \A q \in Procs : q # p => call'[q] = call[q],
             call'[p].ptr = Nil \/ call'[p].ptr = call[p].ptr,
             call'[p].key = call[p].key, CallOK(call[p])'
      PROVE  SafeInv'
  <2>1. \A l \in Keys, i \in Ids : Points(l, i)' => Points(l, i)
    BY <1>3, <1>4 DEF Points
  <2>2. \A q \in Procs : CallOK(call[q])' BY <1>4, CallKept
  <2>3. \A q \in Procs : call'[q].ptr # Nil => call'[q].key \in Keys
    BY <2>2 DEF CallOK
  <2>4. \A l \in Keys, i \in Ids : Points(l, i)' => Sound(heap, l, i)
    BY <2>1, PointerKept
  <2>5. \A k, l \in Keys, i \in Ids : Points(k, i)' /\ Points(l, i)' => k = l
    BY <2>1 DEF SafeInv, HeapOK
  <2>6. HeapOK' /\ DOMAIN heap' \subseteq Ids /\ heap' \in [DOMAIN heap' -> Entries]
    BY <1>1, <1>3, <2>3, <2>4, <2>5, HeapCollected
  <2> QED BY <1>1, <1>3, <1>4, <2>2, <2>6, Assemble
<1>5. ASSUME call[p].ptr # Nil, call[p].asked < heap[call[p].ptr].deadline,
             call' = Reply(p, heap[call[p].ptr].state, heap[call[p].ptr].val)
      PROVE  SafeInv'
  <2> DEFINE i == call[p].ptr
             e == heap[i]
  <2>1. i \in Ids /\ Points(call[p].key, i) BY <1>1, <1>2, <1>5 DEF Calls, Points
  <2>2. e \in Entries /\ EntryOK(e, failedAt[call[p].key])
    BY <1>1, <1>2, <2>1 DEF SafeInv, HeapOK
  <2>3. e.state \in Outcomes /\ e.val \in 0..MaxNow BY <2>2 DEF Entries, Outcomes
  <2>4. /\ call' \in [Procs -> Calls]
        /\ \A q \in Procs : q # p => call'[q] = call[q]
        /\ call'[p].pc = "reply" /\ call'[p].ptr = Nil
        /\ call'[p].got = e.state /\ call'[p].val = e.val
        /\ call'[p].key = call[p].key /\ call'[p].asked = call[p].asked
    BY <1>5, <2>3, ReplyEffect
  <2>5. ReplyOK(call[p])'
    <3>1. Longest \in Nat /\ FailTTL[kind] \in Nat /\ Longest' = Longest
      BY <1>1, <1>3, LifetimeFacts DEF Longest
    <3>2. failedAt'[call[p].key] \in Nat /\ failedAt' = failedAt
      BY <1>2, <1>3 DEF SafeInv, HistoryOK
    <3>3. e.deadline \in Nat /\ e.val \in Nat /\ call[p].asked \in Nat
          /\ e.state \in {"ok", "gone", "fail"}
      BY <1>1, <2>2 DEF Entries, Calls
    <3>4. e.state = "ok" =>
            /\ e.val # NoValue
            /\ \/ call[p].asked < e.val + Longest
               \/ call[p].asked < failedAt[call[p].key] + FailTTL[kind]
      BY <1>5, <2>2, <3>1, <3>2, <3>3 DEF EntryOK
    <3>5. e.val # NoValue => e.state = "ok" BY <2>2 DEF EntryOK
    <3>6. e.state = "fail" => call[p].asked < failedAt[call[p].key] + FailTTL[kind]
      BY <1>5, <2>2, <3>1, <3>2, <3>3 DEF EntryOK
    <3> HIDE DEF e
    <3> QED BY <1>3, <2>4, <3>1, <3>2, <3>4, <3>5, <3>6 DEF ReplyOK
  <2>6. CallOK(call[p])' BY <1>2, <1>3, <2>4, <2>5 DEF CallOK, SafeInv
  <2> QED BY <1>4, <2>4, <2>6
<1>6. ASSUME call' = [call EXCEPT ![p].pc = "enter"]
      PROVE  SafeInv'
  <2>1. /\ \A q \in Procs : q # p => call'[q] = call[q]
        /\ call'[p] = [call[p] EXCEPT !.pc = "enter"]
        /\ call' = [q \in Procs |-> call'[q]]
    BY <1>1, <1>6
  <2>2. /\ call'[p].pc = "enter" /\ call'[p].ptr = call[p].ptr
        /\ call'[p].key = call[p].key /\ call'[p].asked = call[p].asked
        /\ call'[p] \in Calls
    BY <1>1, <2>1 DEF Calls, PCs
  <2>3. call' \in [Procs -> Calls] BY <1>1, <2>1, <2>2
  <2>4. CallOK(call[p])' BY <1>2, <1>3, <2>2 DEF CallOK, SafeInv
  <2> QED BY <1>4, <2>1, <2>2, <2>3, <2>4
<1> QED BY <1>5, <1>6 DEF Check

\* singleflight.Do moves the goroutine on; its pointer stays.
LEMMA EnterStep ==
  ASSUME SafeInv, Onward, NEW p \in Procs, Enter(p)
  PROVE  SafeInv'
<1>1. /\ call \in [Procs -> Calls] /\ entries \in [Keys -> Ids \cup {Nil}]
      /\ flight \in [Keys -> Procs \cup {NoProc}] /\ kind \in Kinds
      /\ call[p] \in Calls
  BY DEF SafeInv, TypeOK, Calls
<1>2. call[p].key \in Keys /\ call[p].pc = "enter" BY DEF SafeInv, CallOK, Enter, At
<1>3. UNCHANGED <<kind, now, entries, heap, failedAt>> BY DEF Enter
<1>4. flight' \in [Keys -> Procs \cup {NoProc}] BY <1>1 DEF Enter
<1>5. PICK pc \in {"fetch", "wait"} : call' = [call EXCEPT ![p].pc = pc]
  BY DEF Enter
<1>6. /\ \A q \in Procs : q # p => call'[q] = call[q]
      /\ call'[p] = [call[p] EXCEPT !.pc = pc]
      /\ call' = [q \in Procs |-> call'[q]]
  BY <1>1, <1>5
<1>7. /\ call'[p].pc = pc /\ call'[p].ptr = call[p].ptr
      /\ call'[p].key = call[p].key /\ call'[p].asked = call[p].asked
      /\ call'[p] \in Calls
  BY <1>1, <1>6 DEF Calls, PCs
<1>8. call' \in [Procs -> Calls] BY <1>1, <1>6, <1>7
<1>9. CallOK(call[p])' BY <1>2, <1>3, <1>7 DEF CallOK, SafeInv
<1>10. \A q \in Procs : CallOK(call[q])' BY <1>6, <1>9, CallKept
<1>11. \A l \in Keys, i \in Ids : Points(l, i)' <=> Points(l, i)
  <2>1. \A q \in Procs : call'[q].ptr = call[q].ptr /\ call'[q].key = call[q].key
    BY <1>6, <1>7
  <2> QED BY <1>3, <2>1 DEF Points
<1> QED BY <1>1, <1>3, <1>4, <1>8, <1>10, <1>11, HeapKept, Assemble

\* The upstream's answer is no older than the question of anybody who waited.
LEMMA AnswerStep ==
  ASSUME SafeInv, Onward, NEW p \in Procs, Answer(p)
  PROVE  SafeInv'
<1>1. /\ call \in [Procs -> Calls] /\ entries \in [Keys -> Ids \cup {Nil}]
      /\ flight \in [Keys -> Procs \cup {NoProc}] /\ kind \in Kinds
      /\ now \in 1..MaxNow /\ failedAt \in [Keys -> 0..MaxNow]
  BY DEF SafeInv, TypeOK, Calls, HistoryOK
<1>2. call[p].key \in Keys /\ call[p].pc = "fetch" BY DEF SafeInv, CallOK, Answer, At
<1>3. UNCHANGED <<kind, now, entries, heap>> BY DEF Answer
<1>4. flight' \in [Keys -> Procs \cup {NoProc}] BY <1>1 DEF Answer
<1>5. PICK got \in Outcomes, m \in MinTTLs \cup {0} :
           /\ call' = [q \in Procs |->
                IF q \in Sharers(p)
                THEN [call[q] EXCEPT !.pc = "settle", !.got = got, !.ttl = m,
                                     !.val = IF got = "ok" THEN now ELSE NoValue]
                ELSE call[q]]
           /\ failedAt' = [failedAt EXCEPT ![call[p].key] =
                             IF got = "fail" THEN now ELSE @]
  BY AnswerEffect
<1>6. ASSUME NEW q \in Procs
      PROVE  /\ call'[q] \in Calls /\ call'[q].ptr = call[q].ptr
             /\ call'[q].key = call[q].key
             /\ CallOK(call[q])'
  <2>1. call[q] \in Calls BY <1>1
  <2>2. CASE q \notin Sharers(p)
    <3>1. call'[q] = call[q] BY <1>5, <2>2
    <3> QED BY <2>1, <3>1, CallKept
  <2>3. CASE q \in Sharers(p)
    <3>1. call[q].key = call[p].key /\ call[q].pc # "idle"
      BY <1>2, <2>3 DEF Sharers, At
    <3>2. call'[q] = [call[q] EXCEPT !.pc = "settle", !.got = got, !.ttl = m,
                                     !.val = IF got = "ok" THEN now ELSE NoValue]
      BY <1>5, <2>3
    <3>3. PICK v : (got = "ok" => v = now) /\ (got # "ok" => v = NoValue) OBVIOUS
    <3>4. call'[q] = [call[q] EXCEPT !.pc = "settle", !.got = got, !.ttl = m, !.val = v]
      <4>1. CASE got = "ok" BY <3>2, <3>3, <4>1
      <4>2. CASE got # "ok" BY <3>2, <3>3, <4>2
      <4> QED BY <4>1, <4>2
    <3>5. v \in 0..MaxNow BY <1>1, <3>3, StaleCacheAssumption DEF NoValue
    <3>6. /\ call'[q].pc = "settle" /\ call'[q].got = got /\ call'[q].val = v
          /\ call'[q].key = call[q].key /\ call'[q].ptr = call[q].ptr
          /\ call'[q].asked = call[q].asked
      BY <2>1, <3>4 DEF Calls
    <3>7. call'[q] \in Calls BY <2>1, <3>4, <3>5 DEF Calls, PCs
    <3>8. call[q].asked <= now BY DEF SafeInv, CallOK
    <3>9. got = "fail" => failedAt'[call[p].key] = now BY <1>1, <1>2, <1>5
    <3>10. OutcomeOK(call[q])'
      <4>1. now # NoValue BY <1>1 DEF NoValue
      <4> QED BY <3>1, <3>3, <3>6, <3>8, <3>9, <4>1 DEF OutcomeOK
    <3>11. CallOK(call[q])' BY <1>2, <1>3, <3>1, <3>6, <3>8, <3>10 DEF CallOK
    <3> QED BY <3>6, <3>7, <3>11
  <2> QED BY <2>2, <2>3
<1>7. call' \in [Procs -> Calls] BY <1>5, <1>6
<1>8. \A l \in Keys, i \in Ids : Points(l, i)' <=> Points(l, i)
  BY <1>3, <1>6 DEF Points
<1> QED BY <1>1, <1>3, <1>4, <1>6, <1>7, <1>8, HeapKept, Assemble

\* The caller has its answer.
LEMMA ReturnStep ==
  ASSUME SafeInv, Onward, NEW p \in Procs, Return(p)
  PROVE  SafeInv'
<1>1. /\ call \in [Procs -> Calls] /\ entries \in [Keys -> Ids \cup {Nil}]
      /\ flight \in [Keys -> Procs \cup {NoProc}] /\ kind \in Kinds /\ now \in 1..MaxNow
  BY DEF SafeInv, TypeOK, Calls
<1>2. call[p].ptr = Nil BY DEF SafeInv, CallOK, Return, At
<1>3. UNCHANGED <<kind, now, entries, heap, flight, failedAt>> BY DEF Return
<1>4. /\ \A q \in Procs : q # p => call'[q] = call[q]
      /\ call'[p] = Idle
      /\ call' = [q \in Procs |-> call'[q]]
  BY <1>1 DEF Return
<1>5. Idle \in Calls
  <2>1. 0 \in 0..MaxNow BY StaleCacheAssumption
  <2>2. "idle" \in PCs /\ "ok" \in Outcomes BY DEF PCs, Outcomes
  <2> QED BY <2>1, <2>2 DEF Calls, Idle, NoValue
<1>6. call' \in [Procs -> Calls] BY <1>1, <1>4, <1>5
<1>7. CallOK(call[p])' BY <1>1, <1>3, <1>4 DEF CallOK, Idle
<1>8. \A q \in Procs : CallOK(call[q])' BY <1>4, <1>7, CallKept
<1>9. \A l \in Keys, i \in Ids : Points(l, i)' <=> Points(l, i)
  BY <1>2, <1>3, <1>4 DEF Points, Idle
<1> QED BY <1>1, <1>3, <1>6, <1>8, <1>9, HeapKept, Assemble

\* Under the mutex: the entry found on arrival is extended, or a new one takes
\* its place in the map, or nothing happens.
LEMMA SettleStep ==
  ASSUME SafeInv, Onward, NEW p \in Procs, Settle(p)
  PROVE  SafeInv'
<1> DEFINE k == call[p].key
           i == call[p].ptr
<1>1. /\ call \in [Procs -> Calls] /\ entries \in [Keys -> Ids \cup {Nil}]
      /\ flight \in [Keys -> Procs \cup {NoProc}] /\ kind \in Kinds
      /\ DOMAIN heap \subseteq Ids /\ heap \in [DOMAIN heap -> Entries]
      /\ call[p] \in Calls
  BY DEF SafeInv, TypeOK, Calls
<1>2. k \in Keys /\ call[p].pc = "settle" /\ OutcomeOK(call[p]) /\ call[p].asked <= now
  BY DEF SafeInv, CallOK, Settle, At
<1>3. UNCHANGED <<kind, now, flight, failedAt>> BY DEF Settle
<1>4. /\ call[p].asked \in Nat /\ call[p].val \in 0..MaxNow /\ call[p].got \in Outcomes
      /\ call[p].ttl \in MinTTLs \cup {0} /\ i \in Ids \cup {Nil}
  BY <1>1 DEF Calls
<1>5. /\ Longest \in Nat \ {0} /\ FailTTL[kind] \in Nat \ {0} /\ Longest' = Longest
      /\ failedAt[k] \in Nat /\ failedAt' = failedAt
  BY <1>1, <1>2, <1>3, LifetimeFacts DEF Longest, SafeInv, HistoryOK
\* Whoever settles is told the truth.
<1>6. ASSUME NEW v \in 0..MaxNow, call' = Reply(p, call[p].got, v),
             call[p].got # "fail" => v = call[p].val
      PROVE  /\ \A q \in Procs : CallOK(call[q])'
             /\ call' \in [Procs -> Calls]
             /\ \A q \in Procs : q # p => call'[q] = call[q]
             /\ call'[p].ptr = Nil
             /\ \A q \in Procs : call'[q].ptr # Nil => call'[q].key \in Keys
  <2>1. /\ call' \in [Procs -> Calls]
        /\ \A q \in Procs : q # p => call'[q] = call[q]
        /\ call'[p].pc = "reply" /\ call'[p].ptr = Nil
        /\ call'[p].got = call[p].got /\ call'[p].val = v
        /\ call'[p].key = k /\ call'[p].asked = call[p].asked
    BY <1>4, <1>6, ReplyEffect
  <2>2. ReplyOK(call[p])'
    <3>1. call[p].got = "ok" => v # NoValue /\ call[p].asked < v + Longest
      BY <1>2, <1>4, <1>5, <1>6 DEF OutcomeOK
    <3>2. v # NoValue => call[p].got \in {"ok", "fail"}
      BY <1>2, <1>4, <1>6 DEF OutcomeOK
    <3>3. call[p].got = "fail" => call[p].asked < failedAt[k] + FailTTL[kind]
      BY <1>2, <1>4, <1>5 DEF OutcomeOK
    <3> QED BY <1>3, <1>5, <2>1, <3>1, <3>2, <3>3 DEF ReplyOK
  <2>3. CallOK(call[p])' BY <1>2, <1>3, <2>1, <2>2 DEF CallOK
  <2>4. \A q \in Procs : CallOK(call[q])' BY <2>1, <2>3, CallKept
  <2> QED BY <2>1, <2>4 DEF CallOK
\* Nothing changes on the heap.
<1>7. CASE PassesThrough(p) /\ call' = Reply(p, call[p].got, NoValue)
           /\ UNCHANGED entries /\ heap' = Collected(heap)
  <2>1. NoValue \in 0..MaxNow /\ (call[p].got # "fail" => NoValue = call[p].val)
    BY <1>2, <1>7, StaleCacheAssumption DEF PassesThrough, OutcomeOK, NoValue
  <2>2. \A l \in Keys, x \in Ids : Points(l, x)' => Points(l, x)
    BY <1>6, <1>7, <2>1 DEF Points
  <2>3. \A l \in Keys, x \in Ids : Points(l, x)' => Sound(heap, l, x)
    BY <2>2, PointerKept
  <2>4. \A l, m \in Keys, x \in Ids : Points(l, x)' /\ Points(m, x)' => l = m
    BY <2>2 DEF SafeInv, HeapOK
  <2>5. HeapOK' /\ DOMAIN heap' \subseteq Ids /\ heap' \in [DOMAIN heap' -> Entries]
    BY <1>1, <1>6, <1>7, <2>1, <2>3, <2>4, HeapCollected
  <2> QED BY <1>1, <1>3, <1>6, <1>7, <2>1, <2>5, Assemble
\* The deadline of one entry changes, and that entry is k's alone.
<1>8. CASE ServesStale(p) /\ Extend(p)
  <2>1. PICK h : h = [heap EXCEPT ![i].deadline = Extended(p)] OBVIOUS
  <2>2. i \in Ids /\ i \in DOMAIN heap /\ call[p].got = "fail" /\ heap[i] \in Entries
        /\ heap[i].state = "ok" /\ Points(k, i) /\ EntryOK(heap[i], failedAt[k])
    <3>1. i # Nil /\ call[p].got = "fail" /\ heap[i].state = "ok"
      BY <1>8 DEF ServesStale
    <3>2. i \in Ids /\ Points(k, i) BY <1>4, <3>1 DEF Points
    <3> QED BY <1>1, <1>2, <3>1, <3>2 DEF SafeInv, HeapOK
  <2>3. heap[i].val \in 0..MaxNow BY <2>2 DEF Entries
  <2>4. call' = Reply(p, call[p].got, heap[i].val) /\ UNCHANGED entries
        /\ heap' = Collected(h)
    BY <1>8, <2>1 DEF Extend
  <2>5. Extended(p) \in Nat /\ Extended(p) <= failedAt[k] + FailTTL[kind]
    BY <1>2, <1>4, <1>5, <2>2 DEF Extended, OutcomeOK
  <2>6. /\ DOMAIN h = DOMAIN heap
        /\ \A x \in DOMAIN heap : x # i => h[x] = heap[x]
        /\ h[i] = [heap[i] EXCEPT !.deadline = Extended(p)]
    BY <1>1, <2>1, <2>2
  <2>7. /\ h[i] \in Entries /\ h[i].state = "ok" /\ h[i].val = heap[i].val
        /\ h[i].deadline = Extended(p)
    BY <2>2, <2>5, <2>6 DEF Entries
  <2>8. \A x \in DOMAIN h : h[x] \in Entries BY <1>1, <2>6, <2>7
  <2>9. Sound(h, k, i)
    BY <1>5, <2>2, <2>5, <2>6, <2>7 DEF Sound, EntryOK
  <2>10. \A l \in Keys, x \in Ids : Points(l, x)' => Points(l, x)
    BY <1>6, <2>2, <2>3, <2>4 DEF Points
  <2>11. ASSUME NEW l \in Keys, NEW x \in Ids, Points(l, x)'
         PROVE  Sound(h, l, x)
    <3>1. Points(l, x) /\ Sound(heap, l, x) BY <2>10, <2>11, PointerKept
    <3>2. CASE x = i BY <1>2, <2>2, <2>9, <3>1, <3>2 DEF SafeInv, HeapOK
    <3>3. CASE x # i BY <2>6, <3>1, <3>3 DEF Sound
    <3> QED BY <3>2, <3>3
  <2>12. \A l, m \in Keys, x \in Ids : Points(l, x)' /\ Points(m, x)' => l = m
    BY <2>10 DEF SafeInv, HeapOK
  <2>13. HeapOK' /\ DOMAIN heap' \subseteq Ids /\ heap' \in [DOMAIN heap' -> Entries]
    BY <1>1, <1>6, <2>2, <2>3, <2>4, <2>6, <2>8, <2>11, <2>12, HeapCollected
  <2> QED BY <1>1, <1>3, <1>6, <2>2, <2>3, <2>4, <2>13, Assemble
\* A new entry, under an identity nobody has a pointer to.
<1>9. CASE ~PassesThrough(p) /\ Replace(p)
  <2> DEFINE lifetime == Lifetime(call[p].got, call[p].ttl)
  <2>1. PICK n : n = CHOOSE x \in Ids : x \notin DOMAIN heap OBVIOUS
  <2>2. n \in Ids /\ n \notin DOMAIN heap BY <2>1, FreshId, Zenon
  <2>3. PICK e : e = [state |-> call[p].got, val |-> call[p].val,
                      deadline |-> call[p].asked + lifetime]
    OBVIOUS
  <2>4. PICK h : h = [x \in DOMAIN heap \cup {n} |-> IF x = n THEN e ELSE heap[x]]
    OBVIOUS
  <2>5. /\ entries' = [entries EXCEPT ![k] = n]
        /\ call' = Reply(p, call[p].got, call[p].val)
        /\ heap' = Collected(h)
    BY <1>9, <2>1, <2>3, <2>4 DEF Replace
  <2>6. call[p].got \in {"ok", "gone", "fail"}
    BY <1>4, <1>9 DEF PassesThrough, Outcomes
  <2>7. /\ lifetime \in Nat
        /\ call[p].got = "ok" => lifetime <= Longest
        /\ call[p].got = "fail" => lifetime = FailTTL[kind]
    BY <1>1, <1>4, LifetimeFacts
  <2> HIDE DEF lifetime
  <2>8. /\ e \in Entries /\ e.state = call[p].got /\ e.val = call[p].val
        /\ e.deadline = call[p].asked + lifetime
    BY <1>4, <2>3, <2>6, <2>7 DEF Entries
  <2>9. EntryOK(e, failedAt'[k])
    BY <1>2, <1>4, <1>5, <2>6, <2>7, <2>8 DEF EntryOK, OutcomeOK
  <2>10. /\ DOMAIN h = DOMAIN heap \cup {n} /\ h[n] = e
         /\ \A x \in DOMAIN heap : h[x] = heap[x]
    BY <2>2, <2>4
  <2>11. \A x \in DOMAIN h : h[x] \in Entries BY <1>1, <2>8, <2>10
  <2>12. entries' \in [Keys -> Ids \cup {Nil}] BY <1>1, <1>2, <2>2, <2>5
  <2>13. ASSUME NEW l \in Keys, NEW x \in Ids, Points(l, x)'
         PROVE  (x = n /\ l = k) \/ (x # n /\ Points(l, x))
    <3>1. \A q \in Procs : call'[q].ptr = x => call[q].ptr = x /\ call'[q].key = call[q].key
      BY <1>4, <1>6, <2>5, IdFacts
    <3>2. entries'[l] = x => entries[l] = x \/ (l = k /\ x = n)
      BY <1>1, <1>2, <2>5
    <3>3. x = n => ~Points(l, x) BY <2>2 DEF SafeInv, HeapOK
    <3>4. Points(l, x) \/ (l = k /\ x = n)
      <4>1. x # Nil /\ (entries'[l] = x \/ \E q \in Procs : call'[q].ptr = x /\ call'[q].key = l)
        BY <2>13 DEF Points
      <4>2. CASE entries'[l] = x BY <3>2, <4>1, <4>2 DEF Points
      <4>3. CASE \E q \in Procs : call'[q].ptr = x /\ call'[q].key = l
        BY <3>1, <4>1, <4>3, Zenon DEF Points
      <4> QED BY <4>1, <4>2, <4>3
    <3> QED BY <3>3, <3>4
  <2>14. ASSUME NEW l \in Keys, NEW x \in Ids, Points(l, x)'
         PROVE  Sound(h, l, x)
    <3>1. CASE x = n /\ l = k BY <2>9, <2>10, <3>1 DEF Sound
    <3>2. CASE x # n /\ Points(l, x)
      <4>1. Sound(heap, l, x) BY <3>2, PointerKept
      <4> QED BY <2>10, <4>1 DEF Sound
    <3> QED BY <2>13, <2>14, <3>1, <3>2
  <2>15. \A l, m \in Keys, x \in Ids : Points(l, x)' /\ Points(m, x)' => l = m
    BY <2>13 DEF SafeInv, HeapOK
  <2>16. HeapOK' /\ DOMAIN heap' \subseteq Ids /\ heap' \in [DOMAIN heap' -> Entries]
    BY <1>1, <1>4, <1>6, <2>2, <2>5, <2>10, <2>11, <2>14, <2>15, HeapCollected
  <2> QED BY <1>1, <1>3, <1>4, <1>6, <2>5, <2>12, <2>16, Assemble
<1> QED BY <1>7, <1>8, <1>9 DEF Settle

\* Every step of the caches keeps them in order.
LEMMA SafeStep ==
  ASSUME SafeInv, [Next]_vars
  PROVE  SafeInv'
<1>1. Onward BY StepOnward
<1>2. CASE UNCHANGED <<entries, heap, flight, call>>
  <2>1. \A k \in Keys, i \in Ids : Points(k, i)' <=> Points(k, i) BY <1>2 DEF Points
  <2>2. \A p \in Procs : CallOK(call[p])' BY <1>1, <1>2, CallKept
  <2> QED
    BY <1>1, <1>2, <2>1, <2>2, HeapKept, Assemble DEF SafeInv, TypeOK, Calls
<1>3. CASE Tick \/ UNCHANGED vars BY <1>2, <1>3 DEF Tick, vars
<1>4. CASE \E p \in Procs, k \in Keys : Peek(p, k) BY <1>1, <1>4, PeekStep
<1>5. CASE \E p \in Procs : Step(p)
  BY <1>1, <1>5, CheckStep, EnterStep, AnswerStep, SettleStep, ReturnStep DEF Step
<1> QED BY <1>3, <1>4, <1>5 DEF Next

\* Nobody has asked anything yet.
LEMMA SafeInit == Init => SafeInv
<1> SUFFICES ASSUME Init PROVE SafeInv OBVIOUS
<1> USE StaleCacheAssumption DEF Init
<1>1. Idle \in Calls
  <2>1. 0 \in 0..MaxNow OBVIOUS
  <2>2. "idle" \in PCs /\ "ok" \in Outcomes BY DEF PCs, Outcomes
  <2> QED BY <2>1, <2>2 DEF Calls, Idle, NoValue
<1>2. \A p \in Procs : call[p] = Idle /\ CallOK(call[p]) BY DEF CallOK, Idle
<1>3. DOMAIN heap = {} OBVIOUS
<1>4. TypeOK
  <2>1. call \in [Procs -> Calls] BY <1>1
  <2>2. \A p \in Procs : call[p].ptr = Nil BY <1>2 DEF Idle
  <2>3. heap \in [DOMAIN heap -> Entries] OBVIOUS
  <2> QED BY <1>3, <2>1, <2>2, <2>3 DEF TypeOK, Calls
<1>5. HistoryOK BY DEF HistoryOK
<1>6. \A k \in Keys, i \in Ids : ~Points(k, i) BY <1>2 DEF Points, Idle
<1>7. HeapOK BY <1>3, <1>6 DEF HeapOK
<1> QED BY <1>2, <1>4, <1>5, <1>7 DEF SafeInv

\* The caches' invariant is one.
THEOREM CachesSafe == Spec => []SafeInv
<1>1. SafeInv /\ [Next]_vars => SafeInv' BY SafeStep
<1> QED BY SafeInit, <1>1, PTL DEF Spec

\* What SafeInv says of replies.
LEMMA SafeReplies == SafeInv => TypeOK /\ ValueFitsError /\ StaleOnlyInBackoff
<1> SUFFICES ASSUME SafeInv PROVE TypeOK /\ ValueFitsError /\ StaleOnlyInBackoff OBVIOUS
<1>1. \A p \in Procs : At(p, "reply") => ReplyOK(call[p]) BY DEF SafeInv, CallOK, At
<1>2. TypeOK BY DEF SafeInv
<1> QED BY <1>1, <1>2 DEF ReplyOK, ValueFitsError, StaleOnlyInBackoff

-----------------------------------------------------------------------------
\* The pages follow the caches: every step of PSpec is one of theirs, or leaves
\* them alone.
LEMMA PagesStep == [PNext]_pageVars => [Next]_vars
BY DEF PNext, Next, Step, Visit, Limited, Respond, Expire, pageVars

\* Pages keep what the caches promise, and that for as long as a page may be
\* shown: a page's lifetime is added to the value's, or to the failure's.
PageOK(k) ==
  /\ page[k].until \in Nat /\ page[k].val \in Nat
  /\ page[k].says = "value" =>
       \/ page[k].until <= page[k].val + Longest + LongestAge
       \/ page[k].until <= failedAt[k] + FailTTL[kind] + LongestAge
  /\ page[k].says = "banner" =>
       page[k].until <= failedAt[k] + FailTTL[kind] + BannerAge

PageInv == DOMAIN page = Keys /\ \A k \in Keys : PageOK(k)

\* There is a longest max-age.
LEMMA LongestAgeFacts ==
  ASSUME kind \in Kinds
  PROVE  LongestAge \in Nat \ {0} /\ \A a \in OkAges[kind] : a \in Nat /\ a <= LongestAge
<1>1. \E a \in OkAges[kind] : \A b \in OkAges[kind] : b <= a BY PagesAssumption
<1>2. LongestAge \in OkAges[kind] /\ \A b \in OkAges[kind] : b <= LongestAge
  BY <1>1, Zenon DEF LongestAge
<1> QED BY <1>2, PagesAssumption

\* What the pages see of the caches' invariant, and of the time that passes.
LEMMA PageArith ==
  ASSUME SafeInv, Onward
  PROVE  /\ now \in Nat /\ now' \in Nat /\ kind' = kind
         /\ Longest \in Nat \ {0} /\ FailTTL[kind] \in Nat \ {0} /\ BannerAge \in Nat \ {0}
         /\ LongestAge \in Nat \ {0} /\ \A a \in OkAges[kind] : a \in Nat /\ a <= LongestAge
         /\ Longest' = Longest /\ LongestAge' = LongestAge
         /\ \A k \in Keys : /\ failedAt[k] \in Nat /\ failedAt'[k] \in Nat
                            /\ failedAt[k] <= failedAt'[k]
BY LifetimeFacts, LongestAgeFacts, PagesAssumption
   DEF SafeInv, TypeOK, HistoryOK, Onward, Longest, LongestAge

\* A page that is left alone stays as good as it was.
LEMMA PageKept ==
  ASSUME SafeInv, Onward, NEW k \in Keys, PageOK(k), page'[k] = page[k]
  PROVE  PageOK(k)'
BY PageArith DEF PageOK

\* No page is no harm.
LEMMA NoPageOK ==
  ASSUME NEW k \in Keys, page'[k] = NoPage
  PROVE  PageOK(k)'
BY DEF PageOK, NoPage, NoValue

\* The page of a response is young enough.
LEMMA RespondPage ==
  ASSUME SafeInv, Onward, NEW p \in Procs, At(p, "reply"),
         NEW r \in Responses(p), r.age # 0, NEW k \in Keys, k = call[p].key,
         page'[k] = [says |-> r.says, val |-> r.val, until |-> Until(p, r.age)]
  PROVE  PageOK(k)'
<1> DEFINE c == call[p]
<1>1. ReplyOK(c) /\ c.asked \in Nat /\ c.val \in Nat BY DEF SafeInv, CallOK, At, TypeOK
<1>2. CASE c.got = "ok"
  <2>1. PICK age \in OkAges[kind] : r = Html("value", c.val, age)
    BY <1>2 DEF Responses, Kept
  <2>2. r.says = "value" /\ r.val = c.val /\ r.age = age BY <2>1 DEF Html
  <2>3. page'[k] = [says |-> "value", val |-> c.val, until |-> c.asked + age]
    BY <2>2 DEF Until
  <2> QED BY <1>1, <1>2, <2>3, PageArith DEF PageOK, ReplyOK
<1>3. CASE c.got = "fail"
  <2>1. r \in OnFailure(c.val) BY <1>3 DEF Responses
  <2>2. \/ r.says = "stale" /\ \E age \in OkAges[kind] \cup {BannerAge} : r = Html("stale", c.val, age)
        \/ r = Html("banner", NoValue, BannerAge)
    BY <2>1 DEF OnFailure, Kept, Error, Html
  <2>3. CASE \E age \in OkAges[kind] \cup {BannerAge} : r = Html("stale", c.val, age)
    <3>1. PICK age \in OkAges[kind] \cup {BannerAge} : r = Html("stale", c.val, age)
      BY <2>3
    <3>2. page'[k] = [says |-> "stale", val |-> c.val, until |-> c.asked + age]
      BY <3>1 DEF Until, Html
    <3> QED BY <1>1, <3>2, PageArith DEF PageOK
  <2>4. CASE r = Html("banner", NoValue, BannerAge)
    <3>1. page'[k] = [says |-> "banner", val |-> NoValue, until |-> c.asked + BannerAge]
      BY <2>4 DEF Until, Html
    <3> QED BY <1>1, <1>3, <3>1, PageArith DEF PageOK, ReplyOK, NoValue
  <2> QED BY <2>2, <2>3, <2>4
<1>4. CASE c.got \notin {"ok", "fail"}
  BY <1>4 DEF Responses, Error, Html
<1> QED BY <1>2, <1>3, <1>4

\* The steps of the caches leave the pages alone, responses and the limit make
\* one, and time takes them away.
LEMMA PageStep ==
  ASSUME SafeInv, PageInv, [PNext]_pageVars
  PROVE  PageInv'
<1>1. Onward BY PagesStep, StepOnward
<1>2. CASE UNCHANGED page BY <1>1, <1>2, PageKept DEF PageInv
<1>3. ASSUME NEW p \in Procs, NEW k \in Keys, Limited(p, k)
      PROVE  PageInv'
  <2>1. page' = [page EXCEPT ![k] = [says |-> "limit", val |-> NoValue,
                                     until |-> now + BannerAge]]
    BY <1>3 DEF Limited
  <2>2. PageOK(k)' BY <1>1, <2>1, PageArith DEF PageOK, NoValue, PageInv
  <2>3. \A l \in Keys : l # k => page'[l] = page[l] BY <2>1 DEF PageInv
  <2>4. \A l \in Keys : PageOK(l)' BY <1>1, <2>2, <2>3, PageKept DEF PageInv
  <2> QED BY <2>1, <2>4 DEF PageInv
<1>4. ASSUME NEW p \in Procs, Respond(p)
      PROVE  PageInv'
  <2>1. At(p, "reply") BY <1>4 DEF Respond, Return
  <2>2. PICK k : k = call[p].key OBVIOUS
  <2>3. k \in Keys BY <2>1, <2>2 DEF SafeInv, CallOK, At
  <2>4. CASE \E r \in Responses(p) :
               /\ r.age # 0
               /\ page' = [page EXCEPT ![k] = [says |-> r.says, val |-> r.val,
                                               until |-> Until(p, r.age)]]
    <3>1. PICK r \in Responses(p) :
               /\ r.age # 0
               /\ page' = [page EXCEPT ![k] = [says |-> r.says, val |-> r.val,
                                               until |-> Until(p, r.age)]]
      BY <2>4
    <3>2. page'[k] = [says |-> r.says, val |-> r.val, until |-> Until(p, r.age)]
          /\ \A l \in Keys : l # k => page'[l] = page[l]
      BY <2>3, <3>1 DEF PageInv
    <3>3. PageOK(k)' BY <1>1, <2>1, <2>2, <2>3, <3>1, <3>2, RespondPage
    <3>4. \A l \in Keys : PageOK(l)' BY <1>1, <3>2, <3>3, PageKept DEF PageInv
    <3> QED BY <3>1, <3>4 DEF PageInv
  <2> QED BY <1>2, <1>4, <2>2, <2>4, Zenon DEF Respond
<1>5. CASE Expire
  <2>1. page' = [k \in Keys |-> IF now' < page[k].until THEN page[k] ELSE NoPage]
    BY <1>5 DEF Expire
  <2>2. ASSUME NEW k \in Keys PROVE PageOK(k)'
    BY <1>1, <2>1, PageKept, NoPageOK DEF PageInv
  <2> QED BY <2>1, <2>2 DEF PageInv
<1> QED BY <1>2, <1>3, <1>4, <1>5 DEF PNext, Visit, pageVars

\* No page has been made.
LEMMA PageInit == PInit => PageInv
<1> SUFFICES ASSUME PInit PROVE PageInv OBVIOUS
<1>1. page = [k \in Keys |-> NoPage] BY DEF PInit
<1> QED BY <1>1 DEF PageInv, PageOK, NoPage, NoValue

\* The pages' invariant is one, and the caches' holds under them.
THEOREM PagesSafe == PSpec => [](SafeInv /\ PageInv)
<1>1. PInit => SafeInv /\ PageInv BY SafeInit, PageInit DEF PInit
<1>2. SafeInv /\ PageInv /\ [PNext]_pageVars => (SafeInv /\ PageInv)'
  BY PagesStep, SafeStep, PageStep
<1> QED BY <1>1, <1>2, PTL DEF PSpec

\* No pointer dangles and no entry is made of "throttled", whatever the caches do
\* (the map and the entries of the three Get functions).
THEOREM PagesTypeCorrect == PSpec => []TypeOK
<1>1. SafeInv => TypeOK BY SafeReplies
<1> QED BY <1>1, PagesSafe, PTL

\* A value comes without an error or with a transient one, and who is told that
\* nothing went wrong has one (Get's two results, quote/cached, profile/cached and
\* resolver/cached).
THEOREM ValuesFitErrors == PSpec => []ValueFitsError
<1>1. SafeInv => ValueFitsError BY SafeReplies
<1> QED BY <1>1, PagesSafe, PTL

\* An old value passes for a fresh one only while a failure of the key is kept:
\* the deadline of a stale entry is extended in place, by each of those who waited.
THEOREM StaleIsBackoff == PSpec => []StaleOnlyInBackoff
<1>1. SafeInv => StaleOnlyInBackoff BY SafeReplies
<1> QED BY <1>1, PagesSafe, PTL

\* A fresh page is as good as PageOK says.
LEMMA FreshPages == SafeInv /\ PageInv => PagesAreYoung /\ BannerIsRecent
<1> SUFFICES ASSUME SafeInv, PageInv, NEW k \in Keys, Fresh(k)
             PROVE  /\ page[k].says = "value" =>
                         \/ now < page[k].val + Longest + LongestAge
                         \/ now < failedAt[k] + FailTTL[kind] + LongestAge
                    /\ page[k].says = "banner" =>
                         now < failedAt[k] + FailTTL[kind] + BannerAge
  BY DEF PagesAreYoung, BannerIsRecent
<1>1. /\ now \in Nat /\ failedAt[k] \in Nat /\ FailTTL[kind] \in Nat /\ Longest \in Nat
      /\ LongestAge \in Nat /\ BannerAge \in Nat /\ PageOK(k)
  BY LifetimeFacts, LongestAgeFacts, PagesAssumption
     DEF SafeInv, TypeOK, HistoryOK, PageInv
<1> QED BY <1>1 DEF PageOK, Fresh

\* The lifetimes of the value, or of the failure, and of the page add up, and no
\* more: max-age counts from the request's arrival (cachedResponse.fresh).
THEOREM PagesYoung == PSpec => []PagesAreYoung
<1>1. SafeInv /\ PageInv => PagesAreYoung BY FreshPages
<1> QED BY <1>1, PagesSafe, PTL

\* GitHub's rate-limit banner outlives the last failure by a failure's lifetime
\* and a minute at the most (rateLimitMaxAge).
THEOREM BannersRecent == PSpec => []BannerIsRecent
<1>1. SafeInv /\ PageInv => BannerIsRecent BY FreshPages
<1> QED BY <1>1, PagesSafe, PTL
=============================================================================

-------------------------- MODULE SnapshotProofs --------------------------
(***************************************************************************)
(* Proofs about Snapshot, for every number of caches and keys, every       *)
(* lifetime, every sequence of builds and every bound on the clock.        *)
(***************************************************************************)
EXTENDS Snapshot, TLAPS

\* No entry outlives its TTL: what must be true of memory and of every file alike
\* for NoResurrection to be inductive.
Lasting(c) == Contents(c) /\ \A k \in DOMAIN c : c[k].exp <= c[k].at + TTL
OnDisk(s) == s \in {NoFile, Garbage} \/ (Whole(s) /\ Lasting(s.entries))

StateOK ==
  /\ now \in 0..MaxNow /\ schema \in Schemas /\ phase \in Phases
  /\ turn \in 1..Len(Caches) /\ failed \subseteq Names
  /\ mem = [n \in Names |-> mem[n]]
  /\ file = [n \in Names |-> file[n]]
  /\ tmp = [n \in Names |-> tmp[n]]
  /\ \A n \in Names : Lasting(mem[n]) /\ OnDisk(file[n]) /\ OnDisk(tmp[n])

\* The save of cache n is over: it is on disk, or it could not be.
Handled(n) == n \in failed \/ tmp[n] # NoFile \/ Saved(n)

\* Temporary file s is a snapshot of cache n, up to what has expired since.
Copies(s, n) ==
  /\ s \notin {NoFile, Garbage}
  /\ s.schema = schema
  /\ Agrees(s.entries, n)
  /\ \A k \in DOMAIN AllOf(mem[n]) : k \in DOMAIN s.entries /\ s.entries[k] = mem[n][k]

\* What a shutdown has done by each of its steps.
SaveOK ==
  /\ phase = "rename" => Copies(tmp[Current], Current)
  /\ phase \in {"open", "write", "rename"} => \A i \in 1..turn - 1 : Handled(Caches[i])
  /\ phase = "done" => \A n \in Names : Handled(n)

-----------------------------------------------------------------------------
LEMMA CurrentName == turn \in 1..Len(Caches) => Current \in Names
BY DEF Current, Names

LEMMA CachesLength == Len(Caches) \in Nat \ {0}
BY SnapshotAssumption

\* The walk over the caches stays on the list, and leaves it at its end only.
LEMMA AdvanceProperties ==
  ASSUME turn \in 1..Len(Caches), NEW same, NEW next, Advance(same, next)
  PROVE  /\ turn' \in 1..Len(Caches) /\ phase' \in {same, next}
         /\ \/ phase' = same /\ turn' = turn + 1
            \/ phase' = next /\ turn = Len(Caches) /\ turn' = 1
BY CachesLength DEF Advance

\* What is left when the expired entries are skipped.
LEMMA AllOfProperties ==
  ASSUME NEW c, Lasting(c)
  PROVE  /\ Lasting(AllOf(c))
         /\ DOMAIN AllOf(c) = {k \in DOMAIN c : c[k].exp > now}
         /\ \A k \in DOMAIN AllOf(c) : AllOf(c)[k] = c[k]
<1>1. /\ DOMAIN AllOf(c) = {k \in DOMAIN c : c[k].exp > now}
      /\ \A k \in DOMAIN AllOf(c) : k \in DOMAIN c /\ AllOf(c)[k] = c[k]
      /\ AllOf(c) = [k \in DOMAIN AllOf(c) |-> AllOf(c)[k]]
  BY DEF AllOf
<1>2. DOMAIN c \subseteq Keys /\ \A k \in DOMAIN c : c[k] \in Answers
  BY DEF Lasting, Contents
<1>3. AllOf(c) \in [DOMAIN AllOf(c) -> Answers] BY <1>1, <1>2
<1> QED BY <1>1, <1>2, <1>3 DEF Lasting, Contents

\* A new content of one cache, or of one file, leaves the others alone.
LEMMA StateStep ==
  ASSUME StateOK, now' \in 0..MaxNow, schema' \in Schemas, phase' \in Phases,
         turn' \in 1..Len(Caches), failed' \subseteq Names, NEW n \in Names,
         NEW c, Lasting(c), NEW f, OnDisk(f), NEW t, OnDisk(t),
         mem' = [mem EXCEPT ![n] = c] \/ mem' = mem,
         file' = [file EXCEPT ![n] = f] \/ file' = file,
         tmp' = [tmp EXCEPT ![n] = t] \/ tmp' = tmp
  PROVE  StateOK'
<1>1. mem' = [m \in Names |-> mem'[m]] /\ \A m \in Names : Lasting(mem'[m])
  BY DEF StateOK
<1>2. file' = [m \in Names |-> file'[m]] /\ \A m \in Names : OnDisk(file'[m])
  BY DEF StateOK
<1>3. tmp' = [m \in Names |-> tmp'[m]] /\ \A m \in Names : OnDisk(tmp'[m])
  BY DEF StateOK
<1>4. (\A m \in Names : Lasting(mem[m]) /\ OnDisk(file[m]) /\ OnDisk(tmp[m]))'
  BY <1>1, <1>2, <1>3
  DEF Lasting, OnDisk, Contents, Whole, Answers, Names
<1> QED BY <1>1, <1>2, <1>3, <1>4 DEF StateOK, Names, Phases

\* Steps that leave the contents alone.
LEMMA SameContents ==
  ASSUME StateOK, now' \in 0..MaxNow, schema' \in Schemas, phase' \in Phases,
         turn' \in 1..Len(Caches), failed' \subseteq Names,
         UNCHANGED <<mem, disk>>
  PROVE  StateOK'
<1>1. UNCHANGED <<mem, file, tmp>> BY DEF disk
<1>2. 1 \in 1..Len(Caches) BY CachesLength
<1>3. PICK n \in Names : TRUE BY <1>2 DEF Names
<1>4. Lasting(mem[n]) /\ OnDisk(file[n]) /\ OnDisk(tmp[n]) BY DEF StateOK
<1> QED BY <1>1, <1>4, StateStep

\* A process that is gone has nothing in memory.
LEMMA ColdState ==
  ASSUME StateOK, phase' = "down", mem' = Cold, failed' = {},
         turn' \in 1..Len(Caches), UNCHANGED <<now, schema, disk>>
  PROVE  StateOK'
<1>1. UNCHANGED <<file, tmp>> BY DEF disk
<1>2. Lasting(<<>>)
  <2>1. DOMAIN <<>> = {} /\ <<>> \in [{} -> Answers] OBVIOUS
  <2> QED BY <2>1 DEF Lasting, Contents
<1>3. mem' = [n \in Names |-> mem'[n]] /\ \A n \in Names : mem'[n] = <<>> BY DEF Cold
<1>4. (\A n \in Names : Lasting(mem[n]) /\ OnDisk(file[n]) /\ OnDisk(tmp[n]))'
  BY <1>1, <1>2, <1>3 DEF StateOK, Lasting, OnDisk, Contents, Whole, Answers, Names
<1> QED BY <1>1, <1>3, <1>4 DEF StateOK, Names, Phases

LEMMA Init_StateOK == Init => StateOK
<1> SUFFICES ASSUME Init PROVE StateOK OBVIOUS
<1>1. Lasting(<<>>)
  <2>1. DOMAIN <<>> = {} /\ <<>> \in [{} -> Answers] OBVIOUS
  <2> QED BY <2>1 DEF Lasting, Contents
<1>2. now \in 0..MaxNow /\ turn \in 1..Len(Caches)
  BY CachesLength, SnapshotAssumption DEF Init
<1>3. /\ mem = [n \in Names |-> <<>>]
      /\ file \in [Names -> {NoFile, Garbage}]
      /\ tmp = [n \in Names |-> NoFile]
  BY DEF Init, Cold
<1>4. \A n \in Names : Lasting(mem[n]) /\ OnDisk(file[n]) /\ OnDisk(tmp[n])
  BY <1>1, <1>3 DEF OnDisk
<1> QED BY <1>2, <1>3, <1>4 DEF Init, StateOK, Phases

-----------------------------------------------------------------------------
LEMMA LoadState ==
  ASSUME StateOK, LoadOne
  PROVE  StateOK'
<1> DEFINE n == Current
           c == Restored(file[n])
<1>1. /\ n \in Names /\ turn' \in 1..Len(Caches) /\ phase' \in {"load", "serve"}
      /\ UNCHANGED <<now, schema, tmp, failed>>
      /\ OnDisk(file[n]) /\ OnDisk(tmp[n]) /\ Lasting(mem[n])
  BY CurrentName, AdvanceProperties DEF LoadOne, StateOK
<1>2. now' \in 0..MaxNow /\ schema' \in Schemas /\ phase' \in Phases /\ failed' \subseteq Names
  BY <1>1 DEF StateOK, Phases
<1>3. OnDisk(NoFile) BY DEF OnDisk
<1>4. CASE Loadable(file[n]) /\ mem' = [mem EXCEPT ![n] = c] /\ UNCHANGED file
  <2>1. Lasting(c) BY <1>1, <1>4, AllOfProperties DEF Loadable, OnDisk, Restored
  <2> HIDE DEF n, c
  <2> QED BY <1>1, <1>2, <1>4, <2>1, StateStep
<1>5. CASE file' = [file EXCEPT ![n] = NoFile] /\ UNCHANGED mem
  <2> HIDE DEF n
  <2> QED BY <1>1, <1>2, <1>3, <1>5, StateStep
<1>6. CASE UNCHANGED <<mem, file>>
  BY <1>1, <1>2, <1>6, SameContents DEF disk
<1> QED BY <1>4, <1>5, <1>6 DEF LoadOne

LEMMA FillState ==
  ASSUME StateOK, NEW n \in Names, NEW k \in Keys, Fill(n, k)
  PROVE  StateOK'
<1>1. PICK kept \in SUBSET (DOMAIN mem[n] \ {k}) :
        mem' = [mem EXCEPT ![n] =
          [x \in kept \cup {k} |->
             IF x = k THEN [at |-> now, exp |-> now + TTL] ELSE mem[n][x]]]
  BY DEF Fill
<1> DEFINE e == [at |-> now, exp |-> now + TTL]
           c == [x \in kept \cup {k} |-> IF x = k THEN e ELSE mem[n][x]]
<1>2. e \in Answers /\ e.exp <= e.at + TTL
  BY SnapshotAssumption DEF StateOK, Answers
<1>3. /\ DOMAIN mem[n] \subseteq Keys
      /\ \A x \in DOMAIN mem[n] : /\ mem[n][x] \in Answers
                                  /\ mem[n][x].exp <= mem[n][x].at + TTL
  BY DEF StateOK, Lasting, Contents
<1>4. mem' = [mem EXCEPT ![n] = c] BY <1>1
<1> HIDE DEF e
<1>5. /\ DOMAIN c = kept \cup {k} /\ c \in [DOMAIN c -> Answers]
      /\ \A x \in DOMAIN c : c[x].exp <= c[x].at + TTL
  BY <1>2, <1>3
<1>6. Lasting(c) BY <1>3, <1>5 DEF Lasting, Contents
<1>7. /\ now' \in 0..MaxNow /\ schema' \in Schemas /\ phase' \in Phases
      /\ turn' \in 1..Len(Caches) /\ failed' \subseteq Names
      /\ file' = file /\ tmp' = tmp /\ OnDisk(file[n]) /\ OnDisk(tmp[n])
  BY DEF StateOK, Fill, disk
<1> HIDE DEF c
<1> QED BY <1>4, <1>6, <1>7, StateStep

\* The step of a save that failed.
LEMMA GiveUpState ==
  ASSUME StateOK, GiveUp
  PROVE  /\ turn' \in 1..Len(Caches) /\ phase' \in Phases /\ failed' \subseteq Names
         /\ failed' = failed \cup {Current}
BY CurrentName, AdvanceProperties DEF StateOK, GiveUp, Phases

LEMMA OpenState ==
  ASSUME StateOK, OpenTmp
  PROVE  StateOK'
<1> DEFINE n == Current
<1>1. /\ n \in Names /\ turn \in 1..Len(Caches) /\ UNCHANGED <<now, schema, mem, file>>
      /\ now' \in 0..MaxNow /\ schema' \in Schemas
      /\ OnDisk(file[n]) /\ OnDisk(tmp[n]) /\ Lasting(mem[n]) /\ OnDisk(Garbage)
  BY CurrentName DEF OpenTmp, StateOK, OnDisk
<1>2. CASE /\ tmp' = [tmp EXCEPT ![n] = Garbage]
           /\ phase' = "write" /\ UNCHANGED <<turn, failed>>
  <2>1. phase' \in Phases /\ turn' \in 1..Len(Caches) /\ failed' \subseteq Names
    BY <1>2 DEF StateOK, Phases
  <2> HIDE DEF n
  <2> QED BY <1>1, <1>2, <2>1, StateStep
<1>3. CASE Advance("open", "done") /\ UNCHANGED <<tmp, failed>>
  <2>1. phase' \in Phases /\ turn' \in 1..Len(Caches) /\ failed' \subseteq Names
    BY <1>1, <1>3, AdvanceProperties DEF StateOK, Phases
  <2> QED BY <1>1, <1>3, <2>1, SameContents DEF disk
<1>4. CASE GiveUp /\ UNCHANGED tmp
  BY <1>1, <1>4, GiveUpState, SameContents DEF disk
<1> QED BY <1>2, <1>3, <1>4 DEF OpenTmp

\* The snapshot that is written is whole.
LEMMA WrittenWhole ==
  ASSUME StateOK, NEW n \in Names
  PROVE  /\ Whole([schema |-> schema, entries |-> AllOf(mem[n])])
         /\ OnDisk([schema |-> schema, entries |-> AllOf(mem[n])])
<1> DEFINE s == [schema |-> schema, entries |-> AllOf(mem[n])]
<1>1. Lasting(AllOf(mem[n])) BY AllOfProperties DEF StateOK
<1>2. DOMAIN s = {"schema", "entries"} /\ s.schema = schema /\ s.entries = AllOf(mem[n])
  OBVIOUS
<1>3. schema \in Schemas BY DEF StateOK
<1> HIDE DEF s
<1>4. Whole(s) BY <1>1, <1>2, <1>3 DEF Whole, Lasting
<1> QED BY <1>1, <1>2, <1>4 DEF OnDisk, s

LEMMA WriteState ==
  ASSUME StateOK, WriteTmp
  PROVE  StateOK'
<1> DEFINE n == Current
           s == [schema |-> schema, entries |-> AllOf(mem[n])]
<1>1. /\ n \in Names /\ turn \in 1..Len(Caches) /\ UNCHANGED <<now, schema, mem, file>>
      /\ now' \in 0..MaxNow /\ schema' \in Schemas
      /\ OnDisk(file[n]) /\ Lasting(mem[n]) /\ OnDisk(NoFile)
  BY CurrentName DEF WriteTmp, StateOK, OnDisk
<1>2. CASE tmp' = [tmp EXCEPT ![n] = s] /\ phase' = "rename" /\ UNCHANGED <<turn, failed>>
  <2>1. phase' \in Phases /\ turn' \in 1..Len(Caches) /\ failed' \subseteq Names
    BY <1>2 DEF StateOK, Phases
  <2>2. OnDisk(s) BY <1>1, WrittenWhole
  <2> HIDE DEF n, s
  <2> QED BY <1>1, <1>2, <2>1, <2>2, StateStep
<1>3. CASE GiveUp /\ tmp' = [tmp EXCEPT ![n] = NoFile]
  <2>1. turn' \in 1..Len(Caches) /\ phase' \in Phases /\ failed' \subseteq Names
    BY <1>3, GiveUpState
  <2> HIDE DEF n
  <2> QED BY <1>1, <1>3, <2>1, StateStep
<1> QED BY <1>2, <1>3 DEF WriteTmp

LEMMA RenameState ==
  ASSUME StateOK, RenameTmp
  PROVE  StateOK'
<1> DEFINE n == Current
<1>1. /\ n \in Names /\ turn \in 1..Len(Caches) /\ UNCHANGED <<now, schema, mem>>
      /\ now' \in 0..MaxNow /\ schema' \in Schemas
      /\ tmp' = [tmp EXCEPT ![n] = NoFile]
      /\ OnDisk(file[n]) /\ OnDisk(tmp[n]) /\ Lasting(mem[n]) /\ OnDisk(NoFile)
  BY CurrentName DEF RenameTmp, StateOK, OnDisk
<1>2. turn' \in 1..Len(Caches) /\ phase' \in Phases /\ failed' \subseteq Names
  BY <1>1, AdvanceProperties, GiveUpState DEF RenameTmp, StateOK, Phases
<1>3. file' = [file EXCEPT ![n] = tmp[n]] \/ file' = file BY DEF RenameTmp
<1> HIDE DEF n
<1> QED BY <1>1, <1>2, <1>3, StateStep

\* The steps of main between the files.
LEMMA PhaseState ==
  ASSUME StateOK, Start \/ Signal \/ Drained \/ Exit \/ Die \/ Tick
  PROVE  StateOK'
<1>1. 1 \in 1..Len(Caches) BY CachesLength
<1>2. /\ now \in 0..MaxNow /\ schema \in Schemas /\ phase \in Phases
      /\ turn \in 1..Len(Caches) /\ failed \subseteq Names
  BY DEF StateOK
<1>3. CASE Start BY <1>1, <1>2, <1>3, SameContents DEF Start, Phases
<1>4. CASE Signal BY <1>2, <1>4, SameContents DEF Signal, Phases
<1>5. CASE Drained BY <1>1, <1>2, <1>5, SameContents DEF Drained, Phases
<1>6. CASE Exit BY <1>2, <1>6, ColdState DEF Exit
<1>7. CASE Die BY <1>1, <1>2, <1>7, ColdState DEF Die
<1>8. CASE Tick
  <2>1. now' \in 0..MaxNow BY <1>2, <1>8, SnapshotAssumption DEF Tick
  <2> QED BY <1>2, <1>8, <2>1, SameContents DEF Tick
<1> QED BY <1>3, <1>4, <1>5, <1>6, <1>7, <1>8

-----------------------------------------------------------------------------
\* No entry in memory or on disk outlives its TTL, through every save, load, crash
\* and change of build.
THEOREM Safety == Spec => []StateOK
<1>1. Init => StateOK BY Init_StateOK
<1>2. StateOK /\ [Next]_vars => StateOK'
  <2> SUFFICES ASSUME StateOK, [Next]_vars PROVE StateOK' OBVIOUS
  <2>1. CASE Start \/ Signal \/ Drained \/ Exit \/ Die \/ Tick BY <2>1, PhaseState
  <2>2. CASE LoadOne BY <2>2, LoadState
  <2>3. ASSUME NEW n \in Names, NEW k \in Keys, Fill(n, k) PROVE StateOK'
    BY <2>3, FillState
  <2>4. CASE Save BY <2>4, OpenState, WriteState, RenameState DEF Save
  <2>5. CASE UNCHANGED vars
    <3>1. /\ UNCHANGED <<mem, disk>> /\ now' = now /\ schema' = schema
          /\ phase' = phase /\ turn' = turn /\ failed' = failed
      BY <2>5 DEF vars, disk
    <3> QED BY <3>1, SameContents DEF StateOK
  <2> QED BY <2>1, <2>2, <2>3, <2>4, <2>5 DEF Next
<1> QED BY <1>1, <1>2, PTL DEF Spec

\* The state is well typed.
THEOREM TypeCorrect == Spec => []TypeOK
<1>1. StateOK => TypeOK BY DEF StateOK, TypeOK, Lasting, OnDisk
<1> QED BY <1>1, Safety, PTL

\* However often an answer has been through a file and a restart, no cache serves it
\* longer than its TTL after it was fetched (snapshot.go: LoadJSON).
THEOREM NothingComesBack == Spec => []NoResurrection
<1>1. StateOK => NoResurrection
  <2> SUFFICES ASSUME StateOK, NEW n \in Names, NEW k \in DOMAIN AllOf(mem[n])
               PROVE  now < mem[n][k].at + TTL
    BY DEF NoResurrection
  <2>1. Lasting(mem[n]) BY DEF StateOK
  <2>2. k \in DOMAIN mem[n] /\ mem[n][k].exp > now BY <2>1, AllOfProperties
  <2>3. mem[n][k] \in Answers /\ mem[n][k].exp <= mem[n][k].at + TTL
    BY <2>1, <2>2 DEF Lasting, Contents
  <2>4. /\ mem[n][k].exp \in Nat /\ mem[n][k].at \in Nat /\ now \in Nat /\ TTL \in Nat
    BY <2>3, SnapshotAssumption DEF Answers, StateOK
  <2> QED BY <2>2, <2>3, <2>4
<1> QED BY <1>1, Safety, PTL

-----------------------------------------------------------------------------
\* What has been done for a cache stays done while time goes on and the save walks on.
LEMMA HandledKept ==
  ASSUME StateOK, NEW n \in Names, Handled(n), now' \in Nat, now <= now',
         schema' = schema, mem' = mem, failed \subseteq failed', file'[n] = file[n],
         tmp'[n] = tmp[n] \/ tmp[n] = NoFile \/ tmp'[n] # NoFile
  PROVE  Handled(n)'
<1>1. CASE n \in failed \/ tmp[n] # NoFile
  BY <1>1 DEF Handled
<1>2. CASE Saved(n)
  <2>1. Lasting(mem[n]) /\ now \in Nat BY SnapshotAssumption DEF StateOK
  <2>2. \A k \in DOMAIN mem[n] : mem[n][k].exp \in Nat
    BY <2>1 DEF Lasting, Contents, Answers
  <2>3. \A k \in DOMAIN AllOf(mem[n])' : k \in DOMAIN AllOf(mem[n])
    BY <2>1, <2>2 DEF AllOf
  <2>4. Saved(n)' BY <1>2, <2>3 DEF Saved
  <2> QED BY <2>4 DEF Handled
<1> QED BY <1>1, <1>2 DEF Handled

\* The walk goes on to the next cache, or ends with every cache handled.
LEMMA SaveAdvance ==
  ASSUME StateOK, Advance("open", "done"), NEW n, n = Current, Handled(n)',
         \A i \in 1..turn - 1 : Handled(Caches[i])'
  PROVE  SaveOK'
<1>1. turn \in 1..Len(Caches) /\ Len(Caches) \in Nat BY CachesLength DEF StateOK
<1>2. ASSUME NEW i \in 1..turn PROVE Handled(Caches[i])'
  <2>1. CASE i = turn BY <2>1 DEF Current
  <2>2. CASE i # turn
    <3>1. i \in 1..turn - 1 BY <1>1, <2>2
    <3> QED BY <3>1
  <2> QED BY <2>1, <2>2
<1>3. CASE phase' = "open" /\ turn' = turn + 1
  <2>1. \A i \in 1..turn' - 1 : Handled(Caches[i])' BY <1>1, <1>2, <1>3
  <2> QED BY <1>3, <2>1 DEF SaveOK
<1>4. CASE phase' = "done" /\ turn = Len(Caches)
  <2>1. \A m \in Names : Handled(m)' BY <1>2, <1>4 DEF Names
  <2> QED BY <1>4, <2>1 DEF SaveOK, Names
<1> QED BY <1>1, <1>3, <1>4, AdvanceProperties

\* The caches before the current one: what is done stays done.
LEMMA EarlierKept ==
  ASSUME StateOK, SaveOK, phase \in {"open", "write", "rename"}, NEW n, n = Current,
         UNCHANGED <<now, schema, mem>>, failed \subseteq failed',
         \A m \in Names : m # n => file'[m] = file[m] /\ tmp'[m] = tmp[m],
         Handled(n) => Handled(n)'
  PROVE  \A i \in 1..turn - 1 : Handled(Caches[i])'
<1> SUFFICES ASSUME NEW i \in 1..turn - 1 PROVE Handled(Caches[i])' OBVIOUS
<1>1. turn \in 1..Len(Caches) /\ Len(Caches) \in Nat BY CachesLength DEF StateOK
<1>2. Caches[i] \in Names /\ Handled(Caches[i]) BY <1>1 DEF SaveOK, Names
<1>3. now \in Nat BY SnapshotAssumption DEF StateOK
<1> DEFINE m == Caches[i]
<1> HIDE DEF m
<1>4. m \in Names /\ Handled(m) BY <1>2 DEF m
<1>5. Handled(m)'
  <2>1. CASE m = n BY <1>4, <2>1
  <2>2. CASE m # n BY <1>3, <1>4, <2>2, HandledKept
  <2> QED BY <2>1, <2>2
<1> QED BY <1>5 DEF m

LEMMA GiveUpSave ==
  ASSUME StateOK, SaveOK, phase \in {"open", "write", "rename"}, GiveUp,
         UNCHANGED <<now, schema, mem, file>>,
         \A m \in Names : m # Current => tmp'[m] = tmp[m]
  PROVE  SaveOK'
<1>0. PICK n \in Names : n = Current BY CurrentName DEF StateOK
<1>1. Advance("open", "done") /\ failed' = failed \cup {n} BY <1>0 DEF GiveUp
<1>2. Handled(n)' BY <1>1 DEF Handled
<1>3. \A i \in 1..turn - 1 : Handled(Caches[i])' BY <1>0, <1>1, <1>2, EarlierKept
<1> QED BY <1>0, <1>1, <1>2, <1>3, SaveAdvance

LEMMA OpenSave ==
  ASSUME StateOK, SaveOK, OpenTmp
  PROVE  SaveOK'
<1>0. PICK n \in Names : n = Current BY CurrentName DEF StateOK
<1>1. /\ n \in Names /\ phase = "open" /\ UNCHANGED <<now, schema, mem, file>>
      /\ now \in Nat /\ turn \in 1..Len(Caches)
  BY <1>0, SnapshotAssumption DEF OpenTmp, StateOK
<1>2. CASE /\ tmp[n] = NoFile /\ tmp' = [tmp EXCEPT ![n] = Garbage]
           /\ phase' = "write" /\ UNCHANGED <<turn, failed>>
  <2>1. \A m \in Names : m # n => file'[m] = file[m] /\ tmp'[m] = tmp[m]
    BY <1>1, <1>2 DEF StateOK
  <2>2. Handled(n) => Handled(n)' BY <1>1, <1>2, HandledKept
  <2>3. \A i \in 1..turn - 1 : Handled(Caches[i])'
    BY <1>0, <1>1, <1>2, <2>1, <2>2, EarlierKept
  <2> QED BY <1>2, <2>3 DEF SaveOK
<1>3. CASE tmp[n] # NoFile /\ Advance("open", "done") /\ UNCHANGED <<tmp, failed>>
  <2>1. Handled(n)' BY <1>3 DEF Handled
  <2>2. \A i \in 1..turn - 1 : Handled(Caches[i])' BY <1>0, <1>1, <1>3, <2>1, EarlierKept
  <2> QED BY <1>0, <1>3, <2>1, <2>2, SaveAdvance
<1>4. CASE GiveUp /\ UNCHANGED tmp BY <1>0, <1>1, <1>4, GiveUpSave
<1> QED BY <1>0, <1>2, <1>3, <1>4 DEF OpenTmp

LEMMA WriteSave ==
  ASSUME ~Whole(NoFile), ~Whole(Garbage), StateOK, SaveOK, WriteTmp
  PROVE  SaveOK'
<1>0. PICK n \in Names : n = Current BY CurrentName DEF StateOK
<1>1. /\ n \in Names /\ phase = "write" /\ UNCHANGED <<now, schema, mem, file>>
      /\ now \in Nat /\ turn \in 1..Len(Caches) /\ Lasting(mem[n])
      /\ tmp = [m \in Names |-> tmp[m]]
  BY <1>0, SnapshotAssumption DEF WriteTmp, StateOK
<1>2. CASE /\ tmp' = [tmp EXCEPT ![n] = [schema |-> schema, entries |-> AllOf(mem[n])]]
           /\ phase' = "rename" /\ UNCHANGED <<turn, failed>>
  <2>0. PICK s : s = [schema |-> schema, entries |-> AllOf(mem[n])] OBVIOUS
  <2>1. s \notin {NoFile, Garbage} BY <1>1, <2>0, WrittenWhole
  <2>2. s.schema = schema /\ s.entries = AllOf(mem[n]) BY <2>0
  <2>3. \A m \in Names : m # n => file'[m] = file[m] /\ tmp'[m] = tmp[m]
    BY <1>1, <1>2
  <2>4. tmp'[n] = s BY <1>1, <1>2, <2>0
  <2>5. Handled(n)' BY <2>1, <2>4 DEF Handled
  <2>6. Copies(s, n)
    BY <1>1, <2>1, <2>2, AllOfProperties DEF Copies, Agrees
  <2>7. Copies(s, n)' BY <1>1, <2>6 DEF Copies, Agrees, AllOf
  <2>8. Current' = n BY <1>0, <1>2 DEF Current
  <2>9. \A i \in 1..turn - 1 : Handled(Caches[i])'
    BY <1>0, <1>1, <1>2, <2>3, <2>5, EarlierKept
  <2>10. Copies(tmp[Current], Current)'
    BY <2>4, <2>7, <2>8 DEF Copies, Agrees, AllOf
  <2> QED BY <1>2, <2>9, <2>10 DEF SaveOK
<1>3. CASE GiveUp /\ tmp' = [tmp EXCEPT ![n] = NoFile]
  BY <1>0, <1>1, <1>3, GiveUpSave
<1> QED BY <1>0, <1>2, <1>3 DEF WriteTmp

LEMMA RenameSave ==
  ASSUME StateOK, SaveOK, RenameTmp
  PROVE  SaveOK'
<1>0. PICK n \in Names : n = Current BY CurrentName DEF StateOK
<1>1. /\ n \in Names /\ phase = "rename" /\ UNCHANGED <<now, schema, mem>>
      /\ now \in Nat /\ turn \in 1..Len(Caches)
      /\ tmp = [m \in Names |-> tmp[m]] /\ file = [m \in Names |-> file[m]]
      /\ tmp' = [tmp EXCEPT ![n] = NoFile]
  BY <1>0, SnapshotAssumption DEF RenameTmp, StateOK
<1>2. CASE /\ file' = [file EXCEPT ![n] = tmp[n]]
           /\ Advance("open", "done") /\ UNCHANGED failed
  <2>1. Copies(tmp[n], n) BY <1>0, <1>1 DEF SaveOK
  <2>2. file'[n] = tmp[n] BY <1>1, <1>2
  <2>3. Saved(n)' BY <1>1, <2>1, <2>2 DEF Saved, Copies, AllOf
  <2>4. Handled(n)' BY <2>3 DEF Handled
  <2>5. \A m \in Names : m # n => file'[m] = file[m] /\ tmp'[m] = tmp[m]
    BY <1>1, <1>2
  <2>6. \A i \in 1..turn - 1 : Handled(Caches[i])'
    BY <1>0, <1>1, <1>2, <2>4, <2>5, EarlierKept
  <2> QED BY <1>0, <1>2, <2>4, <2>6, SaveAdvance
<1>3. CASE GiveUp /\ UNCHANGED file BY <1>0, <1>1, <1>3, GiveUpSave
<1> QED BY <1>0, <1>2, <1>3 DEF RenameTmp

\* Time passes, and entries expire, during a save, too.
LEMMA TickSave ==
  ASSUME StateOK, SaveOK, UNCHANGED <<schema, phase, turn, mem, disk, failed>>,
         now' \in Nat, now <= now'
  PROVE  SaveOK'
<1>1. UNCHANGED <<file, tmp>> /\ now \in Nat /\ turn \in 1..Len(Caches)
      /\ Len(Caches) \in Nat
  BY SnapshotAssumption, CachesLength DEF disk, StateOK
<1>2. \A n \in Names : Handled(n) => Handled(n)' BY <1>1, HandledKept
<1>3. ASSUME NEW n \in Names, NEW s, Copies(s, n) PROVE Copies(s, n)'
  <2>1. Lasting(mem[n]) BY DEF StateOK
  <2>2. \A k \in DOMAIN mem[n] : mem[n][k].exp \in Nat
    BY <2>1 DEF Lasting, Contents, Answers
  <2>3. \A k \in DOMAIN AllOf(mem[n])' : k \in DOMAIN AllOf(mem[n])
    BY <1>1, <2>1, <2>2 DEF AllOf
  <2> QED BY <1>3, <2>3 DEF Copies, Agrees
<1>4. CASE phase = "rename"
  <2>0. PICK n \in Names : n = Current BY <1>1, CurrentName
  <2>6. PICK s : s = tmp[n] OBVIOUS
  <2>1. Copies(s, n) BY <1>4, <2>0, <2>6 DEF SaveOK
  <2>2. Current' = n /\ tmp'[n] = s BY <1>1, <2>0, <2>6 DEF Current
  <2>3. Copies(s, n)' BY <1>3, <2>1
  <2>4. Copies(tmp[Current], Current)' BY <2>2, <2>3 DEF Copies, Agrees, AllOf
  <2>5. \A i \in 1..turn - 1 : Handled(Caches[i])'
    BY <1>1, <1>2, <1>4 DEF SaveOK, Names
  <2> QED BY <1>4, <2>4, <2>5 DEF SaveOK
<1>5. CASE phase # "rename"
  <2>1. phase \in {"open", "write"} => \A i \in 1..turn - 1 : Handled(Caches[i])'
    BY <1>1, <1>2 DEF SaveOK, Names
  <2>2. phase = "done" => \A n \in Names : Handled(n)' BY <1>2 DEF SaveOK
  <2> QED BY <1>5, <2>1, <2>2 DEF SaveOK, Names
<1> QED BY <1>4, <1>5

\* The invariant of a shutdown, where no snapshot is mistaken for "no file" or for a
\* file that is none.
THEOREM SaveSafe ==
  ASSUME ~Whole(NoFile), ~Whole(Garbage)
  PROVE  Spec => []SaveOK
<1>1. Init => SaveOK BY DEF Init, SaveOK
<1>2. StateOK /\ SaveOK /\ [Next]_vars => SaveOK'
  <2> SUFFICES ASSUME StateOK, SaveOK, [Next]_vars PROVE SaveOK' OBVIOUS
  <2>1. turn \in 1..Len(Caches) /\ now \in Nat
    BY SnapshotAssumption DEF StateOK
  <2>2. CASE Start \/ Signal \/ Exit \/ Die
    BY <2>2 DEF Start, Signal, Exit, Die, SaveOK
  <2>3. CASE LoadOne
    <3>1. phase' \in {"load", "serve"} BY <2>1, <2>3, AdvanceProperties DEF LoadOne
    <3> QED BY <3>1 DEF SaveOK
  <2>4. CASE Drained
    <3>1. phase' = "open" /\ turn' = 1 BY <2>4 DEF Drained
    <3> QED BY <3>1 DEF SaveOK
  <2>5. ASSUME NEW n \in Names, NEW k \in Keys, Fill(n, k) PROVE SaveOK'
    BY <2>5 DEF Fill, SaveOK
  <2>6. CASE Save BY <2>6, OpenSave, WriteSave, RenameSave DEF Save
  <2>7. CASE Tick
    <3>1. now' \in Nat /\ now <= now' BY <2>1, <2>7 DEF Tick
    <3> QED BY <2>7, <3>1, TickSave DEF Tick
  <2>8. CASE UNCHANGED vars
    <3>1. UNCHANGED <<schema, phase, turn, mem, disk, failed>> /\ now' = now
      BY <2>8 DEF vars, disk
    <3> QED BY <2>1, <3>1, TickSave
  <2> QED BY <2>2, <2>3, <2>4, <2>5, <2>6, <2>7, <2>8 DEF Next
<1> QED BY <1>1, <1>2, Safety, PTL DEF Spec

\* When the save is over, a cache is on disk unless an operation on its own files
\* failed or a temporary file was in its way (cached_walkback.go: SaveSnapshots).
THEOREM RestIsSaved ==
  ASSUME ~Whole(NoFile), ~Whole(Garbage)
  PROVE  Spec => []SavedUnlessFailed
<1>1. SaveOK => SavedUnlessFailed BY DEF SaveOK, SavedUnlessFailed, Handled
<1> QED BY <1>1, SaveSafe, PTL

\* A snapshot on disk gives way to a newer complete one or to LoadSnapshots refusing
\* it: no failure and no crash loses it (snapshot.go: SaveJSONFile).
THEOREM NoneLost ==
  ASSUME ~Whole(NoFile), ~Whole(Garbage)
  PROVE  Spec => KeepsSnapshot
<1> DEFINE Newer(n) ==
             phase = "rename" /\ file'[n] \notin {NoFile, Garbage} /\ Agrees(file'[n].entries, n)
           Dropped(n) == phase = "load" /\ file'[n] = NoFile /\ Refused(file[n])
           A == \A n \in Names : file'[n] # file[n] =>
                  \/ Newer(n)
                  \/ Dropped(n)
<1>1. StateOK /\ SaveOK /\ [Next]_vars => [A]_vars
  <2> SUFFICES ASSUME StateOK, SaveOK, [Next]_vars, NEW n \in Names, file'[n] # file[n]
               PROVE  Newer(n) \/ Dropped(n)
    OBVIOUS
  <2>1. file = [m \in Names |-> file[m]] /\ Current \in Names
    BY CurrentName DEF StateOK
  <2>2. ASSUME LoadOne PROVE Dropped(n)
    <3>1. /\ phase = "load" /\ Refused(file[Current])
          /\ file' = [file EXCEPT ![Current] = NoFile]
      BY <2>2 DEF LoadOne
    <3> QED BY <2>1, <3>1
  <2>3. ASSUME RenameTmp PROVE Newer(n)
    <3>1. phase = "rename" /\ file' = [file EXCEPT ![Current] = tmp[Current]]
      BY <2>3 DEF RenameTmp
    <3>2. n = Current /\ file'[n] = tmp[n] BY <2>1, <3>1
    <3>3. Copies(tmp[n], n) BY <3>1, <3>2 DEF SaveOK
    <3> QED BY <3>1, <3>2, <3>3 DEF Copies
  <2>4. file' # file BY DEF StateOK
  <2>5. ~Start /\ ~Signal /\ ~Drained /\ ~Exit /\ ~Die /\ ~Tick /\ ~OpenTmp /\ ~WriteTmp
    BY <2>4 DEF Start, Signal, Drained, OpenTmp, WriteTmp, Exit, Die, Tick, disk
  <2>6. \A m \in Names, k \in Keys : ~Fill(m, k) BY <2>4 DEF Fill, disk
  <2>7. ~UNCHANGED vars BY <2>4 DEF vars, disk
  <2>8. LoadOne \/ RenameTmp BY <2>5, <2>6, <2>7 DEF Next, Save
  <2> HIDE DEF Newer, Dropped
  <2> QED BY <2>2, <2>3, <2>8
<1> QED BY <1>1, Safety, SaveSafe, PTL DEF Spec, KeepsSnapshot
============================================================================

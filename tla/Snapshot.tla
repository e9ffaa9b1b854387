------------------------------ MODULE Snapshot ------------------------------
(***************************************************************************)
(* The life of the process around its disk snapshots (cmd/imagelet/main.go,*)
(* twse.LoadSnapshots and SaveSnapshots, internal/ttlcache/snapshot.go).   *)
(*                                                                         *)
(* The process loads one file per cache, serves, is told to stop, drains   *)
(* its connections, saves one file per cache and exits.  A save makes      *)
(* "<path>.tmp" (OpenTmp), fills and closes it (WriteTmp) and renames it   *)
(* (RenameTmp).  It can be killed between any two steps; each disk         *)
(* operation can fail.  What is in memory dies with the process, the files *)
(* and the wall clock go on.                                               *)
(*                                                                         *)
(* A cache is the function from its keys to when each answer was fetched   *)
(* and when it expires; which key an insertion evicts is modelled in       *)
(* TTLCache and left open here.                                            *)
(***************************************************************************)
EXTENDS Integers, Sequences

CONSTANTS
  Caches,       \* the caches that persist, a sequence: the order of Save/Load
  Keys,         \* cache keys
  TTL,          \* how long an answer is good for
  Schemas,      \* values snapshotSchema takes from build to build
  MaxNow,       \* bound: the clock stops here
  NoFile,       \* there is no such file
  Garbage       \* a file that is not a (whole) JSON snapshot

ASSUME SnapshotAssumption ==
  /\ Caches \in Seq(STRING) /\ Len(Caches) > 0
  /\ TTL \in Nat \ {0}
  /\ MaxNow \in Nat
  /\ Schemas # {}

VARIABLES
  now,      \* the wall clock
  schema,   \* snapshotSchema of the build that runs, or ran last
  phase,    \* where main() is
  turn,     \* which cache is being loaded or saved
  mem,      \* the content of each cache
  file,     \* the file at each cache's path
  tmp,      \* the file at "<path>.tmp"
  failed    \* history: caches a disk operation has failed for in this shutdown

vars == <<now, schema, phase, turn, mem, file, tmp, failed>>
disk == <<file, tmp>>

Phases == {"down", "load", "serve", "drain", "open", "write", "rename", "done"}
Names == {Caches[i] : i \in 1..Len(Caches)}
Cold == [n \in Names |-> <<>>]
Answers == [at : 0..MaxNow, exp : Nat]

\* The cache whose turn it is.
Current == Caches[turn]

\* All: the unexpired entries.
AllOf(c) == [k \in {x \in DOMAIN c : c[x].exp > now} |-> c[k]]

Init ==
  /\ now = 0
  /\ schema \in Schemas
  /\ phase = "down"
  /\ turn = 1
  /\ mem = Cold
  /\ file \in [Names -> {NoFile, Garbage}]
  /\ tmp = [n \in Names |-> NoFile]
  /\ failed = {}

\* A build is started, perhaps a later one.
Start ==
  /\ phase = "down"
  /\ schema' \in Schemas
  /\ phase' = "load"
  /\ turn' = 1
  /\ UNCHANGED <<now, mem, disk, failed>>

\* Mutant: the walk over the caches goes one too far.
AdvancePast(same, next) ==
  IF turn <= Len(Caches)
  THEN phase' = same /\ turn' = turn + 1
  ELSE phase' = next /\ turn' = 1

\* On to the next cache, or to what follows the last one.
Advance(same, next) ==
  IF turn < Len(Caches)
  THEN phase' = same /\ turn' = turn + 1
  ELSE phase' = next /\ turn' = 1

\* LoadJSON accepts the snapshot, or decodes it and refuses it.  (Snapshots
\* above MaxSnapshotBytes share the second fate; no save comes near them.)
Loadable(s) == s \notin {NoFile, Garbage} /\ s.schema = schema
Refused(s) == s \notin {NoFile, Garbage} /\ s.schema # schema

\* Mutant: a restored entry is given a new lease.
RestoredAnew(s) ==
  [k \in DOMAIN AllOf(s.entries) |-> [s.entries[k] EXCEPT !.exp = now + TTL]]

\* What LoadJSON puts in the cache: the entries that have not expired.
Restored(s) == AllOf(s.entries)

\* loadOne.  A file of another schema is removed; one that is
\* missing or cannot be read leaves the cache cold.
LoadOne ==
  /\ phase = "load"
  /\ \/ /\ Loadable(file[Current])
        /\ mem' = [mem EXCEPT ![Current] = Restored(file[Current])]
        /\ UNCHANGED file
     \/ /\ Refused(file[Current])
        /\ file' = [file EXCEPT ![Current] = NoFile]
        /\ UNCHANGED mem
     \/ UNCHANGED <<mem, file>>
  /\ Advance("load", "serve")
  /\ UNCHANGED <<now, schema, tmp, failed>>

\* A request makes cache n fetch key k and keep the answer, which may push
\* others out.
Fill(n, k) ==
  /\ phase \in {"serve", "drain"}
  /\ \E kept \in SUBSET (DOMAIN mem[n] \ {k}) :
       mem' = [mem EXCEPT ![n] =
         [x \in kept \cup {k} |->
            IF x = k THEN [at |-> now, exp |-> now + TTL] ELSE mem[n][x]]]
  /\ UNCHANGED <<now, schema, phase, turn, disk, failed>>

\* SIGINT or SIGTERM: srv.Shutdown stops listening and waits for connections.
Signal ==
  /\ phase = "serve"
  /\ phase' = "drain"
  /\ UNCHANGED <<now, schema, turn, mem, disk, failed>>

\* Shutdown returns nil and SaveSnapshots begins.
Drained ==
  /\ phase = "drain"
  /\ phase' = "open"
  /\ turn' = 1
  /\ UNCHANGED <<now, schema, mem, disk, failed>>

\* The step of saveOne that failed is logged, the next cache has its turn.
GiveUp ==
  /\ failed' = failed \cup {Current}
  /\ Advance("open", "done")

\* SaveJSONFile: MkdirAll, then OpenFile with O_EXCL.
OpenTmp ==
  /\ phase = "open"
  /\ \/ /\ tmp[Current] = NoFile
        /\ tmp' = [tmp EXCEPT ![Current] = Garbage]
        /\ phase' = "write"
        /\ UNCHANGED <<turn, failed>>
     \/ /\ tmp[Current] # NoFile
        /\ Advance("open", "done")
        /\ UNCHANGED <<tmp, failed>>
     \/ GiveUp /\ UNCHANGED tmp
  /\ UNCHANGED <<now, schema, mem, file>>

\* Mutant: a save that fails takes the file it was to replace with it.
WriteTmpRemovingFile ==
  /\ phase = "write"
  /\ GiveUp
  /\ tmp' = [tmp EXCEPT ![Current] = NoFile]
  /\ file' = [file EXCEPT ![Current] = NoFile]
  /\ UNCHANGED <<now, schema, mem>>

\* SaveJSON into it, and Close; either failing, the file is removed.
WriteTmp ==
  /\ phase = "write"
  /\ \/ /\ tmp' = [tmp EXCEPT ![Current] =
                     [schema |-> schema, entries |-> AllOf(mem[Current])]]
        /\ phase' = "rename"
        /\ UNCHANGED <<turn, failed>>
     \/ GiveUp /\ tmp' = [tmp EXCEPT ![Current] = NoFile]
  /\ UNCHANGED <<now, schema, mem, file>>

\* Mutant: the first cache that cannot be saved ends the save.
RenameTmpOrStop ==
  /\ phase = "rename"
  /\ tmp' = [tmp EXCEPT ![Current] = NoFile]
  /\ \/ /\ file' = [file EXCEPT ![Current] = tmp[Current]]
        /\ Advance("open", "done")
        /\ UNCHANGED failed
     \/ /\ failed' = failed \cup {Current}
        /\ phase' = "done" /\ turn' = 1
        /\ UNCHANGED file
  /\ UNCHANGED <<now, schema, mem>>

\* Lstat and Rename; when either fails the temporary file is removed.
RenameTmp ==
  /\ phase = "rename"
  /\ tmp' = [tmp EXCEPT ![Current] = NoFile]
  /\ \/ /\ file' = [file EXCEPT ![Current] = tmp[Current]]
        /\ Advance("open", "done")
        /\ UNCHANGED failed
     \/ GiveUp /\ UNCHANGED file
  /\ UNCHANGED <<now, schema, mem>>

\* main returns.
Exit ==
  /\ phase = "done"
  /\ phase' = "down"
  /\ mem' = Cold /\ failed' = {}
  /\ UNCHANGED <<now, schema, turn, disk>>

\* The process dies where it stands: killed, out of memory, a panic outside
\* any handler, or log.Fatal (the listener failed, or Shutdown gave up on a
\* connection after ten seconds).
Die ==
  /\ phase # "down"
  /\ phase' = "down"
  /\ mem' = Cold /\ failed' = {}
  /\ turn' = 1
  /\ UNCHANGED <<now, schema, disk>>

Tick ==
  /\ now < MaxNow
  /\ now' = now + 1
  /\ UNCHANGED <<schema, phase, turn, mem, disk, failed>>

Save == OpenTmp \/ WriteTmp \/ RenameTmp

Next ==
  \/ Start
  \/ LoadOne
  \/ \E n \in Names, k \in Keys : Fill(n, k)
  \/ Signal
  \/ Drained
  \/ Save
  \/ Exit
  \/ Die
  \/ Tick

Spec == Init /\ [][Next]_vars
-----------------------------------------------------------------------------
Contents(c) == DOMAIN c \subseteq Keys /\ c \in [DOMAIN c -> Answers]
Whole(s) == DOMAIN s = {"schema", "entries"} /\ s.schema \in Schemas /\ Contents(s.entries)

\* Types of the state.
TypeOK ==
  /\ now \in 0..MaxNow /\ schema \in Schemas /\ phase \in Phases
  /\ turn \in 1..Len(Caches) /\ failed \subseteq Names
  /\ \A n \in Names :
       /\ Contents(mem[n])
       /\ file[n] \in {NoFile, Garbage} \/ Whole(file[n])
       /\ tmp[n] \in {NoFile, Garbage} \/ Whole(tmp[n])

\* However often an answer has been through a file and a restart, no cache
\* serves it longer than its TTL after it was fetched (LoadJSON keeps
\* ExpiresAt and skips what has expired).
NoResurrection ==
  \A n \in Names : \A k \in DOMAIN AllOf(mem[n]) : now < mem[n][k].at + TTL

\* These entries are, or until they expired were, in cache n.
Agrees(entries, n) ==
  \A k \in DOMAIN entries : k \in DOMAIN mem[n] /\ mem[n][k] = entries[k]

\* "a partial write (e.g. process killed mid-flush) never replaces the existing
\* file with a truncated version" (SaveJSONFile's comment): a snapshot on disk
\* gives way to a newer complete snapshot of its cache,
\* or to LoadSnapshots refusing it: no failure and no crash loses it.
KeepsSnapshot ==
  [][\A n \in Names : file'[n] # file[n] =>
       \/ phase = "rename" /\ file'[n] \notin {NoFile, Garbage} /\ Agrees(file'[n].entries, n)
       \/ phase = "load" /\ file'[n] = NoFile /\ Refused(file[n])]_vars

\* What a snapshot holds of cache n is what the cache held.
Saved(n) ==
  /\ file[n] \notin {NoFile, Garbage}
  /\ file[n].schema = schema
  /\ \A k \in DOMAIN AllOf(mem[n]) :
       k \in DOMAIN file[n].entries /\ file[n].entries[k] = mem[n][k]

\* "Failures are logged per-cache but don't stop the rest from saving"
\* (SaveSnapshots): when the save is over, a cache is on disk unless an
\* operation on its own files failed or a temporary file was in its way.
SavedUnlessFailed ==
  phase = "done" => \A n \in Names : n \in failed \/ tmp[n] # NoFile \/ Saved(n)

\* "restored on startup, saved on graceful shutdown" (--cache-dir): when the save
\* is over and no disk operation has failed, every cache is on disk.
SavedOnGracefulShutdown ==
  phase = "done" => \A n \in Names : n \in failed \/ Saved(n)
=============================================================================

-------------------------------- MODULE LRU --------------------------------
(***************************************************************************)
(* The recency list of the two in-process caches (ttlcache.Cache.lru and   *)
(* htmlcache.Cache.list): a container/list whose front is the most         *)
(* recently used key.  A list is modelled as a sequence of keys.           *)
(***************************************************************************)
EXTENDS Integers, Sequences

\* The keys on the list.
KeysOf(list) == {list[i] : i \in 1..Len(list)}

\* No key is on the list twice.
Distinct(list) == \A i, j \in 1..Len(list) : list[i] = list[j] => i = j

\* Where key k sits on the list.
Position(list, k) == CHOOSE i \in 1..Len(list) : list[i] = k

\* list.Remove(elem of k)
Unlink(list, k) ==
  LET i == Position(list, k)
  IN  SubSeq(list, 1, i - 1) \o SubSeq(list, i + 1, Len(list))

\* list.MoveToFront(elem of k)
MoveToFront(list, k) == <<k>> \o Unlink(list, k)

\* for list.Len() > cap { list.Remove(list.Back()) }
Trim(list, cap) == IF Len(list) > cap THEN SubSeq(list, 1, cap) ELSE list

\* list.PushFront(k) followed by the eviction loop.
PushFront(list, k, cap) == Trim(<<k>> \o list, cap)

\* The keys the eviction loop of a push of k drops.
Evicted(list, k, cap) == (KeysOf(list) \cup {k}) \ KeysOf(PushFront(list, k, cap))

\* The keys in the order of their last use, whether still cached or not:
\* the history the lists are judged by.
Use(history, k) ==
  IF k \in KeysOf(history) THEN MoveToFront(history, k) ELSE <<k>> \o history
=============================================================================

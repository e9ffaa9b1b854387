----------------------------- MODULE LRUProofs -----------------------------
(***************************************************************************)
(* What the list operators of LRU do, for lists of every length: the facts *)
(* the proofs about both caches rest on.                                   *)
(***************************************************************************)
EXTENDS LRU, TLAPS

\* Position finds a key that is on the list.
LEMMA PositionProperties ==
  ASSUME NEW S, NEW list \in Seq(S), NEW k \in KeysOf(list)
  PROVE  /\ Position(list, k) \in 1..Len(list)
         /\ list[Position(list, k)] = k
BY DEF Position, KeysOf

\* Unlinking takes one element out and closes the gap.
LEMMA UnlinkProperties ==
  ASSUME NEW S, NEW list \in Seq(S), NEW k \in KeysOf(list)
  PROVE  /\ Unlink(list, k) \in Seq(S)
         /\ Len(Unlink(list, k)) = Len(list) - 1
         /\ \A j \in 1..Len(list) - 1 :
              Unlink(list, k)[j] =
                IF j < Position(list, k) THEN list[j] ELSE list[j + 1]
<1> DEFINE i == Position(list, k)
           front == SubSeq(list, 1, i - 1)
           back == SubSeq(list, i + 1, Len(list))
<1>1. i \in 1..Len(list) BY PositionProperties
<1>2. Len(list) \in Nat OBVIOUS
<1>3. front \in Seq(S) /\ Len(front) = i - 1 /\ \A j \in 1..i - 1 : front[j] = list[j]
  BY <1>1, <1>2
<1>4. back \in Seq(S) /\ Len(back) = Len(list) - i
      /\ \A j \in 1..Len(list) - i : back[j] = list[i + j]
  BY <1>1, <1>2
<1>5. Unlink(list, k) = front \o back BY DEF Unlink
<1> HIDE DEF front, back
<1>6. /\ front \o back \in Seq(S)
      /\ Len(front \o back) = Len(list) - 1
  BY <1>1, <1>2, <1>3, <1>4
<1>7. ASSUME NEW j \in 1..Len(list) - 1
      PROVE  (front \o back)[j] = IF j < i THEN list[j] ELSE list[j + 1]
  <2>1. CASE j < i BY <2>1, <1>1, <1>2, <1>3, <1>4
  <2>2. CASE ~(j < i)
    <3>1. (front \o back)[j] = back[j - (i - 1)]
      BY <2>2, <1>1, <1>2, <1>3, <1>4
    <3>2. j - (i - 1) \in 1..Len(list) - i BY <2>2, <1>1, <1>2
    <3> QED BY <3>1, <3>2, <2>2, <1>1, <1>2, <1>4
  <2> QED BY <2>1, <2>2
<1> QED BY <1>5, <1>6, <1>7

\* Unlinking takes the key off the list, once and for all.
LEMMA UnlinkKeys ==
  ASSUME NEW S, NEW list \in Seq(S), NEW k \in KeysOf(list), Distinct(list)
  PROVE  /\ KeysOf(Unlink(list, k)) = KeysOf(list) \ {k}
         /\ Distinct(Unlink(list, k))
<1> DEFINE i == Position(list, k)
           rest == Unlink(list, k)
           n == Len(list)
<1>1. n \in Nat /\ i \in 1..n /\ list[i] = k BY PositionProperties
<1>2. /\ rest \in Seq(S) /\ Len(rest) = n - 1
      /\ \A j \in 1..n - 1 : rest[j] = IF j < i THEN list[j] ELSE list[j + 1]
  BY UnlinkProperties
<1> DEFINE from(j) == IF j < i THEN j ELSE j + 1
<1>3. \A j \in 1..n - 1 : from(j) \in 1..n /\ from(j) # i /\ rest[j] = list[from(j)]
  BY <1>1, <1>2
<1>4. \A a, b \in 1..n - 1 : from(a) = from(b) => a = b BY <1>1
<1>5. \A m \in 1..n : m # i => \E j \in 1..n - 1 : from(j) = m
  <2> SUFFICES ASSUME NEW m \in 1..n, m # i PROVE \E j \in 1..n - 1 : from(j) = m
    OBVIOUS
  <2>1. CASE m < i BY <2>1, <1>1
  <2>2. CASE m > i
    <3>1. m - 1 \in 1..n - 1 /\ from(m - 1) = m BY <2>2, <1>1
    <3> QED BY <3>1
  <2> QED BY <2>1, <2>2, <1>1
<1>6. \A a, b \in 1..n : list[a] = list[b] => a = b BY DEF Distinct
<1> HIDE DEF i, rest, n, from
<1>7. KeysOf(list) = {list[j] : j \in 1..n} BY DEF KeysOf, n
<1>8. KeysOf(rest) = {rest[j] : j \in 1..n - 1} BY <1>2 DEF KeysOf
<1>9. KeysOf(rest) = KeysOf(list) \ {k}
  <2>1. ASSUME NEW x \in KeysOf(rest) PROVE x \in KeysOf(list) \ {k}
    <3>1. PICK j \in 1..n - 1 : x = rest[j] BY <1>8
    <3> QED BY <3>1, <1>1, <1>3, <1>6, <1>7
  <2>2. ASSUME NEW x \in KeysOf(list) \ {k} PROVE x \in KeysOf(rest)
    <3>1. PICK m \in 1..n : x = list[m] BY <1>7
    <3>2. PICK j \in 1..n - 1 : from(j) = m BY <3>1, <1>1, <1>5
    <3> QED BY <3>1, <3>2, <1>3, <1>8
  <2> QED BY <2>1, <2>2
<1>10. Distinct(rest)
  <2> SUFFICES ASSUME NEW a \in 1..n - 1, NEW b \in 1..n - 1, rest[a] = rest[b]
               PROVE  a = b
    BY <1>2 DEF Distinct
  <2> QED BY <1>3, <1>4, <1>6
<1> QED BY <1>9, <1>10 DEF rest

\* Moving a key to the front permutes the list.
LEMMA MoveToFrontProperties ==
  ASSUME NEW S, NEW list \in Seq(S), NEW k \in KeysOf(list), Distinct(list)
  PROVE  /\ MoveToFront(list, k) \in Seq(S)
         /\ Len(MoveToFront(list, k)) = Len(list)
         /\ KeysOf(MoveToFront(list, k)) = KeysOf(list)
         /\ Distinct(MoveToFront(list, k))
<1> DEFINE i == Position(list, k)
           rest == Unlink(list, k)
           moved == MoveToFront(list, k)
<1>1. i \in 1..Len(list) /\ list[i] = k /\ k \in S
  BY PositionProperties
<1>2. /\ rest \in Seq(S)
      /\ Len(rest) = Len(list) - 1
      /\ \A j \in 1..Len(list) - 1 : rest[j] = IF j < i THEN list[j] ELSE list[j + 1]
  BY UnlinkProperties
<1>3. moved = <<k>> \o rest BY DEF MoveToFront
<1> HIDE DEF moved, i, rest
<1>4. moved \in Seq(S) /\ Len(moved) = Len(list) /\ moved[1] = k
      /\ \A j \in 2..Len(list) : moved[j] = rest[j - 1]
  BY <1>1, <1>2, <1>3
<1>5. ASSUME NEW j \in 2..Len(list)
      PROVE  moved[j] = IF j - 1 < i THEN list[j - 1] ELSE list[j]
  <2>1. j - 1 \in 1..Len(list) - 1 BY <1>1
  <2> QED BY <2>1, <1>1, <1>2, <1>4
<1>6. KeysOf(moved) = KeysOf(list)
  <2>1. ASSUME NEW x \in KeysOf(moved) PROVE x \in KeysOf(list)
    <3>1. PICK j \in 1..Len(list) : moved[j] = x BY <1>4 DEF KeysOf
    <3>2. CASE j = 1 BY <3>1, <3>2, <1>1, <1>4 DEF KeysOf
    <3>3. CASE j # 1
      <4>1. j \in 2..Len(list) BY <3>3
      <4>2. CASE j - 1 < i
        <5>1. j - 1 \in 1..Len(list) /\ x = list[j - 1] BY <3>1, <4>1, <4>2, <1>5
        <5> QED BY <5>1 DEF KeysOf
      <4>3. CASE ~(j - 1 < i) BY <3>1, <4>1, <4>3, <1>5 DEF KeysOf
      <4> QED BY <4>2, <4>3
    <3> QED BY <3>2, <3>3
  <2>2. ASSUME NEW x \in KeysOf(list) PROVE x \in KeysOf(moved)
    <3>1. PICK j \in 1..Len(list) : list[j] = x BY DEF KeysOf
    <3>2. CASE j = i BY <3>1, <3>2, <1>1, <1>4 DEF KeysOf
    <3>3. CASE j < i
      <4>1. j + 1 \in 2..Len(list) /\ moved[j + 1] = x BY <3>1, <3>3, <1>1, <1>5
      <4> QED BY <4>1, <1>4 DEF KeysOf
    <3>4. CASE j > i
      <4>1. j \in 2..Len(list) /\ moved[j] = x BY <3>1, <3>4, <1>1, <1>5
      <4> QED BY <4>1, <1>4 DEF KeysOf
    <3> QED BY <3>2, <3>3, <3>4, <1>1
  <2> QED BY <2>1, <2>2
<1>7. Distinct(moved)
  <2> SUFFICES ASSUME NEW a \in 1..Len(list), NEW b \in 1..Len(list), moved[a] = moved[b]
               PROVE  a = b
    BY <1>4 DEF Distinct
  <2>1. \A c \in 2..Len(list) : moved[c] # k
    <3> SUFFICES ASSUME NEW c \in 2..Len(list), moved[c] = k PROVE FALSE
      OBVIOUS
    <3>1. CASE c - 1 < i BY <3>1, <1>1, <1>5 DEF Distinct
    <3>2. CASE ~(c - 1 < i) BY <3>2, <1>1, <1>5 DEF Distinct
    <3> QED BY <3>1, <3>2
  <2>2. CASE a = 1 \/ b = 1 BY <2>1, <2>2, <1>4
  <2>3. CASE a # 1 /\ b # 1
    <3>1. a \in 2..Len(list) /\ b \in 2..Len(list) BY <2>3
    <3>2. moved[a] = (IF a - 1 < i THEN list[a - 1] ELSE list[a])
          /\ moved[b] = (IF b - 1 < i THEN list[b - 1] ELSE list[b])
      BY <3>1, <1>5
    <3>3. /\ list[a] # list[i] \/ a = i
          /\ list[b] # list[i] \/ b = i
          /\ a - 1 \in 1..Len(list) /\ b - 1 \in 1..Len(list)
      BY <3>1, <1>1 DEF Distinct
    <3>4. CASE a - 1 < i /\ b - 1 < i
      <4>1. list[a - 1] = list[b - 1] BY <3>2, <3>4
      <4>2. a - 1 = b - 1 BY <4>1, <3>3 DEF Distinct
      <4> QED BY <4>2
    <3>5. CASE a - 1 < i /\ ~(b - 1 < i)
      <4>1. list[a - 1] = list[b] BY <3>2, <3>5
      <4>2. a - 1 = b BY <4>1, <3>3 DEF Distinct
      <4> QED BY <4>2, <3>5, <1>1
    <3>6. CASE ~(a - 1 < i) /\ b - 1 < i
      <4>1. list[a] = list[b - 1] BY <3>2, <3>6
      <4>2. a = b - 1 BY <4>1, <3>3 DEF Distinct
      <4> QED BY <4>2, <3>6, <1>1
    <3>7. CASE ~(a - 1 < i) /\ ~(b - 1 < i)
      <4>1. list[a] = list[b] BY <3>2, <3>7
      <4> QED BY <4>1 DEF Distinct
    <3> QED BY <3>4, <3>5, <3>6, <3>7
  <2> QED BY <2>2, <2>3
<1> QED BY <1>4, <1>6, <1>7 DEF moved

\* Pushing a new key keeps the list distinct and within the capacity, and the
\* new key is on it.
LEMMA PushFrontProperties ==
  ASSUME NEW S, NEW list \in Seq(S), NEW k \in S, k \notin KeysOf(list),
         Distinct(list), NEW cap \in Nat \ {0}
  PROVE  /\ PushFront(list, k, cap) \in Seq(S)
         /\ Len(PushFront(list, k, cap)) <= cap
         /\ Len(PushFront(list, k, cap)) <= Len(list) + 1
         /\ KeysOf(PushFront(list, k, cap)) \subseteq KeysOf(list) \cup {k}
         /\ k \in KeysOf(PushFront(list, k, cap))
         /\ Distinct(PushFront(list, k, cap))
<1> DEFINE long == <<k>> \o list
           new == PushFront(list, k, cap)
<1>1. /\ long \in Seq(S) /\ Len(long) = Len(list) + 1 /\ long[1] = k
      /\ \A j \in 2..Len(list) + 1 : long[j] = list[j - 1]
  OBVIOUS
<1>2. Len(list) \in Nat OBVIOUS
<1>3. new = IF Len(long) > cap THEN SubSeq(long, 1, cap) ELSE long
  BY DEF PushFront, Trim
<1> HIDE DEF long, new
<1>4. PICK n \in Nat : /\ new \in Seq(S) /\ Len(new) = n /\ 1 <= n /\ n <= cap
                       /\ n <= Len(list) + 1 /\ \A j \in 1..n : new[j] = long[j]
  <2>1. CASE Len(long) > cap
    <3>1. /\ SubSeq(long, 1, cap) \in Seq(S)
          /\ Len(SubSeq(long, 1, cap)) = cap
          /\ \A j \in 1..cap : SubSeq(long, 1, cap)[j] = long[j]
      BY <2>1, <1>1, <1>2
    <3> QED BY <3>1, <2>1, <1>1, <1>2, <1>3
  <2>2. CASE ~(Len(long) > cap) BY <2>2, <1>1, <1>2, <1>3
  <2> QED BY <2>1, <2>2
<1>5. new[1] = k /\ \A j \in 2..n : new[j] = list[j - 1] /\ j - 1 \in 1..Len(list)
  BY <1>1, <1>2, <1>4
<1>6. KeysOf(new) \subseteq KeysOf(list) \cup {k}
  <2> SUFFICES ASSUME NEW j \in 1..n PROVE new[j] \in KeysOf(list) \cup {k}
    BY <1>4 DEF KeysOf
  <2>1. CASE j = 1 BY <2>1, <1>5
  <2>2. CASE j # 1
    <3>1. j \in 2..n BY <2>2, <1>4
    <3> QED BY <3>1, <1>5 DEF KeysOf
  <2> QED BY <2>1, <2>2
<1>7. k \in KeysOf(new) BY <1>4, <1>5 DEF KeysOf
<1>8. Distinct(new)
  <2> SUFFICES ASSUME NEW a \in 1..n, NEW b \in 1..n, new[a] = new[b] PROVE a = b
    BY <1>4 DEF Distinct
  <2>1. CASE a = 1 /\ b = 1 BY <2>1
  <2>2. CASE a = 1 /\ b # 1 BY <2>2, <1>4, <1>5 DEF KeysOf
  <2>3. CASE a # 1 /\ b = 1 BY <2>3, <1>4, <1>5 DEF KeysOf
  <2>4. CASE a # 1 /\ b # 1 BY <2>4, <1>4, <1>5 DEF Distinct
  <2> QED BY <2>1, <2>2, <2>3, <2>4
<1> QED BY <1>4, <1>6, <1>7, <1>8 DEF new
=============================================================================

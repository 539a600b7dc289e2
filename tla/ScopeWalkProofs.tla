--------------------------- MODULE ScopeWalkProofs ---------------------------
(***************************************************************************)
(* Theorems about ScopeWalk.tla, for every set of keys, page size, buffer  *)
(* and query: a walk meets what was there throughout, a response reaches   *)
(* its caller whole, and a 304 is only said of what is unchanged.          *)
(*                                                                         *)
(* What a page holds is derived from two facts about finite sets of        *)
(* numbers: the initial segment, and the rank.                             *)
(***************************************************************************)
EXTENDS ScopeWalk, FunctionTheorems, FiniteSetTheorems, SequenceTheorems, TLAPS

-----------------------------------------------------------------------------
(* Sets of numbers.                                                         *)

Increasing(s) == \A i, j \in DOMAIN s : i < j => s[i] < s[j]

\* What holds every number below one of its own is an interval: it holds that many
\* numbers up to each of them.
LEMMA InitialSegment ==
  ASSUME NEW n \in Nat, NEW P \in SUBSET (1..n), \A i \in P : \A j \in 1..n : j < i => j \in P
  PROVE  Cardinality(P) \in 0..n /\ P = 1..Cardinality(P)
<1> DEFINE c == Cardinality(P)
<1>1. IsFiniteSet(P) /\ c \in Nat /\ c <= n
  <2>1. IsFiniteSet(1..n) /\ Cardinality(1..n) = n
    BY FS_Interval
  <2>2. IsFiniteSet(P) /\ c <= n
    BY <2>1, FS_Subset
  <2> QED
    BY <2>2, FS_CardinalityType
<1>2. ASSUME NEW i \in P PROVE i <= c
  <2>1. i \in Nat /\ 1..i \in SUBSET P
    BY <1>2
  <2>2. Cardinality(1..i) = i
    BY <2>1, FS_Interval
  <2> QED
    BY <1>1, <2>1, <2>2, FS_Subset
<1> HIDE DEF c
<1>3. IsFiniteSet(1..c) /\ Cardinality(1..c) = c
  BY <1>1, FS_Interval
<1>4. P \in SUBSET (1..c)
  <2>1. \A i \in P : i \in 1..n
    OBVIOUS
  <2> QED
    BY <1>1, <1>2, <2>1
<1>5. P = 1..c
  BY <1>3, <1>4, FS_Subset DEF c
<1> QED
  BY <1>1, <1>5 DEF c

Rank(S, x) == Cardinality({y \in S : y <= x})

LEMMA RankGrows ==
  ASSUME NEW S \in SUBSET Nat, IsFiniteSet(S), NEW x \in S
  PROVE  /\ Rank(S, x) \in 1..Cardinality(S)
         /\ \A z \in S : x < z => Rank(S, x) < Rank(S, z)
<1> DEFINE upTo(z) == {y \in S : y <= z}
<1>1. \A z \in S : /\ upTo(z) \in SUBSET S /\ IsFiniteSet(upTo(z)) /\ Cardinality(upTo(z)) \in Nat
                   /\ Cardinality(upTo(z)) <= Cardinality(S)
  BY FS_Subset, FS_CardinalityType
<1>2. Cardinality(upTo(x)) # 0
  <2>1. x \in upTo(x)
    OBVIOUS
  <2> QED
    BY <1>1, <2>1, FS_EmptySet
<1>3. ASSUME NEW z \in S, x < z PROVE Cardinality(upTo(x)) < Cardinality(upTo(z))
  <2>1. upTo(x) \in SUBSET (upTo(z) \ {z}) /\ z \in upTo(z)
    <3>1. \A y \in S : y \in Nat
      OBVIOUS
    <3>2. \A y \in S : y <= x => y <= z /\ y # z
      BY <1>3, <3>1
    <3>3. upTo(x) \subseteq upTo(z) \ {z}
      BY <3>2
    <3>4. z \in upTo(z)
      BY <3>1
    <3> QED
      BY <3>3, <3>4
  <2>2. IsFiniteSet(upTo(z) \ {z}) /\ Cardinality(upTo(z) \ {z}) = Cardinality(upTo(z)) - 1
    BY <1>1, <2>1, FS_RemoveElement
  <2> HIDE DEF upTo
  <2>3. Cardinality(upTo(x)) <= Cardinality(upTo(z) \ {z})
    BY <2>1, <2>2, FS_Subset
  <2> QED
    BY <1>1, <2>2, <2>3
<1>4. Cardinality(S) \in Nat
  BY FS_CardinalityType
<1> HIDE DEF upTo
<1>5. \A z \in S : Rank(S, z) = Cardinality(upTo(z))
  BY DEF Rank, upTo
<1> QED
  BY <1>1, <1>2, <1>3, <1>4, <1>5

\* The sequence of a set: its elements, each in the place of its rank, in their order.
LEMMA AscendingIsSorted ==
  ASSUME NEW S \in SUBSET Nat, IsFiniteSet(S)
  PROVE  LET a == Ascending(S) IN
         /\ Cardinality(S) \in Nat
         /\ DOMAIN a = 1..Cardinality(S)
         /\ \A i \in DOMAIN a : a[i] \in S
         /\ Increasing(a)
         /\ \A x \in S : \E i \in DOMAIN a : a[i] = x
<1> DEFINE n == Cardinality(S)
           a == Ascending(S)
           f == [x \in S |-> Rank(S, x)]
<1>1. n \in Nat /\ Cardinality(1..n) = n /\ IsFiniteSet(1..n)
  BY FS_CardinalityType, FS_Interval
<1>2. \A x, z \in S : x # z => Rank(S, x) # Rank(S, z)
  <2> SUFFICES ASSUME NEW x \in S, NEW z \in S, x < z PROVE Rank(S, x) < Rank(S, z) /\ Rank(S, x) \in Nat /\ Rank(S, z) \in Nat
    BY DEF Rank
  <2> QED
    BY <1>1, RankGrows
<1>3. f \in Injection(S, 1..n)
  <2>1. f \in [S -> 1..n]
    BY RankGrows
  <2>2. \A x, z \in S : f[x] = f[z] => x = z
    BY <1>2
  <2> QED
    BY <2>1, <2>2, Fun_IsInj
<1>4. f \in Surjection(S, 1..n)
  BY <1>1, <1>3, FS_Injection
<1>5. \A i \in 1..n : \E x \in S : Rank(S, x) = i
  <2>1. \A i \in 1..n : \E x \in S : f[x] = i
    BY <1>4 DEF Surjection
  <2> QED
    BY <2>1
<1>6. DOMAIN a = 1..n /\ \A i \in 1..n : a[i] \in S /\ Rank(S, a[i]) = i
  BY <1>5 DEF Ascending, Rank
<1> HIDE DEF a, n
<1>7. ASSUME NEW i \in 1..n, NEW j \in 1..n, i < j PROVE a[i] < a[j]
  <2>1. a[i] \in S /\ a[j] \in S /\ Rank(S, a[i]) = i /\ Rank(S, a[j]) = j
    BY <1>6
  <2>2. a[i] \in Nat /\ a[j] \in Nat /\ ~(j < i)
    <3>1. \A x \in S : x \in Nat
      OBVIOUS
    <3>2. i \in Nat /\ j \in Nat
      BY <1>1
    <3>3. a[i] \in Nat /\ a[j] \in Nat
      BY <2>1, <3>1
    <3>4. ~(j < i)
      BY <1>7, <3>2
    <3> QED
      BY <3>3, <3>4
  <2>3. ~(a[j] < a[i])
    BY <2>1, <2>2, RankGrows
  <2>4. a[i] # a[j]
    BY <1>7, <2>1, <2>2
  <2> QED
    BY <2>2, <2>3, <2>4
<1>8. ASSUME NEW x \in S PROVE \E i \in 1..n : a[i] = x
  <2>1. Rank(S, x) \in 1..n
    BY RankGrows DEF n
  <2>2. a[Rank(S, x)] = x
    BY <1>2, <1>6, <2>1
  <2> QED
    BY <2>1, <2>2
<1> QED
  BY <1>1, <1>6, <1>7, <1>8 DEF Increasing, n, a

-----------------------------------------------------------------------------
(* What a page holds.                                                       *)

Scopes == [id : Keys, version : Nat]
Bodies == [items : Seq(Scopes), next : Keys \cup {0}, total : Int]

Sorted(items) == \A i, j \in DOMAIN items : i < j => items[i].id < items[j].id
Holds(items, k) == \E i \in DOMAIN items : items[i].id = k

\* These keys and no others, each once and in their order.
Lists(items, keys) ==
  /\ items \in Seq(Scopes) /\ Sorted(items)
  /\ \A i \in DOMAIN items : items[i].id \in keys
  /\ \A k \in keys : Holds(items, k)

LEMMA KeysAreNumbers == Keys \in SUBSET Nat /\ IsFiniteSet(Keys) /\ 0 \notin Keys /\ \A k \in Keys : k \in Nat
BY PageAssumption

\* A listing is what the backend has, in the order of the cursor.
LEMMA ListingIsSorted ==
  ASSUME content \in [Keys -> Nat]
  PROVE  Lists(ListScopes, {k \in Keys : content[k] # 0})
<1> DEFINE there == {k \in Keys : content[k] # 0}
           a == Ascending(there)
           items == ListScopes
<1>1. there \in SUBSET Nat /\ IsFiniteSet(there)
  BY KeysAreNumbers, FS_Subset
<1>2. /\ Cardinality(there) \in Nat /\ DOMAIN a = 1..Cardinality(there)
      /\ \A i \in DOMAIN a : a[i] \in there
      /\ Increasing(a)
      /\ \A x \in there : \E i \in DOMAIN a : a[i] = x
  BY <1>1, AscendingIsSorted
<1>3. items = [i \in DOMAIN a |-> [id |-> a[i], version |-> content[a[i]]]]
  BY DEF ListScopes
<1> HIDE DEF a, items
<1>4. \A i \in DOMAIN a : a[i] \in Keys /\ content[a[i]] \in Nat
  BY <1>2
<1> HIDE DEF there
<1>5. DOMAIN items = DOMAIN a /\ \A i \in DOMAIN a : items[i].id = a[i] /\ items[i] \in Scopes
  BY <1>3, <1>4 DEF Scopes
<1>6. items \in Seq(Scopes)
  <2>1. items = [i \in 1..Cardinality(there) |-> items[i]] /\ \A i \in 1..Cardinality(there) : items[i] \in Scopes
    BY <1>2, <1>3, <1>5
  <2> QED
    BY <1>2, <2>1
<1>7. Sorted(items)
  BY <1>2, <1>5 DEF Sorted, Increasing
<1>8. (\A i \in DOMAIN items : items[i].id \in there) /\ (\A k \in there : Holds(items, k))
  BY <1>2, <1>5 DEF Holds
<1> QED
  BY <1>6, <1>7, <1>8 DEF Lists, there, items

\* A filter leaves what it is about, in its order.
LEMMA FilterKeepsOrder ==
  ASSUME NEW items, NEW keys, Lists(items, keys), NEW filter
  PROVE  Lists(filterByScopeID(items, filter), {k \in keys : filter = NoFilter \/ k = filter})
<1> DEFINE P == {i \in DOMAIN items : filter = NoFilter \/ items[i].id = filter}
           a == Ascending(P)
           kept == filterByScopeID(items, filter)
<1>1. /\ items \in Seq(Scopes) /\ Len(items) \in Nat /\ DOMAIN items = 1..Len(items)
      /\ \A i \in DOMAIN items : items[i] \in Scopes
  BY DEF Lists
<1>2. P \in SUBSET Nat /\ IsFiniteSet(P)
  <2>1. IsFiniteSet(1..Len(items))
    BY <1>1, FS_Interval
  <2> QED
    BY <1>1, <2>1, FS_Subset
<1>3. /\ Cardinality(P) \in Nat /\ DOMAIN a = 1..Cardinality(P)
      /\ \A i \in DOMAIN a : a[i] \in P
      /\ Increasing(a)
      /\ \A x \in P : \E i \in DOMAIN a : a[i] = x
  BY <1>2, AscendingIsSorted
<1>4. kept = [n \in DOMAIN a |-> items[a[n]]]
  BY DEF filterByScopeID
<1>5. \A x \in P : x \in DOMAIN items /\ (filter = NoFilter \/ items[x].id = filter)
  OBVIOUS
<1>6. \A x \in DOMAIN items : (filter = NoFilter \/ items[x].id = filter) => x \in P
  OBVIOUS
<1> HIDE DEF a, P, kept
<1>7. DOMAIN kept = DOMAIN a /\ \A n \in DOMAIN a : kept[n] = items[a[n]] /\ kept[n] \in Scopes
  BY <1>1, <1>3, <1>4, <1>5
<1>8. kept \in Seq(Scopes)
  <2>1. kept = [n \in 1..Cardinality(P) |-> kept[n]] /\ \A n \in 1..Cardinality(P) : kept[n] \in Scopes
    BY <1>3, <1>4, <1>7
  <2> QED
    BY <1>3, <2>1
<1>9. Sorted(kept)
  <2> SUFFICES ASSUME NEW n \in DOMAIN a, NEW m \in DOMAIN a, n < m PROVE kept[n].id < kept[m].id
    BY <1>7 DEF Sorted
  <2>1. a[n] < a[m] /\ a[n] \in DOMAIN items /\ a[m] \in DOMAIN items
    BY <1>3, <1>5 DEF Increasing
  <2> QED
    BY <1>7, <2>1 DEF Lists, Sorted
<1>10. ASSUME NEW n \in DOMAIN kept PROVE kept[n].id \in keys /\ (filter = NoFilter \/ kept[n].id = filter)
  BY <1>3, <1>5, <1>7 DEF Lists
<1>11. ASSUME NEW k \in keys, filter = NoFilter \/ k = filter PROVE Holds(kept, k)
  <2>1. PICK i \in DOMAIN items : items[i].id = k
    BY DEF Lists, Holds
  <2>2. i \in P
    BY <1>6, <1>11, <2>1
  <2>3. PICK n \in DOMAIN a : a[n] = i
    BY <1>3, <2>2
  <2> QED
    BY <1>7, <2>1, <2>3 DEF Holds
<1> QED
  BY <1>8, <1>9, <1>10, <1>11 DEF Lists, kept

\* What follows a cursor: nothing at or before it, everything up to the next cursor, and
\* everything there is when there is none.
Follows(page, keys, after) ==
  /\ Sorted(page.items)
  /\ \A i \in DOMAIN page.items : page.items[i].id > after /\ (page.next # 0 => page.items[i].id <= page.next)
  /\ page.next # 0 => page.next > after
  /\ \A k \in keys : k > after /\ (page.next = 0 \/ k <= page.next) => Holds(page.items, k)

\* A page is what follows the cursor, whether or not its own key is still there.
LEMMA SliceFollows ==
  ASSUME NEW items, NEW keys, Lists(items, keys), NEW after \in Nat, NEW size \in Nat \ {0}
  PROVE  LET page == Slice(items, after, size) IN
         page.items \in Seq(Scopes) /\ page.next \in Keys \cup {0} /\ Follows(page, keys, after)
<1> DEFINE n == Len(items)
           P == {i \in DOMAIN items : items[i].id < after}
           start == Cardinality(P) + (IF \E i \in DOMAIN items : items[i].id = after THEN 1 ELSE 0)
           end == IF start + size < n THEN start + size ELSE n
           part == SubSeq(items, start + 1, end)
           page == Slice(items, after, size)
<1>1. /\ n \in Nat /\ DOMAIN items = 1..n
      /\ \A i \in 1..n : items[i] \in Scopes /\ items[i].id \in Nat \ {0} /\ items[i].id \in Keys
  <2>1. n \in Nat /\ DOMAIN items = 1..n /\ \A i \in 1..n : items[i] \in Scopes
    BY DEF Lists
  <2>2. \A x \in Scopes : x.id \in Keys
    BY DEF Scopes
  <2> HIDE DEF n
  <2>3. \A k \in Keys : k \in Nat \ {0}
    BY KeysAreNumbers
  <2> QED
    BY <2>1, <2>2, <2>3
<1>2. \A i, j \in 1..n : i < j => items[i].id < items[j].id
  BY <1>1 DEF Lists, Sorted
<1>3. page = [items |-> part, next |-> IF end < n THEN items[end].id ELSE 0]
  BY DEF Slice
<1>4. Cardinality(P) \in 0..n /\ P = 1..Cardinality(P)
  <2>1. P \in SUBSET (1..n) /\ \A i \in P : \A j \in 1..n : j < i => j \in P
    <3> SUFFICES ASSUME NEW i \in 1..n, items[i].id < after, NEW j \in 1..n, j < i PROVE items[j].id < after
      BY <1>1
    <3>1. items[j].id < items[i].id /\ items[j].id \in Nat /\ items[i].id \in Nat
      BY <1>1, <1>2
    <3> QED
      BY <3>1
  <2> HIDE DEF P
  <2> QED
    BY <1>1, <2>1, InitialSegment
<1>5. start \in 0..n /\ \A i \in 1..n : (i <= start <=> items[i].id <= after)
  <2> DEFINE c == Cardinality(P)
  <2>1. c \in 0..n /\ \A i \in 1..n : (i <= c <=> items[i].id < after)
    BY <1>1, <1>4
  <2> HIDE DEF c
  <2>2. CASE \E i \in DOMAIN items : items[i].id = after
    <3>1. PICK i \in 1..n : items[i].id = after
      BY <1>1, <2>2
    <3>2. start = c + 1
      BY <2>2 DEF c
    <3>3. i = c + 1
      <4>1. i > c
        BY <1>1, <2>1, <3>1
      <4>2. ~(c + 1 < i)
        <5> SUFFICES ASSUME c + 1 < i PROVE FALSE
          OBVIOUS
        <5>1. c + 1 \in 1..n /\ items[c + 1].id < items[i].id
          BY <1>1, <1>2, <2>1
        <5> QED
          BY <1>1, <2>1, <3>1, <5>1
      <4> QED
        BY <1>1, <2>1, <4>1, <4>2
    <3>4. ASSUME NEW j \in 1..n PROVE j <= i <=> items[j].id <= after
      <4>1. j < i => items[j].id < after
        BY <1>2, <3>1
      <4>2. i < j => after < items[j].id
        BY <1>2, <3>1
      <4>3. items[j].id \in Nat /\ i \in Nat /\ j \in Nat
        BY <1>1
      <4> QED
        BY <3>1, <4>1, <4>2, <4>3
    <3>5. start = i /\ i \in 0..n
      BY <1>1, <3>2, <3>3
    <3> QED
      BY <3>4, <3>5
  <2>3. CASE ~\E i \in DOMAIN items : items[i].id = after
    <3>1. start = c
      BY <2>1, <2>3 DEF c
    <3>2. \A i \in 1..n : items[i].id < after <=> items[i].id <= after
      BY <1>1, <2>3
    <3> QED
      BY <2>1, <3>1, <3>2
  <2> QED
    BY <2>2, <2>3
<1> HIDE DEF start, P, n
<1>6. end \in start..n /\ (end < n => end > start)
  BY <1>1, <1>5
<1> HIDE DEF end
<1>7. /\ part \in Seq(Scopes) /\ DOMAIN part = 1..(end - start)
      /\ \A i \in 1..(end - start) : part[i] = items[start + i]
  <2>1. \A i \in (start + 1)..end : items[i] \in Scopes
    BY <1>1, <1>5, <1>6
  <2>2. start + 1 \in Int /\ end \in Int /\ start \in Nat
    BY <1>1, <1>5, <1>6
  <2>3. /\ part \in Seq(Scopes) /\ Len(part) = IF start + 1 <= end THEN end - (start + 1) + 1 ELSE 0
        /\ \A i \in 1..(end - (start + 1) + 1) : part[i] = items[start + 1 + i - 1]
    BY <2>1, <2>2, SubSeqProperties
  <2>4. Len(part) = end - start /\ DOMAIN part = 1..Len(part)
    BY <1>6, <2>2, <2>3
  <2> QED
    BY <2>2, <2>3, <2>4
<1> HIDE DEF part, page
<1>8. page.items = part /\ page.next = (IF end < n THEN items[end].id ELSE 0)
  BY <1>3
<1>9. page.next \in Keys \cup {0} /\ (page.next # 0 <=> end < n)
  <2>1. CASE end < n
    <3>1. end \in 1..n
      BY <1>1, <1>5, <1>6, <2>1
    <3>2. items[end].id \in Keys /\ items[end].id # 0
      BY <1>1, <3>1
    <3> QED
      BY <1>8, <2>1, <3>2
  <2>2. CASE ~(end < n)
    BY <1>8, <2>2
  <2> QED
    BY <2>1, <2>2
<1>10. Sorted(part)
  <2> SUFFICES ASSUME NEW i \in 1..(end - start), NEW j \in 1..(end - start), i < j PROVE part[i].id < part[j].id
    BY <1>7 DEF Sorted
  <2>1. start + i \in 1..n /\ start + j \in 1..n /\ start + i < start + j
    BY <1>1, <1>5, <1>6
  <2> QED
    BY <1>2, <1>7, <2>1
<1>11. ASSUME NEW i \in 1..(end - start)
       PROVE  part[i].id > after /\ (end < n => part[i].id <= items[end].id)
  <2>1. start + i \in 1..n /\ ~(start + i <= start) /\ start + i <= end /\ start + i \in Nat /\ end \in Nat
    BY <1>1, <1>5, <1>6
  <2>2. part[i] = items[start + i] /\ items[start + i].id \in Nat /\ ~(items[start + i].id <= after)
    BY <1>1, <1>5, <1>7, <2>1
  <2>3. ASSUME end < n PROVE items[start + i].id <= items[end].id
    <3>1. end \in 1..n /\ items[end].id \in Nat
      BY <1>1, <1>6, <2>1
    <3>2. start + i = end \/ items[start + i].id < items[end].id
      BY <1>2, <2>1, <3>1
    <3> QED
      BY <2>2, <3>1, <3>2
  <2> QED
    BY <2>2, <2>3
<1>12. ASSUME end < n PROVE items[end].id > after
  <2>1. end \in 1..n /\ ~(end <= start)
    BY <1>1, <1>5, <1>6, <1>12
  <2> QED
    BY <1>1, <1>5, <2>1
<1>13. ASSUME NEW k \in keys, k > after, end = n \/ k <= items[end].id PROVE Holds(part, k)
  <2>1. PICK i \in 1..n : items[i].id = k
    BY <1>1 DEF Lists, Holds
  <2>2. ~(i <= start) /\ i \in Nat /\ start \in Nat /\ end \in Nat
    BY <1>1, <1>5, <1>6, <1>13, <2>1
  <2>3. i <= end
    <3>1. CASE end = n
      BY <3>1
    <3>2. CASE end # n
      <4>1. end \in 1..n /\ (end < i => items[end].id < items[i].id)
        BY <1>1, <1>2, <1>5, <1>6, <3>2
      <4> QED
        BY <1>1, <1>13, <2>1, <2>2, <3>2, <4>1
    <3> QED
      BY <3>1, <3>2
  <2>4. i - start \in 1..(end - start) /\ start + (i - start) = i
    BY <2>2, <2>3
  <2> QED
    BY <1>7, <2>1, <2>4 DEF Holds
<1>14. Follows(page, keys, after)
  <2>1. end < n \/ end = n
    BY <1>1, <1>6
  <2>2. \A i \in DOMAIN page.items : page.items[i].id > after /\ (page.next # 0 => page.items[i].id <= page.next)
    BY <1>7, <1>8, <1>9, <1>11
  <2>3. page.next # 0 => page.next > after
    BY <1>8, <1>9, <1>12
  <2>4. \A k \in keys : k > after /\ (page.next = 0 \/ k <= page.next) => Holds(page.items, k)
    BY <1>8, <1>9, <1>13, <2>1
  <2> QED
    BY <1>8, <1>10, <2>2, <2>3, <2>4 DEF Follows
<1> QED
  BY <1>7, <1>8, <1>9, <1>14 DEF page

LEMMA SizeIsNumber == ASSUME NEW raw \in Int PROVE parseSize(raw) \in Nat
BY PageAssumption DEF parseSize, Absent, Huge, Invalid

\* What the collection handler answers is what follows the cursor, of all that is there.
LEMMA PageFollows ==
  ASSUME content \in [Keys -> Nat], query.size \in Int, query.filter \in Keys \cup {0},
         parseSize(query.size) # Invalid, NEW after \in Nat
  PROVE  Page(after) \in Bodies /\ Follows(Page(after), There, after)
<1> DEFINE items == filterByScopeID(ListScopes, query.filter)
           page == Slice(items, after, parseSize(query.size))
<1>1. Lists(items, There)
  <2>1. Lists(items, {k \in {j \in Keys : content[j] # 0} : query.filter = NoFilter \/ k = query.filter})
    BY ListingIsSorted, FilterKeepsOrder
  <2>2. There = {k \in {j \in Keys : content[j] # 0} : query.filter = NoFilter \/ k = query.filter}
    BY DEF There, Wanted, NoFilter
  <2> QED
    BY <2>1, <2>2
<1>2. parseSize(query.size) \in Nat \ {0}
  BY SizeIsNumber DEF Invalid
<1>3. Page(after) = [items |-> page.items, next |-> page.next, total |-> Len(items)]
  BY DEF Page
<1> HIDE DEF items
<1>4. page.items \in Seq(Scopes) /\ page.next \in Keys \cup {0} /\ Follows(page, There, after)
  BY <1>1, <1>2, SliceFollows
<1>5. Len(items) \in Int
  BY <1>1 DEF Lists
<1> HIDE DEF page
<1>6. Page(after).items = page.items /\ Page(after).next = page.next
  BY <1>3
<1>7. Follows(Page(after), There, after)
  BY <1>4, <1>6 DEF Follows
<1>8. Page(after) \in Bodies
  BY <1>3, <1>4, <1>5 DEF Bodies
<1> QED
  BY <1>7, <1>8

\* Fewer keys are met as well.
LEMMA FollowsFewer ==
  ASSUME NEW page, NEW keys, NEW fewer \in SUBSET keys, NEW after, Follows(page, keys, after)
  PROVE  Follows(page, fewer, after)
BY DEF Follows

-----------------------------------------------------------------------------
(* What is written, unit by unit.                                           *)

UpTo(k) == [i \in 1..k |-> i]
From(k, n) == [i \in 1..(n - k) |-> k + i]

LEMMA StreamParts ==
  ASSUME NEW n \in Nat, NEW k \in 0..n
  PROVE  /\ UpTo(k) \in Seq(Nat) /\ Len(UpTo(k)) = k
         /\ From(k, n) \in Seq(Nat) /\ Len(From(k, n)) = n - k
<1>1. UpTo(k) \in Seq(Nat) /\ Len(UpTo(k)) = k
  BY DEF UpTo
<1>2. n - k \in Nat /\ \A i \in 1..(n - k) : k + i \in Nat
  OBVIOUS
<1> QED
  BY <1>1, <1>2 DEF From

LEMMA Pieces ==
  ASSUME NEW n \in Nat, NEW k \in 0..n, NEW m \in Nat, m <= Len(From(k, n))
  PROVE  /\ UpTo(k) \in Seq(Nat) /\ From(k, n) \in Seq(Nat) /\ Len(From(k, n)) = n - k
         /\ k + m \in 0..n
         /\ UpTo(k) \o SubSeq(From(k, n), 1, m) = UpTo(k + m)
         /\ SubSeq(From(k, n), m + 1, Len(From(k, n))) = From(k + m, n)
<1>1. UpTo(k) \in Seq(Nat) /\ Len(UpTo(k)) = k
  BY DEF UpTo
<1>2. From(k, n) \in Seq(Nat) /\ Len(From(k, n)) = n - k
  <2>1. \A i \in 1..(n - k) : k + i \in Nat
    OBVIOUS
  <2>2. n - k \in Nat
    OBVIOUS
  <2> QED
    BY <2>1, <2>2 DEF From
<1>3. k + m \in 0..n
  BY <1>2
<1>4. /\ SubSeq(From(k, n), 1, m) \in Seq(Nat) /\ Len(SubSeq(From(k, n), 1, m)) = m
      /\ \A i \in 1..m : SubSeq(From(k, n), 1, m)[i] = k + i
  <2>1. \A i \in 1..m : From(k, n)[i] = k + i /\ From(k, n)[i] \in Nat
    BY <1>2 DEF From
  <2>2. /\ SubSeq(From(k, n), 1, m) \in Seq(Nat)
        /\ Len(SubSeq(From(k, n), 1, m)) = IF 1 <= m THEN m - 1 + 1 ELSE 0
        /\ \A i \in 1..(m - 1 + 1) : SubSeq(From(k, n), 1, m)[i] = From(k, n)[1 + i - 1]
    BY <2>1, SubSeqProperties
  <2> QED
    BY <2>1, <2>2
<1>5. UpTo(k) \o SubSeq(From(k, n), 1, m) = UpTo(k + m)
  <2> DEFINE piece == SubSeq(From(k, n), 1, m)
             both == UpTo(k) \o piece
  <2> HIDE DEF piece
  <2>0. piece \in Seq(Nat) /\ Len(piece) = m /\ \A i \in 1..m : piece[i] = k + i
    BY <1>4 DEF piece
  <2>1. /\ both \in Seq(Nat) /\ Len(both) = k + m
        /\ \A i \in 1..(k + m) : both[i] = IF i <= k THEN UpTo(k)[i] ELSE piece[i - k]
    <3>1. /\ both \in Seq(Nat) /\ Len(both) = Len(UpTo(k)) + Len(piece)
          /\ \A i \in 1..(Len(UpTo(k)) + Len(piece)) :
               both[i] = IF i <= Len(UpTo(k)) THEN UpTo(k)[i] ELSE piece[i - Len(UpTo(k))]
      BY <1>1, <2>0, ConcatProperties
    <3> QED
      BY <1>1, <2>0, <3>1
  <2>2. \A i \in 1..(k + m) : both[i] = i
    <3> SUFFICES ASSUME NEW i \in 1..(k + m) PROVE both[i] = i
      OBVIOUS
    <3>1. CASE i <= k
      BY <2>1, <3>1 DEF UpTo
    <3>2. CASE ~(i <= k)
      <4>1. i - k \in 1..m
        BY <3>2
      <4> QED
        BY <2>0, <2>1, <3>2, <4>1
    <3> QED
      BY <3>1, <3>2
  <2> HIDE DEF both
  <2>3. UpTo(k + m) \in Seq(Nat) /\ Len(UpTo(k + m)) = k + m /\ \A i \in 1..(k + m) : UpTo(k + m)[i] = i
    BY <1>3 DEF UpTo
  <2> QED
    BY <2>1, <2>2, <2>3, SeqEqual DEF both, piece
<1>6. SubSeq(From(k, n), m + 1, Len(From(k, n))) = From(k + m, n)
  <2> DEFINE rest == SubSeq(From(k, n), m + 1, n - k)
  <2>1. \A i \in (m + 1)..(n - k) : From(k, n)[i] = k + i /\ From(k, n)[i] \in Nat
    BY DEF From
  <2>2. /\ rest \in Seq(Nat)
        /\ Len(rest) = IF m + 1 <= n - k THEN n - k - (m + 1) + 1 ELSE 0
        /\ \A i \in 1..(n - k - (m + 1) + 1) : rest[i] = From(k, n)[m + 1 + i - 1]
    BY <2>1, SubSeqProperties
  <2> HIDE DEF rest
  <2>3. Len(rest) = n - (k + m) /\ \A i \in 1..(n - (k + m)) : rest[i] = k + m + i
    BY <1>2, <2>1, <2>2
  <2>4. /\ From(k + m, n) \in Seq(Nat) /\ Len(From(k + m, n)) = n - (k + m)
        /\ \A i \in 1..(n - (k + m)) : From(k + m, n)[i] = k + m + i
    <3>1. n - (k + m) \in Nat /\ \A i \in 1..(n - (k + m)) : k + m + i \in Nat
      BY <1>3
    <3> QED
      BY <3>1 DEF From
  <2>5. rest = From(k + m, n)
    BY <2>2, <2>3, <2>4, SeqEqual
  <2> QED
    BY <1>2, <2>5 DEF rest
<1> QED
  BY <1>1, <1>2, <1>3, <1>5, <1>6

-----------------------------------------------------------------------------
(* The inductive invariant.                                                 *)

Tags == {NoTag} \cup {Compute(body) : body \in Bodies}
Answers == {200, 400, 502}
Open == Answers \cup {0}  \* also before there is one
Wires == [status : Open \cup {304}, tag : Tags, sent : Seq(Nat)]

Walks == [at : {"walking", "complete", "failed"}, after : Keys \cup {0}, seen : Seq(Keys), throughout : SUBSET Keys]
Copies == [tag : Tags, body : Bodies]
Requests == [at : {"idle", "list", "write", "sent"}, ifNoneMatch : SUBSET Tags, status : Open, body : Bodies,
             todo : Seq(Nat), buffer : Seq(Nat), overflowed : BOOLEAN, gone : BOOLEAN, wire : Wires]

LEMMA AnswersAreOpen == 0 \in Open /\ 0 \notin Answers /\ (\A x \in Answers : x \in Open) /\ {200, 400, 502} \subseteq Answers
BY DEF Open, Answers

TypeInv ==
  /\ content \in [Keys -> {0, 1, 2}]
  /\ query.size \in Int /\ query.filter \in Keys \cup {0}
  /\ walk \in Walks /\ copy \in [Keys \cup {0} -> Copies] /\ req \in Requests

Met(k) == \E i \in DOMAIN walk.seen : walk.seen[i] = k

\* The client is past what it has met, and has met what was there on the way.
WalkInv ==
  /\ Increasing(walk.seen)
  /\ walk.throughout \subseteq There
  /\ walk.at = "walking" =>
       /\ \A i \in DOMAIN walk.seen : walk.seen[i] <= walk.after
       /\ \A k \in walk.throughout : k <= walk.after => Met(k)
  /\ walk.at = "complete" => \A k \in walk.throughout : Met(k)

\* What is kept with a tag is what the tag was made of.
CopyInv == \A k \in Keys \cup {0} : copy[k].tag # NoTag => copy[k].tag = Compute(copy[k].body)

\* While the handler writes, what has gone out or is held back and what is left to
\* write are the response; once something has gone out, all of it has.
Streaming ==
  \E k \in 0..Units(req.body) :
    /\ req.todo = From(k, Units(req.body))
    /\ ~req.overflowed => req.buffer = UpTo(k) /\ req.wire = Unsent
    /\ req.overflowed => req.buffer = <<>> /\ req.wire = [status |-> req.status, tag |-> NoTag, sent |-> UpTo(k)]

\* What a caller who is still there has when the handler is done with.
Answered ==
  \/ /\ req.wire.status = req.status /\ req.wire.sent = UpTo(Units(req.body))
     /\ req.wire.tag # NoTag => req.status = 200 /\ ~req.overflowed /\ req.wire.tag = Compute(req.body)
  \/ /\ req.wire.status = 304 /\ req.wire.sent = <<>> /\ req.status = 200 /\ ~req.overflowed
     /\ req.wire.tag = Compute(req.body) /\ Compute(req.body) \in req.ifNoneMatch

ReqInv ==
  /\ req.at # "idle" => walk.at = "walking" /\ req.ifNoneMatch \subseteq {copy[walk.after].tag} \ {NoTag}
  /\ req.at = "list" => req.wire = Unsent /\ req.buffer = <<>> /\ ~req.overflowed
  /\ req.at \in {"write", "sent"} =>
       req.status # 0 /\ (req.status = 200 => Follows(req.body, walk.throughout, walk.after))
  /\ req.at = "write" => Streaming
  /\ req.at = "sent" /\ ~req.gone => Answered

Inv == TypeInv /\ WalkInv /\ CopyInv /\ ReqInv

\* Bodies that differ have tags that differ.
LEMMA TagTellsBody ==
  ASSUME NEW b \in Bodies, NEW c \in Bodies, Compute(b) = Compute(c)
  PROVE  b = c
BY DEF Bodies, Compute

LEMMA NoBodyIsBody == NoBody \in Bodies /\ NoTag \in Tags /\ Unsent \in Wires /\ \A b \in Bodies : Units(b) \in Nat /\ Compute(b) \in Tags
<1>1. <<>> \in Seq(Scopes) /\ <<>> \in Seq(Nat)
  OBVIOUS
<1>2. NoBody \in Bodies
  BY <1>1 DEF NoBody, Bodies
<1>3. NoTag \in Tags
  BY DEF Tags
<1>4. Unsent \in Wires
  BY <1>1, <1>3, AnswersAreOpen DEF Unsent, Wires
<1>5. \A b \in Bodies : Units(b) \in Nat /\ Compute(b) \in Tags
  BY DEF Units, Bodies, Tags
<1> QED
  BY <1>2, <1>3, <1>4, <1>5


\* The parts of what is typed.
LEMMA Typed ==
  ASSUME TypeInv
  PROVE  /\ req.ifNoneMatch \in SUBSET Tags /\ req.status \in Open /\ req.body \in Bodies
         /\ req.todo \in Seq(Nat) /\ req.buffer \in Seq(Nat) /\ req.overflowed \in BOOLEAN /\ req.gone \in BOOLEAN
         /\ req.wire \in Wires
         /\ walk.after \in Keys \cup {0} /\ walk.after \in Nat /\ walk.seen \in Seq(Keys) /\ walk.throughout \in SUBSET Keys
         /\ copy[walk.after] \in Copies /\ copy[walk.after].tag \in Tags /\ copy[walk.after].body \in Bodies
         /\ content \in [Keys -> Nat]
<1>1. walk.after \in Keys \cup {0} /\ walk.seen \in Seq(Keys) /\ walk.throughout \in SUBSET Keys
  BY DEF TypeInv, Walks
<1>2. copy[walk.after] \in Copies
  BY <1>1 DEF TypeInv
<1>3. copy[walk.after].tag \in Tags /\ copy[walk.after].body \in Bodies
  BY <1>2 DEF Copies
<1>4. walk.after \in Nat
  <2>1. \A k \in Keys : k \in Nat
    BY KeysAreNumbers
  <2> QED
    BY <1>1, <2>1
<1>5. content \in [Keys -> Nat]
  BY DEF TypeInv
<1>6. /\ req.ifNoneMatch \in SUBSET Tags /\ req.status \in Open /\ req.body \in Bodies
      /\ req.todo \in Seq(Nat) /\ req.buffer \in Seq(Nat) /\ req.overflowed \in BOOLEAN /\ req.gone \in BOOLEAN
      /\ req.wire \in Wires
  BY DEF TypeInv, Requests
<1> QED
  BY <1>1, <1>2, <1>3, <1>4, <1>5, <1>6

\* How a request changes while it is answered: a response is begun, a piece is held back,
\* a piece goes out.
LEMMA RequestBegins ==
  ASSUME req \in Requests, NEW status \in Answers, NEW body \in Bodies, NEW todo \in Seq(Nat),
         req' = [req EXCEPT !.at = "write", !.status = status, !.body = body, !.todo = todo]
  PROVE  /\ req' \in Requests
         /\ req'.at = "write" /\ req'.status = status /\ req'.body = body /\ req'.todo = todo
         /\ req'.ifNoneMatch = req.ifNoneMatch /\ req'.buffer = req.buffer /\ req'.wire = req.wire
         /\ req'.overflowed = req.overflowed
<1>1. [req EXCEPT !.at = "write", !.status = status, !.body = body, !.todo = todo] \in Requests
  BY AnswersAreOpen DEF Requests
<1>2. req'.at = "write" /\ req'.status = status /\ req'.body = body /\ req'.todo = todo
  BY DEF Requests
<1>3. req'.ifNoneMatch = req.ifNoneMatch /\ req'.buffer = req.buffer /\ req'.wire = req.wire
  BY DEF Requests
<1>4. req'.overflowed = req.overflowed
  BY DEF Requests
<1> QED
  BY <1>1, <1>2, <1>3, <1>4

LEMMA RequestHolds ==
  ASSUME req \in Requests, NEW todo \in Seq(Nat), NEW buffer \in Seq(Nat),
         req' = [req EXCEPT !.todo = todo, !.buffer = buffer]
  PROVE  /\ req' \in Requests /\ req'.todo = todo /\ req'.buffer = buffer
         /\ req'.at = req.at /\ req'.status = req.status /\ req'.body = req.body
         /\ req'.ifNoneMatch = req.ifNoneMatch /\ req'.wire = req.wire /\ req'.overflowed = req.overflowed
<1>1. [req EXCEPT !.todo = todo, !.buffer = buffer] \in Requests
  BY DEF Requests
<1>2. req'.todo = todo /\ req'.buffer = buffer
  BY DEF Requests
<1>3. /\ req'.at = req.at /\ req'.status = req.status /\ req'.body = req.body
      /\ req'.ifNoneMatch = req.ifNoneMatch /\ req'.wire = req.wire
  BY DEF Requests
<1>4. req'.overflowed = req.overflowed
  BY DEF Requests
<1> QED
  BY <1>1, <1>2, <1>3, <1>4

LEMMA RequestSends ==
  ASSUME req \in Requests, NEW todo \in Seq(Nat), NEW wire \in Wires,
         req' = [req EXCEPT !.todo = todo, !.buffer = <<>>, !.overflowed = TRUE, !.wire = wire]
  PROVE  /\ req' \in Requests /\ req'.todo = todo /\ req'.buffer = <<>> /\ req'.overflowed /\ req'.wire = wire
         /\ req'.at = req.at /\ req'.status = req.status /\ req'.body = req.body
         /\ req'.ifNoneMatch = req.ifNoneMatch
<1>1. <<>> \in Seq(Nat)
  OBVIOUS
<1>2. [req EXCEPT !.todo = todo, !.buffer = <<>>, !.overflowed = TRUE, !.wire = wire] \in Requests
  BY <1>1 DEF Requests
<1>3. req'.todo = todo /\ req'.buffer = <<>> /\ req'.overflowed /\ req'.wire = wire
  BY DEF Requests
<1>4. req'.at = req.at /\ req'.status = req.status /\ req'.body = req.body /\ req'.ifNoneMatch = req.ifNoneMatch
  BY DEF Requests
<1> QED
  BY <1>2, <1>3, <1>4

\* What the wire becomes when something is sent on it.
LEMMA WireSends ==
  ASSUME NEW wire \in Wires, wire.tag = NoTag, NEW status \in Open, NEW sent \in Seq(Nat)
  PROVE  [wire EXCEPT !.status = status, !.sent = sent] = [status |-> status, tag |-> NoTag, sent |-> sent]
<1> DEFINE w == [wire EXCEPT !.status = status, !.sent = sent]
<1>1. w \in Wires
  BY DEF Wires
<1>2. w.status = status /\ w.tag = wire.tag /\ w.sent = sent
  BY DEF Wires
<1> HIDE DEF w
<1>3. w = [status |-> w.status, tag |-> w.tag, sent |-> w.sent]
  BY <1>1 DEF Wires
<1> QED
  BY <1>2, <1>3 DEF w

LEMMA RequestIsMade ==
  ASSUME NEW tags \in SUBSET Tags
  PROVE  /\ [NoRequest EXCEPT !.at = "list", !.ifNoneMatch = tags] \in Requests
         /\ NoRequest \in Requests
<1>1. <<>> \in Seq(Nat)
  OBVIOUS
<1>2. NoRequest \in Requests
  BY <1>1, NoBodyIsBody, AnswersAreOpen DEF NoRequest, Requests
<1>3. [NoRequest EXCEPT !.at = "list", !.ifNoneMatch = tags] \in Requests
  BY <1>2 DEF Requests
<1> QED
  BY <1>2, <1>3

-----------------------------------------------------------------------------
(* Every step of the model.                                                 *)

LEMMA AskKeeps == ASSUME Inv, Ask PROVE Inv'
<1> USE DEF Inv, Ask
<1>1. /\ req.at = "idle" /\ walk.at = "walking" /\ UNCHANGED <<content, query, walk, copy>>
      /\ req' = [NoRequest EXCEPT !.at = "list", !.ifNoneMatch = IF copy[walk.after].tag = NoTag THEN {} ELSE {copy[walk.after].tag}]
  OBVIOUS
<1>2. TypeInv'
  <2> DEFINE tags == IF copy[walk.after].tag = NoTag THEN {} ELSE {copy[walk.after].tag}
  <2>1. tags \in SUBSET Tags
    BY Typed
  <2>2. req' \in Requests
    BY <1>1, <2>1, RequestIsMade
  <2> QED
    BY <1>1, <2>2 DEF TypeInv
<1>3. WalkInv' /\ CopyInv'
  BY <1>1 DEF WalkInv, CopyInv, Met, There, Wanted
<1>4. ReqInv'
  BY <1>1 DEF ReqInv, NoRequest
<1> QED
  BY <1>2, <1>3, <1>4

\* A response is begun with nothing written and all of it to write.
LEMMA RespondKeeps ==
  ASSUME Inv, req.at = "list", UNCHANGED <<content, query, walk, copy>>,
         NEW status \in Answers, NEW body \in Bodies, Respond(status, body),
         status = 200 => Follows(body, walk.throughout, walk.after)
  PROVE  Inv'
<1> USE DEF Inv
<1>1. req' = [req EXCEPT !.at = "write", !.status = status, !.body = body, !.todo = [i \in 1..Units(body) |-> i]]
  BY DEF Respond
<1>2. Units(body) \in Nat
  BY NoBodyIsBody
<1>3. From(0, Units(body)) = [i \in 1..Units(body) |-> i] /\ From(0, Units(body)) \in Seq(Nat) /\ UpTo(0) = <<>>
  BY <1>2 DEF From, UpTo
<1>4. /\ req' \in Requests
      /\ req'.at = "write" /\ req'.status = status /\ req'.body = body /\ req'.todo = From(0, Units(body))
      /\ req'.ifNoneMatch = req.ifNoneMatch /\ req'.buffer = req.buffer /\ req'.wire = req.wire /\ req'.overflowed = req.overflowed
  <2> DEFINE todo == From(0, Units(body))
  <2>1. req' = [req EXCEPT !.at = "write", !.status = status, !.body = body, !.todo = todo]
    BY <1>1, <1>3
  <2>2. todo \in Seq(Nat) /\ req \in Requests
    BY <1>3 DEF TypeInv
  <2> HIDE DEF todo
  <2>3. /\ req' \in Requests
        /\ req'.at = "write" /\ req'.status = status /\ req'.body = body /\ req'.todo = todo
        /\ req'.ifNoneMatch = req.ifNoneMatch /\ req'.buffer = req.buffer /\ req'.wire = req.wire
        /\ req'.overflowed = req.overflowed
    BY <2>1, <2>2, RequestBegins
  <2> QED
    BY <2>3 DEF todo
<1>5. TypeInv'
  BY <1>4 DEF TypeInv
<1>6. WalkInv' /\ CopyInv'
  BY DEF WalkInv, CopyInv, Met, There, Wanted
<1>7. Streaming'
  BY <1>2, <1>3, <1>4 DEF Streaming, ReqInv
<1>8. ReqInv'
  BY <1>4, <1>7, AnswersAreOpen DEF ReqInv
<1> QED
  BY <1>5, <1>6, <1>8

LEMMA ListKeeps == ASSUME Inv, List PROVE Inv'
<1> USE DEF Inv
<1>1. req.at = "list" /\ UNCHANGED <<content, query, walk, copy>>
  BY DEF List
<1>2. CASE Respond(400, Error) \/ Respond(502, Error)
  <2>1. /\ 400 \in Answers /\ 502 \in Answers /\ Error \in Bodies
        /\ (400 = 200 => Follows(Error, walk.throughout, walk.after))
        /\ (502 = 200 => Follows(Error, walk.throughout, walk.after))
    BY NoBodyIsBody, AnswersAreOpen DEF Error
  <2> QED
    BY <1>1, <1>2, <2>1, RespondKeeps
<1>3. CASE parseSize(query.size) # Invalid /\ Respond(200, Page(walk.after))
  <2>1. content \in [Keys -> Nat] /\ walk.after \in Nat
    BY Typed
  <2>2. Page(walk.after) \in Bodies /\ Follows(Page(walk.after), There, walk.after)
    BY <1>3, <2>1, PageFollows DEF TypeInv
  <2>3. Follows(Page(walk.after), walk.throughout, walk.after)
    BY <2>2, FollowsFewer DEF WalkInv
  <2>4. 200 \in Answers
    BY AnswersAreOpen
  <2> QED
    BY <1>1, <1>3, <2>2, <2>3, <2>4, RespondKeeps
<1> QED
  BY <1>2, <1>3 DEF List

\* Whatever a handler writes in one go, it is held back or goes out behind what was.
LEMMA WriteKeeps == ASSUME Inv, NEW m \in Nat, Write(m) PROVE Inv'
<1> USE DEF Inv
<1> DEFINE n == Units(req.body)
<1>1. req.at = "write" /\ m <= Len(req.todo) /\ UNCHANGED <<content, query, walk, copy>>
  BY DEF Write
<1>2. n \in Nat /\ req.body \in Bodies
  BY NoBodyIsBody, Typed
<1>3. PICK k \in 0..n :
        /\ req.todo = From(k, n)
        /\ ~req.overflowed => req.buffer = UpTo(k) /\ req.wire = Unsent
        /\ req.overflowed => req.buffer = <<>> /\ req.wire = [status |-> req.status, tag |-> NoTag, sent |-> UpTo(k)]
  BY <1>1 DEF ReqInv, Streaming
<1> HIDE DEF n
<1>4. /\ UpTo(k) \in Seq(Nat) /\ k + m \in 0..n /\ UpTo(k) \o Piece(m) = UpTo(k + m) /\ Rest(m) = From(k + m, n)
      /\ From(k + m, n) \in Seq(Nat) /\ UpTo(k + m) \in Seq(Nat)
  <2>1. /\ UpTo(k) \in Seq(Nat) /\ k + m \in 0..n /\ UpTo(k) \o Piece(m) = UpTo(k + m) /\ Rest(m) = From(k + m, n)
    BY <1>1, <1>2, <1>3, Pieces DEF Piece, Rest
  <2>2. From(k + m, n) \in Seq(Nat) /\ UpTo(k + m) \in Seq(Nat)
    <3>1. k + m \in Nat
      BY <2>1
    <3> QED
      BY <1>2, <2>1, <3>1, StreamParts
  <2> QED
    BY <2>1, <2>2
<1>5. CASE ~req.overflowed /\ Len(req.buffer) + m <= MaxTaggedUnits
  <2>1. req' = [req EXCEPT !.todo = Rest(m), !.buffer = @ \o Piece(m)]
    BY <1>5 DEF Write
  <2>2. req.buffer \o Piece(m) = UpTo(k + m)
    BY <1>3, <1>4, <1>5
  <2>3. req' = [req EXCEPT !.todo = From(k + m, n), !.buffer = UpTo(k + m)]
    BY <1>4, <2>1, <2>2
  <2>4. /\ req' \in Requests /\ req'.todo = From(k + m, n) /\ req'.buffer = UpTo(k + m)
        /\ req'.at = req.at /\ req'.status = req.status /\ req'.body = req.body /\ req'.ifNoneMatch = req.ifNoneMatch /\ req'.wire = req.wire /\ req'.overflowed = req.overflowed
    BY <1>4, <2>3, RequestHolds DEF TypeInv
  <2>5. TypeInv'
    BY <1>1, <2>4 DEF TypeInv
  <2>6. Streaming'
    BY <1>3, <1>4, <1>5, <2>4 DEF Streaming, n
  <2>7. ReqInv'
    BY <1>1, <2>4, <2>6 DEF ReqInv
  <2> QED
    BY <1>1, <2>5, <2>7 DEF WalkInv, CopyInv, Met, There, Wanted
<1>6. CASE ~(~req.overflowed /\ Len(req.buffer) + m <= MaxTaggedUnits)
  <2>1. req' = [req EXCEPT !.todo = Rest(m), !.buffer = <<>>, !.overflowed = TRUE, !.wire = Committed(m)]
    BY <1>6 DEF Write
  <2>2. req.wire.sent \o req.buffer = UpTo(k)
    <3>1. UpTo(k) \o <<>> = UpTo(k) /\ <<>> \o UpTo(k) = UpTo(k)
      BY <1>4, ConcatEmptySeq
    <3>2. req.overflowed => req.wire.sent = UpTo(k) /\ req.buffer = <<>>
      BY <1>3
    <3>3. ~req.overflowed => req.wire.sent = <<>> /\ req.buffer = UpTo(k)
      BY <1>3 DEF Unsent
    <3> QED
      BY <3>1, <3>2, <3>3
  <2> DEFINE wire == [status |-> req.status, tag |-> NoTag, sent |-> UpTo(k + m)]
  <2>3. Committed(m) = wire
    <3>1. req.wire.tag = NoTag /\ req.wire \in Wires
      BY <1>3, Typed DEF Unsent
    <3>2. (req.wire.sent \o req.buffer) \o Piece(m) = UpTo(k + m)
      BY <1>4, <2>2
    <3>3. Committed(m) = [req.wire EXCEPT !.status = req.status, !.sent = UpTo(k + m)]
      BY <3>2 DEF Committed
    <3>4. req.status \in Open /\ UpTo(k + m) \in Seq(Nat)
      BY <1>4, Typed
    <3>5. [req.wire EXCEPT !.status = req.status, !.sent = UpTo(k + m)] = wire
      BY <3>1, <3>4, WireSends
    <3> QED
      BY <3>3, <3>5
  <2>4. wire \in Wires
    BY <1>4, NoBodyIsBody, Typed DEF Wires
  <2>5. req' = [req EXCEPT !.todo = From(k + m, n), !.buffer = <<>>, !.overflowed = TRUE, !.wire = wire]
    <3> HIDE DEF wire
    <3> QED
      BY <1>4, <2>1, <2>3
  <2> HIDE DEF wire
  <2>6. /\ req' \in Requests /\ req'.todo = From(k + m, n) /\ req'.buffer = <<>> /\ req'.overflowed /\ req'.wire = wire
        /\ req'.at = req.at /\ req'.status = req.status /\ req'.body = req.body /\ req'.ifNoneMatch = req.ifNoneMatch
    BY <1>4, <2>4, <2>5, RequestSends DEF TypeInv
  <2>7. TypeInv'
    BY <1>1, <2>6 DEF TypeInv
  <2>8. Streaming'
    BY <1>4, <2>6 DEF Streaming, n, wire
  <2>9. ReqInv'
    BY <1>1, <2>6, <2>8 DEF ReqInv
  <2> QED
    BY <1>1, <2>7, <2>9 DEF WalkInv, CopyInv, Met, There, Wanted
<1> QED
  BY <1>5, <1>6

\* When the handler has returned, all of its response is held back or has gone out.
LEMMA ConditionalKeeps == ASSUME Inv, Conditional PROVE Inv'
<1> USE DEF Inv
<1> DEFINE n == Units(req.body)
           tag == Compute(req.body)
           wire == IF req.overflowed \/ req.gone THEN req.wire
                   ELSE IF req.status # 200 THEN [status |-> req.status, tag |-> NoTag, sent |-> req.buffer]
                   ELSE IF Matches(req.ifNoneMatch, tag) THEN [status |-> 304, tag |-> tag, sent |-> <<>>]
                   ELSE [status |-> 200, tag |-> tag, sent |-> req.buffer]
<1>1. /\ req.at = "write" /\ req.todo = <<>> /\ UNCHANGED <<content, query, walk, copy>>
      /\ req' = [req EXCEPT !.at = "sent", !.wire = wire, !.buffer = <<>>]
  BY DEF Conditional
<1>2. n \in Nat /\ tag \in Tags
  BY NoBodyIsBody, Typed
<1>3. PICK k \in 0..n :
        /\ req.todo = From(k, n)
        /\ ~req.overflowed => req.buffer = UpTo(k) /\ req.wire = Unsent
        /\ req.overflowed => req.buffer = <<>> /\ req.wire = [status |-> req.status, tag |-> NoTag, sent |-> UpTo(k)]
  BY <1>1 DEF ReqInv, Streaming
<1>4. k = n
  BY <1>1, <1>2, <1>3, StreamParts
<1>5. req.buffer \in Seq(Nat) /\ <<>> \in Seq(Nat) /\ req.status \in Answers /\ req.wire \in Wires
  <2>1. req.status \in Open /\ req.status # 0
    BY <1>1, Typed DEF ReqInv
  <2> QED
    BY <2>1, Typed DEF Open
<1> HIDE DEF n, tag
<1>6. \/ (req.overflowed \/ req.gone) /\ wire = req.wire
      \/ ~req.overflowed /\ req.status # 200 /\ wire = [status |-> req.status, tag |-> NoTag, sent |-> req.buffer]
      \/ ~req.overflowed /\ req.status = 200 /\ tag \in req.ifNoneMatch /\ wire = [status |-> 304, tag |-> tag, sent |-> <<>>]
      \/ ~req.overflowed /\ req.status = 200 /\ wire = [status |-> 200, tag |-> tag, sent |-> req.buffer]
  BY DEF Matches
<1>7. wire \in Wires
  BY <1>2, <1>5, <1>6, NoBodyIsBody, AnswersAreOpen DEF Wires
<1>8. ~req.gone =>
        \/ /\ wire.status = req.status /\ wire.sent = UpTo(n)
           /\ wire.tag # NoTag => req.status = 200 /\ ~req.overflowed /\ wire.tag = tag
        \/ /\ wire.status = 304 /\ wire.sent = <<>> /\ req.status = 200 /\ ~req.overflowed
           /\ wire.tag = tag /\ tag \in req.ifNoneMatch
  BY <1>3, <1>4, <1>6
<1> HIDE DEF wire
<1>9. /\ req' \in Requests /\ req'.at = "sent" /\ req'.wire = wire
      /\ req'.ifNoneMatch = req.ifNoneMatch /\ req'.status = req.status /\ req'.body = req.body
      /\ req'.overflowed = req.overflowed /\ req'.gone = req.gone
  <2>1. [req EXCEPT !.at = "sent", !.wire = wire, !.buffer = <<>>] \in Requests
    BY <1>5, <1>7 DEF TypeInv, Requests
  <2>2. req'.at = "sent" /\ req'.wire = wire
    BY <1>1 DEF TypeInv, Requests
  <2>3. req'.ifNoneMatch = req.ifNoneMatch /\ req'.status = req.status /\ req'.body = req.body
    BY <1>1 DEF TypeInv, Requests
  <2>4. req'.overflowed = req.overflowed /\ req'.gone = req.gone
    BY <1>1 DEF TypeInv, Requests
  <2> QED
    BY <1>1, <2>1, <2>2, <2>3, <2>4
<1>10. TypeInv'
  BY <1>1, <1>9 DEF TypeInv
<1>11. ~req.gone => Answered'
  BY <1>8, <1>9 DEF Answered, n, tag
<1>12. ReqInv'
  BY <1>1, <1>9, <1>11 DEF ReqInv
<1> QED
  BY <1>1, <1>10, <1>12 DEF WalkInv, CopyInv, Met, There, Wanted

LEMMA HangUpKeeps == ASSUME Inv, HangUp PROVE Inv'
<1> USE DEF Inv
<1>1. req' = [req EXCEPT !.gone = TRUE] /\ UNCHANGED <<content, query, walk, copy>>
  BY DEF HangUp
<1>2. [req EXCEPT !.gone = TRUE] \in Requests
  BY DEF TypeInv, Requests
<1>3. /\ req'.at = req.at /\ req'.ifNoneMatch = req.ifNoneMatch /\ req'.status = req.status /\ req'.body = req.body
      /\ req'.todo = req.todo /\ req'.buffer = req.buffer /\ req'.wire = req.wire
  BY <1>1 DEF TypeInv, Requests
<1>4. req'.overflowed = req.overflowed /\ req'.gone
  BY <1>1 DEF TypeInv, Requests
<1>5. TypeInv'
  BY <1>1, <1>2 DEF TypeInv
<1>6. Streaming => Streaming'
  BY <1>3, <1>4 DEF Streaming
<1>7. ReqInv'
  BY <1>1, <1>3, <1>4, <1>6 DEF ReqInv
<1> QED
  BY <1>1, <1>5, <1>7 DEF WalkInv, CopyInv, Met, There, Wanted

LEMMA WalkAgainKeeps == ASSUME Inv, WalkAgain PROVE Inv'
<1> USE DEF Inv
<1>1. walk.at # "walking" /\ walk' = Fresh /\ UNCHANGED <<content, query, copy, req>>
  BY DEF WalkAgain
<1>2. req.at = "idle"
  BY <1>1 DEF ReqInv, TypeInv
<1>3. Fresh \in Walks
  <2>1. There \in SUBSET Keys
    BY DEF TypeInv, There, Wanted, NoFilter
  <2>2. <<>> \in Seq(Keys)
    OBVIOUS
  <2> QED
    BY <2>1, <2>2 DEF Fresh, Walks
<1>4. TypeInv'
  BY <1>1, <1>3 DEF TypeInv
<1>5. WalkInv'
  <2>1. walk'.seen = <<>> /\ walk'.throughout = There /\ walk'.at = "walking" /\ walk'.after = 0 /\ There' = There
    BY <1>1 DEF Fresh, There, Wanted
  <2>2. \A k \in There : ~(k <= 0)
    <3>1. \A k \in Keys : k \in Nat \ {0}
      BY KeysAreNumbers
    <3> QED
      BY <3>1 DEF TypeInv, There, Wanted, NoFilter
  <2> QED
    BY <2>1, <2>2 DEF WalkInv, Increasing
<1>6. CopyInv' /\ ReqInv'
  BY <1>1, <1>2 DEF CopyInv, ReqInv
<1> QED
  BY <1>4, <1>5, <1>6

LEMMA ChangeKeeps == ASSUME Inv, NEW k \in Keys, Change(k) PROVE Inv'
<1> USE DEF Inv
<1>1. PICK version \in {0, 1, 2} : content' = [content EXCEPT ![k] = version]
  BY DEF Change
<1>2. walk' = [walk EXCEPT !.throughout = {j \in @ : content'[j] # 0}] /\ UNCHANGED <<query, copy, req>>
  BY DEF Change
<1> DEFINE fewer == {j \in walk.throughout : content'[j] # 0}
<1>3. fewer \in SUBSET Keys /\ fewer \in SUBSET walk.throughout
  BY Typed
<1>4. fewer \subseteq There'
  BY <1>2 DEF WalkInv, There, Wanted
<1> HIDE DEF fewer
<1>5. walk' \in Walks /\ walk'.throughout = fewer /\ walk'.at = walk.at /\ walk'.after = walk.after /\ walk'.seen = walk.seen
  <2>1. walk' = [walk EXCEPT !.throughout = fewer]
    BY <1>2 DEF fewer
  <2> QED
    BY <1>3, <2>1 DEF TypeInv, Walks
<1>6. TypeInv'
  BY <1>1, <1>2, <1>5 DEF TypeInv
<1>7. WalkInv'
  BY <1>3, <1>4, <1>5 DEF WalkInv, Met
<1>8. CopyInv'
  BY <1>2 DEF CopyInv
<1>9. ReqInv'
  <2>1. req.at \in {"write", "sent"} /\ req.status = 200 => Follows(req.body, fewer, walk.after)
    BY <1>3, FollowsFewer DEF ReqInv
  <2>2. Streaming' = Streaming /\ Answered' = Answered
    BY <1>2 DEF Streaming, Answered
  <2> QED
    BY <1>2, <1>5, <2>1, <2>2 DEF ReqInv
<1> QED
  BY <1>6, <1>7, <1>8, <1>9

\* A response stands for the body the server made, also when it says that nothing changed.
LEMMA ReceivedIsSent ==
  ASSUME Inv, req.at = "sent", ~req.gone, req.wire.status \notin {400, 502}
  PROVE  /\ Received = req.body /\ Received \in Bodies /\ Follows(Received, walk.throughout, walk.after)
         /\ req.wire.tag # NoTag => req.wire.tag = Compute(Received)
<1> USE DEF Inv
<1>1. Answered /\ req.status \in Open /\ req.status # 0 /\ req.body \in Bodies
  BY Typed DEF ReqInv
<1>2. req.status = 200 /\ (req.wire.tag # NoTag => req.wire.tag = Compute(req.body))
  BY <1>1 DEF Answered, Open, Answers
<1>3. Received = req.body
  <2>1. CASE req.wire.status = 304
    <3>1. Compute(req.body) \in req.ifNoneMatch
      BY <1>1, <1>2, <2>1 DEF Answered
    <3>2. Compute(req.body) = copy[walk.after].tag /\ copy[walk.after].tag # NoTag
      BY <3>1 DEF ReqInv
    <3>3. copy[walk.after].tag = Compute(copy[walk.after].body)
      BY <3>2, Typed DEF CopyInv
    <3>4. copy[walk.after].body = req.body
      BY <1>1, <3>2, <3>3, Typed, TagTellsBody
    <3> QED
      BY <2>1, <3>4 DEF Received
  <2>2. CASE req.wire.status # 304
    BY <2>2 DEF Received
  <2> QED
    BY <2>1, <2>2
<1>4. Follows(req.body, walk.throughout, walk.after)
  BY <1>2 DEF ReqInv
<1> QED
  BY <1>1, <1>2, <1>3, <1>4

\* What a page adds to what the client has met keeps it in order, and complete up to the
\* new cursor.
LEMMA WalkGoesOn ==
  ASSUME Inv, walk.at = "walking", NEW page \in Bodies, Follows(page, walk.throughout, walk.after),
         walk' = [walk EXCEPT !.seen = @ \o [i \in DOMAIN page.items |-> page.items[i].id],
                              !.after = page.next, !.at = IF page.next = 0 THEN "complete" ELSE @],
         UNCHANGED <<content, query>>
  PROVE  walk' \in Walks /\ WalkInv'
<1> USE DEF Inv
<1> DEFINE ids == [i \in DOMAIN page.items |-> page.items[i].id]
           old == walk.seen
           new == old \o ids
<1>1. /\ page.items \in Seq(Scopes) /\ page.next \in Keys \cup {0}
      /\ DOMAIN page.items = 1..Len(page.items) /\ Len(page.items) \in Nat
      /\ \A i \in 1..Len(page.items) : page.items[i] \in Scopes
  BY DEF Bodies
<1>2. \A i \in 1..Len(page.items) : page.items[i].id \in Keys
  BY <1>1 DEF Scopes
<1>3. ids \in Seq(Keys) /\ Len(ids) = Len(page.items) /\ \A i \in 1..Len(ids) : ids[i] = page.items[i].id
  BY <1>1, <1>2
<1>4. old \in Seq(Keys) /\ Len(old) \in Nat /\ DOMAIN old = 1..Len(old)
  BY Typed
<1>5. walk' = [walk EXCEPT !.seen = new, !.after = page.next, !.at = IF page.next = 0 THEN "complete" ELSE "walking"]
  OBVIOUS
<1> HIDE DEF ids, old
<1>6. /\ new \in Seq(Keys) /\ DOMAIN new = 1..(Len(old) + Len(ids))
      /\ \A i \in 1..Len(old) : new[i] = old[i]
      /\ \A i \in 1..Len(ids) : new[Len(old) + i] = ids[i]
  <2>0. old \in Seq(Keys) /\ ids \in Seq(Keys)
    BY <1>3, <1>4
  <2>1. /\ new \in Seq(Keys) /\ Len(new) = Len(old) + Len(ids)
        /\ \A i \in 1..(Len(old) + Len(ids)) : new[i] = IF i <= Len(old) THEN old[i] ELSE ids[i - Len(old)]
    BY <2>0, ConcatProperties
  <2>2. Len(ids) \in Nat
    BY <1>3
  <2> HIDE DEF new
  <2>3. \A i \in 1..Len(old) : new[i] = old[i]
    BY <1>4, <2>1, <2>2
  <2>4. \A i \in 1..Len(ids) : new[Len(old) + i] = ids[i]
    <3> SUFFICES ASSUME NEW i \in 1..Len(ids) PROVE new[Len(old) + i] = ids[i]
      OBVIOUS
    <3>1. Len(old) + i \in 1..(Len(old) + Len(ids)) /\ ~(Len(old) + i <= Len(old)) /\ Len(old) + i - Len(old) = i
      BY <1>4, <2>2
    <3> QED
      BY <2>1, <3>1
  <2> QED
    BY <2>1, <2>3, <2>4
<1> HIDE DEF new
<1>7. /\ walk' \in Walks /\ walk'.seen = new /\ walk'.after = page.next /\ walk'.throughout = walk.throughout
      /\ walk'.at = IF page.next = 0 THEN "complete" ELSE "walking"
  <2>1. [walk EXCEPT !.seen = new, !.after = page.next, !.at = IF page.next = 0 THEN "complete" ELSE "walking"] \in Walks
    BY <1>1, <1>6 DEF TypeInv, Walks
  <2>2. /\ walk'.seen = new /\ walk'.after = page.next /\ walk'.throughout = walk.throughout
        /\ walk'.at = IF page.next = 0 THEN "complete" ELSE "walking"
    BY <1>5 DEF TypeInv, Walks
  <2> QED
    BY <1>5, <2>1, <2>2
<1>8. \A k \in Keys : k \in Nat
  BY KeysAreNumbers
<1>9. \A i \in 1..Len(old) : old[i] \in Nat /\ old[i] <= walk.after
  <2>1. \A i \in 1..Len(old) : old[i] \in Keys
    BY <1>4
  <2> QED
    BY <1>4, <1>8, <2>1 DEF WalkInv, old
<1>10. \A i \in 1..Len(ids) : ids[i] \in Nat /\ ids[i] > walk.after /\ (page.next # 0 => ids[i] <= page.next)
  BY <1>1, <1>2, <1>3, <1>8 DEF Follows
<1>11. walk.after \in Nat /\ page.next \in Nat /\ (page.next # 0 => page.next > walk.after)
  BY <1>1, <1>8, Typed DEF Follows
<1>12. Increasing(new)
  <2> SUFFICES ASSUME NEW i \in 1..(Len(old) + Len(ids)), NEW j \in 1..(Len(old) + Len(ids)), i < j
               PROVE  new[i] < new[j]
    BY <1>6 DEF Increasing
  <2>0. Len(old) \in Nat /\ Len(ids) \in Nat
    BY <1>3, <1>4
  <2>1. CASE j <= Len(old)
    <3>1. i \in 1..Len(old) /\ j \in 1..Len(old)
      BY <2>0, <2>1
    <3>2. old[i] < old[j]
      BY <1>4, <3>1 DEF WalkInv, Increasing, old
    <3> QED
      BY <1>6, <3>1, <3>2
  <2>2. CASE i <= Len(old) /\ ~(j <= Len(old))
    <3> DEFINE m == j - Len(old)
    <3>1. i \in 1..Len(old) /\ m \in 1..Len(ids) /\ j = Len(old) + m
      BY <2>0, <2>2
    <3> HIDE DEF m
    <3>2. new[i] = old[i] /\ new[j] = ids[m]
      BY <1>6, <3>1
    <3>3. old[i] \in Nat /\ old[i] <= walk.after /\ ids[m] \in Nat /\ ids[m] > walk.after
      BY <1>9, <1>10, <3>1
    <3> QED
      BY <1>11, <3>2, <3>3
  <2>3. CASE ~(i <= Len(old))
    <3> DEFINE l == i - Len(old)
               m == j - Len(old)
    <3>1. l \in 1..Len(ids) /\ m \in 1..Len(ids) /\ l < m /\ i = Len(old) + l /\ j = Len(old) + m
      BY <2>0, <2>3
    <3> HIDE DEF l, m
    <3>2. ids[l] < ids[m]
      BY <1>1, <1>3, <3>1 DEF Follows, Sorted
    <3> QED
      BY <1>6, <3>1, <3>2
  <2> QED
    BY <2>1, <2>2, <2>3
<1>13. ASSUME page.next # 0, NEW i \in DOMAIN new PROVE new[i] <= page.next
  <2>0. Len(old) \in Nat /\ Len(ids) \in Nat /\ i \in 1..(Len(old) + Len(ids))
    BY <1>3, <1>4, <1>6
  <2>1. CASE i <= Len(old)
    <3>1. i \in 1..Len(old)
      BY <2>0, <2>1
    <3> QED
      BY <1>6, <1>9, <1>11, <1>13, <3>1
  <2>2. CASE ~(i <= Len(old))
    <3> DEFINE m == i - Len(old)
    <3>1. m \in 1..Len(ids) /\ i = Len(old) + m
      BY <2>0, <2>2
    <3> HIDE DEF m
    <3> QED
      BY <1>6, <1>10, <1>13, <3>1
  <2> QED
    BY <2>1, <2>2
<1>14. ASSUME NEW k \in walk.throughout, page.next = 0 \/ k <= page.next PROVE \E i \in DOMAIN new : new[i] = k
  <2>0. k \in Nat /\ Len(old) \in Nat /\ Len(ids) \in Nat
    BY <1>3, <1>4, <1>8, Typed
  <2>1. CASE k <= walk.after
    <3>1. PICK i \in 1..Len(old) : old[i] = k
      BY <1>4, <2>1 DEF WalkInv, Met, old
    <3>2. i \in DOMAIN new /\ new[i] = k
      BY <1>6, <2>0, <3>1
    <3> QED
      BY <3>2
  <2>2. CASE ~(k <= walk.after)
    <3>1. k > walk.after
      BY <1>11, <2>0, <2>2
    <3>2. PICK m \in 1..Len(ids) : ids[m] = k
      BY <1>1, <1>3, <1>14, <3>1 DEF Follows, Holds
    <3>3. Len(old) + m \in DOMAIN new /\ new[Len(old) + m] = k
      BY <1>6, <2>0, <3>2
    <3> QED
      BY <3>3
  <2> QED
    BY <2>1, <2>2
<1>15. There' = There
  BY DEF There, Wanted
<1>16. walk.throughout \subseteq There'
  BY <1>15 DEF WalkInv
<1>17. WalkInv'
  <2>1. page.next # 0 => \A i \in DOMAIN new : new[i] <= page.next
    BY <1>13
  <2>2. \A k \in walk.throughout : page.next = 0 \/ k <= page.next => Met(k)'
    BY <1>7, <1>14 DEF Met
  <2>3. Increasing(walk'.seen) /\ walk'.throughout \subseteq There'
    BY <1>7, <1>12, <1>16
  <2>4. walk'.at = "walking" =>
          /\ \A i \in DOMAIN walk'.seen : walk'.seen[i] <= walk'.after
          /\ \A k \in walk'.throughout : k <= walk'.after => Met(k)'
    BY <1>7, <2>1, <2>2
  <2>5. walk'.at = "complete" => \A k \in walk'.throughout : Met(k)'
    BY <1>7, <2>2
  <2> QED
    BY <2>3, <2>4, <2>5 DEF WalkInv
<1> QED
  BY <1>7, <1>17

LEMMA ReceiveKeeps == ASSUME Inv, Receive PROVE Inv'
<1> USE DEF Inv
<1>1. req.at = "sent" /\ req' = NoRequest /\ UNCHANGED <<content, left, query>> /\ walk.at = "walking"
  BY DEF Receive, ReqInv
<1>2. req' \in Requests /\ ReqInv'
  <2>1. NoRequest \in Requests
    BY RequestIsMade
  <2>2. req'.at = "idle"
    BY <1>1 DEF NoRequest
  <2> QED
    BY <1>1, <2>1, <2>2 DEF ReqInv
<1>3. CASE req.gone
  <2>1. UNCHANGED <<walk, copy>>
    BY <1>3 DEF Receive
  <2> QED
    BY <1>1, <1>2, <2>1 DEF TypeInv, WalkInv, CopyInv, Met, There, Wanted
<1>4. CASE ~req.gone /\ req.wire.status \in {400, 502}
  <2>1. walk' = [walk EXCEPT !.at = "failed"] /\ UNCHANGED copy
    BY <1>4 DEF Receive
  <2>2. /\ walk' \in Walks /\ walk'.at = "failed" /\ walk'.seen = walk.seen /\ walk'.throughout = walk.throughout
    BY <2>1 DEF TypeInv, Walks
  <2> QED
    BY <1>1, <1>2, <2>1, <2>2 DEF TypeInv, WalkInv, CopyInv, Met, There, Wanted
<1>5. CASE ~req.gone /\ req.wire.status \notin {400, 502}
  <2>1. /\ walk' = [walk EXCEPT !.seen = @ \o [i \in DOMAIN Received.items |-> Received.items[i].id],
                                !.after = Received.next, !.at = IF Received.next = 0 THEN "complete" ELSE @]
        /\ copy' = [copy EXCEPT ![walk.after] = [tag |-> req.wire.tag, body |-> Received]]
    BY <1>5 DEF Receive
  <2> DEFINE page == Received
  <2>2. /\ page \in Bodies /\ Follows(page, walk.throughout, walk.after)
        /\ req.wire.tag # NoTag => req.wire.tag = Compute(page)
    BY <1>1, <1>5, ReceivedIsSent
  <2>3. /\ walk' = [walk EXCEPT !.seen = @ \o [i \in DOMAIN page.items |-> page.items[i].id],
                                !.after = page.next, !.at = IF page.next = 0 THEN "complete" ELSE @]
        /\ copy' = [copy EXCEPT ![walk.after] = [tag |-> req.wire.tag, body |-> page]]
    BY <2>1
  <2> HIDE DEF page
  <2>4. walk' \in Walks /\ WalkInv'
    BY <1>1, <2>2, <2>3, WalkGoesOn
  <2>5. [tag |-> req.wire.tag, body |-> page] \in Copies /\ walk.after \in Keys \cup {0}
    BY <2>2, Typed DEF Copies, Wires
  <2>6. TypeInv'
    BY <1>1, <1>2, <2>3, <2>4, <2>5 DEF TypeInv
  <2>7. CopyInv'
    BY <2>2, <2>3, <2>5 DEF CopyInv, TypeInv
  <2> QED
    BY <1>2, <2>4, <2>6, <2>7
<1> QED
  BY <1>3, <1>4, <1>5

LEMMA InitInv == ASSUME Init PROVE Inv
<1>1. content \in [Keys -> {0, 1}] /\ query \in [size : AskedSizes, filter : Keys \cup {NoFilter}]
  BY DEF Init
<1>2. query.size \in Int /\ query.filter \in Keys \cup {0}
  BY <1>1, PageAssumption DEF NoFilter
<1>3. walk = Fresh /\ Fresh \in Walks
  <2>1. There \in SUBSET Keys
    BY <1>2 DEF There, Wanted, NoFilter
  <2>2. <<>> \in Seq(Keys)
    OBVIOUS
  <2> QED
    BY <2>1, <2>2 DEF Fresh, Walks, Init
<1>4. copy \in [Keys \cup {0} -> Copies] /\ CopyInv
  <2>1. [tag |-> NoTag, body |-> NoBody] \in Copies
    BY NoBodyIsBody DEF Copies
  <2> QED
    BY <2>1 DEF Init, CopyInv
<1>5. req \in Requests /\ ReqInv
  BY RequestIsMade DEF Init, NoRequest, ReqInv
<1>6. WalkInv
  <2>1. walk.seen = <<>> /\ walk.throughout = There /\ walk.at = "walking" /\ walk.after = 0
    BY <1>3 DEF Fresh
  <2>2. \A k \in There : ~(k <= 0)
    <3>1. \A k \in Keys : k \in Nat \ {0}
      BY KeysAreNumbers
    <3> QED
      BY <1>2, <3>1 DEF There, Wanted, NoFilter
  <2> QED
    BY <2>1, <2>2 DEF WalkInv, Increasing
<1> QED
  BY <1>1, <1>2, <1>3, <1>4, <1>5, <1>6 DEF Inv, TypeInv

\* The inductive invariant of a walk.
THEOREM Invariance == Spec => []Inv
<1>1. Init => Inv
  BY InitInv
<1>2. Inv /\ [Next]_vars => Inv'
  <2> SUFFICES ASSUME Inv, [Next]_vars PROVE Inv'
    OBVIOUS
  <2>1. CASE UNCHANGED vars
    BY <2>1 DEF vars, Inv, TypeInv, WalkInv, CopyInv, ReqInv, Streaming, Answered, Met, There, Wanted
  <2>2. CASE \E n \in 1..(Cardinality(Keys) + 1) : Write(n)
    <3>1. Cardinality(Keys) \in Nat
      BY KeysAreNumbers, FS_CardinalityType
    <3>2. PICK n \in Nat : Write(n)
      BY <2>2, <3>1
    <3> QED
      BY <3>2, WriteKeeps
  <2> QED
    BY <2>1, <2>2, AskKeeps, ListKeeps, ConditionalKeeps, HangUpKeeps, ReceiveKeeps, WalkAgainKeeps, ChangeKeeps
       DEF Next
<1> QED
  BY <1>1, <1>2, PTL DEF Spec

-----------------------------------------------------------------------------
(* The theorems.                                                            *)

\* For every collection, page size and buffer, and whatever is created and deleted between
\* two pages: a walk that is complete has met what was there throughout, and nothing twice
\* (pagination.Slice).
THEOREM WalkAlwaysComplete == Spec => []WalkIsComplete
<1>1. Inv => WalkIsComplete
  BY DEF Inv, WalkInv, Increasing, Met, WalkIsComplete
<1> QED
  BY <1>1, Invariance, PTL

\* In however many pieces a response is written, and whether or not it fits the buffer, it
\* reaches its caller whole and in order, and is tagged only if it was held back whole
\* (Conditional, captureWriter.Write).
THEOREM ResponseAlwaysWhole == Spec => []ResponseIsWhole
<1>1. ASSUME Inv, req.at = "sent", ~req.gone
      PROVE  /\ req.wire.sent = IF req.wire.status = 304 THEN <<>> ELSE [i \in 1..Units(req.body) |-> i]
             /\ req.wire.tag # NoTag => req.status = 200 /\ req.wire.status \in {200, 304} /\ ~req.overflowed
  <2>1. Answered /\ req.status \in {0, 200, 400, 502}
    BY <1>1, Typed DEF Inv, ReqInv, Open, Answers
  <2> QED
    BY <2>1 DEF Answered, UpTo
<1>2. Inv => ResponseIsWhole
  BY <1>1 DEF ResponseIsWhole
<1> QED
  BY <1>2, Invariance, PTL

\* Whenever nothing is sent, what the client has is what it would have been sent, to the
\* last attribute, the cursor and the total (Compute, Matches).
THEOREM NotModifiedAlwaysTrue == Spec => []NotModifiedIsTrue
<1>1. ASSUME Inv, req.at = "sent", req.wire.status = 304, ~req.gone PROVE copy[walk.after].body = req.body
  BY <1>1, ReceivedIsSent DEF Received
<1>2. Inv => NotModifiedIsTrue
  BY <1>1 DEF NotModifiedIsTrue
<1> QED
  BY <1>2, Invariance, PTL
=============================================================================

---------------------------- MODULE SagaListProofs ----------------------------
(***************************************************************************)
(* Lists and walks through their pages, for any number of sagas, clocks    *)
(* that differ as they like, and every limit, offset and width of integer. *)
(***************************************************************************)
EXTENDS SagaList, FiniteSetTheorems, TLAPS

\* A saga as either store lists it.
ListedSaga == [id : Ids, created : Nat, updated : Nat, status : Statuses, members : Contexts]

\* A set of sagas that a store can hold.
Stored(S) ==
    /\ S \subseteq ListedSaga
    /\ IsFiniteSet(S)
    /\ \A s, t \in S : s.id = t.id => s = t

\* How many sagas of the set come before s in the list.
Earlier(S, s) == {t \in S : before(t, s)}
rank(S, s) == Cardinality(Earlier(S, s))

-----------------------------------------------------------------------------
(* The order of the list *)

\* The comparison is a strict order, and ids break every tie.
LEMMA BeforeIsOrder ==
    ASSUME NEW s \in ListedSaga, NEW t \in ListedSaga, NEW u \in ListedSaga
    PROVE  /\ ~before(s, s)
           /\ before(s, t) /\ before(t, u) => before(s, u)
           /\ s.id # t.id => before(s, t) \/ before(t, s)
<1>1. \A x \in {s, t, u} : x.id \in Nat /\ x.created \in Nat
  BY ListAssumption DEF ListedSaga
<1> QED BY <1>1 DEF before

\* Ranks are places: below the number of sagas, and they grow along the list.
LEMMA RankBounds ==
    ASSUME NEW S, Stored(S), NEW s \in S
    PROVE  /\ rank(S, s) \in Nat /\ rank(S, s) < Cardinality(S)
           /\ \A t \in S : before(s, t) => rank(S, s) < rank(S, t)
<1>1. /\ IsFiniteSet(S) /\ s \in ListedSaga /\ \A t \in S : t \in ListedSaga
  BY DEF Stored
<1>2. ASSUME NEW T \in SUBSET S, NEW U \in SUBSET T, NEW x \in T, x \notin U
      PROVE  /\ Cardinality(U) \in Nat /\ Cardinality(T) \in Nat
             /\ Cardinality(U) < Cardinality(T)
  <2>1. IsFiniteSet(T)
    BY <1>1, FS_Subset
  <2>2. IsFiniteSet(U) /\ Cardinality(U) <= Cardinality(T) /\ Cardinality(U) # Cardinality(T)
    BY <1>2, <2>1, FS_Subset
  <2>3. Cardinality(U) \in Nat /\ Cardinality(T) \in Nat
    BY <2>1, <2>2, FS_CardinalityType
  <2> QED BY <2>2, <2>3
<1>3. Earlier(S, s) \in SUBSET S /\ s \notin Earlier(S, s)
  BY <1>1, BeforeIsOrder DEF Earlier
<1>4. rank(S, s) \in Nat /\ rank(S, s) < Cardinality(S)
  BY <1>2, <1>3 DEF rank
<1>5. ASSUME NEW t \in S, before(s, t) PROVE rank(S, s) < rank(S, t)
  <2>1. Earlier(S, s) \in SUBSET Earlier(S, t) /\ s \in Earlier(S, t)
    BY <1>1, <1>5, BeforeIsOrder DEF Earlier
  <2>2. Earlier(S, t) \in SUBSET S
    BY DEF Earlier
  <2> QED BY <1>2, <1>3, <2>1, <2>2 DEF rank
<1> QED BY <1>4, <1>5

\* The places of the sagas are all the places there are, each taken once.
LEMMA RankIsBijection ==
    ASSUME NEW S, Stored(S)
    PROVE  /\ Cardinality(S) \in Nat
           /\ \A s, t \in S : rank(S, s) = rank(S, t) => s = t
           /\ \A k \in 1..Cardinality(S) : \E s \in S : rank(S, s) = k - 1
<1> DEFINE n == Cardinality(S)
           place == [s \in S |-> rank(S, s) + 1]
<1>1. n \in Nat
  BY FS_CardinalityType DEF Stored
<1>2. ASSUME NEW s \in S, NEW t \in S, rank(S, s) = rank(S, t) PROVE s = t
  <2>1. s \in ListedSaga /\ t \in ListedSaga
    BY DEF Stored
  <2>2. ~before(s, t) /\ ~before(t, s)
    BY <1>2, RankBounds
  <2> QED BY <2>1, <2>2, BeforeIsOrder DEF Stored
<1>3. \A s \in S : rank(S, s) \in Nat /\ rank(S, s) < n
  BY RankBounds
<1>4. place \in [S -> 1..n]
  BY <1>1, <1>3
<1>5. \A s, t \in S : place[s] = place[t] => s = t
  BY <1>2, <1>3
<1>6. place \in Injection(S, 1..n)
  BY <1>4, <1>5 DEF Injection, IsInjective
<1>7. IsFiniteSet(1..n) /\ Cardinality(1..n) = n
  BY <1>1, FS_Interval
<1>8. place \in Surjection(S, 1..n)
  BY <1>6, <1>7, FS_Injection
<1>9. \A k \in 1..n : \E s \in S : place[s] = k
  BY <1>8 DEF Surjection
<1>10. \A k \in 1..n : \E s \in S : rank(S, s) = k - 1
  BY <1>3, <1>9
<1> QED BY <1>1, <1>2, <1>10

\* What sorted chooses exists: the saga of each place.
LEMMA SortedIsList ==
    ASSUME NEW S, Stored(S)
    PROVE  /\ sorted(S) \in [1..Cardinality(S) -> S]
           /\ \A j, k \in 1..Cardinality(S) : j < k => before(sorted(S)[j], sorted(S)[k])
<1> DEFINE n == Cardinality(S)
           list == [k \in 1..n |-> CHOOSE s \in S : rank(S, s) = k - 1]
<1>1. \A k \in 1..n : list[k] \in S /\ rank(S, list[k]) = k - 1
  BY RankIsBijection
<1>2. ASSUME NEW j \in 1..n, NEW k \in 1..n, j < k PROVE before(list[j], list[k])
  <2>1. list[j] \in S /\ list[k] \in S /\ rank(S, list[j]) < rank(S, list[k])
    BY <1>1, <1>2, RankIsBijection
  <2>2. ~before(list[k], list[j]) /\ list[j] # list[k]
    <3> HIDE DEF list
    <3> QED BY <2>1, RankBounds
  <2>3. list[j] \in ListedSaga /\ list[k] \in ListedSaga /\ list[j].id # list[k].id
    BY <2>1, <2>2 DEF Stored
  <2> QED BY <2>2, <2>3, BeforeIsOrder
<1>3. list \in [1..n -> S]
  BY <1>1
<1>4. \E l \in [1..n -> S] : \A j, k \in DOMAIN l : j < k => before(l[j], l[k])
  <2>1. DOMAIN list = 1..n
    OBVIOUS
  <2> HIDE DEF list
  <2> QED BY <1>2, <1>3, <2>1
<1>5. /\ sorted(S) \in [1..n -> S]
      /\ \A j, k \in DOMAIN sorted(S) : j < k => before(sorted(S)[j], sorted(S)[k])
  BY <1>4 DEF sorted
<1> QED BY <1>5

\* And the saga at a place of the sorted list is the one with that rank: there
\* is only one such list.
LEMMA PlaceIsRank ==
    ASSUME NEW S, Stored(S), NEW k \in 1..Cardinality(S)
    PROVE  rank(S, sorted(S)[k]) = k - 1
<1> DEFINE n == Cardinality(S)
           list == sorted(S)
           s == list[k]
           head == [j \in 1..(k - 1) |-> list[j]]
<1>1. n \in Nat /\ k \in 1..n
  BY RankIsBijection
<1>2. list \in [1..n -> S] /\ \A i, j \in 1..n : i < j => before(list[i], list[j])
  BY SortedIsList
<1> HIDE DEF list, n
<1>3. \A i, j \in 1..n : list[i] = list[j] => i = j
  <2>1. \A i \in 1..n : list[i] \in ListedSaga /\ ~before(list[i], list[i])
    BY <1>2, BeforeIsOrder DEF Stored
  <2> QED BY <1>1, <1>2, <2>1
<1>4. \A t \in S : \E j \in 1..n : list[j] = t
  <2>1. list \in Injection(1..n, S)
    BY <1>2, <1>3 DEF Injection, IsInjective
  <2>2. IsFiniteSet(S) /\ Cardinality(1..n) = Cardinality(S)
    BY <1>1, FS_Interval DEF Stored, n
  <2>3. list \in Surjection(1..n, S)
    BY <2>1, <2>2, FS_Injection
  <2> QED BY <2>3 DEF Surjection
<1>5. s \in S /\ s \in ListedSaga /\ \A j \in 1..n : list[j] \in ListedSaga
  BY <1>1, <1>2 DEF Stored
<1>6. ASSUME NEW j \in 1..n PROVE before(list[j], s) <=> j < k
  <2>1. CASE j < k
    BY <1>1, <1>2, <2>1
  <2>2. CASE j = k
    BY <1>5, <2>2, BeforeIsOrder
  <2>3. CASE k < j
    BY <1>1, <1>2, <1>5, <2>3, BeforeIsOrder
  <2> QED BY <1>1, <2>1, <2>2, <2>3
<1>7. \A j \in 1..(k - 1) : j \in 1..n /\ j < k
  BY <1>1
<1>8. head \in [1..(k - 1) -> Earlier(S, s)]
  BY <1>2, <1>6, <1>7 DEF Earlier
<1>9. \A i, j \in 1..(k - 1) : head[i] = head[j] => i = j
  BY <1>3, <1>7
<1>10. \A t \in Earlier(S, s) : \E j \in 1..(k - 1) : head[j] = t
  <2> SUFFICES ASSUME NEW t \in Earlier(S, s) PROVE \E j \in 1..(k - 1) : head[j] = t
    OBVIOUS
  <2>1. PICK j \in 1..n : list[j] = t
    BY <1>4 DEF Earlier
  <2>2. j \in 1..(k - 1)
    BY <1>1, <1>6, <2>1 DEF Earlier
  <2> QED BY <2>1, <2>2
<1>11. IsFiniteSet(1..(k - 1)) /\ Cardinality(1..(k - 1)) = k - 1
  BY <1>1, FS_Interval
<1> HIDE DEF head
<1>12. head \in Injection(1..(k - 1), Earlier(S, s))
  BY <1>8, <1>9 DEF Injection, IsInjective
<1>13. head \in Surjection(1..(k - 1), Earlier(S, s))
  BY <1>8, <1>10 DEF Surjection
<1>14. Cardinality(Earlier(S, s)) = k - 1
  BY <1>11, <1>12, <1>13, FS_Surjection
<1> QED BY <1>14 DEF rank, list

\* A set whose ids all occur in another has no more members than that.
LEMMA IdsCount ==
    ASSUME NEW A, NEW B, IsFiniteSet(B),
           \A x, y \in A : x.id = y.id => x = y,
           \A x \in A : \E y \in B : y.id = x.id
    PROVE  IsFiniteSet(A) /\ Cardinality(A) <= Cardinality(B)
<1> DEFINE to == [x \in A |-> CHOOSE y \in B : y.id = x.id]
<1>1. \A x \in A : to[x] \in B /\ to[x].id = x.id
  OBVIOUS
<1>2. to \in [A -> B]
  BY <1>1
<1>3. \A x, y \in A : to[x] = to[y] => x = y
  <2> HIDE DEF to
  <2> QED BY <1>1
<1>4. to \in Injection(A, B)
  BY <1>2, <1>3 DEF Injection, IsInjective
<1> QED BY <1>4, FS_Injection

\* Sagas that are added or moved on leave no saga at an earlier place.
LEMMA RankNeverShrinks ==
    ASSUME NEW S, NEW T, Stored(S), Stored(T),
           \A x \in S : \E y \in T : y.id = x.id /\ y.created = x.created,
           NEW s \in S, NEW t \in T, t.id = s.id
    PROVE  rank(S, s) <= rank(T, t)
<1>1. t.created = s.created
  BY DEF Stored
<1>2. \A x \in Earlier(S, s) : \E y \in Earlier(T, t) : y.id = x.id
  BY <1>1 DEF Earlier, before
<1>3. \A x, y \in Earlier(S, s) : x.id = y.id => x = y
  BY DEF Earlier, Stored
<1>4. IsFiniteSet(Earlier(T, t))
  BY FS_Subset DEF Earlier, Stored
<1> QED BY <1>2, <1>3, <1>4, IdsCount DEF rank

\* When a saga and all before it in one list come before another saga of a
\* second list, the other one has the later place.
LEMMA RankGrows ==
    ASSUME NEW S, NEW T, Stored(S), Stored(T), NEW s \in S, NEW t \in T,
           \A x \in S : x = s \/ before(x, s) => \E y \in T : y.id = x.id /\ before(y, t)
    PROVE  rank(S, s) < rank(T, t)
<1> DEFINE A == Earlier(S, s) \cup {s}
<1>1. IsFiniteSet(Earlier(S, s)) /\ IsFiniteSet(Earlier(T, t))
  BY FS_Subset DEF Earlier, Stored
<1>2. s \notin Earlier(S, s)
  BY BeforeIsOrder DEF Earlier, Stored
<1>3. Cardinality(A) = rank(S, s) + 1
  BY <1>1, <1>2, FS_AddElement DEF rank
<1>4. \A x \in A : \E y \in Earlier(T, t) : y.id = x.id
  BY DEF Earlier
<1>5. \A x, y \in A : x.id = y.id => x = y
  BY DEF Earlier, Stored
<1> HIDE DEF A
<1>6. Cardinality(A) <= rank(T, t)
  BY <1>1, <1>4, <1>5, IdsCount DEF rank
<1>7. rank(S, s) \in Nat /\ rank(T, t) \in Nat
  BY RankBounds
<1> QED BY <1>3, <1>6, <1>7

-----------------------------------------------------------------------------
(* Pages *)

\* Where a page ends, and how long it is.
pageEnd(n, limit, offset) == IF offset + limit < n THEN offset + limit ELSE n
pageSize(n, limit, offset) ==
    IF offset < n THEN pageEnd(n, limit, offset) - offset ELSE 0

\* A page is a part of the list, as long as the limit and the list allow.
isPart(p, S, list, n, limit, offset) ==
    /\ Len(list) = n
    /\ p \in Seq(S) /\ Len(p) = pageSize(n, limit, offset)
    /\ \A i \in 1..pageSize(n, limit, offset) : offset + i \in 1..n /\ p[i] = list[offset + i]

LEMMA PageIsPart ==
    ASSUME NEW S, NEW n \in Nat, NEW list \in [1..n -> S],
           NEW limit \in Nat \ {0}, NEW offset \in Nat
    PROVE  isPart(page(list, limit, offset), S, list, n, limit, offset)
<1> DEFINE end == pageEnd(n, limit, offset)
           p == SubSeq(list, offset + 1, end)
<1>1. list \in Seq(S) /\ Len(list) = n
  OBVIOUS
<1>2. end \in Nat /\ end <= n /\ (offset < n <=> offset < end)
  BY DEF pageEnd
<1>3. page(list, limit, offset) = p
  BY <1>1 DEF page, pageEnd
<1> HIDE DEF end
<1>4. /\ p \in Seq(S) /\ Len(p) = IF offset < end THEN end - offset ELSE 0
      /\ \A i \in 1..(end - offset) : p[i] = list[offset + i]
  BY <1>1, <1>2
<1> HIDE DEF p
<1>5. pageSize(n, limit, offset) = IF offset < end THEN end - offset ELSE 0
  BY <1>2 DEF pageSize, end
<1>6. \A i \in 1..pageSize(n, limit, offset) : offset + i \in 1..n /\ p[i] = list[offset + i]
  BY <1>2, <1>4, <1>5
<1> QED BY <1>1, <1>3, <1>4, <1>5, <1>6 DEF isPart

\* It holds the places from the offset on that the limit allows, and only a
\* page past the end is empty.
LEMMA PageHolds ==
    ASSUME NEW S, NEW n \in Nat, NEW list \in [1..n -> S],
           NEW limit \in Nat \ {0}, NEW offset \in Nat
    PROVE  LET p == page(list, limit, offset) IN
           /\ p = <<>> <=> offset >= n
           /\ \A k \in 1..n : offset < k /\ k <= offset + limit => list[k] \in ToSet(p)
           /\ ToSet(p) \subseteq S
<1> DEFINE p == page(list, limit, offset)
           size == pageSize(n, limit, offset)
<1>1. /\ p \in Seq(S) /\ Len(p) = size
      /\ \A i \in 1..size : offset + i \in 1..n /\ p[i] = list[offset + i]
  <2>1. isPart(p, S, list, n, limit, offset)
    BY PageIsPart
  <2> QED BY <2>1 DEF isPart
<1>2. /\ size \in Nat /\ (size = 0 <=> offset >= n)
      /\ \A k \in 1..n : offset < k /\ k <= offset + limit => k - offset \in 1..size
  BY DEF pageSize, pageEnd
<1> HIDE DEF p, size
<1>3. ToSet(p) \subseteq S
  <2>1. \A i \in DOMAIN p : p[i] \in S
    BY <1>1
  <2> QED BY <2>1 DEF ToSet
<1>4. p = <<>> <=> offset >= n
  BY <1>1, <1>2
<1>5. ASSUME NEW k \in 1..n, offset < k, k <= offset + limit PROVE list[k] \in ToSet(p)
  <2>1. k - offset \in 1..size /\ offset + (k - offset) = k
    BY <1>2, <1>5
  <2>2. p[k - offset] = list[k] /\ k - offset \in DOMAIN p
    BY <1>1, <1>2, <2>1
  <2> QED BY <2>2 DEF ToSet
<1> QED BY <1>3, <1>4, <1>5 DEF p

\* The conversion keeps what fits, and makes the next larger numbers negative.
LEMMA Int32Keeps ==
    ASSUME NEW k \in Nat
    PROVE  /\ k <= MaxInt32 => int32(k) = k
           /\ MaxInt32 < k /\ k <= 2 * MaxInt32 + 1 => int32(k) < 0
BY ListAssumption DEF int32

LEMMA LimitFits ==
    ASSUME NEW limit \in Nat
    PROVE  /\ pageLimit(limit) \in Nat \ {0}
           /\ int32(pageLimit(limit)) = pageLimit(limit)
           /\ 0 < limit /\ limit <= maxPageLimit => pageLimit(limit) = limit
<1>1. /\ pageLimit(limit) \in Nat \ {0} /\ pageLimit(limit) <= MaxInt32
      /\ 0 < limit /\ limit <= maxPageLimit => pageLimit(limit) = limit
  BY ListAssumption DEF pageLimit
<1> QED BY <1>1, Int32Keeps, ListAssumption

\* Cutting off the part of a microsecond keeps the order of times, but not
\* whether they differ.
LEMMA PGTimeIsMonotone ==
    ASSUME NEW t \in Nat, NEW u \in Nat
    PROVE  toPGTime(t) \in Nat /\ (t <= u => toPGTime(t) <= toPGTime(u))
<1>1. Microsecond \in Int /\ Microsecond > 0
  BY ListAssumption
<1>2. ASSUME NEW m \in Int, m > 0
      PROVE  t - (t % m) \in Nat /\ (t <= u => t - (t % m) <= u - (u % m))
  BY <1>2, SMT
<1> QED BY <1>1, <1>2 DEF toPGTime

\* What a row keeps of a saga.
LEMMA RowOf ==
    ASSUME NEW s \in Saga
    PROVE  /\ s \in ListedSaga /\ toRow(s) \in ListedSaga
           /\ toRow(s).id = s.id /\ toRow(s).created = toPGTime(s.created)
           /\ toRow(s).members = s.members
<1>1. s.created \in Nat /\ s.updated \in Nat
  BY ListAssumption DEF Saga
<1>2. toPGTime(s.created) \in Nat /\ toPGTime(s.updated) \in Nat
  BY <1>1, PGTimeIsMonotone
<1>3. toRow(s) = [s EXCEPT !.created = toPGTime(s.created), !.updated = toPGTime(s.updated)]
  BY DEF toRow
<1> QED BY <1>1, <1>2, <1>3 DEF Saga, ListedSaga

\* A set of sagas and the set of their rows: a row for every saga.
rowsOf(S) == {toRow(s) : s \in S}

LEMMA RowsAreStored ==
    ASSUME NEW S, S \subseteq Saga, IsFiniteSet(S), \A s, t \in S : s.id = t.id => s = t
    PROVE  /\ Stored(S) /\ Stored(rowsOf(S))
           /\ Cardinality(S) \in Nat /\ Cardinality(rowsOf(S)) = Cardinality(S)
<1> DEFINE R == rowsOf(S)
<1>1. \A r \in R : \E s \in S : s \in Saga /\ r = toRow(s)
  BY DEF rowsOf
<1>2. \A s \in S : s \in Saga /\ toRow(s) \in R
  BY DEF rowsOf
<1> HIDE DEF R
<1>3. R \subseteq ListedSaga /\ S \subseteq ListedSaga
  BY <1>1, <1>2, RowOf
<1>4. \A r, q \in R : r.id = q.id => r = q
  BY <1>1, RowOf
<1>5. IsFiniteSet(R) /\ Cardinality(R) <= Cardinality(S)
  <2>1. \A r \in R : \E s \in S : s.id = r.id
    BY <1>1, RowOf
  <2> QED BY <1>4, <2>1, IdsCount
<1>6. Cardinality(S) <= Cardinality(R)
  <2>1. \A s \in S : \E r \in R : r.id = s.id
    BY <1>2, RowOf
  <2> QED BY <1>5, <2>1, IdsCount
<1>7. Cardinality(S) \in Nat /\ Cardinality(R) \in Nat
  BY <1>5, FS_CardinalityType
<1> QED BY <1>3, <1>4, <1>5, <1>6, <1>7 DEF Stored, R

\* The sagas and the rows that a filter selects.
LEMMA ListsAreStored ==
    ASSUME TypeOK, NEW filter
    PROVE  /\ Stored(matching(filter)) /\ Stored(rows(filter))
           /\ Cardinality(matching(filter)) \in Nat
           /\ Cardinality(rows(filter)) = Cardinality(matching(filter))
<1>1. matching(filter) \in SUBSET sagas
  BY DEF matching
<1>2. /\ matching(filter) \subseteq Saga /\ IsFiniteSet(matching(filter))
      /\ \A s, t \in matching(filter) : s.id = t.id => s = t
  BY <1>1, FS_Subset DEF TypeOK
<1> QED BY <1>2, RowsAreStored DEF rows, rowsOf

-----------------------------------------------------------------------------
(* The walk *)

\* The rows that the walk reads.
AllRows == rowsOf(sagas)

LEMMA AllRowsFacts ==
    ASSUME TypeOK
    PROVE  /\ Stored(AllRows) /\ Cardinality(AllRows) \in Nat
           /\ Cardinality(AllRows) = Cardinality(sagas)
           /\ rows(NoFilter) = AllRows
<1>1. matching(NoFilter) = sagas
  BY DEF matching
<1>2. rows(NoFilter) = AllRows
  BY <1>1 DEF rows, rowsOf, AllRows
<1> QED BY <1>2, RowsAreStored DEF AllRows, TypeOK

\* A walking client has seen, of the sagas that were stored when it began, all
\* whose rows have a place before its offset; and its offset is at most one
\* page too large for an int32.
WalkInv ==
    /\ \A i \in walk.must : \E s \in sagas : s.id = i
    /\ walk.at = "walking" =>
        /\ walk.limit \in Nat /\ 0 < walk.limit /\ walk.limit <= maxPageLimit
        /\ walk.offset <= 2 * MaxInt32
        /\ \A r \in AllRows :
            r.id \in walk.must /\ rank(AllRows, r) < walk.offset => r.id \in walk.seen
    /\ WalkMissesNothing

ListInv == TypeOK /\ WalkInv

LEMMA InitList == Init => ListInv
BY FS_EmptySet, ListAssumption DEF Init, NoWalk, ListInv, TypeOK, WalkInv, WalkMissesNothing

\* A step that leaves the sagas alone leaves the rows alone.
LEMMA SameRows == ASSUME sagas' = sagas PROVE AllRows' = AllRows
BY DEF AllRows

\* Sagas are added and moved on: the client has missed none by that.
LEMMA StoreKeepsWalk ==
    ASSUME ListInv, TypeOK', walk' = walk,
           \A x \in sagas : \E y \in sagas' : y.id = x.id /\ y.created = x.created
    PROVE  ListInv'
<1>1. \A i \in walk.must : \E s \in sagas' : s.id = i
  BY DEF ListInv, WalkInv
<1>2. \A x \in AllRows : \E y \in AllRows' : y.id = x.id /\ y.created = x.created
  <2> SUFFICES ASSUME NEW s \in sagas
               PROVE  \E y \in AllRows' : y.id = toRow(s).id /\ y.created = toRow(s).created
    BY DEF AllRows, rowsOf
  <2>1. PICK u \in sagas' : u.id = s.id /\ u.created = s.created
    OBVIOUS
  <2>2. s \in Saga /\ u \in Saga
    BY DEF ListInv, TypeOK
  <2>3. toRow(u).id = toRow(s).id /\ toRow(u).created = toRow(s).created
    BY <2>1, <2>2, RowOf
  <2>4. toRow(u) \in AllRows'
    BY DEF AllRows, rowsOf
  <2> QED BY <2>3, <2>4
<1>3. Stored(AllRows) /\ Stored(AllRows')
  <2>1. Stored(AllRows)
    BY AllRowsFacts DEF ListInv
  <2>2. sagas' \subseteq Saga /\ IsFiniteSet(sagas') /\ \A s, t \in sagas' : s.id = t.id => s = t
    BY DEF TypeOK
  <2>3. Stored(rowsOf(sagas'))
    BY <2>2, RowsAreStored
  <2> QED BY <2>1, <2>3 DEF AllRows
<1>4. ASSUME walk.at = "walking", NEW t \in AllRows', t.id \in walk.must,
             rank(AllRows', t) < walk.offset
      PROVE  t.id \in walk.seen
  <2>1. PICK s \in AllRows : s.id = t.id
    <3>1. PICK s \in sagas : s.id = t.id
      BY <1>4 DEF ListInv, WalkInv
    <3>2. toRow(s) \in AllRows /\ s \in Saga
      BY DEF ListInv, TypeOK, AllRows, rowsOf
    <3> QED BY <3>1, <3>2, RowOf
  <2>2. rank(AllRows, s) <= rank(AllRows', t)
    BY <1>2, <1>3, <2>1, RankNeverShrinks
  <2>3. rank(AllRows, s) \in Nat /\ rank(AllRows', t) \in Nat /\ walk.offset \in Nat
    BY <1>3, RankBounds DEF ListInv, TypeOK
  <2> QED BY <1>4, <2>1, <2>2, <2>3 DEF ListInv, WalkInv
<1> QED BY <1>1, <1>4 DEF ListInv, WalkInv, WalkMissesNothing, rank, Earlier, before

LEMMA CreateKeepsList ==
    ASSUME ListInv, NEW i \in Ids, NEW t \in Times, NEW members \in Contexts,
           Create(i, t, members)
    PROVE  ListInv'
<1> DEFINE new == [id |-> i, created |-> t, updated |-> t, status |-> "CREATED",
                   members |-> members]
<1>1. new \in Saga /\ new.id = i
  BY ListAssumption DEF Saga
<1>2. sagas' = sagas \cup {new} /\ walk' = walk /\ \A s \in sagas : s.id # i
  BY DEF Create
<1> HIDE DEF new
<1>3. IsFiniteSet(sagas')
  BY <1>2, FS_AddElement DEF ListInv, TypeOK
<1>4. TypeOK'
  BY <1>1, <1>2, <1>3 DEF ListInv, TypeOK
<1> QED BY <1>2, <1>4, StoreKeepsWalk

LEMMA UpdateKeepsList ==
    ASSUME ListInv, NEW s \in sagas, NEW st \in Statuses, NEW t \in Times, Update(s, st, t)
    PROVE  ListInv'
<1> DEFINE new == [s EXCEPT !.status = st, !.updated = t]
<1>1. new \in Saga /\ new.id = s.id /\ new.created = s.created
  BY DEF ListInv, TypeOK, Saga
<1>2. sagas' = (sagas \ {s}) \cup {new} /\ walk' = walk
  BY DEF Update
<1> HIDE DEF new
<1>3. IsFiniteSet(sagas')
  BY <1>2, FS_AddElement, FS_RemoveElement DEF ListInv, TypeOK
<1>4. TypeOK'
  BY <1>1, <1>2, <1>3 DEF ListInv, TypeOK
<1> QED BY <1>1, <1>2, <1>4, StoreKeepsWalk

LEMMA BeginKeepsList ==
    ASSUME ListInv, NEW limit \in Limits, BeginWalk(limit) PROVE ListInv'
<1>1. sagas' = sagas /\ walk' = [at |-> "walking", limit |-> limit, offset |-> 0, seen |-> {},
                                must |-> {s.id : s \in sagas}]
  BY DEF BeginWalk
<1>2. {s.id : s \in sagas} \subseteq Ids
  BY DEF ListInv, TypeOK, Saga
<1>3. TypeOK'
  BY <1>1, <1>2 DEF ListInv, TypeOK
<1>4. limit \in Nat /\ 0 < limit /\ limit <= maxPageLimit
  BY ListAssumption DEF BeginWalk
<1>5. AllRows' = AllRows /\ \A r \in AllRows : rank(AllRows, r) \in Nat
  BY <1>1, SameRows, AllRowsFacts, RankBounds DEF ListInv
<1>6. WalkInv'
  BY <1>1, <1>4, <1>5, ListAssumption DEF WalkInv, WalkMissesNothing
<1> QED BY <1>3, <1>6 DEF ListInv

\* An empty page comes after the last place; another one adds the places that
\* it covers.
LEMMA PageKeepsList == ASSUME ListInv, NextPage PROVE ListInv'
<1> DEFINE got == ListSagas("postgres", NoFilter, walk.limit, walk.offset)
           list == sorted(AllRows)
           n == Cardinality(AllRows)
           answer == page(list, walk.limit, walk.offset)
<1>1. /\ walk.at = "walking" /\ got.ok /\ sagas' = sagas
      /\ walk' = IF got.sagas = <<>> THEN [walk EXCEPT !.at = "done"]
                 ELSE [walk EXCEPT !.offset = @ + walk.limit,
                                   !.seen = @ \cup {s.id : s \in ToSet(got.sagas)}]
  BY DEF NextPage
<1>2. /\ walk.limit \in Nat /\ 0 < walk.limit /\ walk.limit <= maxPageLimit
      /\ walk.offset \in Nat /\ walk.offset <= 2 * MaxInt32 /\ MaxInt32 \in Nat
      /\ walk.limit <= MaxInt32
  BY <1>1, ListAssumption DEF ListInv, WalkInv, TypeOK
<1>3. got = postgresList(NoFilter, walk.limit, walk.offset)
  BY <1>2, LimitFits DEF ListSagas, validPage
<1>4. int32(walk.limit) = walk.limit
  BY <1>2, Int32Keeps
<1>5. walk.offset <= MaxInt32 /\ int32(walk.offset) = walk.offset
  <2>1. ~(int32(walk.offset) < 0)
    BY <1>1, <1>3 DEF postgresList, Refused
  <2> QED BY <1>2, <2>1, Int32Keeps
<1>6. got.sagas = answer
  BY <1>1, <1>3, <1>4, <1>5, AllRowsFacts DEF ListInv, postgresList, Refused, Found
<1>7. Stored(AllRows) /\ n \in Nat /\ list \in [1..n -> AllRows]
  BY AllRowsFacts, SortedIsList DEF ListInv
<1>8. /\ answer = <<>> <=> walk.offset >= n
      /\ \A k \in 1..n : walk.offset < k /\ k <= walk.offset + walk.limit => list[k] \in ToSet(answer)
      /\ ToSet(answer) \subseteq AllRows
  <2> HIDE DEF list, n
  <2>1. walk.limit \in Nat \ {0} /\ walk.offset \in Nat
    BY <1>2
  <2> QED BY <1>7, <2>1, PageHolds, ZenonT(60)
<1>9. ASSUME NEW s \in AllRows PROVE \E k \in 1..n : list[k] = s /\ rank(AllRows, s) = k - 1
  <2>1. PICK k \in 1..n : rank(AllRows, s) = k - 1
    <3>1. rank(AllRows, s) \in Nat /\ rank(AllRows, s) < n
      BY <1>7, RankBounds
    <3>2. rank(AllRows, s) + 1 \in 1..n /\ rank(AllRows, s) = (rank(AllRows, s) + 1) - 1
      BY <1>7, <3>1
    <3> QED BY <3>2
  <2>2. list[k] \in AllRows /\ rank(AllRows, list[k]) = k - 1
    BY <1>7, PlaceIsRank
  <2>3. list[k] = s
    BY <1>7, <2>1, <2>2, RankIsBijection
  <2> QED BY <2>1, <2>3
<1>10. \A i \in walk.must : \E s \in sagas : s.id = i
  BY DEF ListInv, WalkInv
<1>11. \A s \in AllRows : s.id \in walk.must /\ rank(AllRows, s) < walk.offset => s.id \in walk.seen
  BY <1>1 DEF ListInv, WalkInv
<1> HIDE DEF got, list, n, answer
<1>12. CASE answer = <<>>
  <2>1. walk' = [walk EXCEPT !.at = "done"]
    BY <1>1, <1>6, <1>12
  <2>2. walk.must \subseteq walk.seen
    <3> SUFFICES ASSUME NEW i \in walk.must PROVE i \in walk.seen
      OBVIOUS
    <3>1. PICK s \in AllRows : s.id = i
      BY <1>10, RowOf DEF ListInv, TypeOK, AllRows, rowsOf
    <3>2. rank(AllRows, s) < walk.offset
      BY <1>2, <1>7, <1>8, <1>9, <1>12
    <3> QED BY <1>11, <3>1, <3>2
  <2>3. TypeOK'
    BY <1>1, <2>1 DEF ListInv, TypeOK
  <2>4. walk'.at = "done" /\ walk'.must = walk.must /\ walk'.seen = walk.seen
    BY <2>1 DEF ListInv, TypeOK
  <2> QED BY <1>1, <1>10, SameRows, <2>2, <2>3, <2>4 DEF ListInv, WalkInv, WalkMissesNothing
<1>13. CASE answer # <<>>
  <2> DEFINE ids == {s.id : s \in ToSet(answer)}
  <2>1. walk' = [walk EXCEPT !.offset = @ + walk.limit, !.seen = @ \cup ids]
    BY <1>1, <1>6, <1>13
  <2>2. ids \subseteq Ids
    BY <1>7, <1>8 DEF Stored, ListedSaga
  <2>3. \A s \in ToSet(answer) : s.id \in ids
    OBVIOUS
  <2> HIDE DEF ids
  <2>4. TypeOK'
    <3>1. walk.offset + walk.limit \in Nat
      BY <1>2
    <3>2. walk.seen \cup ids \in SUBSET Ids
      BY <2>2 DEF ListInv, TypeOK
    <3>3. walk' \in [at : {"idle", "walking", "done"}, limit : Limits \cup {1}, offset : Nat,
                    seen : SUBSET Ids, must : SUBSET Ids]
      BY <2>1, <3>1, <3>2 DEF ListInv, TypeOK
    <3> QED BY <1>1, <3>3 DEF ListInv, TypeOK
  <2>5. /\ walk'.at = "walking" /\ walk'.must = walk.must /\ walk'.limit = walk.limit
        /\ walk'.offset = walk.offset + walk.limit /\ walk'.seen = walk.seen \cup ids
    BY <1>1, <2>1 DEF ListInv, TypeOK
  <2>6. ASSUME NEW s \in AllRows, s.id \in walk.must, rank(AllRows, s) < walk.offset + walk.limit
        PROVE  s.id \in walk.seen \cup ids
    <3>1. PICK k \in 1..n : list[k] = s /\ rank(AllRows, s) = k - 1
      BY <1>9
    <3>2. CASE k <= walk.offset
      BY <1>2, <1>7, <1>11, <2>6, <3>1, <3>2
    <3>3. CASE walk.offset < k
      <4>1. k <= walk.offset + walk.limit
        BY <1>2, <1>7, <2>6, <3>1
      <4> QED BY <1>8, <2>3, <3>1, <3>3, <4>1
    <3> QED BY <1>2, <1>7, <3>2, <3>3
  <2>7. walk.offset + walk.limit <= 2 * MaxInt32
    BY <1>2, <1>5
  <2> QED BY <1>1, <1>2, <1>10, SameRows, <2>4, <2>5, <2>6, <2>7 DEF ListInv, WalkInv, WalkMissesNothing
<1> QED BY <1>12, <1>13

LEMMA NextList == ListInv /\ [Next]_vars => ListInv'
<1> SUFFICES ASSUME ListInv, [Next]_vars PROVE ListInv'
  OBVIOUS
<1>1. CASE UNCHANGED vars
  BY <1>1, SameRows DEF vars, ListInv, TypeOK, WalkInv, WalkMissesNothing
<1>2. CASE Next
  BY <1>2, CreateKeepsList, UpdateKeepsList, BeginKeepsList, PageKeepsList DEF Next
<1> QED BY <1>1, <1>2

\* Types, and the uniqueness of ids.
THEOREM ListTypeCorrect == Spec => []TypeOK
<1>1. ListInv => TypeOK
  BY DEF ListInv
<1> QED BY <1>1, InitList, NextList, PTL DEF Spec

\* A client that reads page after page misses no saga that was there when it
\* began (List's ORDER BY created_at, id, with LIMIT and OFFSET).
THEOREM NoSagaIsMissed == Spec => []WalkMissesNothing
<1>1. ListInv => WalkMissesNothing
  BY DEF ListInv, WalkInv
<1> QED BY <1>1, InitList, NextList, PTL DEF Spec

-----------------------------------------------------------------------------
(* The two stores *)

\* Every context that a start is accepted with can be read again.  The run
\* `context' is about those that cannot.
ContextsFit ==
    \A members \in Contexts :
        ParseSagaContext(Marshal(members)) => ParseSagaContext(jsonbText(members))

Readable == \A s \in sagas : mapSagaRow(s)

LEMMA InitReadable == Init => Readable
BY DEF Init, Readable

LEMMA NextReadable == ContextsFit /\ ListInv /\ Readable /\ [Next]_vars => Readable'
<1> SUFFICES ASSUME ContextsFit, ListInv, Readable, [Next]_vars PROVE Readable'
  OBVIOUS
<1>1. ASSUME NEW i \in Ids, NEW t \in Times, NEW members \in Contexts, Create(i, t, members)
      PROVE  Readable'
  BY <1>1 DEF Create, Readable, ContextsFit, mapSagaRow
<1>2. ASSUME NEW s \in sagas, NEW st \in Statuses, NEW t \in Times, Update(s, st, t)
      PROVE  Readable'
  <2> DEFINE new == [s EXCEPT !.status = st, !.updated = t]
  <2>1. new.members = s.members
    BY DEF ListInv, TypeOK, Saga
  <2>2. sagas' = (sagas \ {s}) \cup {new}
    BY <1>2 DEF Update
  <2> HIDE DEF new
  <2> QED BY <2>1, <2>2 DEF Readable, mapSagaRow
<1>3. CASE sagas' = sagas
  BY <1>3 DEF Readable
<1> QED BY <1>1, <1>2, <1>3 DEF Next, BeginWalk, NextPage, vars

\* The page that Postgres.List answers with, and the one of Memory.List.
LEMMA PostgresPage ==
    ASSUME TypeOK, NEW filter, NEW limit \in Nat, NEW offset \in Nat
    PROVE  LET p == ListSagas("postgres", filter, limit, offset)
               answer == page(sorted(rows(filter)), pageLimit(limit), offset)
           IN  /\ p.ok /\ offset <= 2 * MaxInt32 + 1 => offset <= MaxInt32 /\ p = Found(answer)
               /\ Readable /\ offset <= MaxInt32 => p = Found(answer)
<1> DEFINE answer == page(sorted(rows(filter)), pageLimit(limit), offset)
           most == pageLimit(limit)
           p == ListSagas("postgres", filter, limit, offset)
<1>1. most \in Nat \ {0} /\ int32(most) = most
  BY LimitFits
<1>2. p = postgresList(filter, most, offset)
  BY DEF ListSagas, validPage
<1>3. /\ offset <= MaxInt32 => int32(offset) = offset
      /\ MaxInt32 < offset /\ offset <= 2 * MaxInt32 + 1 => int32(offset) < 0
  BY Int32Keeps
<1> HIDE DEF most
<1>4. int32(offset) < 0 => ~p.ok
  BY <1>2 DEF postgresList, Refused
<1>5. ASSUME offset <= MaxInt32
      PROVE  p = IF \A s \in ToSet(answer) : mapSagaRow(s) THEN Found(answer) ELSE Refused
  BY <1>1, <1>2, <1>3, <1>5 DEF postgresList, most
<1>6. ASSUME Readable PROVE \A s \in ToSet(answer) : mapSagaRow(s)
  <2>1. /\ Cardinality(rows(filter)) \in Nat
        /\ sorted(rows(filter)) \in [1..Cardinality(rows(filter)) -> rows(filter)]
    BY ListsAreStored, SortedIsList
  <2>2. ToSet(answer) \subseteq rows(filter)
    BY <1>1, <2>1, PageHolds DEF most
  <2>3. ASSUME NEW s \in sagas PROVE mapSagaRow(toRow(s))
    BY <1>6, RowOf DEF TypeOK, Readable, mapSagaRow
  <2> QED BY <2>2, <2>3 DEF rows, matching
<1>7. p.ok /\ offset <= MaxInt32 => p = Found(answer)
  BY <1>5 DEF Refused
<1> HIDE DEF p, answer
<1>8. p.ok /\ offset <= 2 * MaxInt32 + 1 => offset <= MaxInt32 /\ p = Found(answer)
  BY <1>3, <1>4, <1>7, ListAssumption
<1>9. Readable /\ offset <= MaxInt32 => p = Found(answer)
  BY <1>5, <1>6
<1> QED BY <1>8, <1>9 DEF p, answer

LEMMA MemoryPage ==
    ASSUME TypeOK, NEW filter, NEW limit \in Nat, NEW offset \in Nat
    PROVE  ListSagas("memory", filter, limit, offset)
             = Found(page(sorted(matching(filter)), pageLimit(limit), offset))
<1> DEFINE list == sorted(matching(filter))
           n == Cardinality(matching(filter))
           most == pageLimit(limit)
<1>1. most \in Nat \ {0}
  BY LimitFits
<1>2. n \in Nat /\ list \in [1..n -> matching(filter)]
  BY ListsAreStored, SortedIsList
<1>3. ListSagas("memory", filter, limit, offset) = memoryList(filter, most, offset)
  BY DEF ListSagas, validPage
<1>4. Len(list) = n /\ (page(list, most, offset) = <<>> <=> offset >= n)
  <2> HIDE DEF list, n, most
  <2>1. isPart(page(list, most, offset), matching(filter), list, n, most, offset)
    BY <1>1, <1>2, PageIsPart
  <2>2. page(list, most, offset) = <<>> <=> offset >= n
    BY <1>1, <1>2, PageHolds
  <2> QED BY <2>1, <2>2 DEF isPart
<1>5. memoryList(filter, most, offset)
        = IF offset >= Len(list) THEN Found(<<>>) ELSE Found(page(list, most, offset))
  <2>1. ~(most < 0 \/ offset < 0) /\ most >= 0 /\ most > 0
    BY <1>1
  <2> HIDE DEF most
  <2> QED BY <2>1 DEF memoryList
<1> QED BY <1>2, <1>3, <1>4, <1>5

\* The sagas at one place of the two lists were created in one microsecond: if
\* the row's were earlier, it and all rows before it would belong to sagas
\* before the saga of that place; if it were later, that saga and all before it
\* would have rows before the row.
LEMMA PlacesMatch ==
    ASSUME TypeOK, NEW filter, NEW k \in 1..Cardinality(matching(filter))
    PROVE  sorted(rows(filter))[k].created = toPGTime(sorted(matching(filter))[k].created)
<1> DEFINE S == matching(filter)
           R == rows(filter)
           s == sorted(S)[k]
           r == sorted(R)[k]
<1>1. Stored(S) /\ Stored(R) /\ Cardinality(S) \in Nat /\ Cardinality(R) = Cardinality(S)
  BY ListsAreStored
<1>2. \A x \in S : x \in Saga /\ toRow(x) \in R
  BY DEF matching, rows, TypeOK
<1>3. \A x \in R : \E y \in S : x = toRow(y)
  BY DEF rows
<1>4. s \in S /\ r \in R /\ rank(S, s) = k - 1 /\ rank(R, r) = k - 1
  BY <1>1, SortedIsList, PlaceIsRank
<1> HIDE DEF S, R, s, r
<1>5. ~(rank(S, s) < rank(R, r)) /\ ~(rank(R, r) < rank(S, s))
  BY <1>1, <1>4
<1>6. /\ \A x \in S : x.created \in Nat /\ toPGTime(x.created) \in Nat
      /\ r.created \in Nat
  BY <1>1, <1>4, PGTimeIsMonotone DEF Stored, ListedSaga
<1>7. ASSUME r.created < toPGTime(s.created) PROVE FALSE
  <2>1. ASSUME NEW x \in R, x = r \/ before(x, r)
        PROVE  \E y \in S : y.id = x.id /\ before(y, s)
    <3>1. PICK y \in S : x = toRow(y)
      BY <1>3
    <3>2. x.id = y.id /\ x.created = toPGTime(y.created)
      BY <1>2, <3>1, RowOf
    <3>3. x.created <= r.created
      BY <1>6, <2>1, <3>2 DEF before
    <3>4. ~(s.created <= y.created)
      BY <1>4, <1>6, <1>7, <3>2, <3>3, PGTimeIsMonotone
    <3>5. before(y, s)
      BY <1>4, <1>6, <3>4 DEF before
    <3> QED BY <3>2, <3>5
  <2> QED BY <1>1, <1>4, <1>5, <2>1, RankGrows
<1>8. ASSUME toPGTime(s.created) < r.created PROVE FALSE
  <2>1. ASSUME NEW x \in S, x = s \/ before(x, s)
        PROVE  \E y \in R : y.id = x.id /\ before(y, r)
    <3>1. toRow(x) \in R /\ toRow(x).id = x.id /\ toRow(x).created = toPGTime(x.created)
      BY <1>2, RowOf
    <3>2. x.created <= s.created
      BY <1>4, <1>6, <2>1 DEF before
    <3>3. toPGTime(x.created) <= toPGTime(s.created)
      BY <1>4, <1>6, <3>2, PGTimeIsMonotone
    <3>4. before(toRow(x), r)
      BY <1>4, <1>6, <1>8, <3>1, <3>3 DEF before
    <3> QED BY <3>1, <3>4
  <2> QED BY <1>1, <1>4, <1>5, <2>1, RankGrows
<1>9. r.created = toPGTime(s.created)
  BY <1>4, <1>6, <1>7, <1>8
<1> QED BY <1>9 DEF r, s, R, S

LEMMA StoresListAlike == ASSUME TypeOK PROVE PagesMatch
<1> SUFFICES ASSUME NEW filter \in Filters, NEW limit \in Limits, NEW offset \in Offsets,
                    offset <= 2 * MaxInt32 + 1
             PROVE  LET m == ListSagas("memory", filter, limit, offset)
                        p == ListSagas("postgres", filter, limit, offset)
                    IN  /\ p.ok => /\ m.ok
                                   /\ Len(p.sagas) = Len(m.sagas)
                                   /\ \A k \in 1..Len(m.sagas) :
                                        p.sagas[k].created = toPGTime(m.sagas[k].created)
                        /\ m.ok /\ offset <= MaxInt32 /\ (\A s \in sagas : mapSagaRow(s)) => p.ok
  BY DEF PagesMatch
<1>1. limit \in Int /\ offset \in Int
  BY ListAssumption
<1>2. CASE limit < 0 \/ offset < 0
  BY <1>1, <1>2 DEF ListSagas, validPage, Refused
<1>3. CASE limit >= 0 /\ offset >= 0
  <2> DEFINE S == matching(filter)
             R == rows(filter)
             n == Cardinality(S)
             most == pageLimit(limit)
             m == ListSagas("memory", filter, limit, offset)
             p == ListSagas("postgres", filter, limit, offset)
             own == sorted(S)
             other == sorted(R)
             mine == page(own, most, offset)
             theirs == page(other, most, offset)
  <2>1. limit \in Nat /\ offset \in Nat
    BY <1>1, <1>3
  <2>2. most \in Nat \ {0}
    BY <2>1, LimitFits
  <2>3. /\ n \in Nat /\ Cardinality(R) = n
        /\ own \in [1..n -> S] /\ other \in [1..n -> R]
    BY ListsAreStored, SortedIsList
  <2>4. m = Found(mine)
    BY <2>1, MemoryPage
  <2>5. p.ok => p = Found(theirs)
    BY <2>1, PostgresPage
  <2>6. Readable /\ offset <= MaxInt32 => p = Found(theirs)
    BY <2>1, PostgresPage
  <2>7. \A k \in 1..n : other[k].created = toPGTime(own[k].created)
    BY PlacesMatch
  <2> HIDE DEF S, R, n, most, m, p, own, other
  <2>8. isPart(mine, S, own, n, most, offset) /\ isPart(theirs, R, other, n, most, offset)
    BY <2>1, <2>2, <2>3, PageIsPart
  <2> HIDE DEF mine, theirs
  <2>9. /\ Len(theirs) = Len(mine)
        /\ \A k \in 1..Len(mine) : theirs[k].created = toPGTime(mine[k].created)
    BY <2>7, <2>8 DEF isPart
  <2>10. /\ p.ok => /\ m.ok
                    /\ Len(p.sagas) = Len(m.sagas)
                    /\ \A k \in 1..Len(m.sagas) :
                         p.sagas[k].created = toPGTime(m.sagas[k].created)
         /\ m.ok /\ offset <= MaxInt32 /\ Readable => p.ok
    BY <2>4, <2>5, <2>6, <2>9 DEF Found
  <2> QED BY <2>10 DEF m, p, Readable
<1> QED BY <1>1, <1>2, <1>3

LEMMA EachIsListed ==
    ASSUME TypeOK, Readable, Cardinality(sagas) <= MaxInt32 + 1 PROVE EverySagaIsListed
<1> DEFINE list == sorted(rows(NoFilter))
           n == Cardinality(sagas)
<1>1. n \in Nat /\ list \in [1..n -> AllRows]
  BY AllRowsFacts, SortedIsList
<1>2. list \in Seq(AllRows) /\ Len(list) = n
  BY <1>1
<1>3. ASSUME NEW k \in 1..Len(list)
      PROVE  ListSagas("postgres", NoFilter, 1, k - 1) = Found(<<list[k]>>)
  <2>1. k - 1 \in Nat /\ k - 1 <= MaxInt32 /\ k <= n
    BY <1>1, <1>2, ListAssumption
  <2>2. pageLimit(1) = 1
    BY LimitFits, ListAssumption
  <2>3. ListSagas("postgres", NoFilter, 1, k - 1) = Found(page(list, 1, k - 1))
    BY <2>1, <2>2, PostgresPage
  <2>4. page(list, 1, k - 1) = <<list[k]>>
    <3> HIDE DEF list
    <3>1. page(list, 1, k - 1) = SubSeq(list, k, k)
      BY <1>1, <1>2, <2>1 DEF page
    <3> QED BY <1>2, <3>1
  <2> QED BY <2>3, <2>4
<1> QED BY <1>3 DEF EverySagaIsListed

\* What the Postgres store answers is what the Memory store, on which the service
\* is tested, answers, up to the order within a microsecond, and it refuses no
\* more than an offset that is no int32 or a page with a saga that cannot be
\* read (both List methods, toPGTime, validatePage).
THEOREM StoresAnswerAlike == Spec => []PagesMatch
<1>1. ListInv => PagesMatch
  BY StoresListAlike DEF ListInv
<1> QED BY <1>1, InitList, NextList, PTL DEF Spec

\* What the run `context' refutes holds when every accepted context can be read
\* again, as long as the offsets of all sagas fit into an int32 (mapSagaRow,
\* Postgres.List).
THEOREM ReadableSagasAreListed ==
    ASSUME ContextsFit
    PROVE  Spec => [](Cardinality(sagas) <= MaxInt32 + 1 => EverySagaIsListed)
<1>1. ListInv /\ Readable => (Cardinality(sagas) <= MaxInt32 + 1 => EverySagaIsListed)
  BY EachIsListed DEF ListInv
<1>2. ListInv /\ Readable /\ [Next]_vars => Readable'
  BY NextReadable
<1> QED BY <1>1, <1>2, InitList, NextList, InitReadable, PTL DEF Spec
=============================================================================

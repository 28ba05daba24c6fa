------------------------------- MODULE SagaList -------------------------------
(***************************************************************************)
(* ListSagas: the page limits of the service, the two stores' List, and a  *)
(* client that walks through all sagas page by page while instances with   *)
(* different clocks create further ones and the runner moves them on.      *)
(*                                                                         *)
(* Integers are mathematical here except where postgres.go converts them   *)
(* to int32, of which MaxInt32 is the largest.  Of a saga's context, a JSON *)
(* object, only the size counts: the number of its members, each "k":1.    *)
(* Times are nanoseconds, as Go reads them from the clock and the Memory   *)
(* store keeps them; a column of Postgres keeps whole microseconds.        *)
(***************************************************************************)
EXTENDS Integers, Sequences, SequencesExt, SagaDomain

CONSTANTS
    Ids,                \* saga ids, numbers: only their order matters
    Times,              \* readings of the clocks, in nanoseconds
    Microsecond,        \* in nanoseconds
    Statuses,           \* the saga statuses that occur
    defaultPageLimit,
    maxPageLimit,
    MaxInt32,           \* the largest of Postgres's LIMIT and OFFSET parameters
    MaxSagaContextBytes,
    Contexts,           \* the contexts clients start sagas with, by size
    Limits, Offsets     \* the values clients ask for

NoFilter == "none"
Filters == Statuses \cup {NoFilter}

ASSUME ListAssumption ==
    /\ Ids \subseteq Nat /\ Times \subseteq Nat /\ Microsecond \in Nat \ {0}
    /\ "CREATED" \in Statuses /\ Statuses \subseteq SagaStatus
    /\ defaultPageLimit \in Nat /\ maxPageLimit \in Nat /\ MaxInt32 \in Nat
    /\ 0 < defaultPageLimit /\ defaultPageLimit <= maxPageLimit /\ maxPageLimit <= MaxInt32
    /\ MaxSagaContextBytes \in Nat
    /\ Limits \subseteq Int /\ Offsets \subseteq Int /\ Contexts \subseteq Nat

VARIABLES
    sagas,      \* the stored sagas: [id, created, updated, status, members], with
                \* the times as the service wrote them
    walk        \* the walking client: its page size and next offset, the ids
                \* it has seen, the ids stored when it began; done at the end

vars == <<sagas, walk>>

NoWalk == [at |-> "idle", limit |-> 1, offset |-> 0, seen |-> {}, must |-> {}]

-----------------------------------------------------------------------------
(* Contexts *)

\* The bytes json.Marshal makes of a context: braces, members and commas.
Marshal(members) == IF members = 0 THEN 2 ELSE 2 + 5 * members + (members - 1)

\* The text of the same value in a JSONB column, which has a blank after every
\* colon and every comma.
jsonbText(members) == IF members = 0 THEN 2 ELSE 2 + 6 * members + 2 * (members - 1)

\* ParseSagaContext: of what a client sends, and of what a row holds.
ParseSagaContext(bytes) == 0 < bytes /\ bytes <= MaxSagaContextBytes

mapSagaRow(s) == ParseSagaContext(jsonbText(s.members))

-----------------------------------------------------------------------------
(* List *)

Refused == [ok |-> FALSE, sagas |-> <<>>]
Found(list) == [ok |-> TRUE, sagas |-> list]

\* A faulty order by the column that every Update writes.
beforeByUpdate(s, t) == s.updated < t.updated \/ (s.updated = t.updated /\ s.id < t.id)

\* ORDER BY created_at ASC, id ASC, and the comparison of Memory's sort.
before(s, t) == s.created < t.created \/ (s.created = t.created /\ s.id < t.id)

matching(filter) == {s \in sagas : filter = NoFilter \/ s.status = filter}

\* toPGTime into a TIMESTAMPTZ column, which the driver fills in microseconds:
\* the part of one is cut off.
toPGTime(time) == time - (time % Microsecond)

\* The row of a saga, and the saga that is read from it.
toRow(s) == [s EXCEPT !.created = toPGTime(@), !.updated = toPGTime(@)]

\* The rows that the query with this filter selects.
rows(filter) == {toRow(s) : s \in matching(filter)}

\* The sagas of a set, in the order of the list.
sorted(set) ==
    CHOOSE list \in [1..Cardinality(set) -> set] :
        \A j, k \in DOMAIN list : j < k => before(list[j], list[k])

\* The sagas of the list from offset on, at most limit of them.
page(list, limit, offset) ==
    SubSeq(list, offset + 1, IF offset + limit < Len(list) THEN offset + limit ELSE Len(list))

\* Memory.List.  A limit of zero is no limit.
memoryList(filter, limit, offset) ==
    LET list == sorted(matching(filter)) IN
    CASE limit < 0 \/ offset < 0 -> Refused
      [] limit >= 0 /\ offset >= Len(list) -> Found(<<>>)
      [] OTHER -> Found(page(list, IF limit > 0 THEN limit ELSE Len(list), offset))

\* A faulty conversion that drops the sign bit too.
int32Masked(n) == n % (MaxInt32 + 1)

\* int32(n): the high bits are dropped.
int32(n) == ((n + MaxInt32 + 1) % (2 * (MaxInt32 + 1))) - (MaxInt32 + 1)

\* Postgres.List, with the ORDER BY over the columns: a limit of zero selects
\* nothing, Postgres refuses negative values, and a row that mapSagaRow refuses
\* makes the whole list an error.
postgresList(filter, limit, offset) ==
    IF limit < 0 \/ offset < 0 \/ int32(limit) < 0 \/ int32(offset) < 0 THEN Refused
    ELSE LET list == page(sorted(rows(filter)), int32(limit), int32(offset)) IN
         IF \A s \in ToSet(list) : mapSagaRow(s) THEN Found(list) ELSE Refused

\* validatePage.
pageLimit(limit) ==
    CASE limit = 0 -> defaultPageLimit
      [] limit > maxPageLimit -> maxPageLimit
      [] OTHER -> limit

validPage(limit, offset) == limit >= 0 /\ offset >= 0

\* Service.ListSagas on either store.
ListSagas(store, filter, limit, offset) ==
    CASE ~validPage(limit, offset) -> Refused
      [] validPage(limit, offset) /\ store = "memory" ->
            memoryList(filter, pageLimit(limit), offset)
      [] validPage(limit, offset) /\ store = "postgres" ->
            postgresList(filter, pageLimit(limit), offset)

-----------------------------------------------------------------------------

Init ==
    /\ sagas = {}
    /\ walk = NoWalk

\* A faulty Create that does not look for the id.
CreateBlindly(i, t, members) ==
    /\ ParseSagaContext(Marshal(members))
    /\ sagas' = sagas \cup {[id |-> i, created |-> t, updated |-> t, status |-> "CREATED",
                             members |-> members]}
    /\ UNCHANGED walk

\* StartSaga: created_at is read from the instance's clock before the insert,
\* so it may lie before that of a saga that is already stored.
Create(i, t, members) ==
    /\ \A s \in sagas : s.id # i
    /\ ParseSagaContext(Marshal(members))
    /\ sagas' = sagas \cup {[id |-> i, created |-> t, updated |-> t, status |-> "CREATED",
                             members |-> members]}
    /\ UNCHANGED walk

\* store.Update: perhaps another status, and an updated_at read from the clock
\* of the instance that does it.
Update(s, st, t) ==
    /\ mapSagaRow(s)
    /\ CanTransition(s.status, st)
    /\ sagas' = (sagas \ {s}) \cup {[s EXCEPT !.status = st, !.updated = t]}
    /\ UNCHANGED walk

\* A client begins to read all sagas in pages of the size it asks for.
BeginWalk(limit) ==
    /\ walk.at = "idle"
    /\ 0 < limit /\ limit <= maxPageLimit
    /\ walk' = [at |-> "walking", limit |-> limit, offset |-> 0, seen |-> {},
                must |-> {s.id : s \in sagas}]
    /\ UNCHANGED sagas

\* It asks for the next page until one is empty.
NextPage ==
    LET got == ListSagas("postgres", NoFilter, walk.limit, walk.offset) IN
    /\ walk.at = "walking"
    /\ got.ok
    /\ walk' = IF got.sagas = <<>> THEN [walk EXCEPT !.at = "done"]
               ELSE [walk EXCEPT !.offset = @ + walk.limit,
                                 !.seen = @ \cup {s.id : s \in ToSet(got.sagas)}]
    /\ UNCHANGED sagas

Next ==
    \/ \E i \in Ids, t \in Times, members \in Contexts : Create(i, t, members)
    \/ \E s \in sagas, st \in Statuses, t \in Times : Update(s, st, t)
    \/ \E limit \in Limits : BeginWalk(limit)
    \/ NextPage

Spec == Init /\ [][Next]_vars

-----------------------------------------------------------------------------
(* Properties *)

Saga == [id : Ids, created : Times, updated : Times, status : Statuses, members : Contexts]

\* Ids are unique, as the primary key and the keys of Memory's map make them.
TypeOK ==
    /\ sagas \subseteq Saga
    /\ IsFiniteSet(sagas)
    /\ \A s, t \in sagas : s.id = t.id => s = t
    /\ walk \in [at : {"idle", "walking", "done"}, limit : Limits \cup {1}, offset : Nat,
                 seen : SUBSET Ids, must : SUBSET Ids]

\* Sagas are only added, and no page walk misses one: a client that has read
\* all pages, in any page size, has seen every saga that was stored when it
\* began, although sagas with earlier timestamps were added and others were
\* moved on while it read.
WalkMissesNothing == walk.at = "done" => walk.must \subseteq walk.seen

\* Whatever page the Postgres store answers with is the one of the Memory
\* store, on which the service is tested, but for the order of sagas that were
\* created within one microsecond: the same number of sagas, and at each place
\* one of the same microsecond.  That is so for every limit, including zero and
\* those above the maximum, every status filter, and offsets up to twice what
\* an int32 holds: the cast makes those that do not fit negative, and they are
\* refused rather than taken for another page.  (Beyond, the cast starts from
\* zero again, and List answers with the first pages.)  And Postgres refuses
\* no page for another reason than such an offset or a saga it cannot read.
PagesMatch ==
    \A filter \in Filters, limit \in Limits, offset \in Offsets :
        LET m == ListSagas("memory", filter, limit, offset)
            p == ListSagas("postgres", filter, limit, offset)
        IN  offset <= 2 * MaxInt32 + 1 =>
            /\ p.ok => /\ m.ok
                       /\ Len(p.sagas) = Len(m.sagas)
                       /\ \A k \in 1..Len(m.sagas) :
                            p.sagas[k].created = toPGTime(m.sagas[k].created)
            /\ m.ok /\ offset <= MaxInt32 /\ (\A s \in sagas : mapSagaRow(s)) => p.ok

\* Every saga whose start was accepted can be read: the page that begins at its
\* place in the list holds it.
EverySagaIsListed ==
    LET list == sorted(rows(NoFilter)) IN
    \A k \in 1..Len(list) : ListSagas("postgres", NoFilter, 1, k - 1) = Found(<<list[k]>>)
=============================================================================

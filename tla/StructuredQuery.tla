-------------------------- MODULE StructuredQuery --------------------------
(***************************************************************************)
(* Row queries over applied imports: a request is normalised, checked      *)
(* against the registry of the dataset, bound to the caller's snapshot of  *)
(* the authorization, compiled, and only then run; a further page is the   *)
(* same request with the signed cursor of the page before.                 *)
(*                                                                         *)
(* The snapshot and the statement are two reads of the database, so the    *)
(* rows of a page may be newer than the authorization it was compiled      *)
(* under.  An applied import moves the authorization version, an archived  *)
(* one does not.                                                           *)
(*                                                                         *)
(* packages/domain/src/structured-query.ts, cost-card-query.ts,            *)
(* structured-registry.ts; apps/api/src/structured-query.ts and            *)
(* routes/structured-query.ts.                                             *)
(***************************************************************************)
EXTENDS Integers, Sequences, FiniteSets, SequencesExt, TLC

CONSTANTS
    Sources,        \* source documents with an import each
    Fields,         \* registry: field name -> [type, measure, early, storage]
    RowsOf,         \* source -> its rows: [number, id, and a value per stored field]
    QueryRequests,  \* the query bodies that clients send
    FilterNodes,    \* the nodes of their filters
    Callers,        \* employees
    LevelOf,        \* source -> confidentiality level (legacy authorization)
    ClearanceOf,    \* caller -> clearance (legacy authorization)
    Limits,         \* STRUCTURED_QUERY_LIMITS: fields, sort, aggregates, rows, depth,
                    \* conditions, values of an "in"
    MaxVersions     \* bound: authorization versions

Missing == -1         \* a row has no value for a field; values are naturals
NoField == "no field"  \* count of rows

StoredRows == UNION {RowsOf[s] : s \in Sources}

ASSUME QueryAssumption ==
    /\ Limits.depth \in Nat /\ Limits.rows \in Nat
    /\ \A q \in QueryRequests : q.filter \in FilterNodes /\ q.sort \in Seq(STRING)
    /\ \A node \in FilterNodes :
          /\ node.op \in {"and", "or"} => \A i \in DOMAIN node.of : node.of[i] \in FilterNodes
          /\ node.op = "not" => node.of \in FilterNodes
    \* A row has a primary key, and each stored field a value that can be compared.
    /\ IsFiniteSet(StoredRows)
    /\ \A r \in StoredRows :
          /\ r.number \in Int /\ r.id \in Int
          /\ \A f \in DOMAIN Fields : Fields[f].storage = "payload" => r[f] \in Int
    /\ \A r, t \in StoredRows : r.id = t.id => r = t

VARIABLES
    imports,    \* source -> "queued", "applied" or "archived"
    stance,     \* the authorization mode of the organization
    stamp,      \* the authorization version
    reach,      \* caller -> sources his grants cover
    reading     \* caller -> the read he has under way

queryVars == <<imports, stance, stamp, reach, reading>>

NoReading == [at |-> "none"]

QueryTypeOK ==
    /\ imports \in [Sources -> {"queued", "applied", "archived"}]
    /\ stance \in {"preparing", "enabled", "suspended"}
    /\ stamp \in 1..MaxVersions
    /\ reach \in [Callers -> SUBSET Sources]
    /\ \A c \in Callers : reading[c].at \in {"none", "compiled", "paged", "expired"}

-----------------------------------------------------------------------------
(* The registry: what a field may be used for. *)

Numeric == {"integer", "decimal", "percent"}

operatorsForType(type) ==
    IF type \in {"date", "date_time"} THEN {"eq", "between", "gte", "lte", "in"}
    ELSE IF type \in Numeric THEN {"eq", "between", "gt", "gte", "lt", "lte", "in"}
    ELSE {"eq", "contains", "starts_with", "in"}

\* A column of the file; `early` stands for one of the first 25 columns.
capabilities(f) ==
    LET field == Fields[f]
    IN  IF field.storage # "payload" THEN {}
        ELSE {"filter"}
             \cup (IF field.type # "string" \/ field.early THEN {"sort"} ELSE {})
             \cup (IF field.measure THEN {"aggregate"} ELSE {"group"})

-----------------------------------------------------------------------------
(* Normalisation and validation of a request. *)

Mode(q) == IF q.aggregates # {} \/ q.groupBy # {} THEN "aggregate" ELSE "detail"

normalizeSort(q) == Len(q.sort) <= Limits.sort

normalizePage(q) == q.limit \in 1..Limits.rows

\* A weighted average names two fields, a count may name none.
normalizeAggregates(q) ==
    /\ Cardinality(q.aggregates) <= Limits.aggregates
    /\ \A a \in q.aggregates : a.op # "count" => a.field # NoField

\* The conditions of a filter; a tree that is too deep has none that is allowed.
Conditions[node \in FilterNodes, depth \in 1..(Limits.depth + 1)] ==
    IF node.op # "none" /\ depth > Limits.depth
    THEN Limits.conditions + 1
    ELSE CASE node.op = "none" -> 0
           [] node.op \in {"and", "or"} ->
                FoldSeq(LAMBDA n, sum : Conditions[n, depth + 1] + sum, 0, node.of)
           [] node.op = "not" -> Conditions[node.of, depth + 1]
           [] OTHER -> 1

normalizeFilter(q) ==
    /\ q.filter.op \in {"and", "or"} => q.filter.of # <<>>
    /\ Conditions[q.filter, 1] <= Limits.conditions

\* The dataset answers row queries: partitions and the ledger are read elsewhere.
normalizeQuery(q) ==
    /\ q.dataset \in {"rows", "cost_cards"}
    /\ Cardinality(q.select) <= Limits.fields
    /\ Cardinality(q.groupBy) <= Limits.fields
    /\ normalizeSort(q)
    /\ normalizeAggregates(q)
    /\ normalizePage(q)
    /\ normalizeFilter(q)

validateSelectedFields(q) ==
    /\ Mode(q) = "aggregate" => q.select = {}
    /\ q.select \subseteq DOMAIN Fields
    /\ \A f \in q.groupBy : f \in DOMAIN Fields /\ "group" \in capabilities(f)

validateAggregates(q) ==
    /\ q.groupBy # {} => q.aggregates # {}
    /\ \A a \in q.aggregates :
          \/ a.op = "count" /\ a.field = NoField
          \/ /\ a.field \in DOMAIN Fields
             /\ IF a.op \in {"count", "countDistinct"}
                THEN capabilities(a.field) \cap {"group", "aggregate"} # {}
                ELSE "aggregate" \in capabilities(a.field)
    /\ \A a, b \in q.aggregates : a.as = b.as => a = b
    /\ \A a \in q.aggregates : a.as \notin q.groupBy

validateSort(q) ==
    \A i \in DOMAIN q.sort :
        IF Mode(q) = "aggregate"
        THEN q.sort[i] \in q.groupBy \cup {a.as : a \in q.aggregates}
        ELSE q.sort[i] \in DOMAIN Fields /\ "sort" \in capabilities(q.sort[i])

\* A filter is a tree of and, or, not over conditions.
validateFilter[node \in FilterNodes] ==
    CASE node.op \in {"and", "or"} -> \A i \in DOMAIN node.of : validateFilter[node.of[i]]
      [] node.op = "not" -> validateFilter[node.of]
      [] node.op = "none" -> TRUE
      [] OTHER -> /\ node.field \in DOMAIN Fields
                  /\ "filter" \in capabilities(node.field)
                  /\ node.op \in operatorsForType(Fields[node.field].type)
                  /\ node.op = "in" => Cardinality(node.value) <= Limits.values

\* Cost cards offer a directory only.
validateDirectory(q) == q.dataset = "cost_cards" => Mode(q) = "detail"

Accepts(q) ==
    /\ normalizeQuery(q)
    /\ validateSelectedFields(q)
    /\ validateAggregates(q)
    /\ validateSort(q)
    /\ validateFilter[q.filter]
    /\ validateDirectory(q)

-----------------------------------------------------------------------------
(* What the compiled statement returns. *)

\* SQL's three values: a comparison with a missing value is unknown.
compileFilter(row) ==
    LET value[node \in FilterNodes] ==
          CASE node.op = "none" -> "true"
            [] node.op = "not" ->
                  IF value[node.of] = "unknown" THEN "unknown"
                  ELSE IF value[node.of] = "true" THEN "false" ELSE "true"
            [] node.op \in {"and", "or"} ->
                  LET vs     == {value[node.of[i]] : i \in DOMAIN node.of}
                      strong == IF node.op = "and" THEN "false" ELSE "true"
                  IN  IF strong \in vs THEN strong
                      ELSE IF "unknown" \in vs THEN "unknown"
                      ELSE IF node.op = "and" THEN "true" ELSE "false"
            [] OTHER ->
                  IF row[node.field] = Missing THEN "unknown"
                  ELSE IF CASE node.op = "eq"  -> row[node.field] = node.value
                            [] node.op = "in"  -> row[node.field] \in node.value
                            [] node.op = "gte" -> row[node.field] >= node.value
                       THEN "true" ELSE "false"
    IN  value

\* An empty "in" list is accepted and compiles to a statement that the
\* database refuses; the cost-card directory compiles it to a false condition.
Malformed[node \in FilterNodes] ==
    CASE node.op \in {"and", "or"} -> \E i \in DOMAIN node.of : Malformed[node.of[i]]
      [] node.op = "not" -> Malformed[node.of]
      [] OTHER -> node.op = "in" /\ node.value = {}

\* The rows a caller may see under a snapshot: applied, unarchived, in scope.
baseFromAndWhere(snapshot) ==
    UNION {RowsOf[s] : s \in {t \in Sources : imports[t] = "applied" /\ t \in snapshot.scope}}

Matching(q, snapshot) ==
    {r \in baseFromAndWhere(snapshot) : compileFilter(r)[q.filter] = "true"}

\* Detail order: the requested fields, then the row's number, then its id.
Before(q, r, t) ==
    LET tied == \A i \in DOMAIN q.sort : r[q.sort[i]] = t[q.sort[i]]
    IN  \/ \E i \in DOMAIN q.sort : r[q.sort[i]] < t[q.sort[i]]
              /\ \A j \in 1..(i - 1) : r[q.sort[j]] = t[q.sort[j]]
        \/ tied /\ r.number < t.number
        \/ tied /\ r.number = t.number /\ r.id < t.id

\* One group per value of the group field; its count is the aggregate.
Grouped(q, rows) ==
    LET g == CHOOSE f \in q.groupBy : TRUE
    IN  IF q.groupBy = {} THEN {[value |-> "all", count |-> Cardinality(rows)]}
        ELSE {[value |-> v, count |-> Cardinality({r \in rows : r[g] = v})] :
                 v \in {r[g] : r \in rows}}

\* Aggregate order: the requested columns and nothing else.
GroupBefore(q, a, b) ==
    IF q.sort # <<>> /\ q.sort[1] \notin q.groupBy
    THEN a.count < b.count
    ELSE a.value < b.value

Items(q, snapshot) ==
    IF Mode(q) = "detail" THEN Matching(q, snapshot)
    ELSE Grouped(q, Matching(q, snapshot))

Ahead(q, a, b) == IF Mode(q) = "detail" THEN Before(q, a, b) ELSE GroupBefore(q, a, b)

\* The lists the database may produce: every one that respects ORDER BY.
Lists(q, snapshot) ==
    LET items == Items(q, snapshot)
    IN  {s \in SetToSeqs(items) :
            \A i, j \in DOMAIN s : i < j => ~Ahead(q, s[j], s[i])}

-----------------------------------------------------------------------------
(* One request. *)

\* The authorization of the request, read once at its start.
Snapshot(c) ==
    [mode    |-> stance,
     version |-> stamp,
     scope   |-> IF stance = "preparing"
                 THEN {s \in Sources : LevelOf[s] <= ClearanceOf[c]}
                 ELSE IF stance = "enabled" THEN reach[c] ELSE {}]

\* Mutant: the shape of a query holds no authorization version.
ShapeWithoutVersion(q, snapshot) == <<q>>

\* What the cursor's hash is taken over; organization, caller and clearance
\* are the caller's own here.
hashQueryShape(q, snapshot) ==
    IF snapshot.mode = "preparing" THEN <<q>> ELSE <<q, snapshot.version>>

Permitted(q) == q.dataset = "cost_cards" => stance = "enabled"

queryStart(c, q) ==
    /\ reading[c].at = "none"
    /\ Permitted(q)
    /\ Accepts(q)
    /\ reading' = [reading EXCEPT ![c] =
          [at |-> "compiled", query |-> q, snapshot |-> Snapshot(c), offset |-> 0,
           got |-> <<>>, first |-> Snapshot(c), disturbed |-> FALSE]]
    /\ UNCHANGED <<imports, stance, stamp, reach>>

\* decodeStructuredCursor: the cursor was signed for this shape.
queryContinue(c) ==
    /\ reading[c].at = "paged"
    /\ Permitted(reading[c].query)
    /\ reading[c].cursor = hashQueryShape(reading[c].query, Snapshot(c))
    /\ reading' = [reading EXCEPT ![c] =
          [at |-> "compiled", query |-> @.query, snapshot |-> Snapshot(c), offset |-> @.offset,
           got |-> @.got, first |-> @.first, disturbed |-> @.disturbed]]
    /\ UNCHANGED <<imports, stance, stamp, reach>>

\* INVALID_CURSOR, CURSOR_EXPIRED or DATASET_FORBIDDEN.
queryRefuse(c) ==
    /\ \/ reading[c].at = "expired"
       \/ /\ reading[c].at = "paged"
          /\ \/ ~Permitted(reading[c].query)
             \/ reading[c].cursor # hashQueryShape(reading[c].query, Snapshot(c))
    /\ reading' = [reading EXCEPT ![c] = NoReading]
    /\ UNCHANGED <<imports, stance, stamp, reach>>

\* The page of a list at the read's offset, fetched with LIMIT limit + 1: the surplus
\* row says there is more.
PageOf(r, list) ==
    LET q       == r.query
        end     == r.offset + q.limit + 1
        fetched == SubSeq(list, r.offset + 1, IF Len(list) < end THEN Len(list) ELSE end)
        visible == SubSeq(fetched, 1, IF Len(fetched) < q.limit THEN Len(fetched) ELSE q.limit)
    IN  IF Len(fetched) > q.limit
        THEN [at |-> "paged", query |-> q, got |-> r.got \o visible,
              offset |-> r.offset + Len(visible),
              cursor |-> hashQueryShape(q, r.snapshot),
              first |-> r.first, disturbed |-> r.disturbed]
        ELSE NoReading

execute(c) ==
    LET r == reading[c]
        q == r.query
    IN  /\ r.at = "compiled"
        /\ ~Malformed[q.filter] \/ q.dataset = "cost_cards"
        /\ \E list \in Lists(q, r.snapshot) :
              reading' = [reading EXCEPT ![c] = PageOf(r, list)]
        /\ UNCHANGED <<imports, stance, stamp, reach>>

\* The database refuses the statement: a 500.
executeFails(c) ==
    /\ reading[c].at = "compiled"
    /\ Malformed[reading[c].query.filter]
    /\ reading[c].query.dataset # "cost_cards"
    /\ reading' = [reading EXCEPT ![c] = NoReading]
    /\ UNCHANGED <<imports, stance, stamp, reach>>

queryExpires(c) ==
    /\ reading[c].at = "paged"
    /\ reading' = [reading EXCEPT ![c] = [at |-> "expired"]]
    /\ UNCHANGED <<imports, stance, stamp, reach>>

-----------------------------------------------------------------------------
(* What happens around a read.  `disturbed` records that rows moved where   *)
(* no version can tell: an archive, a publication under the legacy shape,   *)
(* or a publication between a snapshot and its statement.                   *)

Disturb(Hit(_)) ==
    reading' = [c \in Callers |->
        IF reading[c].at \in {"compiled", "paged"} /\ Hit(reading[c])
        THEN [reading[c] EXCEPT !.disturbed = TRUE] ELSE reading[c]]

\* The worker applies an import under the publication lock.
applyImport(s) ==
    /\ imports[s] = "queued"
    /\ stamp < MaxVersions
    /\ imports' = [imports EXCEPT ![s] = "applied"]
    /\ stamp' = stamp + 1
    /\ Disturb(LAMBDA r : r.at = "compiled" \/ r.first.mode = "preparing")
    /\ UNCHANGED <<stance, reach>>

\* An administrator archives a document; the version does not move.
archiveImport(s) ==
    /\ imports[s] = "applied"
    /\ imports' = [imports EXCEPT ![s] = "archived"]
    /\ Disturb(LAMBDA r : TRUE)
    /\ UNCHANGED <<stance, stamp, reach>>

regrant(c, scope) ==
    /\ stamp < MaxVersions
    /\ reach[c] # scope
    /\ reach' = [reach EXCEPT ![c] = scope]
    /\ stamp' = stamp + 1
    /\ UNCHANGED <<imports, stance, reading>>

switchMode ==
    /\ stamp < MaxVersions
    /\ stance' = IF stance = "preparing" THEN "enabled" ELSE "suspended"
    /\ stance # "suspended"
    /\ stamp' = stamp + 1
    /\ UNCHANGED <<imports, reach, reading>>

QueryInit ==
    /\ imports \in [Sources -> {"queued", "applied"}]
    /\ stance \in {"preparing", "enabled"}
    /\ stamp = 1
    /\ reach = [c \in Callers |-> Sources]
    /\ reading = [c \in Callers |-> NoReading]

QueryNext ==
    \/ \E c \in Callers :
          \/ \E q \in QueryRequests : queryStart(c, q)
          \/ queryContinue(c)
          \/ queryRefuse(c)
          \/ execute(c)
          \/ executeFails(c)
          \/ queryExpires(c)
          \/ \E scope \in SUBSET Sources : regrant(c, scope)
    \/ \E s \in Sources : applyImport(s) \/ archiveImport(s)
    \/ switchMode

QuerySpec == QueryInit /\ [][QueryNext]_queryVars

-----------------------------------------------------------------------------
(* Properties. *)

\* The requested order decides the place of every item.
TotalOrder(q) ==
    Mode(q) = "detail" \/ q.sort = <<>> \/ q.sort[1] \in q.groupBy

\* A read that a cursor may still continue was computed under one
\* authorization, and its pages so far are the head of the one list that this
\* authorization has now, nothing twice and nothing left out, unless rows
\* moved where no version tells or the order asked for leaves ties.
ReadsAreOneAnswer ==
    \A c \in Callers :
        LET r == reading[c]
        IN  r.at = "paged" /\ r.cursor = hashQueryShape(r.query, Snapshot(c))
              /\ ~r.disturbed /\ TotalOrder(r.query) =>
            /\ r.first.scope = Snapshot(c).scope
            /\ \E list \in Lists(r.query, r.first) : r.got = SubSeq(list, 1, r.offset)
=============================================================================

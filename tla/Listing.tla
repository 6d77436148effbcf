------------------------------ MODULE Listing ------------------------------
(***************************************************************************)
(* Lists, exports, the audit log and the list of files, over each of the   *)
(* four stores: pkg/server/store.go, the backend template, and the         *)
(* adapters sqlstore and mongostore; the queries that pkg/filters,         *)
(* pkg/pagination and pkg/postgres make for an application of its own; and *)
(* the two stores of pkg/audit.  A list is two statements, the count and   *)
(* the page, and no snapshot spans them; its client, the data grid of the  *)
(* frontend, turns the pages by meta.total while others write.             *)
(***************************************************************************)
EXTENDS Naturals, FiniteSets, Sequences, SequencesExt

CONSTANTS Ids,
          Tenants,     \* the tenants of rows and actors, NoTenant among them
          NoTenant,    \* the empty string
          None,
          Values,      \* the values of the column sorted and filtered by
          Cap,         \* the 100 of List, of an export and of the audit log,
                       \* and the 200 of pkg/audit
          Default,     \* the 25 of List, of handleList and of the grid, and
                       \* the 100 of pkg/audit
          PerPages,    \* what clients ask for, 0 for nothing
          Filters,     \* the sets of conditions clients send
          Budgets      \* how many writes may happen meanwhile

Operators == {"eq", "contains", "starts_with", "ends_with", "gte", "lte", "gt", "lt"}

ASSUME ListingAssumption ==
  /\ IsFiniteSet(Ids)
  /\ NoTenant \in Tenants /\ None \notin [tenant : Tenants, value : Values]
  /\ Cap \in Nat \ {0} /\ Default \in 1 .. Cap
  /\ PerPages \subseteq Nat /\ Budgets \subseteq Nat /\ Values \subseteq 0 .. 99
  /\ Filters \subseteq SUBSET [op : Operators \union {"other"}, value : 0 .. 99]
  /\ {} \in Filters /\ \A f \in Filters : IsFiniteSet(f)

VARIABLES
  store,    \* which of the stores serves
  table,    \* table[i]: the row with id i, or None
  rank,     \* the order of the ids as primary keys, or as places in the log
  budget, writes,
  reader,   \* the actor: its tenant, and whether it is a super_admin
  query,    \* what it reads, and how it is sorted, filtered and cut
  page, total, items,
  where,    \* the conditions the store applies
  shown,    \* the ids on the pages so far
  step,     \* what the handler or the client does next
  first,    \* ghost: the table when the client began
  removed,  \* ghost: a row has been removed or changed since
  older,    \* ghost: a row has been inserted behind one that was there
  torn      \* ghost: there was a write between a count and its page

client == <<store, rank, budget, reader, query, page, total, items, where, shown, step, first>>
ghosts == <<removed, older, torn>>
listingVars == <<table, writes, client, ghosts>>

Logs == {"pglog", "memlog"}
Stores == {"postgres", "template", "sql", "mongo", "builder"} \union Logs
Ranked == {"builder", "memlog"}
Row == [tenant : Tenants, value : Values]
\* The column: numbers, texts, created_at, or one neither sortable nor filterable.
Columns == {"number", "text", "created_at", "other"}
Query == [kind : {"list", "export", "audit", "files"}, column : Columns,
          sort : {"", "+", "-"}, filter : Filters, perPage : Nat]
Rows(t) == {i \in Ids : t[i] # None}

ListingTypeOK ==
  /\ store \in Stores
  /\ table \in [Ids -> Row \union {None}]
  /\ rank \in [Ids -> 0 .. Cardinality(Ids)]
  /\ writes \in 0 .. budget /\ budget \in Budgets
  /\ reader \in [tenant : Tenants, super : BOOLEAN]
  /\ query \in Query /\ where \subseteq query.filter
  /\ page \in Nat \ {0} /\ total \in 0 .. Cardinality(Ids)
  /\ items \in Seq(Ids) /\ shown \in Seq(Ids)
  /\ step \in {"list", "select", "turn", "read", "audit", "refused", "done"}

\* Without a sort parameter the column is created_at; exports, the log and
\* the files have neither parameters nor pages.
AskedLists ==
  {q \in [kind : {"list"}, column : Columns, sort : {"", "+", "-"},
          filter : Filters, perPage : PerPages] : q.sort = "" => q.column = "created_at"}

\* A query of pkg/audit: From, To and Limit; equalities are left out like
\* the search.
AskedLogs ==
  [kind : {"audit"}, column : {"created_at"}, sort : {""}, perPage : PerPages,
   filter : {f \in Filters : \A c, d \in f : c.op \in {"gte", "lte"} /\ (c.op = d.op => c = d)}]

Asked ==
  CASE store \in Logs -> AskedLogs
    [] store = "builder" -> AskedLists
    [] OTHER -> AskedLists \union
                [kind : {"export", "audit", "files"}, column : {"created_at"}, sort : {""},
                 filter : {{}}, perPage : {Cap}]

\* Every order of the ids, where it matters.
Ranks ==
  IF store \in Ranked
  THEN {r \in [Ids -> 1 .. Cardinality(Ids)] : \A i, j \in Ids : r[i] = r[j] => i = j}
  ELSE {[i \in Ids |-> 0]}

ListingInit ==
  /\ store \in Stores
  /\ table \in [Ids -> Row \union {None}]
  /\ rank \in Ranks
  /\ budget \in Budgets /\ writes = 0
  /\ reader \in [tenant : Tenants, super : BOOLEAN]
  /\ query \in Asked
  /\ page = 1 /\ total = 0 /\ items = <<>> /\ shown = <<>> /\ where = {}
  /\ step = IF query.kind \in {"list", "export"} THEN "list" ELSE "read"
  /\ first = table
  /\ removed = FALSE /\ older = FALSE /\ torn = FALSE

-----------------------------------------------------------------------------
\* A value as text: its digits, for a timestamp always as many.
Text(n) ==
  IF n < 10 /\ query.column # "created_at" THEN <<n>> ELSE <<n \div 10, n % 10>>

TextLess(a, b) ==
  LET s == Text(a)  t == Text(b)
  IN \/ IsStrictPrefix(s, t)
     \/ \E k \in DOMAIN s \intersect DOMAIN t :
          s[k] < t[k] /\ \A j \in 1 .. k - 1 : s[j] = t[j]

\* The order the column has of its own: what ORDER BY sorts by.
Before(a, b) == IF query.column = "text" THEN TextLess(a, b) ELSE a < b

\* A condition with the comparison Less.
Compares(c, v, Less(_, _)) ==
  \/ c.op = "eq" /\ v = c.value
  \/ c.op = "contains" /\ \E k \in DOMAIN Text(v) : IsPrefix(Text(c.value), SubSeq(Text(v), k, Len(Text(v))))
  \/ c.op = "starts_with" /\ IsPrefix(Text(c.value), Text(v))
  \/ c.op = "ends_with" /\ IsSuffix(Text(c.value), Text(v))
  \/ c.op = "gt" /\ Less(c.value, v)
  \/ c.op = "gte" /\ ~Less(v, c.value)
  \/ c.op = "lt" /\ Less(v, c.value)
  \/ c.op = "lte" /\ ~Less(c.value, v)

\* buildWhere casts to text before it compares, numbers as well.
PostgresMatches(c, v) == Compares(c, v, TextLess)

TemplateMatches(c, v) == PostgresMatches(c, v)

\* (wrong variant: the bound of a range is left out)
SqlMatches_Exclusive(c, v) ==
  Compares(c, v, Before) /\ (c.op \in {"gte", "lte"} => v # c.value)

\* where compares columns as they are.
SqlMatches(c, v) == Compares(c, v, Before)

\* sqlOperator, and the database makes of the argument what the column is.
BuilderMatches(c, v) == Compares(c, v, Before)

\* From and To, both inclusive.
LogMatches(c, v) == Compares(c, v, Before)

\* buildFilter hands the driver a string, which no number or date equals,
\* matches or compares with.
MongoMatches(c, v) == query.column = "text" /\ Compares(c, v, TextLess)

Matches(c, v) ==
  CASE store = "postgres" -> PostgresMatches(c, v)
    [] store = "template" -> TemplateMatches(c, v)
    [] store = "sql" -> SqlMatches(c, v)
    [] store = "mongo" -> MongoMatches(c, v)
    [] store \in Logs -> LogMatches(c, v)

\* Search is one more condition on a row, and left out.
Visible(row) == reader.super \/ row.tenant = reader.tenant

Found(conditions) ==
  {i \in Rows(table) : Visible(table[i]) /\ \A c \in conditions : Matches(c, table[i].value)}

\* A QueryBuilder knows no super_admin; reader.super says of one that it has no
\* TenantColumn.
BuilderFound ==
  {i \in Rows(table) :
     /\ reader.super \/ table[i].tenant = reader.tenant
     /\ \A c \in query.filter : BuilderMatches(c, table[i].value)}

\* The log and the files: an actor without a tenant reads those of all.
Logged ==
  {i \in Rows(table) :
     /\ \/ reader.tenant \in {NoTenant, table[i].tenant}
        \/ reader.super /\ store \notin Logs
     /\ \A c \in query.filter : Matches(c, table[i].value)}

\* The keys of a bson.M are unique: of several conditions on one column the
\* last of the loop is left, and the loop is over a map.
MongoFilter == IF query.filter = {} THEN {{}} ELSE {{c} : c \in query.filter}

\* "", "+" or "-": how the rows are sorted, of a resource without DefaultSort.
Sortable(sort) == IF query.column = "other" THEN "" ELSE sort
PostgresOrder == Sortable(IF query.sort = "" THEN "-" ELSE query.sort)
TemplateOrder == PostgresOrder
SqlOrder == Sortable(query.sort)
MongoOrder == SqlOrder
\* orderBy takes the primary key for lack of others, and to break their ties.
BuilderOrder == query.sort

ListOrder ==
  CASE store = "postgres" -> PostgresOrder
    [] store = "template" -> TemplateOrder
    [] store = "sql" -> SqlOrder
    [] store = "mongo" -> MongoOrder
    [] store = "builder" -> BuilderOrder

\* Equal values come in any order, anew for every statement.
Sorted(s, order) ==
  \A j, k \in DOMAIN s : j < k =>
    /\ order = "-" => ~Before(table[s[j]].value, table[s[k]].value)
    /\ order = "+" => ~Before(table[s[k]].value, table[s[j]].value)
    /\ order = "recorded" => rank[s[k]] < rank[s[j]]
    /\ store = "builder" /\ (order = "" \/ table[s[j]].value = table[s[k]].value) =>
         rank[s[j]] < rank[s[k]]

parseInt(n) == IF n = 0 THEN Default ELSE n

\* What handleList takes per_page for, and puts into meta; pkg/pagination
\* bounds it first.
PerPage ==
  IF store = "builder" /\ query.perPage > Cap THEN Cap ELSE parseInt(query.perPage)

PostgresLimit == IF PerPage > Cap THEN Default ELSE PerPage

TemplateLimit == IF PerPage > Cap THEN Cap ELSE PerPage

\* (wrong variant: the bound itself counts as too many)
Limit_BelowCap == IF PerPage >= Cap THEN Default ELSE PerPage

Limit == IF store = "template" THEN TemplateLimit ELSE PostgresLimit

Offset == (page - 1) * Limit

-----------------------------------------------------------------------------
Known(c) == query.column # "other" /\ c.op \in Operators

\* Of the columns here, a text has no order and the others no parts.
OperatorAllowed(c) ==
  c.op = "eq" \/ (query.column = "text") = (c.op \in {"contains", "starts_with", "ends_with"})

Parsed ==
  /\ \A c \in query.filter : OperatorAllowed(c)
  /\ query.column = "other" => query.sort = ""

Accepted == (\A c \in query.filter : Known(c)) /\ (store = "builder" => Parsed)

\* A field that cannot be filtered by, or an operator nobody knows: 500; in
\* pkg/filters also one not made for the column, or a field not to sort by.
Refuse ==
  /\ step = "list" /\ ~Accepted
  /\ step' = "refused"
  /\ UNCHANGED <<table, writes, store, rank, budget, reader, query, page, total, items, where, shown, first, ghosts>>

Counted(filter, found) ==
  /\ step = "list" /\ Accepted
  /\ where' = filter
  /\ total' = Cardinality(found)
  /\ step' = "select"
  /\ UNCHANGED <<table, writes, store, rank, budget, reader, query, page, items, shown, first, ghosts>>

CountPostgres == store = "postgres" /\ Counted(query.filter, Found(query.filter))

CountTemplate == store = "template" /\ Counted(query.filter, Found(query.filter))

CountSql == store = "sql" /\ Counted(query.filter, Found(query.filter))

CountBuilder == store = "builder" /\ Counted(query.filter, BuilderFound)

CountMongo == store = "mongo" /\ \E f \in MongoFilter : Counted(f, Found(f))

\* The rows a statement returns, in an order it may return them in.
Returns(ids, order, offset, limit) ==
  \E s \in SetToSeqs(ids) :
    /\ Sorted(s, order)
    /\ items' = SubSeq(s, offset + 1, IF offset + limit <= Len(s) THEN offset + limit ELSE Len(s))
    /\ shown' = shown \o items'

Selected(found) ==
  /\ step = "select"
  /\ Returns(found, ListOrder, Offset, Limit)
  /\ step' = IF query.kind = "export" THEN "audit" ELSE "turn"
  /\ UNCHANGED <<table, writes, store, rank, budget, reader, query, page, total, where, first, ghosts>>

Select == store # "builder" /\ Selected(Found(where))

SelectBuilder == store = "builder" /\ Selected(BuilderFound)

\* The event with the count, then the file.
Exported ==
  /\ step = "audit"
  /\ step' = "done"
  /\ UNCHANGED <<table, writes, store, rank, budget, reader, query, page, total, items, where, shown, first, ghosts>>

ServerExport == store # "template" /\ Exported
TemplateExport == store = "template" /\ Exported

\* By meta, of the handlers or of pkg/pagination, there is a page after this.
Meta == page * PerPage < total

\* The client, with nothing but meta to go by.
Turn ==
  /\ step = "turn"
  /\ IF Meta THEN page' = page + 1 /\ step' = "list"
                               ELSE step' = "done" /\ UNCHANGED page
  /\ UNCHANGED <<table, writes, store, rank, budget, reader, query, total, items, where, shown, first, ghosts>>

\* The log and the files are one statement.
Read(by, kind, order, limit) ==
  /\ step = "read" /\ store = by /\ query.kind = kind
  /\ Returns(Logged, order, 0, limit)
  /\ step' = "done"
  /\ UNCHANGED <<table, writes, store, rank, budget, reader, query, page, total, where, first, ghosts>>

\* (wrong variant: the oldest events first)
PostgresAudit_OldestFirst == Read("postgres", "audit", "+", Cap)

PostgresAudit == Read("postgres", "audit", "-", Cap)
TemplateAudit == Read("template", "audit", "-", Cap)
SqlAudit == Read("sql", "audit", "-", Cap)
MongoAudit == Read("mongo", "audit", "-", Cap)

\* pkg/audit: a Limit out of bounds becomes the nearest, or the default.
PGLogLimit ==
  CASE query.perPage = 0 -> Default
    [] query.perPage > Cap -> Cap
    [] OTHER -> query.perPage

MemoryLogLimit == IF query.perPage \in 1 .. Cap THEN query.perPage ELSE Default

ListPG == Read("pglog", "audit", "-", PGLogLimit)

\* The list from its end, whatever the events say of their time.
ListMemory == Read("memlog", "audit", "recorded", MemoryLogLimit)

PostgresFiles == Read("postgres", "files", "-", Cardinality(Ids))
TemplateFiles == Read("template", "files", "-", Cardinality(Ids))
SqlFiles == Read("sql", "files", "-", Cardinality(Ids))
MongoFiles == Read("mongo", "files", "-", Cardinality(Ids))

-----------------------------------------------------------------------------
\* Other requests, in statements of their own.
Write(i, row) ==
  /\ step \notin {"refused", "done"} /\ writes < budget
  /\ writes' = writes + 1
  /\ table' = [table EXCEPT ![i] = row]
  /\ torn' = (torn \/ step = "select")
  /\ UNCHANGED client

Arrives(i) ==
  /\ table[i] = None
  /\ \E row \in Row :
       /\ Write(i, row)
       /\ older' = (older \/ \E j \in Rows(table) : ~Before(table[j].value, row.value))
  /\ UNCHANGED removed

InsertRow(i) == store \notin Logs /\ Arrives(i)

\* Record: an event says when it was, or the clock does, and that before the
\* lock is taken; of the list it becomes the last.
RecordPG(i) == store = "pglog" /\ Arrives(i)
RecordMemory(i) ==
  /\ store = "memlog" /\ \A j \in Rows(table) : rank[j] < rank[i]
  /\ Arrives(i)

\* Nobody changes an event.
RemoveRow(i) ==
  /\ table[i] # None /\ store \notin Logs
  /\ Write(i, None)
  /\ removed' = TRUE /\ UNCHANGED older

UpdateRow(i) ==
  /\ table[i] # None /\ store \notin Logs
  /\ \E row \in Row : row.tenant = table[i].tenant /\ row # table[i] /\ Write(i, row)
  /\ removed' = TRUE /\ UNCHANGED older

ListingNext ==
  \/ Refuse \/ CountPostgres \/ CountTemplate \/ CountSql \/ CountMongo \/ CountBuilder
  \/ Select \/ SelectBuilder \/ ServerExport \/ TemplateExport \/ Turn
  \/ PostgresAudit \/ TemplateAudit \/ SqlAudit \/ MongoAudit \/ ListPG \/ ListMemory
  \/ PostgresFiles \/ TemplateFiles \/ SqlFiles \/ MongoFiles
  \/ \E i \in Ids : InsertRow(i) \/ RemoveRow(i) \/ UpdateRow(i) \/ RecordPG(i) \/ RecordMemory(i)

ListingSpec == ListingInit /\ [][ListingNext]_listingVars

-----------------------------------------------------------------------------
\* A primary key breaks the ties of the others.
NoTies(t) == store = "builder" \/ \A i, j \in Rows(t) : t[i].value = t[j].value => i = j
IsRange(c) == c.op \in {"gte", "lte", "gt", "lt"}

\* What the reader asked for: its own rows, compared in the column's own order.
Wanted(t) ==
  {i \in Rows(t) : Visible(t[i]) /\ \A c \in query.filter : Compares(c, t[i].value, Before)}

\* Where the stores keep to that: numbers as text have no ranges, and MongoDB
\* compares only texts, by one condition.
Honoured ==
  \/ query.filter = {}
  \/ store \in {"sql", "builder"}
  \/ store \in {"postgres", "template"}
     /\ (query.column = "number" => \A c \in query.filter : ~IsRange(c))
  \/ store = "mongo" /\ query.column = "text" /\ Cardinality(query.filter) = 1

\* A client who reads a table nobody writes, in an order without ties
\* (a QueryBuilder breaks them), sees every row it asked for once and in that
\* order (where, order, limit and offset of List, parseInt and meta, and the
\* Next button of the grid; Parse, Select and Count of pkg/filters and
\* pkg/postgres, and Meta of pkg/pagination).
QuietWalkIsComplete ==
  step = "done" /\ query.kind = "list" /\ writes = 0 /\ NoTies(table)
  /\ (ListOrder # "" \/ store = "builder") /\ PerPage <= Cap /\ Honoured =>
    /\ ToSet(shown) = Wanted(table) /\ Len(shown) = Cardinality(Wanted(table))
    /\ Sorted(shown, ListOrder)

\* Newest first, rows that arrive meanwhile push others back and never out:
\* whatever was there at the start is seen, if no count was torn from its page.
ArrivalsHideNothing ==
  step = "done" /\ query.kind = "list" /\ ListOrder = "-" /\ PerPage <= Cap /\ Honoured
  /\ ~removed /\ ~older /\ ~torn /\ NoTies(first) =>
    Wanted(first) \subseteq ToSet(shown)

\* What a reading takes at most, of a Limit within the bounds.
Room == IF query.perPage = 0 THEN Default ELSE query.perPage

\* i happened before j: of the list in memory, it was recorded before.
Older(i, j) ==
  IF store = "memlog" THEN rank[i] < rank[j] ELSE ~Before(table[j].value, table[i].value)

\* An export, an audit log and the list of files come in one reading: it is
\* whole if it fits, and else full, and of a log the newest part, newest first
\* (handleExport, Audit and Files of every store, List of pkg/audit).
ReadingIsWhole ==
  step = "done" /\ query.kind # "list" /\ writes = 0 /\ query.perPage <= Cap =>
    LET all == IF query.kind = "export" THEN Wanted(table)
               ELSE {i \in Rows(table) :
                       /\ \/ reader.tenant \in {NoTenant, table[i].tenant}
                          \/ reader.super /\ store \notin Logs
                       /\ \A c \in query.filter : Compares(c, table[i].value, Before)}
    IN /\ ToSet(shown) \subseteq all /\ Len(shown) = Cardinality(ToSet(shown))
       /\ IF query.kind = "files" \/ Cardinality(all) <= Room THEN ToSet(shown) = all
          ELSE Len(shown) = Room
       /\ query.kind = "audit" =>
            \A k \in DOMAIN shown :
              \A i \in (all \ ToSet(shown)) \union {shown[n] : n \in k + 1 .. Len(shown)} :
                Older(i, shown[k])
=============================================================================

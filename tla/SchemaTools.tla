----------------------------- MODULE SchemaTools -----------------------------
(***************************************************************************)
(* The schema MCP tools (src/zen/schema_mcp/tools.py, queries.py,          *)
(* normalizer.py) in one run of the agent.  The registry file is read when *)
(* the prompt is built, by each tool call, and when the reply names the    *)
(* databases of the draft (orchestrator.py), and others edit it meanwhile. *)
(* The queries of a call are answered one by one, from databases whose     *)
(* tables may change in between, and their rows are put together at the    *)
(* end.                                                                    *)
(*                                                                         *)
(* An edit is one step, as the store promises (Registry); the session, the *)
(* retries and the task group are in MetabaseClient.  A document is the    *)
(* sequence of the sources of all its repositories and environments.       *)
(***************************************************************************)
EXTENDS Naturals, Sequences, FiniteSets, SequencesExt

CONSTANTS
    Call,           \* the tool calls of the run
    Database,       \* Metabase databases: their ids, with their names
    Name,           \* names of schemas and tables
    Invalid,        \* those that are no identifiers to queries.py
    Odd,            \* names of columns, in items, that are none to models/metadata.py
    Folded,         \* a name as the database compares it, without its case
    Document,       \* what the registry file may hold
    Malformed,      \* a file that is no registry document
    Catalog,        \* what information_schema may hold, by database
    Asks,           \* the arguments the agent may call tools with
    Drafts,         \* the schemas its draft may use
    MaxEdits,       \* bound: edits of the registry
    MaxMigrations,  \* bound: changes of the tables
    None

\* The queries of a call, named for what they ask for.
Query == {"columns", "indexes", "partitions", "relationships", "matches"}

Source == [db : Database, schema : Name \cup {None}]

\* limit is the number of matches a search may return, 0 if the limit or the
\* pattern is refused; the names of a search are those its pattern matches.
Ask == [tool : {"tables", "relationships", "search"}, db : Database,
        schemas : SUBSET Name, names : SUBSET Name, wanted : SUBSET Query,
        limit : Nat]

ASSUME BoundsAssumption == MaxEdits \in Nat /\ MaxMigrations \in Nat
ASSUME NameAssumption == None \notin Name /\ Invalid \subseteq Name /\ Folded \in [Name -> Name]
ASSUME OddAssumption == Odd \subseteq STRING
ASSUME DocumentAssumption ==
    /\ Document # {} /\ Malformed \notin Seq(Source)
    /\ Document \subseteq Seq(Source) \cup {Malformed}

\* Each tool has queries of its own.
ASSUME AgentAssumption ==
    /\ Asks \subseteq Ask /\ Drafts \subseteq SUBSET Name
    /\ \A a \in Asks :
          /\ a.tool = "tables" => "matches" \notin a.wanted
          /\ a.tool = "relationships" => a.wanted = {"relationships"}
          /\ a.tool = "search" => a.wanted = {"matches"}

\* A table by its schema and name.  What is said of a column, a partition or a
\* relationship is one item.
Relation == [key : Name \X Name, columns : Seq(STRING), partitions : Seq(STRING),
             relationships : Seq(STRING),
             indexes : Seq([name : STRING, columns : Seq(STRING)])]

ASSUME CatalogAssumption ==
    \A cat \in Catalog : \A db \in Database :
        /\ cat[db] \subseteq Relation /\ IsFiniteSet(cat[db])
        /\ \A t, u \in cat[db] : t.key = u.key => t = u
        /\ \A t \in cat[db] : \A i, j \in DOMAIN t.indexes :
              /\ t.indexes[i].columns # <<>>
              /\ t.indexes[i].name = t.indexes[j].name => i = j

VARIABLES
    history,  \* the documents the registry file has held
    catalog, migrations,
    prompt,   \* the one the prompt was built from, by its place, 0 for none
    at,       \* where each tool call is
    ask, read, schemas,  \* its arguments, its document, its schemas
    payload,  \* the rows that have come back, by query
    seen,     \* history variable: the catalog each query was answered from
    answer,
    guided,   \* the document the reply was built from, 0 for no reply yet
    draft,    \* the schemas of the tables the draft refers to
    guide     \* the databases the reply names

calls == <<at, ask, read, schemas, payload, seen, answer>>
replyVars == <<guided, draft, guide>>
vars == <<history, catalog, migrations, prompt, calls, replyVars>>

Current == history[Len(history)]

Sources(d) == IF d = Malformed THEN <<>> ELSE d

-----------------------------------------------------------------------------
(* What is read from a document: the allowlist and schemas of a call, the  *)
(* sources of the prompt, the databases of the reply.                      *)

\* Mutant: only the first environment counts.
Allowed_First(d) == {Sources(d)[i].db : i \in DOMAIN Sources(d) \cap {1}}

Allowed(d) == {s.db : s \in ToSet(Sources(d))}

Declared(db, d) == {s.schema : s \in {t \in ToSet(Sources(d)) : t.db = db}} \ {None}

\* _resolve_schemas; a search without schemas goes over the whole database.
SchemasFor(a, d) ==
    IF a.schemas # {} \/ a.tool = "search" THEN a.schemas ELSE Declared(a.db, d)

\* Mutant: schemas that nobody has given or declared are not noticed.
IllFormed_NoSchemas(a, d) ==
    \/ a.tool = "search" /\ a.limit = 0
    \/ a.tool # "search" /\ a.names = {}
    \/ a.wanted # {} /\ SchemasFor(a, d) \cap Invalid # {}
    \/ a.wanted # {} /\ a.tool # "search" /\ a.names \cap Invalid # {}

\* The arguments no query is built from.  The pattern of a search is escaped,
\* names are checked only by the builder of a query that is wanted.
IllFormed(a, d) ==
    \/ a.tool = "search" /\ a.limit = 0
    \/ a.tool # "search" /\ (a.names = {} \/ SchemasFor(a, d) = {})
    \/ a.wanted # {} /\ SchemasFor(a, d) \cap Invalid # {}
    \/ a.wanted # {} /\ a.tool # "search" /\ a.names \cap Invalid # {}

Refused(a, d) == a.db \notin Allowed(d) \/ IllFormed(a, d)

Listed(d) == ToSet(Sources(d))

\* Mutant: the dictionary is made anew for each repository.
GuideTo_LastRepo(D, d) ==
    {Sources(d)[i].db : i \in {k \in DOMAIN Sources(d) :
        k = Len(Sources(d)) /\ Sources(d)[k].schema \in D}}

\* The last declaration of a schema is the one kept.
LastOfSchema(i, s) == \A j \in DOMAIN s : j > i => s[j].schema # s[i].schema

GuideTo(D, d) ==
    {Sources(d)[i].db : i \in {k \in DOMAIN Sources(d) :
        Sources(d)[k].schema \in D /\ LastOfSchema(k, Sources(d))}}

-----------------------------------------------------------------------------
(* What a database answers (external).  It compares names without case,    *)
(* and tables whose names are equal to it come in one sort group, so how   *)
(* the rows of several tables interleave is left open.                     *)

Fold(N) == {Folded[n] : n \in N}

InSchemas(t, S) == S = {} \/ Folded[t.key[1]] \in Fold(S)

Matched(a, S, cat) ==
    {t \in cat[a.db] : InSchemas(t, S) /\ Folded[t.key[2]] \in Fold(a.names)}

RowsOf(t, p) ==
    IF p = "indexes"
    THEN FlattenSeq([i \in DOMAIN t.indexes |->
             [j \in DOMAIN t.indexes[i].columns |->
                 [key |-> t.key, item |-> t.indexes[i].name,
                  column |-> t.indexes[i].columns[j]]]])
    ELSE [i \in DOMAIN t[p] |-> [key |-> t.key, item |-> t[p][i], column |-> None]]

Merged(T, p) ==
    LET n == Cardinality(UNION {{t} \X DOMAIN RowsOf(t, p) : t \in T})
        Turns == {w \in [1..n -> T] : \A t \in T :
                    Cardinality({i \in 1..n : w[i] = t}) = Len(RowsOf(t, p))}
    IN  {[i \in 1..n |->
            RowsOf(w[i], p)[Cardinality({j \in 1..i : w[j] = w[i]})]] : w \in Turns}

Min2(m, n) == IF m < n THEN m ELSE n

\* Of the matches of a search only their set is kept.
Hits(a, S, cat) ==
    {H \in SUBSET {[key |-> t.key] : t \in Matched(a, S, cat)} :
        Cardinality(H) = Min2(a.limit, Cardinality(Matched(a, S, cat)))}

Results(a, S, p, cat) ==
    IF a.tool = "search" THEN Hits(a, S, cat) ELSE Merged(Matched(a, S, cat), p)

-----------------------------------------------------------------------------
(* normalizer.py: rows to lists of items, by table.                        *)

\* The elements of s at some places, in their order.
Select(s, places) ==
    [j \in 1..Cardinality(places) |->
        s[CHOOSE i \in places : Cardinality({h \in places : h <= i}) = j]]

Keys(rows) == {r.key : r \in ToSet(rows)}

OfTable(rows, k) == Select(rows, {i \in DOMAIN rows : rows[i].key = k})

Distinct(s) == Select(s, {i \in DOMAIN s : \A h \in 1..(i - 1) : s[h] # s[i]})

Items(rows) == [i \in DOMAIN rows |-> rows[i].item]

Columns(rows, n) ==
    LET own == Select(rows, {i \in DOMAIN rows : rows[i].item = n})
    IN  [i \in DOMAIN own |-> own[i].column]

\* Mutant: the columns of indexes of one name run together.
Indexes_ByName(rows) ==
    [k \in Keys(rows) |->
        LET names == Distinct(Items(OfTable(rows, k)))
        IN  [i \in DOMAIN names |->
                [name |-> names[i], columns |-> Columns(rows, names[i])]]]

\* The indexes of a table in the order of their first rows, each with its
\* columns in the order of theirs.
Indexes(rows) ==
    [k \in Keys(rows) |->
        LET names == Distinct(Items(OfTable(rows, k)))
        IN  [i \in DOMAIN names |->
                [name |-> names[i], columns |-> Columns(OfTable(rows, k), names[i])]]]

Normalized(p, rows) ==
    IF p = "indexes" THEN Indexes(rows)
    ELSE [k \in Keys(rows) |-> Items(OfTable(rows, k))]

\* What becomes an identifier of a model in models/metadata.py.
Validated == {"columns", "indexes", "relationships"}

Identifier(p, r) == IF p = "indexes" THEN r.column ELSE r.item

\* Mutant: models are made of the tables asked for only.
Spoils_Asked(a, rows) ==
    \E p \in a.wanted \cap Validated :
        \E r \in ToSet(rows[p]) : Identifier(p, r) \in Odd /\ r.key[2] \in a.names

\* One odd name is enough for an error, in the rows of whichever table: they
\* all become models before the tables are sorted out.
Spoils(a, rows) ==
    \E p \in a.wanted \cap Validated : \E r \in ToSet(rows[p]) : Identifier(p, r) \in Odd

\* The tables of an answer: each that some query has brought up under a name
\* and a schema exactly as asked, with what every query says of it.
Tables(a, S, rows) ==
    LET parts == [p \in a.wanted |-> Normalized(p, rows[p])]
        found == UNION {DOMAIN parts[p] : p \in a.wanted}
    IN  {[key |-> k, parts |-> [p \in a.wanted |->
            IF k \in DOMAIN parts[p] THEN parts[p][k] ELSE <<>>]] :
                k \in {f \in found : f[2] \in a.names /\ f[1] \in S}}

AnswerOf(a, S, rows) ==
    CASE a.tool = "tables" -> Tables(a, S, rows)
      [] a.tool = "relationships" ->
            {[item |-> r.item] : r \in ToSet(rows["relationships"])}
      [] a.tool = "search" -> rows["matches"]

-----------------------------------------------------------------------------

TypeOK ==
    /\ history \in Seq(Document) /\ Len(history) \in 1..(MaxEdits + 1)
    /\ catalog \in Catalog /\ migrations \in 0..MaxMigrations
    /\ prompt \in 0..Len(history) /\ guided \in 0..Len(history)
    /\ at \in [Call -> {"idle", "asking", "refused", "failed", "spoiled", "returned"}]
    /\ ask \in [Call -> Asks \cup {None}]
    /\ read \in [Call -> 0..Len(history)]
    /\ schemas \in [Call -> SUBSET Name]
    /\ \A c \in Call : at[c] # "idle" => ask[c] \in Asks /\ read[c] > 0
    /\ \A c \in Call : at[c] = "asking" =>
          /\ DOMAIN payload[c] \subseteq ask[c].wanted
          /\ ask[c].tool # "search" => schemas[c] # {}
    /\ draft \subseteq Name /\ guide \subseteq Database

Nothing == [c \in Call |-> <<>>]

Init ==
    /\ history \in {<<d>> : d \in Document}
    /\ catalog \in Catalog /\ migrations = 0
    /\ prompt = 0
    /\ at = [c \in Call |-> "idle"]
    /\ ask = [c \in Call |-> None]
    /\ read = [c \in Call |-> 0]
    /\ schemas = [c \in Call |-> {}]
    /\ payload = Nothing /\ seen = Nothing
    /\ answer = [c \in Call |-> {}]
    /\ guided = 0 /\ draft = {} /\ guide = {}

\* The prompt lists the registered sources; a registry that cannot be read
\* only leaves it without them.
BuildPrompt ==
    /\ prompt = 0
    /\ prompt' = Len(history)
    /\ UNCHANGED <<history, catalog, migrations, calls, replyVars>>

\* A tool is called: allowlist, schemas and queries come from the document as
\* it is now, before the first query goes out.
CallTool(c, a) ==
    /\ prompt # 0 /\ guided = 0 /\ at[c] = "idle"
    /\ ask' = [ask EXCEPT ![c] = a]
    /\ read' = [read EXCEPT ![c] = Len(history)]
    /\ schemas' = [schemas EXCEPT ![c] = SchemasFor(a, Current)]
    /\ at' = [at EXCEPT ![c] = IF Refused(a, Current) THEN "refused" ELSE "asking"]
    /\ UNCHANGED <<history, catalog, migrations, prompt, payload, seen, answer, replyVars>>

With(f, p, v) == [q \in DOMAIN f \cup {p} |-> IF q = p THEN v ELSE f[q]]

\* One of the queries is answered.
Result(c, p) ==
    /\ at[c] = "asking" /\ p \in ask[c].wanted \ DOMAIN payload[c]
    /\ \E rows \in Results(ask[c], schemas[c], p, catalog) :
          payload' = [payload EXCEPT ![c] = With(@, p, rows)]
    /\ seen' = [seen EXCEPT ![c] = With(@, p, catalog)]
    /\ UNCHANGED <<history, catalog, migrations, prompt, at, ask, read, schemas, answer, replyVars>>

\* One of them fails, and with it the call.
QueryFails(c) ==
    /\ at[c] = "asking" /\ ask[c].wanted # DOMAIN payload[c]
    /\ at' = [at EXCEPT ![c] = "failed"]
    /\ payload' = [payload EXCEPT ![c] = <<>>]
    /\ seen' = [seen EXCEPT ![c] = <<>>]
    /\ UNCHANGED <<history, catalog, migrations, prompt, ask, read, schemas, answer, replyVars>>

\* All are answered, but the rows make no models: the ValidationError ends the
\* call.
ModelsFail(c) ==
    /\ at[c] = "asking" /\ ask[c].wanted = DOMAIN payload[c]
    /\ Spoils(ask[c], payload[c])
    /\ at' = [at EXCEPT ![c] = "spoiled"]
    /\ payload' = [payload EXCEPT ![c] = <<>>]
    /\ UNCHANGED <<history, catalog, migrations, prompt, ask, read, schemas, seen, answer, replyVars>>

Return(c) ==
    /\ at[c] = "asking" /\ ask[c].wanted = DOMAIN payload[c]
    /\ ~Spoils(ask[c], payload[c])
    /\ at' = [at EXCEPT ![c] = "returned"]
    /\ answer' = [answer EXCEPT ![c] = AnswerOf(ask[c], schemas[c], payload[c])]
    /\ payload' = [payload EXCEPT ![c] = <<>>]
    /\ UNCHANGED <<history, catalog, migrations, prompt, ask, read, schemas, seen, replyVars>>

\* The agent is done, and its draft is valid: the reply names the databases of
\* the schemas its tables are written with.
Reply(D) ==
    /\ prompt # 0 /\ guided = 0
    /\ \A c \in Call : at[c] # "asking"
    /\ guided' = Len(history)
    /\ draft' = D
    /\ guide' = GuideTo(D, Current)
    /\ UNCHANGED <<history, catalog, migrations, prompt, calls>>

\* The registry is edited, as long as somebody will read it.
EditRegistry(d) ==
    /\ guided = 0 /\ Len(history) <= MaxEdits /\ d # Current
    /\ history' = Append(history, d)
    /\ UNCHANGED <<catalog, migrations, prompt, calls, replyVars>>

\* Tables are created, altered and dropped in the databases.
Migrate(k) ==
    /\ guided = 0 /\ migrations < MaxMigrations /\ k # catalog
    /\ catalog' = k
    /\ migrations' = migrations + 1
    /\ UNCHANGED <<history, prompt, calls, replyVars>>

Next ==
    \/ BuildPrompt
    \/ \E c \in Call :
          \/ \E a \in Asks : CallTool(c, a)
          \/ \E p \in Query : Result(c, p)
          \/ QueryFails(c) \/ ModelsFail(c) \/ Return(c)
    \/ \E D \in Drafts : Reply(D)
    \/ \E d \in Document : EditRegistry(d)
    \/ \E k \in Catalog : Migrate(k)

Spec == Init /\ [][Next]_vars

-----------------------------------------------------------------------------
(* Properties.                                                             *)

\* The part p of table k as a catalog has it, empty if it has no such table.
PartIn(cat, db, k, p) ==
    IF \E t \in cat[db] : t.key = k
    THEN (CHOOSE t \in cat[db] : t.key = k)[p] ELSE <<>>

\* The answer to a call, from what each of its queries was answered from.
Reference(a, S, from) ==
    CASE a.tool = "tables" ->
            {[key |-> k, parts |-> [p \in a.wanted |-> PartIn(from[p], a.db, k, p)]] :
                k \in {h \in S \X a.names :
                    \E p \in a.wanted : PartIn(from[p], a.db, h, p) # <<>>}}
      [] a.tool = "relationships" ->
            {[item |-> i] : i \in UNION {ToSet(t.relationships) :
                                t \in Matched(a, S, from["relationships"])}}
      [] a.tool = "search" -> {[key |-> t.key] : t \in Matched(a, S, from["matches"])}

HasOdd(t, p) ==
    IF p = "indexes" THEN \E i \in DOMAIN t.indexes : ToSet(t.indexes[i].columns) \cap Odd # {}
    ELSE ToSet(t[p]) \cap Odd # {}

\* Some table that the database takes for one asked for has an odd name of a
\* column, an indexed column or a relationship, as the query for it found it.
OddFound(a, S, from) ==
    \E p \in a.wanted \cap Validated : \E t \in Matched(a, S, from[p]) : HasOdd(t, p)

\* A call whose queries were all answered gives no answer exactly if one of them
\* found an odd name, in a table that the answer would leave out, too.  Whatever
\* the order of the rows, and whichever tables share a name or the name of an
\* index, an answer has the tables asked for of which some query found something,
\* and of each all the columns, indexes and the rest in their order as the query
\* for them found it: the parts of one answer may be of different times.  A
\* search may leave matches out, but only above its limit (tools.py:154-207,
\* 232-237, 262-269, normalizer.py:39-127, models/metadata.py:40-78).
AnswerFaithful ==
    \A c \in Call : at[c] \in {"returned", "spoiled"} =>
        LET whole == Reference(ask[c], schemas[c], seen[c])
        IN  IF OddFound(ask[c], schemas[c], seen[c]) THEN at[c] = "spoiled"
            ELSE /\ at[c] = "returned"
                 /\ IF ask[c].tool = "search"
                    THEN /\ answer[c] \subseteq whole
                         /\ Cardinality(answer[c]) = Min2(ask[c].limit, Cardinality(whole))
                    ELSE answer[c] = whole

\* A call for a listed database that names tables, and no schemas but the one
\* listed with it.
ByTheBook(a, s) ==
    /\ a.tool # "search" /\ a.db = s.db /\ a.schemas \subseteq {s.schema}
    /\ a.names # {} /\ a.names \cap Invalid = {}

\* A call that keeps to a source of the prompt goes through, with the schema of
\* that source, whatever edits come between, unless they remove the source.
\* The one exception is a schema that is no identifier, which the registry
\* accepts: it spoils the calls that name it, and those for its database that
\* name no schemas (prompts.py:65-70, tools.py:52-97, queries.py:27-31).
PromptedIsServed ==
    \A c \in Call : at[c] # "idle" =>
        \A s \in Listed(history[prompt]) \cap Listed(history[read[c]]) :
            ByTheBook(ask[c], s) /\ s.schema # None =>
                \/ at[c] # "refused" /\ s.schema \in schemas[c]
                \/ \E o \in Listed(history[read[c]]) :
                      /\ o.db = s.db /\ o.schema \in Invalid
                      /\ ask[c].schemas = {} \/ o = s

\* The schemas of the tables that a call has found.
FoundBy(c) ==
    IF at[c] # "returned" \/ ask[c].tool = "relationships" THEN {}
    ELSE {t.key[1] : t \in answer[c]}

\* If the draft uses a schema that a call has found in a database, the reply
\* names that database or another one that is registered with the schema.  It
\* names none only if none is registered any more: the call had the schema from
\* a source that an edit has removed, or was a search or gave the schemas
\* itself, which nothing compares with the registry (orchestrator.py:103-120,
\* tools.py:88-97).
GuideNamesLookedUp ==
    guided # 0 =>
        \A c \in Call : \A s \in draft \cap FoundBy(c) :
            \/ ask[c].db \in guide
            \/ \E o \in Listed(history[guided]) :
                  o.schema = s /\ o.db # ask[c].db /\ o.db \in guide
            \/ /\ \A o \in Listed(history[guided]) : o.schema # s
               /\ \/ ask[c].tool = "search" \/ ask[c].schemas # {}
                  \/ [db |-> ask[c].db, schema |-> s] \in Listed(history[read[c]])
=============================================================================

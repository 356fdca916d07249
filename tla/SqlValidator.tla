---------------------------- MODULE SqlValidator ----------------------------
(***************************************************************************)
(* SqlSafetyValidator.validate (src/zen/sql_agent_server/validator.py),    *)
(* one step per rule, on a draft that has three readers: the rules on      *)
(* words see it without literals and comments, sqlglot parses it, and the  *)
(* server that somebody may run it on also executes what stands in an      *)
(* executable comment.                                                     *)
(*                                                                         *)
(* Of a statement the model keeps what these readers make of it: family    *)
(* and the rest are sqlglot's, words are the denied ones outside literals  *)
(* and comments, quoted those inside, calls the functions that sqlglot     *)
(* does not know, and writes says what the server would do: only read,     *)
(* write with the statement itself, or write with what an expression of it *)
(* evaluates, as a stored function or NEXTVAL does.                        *)
(***************************************************************************)
EXTENDS Naturals, Sequences, SequencesExt

CONSTANTS
    Drafts,     \* what the agent may write
    Metadatas,  \* the metadata it may be checked against: sequences of tables
    None        \* no metadata

\* The one family that the settings know.
Allowed == {"SELECT"}

TableRefs == [schema : STRING, name : STRING, as : STRING]

Statements ==
    [family : STRING, words : Seq(STRING), quoted : Seq(STRING), tx : BOOLEAN,
     calls : SUBSET STRING, writes : {"no", "itself", "expression"},
     selects : Seq([into : BOOLEAN, star : BOOLEAN, limit : BOOLEAN]), limit : BOOLEAN,
     tables : Seq(TableRefs), columns : SUBSET [of : STRING, name : STRING],
     ctes : SUBSET STRING, outputs : SUBSET STRING]

Tables == [schema : STRING, name : STRING, columns : SUBSET STRING]

ASSUME InputAssumption ==
    /\ Drafts \subseteq [form : {"blank", "unread", "garbled", "sql"}, marker : {"none", "comment", "literal"},
                         stmts : Seq(Statements)]
    /\ Metadatas \subseteq Seq(Tables)

\* What the rules make of SQL rests on this: a statement that writes itself
\* begins with a denied word or with transaction control, or sqlglot tells that
\* it is no SELECT or has an INTO.  Nothing is assumed of its expressions.
ASSUME GrammarAssumption ==
    \A d \in Drafts : \A i \in DOMAIN d.stmts :
        d.stmts[i].writes = "itself" =>
            \/ ToSet(d.stmts[i].words) # {} \/ d.stmts[i].tx
            \/ d.stmts[i].family \notin Allowed
            \/ \E j \in DOMAIN d.stmts[i].selects : d.stmts[i].selects[j].into

VARIABLES
    draft,     \* its form, its executable comment, its statements
    metadata,  \* retrieved_metadata
    strict,    \* strict_identifier_check
    pc,        \* the rule at hand; "raised" if validate has no report
    verdict,   \* "ok", or what the draft was refused for
    warnings,  \* what the report warns of
    tables     \* tables_referenced, or what is seen of them so far

vars == <<draft, metadata, strict, pc, verdict, warnings, tables>>

Refusals == {"EMPTY_SQL", "EXECUTABLE_COMMENT", "STATEMENT_FAMILY_DENIED", "UNPARSEABLE",
             "MULTI_STATEMENT", "IDENTIFIER_NOT_VERIFIED"}

Init ==
    /\ draft \in Drafts /\ metadata \in Metadatas \cup {None} /\ strict \in BOOLEAN
    /\ pc = "text" /\ verdict = "ok" /\ warnings = {} /\ tables = {}

\* Mutant: the report says so, and the next rules are tried all the same.
Fail_GoesOn(rule) == verdict' = rule /\ pc' = "parse"

Fail(rule) == verdict' = rule /\ pc' = "done"

Pass(next) == pc' = next /\ UNCHANGED verdict

-----------------------------------------------------------------------------
(* The text.                                                               *)

\* Mutant: the marker is looked for in the text without its comments.
Marked_Stripped == draft.marker = "code"

\* /*! or /*M!, even in a literal.
Marked == draft.marker # "none"

\* Mutant: words are looked for in the text as it is.
Words_Raw ==
    UNION {ToSet(draft.stmts[i].words \o draft.stmts[i].quoted) : i \in DOMAIN draft.stmts}

Words == UNION {ToSet(draft.stmts[i].words) : i \in DOMAIN draft.stmts}

CheckText ==
    /\ pc = "text"
    /\ IF draft.form = "blank" THEN Fail("EMPTY_SQL")
       ELSE IF Marked THEN Fail("EXECUTABLE_COMMENT")
       ELSE Pass("words")
    /\ UNCHANGED <<draft, metadata, strict, warnings, tables>>

\* No denied keyword is the name of an allowed family.
CheckWords ==
    /\ pc = "words"
    /\ IF Words # {} \/ \E i \in DOMAIN draft.stmts : draft.stmts[i].tx
       THEN Fail("STATEMENT_FAMILY_DENIED") ELSE Pass("parse")
    /\ UNCHANGED <<draft, metadata, strict, warnings, tables>>

-----------------------------------------------------------------------------
(* The statement.                                                          *)

stmt == draft.stmts[1]

\* Of what sqlglot raises, validate catches the ParseError.  Its tokenizer's
\* TokenError, for a quote that is not closed say, is none, nor is the
\* RecursionError of deeply nested text.
Parse ==
    /\ pc = "parse"
    /\ IF draft.form = "unread" THEN pc' = "raised" /\ UNCHANGED verdict
       ELSE IF draft.form = "garbled" THEN Fail("UNPARSEABLE")
       ELSE IF Len(draft.stmts) # 1 THEN Fail("MULTI_STATEMENT")
       ELSE Pass("family")
    /\ UNCHANGED <<draft, metadata, strict, warnings, tables>>

\* Mutant: INTO is looked for in the first SELECT only.
Into_First == stmt.selects # <<>> /\ stmt.selects[1].into

Into == \E i \in DOMAIN stmt.selects : stmt.selects[i].into

CheckFamily ==
    /\ pc = "family"
    /\ IF stmt.family \notin Allowed \/ Into
       THEN Fail("STATEMENT_FAMILY_DENIED") ELSE Pass("names")
    /\ UNCHANGED <<draft, metadata, strict, warnings, tables>>

-----------------------------------------------------------------------------
(* The names, if there is metadata to check them against.                  *)

Fits(r, t) == r.name = t.name /\ r.schema \in {"", t.schema}

\* The table that the reference r is taken for: the last of its name, if r
\* names no schema.
Match(r) == metadata[Max({j \in DOMAIN metadata : Fits(r, metadata[j])})]

\* The places of the references that some table matches.
Known == {i \in DOMAIN stmt.tables : \E j \in DOMAIN metadata : Fits(stmt.tables[i], metadata[j])}

AllKnown == Known = DOMAIN stmt.tables

\* matched_by_name: of the tables of one name, the last.
ByName(n) == Match(stmt.tables[Max({i \in Known : stmt.tables[i].name = n})])

Names == {stmt.tables[i].name : i \in Known}

\* Mutant: an unqualified column is that of any table.
Targets_Any(c) == {ByName(n) : n \in IF c.of = "" THEN Names ELSE Names \cap {c.of}}

\* The table whose columns c is looked up in: the one that qualifies it or, if
\* there is only one, that one.  At most one.
Targets(c) ==
    IF c.of # "" THEN {ByName(n) : n \in Names \cap {c.of}}
    ELSE {ByName(n) : n \in {m \in Names : Names = {m} /\ AllKnown}}

UnknownColumns == {c \in stmt.columns : \E t \in Targets(c) : c.name \notin t.columns}

\* Mutant: unknown columns are only warned of.
Refused_Tables == strict /\ ~AllKnown

Refused == strict /\ (~AllKnown \/ UnknownColumns # {})

CheckNames ==
    /\ pc = "names" /\ metadata # None
    /\ IF Refused THEN Fail("IDENTIFIER_NOT_VERIFIED") ELSE Pass("risks")
    /\ tables' = IF Refused THEN tables
                 ELSE {<<Match(stmt.tables[i]).schema, stmt.tables[i].name>> : i \in Known}
    /\ warnings' = (IF AllKnown THEN {} ELSE {"tables"})
                     \cup (IF UnknownColumns = {} \/ (strict /\ ~AllKnown) THEN {} ELSE {"columns"})
    /\ UNCHANGED <<draft, metadata, strict>>

SkipNames ==
    /\ pc = "names" /\ metadata = None
    /\ Pass("risks")
    /\ UNCHANGED <<draft, metadata, strict, warnings, tables>>

-----------------------------------------------------------------------------
(* What the report of a passed draft says.                                 *)

\* A set operation is bounded by its arms, too.
Bounded ==
    \/ stmt.limit
    \/ Len(stmt.selects) > 1 /\ \A i \in DOMAIN stmt.selects : stmt.selects[i].limit

Suspicious == {"LOAD_FILE", "SLEEP", "BENCHMARK", "OUTFILE", "GET_LOCK"}

\* Mutant: no function is warned of.
Risks_NoCalls ==
    (IF \E i \in DOMAIN stmt.selects : stmt.selects[i].star THEN {"star"} ELSE {})
      \cup (IF Bounded THEN {} ELSE {"limit"})

Risks ==
    (IF \E i \in DOMAIN stmt.selects : stmt.selects[i].star THEN {"star"} ELSE {})
      \cup (IF Bounded THEN {} ELSE {"limit"})
      \cup (IF stmt.calls \cap Suspicious = {} THEN {} ELSE {"function"})

\* Mutant: only tables of the metadata are named.
Fallback_None == tables

\* Without a table of the metadata, the names as they are written.
Fallback ==
    IF tables # {} THEN tables ELSE {<<r.schema, r.name>> : r \in ToSet(stmt.tables)}

Report ==
    /\ pc = "risks"
    /\ warnings' = warnings \cup Risks
    /\ tables' = Fallback
    /\ Pass("done")
    /\ UNCHANGED <<draft, metadata, strict>>

Next == CheckText \/ CheckWords \/ Parse \/ CheckFamily \/ CheckNames \/ SkipNames \/ Report

Spec == Init /\ [][Next]_vars

-----------------------------------------------------------------------------
(* Properties.                                                             *)

TypeOK ==
    /\ pc \in {"text", "words", "parse", "family", "names", "risks", "done", "raised"}
    /\ verdict \in {"ok"} \cup Refusals
    /\ verdict # "ok" => pc = "done"
    /\ warnings \subseteq {"tables", "columns", "star", "limit", "function"}

Passed == pc = "done" /\ verdict = "ok"

\* What the server would make of the statement's names: a reference goes by
\* its alias, an unqualified column is of any table.
Present(c) ==
    \E r \in ToSet(stmt.tables), t \in ToSet(metadata) :
        c.of \in {"", r.as} /\ Fits(r, t) /\ c.name \in t.columns

Exists(r) == \E t \in ToSet(metadata) : Fits(r, t)

\* A table of the statement has a name that no other one has or goes by.
Distinct ==
    \A i, j \in DOMAIN stmt.tables :
        i # j => stmt.tables[i].name \notin {stmt.tables[j].name, stmt.tables[j].as}

\* A name of the statement that stands for something else than a table or a
\* column of it, or for more than one.
Misleading ==
    \/ stmt.ctes # {} \/ stmt.outputs # {}
    \/ ~Distinct
    \/ \E r \in ToSet(stmt.tables) : \E t, u \in ToSet(metadata) :
          t # u /\ Fits(r, t) /\ Fits(r, u)

\* What passes is one statement that does not itself write, to the server as
\* well, which executes the comments that sqlglot leaves out.  Its functions may
\* write; of the suspicious ones the report warns (validator.py:86, 118, 324).
PassedWritesByCallsOnly ==
    Passed =>
        /\ Len(draft.stmts) = 1 /\ draft.marker # "comment"
        /\ stmt.writes # "itself"
        /\ stmt.calls \cap Suspicious # {} => "function" \in warnings

\* One SELECT without INTO, denied words or a marker passes, whatever its
\* literals say, if there is no metadata or the server would find its names in
\* it.  Names that mislead are left out: there the code refuses some statements
\* that the server would run.
HarmlessPasses ==
    (/\ pc = "done" /\ draft.form = "sql" /\ draft.marker = "none"
     /\ Len(draft.stmts) = 1 /\ stmt.family = "SELECT" /\ stmt.words = <<>> /\ ~stmt.tx
     /\ \A i \in DOMAIN stmt.selects : ~stmt.selects[i].into
     /\ \/ metadata = None
        \/ /\ ~Misleading
           /\ \A r \in ToSet(stmt.tables) : Exists(r) \/ r.name \in stmt.ctes
           /\ \A c \in stmt.columns : Present(c) \/ (c.of = "" /\ c.name \in stmt.outputs))
    => verdict = "ok"

\* Under the strict check what passes names tables of the metadata only and, if
\* they are distinct, only columns that such a table has: those that the table's
\* name qualifies, unless it goes by an alias, and those of the only table.
\* Columns that an alias qualifies, and unqualified ones of joins, are not
\* checked (test_validator.py:266-275).
PassedIsVerified ==
    (Passed /\ strict /\ metadata # None) =>
        /\ \A r \in ToSet(stmt.tables) : Exists(r)
        /\ Distinct => \A c \in stmt.columns :
               \/ c.of # "" /\ \E r \in ToSet(stmt.tables) : c.of = r.name /\ r.as = r.name
               \/ c.of = "" /\ Len(stmt.tables) = 1
               => Present(c)

\* The report of a passed draft names each of its tables, so that the guide can
\* name their databases, unless only a warning is given for some of them.
TablesComplete ==
    Passed => \A r \in ToSet(stmt.tables) :
        \/ \E x \in tables : x[2] = r.name /\ r.schema \in {"", x[1]}
        \/ "tables" \in warnings
=============================================================================

--------------------------- MODULE MCSqlValidator ---------------------------
(* TLC instance of SqlValidator.                                           *)
EXTENDS SqlValidator

Sel == [into |-> FALSE, star |-> FALSE, limit |-> FALSE]

\* SELECT 1
One == [family |-> "SELECT", words |-> <<>>, quoted |-> <<>>, tx |-> FALSE,
        calls |-> {}, writes |-> "no",
        selects |-> <<Sel>>, limit |-> FALSE, tables |-> <<>>, columns |-> {},
        ctes |-> {}, outputs |-> {}]

Write(f, words) == [One EXCEPT !.family = f, !.words = words, !.writes = "itself", !.selects = <<>>]

\* INSERT, REPLACE, CALL, SET @x, SELECT INTO, and COMMIT.
Writes ==
    {Write("INSERT", <<"INSERT">>), Write("INSERT", <<"REPLACE">>), Write("COMMAND", <<"CALL">>),
     Write("SET", <<>>), [Write("COMMIT", <<>>) EXCEPT !.tx = TRUE]}
      \cup {[One EXCEPT !.writes = "itself", !.selects = s] :
              s \in {<<[Sel EXCEPT !.into = TRUE]>>, <<Sel, [Sel EXCEPT !.into = TRUE]>>}}

\* Of one SELECT or a UNION of two, with a denied word in a literal or as the
\* name of a function; and SHOW.
Reads ==
    {[One EXCEPT !.words = w, !.quoted = q, !.selects = s, !.limit = Len(s) = 1 /\ s[1].limit] :
        w \in {<<>>, <<"REPLACE">>}, q \in {<<>>, <<"UPDATE">>},
        s \in UNION {[1..n -> {Sel, [Sel EXCEPT !.star = TRUE], [Sel EXCEPT !.limit = TRUE]}] :
                       n \in 1..2}}
      \cup {[One EXCEPT !.family = "SHOW", !.selects = <<>>]}

\* SLEEP and a function of the user's that only read, GET_LOCK, NEXTVAL, and an
\* assignment, which sqlglot takes for no function.
Calls ==
    {[One EXCEPT !.calls = {"SLEEP"}], [One EXCEPT !.calls = {"f"}],
     [One EXCEPT !.calls = {"GET_LOCK", "f"}, !.writes = "expression"],
     [One EXCEPT !.calls = {"NEXTVAL"}, !.writes = "expression"],
     [One EXCEPT !.writes = "expression"]}

Ref(s, n, a) == [schema |-> s, name |-> n, as |-> a]

Refs == {Ref(s, n, a) : s \in {"", "s"}, n \in {"t", "u", "x"}, a \in {"t", "u"}}

Column(q, n) == [of |-> q, name |-> n]

\* From one table or two, with a column of either, an alias of a column or a
\* CTE in the place of a table.
Joins ==
    {[One EXCEPT !.tables = ts, !.columns = {c}] :
        ts \in {<<r>> : r \in Refs} \cup (Refs \X {Ref("", "u", "u"), Ref("r", "t", "v")}),
        c \in {Column(q, n) : q \in {"", "t", "u"}, n \in {"a", "b"}}}
      \cup {[One EXCEPT !.tables = <<Ref("", "t", "t")>>, !.columns = {Column("", "n")},
                        !.outputs = {"n"}],
            [One EXCEPT !.tables = <<Ref("", "w", "w")>>, !.ctes = {"w"}]}

Draft(form, marker, stmts) == [form |-> form, marker |-> marker, stmts |-> stmts]

SomeDrafts ==
    {Draft("blank", "none", <<>>), Draft("garbled", "none", <<One>>), Draft("sql", "none", <<>>)}
      \cup {Draft("unread", k, <<s>>) : k \in {"none", "literal"},
                                       s \in {One, Write("INSERT", <<"INSERT">>)}}
      \cup {Draft("sql", k, <<s>>) : k \in {"none", "comment", "literal"}, s \in Reads \cup Writes \cup Calls}
      \cup {Draft("sql", "none", <<One, s>>) : s \in {One} \cup Writes}
      \cup {Draft("sql", "none", <<s>>) : s \in Joins}

Table(s, n, cs) == [schema |-> s, name |-> n, columns |-> cs]

SomeMetadata ==
    {<<Table("s", "t", {"a"}), Table("s", "u", {"b"})>>,
     <<Table("s", "t", {"a"}), Table("r", "t", {"b"}), Table("r", "u", {"a", "b"})>>}
============================================================================

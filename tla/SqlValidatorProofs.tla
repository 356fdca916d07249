------------------------- MODULE SqlValidatorProofs -------------------------
(***************************************************************************)
(* What passes the validator, what is refused and what is reported,        *)
(* whatever drafts the agent may write.                                    *)
(***************************************************************************)
EXTENDS SqlValidator, SequenceLemmas

\* What the rules behind have made sure of.
RulesInv ==
    /\ draft \in Drafts
    /\ verdict # "ok" => pc = "done"
    /\ verdict = "ok" =>
          /\ pc # "text" => draft.marker = "none"
          /\ pc \notin {"text", "words"} =>
                \A i \in DOMAIN draft.stmts :
                    ToSet(draft.stmts[i].words) = {} /\ ~draft.stmts[i].tx
          /\ pc \in {"family", "names", "risks", "done"} => Len(draft.stmts) = 1
          /\ pc \in {"names", "risks", "done"} =>
                stmt.family \in Allowed /\ ~Into

LEMMA RulesInvInit == Init => RulesInv
BY DEF Init, RulesInv

LEMMA RulesInvNext == RulesInv /\ [Next]_vars => RulesInv'
<1> SUFFICES ASSUME RulesInv, [Next]_vars PROVE RulesInv'
    OBVIOUS
<1> USE DEF RulesInv, Fail, Pass, stmt, Into
<1>1. CASE CheckText
    BY <1>1 DEF CheckText, Marked
<1>2. CASE CheckWords
  <2>1. CASE verdict' = "ok"
    <3>1. Words = {} /\ \A i \in DOMAIN draft.stmts : ~draft.stmts[i].tx
      BY <1>2, <2>1 DEF CheckWords
    <3>2. \A i \in DOMAIN draft.stmts : ToSet(draft.stmts[i].words) = {}
      BY <3>1 DEF Words
    <3> QED BY <1>2, <2>1, <3>1, <3>2 DEF CheckWords
  <2>2. CASE verdict' # "ok"
    BY <1>2, <2>2 DEF CheckWords
  <2> QED BY <2>1, <2>2
<1>3. CASE Parse
    BY <1>3 DEF Parse
<1>4. CASE CheckFamily
    BY <1>4 DEF CheckFamily
<1>5. CASE CheckNames
    BY <1>5 DEF CheckNames
<1>6. CASE SkipNames
    BY <1>6 DEF SkipNames
<1>7. CASE Report
    BY <1>7 DEF Report
<1>8. CASE UNCHANGED vars
    BY <1>8 DEF vars
<1> QED BY <1>1, <1>2, <1>3, <1>4, <1>5, <1>6, <1>7, <1>8 DEF Next

\* What the warnings make of the statement's functions.
CallsInv ==
    /\ draft \in Drafts
    /\ verdict # "ok" => pc = "done"
    /\ verdict = "ok" /\ pc = "done" /\ stmt.calls \cap Suspicious # {} => "function" \in warnings

LEMMA CallsInvNext == CallsInv /\ [Next]_vars => CallsInv'
<1> SUFFICES ASSUME CallsInv, [Next]_vars PROVE CallsInv'
    OBVIOUS
<1> USE DEF CallsInv, Fail, Pass
<1>1. CASE CheckText \/ CheckWords \/ Parse \/ CheckFamily
  BY <1>1 DEF CheckText, CheckWords, Parse, CheckFamily
<1>2. CASE CheckNames
  BY <1>2 DEF CheckNames
<1>3. CASE SkipNames
  BY <1>3 DEF SkipNames
<1>4. CASE Report
  BY <1>4 DEF Report, Risks, stmt
<1>5. CASE UNCHANGED vars
  BY <1>5 DEF vars, stmt
<1> QED BY <1>1, <1>2, <1>3, <1>4, <1>5 DEF Next

\* What passes is one statement that does not itself write, executable comments
\* included, and its suspicious functions are warned of (validator.py:118-122,
\* 324-327): as far as GrammarAssumption goes, which says nothing of functions.
THEOREM PassedDraftWritesByCallsOnly == Spec => []PassedWritesByCallsOnly
<1>1. RulesInv /\ CallsInv => PassedWritesByCallsOnly
  <2> SUFFICES ASSUME RulesInv, CallsInv, Passed
               PROVE /\ Len(draft.stmts) = 1 /\ draft.marker # "comment"
                     /\ stmt.writes # "itself"
                     /\ stmt.calls \cap Suspicious # {} => "function" \in warnings
      BY DEF PassedWritesByCallsOnly
  <2>1. /\ draft \in Drafts /\ draft.marker = "none" /\ Len(draft.stmts) = 1
        /\ stmt.family \in Allowed /\ ~Into
        /\ \A i \in DOMAIN draft.stmts :
              ToSet(draft.stmts[i].words) = {} /\ ~draft.stmts[i].tx
    BY DEF RulesInv, Passed
  <2>2. 1 \in DOMAIN draft.stmts
    BY <2>1, InputAssumption
  <2>3. stmt.writes # "itself"
    BY <2>1, <2>2, GrammarAssumption DEF stmt, Into
  <2>4. stmt.calls \cap Suspicious # {} => "function" \in warnings
    BY DEF CallsInv, Passed
  <2> QED BY <2>1, <2>3, <2>4
<1>2. Init => CallsInv
  BY DEF Init, CallsInv
<1> QED BY <1>1, <1>2, CallsInvNext, RulesInvInit, RulesInvNext, PTL DEF Spec

\* A draft that is refused goes no further, and the report, unless sqlglot
\* raises what validate does not catch, gives only the warnings there are
\* (validator.py:169-344).
THEOREM ReportTypeCorrect == Spec => []TypeOK
<1>1. Init => TypeOK
  BY DEF Init, TypeOK
<1>2. TypeOK /\ [Next]_vars => TypeOK'
  <2> SUFFICES ASSUME TypeOK, [Next]_vars PROVE TypeOK'
      OBVIOUS
  <2> USE DEF TypeOK, Refusals, Fail, Pass
  <2>1. CASE CheckText \/ CheckWords \/ Parse \/ CheckFamily
    BY <2>1 DEF CheckText, CheckWords, Parse, CheckFamily
  <2>2. CASE CheckNames
    BY <2>2 DEF CheckNames
  <2>3. CASE SkipNames
    BY <2>3 DEF SkipNames
  <2>4. CASE Report
    BY <2>4 DEF Report, Risks
  <2>5. CASE UNCHANGED vars
    BY <2>5 DEF vars
  <2> QED BY <2>1, <2>2, <2>3, <2>4, <2>5 DEF Next
<1> QED BY <1>1, <1>2, PTL DEF Spec
-----------------------------------------------------------------------------
(* The names.                                                              *)

\* A reference that some table matches is taken for such a table.
LEMMA MatchFits ==
    ASSUME metadata \in Seq(Tables), NEW r, NEW j \in DOMAIN metadata, Fits(r, metadata[j])
    PROVE  Match(r) \in ToSet(metadata) /\ Fits(r, Match(r))
<1> DEFINE S == {k \in DOMAIN metadata : Fits(r, metadata[k])}
<1>1. S \subseteq 0..Len(metadata) /\ S # {} /\ Len(metadata) \in Nat
  OBVIOUS
<1>2. Max(S) \in S
  <2> HIDE DEF S
  <2> QED BY <1>1, MaxOf
<1> QED BY <1>2 DEF Match, ToSet

\* The table of a reference is found by its name, if the tables are distinct.
LEMMA ByNameOfOne ==
    ASSUME stmt.tables \in Seq(TableRefs), Distinct, NEW i \in Known
    PROVE  ByName(stmt.tables[i].name) = Match(stmt.tables[i])
<1> DEFINE S == {k \in Known : stmt.tables[k].name = stmt.tables[i].name}
<1>1. S = {i} /\ i \in Nat
  BY DEF Known, Distinct
<1>2. Max(S) = i
  <2> HIDE DEF S
  <2> QED BY <1>1 DEF Max
<1> QED BY <1>2 DEF ByName

LEMMA OneLong == ASSUME NEW S, NEW s \in Seq(S), Len(s) = 1 PROVE DOMAIN s = {1}
OBVIOUS

\* The draft has the shape of one, and so has the metadata.
LEMMA InputTypes ==
    ASSUME draft \in Drafts, metadata \in Metadatas \cup {None}, Len(draft.stmts) = 1
    PROVE  /\ DOMAIN draft.stmts = {1} /\ stmt \in Statements
           /\ stmt.tables \in Seq(TableRefs)
           /\ metadata # None => metadata \in Seq(Tables)
<1>1. draft.stmts \in Seq(Statements)
  BY InputAssumption
<1>2. DOMAIN draft.stmts = {1} /\ stmt \in Statements
  BY <1>1, OneLong DEF stmt
<1> QED BY <1>2, InputAssumption DEF Statements
-----------------------------------------------------------------------------
(* What is harmless passes.                                                *)

\* The premise of HarmlessPasses, at every step.
Harmless ==
    /\ draft.form = "sql" /\ draft.marker = "none"
    /\ Len(draft.stmts) = 1 /\ stmt.family = "SELECT" /\ stmt.words = <<>> /\ ~stmt.tx
    /\ \A i \in DOMAIN stmt.selects : ~stmt.selects[i].into
    /\ \/ metadata = None
       \/ /\ ~Misleading
          /\ \A r \in ToSet(stmt.tables) : Exists(r) \/ r.name \in stmt.ctes
          /\ \A c \in stmt.columns : Present(c) \/ (c.of = "" /\ c.name \in stmt.outputs)

HarmlessInv ==
    /\ draft \in Drafts /\ metadata \in Metadatas \cup {None}
    /\ Harmless => verdict = "ok"

\* The tables of a harmless statement are those of the metadata, and each of
\* its columns is looked up in the table where the server finds it.
LEMMA HarmlessIsVerified ==
    ASSUME draft \in Drafts, metadata \in Metadatas, metadata # None, Harmless
    PROVE  AllKnown /\ UnknownColumns = {}
<1>1. /\ stmt \in Statements /\ stmt.tables \in Seq(TableRefs) /\ metadata \in Seq(Tables)
  BY InputTypes DEF Harmless
<1>2. /\ ~Misleading /\ stmt.ctes = {} /\ stmt.outputs = {} /\ Distinct
      /\ \A r \in ToSet(stmt.tables) : Exists(r)
      /\ \A c \in stmt.columns : Present(c)
  BY DEF Harmless, Misleading, Distinct
<1>3. AllKnown
  <2> SUFFICES ASSUME NEW i \in DOMAIN stmt.tables
               PROVE  \E j \in DOMAIN metadata : Fits(stmt.tables[i], metadata[j])
      BY DEF AllKnown, Known
  <2> QED BY <1>2 DEF Exists, ToSet
<1>4. ASSUME NEW i \in DOMAIN stmt.tables, NEW t \in ToSet(metadata), Fits(stmt.tables[i], t)
      PROVE  t = ByName(stmt.tables[i].name)
  <2>1. i \in Known
    BY <1>3 DEF AllKnown
  <2>2. Match(stmt.tables[i]) \in ToSet(metadata) /\ Fits(stmt.tables[i], Match(stmt.tables[i]))
    BY <2>1, <1>1, MatchFits DEF Known
  <2>3. t = Match(stmt.tables[i])
    BY <2>2, <1>2, <1>4 DEF Misleading, ToSet
  <2> QED BY <2>1, <2>3, <1>1, <1>2, ByNameOfOne
<1>5. ASSUME NEW c \in stmt.columns, NEW u \in Targets(c) PROVE c.name \in u.columns
  <2>1. PICK i \in DOMAIN stmt.tables, t \in ToSet(metadata) :
           /\ c.of \in {"", stmt.tables[i].as}
           /\ Fits(stmt.tables[i], t) /\ c.name \in t.columns
    BY <1>2 DEF Present, ToSet
  <2>2. t = ByName(stmt.tables[i].name)
    BY <2>1, <1>4
  <2>3. CASE c.of # ""
    <3>1. u = ByName(c.of) /\ c.of \in Names
      BY <2>3 DEF Targets
    <3>2. PICK k \in Known : c.of = stmt.tables[k].name
      BY <3>1 DEF Names
    <3>3. k = i
      BY <2>1, <2>3, <3>2, <1>2 DEF Distinct, Known
    <3> QED BY <2>1, <2>2, <3>1, <3>2, <3>3
  <2>4. CASE c.of = ""
    <3>1. PICK n \in Names : u = ByName(n) /\ Names = {n}
      BY <2>4 DEF Targets
    <3>2. stmt.tables[i].name \in Names
      BY <1>3 DEF Names, AllKnown
    <3> QED BY <2>1, <2>2, <3>1, <3>2
  <2> QED BY <2>3, <2>4
<1> QED BY <1>3, <1>5 DEF UnknownColumns

LEMMA HarmlessInvNext == HarmlessInv /\ [Next]_vars => HarmlessInv'
<1> SUFFICES ASSUME HarmlessInv, [Next]_vars PROVE HarmlessInv'
    OBVIOUS
<1>0. draft' = draft /\ metadata' = metadata
  BY DEF Next, vars, CheckText, CheckWords, Parse, CheckFamily, CheckNames, SkipNames, Report
<1>1. Harmless' = Harmless
  BY <1>0 DEF Harmless, stmt, Misleading, Distinct, Exists, Present
<1> SUFFICES ASSUME Harmless PROVE verdict' = "ok"
    BY <1>0, <1>1 DEF HarmlessInv
<1>2. verdict = "ok" /\ draft \in Drafts /\ metadata \in Metadatas \cup {None}
  BY DEF HarmlessInv
<1>3. DOMAIN draft.stmts = {1}
  BY <1>2, InputTypes DEF Harmless
<1> USE DEF Fail, Pass
<1>4. CASE CheckText
  BY <1>4, <1>2 DEF CheckText, Harmless, Marked
<1>5. CASE CheckWords
  <2>1. ToSet(<<>>) = {}
    BY DEF ToSet
  <2>2. Words = {}
    BY <1>3, <2>1 DEF Words, Harmless, stmt
  <2> QED BY <1>5, <1>2, <1>3, <2>2 DEF CheckWords, Harmless, stmt
<1>6. CASE Parse
  BY <1>6, <1>2 DEF Parse, Harmless
<1>7. CASE CheckFamily
  BY <1>7, <1>2 DEF CheckFamily, Harmless, Into, Allowed
<1>8. CASE CheckNames
  <2>1. AllKnown /\ UnknownColumns = {}
    BY <1>8, <1>2, HarmlessIsVerified DEF CheckNames
  <2> QED BY <1>8, <1>2, <2>1 DEF CheckNames, Refused
<1>9. CASE SkipNames \/ Report \/ UNCHANGED vars
  BY <1>9, <1>2 DEF SkipNames, Report, vars
<1> QED BY <1>4, <1>5, <1>6, <1>7, <1>8, <1>9 DEF Next

\* A statement that only reads is not refused for its literals, and not for
\* names that the server finds where the metadata has them
\* (validator.py:169-302).
THEOREM HarmlessDraftPasses == Spec => []HarmlessPasses
<1>1. Init => HarmlessInv
  BY DEF Init, HarmlessInv
<1>2. HarmlessInv => HarmlessPasses
  BY DEF HarmlessInv, Harmless, HarmlessPasses
<1> QED BY <1>1, <1>2, HarmlessInvNext, PTL DEF Spec
-----------------------------------------------------------------------------
(* What passes is verified.                                                *)

\* Past the names, a draft that the strict check lets pass is not one that it
\* refuses.
NamesInv ==
    /\ draft \in Drafts /\ metadata \in Metadatas \cup {None}
    /\ verdict # "ok" => pc = "done"
    /\ verdict = "ok" /\ pc \in {"risks", "done"} /\ metadata # None => ~Refused

LEMMA NamesInvNext == NamesInv /\ [Next]_vars => NamesInv'
<1> SUFFICES ASSUME NamesInv, [Next]_vars PROVE NamesInv'
    OBVIOUS
<1>1. draft' = draft /\ metadata' = metadata /\ strict' = strict
  BY DEF Next, vars, CheckText, CheckWords, Parse, CheckFamily, CheckNames, SkipNames, Report
<1>2. Refused' = Refused
  BY <1>1 DEF Refused, AllKnown, UnknownColumns, Known, Targets, Names, ByName, Match, stmt, Fits
<1> USE <1>1, <1>2 DEF NamesInv, Fail, Pass
<1>3. CASE CheckText \/ CheckWords \/ Parse \/ CheckFamily
  BY <1>3 DEF CheckText, CheckWords, Parse, CheckFamily
<1>4. CASE CheckNames
  BY <1>4 DEF CheckNames
<1>5. CASE SkipNames
  BY <1>5 DEF SkipNames
<1>6. CASE Report
  BY <1>6 DEF Report
<1>7. CASE UNCHANGED vars
  BY <1>7 DEF vars
<1> QED BY <1>3, <1>4, <1>5, <1>6, <1>7 DEF Next

\* What the strict check lets pass names tables of the metadata only and, if
\* they are distinct, only such columns as it checks that they have: those that
\* a table's name qualifies and those of the only table (validator.py:244-302).
THEOREM PassedDraftIsVerified == Spec => []PassedIsVerified
<1>1. Init => NamesInv
  BY DEF Init, NamesInv
<1>2. ASSUME RulesInv, NamesInv PROVE PassedIsVerified
  <2> SUFFICES ASSUME Passed, strict, metadata # None
               PROVE  /\ \A r \in ToSet(stmt.tables) : Exists(r)
                      /\ Distinct => \A c \in stmt.columns :
                            \/ c.of # "" /\ \E r \in ToSet(stmt.tables) :
                                              c.of = r.name /\ r.as = r.name
                            \/ c.of = "" /\ Len(stmt.tables) = 1
                            => Present(c)
      BY DEF PassedIsVerified
  <2>1. Len(draft.stmts) = 1 /\ AllKnown /\ UnknownColumns = {}
    BY <1>2 DEF RulesInv, NamesInv, Passed, Refused
  <2>2. stmt.tables \in Seq(TableRefs) /\ metadata \in Seq(Tables)
    BY <1>2, <2>1, InputTypes DEF NamesInv
  <2>3. ASSUME NEW r \in ToSet(stmt.tables) PROVE Exists(r)
    BY <2>1 DEF AllKnown, Known, Exists, ToSet
  <2>4. ASSUME Distinct, NEW c \in stmt.columns, NEW i \in DOMAIN stmt.tables,
               ByName(stmt.tables[i].name) \in Targets(c), c.of \in {"", stmt.tables[i].as}
        PROVE  Present(c)
    <3>1. i \in Known /\ Distinct
      BY <2>1, <2>4 DEF AllKnown
    <3>2. Match(stmt.tables[i]) \in ToSet(metadata) /\ Fits(stmt.tables[i], Match(stmt.tables[i]))
      BY <3>1, <2>2, MatchFits DEF Known
    <3>3. ByName(stmt.tables[i].name) = Match(stmt.tables[i])
      BY <3>1, <2>2, ByNameOfOne
    <3>4. c.name \in Match(stmt.tables[i]).columns
      BY <2>1, <2>4, <3>3 DEF UnknownColumns
    <3> QED BY <3>2, <3>4, <2>4 DEF Present, ToSet
  <2>5. ASSUME NEW i \in DOMAIN stmt.tables PROVE stmt.tables[i].name \in Names
    BY <2>1 DEF AllKnown, Names
  <2>6. ASSUME Distinct, NEW c \in stmt.columns, c.of # "",
               NEW r \in ToSet(stmt.tables), c.of = r.name, r.as = r.name
        PROVE  Present(c)
    <3>1. PICK i \in DOMAIN stmt.tables : r = stmt.tables[i]
      BY DEF ToSet
    <3>2. ByName(r.name) \in Targets(c)
      BY <3>1, <2>5, <2>6 DEF Targets
    <3> QED BY <3>1, <3>2, <2>4, <2>6
  <2>7. ASSUME Distinct, NEW c \in stmt.columns, c.of = "", Len(stmt.tables) = 1
        PROVE  Present(c)
    <3>1. DOMAIN stmt.tables = {1}
      BY <2>2, <2>7, OneLong
    <3>2. Names = {stmt.tables[1].name}
      BY <3>1, <2>1 DEF Names, AllKnown
    <3>3. ByName(stmt.tables[1].name) \in Targets(c)
      BY <3>2, <2>1, <2>7 DEF Targets
    <3> QED BY <3>1, <3>3, <2>4, <2>7
  <2> QED BY <2>3, <2>6, <2>7
<1> QED BY <1>1, <1>2, NamesInvNext, RulesInvInit, RulesInvNext, PTL DEF Spec

-----------------------------------------------------------------------------
(* The tables of the report.                                               *)

\* Each table of the statement is among those of the report.
Covered ==
    \A r \in ToSet(stmt.tables) : \E x \in tables : x[2] = r.name /\ r.schema \in {"", x[1]}

\* Before the report is written, either it has all tables, or none, or a
\* warning says that some are unknown.
ReportInv ==
    /\ draft \in Drafts /\ metadata \in Metadatas \cup {None}
    /\ verdict # "ok" => pc = "done"
    /\ verdict = "ok" =>
          /\ pc \in {"family", "names", "risks", "done"} => Len(draft.stmts) = 1
          /\ pc \in {"text", "words", "parse", "family", "names"} => tables = {}
          /\ pc = "risks" => tables = {} \/ Covered \/ "tables" \in warnings
          /\ pc = "done" => Covered \/ "tables" \in warnings

LEMMA ReportInvNext == ReportInv /\ [Next]_vars => ReportInv'
<1> SUFFICES ASSUME ReportInv, [Next]_vars PROVE ReportInv'
    OBVIOUS
<1>1. draft' = draft /\ metadata' = metadata
  BY DEF Next, vars, CheckText, CheckWords, Parse, CheckFamily, CheckNames, SkipNames, Report
<1>2. stmt' = stmt
  BY <1>1 DEF stmt
<1> USE DEF Fail, Pass
<1>3. CASE CheckText \/ CheckWords \/ Parse \/ CheckFamily
  BY <1>3, <1>1 DEF ReportInv, CheckText, CheckWords, Parse, CheckFamily
<1>4. CASE CheckNames
  <2>1. CASE Refused \/ ~AllKnown
    BY <2>1, <1>4, <1>1 DEF ReportInv, CheckNames
  <2>2. CASE ~Refused /\ AllKnown
    <3> SUFFICES ASSUME verdict = "ok" PROVE Covered' 
        BY <1>4, <1>1 DEF ReportInv, CheckNames
    <3>1. stmt.tables \in Seq(TableRefs) /\ metadata \in Seq(Tables)
      BY <1>4, InputTypes DEF ReportInv, CheckNames
    <3>2. ASSUME NEW i \in DOMAIN stmt.tables
          PROVE  \E x \in tables' : /\ x[2] = stmt.tables[i].name
                                    /\ stmt.tables[i].schema \in {"", x[1]}
      <4>1. i \in Known
        BY <2>2 DEF AllKnown
      <4>2. Fits(stmt.tables[i], Match(stmt.tables[i]))
        BY <4>1, <3>1, MatchFits DEF Known
      <4>3. <<Match(stmt.tables[i]).schema, stmt.tables[i].name>> \in tables'
        BY <4>1, <1>4, <2>2 DEF CheckNames
      <4> QED BY <4>2, <4>3 DEF Fits
    <3>3. ASSUME NEW x \in ToSet(stmt.tables)
          PROVE  \E i \in DOMAIN stmt.tables : x = stmt.tables[i]
      BY DEF ToSet
    <3>4. \A r \in ToSet(stmt.tables) : \E x \in tables' : x[2] = r.name /\ r.schema \in {"", x[1]}
      <4> TAKE r \in ToSet(stmt.tables)
      <4>1. PICK i \in DOMAIN stmt.tables : r = stmt.tables[i]
        BY <3>3
      <4> QED BY <3>2, <4>1
    <3>5. stmt' = stmt
      BY <1>2
    <3> QED BY <3>4, <3>5 DEF Covered
  <2> QED BY <2>1, <2>2
<1>5. CASE SkipNames
  BY <1>5, <1>1 DEF ReportInv, SkipNames
<1>6. CASE Report
  <2>1. CASE tables # {}
    BY <2>1, <1>1, <1>2, <1>6 DEF ReportInv, Report, Fallback, Covered
  <2>2. CASE tables = {}
    <3>1. tables' = {<<r.schema, r.name>> : r \in ToSet(stmt.tables)}
      BY <2>2, <1>6 DEF Report, Fallback
    <3>2. ASSUME NEW r \in ToSet(stmt.tables)
          PROVE  \E x \in tables' : x[2] = r.name /\ r.schema \in {"", x[1]}
      <4>1. <<r.schema, r.name>> \in tables'
        BY <3>1
      <4> QED BY <4>1
    <3>3. Covered'
      BY <3>2, <1>2 DEF Covered
    <3> QED BY <3>3, <1>1, <1>6 DEF ReportInv, Report
  <2> QED BY <2>1, <2>2
<1>7. CASE UNCHANGED vars
  BY <1>7, <1>2 DEF ReportInv, vars, Covered
<1> QED BY <1>3, <1>4, <1>5, <1>6, <1>7 DEF Next

\* The report names every table of a draft that passes, in the schema that the
\* draft gives if it gives one, unless it warns of unknown ones
\* (validator.py:244-339).
THEOREM ReportNamesTables == Spec => []TablesComplete
<1>1. Init => ReportInv
  BY DEF Init, ReportInv
<1>2. ReportInv => TablesComplete
  BY DEF ReportInv, Covered, TablesComplete, Passed
<1> QED BY <1>1, <1>2, ReportInvNext, PTL DEF Spec
=============================================================================

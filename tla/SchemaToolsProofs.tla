-------------------------- MODULE SchemaToolsProofs --------------------------
(***************************************************************************)
(* What holds of the schema tools for every number of calls, sources and   *)
(* edits: types; that the prompt, the allowlist of a call and the          *)
(* databases of the reply agree as far as one document can make them; and  *)
(* that an answer is what the databases said, however rows interleave.     *)
(***************************************************************************)
EXTENDS SchemaTools, SequenceLemmas, FiniteSetTheorems

\* What a call keeps is what its document gives, and it was turned down
\* exactly if that document asks for it.
CallInv ==
    \A c \in Call : at[c] # "idle" =>
        /\ prompt # 0
        /\ schemas[c] = SchemasFor(ask[c], history[read[c]])
        /\ at[c] = "refused" <=> Refused(ask[c], history[read[c]])

\* A lookup reports tables of its own schemas only.
AnswerInv ==
    \A c \in Call : at[c] = "returned" /\ ask[c].tool = "tables" =>
        \A t \in answer[c] : t.key[1] \in schemas[c]

GuideInv == guided # 0 => guide = GuideTo(draft, history[guided])

\* No query of a call that has not begun has been answered.
PayloadInv ==
    /\ DOMAIN payload = Call /\ DOMAIN answer = Call
    /\ \A c \in Call : at[c] = "idle" => DOMAIN payload[c] = {}

ToolsInv == TypeOK /\ CallInv /\ AnswerInv /\ GuideInv /\ PayloadInv

\* A name that is some source's schema has a last source that declares it.
LEMMA LastDeclaration ==
    ASSUME NEW S, NEW s \in Seq(S), NEW n, NEW i \in DOMAIN s, s[i].schema = n
    PROVE  \E k \in DOMAIN s : s[k].schema = n /\ LastOfSchema(k, s)
<1> DEFINE FromEnd == {Len(s) - k : k \in {j \in DOMAIN s : s[j].schema = n}}
<1>1. FromEnd \subseteq Nat /\ FromEnd # {}
  BY DEF LastOfSchema
<1>2. \E x \in FromEnd : \A y \in FromEnd : ~ (<<y, x>> \in OpToRel(<, Nat))
  BY <1>1, NatLessThanWellFounded, WFMin
<1>3. PICK x \in FromEnd : \A y \in FromEnd : ~ (y < x)
  BY <1>1, <1>2 DEF OpToRel
<1>4. PICK k \in DOMAIN s : s[k].schema = n /\ x = Len(s) - k
  OBVIOUS
<1>5. ASSUME NEW j \in DOMAIN s, j > k, s[j].schema = n PROVE FALSE
  <2>1. Len(s) - j \in FromEnd
    BY <1>5
  <2> QED BY <2>1, <1>3, <1>4, <1>5
<1> QED BY <1>4, <1>5 DEF LastOfSchema

\* The sources of a document are sources.
LEMMA SourcesOf ==
    ASSUME NEW d \in Document
    PROVE  /\ Sources(d) \in Seq(Source)
           /\ \A i \in DOMAIN Sources(d) :
                 Sources(d)[i].db \in Database /\ Sources(d)[i].schema \in Name \cup {None}
<1>1. Sources(d) \in Seq(Source)
  BY DocumentAssumption DEF Sources
<1>2. ASSUME NEW i \in DOMAIN Sources(d) PROVE Sources(d)[i] \in Source
  BY <1>1
<1>3. ASSUME NEW x \in Source PROVE x.db \in Database /\ x.schema \in Name \cup {None}
  BY DEF Source
<1> QED BY <1>1, <1>2, <1>3

\* A document keeps its place in the history.
LEMMA HistoryGrows ==
    ASSUME NEW h \in Seq(Document), NEW d \in Document, NEW i \in 1..Len(h)
    PROVE  Append(h, d)[i] = h[i]
OBVIOUS

\* The schemas of a call are names.
LEMMA SchemasAreNames ==
    ASSUME NEW a \in Asks, NEW d \in Document
    PROVE  SchemasFor(a, d) \in SUBSET Name
<1>1. a.schemas \in SUBSET Name /\ a.db \in Database
  BY AgentAssumption DEF Ask
<1>2. ASSUME NEW t \in ToSet(Sources(d)) PROVE t.schema \in Name \cup {None}
  BY SourcesOf DEF ToSet
<1>3. Declared(a.db, d) \in SUBSET Name
  BY <1>2 DEF Declared
<1> QED BY <1>1, <1>3 DEF SchemasFor

\* The reply names databases.
LEMMA GuideIsDatabases ==
    ASSUME NEW D, NEW d \in Document
    PROVE  GuideTo(D, d) \subseteq Database
<1>1. ASSUME NEW i \in DOMAIN Sources(d) PROVE Sources(d)[i].db \in Database
  BY SourcesOf
<1> QED BY <1>1 DEF GuideTo

LEMMA ToolsInit == Init => ToolsInv
<1> SUFFICES ASSUME Init PROVE ToolsInv
  OBVIOUS
<1>1. PICK d \in Document : history = <<d>>
  BY DEF Init
<1>2. TypeOK
  BY <1>1, BoundsAssumption DEF Init, TypeOK
<1> QED BY <1>2 DEF Init, ToolsInv, CallInv, AnswerInv, GuideInv, PayloadInv, Nothing

LEMMA ToolsNext == ToolsInv /\ [Next]_vars => ToolsInv'
<1> SUFFICES ASSUME ToolsInv, [Next]_vars PROVE ToolsInv'
  OBVIOUS
<1> USE DEF ToolsInv, CallInv, AnswerInv, GuideInv, PayloadInv, TypeOK, calls, replyVars
<1>h. /\ history \in Seq(Document) /\ Len(history) \in Nat \ {0}
      /\ Current \in Document
  BY BoundsAssumption DEF Current
<1>1. CASE BuildPrompt
  BY <1>1, <1>h DEF BuildPrompt
<1>2. ASSUME NEW c \in Call, NEW a \in Asks, CallTool(c, a) PROVE ToolsInv'
  <2>1. SchemasFor(a, Current) \in SUBSET Name
    BY <1>h, SchemasAreNames
  <2>2. ~Refused(a, Current) /\ a.tool # "search" => SchemasFor(a, Current) # {}
    BY DEF Refused, IllFormed
  <2>3. TypeOK'
    BY <1>2, <1>h, <2>1, <2>2 DEF CallTool
  <2>4. CallInv'
    BY <1>2, <1>h DEF CallTool, Current
  <2>5. AnswerInv' /\ GuideInv' /\ PayloadInv'
    BY <1>2, <1>h DEF CallTool
  <2> QED BY <2>3, <2>4, <2>5
<1>3. ASSUME NEW c \in Call, NEW p \in Query, Result(c, p) PROVE ToolsInv'
  BY <1>3, <1>h DEF Result, With
<1>4. ASSUME NEW c \in Call, QueryFails(c) PROVE ToolsInv'
  BY <1>4, <1>h DEF QueryFails
<1>5. ASSUME NEW c \in Call, Return(c) PROVE ToolsInv'
  <2>1. ask[c].tool = "tables" =>
          \A t \in AnswerOf(ask[c], schemas[c], payload[c]) : t.key[1] \in schemas[c]
    BY DEF AnswerOf, Tables
  <2> QED BY <1>5, <1>h, <2>1 DEF Return
<1>5a. ASSUME NEW c \in Call, ModelsFail(c) PROVE ToolsInv'
  BY <1>5a, <1>h DEF ModelsFail
<1>6. ASSUME NEW D \in Drafts, Reply(D) PROVE ToolsInv'
  <2>1. D \subseteq Name /\ GuideTo(D, Current) \subseteq Database
    BY <1>h, AgentAssumption, GuideIsDatabases
  <2> QED BY <1>6, <1>h, <2>1 DEF Reply, Current
<1>7. ASSUME NEW d \in Document, EditRegistry(d) PROVE ToolsInv'
  <2>1. /\ history' \in Seq(Document) /\ Len(history') = Len(history) + 1
        /\ \A i \in 1..Len(history) : history'[i] = history[i]
    BY <1>7, <1>h, HistoryGrows DEF EditRegistry
  <2> QED BY <1>7, <1>h, <2>1, BoundsAssumption DEF EditRegistry
<1>8. ASSUME NEW k \in Catalog, Migrate(k) PROVE ToolsInv'
  BY <1>8, <1>h, BoundsAssumption DEF Migrate
<1>9. CASE UNCHANGED vars
  BY <1>9 DEF vars
<1> QED BY <1>1, <1>2, <1>3, <1>4, <1>5, <1>5a, <1>6, <1>7, <1>8, <1>9 DEF Next

LEMMA ToolsInvariant == Spec => []ToolsInv
BY ToolsInit, ToolsNext, PTL DEF Spec

\* The variables keep their types, and a query on the catalog that is asked
\* for something is never without schemas (tools.py:74-97).
THEOREM ToolsTypeCorrect == Spec => []TypeOK
<1>1. ToolsInv => TypeOK
  BY DEF ToolsInv
<1> QED BY <1>1, ToolsInvariant, PTL

\* A call that keeps to a source of the prompt goes through, whatever else the
\* registry holds and however it is edited, while it has that source and unless
\* a schema that the call takes is no identifier (prompts.py:65-70,
\* tools.py:52-97).
THEOREM PromptIsServed == Spec => []PromptedIsServed
<1>1. ToolsInv => PromptedIsServed
  <2> SUFFICES ASSUME ToolsInv, NEW c \in Call, at[c] # "idle",
                      NEW s \in Listed(history[read[c]]),
                      ByTheBook(ask[c], s), s.schema # None,
                      \A o \in Listed(history[read[c]]) :
                          o.db = s.db /\ (ask[c].schemas = {} \/ o = s)
                              => o.schema \notin Invalid
               PROVE  at[c] # "refused" /\ s.schema \in schemas[c]
    BY DEF PromptedIsServed
  <2> DEFINE d == history[read[c]]
  <2>1. /\ schemas[c] = SchemasFor(ask[c], d)
        /\ at[c] = "refused" <=> Refused(ask[c], d)
    BY DEF ToolsInv, CallInv
  <2>2. s \in ToSet(Sources(d)) /\ ask[c].db = s.db
    BY DEF Listed, ByTheBook
  <2>3. ask[c].db \in Allowed(d) /\ s.schema \in Declared(ask[c].db, d)
    BY <2>2 DEF Allowed, Declared
  <2>4. ask[c].schemas = {} => Declared(ask[c].db, d) \cap Invalid = {}
    BY <2>2 DEF Declared, Listed
  <2>5. s.schema \in SchemasFor(ask[c], d) /\ SchemasFor(ask[c], d) \cap Invalid = {}
    <3>1. CASE ask[c].schemas = {}
      BY <3>1, <2>3, <2>4 DEF SchemasFor, ByTheBook
    <3>2. CASE ask[c].schemas = {s.schema}
      BY <3>2, <2>2, <2>3, <2>4 DEF SchemasFor
    <3> QED BY <3>1, <3>2 DEF ByTheBook
  <2>6. ~Refused(ask[c], d)
    BY <2>3, <2>5 DEF Refused, IllFormed, ByTheBook
  <2> QED BY <2>1, <2>5, <2>6
<1> QED BY <1>1, ToolsInvariant, PTL

\* The reply names the database that a schema of the draft was found in, or
\* another one that is registered with it, as long as one is registered: if
\* none is, the schema came from a source that an edit has removed, or the call
\* was a search or gave it itself (orchestrator.py:103-120).
THEOREM GuideAgrees == Spec => []GuideNamesLookedUp
<1>1. ToolsInv => GuideNamesLookedUp
  <2> SUFFICES ASSUME ToolsInv, guided # 0, NEW c \in Call,
                      NEW n \in draft \cap FoundBy(c)
               PROVE  \/ ask[c].db \in guide
                      \/ \E o \in Listed(history[guided]) :
                            o.schema = n /\ o.db # ask[c].db /\ o.db \in guide
                      \/ /\ \A o \in Listed(history[guided]) : o.schema # n
                         /\ \/ ask[c].tool = "search" \/ ask[c].schemas # {}
                            \/ [db |-> ask[c].db, schema |-> n] \in Listed(history[read[c]])
    BY DEF GuideNamesLookedUp
  <2> DEFINE d == history[guided]
  <2>1. CASE \E o \in Listed(d) : o.schema = n
    <3>1. PICK i \in DOMAIN Sources(d) : Sources(d)[i].schema = n
      BY <2>1 DEF Listed, ToSet
    <3>2. d \in Document
      BY DEF ToolsInv, TypeOK
    <3>3. Sources(d) \in Seq(Source)
      BY <3>2, SourcesOf
    <3>4. PICK k \in DOMAIN Sources(d) :
             Sources(d)[k].schema = n /\ LastOfSchema(k, Sources(d))
      BY <3>1, <3>3, LastDeclaration
    <3>5. guide = GuideTo(draft, d)
      BY DEF ToolsInv, GuideInv
    <3>6. Sources(d)[k].db \in guide /\ Sources(d)[k] \in Listed(d)
      BY <3>4, <3>5 DEF GuideTo, Listed, ToSet
    <3> QED BY <3>4, <3>6
  <2>2. CASE ask[c].tool # "search" /\ ask[c].schemas = {}
    <3> DEFINE e == history[read[c]]
    <3>1. at[c] = "returned" /\ ask[c].tool # "relationships"
          /\ n \in {t.key[1] : t \in answer[c]}
      BY DEF FoundBy
    <3>2. ask[c] \in Asks /\ ask[c].tool = "tables" /\ e \in Document
      BY <2>2, <3>1, AgentAssumption DEF ToolsInv, TypeOK, Ask
    <3>3. n \in schemas[c] /\ schemas[c] = SchemasFor(ask[c], e)
      BY <3>1, <3>2 DEF ToolsInv, AnswerInv, CallInv
    <3>4. PICK o \in ToSet(Sources(e)) : o.db = ask[c].db /\ o.schema = n
      BY <2>2, <3>3 DEF SchemasFor, Declared
    <3>5. o \in Source
      BY <3>2, <3>4, SourcesOf DEF ToSet
    <3>6. o = [db |-> ask[c].db, schema |-> n]
      BY <3>4, <3>5 DEF Source
    <3> QED BY <2>1, <3>4, <3>6 DEF Listed
  <2> QED BY <2>1, <2>2
<1> QED BY <1>1, ToolsInvariant, PTL
-----------------------------------------------------------------------------
(* Picking the elements at some places of a sequence.                      *)

\* How many of the places are not behind i.
Rank(places, i) == Cardinality({h \in places : h <= i})

\* An interval of numbers and its subsets are finite.
LEMMA PlacesFinite ==
    ASSUME NEW n \in Nat, NEW A \in SUBSET (1..n)
    PROVE  IsFiniteSet(A) /\ Cardinality(A) \in Nat
<1>1. IsFiniteSet(1..n)
  BY FS_Interval
<1>2. IsFiniteSet(A)
  BY <1>1, FS_Subset
<1> QED BY <1>2, FS_CardinalityType

\* Some place has each rank.
LEMMA RankOnto ==
    ASSUME NEW n \in Nat, NEW A \in SUBSET (1..n), NEW j \in 1..Cardinality(A)
    PROVE  \E i \in A : Rank(A, i) = j
<1> DEFINE Good == {k \in Nat : \A B \in SUBSET (1..k) : \A r \in 1..Cardinality(B) :
                       \E i \in B : Rank(B, i) = r}
<1>1. 0 \in Good
  <2> SUFFICES ASSUME NEW B \in SUBSET (1..0), NEW r \in 1..Cardinality(B) PROVE FALSE
      OBVIOUS
  <2>1. B = {}
    OBVIOUS
  <2>2. Cardinality(B) = 0
    BY <2>1, FS_EmptySet
  <2> QED BY <2>2
<1>2. ASSUME NEW k \in Nat, k \in Good PROVE k + 1 \in Good
  <2> SUFFICES ASSUME NEW B \in SUBSET (1..(k + 1)), NEW r \in 1..Cardinality(B)
               PROVE  \E i \in B : Rank(B, i) = r
      OBVIOUS
  <2>1. CASE k + 1 \notin B
    <3>1. B \in SUBSET (1..k)
      BY <2>1
    <3>2. \A C \in SUBSET (1..k) : \A q \in 1..Cardinality(C) : \E i \in C : Rank(C, i) = q
      BY <1>2
    <3> QED BY <3>1, <3>2
  <2>2. CASE k + 1 \in B
    <3> DEFINE C == B \ {k + 1}
    <3>0. k + 1 \in Nat
      OBVIOUS
    <3>a. IsFiniteSet(B) /\ Cardinality(B) \in Nat
      BY <3>0, PlacesFinite
    <3>b. C \in SUBSET (1..k)
      OBVIOUS
    <3>1. C \in SUBSET (1..k) /\ IsFiniteSet(B) /\ Cardinality(B) \in Nat
      BY <3>a, <3>b
    <3>2. Cardinality(C) = Cardinality(B) - 1
      BY <3>1, <2>2, FS_RemoveElement
    <3>3. CASE r \in 1..Cardinality(C)
      <4>1. PICK i \in C : Rank(C, i) = r
        <5>1. \A D \in SUBSET (1..k) : \A q \in 1..Cardinality(D) : \E i \in D : Rank(D, i) = q
          BY <1>2
        <5> HIDE DEF C
        <5> QED BY <3>1, <3>3, <5>1
      <4>2. {h \in B : h <= i} = {h \in C : h <= i}
        BY <3>1
      <4> QED BY <4>1, <4>2 DEF Rank
    <3>4. CASE r = Cardinality(B)
      <4>1. \A h \in B : h <= k + 1
        OBVIOUS
      <4>2. {h \in B : h <= k + 1} = B
        BY <4>1
      <4> QED BY <4>2, <3>4, <2>2 DEF Rank
    <3> QED BY <3>1, <3>2, <3>3, <3>4
  <2> QED BY <2>1, <2>2
<1>3. n \in Good
  <2> HIDE DEF Good
  <2> QED BY <1>1, <1>2, NatInd
<1> QED BY <1>3

\* g lists n places from left to right.
Lists(g, n) ==
    /\ \A a \in 1..n : g[a] \in Nat
    /\ \A a, b \in 1..n : a < b => g[a] < g[b]

LEMMA ListCounts ==
    ASSUME NEW n \in Nat, NEW g, Lists(g, n)
    PROVE  Cardinality({g[a] : a \in 1..n}) = n
<1> DEFINE f == [a \in 1..n |-> g[a]]
           T == {g[a] : a \in 1..n}
<1>1. f \in [1..n -> T]
  OBVIOUS
<1>2. ASSUME NEW a \in 1..n, NEW b \in 1..n, f[a] = f[b] PROVE a = b
  <2>1. g[a] = g[b] /\ g[a] \in Nat
    BY <1>2 DEF Lists
  <2>2. ~ (a < b) /\ ~ (b < a)
    BY <2>1 DEF Lists
  <2> QED BY <2>2
<1>3. \A t \in T : \E a \in 1..n : f[a] = t
  OBVIOUS
<1>4. f \in Bijection(1..n, T)
  <2> HIDE DEF f, T
  <2>1. DOMAIN f = 1..n
    BY <1>1
  <2> QED BY <1>1, <1>2, <1>3, <2>1 DEF Bijection, Injection, Surjection, IsInjective
<1>5. ExistsBijection(1..n, T)
  BY <1>4 DEF ExistsBijection
<1> HIDE DEF T
<1>6. Cardinality(T) = n
  BY <1>5, FS_CountingElements
<1> QED BY <1>6 DEF T

\* What is at the places that g lists.
LEMMA SelectListed ==
    ASSUME NEW s, NEW n \in Nat, NEW g, Lists(g, n),
           NEW places, places = {g[a] : a \in 1..n}
    PROVE  Select(s, places) = [a \in 1..n |-> s[g[a]]]
<1>1. Cardinality(places) = n
  BY ListCounts
<1>2. ASSUME NEW a \in 1..n PROVE Rank(places, g[a]) = a
  <2>1. {h \in places : h <= g[a]} = {g[b] : b \in 1..a}
    <3>1. ASSUME NEW b \in 1..n PROVE g[b] <= g[a] <=> b <= a
      BY DEF Lists
    <3>2. \A b \in 1..a : b \in 1..n
      OBVIOUS
    <3>3. \A b \in 1..n : b <= a <=> b \in 1..a
      OBVIOUS
    <3> QED BY <3>1, <3>2, <3>3
  <2>2. Lists(g, a) /\ a \in Nat
    BY DEF Lists
  <2>3. Cardinality({g[b] : b \in 1..a}) = a
    BY <2>2, ListCounts
  <2> QED BY <2>1, <2>3 DEF Rank
<1> DEFINE spot(a) == CHOOSE i \in places : Cardinality({h \in places : h <= i}) = a
<1>3. Select(s, places) = [a \in 1..n |-> s[spot(a)]]
  BY <1>1 DEF Select
<1>4. ASSUME NEW a \in 1..n PROVE spot(a) = g[a]
  <2>1. g[a] \in places /\ Cardinality({h \in places : h <= g[a]}) = a
    BY <1>2 DEF Rank
  <2>2. spot(a) \in places /\ Cardinality({h \in places : h <= spot(a)}) = a
    BY <2>1
  <2> HIDE DEF spot
  <2>3. PICK b \in 1..n : spot(a) = g[b]
    BY <2>2
  <2>4. Rank(places, spot(a)) = b
    BY <2>3, <1>2
  <2>5. b = a
    BY <2>2, <2>4 DEF Rank
  <2> QED BY <2>3, <2>5
<1> HIDE DEF spot
<1> QED BY <1>3, <1>4
-----------------------------------------------------------------------------
(* The rows of a result, and the rows of each of its tables.               *)

Row == [key : Name \X Name, item : STRING, column : STRING \cup {None}]

\* The places of the rows of t, if w says which table each row is of.
Own(w, n, t) == {i \in 1..n : w[i] = t}

\* Every table has as many places as it has rows.
Interleaves(w, R, T, n) ==
    w \in [1..n -> T] /\ \A t \in T : Cardinality(Own(w, n, t)) = Len(R[t])

TurnOf(w, i) == Cardinality({j \in 1..i : w[j] = w[i]})

\* Each row is the next one of its table.
Laid(rows, w, R, n) ==
    DOMAIN rows = 1..n /\ \A i \in 1..n : rows[i] = R[w[i]][TurnOf(w, i)]

\* A row bears the name of its table.
Named(R, T) ==
    /\ \A t \in T : \A j \in 1..Len(R[t]) : R[t][j].key = t.key
    /\ \A t, u \in T : t.key = u.key => t = u

\* Its next row is there when it is a table's turn.
LEMMA TurnsAre ==
    ASSUME NEW n \in Nat, NEW T, NEW w \in [1..n -> T], NEW i \in 1..n
    PROVE  /\ TurnOf(w, i) = Rank(Own(w, n, w[i]), i)
           /\ TurnOf(w, i) \in 1..Cardinality(Own(w, n, w[i]))
<1> DEFINE P == Own(w, n, w[i])
           Q == {h \in P : h <= i}
<1>1. P \in SUBSET (1..n) /\ Q \in SUBSET P /\ i \in Q
  BY DEF Own
<1>2. {j \in 1..i : w[j] = w[i]} = Q
  BY DEF Own
<1>3. TurnOf(w, i) = Cardinality(Q)
  BY <1>2 DEF TurnOf
<1>4. Rank(P, i) = Cardinality(Q)
  BY DEF Rank
<1> HIDE DEF P, Q
<1>5. IsFiniteSet(P) /\ Cardinality(P) \in Nat
  BY <1>1, PlacesFinite
<1>6. IsFiniteSet(Q) /\ Cardinality(Q) <= Cardinality(P)
  BY <1>1, <1>5, FS_Subset
<1>7. Cardinality(Q) \in Nat /\ Cardinality(Q) # 0
  BY <1>1, <1>6, FS_CardinalityType, FS_EmptySet
<1>8. Cardinality(Q) \in 1..Cardinality(P)
  BY <1>5, <1>6, <1>7
<1> QED BY <1>3, <1>4, <1>8 DEF P

\* However the rows of tables interleave, those of each come out in their order
\* when they are picked by its name.
LEMMA Disentangled ==
    ASSUME NEW T, NEW S, NEW R \in [T -> Seq(S)], NEW n \in Nat, NEW w, Interleaves(w, R, T, n),
           Named(R, T), NEW rows, Laid(rows, w, R, n)
    PROVE  /\ \A t \in T : OfTable(rows, t.key) = R[t]
           /\ ToSet(rows) = UNION {ToSet(R[t]) : t \in T}
<1>0. /\ w \in [1..n -> T] /\ DOMAIN rows = 1..n
      /\ \A i \in 1..n : w[i] \in T /\ rows[i] = R[w[i]][TurnOf(w, i)]
  BY DEF Interleaves, Laid
<1>b. /\ \A t \in T : \A j \in 1..Len(R[t]) : R[t][j].key = t.key
      /\ \A t, u \in T : t.key = u.key => t = u
  BY DEF Named
<1>a. ASSUME NEW t \in T
      PROVE  /\ R[t] \in Seq(S) /\ DOMAIN R[t] = 1..Len(R[t])
             /\ R[t] = [j \in 1..Len(R[t]) |-> R[t][j]]
             /\ Own(w, n, t) \in SUBSET (1..n) /\ Cardinality(Own(w, n, t)) = Len(R[t])
             /\ \A i \in Own(w, n, t) : i \in 1..n /\ w[i] = t
  <2>1. R[t] \in Seq(S)
    OBVIOUS
  <2>2. DOMAIN R[t] = 1..Len(R[t]) /\ R[t] = [j \in 1..Len(R[t]) |-> R[t][j]]
    BY <2>1
  <2>3. Own(w, n, t) \in SUBSET (1..n) /\ Cardinality(Own(w, n, t)) = Len(R[t])
        /\ \A i \in Own(w, n, t) : i \in 1..n /\ w[i] = t
    BY DEF Own, Interleaves
  <2> QED BY <2>1, <2>2, <2>3
<1>1. ASSUME NEW i \in 1..n
      PROVE  /\ TurnOf(w, i) = Rank(Own(w, n, w[i]), i) /\ TurnOf(w, i) \in 1..Len(R[w[i]])
             /\ rows[i] = R[w[i]][TurnOf(w, i)] /\ rows[i].key = w[i].key
  <2>1. TurnOf(w, i) = Rank(Own(w, n, w[i]), i) /\ TurnOf(w, i) \in 1..Cardinality(Own(w, n, w[i]))
    BY <1>0, TurnsAre
  <2>2. TurnOf(w, i) \in 1..Len(R[w[i]]) /\ w[i] \in T
    BY <1>0, <1>a, <2>1
  <2>3. rows[i] = R[w[i]][TurnOf(w, i)]
    BY <1>0
  <2>4. R[w[i]][TurnOf(w, i)].key = w[i].key
    BY <2>2, <1>b
  <2> QED BY <2>1, <2>2, <2>3, <2>4
<1>2. ASSUME NEW t \in T, NEW j \in 1..Len(R[t]), NEW i \in Own(w, n, t), Rank(Own(w, n, t), i) = j
      PROVE  i \in 1..n /\ rows[i] = R[t][j]
  <2>1. i \in 1..n /\ w[i] = t
    BY <1>a
  <2>2. TurnOf(w, i) = j
    BY <2>1, <1>1, <1>2
  <2> QED BY <2>1, <2>2, <1>1
<1>3. ASSUME NEW t \in T, NEW j \in 1..Len(R[t])
      PROVE  \E i \in Own(w, n, t) : Rank(Own(w, n, t), i) = j
  BY <1>a, RankOnto
<1>4. ASSUME NEW t \in T PROVE OfTable(rows, t.key) = R[t]
  <2>0. ASSUME NEW i \in 1..n PROVE rows[i].key = t.key <=> w[i] = t
    <3>1. rows[i].key = w[i].key /\ w[i] \in T
      BY <1>0, <1>1
    <3> QED BY <3>1, <1>b
  <2>1. {i \in DOMAIN rows : rows[i].key = t.key} = Own(w, n, t)
    BY <1>0, <2>0 DEF Own
  <2> DEFINE spot(j) == CHOOSE i \in Own(w, n, t) : Cardinality({h \in Own(w, n, t) : h <= i}) = j
  <2>2. OfTable(rows, t.key) = Select(rows, Own(w, n, t))
    BY <2>1 DEF OfTable
  <2>4. Select(rows, Own(w, n, t)) = [j \in 1..Cardinality(Own(w, n, t)) |-> rows[spot(j)]]
    BY DEF Select
  <2>3. ASSUME NEW j \in 1..Len(R[t]) PROVE rows[spot(j)] = R[t][j]
    <3>1. \E i \in Own(w, n, t) : Cardinality({h \in Own(w, n, t) : h <= i}) = j
      BY <1>3 DEF Rank
    <3>2. spot(j) \in Own(w, n, t) /\ Cardinality({h \in Own(w, n, t) : h <= spot(j)}) = j
      BY <3>1
    <3> HIDE DEF spot
    <3>3. Rank(Own(w, n, t), spot(j)) = j
      BY <3>2 DEF Rank
    <3> QED BY <3>2, <3>3, <1>2
  <2> HIDE DEF spot
  <2>5. Cardinality(Own(w, n, t)) = Len(R[t]) /\ R[t] = [j \in 1..Len(R[t]) |-> R[t][j]]
    BY <1>a
  <2> QED BY <2>2, <2>3, <2>4, <2>5
<1>5. ASSUME NEW i \in 1..n PROVE \E t \in T : rows[i] \in ToSet(R[t])
  <2>1. w[i] \in T /\ TurnOf(w, i) \in DOMAIN R[w[i]]
    BY <1>0, <1>1, <1>a
  <2>2. rows[i] \in ToSet(R[w[i]])
    BY <2>1, <1>1 DEF ToSet
  <2> QED BY <2>1, <2>2
<1>6. ASSUME NEW t \in T, NEW r \in ToSet(R[t]) PROVE \E i \in 1..n : rows[i] = r
  <2>1. PICK j \in 1..Len(R[t]) : r = R[t][j]
    BY <1>a DEF ToSet
  <2>2. PICK i \in Own(w, n, t) : Rank(Own(w, n, t), i) = j
    BY <1>3
  <2> QED BY <2>1, <2>2, <1>2
<1>7. ToSet(rows) = {rows[i] : i \in 1..n}
  BY <1>0 DEF ToSet
<1>8. ToSet(rows) = UNION {ToSet(R[t]) : t \in T}
  <2>1. \A r : r \in UNION {ToSet(R[t]) : t \in T} <=> \E t \in T : r \in ToSet(R[t])
    OBVIOUS
  <2>2. \A r : r \in ToSet(rows) <=> \E i \in 1..n : rows[i] = r
    BY <1>7
  <2>3. \A r : (\E t \in T : r \in ToSet(R[t])) <=> \E i \in 1..n : rows[i] = r
    BY <1>5, <1>6
  <2> QED BY <2>1, <2>2, <2>3, Zenon
<1> QED BY <1>4, <1>8
-----------------------------------------------------------------------------
(* What a table has, from its rows.                                        *)

IndexOf == [name : STRING, columns : Seq(STRING)]

\* What CatalogAssumption says of a table by itself.
Sane(t) ==
    /\ t \in Relation
    /\ \A i, j \in DOMAIN t.indexes :
          /\ t.indexes[i].columns # <<>>
          /\ t.indexes[i].name = t.indexes[j].name => i = j

Plain == {"columns", "partitions", "relationships"}

\* What the normalizer makes of the rows of one table.
Part(p, rows) ==
    IF p = "indexes"
    THEN LET names == Distinct(Items(rows))
         IN  [i \in DOMAIN names |-> [name |-> names[i], columns |-> Columns(rows, names[i])]]
    ELSE Items(rows)

LEMMA RelationIs ==
    ASSUME NEW t \in Relation
    PROVE  /\ t.key \in Name \X Name /\ t.indexes \in Seq(IndexOf)
           /\ \A p \in Plain : t[p] \in Seq(STRING)
<1>1. /\ t.key \in Name \X Name /\ t.indexes \in Seq(IndexOf)
      /\ t.columns \in Seq(STRING) /\ t.partitions \in Seq(STRING)
      /\ t.relationships \in Seq(STRING)
  BY DEF Relation, IndexOf
<1> QED BY <1>1 DEF Plain

\* Columns, partitions and relationships have a row each.
LEMMA PlainRows ==
    ASSUME NEW t \in Relation, NEW p \in Plain
    PROVE  /\ RowsOf(t, p) \in Seq(Row)
           /\ \A j \in 1..Len(RowsOf(t, p)) : RowsOf(t, p)[j].key = t.key
           /\ Part(p, RowsOf(t, p)) = t[p]
           /\ RowsOf(t, p) = <<>> <=> t[p] = <<>>
<1> DEFINE s == t[p]
           rows == [i \in 1..Len(s) |-> [key |-> t.key, item |-> s[i], column |-> None]]
<1>1. t.key \in Name \X Name /\ s \in Seq(STRING) /\ p # "indexes"
  BY RelationIs DEF Plain
<1>2. /\ DOMAIN s = 1..Len(s) /\ Len(s) \in Nat
      /\ \A i \in 1..Len(s) : s[i] \in STRING
      /\ s = [i \in 1..Len(s) |-> s[i]]
  BY <1>1
<1>3. RowsOf(t, p) = rows
  BY <1>1, <1>2 DEF RowsOf
<1> HIDE DEF s
<1>4. \A i \in 1..Len(s) : rows[i] \in Row /\ rows[i].key = t.key /\ rows[i].item = s[i]
  BY <1>1, <1>2 DEF Row
<1>5. rows \in Seq(Row) /\ Len(rows) = Len(s) /\ DOMAIN rows = 1..Len(s)
  BY <1>2, <1>4
<1>6. rows = <<>> <=> s = <<>>
  <2>1. \A x \in Seq(Row) : x = <<>> <=> Len(x) = 0
    OBVIOUS
  <2>2. s = <<>> <=> Len(s) = 0
    BY <1>1
  <2> HIDE DEF rows
  <2> QED BY <1>5, <2>1, <2>2
<1> HIDE DEF rows
<1>7. Items(rows) = s
  BY <1>2, <1>4, <1>5 DEF Items
<1> QED BY <1>1, <1>3, <1>4, <1>5, <1>6, <1>7 DEF Part, s

\* The index i of t has its rows at the places behind m[i - 1].
IndexPlaces(t, rows, m) ==
    LET N == Len(t.indexes)
    IN  /\ m \in [0..N -> Nat] /\ m[0] = 0 /\ m[N] = Len(rows)
        /\ \A i \in 1..N : /\ m[i] = m[i - 1] + Len(t.indexes[i].columns)
                           /\ Len(t.indexes[i].columns) \in Nat \ {0}
        /\ \A a, b \in 0..N : a <= b => m[a] <= m[b]
        /\ \A i \in 1..N : \A j \in 1..Len(t.indexes[i].columns) :
              /\ rows[m[i - 1] + j].item = t.indexes[i].name
              /\ rows[m[i - 1] + j].column = t.indexes[i].columns[j]
        /\ \A k \in 1..Len(rows) :
              \E i \in 1..N : \E j \in 1..Len(t.indexes[i].columns) : k = m[i - 1] + j

LEMMA IndexRows ==
    ASSUME NEW t, Sane(t)
    PROVE  /\ RowsOf(t, "indexes") \in Seq(Row)
           /\ \A k \in 1..Len(RowsOf(t, "indexes")) : RowsOf(t, "indexes")[k].key = t.key
           /\ \E m : IndexPlaces(t, RowsOf(t, "indexes"), m)
<1> DEFINE s == t.indexes
           N == Len(s)
           block(i) == [j \in 1..Len(s[i].columns) |->
                           [key |-> t.key, item |-> s[i].name, column |-> s[i].columns[j]]]
           ss == [i \in 1..N |-> block(i)]
           rows == RowsOf(t, "indexes")
<1>1. t.key \in Name \X Name /\ s \in Seq(IndexOf)
  BY RelationIs DEF Sane
<1>2. N \in Nat /\ DOMAIN s = 1..N
  BY <1>1
<1>3. ASSUME NEW i \in 1..N
      PROVE  /\ s[i] \in IndexOf /\ s[i].name \in STRING /\ s[i].columns \in Seq(STRING)
             /\ DOMAIN s[i].columns = 1..Len(s[i].columns) /\ Len(s[i].columns) \in Nat \ {0}
  <2>1. s[i] \in IndexOf
    BY <1>1
  <2>2. s[i].name \in STRING /\ s[i].columns \in Seq(STRING)
    BY <2>1 DEF IndexOf
  <2>3. s[i].columns # <<>>
    BY <1>2 DEF Sane
  <2> QED BY <2>1, <2>2, <2>3
<1>4. rows = FlattenSeq(ss)
  <2>1. \A i \in 1..N : [j \in DOMAIN s[i].columns |->
            [key |-> t.key, item |-> s[i].name, column |-> s[i].columns[j]]] = block(i)
    BY <1>3
  <2> QED BY <2>1, <1>2 DEF RowsOf
<1>5. ASSUME NEW i \in 1..N
      PROVE  /\ block(i) \in Seq(Row) /\ Len(block(i)) = Len(s[i].columns)
             /\ \A j \in 1..Len(s[i].columns) :
                   /\ block(i)[j].key = t.key /\ block(i)[j].item = s[i].name
                   /\ block(i)[j].column = s[i].columns[j]
  <2> DEFINE c == s[i].columns
             x == s[i].name
  <2>1. c \in Seq(STRING) /\ x \in STRING /\ \A j \in 1..Len(c) : c[j] \in STRING
    BY <1>3
  <2> HIDE DEF c, x, s
  <2> DEFINE r == [j \in 1..Len(c) |-> [key |-> t.key, item |-> x, column |-> c[j]]]
  <2>2. \A j \in 1..Len(c) : /\ r[j] \in Row
                              /\ r[j].key = t.key /\ r[j].item = x /\ r[j].column = c[j]
    BY <1>1, <2>1 DEF Row
  <2>3. r \in Seq(Row) /\ Len(r) = Len(c)
    BY <2>1, <2>2
  <2>4. block(i) = r
    BY DEF c, x
  <2> HIDE DEF r, block
  <2> QED BY <2>2, <2>3, <2>4 DEF c, x
<1> HIDE DEF block
<1>6. ss \in Seq(Seq(Row)) /\ Len(ss) = N
  BY <1>2, <1>5
<1>7. PICK m : /\ Marks(m, ss) /\ Len(FlattenSeq(ss)) = m[Len(ss)]
               /\ \A n \in 1..Len(ss) : \A j \in 1..Len(ss[n]) :
                     FlattenSeq(ss)[m[n - 1] + j] = ss[n][j]
  BY <1>6, MarksExist
<1>m. Marks(m, ss)
  BY <1>7
<1>8. /\ rows \in Seq(Row) /\ Len(rows) = m[N]
      /\ m \in [0..N -> Nat] /\ m[0] = 0
  BY <1>4, <1>6, <1>7, FlattenType DEF Marks
<1>9. ASSUME NEW i \in 1..N
      PROVE  /\ ss[i] = block(i) /\ m[i] = m[i - 1] + Len(s[i].columns)
             /\ \A j \in 1..Len(s[i].columns) : rows[m[i - 1] + j] = block(i)[j]
  <2>1. ss[i] = block(i) /\ i \in 1..Len(ss)
    BY <1>6
  <2>2. Len(ss[i]) = Len(s[i].columns)
    BY <2>1, <1>5
  <2> HIDE DEF ss, rows
  <2>3. m[i] = m[i - 1] + Len(ss[i])
    BY <1>7, <2>1 DEF Marks
  <2> QED BY <2>1, <2>2, <2>3, <1>4, <1>7
<1>10. ASSUME NEW k \in 1..Len(rows)
       PROVE  \E i \in 1..N : \E j \in 1..Len(s[i].columns) : k = m[i - 1] + j
  <2> HIDE DEF ss, rows
  <2>1. k \in 1..m[Len(ss)]
    BY <1>6, <1>8
  <2>2. PICK i \in 1..Len(ss) : \E j \in 1..Len(ss[i]) : k = m[i - 1] + j
    BY <2>1, <1>6, <1>m, MarksCover
  <2>3. i \in 1..N /\ Len(ss[i]) = Len(s[i].columns)
    BY <1>6, <1>9, <1>5
  <2> QED BY <2>2, <2>3
<1>11. \A a, b \in 0..N : a <= b => m[a] <= m[b]
  <2> HIDE DEF ss, rows
  <2> SUFFICES ASSUME NEW a \in 0..N, NEW b \in 0..N, a <= b PROVE m[a] <= m[b]
      OBVIOUS
  <2>1. b \in 0..Len(ss) /\ a \in 0..b
    BY <1>2, <1>6
  <2> QED BY <2>1, <1>6, <1>m, MarksGrow
<1> HIDE DEF ss, rows
<1>12. \A i \in 1..N : \A j \in 1..Len(s[i].columns) :
           /\ rows[m[i - 1] + j].key = t.key
           /\ rows[m[i - 1] + j].item = s[i].name
           /\ rows[m[i - 1] + j].column = s[i].columns[j]
  BY <1>5, <1>9
<1>13. ASSUME NEW k \in 1..Len(rows) PROVE rows[k].key = t.key
  <2>1. PICK i \in 1..N : \E j \in 1..Len(s[i].columns) : k = m[i - 1] + j
    BY <1>10
  <2>2. PICK j \in 1..Len(s[i].columns) : k = m[i - 1] + j
    BY <2>1
  <2> QED BY <2>2, <1>12
<1>14. IndexPlaces(t, rows, m)
  BY <1>3, <1>8, <1>9, <1>10, <1>11, <1>12 DEF IndexPlaces
<1> QED BY <1>8, <1>13, <1>14 DEF rows

\* The rows of an index come before those of the next.
LEMMA IndexesApart ==
    ASSUME NEW t, NEW rows, NEW m, IndexPlaces(t, rows, m), Len(t.indexes) \in Nat,
           NEW a \in 1..Len(t.indexes), NEW b \in 1..Len(t.indexes), a < b,
           NEW i \in 1..Len(t.indexes[a].columns), NEW j \in 1..Len(t.indexes[b].columns)
    PROVE  m[a - 1] + i < m[b - 1] + j
<1> DEFINE N == Len(t.indexes)
<1>1. /\ a - 1 \in 0..N /\ a \in 0..N /\ b - 1 \in 0..N /\ a <= b - 1
  OBVIOUS
<1>2. m[a - 1] \in Nat /\ m[a] \in Nat /\ m[b - 1] \in Nat /\ m[a] <= m[b - 1]
  BY <1>1 DEF IndexPlaces
<1>3. m[a] = m[a - 1] + Len(t.indexes[a].columns) /\ Len(t.indexes[a].columns) \in Nat
  BY DEF IndexPlaces
<1>4. Len(t.indexes[b].columns) \in Nat
  BY DEF IndexPlaces
<1>5. i \in Nat /\ i <= Len(t.indexes[a].columns) /\ j \in Nat /\ j >= 1
  BY <1>3, <1>4
<1> DEFINE u == m[a - 1]
           v == m[b - 1]
           l == Len(t.indexes[a].columns)
<1>6. u \in Nat /\ v \in Nat /\ u + l <= v /\ i <= l /\ l \in Nat
  BY <1>2, <1>3, <1>5
<1> HIDE DEF u, v, l
<1>7. u + i < v + j
  BY <1>5, <1>6
<1> QED BY <1>7 DEF u, v

\* From its rows an index has its columns back.
LEMMA IndexColumns ==
    ASSUME NEW t, Sane(t), NEW rows \in Seq(Row), NEW m, IndexPlaces(t, rows, m),
           NEW a \in 1..Len(t.indexes)
    PROVE  Columns(rows, t.indexes[a].name) = t.indexes[a].columns
<1> DEFINE s == t.indexes
           N == Len(s)
           c == s[a].columns
           g == [j \in 1..Len(c) |-> m[a - 1] + j]
           places == {k \in DOMAIN rows : rows[k].item = s[a].name}
<1>1. s \in Seq(IndexOf) /\ N \in Nat /\ DOMAIN s = 1..N
  BY RelationIs DEF Sane
<1>2. s[a] \in IndexOf
  BY <1>1
<1>3. c \in Seq(STRING) /\ Len(c) \in Nat
  BY <1>2 DEF IndexOf
<1>4. m[a - 1] \in Nat /\ m[a] = m[a - 1] + Len(c) /\ m[a] <= Len(rows) /\ Len(rows) \in Nat
  <2>1. a - 1 \in 0..N /\ a \in 0..N /\ N \in 0..N /\ a <= N
    BY <1>1
  <2>2. m[a] <= m[N] /\ m[N] = Len(rows)
    BY <2>1 DEF IndexPlaces
  <2>3. m[a - 1] \in Nat /\ m[a] = m[a - 1] + Len(c)
    BY <2>1 DEF IndexPlaces
  <2> QED BY <2>2, <2>3
<1>5. ASSUME NEW j \in 1..Len(c)
      PROVE  /\ g[j] = m[a - 1] + j /\ g[j] \in 1..Len(rows) /\ g[j] \in Nat
             /\ rows[g[j]].item = s[a].name /\ rows[g[j]].column = c[j]
  <2>1. g[j] = m[a - 1] + j
    OBVIOUS
  <2> DEFINE u == m[a - 1]
             l == Len(c)
  <2>a. u \in Nat /\ l \in Nat /\ u + l <= Len(rows) /\ j \in 1..l
    BY <1>3, <1>4
  <2>b. u + j \in Nat /\ u + j \in 1..Len(rows)
    <3> HIDE DEF u, l
    <3> QED BY <2>a, <1>4
  <2>2. g[j] \in 1..Len(rows) /\ g[j] \in Nat
    BY <2>1, <2>b
  <2>3. rows[m[a - 1] + j].item = s[a].name /\ rows[m[a - 1] + j].column = c[j]
    BY DEF IndexPlaces
  <2> QED BY <2>1, <2>2, <2>3
<1>6. ASSUME NEW k \in 1..Len(rows), rows[k].item = s[a].name
      PROVE  \E j \in 1..Len(c) : k = g[j]
  <2>1. PICK i \in 1..N : \E j \in 1..Len(s[i].columns) : k = m[i - 1] + j
    BY DEF IndexPlaces
  <2>2. PICK j \in 1..Len(s[i].columns) : k = m[i - 1] + j
    BY <2>1
  <2>3. rows[k].item = s[i].name
    BY <2>2 DEF IndexPlaces
  <2>4. i = a
    BY <2>3, <1>1, <1>6 DEF Sane
  <2> QED BY <2>2, <2>4
<1> HIDE DEF g
<1>7. places = {g[j] : j \in 1..Len(c)}
  <2>1. DOMAIN rows = 1..Len(rows)
    OBVIOUS
  <2> QED BY <2>1, <1>5, <1>6
<1>8. Lists(g, Len(c))
  <2> SUFFICES ASSUME NEW j \in 1..Len(c), NEW h \in 1..Len(c), j < h PROVE g[j] < g[h]
      BY <1>5 DEF Lists
  <2>1. g[j] = m[a - 1] + j /\ g[h] = m[a - 1] + h
    BY <1>5
  <2>2. j \in Nat /\ h \in Nat
    BY <1>3
  <2> QED BY <2>1, <2>2, <1>4
<1> DEFINE n == Len(c)
<1>n. n \in Nat /\ Lists(g, n) /\ places = {g[j] : j \in 1..n}
  BY <1>3, <1>7, <1>8
<1>9. Select(rows, places) = [j \in 1..Len(c) |-> rows[g[j]]]
  <2> HIDE DEF places, n
  <2>1. Select(rows, places) = [j \in 1..n |-> rows[g[j]]]
    BY <1>n, SelectListed
  <2> QED BY <2>1 DEF n
<1> HIDE DEF places
<1>10. Columns(rows, s[a].name) =
         LET own == Select(rows, places) IN [j \in DOMAIN own |-> own[j].column]
  BY DEF Columns, places
<1>11. Columns(rows, s[a].name) = [j \in 1..Len(c) |-> rows[g[j]].column]
  BY <1>9, <1>10
<1>12. c = [j \in 1..Len(c) |-> c[j]]
  BY <1>3
<1> HIDE DEF c
<1>13. Columns(rows, s[a].name) = c
  BY <1>5, <1>11, <1>12
<1> QED BY <1>13 DEF c

\* Their names come in the order of their first rows.
LEMMA IndexNames ==
    ASSUME NEW t, Sane(t), NEW rows \in Seq(Row), NEW m, IndexPlaces(t, rows, m)
    PROVE  Distinct(Items(rows)) = [a \in 1..Len(t.indexes) |-> t.indexes[a].name]
<1> DEFINE s == t.indexes
           N == Len(s)
           g == [a \in 1..N |-> m[a - 1] + 1]
           items == Items(rows)
           places == {k \in DOMAIN items : \A h \in 1..(k - 1) : items[h] # items[k]}
<1>1. s \in Seq(IndexOf) /\ N \in Nat /\ DOMAIN s = 1..N
  BY RelationIs DEF Sane
<1>2. /\ DOMAIN items = 1..Len(rows) /\ Len(rows) \in Nat
      /\ \A k \in 1..Len(rows) : items[k] = rows[k].item
  BY DEF Items
<1> HIDE DEF items
<1>3. ASSUME NEW a \in 1..N
      PROVE  /\ 1 \in 1..Len(s[a].columns) /\ g[a] = m[a - 1] + 1
             /\ m[a - 1] \in Nat /\ g[a] \in Nat /\ g[a] \in 1..Len(rows)
             /\ items[g[a]] = s[a].name
  <2>1. a - 1 \in 0..N /\ a \in 0..N /\ N \in 0..N /\ a <= N
    BY <1>1
  <2>2. Len(s[a].columns) \in Nat \ {0} /\ m[a] = m[a - 1] + Len(s[a].columns)
    BY DEF IndexPlaces
  <2>3. m[a - 1] \in Nat /\ m[a] <= m[N] /\ m[N] = Len(rows)
    BY <2>1 DEF IndexPlaces
  <2>4. 1 \in 1..Len(s[a].columns) /\ g[a] = m[a - 1] + 1
    BY <2>2
  <2>5. g[a] \in Nat /\ g[a] \in 1..Len(rows)
    BY <2>2, <2>3, <2>4, <1>2
  <2>6. rows[m[a - 1] + 1].item = s[a].name
    BY <2>4 DEF IndexPlaces
  <2> QED BY <2>3, <2>4, <2>5, <2>6, <1>2
<1>4. ASSUME NEW k \in 1..Len(rows)
      PROVE  \E a \in 1..N : \E j \in 1..Len(s[a].columns) :
                k = m[a - 1] + j /\ items[k] = s[a].name
  <2>1. PICK a \in 1..N : \E j \in 1..Len(s[a].columns) : k = m[a - 1] + j
    BY DEF IndexPlaces
  <2>2. PICK j \in 1..Len(s[a].columns) : k = m[a - 1] + j
    BY <2>1
  <2>3. rows[k].item = s[a].name
    BY <2>2 DEF IndexPlaces
  <2> QED BY <2>2, <2>3, <1>2
<1> HIDE DEF g
<1>5. ASSUME NEW k \in 1..Len(rows), \A h \in 1..(k - 1) : items[h] # items[k]
      PROVE  \E a \in 1..N : k = g[a]
  <2>1. PICK a \in 1..N : \E j \in 1..Len(s[a].columns) :
                k = m[a - 1] + j /\ items[k] = s[a].name
    BY <1>4
  <2>2. PICK j \in 1..Len(s[a].columns) : k = m[a - 1] + j /\ items[k] = s[a].name
    BY <2>1
  <2>3. Len(s[a].columns) \in Nat
    BY DEF IndexPlaces
  <2>4. CASE j = 1
    BY <2>2, <2>4, <1>3
  <2>5. CASE j > 1
    <3>1. g[a] \in 1..(k - 1)
      BY <2>2, <2>3, <2>5, <1>3
    <3>2. items[g[a]] = items[k]
      BY <2>2, <1>3
    <3> QED BY <3>1, <3>2, <1>5
  <2> QED BY <2>3, <2>4, <2>5
<1>6. ASSUME NEW a \in 1..N, NEW h \in 1..(g[a] - 1) PROVE items[h] # items[g[a]]
  <2>1. h \in 1..Len(rows) /\ h < g[a]
    BY <1>3, <1>2
  <2>2. PICK b \in 1..N : \E j \in 1..Len(s[b].columns) :
                h = m[b - 1] + j /\ items[h] = s[b].name
    BY <2>1, <1>4
  <2>3. PICK j \in 1..Len(s[b].columns) : h = m[b - 1] + j /\ items[h] = s[b].name
    BY <2>2
  <2>4. b # a
    <3>1. Len(s[b].columns) \in Nat
      BY DEF IndexPlaces
    <3> QED BY <3>1, <2>1, <2>3, <1>3
  <2>5. s[a].name # s[b].name
    BY <2>4, <1>1 DEF Sane
  <2> QED BY <2>3, <2>5, <1>3
<1>7. places = {g[a] : a \in 1..N}
  BY <1>2, <1>3, <1>5, <1>6
<1>8. Lists(g, N)
  <2> SUFFICES ASSUME NEW a \in 1..N, NEW b \in 1..N, a < b PROVE g[a] < g[b]
      BY <1>3 DEF Lists
  <2>1. m[a - 1] + 1 < m[b - 1] + 1
    BY <1>1, <1>3, IndexesApart
  <2> QED BY <2>1, <1>3
<1>9. Select(items, places) = [a \in 1..N |-> items[g[a]]]
  <2> HIDE DEF places, N
  <2> QED BY <1>1, <1>7, <1>8, SelectListed
<1> HIDE DEF places
<1>10. Distinct(items) = Select(items, places)
  BY DEF Distinct, places
<1>11. \A a \in 1..N : items[g[a]] = s[a].name
  BY <1>3
<1> QED BY <1>9, <1>10, <1>11 DEF items

\* So the indexes of a table come out as they are.
LEMMA IndexPart ==
    ASSUME NEW t, Sane(t)
    PROVE  LET rows == RowsOf(t, "indexes")
           IN  /\ Part("indexes", rows) = t.indexes
               /\ rows = <<>> <=> t.indexes = <<>>
<1> DEFINE s == t.indexes
           N == Len(s)
           rows == RowsOf(t, "indexes")
           names == Distinct(Items(rows))
<1>1. s \in Seq(IndexOf) /\ N \in Nat /\ DOMAIN s = 1..N
  BY RelationIs DEF Sane
<1>2. rows \in Seq(Row) /\ \E m : IndexPlaces(t, rows, m)
  BY IndexRows
<1>3. PICK m : IndexPlaces(t, rows, m)
  BY <1>2
<1>4. Part("indexes", rows) =
        [i \in DOMAIN names |-> [name |-> names[i], columns |-> Columns(rows, names[i])]]
  BY DEF Part
<1> HIDE DEF rows
<1>5. names = [a \in 1..N |-> s[a].name]
  BY <1>2, <1>3, IndexNames
<1>6. \A a \in 1..N : Columns(rows, s[a].name) = s[a].columns
  BY <1>2, <1>3, IndexColumns
<1> HIDE DEF names, s
<1>7. \A a \in 1..N : [name |-> s[a].name, columns |-> s[a].columns] = s[a]
  <2> SUFFICES ASSUME NEW a \in 1..N
               PROVE  [name |-> s[a].name, columns |-> s[a].columns] = s[a]
      OBVIOUS
  <2>1. s[a] \in IndexOf
    BY <1>1
  <2> QED BY <2>1 DEF IndexOf
<1>8. Part("indexes", rows) = [a \in 1..N |-> s[a]]
  BY <1>4, <1>5, <1>6, <1>7
<1>9. s = [a \in 1..N |-> s[a]]
  BY <1>1
<1>10. rows = <<>> <=> s = <<>>
  <2>0. rows = <<>> <=> Len(rows) = 0
    BY <1>2
  <2>a. s = <<>> <=> N = 0
    BY <1>1
  <2>1. m[0] = 0 /\ m[N] = Len(rows)
    BY <1>3 DEF IndexPlaces, s
  <2>2. CASE N = 0
    BY <2>0, <2>a, <2>1, <2>2
  <2>3. CASE N # 0
    <3>1. /\ 1 \in 1..N /\ 1 - 1 = 0 /\ 1 \in 0..N /\ N \in 0..N /\ 1 <= N
      BY <1>1, <2>3
    <3>2. m[1] = m[1 - 1] + Len(s[1].columns) /\ Len(s[1].columns) \in Nat \ {0}
      BY <1>3, <3>1 DEF IndexPlaces, s
    <3>3. m[1] <= m[N]
      BY <1>3, <3>1 DEF IndexPlaces, s
    <3>4. Len(rows) # 0
      BY <2>1, <3>1, <3>2, <3>3
    <3> QED BY <2>0, <2>a, <3>4, <2>3
  <2> QED BY <2>2, <2>3
<1> QED BY <1>8, <1>9, <1>10 DEF rows, s
-----------------------------------------------------------------------------
(* The rows of a query, and what the normalizer makes of them.             *)

Looked == Plain \cup {"indexes"}

\* The tables of a catalog that a query is about.
Consistent(T) ==
    /\ IsFiniteSet(T) /\ \A t \in T : Sane(t)
    /\ \A t, u \in T : t.key = u.key => t = u

LEMMA RowsAre ==
    ASSUME NEW t, Sane(t), NEW p \in Looked
    PROVE  /\ RowsOf(t, p) \in Seq(Row)
           /\ \A j \in 1..Len(RowsOf(t, p)) : RowsOf(t, p)[j].key = t.key
           /\ Part(p, RowsOf(t, p)) = t[p]
           /\ RowsOf(t, p) = <<>> <=> t[p] = <<>>
<1>1. CASE p \in Plain
  <2>1. t \in Relation
    BY DEF Sane
  <2> QED BY <2>1, <1>1, PlainRows
<1>2. CASE p = "indexes"
  BY <1>2, IndexRows, IndexPart
<1> QED BY <1>1, <1>2 DEF Looked

\* A result has finitely many rows.
LEMMA RowsFinite ==
    ASSUME NEW T, Consistent(T), NEW p \in Looked
    PROVE  Cardinality(UNION {{t} \X DOMAIN RowsOf(t, p) : t \in T}) \in Nat
<1> DEFINE f == [t \in T |-> {t} \X DOMAIN RowsOf(t, p)]
           F == {{t} \X DOMAIN RowsOf(t, p) : t \in T}
<1>1. f \in Surjection(T, F)
  BY DEF Surjection
<1>2. IsFiniteSet(F)
  <2> HIDE DEF F, f
  <2>1. IsFiniteSet(T)
    BY DEF Consistent
  <2> QED BY <1>1, <2>1, FS_Surjection
<1>3. ASSUME NEW t \in T PROVE IsFiniteSet({t} \X DOMAIN RowsOf(t, p))
  <2>1. RowsOf(t, p) \in Seq(Row)
    BY RowsAre DEF Consistent
  <2>2. DOMAIN RowsOf(t, p) = 1..Len(RowsOf(t, p)) /\ Len(RowsOf(t, p)) \in Nat
    BY <2>1
  <2>3. IsFiniteSet(DOMAIN RowsOf(t, p))
    BY <2>2, FS_Interval
  <2>4. IsFiniteSet({t})
    BY FS_Singleton
  <2> QED BY <2>3, <2>4, FS_Product
<1>4. \A X \in F : IsFiniteSet(X)
  BY <1>3
<1>5. IsFiniteSet(UNION F)
  <2> HIDE DEF F
  <2> QED BY <1>2, <1>4, FS_UNION
<1> HIDE DEF F
<1>6. Cardinality(UNION F) \in Nat
  BY <1>5, FS_CardinalityType
<1> QED BY <1>6 DEF F

\* Whatever their order, the rows of a result are those of its tables.
LEMMA MergedIs ==
    ASSUME NEW T, Consistent(T), NEW p \in Looked, NEW rows \in Merged(T, p)
    PROVE  /\ \A t \in T : OfTable(rows, t.key) = RowsOf(t, p)
           /\ ToSet(rows) = UNION {ToSet(RowsOf(t, p)) : t \in T}
<1> DEFINE n == Cardinality(UNION {{t} \X DOMAIN RowsOf(t, p) : t \in T})
           R == [t \in T |-> RowsOf(t, p)]
           Turns == {w \in [1..n -> T] : \A t \in T :
                        Cardinality({i \in 1..n : w[i] = t}) = Len(RowsOf(t, p))}
           From(w) == [i \in 1..n |->
                          RowsOf(w[i], p)[Cardinality({j \in 1..i : w[j] = w[i]})]]
<1>1. n \in Nat
  BY RowsFinite
<1>2. Merged(T, p) = {From(w) : w \in Turns}
  BY DEF Merged
<1> HIDE DEF n
<1>3. PICK w \in Turns : rows = From(w)
  BY <1>2
<1>4. /\ w \in [1..n -> T]
      /\ \A t \in T : Cardinality({i \in 1..n : w[i] = t}) = Len(RowsOf(t, p))
      /\ \A i \in 1..n : w[i] \in T
  BY <1>3
<1>5. Interleaves(w, R, T, n)
  BY <1>4 DEF Interleaves, Own
<1>6. \A i \in 1..n : RowsOf(w[i], p)[Cardinality({j \in 1..i : w[j] = w[i]})] = R[w[i]][TurnOf(w, i)]
  BY <1>4 DEF TurnOf
<1>7. Laid(rows, w, R, n)
  BY <1>3, <1>6 DEF Laid
<1>8. \A t \in T : /\ R[t] = RowsOf(t, p) /\ RowsOf(t, p) \in Seq(Row)
                   /\ \A j \in 1..Len(R[t]) : R[t][j].key = t.key
  BY RowsAre DEF Consistent
<1>9. R \in [T -> Seq(Row)]
  BY <1>8
<1>10. Named(R, T)
  BY <1>8 DEF Consistent, Named
<1> HIDE DEF R
<1>11. /\ \A t \in T : OfTable(rows, t.key) = R[t]
       /\ ToSet(rows) = UNION {ToSet(R[t]) : t \in T}
  <2> DEFINE S == Row
  <2>1. R \in [T -> Seq(S)]
    BY <1>9
  <2> HIDE DEF S, Turns, From
  <2> QED BY <1>1, <1>5, <1>7, <1>10, <2>1, Disentangled
<1>12. {ToSet(R[t]) : t \in T} = {ToSet(RowsOf(t, p)) : t \in T}
  BY <1>8
<1> QED BY <1>8, <1>11, <1>12

\* The names of the tables that have something of kind p.
KeysWith(T, p) == {t.key : t \in {u \in T : u[p] # <<>>}}

\* The normalizer gives each table that has something its part.
LEMMA NormalizedIs ==
    ASSUME NEW T, Consistent(T), NEW p \in Looked, NEW rows \in Merged(T, p)
    PROVE  /\ DOMAIN Normalized(p, rows) = KeysWith(T, p)
           /\ \A t \in T : t[p] # <<>> => Normalized(p, rows)[t.key] = t[p]
<1>1. /\ \A t \in T : OfTable(rows, t.key) = RowsOf(t, p)
      /\ ToSet(rows) = UNION {ToSet(RowsOf(t, p)) : t \in T}
  BY MergedIs
<1>2. Normalized(p, rows) = [k \in Keys(rows) |-> Part(p, OfTable(rows, k))]
  BY DEF Normalized, Indexes, Part
<1>3. ASSUME NEW t \in T
      PROVE  /\ Part(p, RowsOf(t, p)) = t[p]
             /\ t[p] # <<>> => \E r \in ToSet(RowsOf(t, p)) : TRUE
             /\ \A r \in ToSet(RowsOf(t, p)) : r.key = t.key /\ t[p] # <<>>
  <2> DEFINE s == RowsOf(t, p)
  <2>1. /\ s \in Seq(Row) /\ Part(p, s) = t[p]
        /\ \A j \in 1..Len(s) : s[j].key = t.key
        /\ s = <<>> <=> t[p] = <<>>
    BY RowsAre DEF Consistent
  <2> HIDE DEF s
  <2>2. DOMAIN s = 1..Len(s) /\ Len(s) \in Nat /\ (s = <<>> <=> Len(s) = 0)
    BY <2>1
  <2>3. \A r \in ToSet(s) : r.key = t.key /\ t[p] # <<>>
    BY <2>1, <2>2 DEF ToSet
  <2>4. t[p] # <<>> => s[1] \in ToSet(s)
    BY <2>1, <2>2 DEF ToSet
  <2> QED BY <2>1, <2>3, <2>4 DEF s
<1>4. Keys(rows) = KeysWith(T, p)
  <2>1. ASSUME NEW r \in ToSet(rows) PROVE \E t \in T : r.key = t.key /\ t[p] # <<>>
    <3>1. PICK t \in T : r \in ToSet(RowsOf(t, p))
      BY <1>1
    <3> QED BY <3>1, <1>3
  <2>2. ASSUME NEW t \in T, t[p] # <<>> PROVE \E r \in ToSet(rows) : r.key = t.key
    <3>1. PICK r \in ToSet(RowsOf(t, p)) : TRUE
      BY <1>3, <2>2
    <3>2. r \in ToSet(rows)
      BY <1>1
    <3> QED BY <3>2, <1>3
  <2>3. Keys(rows) = {r.key : r \in ToSet(rows)}
    BY DEF Keys
  <2> QED BY <2>1, <2>2, <2>3 DEF KeysWith
<1>5. DOMAIN Normalized(p, rows) = Keys(rows)
  BY <1>2
<1>6. ASSUME NEW t \in T, t[p] # <<>> PROVE Normalized(p, rows)[t.key] = t[p]
  <2>1. t.key \in Keys(rows)
    BY <1>4, <1>6 DEF KeysWith
  <2>2. Normalized(p, rows)[t.key] = Part(p, OfTable(rows, t.key))
    BY <1>2, <2>1
  <2> QED BY <2>2, <1>1, <1>3
<1> QED BY <1>4, <1>5, <1>6
-----------------------------------------------------------------------------
(* The answers.                                                            *)

\* The tables that a query is about are as the catalog has them.
LEMMA MatchedIs ==
    ASSUME NEW a \in Asks, NEW S, NEW cat \in Catalog
    PROVE  /\ Matched(a, S, cat) \subseteq cat[a.db] /\ Consistent(Matched(a, S, cat))
           /\ Consistent(cat[a.db])
<1>1. a.db \in Database
  BY AgentAssumption DEF Ask
<1>2. /\ cat[a.db] \subseteq Relation /\ IsFiniteSet(cat[a.db])
      /\ \A t, u \in cat[a.db] : t.key = u.key => t = u
      /\ \A t \in cat[a.db] : \A i, j \in DOMAIN t.indexes :
            /\ t.indexes[i].columns # <<>>
            /\ t.indexes[i].name = t.indexes[j].name => i = j
  BY <1>1, CatalogAssumption
<1>3. Matched(a, S, cat) \subseteq cat[a.db]
  BY DEF Matched
<1>4. IsFiniteSet(Matched(a, S, cat))
  BY <1>2, <1>3, FS_Subset
<1>5. Consistent(cat[a.db])
  BY <1>2 DEF Consistent, Sane
<1>6. Consistent(Matched(a, S, cat))
  BY <1>3, <1>4, <1>5 DEF Consistent
<1> QED BY <1>3, <1>5, <1>6

\* A part of a table is found under its name.
LEMMA PartIs ==
    ASSUME NEW cat, NEW db, Consistent(cat[db]), NEW t \in cat[db], NEW p
    PROVE  PartIn(cat, db, t.key, p) = t[p]
<1>1. (CHOOSE u \in cat[db] : u.key = t.key) = t
  BY DEF Consistent
<1> QED BY <1>1 DEF PartIn

\* What a query brings up of a table that was asked for is what there is.
LEMMA PartFound ==
    ASSUME NEW a \in Asks, NEW S \in SUBSET Name, S # {}, NEW cat \in Catalog, NEW p \in Looked,
           NEW rows \in Merged(Matched(a, S, cat), p), NEW k \in S \X a.names
    PROVE  /\ k \in DOMAIN Normalized(p, rows) <=> PartIn(cat, a.db, k, p) # <<>>
           /\ k \in DOMAIN Normalized(p, rows) =>
                 Normalized(p, rows)[k] = PartIn(cat, a.db, k, p)
<1> DEFINE T == Matched(a, S, cat)
<1>1. T \subseteq cat[a.db] /\ Consistent(T) /\ Consistent(cat[a.db])
  BY MatchedIs
<1>2. /\ DOMAIN Normalized(p, rows) = KeysWith(T, p)
      /\ \A t \in T : t[p] # <<>> => Normalized(p, rows)[t.key] = t[p]
  <2>1. rows \in Merged(T, p)
    OBVIOUS
  <2> HIDE DEF T
  <2> QED BY <1>1, <2>1, NormalizedIs
<1>3. ASSUME k \in DOMAIN Normalized(p, rows)
      PROVE  PartIn(cat, a.db, k, p) # <<>> /\ Normalized(p, rows)[k] = PartIn(cat, a.db, k, p)
  <2>1. PICK t \in T : t[p] # <<>> /\ t.key = k
    BY <1>2, <1>3 DEF KeysWith
  <2>2. PartIn(cat, a.db, k, p) = t[p]
    BY <1>1, <2>1, PartIs
  <2> QED BY <2>1, <2>2, <1>2
<1>4. ASSUME PartIn(cat, a.db, k, p) # <<>> PROVE k \in DOMAIN Normalized(p, rows)
  <2>1. PICK t \in cat[a.db] : t.key = k
    BY <1>4 DEF PartIn
  <2>2. t[p] # <<>>
    BY <1>1, <1>4, <2>1, PartIs
  <2>3. t.key[1] \in S /\ t.key[2] \in a.names
    BY <2>1
  <2>4. t \in T
    BY <2>1, <2>3 DEF Matched, InSchemas, Fold
  <2> QED BY <2>1, <2>2, <2>4, <1>2 DEF KeysWith
<1> QED BY <1>3, <1>4

\* A lookup answers with what its queries found, table by table.
LEMMA LookupFaithful ==
    ASSUME NEW a \in Asks, a.tool = "tables", NEW S \in SUBSET Name, S # {}, NEW rows, NEW from,
           \A p \in a.wanted : from[p] \in Catalog /\ rows[p] \in Merged(Matched(a, S, from[p]), p)
    PROVE  Tables(a, S, rows) = Reference(a, S, from)
<1> DEFINE parts == [p \in a.wanted |-> Normalized(p, rows[p])]
           found == UNION {DOMAIN parts[p] : p \in a.wanted}
           K == {f \in found : f[2] \in a.names /\ f[1] \in S}
           L == {h \in S \X a.names : \E p \in a.wanted : PartIn(from[p], a.db, h, p) # <<>>}
           all(k) == [p \in a.wanted |-> IF k \in DOMAIN parts[p] THEN parts[p][k] ELSE <<>>]
           have(k) == [p \in a.wanted |-> PartIn(from[p], a.db, k, p)]
<1>1. Tables(a, S, rows) = {[key |-> k, parts |-> all(k)] : k \in K}
  BY DEF Tables
<1>2. Reference(a, S, from) = {[key |-> k, parts |-> have(k)] : k \in L}
  BY DEF Reference
<1>3. a.wanted \subseteq Looked
  BY AgentAssumption DEF Ask, Query, Looked, Plain
<1>4. \A p \in a.wanted : parts[p] = Normalized(p, rows[p])
  OBVIOUS
<1> HIDE DEF parts
<1>5. ASSUME NEW p \in a.wanted, NEW k \in S \X a.names
      PROVE  /\ k \in DOMAIN parts[p] <=> PartIn(from[p], a.db, k, p) # <<>>
             /\ k \in DOMAIN parts[p] => parts[p][k] = PartIn(from[p], a.db, k, p)
  <2>1. /\ from[p] \in Catalog /\ p \in Looked
        /\ rows[p] \in Merged(Matched(a, S, from[p]), p)
    BY <1>3
  <2>2. /\ k \in DOMAIN Normalized(p, rows[p]) <=> PartIn(from[p], a.db, k, p) # <<>>
        /\ k \in DOMAIN Normalized(p, rows[p]) =>
              Normalized(p, rows[p])[k] = PartIn(from[p], a.db, k, p)
    BY <2>1, PartFound
  <2> QED BY <2>2, <1>4
<1>6. ASSUME NEW f \in found PROVE f \in Name \X Name
  <2>1. PICK p \in a.wanted : f \in DOMAIN parts[p]
    OBVIOUS
  <2> DEFINE cat == from[p]
             T == Matched(a, S, cat)
  <2>a. cat \in Catalog /\ rows[p] \in Merged(T, p)
    OBVIOUS
  <2> HIDE DEF cat
  <2>2. T \subseteq cat[a.db] /\ Consistent(T)
    BY <2>a, MatchedIs
  <2> HIDE DEF T
  <2>3. DOMAIN Normalized(p, rows[p]) = KeysWith(T, p)
    BY <1>3, <2>a, <2>2, NormalizedIs
  <2>4. PICK t \in T : f = t.key
    BY <2>1, <2>3, <1>4 DEF KeysWith
  <2>5. t \in Relation
    BY <2>2 DEF Consistent, Sane
  <2> QED BY <2>4, <2>5, RelationIs
<1>7. K = L
  <2>1. ASSUME NEW k \in K PROVE k \in L
    <3>1. k \in found /\ k \in S \X a.names
      BY <1>6
    <3>2. PICK p \in a.wanted : k \in DOMAIN parts[p]
      BY <3>1
    <3> QED BY <3>1, <3>2, <1>5
  <2>2. ASSUME NEW k \in L PROVE k \in K
    <3>1. k \in S \X a.names /\ k[1] \in S /\ k[2] \in a.names
      OBVIOUS
    <3>2. PICK p \in a.wanted : PartIn(from[p], a.db, k, p) # <<>>
      OBVIOUS
    <3>3. k \in DOMAIN parts[p]
      BY <3>1, <3>2, <1>5
    <3> QED BY <3>1, <3>3
  <2> HIDE DEF K, L
  <2> QED BY <2>1, <2>2
<1>8. ASSUME NEW k \in L PROVE all(k) = have(k)
  <2>1. k \in S \X a.names
    OBVIOUS
  <2>2. ASSUME NEW p \in a.wanted
        PROVE  (IF k \in DOMAIN parts[p] THEN parts[p][k] ELSE <<>>) = PartIn(from[p], a.db, k, p)
    BY <2>1, <1>5
  <2> QED BY <2>2
<1> HIDE DEF K, L, all, have
<1> QED BY <1>1, <1>2, <1>7, <1>8
\* The relationships of an answer are those of the tables that were matched.
LEMMA RelationshipsFaithful ==
    ASSUME NEW a \in Asks, NEW S, NEW cat \in Catalog,
           NEW rows \in Merged(Matched(a, S, cat), "relationships")
    PROVE  {[item |-> r.item] : r \in ToSet(rows)} =
              {[item |-> i] : i \in UNION {ToSet(t.relationships) : t \in Matched(a, S, cat)}}
<1> DEFINE T == Matched(a, S, cat)
           p == "relationships"
           I == UNION {ToSet(t.relationships) : t \in T}
<1>1. Consistent(T) /\ p \in Looked /\ p \in Plain
  BY MatchedIs DEF Looked, Plain
<1>2. rows \in Merged(T, p)
  OBVIOUS
<1> HIDE DEF T
<1>3. ToSet(rows) = UNION {ToSet(RowsOf(t, p)) : t \in T}
  BY <1>1, <1>2, MergedIs
<1>4. ASSUME NEW t \in T
      PROVE  /\ \A r \in ToSet(RowsOf(t, p)) : r.item \in ToSet(t.relationships)
             /\ \A i \in ToSet(t.relationships) : \E r \in ToSet(RowsOf(t, p)) : r.item = i
  <2> DEFINE s == t.relationships
             b == RowsOf(t, p)
  <2>1. s \in Seq(STRING)
    <3>1. t \in Relation
      BY <1>1 DEF Consistent, Sane
    <3> QED BY <3>1 DEF Relation
  <2>2. b = [i \in DOMAIN s |-> [key |-> t.key, item |-> s[i], column |-> None]]
    BY DEF RowsOf
  <2> HIDE DEF s, b
  <2>3. DOMAIN b = DOMAIN s /\ \A i \in DOMAIN s : b[i].item = s[i]
    BY <2>2
  <2>4. /\ \A r \in ToSet(b) : r.item \in ToSet(s)
        /\ \A i \in ToSet(s) : \E r \in ToSet(b) : r.item = i
    BY <2>3 DEF ToSet
  <2> QED BY <2>4 DEF s, b
<1>5. ASSUME NEW r \in ToSet(rows) PROVE r.item \in I
  <2>1. PICK t \in T : r \in ToSet(RowsOf(t, p))
    BY <1>3
  <2>2. r.item \in ToSet(t.relationships)
    BY <2>1, <1>4
  <2> QED BY <2>2
<1>6. ASSUME NEW i \in I PROVE \E r \in ToSet(rows) : r.item = i
  <2>1. PICK t \in T : i \in ToSet(t.relationships)
    OBVIOUS
  <2>2. PICK r \in ToSet(RowsOf(t, p)) : r.item = i
    BY <2>1, <1>4
  <2>3. r \in ToSet(rows)
    BY <1>3
  <2> QED BY <2>2, <2>3
<1> HIDE DEF I
<1>7. {[item |-> r.item] : r \in ToSet(rows)} = {[item |-> i] : i \in I}
  BY <1>5, <1>6
<1> QED BY <1>7 DEF I, T

\* There are as many matches as tables that match.
LEMMA MatchesCount ==
    ASSUME NEW T, Consistent(T)
    PROVE  Cardinality({[key |-> t.key] : t \in T}) = Cardinality(T)
<1> DEFINE f == [t \in T |-> [key |-> t.key]]
           W == {[key |-> t.key] : t \in T}
<1>1. f \in [T -> W] /\ \A x \in W : \E t \in T : f[t] = x
  OBVIOUS
<1>2. ASSUME NEW t \in T, NEW u \in T, f[t] = f[u] PROVE t = u
  <2>1. f[t].key = t.key /\ f[u].key = u.key
    OBVIOUS
  <2>2. t.key = u.key
    BY <1>2, <2>1
  <2> QED BY <2>2 DEF Consistent
<1> HIDE DEF f, W
<1>3. f \in Bijection(T, W)
  BY <1>1, <1>2 DEF Bijection, Injection, Surjection, IsInjective
<1>4. IsFiniteSet(T) /\ ExistsBijection(T, W)
  BY <1>3 DEF ExistsBijection, Consistent
<1>5. Cardinality(W) = Cardinality(T)
  BY <1>4, FS_Bijection
<1> QED BY <1>5 DEF W

\* A table has an odd name if one of its rows has it.
LEMMA OddRows ==
    ASSUME NEW t, Sane(t), NEW p \in Validated
    PROVE  (\E r \in ToSet(RowsOf(t, p)) : Identifier(p, r) \in Odd) <=> HasOdd(t, p)
<1>1. CASE p = "indexes"
  <2> DEFINE rows == RowsOf(t, "indexes")
             N == Len(t.indexes)
  <2>1. rows \in Seq(Row) /\ t.indexes \in Seq(IndexOf)
    BY IndexRows, RelationIs DEF Sane
  <2>2. PICK m : IndexPlaces(t, rows, m)
    BY IndexRows
  <2> HIDE DEF rows
  <2>3. DOMAIN rows = 1..Len(rows) /\ Len(rows) \in Nat /\ DOMAIN t.indexes = 1..N /\ N \in Nat
    BY <2>1
  <2>4. \A i \in 1..N : t.indexes[i].columns \in Seq(STRING)
    <3>1. \A i \in 1..N : t.indexes[i] \in IndexOf
      BY <2>1
    <3> QED BY <3>1 DEF IndexOf
  <2>5. \A i \in 1..N : DOMAIN t.indexes[i].columns = 1..Len(t.indexes[i].columns)
    BY <2>4
  <2>6. ASSUME NEW r \in ToSet(rows), r.column \in Odd
        PROVE  \E i \in DOMAIN t.indexes : ToSet(t.indexes[i].columns) \cap Odd # {}
    <3>1. PICK k \in 1..Len(rows) : r = rows[k]
      BY <2>3 DEF ToSet
    <3>2. PICK i \in 1..N : \E j \in 1..Len(t.indexes[i].columns) : k = m[i - 1] + j
      BY <2>2, <3>1 DEF IndexPlaces
    <3>3. PICK j \in 1..Len(t.indexes[i].columns) : k = m[i - 1] + j
      BY <3>2
    <3>4. r.column = t.indexes[i].columns[j]
      BY <2>2, <3>1, <3>3 DEF IndexPlaces
    <3>5. r.column \in ToSet(t.indexes[i].columns)
      BY <2>5, <3>4 DEF ToSet
    <3> QED BY <2>3, <2>6, <3>5
  <2>7. ASSUME NEW i \in DOMAIN t.indexes, ToSet(t.indexes[i].columns) \cap Odd # {}
        PROVE  \E r \in ToSet(rows) : r.column \in Odd
    <3>1. PICK j \in 1..Len(t.indexes[i].columns) : t.indexes[i].columns[j] \in Odd
      BY <2>3, <2>5, <2>7 DEF ToSet
    <3>2. rows[m[i - 1] + j].column = t.indexes[i].columns[j]
      BY <2>2, <2>3, <3>1 DEF IndexPlaces
    <3>3. m[i - 1] + j \in 1..Len(rows)
      <4> DEFINE l == Len(t.indexes[i].columns)
      <4>1. i \in 1..N /\ i - 1 \in 0..N /\ i \in 0..N /\ N \in 0..N /\ i <= N
        BY <2>3
      <4>2. /\ m \in [0..N -> Nat] /\ m[N] = Len(rows)
            /\ \A a, b \in 0..N : a <= b => m[a] <= m[b]
        BY <2>2 DEF IndexPlaces
      <4>3. m[i] = m[i - 1] + l /\ l \in Nat
        BY <2>2, <4>1 DEF IndexPlaces
      <4>4. m[i - 1] \in Nat /\ m[i] <= Len(rows)
        BY <4>1, <4>2
      <4>5. j \in Nat /\ 1 <= j /\ j <= l
        BY <3>1, <4>3
      <4> DEFINE u == m[i - 1]
      <4>6. u \in Nat /\ u + l <= Len(rows)
        BY <4>3, <4>4
      <4> HIDE DEF u, l
      <4>7. u + j \in 1..Len(rows)
        BY <2>3, <4>3, <4>5, <4>6
      <4> QED BY <4>7 DEF u
    <3> QED BY <2>3, <3>1, <3>2, <3>3 DEF ToSet
  <2>8. HasOdd(t, p) <=> \E i \in DOMAIN t.indexes : ToSet(t.indexes[i].columns) \cap Odd # {}
    BY <1>1 DEF HasOdd
  <2>9. (\E r \in ToSet(RowsOf(t, p)) : Identifier(p, r) \in Odd)
           <=> \E r \in ToSet(rows) : r.column \in Odd
    BY <1>1 DEF Identifier, rows
  <2> QED BY <2>6, <2>7, <2>8, <2>9
<1>2. CASE p # "indexes"
  <2> DEFINE s == t[p]
             b == RowsOf(t, p)
  <2>1. b = [i \in DOMAIN s |-> [key |-> t.key, item |-> s[i], column |-> None]]
    BY <1>2 DEF RowsOf
  <2> HIDE DEF s, b
  <2>2. DOMAIN b = DOMAIN s /\ \A i \in DOMAIN s : b[i].item = s[i]
    BY <2>1
  <2>3. (\E r \in ToSet(b) : r.item \in Odd) <=> ToSet(s) \cap Odd # {}
    BY <2>2 DEF ToSet
  <2> QED BY <1>2, <2>3 DEF HasOdd, Identifier, s, b
<1> QED BY <1>1, <1>2

\* The rows of a call spoil it exactly if what its queries found does.
LEMMA SpoilsIffOdd ==
    ASSUME NEW a \in Asks, NEW S, NEW rows, NEW from,
           \A p \in a.wanted : from[p] \in Catalog /\ rows[p] \in Results(a, S, p, from[p])
    PROVE  Spoils(a, rows) <=> OddFound(a, S, from)
<1>1. ASSUME NEW p \in a.wanted \cap Validated
      PROVE  (\E r \in ToSet(rows[p]) : Identifier(p, r) \in Odd)
                <=> \E t \in Matched(a, S, from[p]) : HasOdd(t, p)
  <2> DEFINE T == Matched(a, S, from[p])
  <2>1. a.tool # "search" /\ p \in Looked
    BY AgentAssumption DEF Validated, Looked, Plain
  <2>2. Consistent(T) /\ rows[p] \in Merged(T, p)
    BY <2>1, MatchedIs DEF Results
  <2> HIDE DEF T
  <2>3. ToSet(rows[p]) = UNION {ToSet(RowsOf(t, p)) : t \in T}
    BY <2>1, <2>2, MergedIs
  <2>4. \A t \in T : (\E r \in ToSet(RowsOf(t, p)) : Identifier(p, r) \in Odd) <=> HasOdd(t, p)
    BY <2>2, OddRows DEF Consistent
  <2>5. (\E r \in ToSet(rows[p]) : Identifier(p, r) \in Odd)
           <=> \E t \in T : \E r \in ToSet(RowsOf(t, p)) : Identifier(p, r) \in Odd
    BY <2>3
  <2> QED BY <2>4, <2>5 DEF T
<1> QED BY <1>1 DEF Spoils, OddFound

\* What AnswerFaithful says of an answer.
Faithful(a, S, from, found) ==
    IF a.tool = "search"
    THEN /\ found \subseteq Reference(a, S, from)
         /\ Cardinality(found) = Min2(a.limit, Cardinality(Reference(a, S, from)))
    ELSE found = Reference(a, S, from)

LEMMA AnswersFaithful ==
    ASSUME NEW a \in Asks, NEW S \in SUBSET Name, a.tool # "search" => S # {},
           NEW rows, NEW from,
           \A p \in a.wanted : from[p] \in Catalog /\ rows[p] \in Results(a, S, p, from[p])
    PROVE  Faithful(a, S, from, AnswerOf(a, S, rows))
<1>1. a.tool \in {"tables", "relationships", "search"}
  BY AgentAssumption DEF Ask
<1>2. CASE a.tool = "tables"
  <2>1. \A p \in a.wanted : from[p] \in Catalog /\ rows[p] \in Merged(Matched(a, S, from[p]), p)
    BY <1>2 DEF Results
  <2>2. Tables(a, S, rows) = Reference(a, S, from)
    BY <1>2, <2>1, LookupFaithful
  <2> QED BY <1>2, <2>2 DEF Faithful, AnswerOf
<1>3. CASE a.tool = "relationships"
  <2> DEFINE cat == from["relationships"]
             r == rows["relationships"]
  <2>1. "relationships" \in a.wanted
    BY <1>3, AgentAssumption
  <2>2. cat \in Catalog /\ r \in Merged(Matched(a, S, cat), "relationships")
    BY <1>3, <2>1 DEF Results
  <2>3. AnswerOf(a, S, rows) = {[item |-> x.item] : x \in ToSet(r)}
    BY <1>3 DEF AnswerOf
  <2>4. Reference(a, S, from) =
           {[item |-> i] : i \in UNION {ToSet(t.relationships) : t \in Matched(a, S, cat)}}
    BY <1>3 DEF Reference
  <2> HIDE DEF cat, r
  <2>5. AnswerOf(a, S, rows) = Reference(a, S, from)
    BY <2>2, <2>3, <2>4, RelationshipsFaithful
  <2> QED BY <1>3, <2>5 DEF Faithful
<1>4. CASE a.tool = "search"
  <2> DEFINE cat == from["matches"]
             H == rows["matches"]
             T == Matched(a, S, cat)
             W == {[key |-> t.key] : t \in T}
  <2>1. "matches" \in a.wanted
    BY <1>4, AgentAssumption
  <2>2. cat \in Catalog /\ H \in Hits(a, S, cat)
    BY <1>4, <2>1 DEF Results
  <2>3. AnswerOf(a, S, rows) = H
    BY <1>4 DEF AnswerOf
  <2>4. Reference(a, S, from) = W
    BY <1>4 DEF Reference
  <2> HIDE DEF cat, H
  <2>5. H \subseteq W /\ Cardinality(H) = Min2(a.limit, Cardinality(T))
    BY <2>2 DEF Hits
  <2>6. Consistent(T)
    BY <2>2, MatchedIs
  <2> HIDE DEF T
  <2>7. Cardinality(W) = Cardinality(T)
    BY <2>6, MatchesCount
  <2> HIDE DEF W
  <2> QED BY <1>4, <2>3, <2>4, <2>5, <2>7 DEF Faithful
<1> QED BY <1>1, <1>2, <1>3, <1>4

\* The rows that a call has are from the catalogs that are on record for them,
\* and an answer that was given, or spoiled, was made of such rows.
FaithInv ==
    /\ catalog \in Catalog /\ DOMAIN seen = Call
    /\ \A c \in Call :
          /\ at[c] = "idle" => DOMAIN seen[c] = {}
          /\ at[c] = "asking" =>
                /\ DOMAIN seen[c] = DOMAIN payload[c]
                /\ \A p \in DOMAIN payload[c] :
                      /\ seen[c][p] \in Catalog
                      /\ payload[c][p] \in Results(ask[c], schemas[c], p, seen[c][p])
          /\ at[c] = "returned" => Faithful(ask[c], schemas[c], seen[c], answer[c])
          /\ at[c] \in {"returned", "spoiled"} =>
                (at[c] = "spoiled" <=> OddFound(ask[c], schemas[c], seen[c]))

LEMMA FaithInit == Init => FaithInv
BY DEF Init, FaithInv, Nothing

LEMMA FaithNext == ToolsInv /\ FaithInv /\ [Next]_vars => FaithInv'
<1> SUFFICES ASSUME ToolsInv, FaithInv, [Next]_vars PROVE FaithInv'
  OBVIOUS
<1>0. /\ DOMAIN at = Call /\ DOMAIN payload = Call /\ DOMAIN answer = Call
      /\ DOMAIN ask = Call /\ DOMAIN schemas = Call /\ DOMAIN seen = Call
      /\ \A c \in Call : at[c] = "idle" => DOMAIN payload[c] = {}
  BY DEF ToolsInv, TypeOK, PayloadInv, FaithInv
<1>1. CASE BuildPrompt
  BY <1>1 DEF BuildPrompt, calls, FaithInv
<1>2. ASSUME NEW c \in Call, NEW a \in Asks, CallTool(c, a) PROVE FaithInv'
  BY <1>0, <1>2 DEF CallTool, FaithInv
<1>3. ASSUME NEW c \in Call, NEW p \in Query, Result(c, p) PROVE FaithInv'
  <2>1. PICK r \in Results(ask[c], schemas[c], p, catalog) :
           payload' = [payload EXCEPT ![c] = With(@, p, r)]
    BY <1>3 DEF Result
  <2>2. /\ at[c] = "asking" /\ catalog \in Catalog
        /\ seen' = [seen EXCEPT ![c] = With(@, p, catalog)]
        /\ UNCHANGED <<catalog, at, ask, schemas, answer>>
    BY <1>3 DEF Result, FaithInv
  <2>3. payload'[c] = With(payload[c], p, r) /\ seen'[c] = With(seen[c], p, catalog)
    BY <1>0, <2>1, <2>2
  <2>4. \A d \in Call : d # c => payload'[d] = payload[d] /\ seen'[d] = seen[d]
    BY <1>0, <2>1, <2>2
  <2>5. /\ DOMAIN payload'[c] = DOMAIN payload[c] \cup {p}
        /\ DOMAIN seen'[c] = DOMAIN seen[c] \cup {p}
        /\ \A q \in DOMAIN payload[c] \cup {p} :
              payload'[c][q] = IF q = p THEN r ELSE payload[c][q]
        /\ \A q \in DOMAIN seen[c] \cup {p} :
              seen'[c][q] = IF q = p THEN catalog ELSE seen[c][q]
    BY <2>3 DEF With
  <2>6. DOMAIN seen' = Call
    BY <1>0, <2>2
  <2>7. /\ DOMAIN seen[c] = DOMAIN payload[c]
        /\ \A q \in DOMAIN payload[c] :
              /\ seen[c][q] \in Catalog
              /\ payload[c][q] \in Results(ask[c], schemas[c], q, seen[c][q])
    BY <2>2 DEF FaithInv
  <2>8. /\ DOMAIN seen'[c] = DOMAIN payload'[c]
        /\ \A q \in DOMAIN payload'[c] :
              /\ seen'[c][q] \in Catalog
              /\ payload'[c][q] \in Results(ask[c], schemas[c], q, seen'[c][q])
    BY <2>2, <2>5, <2>7
  <2> QED BY <2>2, <2>4, <2>6, <2>8 DEF FaithInv
<1>4. ASSUME NEW c \in Call, QueryFails(c) PROVE FaithInv'
  BY <1>0, <1>4 DEF QueryFails, FaithInv
<1>5. ASSUME NEW c \in Call, Return(c) PROVE FaithInv'
  <2>1. /\ at[c] = "asking" /\ ask[c].wanted = DOMAIN payload[c]
        /\ at' = [at EXCEPT ![c] = "returned"]
        /\ answer' = [answer EXCEPT ![c] = AnswerOf(ask[c], schemas[c], payload[c])]
        /\ payload' = [payload EXCEPT ![c] = <<>>]
        /\ UNCHANGED <<catalog, ask, schemas, seen>>
        /\ ~Spoils(ask[c], payload[c])
    BY <1>5 DEF Return
  <2>2. /\ ask[c] \in Asks /\ schemas[c] \in SUBSET Name
        /\ ask[c].tool # "search" => schemas[c] # {}
    BY <2>1 DEF ToolsInv, TypeOK
  <2>3. \A p \in ask[c].wanted :
           /\ seen[c][p] \in Catalog
           /\ payload[c][p] \in Results(ask[c], schemas[c], p, seen[c][p])
    BY <2>1 DEF FaithInv
  <2> DEFINE found == AnswerOf(ask[c], schemas[c], payload[c])
  <2>4. Faithful(ask[c], schemas[c], seen[c], found)
    BY <2>2, <2>3, AnswersFaithful
  <2>5. /\ at'[c] = "returned" /\ answer'[c] = found
        /\ \A d \in Call : d # c => /\ at'[d] = at[d] /\ answer'[d] = answer[d]
                                    /\ payload'[d] = payload[d]
    BY <1>0, <2>1
  <2> HIDE DEF found
  <2>6. ~OddFound(ask[c], schemas[c], seen[c])
    BY <2>1, <2>2, <2>3, SpoilsIffOdd
  <2> QED BY <2>1, <2>4, <2>5, <2>6 DEF FaithInv
<1>5a. ASSUME NEW c \in Call, ModelsFail(c) PROVE FaithInv'
  <2>1. /\ at[c] = "asking" /\ ask[c].wanted = DOMAIN payload[c]
        /\ at' = [at EXCEPT ![c] = "spoiled"]
        /\ payload' = [payload EXCEPT ![c] = <<>>]
        /\ UNCHANGED <<catalog, ask, schemas, seen, answer>>
        /\ Spoils(ask[c], payload[c])
    BY <1>5a DEF ModelsFail
  <2>2. ask[c] \in Asks
    BY <2>1 DEF ToolsInv, TypeOK
  <2>3. \A p \in ask[c].wanted :
           /\ seen[c][p] \in Catalog
           /\ payload[c][p] \in Results(ask[c], schemas[c], p, seen[c][p])
    BY <2>1 DEF FaithInv
  <2>4. OddFound(ask[c], schemas[c], seen[c])
    BY <2>1, <2>2, <2>3, SpoilsIffOdd
  <2>5. /\ at'[c] = "spoiled"
        /\ \A d \in Call : d # c => at'[d] = at[d] /\ payload'[d] = payload[d]
    BY <1>0, <2>1
  <2> QED BY <2>1, <2>4, <2>5 DEF FaithInv
<1>6. ASSUME NEW D \in Drafts, Reply(D) PROVE FaithInv'
  BY <1>6 DEF Reply, calls, FaithInv
<1>7. ASSUME NEW d \in Document, EditRegistry(d) PROVE FaithInv'
  BY <1>7 DEF EditRegistry, calls, FaithInv
<1>8. ASSUME NEW k \in Catalog, Migrate(k) PROVE FaithInv'
  BY <1>8 DEF Migrate, calls, FaithInv
<1>9. CASE UNCHANGED vars
  BY <1>9 DEF vars, calls, FaithInv
<1> QED BY <1>1, <1>2, <1>3, <1>4, <1>5, <1>5a, <1>6, <1>7, <1>8, <1>9 DEF Next

\* A call whose queries were all answered goes without an answer exactly if some
\* query brought up a table with an odd name, be it one that was not asked for.
\* Otherwise its answer has the tables asked for of which some query found
\* something, and of each what each query found, however rows interleave and
\* whatever changes between the queries (tools.py:154-207, 232-237, 262-269,
\* normalizer.py:39-127, models/metadata.py:40-78).
THEOREM AnswersAreFaithful == Spec => []AnswerFaithful
<1>1. FaithInv => AnswerFaithful
  BY DEF FaithInv, Faithful, AnswerFaithful
<1> QED BY <1>1, FaithInit, FaithNext, ToolsInvariant, PTL DEF Spec
=============================================================================

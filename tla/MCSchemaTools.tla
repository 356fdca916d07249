---------------------------- MODULE MCSchemaTools ----------------------------
(* TLC instance of SchemaTools.                                            *)
EXTENDS SchemaTools, TLC

CONSTANTS c1, c2, d1, d2, shop, Shop, dashed, orders, Orders, users

FoldCase == [n \in Name |-> CASE n = Shop -> shop [] n = Orders -> orders [] OTHER -> n]

At(db, s) == [db |-> db, schema |-> s]

\* One source; two environments with a schema of one name, and with a source
\* without a schema; a schema that is no identifier, and one in another case.
Registries ==
    {<<At(d1, shop)>>, <<At(d1, shop), At(d2, shop)>>, <<At(d1, shop), At(d2, None)>>,
     <<At(d1, dashed), At(d1, shop)>>, <<At(d1, Shop)>>, <<>>, Malformed}

Table(s, n, cols, idx, rels) ==
    [key |-> <<s, n>>, columns |-> cols, indexes |-> idx, partitions |-> <<>>,
     relationships |-> rels]

Index(n, cols) == [name |-> n, columns |-> cols]

\* Two tables whose indexes have one name, beside one that differs by case.
Before ==
    {Table(shop, orders, <<"id", "user">>,
           <<Index("PRIMARY", <<"id">>), Index("by_user", <<"user", "id">>)>>, <<"of_user">>),
     Table(shop, users, <<"id">>, <<Index("PRIMARY", <<"id">>)>>, <<>>)}

\* A column and its index are dropped, a table is created whose relationship has
\* an odd name.
After ==
    {Table(shop, orders, <<"id">>, <<Index("PRIMARY", <<"id">>)>>, <<>>),
     Table(shop, Orders, <<"id">>, <<>>, <<"of user id">>),
     [Table(shop, users, <<"id">>, <<>>, <<>>) EXCEPT !.partitions = <<"p1", "p2">>]}

Copy(cols) == {Table(shop, orders, cols, <<>>, <<>>)}

Catalogs ==
    {[d \in Database |-> IF d = d1 THEN Before ELSE Copy(<<"id">>)],
     [d \in Database |-> IF d = d1 THEN After ELSE Copy(<<"id", "user id">>)]}

Lookup(db, S, N, W) ==
    [tool |-> "tables", db |-> db, schemas |-> S, names |-> N, wanted |-> W, limit |-> 0]

Questions ==
    {Lookup(d1, {}, {orders, users}, {"columns", "indexes"}),
     Lookup(d1, {shop}, {orders, users}, {"partitions", "relationships"}),
     Lookup(d2, {}, {orders}, {"columns"}), Lookup(d2, {shop}, {orders}, {"columns"}),
     Lookup(d1, {}, {Orders}, {"columns"}), Lookup(d1, {}, {}, {"columns"}),
     Lookup(d1, {shop}, {dashed}, {}),
     [Lookup(d1, {}, {orders, users}, {"relationships"}) EXCEPT !.tool = "relationships"],
     [Lookup(d1, {}, {orders, users}, {"matches"}) EXCEPT !.tool = "search", !.limit = 1]}

SchemasUsed == {{shop}, {shop, dashed}}

Interchangeable == Permutations(Call)
==============================================================================

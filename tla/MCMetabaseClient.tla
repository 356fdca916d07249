-------------------------- MODULE MCMetabaseClient --------------------------
(* TLC instances of MetabaseClient.                                        *)
EXTENDS MetabaseClient

CONSTANTS x, y, columns, indexes, search

\* One tool call with two queries, one with a single query.
TwoAndOne == [k \in Task |-> IF k = search THEN y ELSE x]
============================================================================

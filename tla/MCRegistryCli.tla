--------------------------- MODULE MCRegistryCli ---------------------------
(* TLC instances of RegistryCli.                                           *)
EXTENDS RegistryCli

CONSTANTS c1, c2, c3, a, b, p, q, out, bad

Ask(k, n, t, x) == [kind |-> k, name |-> n, to |-> t, path |-> x]

\* Two names that registers, renames and deletes compete for.  They come with
\* paths of their own: a document is a set, where equal entries would be one.
Contended ==
    {Ask("register", a, None, p), Ask("register", b, None, q)}
        \cup {Ask("update", a, b, None), Ask("update", a, None, out),
              Ask("update", b, a, bad), Ask("delete", a, None, None),
              Ask("get", b, None, None)}

RegisterAndDelete == {Ask("register", a, None, p), Ask("delete", a, None, None)}
============================================================================

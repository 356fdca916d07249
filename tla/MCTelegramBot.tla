--------------------------- MODULE MCTelegramBot ---------------------------
(* TLC instance of TelegramBot.                                           *)
EXTENDS TelegramBot

\* A line with entities at the places of A, the last of them inside it.
TextLine(n, A) == [Plain(n) EXCEPT !.entities = A]

\* Lengths about the width of a slice, and entities about the end of one.
Lines ==
    {TextLine(n, {}) : n \in {0, Width - CloseLen, Width, 2 * Width + 1}}
        \cup {TextLine(Width + EntityLen, {a}) : a \in (Width - EntityLen)..Width}

\* SQL of up to two lines after the banner, with a wide explanation or none; and
\* a chat reply.
SomeReplies ==
    {FormatSql(Plain(1), sql, explanation, <<>>, Plain(2)) :
        sql \in {<<>>} \cup {<<x>> : x \in Lines} \cup (Lines \X Lines),
        explanation \in {<<>>, <<Plain(Width)>>, <<Plain(0), Plain(Width)>>}}
      \cup {<<Plain(1), x, Plain(2 * Width + 1), Plain(1)>> : x \in Lines}
============================================================================

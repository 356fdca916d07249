----------------------------- MODULE SplitReply -----------------------------
(***************************************************************************)
(* split_reply (src/zen/telegram_bot/handlers.py): an HTML reply cut into  *)
(* the chunks that Telegram accepts.  A cut inside the SQL block closes    *)
(* its tags and opens them again in the next chunk, and no cut lands in an *)
(* HTML entity.                                                            *)
(*                                                                         *)
(* A reply is a sequence of lines.  Of a line the model keeps its length,  *)
(* the places where its entities begin, and whether the block's tags stand *)
(* at its ends; a place in the text is a line and an offset.               *)
(***************************************************************************)
EXTENDS Naturals, Sequences, FiniteSets, SequencesExt

CONSTANTS
    Limit,              \* the most characters of a chunk
    OpenLen, CloseLen,  \* the lengths of the two tags
    EntityLen,          \* the length of an entity
    Window              \* how far back a cut looks for its beginning

Width == Limit - OpenLen - CloseLen - 2

ASSUME LimitsAssumption ==
    /\ Limit \in Nat /\ OpenLen \in Nat \ {0} /\ CloseLen \in 1..OpenLen
    /\ Limit > OpenLen + CloseLen + 2 + EntityLen /\ Limit >= OpenLen + 2 * CloseLen
    /\ EntityLen \in Nat \ {0} /\ Window \in Nat /\ Window >= EntityLen - 1

Line == [len : Nat, entities : SUBSET Nat, open : BOOLEAN, close : BOOLEAN]

Tagged(x) == (IF x.open THEN OpenLen ELSE 0) + (IF x.close THEN CloseLen ELSE 0)

\* The length of a line with its tags, and of a reply with its newlines.
Raw(x) == x.len + Tagged(x)

Length(reply) ==
    LET upto[n \in 0..Len(reply)] == IF n = 0 THEN 0 ELSE upto[n - 1] + Raw(reply[n])
    IN  upto[Len(reply)] + Len(reply) - 1

\* An entity lies within its line and over no other.
Apart(x) ==
    \A a \in x.entities :
        a + EntityLen <= x.len /\ \A b \in x.entities : a < b => a + EntityLen <= b

\* The SQL block goes from line o to line c.
Block(reply, o, c) ==
    o <= c /\ \A n \in DOMAIN reply : (reply[n].open <=> n = o) /\ (reply[n].close <=> n = c)

NoBlock(reply) == \A n \in DOMAIN reply : ~reply[n].open /\ ~reply[n].close

\* What split_reply is given: text, with one block or none.
WellFormed(reply) ==
    /\ reply \in Seq(Line)
    /\ \A n \in DOMAIN reply : Apart(reply[n])
    /\ \E n \in DOMAIN reply : reply[n].len > 0
    /\ NoBlock(reply) \/ \E o, c \in DOMAIN reply : Block(reply, o, c)

-----------------------------------------------------------------------------
(* Cutting a line that is too wide.                                        *)

\* Mutant: a cut lands where it lands.
Cut_Blind(x) == [i \in 0..x.len |-> IF i + Width < x.len THEN i + Width ELSE x.len]

\* Where the slice of x that begins at i ends: an entity it would cut is left
\* to the next slice.
Cut(x) ==
    [i \in 0..x.len |->
        LET j == IF i + Width < x.len THEN i + Width ELSE x.len
            split == {a \in x.entities : a > i /\ a + Window >= j /\ a < j /\ a + EntityLen > j}
        IN  IF j < x.len /\ split # {} THEN CHOOSE a \in split : TRUE ELSE j]

\* Where the slices of x end: the first at Ends(x)[1], and so on.
Ends(x) ==
    LET end[k \in 0..(x.len + 1)] == IF k = 0 THEN 0 ELSE Cut(x)[end[k - 1]]
    IN  end

\* The first of them that reaches the end of x, which begins there only if x is
\* empty.
LastSlice(x) ==
    CHOOSE k \in 1..(x.len + 1) : Ends(x)[k] = x.len /\ (k = 1 \/ Ends(x)[k - 1] < x.len)

Undivided(n, x) == [line |-> n, lo |-> 0, hi |-> x.len, open |-> x.open, close |-> x.close]

\* Line n in pieces: the tags of a line that is cut go to the first and the
\* last of them.
Pieces(n, x) ==
    IF Raw(x) <= Width THEN <<Undivided(n, x)>>
    ELSE [k \in 1..LastSlice(x) |->
            [line |-> n, lo |-> Ends(x)[k - 1], hi |-> Ends(x)[k],
             open |-> x.open /\ k = 1, close |-> x.close /\ Ends(x)[k] = x.len]]

AllPieces(reply) == FlattenSeq([n \in DOMAIN reply |-> Pieces(n, reply[n])])

-----------------------------------------------------------------------------
(* Packing the pieces into chunks.                                         *)

Size(p) == p.hi - p.lo + Tagged(p)

Tags(p) == (IF p.open THEN <<"open">> ELSE <<>>) \o (IF p.close THEN <<"close">> ELSE <<>>)

\* A chunk, or a buffer that is to become one.
Blank == [len |-> 0, tags |-> <<>>, pieces |-> <<>>]

Reopened == [len |-> OpenLen, tags |-> <<"open">>, pieces |-> <<>>]

\* It holds nothing, or nothing but the tag: the next piece needs no newline.
Bare(b) == b.len = 0 \/ (b.len = OpenLen /\ b.tags = <<"open">>)

Sep(b) == IF Bare(b) THEN 0 ELSE 1

Add(b, p) == [len |-> b.len + Sep(b) + Size(p), tags |-> b.tags \o Tags(p),
              pieces |-> Append(b.pieces, p)]

\* Mutant: no room is kept for the tag that closes the chunk.
Overflows_NoRoom(b, p) == b.len > 0 /\ b.len + Sep(b) + Size(p) > Limit

\* Mutant: room is kept for both tags, though the buffer has the first.
Overflows_BothTags(b, p) ==
    b.len > 0 /\ b.len + Sep(b) + Size(p) > Limit - OpenLen - CloseLen

Overflows(b, p) == b.len > 0 /\ b.len + Sep(b) + Size(p) > Limit - CloseLen

Closed(b, inPre) ==
    IF inPre THEN [b EXCEPT !.len = @ + CloseLen, !.tags = Append(@, "close")] ELSE b

\* _pre_state: a piece with both tags changes nothing.
PreState(p, inPre) == IF p.open = p.close THEN inPre ELSE p.open

Piece == [line : Nat, lo : Nat, hi : Nat, open : BOOLEAN, close : BOOLEAN]

Buffer == [len : Nat, tags : Seq({"open", "close"}), pieces : Seq(Piece)]

Packing == [chunks : Seq(Buffer), buf : Buffer, inPre : BOOLEAN]

Pack(p) ==
    [s \in Packing |->
        LET full == Overflows(s.buf, p)
        IN  [chunks |-> IF full THEN Append(s.chunks, Closed(s.buf, s.inPre)) ELSE s.chunks,
             buf    |-> Add(IF ~full THEN s.buf ELSE IF s.inPre THEN Reopened ELSE Blank, p),
             inPre  |-> PreState(p, s.inPre)]]

Packed ==
    [ps \in Seq(Piece) |->
        LET after[k \in 0..Len(ps)] ==
                IF k = 0 THEN [chunks |-> <<>>, buf |-> Blank, inPre |-> FALSE]
                ELSE Pack(ps[k])[after[k - 1]]
        IN  after[Len(ps)]]

\* Mutant: what is left in the buffer is forgotten.
Split_NoRest(reply) == Packed[AllPieces(reply)].chunks

Split(reply) ==
    LET s == Packed[AllPieces(reply)]
    IN  IF Bare(s.buf) THEN s.chunks ELSE Append(s.chunks, s.buf)

\* A reply within the limit is sent as it is.
Whole(reply) ==
    LET ps == [n \in DOMAIN reply |-> Undivided(n, reply[n])]
    IN  [len |-> Length(reply), tags |-> FlattenSeq([n \in DOMAIN ps |-> Tags(ps[n])]),
         pieces |-> ps]

split_reply(reply) == IF Length(reply) <= Limit THEN <<Whole(reply)>> ELSE Split(reply)

-----------------------------------------------------------------------------
(* What a good split is, without saying how it is found.                   *)

\* The places of a reply, and those that pieces of it show, in order.
Text(reply) ==
    FlattenSeq([n \in DOMAIN reply |-> [i \in 1..reply[n].len |-> <<n, i - 1>>]])

Places(p) == [i \in 1..(p.hi - p.lo) |-> <<p.line, p.lo + i - 1>>]

Shown(ps) == FlattenSeq([k \in DOMAIN ps |-> Places(ps[k])])

Fits(chunk) == chunk.len <= Limit

\* The lines between the tags, theirs included.
InBlock(reply, n) ==
    /\ \E m \in 1..n : reply[m].open
    /\ \E m \in n..Len(reply) : reply[m].close

\* A chunk with lines of the block has both tags around them, another none.
Balanced(reply, chunk) ==
    chunk.tags = IF \E k \in DOMAIN chunk.pieces : InBlock(reply, chunk.pieces[k].line)
                 THEN <<"open", "close">> ELSE <<>>

Bisected(reply, chunk) ==
    \E k \in DOMAIN chunk.pieces : \E a \in reply[chunk.pieces[k].line].entities :
        LET p == chunk.pieces[k]
        IN  \/ a < p.lo /\ p.lo < a + EntityLen
            \/ a < p.hi /\ p.hi < a + EntityLen

\* Nothing to read in it: Telegram refuses a message without text.
Empty(chunk) == Shown(chunk.pieces) = <<>>
=============================================================================

---------------------------- MODULE TelegramBot ----------------------------
(***************************************************************************)
(* The Telegram bot of zensql (src/zen/telegram_bot): the life of a        *)
(* message, from the acknowledgement to the last chunk of the reply,       *)
(* against the time that the agent server may take with it.                *)
(*                                                                         *)
(* Messages are handled concurrently and share nothing but the lock that   *)
(* the server keeps for their user: of the others only the wait for that   *)
(* lock is seen here, which may be anything up to the timeout.             *)
(*                                                                         *)
(* Time is discrete, and a step that is due is taken before it goes on.    *)
(* Only the server's waits and runs take time.                             *)
(***************************************************************************)
EXTENDS SplitReply

CONSTANTS
    Replies,   \* replies that format_reply may make of an answer
    Timeout,   \* agent_timeout_s
    Slack      \* what the bot grants beyond two of them

ASSUME TimeAssumption == Timeout \in Nat \ {0} /\ Slack \in Nat \ {0}

VARIABLES
    reply,    \* what format_reply makes of the server's answer
    pc,       \* where the handler is
    age,      \* how long its request has been under way
    stage,    \* where the server is with it
    spent,    \* for how long it has been there
    waited,   \* how long it waited for the user's lock
    heard,    \* what became of the request
    chunks,   \* the chunks of the reply
    got,      \* which of them have reached the user
    told      \* what the user was told last

botVars == <<pc, heard, chunks, got, told>>
serverVars == <<stage, spent, waited>>
vars == <<reply, age, botVars, serverVars>>

Active == {"queued", "first", "second"}

Stages == {"none", "answered"} \cup Active

TypeOK ==
    /\ \A n \in DOMAIN reply : reply[n].len \in Nat
    /\ pc \in {"new", "asking", "sending", "apologizing", "done", "dropped", "escaped"}
    /\ age \in 0..(2 * Timeout + Slack)
    /\ stage \in Stages
    /\ spent \in 0..Timeout /\ waited \in 0..Timeout
    /\ heard \in {"none", "answer", "error", "gave_up", "raised"}
    /\ got \subseteq DOMAIN chunks /\ (pc = "sending" => got # DOMAIN chunks)
    /\ told \in {"nothing", "ack", "reply", "sorry"}

Init ==
    /\ reply \in Replies
    /\ pc = "new" /\ age = 0
    /\ stage = "none" /\ spent = 0 /\ waited = 0
    /\ heard = "none"
    /\ chunks = <<>> /\ got = {}
    /\ told = "nothing"

-----------------------------------------------------------------------------
(* format_reply                                                            *)

Plain(n) == [len |-> n, entities |-> {}, open |-> FALSE, close |-> FALSE]

Paragraph(lines) == IF lines = <<>> THEN <<>> ELSE <<Plain(0)>> \o lines

\* Validated SQL begins with its banner and ends with a newline, so that the
\* closing tag stands on a line of its own.
FormatSql(banner, sql, explanation, guide, warning) ==
    <<[banner EXCEPT !.open = TRUE]>> \o sql \o <<[Plain(0) EXCEPT !.close = TRUE]>>
        \o Paragraph(explanation) \o Paragraph(guide) \o Paragraph(<<warning>>)

\* The notice of an error.
Notice == <<Plain(1)>>

\* A block begins with a line of text, ends with a line that has none, and is
\* not the end of the reply: FormatSql.
Formatted(r) ==
    NoBlock(r) \/ \E o, c \in DOMAIN r :
                     Block(r, o, c) /\ r[o].len > 0 /\ r[c].len = 0 /\ r[Len(r)].len > 0

ASSUME RepliesAssumption == \A r \in Replies : WellFormed(r) /\ Formatted(r)

-----------------------------------------------------------------------------
(* on_text and process_message                                             *)

\* Mutant: the budget of one run, which is about what the client grants by
\* default.
Budget_OneRun == Timeout + Slack

Budget == 2 * Timeout + Slack

Acknowledge ==
    /\ pc = "new"
    /\ pc' = "asking"
    /\ told' = "ack"
    /\ stage' = "queued"
    /\ UNCHANGED <<reply, age, spent, waited, heard, chunks, got>>

\* The first send is outside the try: its error leaves the handler.
AckRefused ==
    /\ pc = "new"
    /\ pc' = "dropped"
    /\ UNCHANGED <<reply, age, heard, chunks, got, told, serverVars>>

\* process_message returns a text; the time of the request is up.
Deliver(outcome, text) ==
    /\ heard' = outcome
    /\ chunks' = split_reply(text)
    /\ pc' = "sending"
    /\ age' = 0
    /\ UNCHANGED <<reply, got, told>>

Answered ==
    /\ pc = "asking" /\ stage = "answered"
    /\ Deliver("answer", reply) \/ Deliver("answer", Notice)
    /\ UNCHANGED serverVars

\* httpx.ReadTimeout: the server is not told, and goes on.
GiveUp ==
    /\ pc = "asking" /\ age = Budget
    /\ Deliver("gave_up", Notice)
    /\ UNCHANGED serverVars

\* No text is left to ask about, the connection is refused or breaks, or the
\* status is 4xx or 5xx; the server has the request or not.
UpstreamFails ==
    /\ pc = "asking"
    /\ Deliver("error", Notice)
    /\ stage' \in {stage, "none"} /\ spent' = IF stage' = "none" THEN 0 ELSE spent
    /\ UNCHANGED waited

\* What process_message does not catch: an answer that is no
\* GeneratedSqlResponse, or anything unexpected before there is one.
AnswerRaises ==
    /\ pc = "asking"
    /\ heard' = "raised"
    /\ pc' = "apologizing"
    /\ age' = 0
    /\ stage' \in {stage, "none"} /\ spent' = IF stage' = "none" THEN 0 ELSE spent
    /\ UNCHANGED <<reply, chunks, got, told, waited>>

-----------------------------------------------------------------------------
(* Delivery                                                                *)

\* The chunks before this one were accepted.
Chunk == Cardinality(got) + 1

\* Mutant: one chunk too late.
FinalChunk_Late == Chunk > Len(chunks)

FinalChunk == Chunk = Len(chunks)

Arrives == got' = got \cup {Chunk}

SendChunk ==
    /\ pc = "sending"
    /\ ~Empty(chunks[Chunk])
    /\ Arrives
    /\ IF FinalChunk THEN pc' = "done" /\ told' = "reply" ELSE UNCHANGED <<pc, told>>
    /\ UNCHANGED <<reply, age, heard, chunks, serverVars>>

\* Mutant: the error of a chunk is only logged.
ChunkRefused_Silent ==
    /\ pc = "sending"
    /\ pc' = "done"
    /\ UNCHANGED <<reply, age, heard, chunks, got, told, serverVars>>

\* Mutant: the chunk after it is sent all the same.
ChunkRefused_Skip ==
    /\ pc = "sending"
    /\ got' = got \cup {k \in DOMAIN chunks : k = Chunk + 1}
    /\ pc' = "apologizing"
    /\ UNCHANGED <<reply, age, heard, chunks, told, serverVars>>

\* TelegramAPIError: no message without text is accepted, and any may be
\* refused, or accepted and the answer lost.
ChunkRefused ==
    /\ pc = "sending"
    /\ pc' = "apologizing"
    /\ UNCHANGED got \/ (~Empty(chunks[Chunk]) /\ Arrives)
    /\ UNCHANGED <<reply, age, heard, chunks, told, serverVars>>

\* Any other error of the send, as aiogram's ClientDecodeError for an answer
\* that is no JSON, leaves the handler; the chunk may have arrived.
ChunkRaises ==
    /\ pc = "sending"
    /\ pc' = "escaped"
    /\ UNCHANGED got \/ (~Empty(chunks[Chunk]) /\ Arrives)
    /\ UNCHANGED <<reply, age, heard, chunks, told, serverVars>>

Apologize ==
    /\ pc = "apologizing"
    /\ told' = "sorry"
    /\ pc' = "done"
    /\ UNCHANGED <<reply, age, heard, chunks, got, serverVars>>

ApologyRefused ==
    /\ pc = "apologizing"
    /\ pc' = "dropped"
    /\ UNCHANGED <<reply, age, heard, chunks, got, told, serverVars>>

-----------------------------------------------------------------------------
(* The agent server, as far as its time goes (AgentServer has the rest).   *)

Enter(s) ==
    /\ stage' = s
    /\ spent' = 0
    /\ UNCHANGED <<reply, age, botVars>>

\* The lock is free, or another run has given it back.
Acquire ==
    /\ stage = "queued"
    /\ waited' = spent
    /\ Enter("first")

\* The request is refused for its intent at once, or as BUSY at the timeout.
Reject ==
    /\ stage = "queued" /\ spent \in {0, Timeout}
    /\ Enter("answered")
    /\ UNCHANGED waited

\* The session mode was wrong: the second attempt has a timeout of its own.
Flip ==
    /\ stage = "first"
    /\ Enter("second")
    /\ UNCHANGED waited

Finish ==
    /\ stage \in {"first", "second"}
    /\ Enter("answered")
    /\ UNCHANGED waited

\* Time goes on while no timer is due and no answer is at hand.
Tick ==
    /\ pc = "asking" \/ stage \in Active
    /\ pc = "asking" => age < Budget /\ stage # "answered"
    /\ stage \in Active => spent < Timeout
    /\ age' = IF pc = "asking" THEN age + 1 ELSE age
    /\ spent' = IF stage \in Active THEN spent + 1 ELSE spent
    /\ UNCHANGED <<reply, botVars, stage, waited>>

-----------------------------------------------------------------------------

BotStep ==
    \/ Acknowledge \/ AckRefused
    \/ Answered \/ GiveUp \/ UpstreamFails \/ AnswerRaises
    \/ SendChunk \/ ChunkRefused \/ ChunkRaises \/ Apologize \/ ApologyRefused

ServerStep == Acquire \/ Reject \/ Flip \/ Finish

Next == BotStep \/ ServerStep \/ Tick

Spec == Init /\ [][Next]_vars

\* Both event loops run what is due, and Telegram answers every send one way
\* or another.  Nothing is assumed of what the server's runs come to: wait_for
\* ends each of them at the timeout.
Fairness ==
    /\ WF_vars(Tick)
    /\ WF_vars(Answered \/ GiveUp)
    /\ WF_vars(SendChunk \/ ChunkRefused \/ ChunkRaises)
    /\ WF_vars(Apologize \/ ApologyRefused)
    /\ WF_vars(spent = Timeout /\ (Reject \/ Finish))

FairSpec == Spec /\ Fairness

-----------------------------------------------------------------------------
(* Properties.                                                             *)

\* The chunks of a reply about to be sent, and what it was made of.
Prepared == pc = "sending" /\ got = {}

Source == IF chunks = split_reply(Notice) THEN Notice ELSE reply

\* Every chunk is within the limit and has its tags balanced around the lines
\* of the SQL block (handlers.py:79-81).
ChunksWellFormed ==
    Prepared =>
        \A k \in DOMAIN chunks : Fits(chunks[k]) /\ Balanced(Source, chunks[k])

\* The chunks show all of the text, once and in order, whatever is cut.
NothingLost ==
    Prepared =>
        Text(Source) = FlattenSeq([k \in DOMAIN chunks |-> Shown(chunks[k].pieces)])

\* No cut lands inside an entity (handlers.py:63-64).
EntitiesWhole ==
    Prepared => \A k \in DOMAIN chunks : ~Bisected(Source, chunks[k])

\* A chunk without text, which Telegram would refuse, is only ever the end of
\* the SQL block, which a line of nearly full width, or one that would have it
\* with the blank lines before it, cuts off from what follows.
EmptyChunkIsRare ==
    Prepared =>
        \A k \in DOMAIN chunks : Empty(chunks[k]) =>
            /\ \E i \in DOMAIN chunks[k].pieces : chunks[k].pieces[i].close
            /\ k < Len(chunks)
            /\ Size(chunks[k + 1].pieces[1]) + Len(chunks[k].pieces) + CloseLen > Width + 2

\* The bot gives up on the server only if the request has waited for another
\* run for as long as the slack and then needed its second attempt: a wait and
\* a single run are within its budget (bot.py:48-50).
BudgetCoversOneRun == heard = "gave_up" => waited >= Slack /\ stage \in {"second", "answered"}

\* The user has the reply up to some chunk, and all of it if told no more.
ReplyInOrder ==
    /\ got = 1..Cardinality(got)
    /\ told = "reply" => got = DOMAIN chunks

\* An acknowledged message gets its reply or an apology, unless the apology is
\* refused too or a send fails with an error that is no TelegramAPIError
\* (bot.py:57-73).
FinalWord == pc = "asking" ~> told \in {"reply", "sorry"} \/ pc \in {"dropped", "escaped"}
============================================================================

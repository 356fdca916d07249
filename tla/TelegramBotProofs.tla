------------------------- MODULE TelegramBotProofs -------------------------
(***************************************************************************)
(* The bot's budget against the server's time, for every timeout and       *)
(* slack; the order of delivery; and what the chunks are worth, for every  *)
(* reply, whose split SplitReplyProofs settles.                            *)
(***************************************************************************)
EXTENDS TelegramBot, SplitReplyProofs, FiniteSetTheorems, TLAPS

\* How old a request may be, by where the server is with it.
AgeBound ==
    /\ stage # "none"
    /\ stage = "queued" => age = spent
    /\ stage = "first" => age = waited + spent
    /\ stage = "second" => age <= waited + Timeout + spent
    /\ stage = "answered" => age <= waited + 2 * Timeout

BudgetInv ==
    /\ age \in Nat
    /\ spent \in 0..Timeout /\ waited \in 0..Timeout
    /\ stage \in Stages
    /\ pc = "new" => age = 0 /\ stage = "none" /\ spent = 0
    /\ pc = "asking" => AgeBound
    /\ BudgetCoversOneRun

LEMMA BudgetInvInit == Init => BudgetInv
BY TimeAssumption DEF Init, BudgetInv, Stages, Active, BudgetCoversOneRun

\* A step of the handler: it asks, or it is done with the server.
LEMMA BudgetInvBot == BudgetInv /\ BotStep => BudgetInv'
<1> SUFFICES ASSUME BudgetInv, BotStep PROVE BudgetInv'
    OBVIOUS
<1> USE TimeAssumption DEF BudgetInv, BudgetCoversOneRun, serverVars, Stages, Active
<1>1. CASE Acknowledge
    BY <1>1 DEF Acknowledge, AgeBound
<1>2. CASE Answered
    BY <1>2 DEF Answered, Deliver
<1>3. CASE GiveUp
  <2>1. /\ pc = "asking" /\ age = 2 * Timeout + Slack
        /\ pc' = "sending" /\ age' = 0 /\ heard' = "gave_up" /\ UNCHANGED serverVars
    BY <1>3 DEF GiveUp, Deliver, Budget
  <2>2. waited >= Slack /\ stage \in {"second", "answered"}
    BY <2>1 DEF AgeBound
  <2> QED BY <2>1, <2>2
<1>4. CASE UpstreamFails
    BY <1>4 DEF UpstreamFails, Deliver
<1>5. CASE AckRefused \/ AnswerRaises
    BY <1>5 DEF AckRefused, AnswerRaises
<1>6. CASE SendChunk \/ ChunkRefused \/ ChunkRaises \/ Apologize \/ ApologyRefused
  <2>1. UNCHANGED <<age, heard, serverVars>> /\ pc' \notin {"new", "asking"}
    BY <1>6 DEF SendChunk, ChunkRefused, ChunkRaises, Apologize, ApologyRefused
  <2> QED BY <2>1
<1> QED BY <1>1, <1>2, <1>3, <1>4, <1>5, <1>6 DEF BotStep

\* A step of the server: what it has spent becomes part of the request's age.
LEMMA BudgetInvServer == BudgetInv /\ ServerStep => BudgetInv'
<1> SUFFICES ASSUME BudgetInv, ServerStep PROVE BudgetInv'
    OBVIOUS
<1> USE TimeAssumption DEF BudgetInv, BudgetCoversOneRun, AgeBound, Enter, botVars, Stages, Active
<1>1. CASE Acquire
    BY <1>1 DEF Acquire
<1>2. CASE Reject
    BY <1>2 DEF Reject
<1>3. CASE Flip
    BY <1>3 DEF Flip
<1>4. CASE Finish
    BY <1>4 DEF Finish
<1> QED BY <1>1, <1>2, <1>3, <1>4 DEF ServerStep

LEMMA BudgetInvTick == BudgetInv /\ Tick => BudgetInv'
BY TimeAssumption
   DEF Tick, BudgetInv, BudgetCoversOneRun, AgeBound, Stages, Active, botVars

\* The bot gives up only on a request that has waited for the slack and then
\* needed a second attempt (bot.py:48-50), whatever the two times are.
THEOREM BudgetSuffices == Spec => []BudgetCoversOneRun
<1>1. BudgetInv /\ [Next]_vars => BudgetInv'
  <2> SUFFICES ASSUME BudgetInv, [Next]_vars PROVE BudgetInv'
      OBVIOUS
  <2>1. CASE Next
      BY <2>1, BudgetInvBot, BudgetInvServer, BudgetInvTick DEF Next
  <2>2. CASE UNCHANGED vars
      BY <2>2 DEF vars, botVars, serverVars, BudgetInv, BudgetCoversOneRun, AgeBound, Stages, Active
  <2> QED BY <2>1, <2>2
<1>2. BudgetInv => BudgetCoversOneRun
  BY DEF BudgetInv
<1> QED BY BudgetInvInit, <1>1, <1>2, PTL DEF Spec

-----------------------------------------------------------------------------
(* Delivery.  Which chunks the user has is known from their number alone:  *)
(* a chunk goes out only when all before it were accepted, and nothing is  *)
(* sent after the first that was not.                                      *)

DeliveryInv ==
    /\ reply \in Replies
    /\ pc \in {"new", "asking", "sending", "apologizing", "done", "dropped", "escaped"}
    /\ told \in {"nothing", "ack", "reply", "sorry"}
    /\ told = "reply" => pc = "done"
    /\ chunks \in Seq(Buffer)
    /\ pc = "sending" => chunks \in {split_reply(reply), split_reply(Notice)}
    /\ pc \in {"new", "asking"} => chunks = <<>> /\ got = {}
    /\ \E n \in 0..Len(chunks) :
          /\ got = 1..n
          /\ pc = "sending" => n # Len(chunks)
          /\ told = "reply" => n = Len(chunks)

\* What the bot delivers is a text of the kind that split_reply expects, and the
\* block of it, if any, is one of format_reply's.
LEMMA TextsAre ==
    ASSUME NEW t \in Replies \cup {Notice}
    PROVE  WellFormed(t) /\ Framed(t)
<1>1. CASE t \in Replies
  <2>1. WellFormed(t) /\ Formatted(t)
    BY <1>1, RepliesAssumption
  <2> QED BY <2>1 DEF Formatted, NoBlock, Block, Framed
<1>2. CASE t = Notice
  <2>1. DOMAIN t = {1} /\ Len(t) = 1 /\ t[1] = Plain(1)
    BY <1>2 DEF Notice
  <2>2. /\ Plain(1) \in Line /\ Plain(1).len = 1 /\ Plain(1).entities = {}
        /\ ~Plain(1).open /\ ~Plain(1).close
    BY DEF Plain, Line
  <2>3. t \in Seq(Line)
    BY <1>2, <2>2 DEF Notice
  <2> QED BY <2>1, <2>2, <2>3 DEF WellFormed, Framed, NoBlock, Apart
<1> QED BY <1>1, <1>2

LEMMA SizeOfInterval == \A n \in Nat : Cardinality(1..n) = n
BY FS_Interval

LEMMA DeliveryInvInit == Init => DeliveryInv
<1> SUFFICES ASSUME Init PROVE DeliveryInv
    OBVIOUS
<1>1. chunks \in Seq(Buffer) /\ Len(chunks) = 0 /\ got = 1..0
  BY DEF Init
<1> QED BY <1>1 DEF Init, DeliveryInv

\* The chunks of a text are ready, and none of them is sent.
LEMMA DeliveryInvDeliver ==
    ASSUME DeliveryInv, pc = "asking", NEW o, NEW t \in {reply, Notice}, Deliver(o, t)
    PROVE  DeliveryInv'
<1>1. chunks' \in Seq(Buffer) /\ Len(chunks') \in Nat \ {0} /\ got' = 1..0
  BY TextsAre, SplitReplyRight DEF DeliveryInv, Deliver
<1>2. told # "reply"
  BY DEF DeliveryInv
<1>3. pc' = "sending" /\ UNCHANGED <<reply, told>>
  BY DEF Deliver
<1>4. chunks' = split_reply(t) /\ t \in {reply, Notice}
  BY DEF Deliver
<1>5. chunks' \in {split_reply(reply), split_reply(Notice)}'
  BY <1>3, <1>4
<1> QED BY <1>1, <1>2, <1>3, <1>5 DEF DeliveryInv

LEMMA DeliveryInvNext == DeliveryInv /\ [Next]_vars => DeliveryInv'
<1> SUFFICES ASSUME DeliveryInv, [Next]_vars PROVE DeliveryInv'
    OBVIOUS
<1> USE DEF DeliveryInv
<1>1. PICK n \in 0..Len(chunks) :
         /\ got = 1..n
         /\ pc = "sending" => n # Len(chunks)
         /\ told = "reply" => n = Len(chunks)
  OBVIOUS
<1>2. n \in Nat /\ Len(chunks) \in Nat /\ Chunk = n + 1
  BY <1>1, SizeOfInterval DEF Chunk
<1>3. CASE Acknowledge \/ AckRefused
  BY <1>3 DEF Acknowledge, AckRefused
<1>4. CASE Answered \/ GiveUp \/ UpstreamFails
  BY <1>4, DeliveryInvDeliver DEF Answered, GiveUp, UpstreamFails
<1>5. CASE AnswerRaises
  BY <1>5 DEF AnswerRaises
<1>6. Arrives /\ pc = "sending" => got' = 1..(n + 1) /\ n + 1 \in 0..Len(chunks)
  BY <1>1, <1>2 DEF Arrives
<1>7. CASE SendChunk
  <2>1. CASE FinalChunk
    BY <1>2, <1>6, <1>7, <2>1 DEF SendChunk, FinalChunk
  <2>2. CASE ~FinalChunk
    BY <1>2, <1>6, <1>7, <2>2 DEF SendChunk, FinalChunk
  <2> QED BY <2>1, <2>2
<1>8. CASE ChunkRefused \/ ChunkRaises
  <2>1. /\ pc = "sending" /\ pc' \in {"apologizing", "escaped"} /\ told # "reply"
        /\ UNCHANGED <<reply, chunks, told>>
    BY <1>8 DEF ChunkRefused, ChunkRaises
  <2>2. \E m \in 0..Len(chunks) : got' = 1..m
    BY <1>1, <1>6, <1>8 DEF ChunkRefused, ChunkRaises
  <2> QED BY <2>1, <2>2
<1>9. CASE Apologize \/ ApologyRefused
  BY <1>9 DEF Apologize, ApologyRefused
<1>a. CASE ServerStep \/ Tick \/ UNCHANGED vars
  <2>1. UNCHANGED <<reply, botVars>>
    BY <1>a DEF ServerStep, Acquire, Reject, Flip, Finish, Enter, Tick, vars
  <2> QED BY <2>1 DEF botVars
<1> QED BY <1>3, <1>4, <1>5, <1>7, <1>8, <1>9, <1>a DEF Next, BotStep

LEMMA Delivered == Spec => []DeliveryInv
BY DeliveryInvInit, DeliveryInvNext, PTL DEF Spec

\* The user has the reply up to some chunk, and all of it if told no more,
\* wherever a send is refused, fails otherwise or loses its answer
\* (bot.py:67-73).
THEOREM ReplyArrivesInOrder == Spec => []ReplyInOrder
<1>1. DeliveryInv => ReplyInOrder
  <2> SUFFICES ASSUME DeliveryInv PROVE ReplyInOrder
      OBVIOUS
  <2>1. PICK n \in 0..Len(chunks) : got = 1..n /\ (told = "reply" => n = Len(chunks))
    BY DEF DeliveryInv
  <2>2. n \in Nat /\ Cardinality(got) = n /\ DOMAIN chunks = 1..Len(chunks)
    BY <2>1, SizeOfInterval DEF DeliveryInv
  <2> QED BY <2>1, <2>2 DEF ReplyInOrder
<1> QED BY <1>1, Delivered, PTL

\* The part of the types that delivery keeps.
DeliveryTypes ==
    /\ \A n \in DOMAIN reply : reply[n].len \in Nat
    /\ pc \in {"new", "asking", "sending", "apologizing", "done", "dropped", "escaped"}
    /\ told \in {"nothing", "ack", "reply", "sorry"}
    /\ got \subseteq DOMAIN chunks /\ (pc = "sending" => got # DOMAIN chunks)

LEMMA DeliveryKeepsTypes == DeliveryInv => DeliveryTypes
<1> SUFFICES ASSUME DeliveryInv PROVE DeliveryTypes
    OBVIOUS
<1>1. PICK n \in 0..Len(chunks) : got = 1..n /\ (pc = "sending" => n # Len(chunks))
  BY DEF DeliveryInv
<1> DEFINE L == Len(chunks)
<1>2. DOMAIN chunks = 1..L /\ L \in Nat /\ n \in Nat /\ n <= L
  BY DEF DeliveryInv
<1> HIDE DEF L
<1>3. ASSUME n # L PROVE n + 1 \in DOMAIN chunks /\ n + 1 \notin got
  BY <1>1, <1>2, <1>3
<1>4. \A k \in DOMAIN reply : reply[k].len \in Nat
  <2>1. reply \in Seq(Line)
    BY TextsAre DEF DeliveryInv, WellFormed
  <2>2. \A k \in DOMAIN reply : reply[k] \in Line
    BY <2>1
  <2> QED BY <2>2 DEF Line
<1>5. got \subseteq DOMAIN chunks
  BY <1>1, <1>2
<1>6. pc = "sending" => got # DOMAIN chunks
  BY <1>1, <1>3 DEF L
<1> QED BY <1>4, <1>5, <1>6 DEF DeliveryInv, DeliveryTypes

\* Every variable keeps its type: the handler stays within its budget, and
\* while it sends there is a chunk left to send.
THEOREM BotTypeCorrect == Spec => []TypeOK
<1>1. Init => TypeOK
  <2> SUFFICES ASSUME Init PROVE TypeOK
      OBVIOUS
  <2>1. reply \in Seq(Line)
    BY TextsAre DEF Init, WellFormed
  <2>2. \A n \in DOMAIN reply : reply[n] \in Line
    BY <2>1
  <2>3. \A n \in DOMAIN reply : reply[n].len \in Nat
    BY <2>2 DEF Line
  <2> QED BY <2>3, TimeAssumption DEF Init, TypeOK, Stages
<1>2. TypeOK /\ DeliveryTypes' /\ [Next]_vars => TypeOK'
  <2> SUFFICES ASSUME TypeOK, DeliveryTypes', [Next]_vars PROVE TypeOK'
      OBVIOUS
  <2>1. /\ age' \in 0..(2 * Timeout + Slack)
        /\ heard' \in {"none", "answer", "error", "gave_up", "raised"}
        /\ stage' \in Stages /\ spent' \in 0..Timeout /\ waited' \in 0..Timeout
    <3> USE TimeAssumption DEF TypeOK, Stages, Active, serverVars, botVars
    <3>1. CASE Acknowledge \/ AckRefused \/ AnswerRaises
      BY <3>1 DEF Acknowledge, AckRefused, AnswerRaises
    <3>2. CASE Answered \/ GiveUp \/ UpstreamFails
      BY <3>2 DEF Answered, GiveUp, UpstreamFails, Deliver
    <3>3. CASE SendChunk \/ ChunkRefused \/ ChunkRaises \/ Apologize \/ ApologyRefused
      BY <3>3 DEF SendChunk, ChunkRefused, ChunkRaises, Apologize, ApologyRefused
    <3>4. CASE ServerStep
      BY <3>4 DEF ServerStep, Acquire, Reject, Flip, Finish, Enter
    <3>5. CASE Tick
      BY <3>5 DEF Tick, Budget
    <3>6. CASE UNCHANGED vars
      BY <3>6 DEF vars
    <3> QED BY <3>1, <3>2, <3>3, <3>4, <3>5, <3>6 DEF Next, BotStep
  <2> QED BY <2>1 DEF TypeOK, DeliveryTypes
<1> QED BY <1>1, <1>2, DeliveryKeepsTypes, Delivered, PTL DEF Spec
-----------------------------------------------------------------------------
(* The chunks.                                                             *)

\* Chunks about to be sent are those of a text, which is their source.
LEMMA Prepares ==
    ASSUME DeliveryInv, Prepared
    PROVE  /\ chunks = split_reply(Source) /\ WellFormed(Source) /\ Framed(Source)
           /\ chunks \in Seq(Buffer)
<1>1. chunks \in {split_reply(reply), split_reply(Notice)} /\ reply \in Replies
  BY DEF DeliveryInv, Prepared
<1>2. chunks = split_reply(Source) /\ Source \in {reply, Notice}
  BY <1>1 DEF Source
<1>3. WellFormed(Source) /\ Framed(Source)
  BY <1>1, <1>2, TextsAre
<1> QED BY <1>2, <1>3 DEF DeliveryInv

\* Every chunk is within Telegram's limit and has the tags of the SQL block
\* around its lines, however long the reply (handlers.py:79-81).
THEOREM ChunksAreWellFormed == Spec => []ChunksWellFormed
<1>1. DeliveryInv => ChunksWellFormed
  BY Prepares, SplitReplyRight DEF ChunksWellFormed
<1> QED BY <1>1, Delivered, PTL

\* The chunks show all of the text, once and in order: cutting the lines and
\* packing the pieces leave nothing out (split_reply, handlers.py:72-133).
THEOREM NoTextIsLost == Spec => []NothingLost
<1>1. DeliveryInv => NothingLost
  BY Prepares, SplitReplyRight DEF NothingLost, ChunkText
<1> QED BY <1>1, Delivered, PTL

\* No cut lands inside an entity, wherever the entities of a line stand
\* (_slice_long_line, handlers.py:63-64).
THEOREM NoEntityIsCut == Spec => []EntitiesWhole
<1>1. DeliveryInv => EntitiesWhole
  BY Prepares, SplitReplyRight DEF EntitiesWhole
<1> QED BY <1>1, Delivered, PTL

\* A chunk that Telegram would refuse as empty is only the end of the block,
\* which a line of nearly full width cuts off from what follows.
THEOREM EmptyChunksAreRare == Spec => []EmptyChunkIsRare
<1>1. DeliveryInv => EmptyChunkIsRare
  <2> SUFFICES ASSUME DeliveryInv, Prepared, NEW k \in DOMAIN chunks, Empty(chunks[k])
               PROVE  /\ \E i \in DOMAIN chunks[k].pieces : chunks[k].pieces[i].close
                      /\ k < Len(chunks)
                      /\ Size(chunks[k + 1].pieces[1]) + Len(chunks[k].pieces) + CloseLen
                            > Width + 2
      BY DEF EmptyChunkIsRare
  <2>1. chunks[k] \in Buffer
    BY Prepares
  <2>2. DOMAIN chunks[k].pieces = 1..Len(chunks[k].pieces)
    BY <2>1 DEF Buffer
  <2>3. /\ Ending(chunks[k].pieces) /\ k < Len(chunks)
        /\ Size(chunks[k + 1].pieces[1]) + Len(chunks[k].pieces) + CloseLen > Width + 2
    BY Prepares, SplitReplyRare
  <2> QED BY <2>2, <2>3 DEF Ending
<1> QED BY <1>1, Delivered, PTL
=============================================================================

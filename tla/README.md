# zensql in TLA+

zensql drafts SQL from questions in plain language: a Telegram bot passes a
message to an agent server, which runs one `claude` process for it; the process
looks up table metadata through an MCP server that queries Metabase; and the
draft is validated and sent back, never executed. A registry file, edited with
a command line, says which repositories and databases exist.

This directory models the parts of it in which steps of several actors
interleave, model-checks them with TLC and proves the main results with TLAPS.
`PROJECT.json` lists the components, runs, mutants, theorems and hazards, and
maps every definition to the lines of `src/` it stands for.

    tlc -workers 2 -config AgentServerSafety.cfg MCAgentServer.tla
    tlapm AgentServerProofs.tla

## 1. Inventory

### Agent server (`sql_agent_server/orchestrator.py`, `session.py`, `agent_runner.py`, `deps.py`, `routes_generate.py`)
*State.* The `UserLocks` table, one `asyncio.Lock` per user, behind an
`lru_cache`; per request its task, its place in the lock's queue and its child
process; on disk one session transcript per user, owned by `claude`.
*Operations.* `POST /v1/sql/generate`: intent check, lock (bounded wait, else
BUSY), prompt from the registry, spawn, one flip between `--resume` and
`--session-id`, timeout and kill, output parsing, validation, reply.
*Interactions.* Called by the bot over HTTP; reads the registry file twice;
spawns `claude`, which starts the schema MCP server.
*Hard.* Wake-ups of a lock racing with timeouts and cancellations; a cold cache
filled by two pool threads at once; a process that outlives the server; the
timer racing the exit of the process; every way out must release the lock.
*Correct when* one process at a time writes a user's transcript, no lock leaks,
no wake-up is lost, no process is orphaned, every request is answered, and the
audit trail says what the answer was, or where the request broke off.

### Registry store (`registry/store.py`, `registry/models.py`)
*State.* One YAML file, a sidecar lock file, temporary files.
*Operations.* `register`, `update`, `delete` (load, modify, save under a
`flock`), `get` and `list_repos` (unlocked reads).
*Hard.* Several processes; death between the temporary file and the rename;
errors in the middle of a save; a file that does not parse.
*Correct when* every call takes effect at one instant or not at all, names stay
unique, and a malformed file is never overwritten.

### Registry command line (`registry/cli.py`) and code graph sync (`code_graph/crg_sync.py`)
*State.* None of their own; the code-review-graph tool (CRG) has a registry of
aliases and its indexes.
*Operations.* `register`, `update`, `delete`, `get`, `list`; allowed-root check
before the store is called; CRG calls after its lock is gone.
*Hard.* The check is made on the patch before the lock, the save on what is
there later; CRG calls of two invocations reach CRG in any order.
*Correct when* nothing outside the allowed roots is registered or indexed, and
every invocation returns.

### Metabase client (`schema_mcp/metabase_client.py`)
*State.* A cached session token and an `asyncio.Lock` for logins; with an API key
neither is used.
*Operations.* A request with three attempts shared by 5xx retries and one 401
refresh. One client serves all tool calls of an MCP process (`server.py:26-32`).
*Hard.* Queries queued up behind a login; a 401 for an older session dropping a
newer one; a failing query cancelling siblings in the middle of a login.
*Correct when* one login is under way at a time and none is needless, logins
stay bounded, a call that returned leaves nothing running, and every call
returns.

### Schema MCP tools (`schema_mcp/tools.py`, `server.py`, `queries.py`, `normalizer.py`)
*State.* None of their own: the registry file is read at each call.
*Operations.* `get_table_metadata` (up to four concurrent queries in a task
group, merged by table), `search_tables`, `get_relationships`. The prompt and the
reply of the agent server read the same registry at other moments.
*Hard.* Three readings of a file that others edit; databases that change between
the queries of a call; rows of several tables in one result; a server that
compares names without case behind a filter that does not; models that accept
only some names (`models/metadata.py`), so that one row can spoil a call.
*Correct when* an answer is what the databases said, only what cannot be answered
goes without one, a source that the prompt lists is served, and the reply names a
database of each schema it uses.

### Telegram bot (`telegram_bot/bot.py`, `handlers.py`, `client.py`)
Keeps nothing between messages. A message is acknowledged, asked of the agent
server under a timeout of twice the agent's and ten seconds, and its reply is
split and sent chunk by chunk. *Hard*: the budget against what the server may
take, sends that Telegram refuses or that fail otherwise, and the cuts of
`split_reply` at the edges of its limits. *Correct when* an acknowledged message
gets a final word, the budget covers a wait and a run, and chunks are within the
limit, have balanced tags and whole entities and lose no text.

### SQL validator (`sql_agent_server/validator.py`)
Keeps nothing. Rules in order, on the words of the text, on what `sqlglot` makes
of it, and on names against metadata. The orchestrator passes no metadata
(`orchestrator.py:318`), so the rule on names is dead there. *Hard*: the text has
three readers who do not agree, and `sqlglot` raises more than `validate` catches.
*Correct when* what passes is one statement that does not itself write, what is
harmless passes, what cannot be read is refused, and the report names all tables.

### Not modelled, and why
- **Intent guard and prompts**: regular expressions and templates. Their
  outcomes are nondeterministic choices of `AgentServer`; the sources that a
  prompt lists are in `SchemaTools`.
- **`authenticate`, `list_databases`** of the Metabase client: nothing in
  `src/zen` calls them.
- **`_assert_information_schema_only`** (`metabase_client.py:54`) parses the SQL of
  the templates again, as a defence in depth (`queries.py:6-7`): it is a check of
  fixed texts, without state.
- **Fields of a row** (`normalizer.py:12-36`: types, nullability, keys) and the
  escaping of a LIKE pattern: conversions of single values.
- **Audit log** (`audit.py`): one locked append per event. Which event a request
  ends with is in `AgentServer`; what details say is wording. That the evidence of
  a violation may quote the SQL (`orchestrator.py:329`) is out of reach here: no
  model keeps texts.
- **Wording of the bot and the validator**: `/start`, the choice of language, the
  banner, and the `<b>` tags of the guide line (`handlers.py:149`), which
  `split_reply` does not balance: they matter for a guide line wider than a slice.
- **A restart of the bot**: it keeps nothing, so what it was doing is lost.
- **Settings, request and response models, `app.py`, health route**:
  declarations without state; the limits they hold are constants of the models.
- **Tests, docs, scripts and configuration samples**: used to read the code by.

## 2. Modules

| module | what it is |
|---|---|
| `AgentServer` | requests, user locks, runner, `claude`, crashes of the server |
| `AgentServerProofs` | type, lock invariant, processes, sessions, audit trail |
| `MCAgentServer` | its instances |
| `Registry` | abstract: a set of entries on which calls take effect atomically |
| `RegistryStore` | the store, step by step; refines `Registry` |
| `RegistryCli` | command line and CRG on top; extends `RegistryStore` |
| `RegistryProofs` | names, malformed and temporary files, allowed roots, refinement |
| `MCRegistryCli` | its instances, for the store and the command line |
| `MetabaseClient` | tool calls, their queries, session and login lock |
| `MetabaseClientProofs` | type, lock, logins, queries |
| `MCMetabaseClient` | its instances |
| `SchemaTools` | allowlist, queries, merging and guide over a registry that is edited |
| `SchemaToolsProofs` | type, the prompt is served, the guide agrees, answers are faithful |
| `MCSchemaTools` | its instance: registries, catalogs, questions |
| `SplitReply` | `split_reply` as an algorithm, and what a good split is |
| `SplitReplyProofs` | `split_reply` is right for every reply and limit |
| `SequenceLemmas` | induction, recursive functions, flattened sequences |
| `TelegramBot` | one message, its sends and its time; extends `SplitReply` |
| `TelegramBotProofs` | the budget, types, the order of the chunks and what is in them |
| `MCTelegramBot` | its instance: the replies |
| `SqlValidator` | the rules, on drafts with three readers |
| `SqlValidatorProofs` | types, what passes, what is refused, what is reported |
| `MCSqlValidator` | its instance: the drafts and the metadata |

Operators named `X_Y` are plausible wrong versions of `X`; `PROJECT.json` pairs
each property with one that violates it. Nothing else refers to them.

### AgentServer
An action is what one task of the event loop does between two awaits. `pc`
follows a request: *building* (its pool thread is in the `UserLocks` factory),
*ready* (in the orchestrator), *waiting* (in `Lock.acquire`), *starting* (holds
the lock, up to the end of `create_subprocess_exec`), *running* (in
`communicate`), *killing* (in `proc.wait`), and *done*, *aborted* (cancelled) or
*lost* (with the server).

- `asyncio.Lock` is modelled by its parts: the flag (`locked`), the queue
  (`ahead[r]`, the waiters in front of `r`) and the futures (`fut`). `Release`
  clears the flag and sets the future at the head; the flag is set again only
  when that waiter runs (`Grant`). Timer and cancellation (`WaitTimer`,
  `CancelWait`) only mark the task; `Unwind` is the task running with it.
- `lru_cache` runs the factory outside its lock, so two first calls may each get
  a `UserLocks` of their own; a lock is named by instance and user.
- `claude` is external: it compares its session flag with the transcript, which
  may also expire, and then writes until it exits. It survives `Crash`.
- What the run came to is chosen when it exits (`Outputs`): SQL that passes, SQL
  that is refused, SQL at which `validate` raises (`unread_sql`), text without SQL,
  and the errors. Nobody catches what `validate` raises (`orchestrator.py:316`), so
  `Verdict` is an HTTP 500 there, and no event follows the completion of the run.
- `EditRegistry` changes the file under the server. A document that does not
  parse empties the sources; an unreadable one is an `OSError`, and one that is
  not UTF-8 raises what nobody catches.
- Time is left out: a timer may fire at any moment of the await it guards.

### Registry, RegistryStore, RegistryCli
`pc` follows `_exclusive` and `save`: *lock*, *load*, *mkstemp*, *replace*,
*unlock*, then *returned*. A process may fail with an `OSError` or die at each
of them; the kernel drops the `flock` of a dead process, and its temporary file
stays. `file` is the set of entries, or `Malformed`: the order of the list is
left out, and equal entries coincide, so the instance gives the names it lets
compete different paths. `RegistryCli` puts `_check_path_allowed` before
`Begin` and the CRG calls after `Unlock`; each may fail without consequence.

`Registry` says what a caller may rely on. The mapping is the identity on the
document, the calls and the answers: the moment a call takes effect is the
rename (`Replace`), or the load that raises.

### MetabaseClient
`query[k].at` is *loop* (top of the retry loop, also while it sleeps off a 5xx),
*lock* (waiting for `_auth_lock`), *login* (holding it), *sent*, and then an
outcome. A session is a number; those up to `expired` are refused, and `used`
is the one a request was sent with, so a late 401 is one for an older session
than the cached one. `call` is the tool call: a failed query or a cancellation
turns it to *aborting*, its other queries unwind, and only then does it return.
`keyed` is the API key mode, fixed from the start: a request goes out without a
session (`SendKeyed`) and a 401 is final (`KeyRefused`).

### SchemaTools
`history` is the list of documents that the registry file has held; what has been
read (`prompt`, `read[c]`, `guided`) is a place in it, so a property can compare
two readings. A document is the sequence of all sources, in the order in which
the code's three nested loops meet them; `Malformed` is one that raises
`RegistryError`, which empties the prompt and the guide and refuses a call. An
edit is one step: that is what the store promises (`Registry`).

`CallTool` is everything before the first query: allowlist, schemas, the checks of
the query builders. `Result` is one query answered from the catalog of that
moment; `seen` remembers which. `Return` is the normalizer, the filter on names
and the merging, unless an identifier among the rows is `Odd` to the models made
of them (`Spoils`): then the `ValidationError` ends the call (`ModelsFail`). The
rows of all tables become models before the filter, so a table that only differs
in case from one asked for can spoil a call. The last validator, of schema and
table (`metadata.py:93-96`), never fails: what passes the filter has passed
`queries.py:27`. A search makes no models. What the database does is external: it
compares names without case (`Folded`), tables whose names it takes for equal come
in one sort group, and their rows may interleave (`Merged`). The normalizer picks
rows by their places (`Select`): those of a table, those of an index, the first of
each index. A search gives any matches up to its limit. `Reply` is a valid draft
that uses some schemas; its `GuideTo` keeps the last declaration of each, as the
dictionary does. A database stands for its id and the name that is registered with
it.

### SplitReply, TelegramBot
A reply is a sequence of lines of which only the length, the places of the
entities and the tags at the ends are kept; a piece of a line is an interval, and
a chunk is its length, its tags and its pieces. `Ends` is `_safe_slices`, one
`Cut` after the other up to `LastSlice`, `Pieces` the treatment of a wide line,
`Pack` one turn of the loop and `Packed` all of them. Entities have one length
here; the code's window of 8 covers its longest, of 6. What the chunks should be
(`Fits`, `Balanced`, `Bisected`, `Shown`) is said without the algorithm.
`WellFormed` says what a reply is (entities apart, one block or none, something
to read) and `Formatted` what `format_reply` adds to that: a block begins with
text, closes on an empty line, and is followed by text.

`pc` is where `on_text` is. A `message.answer` is accepted or refused, and a
refused chunk may have arrived. That of a chunk may also raise another error than
`TelegramAPIError`, which leaves the handler (`ChunkRaises`, *escaped*); for the
acknowledgement and the apology, which nothing catches, there is no difference.
`AnswerRaises` is whatever is raised before there is a reply, at any moment.
`stage`, `spent` and `waited` are the request at the server: *queued* for the
lock, *first* and *second* attempt, each with a timeout of its own. Other messages
are seen only as that wait, which ends at any moment up to the timeout. `Tick`
stops while something is due. Validated SQL ends with a newline
(`validator.py:343`), so `FormatSql` puts the closing tag on a line of its own.

### SqlValidator
A draft has a form, an executable comment or none, and statements with what each
reader sees; `pc` is the rule at hand. The forms are blank, SQL, *garbled* (a
`ParseError`) and *unread* (any other error: a `TokenError` for a quote that is
not closed, a `RecursionError`), which leaves `validate` without a report
(*raised*). A statement may write itself or with an expression of it, such as a
stored function; `calls` are the functions by name. The deny list never meets an
allowed family, as the settings know only `SELECT`. Dictionaries that keep the
last entry of a name are `Match` and `ByName`.

## 3. Runs

| run | asks | instance |
|---|---|---|
| `agent_safety` | type, lock, queue, session, process and audit invariants | 3 requests of a user, 2 pool threads, 1 kill, sessions on or off, a registry that may turn undecodable |
| `agent_liveness` | `Answered`, `LockFreed` | 3 requests of a user, no kill, no pool race |
| `agent_race` | `SessionExclusive`: **violated** | 2 requests on a cold server |
| `agent_spawn` | `SpawnFailedWhileLaunching`: **violated** | 1 request |
| `registry_cli` | invariants, `MalformedKept`, `Refines`, `InvocationsReturn` | 3 invocations, 7 calls that compete for 2 names |
| `registry_sync` | `CrgInSync`: **violated** | a register and a delete of one name, CRG never fails |
| `metabase` | type, lock, login and query invariants, `ToolsReturn` | 2 calls of 2 and 1 queries, session or API key, 2 expiries, 2 retried errors |
| `metabase_refresh` | `NotRecoveredWasRetried`: **violated** | the same calls |
| `metabase_burst` | `OneLoginPerExpiry`: **violated** | the same calls |
| `schema_tools` | `AnswerFaithful`, `PromptedIsServed`, `GuideNamesLookedUp` | 2 calls of 9 kinds, 7 registries with 1 edit, 2 catalogs with 1 migration |
| `telegram_bot` | chunks, budget, order, `FinalWord` | 1 message with each of 227 replies |
| `sql_validator` | what passes, what is refused, what is reported | 416 drafts, with one of two sets of metadata or none, strict or not |

### What the violated runs show
- *Two lock tables.* Two first requests of a user that reach a fresh server
  together can each get their own `UserLocks`, and then run `claude` on one
  session at a time the comment in `session.py:50-51` rules out. `agent_safety`
  shows that this and a killed server are the only ways.
- *A timeout reported as a launch failure.* When the timer fires after the
  process exited and before `communicate` returned, `proc.kill()` raises
  `ProcessLookupError`, which the orchestrator takes for a failed launch.
- *CRG out of step.* `register` of one invocation and `delete` of another may
  reach CRG in the other order than they reached the registry.
- *A refresh that never was.* A 401 in the third attempt is reported as "session
  refresh did not recover" although no refreshed request was sent.
- *The token of another.* Of two queries refused together, the second drops the
  token that the first has renewed. `LoginsBounded` is what remains true.

### What `schema_tools`, `telegram_bot` and `sql_validator` show besides
- *Answers are no snapshots.* `AnswerFaithful` compares each part of an answer with
  the catalog its own query was answered from; a table created in between has its
  indexes and no columns.
- *Case.* Where the database compares names without case, a schema registered as
  `Shop` is found as `shop` and dropped by the filter (`tools.py:185-188`): the
  answer is empty. `AnswerFaithful` is about the names exactly as asked.
- *One bad schema.* The registry accepts a schema such as `my-db`, which
  `queries.py:16` refuses; every call for its database that relies on the
  registered schemas is then refused, those that need another schema included.
- *One odd name.* A column, an indexed column or a relationship whose name is no
  identifier to the models, such as `user id`, leaves the whole call without an
  answer, for every table, and nothing else does (`AnswerFaithful`).
- *The wrong database.* A schema registered for two databases leads to the last of
  them, whichever the tables were looked up in and although nothing was edited; the
  docstring wants "the right database" (`orchestrator.py:104-105`).
  `GuideNamesLookedUp` is what holds: the guide names one of those that declare it.
- *The guide.* Schemas that the agent names itself, or a search over the whole
  database, are compared with nothing, so the reply may name another database than
  the one looked up, or none.
- *The budget* covers a wait and one attempt. A request that waited for at least
  ten seconds and then needed its second attempt can be answered after the bot
  has given up; the server goes on with it and holds the lock.
- *A chunk of tags only* arises when the end of the SQL block overflows one chunk
  and the wide line after it the next. Telegram refuses a message without text,
  and the rest of the reply is lost. `EmptyChunkIsRare` says that this is the
  only way. The line need not have the full width: a blank line between it and
  the block counts towards what does not fit.
- *Silence.* "Never leave them hanging silently" (`bot.py:63`) does not hold for a
  send that fails with an error that is no `TelegramAPIError`, such as aiogram's
  `ClientDecodeError`: `bot.py:71` catches nothing else. `FinalWord` names this
  (*escaped*) and a refused apology as the only ways.
- *No report.* A draft that `sqlglot` fails on with another error than `ParseError`
  is not refused as `UNPARSEABLE` (`validator.py:202`, against `docs/PLAN.md:707`,
  "Reject on parse error"). In `agent_safety` an HTTP 500 behind
  `agent_invocation_completed` is what follows (`AuditTellsReply`).
- *Functions.* What a function writes passes: the rules warn of five names
  (`validator.py:86`), and of no other. `GrammarAssumption` is about statements that
  write themselves, and `PassedWritesByCallsOnly` claims no more.
- *Strict names*: what passes has tables of the metadata, but not all its columns
  are checked: those that an alias qualifies and unqualified ones of joins are
  not, as `test_validator.py:266-275` has it, and tables of one name hide each
  other (`Distinct`). `PassedIsVerified` says which columns remain. `Misleading`
  lists the statements on which the rule on names errs: CTEs, output names,
  aliases that are names of other tables, and tables of one name in two schemas.
  Without each of its parts `HarmlessPasses` is violated.

### Bounds, and why they are enough
- *Three requests of one user.* The queue is then as long as its rules can tell
  apart: a holder, a head, and one behind it to lose a wake-up or overtake.
  Requests of other users share no lock, and TLAPS covers every number.
- *Two pool threads* are the least that race. *One kill* (`MaxCrashes`) gives an
  orphan beside the requests of the new server.
- *`Output`* in `agent_safety` is a good draft, one at which validation raises, and
  an error with the marker of a session error, the outcomes with different control
  flow; `ReplyTo` and `Verdict` map the others alike.
- *Three invocations* suffice for two writers and a death between them. The
  calls include registers, a rename onto a taken name, paths the check and the
  model refuse, a delete and a read.
- *Two tool calls of two and one queries*: siblings, which an abort cancels, and
  a stranger, which it must not hurt. `MaxExpiries` 2 lets a session expire
  again after its renewal. `MaxErrors` 2 lets one query use up its attempts, or
  two be delayed at once; attempts are counted by query.
- *Two calls, one edit, one migration*: a call is compared with the prompt before
  it and the reply after it, and the one edit falls before, between or behind
  them; two calls are the least of which one is still under way when the other
  is done. The registries hold one source, a schema of two databases, a source
  without a schema, an unusable schema, one in another case, none, and no
  document; the catalogs have two tables with an index of one name, a table that
  differs by case and has a relationship with an odd name, an odd column, and an index
  that is dropped.
- *Replies*: up to two lines of SQL and a paragraph, or a chat reply. Lengths are
  empty, the widest that leaves no room for the closing tag, the widest uncut, and
  two cuts; entities begin at each place from where they just fit before a cut to
  the cut itself; the paragraph has a blank line more or not. The limit of 17
  keeps the order of the code's lengths, which `LimitsAssumption` states (3900 is
  more than the tags, 32 and 13, two newlines and an entity; the opening tag is
  the longer one). `Timeout` 2 and `Slack` 1 let a wait be shorter, equal and
  longer than the slack. The chunks of these replies are those that the code
  itself makes of texts of such lines.
- *Drafts*: one of each form and of each way a statement can be more than a read,
  suspicious and other functions that write or do not, UNIONs of two
  arms, and two tables with one column reference, which are the least that
  collide; metadata with and without two tables of one name.

Symmetry is used in `agent_safety` (requests of one user) and `schema_tools` (tool
calls), which check invariants only. Deadlock is not checked: each
system rests when its requests or calls are done.

### Fairness, and what justifies it
- *AgentServer*: weak fairness of each task that can run (the event loop), of
  the run timer and of the restart. Nothing is assumed of `claude`, of
  cancellations, nor of the lock-wait timer, so `Answered` says that the lock
  comes round even without it.
- *RegistryCli*: weak fairness of each process's next step, the grant of a free
  `flock` included. Each invocation takes the lock once, so no stronger
  assumption is needed. Deaths, `OSError`s and CRG failures are never certain.
- *MetabaseClient*: weak fairness of each query (the event loop, backoff timers,
  httpx timeouts) and of the task group's abort and return. Calls,
  cancellations and expiries are never certain.

- *TelegramBot*: weak fairness of the handler (the event loop, and Telegram
  answering each send one way or another, or the send raising), of time, and of
  the two timers at the server. Nothing is assumed of what runs come to.

## 4. Proofs

All theorems hold for every value of the constants under the `ASSUME`s of the
modules, which TLC evaluates on the instances.

- **`AgentServerProofs`.** `TypeInv` adds to `TypeOK` that a request past its
  dependencies has a lock table and that at most one exec lies behind a request
  about to spawn. `LockExclusion` alone is not inductive: `Grant` sets the flag
  without looking. `LockInv` adds that a woken waiter heads the queue of a free
  lock (`WokenIsHead`), that the flag is set exactly while somebody holds the lock
  (`LockAccounted`), that `ahead` orders the waiters of a lock (`QueueInv`), and
  `NoLostWakeup`. Theorems: `TypeCorrect`, `LockIsExclusive`, `LockNeverLeaks`,
  `WakeupNeverLost`, `WokenWaiterIsHead`, `ProcessNeverStray`, and from the lock
  and process invariants together `SessionNeverResumedTwice`.
  `AuditTrailTellsReply` rests on `StartLogged`: a request that is not yet
  answered has logged no more than its start.
- **`RegistryProofs`.** `StoreInv`: whoever is between load and unlock holds
  the `flock` (`FlockInv`), so the document about to be saved is still what the
  call makes of the file (`Fresh`). From it `NamesStayUnique`,
  `MalformedFileIsKept`, `FailedSavesCleanUp` (of `NoLitter`), and
  `StoreRefinesRegistry`, in which the rename is the step that matters.
  Every step of the command line is a step of the store or leaves it alone, hence
  `CliRefinesRegistry`. `OnlyAllowedRootsRegistered`: the check covers only the
  path of a patch, so the saved entry is allowed because the one under the patch
  was (`RootsInv`). `CliTypeCorrect` adds the types of both levels.
- **`MetabaseClientProofs`.** `ClientInv` gives `ClientTypeCorrect` (no query is
  refused more than twice or sent more than three times), `LoginLockAccounted`,
  `NobodyLogsInTwice` and `NoQueryOutlivesItsCall`. `LoginsStayBounded` rests on
  `LoginsPaid`: while there is no token, every login so far is paid for by a
  query that was refused. The modules change several fields of a query with one
  inner record update, `[query EXCEPT ![k] = [@ EXCEPT !.at = .., !.used = ..]]`,
  and write an old value within it as `query[k].refused`: tlapm 1.4.5 translates
  two updates at one index, and `@` inside such a record, wrongly for SMT, and
  proofs over them would be worth nothing.
- **`SchemaToolsProofs`.** `CallInv` ties what a call keeps to the document it has
  read, `GuideInv` the reply to its own. `ToolsTypeCorrect` includes that no call
  goes out without schemas. `PromptIsServed` follows from the source of the prompt
  being in the document of the call; `GuideAgrees`, that the guide names a database
  of the schema as long as one is registered, also needs that a schema with
  any declaration has a last one (`LastDeclaration`, by the least distance from
  the end), and that an answer has tables of the call's schemas only (`AnswerInv`).
  `AnswersAreFaithful` follows the data: however the rows of tables interleave,
  picking those of one table gives them back in their order (`Disentangled`, by the
  rank of a place among others, `RankOnto`); from them the indexes come out one by
  one (`IndexNames`, `IndexColumns`), because each has a row and a name of its own; so
  every part of an answer is the one in the catalog its query saw (`PartFound`), and
  `FaithInv` keeps rows and catalogs together until the call returns. It
  also keeps that what spoils rows is what spoils the tables
  they were made of (`SpoilsIffOdd`, from `OddRows` for one table). It rests on
  `CatalogAssumption`: finitely many tables, one of each name, with indexes of
  different names that have columns.
- **`SplitReplyProofs`.** `SplitReplyRight`: for every well-formed reply and all
  lengths that `LimitsAssumption` admits, the chunks fit, are balanced, cut no
  entity and show the text, once and in order. The argument follows the code.
  A cut advances and is clear of entities (`CutAdvances`, `CutClear`), so the
  slices reach the end of their line (`EndsReach`), and the pieces of all lines
  show all of the text (`AllPiecesShow`) and have the block between the tags of two
  of them (`AllPiecesBracketed`). `PackInv` is the invariant of the loop: the tags
  of the buffer are those of the place in the text, there is room for the tag that
  will close it, and chunks and buffer together show the pieces packed so far.
  Room for the tag is what makes it inductive: it is why `Overflows` keeps
  `CloseLen` back. `SplitReplyRare` has an invariant of its own, `HollowInv`: a buffer
  that shows nothing has at most its tags and the newlines of empty lines, so
  what did not fit in it is nearly as wide as a chunk.
- **`SequenceLemmas`.** The library's induction takes a predicate as an operator,
  which the provers cannot instantiate, so `NatInd` states it for a set of numbers.
  From it: a recursive function exists and obeys its equation
  (`RecursionExists`), what `FlattenSeq` gives (`FlattenIs`, `FlattenAppend`,
  `FlattenConcat`), and where the parts of a flattened sequence lie
  (`MarksExist`, `MarksCover`).
- **`TelegramBotProofs`.** `BudgetInv` bounds the age of a request by where the
  server is with it (`AgeBound`: wait, wait and first attempt, both attempts), and
  `BudgetSuffices` follows for every timeout and slack. `DeliveryInv` says that the
  chunks being sent are those of the reply or the notice, that those that arrived
  are a beginning of them, and all of them once the handler is done:
  `ReplyArrivesInOrder`, `BotTypeCorrect`, and with the results on `split_reply`
  `ChunksAreWellFormed`, `NoTextIsLost`, `NoEntityIsCut`, `EmptyChunksAreRare`. They
  rest on `RepliesAssumption`, that a reply is `WellFormed` and `Formatted`.
- **`SqlValidatorProofs`.** `RulesInv` says what the rules behind have made sure
  of. `PassedDraftWritesByCallsOnly` rests on `GrammarAssumption`: a statement
  that itself writes has a denied word or transaction control, or is known to
  `sqlglot` for what it is. Of functions nothing is assumed; `CallsInv` adds that
  suspicious ones are warned of once the report is made. `HarmlessDraftPasses`
  needs that a harmless draft has not failed so far (`HarmlessInv`), and that
  without misleading names the table found by name is the one that the server
  finds (`HarmlessIsVerified`). `PassedDraftIsVerified` keeps the outcome of the
  strict check (`NamesInv`) up to the end, and needs only that table names are
  `Distinct`. For `ReportNamesTables`, `ReportInv` says that before the report a
  draft has all its tables, or none, or a warning: with some but not all, the
  fallback would not name the rest. `ReportTypeCorrect` gives the types: a refusal
  ends the rules, and there is a report unless `validate` raised.

Only model-checked:
- the liveness properties (`Answered`, `LockFreed`, `InvocationsReturn`,
  `ToolsReturn`, `FinalWord`), because fairness and ENABLED are beyond the prover;
- the violations, which are traces.

## 5. What is left, and why

Every component with state of its own, but for the audit file that is only
appended to, is modelled, checked and has theorems, and so are the places where
components meet: store and command line, bot and server (as the time a request
takes), prompt, tools and reply (as readings of one registry). Some weak points
have no property, because the code promises nothing of them: the parts of an answer
are of different times (`tools.py:145`), a message whose acknowledgement is
refused is dropped (`bot.py:44`), and the strict check refuses statements with
CTEs, output names and aliases that are in order (`validator.py:270`). Three
more are out of the models: a lock per user that is never dropped
(`session.py:60`) breaks nothing in a finite instance, a newline that a cut puts
inside an SQL literal (`handlers.py:108`) and the SQL quoted in audit evidence
(`orchestrator.py:329`) are about texts, of which the models keep lengths and
forms only. `SchemaTools` takes an edit of the registry as one step; the store
is shown to implement that (`StoreRefinesRegistry`), so the two are not composed
state by state. Remaining steps would be the intent guard and the output parser
on a small alphabet of tokens, should their patterns grow beyond a list.

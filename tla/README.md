# Verification of trace-llmops

TLA+ models of the parts of trace-llmops in which several threads, processes or
stores have to agree, the TLC configurations that check them on small
instances, and TLAPS proofs of what matters most for every instance. Paths
below are relative to `src/llmops-api/internal/` unless they say otherwise.

- [1 The system](#1-the-system)
- [2 The modules and the code](#2-the-modules-and-the-code)
- [3 What is checked](#3-what-is-checked)
- [4 Where code and documentation part](#4-where-code-and-documentation-part)
- [5 Fairness](#5-fairness)
- [6 What is proved](#6-what-is-proved)
- [7 What is not modelled](#7-what-is-not-modelled)
- [8 Plan](#8-plan)

## 1 The system

A Flask API serves users who configure LLM apps, knowledge bases and workflows
and chat with them; Celery workers index documents; PostgreSQL, Redis and
Weaviate hold the state. No transaction spans two of them, and nothing spans a
commit and a message to Celery.

| Part | State | Operations | Interacts through |
| --- | --- | --- | --- |
| Agent queue (`core/agent/agents/agent_queue_manager.py`) | an in-memory FIFO per task, the set of closed tasks; in Redis who a task belongs to and whether it was stopped | `publish`, `publish_error`, `stop_listen`, `listen`, `set_stop_flag` | the agent's thread and the response's thread (a lock per call), stop requests of other processes (Redis) |
| Agent graph (`function_call_agent.py`, `base_agent.py`) | the LangGraph state: messages, iteration count | the nodes preset, memory, llm, tools; `run_agent`'s `except` and `finally` | publishes into the queue from a thread of its own, which is never cancelled |
| Chat runtime (`service/chat_runtime.py`, `core/agent/agents/base_agent.py`) | the merged thoughts of one turn, whether it is finished | `stream`, `consume`, `drain`, `finish`, `invoke` | pulls `listen`; sends SSE frames; calls `save`; a disconnect hands the iterator to a background thread |
| Events and bill (`core/agent/usage.py`, `entities/queue_entity.py`) | none | `merge_agent_thought`, `summarize_usage` | pure functions of the events |
| Documents (`service/document_service.py`) | rows, a Redis lock per document being switched | create, rename, enable/disable, delete | commits, then sends a Celery message |
| Segments (`service/segment_service.py`) | rows, a Redis lock per segment | create, rewrite, enable/disable, delete | rows, keyword table and vectors, one after the other |
| Indexing tasks (`service/indexing_service.py`, `task/document_task.py`) | status of documents and segments | build, update_document_enabled, delete_document, delete_dataset | Celery messages; the three stores |
| Keyword table (`service/keyword_table_service.py`) | one JSON column per knowledge base | add, delete, under a Redis lock | read-modify-write of the whole column |
| Retrieval (`service/retrieval_service.py`, `core/retrievers/`) | none | full-text, semantic and hybrid search | candidates of the table or of Weaviate, filtered by the rows |
| Workflows (`service/workflow_service.py`) | draft graph, published graph, status, the mark `is_debug_passed` | save, debug, publish, cancel, delete | requests that read a row and save it later, without a lock |
| Workflow engine (`core/workflow/`) | the results of one run | the checks of a draft and of a graph, the LangGraph program, the run in rounds | called by debug runs and by agents as a tool |
| Apps (`service/app_service.py`, `app_config_service.py`, `web_app_service.py`) | the row, the draft, the publications, the joins to knowledge bases, the token | update, publish, cancel, fallback, copy, delete | writers hold the row from the first statement to the commit; turns read without a lock |
| App configuration (the same, and `core/language_model/`) | one JSON value per field | check and normalise when stored and when published, resolve when a turn begins | tools, workflows, knowledge bases and models that come and go |
| Conversations (`service/conversation_service.py`, `core/memory/`, the four entry points) | conversations, messages, summary, name | find or create, read the history, `save_agent_thoughts`, list by pages | turns of one conversation overlap; each saves in several commits with model calls between |
| Message pages (`pkg/paginator`, `src/llmops-web/src/components/ChatPanel.vue`) | what a reader shows | page by number below a cursor | the conversation goes on between two pages |
| Knowledge base (`service/dataset_service.py`, `service/retrieval_service.py`) | its row, its joins | delete, search | workers that go on building; vectors that outlive their rows |
| Logins (`service/oauth_service.py`, `account_service.py`) | accounts, bindings | `oauth_login`, passwords | two advisory locks per transaction |
| API tools (`service/api_tool_service.py`, `core/tools/api_tools/`) | providers, tools | parse a schema, create, update, delete, call | row locks of account and provider |
| Uploads (`service/cos_service.py`) | objects, rows | upload with compensation | two stores, no transaction |
| Analysis (`service/analysis_service.py`) | a cache per app and day | figures of two windows and their trend | messages that are answered later than they are created |
| Shared models (`service/embeddings_service.py`, `faiss_service.py`) | lazily set fields, two locks | first use by any thread | double-checked locking, one lock held around the other |
| Prices (`core/language_model/usage.py`, `core/agent/usage.py`) | none | `collect_usage`, `summarize_usage` | reports that leave things out |
| The rest | | API keys, catalogues, adapters, handlers, migrations | single statements or calls of foreign services |

What makes them correct, and hard:

- **A chat turn** is pulled by the client, fed by a thread that may hang and
  watched by a clock and by stop requests. It must end once, whoever ends it;
  the client must see every event up to the point where it leaves; the turn
  must be saved once, whole, even though the client left; nobody but its
  operator may stop it; a bill must not be called complete if a call is
  missing. The hard orders are those between the listener's decision (taken
  outside the lock) and the agent's next `publish`, between the last frame and
  `finish`, and between the disconnect and the drain.
- **A knowledge base** keeps each segment in three stores. A document must be
  built once although Celery may deliver twice and a dispatch may fail either
  way; it must be completed only if it is whole; its cleanup must not run ahead
  of its deletion; it must come to rest; and at rest a search must find what
  the rows say. The hard orders are those between a commit and its message,
  between two requests and between a task and the next request, and failures
  between two stores.
- **A workflow** may be published only if the draft it publishes passed a debug
  run. The hard orders are those between the read at the start of a request or
  of a debug run and the write at its end.

- **An app** must run its newest publication, and a turn, which reads it in four
  statements, none older than the one it found; what was saved must be
  publishable, and what is stored must run.
- **A conversation** must keep what its summary has taken up, get a name, and
  give every turn a history that is recent and whole, though turns overlap;
  reading it page by page must miss nothing and repeat nothing.
- **A graph** must be refused exactly if it cannot be run, for a run leaves out
  in silence a variable whose source has not run.
- **The rest** has one hazard each: two accounts for one address, two logins in
  a circle of locks, a tool whose address cannot be filled, a knowledge base
  that is half deleted for ever, an answer from a segment that was hidden, an
  object nobody knows of, yesterday's figures, a model that is not there, a
  price that is not certain.

`PROJECT.json` lists the components with their sources, the hazards with their
lines and the properties aimed at them, and the lines each definition models.

## 2 The modules and the code

### Chat turn

```
AgentThoughts <- AgentQueueManager <- FunctionCallAgent <- ChatRuntime <- ChatTurn <- ChatTurn_proofs
                                                    TurnContract <- (ChatTurn, by refinement)
```

- **AgentThoughts**: the events and the two pure functions over them. An event
  keeps the id of the step that published it, its kind, how many pieces of
  answer text it holds and how it settles a model call. The merge is the
  dictionary of the code in insertion order.
- **AgentQueueManager**: `log` is every item ever put into the queue and
  `taken` how many were taken out, so that the history stays in sight. Each
  operation that holds the lock is one step. The belongs key and the stop key
  are the two Redis variables, with the code's account/end-user prefixes.
- **FunctionCallAgent**: the agent's thread, one action per node and per event
  it publishes, since the lock is taken per event. A node may raise at any
  point (`NodeRaises`); `CatchError` and `Finally` are `run_agent`'s handlers.
  The number of model calls is limited by the code's own test, which is made
  before the count is raised.
- **ChatRuntime**: the nested generators as one position `at`, because whoever
  pulls (`driver`: the client, the background drain, or the blocking `invoke`)
  resumes the same iterator. `get`, the check of the closed set and the
  decision between timeout, stop and ping are three steps: only the second is
  under the lock. `heard`, `frames` and `saves` are history.
- **ChatTurn**: the composition with the users who press stop and the clock.
- **TurnContract**: what `src/docs/contracts/agent-stream-events.md` promises,
  in three actions (`Show`, `Hide`, `Store`). `ChatTurn` refines it with
  `shown <- frames` and `stored` the events heard if the turn is saved.

### Knowledge base

```
KnowledgeStore <- IndexingTasks <- DocumentRequests <- SegmentRequests <- KnowledgeBase <- KnowledgeBase_proofs
                                              DocumentContract <- (KnowledgeBase, by refinement)
```

- **KnowledgeStore**: rows, vectors and keyword table of one knowledge base and
  the statements on them. The keyword table is the set of segments it names;
  adding reads the rows and then writes, both under the lock, because rows come
  and go without it; deleting is one step under the lock. `FullTextHits` and
  `SemanticHits` are what the retrievers can return.
- **IndexingTasks**: the workers. Each task is the sequence of its commits and
  external calls, with what it read in between in the worker's record. A
  message is taken off when it is received (the workers acknowledge early);
  the broker may keep a copy.
- **DocumentRequests**: create, delete and switch of a document by HTTP
  requests: check, commit, send, and the compensation when sending raises,
  with the message lost or delivered nevertheless.
- **SegmentRequests**: create, delete, switch and rewrite of a segment, each
  store a step, each `except` an action of its own (`NewFails`, `CutFails`,
  `FlipFails`, `RewriteFails`).
- **KnowledgeBase**: the composition, crashes, and the properties. A run picks
  the kinds of operation and of failure it admits with `Operations` and
  `Faults`, so that each question is asked of the smallest system that has it.
- **DocumentContract**: what the user of a document sees, whoever builds it: its
  stage (`Progress`, the status of the row), its rows, and what a search finds of
  it by keyword and by vector. `KnowledgeBase` refines it with the status, the
  rows and the hits of the two retrievers.

### Workflow lifecycle

- **WorkflowLifecycle**: a request reads the row (`Begin`) and saves later
  (`Save`); `update` is what the ORM then writes: the fields that differ from
  what the session had read, and nothing to a row that is gone. A debug run
  reads the draft when it is requested, runs it, and marks the row as it is at
  the end. A client that leaves closes the generator and neither outcome is
  recorded (`Abandon`). `EditWhileDebugging` says whether a draft may be saved
  while a debug run is open; the code lets it be.
- **WorkflowLifecycle_proofs**: its theorems, and those of `WorkflowGraph`.

### Services

These share no state with one another and none with the above that a model
needs; each is a module of its own, and `MCServices` explores them side by side.

- **AppLifecycle**: a writer's transaction is a record (`job`) that holds what
  it read from the first statement (`_get_app_for_update`, `SELECT ... FOR
  UPDATE`) until it commits or rolls back. A turn (`turn`) reads the row, the
  configuration, the joins and the workflows in four steps and holds nothing;
  `draft_app_config` is the property of the model that creates a missing draft
  while it is read. Knowledge bases are deleted and workflows published and
  cancelled meanwhile.
- **AppConfigRules**: one field of a configuration from the request to the turn,
  with the three sets of rules it meets: `_validate_draft_app_config` (when it
  is saved, and again when it is published), `_process_and_validate_...` (when it is
  read) and `create_language_model` (when the model is made). What a rule lets
  through is stated as the code has it, the two slips of parameters (a minimum of
  zero is no minimum, `None` passes) included. A model is also refused without the
  key that its provider asks for (Ollama asks for none) or without its package.
- **Conversations**: the four entry points, each with its own way to find or
  create a conversation (the debug page and the assistant keep a pointer that is
  set lazily); the history, cut by number and by tokens; and
  `save_agent_thoughts` as the commits it makes: answer, summary, name, status.
  `created_at` is the second in which the transaction of the message began, so
  that messages tie, and `Remembered` is the set of the orders that a database may
  return them in.
- **MessagePages**: the query with its cursor, the paginator, a client that
  keeps its cursor and the panel, which moves it. `created_at` has whole seconds,
  so that two messages may tie and the database orders them as it likes.
- **WorkflowGraph**: a list of nodes and a set of edges through the loose check
  of a draft, the strict one of `WorkflowConfig`, the program that `Workflow`
  builds (a join waits for all its predecessors) and LangGraph's rounds, in which
  all triggered nodes run together. The reachability and cycle checks are set
  operators that follow the code's queues.
- **Accounts**: a login takes its locks one by one in the order of their numbers,
  reads, writes and commits; `KeyOf` is any function, so that hashes may collide.
- **LoginContract**: logins as if they came one at a time: who presents an identity
  and an address is answered, in one step, with the account the identity is bound
  to, else with the owner of the address, else with a new account. `Accounts`
  refines it with the two tables and with what each login has presented and been
  answered.
- **ApiTools**: the check of a schema, the three requests with the locks each
  takes, the argument schema made of an operation and the request made of the
  arguments. The address that `format` fills is the server with the path; a field of
  it has the name by which `validate_paths` compares it, if it is in the path, and
  the key by which `format` looks it up.
- **Datasets**: `delete_dataset` step by step with its failures, workers and
  users at work meanwhile, and a search from the store's answer to the page.
- **UploadedFiles**, **Analysis**, **SharedModels**, **CallBilling**: an upload
  and its compensation; the five figures of one app and their cache, with the
  windows read by two statements (time in half days; the key of the cache also
  holds the id of the app);
  double-checked locking statement by statement, the two assignments apart; the
  price of a call, its settlement (`merge_agent_thought`) and the bill of a turn,
  where a report that does not add up keeps the total it came with.
  `FaissService` is bound to no scope, and is one per process all the same: only
  `AssistantAgentService` has it, through the handler and the router, which
  `app/http/app.py` resolves once.

Modules named `..._proofs` hold the theorems of the module they are named for;
`Resources_proofs` holds those of `ApiTools` and `Datasets`, `Services_proofs` those
of the services that have no module of theorems of their own.

Operators named `X_Something` and introduced by `Mutant:` are `X` with a
plausible mistake in it. They belong to no specification; each shows that a
property would notice.

## 3 What is checked

| Run | Question | Instance |
| --- | --- | --- |
| turn-safety | one end, gapless frames, saved once and whole, a complete bill settles every call once, stopped by its operator only, and the contract | 2 users, web app and open API, 2 model calls with up to 1 chunk and 1 tool between them, then the limit |
| turn-live | a stream that was opened is saved; an accepted stop ends the turn | 1 user, 1 model call, a ping before the timeout |
| kb-build | built once, whole when completed, cleaned up only after deletion, settled in the end, and the contract | 1 document, up to 2 segments, 2 workers, 2 requests, every failure, 1 duplicate, crashes |
| kb-toggle | at rest, table and vectors are what the rows say | 2 documents of 1 segment, 2 workers, 1 request at a time, vector store and broker may fail |
| kb-segments | a segment in service is found by keyword and by vector | 1 document of up to 2 segments, 3 requests at once, vector store and keyword lock may fail |
| services | the properties of the thirteen service modules, listed below | section "Bounds" |
| kb-retry, kb-crash, kb-rollback, kb-race, workflow-race, panel-pages | see section 4 | the smallest instance that shows it |

The properties, each defined and explained in the module named:

- `ChatTurn`: `TypeOK`, `EndsOnce`, `FramesContract`, `SavedOnceWhole`,
  `CompleteBillIsWhole`, `StoppedByOperator`, `StreamIsSaved`, `StopEndsTurn`,
  `ImplementsContract`.
- `KnowledgeBase`: `TypeOK`, `BuildOwnsDocument`, `CreatedIsSettled`,
  `ImplementsDocumentContract` (of which `CompletedIsWhole` and `LiveKeepsSegments`
  are parts, stated for themselves by theorems), `QuietIsConsistent`,
  `InServiceIsFound`, and, violated by the code, `CleanupIsComplete`,
  `QuietIsSettled`, `TogglesOneAtATime`.
- `services`: `ServicesTypeOK` (the types of all of them); `AppLifecycle`:
  `PublishedIsLatest`, `TurnIsNotOlder`; `AppConfigRules`: `SavedIsPublishable`,
  `ResolvedRuns`; `Conversations`: `SummaryLosesOnlyOverlaps`,
  `FirstAnswerNames`, `HistoryIsRecent` (of steps); `MessagePages`:
  `PagesShowOnce` and, violated by the code, `LoadsEarlierMessages`;
  `WorkflowGraph`: `AcceptsExactly`, `ReferencesResolve`; `WorkflowLifecycle`:
  `PublishedWasDebugged`; `Accounts`: `LoginsAgree`, `NoCircularWait`, `LoginsAreAtomic`;
  `ApiTools`: `ProviderNamesUnique`, `ToolsMatchProvider`, `ToolsCanBeCalled`;
  `Datasets`: `DeleteLeavesOnlyLateWrites`, `ResultsWereVisible`;
  `UploadedFiles`: `FilesAreAccountedFor`; `Analysis`: `ServedIsOfToday`;
  `SharedModels`: `LoadedOnceForAll`; `CallBilling`: `PriceIsCertain`,
  `BillIsWholeOrOpen`.

### Bounds, and why they are enough

- `Users`: one operator and one stranger; the code compares one key.
- `MaxIteration`, `MaxChunks`, `MaxTools`: a reply has text, a tool call or
  nothing; with `MaxIteration = 1` two calls and a tool call between them are
  made before the limit is met, with 0 (`turn-live`) one. More repeats the same
  steps.
- `ListenTimeout`: the clock counts ping intervals of ten seconds; the code's
  limit of 600 s is 60 of them. `turn-live` has 2, so that a ping falls due
  before the limit; `turn-safety` has 1, where the limit alone matters, and the
  theorems hold of every value.
- `Documents`, `MaxSegments`: two segments make "the rest of the batches" and
  "one of several failed"; two documents share the keyword table and its lock.
  A batch of the code is ten segments, here one, so that a batch may fail after
  another succeeded.
- `Workers = 2`: two tasks of one document, or of two, overlap. `Requests`: 1
  to 3, as the run's question demands.
- `MaxRetries = 1` (3 in the code): a first try, a retry, and a task that gives
  up. In `kb-build` it is 0: there only the clean-up of a document that is settled
  already is ever retried, `kb-toggle` has those retries, and `BuildsAreOwned` and
  `DocumentsImplementContract` are proved for any number of them.
  `MaxRedeliveries = 1`: one message delivered twice.
- `MCServices` chooses one component at the beginning of a behaviour (`service`)
  and lets only that one move. This adds the state spaces of the components
  where a composition would multiply them, and loses nothing, since they share
  no variable. Two of everything that may overlap (writers, turns of a
  conversation, logins, requests, uploads), three threads at the shared models
  (one in each lock and one that looks from outside); two publications, so that
  there is an older one; four nodes of a graph, which make a diamond, a cycle
  beside the way from start to end, and a node that hangs loose, over eleven
  candidate edges; hashes of which two collide; five schemas, of
  which one has a field in its server and one a path `{0}`, and the last three are
  refused; a conversation that lasts up to `LastSecond = 2`, so that a message of a
  turn comes in the second of the last one before it or in the next; pages of two and four messages, so that
  there is a second page and a rest; a window of two days where the code has
  seven; prices in two tiers, with and without a rate for what was cached.
  `Deleters` is one request, which may fail and be asked for again; the theorem
  holds of any number.
- Symmetry of users, workers and requests is used in runs of safety properties
  only; none of them is told apart in a definition. In `services` whoever acts in
  the component of the run (writers, turns, logins, requests, uploads) goes by the
  same two names, so that one permutation serves all components.
- `Outcomes` of a conversation's turn: it times out after its answer, which the
  history of a later turn takes like a normal end, or fails before it answers.

`kb-toggle` has one request at a time and no failure of the keyword lock,
because with either the property does not hold of the code: that is what
`kb-rollback` and `kb-race` show. `kb-segments` does not admit `second_lock` (a
rewrite that gets the keyword lock for its deletion and not for its addition),
for then the old keywords are lost and nothing says so; the comment at
`RewriteFails` says it. For the same reasons three branches are only reached in
the runs of section 4, or in none yet: a toggle whose document is deleted
between its check and its commit (`Commit`), a toggle task that cannot lock the
table (`SyncFails`), and the second lock of a rewrite. `services` has
`EditWhileDebugging = FALSE`, and so excludes what `workflow-race` shows, and
`PagesShowOnce` speaks of a client that keeps its cursor, not of the panel.
Deadlock is checked of the chat turn, whose end is an explicit step (`Over`);
the other systems may be at rest.

## 4 Where code and documentation part

Each is a run TLC ends with a counterexample; the sentence of the code or of
its documents is quoted in `PROJECT.json`.

- **kb-retry** (`service/indexing_service.py:178`). Deleting a document reads
  the ids of its segments from their rows, deletes the rows and then removes
  the ids from the keyword table. If that last step fails, the retry finds no
  rows, has nothing to remove and succeeds; the keywords stay. The task calls
  itself idempotent and completed by its retries.
- **kb-crash** (`service/document_service.py:107`). An API process that dies
  between commit and dispatch leaves the document `waiting`, for which there is
  no task and which cannot be deleted. The robustness plan says that an `error`
  document is left, which the user may submit again.
- **kb-rollback** (`service/indexing_service.py:165`). If the keyword table
  cannot be updated, the flag of the document is rolled back and the flag of
  its vectors is not.
- **kb-race** (`service/document_service.py:194`). The lock of a document is
  read and then set, by two Redis calls; two requests pass.
- **workflow-race** (`service/workflow_service.py:308`). A debug run that ends
  after the draft was changed marks the new draft as passed.

- **panel-pages** (`src/llmops-web/src/components/ChatPanel.vue:41`). The button
  for earlier messages asks for page 2 of the messages up to the oldest one that
  is shown: the cursor has left out what was shown, and the number of the page
  leaves out as many again. With pages of twenty, nineteen messages are never
  shown. Either alone would do, as `PagesShowOnce` says of the cursor.

What the code does and no text of it denies is stated as an exception where it is
modelled: `ResolvedRuns` (None, and a negative number where the minimum is zero,
are stored and fail the turn), `ToolsCanBeCalled` (`validate_paths` compares the
fields of the path with the parameters: those of a server, which
`validate_server` lets through, have no value, nor has `{0}`, and `{a.b}` is looked
up as `a`; every call of such a tool raises), `SummaryLosesOnlyOverlaps` (of two turns that
overlap one is lost from the summary), `FirstAnswerNames` (two first turns that
overlap leave the conversation without a name), `FilesAreAccountedFor` (what a
crash leaves behind).

## 5 Fairness

Safety needs none. For the chat turn, `Fairness` is weak fairness of the
consumer (a thread that runs, or a drain that runs; `Queue.get` has a timeout,
so it never waits for ever) and of the client's next pull or disconnect (the
WSGI server either pulls the generator or closes it). Nothing is assumed of the
agent: a model or tool call without a timeout may hang, and the run must end
all the same. The clock is assumed to advance (`TimePasses`) only for
`StreamIsSaved`, where the listener's 600 s are the only thing that ends a hung
turn; `StopEndsTurn` does without it.

For the knowledge base: a request that was begun is carried on by its server
thread, a worker takes messages as long as there are some and carries on a task
it has taken. No user has to ask for anything, and no failure or crash is ever
obliged to happen or not to. The fairness of a request is that of the whole
request rather than of a step, since at any moment it has one thing to do and
the failures of that thing.

The service modules have only safety properties and state no fairness.

## 6 What is proved

Eight modules hold theorems, all of them checked by TLAPS and listed with what they
say in `PROJECT.json`. They hold for every value of the constants that satisfies the
named assumptions: `QueueAssumption`, `AgentAssumption`, `RuntimeAssumption` (chat
turn); `KnowledgeAssumption`; `GraphAssumption`, `NodeListsAssumption` (workflows);
`VersionsAssumption`, `KeysAssumption`, `NamesAssumption`, `SchemasAssumption`,
`ThreadsAssumption` (no thread is the mark of a free lock), `ReferencesAssumption`,
`CallersAssumption`, `BillingAssumption`, `PagesAssumption`, `WindowAssumption` and
`KindsAssumption` (prices are whole numbers of the smallest unit). They type the
constants and keep marks apart from values; TLC evaluates each of them.

| Module | Theorems |
| --- | --- |
| `ChatTurn_proofs` | `TypeCorrect`, `TaskEndsOnce`, `OnlyOperatorStops`, `FramesAreHeard`, `SavedOnceAndWhole`, `CompleteBillsAreWhole`, `RuntimeImplementsContract` (the refinement of `TurnContract`) |
| `KnowledgeBase_proofs` | `KnowledgeTypeCorrect`, `BuildsAreOwned`, `OnlyUsersCutSegments`, `LiveSegmentsStay`, `BuildsAreWhole`, `DocumentsImplementContract` (the refinement of `DocumentContract`), `SearchesFindWhatIsReady`, `ServedSegmentsAreFound`, `QuietStoresAgree` |
| `WorkflowLifecycle_proofs` | `WorkflowTypeCorrect`, `PublicationIsEarned`, `CheckedExactly`, `ReferencesHaveRun`, `RunsAreShort` (the last three of `WorkflowGraph`) |
| `AppLifecycle_proofs` | `PublishedStaysLatest`, `TurnsAreNotOlder` |
| `Accounts_proofs` | `AccountsTypeCorrect`, `LoginsAlwaysAgree`, `LoginsNeverCircle`, `LoginsImplementContract` (the refinement of `LoginContract`), `OneAccountForEach` |
| `Resources_proofs` | `NamesStayUnique`, `ToolsAlwaysMatch`, `ToolsAreCallable`, `CatalogueTypeCorrect` (of `ApiTools`), `DeletionIsComplete`, `SearchesAreHonest` (of `Datasets`) |
| `Services_proofs` | `FilesStayAccountedFor`, `LoadedOnce`, `SavedStaysPublishable`, `ResolvedAlwaysRuns`, `ConversationsTypeCorrect`, `FoldedStays`, `FirstAnswerIsNamed`, `HistoriesAreRecent`, `PricesAreCertain`, `BillsAreWholeOrOpen`, `PagesContinueOneOrder`, `FiguresAreOfToday` |
| `MCServices_proofs` | `ServicesTypeCorrect`, `ServicesAreCorrect` |

Each proof has an inductive invariant (`...Inv`), a lemma per action or group of
actions, and lemmas on what the others may rely on. What the invariants add to the
properties, and why they must:

### Chat turn

`TypeOK` needs two more facts to be inductive: `ToolsPending` (an agent at its
tools has a tool call left to run, or the count would fall below zero) and
`ItemAtHand` (the consumer never takes the sentinel for an event); `Typed` is the
three together. `EndsOnce` is not inductive: its "closed"
case needs that whoever closes the queue has ended it. `publish` does both in
one step, but `stop_listen`, in the agent's `finally`, closes without an event,
and would leave a queue that ended with no terminal event if the thread reached
it without having published one. The strengthening is `AgentEnded` (a thread in
or past its `finally` has closed the queue, by `agent_end` or by the error its
`except` published, or because the listener was first); `QueueInv` is
`Typed /\ EndsOnce /\ AgentEnded`. The argument goes through one lemma on
`publish` (`PublishKeepsQueue`) and one that says that every step of the agent
is at most a publication of something other than a stop (`AgentStep`).
`StoppedByOperator` needs that the stop key is set only after the operator
asked, that the listener stands at its stop only with the key set, and that the
belongs key, once there, is the operator's; `StopInv` adds these. Two entry
points share a prefix (the web app and the debugger), so the proof uses that the
user, not the entry point, is what a stop is refused for.

What the consumer does is tied to the log by `HeardInv`. `ListenerInv` says for
each position of the nested generators that what was heard is the first `taken`
items of the log, less the one that is at hand, plus the error the listener makes
up when its own `publish` came too late; the sentinel is never among them.
`HeardFromLog` turns this into a fact that survives the end of the turn: an event
that the consumer did not make up has all before it in the log. `MergedInv` says
that the thoughts are the merge of what was heard, and `FramesInv` that the frames
are a prefix of it. `FramesContract` and `SavedOnceWhole` follow, with `EndsOnce`
for the one terminal event. `MergeAll` is a fold; what it does with one more event is
shown from the recursive function the fold is defined by, by taking the shortest list
for which it would fail.

For `CompleteBillIsWhole`, `CallsInv` counts: every call that was begun has its
settlement in the log, unless the agent was cut short or is in the middle of one;
`ThoughtsInv` carries this through the merge, where every event but a ping is an
entry with its id. `RuntimeImplementsContract` takes the steps one by one
(`EndsAgree`, `HearingImplements`, `StepImplements`): hearing an event is `Show` or
`Hide`, as the client drives or not, finishing is `Store`, and the rest stutters.

### Knowledge base

`BuildOwnsDocument` alone is not inductive, for what keeps a second build away is
what requests and messages know. `BuildsAgree` is the property without counting: a
builder is in the stage of its document's status, and two of one document are one.
`DeletesAgree` says that a request about to delete, a message that asks for it and a
task that has it speak of a document whose build has ended for good, for `completed`,
`error` and `gone` lead to no stage of a build again. So a late or a doubled message
finds a status that is not `waiting` and does nothing.

`OnlyUsersCutSegments` is a property of steps for all operations together, from the
same invariant: the clean-up of a document that is `gone` is the only other step that
deletes rows. `LiveSegmentsStay` and `BuildsAreWhole` are for the users of their runs
(`"segment" \notin Operations`, and for the second `"toggle" \notin Operations` too): with
segments being cut and switched the properties are not meant to hold. `AskedFor` says
that then no request, message or task is in a place that only such an operation
leads to. `WholeInv` says for each place of a build what its document has by then:
between the reading and the writing of the table the builder holds the lock and its
`found` has all the rows; at the end the rows that are completed have their keywords
and vectors; and a document that is completed is whole. Every step of another worker
keeps the stores of the document (`StoresKeep`), whose segments nobody else names.

`DocumentsImplementContract` has the hypotheses of `BuildsAreWhole`. The contract is
about what can be seen, so the first step is that a search sees no more than status
and rows say: a hit must be a segment that is completed and enabled, of a document
that is, and by `WholeInv` all of those have keywords and vectors (`HitsOfDocument`,
`HitsSaid`). What is left is how status and rows move together, one document at a
time (`DocumentsMove` has the seven kinds of step: none, a claim, a step of a build,
its completion, its failure, the deletion, the clean-up), and that each of them is an action of the
contract (`GoesByContract`). A worker that dies, a message that comes twice, a request
that fails after its commit leave both alone.

`ServedSegmentsAreFound` has the hypotheses of the run `kb-segments`: users do
nothing but create, rewrite, switch and cut segments, and the faults
`request_crash` and `second_lock` are left out, since the code does not recover
from either (a rewrite that is refused the lock the second time, or a request that
dies, leaves the keywords out). Stores may fail. `ServiceInv` has, for all segments
and all requests:

- `Served`: a segment in use is in an enabled document and has a vector that says
  so, its flag in the vector is the flag in its row, and if it is enabled its
  keywords are in the table, each unless a request that will see to it is under way;
- `Stands`: what a request has done of its segment and what of that is still so: who
  creates it finds no vector yet, who switches it holds its lock and has written the
  flag it wants, who is about to write the table holds its lock and has read the row;
- `Excluded`: a segment is created once, and switched by one request at a time.

The lemmas are of two kinds: a step re-establishes `Served` and `Stands` for its own
segment, and it does no harm to the others (`Spares`, `OthersStand`).

`QuietStoresAgree` is for the users of `kb-toggle`, who switch and delete whole
documents; of the failures it leaves out those after which the stores are known to
differ: a keyword lock that a task cannot get (`table`, see `kb-rollback`), a message
that is sent although the broker raised, one that is delivered twice, and processes
that die. Its statement is `Spec /\ []SwitchedInTurn => []QuietIsConsistent`: no two
requests switch the same document at a time. One request at a time for all, as in
the run, is the special case (`OneRequestInTurn`); here any number of documents are
switched at once. Without the condition the property is false. The lock of a
document does not see to it: two requests may pass it together (`kb-race`), and one
that asked before another committed puts back, if it cannot send its message, the
opposite of what it wanted and not what it found. `SwitchInv` has, for each document:

- `InTurn`: at most one message or task is about its switch, holds its lock, and
  comes after the request that sent it;
- `DocumentAgrees`: the stores are `Current` (as the row says) or `Behind` (as it said
  before), which of the two follows from the place of the request or task; a task
  that is marking (`Marked`) has the segments it has yet to mark behind, the others
  current and the table behind, and knows all that are completed;
- `NamesItsOwn`: a task has only segments of its own document in hand, and what it
  read for the table is still there when it writes, since it holds the lock.

`TurnKeeps` and `ServiceKeeps` say when a step has nothing to do with a document:
all but the switches themselves are of that kind (`KeptAll`).

### Workflows and graphs

`WorkflowTypeCorrect` holds whether or not drafts are saved
during debug runs; `PublicationIsEarned` is: if they are not (`~EditWhileDebugging`),
then `Spec => []PublishedWasDebugged`. The code does not enforce the condition, and
without it the property is false: that is what `workflow-race` shows.
The invariant has to speak of what requests have read. `PublicationInv`
says that the mark vouches for the draft in the row; that a request about to
publish has read an unpublished row whose draft was debugged; that a request
about to cancel has read a published one; that a request about to save a draft
has read a mark if there is one now (or the ORM would not write its reset, since
only fields that differ from what was read are written); that the graph of an
open debug run is the row's draft; and that a pending save and an open debug run
exclude each other. `UpdatedRow` is the lemma on what the ORM writes, and
`EditRow`, `PublishRow` and `CancelRow` apply it to the three requests.

`CheckedExactly` compares two searches with a definition. Each search is a function of
the number of rounds. If a graph is accepted, the round in which Kahn's search takes a
node ranks the nodes along the edges; if the nodes have ranks, a node of rank `k` is
reached and taken by round `k`, so neither search can leave one out (least
counterexamples, `SmallestOf`). `ReferencesHaveRun` rests on `RefInv`: what has run
before a round is closed under the sources of edges, because a join waits for all of
its predecessors; and the check of references lets a node name only what lies in every
closed set that holds its own sources (`Behind`).

`RunsAreShort` is the type of `WorkflowGraph`, of which one part is no type: a run has
at most as many rounds as the graph has nodes, and so ends by itself. Every round adds
to the nodes that have run (`Triggered` is never empty when a round is run, and has no
node that has run before), so there are at most as many rounds as such nodes
(`GraphTyped`), and all of them are nodes of the graph.

### Services

| Property | What the invariant adds |
| --- | --- |
| `PublishedIsLatest`, `TurnIsNotOlder` | `JobAgrees`: one transaction is open, and the row it has read is still the row; `Numbered`: the tables of configurations and publications grow together, so that the query for the last number finds their length (`LastVersionIsLength`); `TurnAgrees`: a turn has found no publication that is yet to come, so a later one cannot take its number |
| `LoginsAgree`, `NoCircularWait` | `LocksAgree`: what a login holds is smaller than what it still wants; `ReadsHold`: what was read as missing is missing until the commit. `LoginsNeverCircle` takes, in any group of waiting logins, the one that wants the largest key: whoever holds that key, were it waiting in the group too, would want a larger one (`WellFoundedInduction`); groups may be infinite |
| `LoginsAreAtomic` | a login goes over to the contract when it commits. `ReadsHold` says that what it found missing is missing still, `FoundStays` that the binding or the account it found is there still, for neither is ever deleted; so the answer it has prepared from several reads is the one that a single step would give now. Until then it changes nothing that others see, but that it has presented itself (`QuietLogin`). `OneAccountForEach` follows from the contract alone (`ContractGivesOne`): one account for an address, one for an identity, and none that is not committed for anybody |
| `ProviderNamesUnique`, `ToolsMatchProvider`, `ToolsCanBeCalled` | `EditAgrees`: who holds the account's row holds it alone, the name it checked is still free and the provider it creates is not there yet; `HoldAgrees`: who holds a provider's row holds it alone, and the tools it cleared are all the provider has; `SchemasAreValid`: a tool is of an operation that was checked, so that a field of its path that is looked up by its own name is a required parameter |
| `FilesAreAccountedFor` | `FilesInv`: only an upload that is done has a row, and an object is there from when it was stored and not before |
| `LoadedOnceForAll` | `FieldsAgree`: a load that is counted but not published belongs to one thread between the two assignments; `ThreadAgrees`: that thread holds the lock |
| `DeleteLeavesOnlyLateWrites`, `ResultsWereVisible` | `StoreAgrees`: only what a worker has got to is there; `NothingReturns`: what was there and is gone is not written again, which is what a deletion relies on of every other step; `SearchAgrees`: a search remembers what was visible |
| `SavedIsPublishable`, `ResolvedRuns` | what a check leaves of a field passes it again, whatever references exist by then: the cleaned value has no repetition, is within its bound and refers to nothing malformed. The lists are cleaned by folds, and the lemmas at the head of the module say what such a fold keeps and in which order |
| `SummaryLosesOnlyOverlaps` | `SummaryInv`: what a turn that is about to summarise has read holds everything that was folded while it was alone, and two such turns of one conversation know of each other; `RowsAgree`, `TurnsAgree`, `OwnMessages` say whose message is whose |
| `FirstAnswerNames` | `NameInv`: the only message of a conversation is not answered before its turn saves the answer, and then the turn names the conversation before it closes |
| `HistoryIsRecent` | for each order of the seconds, the cuts by number and by tokens and the reversal each leave a suffix |
| `PriceIsCertain`, `BillIsWholeOrOpen` | the first tier that fits is the narrowest, as the catalogue lists them; prices are even, so that the half of one is a whole; if a total is reported, the calls with a price are those of the one currency it names |
| `PagesShowOnce` | `PagesInv`: the messages are in one descending order in which each is a second from the next, what was shown is the beginning of it up to the cursor, and the next page continues it; new messages only come before it |
| `ServedIsOfToday` | `AnalysisInv`: figures in the cache under a day are fair figures of that day, and stay so, for the window of a day only gains messages that are answered after it has ended; the days tile the window, and a sum over a finite set does not depend on the order of its elements (`SumOver`), so their sums are the overview's |

`ServicesTypeCorrect` and `ServicesAreCorrect` are about `ServicesSpec`, the
specification that the run `services` explores. A step of one service leaves the
variables of the others alone (`EachGoesByItself`), so `ServicesSpec` implies the
specification of each (`ServicesImplement`), and with it all that is proved of them:
`ServicesAreCorrect` is the conjunction of the properties of the run.

### What stays with TLC

Liveness (`StreamIsSaved`, `StopEndsTurn`, `CreatedIsSettled`), which is out of the
prover's reach, and the runs of section 4, which show where the code does not keep
what is said of it. Every other property that a run checks is stated by a theorem,
where it says so under a hypothesis that the run satisfies.

## 7 What is not modelled

Of the modelled components:

- the expiry of Redis keys: the belongs key lives 1800 s and the stop key 600 s,
  longer than the 600 s after which `listen` ends; the locks of 600 s are taken
  to outlive what they guard. Locks of processes that died do expire.
- a crash of the API process during a chat turn: the turn is lost, nothing in
  the code recovers it.
- the thread in which `save` runs, and its failures: the chat turn ends with
  `save` being called, and `Conversations` begins there.
- texts, prompts, positions of segments, hit counts, renaming, the names and
  icons of apps, permissions other than the stop key and the owner of a
  conversation; names of parameters for which pydantic makes no argument schema.
- the rows of single thoughts; pinning and the lists of conversations.
- what a node of a workflow computes, and how a failure of one is reported: a run
  succeeds or fails as a whole.
- the lock timeout of a login (5 s): a login that waits may be refused at any time.
- a message of several documents (`create_documents` sends one for its batch);
  here one per document.
- switching a document and changing its segments at the same time: each is
  modelled, no run has both, since no code coordinates them.
- requests on a document while it is built other than the ones its checks
  admit; creation of knowledge bases, whose names are checked without a lock.

Components without a model, with the reason, are in `PROJECT.json`: adapters of
foreign services, catalogues, single statements, text processing, generated code
and the HTTP layer.

## 8 Plan

Done: chat turn, knowledge base, workflows and their graphs, apps and their
configuration, conversations and their pages, logins, API tools, deletion and
search of knowledge bases, uploads, analysis, shared models, prices.

What is left, in the order of what it could hide:

1. Segment requests while their document is built or switched, in one run with
   the tasks, and what still holds then; a document that is deleted while a
   segment of it is created.
2. `save_agent_thoughts` composed with the chat turn, so that what the stream
   promises is followed to the rows, failures of the saving thread included.
3. The run of a graph with a failing node, and the reports of a debug run.
4. Proofs of what items 1 to 3 add.

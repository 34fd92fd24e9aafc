# NPUShield in TLA+

NPUShield serves a small language model that runs on an RKLLM NPU behind an OpenAI-compatible HTTP API. This
directory holds TLA+ models of its parts, TLC instances that check them, and proofs for every instance. Sources are
under `src/`; the program's package is `src/src/`, and paths in the modules (`src/core/...`) start at the repository's
root. `PROJECT.json` maps each definition to the lines it models.

## 1. The system

| Part | State it keeps | Operations | Talks to |
|---|---|---|---|
| API server `api/server.py` | `router`, `kb_index`, the phase of `lifespan` | chat, stream, run a tool, health, read-only endpoints | router, tools, KB, metrics; one event loop |
| ProductionRouter `core/router.py` | none between requests; attempt counter, results of one request | `run`, `_classify`, `_infer` | validator, primary and fallback providers |
| OutputValidator `core/output_validator.py` | none | `validate` | – |
| Warm worker `providers/rkllm_warm_worker.py` | process handle, request count, lock, pexpect's buffer | `infer`, `recycle` | the rkllm CLI through a pseudo-terminal |
| C API provider `providers/rkllm_capi.py` | library handle, lock, `_state`, `_chunks` | `infer`, `release`, the callback | librkllmrt.so, which calls back |
| Stateless provider `providers/rkllm_stateless.py` | none between requests; the process of the one in work | `infer` | one CLI process per request |
| KB loader, index `core/kb_loader.py`, `core/kb_index.py` | `.kb_index.json`, SQLite file and its open transaction | `load_kb`, `search` | the files under `kb/`, other server processes |
| Tools `core/tool_registry.py`, `core/tool_executor.py` | none (a fixed registry) | `match_intent`, `build_restart_command`, `run_commands` | a shell, ssh |
| Metrics `metrics/collector.py` | counters, the inflight gauge | `record_*`, `inc_inflight`, `dec_inflight`, render | called by the handlers |
| Auth `core/auth.py` | the configured key | `require_api_key` | a worker thread of the server |
| PersonaRouter `core/persona_router.py` | none | `route` | called by the chat handler, for the folder of the KB search and the tool |
| PromptNormalizer `core/prompt_normalizer.py` | none | `normalize` | called by the router before a provider is |
| Terminal UI `ui/chat_tui.py` | panel lines, conversation, buffer of the reply being read | input commands, chat, polling | the API; one thread per reply |

A chat goes through the middleware (gauge up), the key check, perhaps a tool, the KB search, then
`ProductionRouter.run`, which calls a provider up to three times, and the counters. The server calls `run` synchronously
on its event loop, so requests reach the router and its provider one after another. The providers have locks all the same
and are modelled with any number of threads, which is what their own documentation promises.

### What is hard here

- **Warm worker.** The CLI runs concurrently, echoes, prints ahead, hangs and dies; answers are matched to requests only
  by their order on a terminal; two buffers (the kernel's and pexpect's) hold leftovers; every failure path must kill the
  process or count the request. Correct when: one model resident, no process lost, count true, a bad process never
  reused, and an answer in the wrong place at least comes from the same process.
- **C API provider.** The callback writes the answer without the lock, and aborted jobs may still call back. Correct when:
  the model is never used after `release`, and an answer has nothing of another request.
- **Router.** Two exits from a retry loop, a fallback under a condition, and a best attempt to remember. Correct when:
  what is approved was the last thing said and passes the check, and a failure means that everything allowed was tried.
- **KB.** A database file that outlives the process, filled anew by each start in a transaction nobody commits, a list
  file that may be torn, a second process. Correct when: each file is served once, with its own text, after any history.
- **Stateless provider.** A process may end, crash or hang at the deadline, and be stuck in the NPU driver where a kill
  does not reach it; the wait after the kill has a deadline too, inside the handler of the first. Correct when: an answer
  without an error is whole, and no process is left that nobody told to end.
- **Search and context.** Files change while a server serves them; the room for a document may be negative. Correct when:
  what a question should find is found as it is, and only a full context leaves a document out.
- **Server.** One loop, blocking handlers, several exits per handler that each must keep counters, a gauge kept by a
  `finally` that runs when the response *starts*. Correct when: gauge exact, counters say what clients were told,
  which is not taken back, nothing but the allowlist reaches a shell, and requests and the stop of the server come to an end.
- **Prompt.** The client, the knowledge base and a tool each write a system message and know nothing of each other; the
  normaliser keeps one of them and a window of turns. Correct when: the question is in the prompt, and so is as much of
  the knowledge that was found as fits.
- **Terminal UI.** Threads that append to shared lists and one shared buffer while the user types, clears and asks again.
  Correct when: a thread keeps to its own line and a question is sent with a conversation that makes sense.

## 2. Modules

| Module | Models | State and actions |
|---|---|---|
| `OutputValidator` | `validate` | pure: the score of the set of defects a text shows, and the threshold, in hundredths |
| `InferenceContract` | what `run` promises (abstract) | receive, hear results, answer an acceptable one or give up |
| `Router` | `ProductionRouter.run` | one action per provider call with everything up to the next; implements `InferenceContract` |
| `WarmWorker` | `WarmRKLLMWorker` | one action per step between two operations of the outside world; terminal, pexpect buffer and CLI as separate state; `sent` is a history of prompts per process |
| `CapiProvider` | `RKLLMCAPIProvider` | as above; the library's job queue and callback are concurrent; `aborted` and `handles` are histories |
| `KbLoader` | `load_kb`, the list file, the SQLite file | processes start, load file by file, save in two steps, fail, exit or crash at any step; files are edited at any time |
| `KbSearch` | `search`, `format_context` | pure: what a process that serves a KB finds for a question, and what of it fits |
| `StatelessProvider` | `StatelessRKLLMProvider` | one action per step between two operations on the process, which prints, ends and hangs at any moment |
| `Tools` | registry and executor | pure: which command a tool has, which is rejected, how a run ends |
| `ChatContext` | `_augment_messages_with_rag`, the tool's message, `route`, `normalize` | pure: a content is the set of things it says; which of them reach the prompt |
| `ApiServer` | handlers, middleware, key, metrics, `lifespan` | one action per stretch without an await; `ran`, `found` and `status` are histories |
| `ChatTui` | input handling and streaming threads | one action per statement that touches shared state |
| `RouterProofs`, `WarmWorkerProofs`, `CapiProofs`, `StatelessProofs`, `KbLoaderProofs`, `ContextProofs`, `ApiProofs`, `ChatTuiProofs` | – | theorems and proofs |
| `MC...` | – | instances for TLC |

`Router` extends `OutputValidator` and instantiates `InferenceContract`; `KbSearch` extends `KbLoader`: it speaks of
what the loaders' history left for a process to search. `ApiServer` extends `Tools` and `ChatContext`, and `ApiProofs`
uses the lemmas of `ContextProofs`. How many of the documents found fit into the context is any number from one up in
`ApiServer`, which is what `ContextFillsItsBudget` of `KbSearch` leaves open. `ApiServer` takes `run` as an operation that
answers or fails, which is what `Router` shows of it. `Router` takes a provider's `infer` as an operation that returns a text, an error or both, which is what the
provider modules show.

## 3. What the runs check

Runs marked *violation* state what a comment or document of the repository says and find a behaviour of the code that
breaks it.

| Run | Instance | Shows |
|---|---|---|
| `router` | both providers, six texts, all conversations with risky or other first words, endless requests | types, the three safety invariants, that `Router` implements `InferenceContract`, and that each request is answered |
| `router_best` *violation* | no fallback | the answer when nothing passed is the last attempt, not "the best attempt" (`router.py:134`) |
| `router_json` *violation* | no fallback | `_classify` reads attributes of dicts, so JSON asked for through the API is never checked (`router.py:153`) |
| `worker` | 3 calls, one with a marker in its own prompt, recycled after 2, and a `recycle()` | processes, counts, failures, whose answer reaches whom (6 invariants), and that the lock is always given back |
| `worker_flight` *violation* | 3 calls | a prompt is sent while the process still owes an earlier answer, against "single-flight" (`rkllm_warm_worker.py:6`) |
| `capi` | 2 calls, a `release()`, 2 tokens, callbacks that come after `rkllm_run` returned | one live model, whose tokens an answer has |
| `capi_hang` *violation* | the same, `rkllm_run` synchronous as the code asks | the documented timeout (`server.py:10`) is never armed for a job that hangs |
| `stateless` | 2 calls, the answer of one holds a marker | clean answers are whole, which processes stay behind, and that each call returns although a process may be stuck for ever |
| `kb` | 2 processes, 2 files with 2 texts in one folder, 2 words | what each process serves, finds and shows, and that it does not change under it; one writer |
| `tui` | 3 chats, 1 piece per reply, 1 turn, 1 command | line ownership, unmixed replies, what a request ends with, alternation of turns |
| `api` | 2 requests: one of any kind, key and conversation, one of each kind as its company; 2 services (1 allowed), 1 SSH target | the gauge, the counters, what reaches a shell, what reaches the model, that nothing is answered or run twice, and that every request and the server's stop come to an end |
| `api_tool` *violation* | the same | the output of a tool that ran is not in the prompt, against `README.md:198` of the repository |

The leading properties, and where to look for what they are about: `ForeignAnswerIsFromSameProcess` and
`CountIsTrueBetweenCalls` (warm worker), `AnswerIsOwnUntilTimeout` (C API), `ImplementsContract` and
`ApprovedShowsAtMostOneDefect` (router), `LeavesNothingBehind` (stateless), `ServesFilesOnce`, `KnowledgeIsFound` and
`ContextFillsItsBudget` (KB), `CountersTellWhatClientsGot` and `OnlyAllowlistReachesShell` (server),
`GroundingReachesModel` and `QuestionReachesModel` (prompt), `LoneReplyIsItsOwn` and `TurnsAlternate` (UI).

### Bounds, and why they are enough

- `worker`: two requests fill a process with `MaxRequests = 2`, the third sees the recycled one, and a `recycle()` may
  come at any moment. Calls are one-shot and each names the process it may spawn, so a bound on calls is the only one
  needed; the terminal is bounded by what the calls can cause. `CanLinger = FALSE`: a process that survives
  `close(force=True)` is in the theorems, which hold for any number of calls and either value, and not in this run.
- `capi`: two calls are needed for one to meet what the other left behind, one `release()` to pull the model away;
  two tokens tell a cut answer from a whole one and from an empty one. `Synchronous = FALSE` gives the library more
  behaviours than the code asks it for: `rkllm_capi.py:262` sets `is_async = False`, and line 197 says that the callback
  "may still stream" all the same, which is what the waiting loop behind `rkllm_run` is for. Both properties of the run
  are invariants, which hold of the synchronous mode too (the theorems are for either). What depends on the mode is not
  checked there: the deadline, which `capi_hang` shows to be out of reach in the code's own mode.
- `router`: a request makes at most three calls, all combinations of the six texts are tried, one on each side of the
  threshold included; behaviours run through request after request.
- `stateless`: the server runs one call after another, and a process left behind shares nothing with the next but the
  NPU; two calls let one run beside what the other left.
- `kb`: two processes compete, two files give an order, two texts tell old from new; histories are unbounded. Both files
  are in the folder that one persona searches, so the other persona must find nothing. One of the two words is a single
  letter, a question too short to be asked when it stands alone, and not when it is written twice. Lengths of 3, 8 and 40 stand
  around budgets of 10, 30 and 60 with `Snippet = 5` the way documents stand around 3500 with 50: a single document can
  fill the context, two can, and the room can be negative.
- `tui`: three chats are needed for a thread to disturb a question that is neither its own nor the one it follows;
  `MaxTurns = 1` makes trimming happen with the second question, `MaxCommands = 1` puts one `/clear` at any moment.
- `api`: two requests overlap in every way the loop allows; a third would add no interaction, since requests share only
  the gauge and the counters. The first is each kind of request with each outcome of routing and tool matching; the
  second a stream, a run and a health check, the three ways to be open beside it. `Window = 2` lets a question fall out
  of the window behind two more turns, as eight do in the code; `MaxDocs = 2` tells nothing found, all
  that was found in the context, and a document left out of it. The six sample conversations cover: no system message, one, two, one spelled "System", no question, nothing at all.

`CHECK_DEADLOCK FALSE` appears where every one-shot call may have returned or the server may have stopped.

### Fairness

Liveness is claimed only where the code schedules the step.

- `Router`: `run` is straight-line code, and a provider call returns (weak fairness on its steps).
- `WarmWorker`: weak fairness on the steps of the thread that holds the lock: it keeps running, the deadline of a read
  passes, `spawn` and `close` return. Nothing is assumed of the CLI, which may hang for ever.
- `CapiProvider`: the same for threads, in `capi_hang` only; the library is assumed to return from `rkllm_init`, and from
  `rkllm_run` once its job is over; nothing is assumed of callbacks. In the synchronous mode a job that never ends keeps
  the lock under this fairness.
- `StatelessProvider`: weak fairness on `infer`'s own steps, the passing of its two deadlines included; nothing of a
  process, which may print, run or be stuck for ever.
- `ApiServer`: weak fairness on the handlers of each request, on its leaving the middleware, on cancellation once the
  server stops, and on the release of the provider. This assumes that provider and shell return, which `worker` and
  `stateless` show of providers and `run_commands`' timeout provides for the shell; of clients nothing is assumed: they
  may go away or not. With the C API provider in its synchronous mode the assumption fails, as `capi_hang` shows.

No fairness is assumed in `KbLoader` and `ChatTui`: their properties are safety.

## 4. What is proved

TLAPS proves the following for every value of the constants, under the assumptions named in the modules (callers
distinct from `None`, `MaxRequests` positive, files finite, and the like).

- `RouterProofs`: types, `ApprovedIsLastHeard`, `FailureOnlyAfterFullEffort`, `CallDiscipline`, the refinement of
  `InferenceContract`, and, for every threshold above 0.60, `ApprovedShowsAtMostOneDefect`. `CallDiscipline` is not
  inductive: `IInv` adds, for each control point, how many calls were made, that none was acceptable, and which of them
  `result` is. `ApprovedIsLastHeard` is proved only: the runs check its parts, the contract and the discipline of calls.
- `WarmWorkerProofs`: types and the five other invariants of `worker`, with any number of calls and with kills that
  fail. The invariant has three layers, each proved from the ones before: *Control* (who holds the lock, at which point,
  and what that says of handle and count), *Processes* (where each live process is, what it was sent, what became of
  failed ones), *Terminal* (all that is on its way to or from the terminal belongs to a prompt sent to the process at its
  other end).
- `CapiProofs`: types, `OneLiveModel`, `AnswerIsOwnUntilTimeout`, and that with a synchronous `rkllm_run` an error-free
  answer is always whole and its own. *Undisturbed* says what is true of the library while nothing was aborted: it has at
  most the lock holder's job and `_chunks` is what that job made.
- `StatelessProofs`: types, `CleanAnswerIsWhole`, `LeavesNothingBehind`, with any number of calls. The invariant says, for
  each control point, what is known of the process and how many kills it was sent; an error-free answer needs that a
  process was only collected after it ended by itself with code 0, having printed everything.
- `KbLoaderProofs`: types, `ServesFilesOnce`, `OneWriter`, `KnowledgeIsFound`, `KnowledgeIsStable`, for every finite set of
  files and any number of processes, texts, questions and limits. *Covered* follows a load: what was not edited is still
  to be added or was added once with its text. `KnowledgeIsFound` follows from it, because a search that returns fewer
  rows than its limit returns a permutation of all rows that match. `ContextFillsItsBudget` holds for documents of any
  length: the context stops after its first document that fills it, the lengths up to it sum up without gaps, and each
  block before it is shorter than the room that was left. The sum is a recursive function; that it is what its equation
  says for every number of documents is shown by an induction over a set of numbers, got from the library's well-founded
  order on the naturals. The proof needs a positive `max_chars`: with 0 the bound is one short, which no caller can bring
  about (they give 3500 and 4000, and `LengthsAssumption` says so). Proved only: of all processes on one database file at
  most one has documents (`OneServerKnows`), and `_check_cache` never answers yes (`CacheNeverHits`).
- `ContextProofs` has no specification: its lemmas say which message each of `Inject`, `Augment`, `Given` and `Normalize`
  keeps, for every conversation. The last system message of a conversation with something in front of it is still the
  last; a window of turns is not changed by system messages.
- `ApiProofs`: `InflightIsExact` and `OnlyAllowlistReachesShell` for any number of requests, services and targets. The
  second needs that a request past the key check keeps an accepted key until it is over. `QuestionReachesModel`,
  `GroundingReachesModel` and `KnowledgeBaseHidesToolOutput` hold for every conversation, window, number of documents and
  part of them that fits:
  the invariant adds that what a chat was given is what the knowledge base and its tool decide (*Grounds*), which needs
  that no request is open before the knowledge base is loaded (*Asleep*), and `ContextProofs` does the rest. The last is
  stated in `ApiProofs` and proved only; `api_tool` shows what it means for a reader of the repository.
  `CountersTellWhatClientsGot` compares counters with cardinalities of sets of requests. That nobody is answered before
  it is handled (*Silent*) makes every counted step put one request into exactly one of these sets; that there are no
  documents before the knowledge base is loaded (*Unloaded*) is what the last conjunct needs. From the same invariants
  follows `DoneOnce`.
- `ChatTuiProofs`: types, `WritesItsOwnLine`, `LoneReplyIsItsOwn`, `RequestEndsWithItsQuestion` and `TurnsAlternate`, for
  any number of chats, turns, pieces and commands. None is inductive. *Input* says that the chat being sent is the one
  the interface works on, *Apart* that two chats awaited at a time are both in the crowd; so a chat outside the crowd has
  the buffer and the end of the conversation to itself. *Reading*, *Kept* and *Turns* follow such a chat from its
  question to its end, and *Bounded* counts what the conversation may hold, which the trimming needs. On top of these
  *Together* says what chats awaited together do to each other, with three results that are proved only: pieces are mixed
  only among them (`RepliesBlendOnlyInCrowd`), an answer awaited alone comes right after its question or begins a
  forgotten conversation (`LoneAnswersFollow`), and a failed chat that was awaited alone takes back its own question and
  nobody else's (`FailureTakesBackItsOwn`).

Every safety property of the passing runs is proved. Only model-checked is liveness (`EveryRequestAnswered`,
`LockIsReleased` of the warm worker, `EveryCallReturns`, `EveryRequestEnds`, `StopReleases`): fairness and ENABLED
are out of the prover's reach.

## 5. What the models assume or leave out

- Warm worker: `sendline` is one prompt for the CLI although prompts have several lines; how the CLI splits them is not
  in the repository. pexpect, the pseudo-terminal and the CLI are external, modelled from how they are used.
- C API: the library runs its jobs in order.
- Router: requests are serial, because the server makes them so. Regular expressions of the validator and the formatter
  of prompts are abstracted to what the control flow tells apart.
- Stateless provider: calls come one after another (the server's loop), so `infer` has no lock. A process that was
  abandoned after its second kill is reaped by Python when another process is started; that is not modelled.
  The parameter `temperature` is not used by the code and not by the model. Patterns of `_clean` are reduced to whether
  one of them cuts the answer.
- KB: the order of the file list does not matter; a database that is locked makes the load fail; hidden files are left
  out. How FTS5 ranks is external: rows that match come in any order.
- Prompt: the markup of a prompt is left out, and of the persona's keyword lists only how many of each kind a question
  has. `route`'s confidence is read by nobody.
- Server: uvicorn and FastAPI are external. A handler without an await is one step, which is also how it blocks the loop:
  health checks and open streams wait for every inference; a client that goes away is seen only by a stream.
  `router is None` cannot be seen by a handler, because nothing is served before `lifespan` has set it. Read-only
  endpoints (`/metrics`, `/v1/models`, `/v1/tools`), the wording of answers and pydantic's own 422 are left out.
  Processes that a tool started may outlive the shell that the timeout kills; they are not modelled.
- Terminal UI: a thread may be switched between any two statements; a single list operation is atomic. `_streaming` is
  never read and left out, as are polling, the readline fallback and leaving the program. One round of the loop that
  trims the conversation (`chat_tui.py:539-541`), its test and its `pop(0)`, is one step.

### Not modelled

Deployment scripts, the knowledge base's texts and the tests have no state of the program. `llama.cpp` is a provider
whose module is not in the repository: `Router` knows it by how it is called. The parts of the terminal UI that only show
what `/health` and `/metrics` say (`_poll_stats`), its readline fallback and the server's read-only endpoints neither
change state that another part reads nor can be wrong in a way an interleaving brings about. `rkllm_capi.py:233` gives
`max_tokens` and `temperature` to the library only when a request loads the model: no document promises otherwise, so
there is nothing to hold it to.

### Observations without a run

- `README.md:184` of the repository says `safe_restart_service` answers 409. With a service it never does: the handler
  runs `docker restart ...`, which the executor's own deny list rejects, and answers 200 with exit code -1
  (`server.py:442-463`, `tool_executor.py:43`). `OnlyAllowlistReachesShell` holds because of this.
- A tool run whose partial output was cut by the timeout is counted as 200 and answered with 500: `TimeoutExpired`
  holds bytes, in which `'...[truncated]' in result.stdout` raises (`server.py:462, 476`).
- `/health` counts a 200 before it may answer 503 (`server.py:291`); streams and chats answered by a tool are counted
  nowhere although `collector.py:71` says "Total HTTP requests".
- A stream whose inference failed ends like an empty answer (`server.py:555-558`).
- With `NPUSHIELD_LLAMACPP_*` set the server does not start: `server.py:224` imports a module the repository lacks.
- `_check_cache` never answers yes (`CacheNeverHits`, theorem `CacheIsDead`) against the comment at `kb_loader.py:21`:
  it counts `.kb_index.json`, itself a `.json` file of the folder, which is not in the list it compares with
  (`kb_loader.py:62-69`). A hit would read the listed files again
  (lines 26-29), so nothing is lost but the comment's promise; a hit would also be judged by the number and names of the
  files alone, the times collected at line 65 are never compared.
- A question with a hyphenated word, or with AND, OR or NOT, is a syntax error for FTS5, swallowed at `kb_index.py:56`:
  nothing is found, and the model is told that the knowledge base has nothing. The same becomes of a question that is
  cleaned to less than two characters, "C?" for example (`kb_index.py:87-88`). `KnowledgeIsFound` speaks of the questions
  in between (`Understood`).
- The `score` of a search result is 1 / |rank| (`kb_index.py:59`): it falls as relevance rises.
- A response reports every document found, and `rag_docs` counts them (`server.py:97`, `:512`), also those that did not
  fit into the context; the model has the best of them, one at least (`GroundingReachesModel`, `ContextFillsItsBudget`).
- The instruction not to invent an answer is lost when the client sends a system message of its own; the documents found
  are lost when it sends two, or one with the role "System" (`GroundingReachesModel` says what holds without these).
- `chat_tui.py:667-677` appends seconds per inference to the history that line 377 shows as "tok/s".
- `/exit` in the terminal UI sets `running` and says "bye" (`chat_tui.py:497-500`), and the application stays open:
  only Ctrl-C and Ctrl-D reach `app.exit()`. A degraded server (503) is shown as "unreachable" (line 637).
- The gauge that should help a graceful shutdown (`server.py:272`) does not include streams whose body is still sent.

## 6. Plan

The order of work was: router and validator with their contract; warm worker; C API provider; KB loader; terminal UI;
tools and server; stateless provider; prompt and knowledge; liveness of server, worker and stateless provider; proofs of
the safety properties, of the terminal UI, the context and the counters last. What is left:

1. An abstract knowledge service, in which one server at a time has documents that do not change, with `KbLoader` as
   its implementation: `OneServerKnows`, `KnowledgeIsStable` and `ServesFilesOnce` say it in parts.
2. Action properties of the providers as theorems: what a step may do to a process that answers another call.
3. `CapiProvider` with the parameters of the loaded model as state, once a document says what they should be.

A contract for all providers (one result per call) was considered and left out: it would hold by the shape of any module
that implements it.

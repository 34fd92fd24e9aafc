------------------------------ MODULE ApiServer -------------------------------
(***************************************************************************)
(* The HTTP server (src/api/server.py) with its metrics                    *)
(* (src/metrics/collector.py) and API key (src/core/auth.py).              *)
(*                                                                         *)
(* One event loop runs every handler.  A handler without an await is one   *)
(* step: a chat occupies the loop from its tool to its answer.  A request  *)
(* lets others run while its key is checked in a worker thread, between    *)
(* the chunks of a stream, and before the middleware's finally.            *)
(*                                                                         *)
(* What router.run() does is Router's subject; here it answers or fails.   *)
(* What it is given is ChatContext's: a chat asks with its messages and    *)
(* what its last question sounds like.                                     *)
(***************************************************************************)
EXTENDS Naturals, FiniteSets, Tools, ChatContext

CONSTANTS Requests,
          Asks,       \* what each may ask for
          Configured  \* SSH targets with an NPUSHIELD_TOOL_TARGET_... variable

Key == {"missing", "good", "wrong", "not_ascii"}

Unknown == "no_such_name"

Ask ==
  [kind : {"chat", "stream"}, key : Key, messages : Seq(Message), query : Query,
   match : Fixed \union {Restart, None}, explain : BOOLEAN]
  \union
  [kind : {"run"}, key : Key, tool : Fixed \union {Restart, Unknown},
   service : Services \union {None}, target : Configured \union {"local", Unknown}]
  \union
  [kind : {"health"}, key : Key]

ASSUME AsksAssumption == \A r \in Requests : Asks[r] \subseteq Ask
ASSUME RequestsAssumption == IsFiniteSet(Requests)
ASSUME TargetsAssumption == {"local", Unknown} \intersect Configured = {}

-----------------------------------------------------------------------------
VARIABLES
  phase,    \* of lifespan
  kb,       \* was the knowledge base loaded
  fallback, \* is a llama.cpp fallback configured
  secured,  \* is NPUSHIELD_API_KEY set
  ask,      \* what each request asks for
  stage,    \* how far it is
  status,   \* the status line its client got, 0 before
  inside,   \* the requests between the middleware's inc and its dec
  inflight, \* the gauge
  count,    \* the counters
  ran,      \* history: the tool run of each request
  found     \* history: the documents found for a chat that went to the model

config == <<kb, fallback, secured>>
vars == <<phase, config, ask, stage, status, inside, inflight, count, ran, found>>

Counters == {"chat_200", "chat_503", "run_200", "health_200",
             "inferences", "tool_runs", "rag_docs"}

\* How many documents a response reports, and how many fit into the context.
Finds ==
  {f \in [docs : 0..MaxDocs, fit : 0..MaxDocs] :
     f.fit <= f.docs /\ (f.fit = 0 <=> f.docs = 0)}

NothingFound == [docs |-> 0, fit |-> 0]

NotRun == [command |-> None, target |-> None, end |-> "none"]

TypeOK ==
  /\ phase \in {"starting", "serving", "stopping", "stopped", "failed"}
  /\ kb \in BOOLEAN /\ fallback \in BOOLEAN /\ secured \in BOOLEAN
  /\ DOMAIN ask = Requests /\ \A r \in Requests : ask[r] \in Asks[r] \union {None}
  /\ stage \in [Requests -> {"away", "arrived", "ready", "generating", "yielding", "over"}]
  /\ status \in [Requests -> {0, 200, 401, 403, 404, 422, 500, 503}]
  /\ inside \subseteq Requests
  /\ inflight \in 0..Cardinality(Requests)
  /\ count \in [Counters -> Nat]
  /\ ran \in [Requests -> [command : Command \union {None},
                           target : Configured \union {"local", None},
                           end : ShellEnds \union {"rejected", "none"}]]
  /\ found \in [Requests -> Finds \union {None}]

Init ==
  /\ phase = "starting"
  /\ kb = FALSE /\ fallback \in BOOLEAN /\ secured \in BOOLEAN
  /\ ask = [r \in Requests |-> None]
  /\ stage = [r \in Requests |-> "away"]
  /\ status = [r \in Requests |-> 0]
  /\ inside = {} /\ inflight = 0
  /\ count = [c \in Counters |-> 0]
  /\ ran = [r \in Requests |-> NotRun]
  /\ found = [r \in Requests |-> None]

-----------------------------------------------------------------------------
(* lifespan                                                                *)

\* load_kb may raise: the server then does without.
Startup ==
  /\ phase = "starting" /\ ~fallback
  /\ kb' \in BOOLEAN
  /\ phase' = "serving"
  /\ UNCHANGED <<fallback, secured, ask, stage, status, inside, inflight, count, ran, found>>

\* The fallback's module is not in the repository: its import raises.
StartupFails ==
  /\ phase = "starting" /\ fallback
  /\ kb' \in BOOLEAN
  /\ phase' = "failed"
  /\ UNCHANGED <<fallback, secured, ask, stage, status, inside, inflight, count, ran, found>>

Stop ==
  /\ phase = "serving"
  /\ phase' = "stopping"
  /\ UNCHANGED <<config, ask, stage, status, inside, inflight, count, ran, found>>

\* uvicorn cancels what is left after timeout_graceful_shutdown.
Cancel(r) ==
  /\ phase = "stopping"
  /\ stage[r] \notin {"away", "over"}
  /\ stage' = [stage EXCEPT ![r] = "over"]
  /\ UNCHANGED <<phase, config, ask, status, inside, inflight, count, ran, found>>

\* The provider's release() or recycle().
Release ==
  /\ phase = "stopping" /\ inside = {}
  /\ \A r \in Requests : stage[r] \in {"away", "over"}
  /\ phase' = "stopped"
  /\ UNCHANGED <<config, ask, stage, status, inside, inflight, count, ran, found>>

-----------------------------------------------------------------------------
(* inflight_middleware and require_api_key                                 *)

NeedsKey(a) == a.kind # "health"

Arrive(r) ==
  /\ phase = "serving" /\ stage[r] = "away"
  /\ \E a \in Asks[r] :
       /\ ask' = [ask EXCEPT ![r] = a]
       /\ stage' = [stage EXCEPT ![r] = IF NeedsKey(a) THEN "arrived" ELSE "ready"]
  /\ inside' = inside \union {r} /\ inflight' = inflight + 1
  /\ UNCHANGED <<phase, config, status, count, ran, found>>

DecInflight_Inc(r) == inflight + 1   \* mutant

DecInflight_NotOnError(r) ==   \* mutant: no finally
  IF status[r] \in {0, 500} THEN inflight ELSE inflight - 1

DecInflight(r) == IF inflight > 0 THEN inflight - 1 ELSE 0

Responded_Not(r) == status[r] # 0   \* mutant: nothing is done on cancellation

\* As soon as the response starts: the body of a stream comes later.
Responded(r) == status[r] # 0 \/ stage[r] = "over"

Leave(r) ==
  /\ r \in inside /\ Responded(r)
  /\ inside' = inside \ {r}
  /\ inflight' = DecInflight(r)
  /\ UNCHANGED <<phase, config, ask, stage, status, count, ran, found>>

Reply(r, code) ==
  /\ status' = [status EXCEPT ![r] = code]
  /\ stage' = [stage EXCEPT ![r] = "over"]

\* compare_digest takes only ASCII strings.
KeyStatus(key) ==
  IF ~secured \/ key = "good" THEN 200
  ELSE CASE key = "missing"   -> 401
         [] key = "wrong"     -> 403
         [] key = "not_ascii" -> 500

Authorise(r) ==
  /\ stage[r] = "arrived" /\ KeyStatus(ask[r].key) = 200
  /\ stage' = [stage EXCEPT ![r] = "ready"]
  /\ UNCHANGED <<phase, config, ask, status, inside, inflight, count, ran, found>>

Refuse(r) ==
  /\ stage[r] = "arrived" /\ KeyStatus(ask[r].key) # 200
  /\ Reply(r, KeyStatus(ask[r].key))
  /\ UNCHANGED <<phase, config, ask, inside, inflight, count, ran, found>>

-----------------------------------------------------------------------------
(* /v1/tools/run                                                           *)

Bump(cs) == count' = [c \in Counters |-> IF c \in cs THEN count[c] + 1 ELSE count[c]]

CommandOf(a) ==
  IF a.tool = Restart THEN BuildRestartCommand(a.service) ELSE Registry[a.tool].commands

\* The checks of run_tool, in their order; 200 lets the command run.
RunStatus(a) ==
  IF a.tool = Unknown THEN 404
  ELSE IF a.tool = Restart /\ a.service = None THEN 422
  ELSE IF a.tool = Restart /\ CommandOf(a) = None THEN 403
  ELSE IF a.target = Unknown THEN 404
  ELSE 200

RefuseTool(r) ==
  /\ stage[r] = "ready" /\ ask[r].kind = "run"
  /\ RunStatus(ask[r]) # 200
  /\ Reply(r, RunStatus(ask[r]))
  /\ UNCHANGED <<phase, config, ask, inside, inflight, count, ran, found>>

Ran(r, command, target, end) ==
  ran' = [ran EXCEPT ![r] = [command |-> command, target |-> target, end |-> end]]

\* A run that raised is not counted; one with bytes is, and fails afterwards.
RunTool(r) ==
  /\ stage[r] = "ready" /\ ask[r].kind = "run"
  /\ RunStatus(ask[r]) = 200
  /\ \E end \in RunCommands(CommandOf(ask[r])) :
       /\ Ran(r, CommandOf(ask[r]), ask[r].target, end)
       /\ Bump(IF end = "raises" THEN {} ELSE {"tool_runs", "run_200"})
       /\ Reply(r, IF end \in {"raises", "partial"} THEN 500 ELSE 200)
  /\ UNCHANGED <<phase, config, ask, inside, inflight, found>>

-----------------------------------------------------------------------------
(* /v1/chat/completions and /health                                        *)

OpenStream(r) ==
  /\ stage[r] = "ready" /\ ask[r].kind = "stream"
  /\ status' = [status EXCEPT ![r] = 200]
  /\ stage' = [stage EXCEPT ![r] = "generating"]
  /\ UNCHANGED <<phase, config, ask, inside, inflight, count, ran, found>>

Begins_NoStream(r) == stage[r] = "ready" /\ ask[r].kind = "chat"   \* mutant

\* Where the body of a chat, streamed or not, begins.
Begins(r) ==
  \/ stage[r] = "ready" /\ ask[r].kind = "chat"
  \/ stage[r] = "generating"

MayAutoRun(tool) ==
  tool # None /\ Registry[tool].safe /\ ~Registry[tool].requires_confirmation

\* A blank question has no keywords.
RunsTool(a) ==
  ~Blank(LastUser(a.messages)) /\ Persona(a.query) = "infra" /\ MayAutoRun(a.match)

SkipsModel(a) == RunsTool(a) /\ ~a.explain

\* _maybe_run_tool_for_chat, ending as given; no metric is touched.
ChatTool(r, end) ==
  IF RunsTool(ask[r])
  THEN /\ end \in RunCommands(Registry[ask[r].match].commands)
       /\ Ran(r, Registry[ask[r].match].commands, "local", end)
  ELSE end = "none" /\ UNCHANGED ran

\* A stream has promised 200 and sends what it has; a plain chat replies now.
Say(r, code) ==
  IF stage[r] = "generating"
  THEN stage' = [stage EXCEPT ![r] = "yielding"] /\ UNCHANGED status
  ELSE Reply(r, code)

ChatBreaks_Replies(r) ==   \* mutant: an exception is answered though the body has begun
  /\ Begins(r) /\ ChatTool(r, "raises")
  /\ Reply(r, 500)
  /\ UNCHANGED <<phase, config, ask, inside, inflight, count, found>>

ChatBreaks(r) ==
  /\ Begins(r) /\ ChatTool(r, "raises")
  /\ IF stage[r] = "generating"
     THEN stage' = [stage EXCEPT ![r] = "over"] /\ UNCHANGED status
     ELSE Reply(r, 500)
  /\ UNCHANGED <<phase, config, ask, inside, inflight, count, found>>

ChatByTool(r) ==
  /\ Begins(r) /\ SkipsModel(ask[r])
  /\ \E end \in ShellEnds \ {"raises"} : ChatTool(r, end)
  /\ Say(r, 200)
  /\ UNCHANGED <<phase, config, ask, inside, inflight, count, found>>

CountAnswer_OnlyWithDocs(docs) ==   \* mutant: an answer without documents is not timed
  Bump(IF docs = 0 THEN {"chat_200"} ELSE {"chat_200", "inferences"})

CountAnswer(docs) ==
  count' = [count EXCEPT !["chat_200"] = @ + 1, !["inferences"] = @ + 1,
                         !["rag_docs"] = @ + docs]

\* What the search may find: nothing for a blank question.
Findable(a) == IF kb /\ ~Blank(LastUser(a.messages)) THEN Finds ELSE {NothingFound}

\* Only a plain chat counts; a stream whose inference failed sends no text.
ChatByModel(r) ==
  /\ Begins(r) /\ ~SkipsModel(ask[r])
  /\ \E end \in (ShellEnds \union {"none"}) \ {"raises"} : ChatTool(r, end)
  /\ \E find \in Findable(ask[r]) :
       /\ found' = [found EXCEPT ![r] = find]
       /\ \/ stage[r] = "generating" /\ UNCHANGED count /\ Say(r, 200)
          \/ stage[r] = "ready" /\ CountAnswer(find.docs) /\ Say(r, 200)
          \/ stage[r] = "ready" /\ Bump({"chat_503"}) /\ Say(r, 503)
  /\ UNCHANGED <<phase, config, ask, inside, inflight>>

\* The prompt of a chat that went to the model; a tool that ran was explained.
Prompted(r) == found[r] # None

PromptOf(r) ==
  Normalize(Given(ask[r].messages, kb, found[r].fit, ran[r].end # "none"))

CloseStream(r) ==
  /\ stage' = [stage EXCEPT ![r] = "over"]
  /\ UNCHANGED <<phase, config, ask, status, inside, inflight, count, ran, found>>

SentAll(r) == stage[r] = "yielding" /\ CloseStream(r)

\* The client goes away, before the body was begun or during its chunks.
HangUp(r) == stage[r] \in {"generating", "yielding"} /\ CloseStream(r)

\* Counted as 200 before anyone knows.
Health(r) ==
  /\ stage[r] = "ready" /\ ask[r].kind = "health"
  /\ Bump({"health_200"})
  /\ \E code \in {200, 503} : Reply(r, code)
  /\ UNCHANGED <<phase, config, ask, inside, inflight, ran, found>>

-----------------------------------------------------------------------------
Handle(r) ==
  \/ Authorise(r) \/ Refuse(r) \/ RefuseTool(r) \/ RunTool(r) \/ Health(r)
  \/ OpenStream(r) \/ ChatBreaks(r) \/ ChatByTool(r) \/ ChatByModel(r) \/ SentAll(r)

Next ==
  \/ Startup \/ StartupFails \/ Stop \/ Release
  \/ \E r \in Requests :
       Arrive(r) \/ Handle(r) \/ HangUp(r) \/ Leave(r) \/ Cancel(r)

Spec == Init /\ [][Next]_vars

\* Handlers return, provider and shell included; uvicorn's timeout passes.
FairSpec ==
  /\ Spec /\ WF_vars(Release)
  /\ \A r \in Requests : WF_vars(Handle(r)) /\ WF_vars(Leave(r)) /\ WF_vars(Cancel(r))

-----------------------------------------------------------------------------
(* Properties                                                              *)

Settled(r) ==
  /\ status[r] # 0 => status'[r] = status[r] /\ ask'[r] = ask[r]
  /\ ran[r].end # "none" => ran'[r] = ran[r]
  /\ found[r] # None => found'[r] = found[r]

(***************************************************************************)
(* A request is answered once, searched for once and runs one tool at      *)
(* most: what its client was told is not taken back by an exception in a   *)
(* body that streams, a cancellation, a hang-up or another request         *)
(* (server.py:269-277, 436-562).                                           *)
(***************************************************************************)
DoneOnce == [][\A r \in Requests : Settled(r)]_vars

(***************************************************************************)
(* The gauge that server.py:272 keeps for a graceful shutdown is exact, at *)
(* any moment and through refusals, exceptions, open streams and           *)
(* cancellation: it never drifts, and max(0, ...) at collector.py:57 never *)
(* hides a drift.                                                          *)
(***************************************************************************)
InflightIsExact == inflight = Cardinality(inside)

Answered(kind, codes) == {r \in Requests : status[r] \in codes /\ ask[r].kind = kind}

(***************************************************************************)
(* The counters (server.py:291, 454-455, 468-469, 507-512) tell what the   *)
(* clients were told: a chat 200 for each answer the model gave, timed     *)
(* once, a 503 for each failure, and a run for each tool that ran, with    *)
(* two exceptions that the code has: a run whose partial output broke the  *)
(* reply counts as 200, and so does a degraded health check.  Documents    *)
(* are counted only with a knowledge base and an answer.                   *)
(***************************************************************************)
CountersTellWhatClientsGot ==
  /\ count["chat_200"]
       = Cardinality({r \in Answered("chat", {200}) : ~SkipsModel(ask[r])})
  /\ count["inferences"] = count["chat_200"]
  /\ count["chat_503"] = Cardinality(Answered("chat", {503}))
  /\ count["run_200"]
       = Cardinality(Answered("run", {200}))
         + Cardinality({r \in Answered("run", {500}) : ran[r].end = "partial"})
  /\ count["tool_runs"] = count["run_200"]
  /\ count["health_200"] = Cardinality(Answered("health", {200, 503}))
  /\ count["rag_docs"] <= MaxDocs * count["inferences"]
  /\ count["rag_docs"] > 0 => kb

ReachedShell(r) == ran[r].end \in ShellEnds

(***************************************************************************)
(* README.md:183: only the allowlist is ever executed.  Whatever is asked, *)
(* by chat or through /v1/tools/run, a shell gets nothing but the fixed    *)
(* commands of safe tools, for a request whose key was accepted, on this   *)
(* machine or, for /v1/tools/run, a configured target.  No restart passes  *)
(* both the registry (tool_registry.py:48) and the executor's deny list    *)
(* (tool_executor.py:43).                                                  *)
(***************************************************************************)
OnlyAllowlistReachesShell ==
  \A r \in Requests : ReachedShell(r) =>
    /\ ran[r].command \in {Registry[t].commands : t \in Fixed}
    /\ ~secured \/ ask[r].key = "good"
    /\ ran[r].target # "local" => ask[r].kind = "run"

(***************************************************************************)
(* Every request that comes in, whatever it asks, is over in the end and   *)
(* no longer counted as inflight, its stream closed (server.py:269-277,    *)
(* 480-562), provided that handlers return.                                *)
(***************************************************************************)
EveryRequestEnds ==
  \A r \in Requests : r \in inside ~> stage[r] = "over" /\ r \notin inside

(***************************************************************************)
(* A server told to stop gets to release its provider (server.py:240-244): *)
(* no request, streaming, cancelled or answered, holds it back for ever.   *)
(***************************************************************************)
StopReleases == phase = "stopping" ~> phase = "stopped"

(***************************************************************************)
(* Whatever the knowledge base and a tool put before it, the client's last *)
(* question is in the prompt, unless the client itself let a whole window  *)
(* of messages follow it (server.py:495-497, prompt_normalizer.py:39-49).  *)
(***************************************************************************)
QuestionReachesModel ==
  \A r \in Requests : Prompted(r) =>
    LET ms    == ask[r].messages
        asked == {i \in DOMAIN ms : ms[i].role = "user"}
        kept  == PromptOf(r).turns
    IN  /\ ~Blank(LastUser(ms))
        /\ Cardinality({i \in Turns(ms) : i > Greatest(asked)}) < Window
        => \E i \in DOMAIN kept : kept[i] = ms[Greatest(asked)]

(***************************************************************************)
(* When documents are found, the model has the best of them in front of    *)
(* it, all that fit and none of the rest, beside the client's own system   *)
(* message and nothing else; the response reports and the metrics count    *)
(* the rest too (server.py:95-123, :512, :641).  When none are, a client   *)
(* without a system message has the model told not to invent an answer     *)
(* (server.py:124-135).                                                    *)
(***************************************************************************)
GroundingReachesModel ==
  \A r \in Requests : Prompted(r) /\ OneSystemVoice(ask[r].messages) =>
    LET ms     == ask[r].messages
        system == PromptOf(r).system
    IN  /\ found[r].docs > 0 =>
             system = Context(found[r].fit) \union UNION {ms[i].says : i \in Systems(ms)}
        /\ kb /\ found[r].docs = 0 /\ LastUser(ms) # {} /\ Spoken(ms, "system") = {} =>
             system = {"no_info"}

(***************************************************************************)
(* README.md:198: "For explanation queries, the tool output is passed to   *)
(* the model".                                                             *)
(***************************************************************************)
ToolOutputReachesModel ==
  \A r \in Requests :
    Prompted(r) /\ ran[r].end # "none" => "tool" \in PromptOf(r).system

=============================================================================

------------------------------ MODULE ApiProofs -------------------------------
(***************************************************************************)
(* Proofs about ApiServer for every set of requests, services and targets, *)
(* whatever is asked, with or without a key.                               *)
(*                                                                         *)
(* The gauge is exact because a request that has not come is not inside    *)
(* (Fresh).  What reaches a shell depends on where a request is: past the  *)
(* key check its key was accepted (Checked), and only a chat that streams  *)
(* has a body (Bodies).  What a prompt says depends on how its chat came   *)
(* by documents and a tool (Grounds), which the knowledge base, loaded     *)
(* before any request (Asleep), decides; the rest is ContextProofs.        *)
(***************************************************************************)
EXTENDS ApiServer, ContextProofs

Stages == {"away", "arrived", "ready", "generating", "yielding", "over"}

Statuses == {0, 200, 401, 403, 404, 422, 500, 503}

Run == [command : Command \union {None}, target : Configured \union {"local", None},
        end : ShellEnds \union {"rejected", "none"}]

\* TypeOK but for the bound on the gauge, which InflightIsExact gives.
Types ==
  /\ phase \in {"starting", "serving", "stopping", "stopped", "failed"}
  /\ kb \in BOOLEAN /\ fallback \in BOOLEAN /\ secured \in BOOLEAN
  /\ ask \in [Requests -> Ask \union {None}]
  /\ \A r \in Requests : ask[r] \in Asks[r] \union {None}
  /\ stage \in [Requests -> Stages]
  /\ status \in [Requests -> Statuses]
  /\ inside \subseteq Requests
  /\ inflight \in Nat
  /\ count \in [Counters -> Nat]
  /\ ran \in [Requests -> Run]
  /\ found \in [Requests -> Finds \union {None}]

Asked == \A r \in Requests : stage[r] # "away" => ask[r] \in Asks[r]

Fresh ==
  \A r \in Requests :
    /\ stage[r] = "away" => r \notin inside
    /\ stage[r] \notin {"yielding", "over"} => ran[r] = NotRun /\ found[r] = None

Asleep == phase = "starting" => \A r \in Requests : stage[r] = "away"

Accepted(a) == ~secured \/ a.key = "good"

Checked ==
  \A r \in Requests :
    stage[r] \in {"ready", "generating"} /\ ask[r].kind # "health" => Accepted(ask[r])

Bodies == \A r \in Requests : stage[r] = "generating" => ask[r].kind = "stream"

Places == Asked /\ Fresh /\ Asleep /\ Checked /\ Bodies

\* How a request that went to the model came by its documents and its tool.
Grounded(a, find, run) ==
  /\ a \in Ask /\ a.kind \in {"chat", "stream"}
  /\ find \in Findable(a)
  /\ run.end # "none" => RunsTool(a)

Grounds == \A r \in Requests : found[r] # None => Grounded(ask[r], found[r], ran[r])

IInv == Types /\ Places /\ Grounds /\ InflightIsExact /\ OnlyAllowlistReachesShell

\* A search finds MaxDocs documents at most, and as many fit.
LEMMA FindsAreTyped ==
  /\ \A find \in Finds : /\ find.docs \in 0..MaxDocs /\ find.fit \in 0..MaxDocs
                         /\ find.docs \in Nat /\ (find.fit = 0 <=> find.docs = 0)
  /\ NothingFound \in Finds
  /\ \A a : Findable(a) \subseteq Finds
<1>1. NothingFound \in Finds
  BY MaxDocsAssumption DEF NothingFound, Finds
<1>2. \A find \in Finds : /\ find.docs \in 0..MaxDocs /\ find.fit \in 0..MaxDocs
                          /\ (find.fit = 0 <=> find.docs = 0)
  BY DEF Finds
<1>3. QED
  BY <1>1, <1>2, MaxDocsAssumption DEF Findable

-----------------------------------------------------------------------------
(* The registry                                                            *)

\* The fixed commands are commands.
LEMMA FixedCommands ==
  \A t \in Fixed : Registry[t].commands \in Command
BY DEF Fixed, Registry, Restart, Tool, Line, Command, Verbs

\* Only the restart tool may not run by itself.
LEMMA AutoRunIsFixed ==
  ASSUME NEW t \in Fixed \union {Restart, None}, MayAutoRun(t)
  PROVE  t \in Fixed
BY DEF MayAutoRun, Fixed, Registry, Restart, Tool

\* What run_tool lets through is a fixed command or a restart.
LEMMA LetThrough ==
  ASSUME NEW a \in Ask, a.kind = "run", RunStatus(a) = 200
  PROVE  /\ a.tool \in Fixed \union {Restart}
         /\ a.target \in Configured \union {"local"}
         /\ CommandOf(a) \in Command
         /\ a.tool = Restart => CommandOf(a).verb = "docker_restart"
<1>1. /\ a.tool \in Fixed \union {Restart, Unknown} /\ a.service \in Services \union {None}
      /\ a.target \in Configured \union {"local", Unknown}
  BY DEF Ask
<1>2. a.tool # Unknown /\ a.target # Unknown /\ (a.tool = Restart => CommandOf(a) # None)
  BY DEF RunStatus
<1>3. CASE a.tool = Restart
  <2>1. CommandOf(a) = BuildRestartCommand(a.service)
    BY <1>3 DEF CommandOf
  <2>2. a.service \in Restartable
    BY <1>2, <1>3, <2>1 DEF BuildRestartCommand
  <2>3. CommandOf(a) = [verb |-> "docker_restart", argument |-> a.service]
    BY <2>1, <2>2 DEF BuildRestartCommand, Line
  <2>4. a.service \in Services \union {None} /\ "docker_restart" \in Verbs
    BY <1>1 DEF Verbs
  <2>5. CommandOf(a) \in Command /\ CommandOf(a).verb = "docker_restart"
    BY <2>3, <2>4 DEF Command
  <2>6. QED
    BY <1>1, <1>2, <1>3, <2>5
<1>4. CASE a.tool # Restart
  <2>1. a.tool \in Fixed /\ CommandOf(a) = Registry[a.tool].commands
    BY <1>1, <1>2, <1>4 DEF CommandOf
  <2>2. CommandOf(a) \in Command
    BY <2>1, FixedCommands
  <2>3. QED
    BY <1>1, <1>2, <1>4, <2>1, <2>2
<1>5. QED
  BY <1>3, <1>4

\* A restart never reaches the shell.
LEMMA RestartIsRejected ==
  ASSUME NEW command, NEW end \in RunCommands(command), command.verb = "docker_restart"
  PROVE  end \notin ShellEnds
BY DEF RunCommands, RejectIfDangerous, DangerousVerbs, ShellEnds

LEMMA EndsAreKnown ==
  \A command : RunCommands(command) \subseteq ShellEnds \union {"rejected"}
BY DEF RunCommands

-----------------------------------------------------------------------------
(* The invariant                                                           *)

LEMMA InitInvariant == Init => IInv
<1> SUFFICES ASSUME Init PROVE IInv
  OBVIOUS
<1>1. NotRun \in Run
  BY DEF NotRun, Run
<1>2. Types
  BY <1>1 DEF Init, Types, Stages, Statuses
<1>3. Places
  BY DEF Init, Places, Asked, Fresh, Asleep, Checked, Bodies
<1>4. InflightIsExact
  BY FS_EmptySet DEF Init, InflightIsExact
<1>5. OnlyAllowlistReachesShell
  BY DEF Init, OnlyAllowlistReachesShell, ReachedShell, NotRun, ShellEnds
<1>6. Grounds
  BY DEF Init, Grounds
<1>7. QED
  BY <1>2, <1>3, <1>4, <1>5, <1>6 DEF IInv

\* lifespan leaves the requests alone.
LEMMA LifespanStep ==
  ASSUME IInv, Startup \/ StartupFails \/ Stop \/ Release
  PROVE  IInv'
<1>1. /\ UNCHANGED <<fallback, secured, ask, stage, status, inside, inflight, count, ran, found>>
      /\ kb' \in BOOLEAN /\ (phase = "starting" \/ kb' = kb) /\ phase' # "starting"
      /\ phase' \in {"starting", "serving", "stopping", "stopped", "failed"}
  BY DEF Startup, StartupFails, Stop, Release, config, IInv, Types
<1>2. Types'
  BY <1>1 DEF IInv, Types
<1>3. Places'
  BY <1>1 DEF IInv, Places, Asked, Fresh, Asleep, Checked, Bodies, Accepted
<1>4. InflightIsExact' /\ OnlyAllowlistReachesShell'
  BY <1>1 DEF IInv, InflightIsExact, OnlyAllowlistReachesShell, ReachedShell
<1>5. Grounds'
  BY <1>1 DEF IInv, Grounds, Places, Fresh, Asleep, Grounded, Findable
<1>6. QED
  BY <1>2, <1>3, <1>4, <1>5 DEF IInv

LEMMA ArriveStep ==
  ASSUME IInv, NEW r \in Requests, Arrive(r)
  PROVE  IInv'
<1>1. PICK a \in Asks[r] :
        /\ ask' = [ask EXCEPT ![r] = a]
        /\ stage' = [stage EXCEPT ![r] = IF NeedsKey(a) THEN "arrived" ELSE "ready"]
  BY DEF Arrive
<1>2. /\ stage[r] = "away" /\ inside' = inside \union {r} /\ inflight' = inflight + 1
      /\ UNCHANGED <<phase, kb, fallback, secured, status, count, ran, found>>
      /\ phase = "serving" /\ a \in Ask
  BY AsksAssumption DEF Arrive, config
<1>3. Types'
  BY <1>1, <1>2 DEF IInv, Types, Stages
<1>4. Places'
  BY <1>1, <1>2 DEF IInv, Types, Places, Asked, Fresh, Asleep, Checked, Bodies, NeedsKey, Accepted
<1>5. InflightIsExact'
  <2>1. IsFiniteSet(inside)
    BY RequestsAssumption, FS_Subset DEF IInv, Types
  <2>2. r \notin inside
    BY <1>2 DEF IInv, Places, Fresh
  <2>3. QED
    BY <2>1, <2>2, <1>2, FS_AddElement DEF IInv, InflightIsExact
<1>6. OnlyAllowlistReachesShell'
  <2>1. ran[r] = NotRun
    BY <1>2 DEF IInv, Places, Fresh
  <2>2. QED
    BY <1>1, <1>2, <2>1
       DEF IInv, Types, OnlyAllowlistReachesShell, ReachedShell, NotRun, ShellEnds
<1>7. Grounds'
  <2>1. found[r] = None
    BY <1>2 DEF IInv, Places, Fresh
  <2>2. QED
    BY <1>1, <1>2, <2>1 DEF IInv, Types, Grounds, Grounded, Findable
<1>8. QED
  BY <1>3, <1>4, <1>5, <1>6, <1>7 DEF IInv

LEMMA LeaveStep ==
  ASSUME IInv, NEW r \in Requests, Leave(r)
  PROVE  IInv'
<1>1. /\ r \in inside /\ inside' = inside \ {r} /\ inflight' = DecInflight(r)
      /\ UNCHANGED <<phase, kb, fallback, secured, ask, stage, status, count, ran, found>>
  BY DEF Leave, config
<1>2. IsFiniteSet(inside) /\ Cardinality(inside) = inflight /\ inflight \in Nat
  BY RequestsAssumption, FS_Subset DEF IInv, Types, InflightIsExact
<1>3. inflight' = Cardinality(inside') /\ inflight' \in Nat
  <2>1. Cardinality(inside') = inflight - 1 /\ inflight # 0
    BY <1>1, <1>2, FS_RemoveElement, FS_EmptySet
  <2>2. QED
    BY <1>1, <1>2, <2>1 DEF DecInflight
<1>4. Types'
  BY <1>1, <1>3 DEF IInv, Types
<1>5. Places'
  BY <1>1 DEF IInv, Places, Asked, Fresh, Asleep, Checked, Bodies, Accepted
<1>6. OnlyAllowlistReachesShell'
  BY <1>1 DEF IInv, OnlyAllowlistReachesShell, ReachedShell
<1>7. Grounds'
  BY <1>1 DEF IInv, Grounds, Grounded, Findable
<1>8. QED
  BY <1>3, <1>4, <1>5, <1>6, <1>7 DEF IInv, InflightIsExact

Kept == UNCHANGED <<phase, kb, fallback, secured, ask, inside, inflight>>

Counted == count' \in [Counters -> Nat] /\ status' \in [Requests -> Statuses]

MovesTo(r, to) ==
  /\ Kept /\ Counted
  /\ stage[r] # "away" /\ to \in Stages \ {"away"}
  /\ stage' = [stage EXCEPT ![r] = to]

\* Requests that move on without a tool: only where they are changes.
LEMMA Quiet ==
  ASSUME IInv, NEW r \in Requests, NEW to, MovesTo(r, to), ran' = ran, found' = found,
         to \in {"ready", "generating"} /\ ask[r].kind # "health" => Accepted(ask[r]),
         to = "generating" => ask[r].kind = "stream",
         to # "over" => stage[r] \notin {"yielding", "over"}
  PROVE  IInv'
<1>1. Types'
  BY DEF IInv, Types, MovesTo, Kept, Counted
<1>2. Places'
  BY DEF IInv, Types, Places, Asked, Fresh, Asleep, Checked, Bodies, Accepted, MovesTo, Kept
<1>3. InflightIsExact' /\ OnlyAllowlistReachesShell'
  BY DEF IInv, InflightIsExact, OnlyAllowlistReachesShell, ReachedShell, MovesTo, Kept
<1>4. Grounds'
  BY DEF IInv, Grounds, Grounded, Findable, MovesTo, Kept
<1>5. QED
  BY <1>1, <1>2, <1>3, <1>4 DEF IInv

Lawful(r, run) ==
  run.end \in ShellEnds =>
    /\ run.command \in {Registry[t].commands : t \in Fixed}
    /\ run.target # "local" => ask[r].kind = "run"

\* Requests that end or go on sending, with a tool run that may reach a shell.
LEMMA Tooled ==
  ASSUME IInv, NEW r \in Requests, NEW to \in {"yielding", "over"}, MovesTo(r, to),
         Accepted(ask[r]), NEW run \in Run, ran' = [ran EXCEPT ![r] = run], Lawful(r, run),
         NEW find \in Finds \union {None}, found' = [found EXCEPT ![r] = find],
         find # None => Grounded(ask[r], find, run)
  PROVE  IInv'
<1>1. Types'
  BY DEF IInv, Types, MovesTo, Kept, Counted
<1>2. Places'
  BY DEF IInv, Types, Places, Asked, Fresh, Asleep, Checked, Bodies, Accepted, MovesTo, Kept
<1>3. InflightIsExact'
  BY DEF IInv, InflightIsExact, MovesTo, Kept
<1>4. OnlyAllowlistReachesShell'
  <2>1. ASSUME NEW q \in Requests, q # r PROVE ran'[q] = ran[q] /\ ask'[q] = ask[q]
    BY <2>1 DEF IInv, Types, MovesTo, Kept
  <2>2. ran'[r] = run /\ ask'[r] = ask[r] /\ secured' = secured
    BY DEF IInv, Types, MovesTo, Kept
  <2>3. QED
    BY <2>1, <2>2 DEF IInv, OnlyAllowlistReachesShell, ReachedShell, Accepted, Lawful
<1>5. Grounds'
  <2>1. ASSUME NEW q \in Requests, q # r
        PROVE  ran'[q] = ran[q] /\ found'[q] = found[q] /\ ask'[q] = ask[q]
    BY <2>1 DEF IInv, Types, MovesTo, Kept
  <2>2. ran'[r] = run /\ found'[r] = find /\ ask'[r] = ask[r] /\ kb' = kb
    BY DEF IInv, Types, MovesTo, Kept
  <2>3. QED
    BY <2>1, <2>2 DEF IInv, Grounds, Grounded, Findable
<1>6. QED
  BY <1>1, <1>2, <1>3, <1>4, <1>5 DEF IInv

LEMMA AskedFor ==
  ASSUME IInv, NEW r \in Requests, stage[r] # "away"
  PROVE  ask[r] \in Ask /\ ask[r].key \in Key
BY AsksAssumption DEF IInv, Places, Asked, Ask

\* The verdict on a key lets only an accepted one pass.
LEMMA KeyStatuses ==
  ASSUME NEW a, a.key \in Key
  PROVE  /\ KeyStatus(a.key) \in Statuses
         /\ KeyStatus(a.key) = 200 => Accepted(a)
<1>1. CASE Accepted(a)
  BY <1>1 DEF Accepted, KeyStatus, Statuses
<1>2. CASE ~Accepted(a)
  <2>1. KeyStatus(a.key) =
          CASE a.key = "missing" -> 401 [] a.key = "wrong" -> 403 [] a.key = "not_ascii" -> 500
    BY <1>2 DEF Accepted, KeyStatus
  <2>2. a.key \in {"missing", "wrong", "not_ascii"}
    BY <1>2 DEF Key, Accepted
  <2>3. CASE a.key = "missing"
    BY <2>1, <2>3 DEF Statuses
  <2>4. CASE a.key = "wrong"
    BY <2>1, <2>4 DEF Statuses
  <2>5. CASE a.key = "not_ascii"
    BY <2>1, <2>5 DEF Statuses
  <2>6. QED
    BY <2>2, <2>3, <2>4, <2>5
<1>3. QED
  BY <1>1, <1>2

LEMMA ReplyIsTyped ==
  ASSUME IInv, NEW r \in Requests, NEW code \in Statuses, Reply(r, code)
  PROVE  status' \in [Requests -> Statuses] /\ stage' = [stage EXCEPT ![r] = "over"]
BY DEF Reply, IInv, Types

LEMMA BumpIsTyped ==
  ASSUME IInv, NEW cs, Bump(cs)
  PROVE  count' \in [Counters -> Nat]
<1>1. \A c \in Counters : count[c] \in Nat
  BY DEF IInv, Types
<1>2. \A c \in Counters : (IF c \in cs THEN count[c] + 1 ELSE count[c]) \in Nat
  BY <1>1
<1>3. QED
  BY <1>2 DEF Bump

\* Cancellation, the key check, and the requests that are turned away.
LEMMA AdmissionStep ==
  ASSUME IInv, NEW r \in Requests,
         Cancel(r) \/ Authorise(r) \/ Refuse(r) \/ RefuseTool(r) \/ OpenStream(r)
           \/ SentAll(r) \/ HangUp(r) \/ Health(r)
  PROVE  IInv'
<1>0. count \in [Counters -> Nat] /\ status \in [Requests -> Statuses]
  BY DEF IInv, Types
<1>1. CASE Cancel(r) \/ SentAll(r) \/ HangUp(r)
  <2>1. MovesTo(r, "over") /\ ran' = ran /\ found' = found
    BY <1>0, <1>1 DEF Cancel, SentAll, HangUp, CloseStream, config, MovesTo, Kept, Counted, Stages
  <2>2. QED
    BY <2>1, Quiet
<1>2. CASE Authorise(r)
  <2>1. MovesTo(r, "ready") /\ ran' = ran /\ found' = found
    BY <1>0, <1>2 DEF Authorise, config, MovesTo, Kept, Counted, Stages
  <2>2. Accepted(ask[r])
    BY <1>2, AskedFor, KeyStatuses DEF Authorise
  <2>3. stage[r] \notin {"yielding", "over"}
    BY <1>2 DEF Authorise
  <2>4. QED
    BY <2>1, <2>2, <2>3, Quiet
<1>3. CASE Refuse(r)
  <2>1. KeyStatus(ask[r].key) \in Statuses
    BY <1>3, AskedFor, KeyStatuses DEF Refuse
  <2>2. status' \in [Requests -> Statuses] /\ stage' = [stage EXCEPT ![r] = "over"]
    BY <1>3, <2>1, ReplyIsTyped DEF Refuse
  <2>3. MovesTo(r, "over") /\ ran' = ran /\ found' = found
    BY <1>0, <1>3, <2>2 DEF Refuse, config, MovesTo, Kept, Counted, Stages
  <2>4. QED
    BY <2>3, Quiet
<1>4. CASE RefuseTool(r)
  <2>1. RunStatus(ask[r]) \in Statuses
    BY DEF RunStatus, Statuses
  <2>2. status' \in [Requests -> Statuses] /\ stage' = [stage EXCEPT ![r] = "over"]
    BY <1>4, <2>1, ReplyIsTyped DEF RefuseTool
  <2>3. MovesTo(r, "over") /\ ran' = ran /\ found' = found
    BY <1>0, <1>4, <2>2 DEF RefuseTool, config, MovesTo, Kept, Counted, Stages
  <2>4. QED
    BY <2>3, Quiet
<1>5. CASE OpenStream(r)
  <2>1. stage[r] = "ready" /\ ask[r].kind = "stream" /\ Accepted(ask[r])
    BY <1>5 DEF OpenStream, IInv, Places, Checked
  <2>2. status' \in [Requests -> Statuses]
    BY <1>0, <1>5 DEF OpenStream, Statuses
  <2>3. MovesTo(r, "generating") /\ ran' = ran /\ found' = found
    BY <1>0, <1>5, <2>2 DEF OpenStream, config, MovesTo, Kept, Counted, Stages
  <2>4. QED
    BY <2>1, <2>3, Quiet
<1>6. CASE Health(r)
  <2>1. count' \in [Counters -> Nat]
    BY <1>6, BumpIsTyped DEF Health
  <2>2. status' \in [Requests -> Statuses] /\ stage' = [stage EXCEPT ![r] = "over"]
    <3>1. PICK code \in {200, 503} : Reply(r, code)
      BY <1>6 DEF Health
    <3>2. code \in Statuses
      BY DEF Statuses
    <3>3. QED
      BY <3>1, <3>2, ReplyIsTyped
  <2>3. MovesTo(r, "over") /\ ran' = ran /\ found' = found
    BY <1>6, <2>1, <2>2 DEF Health, config, MovesTo, Kept, Counted, Stages
  <2>4. QED
    BY <2>3, Quiet
<1>7. QED
  BY <1>1, <1>2, <1>3, <1>4, <1>5, <1>6

LEMMA RunToolStep ==
  ASSUME IInv, NEW r \in Requests, RunTool(r)
  PROVE  IInv'
<1> DEFINE a == ask[r]
<1>1. stage[r] = "ready" /\ a.kind = "run" /\ RunStatus(a) = 200 /\ a \in Ask
  BY AskedFor DEF RunTool
<1>2. PICK end \in RunCommands(CommandOf(a)) :
        /\ Ran(r, CommandOf(a), a.target, end)
        /\ Bump(IF end = "raises" THEN {} ELSE {"tool_runs", "run_200"})
        /\ Reply(r, IF end \in {"raises", "partial"} THEN 500 ELSE 200)
  BY DEF RunTool
<1> DEFINE run == [command |-> CommandOf(a), target |-> a.target, end |-> end]
<1>3. run \in Run
  <2>1. CommandOf(a) \in Command /\ a.target \in Configured \union {"local"}
    BY <1>1, LetThrough
  <2>2. end \in ShellEnds \union {"rejected"}
    BY EndsAreKnown
  <2>3. QED
    BY <2>1, <2>2 DEF Run
<1>4. end \in ShellEnds => CommandOf(a) \in {Registry[t].commands : t \in Fixed}
  <2>1. end \in ShellEnds => a.tool # Restart
    BY <1>1, LetThrough, RestartIsRejected
  <2>2. a.tool # Restart => a.tool \in Fixed /\ CommandOf(a) = Registry[a.tool].commands
    BY <1>1, LetThrough DEF CommandOf
  <2>3. QED
    BY <2>1, <2>2
<1>5. Accepted(a)
  BY <1>1 DEF IInv, Places, Checked
<1>6. MovesTo(r, "over")
  <2>1. count' \in [Counters -> Nat]
    BY <1>2, BumpIsTyped
  <2>2. status' \in [Requests -> Statuses] /\ stage' = [stage EXCEPT ![r] = "over"]
    <3>1. (IF end \in {"raises", "partial"} THEN 500 ELSE 200) \in Statuses
      BY DEF Statuses
    <3>2. QED
      BY <1>2, <3>1, ReplyIsTyped
  <2>3. QED
    BY <1>1, <2>1, <2>2 DEF RunTool, config, MovesTo, Kept, Counted, Stages
<1>7. ran' = [ran EXCEPT ![r] = run] /\ Lawful(r, run)
  BY <1>1, <1>2, <1>4 DEF Ran, Lawful
<1>8. found' = [found EXCEPT ![r] = None] /\ None \in Finds \union {None}
  BY <1>1 DEF RunTool, IInv, Types, Places, Fresh
<1>9. QED
  BY <1>3, <1>5, <1>6, <1>7, <1>8, Tooled

-----------------------------------------------------------------------------
(* Chats                                                                   *)

\* A chat begins with its key accepted.
LEMMA BeginsAccepted ==
  ASSUME IInv, NEW r \in Requests, Begins(r)
  PROVE  /\ stage[r] # "away" /\ ask[r].kind \in {"chat", "stream"} /\ Accepted(ask[r])
         /\ ran[r] = NotRun /\ found[r] = None
BY DEF Begins, IInv, Places, Fresh, Checked, Bodies

\* The tool of a chat is a fixed one, run here.
LEMMA ChatToolRuns ==
  ASSUME IInv, NEW r \in Requests, Begins(r), NEW end, ChatTool(r, end)
  PROVE  \E run \in Run :
           /\ ran' = [ran EXCEPT ![r] = run] /\ Lawful(r, run)
           /\ run.end # "none" => RunsTool(ask[r])
<1> DEFINE a == ask[r]
           command == Registry[a.match].commands
<1>1. CASE RunsTool(a)
  <2>1. a.match \in Fixed
    <3>1. a.match \in Fixed \union {Restart, None}
      BY AskedFor, BeginsAccepted DEF Ask
    <3>2. QED
      BY <1>1, <3>1, AutoRunIsFixed DEF RunsTool
  <2>2. /\ end \in RunCommands(command)
        /\ ran' = [ran EXCEPT ![r] = [command |-> command, target |-> "local", end |-> end]]
    BY <1>1 DEF ChatTool, Ran
  <2>3. [command |-> command, target |-> "local", end |-> end] \in Run
    BY <2>1, <2>2, FixedCommands, EndsAreKnown DEF Run
  <2>4. Lawful(r, [command |-> command, target |-> "local", end |-> end])
    BY <2>1 DEF Lawful
  <2>5. QED
    BY <1>1, <2>2, <2>3, <2>4
<1>2. CASE ~RunsTool(a)
  <2>1. ran' = ran
    BY <1>2 DEF ChatTool
  <2>2. ran[r] \in Run /\ ran' = [ran EXCEPT ![r] = ran[r]]
    BY <2>1 DEF IInv, Types
  <2>3. Lawful(r, ran[r])
    BY DEF IInv, OnlyAllowlistReachesShell, ReachedShell, Lawful
  <2>4. ran[r].end = "none"
    BY BeginsAccepted DEF NotRun
  <2>5. QED
    BY <2>2, <2>3, <2>4
<1>3. QED
  BY <1>1, <1>2

\* After its first step a chat is over or sends.
LEMMA Said ==
  ASSUME IInv, NEW r \in Requests, NEW code \in Statuses, Say(r, code)
  PROVE  /\ status' \in [Requests -> Statuses]
         /\ \E to \in {"yielding", "over"} : stage' = [stage EXCEPT ![r] = to]
<1>1. CASE stage[r] = "generating"
  BY <1>1 DEF Say, IInv, Types
<1>2. CASE stage[r] # "generating"
  BY <1>2, ReplyIsTyped DEF Say
<1>3. QED
  BY <1>1, <1>2

LEMMA AnswerIsTyped ==
  ASSUME IInv, NEW docs \in Nat, CountAnswer(docs)
  PROVE  count' \in [Counters -> Nat]
<1>1. count \in [Counters -> Nat] /\ {"chat_200", "inferences", "rag_docs"} \subseteq Counters
  BY DEF IInv, Types, Counters
<1>2. /\ count["chat_200"] + 1 \in Nat /\ count["inferences"] + 1 \in Nat
      /\ count["rag_docs"] + docs \in Nat
  BY <1>1
<1>3. QED
  BY <1>1, <1>2 DEF CountAnswer

LEMMA ChatStep ==
  ASSUME IInv, NEW r \in Requests, ChatBreaks(r) \/ ChatByTool(r) \/ ChatByModel(r)
  PROVE  IInv'
<1>1. Begins(r) /\ \E end : ChatTool(r, end)
  BY DEF ChatBreaks, ChatByTool, ChatByModel
<1>2. /\ stage[r] # "away" /\ ask[r].kind \in {"chat", "stream"} /\ Accepted(ask[r])
      /\ ask[r] \in Ask
  BY <1>1, BeginsAccepted, AskedFor
<1>3. PICK run \in Run :
        /\ ran' = [ran EXCEPT ![r] = run] /\ Lawful(r, run)
        /\ run.end # "none" => RunsTool(ask[r])
  BY <1>1, ChatToolRuns
<1>4. /\ status' \in [Requests -> Statuses]
      /\ \E to \in {"yielding", "over"} : stage' = [stage EXCEPT ![r] = to]
  <2>1. CASE ChatBreaks(r)
    <3>1. CASE stage[r] = "generating"
      BY <2>1, <3>1 DEF ChatBreaks, IInv, Types
    <3>2. CASE stage[r] # "generating"
      BY <2>1, <3>2, ReplyIsTyped DEF ChatBreaks, Statuses
    <3>3. QED
      BY <3>1, <3>2
  <2>2. CASE ChatByTool(r)
    BY <2>2, Said DEF ChatByTool, Statuses
  <2>3. CASE ChatByModel(r)
    <3>1. 200 \in Statuses /\ 503 \in Statuses
      BY DEF Statuses
    <3>2. Say(r, 200) \/ Say(r, 503)
      BY <2>3 DEF ChatByModel
    <3>3. QED
      BY <3>1, <3>2, Said
  <2>4. QED
    BY <2>1, <2>2, <2>3
<1>5. count' \in [Counters -> Nat]
  <2>1. \A find \in Findable(ask[r]) : find.docs \in Nat
    BY FindsAreTyped
  <2>2. count' = count \/ Bump({"chat_503"}) \/ \E docs \in Nat : CountAnswer(docs)
    BY <2>1 DEF ChatBreaks, ChatByTool, ChatByModel
  <2>3. QED
    BY <2>2, BumpIsTyped, AnswerIsTyped DEF IInv, Types
<1>6. PICK to \in {"yielding", "over"} : MovesTo(r, to)
  BY <1>2, <1>4, <1>5
     DEF ChatBreaks, ChatByTool, ChatByModel, config, MovesTo, Kept, Counted, Stages
<1>7. PICK find \in Finds \union {None} :
        /\ found' = [found EXCEPT ![r] = find]
        /\ find # None => find \in Findable(ask[r])
  <2>1. CASE ChatBreaks(r) \/ ChatByTool(r)
    <3>1. found' = found /\ found[r] = None /\ found \in [Requests -> Finds \union {None}]
      BY <1>1, <2>1, BeginsAccepted DEF ChatBreaks, ChatByTool, IInv, Types
    <3>2. QED
      BY <3>1
  <2>2. CASE ChatByModel(r)
    <3>1. Findable(ask[r]) \subseteq Finds
      BY FindsAreTyped
    <3>2. QED
      BY <2>2, <3>1 DEF ChatByModel
  <2>3. QED
    BY <2>1, <2>2
<1>8. find # None => Grounded(ask[r], find, run)
  BY <1>2, <1>3, <1>7 DEF Grounded
<1>9. QED
  BY <1>2, <1>3, <1>6, <1>7, <1>8, Tooled

-----------------------------------------------------------------------------
(* Theorems                                                                *)

\* The strengthened invariant holds in every reachable state of ApiServer.
THEOREM Invariance == Spec => []IInv
<1>1. IInv /\ [Next]_vars => IInv'
  <2> SUFFICES ASSUME IInv, [Next]_vars PROVE IInv'
    OBVIOUS
  <2>1. CASE Startup \/ StartupFails \/ Stop \/ Release
    BY <2>1, LifespanStep
  <2>2. ASSUME NEW r \in Requests, Arrive(r) PROVE IInv'
    BY <2>2, ArriveStep
  <2>3. ASSUME NEW r \in Requests, Leave(r) PROVE IInv'
    BY <2>3, LeaveStep
  <2>4. ASSUME NEW r \in Requests,
               Cancel(r) \/ Authorise(r) \/ Refuse(r) \/ RefuseTool(r) \/ OpenStream(r)
                 \/ SentAll(r) \/ HangUp(r) \/ Health(r)
        PROVE IInv'
    BY <2>4, AdmissionStep
  <2>5. ASSUME NEW r \in Requests, RunTool(r) PROVE IInv'
    BY <2>5, RunToolStep
  <2>6. ASSUME NEW r \in Requests, ChatBreaks(r) \/ ChatByTool(r) \/ ChatByModel(r)
        PROVE IInv'
    BY <2>6, ChatStep
  <2>7. CASE UNCHANGED vars
    BY <2>7 DEF vars, config, IInv, Types, Places, Asked, Fresh, Asleep, Checked, Bodies, Accepted,
       Grounds, Grounded, Findable, InflightIsExact, OnlyAllowlistReachesShell, ReachedShell
  <2>8. QED
    BY <2>1, <2>2, <2>3, <2>4, <2>5, <2>6, <2>7 DEF Next, Handle
<1>2. QED
  BY <1>1, InitInvariant, PTL DEF Spec

\* The state of the server keeps its types; the gauge never exceeds the number
\* of requests.
THEOREM TypeCorrect == Spec => []TypeOK
<1>1. IInv => TypeOK
  <2> SUFFICES ASSUME IInv PROVE TypeOK
    OBVIOUS
  <2>1. inflight \in 0..Cardinality(Requests)
    BY RequestsAssumption, FS_Subset, FS_CardinalityType DEF IInv, Types, InflightIsExact
  <2>2. QED
    BY <2>1 DEF IInv, Types, TypeOK, Stages, Statuses, Run
<1>2. QED
  BY <1>1, Invariance, PTL

\* The inflight gauge is the number of requests inside the middleware, at any
\* moment and for any number of requests (server.py:269-277).
THEOREM GaugeIsExact == Spec => []InflightIsExact
<1>1. IInv => InflightIsExact
  BY DEF IInv
<1>2. QED
  BY <1>1, Invariance, PTL

\* Nothing but the fixed commands of safe tools reaches a shell, whatever is
\* asked and whoever asks (server.py:349-477, tool_executor.py:54-110).
THEOREM OnlyAllowlistRuns == Spec => []OnlyAllowlistReachesShell
<1>1. IInv => OnlyAllowlistReachesShell
  BY DEF IInv
<1>2. QED
  BY <1>1, Invariance, PTL

-----------------------------------------------------------------------------
(* What a chat's prompt says                                               *)

\* A chat that went to the model has messages, and its tool ran for a question.
LEMMA PromptedChat ==
  ASSUME IInv, NEW r \in Requests, Prompted(r)
  PROVE  /\ ask[r].messages \in Seq(Message)
         /\ kb \in BOOLEAN /\ found[r].fit \in 0..MaxDocs
         /\ found[r].docs > 0 <=> found[r].fit > 0
         /\ found[r].docs = 0 <=> found[r].fit = 0
         /\ found[r].docs > 0 => kb /\ ~Blank(LastUser(ask[r].messages))
         /\ ran[r].end # "none" => ~Blank(LastUser(ask[r].messages))
<1>1. Grounded(ask[r], found[r], ran[r]) /\ kb \in BOOLEAN
  BY DEF IInv, Grounds, Prompted, Types
<1>2. ask[r].messages \in Seq(Message)
  BY <1>1 DEF Grounded, Ask
<1>3. /\ found[r].fit \in 0..MaxDocs
      /\ found[r].docs > 0 <=> found[r].fit > 0
      /\ found[r].docs = 0 <=> found[r].fit = 0
      /\ found[r].docs > 0 => kb /\ ~Blank(LastUser(ask[r].messages))
  <2>1. found[r] \in Findable(ask[r]) /\ found[r] \in Finds
    BY <1>1, FindsAreTyped DEF Grounded
  <2>2. /\ found[r].docs \in 0..MaxDocs /\ found[r].fit \in 0..MaxDocs
        /\ found[r].fit = 0 <=> found[r].docs = 0
    BY <2>1, FindsAreTyped
  <2>3. found[r].docs > 0 => kb /\ ~Blank(LastUser(ask[r].messages))
    BY <2>1 DEF Findable, NothingFound
  <2>4. QED
    BY <2>2, <2>3, MaxDocsAssumption
<1>4. ran[r].end # "none" => ~Blank(LastUser(ask[r].messages))
  BY <1>1 DEF Grounded, RunsTool
<1>5. QED
  BY <1>1, <1>2, <1>3, <1>4, MaxDocsAssumption

\* Of several system messages the normaliser keeps the last.
KnowledgeBaseHidesToolOutput ==
  \A r \in Requests : Prompted(r) /\ kb => "tool" \notin PromptOf(r).system

\* With a knowledge base the model never sees the output of a tool, whatever
\* the conversation (server.py:497, :546, prompt_normalizer.py:37).
THEOREM ToolOutputIsHidden == Spec => []KnowledgeBaseHidesToolOutput
<1>1. IInv => KnowledgeBaseHidesToolOutput
  <2> SUFFICES ASSUME IInv, NEW r \in Requests, Prompted(r), kb
               PROVE  "tool" \notin PromptOf(r).system
    BY DEF KnowledgeBaseHidesToolOutput
  <2>1. kb = TRUE /\ (ran[r].end # "none" => LastUser(ask[r].messages) # {})
    BY PromptedChat DEF Blank
  <2> DEFINE explained == ran[r].end # "none"
  <2>2. explained \in BOOLEAN
    OBVIOUS
  <2>3. "tool" \notin SystemPrompt(Given(ask[r].messages, TRUE, found[r].fit, explained))
    BY <2>1, <2>2, PromptedChat, ToolIsHidden
  <2>4. QED
    BY <2>1, <2>3 DEF PromptOf, Normalize
<1>2. QED
  BY <1>1, Invariance, PTL

\* For every conversation with one system message at most, any number of found
\* documents and any excerpts: the best of them, as many as fit into the context,
\* are in the system section, beside what the client's system message says and
\* nothing else (server.py:95-135, prompt_normalizer.py:37).
THEOREM GroundingArrives == Spec => []GroundingReachesModel
<1>1. IInv => GroundingReachesModel
  <2> SUFFICES ASSUME IInv, NEW r \in Requests, Prompted(r),
                      OneSystemVoice(ask[r].messages)
               PROVE  /\ found[r].docs > 0 =>
                           PromptOf(r).system
                             = Context(found[r].fit) \union UNION {ask[r].messages[i].says :
                                                      i \in Systems(ask[r].messages)}
                      /\ kb /\ found[r].docs = 0 /\ LastUser(ask[r].messages) # {}
                           /\ Spoken(ask[r].messages, "system") = {} =>
                           PromptOf(r).system = {"no_info"}
    BY DEF GroundingReachesModel
  <2> DEFINE explained == ran[r].end # "none"
             ms        == ask[r].messages
             system    == SystemPrompt(Given(ms, TRUE, found[r].fit, explained))
  <2>1. explained \in BOOLEAN
    OBVIOUS
  <2>2. kb => PromptOf(r).system = system
    BY PromptedChat DEF PromptOf, Normalize
  <2>3. /\ found[r].docs > 0 => kb /\ LastUser(ms) # {}
        /\ found[r].docs > 0 <=> found[r].fit > 0
        /\ found[r].docs = 0 <=> found[r].fit = 0
    BY PromptedChat DEF Blank
  <2>4. ms \in Seq(Message) /\ found[r].fit \in 0..MaxDocs
    BY PromptedChat
  <2>5. LastUser(ms) # {} =>
          /\ found[r].fit > 0 =>
               system = Context(found[r].fit) \union UNION {ms[i].says : i \in Systems(ms)}
          /\ found[r].fit = 0 /\ Spoken(ms, "system") = {} => system = {"no_info"}
    <3> HIDE DEF explained
    <3>1. QED
      BY <2>1, <2>4, GroundingIsKept
  <2> HIDE DEF system
  <2>6. QED
    BY <2>2, <2>3, <2>5
<1>2. QED
  BY <1>1, Invariance, PTL

\* The client's last question is in the prompt, for every window, unless the
\* client itself let a window of messages follow it (prompt_normalizer.py:39-49).
THEOREM QuestionsArrive == Spec => []QuestionReachesModel
<1>1. IInv => QuestionReachesModel
  <2> SUFFICES ASSUME IInv, NEW r \in Requests, Prompted(r)
               PROVE  LET ms    == ask[r].messages
                          asked == {i \in DOMAIN ms : ms[i].role = "user"}
                          kept  == PromptOf(r).turns
                      IN  /\ ~Blank(LastUser(ms))
                          /\ Cardinality({i \in Turns(ms) : i > Greatest(asked)}) < Window
                          => \E i \in DOMAIN kept : kept[i] = ms[Greatest(asked)]
    BY DEF QuestionReachesModel
  <2> DEFINE ms        == ask[r].messages
             asked     == {i \in DOMAIN ms : ms[i].role = "user"}
             q         == Greatest(asked)
             explained == ran[r].end # "none"
  <2>1. ms \in Seq(Message) /\ kb \in BOOLEAN /\ found[r].fit \in 0..MaxDocs
        /\ explained \in BOOLEAN
    BY PromptedChat
  <2>2. PromptOf(r).turns = Normalize(Given(ms, kb, found[r].fit, explained)).turns
    BY DEF PromptOf
  <2>3. ASSUME ~Blank(LastUser(ms)), Cardinality({i \in Turns(ms) : i > q}) < Window
        PROVE  \E i \in DOMAIN PromptOf(r).turns : PromptOf(r).turns[i] = ms[q]
    <3>1. asked # {} /\ LastUser(ms) = ms[q].says
      BY <2>3 DEF LastUser, Blank
    <3>2. asked \in SUBSET (1..Len(ms)) /\ Len(ms) \in Nat
      BY <2>1
    <3>3. q \in asked
      BY <3>1, <3>2, GreatestIs
    <3>4. q \in 1..Len(ms) /\ ms[q].role = "user" /\ ~Blank(ms[q].says)
      BY <2>3, <3>1, <3>2, <3>3
    <3> HIDE DEF ms, q, explained
    <3>5. QED
      BY <2>1, <2>2, <2>3, <3>4, QuestionIsKept
  <2>4. QED
    BY <2>3
<1>2. QED
  BY <1>1, Invariance, PTL

-----------------------------------------------------------------------------
(* What the counters tell                                                  *)

\* The requests that each counter is about.
Modelled == {r \in Answered("chat", {200}) : ~SkipsModel(ask[r])}
Failing  == Answered("chat", {503})
Run200   == Answered("run", {200})
Broken   == {r \in Answered("run", {500}) : ran[r].end = "partial"}
Probed   == Answered("health", {200, 503})

\* Nothing was sent before a request was handled, and there is no knowledge
\* base before it is loaded.
Silent == \A r \in Requests : stage[r] \in {"away", "arrived", "ready"} => status[r] = 0

Unloaded == phase = "starting" => ~kb

Tally == Silent /\ Unloaded /\ CountersTellWhatClientsGot

\* One element may join a finite set.
LEMMA OneMayJoin ==
  ASSUME NEW S, IsFiniteSet(S), NEW T, NEW r, r \notin S,
         \A q \in S \union T : q # r => (q \in S <=> q \in T)
  PROVE  Cardinality(S) \in Nat /\ Cardinality(T) = Cardinality(S) + (IF r \in T THEN 1 ELSE 0)
<1>0. Cardinality(S) \in Nat
  BY FS_CardinalityType
<1>1. CASE r \in T
  <2>1. T = S \union {r}
    BY <1>1
  <2> QED
    BY <1>0, <1>1, <2>1, FS_AddElement
<1>2. CASE r \notin T
  <2>1. T = S
    BY <1>2
  <2> QED
    BY <1>0, <1>2, <2>1
<1> QED
  BY <1>1, <1>2

\* A request that no counter is about yet may join what they are about; the
\* others stay where they are.
LEMMA OneMayCount ==
  ASSUME Types, NEW r \in Requests,
         \A q \in Requests \ {r} : status'[q] = status[q] /\ ask'[q] = ask[q] /\ ran'[q] = ran[q],
         r \notin Modelled \union Failing \union Run200 \union Broken \union Probed
  PROVE  /\ Cardinality(Modelled') = Cardinality(Modelled) + (IF r \in Modelled' THEN 1 ELSE 0)
         /\ Cardinality(Failing') = Cardinality(Failing) + (IF r \in Failing' THEN 1 ELSE 0)
         /\ Cardinality(Run200') = Cardinality(Run200) + (IF r \in Run200' THEN 1 ELSE 0)
         /\ Cardinality(Broken') = Cardinality(Broken) + (IF r \in Broken' THEN 1 ELSE 0)
         /\ Cardinality(Probed') = Cardinality(Probed) + (IF r \in Probed' THEN 1 ELSE 0)
         /\ Cardinality(Modelled) \in Nat /\ Cardinality(Failing) \in Nat
         /\ Cardinality(Run200) \in Nat /\ Cardinality(Broken) \in Nat
         /\ Cardinality(Probed) \in Nat
<1>1. /\ IsFiniteSet(Modelled) /\ IsFiniteSet(Failing) /\ IsFiniteSet(Run200)
      /\ IsFiniteSet(Broken) /\ IsFiniteSet(Probed)
  <2>1. \A S \in SUBSET Requests : IsFiniteSet(S)
    BY RequestsAssumption, FS_Subset
  <2> QED
    BY <2>1 DEF Modelled, Failing, Run200, Broken, Probed, Answered
<1>2. \A q \in Modelled \union Modelled' : q # r => (q \in Modelled <=> q \in Modelled')
  BY DEF Modelled, Answered, SkipsModel, RunsTool
<1>3. \A q \in Failing \union Failing' : q # r => (q \in Failing <=> q \in Failing')
  BY DEF Failing, Answered
<1>4. \A q \in Run200 \union Run200' : q # r => (q \in Run200 <=> q \in Run200')
  BY DEF Run200, Answered
<1>5. \A q \in Broken \union Broken' : q # r => (q \in Broken <=> q \in Broken')
  BY DEF Broken, Answered
<1>6. \A q \in Probed \union Probed' : q # r => (q \in Probed <=> q \in Probed')
  BY DEF Probed, Answered
<1>7. /\ r \notin Modelled /\ r \notin Failing /\ r \notin Run200
      /\ r \notin Broken /\ r \notin Probed
  OBVIOUS
<1> HIDE DEF Modelled, Failing, Run200, Broken, Probed
<1>8. /\ Cardinality(Modelled) \in Nat
      /\ Cardinality(Modelled') = Cardinality(Modelled) + (IF r \in Modelled' THEN 1 ELSE 0)
  BY <1>1, <1>2, <1>7, OneMayJoin
<1>9. /\ Cardinality(Failing) \in Nat
      /\ Cardinality(Failing') = Cardinality(Failing) + (IF r \in Failing' THEN 1 ELSE 0)
  BY <1>1, <1>3, <1>7, OneMayJoin
<1>10. /\ Cardinality(Run200) \in Nat
       /\ Cardinality(Run200') = Cardinality(Run200) + (IF r \in Run200' THEN 1 ELSE 0)
  BY <1>1, <1>4, <1>7, OneMayJoin
<1>11. /\ Cardinality(Broken) \in Nat
       /\ Cardinality(Broken') = Cardinality(Broken) + (IF r \in Broken' THEN 1 ELSE 0)
  BY <1>1, <1>5, <1>7, OneMayJoin
<1>12. /\ Cardinality(Probed) \in Nat
       /\ Cardinality(Probed') = Cardinality(Probed) + (IF r \in Probed' THEN 1 ELSE 0)
  BY <1>1, <1>6, <1>7, OneMayJoin
<1> QED
  BY <1>8, <1>9, <1>10, <1>11, <1>12

\* What was answered so far, by counter.
CountersTell ==
  /\ count["chat_200"] = Cardinality(Modelled)
  /\ count["inferences"] = count["chat_200"]
  /\ count["chat_503"] = Cardinality(Failing)
  /\ count["run_200"] = Cardinality(Run200) + Cardinality(Broken)
  /\ count["tool_runs"] = count["run_200"]
  /\ count["health_200"] = Cardinality(Probed)
  /\ count["rag_docs"] <= MaxDocs * count["inferences"]
  /\ count["rag_docs"] > 0 => kb

LEMMA CountersTold ==
  /\ CountersTell <=> CountersTellWhatClientsGot
  /\ CountersTell' <=> CountersTellWhatClientsGot'
BY DEF CountersTell, CountersTellWhatClientsGot, Modelled, Failing, Run200, Broken, Probed

\* A step that answers nobody whom a counter is about.
LEMMA Uncounted ==
  ASSUME Types, CountersTell, NEW r \in Requests, count' = count, kb' = kb,
         \A q \in Requests \ {r} : status'[q] = status[q] /\ ask'[q] = ask[q] /\ ran'[q] = ran[q],
         r \notin Modelled \union Failing \union Run200 \union Broken \union Probed,
         r \notin Modelled' \union Failing' \union Run200' \union Broken' \union Probed'
  PROVE  CountersTell'
<1>1. /\ Cardinality(Modelled') = Cardinality(Modelled) /\ Cardinality(Failing') = Cardinality(Failing)
      /\ Cardinality(Run200') = Cardinality(Run200) /\ Cardinality(Broken') = Cardinality(Broken)
      /\ Cardinality(Probed') = Cardinality(Probed)
  BY OneMayCount
<1> QED
  BY <1>1 DEF CountersTell

LEMMA Unsent ==
  ASSUME NEW r \in Requests, status[r] = 0
  PROVE  r \notin Modelled \union Failing \union Run200 \union Broken \union Probed
BY DEF Modelled, Failing, Run200, Broken, Probed, Answered

LEMMA Streamed ==
  ASSUME NEW r \in Requests, ask[r].kind = "stream"
  PROVE  r \notin Modelled \union Failing \union Run200 \union Broken \union Probed
BY DEF Modelled, Failing, Run200, Broken, Probed, Answered

\* The number of requests answered is that of the last step, or one more.
LEMMA CountedOnce ==
  ASSUME IInv, CountersTell, NEW r \in Requests, status[r] = 0, kb' = kb,
         \A q \in Requests \ {r} : status'[q] = status[q] /\ ask'[q] = ask[q] /\ ran'[q] = ran[q],
         NEW docs \in 0..MaxDocs, docs > 0 => kb,
         count'["chat_200"] = count["chat_200"] + (IF r \in Modelled' THEN 1 ELSE 0),
         count'["inferences"] = count["inferences"] + (IF r \in Modelled' THEN 1 ELSE 0),
         count'["rag_docs"] = count["rag_docs"] + (IF r \in Modelled' THEN docs ELSE 0),
         count'["chat_503"] = count["chat_503"] + (IF r \in Failing' THEN 1 ELSE 0),
         count'["run_200"] = count["run_200"] + (IF r \in Run200' \union Broken' THEN 1 ELSE 0),
         count'["tool_runs"] = count["tool_runs"] + (IF r \in Run200' \union Broken' THEN 1 ELSE 0),
         count'["health_200"] = count["health_200"] + (IF r \in Probed' THEN 1 ELSE 0)
  PROVE  CountersTell'
<1>1. /\ Cardinality(Modelled') = Cardinality(Modelled) + (IF r \in Modelled' THEN 1 ELSE 0)
      /\ Cardinality(Failing') = Cardinality(Failing) + (IF r \in Failing' THEN 1 ELSE 0)
      /\ Cardinality(Run200') = Cardinality(Run200) + (IF r \in Run200' THEN 1 ELSE 0)
      /\ Cardinality(Broken') = Cardinality(Broken) + (IF r \in Broken' THEN 1 ELSE 0)
      /\ Cardinality(Probed') = Cardinality(Probed) + (IF r \in Probed' THEN 1 ELSE 0)
      /\ Cardinality(Modelled) \in Nat /\ Cardinality(Failing) \in Nat
      /\ Cardinality(Run200) \in Nat /\ Cardinality(Broken) \in Nat
      /\ Cardinality(Probed) \in Nat
  BY Unsent, OneMayCount DEF IInv
<1>2. r \notin Run200' \/ r \notin Broken'
  BY DEF Run200, Broken, Answered
<1>3. \A c \in Counters : count[c] \in Nat
  BY DEF IInv, Types
<1>4. count["rag_docs"] \in Nat /\ count["inferences"] \in Nat /\ docs \in Nat /\ docs <= MaxDocs
  BY <1>3, MaxDocsAssumption DEF Counters
<1>5. count'["rag_docs"] <= MaxDocs * count'["inferences"]
  <2>1. \A i \in Nat : MaxDocs * (i + 1) = MaxDocs * i + MaxDocs /\ MaxDocs * i \in Nat
    BY MaxDocsAssumption
  <2>2. MaxDocs * (count["inferences"] + 1) = MaxDocs * count["inferences"] + MaxDocs
        /\ MaxDocs * count["inferences"] \in Nat
    BY <1>4, <2>1
  <2>3. count["rag_docs"] <= MaxDocs * count["inferences"]
    BY DEF CountersTell
  <2>4. CASE r \in Modelled'
    <3>1. count'["rag_docs"] = count["rag_docs"] + docs
          /\ count'["inferences"] = count["inferences"] + 1
      BY <2>4
    <3> QED
      BY <1>4, <2>2, <2>3, <3>1, MaxDocsAssumption
  <2>5. CASE r \notin Modelled'
    <3>1. count'["rag_docs"] = count["rag_docs"] /\ count'["inferences"] = count["inferences"]
      BY <1>4, <2>5
    <3> QED
      BY <2>3, <3>1
  <2> QED
    BY <2>4, <2>5
<1>6. count'["rag_docs"] > 0 => kb'
  BY <1>4 DEF CountersTell
<1>7. /\ count'["chat_200"] = Cardinality(Modelled')
      /\ count'["inferences"] = count'["chat_200"]
      /\ count'["chat_503"] = Cardinality(Failing')
      /\ count'["health_200"] = Cardinality(Probed')
  BY <1>1 DEF CountersTell
<1>8. /\ count'["run_200"] = Cardinality(Run200') + Cardinality(Broken')
      /\ count'["tool_runs"] = count'["run_200"]
  BY <1>1, <1>2 DEF CountersTell
<1> QED
  BY <1>5, <1>6, <1>7, <1>8 DEF CountersTell

\* What an increment does to each counter.
LEMMA Bumped ==
  ASSUME IInv, NEW cs, Bump(cs)
  PROVE  \A c \in Counters : count'[c] = count[c] + (IF c \in cs THEN 1 ELSE 0)
BY DEF IInv, Types, Bump

LEMMA AnswerCounted ==
  ASSUME IInv, NEW docs \in 0..MaxDocs, CountAnswer(docs)
  PROVE  /\ count'["chat_200"] = count["chat_200"] + 1
         /\ count'["inferences"] = count["inferences"] + 1
         /\ count'["rag_docs"] = count["rag_docs"] + docs
         /\ \A c \in Counters \ {"chat_200", "inferences", "rag_docs"} : count'[c] = count[c]
BY DEF IInv, Types, Counters, CountAnswer

\* What a step of a request writes is its own, and it is answered only when
\* it is past its key check.
Writes(r, to) ==
  /\ stage' = [stage EXCEPT ![r] = to]
  /\ \E code : status' = [status EXCEPT ![r] = code]
  /\ \E run : ran' = [ran EXCEPT ![r] = run]
  /\ \E a : ask' = [ask EXCEPT ![r] = a]
  /\ to \in {"arrived", "ready"} => status' = status /\ stage[r] \in {"away", "arrived"}
  /\ to # "away" /\ UNCHANGED <<kb, phase>>

LEMMA OwnWrites ==
  ASSUME IInv, NEW r \in Requests, Arrive(r) \/ Handle(r) \/ HangUp(r) \/ Cancel(r)
  PROVE  \E to : Writes(r, to)
<1>0. /\ stage = [stage EXCEPT ![r] = stage[r]] /\ status = [status EXCEPT ![r] = status[r]]
      /\ ran = [ran EXCEPT ![r] = ran[r]] /\ ask = [ask EXCEPT ![r] = ask[r]]
  BY DEF IInv, Types
<1>1. CASE Arrive(r)
  <2>1. PICK a \in Asks[r] :
          /\ ask' = [ask EXCEPT ![r] = a]
          /\ stage' = [stage EXCEPT ![r] = IF NeedsKey(a) THEN "arrived" ELSE "ready"]
    BY <1>1 DEF Arrive
  <2>2. stage[r] = "away" /\ UNCHANGED <<status, ran, kb, phase>>
    BY <1>1 DEF Arrive, config
  <2>3. (IF NeedsKey(a) THEN "arrived" ELSE "ready") # "away"
    OBVIOUS
  <2> HIDE DEF NeedsKey
  <2> QED
    BY <1>0, <2>1, <2>2, <2>3 DEF Writes
<1>2. CASE Authorise(r)
  <2>1. Writes(r, "ready")
    BY <1>0, <1>2 DEF Authorise, Writes, config
  <2> QED
    BY <2>1
<1>3. CASE OpenStream(r)
  <2>1. Writes(r, "generating")
    BY <1>0, <1>3 DEF OpenStream, Writes, config
  <2> QED
    BY <2>1
<1>4. CASE Cancel(r) \/ SentAll(r) \/ HangUp(r)
  <2>1. Writes(r, "over")
    BY <1>0, <1>4 DEF Cancel, SentAll, HangUp, CloseStream, Writes, config
  <2> QED
    BY <2>1
<1>5. CASE Refuse(r) \/ RefuseTool(r) \/ Health(r)
  <2>1. PICK code : Reply(r, code)
    BY <1>5 DEF Refuse, RefuseTool, Health
  <2>2. UNCHANGED <<ran, ask, kb, phase>>
    BY <1>5 DEF Refuse, RefuseTool, Health, config
  <2>3. Writes(r, "over")
    BY <1>0, <2>1, <2>2 DEF Reply, Writes
  <2> QED
    BY <2>3
<1>6. CASE RunTool(r)
  <2>1. /\ \E code : Reply(r, code)
        /\ \E run : ran' = [ran EXCEPT ![r] = run]
    <3>1. PICK end : /\ Ran(r, CommandOf(ask[r]), ask[r].target, end)
                     /\ Reply(r, IF end \in {"raises", "partial"} THEN 500 ELSE 200)
      BY <1>6 DEF RunTool
    <3> HIDE DEF Reply
    <3> QED
      BY <3>1 DEF Ran
  <2>2. UNCHANGED <<ask, kb, phase>>
    BY <1>6 DEF RunTool, config
  <2>3. Writes(r, "over")
    BY <1>0, <2>1, <2>2 DEF Reply, Writes
  <2> QED
    BY <2>3
<1>7. CASE ChatBreaks(r) \/ ChatByTool(r) \/ ChatByModel(r)
  <2>1. PICK run : ran' = [ran EXCEPT ![r] = run]
    <3>1. PICK end : ChatTool(r, end)
      BY <1>7 DEF ChatBreaks, ChatByTool, ChatByModel
    <3> QED
      BY <1>0, <3>1 DEF ChatTool, Ran
  <2>2. PICK to \in {"over", "yielding"} : stage' = [stage EXCEPT ![r] = to]
    BY <1>7 DEF ChatBreaks, ChatByTool, ChatByModel, Say, Reply
  <2>3. PICK code : status' = [status EXCEPT ![r] = code]
    BY <1>0, <1>7 DEF ChatBreaks, ChatByTool, ChatByModel, Say, Reply
  <2>4. UNCHANGED <<ask, kb, phase>>
    BY <1>7 DEF ChatBreaks, ChatByTool, ChatByModel, config
  <2>5. Writes(r, to)
    BY <1>0, <2>1, <2>2, <2>3, <2>4 DEF Writes
  <2> QED
    BY <2>5
<1> QED
  BY <1>1, <1>2, <1>3, <1>4, <1>5, <1>6, <1>7 DEF Handle

LEMMA SilentStep ==
  ASSUME IInv, Silent, Unloaded,
         NEW r \in Requests, Arrive(r) \/ Handle(r) \/ HangUp(r) \/ Cancel(r)
  PROVE  /\ Silent' /\ Unloaded' /\ kb' = kb
         /\ \A q \in Requests \ {r} : status'[q] = status[q] /\ ask'[q] = ask[q] /\ ran'[q] = ran[q]
<1>1. PICK to : Writes(r, to)
  BY OwnWrites
<1>2. \A q \in Requests \ {r} : /\ stage'[q] = stage[q] /\ status'[q] = status[q]
                                /\ ask'[q] = ask[q] /\ ran'[q] = ran[q]
  BY <1>1 DEF Writes, IInv, Types
<1>3. stage'[r] = to
  BY <1>1 DEF Writes, IInv, Types
<1>4. to \in {"away", "arrived", "ready"} => status'[r] = 0
  BY <1>1 DEF Writes, Silent
<1>5. Silent'
  BY <1>2, <1>3, <1>4 DEF Silent
<1> QED
  BY <1>1, <1>2, <1>5 DEF Writes, Unloaded

LEMMA AnswerIsFor ==
  ASSUME NEW r \in Requests, ask'[r] = ask[r]
  PROVE  /\ r \in Modelled' <=> /\ status'[r] = 200 /\ ask[r].kind = "chat"
                                /\ ~SkipsModel(ask[r])
         /\ r \in Failing' <=> status'[r] = 503 /\ ask[r].kind = "chat"
         /\ r \in Run200' <=> status'[r] = 200 /\ ask[r].kind = "run"
         /\ r \in Broken' <=> /\ status'[r] = 500 /\ ask[r].kind = "run"
                              /\ ran'[r].end = "partial"
         /\ r \in Probed' <=> status'[r] \in {200, 503} /\ ask[r].kind = "health"
<1> HIDE DEF SkipsModel
<1> QED
  BY DEF Modelled, Failing, Run200, Broken, Probed, Answered, SkipsModel, RunsTool

\* Requests that move on, are turned away, or stream.
LEMMA UncountedStep ==
  ASSUME IInv, Silent, Unloaded, CountersTell, NEW r \in Requests,
         Arrive(r) \/ Cancel(r) \/ Authorise(r) \/ OpenStream(r) \/ SentAll(r) \/ HangUp(r)
           \/ Refuse(r) \/ RefuseTool(r)
  PROVE  CountersTell'
<1>1. /\ kb' = kb
      /\ \A q \in Requests \ {r} : status'[q] = status[q] /\ ask'[q] = ask[q] /\ ran'[q] = ran[q]
  BY SilentStep DEF Handle
<1>2. Types /\ Fresh
  BY DEF IInv, Places
<1>3. CASE Arrive(r)
  <2>1. status[r] = 0 /\ status' = status /\ count' = count
    BY <1>3 DEF Arrive, Silent
  <2>2. r \notin Modelled' \union Failing' \union Run200' \union Broken' \union Probed'
    BY <2>1 DEF Modelled, Failing, Run200, Broken, Probed, Answered
  <2> QED
    BY <1>1, <1>2, <2>1, <2>2, Unsent, Uncounted
<1>4. CASE Cancel(r) \/ Authorise(r) \/ SentAll(r) \/ HangUp(r)
  <2>1. UNCHANGED <<status, ask, ran, count, kb>>
    BY <1>4 DEF Cancel, Authorise, SentAll, HangUp, CloseStream, config
  <2> QED
    BY <2>1 DEF CountersTell, Modelled, Failing, Run200, Broken, Probed, Answered, SkipsModel, RunsTool
<1>5. CASE OpenStream(r)
  <2>1. ask[r].kind = "stream" /\ ask' = ask /\ count' = count
    BY <1>5 DEF OpenStream
  <2>2. r \notin Modelled' \union Failing' \union Run200' \union Broken' \union Probed'
    BY <2>1, AnswerIsFor
  <2> QED
    BY <1>1, <1>2, <2>1, <2>2, Streamed, Uncounted
<1>6. CASE Refuse(r) \/ RefuseTool(r)
  <2>1. status[r] = 0 /\ ran[r] = NotRun /\ ask' = ask /\ count' = count /\ ran' = ran
    BY <1>2, <1>6 DEF Refuse, RefuseTool, Silent, Fresh
  <2>2. PICK code \in {401, 403, 404, 422, 500} : Reply(r, code)
    <3>1. CASE Refuse(r)
      <4>1. ask[r].key \in Key
        BY <3>1, AskedFor DEF Refuse
      <4>2. KeyStatus(ask[r].key) \in {401, 403, 500}
        BY <3>1, <4>1 DEF Refuse, KeyStatus, Key
      <4> QED
        BY <3>1, <4>2 DEF Refuse
    <3>2. CASE RefuseTool(r)
      <4>1. RunStatus(ask[r]) \in {403, 404, 422}
        BY <3>2 DEF RefuseTool, RunStatus
      <4> QED
        BY <3>2, <4>1 DEF RefuseTool
    <3> QED
      BY <1>6, <3>1, <3>2
  <2>3. status'[r] \in {401, 403, 404, 422, 500}
    BY <1>2, <2>2 DEF Reply, Types
  <2>4. r \notin Modelled' \union Failing' \union Run200' \union Broken' \union Probed'
    BY <2>1, <2>3, AnswerIsFor DEF NotRun
  <2> QED
    BY <1>1, <1>2, <2>1, <2>4, Unsent, Uncounted
<1> QED
  BY <1>3, <1>4, <1>5, <1>6

\* A tool's run and a health check.
LEMMA CountedStep ==
  ASSUME IInv, Silent, Unloaded, CountersTell, NEW r \in Requests, RunTool(r) \/ Health(r)
  PROVE  CountersTell'
<1>1. /\ kb' = kb
      /\ \A q \in Requests \ {r} : status'[q] = status[q] /\ ask'[q] = ask[q] /\ ran'[q] = ran[q]
  BY SilentStep DEF Handle
<1>2. /\ status[r] = 0 /\ stage[r] = "ready" /\ ask' = ask
      /\ status \in [Requests -> Statuses] /\ ran \in [Requests -> Run]
  BY DEF RunTool, Health, Silent, IInv, Types
<1>3. \A c \in Counters : count[c] \in Nat
  BY DEF IInv, Types
<1>4. 0 \in 0..MaxDocs
  BY MaxDocsAssumption
<1>5. CASE RunTool(r)
  <2>1. PICK end \in RunCommands(CommandOf(ask[r])) :
          /\ Ran(r, CommandOf(ask[r]), ask[r].target, end)
          /\ Bump(IF end = "raises" THEN {} ELSE {"tool_runs", "run_200"})
          /\ Reply(r, IF end \in {"raises", "partial"} THEN 500 ELSE 200)
    BY <1>5 DEF RunTool
  <2>2. /\ ask[r].kind = "run" /\ ran'[r].end = end
        /\ status'[r] = IF end \in {"raises", "partial"} THEN 500 ELSE 200
    BY <1>2, <1>5, <2>1 DEF RunTool, Ran, Reply
  <2>3. /\ r \notin Modelled' /\ r \notin Failing' /\ r \notin Probed'
        /\ r \in Run200' \union Broken' <=> end # "raises"
    BY <1>2, <2>2, AnswerIsFor
  <2>4. \A c \in Counters : count'[c] = count[c] +
          (IF c \in (IF end = "raises" THEN {} ELSE {"tool_runs", "run_200"}) THEN 1 ELSE 0)
    BY <2>1, Bumped
  <2>5. /\ \A c \in {"chat_200", "inferences", "rag_docs", "chat_503", "health_200"} :
             count'[c] = count[c] + 0
        /\ \A c \in {"run_200", "tool_runs"} :
             count'[c] = count[c] + (IF r \in Run200' \union Broken' THEN 1 ELSE 0)
    BY <2>3, <2>4 DEF Counters
  <2> QED
    BY <1>1, <1>2, <1>4, <2>3, <2>5, CountedOnce
<1>6. CASE Health(r)
  <2>1. PICK code \in {200, 503} : Reply(r, code)
    BY <1>6 DEF Health
  <2>2. ask[r].kind = "health" /\ status'[r] = code /\ Bump({"health_200"})
    BY <1>2, <1>6, <2>1 DEF Health, Reply
  <2>3. /\ r \notin Modelled' /\ r \notin Failing' /\ r \in Probed'
        /\ r \notin Run200' \union Broken'
    BY <1>2, <2>2, AnswerIsFor
  <2>4. \A c \in Counters : count'[c] = count[c] + (IF c \in {"health_200"} THEN 1 ELSE 0)
    BY <2>2, Bumped
  <2>5. /\ \A c \in {"chat_200", "inferences", "rag_docs", "chat_503", "run_200", "tool_runs"} :
             count'[c] = count[c] + 0
        /\ count'["health_200"] = count["health_200"] + 1
    BY <2>4 DEF Counters
  <2> QED
    BY <1>1, <1>2, <1>4, <2>3, <2>5, CountedOnce
<1> QED
  BY <1>5, <1>6

\* A chat, by tool or by model, plain or streamed.
LEMMA ChatCounted ==
  ASSUME IInv, Silent, Unloaded, CountersTell, NEW r \in Requests,
         ChatBreaks(r) \/ ChatByTool(r) \/ ChatByModel(r)
  PROVE  CountersTell'
<1>1. /\ kb' = kb
      /\ \A q \in Requests \ {r} : status'[q] = status[q] /\ ask'[q] = ask[q] /\ ran'[q] = ran[q]
  BY SilentStep DEF Handle
<1>2. /\ ask' = ask /\ Begins(r) /\ Types
      /\ status \in [Requests -> Statuses] /\ ran \in [Requests -> Run]
  BY DEF ChatBreaks, ChatByTool, ChatByModel, IInv, Types
<1>3. \A c \in Counters : count[c] \in Nat
  BY DEF IInv, Types
<1>4. 0 \in 0..MaxDocs
  BY MaxDocsAssumption
<1>5. CASE stage[r] = "generating"
  <2>1. ask[r].kind = "stream"
    BY <1>5 DEF IInv, Places, Bodies
  <2>2. count' = count
    BY <1>5 DEF ChatBreaks, ChatByTool, ChatByModel
  <2>3. r \notin Modelled' \union Failing' \union Run200' \union Broken' \union Probed'
    BY <1>2, <2>1, AnswerIsFor
  <2> QED
    BY <1>1, <1>2, <2>1, <2>2, <2>3, Streamed, Uncounted
<1>6. CASE stage[r] # "generating"
  <2>1. stage[r] = "ready" /\ ask[r].kind = "chat" /\ status[r] = 0
    BY <1>2, <1>6 DEF Begins, Silent
  <2>2. CASE ChatBreaks(r)
    <3>1. status'[r] = 500 /\ count' = count
      BY <1>2, <1>6, <2>2 DEF ChatBreaks, Reply
    <3>2. r \notin Modelled' \union Failing' \union Run200' \union Broken' \union Probed'
      BY <1>2, <2>1, <3>1, AnswerIsFor
    <3> QED
      BY <1>1, <1>2, <2>1, <3>1, <3>2, Unsent, Uncounted
  <2>3. CASE ChatByTool(r)
    <3>1. SkipsModel(ask[r]) /\ status'[r] = 200 /\ count' = count
      BY <1>2, <1>6, <2>3 DEF ChatByTool, Say, Reply
    <3>2. r \notin Modelled' \union Failing' \union Run200' \union Broken' \union Probed'
      BY <1>2, <2>1, <3>1, AnswerIsFor
    <3> QED
      BY <1>1, <1>2, <2>1, <3>1, <3>2, Unsent, Uncounted
  <2>4. CASE ChatByModel(r)
    <3>1. ~SkipsModel(ask[r])
      BY <2>4 DEF ChatByModel
    <3>2. PICK find \in Findable(ask[r]) :
            \/ CountAnswer(find.docs) /\ Reply(r, 200)
            \/ Bump({"chat_503"}) /\ Reply(r, 503)
      BY <1>6, <2>4 DEF ChatByModel, Say
    <3> DEFINE docs == find.docs
    <3>3. docs \in 0..MaxDocs /\ (docs > 0 => kb)
      BY <3>2, FindsAreTyped DEF Findable, NothingFound
    <3>4. CASE CountAnswer(docs) /\ Reply(r, 200)
      <4>1. status'[r] = 200
        BY <1>2, <3>4 DEF Reply
      <4>2. /\ r \in Modelled' /\ r \notin Failing' /\ r \notin Probed'
            /\ r \notin Run200' \union Broken'
        BY <1>2, <2>1, <3>1, <4>1, AnswerIsFor
      <4>3. /\ count'["chat_200"] = count["chat_200"] + 1
            /\ count'["inferences"] = count["inferences"] + 1
            /\ count'["rag_docs"] = count["rag_docs"] + docs
            /\ \A c \in {"chat_503", "run_200", "tool_runs", "health_200"} :
                 count'[c] = count[c] + 0
        BY <1>3, <3>3, <3>4, AnswerCounted DEF Counters
      <4> QED
        BY <1>1, <2>1, <3>3, <4>2, <4>3, CountedOnce
    <3>5. CASE Bump({"chat_503"}) /\ Reply(r, 503)
      <4>1. status'[r] = 503
        BY <1>2, <3>5 DEF Reply
      <4>2. /\ r \notin Modelled' /\ r \in Failing' /\ r \notin Probed'
            /\ r \notin Run200' \union Broken'
        BY <1>2, <2>1, <4>1, AnswerIsFor
      <4>3. \A c \in Counters : count'[c] = count[c] + (IF c \in {"chat_503"} THEN 1 ELSE 0)
        BY <3>5, Bumped
      <4>4. /\ \A c \in {"chat_200", "inferences", "rag_docs", "run_200", "tool_runs", "health_200"} :
                 count'[c] = count[c] + 0
            /\ count'["chat_503"] = count["chat_503"] + 1
        BY <4>3 DEF Counters
      <4> QED
        BY <1>1, <1>4, <2>1, <4>2, <4>4, CountedOnce
    <3> QED
      BY <3>2, <3>4, <3>5
  <2> QED
    BY <2>2, <2>3, <2>4
<1> QED
  BY <1>5, <1>6

LEMMA TallyInit == Init => Tally
<1> SUFFICES ASSUME Init PROVE Tally
  OBVIOUS
<1>1. Modelled = {} /\ Failing = {} /\ Run200 = {} /\ Broken = {} /\ Probed = {}
  BY DEF Init, Modelled, Failing, Run200, Broken, Probed, Answered
<1>2. \A c \in Counters : count[c] = 0
  BY DEF Init
<1>3. MaxDocs * 0 = 0
  BY MaxDocsAssumption
<1>4. CountersTell
  BY <1>1, <1>2, <1>3, FS_EmptySet DEF CountersTell, Counters
<1>5. Silent /\ Unloaded
  BY DEF Init, Silent, Unloaded
<1> QED
  BY <1>4, <1>5, CountersTold DEF Tally

LEMMA TallyStep == IInv /\ Tally /\ [Next]_vars => Tally'
<1> SUFFICES ASSUME IInv, Tally, [Next]_vars PROVE Tally'
  OBVIOUS
<1>0. Silent /\ Unloaded /\ CountersTell
  BY CountersTold DEF Tally
<1>1. SUFFICES Silent' /\ Unloaded' /\ CountersTell'
  BY CountersTold DEF Tally
<1>2. ASSUME UNCHANGED <<status, ask, ran, stage, count>>, kb' = kb \/ count["rag_docs"] = 0, Unloaded'
      PROVE  Silent' /\ Unloaded' /\ CountersTell'
  <2>1. count["rag_docs"] \in Nat
    BY DEF IInv, Types, Counters
  <2>2. CountersTell'
    BY <1>0, <1>2, <2>1
       DEF CountersTell, Modelled, Failing, Run200, Broken, Probed, Answered, SkipsModel, RunsTool
  <2> QED
    BY <1>0, <1>2, <2>2 DEF Silent
<1>3. CASE Startup \/ StartupFails
  <2>1. count["rag_docs"] = 0
    BY <1>0, <1>3 DEF Startup, StartupFails, Unloaded, CountersTell, IInv, Types, Counters
  <2>2. UNCHANGED <<status, ask, ran, stage, count>> /\ phase' # "starting"
    BY <1>3 DEF Startup, StartupFails
  <2> QED
    BY <1>2, <2>1, <2>2 DEF Unloaded
<1>4. CASE Stop \/ Release \/ (\E r \in Requests : Leave(r)) \/ UNCHANGED vars
  <2>1. UNCHANGED <<status, ask, ran, stage, count, kb>> /\ (phase' # "starting" \/ phase' = phase)
    BY <1>4 DEF Stop, Release, Leave, vars, config
  <2> QED
    BY <1>0, <1>2, <2>1 DEF Unloaded
<1>5. ASSUME NEW r \in Requests, Arrive(r) \/ Handle(r) \/ HangUp(r) \/ Cancel(r)
      PROVE  Silent' /\ Unloaded' /\ CountersTell'
  <2>1. Silent' /\ Unloaded'
    BY <1>0, <1>5, SilentStep
  <2>2. CountersTell'
    BY <1>0, <1>5, UncountedStep, CountedStep, ChatCounted DEF Handle
  <2> QED
    BY <2>1, <2>2
<1> QED
  BY <1>3, <1>4, <1>5 DEF Next

\* The counters tell what the clients were told, for any number of requests
\* and in any order of their steps (server.py:291, 454-455, 468-469, 507-512).
THEOREM CountersCorrect == Spec => []CountersTellWhatClientsGot
<1>1. Tally => CountersTellWhatClientsGot
  BY DEF Tally
<1> QED
  BY <1>1, TallyInit, TallyStep, Invariance, PTL DEF Spec

-----------------------------------------------------------------------------
(* Once                                                                    *)

\* A stream that has its answer, and a request that is over, only end.
LEMMA OwnOnce ==
  ASSUME IInv, Silent, NEW r \in Requests,
         Arrive(r) \/ Handle(r) \/ HangUp(r) \/ Cancel(r)
  PROVE  Settled(r)
<1>1. CASE Arrive(r)
  BY <1>1 DEF Arrive, Settled, Silent, IInv, Places, Fresh, NotRun
<1>2. CASE Authorise(r) \/ SentAll(r) \/ HangUp(r) \/ Cancel(r)
  BY <1>2 DEF Authorise, SentAll, HangUp, CloseStream, Cancel, Settled
<1>3. CASE Refuse(r) \/ RefuseTool(r) \/ RunTool(r) \/ Health(r) \/ OpenStream(r)
  <2>1. stage[r] \in {"arrived", "ready"}
    BY <1>3 DEF Refuse, RefuseTool, RunTool, Health, OpenStream
  <2>2. status[r] = 0 /\ ran[r] = NotRun /\ found[r] = None
    BY <2>1 DEF Silent, IInv, Places, Fresh
  <2> QED
    BY <2>2 DEF Settled, NotRun
<1>4. CASE ChatBreaks(r) \/ ChatByTool(r) \/ ChatByModel(r)
  <2>1. Begins(r) /\ ask' = ask
    BY <1>4 DEF ChatBreaks, ChatByTool, ChatByModel
  <2>2. ran[r] = NotRun /\ found[r] = None
    BY <2>1 DEF Begins, IInv, Places, Fresh
  <2>3. stage[r] = "ready" => status[r] = 0
    BY DEF Silent
  <2>4. stage[r] = "generating" => status' = status
    BY <1>4 DEF ChatBreaks, ChatByTool, ChatByModel, Say
  <2> QED
    BY <2>1, <2>2, <2>3, <2>4 DEF Settled, NotRun, Begins
<1> QED
  BY <1>1, <1>2, <1>3, <1>4 DEF Handle

LEMMA FoundByItself ==
  ASSUME IInv, NEW r \in Requests, NEW q \in Requests \ {r},
         Arrive(r) \/ Handle(r) \/ HangUp(r) \/ Cancel(r)
  PROVE  found'[q] = found[q]
<1>1. CASE ChatByModel(r)
  <2>1. PICK find : found' = [found EXCEPT ![r] = find]
    BY <1>1 DEF ChatByModel
  <2> QED
    BY <2>1 DEF IInv, Types
<1>2. CASE ~ChatByModel(r)
  BY <1>2
     DEF Arrive, Handle, HangUp, Cancel, Authorise, Refuse, RefuseTool, RunTool, Health,
         OpenStream, ChatBreaks, ChatByTool, SentAll, CloseStream
<1> QED
  BY <1>1, <1>2

\* A request is answered once, searched for once and runs one tool at most:
\* what its client was told is not taken back by an exception, a cancellation,
\* a hang-up or another request (server.py:269-277, 436-562).
THEOREM EachIsDoneOnce == Spec => DoneOnce
<1>1. IInv /\ Tally /\ [Next]_vars => [\A r \in Requests : Settled(r)]_vars
  <2> SUFFICES ASSUME IInv, Tally, Next, NEW q \in Requests PROVE Settled(q)
    BY DEF vars, config
  <2>1. CASE Startup \/ StartupFails \/ Stop \/ Release \/ \E r \in Requests : Leave(r)
    BY <2>1 DEF Startup, StartupFails, Stop, Release, Leave, Settled
  <2>2. ASSUME NEW r \in Requests, Arrive(r) \/ Handle(r) \/ HangUp(r) \/ Cancel(r)
        PROVE  Settled(q)
    <3>1. CASE q = r
      BY <2>2, <3>1, OwnOnce DEF Tally
    <3>2. CASE q # r
      BY <2>2, <3>2, SilentStep, FoundByItself DEF Tally, Settled
    <3> QED
      BY <3>1, <3>2
  <2> QED
    BY <2>1, <2>2 DEF Next
<1> QED
  BY <1>1, TallyInit, TallyStep, Invariance, PTL DEF Spec, DoneOnce
=============================================================================

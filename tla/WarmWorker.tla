----------------------------- MODULE WarmWorker ------------------------------
(***************************************************************************)
(* WarmRKLLMWorker (src/providers/rkllm_warm_worker.py): one rkllm CLI     *)
(* process kept warm behind a lock, driven through a pseudo-terminal.      *)
(*                                                                         *)
(* Every infer() or recycle() is a caller with a thread of its own; every  *)
(* step between two operations of the outside world (the lock, isalive,    *)
(* spawn, a read, a write, a kill) is an action.  The CLI is external: it  *)
(* runs concurrently, prints "You: " when it can take a prompt, answers    *)
(* with the text and then a "[Token/s]:" line, and may die or hang at any  *)
(* moment.  The terminal echoes what is sent; pexpect reads it in chunks   *)
(* of any size and keeps what follows the line it was asked for in a       *)
(* buffer of its own.                                                      *)
(***************************************************************************)
EXTENDS Naturals, Sequences

CONSTANTS Calls,       \* infer() calls; each also names the process it spawns
          Recyclers,   \* recycle() calls
          Marked,      \* calls whose prompt itself contains "You:" or "[Token/s]:"
          MaxRequests, \* max_requests
          CanLinger,   \* can a process survive close(force=True)
          None, Exit   \* nobody or nothing; the CLI's exit command

ASSUME CallersAssumption ==
  /\ Calls \intersect Recyclers = {}
  /\ None \notin Calls \union Recyclers
  /\ Exit \notin Calls \union {None}
  /\ Marked \subseteq Calls
  /\ CanLinger \in BOOLEAN

ASSUME MaxRequestsAssumption == MaxRequests \in Nat \ {0}

Callers == Calls \union Recyclers

-----------------------------------------------------------------------------
VARIABLES
  pc,           \* control point of each caller
  lock,         \* holder of _lock
  child,        \* _child: the process behind the handle
  requestCount, \* _request_count
  closing,      \* the process a caller is shutting down, and where to go next
  output,       \* what _read_until_done_locked has read so far
  reply,        \* the InferenceResult of each call
  procs,        \* "unborn", "live", "leaked" (survived its kill) or "dead"
  sent,         \* history: the prompts sent to each process, in order
  tty,          \* the process at the other end of the terminal
  cli,          \* what that process is doing, for which prompt
  stdin,        \* lines it has not read yet
  wire,         \* what it printed and nobody read
  buf           \* what pexpect read and has not handed out

workerVars == <<pc, lock, child, requestCount, closing, output, reply>>
ptyVars    == <<tty, cli, stdin, wire, buf>>
vars       == <<workerVars, procs, sent, ptyVars>>

Token == [kind : {"you", "echo", "text", "rate"}, of : Calls \union {None}]
You   == [kind |-> "you", of |-> None]
Echo(r) == [kind |-> "echo", of |-> r]
Text(r) == [kind |-> "text", of |-> r]
Rate(r) == [kind |-> "rate", of |-> r]

Reply == [text : Calls \union {None}, error : {"none", "unavailable", "start", "exception"}]

Points == {"start", "check", "recycle", "polite", "force", "ensure", "loading",
           "drain", "send", "read", "finish", "release", "done"}

TypeOK ==
  /\ pc \in [Callers -> Points]
  /\ lock \in Callers \union {None}
  /\ child \in Calls \union {None}
  /\ requestCount \in 0..MaxRequests
  /\ closing \in [Callers -> [proc : Calls \union {None}, next : {"ensure", "release"}]]
  /\ output \in [Callers -> Seq(Token)]
  /\ reply \in [Calls -> Reply \union {None}]
  /\ procs \in [Calls -> {"unborn", "live", "leaked", "dead"}]
  /\ sent \in [Calls -> Seq(Calls)]
  /\ tty \in Calls \union {None}
  /\ cli \in [at : {"loading", "waiting", "answering", "rating", "prompting"},
              of : Calls \union {None}]
  /\ stdin \in Seq(Calls \union {Exit})
  /\ wire \in Seq(Token)
  /\ buf \in Seq(Token)

Init ==
  /\ pc = [c \in Callers |-> "start"]
  /\ lock = None
  /\ child = None
  /\ requestCount = 0
  /\ closing = [c \in Callers |-> [proc |-> None, next |-> "release"]]
  /\ output = [c \in Callers |-> <<>>]
  /\ reply = [r \in Calls |-> None]
  /\ procs = [p \in Calls |-> "unborn"]
  /\ sent = [p \in Calls |-> <<>>]
  /\ tty = None
  /\ cli = [at |-> "loading", of |-> None]
  /\ stdin = <<>> /\ wire = <<>> /\ buf = <<>>

Running(p) == p \in Calls /\ procs[p] \in {"live", "leaked"}   \* isalive()

Goto(c, from, to) == pc[c] = from /\ pc' = [pc EXCEPT ![c] = to]

Settle(r, text, error) == reply' = [reply EXCEPT ![r] = [text |-> text, error |-> error]]

-----------------------------------------------------------------------------
(* Entering and leaving                                                    *)

\* pexpect, the binary or the model file is missing: no lock is taken.
Unavailable(r) ==
  /\ Goto(r, "start", "done")
  /\ Settle(r, None, "unavailable")
  /\ UNCHANGED <<lock, child, requestCount, closing, output, procs, sent, ptyVars>>

Acquire(c) ==
  /\ Goto(c, "start", IF c \in Calls THEN "check" ELSE "recycle")
  /\ lock = None
  /\ lock' = c
  /\ UNCHANGED <<child, requestCount, closing, output, reply, procs, sent, ptyVars>>

Release(c) ==
  /\ Goto(c, "release", "done")
  /\ lock' = None
  /\ UNCHANGED <<child, requestCount, closing, output, reply, procs, sent, ptyVars>>

-----------------------------------------------------------------------------
(* _shutdown_locked: forget the handle, ask the process to exit, wait a    *)
(* moment, kill it.  The kill's failure is swallowed.                      *)

DropHandle_KeepsCount == child' = None /\ UNCHANGED requestCount   \* mutant

DropHandle == child' = None /\ requestCount' = 0

BeginShutdown(c, from, next) ==
  /\ pc[c] = from
  /\ DropHandle
  /\ IF child = None
     THEN pc' = [pc EXCEPT ![c] = next] /\ UNCHANGED closing
     ELSE /\ pc' = [pc EXCEPT ![c] = "polite"]
          /\ closing' = [closing EXCEPT ![c] = [proc |-> child, next |-> next]]

EndShutdown(c) ==
  /\ pc' = [pc EXCEPT ![c] = closing[c].next]
  /\ closing' = [closing EXCEPT ![c].proc = None]

AskToExit(c) ==
  /\ Goto(c, "polite", "force")
  /\ Running(closing[c].proc)
  /\ stdin' = Append(stdin, Exit)
  /\ UNCHANGED <<lock, child, requestCount, closing, output, reply, procs, sent,
                 tty, cli, wire, buf>>

AlreadyGone(c) ==
  /\ pc[c] \in {"polite", "force"}
  /\ ~Running(closing[c].proc)
  /\ EndShutdown(c)
  /\ UNCHANGED <<lock, child, requestCount, output, reply, procs, sent, ptyVars>>

KillOutcomes == {"dead"} \union (IF CanLinger THEN {"leaked"} ELSE {})

Kill(c) ==
  /\ pc[c] = "force"
  /\ Running(closing[c].proc)
  /\ \E end \in KillOutcomes :
       procs' = [procs EXCEPT ![closing[c].proc] = end]
  /\ EndShutdown(c)
  /\ UNCHANGED <<lock, child, requestCount, output, reply, sent, ptyVars>>

\* recycle(), called when the server shuts down.
Recycle(c) ==
  /\ BeginShutdown(c, "recycle", "release")
  /\ UNCHANGED <<lock, output, reply, procs, sent, ptyVars>>

-----------------------------------------------------------------------------
(* _should_recycle and _ensure_started_locked.  max_uptime_sec may have    *)
(* passed at any time.                                                     *)

CheckRecycle_DropsHandle(r) ==   \* mutant: forgets without a shutdown
  /\ Goto(r, "check", "ensure")
  /\ DropHandle
  /\ UNCHANGED <<lock, closing, output, reply, procs, sent, ptyVars>>

CheckRecycle(r) ==
  /\ BeginShutdown(r, "check", "ensure")
  /\ UNCHANGED <<lock, output, reply, procs, sent, ptyVars>>

Young_OneMore == requestCount <= MaxRequests   \* mutant: off by one

Young == requestCount < MaxRequests

CheckKeep(r) ==
  /\ Goto(r, "check", "ensure")
  /\ Running(child)
  /\ Young
  /\ UNCHANGED <<lock, child, requestCount, closing, output, reply, procs, sent, ptyVars>>

EnsureRunning(r) ==
  /\ Goto(r, "ensure", "drain")
  /\ Running(child)
  /\ UNCHANGED <<lock, child, requestCount, closing, output, reply, procs, sent, ptyVars>>

NewTerminal_KeepsBuffer == stdin' = <<>> /\ wire' = <<>> /\ UNCHANGED buf   \* mutant

NewTerminal == stdin' = <<>> /\ wire' = <<>> /\ buf' = <<>>

\* pexpect.spawn: a new process on a new terminal; a handle to a process that
\* died since the check is overwritten.
Spawn(r) ==
  /\ Goto(r, "ensure", "loading")
  /\ ~Running(child)
  /\ child' = r
  /\ requestCount' = 0
  /\ procs' = [procs EXCEPT ![r] = "live"]
  /\ tty' = r
  /\ cli' = [at |-> "loading", of |-> None]
  /\ NewTerminal
  /\ UNCHANGED <<lock, closing, output, reply, sent>>

SpawnFails(r) ==
  /\ ~Running(child)
  /\ BeginShutdown(r, "ensure", "release")
  /\ Settle(r, None, "start")
  /\ UNCHANGED <<lock, output, procs, sent, ptyVars>>

Prompted == \E i \in 1..Len(wire) : wire[i].kind = "you"

\* expect("You: ") matched: nothing follows the first prompt of a process.
Loaded(r) ==
  /\ Goto(r, "loading", "drain")
  /\ Prompted
  /\ wire' = <<>>
  /\ UNCHANGED <<lock, child, requestCount, closing, output, reply, procs, sent,
                 tty, cli, stdin, buf>>

\* "error" in the banner, end of file or load_timeout_sec.
LoadFails(r) ==
  /\ ~Prompted
  /\ BeginShutdown(r, "loading", "release")
  /\ Settle(r, None, "start")
  /\ UNCHANGED <<lock, output, procs, sent, ptyVars>>

-----------------------------------------------------------------------------
(* One prompt                                                              *)

\* _drain_buffer_locked reads the terminal, past pexpect's own buffer.
Drain(r) ==
  /\ Goto(r, "drain", "send")
  /\ wire' = <<>>
  /\ UNCHANGED <<lock, child, requestCount, closing, output, reply, procs, sent,
                 tty, cli, stdin, buf>>

Send(r) ==
  /\ Goto(r, "send", "read")
  /\ sent' = [sent EXCEPT ![child] = Append(@, r)]
  /\ IF Running(child)
     THEN stdin' = Append(stdin, r) /\ wire' = Append(wire, Echo(r))
     ELSE UNCHANGED <<stdin, wire>>
  /\ UNCHANGED <<lock, child, requestCount, closing, output, reply, procs, tty, cli, buf>>

\* Mutant: the handle survives the failure.
Fail_KeepsChild(r, from) ==
  /\ Goto(r, from, "release")
  /\ Settle(r, None, "exception")
  /\ output' = [output EXCEPT ![r] = <<>>]
  /\ UNCHANGED <<lock, child, requestCount, closing, procs, sent, ptyVars>>

\* except Exception: any failure ends in a shutdown.
Fail(r, from) ==
  /\ BeginShutdown(r, from, "release")
  /\ Settle(r, None, "exception")
  /\ output' = [output EXCEPT ![r] = <<>>]
  /\ UNCHANGED <<lock, procs, sent, ptyVars>>

SendFails(r) == ~Running(child) /\ Fail(r, "send")

EndsLine(i) == buf[i].kind # "you"     \* "You: " waits for input on its line
NoLine == \A i \in 1..Len(buf) : ~EndsLine(i)

\* readline() reads a chunk when its buffer holds no line ...
Fetch(r) ==
  /\ pc[r] = "read"
  /\ NoLine
  /\ \E n \in 1..Len(wire) :
       /\ buf' = buf \o SubSeq(wire, 1, n)
       /\ wire' = SubSeq(wire, n + 1, Len(wire))
  /\ UNCHANGED <<workerVars, procs, sent, tty, cli, stdin>>

IsEnd(tok) == tok.kind \in {"you", "rate"} \/ (tok.kind = "echo" /\ tok.of \in Marked)

\* ... and hands out the first line; a marker in what was read ends the loop.
ReadMore(r, n) ==
  /\ output' = [output EXCEPT ![r] = @ \o SubSeq(buf, 1, n)]
  /\ buf' = SubSeq(buf, n + 1, Len(buf))
  /\ IF \E i \in 1..n : IsEnd(buf[i]) THEN Goto(r, "read", "finish")
                                      ELSE Goto(r, "read", "read")
  /\ UNCHANGED <<lock, child, requestCount, closing, reply, procs, sent,
                 tty, cli, stdin, wire>>

ReadLine(r) ==
  \E n \in 1..Len(buf) :
    /\ EndsLine(n)
    /\ \A i \in 1..n-1 : ~EndsLine(i)
    /\ ReadMore(r, n)

\* At end of file readline() returns what is left.
ReadEof(r) ==
  /\ ~Running(child)
  /\ wire = <<>> /\ buf # <<>> /\ NoLine
  /\ ReadMore(r, Len(buf))

\* Mutant: only end of file is noticed.
Timeout_OnlyAtEof(r) == ~Running(child) /\ Fail(r, "read")

\* The deadline passed: TimeoutError, whatever is still to be read.
Timeout(r) == Fail(r, "read")

\* _clean: what follows the last echo (it ends with the assistant marker),
\* up to the first "You:".
Answer(o, i) ==
  /\ o[i].kind = "text"
  /\ \A j \in i+1..Len(o) : o[j].kind # "echo"
  /\ \A j \in 1..i-1 : o[j].kind = "you" => \E k \in j+1..i-1 : o[k].kind = "echo"

Clean(o) ==
  IF \E i \in 1..Len(o) : Answer(o, i)
  THEN o[CHOOSE i \in 1..Len(o) : Answer(o, i)].of
  ELSE None

CountRequest_Not == UNCHANGED requestCount   \* mutant

CountRequest == requestCount' = requestCount + 1

Finish(r) ==
  /\ Goto(r, "finish", "release")
  /\ Running(child)
  /\ CountRequest
  /\ Settle(r, Clean(output[r]), "none")
  /\ output' = [output EXCEPT ![r] = <<>>]
  /\ UNCHANGED <<lock, child, closing, procs, sent, ptyVars>>

\* worker_died_after_request: the answer stands, the handle goes.
FinishDead(r) ==
  /\ ~Running(child)
  /\ BeginShutdown(r, "finish", "release")
  /\ Settle(r, Clean(output[r]), "none")
  /\ output' = [output EXCEPT ![r] = <<>>]
  /\ UNCHANGED <<lock, procs, sent, ptyVars>>

-----------------------------------------------------------------------------
(* The rkllm CLI (external)                                                *)

Emit(tok) == wire' = Append(wire, tok)

CliPrompts ==
  /\ Running(tty) /\ cli.at \in {"loading", "prompting"}
  /\ cli' = [at |-> "waiting", of |-> None]
  /\ Emit(You)
  /\ UNCHANGED <<workerVars, procs, sent, tty, stdin, buf>>

CliTakes ==
  /\ Running(tty) /\ cli.at = "waiting"
  /\ stdin # <<>> /\ Head(stdin) # Exit
  /\ cli' = [at |-> "answering", of |-> Head(stdin)]
  /\ stdin' = Tail(stdin)
  /\ UNCHANGED <<workerVars, procs, sent, tty, wire, buf>>

CliAnswers ==
  /\ Running(tty) /\ cli.at = "answering"
  /\ cli' = [cli EXCEPT !.at = "rating"]
  /\ Emit(Text(cli.of))
  /\ UNCHANGED <<workerVars, procs, sent, tty, stdin, buf>>

CliRates ==
  /\ Running(tty) /\ cli.at = "rating"
  /\ cli' = [at |-> "prompting", of |-> None]
  /\ Emit(Rate(cli.of))
  /\ UNCHANGED <<workerVars, procs, sent, tty, stdin, buf>>

\* By itself at any moment (a crash, the OOM killer), or on reading "exit".
CliDies ==
  /\ Running(tty)
  /\ procs' = [procs EXCEPT ![tty] = "dead"]
  /\ UNCHANGED <<workerVars, sent, ptyVars>>

Cli == CliPrompts \/ CliTakes \/ CliAnswers \/ CliRates \/ CliDies

-----------------------------------------------------------------------------
Shutdown(c) == AskToExit(c) \/ AlreadyGone(c) \/ Kill(c)

InferStep(r) ==
  \/ CheckRecycle(r) \/ CheckKeep(r) \/ EnsureRunning(r)
  \/ Spawn(r) \/ SpawnFails(r) \/ Loaded(r) \/ LoadFails(r)
  \/ Drain(r) \/ Send(r) \/ SendFails(r)
  \/ Fetch(r) \/ ReadLine(r) \/ ReadEof(r) \/ Timeout(r)
  \/ Finish(r) \/ FinishDead(r)

Next ==
  \/ \E c \in Callers : Acquire(c) \/ Shutdown(c) \/ Release(c)
  \/ \E r \in Calls : Unavailable(r) \/ InferStep(r)
  \/ \E c \in Recyclers : Recycle(c)
  \/ Cli

Spec == Init /\ [][Next]_vars

\* What the thread that holds the lock does.
HolderStep ==
  \/ \E c \in Callers : Shutdown(c) \/ Release(c)
  \/ \E r \in Calls : InferStep(r)
  \/ \E c \in Recyclers : Recycle(c)

\* That thread is scheduled, and its deadline passes in the end; nothing is
\* asked of the CLI.
FairSpec == Spec /\ WF_vars(HolderStep)

-----------------------------------------------------------------------------
(* Properties                                                              *)

Count(p) == Len(sent[p])
Sent(p)  == {sent[p][i] : i \in 1..Count(p)}

\* It is behind the handle, or in the hands of the caller that shuts it down.
NoOrphan ==
  \A p \in Calls : procs[p] = "live" =>
    child = p \/ \E c \in Callers : closing[c].proc = p

\* At most one rkllm process has the model loaded, through timeouts, deaths,
\* recycling and restarts, and none is ever lost alive, unless its kill failed
\* (:151-170, :212-229): the NPU and the RAM hold one
\* (rkllm_warm_worker.py:12 "persistent sessions can leak RAM/state").
OneModelResident ==
  /\ \A p, q \in Calls : procs[p] = "live" /\ procs[q] = "live" => p = q
  /\ NoOrphan

\* max_requests bounds what one process is given, failed requests included
\* (:7 "recycle before context/state becomes risky").
ServesAtMostMaxRequests == \A p \in Calls : Count(p) <= MaxRequests

\* When nobody holds the lock, _request_count is the number of prompts the
\* warm process was given: no failure path forgets one (:103, :159, :216).
CountIsTrueBetweenCalls ==
  lock = None => /\ child # None => requestCount = Count(child)
                 /\ child = None => requestCount = 0

\* A process whose request timed out or failed is dead, or survived its kill,
\* by the time that call returns (:9 "hard timeout: kill stuck worker").
FailedWorkerIsKilled ==
  \A r, p \in Calls :
    /\ pc[r] = "done" /\ reply[r] # None /\ reply[r].error = "exception"
    /\ r \in Sent(p)
    => procs[p] # "live" /\ child # p

\* An answer given to the wrong call was owed to an earlier prompt of the same
\* process: recycling does isolate, and the first request of a process never
\* gets another's answer (:6-10).
ForeignAnswerIsFromSameProcess ==
  \A r \in Calls :
    reply[r] # None /\ reply[r].text \notin {None, r} =>
      \E p \in Calls : \E i, j \in 1..Count(p) :
        i < j /\ sent[p][i] = reply[r].text /\ sent[p][j] = r

\* Whatever the CLI does, the lock is given back (:65-131, :185-196).
LockIsReleased == lock # None ~> lock = None

\* :6 "single-flight lock: one request at a time per worker": when a prompt is
\* about to be sent, the process owes no answer to an earlier one.
SingleFlight ==
  \A r \in Calls : pc[r] = "send" /\ Running(child) =>
    stdin = <<>> /\ cli.at \notin {"answering", "rating"}
=============================================================================

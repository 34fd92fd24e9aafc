-------------------------- MODULE StatelessProvider ---------------------------
(***************************************************************************)
(* StatelessRKLLMProvider (src/providers/rkllm_stateless.py): a fresh      *)
(* rkllm process for each request, which gets its prompt and "exit", is    *)
(* read to its end, and killed at the deadline.                            *)
(*                                                                         *)
(* The server runs one request after another, without a lock.  A process   *)
(* is external: it prints, ends or crashes by itself at any moment, and    *)
(* may be stuck in the NPU driver, where a kill does not reach it until it *)
(* gets out.  A process that ended stays in the system until it is waited  *)
(* for.                                                                    *)
(***************************************************************************)
EXTENDS Naturals

CONSTANTS Calls,  \* infer() calls; each also names the process it starts
          Marked, \* calls whose answer contains a marker that _clean cuts at
          None

ASSUME CallsAssumption == None \notin Calls /\ Marked \subseteq Calls

-----------------------------------------------------------------------------
VARIABLES
  pc,      \* control point of each call
  reply,   \* the InferenceResult of each call
  proc,    \* what became of each process
  printed, \* how much of its answer it has printed
  code,    \* how it ended
  signals  \* the kills it was sent, as far as the code counts: 0, 1 or 2

provider  == <<pc, reply>>
processes == <<proc, printed, code>>
vars      == <<provider, processes, signals>>

Amount == {"none", "part", "whole"}

Reply == [text : Amount, error : {"none", "unavailable", "timeout", "exit_code", "exception"}]

TypeOK ==
  /\ pc \in [Calls -> {"start", "spawn", "talk", "collect", "judge", "done"}]
  /\ reply \in [Calls -> Reply \union {None}]
  /\ proc \in [Calls -> {"unborn", "running", "stuck", "zombie", "reaped"}]
  /\ printed \in [Calls -> Amount]
  /\ code \in [Calls -> {"none", "zero", "nonzero"}]
  /\ signals \in [Calls -> 0..2]

Init ==
  /\ pc = [c \in Calls |-> "start"]
  /\ reply = [c \in Calls |-> None]
  /\ proc = [c \in Calls |-> "unborn"]
  /\ printed = [c \in Calls |-> "none"]
  /\ code = [c \in Calls |-> "none"]
  /\ signals = [c \in Calls |-> 0]

Alive(c) == proc[c] \in {"running", "stuck"}   \* poll() is None

Goto(c, from, to) == pc[c] = from /\ pc' = [pc EXCEPT ![c] = to]

Answer(c, from, what, error) ==
  /\ Goto(c, from, "done")
  /\ reply' = [reply EXCEPT ![c] = [text |-> what, error |-> error]]

\* poll() and wait() take a process that ended out of the system.
Reaped(c) == proc' = [proc EXCEPT ![c] = IF @ = "zombie" THEN "reaped" ELSE @]

Kill_Not(c) == Reaped(c) /\ UNCHANGED signals   \* mutant: polls only

\* kill() polls first, and sends nothing to a process that ended.
Kill(c) ==
  /\ Reaped(c)
  /\ signals' = [signals EXCEPT ![c] = IF Alive(c) THEN @ + 1 ELSE @]

-----------------------------------------------------------------------------
(* infer                                                                   *)

Free == \A d \in Calls : pc[d] \in {"start", "done"}

Unavailable(c) ==
  /\ Free
  /\ Answer(c, "start", "none", "unavailable")
  /\ UNCHANGED <<processes, signals>>

Begin(c) ==
  /\ Free
  /\ Goto(c, "start", "spawn")
  /\ UNCHANGED <<reply, processes, signals>>

Spawn(c) ==
  /\ Goto(c, "spawn", "talk")
  /\ proc' = [proc EXCEPT ![c] = "running"]
  /\ UNCHANGED <<reply, printed, code, signals>>

\* communicate() returns: end of file, and the process waited for.
Finish(c) ==
  /\ Goto(c, "talk", "judge")
  /\ proc[c] = "zombie"
  /\ Reaped(c)
  /\ UNCHANGED <<reply, printed, code, signals>>

\* _clean keeps an answer whole unless it looks like the end of itself.
Clean(c) == IF c \in Marked /\ printed[c] = "whole" THEN "part" ELSE printed[c]

ErrorOf_IgnoresCode(c) == "none"   \* mutant

ErrorOf_Raw(c) == code[c]   \* mutant: the code itself, zero included

ErrorOf(c) == IF code[c] = "zero" THEN "none" ELSE "exit_code"

Judge(c) ==
  /\ Answer(c, "judge", Clean(c), ErrorOf(c))
  /\ UNCHANGED <<processes, signals>>

\* timeout_sec have passed, though the process may just have ended.
Expire(c) ==
  /\ Goto(c, "talk", "collect")
  /\ Kill(c)
  /\ UNCHANGED <<reply, printed, code>>

\* The second communicate() returns ...
Collect(c) ==
  /\ ~Alive(c)
  /\ Reaped(c)
  /\ Answer(c, "collect", Clean(c), "timeout")
  /\ UNCHANGED <<printed, code, signals>>

\* except Exception: whatever was read is lost, and nobody waits any more.
Abandon(c, from) ==
  /\ Answer(c, from, "none", "exception")
  /\ Kill(c)
  /\ UNCHANGED <<printed, code>>

SpawnFails(c) == Abandon(c, "spawn")

\* A call on the pipes fails.
Break(c) == Abandon(c, "talk")

\* A rate like "1.2.3" or "." is no float.
Misread(c) == Abandon(c, "judge")

GiveUp_Never(c) == ~Alive(c) /\ Abandon(c, "collect")   \* mutant: no second deadline

\* ... or has its own deadline pass.
GiveUp(c) == Abandon(c, "collect")

-----------------------------------------------------------------------------
(* The rkllm processes (external)                                          *)

Prints(c) ==
  /\ proc[c] = "running"
  /\ \/ printed[c] = "none" /\ printed' = [printed EXCEPT ![c] = "part"]
     \/ printed[c] = "part" /\ printed' = [printed EXCEPT ![c] = "whole"]
  /\ UNCHANGED <<provider, proc, code, signals>>

Ends(c, how) ==
  /\ proc[c] = "running"
  /\ proc' = [proc EXCEPT ![c] = "zombie"]
  /\ code' = [code EXCEPT ![c] = how]
  /\ UNCHANGED <<provider, printed, signals>>

\* It takes "exit" when it has answered; a crash or a kill gives another code.
Exits(c) == printed[c] = "whole" /\ Ends(c, "zero")

Dies(c) == Ends(c, "nonzero")

Sticks(c) ==
  /\ proc[c] = "running"
  /\ proc' = [proc EXCEPT ![c] = "stuck"]
  /\ UNCHANGED <<provider, printed, code, signals>>

GetsOut(c) ==
  /\ proc[c] = "stuck"
  /\ proc' = [proc EXCEPT ![c] = "running"]
  /\ UNCHANGED <<provider, printed, code, signals>>

-----------------------------------------------------------------------------
InferStep(c) ==
  \/ Spawn(c) \/ SpawnFails(c) \/ Finish(c) \/ Judge(c) \/ Misread(c)
  \/ Expire(c) \/ Collect(c) \/ GiveUp(c) \/ Break(c)

Process(c) == Prints(c) \/ Exits(c) \/ Dies(c) \/ Sticks(c) \/ GetsOut(c)

Next == \E c \in Calls : Unavailable(c) \/ Begin(c) \/ InferStep(c) \/ Process(c)

Spec == Init /\ [][Next]_vars

\* The thread runs and its deadlines pass; nothing is asked of the processes.
FairSpec == Spec /\ \A c \in Calls : WF_vars(InferStep(c))

-----------------------------------------------------------------------------
(* Properties                                                              *)

(***************************************************************************)
(* An answer without an error is all that the process had to say           *)
(* (rkllm_stateless.py:91), unless _clean took part of it for something    *)
(* else; a crash, a kill or a deadline in between always shows.            *)
(***************************************************************************)
CleanAnswerIsWhole ==
  \A c \in Calls \ Marked :
    reply[c] # None /\ reply[c].error = "none" => reply[c].text = "whole"

(***************************************************************************)
(* rkllm_stateless.py:5 "predictable cleanup": a call that ends without an *)
(* exception leaves no process behind, and one that ends with an exception *)
(* leaves none that was not killed: so no request meets a process that     *)
(* nobody told to end (:70-71, :94-95).                                    *)
(***************************************************************************)
LeavesNothingBehind ==
  \A c \in Calls : pc[c] = "done" =>
    /\ Alive(c) => signals[c] > 0
    /\ proc[c] \notin {"unborn", "reaped"} => reply[c].error = "exception"

(***************************************************************************)
(* Every call returns, also for a process that never ends and that no kill *)
(* reaches (:69-79): the second wait has a deadline too.                   *)
(***************************************************************************)
EveryCallReturns == \A c \in Calls : pc[c] # "start" ~> pc[c] = "done"
=============================================================================

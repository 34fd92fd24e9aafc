---------------------------- MODULE CapiProvider -----------------------------
(***************************************************************************)
(* RKLLMCAPIProvider (src/providers/rkllm_capi.py): librkllmrt.so called   *)
(* in-process, under a lock, with the answer arriving through a callback   *)
(* that takes no lock.                                                     *)
(*                                                                         *)
(* Every infer() or release() is a caller with a thread of its own.  The   *)
(* library is external: it runs the jobs it was given one after the other, *)
(* calls back for each token and once more at the end, and may hang.  An   *)
(* aborted job stops when the library gets to it, with or without a last   *)
(* callback.                                                               *)
(***************************************************************************)
EXTENDS Naturals, Sequences

CONSTANTS Calls,       \* infer() calls
          Releasers,   \* release() calls
          MaxTokens,   \* tokens of a whole answer
          Synchronous, \* does rkllm_run return only when its job is over
          None

ASSUME CallersAssumption ==
  /\ Calls \intersect Releasers = {}
  /\ None \notin Calls \union Releasers

ASSUME LibraryAssumption == MaxTokens \in Nat /\ Synchronous \in BOOLEAN

Callers == Calls \union Releasers

-----------------------------------------------------------------------------
VARIABLES
  pc,      \* control point of each caller
  lock,    \* holder of _lock
  loaded,  \* _loaded
  state,   \* _state, as the last callback left it
  chunks,  \* _chunks: for each piece of text, the call it was generated for
  reply,   \* the InferenceResult of each call
  handles, \* model instances the library has initialised and not destroyed
  queue,   \* the library's jobs, [of, made], the first one running
  aborted  \* history: the calls whose job was aborted

provider == <<pc, lock, loaded, reply>>
shared   == <<state, chunks>>
library  == <<handles, queue, aborted>>
vars     == <<provider, shared, library>>

States == {"none", "normal", "finish", "error"}
Over   == {"finish", "error"}

Points == {"start", "ensure", "loading", "prepare", "run", "running", "wait",
           "judge", "decide", "collect", "aborted", "destroy", "release", "done"}

Reply == [text : Seq(Calls),
          error : {"none", "unavailable", "ret", "rkllm_run_error", "rkllm_timeout", "exception"}]

TypeOK ==
  /\ pc \in [Callers -> Points]
  /\ lock \in Callers \union {None}
  /\ loaded \in BOOLEAN
  /\ state \in States
  /\ chunks \in Seq(Calls)
  /\ reply \in [Calls -> Reply \union {None}]
  /\ handles \in 0..1
  /\ queue \in Seq([of : Calls, made : 0..MaxTokens])
  /\ aborted \subseteq Calls

Init ==
  /\ pc = [c \in Callers |-> "start"]
  /\ lock = None
  /\ loaded = FALSE
  /\ state = "none" /\ chunks = <<>>
  /\ reply = [r \in Calls |-> None]
  /\ handles = 0 /\ queue = <<>> /\ aborted = {}

Goto(c, from, to) == pc[c] = from /\ pc' = [pc EXCEPT ![c] = to]

Settle(r, text, error) == reply' = [reply EXCEPT ![r] = [text |-> text, error |-> error]]

-----------------------------------------------------------------------------
(* The lock and the model                                                  *)

\* The library or the model file is missing: no lock is taken.
Unavailable(r) ==
  /\ Goto(r, "start", "done")
  /\ Settle(r, <<>>, "unavailable")
  /\ UNCHANGED <<lock, loaded, shared, library>>

LockIsFree_Ignored == TRUE   \* mutant: no lock

LockIsFree == lock = None

Acquire(c) ==
  /\ Goto(c, "start", IF c \in Calls THEN "ensure" ELSE "destroy")
  /\ LockIsFree
  /\ lock' = c
  /\ UNCHANGED <<loaded, reply, shared, library>>

Release(c) ==
  /\ Goto(c, "release", "done")
  /\ lock' = None
  /\ UNCHANGED <<loaded, reply, shared, library>>

EnsureLoaded(r) ==
  /\ Goto(r, "ensure", IF loaded THEN "prepare" ELSE "loading")
  /\ UNCHANGED <<lock, loaded, reply, shared, library>>

LoadOk(r) ==
  /\ Goto(r, "loading", "prepare")
  /\ handles' = handles + 1
  /\ loaded' = TRUE
  /\ UNCHANGED <<lock, reply, shared, queue, aborted>>

\* The library cannot be opened, or rkllm_init returns an error.
LoadFails(r) ==
  /\ Goto(r, "loading", "release")
  /\ Settle(r, <<>>, "exception")
  /\ UNCHANGED <<lock, loaded, shared, library>>

ForgetHandle_Not == UNCHANGED loaded   \* mutant

ForgetHandle == loaded' = FALSE

\* release(): destroying the instance ends whatever it was still running.
Destroy(c) ==
  /\ Goto(c, "destroy", "release")
  /\ loaded
  /\ ForgetHandle
  /\ handles' = handles - 1
  /\ queue' = <<>>
  /\ UNCHANGED <<lock, reply, shared, aborted>>

NothingToDestroy(c) ==
  /\ Goto(c, "destroy", "release")
  /\ ~loaded
  /\ UNCHANGED <<lock, loaded, reply, shared, library>>

-----------------------------------------------------------------------------
(* One prompt                                                              *)

ClearChunks_Not == UNCHANGED chunks   \* mutant

ClearChunks == chunks' = <<>>

ResetState == state' = "none"

Prepare(r) ==
  /\ Goto(r, "prepare", "run")
  /\ ClearChunks
  /\ ResetState
  /\ UNCHANGED <<lock, loaded, reply, library>>

Run(r) ==
  /\ Goto(r, "run", "running")
  /\ queue' = Append(queue, [of |-> r, made |-> 0])
  /\ UNCHANGED <<lock, loaded, reply, shared, handles, aborted>>

\* The prompt cannot be encoded, or rkllm_run returns an error at once.
RunRefused(r) ==
  /\ Goto(r, "run", "release")
  /\ \E error \in {"exception", "ret"} : Settle(r, <<>>, error)
  /\ UNCHANGED <<lock, loaded, shared, library>>

JobOf(r) == \E i \in 1..Len(queue) : queue[i].of = r

RunReturns(r) ==
  /\ Goto(r, "running", "wait")
  /\ Synchronous => ~JobOf(r)
  /\ UNCHANGED <<lock, loaded, reply, shared, library>>

SeesEnd_AnyCallback == state # "none"   \* mutant: the first token is enough

SeesEnd == state \in Over

LeaveLoop(r) ==
  /\ Goto(r, "wait", "judge")
  /\ SeesEnd
  /\ UNCHANGED <<lock, loaded, reply, shared, library>>

\* timeout_sec after rkllm_run returned.
Deadline(r) ==
  /\ Goto(r, "wait", "judge")
  /\ ~SeesEnd
  /\ UNCHANGED <<lock, loaded, reply, shared, library>>

\* _state is read again for each question.
RunError(r) ==
  /\ Goto(r, "judge", "release")
  /\ state = "error"
  /\ Settle(r, chunks, "rkllm_run_error")
  /\ UNCHANGED <<lock, loaded, shared, library>>

NoRunError(r) ==
  /\ Goto(r, "judge", "decide")
  /\ state # "error"
  /\ UNCHANGED <<lock, loaded, reply, shared, library>>

Finished(r) ==
  /\ Goto(r, "decide", "collect")
  /\ state = "finish"
  /\ UNCHANGED <<lock, loaded, reply, shared, library>>

Jobs == {queue[i].of : i \in 1..Len(queue)}

Abort(r) ==
  /\ Goto(r, "decide", "aborted")
  /\ state # "finish"
  /\ aborted' = aborted \union Jobs
  /\ UNCHANGED <<lock, loaded, reply, shared, handles, queue>>

Collect(r) ==
  /\ Goto(r, "collect", "release")
  /\ Settle(r, chunks, "none")
  /\ UNCHANGED <<lock, loaded, shared, library>>

AnswerTimeout(r) ==
  /\ Goto(r, "aborted", "release")
  /\ Settle(r, chunks, "rkllm_timeout")
  /\ UNCHANGED <<lock, loaded, shared, library>>

-----------------------------------------------------------------------------
(* The library (external) and _callback_impl, which it calls from a thread *)
(* of its own.                                                             *)

Job == Head(queue)

Callback(s) == state' = s

Token ==
  /\ queue # <<>> /\ Job.made < MaxTokens
  /\ queue' = <<[Job EXCEPT !.made = @ + 1]>> \o Tail(queue)
  /\ Callback("normal")
  /\ chunks' = Append(chunks, Job.of)
  /\ UNCHANGED <<provider, handles, aborted>>

EndJob(s) ==
  /\ queue' = Tail(queue)
  /\ Callback(s)
  /\ UNCHANGED <<provider, chunks, handles, aborted>>

JobFinishes ==
  /\ queue # <<>> /\ (Job.made = MaxTokens \/ Job.of \in aborted)
  /\ EndJob("finish")

JobFails == queue # <<>> /\ EndJob("error")

JobStopsSilently == queue # <<>> /\ Job.of \in aborted /\ EndJob(state)

Library == Token \/ JobFinishes \/ JobFails \/ JobStopsSilently

-----------------------------------------------------------------------------
InferStep(r) ==
  \/ EnsureLoaded(r) \/ LoadOk(r) \/ LoadFails(r) \/ Prepare(r)
  \/ Run(r) \/ RunRefused(r) \/ RunReturns(r)
  \/ LeaveLoop(r) \/ Deadline(r) \/ RunError(r) \/ NoRunError(r)
  \/ Finished(r) \/ Abort(r) \/ Collect(r) \/ AnswerTimeout(r)

DestroyStep(c) == Destroy(c) \/ NothingToDestroy(c)

Next ==
  \/ \E c \in Callers : Acquire(c) \/ Release(c)
  \/ \E r \in Calls : Unavailable(r) \/ InferStep(r)
  \/ \E c \in Releasers : DestroyStep(c)
  \/ Library

Spec == Init /\ [][Next]_vars

\* The thread that holds the lock is scheduled and its deadline passes in the
\* end; nothing is asked of the library beyond returning from rkllm_init, and
\* from rkllm_run once it can.
FairSpec ==
  /\ Spec
  /\ \A c \in Callers : WF_vars(Release(c))
  /\ \A r \in Calls : WF_vars(InferStep(r))
  /\ \A c \in Releasers : WF_vars(DestroyStep(c))

-----------------------------------------------------------------------------
(* Properties                                                              *)

Using == {"prepare", "run", "running", "wait", "judge", "decide", "collect", "aborted"}

\* No request works on a destroyed or missing model, no model is initialised
\* twice, and none is forgotten: release() and a failed load included
\* (:217-235, :273-276).
OneLiveModel ==
  /\ handles = (IF loaded THEN 1 ELSE 0)
  /\ \A r \in Calls : pc[r] \in Using => loaded

\* As long as no request timed out, nothing of another request is left in an
\* answer, failed ones included, and an error-free answer is complete: the
\* callback's late tokens are waited for (:176-213).  After a timeout nobody
\* waits for the aborted job's callbacks, and this is lost.
AnswerIsOwnUntilTimeout ==
  aborted = {} => \A r \in Calls : reply[r] # None =>
    /\ \A i \in 1..Len(reply[r].text) : reply[r].text[i] = r
    /\ reply[r].error = "none" => Len(reply[r].text) = MaxTokens

\* With rkllm_run synchronous, as is_async = False asks (:262), an error-free
\* answer is always the whole answer to its own prompt: no timeout, and no
\* release() from another thread, can mix or cut it.
AnswerIsOwn ==
  \A r \in Calls : reply[r] # None /\ reply[r].error = "none" =>
    reply[r].text = [i \in 1..MaxTokens |-> r]

\* server.py:10 documents a timeout in seconds per request: though the library
\* never calls back again, a request ends and gives its lock back (:193-206).
LockIsReleased == \A c \in Callers : lock = c ~> lock # c
=============================================================================

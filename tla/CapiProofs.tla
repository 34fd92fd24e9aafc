----------------------------- MODULE CapiProofs ------------------------------
(***************************************************************************)
(* Proofs about CapiProvider for every set of callers and every length of  *)
(* an answer.                                                              *)
(*                                                                         *)
(* OneLiveModel needs the lock (Mutex) and that the model is still missing *)
(* when rkllm_init runs.  What an answer holds follows from what is true   *)
(* of the library while nothing was aborted (Undisturbed): it has at most  *)
(* the job of the call that holds the lock, chunks has what that job made, *)
(* and the last callback has come exactly when the job is gone.  A         *)
(* synchronous rkllm_run never reaches the abort (InStep).                 *)
(***************************************************************************)
EXTENDS CapiProvider, TLAPS

\* Control follows the lock.
Mutex ==
  \A c \in Callers :
    /\ lock = c <=> pc[c] \notin {"start", "done"}
    /\ c \in Releasers => pc[c] \in {"start", "destroy", "release", "done"}

Model ==
  /\ OneLiveModel
  /\ \A r \in Calls : pc[r] = "loading" => ~loaded

Active == {"running", "wait", "judge", "decide", "collect"}

OwnChunks(r) == \A i \in 1..Len(chunks) : chunks[i] = r

\* The job of r is running, failed or made the whole answer.
Progress(r) ==
  \/ queue = <<[of |-> r, made |-> Len(chunks)]>> /\ state \in {"none", "normal"}
  \/ queue = <<>> /\ state = "error"
  \/ queue = <<>> /\ state = "finish" /\ Len(chunks) = MaxTokens

Undisturbed ==
  /\ (\A r \in Calls : pc[r] \notin Active) => queue = <<>>
  /\ \A r \in Calls :
       /\ pc[r] = "run" => chunks = <<>> /\ state = "none"
       /\ pc[r] \in Active => OwnChunks(r) /\ Progress(r)
       /\ pc[r] = "collect" => queue = <<>> /\ state = "finish"
       /\ pc[r] = "aborted" => OwnChunks(r)

InStep ==
  /\ aborted = {}
  /\ \A r \in Calls :
       /\ pc[r] \in {"wait", "judge", "decide"} => queue = <<>>
       /\ pc[r] = "decide" => state = "finish"

IInv ==
  /\ TypeOK
  /\ Mutex
  /\ Model
  /\ aborted = {} => Undisturbed
  /\ AnswerIsOwnUntilTimeout
  /\ Synchronous => InStep

-----------------------------------------------------------------------------
(* Lemmas                                                                  *)

LEMMA Parts ==
  ASSUME NEW S, NEW s \in Seq(S), s # <<>>
  PROVE  Head(s) \in S /\ Tail(s) \in Seq(S)
OBVIOUS

LEMMA Elements ==
  ASSUME NEW S, NEW s \in Seq(S)
  PROVE  \A i \in 1..Len(s) : s[i] \in S
OBVIOUS

LEMMA Empty ==
  ASSUME NEW S
  PROVE  <<>> \in Seq(S)
OBVIOUS

LEMMA Longer ==
  ASSUME NEW S, NEW s \in Seq(S), NEW e \in S
  PROVE  Append(s, e) \in Seq(S)
OBVIOUS

LEMMA OneElement ==
  ASSUME NEW e
  PROVE  <<e>> \o <<>> = <<e>>
OBVIOUS

LEMMA InitInvariant == Init => IInv
<1> SUFFICES ASSUME Init PROVE IInv
  OBVIOUS
<1>1. TypeOK
  <2>1. reply \in [Calls -> Reply \union {None}]
    BY DEF Init
  <2>2. handles \in 0..1 /\ aborted \subseteq Calls /\ lock \in Callers \union {None}
    BY DEF Init
  <2>3. queue \in Seq([of : Calls, made : 0..MaxTokens]) /\ chunks \in Seq(Calls)
    BY DEF Init
  <2>4. pc \in [Callers -> Points] /\ state \in States /\ loaded \in BOOLEAN
    BY DEF Init, Points, States
  <2> QED
    BY <2>1, <2>2, <2>3, <2>4 DEF TypeOK
<1>2. Mutex /\ Model
  BY CallersAssumption DEF Init, Mutex, Model, OneLiveModel, Callers, Using
<1> QED
  BY <1>1, <1>2 DEF Init, IInv, Callers, Undisturbed, Active, AnswerIsOwnUntilTimeout, InStep

\* At most one caller is past the lock.
LEMMA OneHolder ==
  ASSUME Mutex, NEW c \in Callers, NEW d \in Callers,
         pc[c] \notin {"start", "done"}, pc[d] \notin {"start", "done"}
  PROVE  c = d
BY DEF Mutex

LEMMA UnavailableStep ==
  ASSUME IInv, NEW r \in Calls, Unavailable(r)
  PROVE  IInv'
<1> USE DEF Unavailable, Goto, Settle, shared, library
<1>1. TypeOK'
  BY DEF IInv, TypeOK, Points, Reply, Callers
<1>2. Mutex' /\ Model'
  BY DEF IInv, TypeOK, Mutex, Model, OneLiveModel, Using, Callers
<1>3. Undisturbed => Undisturbed'
  BY DEF IInv, TypeOK, Undisturbed, Active, OwnChunks, Progress, Callers
<1>4. AnswerIsOwnUntilTimeout'
  BY DEF IInv, TypeOK, AnswerIsOwnUntilTimeout
<1>5. InStep => InStep'
  BY DEF IInv, TypeOK, InStep, Callers
<1> QED
  BY <1>1, <1>2, <1>3, <1>4, <1>5 DEF IInv

LEMMA LockStep ==
  ASSUME IInv, NEW c \in Callers, Acquire(c) \/ Release(c)
  PROVE  IInv'
<1> USE DEF Acquire, Release, LockIsFree, Goto, shared, library
<1>1. TypeOK'
  BY DEF IInv, TypeOK, Points
<1>2. Mutex'
  BY CallersAssumption DEF IInv, TypeOK, Mutex, Callers
<1>3. Model'
  BY DEF IInv, TypeOK, Model, OneLiveModel, Using, Callers
<1>4. Undisturbed => Undisturbed'
  BY DEF IInv, TypeOK, Undisturbed, Active, OwnChunks, Progress, Callers
<1>5. AnswerIsOwnUntilTimeout'
  BY DEF IInv, AnswerIsOwnUntilTimeout
<1>6. InStep => InStep'
  BY DEF IInv, TypeOK, InStep, Callers
<1> QED
  BY <1>1, <1>2, <1>3, <1>4, <1>5, <1>6 DEF IInv

LEMMA LoadStep ==
  ASSUME IInv, NEW r \in Calls, EnsureLoaded(r) \/ LoadOk(r) \/ LoadFails(r)
  PROVE  IInv'
<1> USE DEF EnsureLoaded, LoadOk, LoadFails, Goto, Settle, shared, library
<1>1. handles' \in 0..1
  BY DEF IInv, TypeOK, Model, OneLiveModel
<1>2. TypeOK'
  <2>1. pc' \in [Callers -> Points] /\ loaded' \in BOOLEAN
    BY DEF IInv, TypeOK, Points, Callers
  <2>2. reply' \in [Calls -> Reply \union {None}]
    <3>1. [text |-> <<>>, error |-> "exception"] \in Reply
      BY DEF Reply
    <3>2. reply \in [Calls -> Reply \union {None}]
      BY DEF IInv, TypeOK
    <3>3. reply' \in {reply, [reply EXCEPT ![r] = [text |-> <<>>, error |-> "exception"]]}
      OBVIOUS
    <3> QED
      BY <3>1, <3>2, <3>3
  <2>3. UNCHANGED <<lock, state, chunks, queue, aborted>>
    OBVIOUS
  <2> QED
    BY <1>1, <2>1, <2>2, <2>3 DEF IInv, TypeOK
<1>3. Mutex'
  BY DEF IInv, TypeOK, Mutex, Callers
<1>4. Model'
  BY OneHolder DEF IInv, TypeOK, Model, OneLiveModel, Using, Callers
<1>5. Undisturbed => Undisturbed'
  BY DEF IInv, TypeOK, Undisturbed, Active, OwnChunks, Progress, Callers
<1>6. AnswerIsOwnUntilTimeout'
  BY DEF IInv, TypeOK, AnswerIsOwnUntilTimeout
<1>7. InStep => InStep'
  BY DEF IInv, TypeOK, InStep, Callers
<1> QED
  BY <1>2, <1>3, <1>4, <1>5, <1>6, <1>7 DEF IInv

LEMMA DestroyStepInv ==
  ASSUME IInv, NEW c \in Releasers, DestroyStep(c)
  PROVE  IInv'
<1> USE DEF DestroyStep, Destroy, NothingToDestroy, ForgetHandle, Goto, shared, library
<1>1. c \in Callers /\ \A r \in Calls : pc[r] \in {"start", "done"} /\ pc'[r] = pc[r]
  BY CallersAssumption, OneHolder DEF IInv, TypeOK, Callers
<1>2. TypeOK'
  <2>1. pc' \in [Callers -> Points] /\ loaded' \in BOOLEAN
    BY DEF IInv, TypeOK, Points, Callers
  <2>2. handles' \in 0..1
    BY DEF IInv, TypeOK, Model, OneLiveModel
  <2>3. queue' \in Seq([of : Calls, made : 0..MaxTokens])
    <3>1. queue' = queue \/ queue' = <<>>
      OBVIOUS
    <3>2. queue \in Seq([of : Calls, made : 0..MaxTokens])
      BY DEF IInv, TypeOK
    <3> QED
      BY <3>1, <3>2, Empty
  <2>4. UNCHANGED <<lock, state, chunks, reply, aborted>>
    OBVIOUS
  <2> QED
    BY <2>1, <2>2, <2>3, <2>4 DEF IInv, TypeOK
<1>3. Mutex'
  BY <1>1 DEF IInv, TypeOK, Mutex
<1>4. Model'
  BY <1>1 DEF IInv, TypeOK, Model, OneLiveModel, Using
<1>5. Undisturbed => Undisturbed'
  BY <1>1 DEF IInv, TypeOK, Undisturbed, Active
<1>6. AnswerIsOwnUntilTimeout'
  BY DEF IInv, AnswerIsOwnUntilTimeout
<1>7. InStep => InStep'
  BY <1>1 DEF InStep
<1> QED
  BY <1>2, <1>3, <1>4, <1>5, <1>6, <1>7 DEF IInv

LEMMA RunStep ==
  ASSUME IInv, NEW r \in Calls,
         Prepare(r) \/ Run(r) \/ RunRefused(r) \/ RunReturns(r)
  PROVE  IInv'
<1> USE DEF Prepare, Run, RunRefused, RunReturns, ClearChunks, ResetState, Goto,
            Settle, shared, library
<1>1. /\ \A q \in Calls \ {r} : pc[q] \in {"start", "done"} /\ pc'[q] = pc[q]
      /\ pc[r] \in {"prepare", "run", "running"}
  BY OneHolder DEF IInv, TypeOK, Callers
<1>2. TypeOK'
  <2>1. pc' \in [Callers -> Points]
    BY DEF IInv, TypeOK, Points, Callers
  <2>2. reply' \in [Calls -> Reply \union {None}]
    <3>1. \A error \in {"exception", "ret"} : [text |-> <<>>, error |-> error] \in Reply
      BY DEF Reply
    <3>2. reply \in [Calls -> Reply \union {None}]
      BY DEF IInv, TypeOK
    <3>3. \/ reply' = reply
          \/ \E error \in {"exception", "ret"} :
               reply' = [reply EXCEPT ![r] = [text |-> <<>>, error |-> error]]
      OBVIOUS
    <3> QED
      BY <3>1, <3>2, <3>3
  <2>3. queue' \in Seq([of : Calls, made : 0..MaxTokens])
    <3>1. [of |-> r, made |-> 0] \in [of : Calls, made : 0..MaxTokens]
      BY LibraryAssumption
    <3>2. queue' = queue \/ queue' = Append(queue, [of |-> r, made |-> 0])
      OBVIOUS
    <3>3. queue \in Seq([of : Calls, made : 0..MaxTokens])
      BY DEF IInv, TypeOK
    <3>4. Append(queue, [of |-> r, made |-> 0]) \in Seq([of : Calls, made : 0..MaxTokens])
      BY <3>1, <3>3, Longer
    <3> QED
      BY <3>2, <3>3, <3>4
  <2>4. chunks' \in Seq(Calls) /\ state' \in States
    <3>1. chunks' \in {chunks, <<>>} /\ state' \in {state, "none"}
      OBVIOUS
    <3>2. chunks \in Seq(Calls) /\ state \in States
      BY DEF IInv, TypeOK
    <3>3. chunks' \in Seq(Calls)
      BY <3>1, <3>2, Empty
    <3> QED
      BY <3>1, <3>2, <3>3 DEF States
  <2>5. UNCHANGED <<lock, loaded, handles, aborted>>
    OBVIOUS
  <2> QED
    BY <2>1, <2>2, <2>3, <2>4, <2>5 DEF IInv, TypeOK
<1>3. Mutex'
  BY CallersAssumption DEF IInv, TypeOK, Mutex, Callers
<1>4. Model'
  BY <1>1 DEF IInv, TypeOK, Model, OneLiveModel, Using, Callers
<1>5. ASSUME aborted = {} PROVE Undisturbed'
  <2>1. Undisturbed
    BY <1>5 DEF IInv
  <2>2. CASE Prepare(r)
    BY <1>1, <2>1, <2>2 DEF IInv, TypeOK, Callers, Undisturbed, Active, OwnChunks, Progress
  <2>3. CASE Run(r)
    <3>1. queue = <<>> /\ chunks = <<>> /\ state = "none"
      BY <1>1, <2>1, <2>3 DEF Undisturbed, Active
    <3>2. queue' = <<[of |-> r, made |-> Len(chunks)]>> /\ UNCHANGED <<chunks, state>>
      BY <2>3, <3>1
    <3>3. pc'[r] = "running"
      BY <2>3 DEF IInv, TypeOK, Callers
    <3> QED
      BY <1>1, <3>1, <3>2, <3>3 DEF Undisturbed, Active, OwnChunks, Progress
  <2>4. CASE RunRefused(r)
    BY <1>1, <2>1, <2>4 DEF IInv, TypeOK, Callers, Undisturbed, Active
  <2>5. CASE RunReturns(r)
    BY <1>1, <2>1, <2>5 DEF IInv, TypeOK, Callers, Undisturbed, Active, OwnChunks, Progress
  <2> QED
    BY <2>2, <2>3, <2>4, <2>5
<1>6. AnswerIsOwnUntilTimeout'
  <2>1. reply \in [Calls -> Reply \union {None}] /\ aborted' = aborted
    BY DEF IInv, TypeOK
  <2>2. CASE RunRefused(r)
    <3>1. PICK error \in {"exception", "ret"} :
            reply' = [reply EXCEPT ![r] = [text |-> <<>>, error |-> error]]
      BY <2>2
    <3>2. Len(<<>>) = 0
      OBVIOUS
    <3> QED
      BY <2>1, <3>1, <3>2 DEF IInv, AnswerIsOwnUntilTimeout
  <2>3. CASE ~RunRefused(r)
    <3>1. reply' = reply
      BY <2>3
    <3> QED
      BY <2>1, <3>1 DEF IInv, AnswerIsOwnUntilTimeout
  <2> QED
    BY <2>2, <2>3
<1>7. ASSUME Synchronous PROVE InStep'
  <2>1. aborted = {} /\ InStep /\ Undisturbed
    BY <1>7 DEF IInv, InStep
  <2>2. CASE RunReturns(r)
    <3>1. ~JobOf(r)
      BY <1>7, <2>2
    <3>2. Progress(r)
      BY <2>1, <2>2 DEF Undisturbed, Active
    <3>3. queue = <<>>
      BY <3>1, <3>2 DEF Progress, JobOf
    <3> QED
      BY <1>1, <2>1, <2>2, <3>3 DEF InStep, IInv, TypeOK, Callers
  <2>3. CASE ~RunReturns(r)
    BY <1>1, <2>1, <2>3 DEF InStep, IInv, TypeOK, Callers
  <2> QED
    BY <2>2, <2>3
<1> QED
  BY <1>2, <1>3, <1>4, <1>5, <1>6, <1>7 DEF IInv, Run, Prepare, RunRefused, RunReturns

LEMMA JudgeStep ==
  ASSUME IInv, NEW r \in Calls,
         LeaveLoop(r) \/ Deadline(r) \/ NoRunError(r) \/ Finished(r)
  PROVE  IInv'
<1> USE DEF LeaveLoop, Deadline, NoRunError, Finished, SeesEnd, Over, Goto, shared, library
<1>1. /\ \A q \in Calls \ {r} : pc[q] \in {"start", "done"} /\ pc'[q] = pc[q]
      /\ pc[r] \in {"wait", "judge", "decide"} /\ pc'[r] \in {"judge", "decide", "collect"}
      /\ UNCHANGED <<lock, loaded, reply, state, chunks, handles, queue, aborted>>
  BY OneHolder DEF IInv, TypeOK, Callers
<1>2. TypeOK'
  BY <1>1 DEF IInv, TypeOK, Points, Callers
<1>3. Mutex'
  BY CallersAssumption DEF IInv, TypeOK, Mutex, Callers
<1>4. Model'
  BY <1>1 DEF IInv, Model, OneLiveModel, Using
<1>5. ASSUME aborted = {} PROVE Undisturbed'
  <2>1. Undisturbed
    BY <1>5 DEF IInv
  <2>2. OwnChunks(r) /\ Progress(r)
    BY <1>1, <2>1 DEF Undisturbed, Active
  <2>3. pc'[r] = "collect" => state = "finish" /\ queue = <<>>
    BY <2>2 DEF IInv, TypeOK, Callers, Progress
  <2> QED
    BY <1>1, <2>2, <2>3 DEF Undisturbed, Active, OwnChunks, Progress
<1>6. AnswerIsOwnUntilTimeout'
  BY <1>1 DEF IInv, AnswerIsOwnUntilTimeout
<1>7. ASSUME Synchronous PROVE InStep'
  <2>1. aborted = {} /\ InStep /\ Undisturbed
    BY <1>7 DEF IInv, InStep
  <2>2. Progress(r)
    BY <1>1, <2>1 DEF Undisturbed, Active
  <2>3. queue = <<>>
    BY <1>1, <2>1 DEF InStep
  <2>4. pc'[r] = "decide" => state = "finish"
    BY <2>2, <2>3 DEF IInv, TypeOK, Callers, Progress
  <2> QED
    BY <1>1, <2>1, <2>3, <2>4 DEF InStep
<1> QED
  BY <1>1, <1>2, <1>3, <1>4, <1>5, <1>6, <1>7 DEF IInv

LEMMA AnswerStep ==
  ASSUME IInv, NEW r \in Calls,
         RunError(r) \/ Collect(r) \/ Abort(r) \/ AnswerTimeout(r)
  PROVE  IInv'
<1> USE DEF RunError, Collect, Abort, AnswerTimeout, Goto, Settle, shared, library
<1>1. /\ \A q \in Calls \ {r} : pc[q] \in {"start", "done"} /\ pc'[q] = pc[q]
      /\ pc[r] \in {"judge", "decide", "collect", "aborted"}
      /\ pc'[r] \in {"aborted", "release"}
      /\ UNCHANGED <<lock, loaded, state, chunks, handles, queue>>
  BY OneHolder DEF IInv, TypeOK, Callers
<1>2. aborted \subseteq aborted' /\ aborted' \subseteq Calls
  <2>1. \A i \in 1..Len(queue) : queue[i] \in [of : Calls, made : 0..MaxTokens]
    BY Elements DEF IInv, TypeOK
  <2>2. Jobs \subseteq Calls
    BY <2>1 DEF Jobs
  <2> QED
    BY <2>2 DEF IInv, TypeOK
<1>3. TypeOK'
  BY <1>1, <1>2 DEF IInv, TypeOK, Points, Reply, Callers
<1>4. Mutex'
  BY CallersAssumption DEF IInv, TypeOK, Mutex, Callers
<1>5. Model'
  BY <1>1 DEF IInv, Model, OneLiveModel, Using
<1>6. ASSUME aborted' = {} PROVE Undisturbed' /\ OwnChunks(r)
  <2>1. Undisturbed
    BY <1>2, <1>6 DEF IInv
  <2>2. OwnChunks(r) /\ (pc[r] # "aborted" => Progress(r))
    BY <1>1, <2>1 DEF Undisturbed, Active
  <2>3. queue = <<>>
    <3>1. CASE Abort(r)
      <4>1. Jobs = {}
        BY <1>6, <3>1
      <4>2. queue # <<[of |-> r, made |-> Len(chunks)]>>
        <5> SUFFICES ASSUME queue = <<[of |-> r, made |-> Len(chunks)]>> PROVE FALSE
          OBVIOUS
        <5>1. 1 \in 1..Len(queue) /\ queue[1].of = r
          OBVIOUS
        <5> QED
          BY <4>1, <5>1 DEF Jobs
      <4> QED
        BY <2>2, <3>1, <4>2 DEF Progress
    <3>2. CASE RunError(r)
      BY <2>2, <3>2 DEF Progress
    <3>3. CASE Collect(r)
      BY <2>1, <3>3 DEF Undisturbed
    <3>4. CASE AnswerTimeout(r)
      BY <1>1, <2>1, <3>4 DEF Undisturbed, Active
    <3> QED
      BY <3>1, <3>2, <3>3, <3>4
  <2> QED
    BY <1>1, <2>2, <2>3 DEF Undisturbed, Active, OwnChunks
<1>7. AnswerIsOwnUntilTimeout'
  <2> SUFFICES ASSUME aborted' = {}, NEW q \in Calls, reply'[q] # None
               PROVE  /\ \A i \in 1..Len(reply'[q].text) : reply'[q].text[i] = q
                      /\ reply'[q].error = "none" => Len(reply'[q].text) = MaxTokens
    BY DEF AnswerIsOwnUntilTimeout
  <2>1. aborted = {} /\ AnswerIsOwnUntilTimeout /\ Undisturbed /\ OwnChunks(r)
    BY <1>2, <1>6 DEF IInv
  <2>2. CASE q # r \/ Abort(r)
    BY <2>1, <2>2 DEF IInv, TypeOK, AnswerIsOwnUntilTimeout
  <2>3. CASE q = r /\ ~Abort(r)
    <3>1. reply'[r].text = chunks /\ (reply'[r].error = "none" => Collect(r))
      BY <2>3 DEF IInv, TypeOK
    <3>2. Collect(r) => Len(chunks) = MaxTokens
      BY <2>1 DEF Undisturbed, Active, Progress
    <3> QED
      BY <2>1, <2>3, <3>1, <3>2 DEF OwnChunks
  <2> QED
    BY <2>2, <2>3
<1>8. ASSUME Synchronous PROVE InStep'
  <2>1. InStep
    BY <1>8 DEF IInv
  <2>2. ~Abort(r)
    BY <2>1 DEF InStep
  <2> QED
    BY <1>1, <2>1, <2>2 DEF InStep
<1> QED
  BY <1>3, <1>4, <1>5, <1>6, <1>7, <1>8 DEF IInv

LEMMA LibraryStep ==
  ASSUME IInv, Library
  PROVE  IInv'
<1> USE DEF Library, Token, EndJob, JobFinishes, JobFails, JobStopsSilently, Callback,
            Job, provider
<1>1. /\ queue # <<>> /\ queue \in Seq([of : Calls, made : 0..MaxTokens])
      /\ UNCHANGED <<pc, lock, loaded, reply, handles, aborted>>
  BY DEF IInv, TypeOK
<1>2. TypeOK'
  <2>1. Head(queue) \in [of : Calls, made : 0..MaxTokens]
        /\ Tail(queue) \in Seq([of : Calls, made : 0..MaxTokens])
    BY <1>1, Parts
  <2>2. CASE Token
    <3>1. [Head(queue) EXCEPT !.made = @ + 1] \in [of : Calls, made : 0..MaxTokens]
      BY <2>1, <2>2, LibraryAssumption
    <3>2. queue' \in Seq([of : Calls, made : 0..MaxTokens])
      BY <2>1, <2>2, <3>1
    <3>3. chunks' \in Seq(Calls) /\ state' \in States
      BY <2>1, <2>2 DEF IInv, TypeOK, States
    <3> QED
      BY <1>1, <3>2, <3>3 DEF IInv, TypeOK
  <2>3. CASE ~Token
    BY <1>1, <2>1, <2>3 DEF IInv, TypeOK, States
  <2> QED
    BY <2>2, <2>3
<1>3. Mutex' /\ Model'
  BY <1>1 DEF IInv, Mutex, Model, OneLiveModel
<1>4. ASSUME aborted = {} PROVE Undisturbed'
  <2>1. Undisturbed
    BY <1>4 DEF IInv
  <2>2. PICK r \in Calls : pc[r] \in Active
    BY <1>1, <2>1 DEF Undisturbed
  <2>3. \A q \in Calls \ {r} : pc[q] \in {"start", "done"}
    BY <2>2, OneHolder DEF IInv, Callers, Active
  <2>4. /\ OwnChunks(r) /\ pc[r] # "collect"
        /\ queue = <<[of |-> r, made |-> Len(chunks)]>>
    BY <1>1, <2>1, <2>2 DEF Undisturbed, Progress
  <2>5. Head(queue) = [of |-> r, made |-> Len(chunks)] /\ Tail(queue) = <<>>
    BY <2>4
  <2>6. chunks \in Seq(Calls)
    BY DEF IInv, TypeOK
  <2>7. OwnChunks(r)' /\ Progress(r)'
    <3>1. CASE Token
      <4>1. chunks' = Append(chunks, r)
        BY <2>5, <3>1
      <4>2. Len(chunks') = Len(chunks) + 1 /\ OwnChunks(r)'
        BY <2>4, <2>6, <4>1 DEF OwnChunks
      <4>3. queue' = <<[of |-> r, made |-> Len(chunks)']>>
        <5>1. [Head(queue) EXCEPT !.made = @ + 1] = [of |-> r, made |-> Len(chunks) + 1]
          BY <2>5
        <5> QED
          BY <2>5, <3>1, <4>2, <5>1, OneElement
      <4> QED
        BY <3>1, <4>2, <4>3 DEF Progress
    <3>2. CASE JobFinishes
      BY <1>4, <2>4, <2>5, <3>2 DEF Progress, OwnChunks
    <3>3. CASE JobFails
      BY <2>4, <2>5, <3>3 DEF Progress, OwnChunks
    <3>4. CASE JobStopsSilently
      BY <1>4, <3>4
    <3> QED
      BY <3>1, <3>2, <3>3, <3>4
  <2> QED
    BY <1>1, <2>2, <2>3, <2>4, <2>7 DEF Undisturbed, Active
<1>5. AnswerIsOwnUntilTimeout'
  BY <1>1 DEF IInv, AnswerIsOwnUntilTimeout
<1>6. ASSUME Synchronous PROVE InStep'
  BY <1>1, <1>6 DEF IInv, InStep
<1> QED
  BY <1>1, <1>2, <1>3, <1>4, <1>5, <1>6 DEF IInv

-----------------------------------------------------------------------------
(* Theorems                                                                *)

\* IInv is an invariant of every behaviour of the provider.
THEOREM Invariance == Spec => []IInv
<1>1. IInv /\ [Next]_vars => IInv'
  <2> SUFFICES ASSUME IInv, [Next]_vars PROVE IInv'
    OBVIOUS
  <2>1. CASE UNCHANGED vars
    BY <2>1 DEF vars, provider, shared, library, IInv, TypeOK, Mutex, Model, OneLiveModel,
                Undisturbed, OwnChunks, Progress, AnswerIsOwnUntilTimeout, InStep
  <2>2. ASSUME NEW c \in Callers, Acquire(c) \/ Release(c) PROVE IInv'
    BY <2>2, LockStep
  <2>3. ASSUME NEW r \in Calls, Unavailable(r) \/ InferStep(r) PROVE IInv'
    BY <2>3, UnavailableStep, LoadStep, RunStep, JudgeStep, AnswerStep DEF InferStep
  <2>4. ASSUME NEW c \in Releasers, DestroyStep(c) PROVE IInv'
    BY <2>4, DestroyStepInv
  <2>5. CASE Library
    BY <2>5, LibraryStep
  <2> QED
    BY <2>1, <2>2, <2>3, <2>4, <2>5 DEF Next
<1> QED
  BY <1>1, InitInvariant, PTL DEF Spec

\* The types of the provider's state: one model instance at most.
THEOREM TypeCorrect == Spec => []TypeOK
<1>1. IInv => TypeOK
  BY DEF IInv
<1> QED
  BY <1>1, Invariance, PTL

\* Whoever uses the model finds it there, and it is never loaded twice.
THEOREM OneLiveModelCorrect == Spec => []OneLiveModel
<1>1. IInv => OneLiveModel
  BY DEF IInv, Model
<1> QED
  BY <1>1, Invariance, PTL

\* Until a request times out, answers are whole and their own.
THEOREM AnswersCorrect == Spec => []AnswerIsOwnUntilTimeout
<1>1. IInv => AnswerIsOwnUntilTimeout
  BY DEF IInv
<1> QED
  BY <1>1, Invariance, PTL

\* With a synchronous rkllm_run they always are.
THEOREM SynchronousAnswersCorrect == Spec => [](Synchronous => AnswerIsOwn)
<1>1. IInv => (Synchronous => AnswerIsOwn)
  <2> SUFFICES ASSUME IInv, Synchronous, NEW r \in Calls,
                      reply[r] # None, reply[r].error = "none"
               PROVE  reply[r].text = [i \in 1..MaxTokens |-> r]
    BY DEF AnswerIsOwn
  <2>1. aborted = {} /\ reply[r].text \in Seq(Calls)
    BY DEF IInv, InStep, TypeOK, Reply
  <2>2. /\ \A i \in 1..Len(reply[r].text) : reply[r].text[i] = r
        /\ Len(reply[r].text) = MaxTokens
    BY <2>1 DEF IInv, AnswerIsOwnUntilTimeout
  <2> QED
    BY <2>1, <2>2, LibraryAssumption
<1> QED
  BY <1>1, Invariance, PTL
=============================================================================

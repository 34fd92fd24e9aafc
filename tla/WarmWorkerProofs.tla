-------------------------- MODULE WarmWorkerProofs ---------------------------
(***************************************************************************)
(* Proofs about WarmWorker for every number of calls, every max_requests,  *)
(* and processes that may or may not survive their kill.                   *)
(*                                                                         *)
(* The invariant comes in three layers, each proved from the ones before.  *)
(* Control: who holds the lock, where it is in the code, and what that     *)
(* says of the handle and the count.  Processes: where every live process  *)
(* is, what it was sent, and what became of the failed ones.  Terminal:    *)
(* whatever is on its way to or from the terminal belongs to a prompt that *)
(* was sent to the process at its other end.                               *)
(***************************************************************************)
EXTENDS WarmWorker, TLAPS

Closing  == {"polite", "force"}
Served    == {"read", "finish"}
InSession == {"loading", "drain", "send", "read", "finish"}

ControlTypes ==
  /\ pc \in [Callers -> Points]
  /\ lock \in Callers \union {None}
  /\ child \in Calls \union {None}
  /\ requestCount \in 0..MaxRequests
  /\ closing \in [Callers -> [proc : Calls \union {None}, next : {"ensure", "release"}]]

Control ==
  /\ ControlTypes
  /\ child = None => requestCount = 0
  /\ \A c \in Callers :
       /\ lock = c <=> pc[c] \notin {"start", "done"}
       /\ closing[c].proc # None <=> pc[c] \in Closing
       /\ pc[c] \in Closing => child = None
       /\ c \in Recyclers => pc[c] \notin {"check", "ensure"} \union InSession
       /\ c \in Recyclers => closing[c].next = "release"
       /\ pc[c] \in {"ensure"} \union InSession => requestCount < MaxRequests
       /\ pc[c] \in InSession => child # None

BeginsShutdown(r) ==
  \/ BeginShutdown(r, "check", "ensure")
  \/ \E from \in {"ensure", "loading", "send", "read", "finish"} :
       BeginShutdown(r, from, "release")

LEMMA OneHolder ==
  ASSUME Control, NEW c \in Callers, NEW d \in Callers,
         pc[c] \notin {"start", "done"}, pc[d] \notin {"start", "done"}
  PROVE  c = d
BY DEF Control

LEMMA ControlInit == Init => Control
BY CallersAssumption, MaxRequestsAssumption
   DEF Init, Control, ControlTypes, Callers, Points, Closing, InSession

\* A shutdown may begin anywhere past the lock.
LEMMA ControlShutdown ==
  ASSUME Control, NEW c \in Callers, NEW from, NEW next \in {"ensure", "release"},
         from \notin {"start", "done", "polite", "force"},
         c \in Recyclers => next = "release",
         BeginShutdown(c, from, next), lock' = lock
  PROVE  Control'
<1> USE MaxRequestsAssumption DEF BeginShutdown, DropHandle
<1>1. \A d \in Callers \ {c} : pc[d] \in {"start", "done"}
  BY OneHolder
<1>2. \/ pc' = [pc EXCEPT ![c] = next] /\ closing' = closing
      \/ /\ pc' = [pc EXCEPT ![c] = "polite"] /\ child # None
         /\ closing' = [closing EXCEPT ![c] = [proc |-> child, next |-> next]]
  OBVIOUS
<1>3. ControlTypes'
  BY <1>2 DEF Control, ControlTypes, Points
<1>4. ASSUME NEW d \in Callers
      PROVE  /\ lock' = d <=> pc'[d] \notin {"start", "done"}
             /\ closing'[d].proc # None <=> pc'[d] \in Closing
             /\ d \in Recyclers => pc'[d] \notin {"check", "ensure"} \union InSession
             /\ d \in Recyclers => closing'[d].next = "release"
             /\ pc'[d] \notin InSession
  BY <1>1, <1>2, <1>4 DEF Control, ControlTypes, Closing, InSession
<1> QED
  BY <1>3, <1>4 DEF Control

LEMMA ControlStep ==
  ASSUME Control, Next
  PROVE  Control'
<1> USE CallersAssumption, MaxRequestsAssumption
<1>1. ASSUME NEW c \in Callers, Acquire(c) \/ Release(c) PROVE Control'
  BY <1>1 DEF Acquire, Release, Goto, Control, ControlTypes, Callers, Points, Closing, InSession
<1>2. ASSUME NEW r \in Calls, Unavailable(r) PROVE Control'
  BY <1>2 DEF Unavailable, Goto, Control, ControlTypes, Callers, Points, Closing, InSession
<1>3. ASSUME NEW c \in Callers, AskToExit(c) PROVE Control'
  BY <1>3 DEF AskToExit, Goto, Control, ControlTypes, Callers, Points, Closing, InSession
<1>4. ASSUME NEW c \in Callers, AlreadyGone(c) \/ Kill(c) PROVE Control'
  <2>1. /\ pc[c] \in Closing /\ EndShutdown(c) /\ UNCHANGED <<lock, child, requestCount>>
    BY <1>4 DEF AlreadyGone, Kill, Closing
  <2>2. \A d \in Callers \ {c} : pc[d] \in {"start", "done"}
    BY <2>1, OneHolder DEF Closing
  <2> QED
    BY <2>1, <2>2 DEF EndShutdown, Control, ControlTypes, Points, Closing, InSession
<1>5. ASSUME NEW c \in Recyclers, Recycle(c) PROVE Control'
  BY <1>5, ControlShutdown DEF Recycle, Callers
<1>6. ASSUME NEW r \in Calls,
             CheckRecycle(r) \/ SpawnFails(r) \/ LoadFails(r) \/ SendFails(r)
               \/ Timeout(r) \/ FinishDead(r)
      PROVE  Control'
  <2>1. BeginsShutdown(r) /\ lock' = lock
    BY <1>6 DEF BeginsShutdown, CheckRecycle, SpawnFails, LoadFails, SendFails, Timeout, Fail,
                FinishDead
  <2> QED
    BY <2>1, ControlShutdown DEF BeginsShutdown, Callers
<1>7. ASSUME NEW r \in Calls,
             CheckKeep(r) \/ EnsureRunning(r) \/ Loaded(r) \/ Drain(r) \/ Send(r)
      PROVE  Control'
  <2>1. Running(child) => child # None
    BY DEF Running
  <2>2. /\ UNCHANGED <<lock, child, requestCount, closing>>
        /\ \/ pc[r] = "check" /\ pc' = [pc EXCEPT ![r] = "ensure"] /\ requestCount < MaxRequests
           \/ pc[r] = "ensure" /\ pc' = [pc EXCEPT ![r] = "drain"] /\ child # None
           \/ pc[r] = "loading" /\ pc' = [pc EXCEPT ![r] = "drain"]
           \/ pc[r] = "drain" /\ pc' = [pc EXCEPT ![r] = "send"]
           \/ pc[r] = "send" /\ pc' = [pc EXCEPT ![r] = "read"]
    BY <1>7, <2>1 DEF CheckKeep, EnsureRunning, Loaded, Drain, Send, Goto, Young
  <2> QED
    BY <2>2 DEF Control, ControlTypes, Callers, Points, Closing, InSession
<1>8. ASSUME NEW r \in Calls, Spawn(r) PROVE Control'
  <2>1. \A d \in Callers \ {r} : pc[d] \in {"start", "done"}
    BY <1>8, OneHolder DEF Spawn, Goto, Callers
  <2> QED
    BY <1>8, <2>1 DEF Spawn, Goto, Control, ControlTypes, Callers, Points, Closing, InSession
<1>9. ASSUME NEW r \in Calls, Fetch(r) \/ ReadLine(r) \/ ReadEof(r) PROVE Control'
  <2>1. /\ pc[r] = "read" /\ UNCHANGED <<lock, child, requestCount, closing>>
        /\ pc' = pc \/ pc' = [pc EXCEPT ![r] = "finish"] \/ pc' = [pc EXCEPT ![r] = "read"]
    BY <1>9 DEF Fetch, ReadLine, ReadEof, ReadMore, Goto, workerVars
  <2> QED
    BY <2>1 DEF Control, ControlTypes, Callers, Points, Closing, InSession
<1>10. ASSUME NEW r \in Calls, Finish(r) PROVE Control'
  <2>1. \A d \in Callers \ {r} : pc[d] \in {"start", "done"}
    BY <1>10, OneHolder DEF Finish, Goto, Callers
  <2> QED
    BY <1>10, <2>1 DEF Finish, CountRequest, Goto, Control, ControlTypes, Callers, Points,
                       Closing, InSession
<1>11. CASE Cli
  BY <1>11 DEF Cli, CliPrompts, CliTakes, CliAnswers, CliRates, CliDies, workerVars,
               Control, ControlTypes
<1> QED
  BY <1>1, <1>2, <1>3, <1>4, <1>5, <1>6, <1>7, <1>8, <1>9, <1>10, <1>11
     DEF Next, InferStep, Shutdown

-----------------------------------------------------------------------------
(* Processes                                                               *)

ProcessTypes ==
  /\ procs \in [Calls -> {"unborn", "live", "leaked", "dead"}]
  /\ sent \in [Calls -> Seq(Calls)]
  /\ reply \in [Calls -> Reply \union {None}]

\* A call that may still spawn its process.
Fresh(r) ==
  \/ pc[r] \in {"start", "check", "ensure"}
  \/ pc[r] \in Closing /\ closing[r].next = "ensure"

Births ==
  /\ \A p \in Calls : procs[p] = "unborn" =>
       sent[p] = <<>> /\ child # p /\ \A c \in Callers : closing[c].proc # p
  /\ \A r \in Calls : Fresh(r) => procs[r] = "unborn"

Counts ==
  /\ child # None /\ (\A r \in Calls : pc[r] \notin Served) => Count(child) = requestCount
  /\ \A r \in Calls : pc[r] \in Served =>
       Count(child) = requestCount + 1 /\ sent[child][Count(child)] = r
  /\ ServesAtMostMaxRequests

\* Where a call is once its prompt was sent, and to which process.
Places ==
  \A r, p \in Calls : r \in Sent(p) =>
    /\ pc[r] \in Closing \union Served \union {"release", "done"}
    /\ pc[r] \in Closing => closing[r].next = "release"
    /\ pc[r] \in Served => p = child

Failures ==
  \A r \in Calls : reply[r] # None /\ reply[r].error = "exception" =>
    /\ pc[r] \in Closing \union {"release", "done"}
    /\ pc[r] \in Closing => closing[r].next = "release"
    /\ \A p \in Calls : r \in Sent(p) =>
         child # p /\ (procs[p] = "live" => closing[r].proc = p)

Processes == ProcessTypes /\ Births /\ NoOrphan /\ Counts /\ Places /\ Failures

LEMMA ProcessesInit == Init => Processes
<1> SUFFICES ASSUME Init PROVE Processes
  OBVIOUS
<1>1. ProcessTypes
  BY DEF Init, ProcessTypes
<1>2. ASSUME NEW p \in Calls PROVE Count(p) = 0 /\ Sent(p) = {}
  <2>1. Count(p) = 0
    BY DEF Init, Count
  <2> QED
    BY <2>1 DEF Sent
<1>3. Births /\ NoOrphan
  BY CallersAssumption DEF Init, Births, NoOrphan, Callers
<1>4. Counts /\ Places /\ Failures
  BY <1>2, MaxRequestsAssumption
     DEF Init, Counts, Served, ServesAtMostMaxRequests, Places, Failures, Callers
<1> QED
  BY <1>1, <1>3, <1>4 DEF Processes

\* Steps that only move control, outside the span from the prompt to the answer.
LEMMA ProcessesMove ==
  ASSUME Control, Control', Processes, NEW c \in Callers, NEW to,
         pc' = [pc EXCEPT ![c] = to],
         UNCHANGED <<child, requestCount, closing, reply, procs, sent>>,
         \/ pc[c] = "start" /\ to \in {"check", "recycle"}
         \/ pc[c] = "release" /\ to = "done"
         \/ pc[c] = "polite" /\ to = "force"
         \/ pc[c] = "check" /\ to = "ensure"
         \/ pc[c] \in {"ensure", "loading"} /\ to = "drain"
         \/ pc[c] = "drain" /\ to = "send"
         \/ pc[c] = "read" /\ to \in {"read", "finish"}
  PROVE  Processes'
<1>1. \A d \in Callers : pc'[d] = IF d = c THEN to ELSE pc[d]
  BY DEF Control, ControlTypes
<1>2. ProcessTypes' /\ NoOrphan'
  BY DEF Processes, ProcessTypes, NoOrphan
<1>3. \A r \in Calls : Fresh(r)' => Fresh(r)
  BY <1>1 DEF Fresh, Closing, Callers
<1>4. Births'
  BY <1>3 DEF Processes, Births
<1>5. \A p \in Calls : Count(p)' = Count(p) /\ Sent(p)' = Sent(p)
  BY DEF Count, Sent
<1>6. \A r \in Calls : pc'[r] \in Served <=> pc[r] \in Served
  BY <1>1 DEF Served, Callers
<1>7. Counts'
  BY <1>5, <1>6 DEF Processes, Counts, ServesAtMostMaxRequests, Count
<1>8. Places'
  BY <1>1, <1>5, <1>6 DEF Processes, Places, Closing, Served, Callers
<1>9. Failures'
  BY <1>1, <1>5, <1>6 DEF Processes, Failures, Closing, Callers
<1> QED
  BY <1>2, <1>4, <1>7, <1>8, <1>9 DEF Processes

\* _shutdown_locked begins, with or without an answer for the call.
LEMMA ProcessesShutdown ==
  ASSUME Control, Control', Processes, NEW c \in Callers, NEW from, NEW next,
         BeginShutdown(c, from, next),
         UNCHANGED <<procs, sent>>,
         \/ from = "check" /\ next = "ensure"
         \/ from \in {"recycle", "ensure", "loading", "send", "read", "finish"}
              /\ next = "release",
         reply' \in [Calls -> Reply \union {None}],
         \A r \in Calls \ {c} : reply'[r] = reply[r],
         from = "check" => reply' = reply
  PROVE  Processes'
<1>1. /\ \A d \in Callers \ {c} : pc[d] \in {"start", "done"} /\ pc'[d] = pc[d]
                                     /\ closing[d].proc = None /\ closing'[d] = closing[d]
      /\ pc[c] = from /\ closing[c].proc = None
      /\ child' = None /\ requestCount' = 0
  BY OneHolder DEF BeginShutdown, DropHandle, Control, ControlTypes, Closing
<1>2. \/ child = None /\ pc'[c] = next /\ closing'[c] = closing[c]
      \/ child # None /\ pc'[c] = "polite" /\ closing'[c].proc = child /\ closing'[c].next = next
  BY DEF BeginShutdown, Control, ControlTypes
<1>3. ProcessTypes'
  BY DEF Processes, ProcessTypes
<1>4. \A p \in Calls : Count(p)' = Count(p) /\ Sent(p)' = Sent(p)
  BY DEF Count, Sent
<1>5. Births'
  <2>1. \A r \in Calls : Fresh(r)' => Fresh(r)
    BY <1>1, <1>2 DEF Fresh, Closing, Callers
  <2> QED
    BY <1>1, <1>2, <2>1, CallersAssumption DEF Processes, Births
<1>6. NoOrphan'
  BY <1>1, <1>2, CallersAssumption DEF Processes, NoOrphan
<1>7. Counts'
  <2>1. \A r \in Calls : pc'[r] \notin Served
    BY <1>1, <1>2 DEF Served, Callers
  <2> QED
    BY <1>1, <1>4, <2>1 DEF Processes, Counts, ServesAtMostMaxRequests
<1>8. Places'
  BY <1>1, <1>2, <1>4 DEF Processes, Places, Closing, Served, Callers
<1>9. Failures'
  <2> SUFFICES ASSUME NEW r \in Calls, reply'[r] # None, reply'[r].error = "exception"
               PROVE  /\ pc'[r] \in Closing \union {"release", "done"}
                      /\ pc'[r] \in Closing => closing'[r].next = "release"
                      /\ \A p \in Calls : r \in Sent(p)' =>
                           child' # p /\ (procs'[p] = "live" => closing'[r].proc = p)
    BY DEF Failures
  <2>1. CASE r # c
    BY <1>1, <1>4, <2>1, CallersAssumption DEF Processes, Failures, Callers, Closing
  <2>2. CASE r = c
    <3>1. from # "check"
      BY <1>1, <2>2 DEF Processes, Failures, Closing
    <3>2. next = "release"
      BY <3>1
    <3>3. pc'[r] \in Closing \union {"release"} /\ (pc'[r] \in Closing => closing'[r].next = "release")
      BY <1>2, <2>2, <3>2 DEF Closing
    <3>4. ASSUME NEW p \in Calls, r \in Sent(p) PROVE child = p
      BY <1>1, <2>2, <3>1, <3>4 DEF Processes, Places, Closing, Served
    <3>5. \A p \in Calls : r \in Sent(p)' => child' # p /\ closing'[r].proc = p
      BY <1>1, <1>2, <1>4, <2>2, <3>4, CallersAssumption
    <3> QED
      BY <3>3, <3>5
  <2> QED
    BY <2>1, <2>2
<1> QED
  BY <1>3, <1>5, <1>6, <1>7, <1>8, <1>9 DEF Processes

\* _shutdown_locked ends: the process is gone, or survived its kill.
LEMMA ProcessesEnd ==
  ASSUME Control, Control', Processes, NEW c \in Callers, AlreadyGone(c) \/ Kill(c)
  PROVE  Processes'
<1> DEFINE q == closing[c].proc
<1>1. /\ \A d \in Callers \ {c} : pc[d] \in {"start", "done"} /\ pc'[d] = pc[d]
                                     /\ closing[d].proc = None /\ closing'[d] = closing[d]
      /\ pc[c] \in Closing /\ q \in Calls /\ child = None
      /\ pc'[c] = closing[c].next /\ closing'[c].proc = None /\ closing'[c].next = closing[c].next
  BY OneHolder DEF AlreadyGone, Kill, EndShutdown, Control, ControlTypes, Closing
<1>2. UNCHANGED <<lock, child, requestCount, reply, sent>>
  BY DEF AlreadyGone, Kill
<1>3. /\ procs' \in [Calls -> {"unborn", "live", "leaked", "dead"}]
      /\ procs'[q] # "live" /\ \A p \in Calls \ {q} : procs'[p] = procs[p]
      /\ procs'[q] = "unborn" => procs[q] = "unborn"
  <2>1. q \in Calls /\ procs \in [Calls -> {"unborn", "live", "leaked", "dead"}]
    BY <1>1 DEF Processes, ProcessTypes
  <2>2. CASE AlreadyGone(c)
    BY <2>1, <2>2 DEF AlreadyGone, Running
  <2>3. CASE Kill(c)
    <3>1. PICK end \in {"dead", "leaked"} : procs' = [procs EXCEPT ![q] = end]
      BY <2>3 DEF Kill, KillOutcomes
    <3>2. QED
      BY <2>1, <3>1
  <2>4. QED
    BY <2>2, <2>3
<1>4. ProcessTypes'
  BY <1>2, <1>3 DEF Processes, ProcessTypes
<1>5. \A p \in Calls : Count(p)' = Count(p) /\ Sent(p)' = Sent(p)
  BY <1>2 DEF Count, Sent
<1>6. procs[q] # "unborn"
  BY <1>1 DEF Processes, Births
<1>7. Births'
  <2>1. \A r \in Calls : Fresh(r)' => Fresh(r)
    BY <1>1, CallersAssumption DEF Fresh, Closing, Callers, Control, ControlTypes
  <2>2. \A p \in Calls : procs'[p] = "unborn" <=> procs[p] = "unborn"
    BY <1>3, <1>6
  <2> QED
    BY <1>1, <1>2, <2>1, <2>2, CallersAssumption DEF Processes, Births
<1>8. NoOrphan'
  <2> SUFFICES ASSUME NEW p \in Calls, procs'[p] = "live"
               PROVE  FALSE
    BY DEF NoOrphan
  <2>1. p # q /\ procs[p] = "live"
    BY <1>3
  <2> QED
    BY <1>1, <2>1, CallersAssumption DEF Processes, NoOrphan
<1>9. \A r \in Calls : pc[r] \notin Served /\ pc'[r] \notin Served
  BY <1>1, CallersAssumption DEF Served, Closing, Callers, Control, ControlTypes
<1>10. Counts'
  BY <1>1, <1>2, <1>5, <1>9 DEF Processes, Counts, ServesAtMostMaxRequests
<1>11. Places'
  BY <1>1, <1>5, <1>9 DEF Processes, Places, Closing, Callers
<1>12. Failures'
  BY <1>1, <1>2, <1>3, <1>5 DEF Processes, Failures, Closing, Callers
<1> QED
  BY <1>4, <1>7, <1>8, <1>10, <1>11, <1>12 DEF Processes

LEMMA ProcessesUnavailable ==
  ASSUME Control, Processes, NEW c \in Calls, Unavailable(c)
  PROVE  Processes'
<1>1. /\ \A d \in Callers : pc'[d] = IF d = c THEN "done" ELSE pc[d]
      /\ pc[c] = "start" /\ UNCHANGED <<child, requestCount, closing, procs, sent>>
  BY DEF Unavailable, Goto, Control, ControlTypes
<1>2. /\ ProcessTypes'
      /\ \A r \in Calls \ {c} : reply'[r] = reply[r]
      /\ reply'[c].error = "unavailable"
  BY DEF Unavailable, Settle, Processes, ProcessTypes, Reply
<1>3. \A p \in Calls : Count(p)' = Count(p) /\ Sent(p)' = Sent(p)
  BY <1>1 DEF Count, Sent
<1>4. Births'
  <2>1. \A r \in Calls : Fresh(r)' => Fresh(r)
    BY <1>1 DEF Fresh, Closing, Callers
  <2> QED
    BY <1>1, <2>1 DEF Processes, Births
<1>5. NoOrphan'
  BY <1>1 DEF Processes, NoOrphan
<1>6. Counts'
  BY <1>1, <1>3 DEF Processes, Counts, ServesAtMostMaxRequests, Count, Served, Callers
<1>7. Places'
  BY <1>1, <1>3 DEF Processes, Places, Closing, Served, Callers
<1>8. Failures'
  BY <1>1, <1>2, <1>3 DEF Processes, Failures, Closing, Callers
<1> QED
  BY <1>2, <1>4, <1>5, <1>6, <1>7, <1>8 DEF Processes

\* pexpect.spawn: the handle was empty or its process dead.
LEMMA ProcessesSpawn ==
  ASSUME Control, Control', Processes, NEW c \in Calls, Spawn(c)
  PROVE  Processes'
<1>1. /\ \A d \in Callers : pc'[d] = IF d = c THEN "loading" ELSE pc[d]
      /\ \A d \in Callers \ {c} : pc[d] \in {"start", "done"}
      /\ \A d \in Callers : closing[d].proc = None
      /\ pc[c] = "ensure" /\ child' = c /\ requestCount' = 0
      /\ UNCHANGED <<closing, reply, sent>>
  BY OneHolder DEF Spawn, Goto, Control, ControlTypes, Callers, Closing
<1>2. /\ \A p \in Calls : procs'[p] = IF p = c THEN "live" ELSE procs[p]
      /\ procs' \in [Calls -> {"unborn", "live", "leaked", "dead"}]
  BY DEF Spawn, Processes, ProcessTypes
<1>3. ProcessTypes'
  BY <1>1, <1>2 DEF Processes, ProcessTypes
<1>4. \A p \in Calls : Count(p)' = Count(p) /\ Sent(p)' = Sent(p)
  BY <1>1 DEF Count, Sent
<1>5. sent[c] = <<>> /\ Count(c) = 0 /\ Sent(c) = {}
  <2>1. sent[c] = <<>>
    BY <1>1 DEF Processes, Births, Fresh
  <2>2. Count(c) = 0
    BY <2>1 DEF Count
  <2> QED
    BY <2>1, <2>2 DEF Sent
<1>6. Births'
  <2>1. \A r \in Calls : Fresh(r)' => Fresh(r) /\ r # c
    BY <1>1 DEF Fresh, Closing, Callers
  <2> QED
    BY <1>1, <1>2, <2>1, CallersAssumption DEF Processes, Births
<1>7. NoOrphan'
  <2> SUFFICES ASSUME NEW p \in Calls, procs'[p] = "live", p # c PROVE FALSE
    BY <1>1 DEF NoOrphan
  <2>1. child = p
    BY <1>1, <1>2, CallersAssumption DEF Processes, NoOrphan
  <2> QED
    BY <1>2, <2>1 DEF Spawn, Running
<1>8. Counts'
  <2>1. \A r \in Calls : pc'[r] \notin Served
    BY <1>1 DEF Served, Callers
  <2>2. Count(child)' = requestCount'
    BY <1>1, <1>4, <1>5
  <2> QED
    BY <1>4, <2>1, <2>2 DEF Processes, Counts, ServesAtMostMaxRequests
<1>9. Places'
  BY <1>1, <1>4 DEF Processes, Places, Closing, Served, Callers
<1>10. Failures'
  <2> SUFFICES ASSUME NEW r \in Calls, reply[r] # None, reply[r].error = "exception"
               PROVE  /\ pc'[r] \in Closing \union {"release", "done"}
                      /\ pc'[r] \in Closing => closing'[r].next = "release"
                      /\ \A p \in Calls : r \in Sent(p) =>
                           child' # p /\ (procs'[p] = "live" => closing'[r].proc = p)
    BY <1>1, <1>4 DEF Failures
  <2>1. r # c
    BY <1>1 DEF Processes, Failures, Closing
  <2> QED
    BY <1>1, <1>2, <1>5, <2>1 DEF Processes, Failures, Closing, Callers
<1> QED
  BY <1>3, <1>6, <1>7, <1>8, <1>9, <1>10 DEF Processes

\* One more prompt for a process.
LEMMA SentGrows ==
  ASSUME ProcessTypes, NEW p \in Calls, NEW r \in Calls,
         sent' = [sent EXCEPT ![p] = Append(@, r)]
  PROVE  /\ sent' \in [Calls -> Seq(Calls)]
         /\ \A q \in Calls \ {p} : sent'[q] = sent[q]
         /\ Count(p)' = Count(p) + 1 /\ Count(p) \in Nat
         /\ sent'[p][Count(p) + 1] = r
         /\ \A i \in 1..Count(p) : sent'[p][i] = sent[p][i]
         /\ Sent(p)' = Sent(p) \union {r}
<1>1. sent[p] \in Seq(Calls) /\ sent'[p] = Append(sent[p], r)
  BY DEF ProcessTypes
<1>2. /\ sent'[p] \in Seq(Calls) /\ Len(sent'[p]) = Len(sent[p]) + 1 /\ Len(sent[p]) \in Nat
      /\ sent'[p][Len(sent[p]) + 1] = r
      /\ \A i \in 1..Len(sent[p]) : sent'[p][i] = sent[p][i]
  BY <1>1
<1>3. \A q \in Calls \ {p} : sent'[q] = sent[q]
  BY DEF ProcessTypes
<1>4. sent' \in [Calls -> Seq(Calls)]
  BY <1>2 DEF ProcessTypes
<1>5. Sent(p)' = Sent(p) \union {r}
  <2>1. \A x : x \in Sent(p)' => x \in Sent(p) \union {r}
    BY <1>2 DEF Sent, Count
  <2>2. \A x : x \in Sent(p) \union {r} => x \in Sent(p)'
    BY <1>2 DEF Sent, Count
  <2> QED
    BY <2>1, <2>2
<1> QED
  BY <1>2, <1>3, <1>4, <1>5 DEF Count

LEMMA ProcessesSend ==
  ASSUME Control, Control', Processes, NEW c \in Calls, Send(c)
  PROVE  Processes'
<1>p. PICK k \in Calls : child = k
  BY DEF Send, Goto, Control, ControlTypes, Callers, InSession
<1>1. /\ \A d \in Callers : pc'[d] = IF d = c THEN "read" ELSE pc[d]
      /\ \A d \in Callers \ {c} : pc[d] \in {"start", "done"}
      /\ pc[c] = "send" /\ child = k /\ child' = k /\ requestCount < MaxRequests
      /\ UNCHANGED <<closing, reply, procs, requestCount>>
      /\ sent' = [sent EXCEPT ![k] = Append(@, c)]
  BY <1>p, OneHolder DEF Send, Goto, Control, ControlTypes, Callers, InSession
<1>2. ProcessTypes
  BY DEF Processes
<1>3. /\ sent' \in [Calls -> Seq(Calls)]
      /\ \A q \in Calls \ {k} : sent'[q] = sent[q]
      /\ Count(k)' = Count(k) + 1 /\ Count(k) \in Nat
      /\ sent'[k][Count(k) + 1] = c
      /\ Sent(k)' = Sent(k) \union {c}
  BY <1>1, <1>2, SentGrows
<1>4. \A q \in Calls \ {k} : Count(q)' = Count(q) /\ Sent(q)' = Sent(q)
  BY <1>3 DEF Count, Sent
<1>5. ProcessTypes'
  BY <1>1, <1>3 DEF Processes, ProcessTypes
<1>6. Births'
  <2>1. \A r \in Calls : Fresh(r)' => Fresh(r)
    BY <1>1 DEF Fresh, Closing, Callers
  <2> QED
    BY <1>1, <1>3, <2>1 DEF Processes, Births
<1>7. NoOrphan'
  BY <1>1 DEF Processes, NoOrphan
<1>8. Counts'
  <2>1. Count(k) = requestCount
    <3>1. \A r \in Calls : pc[r] \notin Served
      BY <1>1 DEF Served, Callers
    <3> QED
      BY <1>1, <3>1, CallersAssumption DEF Processes, Counts
  <2>2. Count(k)' = requestCount + 1 /\ requestCount \in Nat
    BY <1>3, <2>1
  <2>3. \A p \in Calls : Count(p)' <= MaxRequests
    BY <1>1, <1>4, <2>2, MaxRequestsAssumption DEF Processes, Counts, ServesAtMostMaxRequests
  <2>4. \A r \in Calls : pc'[r] \in Served => r = c
    BY <1>1 DEF Served, Callers
  <2>5. pc'[c] \in Served
    BY <1>1 DEF Served, Callers
  <2>6. sent'[k][Count(k)'] = c
    BY <1>3
  <2> QED
    BY <1>1, <2>2, <2>3, <2>4, <2>5, <2>6 DEF Counts, ServesAtMostMaxRequests
<1>9. Places'
  <2> SUFFICES ASSUME NEW r \in Calls, NEW p \in Calls, r \in Sent(p)'
               PROVE  /\ pc'[r] \in Closing \union Served \union {"release", "done"}
                      /\ pc'[r] \in Closing => closing'[r].next = "release"
                      /\ pc'[r] \in Served => p = child'
    BY DEF Places
  <2>1. CASE r = c
    <3>1. p = k
      BY <1>1, <1>4, <2>1 DEF Processes, Places, Closing, Served
    <3> QED
      BY <1>1, <2>1, <3>1 DEF Closing, Served, Callers
  <2>2. CASE r # c
    <3>1. r \in Sent(p)
      BY <1>3, <1>4, <2>2
    <3> QED
      BY <1>1, <2>2, <3>1 DEF Processes, Places, Closing, Served, Callers
  <2> QED
    BY <2>1, <2>2
<1>10. Failures'
  <2> SUFFICES ASSUME NEW r \in Calls, reply[r] # None, reply[r].error = "exception"
               PROVE  /\ pc'[r] \in Closing \union {"release", "done"}
                      /\ pc'[r] \in Closing => closing'[r].next = "release"
                      /\ \A p \in Calls : r \in Sent(p)' =>
                           child' # p /\ (procs'[p] = "live" => closing'[r].proc = p)
    BY <1>1 DEF Failures
  <2>1. r # c
    BY <1>1 DEF Processes, Failures, Closing
  <2>2. \A p \in Calls : r \in Sent(p)' => r \in Sent(p)
    BY <1>3, <1>4, <2>1
  <2> QED
    BY <1>1, <2>1, <2>2 DEF Processes, Failures, Closing, Callers
<1> QED
  BY <1>5, <1>6, <1>7, <1>8, <1>9, <1>10 DEF Processes

LEMMA ProcessesFinish ==
  ASSUME Control, Control', Processes, NEW c \in Calls, Finish(c),
         Clean(output[c]) \in Calls \union {None}
  PROVE  Processes'
<1>1. /\ \A d \in Callers : pc'[d] = IF d = c THEN "release" ELSE pc[d]
      /\ \A d \in Callers \ {c} : pc[d] \in {"start", "done"}
      /\ pc[c] = "finish" /\ child \in Calls /\ requestCount' = requestCount + 1
      /\ UNCHANGED <<closing, procs, child, sent>>
  BY OneHolder DEF Finish, CountRequest, Goto, Control, ControlTypes, Callers, InSession
<1>2. /\ ProcessTypes'
      /\ \A r \in Calls \ {c} : reply'[r] = reply[r]
      /\ reply'[c].error = "none"
  BY <1>1 DEF Finish, Settle, Processes, ProcessTypes, Reply
<1>3. \A p \in Calls : Count(p)' = Count(p) /\ Sent(p)' = Sent(p)
  BY <1>1 DEF Count, Sent
<1>4. Births'
  <2>1. \A r \in Calls : Fresh(r)' => Fresh(r)
    BY <1>1 DEF Fresh, Closing, Callers
  <2> QED
    BY <1>1, <2>1 DEF Processes, Births
<1>5. NoOrphan'
  BY <1>1 DEF Processes, NoOrphan
<1>6. Counts'
  <2>1. Count(child)' = requestCount'
    BY <1>1, <1>3 DEF Processes, Counts, Served
  <2>2. \A r \in Calls : pc'[r] \notin Served
    BY <1>1 DEF Served, Callers
  <2> QED
    BY <1>1, <1>3, <2>1, <2>2 DEF Processes, Counts, ServesAtMostMaxRequests
<1>7. Places'
  BY <1>1, <1>3 DEF Processes, Places, Closing, Served, Callers
<1>8. Failures'
  BY <1>1, <1>2, <1>3 DEF Processes, Failures, Closing, Callers
<1> QED
  BY <1>2, <1>4, <1>5, <1>6, <1>7, <1>8 DEF Processes

\* Nothing the CLI does touches the worker; it may die.
LEMMA ProcessesCli ==
  ASSUME Processes, UNCHANGED <<workerVars, sent>>,
         \/ procs' = procs
         \/ Running(tty) /\ procs' = [procs EXCEPT ![tty] = "dead"]
  PROVE  Processes'
<1> UNCHANGED <<pc, lock, child, requestCount, closing, reply>>
  BY DEF workerVars
<1>1. /\ \A p \in Calls : procs'[p] = "live" => procs[p] = "live"
      /\ \A p \in Calls : procs'[p] = "unborn" <=> procs[p] = "unborn"
  BY DEF Processes, ProcessTypes, Running
<1>2. ProcessTypes'
  BY DEF Processes, ProcessTypes
<1>3. \A p \in Calls : Count(p)' = Count(p) /\ Sent(p)' = Sent(p)
  BY DEF Count, Sent
<1>4. Births'
  <2>1. \A r \in Calls : Fresh(r)' <=> Fresh(r)
    BY DEF Fresh
  <2> QED
    BY <1>1, <2>1 DEF Processes, Births
<1>5. NoOrphan'
  BY <1>1 DEF Processes, NoOrphan
<1>6. Counts'
  BY <1>3 DEF Processes, Counts, ServesAtMostMaxRequests, Count
<1>7. Places'
  BY <1>3 DEF Processes, Places
<1>8. Failures'
  BY <1>1, <1>3 DEF Processes, Failures
<1> QED
  BY <1>2, <1>4, <1>5, <1>6, <1>7, <1>8 DEF Processes

-----------------------------------------------------------------------------
(* The terminal                                                            *)

\* The prompts the process at the other end was sent.
Owed == IF tty = None THEN {} ELSE Sent(tty)

OwedTokens == {t \in Token : t.of \in Owed \union {None}}

CliPoints == {"loading", "waiting", "answering", "rating", "prompting"}

Terminal ==
  /\ tty \in Calls \union {None}
  /\ child # None => tty = child
  /\ cli \in [at : CliPoints, of : Owed \union {None}]
  /\ stdin \in Seq(Owed \union {Exit})
  /\ wire \in Seq(OwedTokens)
  /\ buf \in Seq(OwedTokens)
  /\ output \in [Callers -> Seq(OwedTokens)]
  /\ \A c \in Callers : pc[c] \notin Served => output[c] = <<>>

LEMMA Longer ==
  ASSUME NEW S, NEW s \in Seq(S), NEW e \in S
  PROVE  Append(s, e) \in Seq(S)
OBVIOUS

LEMMA Parts ==
  ASSUME NEW S, NEW s \in Seq(S), s # <<>>
  PROVE  Head(s) \in S /\ Tail(s) \in Seq(S)
OBVIOUS

LEMMA Cut ==
  ASSUME NEW S, NEW s \in Seq(S), NEW n \in 1..Len(s)
  PROVE  SubSeq(s, 1, n) \in Seq(S) /\ SubSeq(s, n + 1, Len(s)) \in Seq(S)
<1>1. Len(s) \in Nat /\ \A i \in 1..Len(s) : s[i] \in S
  OBVIOUS
<1> QED
  BY <1>1

LEMMA Joined ==
  ASSUME NEW S, NEW s \in Seq(S), NEW t \in Seq(S)
  PROVE  s \o t \in Seq(S)
OBVIOUS

LEMMA Wider ==
  ASSUME NEW S, NEW T, S \subseteq T, NEW s \in Seq(S)
  PROVE  s \in Seq(T)
OBVIOUS

LEMMA Empty ==
  ASSUME NEW S
  PROVE  <<>> \in Seq(S)
OBVIOUS

LEMMA OwedCalls ==
  ASSUME ProcessTypes, tty \in Calls \union {None}
  PROVE  Owed \subseteq Calls
<1> SUFFICES ASSUME tty # None PROVE Sent(tty) \subseteq Calls
  BY DEF Owed
<1>1. sent[tty] \in Seq(Calls)
  BY DEF ProcessTypes
<1>2. \A i \in 1..Len(sent[tty]) : sent[tty][i] \in Calls
  BY <1>1
<1> QED
  BY <1>2 DEF Sent, Count

LEMMA TokensAreOwed ==
  ASSUME ProcessTypes, tty \in Calls \union {None}, NEW r \in Owed \union {None}
  PROVE  You \in OwedTokens /\ Echo(r) \in OwedTokens
         /\ Text(r) \in OwedTokens /\ Rate(r) \in OwedTokens
BY OwedCalls DEF OwedTokens, Token, You, Echo, Text, Rate

\* What was read is the answer to some prompt of the process, or none.
LEMMA CleanIsOwed ==
  ASSUME NEW o \in Seq(OwedTokens)
  PROVE  Clean(o) \in Owed \union {None}
<1>1. \A i \in 1..Len(o) : o[i] \in OwedTokens
  OBVIOUS
<1>2. CASE \E i \in 1..Len(o) : Answer(o, i)
  <2>1. (CHOOSE i \in 1..Len(o) : Answer(o, i)) \in 1..Len(o)
    BY <1>2
  <2> QED
    BY <1>1, <1>2, <2>1 DEF Clean, OwedTokens
<1>3. CASE ~\E i \in 1..Len(o) : Answer(o, i)
  BY <1>3 DEF Clean
<1> QED
  BY <1>2, <1>3

LEMMA TerminalInit == Init => Terminal
<1> SUFFICES ASSUME Init PROVE Terminal
  OBVIOUS
<1>1. stdin = <<>> /\ wire = <<>> /\ buf = <<>> /\ output = [c \in Callers |-> <<>>]
  BY DEF Init
<1>2. \A S : <<>> \in Seq(S)
  BY Empty
<1>3. /\ stdin \in Seq(Owed \union {Exit}) /\ wire \in Seq(OwedTokens) /\ buf \in Seq(OwedTokens)
      /\ output \in [Callers -> Seq(OwedTokens)]
  BY <1>1, <1>2
<1> QED
  BY <1>1, <1>3 DEF Init, Terminal, CliPoints

\* Steps away from the terminal.
LEMMA TerminalQuiet ==
  ASSUME Terminal, UNCHANGED <<sent, ptyVars, output>>, child' \in {child, None},
         \A c \in Callers : pc'[c] \notin Served => pc[c] \notin Served
  PROVE  Terminal'
<1>1. UNCHANGED <<tty, cli, stdin, wire, buf>>
  BY DEF ptyVars
<1>2. Owed' = Owed
  BY <1>1 DEF Owed, Sent, Count
<1>3. OwedTokens' = OwedTokens
  BY <1>2 DEF OwedTokens
<1> QED
  BY <1>1, <1>2, <1>3 DEF Terminal

\* Steps that leave what is owed as it is.
LEMMA TerminalSteady ==
  ASSUME Terminal, UNCHANGED <<sent, tty>>, child' \in {child, None},
         cli' \in [at : CliPoints, of : Owed \union {None}],
         stdin' \in Seq(Owed \union {Exit}), wire' \in Seq(OwedTokens),
         buf' \in Seq(OwedTokens), output' \in [Callers -> Seq(OwedTokens)],
         \A c \in Callers : pc'[c] \notin Served => output'[c] = <<>>
  PROVE  Terminal'
<1>1. Owed' = Owed
  BY DEF Owed, Sent, Count
<1>2. OwedTokens' = OwedTokens
  BY <1>1 DEF OwedTokens
<1> QED
  BY <1>1, <1>2 DEF Terminal

\* A new process is owed nothing, and nothing is left of the old one.
LEMMA TerminalSpawn ==
  ASSUME Terminal, NEW c \in Calls, Spawn(c), \A d \in Callers : pc[d] \notin Served
  PROVE  Terminal'
<1>1. /\ tty' = c /\ child' = c /\ cli' = [at |-> "loading", of |-> None]
      /\ stdin' = <<>> /\ wire' = <<>> /\ buf' = <<>> /\ output' = output
  BY DEF Spawn, NewTerminal
<1>2. output = [d \in Callers |-> <<>>]
  BY DEF Terminal
<1>3. \A S : <<>> \in Seq(S)
  BY Empty
<1>4. /\ stdin' \in Seq(Owed' \union {Exit}) /\ wire' \in Seq(OwedTokens')
      /\ buf' \in Seq(OwedTokens') /\ output' \in [Callers -> Seq(OwedTokens')]
  BY <1>1, <1>2, <1>3
<1> QED
  BY <1>1, <1>2, <1>4 DEF Terminal, CliPoints

\* The prompt is owed an answer as soon as it is sent.
LEMMA TerminalSend ==
  ASSUME Control, Control', Processes, Terminal, NEW c \in Calls, Send(c)
  PROVE  Terminal'
<1>p. PICK k \in Calls : child = k
  BY DEF Send, Goto, Control, ControlTypes, Callers, InSession
<1>1. /\ \A d \in Callers : pc'[d] = IF d = c THEN "read" ELSE pc[d]
      /\ sent' = [sent EXCEPT ![k] = Append(@, c)]
      /\ UNCHANGED <<child, tty, cli, buf, output>>
      /\ \/ stdin' = Append(stdin, c) /\ wire' = Append(wire, Echo(c))
         \/ UNCHANGED <<stdin, wire>>
  BY <1>p DEF Send, Goto, Control, ControlTypes
<1>2. tty = k /\ tty' = k
  BY <1>p, <1>1, CallersAssumption DEF Terminal
<1>3. Sent(k)' = Sent(k) \union {c}
  BY <1>1, SentGrows DEF Processes
<1>4. Owed = Sent(k) /\ Owed' = Sent(k)'
  BY <1>2, CallersAssumption DEF Owed, Sent, Count
<1>5. Owed \subseteq Owed' /\ c \in Owed' /\ OwedTokens \subseteq OwedTokens'
  BY <1>3, <1>4 DEF OwedTokens
<1>6. Echo(c) \in OwedTokens'
  BY <1>5, CallersAssumption DEF OwedTokens, Echo, Token
<1>7. stdin \in Seq(Owed' \union {Exit}) /\ wire \in Seq(OwedTokens') /\ buf \in Seq(OwedTokens')
  <2>1. Owed \union {Exit} \subseteq Owed' \union {Exit}
    BY <1>5
  <2> QED
    BY <1>5, <2>1, Wider DEF Terminal
<1>8. stdin' \in Seq(Owed' \union {Exit})
  <2>1. stdin' = stdin \/ stdin' = Append(stdin, c)
    BY <1>1
  <2> QED
    BY <1>5, <1>7, <2>1, Longer
<1>9. wire' \in Seq(OwedTokens')
  <2>1. wire' = wire \/ wire' = Append(wire, Echo(c))
    BY <1>1
  <2> QED
    BY <1>6, <1>7, <2>1, Longer
<1>10. output' \in [Callers -> Seq(OwedTokens')]
  <2>1. \A d \in Callers : output[d] \in Seq(OwedTokens)
    BY DEF Terminal
  <2>2. \A d \in Callers : output[d] \in Seq(OwedTokens')
    BY <1>5, <2>1, Wider
  <2> QED
    BY <1>1, <2>2 DEF Terminal
<1>11. cli' \in [at : CliPoints, of : Owed' \union {None}]
  BY <1>1, <1>5 DEF Terminal
<1>12. \A d \in Callers : pc'[d] \notin Served => output'[d] = <<>>
  BY <1>1 DEF Terminal, Served
<1> QED
  BY <1>1, <1>2, <1>7, <1>8, <1>9, <1>10, <1>11, <1>12 DEF Terminal

\* The request's own output goes when its span ends.
LEMMA TerminalSettled ==
  ASSUME Control, Terminal, NEW c \in Calls, pc[c] \notin {"start", "done"},
         UNCHANGED <<sent, ptyVars>>, child' \in {child, None},
         output' = [output EXCEPT ![c] = <<>>], \A d \in Callers \ {c} : pc'[d] = pc[d]
  PROVE  Terminal'
<1>1. \A d \in Callers \ {c} : output'[d] = output[d]
  BY DEF Terminal
<1>2. output' \in [Callers -> Seq(OwedTokens)] /\ output'[c] = <<>>
  <2>1. <<>> \in Seq(OwedTokens)
    BY Empty
  <2> QED
    BY <2>1 DEF Terminal, Callers
<1>3. \A d \in Callers : pc'[d] \notin Served => output'[d] = <<>>
  BY <1>1, <1>2 DEF Terminal
<1> QED
  BY <1>2, <1>3, TerminalSteady DEF Terminal, ptyVars

LEMMA TerminalAskToExit ==
  ASSUME Terminal, Control, NEW c \in Callers, AskToExit(c)
  PROVE  Terminal'
<1>1. stdin' = Append(stdin, Exit) /\ UNCHANGED <<child, output, sent, tty, cli, wire, buf>>
  BY DEF AskToExit
<1>2. stdin' \in Seq(Owed \union {Exit})
  BY <1>1, Longer DEF Terminal
<1>3. \A d \in Callers : pc'[d] \notin Served => pc[d] \notin Served
  BY DEF AskToExit, Goto, Control, ControlTypes, Served
<1> QED
  BY <1>1, <1>2, <1>3, TerminalSteady DEF Terminal

\* Loaded and Drain: what was on the terminal is gone.
LEMMA TerminalEmptied ==
  ASSUME Terminal, Control, NEW c \in Calls, Loaded(c) \/ Drain(c)
  PROVE  Terminal'
<1>1. wire' = <<>> /\ UNCHANGED <<child, output, sent, tty, cli, stdin, buf>>
  BY DEF Loaded, Drain
<1>2. wire' \in Seq(OwedTokens)
  BY <1>1, Empty
<1>3. \A d \in Callers : pc'[d] \notin Served => pc[d] \notin Served
  BY DEF Loaded, Drain, Goto, Control, ControlTypes, Served
<1> QED
  BY <1>1, <1>2, <1>3, TerminalSteady DEF Terminal

LEMMA TerminalFetch ==
  ASSUME Terminal, NEW c \in Calls, Fetch(c)
  PROVE  Terminal'
<1>1. PICK n \in 1..Len(wire) :
        buf' = buf \o SubSeq(wire, 1, n) /\ wire' = SubSeq(wire, n + 1, Len(wire))
  BY DEF Fetch
<1>2. SubSeq(wire, 1, n) \in Seq(OwedTokens) /\ wire' \in Seq(OwedTokens)
  BY <1>1, Cut DEF Terminal
<1>3. buf' \in Seq(OwedTokens)
  BY <1>1, <1>2, Joined DEF Terminal
<1>4. UNCHANGED <<pc, child, output, sent, tty, cli, stdin>>
  BY DEF Fetch, workerVars
<1> QED
  BY <1>2, <1>3, <1>4, TerminalSteady DEF Terminal

LEMMA TerminalRead ==
  ASSUME Terminal, Control, NEW c \in Calls, NEW n \in 1..Len(buf), ReadMore(c, n)
  PROVE  Terminal'
<1>1. /\ output' = [output EXCEPT ![c] = @ \o SubSeq(buf, 1, n)]
      /\ buf' = SubSeq(buf, n + 1, Len(buf))
      /\ UNCHANGED <<child, sent, tty, cli, stdin, wire>>
  BY DEF ReadMore
<1>2. SubSeq(buf, 1, n) \in Seq(OwedTokens) /\ buf' \in Seq(OwedTokens)
  BY <1>1, Cut DEF Terminal
<1>3. output[c] \o SubSeq(buf, 1, n) \in Seq(OwedTokens)
  BY <1>2, Joined DEF Terminal, Callers
<1>4. output' \in [Callers -> Seq(OwedTokens)] /\ \A d \in Callers \ {c} : output'[d] = output[d]
  BY <1>1, <1>3 DEF Terminal
<1>5. /\ pc' = [pc EXCEPT ![c] = "finish"] \/ pc' = [pc EXCEPT ![c] = "read"]
  BY DEF ReadMore, Goto
<1>6. \A d \in Callers : pc'[d] \notin Served => d # c /\ pc[d] \notin Served
  BY <1>5 DEF Control, ControlTypes, Served
<1> QED
  BY <1>1, <1>2, <1>4, <1>6, TerminalSteady DEF Terminal

LEMMA TerminalCli ==
  ASSUME Processes, Terminal, Cli
  PROVE  Terminal'
<1>1. UNCHANGED <<pc, child, output, sent, tty, buf>>
  BY DEF Cli, CliPrompts, CliTakes, CliAnswers, CliRates, CliDies, workerVars, ptyVars
<1>2. tty \in Calls \union {None} /\ cli.of \in Owed \union {None} /\ cli.at \in CliPoints
      /\ cli = [at |-> cli.at, of |-> cli.of]
  BY DEF Terminal
<1>3. ProcessTypes
  BY DEF Processes
<1>4. SUFFICES /\ cli' \in [at : CliPoints, of : Owed \union {None}]
               /\ stdin' \in Seq(Owed \union {Exit}) /\ wire' \in Seq(OwedTokens)
  BY <1>1, <1>4, TerminalSteady DEF Terminal
<1>5. CASE CliDies
  BY <1>5 DEF CliDies, ptyVars, Terminal
<1>6. CASE CliTakes
  <2>1. Head(stdin) \in Owed \union {Exit} /\ Tail(stdin) \in Seq(Owed \union {Exit})
    BY <1>6, Parts DEF CliTakes, Terminal
  <2>2. cli' = [at |-> "answering", of |-> Head(stdin)] /\ Head(stdin) \in Owed
    BY <1>6, <2>1 DEF CliTakes
  <2>3. stdin' = Tail(stdin) /\ wire' = wire
    BY <1>6 DEF CliTakes
  <2> QED
    BY <2>1, <2>2, <2>3 DEF Terminal, CliPoints
<1>7. CASE CliPrompts \/ CliAnswers \/ CliRates
  <2>1. \E tok \in {You, Text(cli.of), Rate(cli.of)} : wire' = Append(wire, tok)
    BY <1>7 DEF CliPrompts, CliAnswers, CliRates, Emit
  <2>2. {You, Text(cli.of), Rate(cli.of)} \subseteq OwedTokens
    BY <1>2, <1>3, TokensAreOwed
  <2>3. wire' \in Seq(OwedTokens)
    BY <2>1, <2>2, Longer DEF Terminal
  <2>4. /\ stdin' = stdin
        /\ \/ cli' = [at |-> "waiting", of |-> None] \/ cli' = [at |-> "prompting", of |-> None]
           \/ cli' = [cli EXCEPT !.at = "rating"]
    BY <1>7 DEF CliPrompts, CliAnswers, CliRates
  <2>5. cli' \in [at : CliPoints, of : Owed \union {None}]
    BY <1>2, <2>4 DEF CliPoints
  <2> QED
    BY <2>3, <2>4, <2>5 DEF Terminal
<1> QED
  BY <1>5, <1>6, <1>7 DEF Cli

LEMMA TerminalStep ==
  ASSUME Control, Control', Processes, Terminal, Next
  PROVE  Terminal'
<1> USE DEF Control, ControlTypes
<1>1. ASSUME NEW c \in Callers,
             Acquire(c) \/ AlreadyGone(c) \/ Kill(c) \/ Release(c)
               \/ (c \in Calls /\ Unavailable(c)) \/ (c \in Recyclers /\ Recycle(c))
      PROVE  Terminal'
  <2>1. UNCHANGED <<sent, ptyVars, output>> /\ child' \in {child, None}
    BY <1>1 DEF Acquire, AlreadyGone, Kill, Release, Unavailable, Recycle, BeginShutdown, DropHandle
  <2>2. pc[c] \notin Served
    BY <1>1 DEF Acquire, AlreadyGone, Kill, Release, Unavailable, Recycle, BeginShutdown, Goto, Served
  <2>3. \A d \in Callers \ {c} : pc'[d] = pc[d]
    BY <1>1 DEF Acquire, AlreadyGone, Kill, Release, Unavailable, Recycle, BeginShutdown, EndShutdown, Goto
  <2> QED
    BY <2>1, <2>2, <2>3, TerminalQuiet
<1>2. ASSUME NEW r \in Calls,
             CheckRecycle(r) \/ SpawnFails(r) \/ LoadFails(r) \/ CheckKeep(r) \/ EnsureRunning(r)
      PROVE  Terminal'
  <2>1. UNCHANGED <<sent, ptyVars, output>> /\ child' \in {child, None}
    BY <1>2 DEF CheckRecycle, SpawnFails, LoadFails, CheckKeep, EnsureRunning, BeginShutdown, DropHandle
  <2>2. pc[r] \notin Served
    BY <1>2 DEF CheckRecycle, SpawnFails, LoadFails, CheckKeep, EnsureRunning, BeginShutdown, Goto, Served
  <2>3. \A d \in Callers \ {r} : pc'[d] = pc[d]
    BY <1>2 DEF CheckRecycle, SpawnFails, LoadFails, CheckKeep, EnsureRunning, BeginShutdown, Goto
  <2> QED
    BY <2>1, <2>2, <2>3, TerminalQuiet
<1>3. ASSUME NEW r \in Calls, SendFails(r) \/ Timeout(r) \/ Finish(r) \/ FinishDead(r)
      PROVE  Terminal'
  <2>1. /\ UNCHANGED <<sent, ptyVars>> /\ child' \in {child, None}
        /\ output' = [output EXCEPT ![r] = <<>>]
    BY <1>3 DEF SendFails, Timeout, Fail, Finish, FinishDead, BeginShutdown, DropHandle
  <2>2. pc[r] \notin {"start", "done"} /\ \A d \in Callers \ {r} : pc'[d] = pc[d]
    BY <1>3 DEF SendFails, Timeout, Fail, Finish, FinishDead, BeginShutdown, Goto
  <2> QED
    BY <2>1, <2>2, TerminalSettled
<1>4. ASSUME NEW r \in Calls, Spawn(r) PROVE Terminal'
  <2>1. pc[r] = "ensure"
    BY <1>4 DEF Spawn, Goto
  <2>2. \A d \in Callers : pc[d] \notin Served
    BY <2>1, OneHolder DEF Served, Callers
  <2> QED
    BY <1>4, <2>2, TerminalSpawn
<1>5. ASSUME NEW r \in Calls, ReadLine(r) \/ ReadEof(r) PROVE Terminal'
  <2>1. \E n \in 1..Len(buf) : ReadMore(r, n)
    <3>1. CASE ReadLine(r)
      BY <3>1 DEF ReadLine
    <3>2. CASE ReadEof(r)
      <4>1. Len(buf) \in 1..Len(buf)
        <5>1. buf # <<>> /\ buf \in Seq(OwedTokens)
          BY <3>2 DEF ReadEof, Terminal
        <5> QED
          BY <5>1
      <4> QED
        BY <3>2, <4>1 DEF ReadEof
    <3> QED
      BY <1>5, <3>1, <3>2
  <2> QED
    BY <2>1, TerminalRead
<1> QED
  BY <1>1, <1>2, <1>3, <1>4, <1>5, TerminalAskToExit, TerminalEmptied, TerminalFetch,
     TerminalSend, TerminalCli
     DEF Next, InferStep, Shutdown, Callers

-----------------------------------------------------------------------------
(* The steps of the processes' layer                                       *)

LEMMA CleanIsCall ==
  ASSUME Processes, Terminal, NEW c \in Calls
  PROVE  Clean(output[c]) \in Owed \union {None} /\ Clean(output[c]) \in Calls \union {None}
<1>1. output[c] \in Seq(OwedTokens)
  BY DEF Terminal, Callers
<1>2. Owed \subseteq Calls
  BY OwedCalls DEF Processes, Terminal
<1> QED
  BY <1>1, <1>2, CleanIsOwed

LEMMA ProcessesStep ==
  ASSUME Control, Control', Processes, Terminal, Next
  PROVE  Processes'
<1>1. ASSUME NEW c \in Callers, Acquire(c) PROVE Processes'
  <2>1. /\ \E to \in {"check", "recycle"} : pc' = [pc EXCEPT ![c] = to]
        /\ pc[c] = "start" /\ UNCHANGED <<child, requestCount, closing, reply, procs, sent>>
    BY <1>1 DEF Acquire, Goto
  <2> QED
    BY <2>1, ProcessesMove
<1>2. ASSUME NEW c \in Callers, Release(c) PROVE Processes'
  BY <1>2, ProcessesMove DEF Release, Goto
<1>3. ASSUME NEW c \in Callers, AskToExit(c) PROVE Processes'
  BY <1>3, ProcessesMove DEF AskToExit, Goto
<1>4. ASSUME NEW r \in Calls,
             CheckKeep(r) \/ EnsureRunning(r) \/ Loaded(r) \/ Drain(r) PROVE Processes'
  <2>1. /\ UNCHANGED <<child, requestCount, closing, reply, procs, sent>>
        /\ \E to \in {"ensure", "drain", "send"} :
             /\ pc' = [pc EXCEPT ![r] = to]
             /\ \/ pc[r] = "check" /\ to = "ensure"
                \/ pc[r] \in {"ensure", "loading"} /\ to = "drain"
                \/ pc[r] = "drain" /\ to = "send"
    BY <1>4 DEF CheckKeep, EnsureRunning, Loaded, Drain, Goto
  <2> QED
    BY <2>1, ProcessesMove DEF Callers
<1>5. ASSUME NEW r \in Calls, ReadLine(r) \/ ReadEof(r) PROVE Processes'
  <2>1. /\ UNCHANGED <<child, requestCount, closing, reply, procs, sent>> /\ pc[r] = "read"
        /\ \E to \in {"read", "finish"} : pc' = [pc EXCEPT ![r] = to]
    BY <1>5 DEF ReadLine, ReadEof, ReadMore, Goto
  <2> QED
    BY <2>1, ProcessesMove DEF Callers
<1>6. ASSUME NEW r \in Calls, Fetch(r) PROVE Processes'
  BY <1>6, ProcessesCli DEF Fetch
<1>7. CASE Cli
  BY <1>7, ProcessesCli DEF Cli, CliPrompts, CliTakes, CliAnswers, CliRates, CliDies
<1>8. ASSUME NEW c \in Recyclers, Recycle(c) PROVE Processes'
  <2>1. reply' = reply /\ reply \in [Calls -> Reply \union {None}]
    BY <1>8 DEF Recycle, Processes, ProcessTypes
  <2> QED
    BY <1>8, <2>1, ProcessesShutdown DEF Recycle, Callers
<1>9. ASSUME NEW r \in Calls, CheckRecycle(r) PROVE Processes'
  <2>1. reply' = reply /\ reply \in [Calls -> Reply \union {None}]
    BY <1>9 DEF CheckRecycle, Processes, ProcessTypes
  <2> QED
    BY <1>9, <2>1, ProcessesShutdown DEF CheckRecycle, Callers
<1>10. ASSUME NEW r \in Calls,
              SpawnFails(r) \/ LoadFails(r) \/ SendFails(r) \/ Timeout(r) \/ FinishDead(r)
       PROVE  Processes'
  <2>1. /\ UNCHANGED <<procs, sent>>
        /\ \E from \in {"ensure", "loading", "send", "read", "finish"} :
             BeginShutdown(r, from, "release")
        /\ \E text \in {None, Clean(output[r])}, error \in {"start", "exception", "none"} :
             reply' = [reply EXCEPT ![r] = [text |-> text, error |-> error]]
    BY <1>10 DEF SpawnFails, LoadFails, SendFails, Timeout, Fail, FinishDead, Settle
  <2>2. /\ reply' \in [Calls -> Reply \union {None}]
        /\ \A d \in Calls \ {r} : reply'[d] = reply[d]
    BY <2>1, CleanIsCall DEF Processes, ProcessTypes, Reply
  <2> QED
    BY <2>1, <2>2, ProcessesShutdown DEF Callers
<1> QED
  BY <1>1, <1>2, <1>3, <1>4, <1>5, <1>6, <1>7, <1>8, <1>9, <1>10, ProcessesEnd,
     ProcessesUnavailable, ProcessesSpawn, ProcessesSend, ProcessesFinish, CleanIsCall
     DEF Next, InferStep, Shutdown

-----------------------------------------------------------------------------
(* Whose answer a call was given                                           *)

Before(text, r) ==
  \E p \in Calls : \E i, j \in 1..Count(p) : i < j /\ sent[p][i] = text /\ sent[p][j] = r

\* What was sent stays sent, in its order.
LEMMA BeforeStays ==
  ASSUME Control, Processes, Next, NEW text, NEW r \in Calls, Before(text, r)
  PROVE  Before(text, r)'
<1>1. CASE sent' = sent
  BY <1>1 DEF Before, Count
<1>2. ASSUME NEW c \in Calls, Send(c) PROVE Before(text, r)'
  <2>1. PICK k \in Calls : child = k
    BY <1>2 DEF Send, Goto, Control, ControlTypes, Callers, InSession
  <2>2. sent' = [sent EXCEPT ![k] = Append(@, c)]
    BY <1>2, <2>1 DEF Send
  <2>3. /\ \A q \in Calls \ {k} : sent'[q] = sent[q] /\ Count(q)' = Count(q)
        /\ Count(k)' = Count(k) + 1 /\ Count(k) \in Nat
        /\ \A n \in 1..Count(k) : sent'[k][n] = sent[k][n]
    BY <2>2, SentGrows DEF Processes, Count
  <2> QED
    BY <2>3 DEF Before
<1> QED
  BY <1>1, <1>2
     DEF Next, Acquire, Release, Shutdown, AskToExit, AlreadyGone, Kill, Unavailable, Recycle,
         InferStep, CheckRecycle, CheckKeep, EnsureRunning, Spawn, SpawnFails, Loaded, LoadFails,
         Drain, SendFails, Fail, Fetch, ReadLine, ReadEof, ReadMore, Timeout, Finish, FinishDead,
         Cli, CliPrompts, CliTakes, CliAnswers, CliRates, CliDies

\* A request ends with its prompt the last the process was given.
LEMMA ForeignIsBefore ==
  ASSUME Control, Processes, Terminal, NEW r \in Calls, pc[r] = "finish",
         Clean(output[r]) \notin {None, r}
  PROVE  Before(Clean(output[r]), r)
<1>1. PICK k \in Calls : child = k
  BY DEF Control, ControlTypes, InSession, Callers
<1>2. tty = k
  BY <1>1, CallersAssumption DEF Terminal
<1>3. Clean(output[r]) \in Sent(k)
  BY <1>1, <1>2, CleanIsCall, CallersAssumption DEF Owed
<1>4. PICK i \in 1..Count(k) : sent[k][i] = Clean(output[r])
  BY <1>3 DEF Sent
<1>5. sent[k][Count(k)] = r
  BY <1>1 DEF Processes, Counts, Served
<1>6. Count(k) \in Nat
  BY DEF Processes, ProcessTypes, Count
<1>7. i < Count(k) /\ Count(k) \in 1..Count(k)
  BY <1>4, <1>5, <1>6
<1> QED
  BY <1>4, <1>5, <1>7 DEF Before

LEMMA ForeignStep ==
  ASSUME Control, Processes, Terminal, Next, ForeignAnswerIsFromSameProcess
  PROVE  ForeignAnswerIsFromSameProcess'
<1> SUFFICES ASSUME NEW r \in Calls, NEW text, reply'[r] # None, text = reply'[r].text,
                    text \notin {None, r}
             PROVE  Before(text, r)'
  BY DEF ForeignAnswerIsFromSameProcess, Before
<1>1. CASE reply'[r] = reply[r]
  <2>1. Before(text, r)
    BY <1>1 DEF ForeignAnswerIsFromSameProcess, Before
  <2> QED
    BY <1>1, <2>1, BeforeStays
<1>2. CASE pc[r] = "finish" /\ reply'[r].text = Clean(output[r])
  <2>1. Before(text, r)
    BY <1>2, ForeignIsBefore
  <2> QED
    BY <1>2, <2>1, BeforeStays
<1>3. ASSUME NEW c \in Calls,
             Unavailable(c) \/ SpawnFails(c) \/ LoadFails(c) \/ SendFails(c) \/ Timeout(c)
      PROVE  reply'[r] = reply[r] \/ reply'[r].text = None
  BY <1>3 DEF Unavailable, SpawnFails, LoadFails, SendFails, Timeout, Fail, Settle, Processes, ProcessTypes
<1>4. ASSUME NEW c \in Calls, Finish(c) \/ FinishDead(c)
      PROVE  reply'[r] = reply[r] \/ (pc[r] = "finish" /\ reply'[r].text = Clean(output[r]))
  BY <1>4 DEF Finish, FinishDead, BeginShutdown, Goto, Settle, Processes, ProcessTypes
<1> QED
  BY <1>1, <1>2, <1>3, <1>4
     DEF Next, Acquire, Release, Shutdown, AskToExit, AlreadyGone, Kill, Recycle,
         InferStep, CheckRecycle, CheckKeep, EnsureRunning, Spawn, Loaded,
         Drain, Send, Fetch, ReadLine, ReadEof, ReadMore, workerVars,
         Cli, CliPrompts, CliTakes, CliAnswers, CliRates, CliDies

-----------------------------------------------------------------------------
(* The theorems                                                            *)

IInv == Control /\ Processes /\ Terminal /\ ForeignAnswerIsFromSameProcess

LEMMA Invariance == Spec => []IInv
<1>1. Init => IInv
  <2> SUFFICES ASSUME Init PROVE ForeignAnswerIsFromSameProcess
    BY ControlInit, ProcessesInit, TerminalInit DEF IInv
  <2> QED
    BY DEF Init, ForeignAnswerIsFromSameProcess
<1>2. IInv /\ [Next]_vars => IInv'
  <2> SUFFICES ASSUME IInv, [Next]_vars PROVE IInv'
    OBVIOUS
  <2>1. CASE Next
    BY <2>1, ControlStep, ProcessesStep, TerminalStep, ForeignStep DEF IInv
  <2>2. CASE UNCHANGED vars
    <3>1. UNCHANGED <<pc, lock, child, requestCount, closing, output, reply, procs, sent,
                      tty, cli, stdin, wire, buf>>
      BY <2>2 DEF vars, workerVars, ptyVars
    <3>2. Control'
      BY <3>1 DEF IInv, Control, ControlTypes
    <3>3. Processes'
      BY <3>1, ProcessesCli DEF IInv, workerVars
    <3>4. Terminal'
      BY <3>1, TerminalQuiet DEF IInv, ptyVars
    <3>5. ForeignAnswerIsFromSameProcess'
      BY <3>1 DEF IInv, ForeignAnswerIsFromSameProcess, Count
    <3> QED
      BY <3>2, <3>3, <3>4, <3>5 DEF IInv
  <2> QED
    BY <2>1, <2>2
<1> QED
  BY <1>1, <1>2, PTL DEF Spec

\* Every variable keeps its type (:34-58): in particular _request_count never
\* leaves 0..max_requests.
THEOREM TypeCorrect == Spec => []TypeOK
<1>1. IInv => TypeOK
  <2> SUFFICES ASSUME IInv PROVE TypeOK
    OBVIOUS
  <2>1. Owed \subseteq Calls /\ OwedTokens \subseteq Token
    BY OwedCalls DEF IInv, Processes, Terminal, OwedTokens
  <2>2. Owed \union {Exit} \subseteq Calls \union {Exit}
    BY <2>1
  <2>3. stdin \in Seq(Calls \union {Exit}) /\ wire \in Seq(Token) /\ buf \in Seq(Token)
    BY <2>1, <2>2, Wider DEF IInv, Terminal
  <2>4. \A c \in Callers : output[c] \in Seq(Token)
    <3>1. \A c \in Callers : output[c] \in Seq(OwedTokens)
      BY DEF IInv, Terminal
    <3> QED
      BY <2>1, <3>1, Wider
  <2>5. output \in [Callers -> Seq(Token)]
    BY <2>4 DEF IInv, Terminal
  <2>6. cli \in [at : CliPoints, of : Calls \union {None}]
    BY <2>1 DEF IInv, Terminal
  <2> QED
    BY <2>3, <2>5, <2>6
       DEF IInv, Control, ControlTypes, Processes, ProcessTypes, Terminal, TypeOK, CliPoints
<1> QED
  BY <1>1, Invariance, PTL

\* Timeouts, deaths, recycling and restarts never leave two models loaded
\* (:140-229), and lose none: of the handle and the callers that shut down, one
\* has the process.
THEOREM OneModelResidentCorrect == Spec => []OneModelResident
<1>1. IInv => OneModelResident
  <2> SUFFICES ASSUME IInv, NEW p \in Calls, NEW q \in Calls, procs[p] = "live", procs[q] = "live"
               PROVE  p = q
    BY DEF OneModelResident, IInv, Processes
  <2>1. \A x \in Calls : procs[x] = "live" =>
          child = x \/ \E c \in Callers : closing[c].proc = x /\ pc[c] \in Closing
    BY CallersAssumption DEF IInv, Processes, NoOrphan, Control
  <2>2. \A c, d \in Callers : pc[c] \in Closing /\ pc[d] \in Closing => c = d
    BY OneHolder DEF IInv, Closing
  <2>3. \A c \in Callers : pc[c] \in Closing => child = None
    BY DEF IInv, Control
  <2> QED
    BY <2>1, <2>2, <2>3, CallersAssumption
<1> QED
  BY <1>1, Invariance, PTL

\* No process is given more prompts than max_requests, failed requests
\* included (:103, :146-149).
THEOREM ServesAtMostMaxRequestsCorrect == Spec => []ServesAtMostMaxRequests
<1>1. IInv => ServesAtMostMaxRequests
  BY DEF IInv, Processes, Counts
<1> QED
  BY <1>1, Invariance, PTL

\* Between calls _request_count is what the warm process was really given
\* (:103, :159, :216).
THEOREM CountIsTrue == Spec => []CountIsTrueBetweenCalls
<1>1. IInv => CountIsTrueBetweenCalls
  <2> SUFFICES ASSUME IInv, lock = None
               PROVE  /\ child # None => requestCount = Count(child)
                      /\ child = None => requestCount = 0
    BY DEF CountIsTrueBetweenCalls
  <2>1. \A r \in Calls : pc[r] \notin Served
    BY CallersAssumption DEF IInv, Control, Served, Callers
  <2> QED
    BY <2>1 DEF IInv, Control, Processes, Counts
<1> QED
  BY <1>1, Invariance, PTL

\* Once a failed call has returned, the process it used is dead or survived
\* its kill, and no handle leads to it (:118-131, :212-229).
THEOREM FailedWorkerIsKilledCorrect == Spec => []FailedWorkerIsKilled
<1>1. IInv => FailedWorkerIsKilled
  <2> SUFFICES ASSUME IInv, NEW r \in Calls, NEW p \in Calls,
                      pc[r] = "done", reply[r] # None, reply[r].error = "exception",
                      r \in Sent(p)
               PROVE  procs[p] # "live" /\ child # p
    BY DEF FailedWorkerIsKilled
  <2>1. closing[r].proc = None
    BY DEF IInv, Control, Closing, Callers
  <2> QED
    BY <2>1, CallersAssumption DEF IInv, Processes, Failures
<1> QED
  BY <1>1, Invariance, PTL

\* An answer that went to the wrong call belongs to an earlier prompt of the
\* same process: a fresh process never hands out an old answer (:84-116).
THEOREM ForeignAnswersStayInProcess == Spec => []ForeignAnswerIsFromSameProcess
<1>1. IInv => ForeignAnswerIsFromSameProcess
  BY DEF IInv
<1> QED
  BY <1>1, Invariance, PTL
=============================================================================

--------------------------- MODULE StatelessProofs ----------------------------
(***************************************************************************)
(* Theorems about StatelessProvider, for any number of calls.              *)
(***************************************************************************)
EXTENDS StatelessProvider, TLAPS

\* Where a call stands, what that says of its process, and of its kills.
Lifecycle ==
  \A c \in Calls :
    /\ pc[c] \in {"start", "spawn"} => proc[c] = "unborn"
    /\ pc[c] = "judge" => proc[c] = "reaped"
    /\ pc[c] \notin {"collect", "done"} => signals[c] = 0
    /\ pc[c] = "collect" /\ Alive(c) => signals[c] = 1
    /\ pc[c] = "collect" => signals[c] <= 1

\* A process has a code once it ended, and zero only if it printed everything.
CodeIsTrue ==
  \A c \in Calls :
    /\ Alive(c) \/ proc[c] = "unborn" => code[c] = "none"
    /\ code[c] = "zero" => printed[c] = "whole"

IInv == TypeOK /\ Lifecycle /\ CodeIsTrue /\ CleanAnswerIsWhole /\ LeavesNothingBehind

-----------------------------------------------------------------------------
LEMMA InitInv == Init => IInv
BY CallsAssumption
DEF Init, IInv, TypeOK, Reply, Amount, Lifecycle, CodeIsTrue, CleanAnswerIsWhole,
    LeavesNothingBehind, Alive

-----------------------------------------------------------------------------
(* What the call does                                                      *)

LEMMA BeginInv ==
  ASSUME IInv, NEW c \in Calls, Unavailable(c) \/ Begin(c) \/ Spawn(c)
  PROVE  IInv'
<1> USE CallsAssumption DEF IInv, TypeOK, Answer, Goto
<1>1. TypeOK'
  BY DEF Unavailable, Begin, Spawn, provider, processes, Reply, Amount
<1>2. Lifecycle'
  BY DEF Unavailable, Begin, Spawn, provider, processes, Lifecycle, Alive
<1>3. CodeIsTrue'
  BY DEF Unavailable, Begin, Spawn, processes, Lifecycle, CodeIsTrue, Alive
<1>4. CleanAnswerIsWhole'
  BY DEF Unavailable, Begin, Spawn, CleanAnswerIsWhole, Reply
<1>5. LeavesNothingBehind'
  BY DEF Unavailable, Begin, Spawn, processes, Lifecycle, LeavesNothingBehind, Alive, Reply
<1> QED BY <1>1, <1>2, <1>3, <1>4, <1>5

LEMMA FinishInv ==
  ASSUME IInv, NEW c \in Calls, Finish(c)
  PROVE  IInv'
<1> USE CallsAssumption DEF IInv, TypeOK, Finish, Goto, Reaped
<1>1. TypeOK'
  OBVIOUS
<1>2. Lifecycle'
  BY DEF Lifecycle, Alive
<1>3. CodeIsTrue'
  BY DEF CodeIsTrue, Alive
<1>4. CleanAnswerIsWhole'
  BY DEF CleanAnswerIsWhole
<1>5. LeavesNothingBehind'
  BY DEF LeavesNothingBehind, Alive
<1> QED BY <1>1, <1>2, <1>3, <1>4, <1>5

LEMMA JudgeInv ==
  ASSUME IInv, NEW c \in Calls, Judge(c)
  PROVE  IInv'
<1> USE CallsAssumption DEF IInv, TypeOK, Judge, Answer, Goto, processes
<1>1. TypeOK'
  BY DEF Clean, ErrorOf, Reply, Amount
<1>2. Lifecycle'
  BY DEF Lifecycle, Alive
<1>3. CodeIsTrue'
  BY DEF CodeIsTrue, Alive
<1>4. CleanAnswerIsWhole'
  BY DEF CleanAnswerIsWhole, CodeIsTrue, Clean, ErrorOf
<1>5. LeavesNothingBehind'
  BY DEF LeavesNothingBehind, Lifecycle, Alive
<1> QED BY <1>1, <1>2, <1>3, <1>4, <1>5

LEMMA ExpireInv ==
  ASSUME IInv, NEW c \in Calls, Expire(c)
  PROVE  IInv'
<1> USE CallsAssumption DEF IInv, TypeOK, Expire, Goto, Kill, Reaped
<1>1. TypeOK'
  BY DEF Lifecycle
<1>2. Lifecycle'
  BY DEF Lifecycle, Alive
<1>3. CodeIsTrue'
  BY DEF CodeIsTrue, Alive
<1>4. CleanAnswerIsWhole'
  BY DEF CleanAnswerIsWhole
<1>5. LeavesNothingBehind'
  BY DEF LeavesNothingBehind, Alive
<1> QED BY <1>1, <1>2, <1>3, <1>4, <1>5

LEMMA CollectInv ==
  ASSUME IInv, NEW c \in Calls, Collect(c)
  PROVE  IInv'
<1> USE CallsAssumption DEF IInv, TypeOK, Collect, Answer, Goto, Reaped
<1>1. TypeOK'
  BY DEF Clean, Reply, Amount
<1>2. Lifecycle'
  BY DEF Lifecycle, Alive
<1>3. CodeIsTrue'
  BY DEF CodeIsTrue, Alive
<1>4. CleanAnswerIsWhole'
  BY DEF CleanAnswerIsWhole
<1>5. LeavesNothingBehind'
  BY DEF LeavesNothingBehind, Alive
<1> QED BY <1>1, <1>2, <1>3, <1>4, <1>5

\* An exception at any point: what is left of the process was sent a kill.
LEMMA AbandonInv ==
  ASSUME IInv, NEW c \in Calls, NEW from \in {"spawn", "talk", "collect", "judge"},
         Abandon(c, from)
  PROVE  IInv'
<1> USE CallsAssumption DEF IInv, TypeOK, Abandon, Answer, Goto, Kill, Reaped
<1>1. signals[c] \in 0..1
  BY DEF Lifecycle
<1>2. TypeOK'
  BY <1>1 DEF Reply, Amount
<1>3. Lifecycle'
  BY DEF Lifecycle, Alive
<1>4. CodeIsTrue'
  BY DEF CodeIsTrue, Alive
<1>5. CleanAnswerIsWhole'
  BY DEF CleanAnswerIsWhole
<1>6. LeavesNothingBehind'
  BY DEF LeavesNothingBehind, Alive
<1> QED BY <1>2, <1>3, <1>4, <1>5, <1>6

-----------------------------------------------------------------------------
(* What its process does                                                   *)

LEMMA ProcessInv ==
  ASSUME IInv, NEW c \in Calls, Process(c)
  PROVE  IInv'
<1> USE CallsAssumption DEF IInv, TypeOK, Process, Prints, Exits, Dies, Ends, Sticks, GetsOut,
                            provider
<1>1. TypeOK'
  BY DEF Amount
<1>2. Lifecycle'
  BY DEF Lifecycle, Alive
<1>3. CodeIsTrue'
  BY DEF CodeIsTrue, Alive
<1>4. CleanAnswerIsWhole'
  BY DEF CleanAnswerIsWhole
<1>5. LeavesNothingBehind'
  BY DEF LeavesNothingBehind, Alive
<1> QED BY <1>1, <1>2, <1>3, <1>4, <1>5

-----------------------------------------------------------------------------
LEMMA StepInv == IInv /\ [Next]_vars => IInv'
<1> SUFFICES ASSUME IInv, [Next]_vars PROVE IInv'
  OBVIOUS
<1>1. CASE UNCHANGED vars
  BY <1>1 DEF vars, provider, processes, IInv, TypeOK, Lifecycle, CodeIsTrue,
              CleanAnswerIsWhole, LeavesNothingBehind, Alive
<1>2. ASSUME NEW c \in Calls, InferStep(c) PROVE IInv'
  BY <1>2, BeginInv, FinishInv, JudgeInv, ExpireInv, CollectInv, AbandonInv
     DEF InferStep, SpawnFails, Break, Misread, GiveUp
<1> QED
  BY <1>1, <1>2, BeginInv, ProcessInv DEF Next

LEMMA Invariance == Spec => []IInv
BY InitInv, StepInv, PTL DEF Spec

-----------------------------------------------------------------------------
\* The state keeps its types: a process is killed at most twice
\* (rkllm_stateless.py:71, :96).
THEOREM TypeCorrect == Spec => []TypeOK
<1>1. IInv => TypeOK
  BY DEF IInv
<1> QED BY <1>1, Invariance, PTL

\* An answer without an error is whole, unless _clean cuts it (:80-93).
THEOREM CleanAnswersAreWhole == Spec => []CleanAnswerIsWhole
<1>1. IInv => CleanAnswerIsWhole
  BY DEF IInv
<1> QED BY <1>1, Invariance, PTL

\* What a call leaves behind was killed, and only an exception leaves anything
\* (:69-103).
THEOREM NothingIsLeftBehind == Spec => []LeavesNothingBehind
<1>1. IInv => LeavesNothingBehind
  BY DEF IInv
<1> QED BY <1>1, Invariance, PTL
=============================================================================

---------------------------- MODULE RouterProofs -----------------------------
(***************************************************************************)
(* Proofs about Router for every set of texts and messages, every          *)
(* threshold, and with or without either provider.                         *)
(*                                                                         *)
(* CallDiscipline and its companions are not inductive: why the fallback   *)
(* is the third call, say, depends on where in run() control is.  IInv     *)
(* adds what is true at each control point: how many calls were made, that *)
(* none of them was acceptable yet, and which of them `result` is.         *)
(***************************************************************************)
EXTENDS Router, TLAPS

NothingApproved == \A i \in 1..Len(calls) : ~Approved(i)

AtEachPoint ==
  /\ pc = "primary"   => attempt < 2 /\ Len(calls) = attempt /\ NothingApproved
  /\ pc = "fallback"  => Len(calls) = 2 /\ NothingApproved
  /\ pc = "giving_up" => Len(calls) \in {2, 3} /\ NothingApproved
  /\ pc \in {"fallback", "giving_up"} => result = calls[2].got
  /\ pc = "answered" <=> answer # NoAnswer

IInv ==
  /\ TypeOK
  /\ decision = Classify(msg)
  /\ AtEachPoint
  /\ CallDiscipline
  /\ ApprovedIsLastHeard
  /\ FailureOnlyAfterFullEffort

-----------------------------------------------------------------------------
(* Lemmas                                                                  *)

\* Every outcome of _infer is an InferenceResult of a known provider.
LEMMA OutcomesAreResults ==
  ASSUME NEW p \in Providers, NEW present, NEW r \in InferOutcomes(p, present)
  PROVE  r \in Result
<1>1. Unavailable \in Result
  BY TextsAssumption DEF Unavailable, Result, Errors, Names
<1>2. Said(p) \subseteq Result
  BY DEF Said, Result, Errors, Names
<1> QED
  BY <1>1, <1>2 DEF InferOutcomes

\* Classification yields a RoutingDecision; for a caller that passes objects
\* it follows the message.
LEMMA ClassifyIsDecision ==
  ASSUME NEW m \in AllMessages
  PROVE  /\ Classify(m) \in Decisions
         /\ m.form = "object" => Classify(m).expected_json = m.json
         /\ m.form = "object" /\ m.first = "risky" => ~Classify(m).fallback_allowed
BY DEF AllMessages, Classify, LastUser, Decisions, FirstWords

\* The history after one more call.
LEMMA OneMoreCall ==
  ASSUME NEW S, NEW s \in Seq(S), NEW e \in S
  PROVE  /\ Append(s, e) \in Seq(S)
         /\ Len(Append(s, e)) = Len(s) + 1
         /\ Append(s, e)[Len(s) + 1] = e
         /\ \A i \in 1..Len(s) : Append(s, e)[i] = s[i]
OBVIOUS

\* A sequence's elements, and the places of a sequence of three.
LEMMA Elements ==
  ASSUME NEW S, NEW s \in Seq(S)
  PROVE  \A i \in 1..Len(s) : s[i] \in S
OBVIOUS

LEMMA ThreePlaces == \A i \in 1..3 : i = 1 \/ i = 2 \/ i = 3
OBVIOUS

-----------------------------------------------------------------------------
(* The invariant holds initially                                           *)
LEMMA InitInvariant == Init => IInv
<1> SUFFICES ASSUME Init PROVE IInv
  OBVIOUS
<1>1. NoMessage \in AllMessages /\ Unavailable \in Result
  BY TextsAssumption
  DEF NoMessage, AllMessages, FirstWords, Unavailable, Result, Errors, Names
<1>2. TypeOK
  BY <1>1, ClassifyIsDecision DEF Init, TypeOK
<1> QED
  BY <1>2
  DEF Init, IInv, AtEachPoint, CallDiscipline, ApprovedIsLastHeard,
      FailureOnlyAfterFullEffort

-----------------------------------------------------------------------------
(* Every step preserves it                                                 *)

\* Entering run() forgets the previous request's calls.
LEMMA ArriveStep ==
  ASSUME IInv, NEW m \in Messages, Arrive(m)
  PROVE  IInv'
<1>1. m \in AllMessages /\ Classify(m) \in Decisions
  BY MessageAssumption, ClassifyIsDecision
<1>2. TypeOK' /\ answer' = NoAnswer
  BY <1>1 DEF IInv, TypeOK, Arrive, AtEachPoint
<1> QED
  BY <1>2
  DEF IInv, Arrive, AtEachPoint, CallDiscipline, ApprovedIsLastHeard,
      FailureOnlyAfterFullEffort, NothingApproved

\* A primary attempt: the loop goes on, is left, or run() returns.
LEMMA PrimaryStep ==
  ASSUME IInv, NEW r \in InferOutcomes("primary", HasPrimary), Primary(r)
  PROVE  IInv'
<1> DEFINE c == [by |-> "primary", got |-> r]
<1>1. /\ pc = "primary" /\ attempt' = attempt + 1 /\ result' = r
      /\ calls' = Append(calls, c) /\ UNCHANGED <<msg, decision>>
  BY DEF Primary, PrimaryError, PrimaryPoor, PrimaryGood, CallPrimary
<1>2. r \in Result /\ c \in Call
  BY OutcomesAreResults DEF Providers, Call
<1>3. attempt \in 0..1 /\ Len(calls) = attempt /\ NothingApproved /\ answer = NoAnswer
  BY <1>1 DEF IInv, TypeOK, AtEachPoint
<1>4. /\ calls' \in Seq(Call)
      /\ Len(calls') = attempt + 1 /\ calls'[attempt + 1] = c
      /\ \A i \in 1..attempt : calls'[i] = calls[i]
  BY <1>1, <1>2, <1>3, OneMoreCall DEF IInv, TypeOK
<1>5. TypeOK'
  BY <1>1, <1>2, <1>3, <1>4
  DEF IInv, TypeOK, Primary, PrimaryError, PrimaryPoor, PrimaryGood, LoopOrLeave
<1>6. \A i \in 1..Len(calls') : i < Len(calls') => ~Passed(calls'[i], decision.expected_json)
  BY <1>1, <1>3, <1>4 DEF NothingApproved, Approved
<1>7. \A i \in 1..Len(calls') : calls'[i].by = "primary"
  <2>1. \A i \in 1..attempt : calls[i].by = "primary"
    <3> SUFFICES ASSUME NEW i \in 1..attempt PROVE calls[i].by = "primary"
      OBVIOUS
    <3>1. i \in 1..Len(calls) /\ i # 3
      BY <1>3
    <3>2. calls[i] \in Call
      BY <3>1, Elements DEF IInv, TypeOK
    <3> QED
      BY <3>1, <3>2 DEF IInv, CallDiscipline, Call, Providers
  <2> QED
    BY <2>1, <1>3, <1>4
<1>8. CallDiscipline'
  BY <1>1, <1>3, <1>4, <1>6, <1>7 DEF CallDiscipline, Approved
<1>9. Passed(c, decision.expected_json) <=> r.error = "none" /\ Ok(r)
  BY DEF Passed, Ok
<1>10. CASE PrimaryError(r) \/ PrimaryPoor(r)
  <2>1. ~Passed(c, decision.expected_json) /\ answer' = answer /\ LoopOrLeave
    BY <1>9, <1>10 DEF PrimaryError, PrimaryPoor
  <2>2. NothingApproved'
    BY <2>1, <1>1, <1>4, <1>6, <1>3 DEF NothingApproved, Approved
  <2>3. AtEachPoint'
    BY <2>1, <2>2, <1>1, <1>3, <1>4 DEF AtEachPoint, LoopOrLeave
  <2> QED
    BY <2>1, <2>3, <1>1, <1>3, <1>5, <1>8
    DEF IInv, ApprovedIsLastHeard, FailureOnlyAfterFullEffort
<1>11. CASE PrimaryGood(r)
  <2>1. Passed(c, decision.expected_json) /\ answer' = r /\ pc' = "answered" /\ r.error = "none"
    BY <1>9, <1>11 DEF PrimaryGood
  <2>2. msg' \in AllMessages /\ decision' = Classify(msg')
    BY <1>1 DEF IInv, TypeOK
  <2>3. ApprovedIsLastHeard'
    <3>1. Len(calls') = attempt + 1 /\ calls'[Len(calls')] = c /\ calls' # <<>>
      BY <1>3, <1>4
    <3>2. Passed(c, decision'.expected_json)
      BY <2>1, <1>1
    <3>3. msg'.form = "object" => decision'.expected_json = msg'.json
      BY <2>2, ClassifyIsDecision
    <3> QED
      BY <2>1, <3>1, <3>2, <3>3 DEF ApprovedIsLastHeard, Approved, Passed
  <2>4. AtEachPoint'
    BY <2>1, <1>2, NoAnswerAssumption DEF AtEachPoint
  <2> QED
    BY <2>1, <2>2, <2>3, <2>4, <1>5, <1>8 DEF IInv, FailureOnlyAfterFullEffort
<1> QED
  BY <1>10, <1>11 DEF Primary

-----------------------------------------------------------------------------
\* The fallback's answer is believed or run() gives up.
LEMMA FallbackStep ==
  ASSUME IInv, NEW r \in InferOutcomes("fallback", HasFallback), Fallback(r)
  PROVE  IInv'
<1> DEFINE c == [by |-> "fallback", got |-> r]
<1>1. /\ pc = "fallback" /\ decision.fallback_allowed /\ HasFallback
      /\ calls' = Append(calls, c) /\ UNCHANGED <<msg, decision, attempt, result>>
  BY DEF Fallback, FallbackGood, FallbackPoor, CallFallback, FallbackAllowed
<1>2. r \in Result /\ c \in Call
  BY OutcomesAreResults DEF Providers, Call
<1>3. Len(calls) = 2 /\ NothingApproved /\ result = calls[2].got /\ answer = NoAnswer
  BY <1>1 DEF IInv, TypeOK, AtEachPoint
<1>4. /\ calls' \in Seq(Call)
      /\ Len(calls') = 3 /\ calls'[3] = c
      /\ calls'[1] = calls[1] /\ calls'[2] = calls[2]
  <2>1. calls \in Seq(Call)
    BY DEF IInv, TypeOK
  <2>2. /\ calls' \in Seq(Call) /\ Len(calls') = Len(calls) + 1
        /\ calls'[Len(calls) + 1] = c
        /\ \A i \in 1..Len(calls) : calls'[i] = calls[i]
    BY <2>1, <1>1, <1>2, OneMoreCall
  <2> QED
    BY <2>2, <1>3
<1>5. ~Passed(calls'[1], decision.expected_json) /\ ~Passed(calls'[2], decision.expected_json)
  BY <1>1, <1>3, <1>4 DEF NothingApproved, Approved
<1>6. calls'[1].by = "primary" /\ calls'[2].by = "primary"
  <2> calls \in Seq(Call)
    BY DEF IInv, TypeOK
  <2>1. calls[1] \in Call /\ calls[2] \in Call
    BY <1>3, Elements
  <2> QED
    BY <2>1, <1>3, <1>4 DEF IInv, CallDiscipline, Call, Providers
<1>7. msg' \in AllMessages /\ decision' = Classify(msg')
  BY <1>1 DEF IInv, TypeOK
<1>8. ~(msg'.form = "object" /\ msg'.first = "risky")
  BY <1>1, <1>7, ClassifyIsDecision
<1>9. CallDiscipline'
  BY <1>1, <1>4, <1>5, <1>6, <1>8, ThreePlaces DEF CallDiscipline, Approved
<1>10. CASE FallbackGood(r)
  <2>1. /\ answer' = [text |-> r.text, error |-> "none", provider |-> "fallback"]
        /\ pc' = "answered" /\ Passed(c, decision.expected_json)
    BY <1>1, <1>10 DEF FallbackGood, Believed, Approved, Passed, Ok
  <2>2. answer' \in Result
    BY <2>1, <1>2 DEF Result, Errors, Names, Providers
  <2>3. ApprovedIsLastHeard'
    <3>1. calls'[Len(calls')] = c /\ calls' # <<>>
      <4>1. Len(calls') = 3 /\ calls'[3] = c
        BY <1>4
      <4>2. calls' # <<>>
        BY <4>1
      <4> QED
        BY <4>1, <4>2
    <3>2. Passed(c, decision'.expected_json)
      BY <2>1, <1>1
    <3>3. msg'.form = "object" => decision'.expected_json = msg'.json
      BY <1>7, ClassifyIsDecision
    <3> QED
      BY <2>1, <3>1, <3>2, <3>3 DEF ApprovedIsLastHeard, Approved, Passed
  <2>4. TypeOK' /\ AtEachPoint'
    BY <2>1, <2>2, <1>1, <1>4, NoAnswerAssumption DEF IInv, TypeOK, AtEachPoint
  <2> QED
    BY <2>1, <2>3, <2>4, <1>7, <1>9 DEF IInv, FailureOnlyAfterFullEffort
<1>11. CASE FallbackPoor(r)
  <2>1. ~Passed(c, decision.expected_json) /\ pc' = "giving_up" /\ answer' = NoAnswer
    BY <1>1, <1>3, <1>11 DEF FallbackPoor, Believed, Approved, Passed, Ok, Acceptable
  <2>2. NothingApproved'
    BY <2>1, <1>1, <1>4, <1>5, ThreePlaces DEF NothingApproved, Approved
  <2>3. TypeOK' /\ AtEachPoint'
    BY <2>1, <2>2, <1>1, <1>3, <1>4 DEF IInv, TypeOK, AtEachPoint
  <2> QED
    BY <2>1, <2>3, <1>7, <1>9 DEF IInv, FailureOnlyAfterFullEffort, ApprovedIsLastHeard
<1> QED
  BY <1>10, <1>11 DEF Fallback

\* Giving up settles the answer; the history is what it was.
LEMMA OtherSteps ==
  ASSUME IInv, SkipFallback \/ GiveUp \/ Deliver \/ UNCHANGED vars
  PROVE  IInv'
<1>1. UNCHANGED <<msg, decision, attempt, result, calls>>
  BY DEF SkipFallback, GiveUp, Deliver, vars
<1>2. CallDiscipline' /\ (NothingApproved => NothingApproved')
  BY <1>1 DEF IInv, CallDiscipline, Approved, Passed, Ok, NothingApproved
<1>3. CASE SkipFallback \/ UNCHANGED vars
  BY <1>1, <1>2, <1>3
  DEF SkipFallback, vars, IInv, TypeOK, AtEachPoint, ApprovedIsLastHeard,
      FailureOnlyAfterFullEffort, Approved, Passed, Ok
<1>4. CASE Deliver
  BY <1>1, <1>2, <1>4
  DEF Deliver, IInv, TypeOK, AtEachPoint, ApprovedIsLastHeard, FailureOnlyAfterFullEffort
<1>5. CASE GiveUp
  <2>1. /\ Len(calls) \in {2, 3} /\ NothingApproved'
    BY <1>1, <1>2, <1>5 DEF IInv, AtEachPoint, GiveUp
  <2>2. answer' \in Result /\ answer'.error # "none" /\ pc' = "answered"
    BY <1>5, TextsAssumption DEF IInv, TypeOK, GiveUp, BareError, Result, Errors, Names
  <2>3. calls'[1].by = "primary" /\ calls'[2].by = "primary"
    <3>1. calls[1] \in Call /\ calls[2] \in Call
      BY <2>1, Elements DEF IInv, TypeOK
    <3> QED
      BY <3>1, <2>1, <1>1 DEF IInv, CallDiscipline, Call, Providers
  <2>4. TypeOK' /\ AtEachPoint'
    BY <2>2, <1>1, NoAnswerAssumption DEF IInv, TypeOK, AtEachPoint
  <2> QED
    BY <2>1, <2>2, <2>3, <2>4, <1>1, <1>2
    DEF IInv, ApprovedIsLastHeard, FailureOnlyAfterFullEffort, NothingApproved
<1> QED
  BY <1>3, <1>4, <1>5

\* IInv is inductive.
THEOREM Invariance == Spec => []IInv
<1>1. IInv /\ [Next]_vars => IInv'
  BY ArriveStep, PrimaryStep, FallbackStep, OtherSteps DEF Next, Step
<1> QED
  BY <1>1, InitInvariant, PTL DEF Spec

-----------------------------------------------------------------------------
(* The results                                                             *)

\* The state keeps the types of router.py's fields.
THEOREM TypeCorrect == Spec => []TypeOK
<1>1. IInv => TypeOK
  BY DEF IInv
<1> QED
  BY <1>1, Invariance, PTL

\* An error-free answer is the last thing heard and was accepted.
THEOREM ApprovedCorrect == Spec => []ApprovedIsLastHeard
<1>1. IInv => ApprovedIsLastHeard
  BY DEF IInv
<1> QED
  BY <1>1, Invariance, PTL

\* run() fails only after full effort.
THEOREM FailureCorrect == Spec => []FailureOnlyAfterFullEffort
<1>1. IInv => FailureOnlyAfterFullEffort
  BY DEF IInv
<1> QED
  BY <1>1, Invariance, PTL

\* At most three calls, the fallback last, nothing asked after approval.
THEOREM DisciplineCorrect == Spec => []CallDiscipline
<1>1. IInv => CallDiscipline
  BY DEF IInv
<1> QED
  BY <1>1, Invariance, PTL

-----------------------------------------------------------------------------
(* The arithmetic of the threshold                                         *)

\* What each detector deducts.
LEMMA Penalties ==
  ASSUME NEW counted
  PROVE  /\ Penalty("too_short", counted)       = IF "too_short" \in counted THEN 35 ELSE 0
         /\ Penalty("too_long", counted)        = IF "too_long" \in counted THEN 20 ELSE 0
         /\ Penalty("runtime_noise", counted)   = IF "runtime_noise" \in counted THEN 25 ELSE 0
         /\ Penalty("reasoning_trace", counted) = IF "reasoning_trace" \in counted THEN 20 ELSE 0
         /\ Penalty("repetition", counted)      = IF "repetition" \in counted THEN 35 ELSE 0
         /\ Penalty("garbled_text", counted)    = IF "garbled_text" \in counted THEN 30 ELSE 0
         /\ Penalty("invalid_json", counted)    = IF "invalid_json" \in counted THEN 45 ELSE 0
BY DEF Penalty, Deduction

\* Two defects cost at least 40 together.
LEMMA TwoDefectsCostForty ==
  ASSUME NEW counted \in SUBSET Defects,
         NEW d \in counted, NEW e \in counted, d # e
  PROVE  TotalPenalty(counted) >= 40
<1>1. d \in Defects /\ e \in Defects
  OBVIOUS
<1> QED
  BY <1>1, Penalties DEF TotalPenalty, Defects

\* No two defects fit under a threshold above 60, the default 65 among them.
THEOREM OneDefectCorrect ==
  ASSUME MinScore > 60
  PROVE  Spec => []ApprovedShowsAtMostOneDefect
<1>1. IInv => ApprovedShowsAtMostOneDefect
  <2> SUFFICES ASSUME IInv, answer # NoAnswer, answer.error = "none",
                      NEW d \in Counted(answer.text, decision.expected_json),
                      NEW e \in Counted(answer.text, decision.expected_json),
                      d # e
               PROVE  FALSE
    BY DEF ApprovedShowsAtMostOneDefect
  <2> DEFINE counted == Counted(answer.text, decision.expected_json)
  <2>1. answer.text \in AllTexts
    BY TextsAssumption DEF IInv, TypeOK, Result
  <2>2. counted \in SUBSET Defects
    BY <2>1 DEF Counted, AllTexts
  <2>3. TotalPenalty(counted) >= 40
    BY <2>2, TwoDefectsCostForty
  <2>4. Score(answer.text, decision.expected_json) >= MinScore
    BY DEF IInv, ApprovedIsLastHeard, Approved, Passed, Acceptable
  <2>5. TotalPenalty(counted) \in Int
    BY Penalties DEF TotalPenalty
  <2> QED
    BY <2>3, <2>4, <2>5, MinScoreAssumption DEF Score
<1> QED
  BY <1>1, Invariance, PTL

-----------------------------------------------------------------------------
(* Router implements InferenceContract                                     *)

\* The contract judges texts as the router does.
LEMMA SameJudgement ==
  ASSUME NEW t, NEW wantsJson
  PROVE  Contract!Acceptable(t, wantsJson) <=> Acceptable(t, wantsJson)
BY DEF Contract!Acceptable, Acceptable, Contract!Score, Score,
       Contract!TotalPenalty, TotalPenalty, Contract!Counted, Counted,
       Contract!Penalty, Penalty, Contract!Deduction, Deduction

Heard == {calls[i].got : i \in 1..Len(calls)}

\* One more call is one more result heard.
LEMMA HeardGrows ==
  ASSUME calls \in Seq(Call), NEW c \in Call, calls' = Append(calls, c)
  PROVE  Heard' = Heard \union {c.got}
<1>1. /\ Len(calls) \in Nat /\ Len(calls') = Len(calls) + 1
      /\ calls'[Len(calls) + 1] = c
      /\ \A i \in 1..Len(calls) : calls'[i] = calls[i]
  BY OneMoreCall
<1>2. 1..Len(calls') = 1..Len(calls) \union {Len(calls) + 1}
  BY <1>1
<1> QED
  BY <1>1, <1>2 DEF Heard

\* Each step of run() is a step of the contract or leaves it unchanged.
LEMMA PrimaryRefines ==
  ASSUME IInv, NEW r \in InferOutcomes("primary", HasPrimary), Primary(r)
  PROVE  Contract!Work
<1> DEFINE c == [by |-> "primary", got |-> r]
<1>1. /\ pc = "primary" /\ calls' = Append(calls, c) /\ UNCHANGED decision
  BY DEF Primary, PrimaryError, PrimaryPoor, PrimaryGood, CallPrimary
<1>2. r \in Result /\ c \in Call /\ c.got = r /\ calls \in Seq(Call)
  BY OutcomesAreResults DEF Providers, Call, IInv, TypeOK
<1>3. Heard' = Heard \union {r}
  BY <1>1, <1>2, HeardGrows
<1>4. Contract!Hear(r)
  BY <1>1, <1>3 DEF Contract!Hear, Heard
<1>5. CASE PrimaryError(r) \/ PrimaryPoor(r)
  <2>1. pc' \in {"primary", "fallback"} /\ answer' = answer
    BY <1>5 DEF PrimaryError, PrimaryPoor, LoopOrLeave
  <2>2. Contract!KeepTrying
    BY <2>1 DEF Contract!KeepTrying
  <2> QED
    BY <1>2, <1>4, <2>2 DEF Contract!Work
<1>6. CASE PrimaryGood(r)
  <2>1. /\ answer' = r /\ pc' = "answered" /\ r.error = "none"
        /\ Acceptable(answer'.text, decision.expected_json)
    BY <1>6 DEF PrimaryGood, Ok
  <2>2. r \in Heard'
    BY <1>3
  <2>3. Contract!Approve(answer')
    BY <2>1, <2>2, SameJudgement DEF Contract!Approve, Contract!Repeats, Heard
  <2> QED
    BY <1>2, <1>4, <2>1, <2>3 DEF Contract!Work, Contract!Settle
<1> QED
  BY <1>5, <1>6 DEF Primary

LEMMA FallbackRefines ==
  ASSUME IInv, NEW r \in InferOutcomes("fallback", HasFallback), Fallback(r)
  PROVE  Contract!Work
<1> DEFINE c == [by |-> "fallback", got |-> r]
<1>1. /\ pc = "fallback" /\ calls' = Append(calls, c) /\ UNCHANGED decision
  BY DEF Fallback, FallbackGood, FallbackPoor, CallFallback, FallbackAllowed
<1>2. r \in Result /\ c \in Call /\ c.got = r /\ calls \in Seq(Call)
  BY OutcomesAreResults DEF Providers, Call, IInv, TypeOK
<1>3. Heard' = Heard \union {r}
  BY <1>1, <1>2, HeardGrows
<1>4. Contract!Hear(r)
  BY <1>1, <1>3 DEF Contract!Hear, Heard
<1>5. CASE FallbackPoor(r)
  <2>1. pc' = "giving_up" /\ answer' = answer
    BY <1>5 DEF FallbackPoor
  <2>2. Contract!KeepTrying
    BY <2>1 DEF Contract!KeepTrying
  <2> QED
    BY <1>2, <1>4, <2>2 DEF Contract!Work
<1>6. CASE FallbackGood(r)
  <2>1. /\ answer' = [text |-> r.text, error |-> "none", provider |-> "fallback"]
        /\ pc' = "answered" /\ r.error = "none"
        /\ Acceptable(r.text, decision.expected_json)
    BY <1>6 DEF FallbackGood, Believed, Ok
  <2>2. r \in Heard'
    BY <1>3
  <2>3. Contract!Approve(answer')
    BY <2>1, <2>2, SameJudgement DEF Contract!Approve, Contract!Repeats, Heard
  <2> QED
    BY <1>2, <1>4, <2>1, <2>3 DEF Contract!Work, Contract!Settle
<1> QED
  BY <1>5, <1>6 DEF Fallback

LEMMA GiveUpRefines ==
  ASSUME IInv, GiveUp
  PROVE  Contract!GiveUp
<1>1. /\ pc = "giving_up" /\ pc' = "answered" /\ UNCHANGED <<decision, calls>>
  BY DEF GiveUp
<1>2. Len(calls) \in {2, 3} /\ result = calls[2].got
  BY <1>1 DEF IInv, AtEachPoint
<1>3. result \in Heard'
  BY <1>1, <1>2 DEF Heard
<1>4. CASE result.error = "none"
  <2>1. answer'.error = "low_quality" /\ answer'.text = result.text
    BY <1>4 DEF GiveUp, IInv, TypeOK, Result
  <2>2. Contract!Flag(answer')
    BY <2>1, <1>3, <1>4 DEF Contract!Flag, Contract!Repeats, Heard
  <2> QED
    BY <1>1, <2>1, <2>2 DEF Contract!GiveUp, Contract!Settle
<1>5. CASE result.error # "none"
  <2>1. answer'.error = "all_providers_failed" /\ answer'.text = Blank
    BY <1>5 DEF GiveUp, BareError
  <2>2. Contract!Refuse(answer')
    BY <2>1 DEF Contract!Refuse, Contract!Blank, Blank
  <2> QED
    BY <1>1, <2>1, <2>2 DEF Contract!GiveUp, Contract!Settle
<1> QED
  BY <1>4, <1>5

\* Router implements the contract.
THEOREM Refinement == Spec => ImplementsContract
<1>1. Init => Contract!Init
  BY DEF Init, NoMessage, Classify, LastUser, Contract!Init
<1>2. ASSUME IInv, [Next]_vars PROVE [Contract!Next]_(Contract!contractVars)
  <2>1. ASSUME NEW m \in Messages, Arrive(m) PROVE Contract!Ask
    <3>1. m \in AllMessages /\ Classify(m) \in Decisions
      BY MessageAssumption, ClassifyIsDecision
    <3>2. Len(calls') = 0
      BY <2>1 DEF Arrive
    <3> QED
      BY <2>1, <3>1, <3>2 DEF Arrive, Decisions, Contract!Ask
  <2>2. ASSUME Deliver PROVE Contract!Deliver
    BY <2>2 DEF Deliver, Contract!Deliver
  <2>3. ASSUME SkipFallback \/ UNCHANGED vars PROVE UNCHANGED Contract!contractVars
    BY <2>3 DEF SkipFallback, vars, Contract!contractVars
  <2> QED
    BY <1>2, <2>1, <2>2, <2>3, PrimaryRefines, FallbackRefines, GiveUpRefines
    DEF Next, Step, Contract!Next
<1> QED
  BY <1>1, <1>2, Invariance, PTL DEF Spec, ImplementsContract, Contract!Spec
=============================================================================

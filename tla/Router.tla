------------------------------- MODULE Router --------------------------------
(***************************************************************************)
(* ProductionRouter (src/core/router.py): run() normalises the messages,   *)
(* asks the primary provider at most twice, validates what it says, then   *)
(* asks the fallback once, and always answers.                             *)
(*                                                                         *)
(* One request after another: the server calls run() synchronously on its  *)
(* event loop.  Each action is one provider call with everything run()     *)
(* does up to the next one.                                                *)
(***************************************************************************)
EXTENDS OutputValidator, Sequences

CONSTANTS Texts,       \* the texts a provider can produce
          Messages,    \* the conversations callers send
          HasPrimary,  \* is self.primary set
          HasFallback, \* is self.fallback set
          NoAnswer

-----------------------------------------------------------------------------
Providers == {"primary", "fallback"}
Names     == Providers \union {"rkllm"}   \* "rkllm" is InferenceResult's default
Errors    == {"none", "provider_unavailable", "provider_error",
              "low_quality", "all_providers_failed"}

\* What _classify looks at: how the messages are represented, the first word
\* of the last user message and whether the message mentions JSON.
FirstWords  == {"none", "json", "directive", "risky", "other"}
AllMessages ==
  {m \in [form : {"object", "dict"}, first : FirstWords, json : BOOLEAN] :
     /\ m.first = "json" => m.json
     /\ m.first = "none" => ~m.json}

ASSUME TextsAssumption   == Blank \in Texts /\ Texts \subseteq AllTexts
ASSUME MessageAssumption == Messages \subseteq AllMessages
ASSUME ProviderAssumption == HasPrimary \in BOOLEAN /\ HasFallback \in BOOLEAN

Result == [text : Texts, error : Errors, provider : Names]

ASSUME NoAnswerAssumption == NoAnswer \notin Result

\* getattr() finds no role in a dict, so the last user message is then "".
LastUser(m) ==
  IF m.form = "object" THEN m ELSE [m EXCEPT !.first = "none", !.json = FALSE]

Classify(m) ==
  [expected_json    |-> LastUser(m).json,
   fallback_allowed |-> LastUser(m).first # "risky"]

\* _infer: no provider, or one that is not available, is an error result; a
\* provider that fails may have partial text.
Unavailable == [text |-> Blank, error |-> "provider_unavailable", provider |-> "rkllm"]

Said(p) == [text : Texts, error : {"none", "provider_error"}, provider : {p}]

InferOutcomes(p, present) == {Unavailable} \union (IF present THEN Said(p) ELSE {})

VARIABLES
  pc,       \* "idle" | "primary" | "fallback" | "giving_up" | "answered"
  msg,      \* the messages of the request (as the caller sent them)
  decision, \* RoutingDecision
  attempt,
  result,   \* the latest primary result
  calls,    \* history: the results of this request's provider calls
  answer    \* what run() returns

vars == <<pc, msg, decision, attempt, result, calls, answer>>

Call      == [by : Providers, got : Result]
Decisions == [expected_json : BOOLEAN, fallback_allowed : BOOLEAN]

TypeOK ==
  /\ pc \in {"idle", "primary", "fallback", "giving_up", "answered"}
  /\ msg \in AllMessages
  /\ decision \in Decisions
  /\ attempt \in 0..2
  /\ result \in Result
  /\ calls \in Seq(Call)
  /\ answer \in Result \union {NoAnswer}

\* The conversation the model starts from before any request came.
NoMessage == [form |-> "object", first |-> "none", json |-> FALSE]

Init ==
  /\ pc = "idle"
  /\ msg = NoMessage
  /\ decision = Classify(NoMessage)
  /\ attempt = 0
  /\ result = Unavailable
  /\ calls = <<>>
  /\ answer = NoAnswer

Ok(r) == Acceptable(r.text, decision.expected_json)

-----------------------------------------------------------------------------
(* A caller enters run().                                                  *)
Arrive(m) ==
  /\ pc = "idle"
  /\ pc' = "primary"
  /\ msg' = m
  /\ decision' = Classify(m)
  /\ attempt' = 0
  /\ calls' = <<>>
  /\ UNCHANGED <<result, answer>>

(* The retry loop, attempt by attempt.                                     *)
\* Mutant: only successful calls count as attempts.
CallPrimary_ErrorsAreFree(r) ==
  /\ pc = "primary"
  /\ r \in InferOutcomes("primary", HasPrimary)
  /\ attempt' = IF r.error = "none" THEN attempt + 1 ELSE attempt
  /\ result' = r
  /\ calls' = IF r.error = "none" THEN Append(calls, [by |-> "primary", got |-> r]) ELSE calls
  /\ UNCHANGED <<msg, decision>>

CallPrimary(r) ==
  /\ pc = "primary"
  /\ r \in InferOutcomes("primary", HasPrimary)
  /\ attempt' = attempt + 1
  /\ result' = r
  /\ calls' = Append(calls, [by |-> "primary", got |-> r])
  /\ UNCHANGED <<msg, decision>>

\* Mutants: one attempt too many; no retry.
LoopOrLeave_OneMore == pc' = IF attempt' <= 2 THEN "primary" ELSE "fallback"
LoopOrLeave_NoRetry == pc' = "fallback"

\* while attempt < 2
LoopOrLeave == pc' = IF attempt' < 2 THEN "primary" ELSE "fallback"

PrimaryError(r) ==
  /\ CallPrimary(r)
  /\ r.error # "none"
  /\ LoopOrLeave
  /\ UNCHANGED answer

PrimaryPoor(r) ==
  /\ CallPrimary(r)
  /\ r.error = "none"
  /\ ~Ok(r)
  /\ LoopOrLeave
  /\ UNCHANGED answer

PrimaryGood(r) ==
  /\ CallPrimary(r)
  /\ r.error = "none"
  /\ Ok(r)
  /\ answer' = r
  /\ pc' = "answered"

(* The fallback: skipped by classification, absence or unavailability, or  *)
(* called once and believed only when the validator accepts its text.      *)
SkipFallback ==
  /\ pc = "fallback"
  /\ pc' = "giving_up"
  /\ UNCHANGED <<msg, decision, attempt, result, calls, answer>>

FallbackAllowed_Always == HasFallback   \* mutant: the classification is not asked

FallbackAllowed == decision.fallback_allowed /\ HasFallback

CallFallback(r) ==
  /\ pc = "fallback"
  /\ FallbackAllowed
  /\ r \in InferOutcomes("fallback", HasFallback)
  /\ calls' = Append(calls, [by |-> "fallback", got |-> r])
  /\ UNCHANGED <<msg, decision, attempt, result>>

Believed(r) == ~r.text.blank /\ r.error = "none" /\ Ok(r)

FallbackGood(r) ==
  /\ CallFallback(r)
  /\ Believed(r)
  /\ answer' = [text |-> r.text, error |-> "none", provider |-> "fallback"]
  /\ pc' = "answered"

FallbackPoor(r) ==
  /\ CallFallback(r)
  /\ ~Believed(r)
  /\ pc' = "giving_up"
  /\ UNCHANGED answer

(* Nothing passed: the last primary result, flagged, or a bare error.      *)
BareError_PartialText ==   \* mutant: the failed call's partial text slips out
  [text |-> result.text, error |-> "all_providers_failed", provider |-> "rkllm"]

BareError ==
  [text |-> Blank, error |-> "all_providers_failed", provider |-> "rkllm"]

GiveUp ==
  /\ pc = "giving_up"
  /\ answer' = IF result.error = "none" THEN [result EXCEPT !.error = "low_quality"]
                                        ELSE BareError
  /\ pc' = "answered"
  /\ UNCHANGED <<msg, decision, attempt, result, calls>>

(* run() returns to its caller.                                            *)
Deliver ==
  /\ pc = "answered"
  /\ pc' = "idle"
  /\ answer' = NoAnswer
  /\ UNCHANGED <<msg, decision, attempt, result, calls>>

Primary(r)  == PrimaryError(r) \/ PrimaryPoor(r) \/ PrimaryGood(r)
Fallback(r) == FallbackGood(r) \/ FallbackPoor(r)
Step ==
  \/ SkipFallback \/ GiveUp \/ Deliver
  \/ \E r \in InferOutcomes("primary", HasPrimary)  : Primary(r)
  \/ \E r \in InferOutcomes("fallback", HasFallback) : Fallback(r)

Next == Step \/ \E m \in Messages : Arrive(m)

Spec == Init /\ [][Next]_vars

\* Every provider call returns, and run() goes on after it; callers owe nothing.
FairSpec == Spec /\ WF_vars(Step)

-----------------------------------------------------------------------------
(* Properties                                                              *)

Passed(c, wantsJson) == c.got.error = "none" /\ Acceptable(c.got.text, wantsJson)

Approved(i) == Passed(calls[i], decision.expected_json)

\* An error-free answer is, word for word, the last thing a provider said in
\* this request, and the validator accepted it under the format the caller's
\* own message asks for (router.py:107 and :124 are the only ways out).
ApprovedIsLastHeard ==
  answer # NoAnswer /\ answer.error = "none" =>
    /\ calls # <<>>
    /\ answer.text = calls[Len(calls)].got.text
    /\ Approved(Len(calls))
    /\ msg.form = "object" => Acceptable(answer.text, msg.json)

\* An error-free answer shows at most one defect: no two deductions of
\* validate() fit under the default threshold together (output_validator.py:32-61).
ApprovedShowsAtMostOneDefect ==
  answer # NoAnswer /\ answer.error = "none" =>
    \A d, e \in Counted(answer.text, decision.expected_json) : d = e

\* run() reports a failure only after full effort: both primary attempts were
\* made and nothing heard in the request was acceptable (router.py:90-132).
FailureOnlyAfterFullEffort ==
  answer # NoAnswer /\ answer.error # "none" =>
    /\ Len(calls) >= 2
    /\ calls[1].by = "primary" /\ calls[2].by = "primary"
    /\ \A i \in 1..Len(calls) : ~Approved(i)

\* The calls of one request: at most three, nothing is asked once something
\* acceptable was said, and the fallback comes third or not at all, for a
\* request that was not recognised as risky (router.py:90-120).
CallDiscipline ==
  /\ Len(calls) <= 3
  /\ \A i \in 1..Len(calls) : i < Len(calls) => ~Approved(i)
  /\ \A i \in 1..Len(calls) :
       /\ calls[i].by = "fallback" <=> i = 3
       /\ i = 3 => HasFallback /\ ~(msg.form = "object" /\ msg.first = "risky")

\* run() keeps the promise of InferenceContract: its steps are steps of the
\* contract, with the results heard so far as the set the answer is taken from.
Contract == INSTANCE InferenceContract WITH
  Results   <- Result,
  phase     <- IF pc \in {"idle", "answered"} THEN pc ELSE "working",
  wantsJson <- decision.expected_json,
  heard     <- {calls[i].got : i \in 1..Len(calls)}

ImplementsContract == Contract!Spec

\* Every request that enters run() is answered (router.py:74-148).
EveryRequestAnswered == pc = "primary" ~> pc = "answered"

\* router.py:134 "Nothing passed -> return the best attempt with an
\* indicator": no error-free attempt of the primary scored above the answer.
BestAttemptReturned ==
  answer # NoAnswer /\ answer.error # "none" =>
    \A i \in 1..Len(calls) :
      calls[i].by = "primary" /\ calls[i].got.error = "none" =>
        Score(calls[i].got.text, decision.expected_json)
          <= Score(answer.text, decision.expected_json)

\* A message that mentions JSON expects JSON (router.py:160) and invalid JSON
\* is one of the failure modes caught "before returning output to users"
\* (output_validator.py:19), however the caller represents its messages.
JsonRequestsGetJson ==
  answer # NoAnswer /\ answer.error = "none" /\ msg.json =>
    "invalid_json" \notin answer.text.shows
=============================================================================

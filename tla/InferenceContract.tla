-------------------------- MODULE InferenceContract --------------------------
(***************************************************************************)
(* What ProductionRouter.run promises its caller, whatever providers and   *)
(* retry policy stand behind it: one answer per request; an error-free     *)
(* answer repeats an error-free result heard from a provider during this   *)
(* very request, whose text the validator accepts; an answer marked        *)
(* low-quality repeats the text of such a result; any other failure        *)
(* carries no text at all.                                                 *)
(***************************************************************************)
EXTENDS OutputValidator

CONSTANTS Results,   \* the InferenceResults a provider call can yield
          NoAnswer   \* no answer yet

VARIABLES phase,     \* "idle" | "working" | "answered"
          wantsJson, \* is the answer expected to be JSON
          heard,     \* the results heard from providers in this request
          answer

contractVars == <<phase, wantsJson, heard, answer>>

Init ==
  /\ phase = "idle"
  /\ wantsJson = FALSE
  /\ heard = {}
  /\ answer = NoAnswer

Ask ==
  /\ phase = "idle"
  /\ phase' = "working"
  /\ wantsJson' \in BOOLEAN
  /\ heard' = {}
  /\ UNCHANGED answer

\* A provider speaks; the answer may be settled by what it says.
Hear(r) ==
  /\ phase = "working"
  /\ heard' = heard \union {r}
  /\ UNCHANGED wantsJson

Repeats(a, r) ==
  /\ r \in heard'
  /\ r.error = "none"
  /\ a.text = r.text

Approve(a) ==
  /\ a.error = "none"
  /\ Acceptable(a.text, wantsJson)
  /\ \E r \in heard' : Repeats(a, r)

Flag(a) ==
  /\ a.error = "low_quality"
  /\ \E r \in heard' : Repeats(a, r)

Refuse(a) ==
  /\ a.error = "all_providers_failed"
  /\ a.text = Blank

Settle ==
  /\ phase' = "answered"
  /\ \/ Approve(answer')
     \/ Flag(answer')
     \/ Refuse(answer')

KeepTrying == phase' = "working" /\ UNCHANGED answer

Work == \E r \in Results : Hear(r) /\ (Settle \/ KeepTrying)

GiveUp ==
  /\ phase = "working"
  /\ UNCHANGED <<heard, wantsJson>>
  /\ Settle
  /\ answer'.error # "none"

Deliver ==
  /\ phase = "answered"
  /\ phase' = "idle"
  /\ answer' = NoAnswer
  /\ UNCHANGED <<wantsJson, heard>>

Next == Ask \/ Work \/ GiveUp \/ Deliver

Spec == Init /\ [][Next]_contractVars
=============================================================================

------------------------------ MODULE MCRouter -------------------------------
(***************************************************************************)
(* Instances of Router for TLC.                                            *)
(***************************************************************************)
EXTENDS Router

Text(shows) == [blank |-> FALSE, shows |-> shows]

\* One text per verdict: nothing, a clean answer, one defect exactly at the
\* threshold, prose where JSON was asked for, the two lightest defects
\* together (just below it), and a score of nearly 0.
SampleTexts ==
  {Blank, Text({}), Text({"repetition"}), Text({"invalid_json"}),
   Text({"too_long", "reasoning_trace"}),
   Text({"repetition", "runtime_noise", "garbled_text"})}

\* Recognised and unrecognised risky, JSON and ordinary conversations.
SampleMessages ==
  {m \in AllMessages : m.first \in {"risky", "other"}}
=============================================================================

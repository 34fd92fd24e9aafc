--------------------------- MODULE OutputValidator ---------------------------
(***************************************************************************)
(* OutputValidator (src/core/output_validator.py): the score that decides  *)
(* whether a model output may be returned.                                 *)
(*                                                                         *)
(* A text is abstracted to what validate() tells apart: whether it is      *)
(* blank once stripped, and which of the seven defects its detectors see   *)
(* in it.  Scores are in hundredths; the code's floats agree with them on  *)
(* every combination of defects.                                           *)
(***************************************************************************)
EXTENDS Integers

CONSTANT MinScore   \* min_score, in hundredths (65 by default)

ASSUME MinScoreAssumption == MinScore \in 1..100

-----------------------------------------------------------------------------
Defects == {"too_short", "too_long", "runtime_noise", "reasoning_trace",
            "repetition", "garbled_text", "invalid_json"}

\* Mutant: a misplaced decimal point (0.02 for 0.2).
Deduction_Typo == [too_short       |-> 35, too_long   |-> 20, runtime_noise |-> 25,
                   reasoning_trace |-> 2,  repetition |-> 35, garbled_text  |-> 30,
                   invalid_json    |-> 45]

Deduction == [too_short       |-> 35, too_long   |-> 20, runtime_noise |-> 25,
              reasoning_trace |-> 20, repetition |-> 35, garbled_text  |-> 30,
              invalid_json    |-> 45]

\* The texts there are.  One or two characters cannot hold a noise marker, a
\* phrase or twenty words, and such a text with a control character in it
\* is no JSON document.
AllTexts ==
  {t \in [blank : BOOLEAN, shows : SUBSET Defects] :
     /\ t.blank => t.shows = {}
     /\ "too_short" \in t.shows =>
          t.shows \in {{"too_short"}, {"too_short", "invalid_json"},
                       {"too_short", "garbled_text", "invalid_json"}}}

Blank == [blank |-> TRUE, shows |-> {}]

-----------------------------------------------------------------------------
\* The defects that count: invalid JSON only when JSON was asked for.
Counted(t, wantsJson) ==
  IF wantsJson THEN t.shows ELSE t.shows \ {"invalid_json"}

Penalty(d, counted) == IF d \in counted THEN Deduction[d] ELSE 0

TotalPenalty(counted) ==
    Penalty("too_short", counted)     + Penalty("too_long", counted)
  + Penalty("runtime_noise", counted) + Penalty("reasoning_trace", counted)
  + Penalty("repetition", counted)    + Penalty("garbled_text", counted)
  + Penalty("invalid_json", counted)

\* The score, clamped at 0 (it never exceeds 100).
Score(t, wantsJson) ==
  LET left == 100 - TotalPenalty(Counted(t, wantsJson))
  IN  IF t.blank \/ left < 0 THEN 0 ELSE left

\* ValidationResult.ok: an empty output is refused whatever the threshold.
Acceptable(t, wantsJson) == ~t.blank /\ Score(t, wantsJson) >= MinScore
=============================================================================

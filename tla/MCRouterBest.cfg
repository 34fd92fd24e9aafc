SPECIFICATION Spec

CONSTANTS
  MinScore = 65
  NoAnswer = NoAnswer
  Texts <- SampleTexts
  Messages <- SampleMessages
  HasPrimary = TRUE
  HasFallback = FALSE

INVARIANTS
  BestAttemptReturned

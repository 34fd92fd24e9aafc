SPECIFICATION FairSpec

CONSTANTS
  MinScore = 65
  NoAnswer = NoAnswer
  Texts <- SampleTexts
  Messages <- SampleMessages
  HasPrimary = TRUE
  HasFallback = TRUE

INVARIANTS
  TypeOK
  FailureOnlyAfterFullEffort
  CallDiscipline
  ApprovedShowsAtMostOneDefect

PROPERTIES
  ImplementsContract
  EveryRequestAnswered

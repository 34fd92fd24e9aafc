SPECIFICATION FairSpec

CONSTANTS
  r1 = r1
  r2 = r2
  None = None
  Requests = {r1, r2}
  Services = {"traefik", "postgres"}
  Restartable = {"traefik"}
  Configured = {"gateway"}
  MaxDocs = 2
  Excerpt <- SampleExcerpts
  Window = 2
  Asks <- SampleAsks

INVARIANTS
  TypeOK
  InflightIsExact
  CountersTellWhatClientsGot
  OnlyAllowlistReachesShell
  QuestionReachesModel
  GroundingReachesModel

PROPERTIES
  EveryRequestEnds
  StopReleases
  DoneOnce

\* The server stops, or never starts.
CHECK_DEADLOCK FALSE

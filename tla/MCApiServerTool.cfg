SPECIFICATION Spec

CONSTANTS
  r1 = r1
  r2 = r2
  None = None
  Requests = {r1, r2}
  Services = {"traefik", "postgres"}
  Restartable = {"traefik"}
  Configured = {"gateway"}
  MaxDocs = 2
  Excerpt <- SampleExcerpts
  Window = 2
  Asks <- SampleAsks

INVARIANTS
  ToolOutputReachesModel

CHECK_DEADLOCK FALSE

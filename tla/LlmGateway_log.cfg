\* A stream whose call fails, whose body breaks or whose consumer stops is not
\* logged; of a frame cut between its two lines nothing is handed on.
\* By hand, with -continue to see each property violated: see README.md.
SPECIFICATION Spec
CONSTANTS
  Requests = {r}
  RateLimit = 1
  MaxRetries = 1
  Frames = 1
  MaxFaults = 1
INVARIANTS
  EveryCallIsLogged
  EveryFrameIsHandedOn
CHECK_DEADLOCK FALSE

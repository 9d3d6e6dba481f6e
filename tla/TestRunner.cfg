SPECIFICATION FairSpec
CONSTANTS
  NumJobs = 3
  Suites = {1, 2}
  Skips = {2}
  Workers = {"w1", "w2"}
  Report = TRUE
  Undecodable = TRUE
  WorkerMayDie = TRUE
CHECK_DEADLOCK FALSE
INVARIANTS
  TypeOK
  OncePerJob
  SuccessIsReal
PROPERTIES
  SessionImplemented
  Ends

CONSTANTS
  Threads = 2
  Tests = 3
  Suites = {"a", "b"}
  suite <- MCSuite
  supportsOffscreen = {1, 3}
  failureExpected = {3}
  Commands <- MCCommands
  Nobody = Nobody
SPECIFICATION Spec
INVARIANT Successful
PROPERTY EndsCleanly

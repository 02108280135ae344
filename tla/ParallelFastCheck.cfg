SPECIFICATION Spec
CONSTANTS
  vnumber = 2
  NUM_TEST_CASES = 3
  WordSize = 5
  Concurrency = {0, 1, 2}
  Differences <- SomeDifferences
  Unset = Unset
INVARIANTS
  TypeOK
  NoThreadOutlivesCall
  VerdictMatchesSamples
  AllSamplesTested
PROPERTIES
  NeverForgotten
  Returns
CHECK_DEADLOCK FALSE

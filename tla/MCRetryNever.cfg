SPECIFICATION RetrySpec
INVARIANTS
  NeverMeansNever

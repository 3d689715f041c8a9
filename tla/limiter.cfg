SPECIFICATION Spec
CONSTANTS
  Thread = {t1, t2, t3}
  MaxAttempts = 3
  Window = 2
  MaxDelay = 1
INVARIANT TypeOK
INVARIANT FailuresCountForAWindow
INVARIANT FewFailures
PROPERTY LockoutEnds

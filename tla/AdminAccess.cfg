SPECIFICATION Spec
CONSTANTS
  t1 = t1
  t2 = t2
  Tabs <- TwoTabs
  LoginMaxFailures = 2
  LoginBaseLockout = 1
  LoginMaxLockout = 2
  MaxTokens = 2
INVARIANTS
  TypeOK
  WorkBounded
  OutMeansOut
PROPERTY
  LockoutEnds

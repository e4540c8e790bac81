SPECIFICATION Spec
CONSTANTS
  c1 = c1
  c2 = c2
  own = own
  other = other
  wrong = wrong
  NoUser = NoUser
  Caller <- MCCaller
  Code <- MCCode
  Own <- own
  Known <- MCKnown
  RenewAfter = 2
  MaxFailures = 1
  Supersedes = TRUE
INVARIANT
  NoRenewalInAlarm

\* Every journey, every answer and every moment of it.
SPECIFICATION FairSpec
CONSTANTS
  Jobs = {"staff-sign-in", "ops-desk", "crm"}
  StepTimeout = 7
  Deadline = 9
  EgressWait = 1
  SignOutBudget = 2
  TotpStep = 4
  MinLeft = 2
  LateSteps = 1
  Stall = 1
  Overrun = 1
CHECK_DEADLOCK FALSE
INVARIANTS
  TypeOK
  SessionSignedOut
  NeverSentTwice
  NeverCharged
  PassLeavesNoSession
  PagesOnce
  FitsItsBudgets
PROPERTIES
  NothingPastDeadline
  RunExits

\* A sign-in whose answer's body hangs or is cut off.
SPECIFICATION Spec
CONSTANTS
  Jobs = {"staff-sign-in", "ops-desk"}
  StepTimeout = 7
  Deadline = 9
  EgressWait = 1
  SignOutBudget = 2
  TotpStep = 4
  MinLeft = 2
  LateSteps = 1
  Stall = 1
  Overrun = 1
CHECK_DEADLOCK FALSE
INVARIANTS
  ArrivedSignsOut

SPECIFICATION Spec
CONSTANTS
  Keys = {k1}
  Routes = {"narrow", "wide"}
  Limit <- MCLimit
  Window <- MCWindow
  DefaultWindow = 4
  Second = 2
  MaxTime = 8
INVARIANTS
  RejectedMeansFull
  NarrowestIsLimited
  RetryAfterIsEnough

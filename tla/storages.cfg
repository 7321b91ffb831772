SPECIFICATION Spec
CONSTANTS
  Versions = {1, 2}
  Semver = {1}
  Bodies = {b1, b2}
  Deployments <- MCDeployments
  TTL = 1
  MaxChanges = 1
  MaxTicks = 2
  MaxFaults = 1
  None = None
SYMMETRY Symmetry
INVARIANTS
  FreshEnough
  ServedIsStored
  SurvivesRestart

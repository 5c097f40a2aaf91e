SPECIFICATION FairSpec
CONSTANTS
  Job = {1, 2, 3}
  NoJob = NoJob
  NoDefinition = NoDefinition
  L1 = L1
  L2 = L2
  p1 = p1
  p2 = p2
  Library = {L1}
  Citekey = {p1}
  Definition <- LiveDefs
  Faults = {"marker"}
  MaxRestarts = 0
CONSTRAINT LiveScenario
PROPERTIES JobsSettle ShutdownCompletes
CHECK_DEADLOCK FALSE

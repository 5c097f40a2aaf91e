SPECIFICATION Spec
CONSTANTS
  Job = {j1, j2, j3}
  NoJob = NoJob
  NoDefinition = NoDefinition
  L1 = L1
  L2 = L2
  p1 = p1
  p2 = p2
  Library = {L1, L2}
  Citekey = {p1, p2}
  Definition <- SafetyDefs
  Faults = {"record", "clear"}
  MaxRestarts = 1
SYMMETRY JobSymmetry
CONSTRAINT SafetyScenario
INVARIANTS TypeOK NoConflictRuns ContextsBalanced CancelOrCommit
PROPERTIES ImplementsPromise NoStartWhileDraining EndsRecorded InterruptedIffUnrecorded
CHECK_DEADLOCK FALSE

SPECIFICATION Spec
CONSTANTS
  r1 = r1  r2 = r2  j1 = j1  j2 = j2  j3 = j3  q1 = q1  q2 = q2  p1 = p1  p2 = p2
  NoRun = NoRun
  NoPaper = NoPaper
  Run = {r1}
  Job = {j1, j2}
  Request = {q1, q2}
  Paper = {p1, p2}
  PaperOf <- TwoPapers
  Pdf = {p1}
  Overwrite = {q1}
  Faults = {}
  Clicks = {"shutdown"}
  MaxFiles = 6
  MaxBatches = 2
  MaxRestarts = 0
SYMMETRY Jobs
INVARIANTS PaidResultsKept
CHECK_DEADLOCK FALSE

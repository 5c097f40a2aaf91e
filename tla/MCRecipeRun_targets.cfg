SPECIFICATION Spec
CONSTANTS
  r1 = r1  r2 = r2  j1 = j1  j2 = j2  j3 = j3  q1 = q1  q2 = q2  p1 = p1  p2 = p2
  NoRun = NoRun
  NoPaper = NoPaper
  Run = {r1, r2}
  Job = {j1, j2}
  Request = {q1, q2}
  Paper = {p1, p2}
  PaperOf <- TwoPapers
  Pdf = {}
  Overwrite = {q1}
  Faults = {"create", "install"}
  Clicks = {"retry"}
  MaxFiles = 6
  MaxBatches = 2
  MaxRestarts = 1
SYMMETRY Symmetric
INVARIANTS DisjointBatches PaidResultsKept
CHECK_DEADLOCK FALSE

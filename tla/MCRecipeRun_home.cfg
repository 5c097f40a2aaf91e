SPECIFICATION FairSpec
CONSTANTS
  r1 = r1  r2 = r2  j1 = j1  j2 = j2  j3 = j3  q1 = q1  q2 = q2  p1 = p1  p2 = p2
  NoRun = NoRun
  NoPaper = NoPaper
  Run = {r1}
  Job = {j1, j2, j3}
  Request = {q1}
  Paper = {p1}
  PaperOf <- OnePaper
  Pdf = {p1}
  Overwrite = {q1}
  Faults = {"create", "delete"}
  Clicks = {}
  MaxFiles = 6
  MaxBatches = 1
  MaxRestarts = 2
PROPERTIES BroughtHome
CHECK_DEADLOCK FALSE

SPECIFICATION FairSpec
CONSTANTS
  t1 = t1  j1 = j1  v1 = v1  A = A  B = B
  NoJob = NoJob
  NoLibrary = NoLibrary
  Tab = {t1}
  Subscriber = {t1}
  Job = {j1, v1}
  Validation = {v1}
  Library = {A, B}
  LibraryOf <- Owners
  Notice <- Notices
  Size = 2
INVARIANTS NewestKept CurrentWhenHeard
PROPERTIES PanelAnswered
CHECK_DEADLOCK FALSE

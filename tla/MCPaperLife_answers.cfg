SPECIFICATION Spec
CONSTANTS
  s1 = s1  s2 = s2  v1 = v1  v2 = v2  e1 = e1  e2 = e2  e3 = e3  r1 = r1  r2 = r2
  None = None
  Spoilt = Spoilt
  Source = {s1}
  Version = {v1, v2}
  Illustrated = {v1}
  Export = {e1}
  AttachmentOf <- Single
  Run = {r1}
  Overwrite = {}
  RecipeInput = "transcription"
  Ops = {"text"}
  Faults = {"install", "undo", "record", "spoil"}
  MaxPlans = 1
  MaxUpsets = 2
INVARIANTS TypeOK OlderKept CleanIsTrue
PROPERTIES RecordedIsFresh

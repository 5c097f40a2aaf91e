SPECIFICATION Spec
CONSTANTS
  s1 = s1  s2 = s2  v1 = v1  v2 = v2  e1 = e1  e2 = e2  e3 = e3  r1 = r1  r2 = r2
  None = None
  Spoilt = Spoilt
  Source = {s1, s2}
  Version = {v1}
  Illustrated = {v1}
  Export = {e1, e2, e3}
  AttachmentOf <- ThreeExports
  Run = {r1}
  Overwrite = {r1}
  RecipeInput = "pdf"
  Ops = {"pages"}
  Faults = {"import"}
  MaxPlans = 2
  MaxUpsets = 1
INVARIANTS DoneIsTrue ValidationTrusted Resumable
PROPERTIES RecordedIsFresh PreviewedOnly

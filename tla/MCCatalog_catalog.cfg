SPECIFICATION Spec
CONSTANTS
  p1 = p1  p2 = p2  r1 = r1  r2 = r2
  NoPaper = NoPaper
  Paper = {p1, p2}
  Refresher = {r1, r2}
  MaxWrites = 4
  MaxGeneration = 3
SYMMETRY Symmetric
INVARIANTS TypeOK OwnWritesShown ChangesSeen
PROPERTIES ViewNeverOlder

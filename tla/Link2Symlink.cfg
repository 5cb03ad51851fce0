\* Two tracees, three names, two files; handlers that fail or are killed.
CONSTANTS
  Tracees = {t1, t2}
  Names = {a, b, c}
  Files = {f1, f2}
  MaxSuffix = 2
  MaxCount = 4
  Faults = TRUE
  MaxBroken = 0
  NoTracee = NoTracee
  NoFile = NoFile
SYMMETRY MCSymmetry
SPECIFICATION LinkSpec
INVARIANTS CountsNames NamesShowContent NothingLeaks
CHECK_DEADLOCK FALSE

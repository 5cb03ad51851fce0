\* One tracee, whose calls succeed or fail but are never cut short.
CONSTANTS
  Tracees = {t1}
  Names = {a, b, c}
  Files = {f1, f2}
  MaxSuffix = 2
  MaxCount = 4
  Faults = FALSE
  MaxBroken = 1
  NoTracee = NoTracee
  NoFile = NoFile
SPECIFICATION LinkSpec
INVARIANT LooksLikeHardLink
CHECK_DEADLOCK FALSE

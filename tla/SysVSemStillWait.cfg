\* Two tracees, one slot for sets of one or two semaphores with values of 0
\* and 1, used twice (one IPC_RMID).
CONSTANTS
  Tracees = {t1, t2}
  Mortal = {t1, t2}
  NoTracee = NoTracee
  Reasons = {"semop"}
  Results <- MCResults
  EntryPaths = {"ptrace"}
  Private = 0
  Keys = {1}
  Sizes = {1, 2}
  OpSeqs <- MCOpSeqs
  MaxSems = 1
  MaxSemval = 1
  MaxGen = 1
SPECIFICATION SemSpec
INVARIANT WaitersStillWait
CHECK_DEADLOCK FALSE

\* Three tracees, one slot for sets of one or two semaphores with values of 0
\* and 1, used twice (one IPC_RMID).
CONSTANTS
  Tracees = {t1, t2, t3}
  Mortal = {t1, t2, t3}
  NoTracee = NoTracee
  Reasons = {"semop"}
  Results <- MCResults
  EntryPaths = {"sigsys"}
  Private = 0
  Keys = {1}
  Sizes = {1, 2}
  OpSeqs <- MCOpSeqs
  MaxSems = 1
  MaxSemval = 1
  MaxGen = 1
SYMMETRY MCSymmetry
SPECIFICATION SemSpec
INVARIANTS WaitConsistent WaiterSetLive ValuesInRange
PROPERTIES ImplementsService
CHECK_DEADLOCK FALSE

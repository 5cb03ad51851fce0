\* A main command and two more processes, any of which may be killed.
CONSTANTS
  Pids = {p1, p2, p3}
  Root = p1
  Mortal = {p1, p2, p3}
  KillOnExit = TRUE
  NoPid = NoPid
SPECIFICATION LifecycleFairSpec
INVARIANTS RunsConfigured ParentsInList HeldExpected
PROPERTIES HeldResume
CHECK_DEADLOCK FALSE

\* A main command and two more processes; nobody but PRoot kills one.
CONSTANTS
  Pids = {p1, p2, p3}
  Root = p1
  Mortal = {}
  KillOnExit = TRUE
  NoPid = NoPid
SPECIFICATION LifecycleFairSpec
PROPERTY AllTerminated
CHECK_DEADLOCK FALSE

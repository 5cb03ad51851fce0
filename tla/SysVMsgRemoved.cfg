\* Two tracees, one slot used for two queues, two messages.
CONSTANTS
  Tracees = {t1, t2}
  Mortal = {t1, t2}
  Reasons = {"queue_recv"}
  Results <- MCResults
  EntryPaths = {"ptrace"}
  Private = 0
  Keys = {0, 1}
  Kinds <- MCKinds
  RecvArgs <- MCRecvArgs
  MaxQueues = 1
  MaxGen = 1
  MaxMsgs = 2

SPECIFICATION MsgSpec
INVARIANT RetryFindsQueue

CHECK_DEADLOCK FALSE

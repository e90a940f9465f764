CONSTANTS
  Devices = {remote}
  Remote = remote
  Bytes = {255}
  timeout = 1
  QUEUESIZE = 1
  BACKLOG = 1
  MaxUnread = 1
  FAIL = FAIL
  None = None
SPECIFICATION DaemonSpec
INVARIANT AssertionHolds

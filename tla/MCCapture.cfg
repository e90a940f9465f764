CONSTANTS
  Devices = {remote, other}
  Remote = remote
  Bytes = {4, 5, 255}
  timeout = 2
  QUEUESIZE = 1
  BACKLOG = 1
  MaxUnread = 1
  FAIL = FAIL
  None = None
SPECIFICATION FairSpec
INVARIANTS CaptureInv SilenceBound 
PROPERTIES TimeoutJustified NoReportLost BatteryChain SessionsEnd

CONSTANTS
  MAX_CLIENTS = 3
  Fds = {4, 5, 6, 7, 9}
  FD_SETSIZE = 9
SPECIFICATION Spec
INVARIANT NeverAborts

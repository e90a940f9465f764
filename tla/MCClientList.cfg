CONSTANTS
  MAX_CLIENTS = 3
  Fds = {4, 5, 6, 7, 9}
  FD_SETSIZE = 9
SPECIFICATION FairSpec
INVARIANTS ClientInv NoOverflow NoStaleFd BroadcastReachesAll Drained
PROPERTIES BroadcastEnds BroadcastShrinks ImplementsClientSet

CONSTANTS
  k1 = k1
  k2 = k2
  k3 = k3
  Keys = {k1, k2, k3}
  Codes = {k1, k2, k3, other}
  EventOf <- event_codes
  KEYUP = keyup
  undef = undef
  MSEC = 2
  SECOND = 12
  N = 2
  repeat_delay = 4
  repeat_rate = 300
  EventOut = TRUE
  Cap = 42
  MaxRepeat = 2
SPECIFICATION FairSpec
INVARIANTS KeyInv RepeatSpacing RepeatNotLate
PROPERTIES NoGhostEvents HeldKeyRepeats

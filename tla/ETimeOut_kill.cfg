CONSTANTS
  MaxStartEvents <- MCMaxStartEvents

SPECIFICATION Spec

INVARIANT NoTimerAfterKill

CHECK_DEADLOCK FALSE

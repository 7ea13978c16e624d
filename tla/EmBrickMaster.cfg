\* Two Master blocks in two resources.
CONSTANTS
  m1 = m1
  m2 = m2
  Masters <- MCTwoMasters

SPECIFICATION Spec

INVARIANT NoOrphanBus

\* A deleted block receives no further events.
CHECK_DEADLOCK FALSE

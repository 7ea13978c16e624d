CONSTANTS
  MaxStartEvents <- MCMaxStartEvents

SPECIFICATION Spec

INVARIANT TypeOK
PROPERTY StartAnswered

\* Kill is terminal: the block is deleted and the system stops.
CHECK_DEADLOCK FALSE

\* Three vectors and an unknown id, the master handler at any moment.  A free
\* that waits for a handler which waits for its lock stops for good.
SPECIFICATION Spec
CONSTANTS
  Vector = {v1, v2, v3}
  Unknown = unknown
  None = None
INVARIANTS
  TablesAgree
  HandlerSafe
CHECK_DEADLOCK FALSE

\* Two first-run processes that overlap.
CONSTANTS
  Processes = {p1, p2}
  Keys = {k1, k2, k3, k4}
  RowIds = {r1, r2, r3}
  None = None
SPECIFICATION Spec
INVARIANT RowsReadable
CHECK_DEADLOCK FALSE

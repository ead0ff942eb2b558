\* Three processes; the first run of all is over before the others start.
CONSTANTS
  Processes = {p1, p2, p3}
  Keys = {k1, k2, k3, k4}
  RowIds = {r1, r2, r3}
  None = None
SPECIFICATION SetupSpec
INVARIANT RowsReadable
CHECK_DEADLOCK FALSE

\* Two agents of two projects of one workspace at work on one shared capsule over
\* three days; or in one day, with a project or the workspace forgotten.
CONSTANTS
  Agents = {p1, p2}
  Projects = {p1, p2, w}
  Home <- MCHome
  Workspace <- MCWorkspace
  Scopes = {"workspace"}
  CapsuleIds = {c1}
  Topics = {t}
  Lessons = {l1}
  Envs = {h}
  ConfirmEnv = h
  Receipts = {}
  Caveats = {FALSE}
  Legacy = {}
  MaxEvidence = 3
  Required = 2
  DayLength = 1
  MaxTime = 2
  MaxForgets = 1
  None = None
SYMMETRY Symmetry
SPECIFICATION Spec
INVARIANT ProgressBacked
INVARIANT ForgottenNeverReturn
CONSTRAINT ForgottenEarly
CHECK_DEADLOCK FALSE

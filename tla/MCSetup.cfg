\* Two installers, one other executable, hooks switched off and on by the user.
CONSTANTS
  Standard = std
  Executables = {x}
  Post = post
  Prompt = prompt
  Events = {post, prompt}
  Own = own
  Changing = {off}
  Foreign = {own, off}
  HooksOff = off
  ForeignHooks = {own}
  None = None
  Conflict = Conflict
  Installers = {p1, p2}
  Wrappers = {wrapper}
  OtherHandlers = {handler}
  Malformed = Malformed
  Unusable = Unusable
  OtherCommands = {other}
  AOE_HOOK_COMMAND = aoe_hook
  UnusableTable = UnusableTable
  InitialFiles <- MCInitialFiles
  InitialSkills <- MCInitialSkills
SYMMETRY Symmetry
SPECIFICATION Spec
INVARIANT RecordedOnce
INVARIANT SwapUndone
PROPERTY ForeignKept
PROPERTY EditedKept
CHECK_DEADLOCK FALSE

---------------------------- MODULE ClaudeConfig ----------------------------
(***************************************************************************)
(* What the installer makes of Claude's settings.json, group by group      *)
(* (packaging/claude_config.rs), with the recognition of a stock hook      *)
(* (packaging/hook_command.rs).  Setup uses HookConfig's MergedToml, the   *)
(* case of groups that each hold one handler of ours.                      *)
(*                                                                         *)
(* Abstracted: settings that are not hook groups.  An absent list and an   *)
(* empty one are the same, and so are the matchers that match every tool.  *)
(* Settings that end the merge at once (not JSON, not an object, hooks     *)
(* disabled or not an object) are one value, Unusable.                     *)
(***************************************************************************)
EXTENDS HookConfig

CONSTANTS
  Wrappers,      \* what a command that is not stock begins with
  OtherHandlers, \* handlers that are no command
  Malformed,     \* a JSON value of the wrong type
  Unusable       \* settings of the wrong shape

HOOK_EVENTS == {"PostToolUse", "PostToolUseFailure", "UserPromptSubmit"}

HookCommands ==
  [program : Commands \cup Wrappers, action : {"record-hook", "preflight", "other"}]
HandlerValues == HookCommands \cup OtherHandlers \cup {Malformed}
HandlerLists == Seq(HandlerValues) \cup {Malformed}
WellFormed == [matcher : {"all", "restricted", Malformed}, hooks : HandlerLists]
Groups == WellFormed \cup {Malformed}
Settings == [HOOK_EVENTS -> Seq(Groups) \cup {Malformed}]

ASSUME ClaudeAssumption ==
  /\ Commands \cap Wrappers = {}
  /\ OtherHandlers \cap HookCommands = {}
  /\ Malformed \notin HookCommands \cup OtherHandlers
  /\ Malformed \notin WellFormed /\ Malformed \notin Seq(HandlerValues)
  /\ Malformed \notin Seq(Groups) /\ Malformed # "all" /\ Malformed # "restricted"
  /\ Conflict \notin Settings /\ Conflict \notin Seq(Groups)
  /\ Unusable \notin Settings /\ Unusable # Conflict

(* event_command: the prompt runs the preflight of the same program.  A     *)
(* command of another form than "... record-hook" has none.                *)
MappedEvents(command) ==
  {e \in HOOK_EVENTS : e = "UserPromptSubmit" => command.action = "record-hook"}
EventCommand(e, command) ==
  IF e = "UserPromptSubmit" THEN [command EXCEPT !.action = "preflight"] ELSE command

STOCK_COMMAND == [program |-> Standard, action |-> "record-hook"]

(* same_stock_hook: the path's or a quoted executable of ours, bare.        *)
SameStock(handler, standard) ==
  /\ handler \in HookCommands
  /\ handler.program \in Commands /\ handler.action = standard.action

-----------------------------------------------------------------------------
(* migrate_unrestricted_standard_hook                                      *)
MigratedHooks(hooks, command, standard) ==
  [k \in DOMAIN hooks |-> IF SameStock(hooks[k], standard) THEN command ELSE hooks[k]]

MigratedGroup(group, command, standard) ==
  IF group.matcher # "all" \/ group.hooks = Malformed THEN group
  ELSE [matcher |-> "all", hooks |-> MigratedHooks(group.hooks, command, standard)]

MigratedGroups(groups, command, standard) ==
  IF command = standard THEN groups
  ELSE [i \in DOMAIN groups |-> MigratedGroup(groups[i], command, standard)]

(* regurgitate_hook_coverage reads the groups in order, up to the first     *)
(* that runs Regurgitate for every tool; a group of the wrong form before   *)
(* that one is an error.                                                   *)
RunsOurs(group, command, standard) ==
  \E k \in DOMAIN group.hooks :
    group.hooks[k] = command \/ SameStock(group.hooks[k], standard)

Unreadable(group, command, standard) ==
  \/ group = Malformed
  \/ group.hooks = Malformed
  \/ \E k \in DOMAIN group.hooks : group.hooks[k] = Malformed
  \/ group.matcher = Malformed /\ RunsOurs(group, command, standard)

CoversAll(group, command, standard) ==
  /\ ~Unreadable(group, command, standard)
  /\ RunsOurs(group, command, standard)
  /\ group.matcher = "all"

Coverage(groups, command, standard) ==
  LET unreadable(i) == Unreadable(groups[i], command, standard)
      covers(i) == CoversAll(groups[i], command, standard) IN
    IF \E i \in DOMAIN groups : covers(i) /\ \A j \in 1..(i - 1) : ~unreadable(j)
      THEN "all"
      ELSE IF \E i \in DOMAIN groups : unreadable(i) THEN "error"
      ELSE IF \E i \in DOMAIN groups : RunsOurs(groups[i], command, standard)
             THEN "restricted" ELSE "missing"

NewGroup(command) == [matcher |-> "all", hooks |-> <<command>>]

(* One event.                                                              *)
MergedGroups(groups, command, standard) ==
  LET migrated == MigratedGroups(groups, command, standard) IN
    IF \/ groups = Malformed
       \/ command # standard /\ \E i \in DOMAIN groups : groups[i] = Malformed
      THEN Conflict
      ELSE LET coverage == Coverage(migrated, command, standard) IN
             IF coverage = "all" THEN migrated
             ELSE IF coverage = "missing" THEN Append(migrated, NewGroup(command))
             ELSE Conflict

MergedEvent(settings, e, command) ==
  MergedGroups(settings[e], EventCommand(e, command), EventCommand(e, STOCK_COMMAND))

(* prepare_config: the settings to write, equal to those read when there is *)
(* nothing to change.                                                      *)
PreparedSettings(settings, command) ==
  IF \/ settings = Unusable
     \/ \E e \in MappedEvents(command) : MergedEvent(settings, e, command) = Conflict
    THEN Conflict
    ELSE [e \in HOOK_EVENTS |-> IF e \in MappedEvents(command)
                                  THEN MergedEvent(settings, e, command) ELSE settings[e]]

(* inspect_claude_hook_command                                             *)
Inspected(settings, command) ==
  CASE PreparedSettings(settings, command) = Conflict -> "conflicting"
    [] PreparedSettings(settings, command) = settings -> "installed"
    [] OTHER -> "not_installed"

=============================================================================

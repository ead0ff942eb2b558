----------------------------- MODULE AoeConfig ------------------------------
(***************************************************************************)
(* What the installer makes of the [status_hooks] table of Agent of        *)
(* Empires' config.toml (packaging/aoe_config.rs).  One switch enables all *)
(* the hooks of the table, so a hook the user wrote and left switched off  *)
(* must not start to run because Regurgitate switches its own on.          *)
(*                                                                         *)
(* Abstracted: the rest of the file, comments and layout.  A file that     *)
(* does not parse, a status_hooks that is no table and an enabled that is  *)
(* no boolean are one value, UnusableTable.                                *)
(***************************************************************************)
EXTENDS HookConfig

CONSTANTS
  OtherCommands,  \* what else a hook may run, values of another type included
  AOE_HOOK_COMMAND,
  UnusableTable

OurHooks == {"on_idle", "on_error"}
OTHER_STATUS_HOOKS == {"on_starting", "on_running", "on_waiting", "on_change"}
StatusHooks == OurHooks \cup OTHER_STATUS_HOOKS

(* A key that is absent is None.                                           *)
StatusTables ==
  [enabled : {TRUE, FALSE, None},
   hook : [StatusHooks -> OtherCommands \cup {AOE_HOOK_COMMAND, None}]]

ASSUME AoeAssumption ==
  /\ None \notin OtherCommands \cup {AOE_HOOK_COMMAND} /\ None \notin BOOLEAN
  /\ AOE_HOOK_COMMAND \notin OtherCommands
  /\ Conflict \notin StatusTables /\ UnusableTable \notin StatusTables
  /\ UnusableTable # Conflict

(* hook_needs_install: a slot holds one command, which is never replaced.   *)
Occupied(table, h) == table.hook[h] \notin {None, AOE_HOOK_COMMAND}

Dormant(table) ==
  table.enabled # TRUE /\ \E h \in OTHER_STATUS_HOOKS : table.hook[h] # None

(* prepare_config: the table to write, equal to the one read when there is  *)
(* nothing to change.                                                      *)
PreparedTable(table) ==
  IF table = UnusableTable \/ (\E h \in OurHooks : Occupied(table, h)) \/ Dormant(table)
    THEN Conflict
    ELSE [enabled |-> TRUE,
          hook |-> [h \in StatusHooks |->
                      IF h \in OurHooks THEN AOE_HOOK_COMMAND ELSE table.hook[h]]]

(* inspect_aoe_hook                                                        *)
InspectedTable(table) ==
  CASE PreparedTable(table) = Conflict -> "conflicting"
    [] PreparedTable(table) = table -> "installed"
    [] OTHER -> "not_installed"

=============================================================================

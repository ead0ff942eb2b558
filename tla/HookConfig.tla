----------------------------- MODULE HookConfig ------------------------------
(***************************************************************************)
(* What an installer makes of a host's configuration: Codex's config.toml  *)
(* and its sibling hooks.json (packaging/codex_config.rs, codex_json.rs).  *)
(* Claude's settings.json goes the way of config.toml.  Pure operators.    *)
(*                                                                         *)
(* Abstracted: a command stands for the executable it runs ("regurgitate"  *)
(* on the path, or one quoted path); all are stock commands.  Everything   *)
(* in the file that is not a Regurgitate handler is a set of foreign items.*)
(***************************************************************************)
EXTENDS Naturals, Sequences, FiniteSets

CONSTANTS
  Standard,     \* "regurgitate" on the path
  Executables,  \* quoted paths of other Regurgitate executables
  Events,       \* PostToolUse and UserPromptSubmit
  Foreign,      \* settings and hook groups of others
  ForeignHooks, \* the groups among them that hang on one of Events
  HooksOff,     \* the setting among them that switches hooks off
  None,         \* a missing file
  Conflict      \* the error a document cannot be merged for

Commands == {Standard} \cup Executables

Handlers == [command : Commands, restricted : BOOLEAN]

Docs ==
  [hooks : [Events -> Seq(Handlers)], foreign : SUBSET Foreign]

ASSUME ConfigAssumption ==
  /\ Standard \notin Executables
  /\ ForeignHooks \subseteq Foreign /\ HooksOff \in Foreign \ ForeignHooks
  /\ None \notin Docs /\ Conflict \notin Docs /\ None # Conflict

EmptyDoc == [hooks |-> [e \in Events |-> <<>>], foreign |-> {}]

(* read_config: a missing file reads as an empty one. *)
Read(file) == IF file = None THEN EmptyDoc ELSE file

Unrestricted(handlers) == {i \in DOMAIN handlers : ~handlers[i].restricted}

(* migrate_unrestricted_standard_hook *)
Migrated(handlers, command) ==
  [i \in DOMAIN handlers |->
     IF handlers[i].restricted \/ command = Standard THEN handlers[i]
     ELSE [handlers[i] EXCEPT !.command = command]]

NewHandler(command) == [command |-> command, restricted |-> FALSE]

(* One event of a TOML document: a handler under a matcher is a conflict    *)
(* unless another covers all tools.                                         *)
MergedToml(handlers, command) ==
  IF Unrestricted(handlers) # {} THEN Migrated(handlers, command)
  ELSE IF handlers = <<>> THEN <<NewHandler(command)>>
  ELSE Conflict

(* One event of a JSON document: any handler under a matcher is a conflict, *)
(* and so are two.                                                          *)
MergedJson(handlers, command) ==
  CASE handlers = <<>> -> <<NewHandler(command)>>
    [] Len(handlers) = 1 /\ Unrestricted(handlers) # {} -> Migrated(handlers, command)
    [] OTHER -> Conflict

(* prepare_config (TOML) and prepare (JSON): the document to write, equal   *)
(* to the one read when there is nothing to change.                         *)
Prepared(kind, doc, command) ==
  LET merged(e) == IF kind = "toml" THEN MergedToml(doc.hooks[e], command)
                   ELSE MergedJson(doc.hooks[e], command) IN
    IF (kind = "toml" /\ HooksOff \in doc.foreign) \/ \E e \in Events : merged(e) = Conflict
      THEN Conflict
      ELSE [doc EXCEPT !.hooks = [e \in Events |-> merged(e)]]

(* What json_destination looks for in config.toml: any group of one of the  *)
(* events, ours or not.                                                     *)
HasHooks(doc) ==
  doc.foreign \cap ForeignHooks # {} \/ \E e \in Events : doc.hooks[e] # <<>>

=============================================================================

------------------------------- MODULE Setup --------------------------------
(***************************************************************************)
(* Installers at work on one agent's home directory: the hook installer    *)
(* (a preview, then a re-read and an atomic write under the file's lock),  *)
(* the skill installer (a directory staged aside and renamed into place)   *)
(* and the plugin's setup, which runs both after previewing both.          *)
(*                                                                         *)
(* Other processes change the configuration under the same locks; any      *)
(* installer may be killed or fail on an I/O error at any step.            *)
(***************************************************************************)
EXTENDS HookConfig

CONSTANTS
  Installers,
  Changing,     \* the foreign items that others add and remove meanwhile
  InitialFiles, \* what the two configuration files hold at first
  InitialSkills \* what the skill directory holds at first, None included

Files == {"toml", "json"}

(* Of a pair of files: no event is recorded twice, in one file or in both.  *)
Records(pair, f) == \E e \in Events : Unrestricted(Read(pair[f]).hooks[e]) # {}
Once(pair) ==
  /\ \A f \in Files, e \in Events : Cardinality(Unrestricted(Read(pair[f]).hooks[e])) <= 1
  /\ ~(Records(pair, "toml") /\ Records(pair, "json"))

(* A skill directory: a package of a release pinned to an executable        *)
(* (Standard: not pinned), possibly with files of the user beside it, or    *)
(* contents the user edited.                                                *)
Skills ==
  [release : {"current", "older", "edited"}, pin : Commands, extra : BOOLEAN]

Package(command) == [release |-> "current", pin |-> command, extra |-> FALSE]

ASSUME SetupAssumption ==
  /\ Changing \subseteq Foreign
  /\ None \notin Installers
  /\ InitialFiles \subseteq [Files -> Docs \cup {None}]
  /\ \A pair \in InitialFiles : Once(pair)
  /\ InitialSkills \subseteq Skills \cup {None} /\ None \notin Skills

VARIABLES
  files,     \* config.toml and hooks.json, or None
  lock,      \* who holds the lock beside each of them, or None
  skill,     \* the directory regurgitate-recall, or None
  litter,    \* backup directories left behind
  pc,        \* the next step of each installer
  job,       \* what it was started for
  goal,      \* the configuration file it has chosen
  mixed,     \* whether it found hook groups in config.toml
  prepared,  \* the document it has prepared, or None
  backup,    \* the directory it has moved aside, or None
  killed     \* history: an installer died, or could not undo, in mid-swap

configVars == <<files, lock>>
skillVars == <<skill, litter, killed>>
localVars == <<goal, mixed, prepared, backup>>
vars == <<configVars, skillVars, pc, job, localVars>>

Tasks == {"previewHook", "previewSkill", "skill", "hook"}
Jobs == [tasks : Seq(Tasks), command : Commands, replace : BOOLEAN, json : BOOLEAN]

Steps ==
  {"idle", "choose", "exists", "preview", "lock", "reread", "write",
   "look", "recheck", "place", "backup", "swap", "restore", "clean"}

TypeOK ==
  /\ files \in [Files -> Docs \cup {None}]
  /\ lock \in [Files -> Installers \cup {None}]
  /\ skill \in Skills \cup {None}
  /\ litter \in SUBSET Skills
  /\ pc \in [Installers -> Steps]
  /\ job \in [Installers -> Jobs \cup {None}]
  /\ goal \in [Installers -> Files]
  /\ mixed \in [Installers -> BOOLEAN]
  /\ prepared \in [Installers -> Docs \cup {None}]
  /\ backup \in [Installers -> Skills \cup {None}]
  /\ killed \in BOOLEAN

Init ==
  /\ files \in InitialFiles
  /\ skill \in InitialSkills
  /\ lock = [f \in Files |-> None]
  /\ litter = {} /\ killed = FALSE
  /\ pc = [p \in Installers |-> "idle"]
  /\ job = [p \in Installers |-> None]
  /\ goal = [p \in Installers |-> "toml"]
  /\ mixed = [p \in Installers |-> FALSE]
  /\ prepared = [p \in Installers |-> None]
  /\ backup = [p \in Installers |-> None]

-----------------------------------------------------------------------------
(* Jobs and their tasks. *)

FirstStep(task) == IF task \in {"previewHook", "hook"} THEN "choose" ELSE "look"

Goto(p, step) == pc' = [pc EXCEPT ![p] = step]

(* A function returns and its local variables are gone.                     *)
Returned(p) ==
  /\ goal' = [goal EXCEPT ![p] = "toml"]
  /\ mixed' = [mixed EXCEPT ![p] = FALSE]
  /\ prepared' = [prepared EXCEPT ![p] = None]
  /\ backup' = [backup EXCEPT ![p] = None]

(* The job is over, with success or without; locks are released on exit.    *)
End(p) ==
  /\ Goto(p, "idle")
  /\ job' = [job EXCEPT ![p] = None]
  /\ Returned(p)

(* A task has succeeded.                                                    *)
Done(p) ==
  LET rest == Tail(job[p].tasks) IN
    \/ rest = <<>> /\ End(p)
    \/ /\ rest # <<>>
       /\ Goto(p, FirstStep(Head(rest)))
       /\ job' = [job EXCEPT ![p].tasks = rest]
       /\ Returned(p)

Task(p) == Head(job[p].tasks)

Start(p, tasks, command, replace, json) ==
  /\ pc[p] = "idle"
  /\ job' = [job EXCEPT ![p] = [tasks |-> tasks, command |-> command, replace |-> replace,
                                json |-> json]]
  /\ Goto(p, FirstStep(Head(tasks)))
  /\ UNCHANGED <<configVars, skillVars, localVars>>

(* install-hook, on config.toml or on a hooks.json that is there.           *)
StartHook(p) ==
  \E command \in Commands, json \in BOOLEAN :
    /\ json => files["json"] # None
    /\ Start(p, <<"hook">>, command, FALSE, json)

StartSkill(p) ==
  \E command \in Commands, replace \in BOOLEAN : Start(p, <<"skill">>, command, replace, FALSE)

(* SetupService::setup, always for the plugin's own executable.             *)
StartSetup(p) ==
  \E command \in Executables :
    Start(p, <<"previewHook", "previewSkill", "skill", "hook">>, command, FALSE, FALSE)

-----------------------------------------------------------------------------
(* The hook installer. *)

(* json_destination, first reading: config.toml.                            *)
Choose(p) ==
  /\ pc[p] = "choose"
  /\ LET toml == Read(files["toml"]) IN
       \/ HooksOff \in toml.foreign /\ End(p)
       \/ /\ HooksOff \notin toml.foreign
          /\ mixed' = [mixed EXCEPT ![p] = HasHooks(toml)]
          /\ Goto(p, "exists")
          /\ UNCHANGED <<job, goal, prepared, backup>>
  /\ UNCHANGED <<configVars, skillVars>>

(* Faulty variant: groups in config.toml do not stand in the way.           *)
ExistsIgnoringToml(p) ==
  /\ pc[p] = "exists"
  /\ goal' = [goal EXCEPT ![p] = IF job[p].json \/ files["json"] # None THEN "json" ELSE "toml"]
  /\ Goto(p, "preview")
  /\ UNCHANGED <<configVars, skillVars, job, mixed, prepared, backup>>

(* json_destination, the rest: a hooks.json is used if it is there, unless  *)
(* both files would then hold hooks.                                        *)
Exists(p) ==
  LET json == job[p].json \/ files["json"] # None IN
    /\ pc[p] = "exists"
    /\ \/ json /\ mixed[p] /\ End(p)
       \/ /\ ~(json /\ mixed[p])
          /\ goal' = [goal EXCEPT ![p] = IF json THEN "json" ELSE "toml"]
          /\ Goto(p, "preview")
          /\ UNCHANGED <<job, mixed, prepared, backup>>
    /\ UNCHANGED <<configVars, skillVars>>

(* The document to write, made of what the chosen file holds now.           *)
Fresh(p) == Prepared(goal[p], Read(files[goal[p]]), job[p].command)
Settled(p) == Fresh(p) = Read(files[goal[p]])

Preview(p) ==
  /\ pc[p] = "preview"
  /\ \/ Fresh(p) = Conflict /\ End(p)
     \/ Fresh(p) # Conflict /\ (Settled(p) \/ Task(p) = "previewHook") /\ Done(p)
     \/ /\ Fresh(p) # Conflict /\ ~Settled(p) /\ Task(p) = "hook"
        /\ prepared' = [prepared EXCEPT ![p] = Fresh(p)]
        /\ Goto(p, "lock")
        /\ UNCHANGED <<job, goal, mixed, backup>>
  /\ UNCHANGED <<configVars, skillVars>>

(* acquire_config_lock; a process that waits too long fails (see Fail).     *)
Lock(p) ==
  /\ pc[p] = "lock"
  /\ lock[goal[p]] = None
  /\ lock' = [lock EXCEPT ![goal[p]] = p]
  /\ Goto(p, "reread")
  /\ UNCHANGED <<files, skillVars, job, localVars>>

Unlocked(p) == lock' = [f \in Files |-> IF lock[f] = p THEN None ELSE lock[f]]

(* Faulty variant: the preview is written as it is.                         *)
RereadSkipped(p) ==
  /\ pc[p] = "reread"
  /\ Goto(p, "write")
  /\ UNCHANGED <<configVars, skillVars, job, localVars>>

(* "The preview is informational": the file is read again under the lock.   *)
Reread(p) ==
  /\ pc[p] = "reread"
  /\ \/ Fresh(p) = Conflict /\ End(p) /\ Unlocked(p)
     \/ Fresh(p) # Conflict /\ Settled(p) /\ Done(p) /\ Unlocked(p)
     \/ /\ Fresh(p) # Conflict /\ ~Settled(p)
        /\ prepared' = [prepared EXCEPT ![p] = Fresh(p)]
        /\ Goto(p, "write")
        /\ UNCHANGED <<lock, job, goal, mixed, backup>>
  /\ UNCHANGED <<files, skillVars>>

(* atomic_write_config renames a complete new file into place.              *)
Write(p) ==
  /\ pc[p] = "write"
  /\ files' = [files EXCEPT ![goal[p]] = prepared[p]]
  /\ Done(p) /\ Unlocked(p)
  /\ UNCHANGED skillVars

-----------------------------------------------------------------------------
(* The skill installer. *)

(* Faulty variant: files of the user beside the package do not matter.      *)
ClassifiedAnyLayout(content, command) ==
  CASE content = None -> "missing"
    [] content # None /\ content.release = "current" /\ content.pin = command -> "current"
    [] content # None /\ content.pin \in {Standard, command}
         /\ (content.release = "older" \/ (content.release = "current" /\ content.pin # command))
         -> "compatible"
    [] OTHER -> "different"

(* inspect_existing_install: the package itself, an older or unpinned one   *)
(* and nothing beside it, or something else.                                *)
Classified(content, command) ==
  CASE content = None -> "missing"
    [] content # None /\ content.release = "current" /\ content.pin = command -> "current"
    [] content # None /\ ~content.extra /\ content.pin \in {Standard, command}
         /\ (content.release = "older" \/ (content.release = "current" /\ content.pin # command))
         -> "compatible"
    [] OTHER -> "different"

Class(p) == Classified(skill, job[p].command)
Refused(p) == Class(p) = "different" /\ ~job[p].replace

Look(p) ==
  /\ pc[p] = "look"
  /\ \/ Refused(p) /\ End(p)
     \/ ~Refused(p) /\ (Class(p) = "current" \/ Task(p) = "previewSkill") /\ Done(p)
     \/ /\ ~Refused(p) /\ Class(p) # "current" /\ Task(p) = "skill"
        /\ Goto(p, "recheck")
        /\ UNCHANGED <<job, localVars>>
  /\ UNCHANGED <<configVars, skillVars>>

(* Checked again with the parent in place; the new package is then staged  *)
(* in a directory of its own.                                               *)
Recheck(p) ==
  /\ pc[p] = "recheck"
  /\ \/ Refused(p) /\ End(p)
     \/ Class(p) = "current" /\ Done(p)
     \/ /\ ~Refused(p) /\ Class(p) # "current"
        /\ Goto(p, IF Class(p) = "missing" THEN "place" ELSE "backup")
        /\ UNCHANGED <<job, localVars>>
  /\ UNCHANGED <<configVars, skillVars>>

(* rename of the staged directory, which fails on an existing one.          *)
Place(p) ==
  /\ pc[p] = "place"
  /\ \/ /\ skill = None
        /\ skill' = Package(job[p].command)
        /\ Done(p)
     \/ /\ skill # None
        /\ IF Class(p) = "current" THEN Done(p) ELSE End(p)
        /\ UNCHANGED skill
  /\ UNCHANGED <<configVars, litter, killed>>

(* replace_staging_package: the existing directory is renamed aside.        *)
Backup(p) ==
  /\ pc[p] = "backup"
  /\ \/ skill = None /\ End(p) /\ UNCHANGED skill
     \/ /\ skill # None
        /\ skill' = None
        /\ backup' = [backup EXCEPT ![p] = skill]
        /\ Goto(p, "swap")
        /\ UNCHANGED <<job, goal, mixed, prepared>>
  /\ UNCHANGED <<configVars, litter, killed>>

(* Faulty variant: a failed rename ends the installation at once.           *)
SwapNoRestore(p) ==
  /\ pc[p] = "swap"
  /\ \/ /\ skill = None
        /\ skill' = Package(job[p].command)
        /\ Goto(p, "clean")
        /\ UNCHANGED <<job, localVars, litter>>
     \/ End(p) /\ litter' = litter \cup {backup[p]} /\ UNCHANGED skill
  /\ UNCHANGED <<configVars, killed>>

(* The staged one is renamed into place; that may fail for other reasons    *)
(* than a directory that is there again.                                    *)
Swap(p) ==
  /\ pc[p] = "swap"
  /\ \/ /\ skill = None
        /\ skill' = Package(job[p].command)
        /\ Goto(p, "clean")
     \/ Goto(p, "restore") /\ UNCHANGED skill
  /\ UNCHANGED <<configVars, litter, killed, job, localVars>>

(* The old one is renamed back, unless something is there again.            *)
Restore(p) ==
  /\ pc[p] = "restore"
  /\ \/ skill = None /\ skill' = backup[p] /\ UNCHANGED litter
     \/ skill # None /\ litter' = litter \cup {backup[p]} /\ UNCHANGED skill
  /\ End(p)
  /\ UNCHANGED <<configVars, killed>>

Clean(p) ==
  /\ pc[p] = "clean"
  /\ Done(p)
  /\ UNCHANGED <<configVars, skillVars>>

-----------------------------------------------------------------------------
(* An installer is killed, fails on an I/O error or waits too long for a    *)
(* lock: the operating system releases its lock, its backup stays.          *)
Fail(p) ==
  /\ pc[p] # "idle"
  /\ litter' = IF backup[p] = None THEN litter ELSE litter \cup {backup[p]}
  /\ killed' = (killed \/ pc[p] \in {"swap", "restore"})
  /\ End(p) /\ Unlocked(p)
  /\ UNCHANGED <<files, skill>>

(* Another writer adds or removes something of its own under the same lock. *)
HostWrite(f) ==
  /\ lock[f] = None
  /\ f = "json" => files[f] # None
  /\ \E x \in Changing :
       LET doc == Read(files[f]) IN
         files' = [files EXCEPT ![f] =
                     [doc EXCEPT !.foreign = IF x \in @ THEN @ \ {x} ELSE @ \cup {x}]]
  /\ UNCHANGED <<lock, skillVars, pc, job, localVars>>

Next ==
  \/ \E p \in Installers :
       \/ StartHook(p) \/ StartSkill(p) \/ StartSetup(p)
       \/ Choose(p) \/ Exists(p) \/ Preview(p) \/ Lock(p) \/ Reread(p) \/ Write(p)
       \/ Look(p) \/ Recheck(p) \/ Place(p)
       \/ Backup(p) \/ Swap(p) \/ Restore(p) \/ Clean(p)
       \/ Fail(p)
  \/ \E f \in Files : HostWrite(f)

Spec == Init /\ [][Next]_vars

-----------------------------------------------------------------------------
(* While an installer has a configuration file locked, what others keep in *)
(* it stays as it is, also through the installer's own write: neither a    *)
(* change made since the preview is lost nor a removed setting comes back  *)
(* (codex_config.rs: "Existing matcher groups and handlers are preserved").*)
ForeignKept ==
  [][\A f \in Files :
       lock[f] # None => Read(files'[f]).foreign = Read(files[f]).foreign]_vars

(* codex_config.rs json_destination: "refuse ambiguous mixed PostToolUse   *)
(* definitions rather than double-record": however many installers run,    *)
(* no event gets two Regurgitate handlers in one file, or one in each file.*)
RecordedOnce == Once(files)

(* skill.rs replace_staging_package: an installed skill is missing only     *)
(* while an installer swaps it, unless one was killed there or could not    *)
(* rename it back: a failed swap is undone, whoever else is installing.     *)
SwapUndone ==
  /\ skill = None /\ ~killed
  /\ litter # {} \/ \E p \in Installers : backup[p] # None
  => \E p \in Installers : pc[p] \in {"swap", "restore"}

OnDisk ==
  litter \cup {backup[p] : p \in Installers} \cup {skill}

(* skill.rs: "Different existing content is replaced only when the caller  *)
(* explicitly opts in": what the user edited or added beside the package   *)
(* leaves the disk only at the end of an installation with --replace.  True *)
(* of two installers at a time; with three, and a rename that fails, the   *)
(* one that undoes its swap may put the user's directory where another,    *)
(* that has seen a stock package there, is about to move it aside.  (The   *)
(* model's user does not edit while installers run.)                       *)
EditedKept ==
  [][\A c \in OnDisk \ {None} :
       (c.release = "edited" \/ c.extra) /\ c \notin OnDisk' =>
         \E p \in Installers : pc[p] = "clean" /\ job[p].replace]_vars

=============================================================================

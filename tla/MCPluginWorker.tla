--------------------------- MODULE MCPluginWorker ---------------------------
(* The machines the worker of PluginWorker starts on. *)
EXTENDS PluginWorker

Part(hook, skill) == [hook |-> hook, skill |-> skill]
NewMachine ==
  [key |-> "absent", db |-> Database("missing", 0, 0, 0, 0),
   targets |-> [t \in Targets |-> Part("not_installed", "outdated")]]

(* Untouched; near the end of a first run; recording for Codex, whose skill *)
(* is another copy's, beside a Claude configuration in conflict; with a     *)
(* locked credential store; with a damaged database of an early release.   *)
MCInitialWorlds ==
  {NewMachine,
   [NewMachine EXCEPT !.key = "present", !.db.file = "bare"],
   [key |-> "present", db |-> Database("sound", 1, 0, 0, 0),
    targets |-> [codex |-> Part("installed", "outdated"),
                 claude |-> Part("conflicting", "already_current")]],
   [NewMachine EXCEPT !.key = "error"],
   [NewMachine EXCEPT !.key = "present", !.db = Database("damaged", 0, 0, 0, None)]}

MCNotified == {Plain("refresh"), [method |-> "setup", target |-> "claude"]}

(* Bounds: other processes change the machine only while it is inspected; a *)
(* change in between is seen like one at the beginning of the next          *)
(* inspection.  Commands are notified on the machine with the damaged       *)
(* database only, which others leave alone.                                 *)
Bounded ==
  /\ changes' # changes => Inspecting
  /\ inbox = <<>> /\ inbox' \in {<<Request(None, m)>> : m \in Notified}
       => world.db.file = "damaged"

SeenSpec ==
  /\ Init /\ [][Next /\ Bounded]_vars
  /\ WF_vars(WorkerStep) /\ WF_vars(Serve) /\ WF_vars(Poll)
=============================================================================

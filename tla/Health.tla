------------------------------- MODULE Health -------------------------------
(***************************************************************************)
(* Health inspection (src/application/health.rs, src/storage/health.rs) and *)
(* what the plugin makes of it (src/aoe_plugin/view.rs, setup.rs): probes  *)
(* of the key, the history database, the hook configurations and the skill *)
(* directories are reduced to controlled states, counts and labels.        *)
(*                                                                         *)
(* A probe's answer is what the probed thing is: the key "present",        *)
(* "absent" or behind an "error"; the database the state of its file and   *)
(* its rows: "bare" is a file whose tables do not exist yet, "damaged" one *)
(* that is no regular file or fails the quick check; a hook is a state of  *)
(* HookStates, or "error" for a failed inspection.                         *)
(***************************************************************************)
EXTENDS Naturals, Sequences

CONSTANT None    \* no count, no table

Keys == {"present", "absent", "error"}
HookStates == {"installed", "not_installed", "conflicting", "unavailable"}
SkillChecks == {"already_current", "outdated", "error"}
Readiness == {"ready", "not_configured", "needs_attention"}

(* A database: its file, its events by evidence kind, and its capsules, or  *)
(* None where an early release made no table for them.                     *)
Files == {"missing", "bare", "damaged", "sound"}
Database(file, hooks, practices, others, capsules) ==
  [file |-> file, hooks |-> hooks, practices |-> practices, others |-> others,
   capsules |-> capsules]

Databases ==
  [file : Files, hooks : Nat, practices : Nat, others : Nat, capsules : Nat \cup {None}]

Components == {"ready", "not_configured", "unavailable"}
Overalls == {"ready", "not_configured", "degraded"}

-----------------------------------------------------------------------------
(* HealthService::inspect_with_hooks.                                      *)

(* KeyReadinessProbe::key_is_present, which never creates one.              *)
KeyReadiness(key) ==
  CASE key = "present" -> "ready"
    [] key = "absent" -> "not_configured"
    [] OTHER -> "unavailable"

(* HistoryDatabaseProbe::history_counts, and the component made of it.     *)
HistoryHealth(db) ==
  IF db.file = "sound"
    THEN [status |-> "ready",
          events |-> db.hooks + db.practices + db.others,
          hooks |-> db.hooks, practices |-> db.practices,
          experiences |-> IF db.capsules = None THEN 0 ELSE db.capsules]
    ELSE [status |-> IF db.file = "missing" THEN "not_configured" ELSE "unavailable",
          events |-> None, hooks |-> None, practices |-> None,
          experiences |-> None]

Overall(key, history) ==
  CASE key = "ready" /\ history = "ready" -> "ready"
    [] key = "not_configured" /\ history = "not_configured" -> "not_configured"
    [] OTHER -> "degraded"

(* The hooks a report lists: a failed inspection is unavailable, and an     *)
(* AoE fallback beside a native Codex hook makes both conflicting.         *)
Inspected(hooks) ==
  [i \in DOMAIN hooks |->
    [hooks[i] EXCEPT !.status = IF @ = "error" THEN "unavailable" ELSE @]]

Connects(hooks, provider) ==
  \E i \in DOMAIN hooks : hooks[i] = [provider |-> provider, status |-> "installed"]

BothRecord(hooks) == Connects(hooks, "aoe") /\ Connects(hooks, "codex")

Reported(hooks) ==
  [i \in DOMAIN hooks |->
    IF BothRecord(hooks) /\ hooks[i].provider \in {"aoe", "codex"}
      THEN [hooks[i] EXCEPT !.status = "conflicting"] ELSE hooks[i]]

(* inspect_with_hooks, given what its probes answered.                     *)
Report(key, db, hooks) ==
  LET history == HistoryHealth(db)
      inspected == Inspected(hooks)
      worst == \E i \in DOMAIN inspected : inspected[i].status # "installed" IN
    [status |-> IF worst \/ BothRecord(inspected) THEN "degraded"
                ELSE Overall(KeyReadiness(key), history.status),
     key_store |-> KeyReadiness(key),
     history |-> history,
     hooks |-> Reported(inspected)]

-----------------------------------------------------------------------------
(* SetupService::inspect_target.                                           *)

HookReadiness(hook) ==
  CASE hook = "installed" -> "ready"
    [] hook = "not_installed" -> "not_configured"
    [] OTHER -> "needs_attention"

SkillReadiness(check) ==
  CASE check = "already_current" -> "ready"
    [] check = "outdated" -> "not_configured"
    [] OTHER -> "needs_attention"

Integration(target) ==
  [hook |-> HookReadiness(target.hook), skill |-> SkillReadiness(target.skill)]

-----------------------------------------------------------------------------
(* view.rs: the status bar and the parts of the home pane that depend on    *)
(* the snapshot.  Texts are named by what they say.                        *)

Tone(status) ==
  CASE status = "ready" -> "success"
    [] status = "not_configured" -> "neutral"
    [] OTHER -> "warn"

(* status_bar: the number of lessons where the overall health is good.     *)
StatusBar(report) ==
  [text |-> report.status,
   lessons |-> IF report.status = "ready"
                 THEN report.history.practices + report.history.experiences ELSE None,
   tone |-> Tone(report.status)]

Connected(state) == state = [hook |-> "ready", skill |-> "ready"]

IntegrationLabel(state) ==
  CASE Connected(state) -> "connected"
    [] ~Connected(state) /\ "needs_attention" \in {state.hook, state.skill} -> "needs attention"
    [] OTHER -> "not connected to this copy"

IntegrationTone(state) ==
  CASE IntegrationLabel(state) = "connected" -> "success"
    [] IntegrationLabel(state) = "needs attention" -> "warn"
    [] OTHER -> "neutral"

HistoryLabel(report) ==
  [status |-> report.history.status,
   counts |-> <<report.history.practices, report.history.hooks>>]

(* The callout on top of the pane.                                         *)
Callout(report, integrations) ==
  CASE report.status = "ready" ->
         IF report.history.practices = 0 /\ report.history.experiences = 0
           THEN "recording" ELSE "ready"
    [] report.status = "not_configured" ->
         IF \E t \in DOMAIN integrations : Connected(integrations[t])
           THEN "connected" ELSE "not configured"
    [] OTHER -> "attention"

(* setup_notice.                                                           *)
SetupNotice(notice) ==
  [agent |-> notice.target,
   title |-> CASE notice.outcome = "installed" -> "complete"
               [] notice.outcome = "current" -> "already connected"
               [] OTHER -> "attention"]

HomePane(snapshot, notice) ==
  [callout |-> Callout(snapshot.health, snapshot.integrations),
   notice |-> IF notice = None THEN None ELSE SetupNotice(notice),
   rows |-> [t \in DOMAIN snapshot.integrations |->
               IntegrationLabel(snapshot.integrations[t])],
   overall |-> snapshot.health.status,
   key |-> snapshot.health.key_store,
   history |-> HistoryLabel(snapshot.health)]

(* What the two slots may say: labels and counts.                          *)
Labels == {"connected", "needs attention", "not connected to this copy"}
Bars == [text : Overalls, lessons : Nat \cup {None}, tone : {"success", "neutral", "warn"}]
Panes(targets) ==
  [callout : {"recording", "ready", "connected", "not configured", "attention"},
   notice : [agent : targets, title : {"complete", "already connected", "attention"}]
              \cup {None},
   rows : [targets -> Labels],
   overall : Overalls,
   key : Components,
   history : [status : Components, counts : (Nat \cup {None}) \X (Nat \cup {None})]]

=============================================================================

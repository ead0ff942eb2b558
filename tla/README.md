# A verification project for Regurgitate

Regurgitate keeps a private, encrypted history of what coding agents did in a
project and lets later agents recall it.  It has no server: every hook, every
CLI call and the Agent of Empires plugin is a process of its own, and all of
them share one SQLite database, one entry in the operating system's credential
store and the host's files.  What is hard in this program is therefore not any
single function but what happens *between* the statements of one process while
other processes run: a project forgotten between the statement that resolved it
and the one that writes under it, two ingesters on one transcript, two agents
that confirm one lesson, a request in the middle of the plugin's own call.
These modules model that, TLC checks it on small instances, and TLAPS proves
the central parts for every instance.

Paths such as `storage/sqlite.rs` are relative to `src/` of the repository;
`PROJECT.json` maps each definition to its lines.

- [1. Inventory](#1-inventory)
- [2. Modules and how they correspond to the code](#2-modules-and-how-they-correspond-to-the-code)
- [3. Runs, bounds and fairness](#3-runs-bounds-and-fairness)
- [4. What is proved](#4-what-is-proved)
- [5. Where code and documents part](#5-where-code-and-documents-part)
- [6. What is not modelled](#6-what-is-not-modelled)
- [7. Plan](#7-plan)

## 1. Inventory

| Component | State it keeps | Operations that change it | What makes it correct |
|---|---|---|---|
| Encrypted store (`storage/sqlite.rs`, `project.rs`, `experience.rs`, `forgetting.rs`) | the tables `events`, `experiences`, `private_projects`, `forgotten_project_tokens`, `private_cursors` | one SQL statement or IMMEDIATE transaction each: create a mapping, append, replace, erase, delete a batch, save a cursor | no row belongs to a forgotten or unknown identity; identities are never shared or reused |
| Recording service (`application/recording.rs`, hooks in `runtime.rs`) | local variables of a short process | resolve the project (up to three statements), append | an append after a forget leaves nothing behind; concurrent first resolvers agree |
| Forget service (`application/forgetting.rs`) | none | erase one project's rows, write its tombstone | atomic for every other process, final |
| Transcript ingestion (`application/ingestion.rs`, `adapters/codex_incremental.rs`, `managed_codex.rs`) | one checkpoint per session: offset, SHA-256 of the prefix, open calls | load, validate, parse the tail, append, save | no completed call is skipped; forgotten and pruned calls stay away; calls split over runs are completed; a line nobody can parse is never stepped over |
| Experience service (`application/experience.rs`) | capsules as whole sealed rows, in a bucket per project, workspace, ecosystem or machine | record, confirm, challenge, obsolete, supersede | no evidence is lost, recovery is earned, contradictions mark both sides, a receipt counts once, a lesson goes with the project it came from |
| Experience capsule (`core/experience.rs`) | evidence log of at most 64 entries, lifecycle, challenge bookkeeping | confirm, challenge, set the lifecycle | always valid; the recovery counter is backed by the log |
| Retention (`application/retention.rs`, `storage/retention.rs`) | none beside the tables | preview, delete in batches | a preview is exact, a completed run leaves no candidate, the newest rows survive, it ends |
| Master key (`storage/keyring.rs`) | one credential store entry | get or create | every row can be opened with the stored key |
| Plugin worker (`aoe_plugin/protocol.rs`) | its last setup notice, a refresh flag, a call counter | inspect, publish by two host calls, answer requests in the middle of them | one reply per request, no lost refresh, what is shown was true and agrees with the notice beside it |
| Health inspection and plugin view (`application/health.rs`, `storage/health.rs`, `aoe_plugin/view.rs`, `setup.rs`) | none (reads) | probe the key, the database, the hooks and skills one after the other; reduce them to controlled states and labels | "ready" is only said of a machine that records; two sources of one event are a conflict |
| Installers, setup (`packaging/`, `aoe_plugin/setup.rs`) | host configuration files, the skill directory | locked read-modify-write, staged directory swap | foreign content is kept; hooks are installed once; a failed swap is undone |
| Recall, ranking, brief (`query/`, the callers in `runtime.rs`) | none (reads) | up to eight queries, each of its own transaction; match, cluster, rank, fit to a budget; an automatic preflight with a time limit | nothing that matches is passed over silently, known failures come first when a risk is named, confidence needs independent reports, the host's prompt is never held |
| Admission and normalisation (`core/admission.rs`, `normalize.rs`, `event.rs`, `adapters/`) | none (pure) | refuse or truncate texts; an event from a hook's JSON | only events the store accepts; what was admitted is admitted again when read back |
| Ciphers, codecs, AoE session lookup, argument parsing, printing, benchmarks | none | reads and pure functions | see section 6 |

How they interact: a hook calls the recording or the ingestion service; both
call `resolve_project` and then `append`, each a statement of its own.  The
experience commands resolve their project the same way (confirm does not: it
finds a capsule of any project by its selector), read capsules, compute in
memory and replace whole rows.  Forgetting and pruning are run by the user in
other processes and delete rows under all of them.  All rows are sealed with
the master key, which the first process to run creates.  The plugin worker
inspects store and configuration files and starts the installers on request.
A recall reads the same tables query by query, without a transaction around
them, while all of these write.

The hard behaviours are: interleaving of processes at statement granularity
(everywhere), stale local copies (resolved identity, loaded checkpoint, read
capsule, held key), crashes between the appends and the saving of a checkpoint,
files replaced under a reader, repeated requests, bounded logs and batches, and
re-entrancy in the plugin worker.  `PROJECT.json` lists each at the line where
it bites, with the properties about it or the reason there is none.

## 2. Modules and how they correspond to the code

```
EncryptedStore            the tables, one operator per SQL statement
  Recording               processes that resolve, then append; forget, prune
    RecordingProps        its properties; refinement of ProjectLedger
      RecordingProofs     TLAPS proofs            MCRecording      TLC instance
  Ingestion               the checkpoint protocol MCIngestion      TLC instances
    QuietIngestion        on a file not replaced  MCIngestionQuiet TLC instance
      IngestionProofs     TLAPS proofs
ProjectLedger             abstract: what project history promises
Capsule                   pure operations on one capsule
  Experience              processes that read and replace capsules
    ExperienceProps       its properties          MCExperience     TLC instances
      ExperienceProofs    TLAPS proofs
KeyStore                  creation of the master key
  KeyStoreProofs          TLAPS proofs
Retention                 batched deletion
  RetentionProofs         TLAPS proofs
Health                    pure: reports, readiness, labels
  PluginWorker            the plugin's protocol thread and what it inspects
    PluginWorkerProofs    TLAPS proofs            MCPluginWorker   TLC instance
HookConfig                pure: what is made of a configuration file
  Setup                   installers of hooks and skill, plugin setup
    SetupProofs           TLAPS proofs            MCSetup          TLC instance
ClaudeConfig, AoeConfig   pure: Claude's settings.json, the AoE hook table
                          (proofs in SetupProofs)
TaskIntent                pure: the classifier of task words
  Relevance               exclusions and match factors
EvidencePolicy            pure: cohorts, weights, strength
Procedures                pure: procedures and their v2 labels
  Ranking                 clusters, order, budget, brief
    Recall                a request, query by query MCRecall       TLC instance
      RecallProofs        TLAPS proofs, also about Procedures, Admission, Observation
ProjectDefaults           pure: the defaults of a path (used by Recall)
Admission                 pure: which texts may be stored
Observation               pure: from a hook's JSON to an event
```

The pure modules that no other specification uses (ClaudeConfig, AoeConfig;
Admission, Observation) are extended by MCSetup and MCRecording, so that TLC
evaluates the assumptions on their constants.

Definitions called "faulty variants" stand beside the definition they distort.
They are not used by any specification: each is a plausible bug, substituted
for its original to see that a property notices it.

**EncryptedStore.** `projects` is `private_projects`, `forgotten` the tombstone
table, `events` and `experiences` map a primary key to the owning identity (and
a body).  Lookup tokens are keyed hashes of what they are derived from, so the
identity stands for its token.  `InsertMapping` is `INSERT OR IGNORE` with a
UUID generated just before; the UUID is used up even if the row exists.
`AppendEvent` and `AppendExperience` are single INSERTs with a `NOT EXISTS`
over the tombstones.  `EraseProject` is the one IMMEDIATE transaction of
`erase_project`.  SQLite executes each atomically; nothing larger is atomic.

**Recording.** A writer goes through `load` / `insert` / `reload` / `append`,
the statements of `resolve_project` followed by the append.  `held` is the local
variable with the resolved identity.  `ReloadProject` has the error path for a
mapping erased in between.  Environment: `Forget`, `Prune` (any rows),
`Crash` (at any statement).  A writer with a capsule is the insertion branch of
`record_at`.

**ProjectLedger** is the abstract promise: a shelf per path, a ticket per
writer that has resolved; forgetting empties the shelf *and revokes all its
tickets in one step*.  `RecordingProps` maps a path's shelf to the rows under
its current identity and a writer's ticket to the path whose live identity it
holds.  That the concrete protocol implements it says that tombstones do the
revoking.

**Ingestion.** A transcript is the sequence of its complete lines (calls,
outputs and torn lines: what a killed host left unfinished, with the record that
follows on the same line); an offset counts lines; a digest is the prefix it
covers (SHA-256 is taken to be injective).  An ingester loads the checkpoint,
validates it against the file, reads the tail, *separately* hashes the prefix,
resolves the project, appends each completed call and saves the checkpoint with
an unconditional upsert.  A tail with a torn line is refused whole
(`RefuseTail`): the checkpoint stays before it.  The order of the appended batch
is by timestamps the model does not keep, so any order is allowed.  The host
writes lines and may start the file over; the user may forget the project or
prune events (`Prune`); ingesters may be killed.

**Capsule** has the operations of `ExperienceCapsule` as operators on records:
`Confirm`, `ConfirmWithRecovery`, `Challenge`, `SetLifecycle`, `Valid`.  Topic
and lesson stand for the texts (equal topic: similar enough to be equivalent;
different lesson: contradicting); `DayLength` turns times into the UTC days of
`same_evidence_cohort`.  A capsule carries its `scope`, its `origin` (the
identity it was recorded under) and its `bucket`, the row's scope identity.

**Experience.** A request is `Start...` (takes the time, resolves the project),
`Read...` (selects capsules, decides, computes the rows to write) and one
`Write` per row.  `record_at` writes two rows for a contradiction and ignores
both answers; `supersede` and `transition` ignore theirs too; `Unchecked` says
so.  `supersede` selects its two capsules one after the other and keeps the first
(`ReadReplaced`, `ReadSupersede`).  `Accepted` is the SQL condition of `append_experience` (new id, no
tombstone) and `replace_experience` (existing id, no tombstone); sealing
validates first (`Failed`).  Each path has its own successive identities
(`Identity(p) = <<path, generation>>`): module Recording shows that identities
behave like that, so this module need not repeat the resolution.  `Forget(p)`
ends a path's identity and erases *by origin*.  A lesson of the project is kept
in the project's bucket, one of the workspace in the bucket of the directory
above, which several projects share; so an agent of one project confirms and
replaces a capsule whose origin is another's, which may be forgotten in between.
The identities of project and workspace are resolved in one step (two in the
code: each path's resolution is Recording's).

**KeyStore.** `get_or_create`: get, and if there is none generate, set and read
back; then rows are sealed with what was read.  `Spec` starts processes at any
time; `SetupSpec` lets none start beside the first run until it has stored its
key.

**Retention.** The tables map ids to times; a selection is `before` a cutoff or
`beyond` a count.  `Oldest`/`Newest` are the `ORDER BY time, id LIMIT n` of the
SQL, ties included.  A batch takes events first and capsules in what is left
of it; a short batch is the last.

**Health.** `Report` is `inspect_with_hooks` given what its probes answered,
`Integration` is `inspect_target`, `StatusBar` and `HomePane` are the parts of
the view that depend on the snapshot, each text named by what it says.

**PluginWorker.** The worker's thread inspects in four probes (`key`, `history`,
`codex`, `claude`), is then in the first (`bar`) or second (`pane`) host call of
a publication, `idle`, `stopped` or `failed`.  `seen` is what the probes found,
each at its own moment, and becomes the snapshot.  `world` is the machine:
another process's first run stores the key, creates the file, then its tables;
agents record lessons; setups change the integrations.  Nobody else uninstalls
or deletes anything, so the true state only moves forward.  `moments` is a
history variable: the true overall health (`TrueHealth`) at the moments of the
current inspection.  `HandleWaiting` is `handle_inbound` from inside
`call_host`, `HandleIdle` from `serve`.  `Timeout` is the expiry of
`HOST_RPC_TIMEOUT` with nothing in the pipe.  A notification is a request without
an id, obeyed and not replied to: `Poll` is the one of the status, `Notified` names
the commands a host also sends so.  `ReplyFails` and `CallFails` are the write of a
reply or of a call that fails, after what it reports was done; either ends the
worker.

**HookConfig, Setup.** A configuration document is the Regurgitate handlers per
event (the executable each runs, whether a matcher restricts it) and a set of
items of others.  `Prepared` is `prepare_config` for config.toml and `prepare`
for hooks.json, which differ in what they call a conflict.  An installer has a
list of tasks: `install-hook` one, `install-skill` one, `SetupService::setup`
four (both previews, then skill, then hook), each behind the success of the one
before (`Done`, `End`).  The hook tasks go through `choose` and `exists`
(`json_destination`: config.toml is read, then hooks.json looked for), `preview`,
`lock`, `reread`, `write`; the skill tasks through `look`, `recheck`, then
`place`, or `backup`, `swap`, `restore` and `clean`.  Environment: `HostWrite`
changes a file under its lock, `Fail` ends an installer at any step, its lock
released by the operating system and the directory it had moved aside left
behind (`litter`).  Inspecting the skill directory is one step.

**ClaudeConfig, AoeConfig.** What the other two installers make of their file,
as functions from the file before to the file after or to a refusal: Claude's
groups with matchers and several handlers each, whose stock Regurgitate commands
(`hook_command.rs`) are rewritten in place; AoE's table of status hooks with its one
switch.  Their *steps* (lock, reread, compare, write) are the protocol of Setup's
TOML mode on one file; `ClaudeMergesAsToml` in SetupProofs is the reason
why that mode stands for Claude in Setup.

**TaskIntent, ProjectDefaults, Relevance, EvidencePolicy, Procedures, Ranking**
are the pure parts of recall.  A text is the set of its words.  Match factors
are the code's numbers as integers (1/800), evidence weights thousandths; the
width of the credible interval is left open, so `Orders` is the set of all
rankings that the scores allow, and every property must hold of each of them.

**Recall.** One request, made by the recall command, the same with `--brief`, the
preflight command or the automatic preflight of a prompt hook.  Its queries are
one action each (`FindProject`, `ReadTelemetry`, `ReadProject`, `ReadPractices`,
`FindWorkspace`, `ReadWorkspace`, `ReadEcosystem`, `ReadMachine`, `ReadGlobal`); `Deliver` ranks what they
returned, applies limit, budget and brief.  In between other processes confirm,
retire, record or forget (`steady` remembers what they left alone).  `host` is the
prompt that waits for an automatic preflight: `recv_timeout` may expire whenever it
waits, a late answer is heard by nobody, the process ends with its thread.  A
casual request is answered without a query (`StaySilent`), by the same thread, so
the prompt waits for that too.  The workspace may have no identity when it is
looked for; one that has keeps it while the request runs.

**Admission, Observation.** A text is what the checks see of it (word lengths
and shapes, counts, markers); `admit` is the checks in their order, and the text
made of an accepted one is accepted again.  A tool's response is what the five
searches through it find; `CodexObservation` and `ClaudeObservation` are the events the
adapters make of it.

## 3. Runs, bounds and fairness

| Run | Instance | Shows |
|---|---|---|
| MCRecording | 2 writers, 2 paths, 3 identities, 1 event, 2 capsules | `NoOrphanRows`, `MappingsSound`, `ResolversAgree`, `ForgottenForGood`, `ImplementsLedger`, no deadlock |
| MCIngestionQuiet | 2 ingesters, 2 calls, 3 lines of which 1 may be torn, 1 mishap (a crash or a file started over), 1 deletion (a forget or a pruned event) | types, `CursorNeverAhead`, `CursorExact` under all interleavings; `QuietNoResurrection`, `QuietCursorAdvances` as long as ingesters take turns and none dies |
| MCIngestionLive | 2 ingesters, 3 identities, 1 call, 1 torn line, 1 crash, 1 deletion, fair | `EveryCallSettles` |
| MCIngestionForgotten | 2 ingesters, 2 lines, 1 forget | violated: `NoTranscriptResurrection` |
| MCExperience | 2 agents of 2 projects in one workspace, 1 shared capsule, 3 days, log of 3, threshold 2, 1 forget on the first day | `ProgressBacked`, `ForgottenNeverReturn` under all interleavings |
| MCExperienceAlone | 1 agent, 2 capsules, 2 lessons, 3 days, an early-release capsule | `CapsulesValid` through every operation, `NoLostUpdate`, `RecoveryEarned`, `ContradictionMarksBoth`, `RecordsOnce`, `RetiredIsFrozen` |
| MCKeyStore | 3 processes, 4 keys, 3 rows, first run completed alone | `RowsReadable` |
| MCKeyStoreRace | 2 processes, unordered | violated: `RowsReadable` |
| MCRetention | 2 pruners, 3 events, 2 capsules, batch of 2, 2 appended rows, fair | `PreviewExact`, `ExhaustedWhenDone`, `PruningEnds` |
| MCPluginWorker | 2 requests, polling, 2 commands also notified, failing writes, 5 machines to start on, 2 changes by others, fair | `RepliedOnce`, `CalmMeansShown`, `ShownWasTrue`, `NoticeConfirmed`, `RefreshPublished`, `EveryRequestAnswered` |
| MCSetup | 2 installers, commands of 2 executables, 5 initial file pairs, 3 initial skills, 1 foreign setting that changes | `RecordedOnce`, `SwapUndone`, `ForeignKept`, `EditedKept` |
| MCRecall | 12 requests, 3 stores, 1 write by others, windows and limits scaled down | `NothingOverlooked`, `FailureReserved`, `TrimmedFromTheEnd`, `ConfirmedIndependently`, `BroaderOnlyWhenSparse`, `TextNotHidden`, `PromptNeverHeld` |

The type invariants of the other state machines are proved for every instance
(section 4) and not checked again, but for Ingestion's, which an instance is small
enough to check as well.  Recall's is a part of the invariant in RecallProofs
(`Types`).

**Why the bounds suffice for what they are meant to show.**

- *Recording.* The races are between one writer and another or the forgetter,
  on one path; the second path is there so that identities can be confused.
  Three identities let a path be forgotten and recreated while a writer still
  holds the first one, and be resolved by a loser whose UUID is dropped.  When
  the identities of the instance run out writers wait, which UUIDs never make
  them do; safety is not affected and the other writers, the forgetter and the
  crashes can always move (deadlock is checked).
- *Ingestion.* Three lines are a call split between two runs plus another call
  begun, or either with a torn line before, between or after; two overlapping
  ingesters give every order of saving, one crash every point of failure.  In
  MCIngestionQuiet the host starts the file over only while no ingester has it
  open (`QuietSpec`); section 5 says what happens otherwise.  The history
  variable `disturbed` records whether two ingesters have ever overlapped, one
  has died or the file was replaced: the two `Quiet` properties speak of the
  behaviours where none of this happened, because with any of it they do not
  hold (that is the run MCIngestionForgotten for the overlap; a crash before the
  checkpoint is saved, then a forget, has the same effect).
- *Experience.* `MaxEvidence` 2 or 3 instead of 64 and `Required` 2 instead of
  3 keep the same transitions: a full log, an eviction, recovery in more than
  one step, a reset on the way.  Both are parameters of the modules.  Times tick
  a day at a time; reports of one tick are of one cohort.  The properties of
  MCExperienceAlone hold only while requests do not overlap (a request may
  still crash at any step); MCExperience lets requests overlap and keeps to
  properties that are then still true.  Its two projects share a lesson through
  the directory above; each of the three paths may be the one forgotten, also
  between an agent's reading and its write.  A behaviour with a forget stays on
  the first day (`ForgottenEarly`): whether a write comes before or after the
  forget does not depend on the time it carries.
- *Recall.* `Window` 6 stands for 300 rows per bucket, `BriefLimit` 3 for 8,
  `MaxLegacy` 1 for 64; `Sparse` is the code's 3.  The stores are one with lessons
  in every scope, one with strong local lessons and a failure that ranks below
  them, one with too few local lessons; the requests include the default
  budget, one that fits a single lesson, a limit of two, words that say nothing,
  conflicting categories, failures only, and all four callers.  One write by
  others can fall between any two of the queries.
- *KeyStore.* Three processes: the creator and two later ones.
- *Retention.* Batch 2 with three events and two capsules gives full batches of
  events only, mixed ones, and short ones; times 0 and 1 give ties at every
  edge.  `TouchCapsule` only moves a capsule forward, as `updated_at` does.
- *PluginWorker.* Two requests of any of four methods: one being handled in
  the middle of the publication caused by the other.  Two changes are what it
  takes for the machine to go through a first run's states around a probe.
  `SeenSpec` lets others change the machine only while it is inspected: a change
  between two inspections is found like one at the start of the next.  Commands
  are notified (a refresh, a setup of Claude) only during the first publication
  (`MaxCalls`) and on the machine with the damaged database, the one that other
  processes leave alone: notices, rows and the flag do not depend on the history.
- *Setup.* Two installers, any jobs, any number of times (with three,
  `EditedKept` is false: section 5; the other properties are proved for any
  number); commands of the
  executable on the path and of one other.  The initial files have nothing, an
  older release's recording hook, a foreign group beside a hooks.json, and a
  handler under a matcher; the setting that others switch on and off is the one
  that disables hooks, which makes previews stale in both directions.  `EditedKept`
  needs the user's own files beside a stock package.  An explicit `--config hooks.json` is started only where that file exists: naming
  one that does not exist yet races with an installation into config.toml and
  breaks `RecordedOnce` (section 5).

Symmetry is used where nothing but equality is asked of the values, and never
in a run with a liveness property.

**Fairness.** Weak fairness of the whole `Step(g)` of every ingester: a running
process is scheduled, and hooks keep starting new ones (the idle ingester's
first step is part of `Step`); nobody is obliged to write, crash or forget, and
the crash bound stands for crashes not going on for ever.  In Retention, weak
fairness of `DeleteBatch`: the loop of `enforce` goes on; appended rows are
finitely many.  In PluginWorker, weak fairness of the worker's thread and of the
host reading its pipe, plus `Poll`: the host keeps sending status
notifications.  The last one is an assumption about the host that the worker
does need: see section 5.  In Recall, only `Timeout`: the clock of
`recv_timeout` runs out; the store may never answer, and neither the queries nor the
end of the process are fair.  `EveryCallSettles` has one exception the code makes: a
transcript with a torn line is not read past it.

**What the properties mean.** Each is commented where it is defined.  The ones
that took most thought: `CursorNeverAhead` (a stored checkpoint may be older
than another one, but never covers a completed call that no append was executed
for), `CursorExact` (pending calls are exactly the open calls of the prefix,
through any chain of checkpoints of overlapping ingesters and resets),
`ProgressBacked` (stale copies may overwrite each other, but since the log and the
counter are written together the counter never exceeds the independent
evidence in the log beside it), `RecoveryEarned` (a challenged capsule returns
only on the evidence in its own log after the last opposition, as far as the log
still shows all of it: section 5 says what a full log forgets),
`CalmMeansShown` (an idle worker that owes no refresh shows one snapshot in both
slots and its last notice), `ShownWasTrue` (the key and the database are probed
at different moments, yet the health made of both was the machine's at one of
them), `NothingOverlooked` (whatever is written meanwhile, a matching lesson that
nobody touched is shown or counted as omitted), `ForgottenNeverReturn` (a lesson
two projects share goes with the one it came from, even when the other is about
to write it back).

## 4. What is proved

**Recording.**  `RecordingProofs` proves, for any sets of paths, identities, events, capsules,
bodies and writers that satisfy `StoreAssumption` and `RecordingAssumption` (the missing row is
none of the values; ids of different kinds differ):

| Theorem | Statement |
|---|---|
| `TypeCorrect` | `Spec => []TypeOK` |
| `NoOrphans`, `Mappings`, `Agreement` | the three safety invariants |
| `ForgottenStays` | `Spec => ForgottenForGood` |
| `Refinement` | `Spec => ImplementsLedger` |

The argument.  None of the safety invariants is inductive alone.  That no
orphan row appears needs to know that the identity a writer is about to use is
either what its path maps to now or has a tombstone (`ResolversAgree`); that this
survives another writer's insertion needs that a mapping is only created where
there was none, with a UUID never issued before (`MappingsSound`, with its third
conjunct that everything mapped or forgotten was issued); that it survives an
erase needs that two paths never share an identity.  Their conjunction with
`TypeOK` is `IInv`.  The proof has one lemma per kind of step: local steps,
`Begin`, `InsertProject`, the two appends, `Forget`, `Prune`.  Refinement uses
`IInv` and again goes step by step: resolving admits, a tombstoned append is an
abandon (the ticket is already gone), an erase is the ledger's `Forget`.

**Experience.**  `ExperienceProofs` proves, for any evidence bound, recovery
threshold and day length greater than zero, any clock, any number of agents,
projects, workspaces, scopes, capsules and forgets (`CapsuleAssumption`,
`NoChallenge`, `ExperienceAssumption`: bounds are naturals, every agent has a home and
every project a directory above it, and the missing value is neither a receipt,
a challenge nor a capsule):

| Theorem | Statement |
|---|---|
| `TypeCorrect` | `Spec => []TypeOK` |
| `AlwaysValid` | `Spec => []CapsulesValid` |
| `NothingReturns` | `Spec => []ForgottenNeverReturn` |
| `ReceiptsOnce` | `Spec => []ReceiptOnce` |
| `BackedProgress` | `Spec => []ProgressBacked` |
| `NothingLost`, `EarnedRecovery`, `RetiredStay`, `OneOfAKind` | one process at a time (`Alone`): `Spec` implies `NoLostUpdate`, `RecoveryEarned`, `RetiredIsFrozen`, `RecordsOnce` |
| `BothMarked` | one process, and nothing is forgotten: `Spec => ContradictionMarksBoth` |

`ReceiptOnce` is not inductive: it says nothing of the bodies agents have
computed and not yet written.  A capsule is `Sound` if it is well typed, valid
and holds no receipt twice; `IInv` says that all stored capsules *and all
pending bodies* are sound, and that the origins of the stored ones are live.
One lemma per operation of `Capsule` shows that it makes sound capsules of sound
ones (`ConfirmFit` is the one that evicts; `RecoverySound` the one that goes
through challenge and reactivation); one lemma per action then shows that what
an agent plans is sound, whatever the table has become since it read.  A write
keeps `ForgottenNeverReturn` because `Accepted` looks for a tombstone of the
origin at the moment of the write, not of the reading, and because `Forget` erases
by origin whatever bucket the row is in.

`ProgressBacked` is not inductive either: it bounds the counter by all supporting
cohorts of the log, and a confirmation that evicts the oldest entry may take one
of them away.  `Backed` bounds it by fewer, those of the uninterrupted support at
the end of the log (`CountedOf`), while the log is complete (`Complete`): what is
evicted from there was either opposed later, and then the counter started again,
or is the first sign that the log is full of support, and then `Backed` claims
nothing.  `ConfirmCounted` shows that a confirmation moves the counter and the
cohorts together.

The five action properties hold while requests do not overlap.  `Alone` says so
of the constants: at most one agent, which may still crash at any step.  What
they need of a state is that the bodies it is about to write are made from the
rows it will find (`Fresh`): nobody else writes in between, and forgetting only
deletes.  The capsule `supersede` holds between its two selects is sound like any
other (`Held`, a part of `IInv`), and with one process it is still the row
(`UpToDate`).  `Fresh` says what each pending write will be *to its row* (`Fits`), so
that the write itself has nothing left to show.  `ContradictionMarksBoth` also
needs `NothingForgotten`, because neither of a contradiction's two writes is
checked: when the identity of one side ends between them, the other is marked
alone.  `Marked` follows the two writes.

**Master key.**  `KeyStoreProofs` proves `KeyTypes` (`TypeOK`) and `Readable`
(`SetupSpec => []RowsReadable`) for any number of processes, keys and rows
(`KeyAssumption`).  The inductive invariant adds that while no key is stored at
most one process runs and nothing is sealed (`FirstAlone`), and that every
process that verifies or writes does so with a key in place, a writer with that
very key (`KeysHeld`).  Without `FirstAlone` a second `set` would replace the
key of rows already sealed, which is what MCKeyStoreRace shows for `Spec`.

**Installers.**  `SetupProofs` proves for any number of installers, executables,
events and foreign items (`ConfigAssumption`, `SetupAssumption`: missing values are
values of no other kind, and the initial files do not record anything twice)

| Theorem | Statement |
|---|---|
| `SetupTypes` | `Spec => []TypeOK` |
| `OneHandler` | `Spec => []RecordedOnce` |
| `SkillReturns` | `Spec => []SwapUndone` |
| `NothingForeignLost` | `Spec => ForeignKept` |

The invariant is local to each installer (`Local`): what it holds locked, that
what it is about to write has the foreign items of the file as it is now, and
that it writes to the only file that may record.  Its own steps establish it.
That the steps of the others keep it is stated once (`Bystanders`, from
`Others` and `Rely`): nobody changes a file another has locked, hooks.json
neither appears nor disappears, and config.toml gets no handler where there is
a hooks.json.  The second of these is why the condition of `StartHook` matters.
A conflict ends an installer, so what is prepared never adds a second handler
(`PreparedDoc`).

**Host configurations.**  `SetupProofs` also proves, of the two pure
modules, for any groups, handlers, matchers and commands: installing twice
changes nothing and is then inspected as installed (`ClaudeStable`, `AoeStable`);
nobody else's group, handler or command is dropped, reordered or changed, and no
hook the user left switched off starts to run (`ClaudeKeepsOthers`,
`AoeKeepsOthers`); afterwards every mapped event runs Regurgitate for all tools, by
the executable that was asked for (`ClaudeRuns`); and on groups of one bare command
each the merge is HookConfig's (`ClaudeMergesAsToml`).  `ClaudeStable` is the
hard one: the merge rewrites handlers in place and *then* looks whether any
unrestricted one is there, so its proof follows a group through both.

**Texts, procedures, events.**  `RecallProofs` proves, over every set of practice events,
every label, tool, response and text: each event of the project is recalled in the one
capsule of its task and strategy, that capsule reports nothing but such events, and a
query selects it exactly when its filter is the operation of the event's own v2
label, although the capsule holds the procedure that label migrated to
(`EventsRecognised`; the label `other` included, which loses its name in the migration but
not its operation); a v2 label migrates to a valid procedure and to that operation
(`MigrationValid`, `MigrationKeepsOperation`); an adapter hands on only events the store
accepts (`ObservationsValid`); a strategy is derived for exactly the tools that change a
file (`ToolStrategyMatches`); an admitted text is admitted when it is read back,
unchanged (`AdmittedReadsBack`).

**Retention.**  `RetentionProofs` proves `TypeCorrect`, `PreviewAlwaysExact` and
`ExhaustedAlways` for any finite tables and batch size.  `ORDER BY ... LIMIT n` over a
finite strict total order returns n rows or all of them (`FirstOfSize`, from the
existence of a minimal element of what is not among the first); so a batch
shorter than its limit took every candidate (`ShortBatch`), and a pruner that
ends leaves none (`NoneLeft`).

**Plugin worker and health.**  `PluginWorkerProofs` proves, for any machine the
worker starts on, any number of requests and of changes by others:

| Theorem | Statement |
|---|---|
| `TypeCorrect` | `Spec => []TypeOK`; with `SeenSoFar`, what has been probed at each point |
| `ShownTrue` | `Spec => []ShownWasTrue` |
| `CalmShown` | `Spec => []CalmMeansShown` |
| `NoticeAgrees` | `Spec => []NoticeConfirmed` |
| `AnsweredOnce` | `Spec => []RepliedOnce` |
| `ReadyMeansReady`, `ConflictReported` | of reports: what "ready" says; AoE and Codex are never both reported as installed |

`ShownWasTrue` rests on `Honest`: a key that was absent when it was probed leaves a
moment for whatever state of the database is found later, because only a
process that has stored its key creates one.  `CalmMeansShown` rests on
`Displayed`, about both pipes: there is at most one call on its way, with the right
payload; a call that is answered has been displayed; an answer is never to a
later call; and where the payload has become wrong a refresh is due.
`NoticeConfirmed` adds `Confirmed`: an agent whose setup succeeded is
connected, and was when it was inspected, unless a refresh is due.  `AnsweredOnce`
counts: a request that was sent waits in the inbox, or has one reply on its way,
or has been answered, and the three numbers add up to one, or to nothing in a
worker that failed while it wrote the reply (`OnePlace`); what a queue gains or
loses at its ends is in a few lemmas about `Held`.

**Ingestion.**  `IngestionProofs` proves, for any number of ingesters, calls, lines, torn
lines, crashes and rewrites (`StoreAssumption`, `IngestionAssumption`: the session has
a path, the missing value is no checkpoint, bounds are naturals):

| Theorem | Statement |
|---|---|
| `ParsePairs` | over every transcript: the parser completes the calls that have an output after them, and leaves open those that were called again or never answered since |
| `TypeCorrect` | `Spec => []TypeOK` |
| `NeverAhead`, `AlwaysExact` | `QuietSpec => []CursorNeverAhead`, `QuietSpec => []CursorExact` |
| `NoResurrection`, `CursorAdvances` | `QuietSpec` implies `[]QuietNoResurrection`, `QuietCursorAdvances` |

The heart of it is `ParseSplit`: parsing a prefix, then the rest from the calls the
prefix left open, is parsing the whole.  That is an induction over the lines;
the provers cannot instantiate the library's induction theorems, so it is done
with a set in place of the predicate (`UpTo`, from the well-foundedness of the
naturals).  It makes the local invariant (`Sound`) hold: what an ingester is going
to store is exact, and all it completes has been handed to the store or is in its
batch.  The other ingesters cannot disturb that, since the file only grows while
anyone has it open; `SaveCursor` may then overwrite a newer checkpoint with an
older one without getting ahead of the store.  For `Spec` both are false: a
transcript replaced between the parsing of its tail and the hashing of its prefix
gets a checkpoint that covers lines nobody parsed (section 5).  The two `Quiet`
theorems rest on `Alone`: while nothing was disturbed at most one ingester is at
work, all that was handed to the store is covered by the stored checkpoint or by
the one being made, and nothing it has still to append was ever handed over;
with `CompletedOnce` (no call is completed twice in one file) a deleted event has
no second occasion.

**Recall.**  `RecallProofs` also proves, for any stores, requests, practice events and
writes by others, any window and limits (`RecallAssumption`: capsules, events and
requests are records of the types the code decodes; a store holds an id once; ids
derived from practice events are no capsule's; bounds are naturals):

| Theorem | Statement |
|---|---|
| `ReadingHolds` | `Spec => []IInv`, what the candidates have to do with the rows |
| `AnswersExplained` | `Spec => [](IInv /\ Explained)`, what the answer has to do with the candidates |
| `OverlooksNothing`, `ReservesFailure`, `TrimsFromTheEnd`, `ConfirmsIndependently`, `BroadensOnlyWhenSparse`, `HidesNoText` | `Spec` implies that `NothingOverlooked`, `FailureReserved`, `TrimmedFromTheEnd`, `ConfirmedIndependently`, `BroaderOnlyWhenSparse`, `TextNotHidden` hold always |

The six speak of the end of a request and of rows that other processes may have
changed while it read; none is inductive.  `IInv` says of every moment between two
queries: a copy of a capsule nobody touched is the row as it stands (`Same`); a
row nobody touched, in a bucket that was read to its end, is among the candidates
(`Found`); nothing beyond the project has been read unless the candidates of its
own that are active and applicable were fewer than `Sparse` (`Narrow`, with
`Fresh` and `Nearby` for the queries before that decision); what the practice
events tell is there as long as the project is mapped (`Heard`).  A write by
others cannot break these, since whatever it touches leaves `steady`.  `Explained`
adds that an answer is the ranking of the clusters of those candidates, cut and
handed over, unless there was nothing to ask or nothing to say.

What remains is about ranking, one lemma per stage: every matching candidate is in
the one cluster of its identity (`ClusterIs`, `OneEach`); an order is a
permutation (`OrderIs`); a reservation exchanges two places (`ReserveIs`); limit
and budget keep a beginning and count what they drop (`BudgetedIs`); the caller's
mode passes the items on or chooses one of them (`DeliveredIs`).
`ConfirmedIndependently` is arithmetic over sums: the best entry of a cohort weighs at
most 825 thousandths (`MassBound`), so the 2500 of "moderate" take four cohorts
and the 6000 of "strong" take eight (`StrengthRests`).  The sum over a set is a
fold, about which the provers can show nothing by induction; `Sums` has it as a
function on the set's finite subsets, which `SumsExist` constructs.

**Only model-checked:** `EditedKept` (false for three installers, section 5) and all
liveness (fairness and ENABLED): `PruningEnds`, `EveryCallSettles`,
`RefreshPublished`, `EveryRequestAnswered`, `PromptNeverHeld`.

## 5. Where code and documents part

Shown by a run (`findings` in PROJECT.json):

- *Retained cursors and resurrection* (`docs/roadmap.md:143-144`).  An ingester
  that read the transcript before the project was forgotten resolves the
  *next* identity and stores the forgotten calls again.  True while
  ingesters take turns (MCIngestionQuiet), not when two overlap
  (MCIngestionForgotten).
- *First-run writers converge on one key* (`storage/keyring.rs:111-112`).  The
  read-back happens before another process's set (MCKeyStoreRace); rows sealed
  in between cannot be opened later.

Met while modelling and visible in the modules:

- a capsule is read, changed in memory and replaced whole, with no
  transaction.  So of two overlapping confirmations one is lost
  (`docs/architecture.md:182-183`), a confirmation prepared before a challenge
  or a retirement undoes it (`docs/architecture.md:97-99`), one side of a
  contradiction stays active and two first recordings of one lesson both insert
  (`docs/v0.8-plan.md:98-101`): the properties of MCExperienceAlone do not
  hold of two agents whose requests overlap;
- a receipt presented again after its entry was evicted from a full log is
  counted again (`docs/architecture.md:184` calls replay idempotent);
- so is a day and environment whose counted entry was evicted: a log that 64
  later reports of one cohort have filled no longer shows that another one was
  counted, and the next report of that other one counts again
  (`core/experience.rs:876-913`; `docs/architecture.md:97-98` requires three
  distinct ones).  Found by TLC when `RecoveryEarned` was still stated without
  `Complete`, on an instance with a log of three and a threshold of three;
- `append` answers "already present" for a refused tombstoned event as well
  (`storage/sqlite.rs:141-142` says otherwise; see `RecordEvent`);
- a transcript replaced between parsing its tail and hashing its prefix gets a
  checkpoint that covers lines nobody parsed (`Digest`; `Spec` without
  `QuietSpec`'s restriction);
- pruning by age deletes capsules as well (`docs/architecture.md:476` says
  events only);
- the recheck of an existing skill and the rename that moves it aside are two
  steps, so an installer that saw a compatible package does overwrite, without
  `--replace`, what another executable's installer put there in between
  (`packaging/skill.rs:171-172`: "cannot turn a preview into an overwrite").
  With three installers, one of which fails to rename and restores, that may be
  a directory with the user's own files (`packaging/skill.rs:101-102`): a
  21-state behaviour of MCSetup with `Installers = {p1, p2, p3}` ends so;
- an installation with `--config hooks.json`, where that file is missing, beside
  one into config.toml records twice (`packaging/codex_config.rs:114-115`):
  `RecordedOnce` without the condition of `StartHook`;
- forgetting goes by origin: evidence other projects merged into a shared
  lesson is erased with its first project, and evidence of a forgotten project
  merged into another's lesson stays; the lessons of a forgotten workspace
  directory stay in a bucket that no recall or record reaches again (`Forget`,
  `Bucket`);
- one torn line stops the ingestion of its session until the file is started
  over: every later run refuses the tail (`RefuseTail`, the exception in `EveryCallSettles`);
- a failure that is reserved the first place *changes places* with the best
  lesson, which is then trimmed where the failure stood
  (`query/recall.rs:932`; the exception in `TrimmedFromTheEnd`), although
  `docs/architecture.md:392` has lessons trimmed from lowest priority;
- preflight bootstraps with an unconfirmed lesson when nothing stronger is among
  the *eight best-ranked results* (`Options`, `Selected`), not when a project has
  nothing stronger (`docs/architecture.md:177-180`, `query/brief.rs:32-36`); and
  its choice may leave out the failure that recall reserved;
- `docs/architecture.md:389` says that a query with no recognised task yields no
  lessons; any recognised hint, as an ecosystem or a tool, is enough
  (`UnrecognizedQuery`), and the hints for operations and capabilities that
  the classifier computes are used nowhere;
- `view.rs:47-56` says "Hooks are connected" of a ready machine without looking
  at its integrations; a first run in progress is shown as degraded; and the
  status bar's "Regurgitate ready" without a number of lessons is not reachable;
- file names with long source extensions (`.sqlite`, `.kicad_pcb`) are refused in
  a text when they stand alone and admitted behind a single directory separator;
- `write_file` gets the strategy of a direct text mutation, whose practice
  operation is `apply_patch`, not the tool's own (`ToolStrategyMatches`);
- several unrestricted stock Claude handlers are all rewritten to the same
  command and all stay, each recording;
- a refresh requested while the worker publishes waits for the next message
  (`RefreshPublished` holds under `PolledSpec`, not under `FairSpec`).

## 6. What is not modelled

- *The unterminated last line of a transcript* is never part of a tail.  With it
  the two lengths a checkpoint keeps (`committed_offset`, `source_length`) are one, and
  `Validated` compares that.
- *A workspace forgotten while a recall reads*: `Recall` writes to the project's and the
  shared buckets and forgets the project, and a workspace that has an identity
  when a request looks for it keeps that until its rows are read.
- *The 200-capsule search window* of `find_equivalent` is above the instances:
  with a window below them `RecordsOnce` does not hold, as the bound says.
- *Pruning of capsules beside the experience service*: age retention deletes
  capsules too (Retention does); Experience has only the deletion by forgetting.
- *Ciphers, envelopes, codecs*: a ciphertext is what it seals.  Opening the
  database, file permissions, locations: I/O.  The decoding of v3 payloads and
  the fingerprints of situations are abstracted to equality of topics.
- *Listing, metrics, argument parsing, printing, benchmarks*: they read and
  format.  Of the command line only what decides about recall, preflight,
  admission order and hook readiness is modelled.
- *AoE session lookup and hook context*: stateless reads of files and the
  environment.
- *Installers*: parsing and layout of files, symbolic links, permissions and
  the staging directory itself.  `setup` installs the skill before the hook and
  does not take it back when the hook fails; Setup contains that, and no
  document promises otherwise.
- *Hazards without a property* have a note in `PROJECT.json`.  Four the code falls
  to, so that no property that holds can be about them: the replacement
  between parsing and hashing, two agents that replace one capsule, two first
  recordings of one lesson, and the recheck before a skill's rename (section
  5).  Three are beyond the models: the replay of an evicted receipt, the
  challenge time that moves backwards, and the search window.  Where a property
  covers its hazard for one process at a time or for an undisturbed transcript only,
  the note says what it leaves out.

## 7. Plan

Done: the store, recording and its refinement; ingestion, with torn lines and
composed with pruning; capsules in every scope and forgetting by origin; the master
key; retention; the installers of all three hosts and of the skill; health, the
view and the worker's inspection; recall from the request to the brief; texts
and events; proofs about all of these (section 4), of every safety property that
holds for every instance.

Left, most important first:

1. A run for the transcript that is replaced between parsing and hashing
   (`Spec` in place of `QuietSpec`), and one for overlapping confirmations
   (MCExperienceAlone's properties with two agents), as counterparts of section 5.
2. Abstract specifications: a capsule as the *set* of the reports made about it
   (implemented when requests do not overlap, as `NoLostUpdate` suggests); a
   session as the set of its completed calls, implemented by `Ingestion` with
   one ingester.
3. A search window as a parameter of `Experience`, and the original challenge
   time as a history variable.
4. Theorems about the operators of `Health` and `ProjectDefaults` on their own: the
   labels of the view, the defaults of nested directories.

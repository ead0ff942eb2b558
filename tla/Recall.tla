------------------------------- MODULE Recall -------------------------------
(***************************************************************************)
(* One request for prior lessons: RecallService::recall and the callers    *)
(* that deliver its answer.  The request reads the store in a series of    *)
(* queries, each of its own transaction, while other processes write to    *)
(* it; then it ranks what it read.                                         *)
(*                                                                         *)
(* A request is made in one of four ways: the recall command and the same  *)
(* with --brief, the preflight command, and the automatic preflight of a   *)
(* host's prompt hook, which the host waits for no longer than 350 ms.     *)
(*                                                                         *)
(* rows is the experience table, the newest update first.  Time stands     *)
(* still.  A store that does not exist reads like an empty one.            *)
(***************************************************************************)
EXTENDS Ranking, ProjectDefaults

CONSTANTS
  CapsuleIds,   \* random UUIDs, which capsules are stored under
  Stores,       \* the rows there may be at the start
  Unwritten,    \* capsules that may still be recorded
  Practices,    \* the v2 practice events of the project, newest first
  Executions,   \* the hook events of the project
  Requests,
  Today,
  Window,       \* MAX_CANDIDATES_PER_SCOPE (300)
  Sparse,       \* sparse_local_evidence (3)
  BriefLimit,   \* results a brief chooses from (8)
  MaxLegacy,    \* entries of a legacy capsule (MAX_EVIDENCE_ENTRIES, 64)
  MaxWrites     \* bound: writes by other processes

Optional == STRING \cup {None}
Places == {"here", "beside"}   \* this project and its workspace, or others

Entries ==
  [day : Nat, outcome : {"success", "failure"}, verification : DOMAIN QualityWeight,
   tool : Optional, major : Optional, host : Optional]

Capsules(ids) ==
  [id : ids, origin : Places, scope : DOMAIN ScopeWeight, anchor : Places, task : STRING,
   situation : BOOLEAN, lesson : Optional, procedure : Procedure, artifact : Optional,
   phase : Optional, ecosystem : Optional, tool : Optional, risks : SUBSET STRING,
   lifecycle : DOMAIN LifecycleWeight, evidence : Seq(Entries), last : Nat, bytes : Nat,
   note : Nat, legacy : BOOLEAN]

PracticeEvents ==
  [task : STRING, strategy : Strategies, outcome : {"success", "failure", "unknown"}, day : Nat]

(* UUIDs of another version, derived from what they stand for.              *)
LegacyIds == {<<event.task, event.strategy>> : event \in Range(Practices)}

Modes == {"recall", "brief", "preflight", "automatic"}

ASSUME RecallAssumption ==
  /\ {Today, Window, Sparse, BriefLimit, MaxLegacy, MaxWrites} \subseteq Nat
  /\ Host \in STRING
  /\ CapsuleIds \cap LegacyIds = {}
  /\ Stores \subseteq Seq(Capsules(CapsuleIds))
  /\ \A store \in Stores : \A i, j \in DOMAIN store : store[i].id = store[j].id => i = j
  /\ Unwritten \subseteq Capsules(CapsuleIds)
  /\ Practices \in Seq(PracticeEvents)
  /\ \A request \in Requests :
       /\ request.mode \in Modes
       /\ request.options \in
            [operation : STRING, failuresOnly : BOOLEAN, limit : Nat, budget : Nat]

VARIABLES
  rows,
  mapped,   \* whether the path has a project identity
  writes,
  steady,   \* ids of the capsules unchanged since the request began
  reader,   \* the request
  host      \* the prompt that waits: "idle", "waiting", "told", "released"

vars == <<rows, mapped, writes, steady, reader, host>>

MaxTokenBudget == 1000
MinTokenBudget == 32
AutomaticBudget == 240

Ids == {rows[i].id : i \in DOMAIN rows}

NoAnswer == [status |-> "none", items |-> <<>>, omitted |-> 0]
Answer(status, found) == [status |-> status, items |-> found.items, omitted |-> found.omitted]
Quiet == Answer("no_matches", EmptyBrief)
Silent == Answer("brief", EmptyBrief)

Idle ==
  [at |-> "idle", request |-> None, context |-> None, intent |-> Classify({}),
   found |-> FALSE, read |-> {}, ecosystems |-> {}, candidates |-> <<>>, telemetry |-> 0, ranked |-> <<>>, answer |-> NoAnswer]

(* What the caller knows, and what the classifier makes of its words.       *)
Context(request) ==
  [asked |-> request.asked, task |-> request.task, phase |-> request.phase,
   artifact |-> request.artifact, ecosystem |-> request.ecosystem, tool |-> request.tool,
   major |-> request.major, risks |-> request.risks,
   defaults |-> InferProjectDefaults(request.path)]

Intent(request) == Classify(IF request.asked THEN request.words ELSE {})

(* The options each caller passes on.                                       *)
Preflights == {"preflight", "automatic"}
Options(request) ==
  CASE request.mode \in Preflights ->
         [operation |-> None, failuresOnly |-> FALSE, limit |-> BriefLimit,
          budget |-> MaxTokenBudget]
    [] request.mode = "brief" -> [request.options EXCEPT !.budget = MaxTokenBudget]
    [] request.mode = "recall" -> request.options

Clamped(budget) == Max({MinTokenBudget, Min({budget, MaxTokenBudget})})

BriefBudget(request) ==
  CASE request.mode = "brief" -> request.options.budget
    [] request.mode = "preflight" -> Clamped(request.options.budget)
    [] request.mode = "automatic" -> Clamped(Min({request.options.budget, AutomaticBudget}))

(* A preflight of no recognised task.                                       *)
Casual(request) ==
  /\ request.mode \in Preflights
  /\ request.task = None
  /\ ~HasTaskHints(Intent(request))

(* A query that says nothing is no permission to return arbitrary lessons.  *)
UnrecognizedQuery(request) ==
  LET options == Options(request) IN
    /\ request.asked /\ ~HasRetrievalHints(Intent(request))
    /\ {request.task, request.ecosystem, request.tool, request.phase, request.artifact,
        options.operation} = {None}
    /\ request.risks = {} /\ ~options.failuresOnly

-----------------------------------------------------------------------------
(* scoped_experiences: the newest rows of a bucket.                         *)
Newest(bucket) ==
  LET found == Only(rows, bucket) IN SubSeq(found, 1, Min({Window, Len(found)}))

Rows(scope) == {row \in Range(rows) : row.scope = scope}
ProjectRows == Newest({row \in Rows("project") : row.anchor = "here"})
WorkspaceRows == Newest({row \in Rows("workspace") : row.anchor = "here"})
EcosystemRows(e) == Newest({row \in Rows("ecosystem") : row.ecosystem = e})
MachineRows == Newest(Rows("machine"))
GlobalRows == Newest(Rows("global"))

(* materialize_legacy: practice events of one task and strategy are one     *)
(* capsule without text, tags or reference; it keeps its oldest entries.    *)
Told == {event \in Range(Practices) : event.outcome # "unknown"}

LegacyEntry(event) ==
  [day |-> event.day, outcome |-> event.outcome, verification |-> "none",
   tool |-> None, major |-> None, host |-> None]

LegacyCapsule(task, strategy) ==
  LET told == Only(Practices, {event \in Told : event.task = task /\ event.strategy = strategy})
      entries == Reverse([n \in DOMAIN told |-> LegacyEntry(told[n])])
  IN [id |-> <<task, strategy>>, origin |-> "here", scope |-> "project", anchor |-> "here",
      task |-> task, situation |-> FALSE, lesson |-> None,
      procedure |-> FromStrategy(strategy), artifact |-> None, phase |-> None,
      ecosystem |-> None, tool |-> None, risks |-> {}, lifecycle |-> "active",
      evidence |-> SubSeq(entries, 1, Min({MaxLegacy, Len(entries)})),
      last |-> told[1].day, bytes |-> 180, note |-> 0, legacy |-> TRUE]

Legacy == SetToSeq({LegacyCapsule(event.task, event.strategy) : event \in Told})

-----------------------------------------------------------------------------
Ctx == reader.context
ReaderIntent == reader.intent

Begun(request, at) ==
  [Idle EXCEPT !.at = at, !.request = request, !.context = Context(request),
               !.intent = Intent(request)]

(* The ecosystems whose buckets are searched.                               *)
Ecosystems == EcosystemHints(Ctx, ReaderIntent)

(* Faulty variant: as many as the bound are still too few.                  *)
LocallySparseInclusive(candidates) ==
  Cardinality({i \in DOMAIN candidates :
                 /\ candidates[i].lifecycle = "active"
                 /\ Applicable(Ctx, ReaderIntent, candidates[i])}) <= Sparse

(* Fewer than three active local lessons apply.                             *)
LocallySparse(candidates) ==
  Cardinality({i \in DOMAIN candidates :
                 /\ candidates[i].lifecycle = "active"
                 /\ Applicable(Ctx, ReaderIntent, candidates[i])}) < Sparse

Ask(request) ==
  /\ reader.at = "idle" /\ host = "idle"
  /\ steady' = Ids
  /\ reader' = Begun(request, "project")
  /\ host' = IF request.mode = "automatic" THEN "waiting" ELSE "idle"
  /\ UNCHANGED <<rows, mapped, writes>>

(* The thread of an automatic preflight cannot be started.                  *)
SpawnFails(request) ==
  /\ request.mode = "automatic"
  /\ reader.at = "idle" /\ host = "idle"
  /\ steady' = Ids
  /\ reader' = [Begun(request, "done") EXCEPT !.answer = Silent]
  /\ UNCHANGED <<rows, mapped, writes, host>>

FindProject ==
  /\ reader.at = "project" /\ ~Casual(reader.request)
  /\ reader' = [reader EXCEPT !.found = mapped,
                              !.at = IF mapped THEN "telemetry"
                                     ELSE IF UnrecognizedQuery(reader.request) THEN "deliver"
                                     ELSE "sparse"]
  /\ UNCHANGED <<rows, mapped, writes, steady, host>>

(* The hook events of the identity found; it may be gone by now.            *)
ReadTelemetry ==
  /\ reader.at = "telemetry"
  /\ reader' =
       [reader EXCEPT !.telemetry = SummaryBytes(HookSummary(IF mapped THEN Executions ELSE <<>>,
                                                             Options(reader.request))),
                      !.at = IF UnrecognizedQuery(reader.request) THEN "deliver" ELSE "local"]
  /\ UNCHANGED <<rows, mapped, writes, steady, host>>

ReadProject ==
  /\ reader.at = "local"
  /\ reader' = [reader EXCEPT !.candidates = ProjectRows, !.read = {"project"},
                              !.at = "practices"]
  /\ UNCHANGED <<rows, mapped, writes, steady, host>>

ReadPractices ==
  /\ reader.at = "practices"
  /\ reader' = [reader EXCEPT !.candidates = @ \o (IF mapped THEN Legacy ELSE <<>>),
                              !.at = "sparse"]
  /\ UNCHANGED <<rows, mapped, writes, steady, host>>

(* Whether to look beyond the project.  The workspace may have no identity  *)
(* yet, and then no rows; while the request runs it is not forgotten.       *)
FindWorkspace ==
  /\ reader.at = "sparse"
  /\ \/ ~LocallySparse(reader.candidates) /\ reader' = [reader EXCEPT !.at = "deliver"]
     \/ LocallySparse(reader.candidates) /\ reader' = [reader EXCEPT !.at = "workspace"]
     \/ /\ LocallySparse(reader.candidates)
        /\ \A row \in Rows("workspace") : row.anchor # "here"
        /\ reader' = [reader EXCEPT !.read = @ \cup {"workspace", "ecosystem"},
                                    !.ecosystems = Ecosystems, !.at = "ecosystems"]
  /\ UNCHANGED <<rows, mapped, writes, steady, host>>

(* First the workspace, and then the ecosystems one by one.                 *)
ReadWorkspace ==
  /\ reader.at = "workspace"
  /\ reader' = [reader EXCEPT !.candidates = @ \o WorkspaceRows,
                              !.read = @ \cup {"workspace", "ecosystem"},
                              !.ecosystems = Ecosystems, !.at = "ecosystems"]
  /\ UNCHANGED <<rows, mapped, writes, steady, host>>

ReadEcosystem ==
  /\ reader.at = "ecosystems"
  /\ \E e \in reader.ecosystems :
       reader' = [reader EXCEPT !.candidates = @ \o EcosystemRows(e),
                                !.ecosystems = @ \ {e}]
  /\ UNCHANGED <<rows, mapped, writes, steady, host>>

ReadMachine ==
  /\ reader.at = "ecosystems" /\ reader.ecosystems = {}
  /\ reader' = [reader EXCEPT !.candidates = @ \o MachineRows,
                              !.read = @ \cup {"machine"}, !.at = "global"]
  /\ UNCHANGED <<rows, mapped, writes, steady, host>>

ReadGlobal ==
  /\ reader.at = "global"
  /\ reader' = [reader EXCEPT !.candidates = @ \o GlobalRows,
                              !.read = @ \cup {"global"}, !.at = "deliver"]
  /\ UNCHANGED <<rows, mapped, writes, steady, host>>

-----------------------------------------------------------------------------
(* What the caller makes of an answer.                                      *)
Delivered(request, found) ==
  CASE request.mode = "recall" ->
         Answer(IF found.items = <<>> THEN "no_matches" ELSE "matches", found)
    [] request.mode = "brief" ->
         LET brief == Rendered(found, BriefBudget(request))
         IN IF brief.items = <<>> THEN Quiet ELSE Answer("brief", brief)
    [] request.mode \in Preflights ->
         Answer("brief", Rendered([items |-> Selected(found.items), omitted |-> 0],
                                  BriefBudget(request)))

(* The answer is ranked and handed over; nobody listens to a late one.      *)
Settle(answer, ranked) ==
  /\ reader' = [reader EXCEPT !.at = "done", !.ranked = ranked,
                              !.answer = IF host = "released" THEN NoAnswer ELSE answer]
  /\ host' = IF host = "waiting" THEN "told" ELSE host
  /\ UNCHANGED <<rows, mapped, writes, steady>>

(* A preflight of no recognised task ends before the store is opened.       *)
StaySilent ==
  /\ reader.at = "project" /\ Casual(reader.request)
  /\ Settle(Silent, <<>>)

Deliver ==
  /\ reader.at = "deliver"
  /\ IF UnrecognizedQuery(reader.request)
       THEN Settle(Delivered(reader.request, EmptyBrief), <<>>)
       ELSE LET options == Options(reader.request)
                clusters == Clusters(Ctx, ReaderIntent, options, Today, reader.candidates)
                reserve == RiskSensitive(Ctx, ReaderIntent)
            IN \E order \in Orders(clusters) :
                 LET found == Budgeted(Limited(Reserve(reserve, order), options.limit),
                                       reader.telemetry, options.budget)
                 IN Settle(Delivered(reader.request, found), order)

(* Any of the calls may fail: the recall command reports it, unless it was  *)
(* asked for its best effort; a preflight stays silent.                     *)
Fail ==
  /\ reader.at \notin {"idle", "done"}
  /\ Settle(CASE reader.request.mode \in Preflights -> Silent
              [] reader.request.mode \notin Preflights /\ reader.request.bestEffort ->
                   Answer("unavailable", EmptyBrief)
              [] OTHER -> Answer("error", EmptyBrief),
            <<>>)

(* Faulty variant: the clock is looked at when the work is done.            *)
TimeoutWhenDone ==
  /\ host = "waiting" /\ reader.at = "done"
  /\ host' = "released"
  /\ UNCHANGED <<rows, mapped, writes, steady, reader>>

(* recv_timeout, and then the process ends with its thread. *)
Timeout ==
  /\ host = "waiting"
  /\ host' = "released"
  /\ UNCHANGED <<rows, mapped, writes, steady, reader>>

ProcessEnds ==
  /\ host = "released" /\ reader.at # "done"
  /\ reader' = [reader EXCEPT !.at = "done"]
  /\ UNCHANGED <<rows, mapped, writes, steady, host>>

-----------------------------------------------------------------------------
(* Other processes; every write is a single upsert of one row.  What they   *)
(* write after the answer is of no concern.                                 *)
MayWrite == writes < MaxWrites /\ reader.at # "done"

Write(capsule) ==
  /\ MayWrite
  /\ writes' = writes + 1
  /\ rows' = <<capsule>> \o Only(rows, {row \in Range(rows) : row.id # capsule.id})
  /\ steady' = steady \ {capsule.id}
  /\ UNCHANGED <<mapped, reader, host>>

(* A confirmation; a challenged lesson may have earned its way back.        *)
Confirmation(row, outcome) ==
  LET entry == [day |-> Today, outcome |-> outcome, verification |-> "none",
                tool |-> None, major |-> None, host |-> Host]
  IN [row EXCEPT !.evidence = Append(@, entry), !.last = Today]

Confirm ==
  \E i \in DOMAIN rows, outcome \in {"success", "failure"} :
    \E lifecycle \in {rows[i].lifecycle}
                     \cup (IF rows[i].lifecycle = "challenged" THEN {"active"} ELSE {}) :
      Write([Confirmation(rows[i], outcome) EXCEPT !.lifecycle = lifecycle])

Transition ==
  \E i \in DOMAIN rows, lifecycle \in DOMAIN LifecycleWeight \ {"active"} :
    /\ rows[i].lifecycle # lifecycle
    /\ Write([rows[i] EXCEPT !.lifecycle = lifecycle])

Record ==
  /\ mapped
  /\ \E capsule \in Unwritten : capsule.id \notin Ids /\ Write(capsule)

Forget ==
  /\ MayWrite /\ mapped
  /\ writes' = writes + 1
  /\ mapped' = FALSE
  /\ rows' = Only(rows, {row \in Range(rows) : row.origin # "here"})
  /\ steady' = steady \ {rows[i].id : i \in {n \in DOMAIN rows : rows[n].origin = "here"}}
  /\ UNCHANGED <<reader, host>>

-----------------------------------------------------------------------------
Init ==
  /\ rows \in Stores /\ mapped = TRUE /\ writes = 0
  /\ steady = {} /\ reader = Idle /\ host = "idle"

Next ==
  \/ \E request \in Requests : Ask(request) \/ SpawnFails(request)
  \/ StaySilent \/ FindProject \/ ReadTelemetry \/ ReadProject \/ ReadPractices
  \/ FindWorkspace \/ ReadWorkspace \/ ReadEcosystem \/ ReadMachine \/ ReadGlobal
  \/ Deliver \/ Fail \/ Timeout \/ ProcessEnds
  \/ Confirm \/ Transition \/ Record \/ Forget

(* Only the clock of recv_timeout is fair: the store may never answer.      *)
Spec == Init /\ [][Next]_vars /\ WF_vars(Timeout)

(* What of the store the request must have taken into account: a capsule    *)
(* nobody touched since it began, of a scope it read to the end.            *)
ReadToTheEnd(scope) ==
  /\ scope \in reader.read
  /\ Cardinality({i \in DOMAIN reader.candidates : reader.candidates[i].scope = scope}) < Window

Due(capsule) ==
  /\ capsule.id \in steady
  /\ ReadToTheEnd(capsule.scope)
  /\ capsule.scope \in {"project", "workspace"} => capsule.anchor = "here"
  /\ capsule.scope = "ecosystem" => capsule.ecosystem \in Ecosystems
  /\ Matches(Ctx, ReaderIntent, Options(reader.request), capsule)

DueRows == {row \in Range(rows) : Due(row)}

Answered == reader.at = "done" /\ reader.answer.status \in {"matches", "no_matches", "brief"}
Items == reader.answer.items
ShownIdentities == {Items[i].identity : i \in DOMAIN Items}

(* The recall command shows or counts as omitted every matching lesson that *)
(* was in the store throughout, whatever is written meanwhile and whatever  *)
(* the limit and the budget leave out; and the answer, as it is serialized, *)
(* keeps to both.                                                           *)
NothingOverlooked ==
  LET options == reader.request.options IN
    Answered /\ reader.request.mode = "recall" /\ ~UnrecognizedQuery(reader.request) =>
      /\ Cardinality({Identity(row) : row \in DueRows} \ ShownIdentities)
           <= reader.answer.omitted
      /\ Len(Items) <= options.limit
      /\ Items # <<>> =>
           Settled(Items, reader.answer.omitted, reader.telemetry) <= options.budget

(* When a lesson that failed or was challenged has been in the store        *)
(* throughout and matches a request that names a risk, the first lesson     *)
(* shown, if any is, is one that failed or was challenged.                  *)
FailureReserved ==
  /\ Answered /\ reader.request.mode = "recall" /\ Items # <<>>
  /\ RiskSensitive(Ctx, ReaderIntent)
  /\ \E row \in DueRows : Count(row, "failure") > 0 \/ row.lifecycle = "challenged"
  => Items[1].failing

(* No lesson is left out for one that ranks lower, with one exception: the  *)
(* best lesson, when a failure took its place, stands where the failure     *)
(* was and is trimmed with its new neighbours (rank swaps the two).         *)
TrimmedFromTheEnd ==
  Answered /\ reader.request.mode = "recall" =>
    \A i, j \in DOMAIN reader.ranked :
      LET shown(n) == reader.ranked[n].identity \in ShownIdentities
          failed == {n \in DOMAIN reader.ranked : reader.ranked[n].failing}
          reserved == RiskSensitive(Ctx, ReaderIntent) /\ failed # {}
      IN i < j /\ ~shown(i) /\ shown(j) => reserved /\ (i = 1 \/ j = Min(failed))

(* A lesson is called moderate only with four, strong only with eight       *)
(* reports of its identity that differ in day or environment, however often *)
(* each was repeated and however many capsules and scopes they come from.   *)
ConfirmedIndependently ==
  Answered =>
    \A i \in DOMAIN Items :
      LET told == {n \in DOMAIN reader.candidates :
                     Identity(reader.candidates[n]) = Items[i].identity}
          cohorts == UNION {{<<entry.day, entry.tool, entry.major, entry.host>> :
                               entry \in Range(reader.candidates[n].evidence)} : n \in told}
      IN /\ Items[i].strength = "moderate" => Cardinality(cohorts) >= 4
         /\ Items[i].strength = "strong" => Cardinality(cohorts) >= 8

(* Lessons from beyond the project appear only while fewer than three of    *)
(* the project's own, active and applicable, were there throughout; what    *)
(* the old practice events tell counts, until the project is forgotten.     *)
BroaderOnlyWhenSparse ==
  LET own == {row \in Rows("project") : row.anchor = "here" /\ row.id \in steady}
             \cup (IF mapped THEN Range(Legacy) ELSE {})
  IN /\ Answered
     /\ \E i \in DOMAIN Items : Items[i].scope # "project"
     => \/ ~ReadToTheEnd("project")
        \/ Cardinality({capsule \in own : /\ capsule.lifecycle = "active"
                                         /\ Applicable(Ctx, ReaderIntent, capsule)}) < Sparse

(* What a lesson says is never hidden behind an aggregate of old practice   *)
(* events, or a capsule without text, of the same identity.                 *)
TextNotHidden ==
  Answered =>
    \A i \in DOMAIN Items, row \in DueRows :
      row.lesson # None /\ Identity(row) = Items[i].identity => Items[i].text

(* The host of an automatic preflight gets its prompt back even when the    *)
(* store never answers.                                                     *)
PromptNeverHeld == host = "waiting" ~> host # "waiting"

=============================================================================

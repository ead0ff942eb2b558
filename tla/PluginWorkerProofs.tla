------------------------- MODULE PluginWorkerProofs -------------------------
(***************************************************************************)
(* Proofs about the plugin worker and the health it shows, for any machine *)
(* it starts on, any number of requests and of changes by others.          *)
(***************************************************************************)
EXTENDS PluginWorker, FiniteSetTheorems, TLAPS

-----------------------------------------------------------------------------
(* Health reports.                                                         *)

(* "ready" is only said of a machine with a key and a sound database whose  *)
(* inspected hooks are all installed, the AoE fallback and the native       *)
(* Codex hook not both (health.rs, inspect_with_hooks).                    *)
THEOREM ReadyMeansReady ==
  ASSUME NEW key \in Keys, NEW db, NEW n \in Nat,
         NEW hooks \in [1..n -> [provider : {"aoe", "claude", "codex"},
                                 status : HookStates \cup {"error"}]]
  PROVE  Report(key, db, hooks).status = "ready"
           <=> /\ key = "present" /\ db.file = "sound"
               /\ \A i \in 1..n : hooks[i].status = "installed"
               /\ ~(\E i, j \in 1..n : hooks[i].provider = "aoe" /\ hooks[j].provider = "codex")
<1> DEFINE inspected == Inspected(hooks)
<1>1. /\ DOMAIN inspected = 1..n
      /\ \A i \in 1..n :
           /\ inspected[i].provider = hooks[i].provider
           /\ inspected[i].status = "installed" <=> hooks[i].status = "installed"
           /\ inspected[i] \in [provider : {"aoe", "claude", "codex"}, status : HookStates]
  BY DEF Inspected, HookStates
<1> DEFINE worst == \E i \in DOMAIN inspected : inspected[i].status # "installed"
<1>2. Report(key, db, hooks).status =
        IF worst \/ BothRecord(inspected) THEN "degraded"
        ELSE Overall(KeyReadiness(key), HistoryHealth(db).status)
  BY DEF Report
<1>3. HistoryHealth(db).status = "ready" <=> db.file = "sound"
  BY DEF HistoryHealth
<1>4. Overall(KeyReadiness(key), HistoryHealth(db).status) = "ready"
        <=> key = "present" /\ db.file = "sound"
  BY <1>3 DEF Overall, KeyReadiness
<1>5. ~worst => (BothRecord(inspected)
        <=> \E i, j \in 1..n : hooks[i].provider = "aoe" /\ hooks[j].provider = "codex")
  <2> SUFFICES ASSUME ~worst
               PROVE  BothRecord(inspected)
                 <=> \E i, j \in 1..n : hooks[i].provider = "aoe" /\ hooks[j].provider = "codex"
    OBVIOUS
  <2>1. \A i \in 1..n : inspected[i] = [provider |-> hooks[i].provider, status |-> "installed"]
    BY <1>1
  <2>2. \A p : \A i \in 1..n : inspected[i] = [provider |-> p, status |-> "installed"]
                                <=> hooks[i].provider = p
    <3> HIDE DEF inspected
    <3> TAKE p
    <3> TAKE i \in 1..n
    <3>1. inspected[i] = [provider |-> hooks[i].provider, status |-> "installed"]
      BY <2>1
    <3>2. inspected[i].provider = hooks[i].provider
      BY <3>1
    <3> QED
      BY <3>1, <3>2
  <2>3. DOMAIN inspected = 1..n
    BY <1>1
  <2> HIDE DEF inspected
  <2>4. \A p : Connects(inspected, p) <=> \E i \in 1..n : hooks[i].provider = p
    BY <2>2, <2>3 DEF Connects
  <2> QED
    BY <2>4 DEF BothRecord
<1> HIDE DEF inspected
<1> QED
  BY <1>1, <1>2, <1>4, <1>5

(* A report never lists the AoE fallback and the native Codex hook both as  *)
(* installed (health.rs:148-161).                                          *)
THEOREM ConflictReported ==
  ASSUME NEW key, NEW db, NEW n \in Nat,
         NEW hooks \in [1..n -> [provider : {"aoe", "claude", "codex"},
                                 status : HookStates \cup {"error"}]]
  PROVE  LET shownHooks == Report(key, db, hooks).hooks IN
           ~(Connects(shownHooks, "aoe") /\ Connects(shownHooks, "codex"))
<1> DEFINE inspected == Inspected(hooks)
<1>1. DOMAIN inspected = 1..n /\ \A i \in 1..n : DOMAIN inspected[i] = {"provider", "status"}
  BY DEF Inspected
<1>2. Report(key, db, hooks).hooks = Reported(inspected)
  BY DEF Report
<1> HIDE DEF inspected
<1>3. CASE BothRecord(inspected)
  <2>1. \A i \in 1..n : Reported(inspected)[i].status = "installed"
          => inspected[i].provider \notin {"aoe", "codex"} /\ Reported(inspected)[i] = inspected[i]
    BY <1>1, <1>3 DEF Reported
  <2>2. DOMAIN Reported(inspected) = 1..n
    BY <1>1 DEF Reported
  <2>3. ~Connects(Reported(inspected), "aoe")
    <3> SUFFICES ASSUME NEW i \in 1..n,
                        Reported(inspected)[i] = [provider |-> "aoe", status |-> "installed"]
                 PROVE  FALSE
      BY <2>2 DEF Connects
    <3> QED
      BY <2>1
  <2> QED
    BY <1>2, <2>3
<1>4. CASE ~BothRecord(inspected)
  <2>1. \A p : Connects(Reported(inspected), p) => Connects(inspected, p)
    BY <1>1, <1>4 DEF Reported, Connects
  <2> QED
    BY <1>2, <1>4, <2>1 DEF BothRecord
<1> QED
  BY <1>3, <1>4

-----------------------------------------------------------------------------
(* What goes to the host.                                                  *)

LEMMA ReportTypes ==
  ASSUME NEW key \in Keys, NEW db \in Databases
  PROVE  LET report == Report(key, db, <<>>) IN
           /\ report.status \in Overalls /\ report.key_store \in Components
           /\ report.history.status \in Components
           /\ report.history.practices \in Nat \cup {None}
           /\ report.history.experiences \in Nat \cup {None}
           /\ report.history.hooks \in Nat \cup {None}
           /\ report.status = "ready" => /\ report.history.practices \in Nat
                                         /\ report.history.experiences \in Nat
           /\ report.status = Overall(KeyReadiness(key), HistoryHealth(db).status)
<1> DEFINE none == Inspected(<<>>)
<1>1. DOMAIN none = {}
  BY DEF Inspected
<1>2. ~BothRecord(none) /\ ~(\E i \in DOMAIN none : none[i].status # "installed")
  BY <1>1 DEF BothRecord, Connects
<1> HIDE DEF none
<1> DEFINE report == Report(key, db, <<>>)
<1>3. /\ report.status = Overall(KeyReadiness(key), HistoryHealth(db).status)
      /\ report.key_store = KeyReadiness(key)
      /\ report.history = HistoryHealth(db)
  BY <1>2 DEF Report, none
<1> HIDE DEF report
<1>4. KeyReadiness(key) \in Components
  BY DEF KeyReadiness, Components
<1>5. /\ HistoryHealth(db).status \in Components
      /\ HistoryHealth(db).practices \in Nat \cup {None}
      /\ HistoryHealth(db).experiences \in Nat \cup {None}
      /\ HistoryHealth(db).hooks \in Nat \cup {None}
      /\ HistoryHealth(db).status = "ready" => /\ HistoryHealth(db).practices \in Nat
                                               /\ HistoryHealth(db).experiences \in Nat
  BY DEF HistoryHealth, Databases, Components
<1>6. /\ report.status \in Overalls
      /\ report.status = "ready" => HistoryHealth(db).status = "ready"
  BY <1>3, <1>4, <1>5 DEF Overall, Overalls, Components
<1> QED
  BY <1>3, <1>4, <1>5, <1>6 DEF report

(* A snapshot of things that exist.                                        *)
LEMMA SnapshotTypes ==
  ASSUME NEW s, s.key \in Keys, s.db \in Databases,
         \A t \in Targets : s.targets[t] \in Parts
  PROVE  /\ StatusBar(SnapshotOf(s).health) \in Bars
         /\ \A notice \in Notices \cup {None} :
              HomePane(SnapshotOf(s), notice) \in Panes(Targets)
<1> DEFINE report == SnapshotOf(s).health
           states == SnapshotOf(s).integrations
<1>1. report = Report(s.key, s.db, <<>>)
  BY DEF SnapshotOf
<1>2. states = [t \in Targets |-> Integration(s.targets[t])]
  BY DEF SnapshotOf
<1> HIDE DEF report, states
<1>3. /\ report.status \in Overalls /\ report.key_store \in Components
      /\ report.history.status \in Components
      /\ report.history.practices \in Nat \cup {None}
      /\ report.history.experiences \in Nat \cup {None}
      /\ report.history.hooks \in Nat \cup {None}
      /\ report.status = "ready" => /\ report.history.practices \in Nat
                                    /\ report.history.experiences \in Nat
  BY <1>1, ReportTypes
<1>4. StatusBar(report) \in Bars
  BY <1>3 DEF StatusBar, Bars, Tone, Overalls
<1>5. ASSUME NEW notice \in Notices \cup {None}
      PROVE  HomePane(SnapshotOf(s), notice) \in Panes(Targets)
  <2>1. Callout(report, states) \in {"recording", "ready", "connected", "not configured", "attention"}
    BY <1>3 DEF Callout
  <2>2. (IF notice = None THEN None ELSE SetupNotice(notice))
          \in [agent : Targets, title : {"complete", "already connected", "attention"}] \cup {None}
    BY DEF SetupNotice, Notices
  <2>3. [t \in DOMAIN states |-> IntegrationLabel(states[t])] \in [Targets -> Labels]
    BY <1>2 DEF IntegrationLabel, Labels
  <2>4. HistoryLabel(report)
          \in [status : Components, counts : (Nat \cup {None}) \X (Nat \cup {None})]
    BY <1>3 DEF HistoryLabel
  <2> QED
    BY <1>3, <2>1, <2>2, <2>3, <2>4 DEF HomePane, Panes, report, states
<1> QED
  BY <1>4, <1>5 DEF report

-----------------------------------------------------------------------------
(* The worker's types.                                                     *)

LEMMA SetupKeeps ==
  ASSUME NEW w \in Machine, NEW t \in Targets, NEW res \in SetupResults(w, t)
  PROVE  /\ res.world \in Machine
         /\ res.world.key = w.key /\ res.world.db = w.db
         /\ res.outcome \in {"installed", "current", "failed"}
BY DEF SetupResults, Machine, Parts, HookStates, SkillChecks

LEMMA ObeyTypes ==
  ASSUME TypeOK, NEW m \in Inbound, m.kind = "request", Obey(m)
  PROVE  /\ world' \in Machine /\ lastSetup' \in Notices \cup {None}
         /\ world'.key = world.key /\ world'.db = world.db
<1>1. CASE m.method = "setup"
  <2>1. m.target \in Targets
    BY <1>1 DEF Inbound, Request, Methods, Plain, Setups, End
  <2>2. PICK res \in SetupResults(world, m.target) :
          world' = res.world /\ lastSetup' = [target |-> m.target, outcome |-> res.outcome]
    BY <1>1 DEF Obey
  <2> QED
    BY <2>1, <2>2, SetupKeeps DEF TypeOK, Notices
<1>2. CASE m.method # "setup"
  BY <1>2 DEF Obey, TypeOK
<1> QED
  BY <1>1, <1>2

(* What is read from the inbox is typed, and so is the rest.               *)
LEMMA Reading ==
  ASSUME TypeOK, inbox # <<>>
  PROVE  Head(inbox) \in Inbound /\ Tail(inbox) \in Seq(Inbound)
BY DEF TypeOK

LEMMA ChangeTypes ==
  ASSUME TypeOK, Change
  PROVE  TypeOK'
<1>1. ASSUME NEW w \in Machine, Becomes(w)
      PROVE  TypeOK'
  <2>1. TrueHealth(w) \in Overalls
    BY DEF TrueHealth, Overalls
  <2>2. changes' \in 0..MaxChanges
    BY <1>1, WorkerAssumption DEF TypeOK, Becomes
  <2> QED
    BY <1>1, <2>1, <2>2 DEF TypeOK, Becomes, workerVars, hostVars
<1>2. CASE StoreKey
  BY <1>1, <1>2 DEF TypeOK, StoreKey, Machine, Keys
<1>3. CASE CreateFile
  BY <1>1, <1>3 DEF TypeOK, CreateFile, Machine, Databases, Files
<1>4. CASE CreateTables
  BY <1>1, <1>4 DEF TypeOK, CreateTables, Machine, Databases, Files
<1>5. CASE RecordLesson
  <2>1. [world EXCEPT !.db.capsules = @ + 1] \in Machine
    <3>1. world.db.capsules \in Nat
      BY <1>5 DEF TypeOK, RecordLesson, Machine, Databases
    <3>2. [world.db EXCEPT !.capsules = @ + 1] \in Databases
      <4>1. world.db \in Databases /\ world.db.capsules + 1 \in Nat
        BY <3>1 DEF TypeOK, Machine
      <4> QED
        BY <4>1 DEF Databases
    <3> QED
      BY <3>2 DEF TypeOK, Machine
  <2> QED
    BY <1>1, <1>5, <2>1 DEF RecordLesson
<1> QED
  BY <1>2, <1>3, <1>4, <1>5 DEF Change

(* What has been inspected at each point of the worker.                    *)
SeenSoFar ==
  /\ pc \in {"history", "codex", "claude", "bar", "pane", "idle"} => seen.key \in Keys
  /\ pc \in {"codex", "claude", "bar", "pane", "idle"} => seen.db \in Databases
  /\ pc \in {"claude", "bar", "pane", "idle"} => seen.targets["codex"] \in Parts
  /\ pc \in {"bar", "pane", "idle"} => seen.targets["claude"] \in Parts

TInv == TypeOK /\ SeenSoFar

LEMMA InspectTypes ==
  ASSUME TInv, Inspect
  PROVE  TInv'
<1> USE DEF TInv, TypeOK, SeenSoFar, worldVars, hostVars
<1>1. CASE InspectKey
  BY <1>1 DEF InspectKey, Machine
<1>2. CASE InspectHistory
  BY <1>2 DEF InspectHistory, Machine
<1>3. CASE InspectCodex
  BY <1>3 DEF InspectCodex, Machine, Targets
<1>4. CASE InspectClaude
  <2>1. /\ seen' \in [key : Keys \cup {None}, db : Databases \cup {None},
                      targets : [Targets -> Parts \cup {None}]]
        /\ seen'.key \in Keys /\ seen'.db \in Databases
        /\ seen'.targets["codex"] \in Parts /\ seen'.targets["claude"] \in Parts
    BY <1>4 DEF InspectClaude, Machine, Targets
  <2>2. \A t \in Targets : seen'.targets[t] \in Parts
    BY <2>1 DEF Targets
  <2>3. StatusBar(SnapshotOf(seen').health) \in Bars
    BY <2>1, <2>2, SnapshotTypes
  <2>4. BarCall(nextId, StatusBar(SnapshotOf(seen').health)) \in Outbound
    BY <2>3 DEF BarCall, Outbound
  <2>5. outbox' \in Seq(Outbound) /\ nextId' \in Nat
    BY <1>4, <2>4 DEF InspectClaude
  <2> QED
    BY <1>4, <2>1, <2>5 DEF InspectClaude
<1> QED
  BY <1>1, <1>2, <1>3, <1>4 DEF Inspect

LEMMA AnsweredTypes ==
  ASSUME TInv, Answered
  PROVE  TInv'
<1>1. Tail(inbox) \in Seq(Inbound)
  BY Reading DEF Answered, TInv
<1>2. CASE pc = "bar"
  <2>1. \A t \in Targets : seen.targets[t] \in Parts
    BY <1>2 DEF TInv, SeenSoFar, Targets
  <2>2. HomePane(SnapshotOf(seen), lastSetup) \in Panes(Targets)
    BY <1>2, <2>1, SnapshotTypes DEF TInv, SeenSoFar, TypeOK
  <2>3. PaneCall(nextId, HomePane(SnapshotOf(seen), lastSetup)) \in Outbound
    BY <2>2 DEF PaneCall, Outbound, TInv, TypeOK
  <2>4. outbox' \in Seq(Outbound) /\ nextId' \in Nat
    <3>1. outbox' = Append(outbox, PaneCall(nextId, HomePane(SnapshotOf(seen), lastSetup)))
          /\ nextId' = nextId + 1
      BY <1>2 DEF Answered
    <3>2. outbox \in Seq(Outbound) /\ nextId \in Nat
      BY DEF TInv, TypeOK
    <3> QED
      BY <2>3, <3>1, <3>2
  <2> QED
    BY <1>1, <1>2, <2>4 DEF TInv, TypeOK, SeenSoFar, Answered, worldVars, hostVars
<1>3. CASE pc # "bar"
  BY <1>1, <1>3 DEF TInv, TypeOK, SeenSoFar, Answered, worldVars, hostVars, Waiting
<1> QED
  BY <1>2, <1>3

LEMMA Repliable ==
  ASSUME TypeOK, NEW m \in Inbound, m.kind = "request"
  PROVE  outbox \o RepliesTo(m) \in Seq(Outbound)
<1>1. m.id \in Requests \cup {None}
  BY DEF Inbound, Request, End
<1>2. RepliesTo(m) \in Seq(Outbound)
  <2>1. CASE m.id = None
    BY <2>1 DEF RepliesTo
  <2>2. CASE m.id # None
    <3>1. Reply(m.id) \in Outbound
      BY <1>1, <2>2 DEF Reply, Outbound
    <3> QED
      BY <2>2, <3>1 DEF RepliesTo
  <2> QED
    BY <2>1, <2>2
<1> QED
  BY <1>2 DEF TypeOK

LEMMA HandleTypes ==
  ASSUME TInv, HandleWaiting \/ HandleIdle \/ ReplyFails
  PROVE  TInv'
<1> DEFINE m == Head(inbox)
<1>1. m \in Inbound /\ Tail(inbox) \in Seq(Inbound) /\ m.kind = "request"
  BY Reading DEF HandleWaiting, HandleIdle, ReplyFails, TInv
<1>2. outbox \o RepliesTo(m) \in Seq(Outbound)
  BY <1>1, Repliable DEF TInv
<1>3. world' \in Machine /\ lastSetup' \in Notices \cup {None}
  BY <1>1, ObeyTypes DEF HandleWaiting, HandleIdle, ReplyFails, TInv
<1> HIDE DEF m
<1>4. CASE HandleWaiting
  BY <1>1, <1>2, <1>3, <1>4
     DEF HandleWaiting, TInv, TypeOK, SeenSoFar, hostVars, AsksRefresh, m
<1>5. CASE HandleIdle
  <2>1. TrueHealth(world') \in Overalls
    BY DEF TrueHealth, Overalls
  <2> QED
    BY <1>1, <1>2, <1>3, <1>5, <2>1 DEF HandleIdle, TInv, TypeOK, SeenSoFar, hostVars, m
<1>6. CASE ReplyFails
  BY <1>1, <1>2, <1>3, <1>6 DEF ReplyFails, TInv, TypeOK, SeenSoFar, hostVars, m
<1> QED
  BY <1>4, <1>5, <1>6

LEMMA ServeTypes ==
  ASSUME TInv, Serve \/ Reject
  PROVE  TInv'
<1> DEFINE m == Head(outbox)
<1>1. outbox # <<>>
  BY DEF Serve, Reject
<1>2. m \in Outbound /\ Tail(outbox) \in Seq(Outbound)
  BY <1>1 DEF TInv, TypeOK
<1> HIDE DEF m
<1>3. CASE Serve
  <2>1. CASE m.kind = "reply"
    BY <1>2, <1>3, <2>1
       DEF Serve, TInv, TypeOK, SeenSoFar, worldVars, workerVars, m
  <2>2. CASE m.kind # "reply"
    <3>1. /\ m.call \in Nat
          /\ m.kind = "bar" => m.payload \in Bars
          /\ m.kind # "bar" => m.kind = "pane" /\ m.payload \in Panes(Targets)
      BY <1>2, <2>2 DEF Outbound
    <3>2. Answer(m.call) \in Inbound
      BY <3>1 DEF Answer, Inbound
    <3>3. shown' \in [bar : Bars \cup {None}, pane : Panes(Targets) \cup {None}]
      BY <1>3, <2>2, <3>1 DEF Serve, TInv, TypeOK, m
    <3>4. inbox' \in Seq(Inbound)
      <4>1. inbox' = inbox \/ inbox' = Append(inbox, Answer(m.call))
        BY <1>3, <2>2 DEF Serve, m
      <4>2. inbox \in Seq(Inbound)
        BY DEF TInv, TypeOK
      <4> QED
        BY <3>2, <4>1, <4>2
    <3> QED
      BY <1>2, <1>3, <2>2, <3>3, <3>4
         DEF Serve, TInv, TypeOK, SeenSoFar, worldVars, workerVars, m
  <2> QED
    BY <2>1, <2>2
<1>4. CASE Reject
  <2>1. m.call \in Nat
    BY <1>2, <1>4 DEF Outbound, Reject, m
  <2>2. Rejection(m.call) \in Inbound
    BY <2>1 DEF Rejection, Inbound
  <2> QED
    BY <1>2, <1>4, <2>2
       DEF Reject, TInv, TypeOK, SeenSoFar, worldVars, workerVars, hostVars, m
<1> QED
  BY <1>3, <1>4

(* A notification is of one of the methods.                                *)
LEMMA Notifying ==
  ASSUME Poll \/ (\E m \in Notified : nextId < MaxCalls /\ Notify(m))
  PROVE  \E m \in Methods : Notify(m)
<1>1. CASE Poll
  <2>1. Plain("status") \in Methods
    BY DEF Methods
  <2> QED
    BY <1>1, <2>1 DEF Poll
<1>2. ASSUME NEW m \in Notified, Notify(m)
      PROVE  \E n \in Methods : Notify(n)
  BY <1>2, NotifiedAssumption
<1> QED
  BY <1>1, <1>2

LEMMA TypeStep == TInv /\ [Next]_vars => TInv'
<1> SUFFICES ASSUME TInv, [Next]_vars
             PROVE  TInv'
  OBVIOUS
<1>1. CASE Rejected \/ HandleEnd \/ Timeout \/ CallFails
  <2>1. /\ inbox' \in Seq(Inbound) /\ nextId' \in Nat
        /\ UNCHANGED <<outbox, worldVars, seen, refreshDue, lastSetup, hostVars>>
        /\ pc' \in {"failed", "stopped"}
    <3>1. CASE Rejected \/ HandleEnd \/ Timeout
      BY <1>1, <3>1, Reading DEF TInv, TypeOK, Rejected, HandleEnd, Timeout
    <3>2. CASE CallFails
      <4>1. inbox' = inbox \/ (inbox # <<>> /\ inbox' = Tail(inbox))
        BY <3>2 DEF CallFails
      <4>2. inbox' \in Seq(Inbound)
        BY <4>1, Reading DEF TInv, TypeOK
      <4> QED
        BY <3>2, <4>2 DEF TInv, TypeOK, CallFails
    <3> QED
      BY <1>1, <3>1, <3>2
  <2> QED
    BY <2>1 DEF TInv, TypeOK, SeenSoFar, worldVars, hostVars
<1>2. CASE Close
  <2>1. End \in Inbound
    BY DEF Inbound
  <2> QED
    BY <1>2, <2>1 DEF TInv, TypeOK, SeenSoFar, Close, worldVars, workerVars
<1>3. CASE Change
  <2>1. TypeOK'
    BY <1>3, ChangeTypes DEF TInv
  <2>2. UNCHANGED workerVars
    BY <1>3 DEF Change, StoreKey, CreateFile, CreateTables, RecordLesson, Becomes
  <2> QED
    BY <2>1, <2>2 DEF TInv, SeenSoFar, workerVars
<1>4. ASSUME NEW m \in Methods, Notify(m)
      PROVE  TInv'
  <2>1. Request(None, m) \in Inbound
    BY DEF Inbound
  <2> QED
    BY <1>4, <2>1 DEF TInv, TypeOK, SeenSoFar, Notify, worldVars, workerVars, hostVars
<1>5. ASSUME NEW m \in Methods, Ask(m)
      PROVE  TInv'
  <2>1. sent' \in Requests /\ sent' \in 0..MaxRequests
    BY <1>5, WorkerAssumption DEF Ask, TInv, TypeOK, Requests
  <2>2. Request(sent', m) \in Inbound
    BY <2>1 DEF Inbound
  <2> QED
    BY <1>5, <2>1, <2>2 DEF TInv, TypeOK, SeenSoFar, Ask, worldVars, workerVars
<1>6. CASE UNCHANGED vars
  BY <1>6 DEF TInv, TypeOK, SeenSoFar, vars, worldVars, workerVars, hostVars
<1> QED
  BY <1>1, <1>2, <1>3, <1>4, <1>5, <1>6, Notifying,
     InspectTypes, AnsweredTypes, HandleTypes, ServeTypes DEF Next, WorkerStep

LEMMA TypeInit == Init => TInv
<1> SUFFICES ASSUME Init
             PROVE  TInv
  OBVIOUS
<1>1. TrueHealth(world) \in Overalls
  BY DEF TrueHealth, Overalls
<1> QED
  <2>1. 0 \in 0..MaxRequests /\ 0 \in 0..MaxChanges
    BY WorkerAssumption
  <2>2. inbox \in Seq(Inbound) /\ outbox \in Seq(Outbound)
    BY DEF Init
  <2>3. world \in Machine
    BY MachineAssumption DEF Init
  <2> QED
    BY <1>1, <2>1, <2>2, <2>3 DEF Init, TInv, TypeOK, SeenSoFar

(* The two slots, the calls on their way to them and everything the worker   *)
(* keeps are of the controlled vocabulary, from any machine it starts on.   *)
THEOREM TypeCorrect == Spec => []TypeOK
<1>1. TInv => TypeOK
  BY DEF TInv
<1> QED
  BY TypeInit, TypeStep, <1>1, PTL DEF Spec

-----------------------------------------------------------------------------
(* The published health was true.                                          *)

(* What the inspection knows: the true health of now is among the moments;  *)
(* a key that was absent when it was probed leaves a moment for whichever   *)
(* state of the database is found later; and a finished inspection of the   *)
(* store has found a moment's health.                                      *)
Honest ==
  /\ Inspecting => TrueHealth(world) \in moments
  /\ pc = "history" =>
       /\ seen.key # world.key => seen.key = "absent" /\ world.key = "present"
       /\ seen.key = "absent" =>
            (IF world.db.file = "missing" THEN "not_configured" ELSE "degraded") \in moments
  /\ pc \in {"codex", "claude", "bar", "pane", "idle"} =>
       SnapshotOf(seen).health.status \in moments

LEMMA StatusSeen ==
  ASSUME NEW s, s.key \in Keys, s.db \in Databases
  PROVE  SnapshotOf(s).health.status
           = CASE s.key = "present" /\ s.db.file = "sound" -> "ready"
               [] s.key = "absent" /\ s.db.file = "missing" -> "not_configured"
               [] OTHER -> "degraded"
<1>1. SnapshotOf(s).health.status = Overall(KeyReadiness(s.key), HistoryHealth(s.db).status)
  BY ReportTypes DEF SnapshotOf
<1>2. /\ HistoryHealth(s.db).status = "ready" <=> s.db.file = "sound"
      /\ HistoryHealth(s.db).status = "not_configured" <=> s.db.file = "missing"
  BY DEF HistoryHealth
<1>3. /\ KeyReadiness(s.key) = "ready" <=> s.key = "present"
      /\ KeyReadiness(s.key) = "not_configured" <=> s.key = "absent"
  BY DEF KeyReadiness
<1> QED
  BY <1>1, <1>2, <1>3 DEF Overall

LEMMA HonestInspection ==
  ASSUME TInv, TInv', Honest, Inspect
  PROVE  Honest'
<1> USE DEF worldVars, hostVars
<1>1. CASE InspectKey
  BY <1>1 DEF InspectKey, Honest, Inspecting, TrueHealth, TInv, TypeOK, Machine, Keys
<1>2. CASE InspectHistory
  <2>1. /\ seen'.key = seen.key /\ seen'.db = world.db
        /\ seen'.key \in Keys /\ seen'.db \in Databases
        /\ UNCHANGED <<world, moments>> /\ pc = "history" /\ pc' = "codex"
    BY <1>2 DEF InspectHistory, TInv, TypeOK, SeenSoFar
  <2>2. SnapshotOf(seen').health.status \in moments
    BY <2>1, StatusSeen DEF Honest, TrueHealth, Inspecting
  <2> QED
    BY <2>1, <2>2 DEF Honest, Inspecting
<1>3. CASE InspectCodex \/ InspectClaude
  <2>1. /\ seen'.key = seen.key /\ seen'.db = seen.db
        /\ seen'.key \in Keys /\ seen'.db \in Databases
        /\ UNCHANGED <<world, moments>> /\ pc \in {"codex", "claude"}
        /\ pc' \in {"claude", "bar"}
    BY <1>3 DEF InspectCodex, InspectClaude, TInv, TypeOK, SeenSoFar
  <2>2. SnapshotOf(seen').health.status = SnapshotOf(seen).health.status
    BY <2>1, StatusSeen
  <2> QED
    BY <2>1, <2>2 DEF Honest, Inspecting
<1> QED
  BY <1>1, <1>2, <1>3 DEF Inspect

LEMMA HonestChange ==
  ASSUME TInv, Honest, Change
  PROVE  Honest'
<1>1. ASSUME NEW w, Becomes(w)
      PROVE  /\ world' = w /\ UNCHANGED <<pc, seen>> /\ moments \subseteq moments'
             /\ Inspecting => TrueHealth(world') \in moments'
             /\ ~Inspecting => moments' = moments
             /\ Inspecting' = Inspecting
  BY <1>1 DEF Becomes, workerVars, Inspecting
<1>2. SnapshotOf(seen)' = SnapshotOf(seen)
  BY <1>1 DEF Change, StoreKey, CreateFile, CreateTables, RecordLesson
<1>3. CASE pc # "history"
  BY <1>1, <1>3
     DEF Honest, Inspecting, Change, StoreKey, CreateFile, CreateTables, RecordLesson
<1>4. CASE pc = "history"
  <2>1. world \in Machine
    BY DEF TInv, TypeOK
  <2>2. CASE StoreKey
    BY <1>1, <1>4, <2>1, <2>2 DEF Honest, Inspecting, StoreKey, Machine, Databases
  <2>3. CASE CreateFile
    BY <1>1, <1>4, <2>1, <2>3
       DEF Honest, Inspecting, CreateFile, Machine, Databases, TrueHealth
  <2>4. CASE CreateTables
    BY <1>1, <1>4, <2>1, <2>4
       DEF Honest, Inspecting, CreateTables, Machine, Databases, TrueHealth
  <2>5. CASE RecordLesson
    BY <1>1, <1>4, <2>1, <2>5 DEF Honest, Inspecting, RecordLesson, Machine, Databases
  <2> QED
    BY <2>2, <2>3, <2>4, <2>5 DEF Change
<1> QED
  BY <1>3, <1>4

LEMMA HonestStep ==
  ASSUME TInv, TInv', Honest, [Next]_vars
  PROVE  Honest'
<1>1. CASE HandleWaiting \/ HandleIdle
  <2>1. /\ UNCHANGED seen
        /\ \/ pc \in {"bar", "pane", "idle"} /\ pc' = pc /\ UNCHANGED moments
           \/ pc' = "key" /\ moments' = {TrueHealth(world')}
    BY <1>1 DEF HandleWaiting, HandleIdle, Waiting
  <2> QED
    BY <2>1 DEF Honest, Inspecting
<1>2. CASE Answered \/ Rejected \/ HandleEnd \/ Timeout
  <2>1. /\ UNCHANGED <<seen, moments>>
        /\ pc \in {"bar", "pane", "idle"}
        /\ pc' \in {"pane", "idle", "failed", "stopped"}
    BY <1>2 DEF Answered, Rejected, HandleEnd, Timeout, Waiting, worldVars
  <2> QED
    BY <2>1 DEF Honest, Inspecting
<1>3. ASSUME UNCHANGED <<worldVars, workerVars>>
      PROVE  Honest'
  BY <1>3 DEF Honest, Inspecting, worldVars, workerVars
<1>4. CASE Serve \/ Reject \/ Close \/ UNCHANGED vars \/ \E m \in Methods : Ask(m) \/ Notify(m)
  BY <1>3, <1>4 DEF Serve, Reject, Close, Notify, Ask, vars
<1>5. CASE ReplyFails \/ CallFails
  <2>1. pc' = "failed"
    BY <1>5 DEF ReplyFails, CallFails
  <2> QED
    BY <2>1 DEF Honest, Inspecting
<1> QED
  BY <1>1, <1>2, <1>4, <1>5, Notifying, HonestInspection, HonestChange DEF Next, WorkerStep

(* The overall health that is published was the machine's at some moment of  *)
(* the inspection, however many changes other processes make in between.    *)
THEOREM ShownTrue == Spec => []ShownWasTrue
<1>1. Init => Honest
  BY DEF Init, Honest, Inspecting
<1>2. TInv /\ Honest /\ [Next]_vars => TInv' /\ Honest'
  BY TypeStep, HonestStep
<1>3. Honest => ShownWasTrue
  BY DEF Honest, ShownWasTrue, Waiting
<1> QED
  BY TypeInit, <1>1, <1>2, <1>3, PTL DEF Spec

-----------------------------------------------------------------------------
(* What is displayed.                                                      *)

(* What a slot has to show: the bar what was seen, the pane that and the    *)
(* last notice unless a refresh will replace it anyway.                    *)
Right(slot, payload) ==
  IF slot = "bar" THEN payload = StatusBar(SnapshotOf(seen).health)
  ELSE refreshDue \/ payload = HomePane(SnapshotOf(seen), lastSetup)

(* There is at most one call on its way, with the right payload; a call     *)
(* that is answered has been displayed; answers are never of later calls.   *)
Displayed ==
  /\ ~Ended => \A n \in DOMAIN inbox : inbox[n].kind = "answer" => inbox[n].call < nextId
  /\ Inspecting \/ pc = "idle" => \A i \in DOMAIN outbox : outbox[i].kind = "reply"
  /\ Waiting => \A i \in DOMAIN outbox : outbox[i].kind # "reply" =>
       outbox[i].kind = pc /\ outbox[i].call = nextId - 1 /\ Right(pc, outbox[i].payload)
  /\ Waiting => \A i, j \in DOMAIN outbox :
       outbox[i].kind # "reply" /\ outbox[j].kind # "reply" => i = j
  /\ Waiting => \A n \in DOMAIN inbox :
       inbox[n].kind = "answer" /\ inbox[n].call = nextId - 1 =>
         /\ \A i \in DOMAIN outbox : outbox[i].kind = "reply"
         /\ Right(pc, shown[pc])
  /\ pc \in {"pane", "idle"} => Right("bar", shown.bar)
  /\ pc = "idle" => Right("pane", shown.pane)

(* An agent whose setup succeeded is connected, and was when it was         *)
(* inspected, unless a refresh is due.                                     *)
Confirmed ==
  /\ lastSetup # None /\ lastSetup.outcome # "failed" =>
       world.targets[lastSetup.target] = [hook |-> "installed", skill |-> "already_current"]
  /\ pc = "claude" => seen.targets["codex"] = world.targets["codex"]
  /\ Waiting \/ pc = "idle" => refreshDue \/ seen.targets = world.targets

LEMMA QueueTail ==
  ASSUME NEW S, NEW q \in Seq(S), q # <<>>
  PROVE  /\ 1 \in DOMAIN q /\ Head(q) = q[1]
         /\ \A n \in DOMAIN Tail(q) : n + 1 \in DOMAIN q /\ Tail(q)[n] = q[n + 1]
OBVIOUS

LEMMA QueueAppend ==
  ASSUME NEW S, NEW q \in Seq(S), NEW m
  PROVE  /\ DOMAIN Append(q, m) = DOMAIN q \cup {Len(q) + 1}
         /\ Len(q) + 1 \notin DOMAIN q
         /\ \A n \in DOMAIN q : Append(q, m)[n] = q[n]
         /\ Append(q, m)[Len(q) + 1] = m
OBVIOUS

(* A reply behind the calls adds none.                                     *)
LEMMA QueueReply ==
  ASSUME TypeOK, NEW m
  PROVE  LET q == outbox \o RepliesTo(m) IN
           \A n \in DOMAIN q : q[n].kind # "reply" => n \in DOMAIN outbox /\ q[n] = outbox[n]
<1>1. CASE m.id = None
  BY <1>1 DEF RepliesTo, TypeOK
<1>2. CASE m.id # None
  <2>1. RepliesTo(m) = <<Reply(m.id)>>
    BY <1>2 DEF RepliesTo
  <2>2. outbox \o <<Reply(m.id)>> = Append(outbox, Reply(m.id))
    BY DEF TypeOK
  <2>3. Reply(m.id).kind = "reply"
    BY DEF Reply
  <2> QED
    BY <2>1, <2>2, <2>3, QueueAppend DEF TypeOK
<1> QED
  BY <1>1, <1>2

(* The host's messages and other processes' changes.                       *)
LEMMA HostDisplayed ==
  ASSUME TypeOK, Displayed,
         Change \/ Close \/ (\E m \in Methods : Ask(m) \/ Notify(m)) \/ UNCHANGED vars
  PROVE  Displayed'
<1>1. /\ UNCHANGED <<outbox, pc, nextId, seen, refreshDue, lastSetup, shown>>
      /\ \/ UNCHANGED inbox
         \/ \E m : /\ m.kind \in {"request", "end"}
                   /\ inbox' = Append(inbox, m) \/ inbox' = <<m>>
  <2>1. CASE Change \/ UNCHANGED vars
    BY <2>1 DEF Change, StoreKey, CreateFile, CreateTables, RecordLesson, Becomes, vars,
                workerVars, hostVars
  <2>2. CASE Close
    BY <2>2 DEF Close, workerVars, End
  <2>3. ASSUME NEW m \in Methods, Notify(m)
        PROVE  /\ UNCHANGED <<outbox, pc, nextId, seen, refreshDue, lastSetup, shown>>
               /\ inbox' = <<Request(None, m)>> /\ Request(None, m).kind = "request"
    BY <2>3 DEF Notify, workerVars, hostVars, Request
  <2>4. ASSUME NEW m \in Methods, Ask(m)
        PROVE  /\ UNCHANGED <<outbox, pc, nextId, seen, refreshDue, lastSetup, shown>>
               /\ inbox' = Append(inbox, Request(sent', m))
               /\ Request(sent', m).kind = "request"
    BY <2>4 DEF Ask, workerVars, Request
  <2> QED
    BY <2>1, <2>2, <2>3, <2>4
<1>2. \A n \in DOMAIN inbox' : inbox'[n].kind = "answer" => n \in DOMAIN inbox /\ inbox'[n] = inbox[n]
  <2>1. inbox \in Seq(Inbound)
    BY DEF TypeOK
  <2>2. ASSUME NEW m, m.kind \in {"request", "end"}, inbox' = Append(inbox, m)
        PROVE  \A n \in DOMAIN inbox' : inbox'[n].kind = "answer" => n \in DOMAIN inbox /\ inbox'[n] = inbox[n]
    BY <2>1, <2>2, QueueAppend
  <2>3. ASSUME NEW m, m.kind \in {"request", "end"}, inbox' = <<m>>
        PROVE  \A n \in DOMAIN inbox' : inbox'[n].kind = "answer" => n \in DOMAIN inbox /\ inbox'[n] = inbox[n]
    BY <2>3
  <2> QED
    BY <1>1, <2>2, <2>3
<1> QED
  BY <1>1, <1>2 DEF Displayed, Right, Waiting, Inspecting, Ended

LEMMA InspectDisplayed ==
  ASSUME TypeOK, Displayed, Inspect
  PROVE  Displayed'
<1>1. UNCHANGED inbox /\ \A i \in DOMAIN outbox : outbox[i].kind = "reply"
  BY DEF Displayed, Inspecting, Inspect, InspectKey, InspectHistory, InspectCodex, InspectClaude
<1>2. CASE InspectKey \/ InspectHistory \/ InspectCodex
  <2>1. /\ UNCHANGED <<outbox, nextId>>
        /\ pc \in {"key", "history", "codex"} /\ pc' \in {"history", "codex", "claude"}
    BY <1>2 DEF InspectKey, InspectHistory, InspectCodex
  <2> QED
    BY <1>1, <2>1 DEF Displayed, Right, Waiting, Inspecting, Ended
<1>3. CASE InspectClaude
  <2>0. PICK call :
          /\ call = BarCall(nextId, StatusBar(SnapshotOf(seen').health))
          /\ outbox' = Append(outbox, call) /\ nextId' = nextId + 1 /\ pc' = "bar"
    BY <1>3 DEF InspectClaude
  <2>1. /\ outbox' = Append(outbox, call) /\ nextId' = nextId + 1 /\ pc' = "bar"
        /\ call.kind = "bar" /\ call.call = nextId
        /\ call.payload = StatusBar(SnapshotOf(seen').health)
    BY <2>0 DEF BarCall
  <2>2. nextId \in Nat /\ outbox \in Seq(Outbound)
    BY DEF TypeOK
  <2>3. \A i \in DOMAIN outbox' : outbox'[i].kind # "reply" => i = Len(outbox) + 1 /\ outbox'[i] = call
    BY <1>1, <2>1, <2>2, QueueAppend
  <2>4. \A n \in DOMAIN inbox : inbox[n].kind = "answer" => inbox[n].call < nextId /\ inbox[n].call \in Nat
    <3>1. ~Ended
      BY <1>3 DEF InspectClaude, Ended
    <3> QED
      BY <3>1 DEF Displayed, TypeOK, Inbound, Request, End
  <2>5. Right("bar", call.payload)'
    BY <2>1 DEF Right
  <2>6. \A n \in DOMAIN inbox' : inbox'[n].kind = "answer" =>
          inbox'[n].call < nextId' /\ inbox'[n].call # nextId' - 1
    BY <1>1, <2>1, <2>2, <2>4
  <2>7. /\ Waiting' => \A i \in DOMAIN outbox' : outbox'[i].kind # "reply" =>
             outbox'[i].kind = pc' /\ outbox'[i].call = nextId' - 1 /\ Right(pc, outbox[i].payload)'
        /\ Waiting' => \A i, j \in DOMAIN outbox' :
             outbox'[i].kind # "reply" /\ outbox'[j].kind # "reply" => i = j
    BY <2>1, <2>2, <2>3, <2>5
  <2> QED
    BY <2>1, <2>6, <2>7 DEF Displayed, Waiting, Inspecting
<1> QED
  BY <1>2, <1>3 DEF Inspect

(* The answer to its first call lets the worker make the second.           *)
LEMMA AnsweredDisplayed ==
  ASSUME TypeOK, Displayed, Answered
  PROVE  Displayed'
<1>1. /\ inbox \in Seq(Inbound) /\ outbox \in Seq(Outbound) /\ nextId \in Nat
      /\ inbox # <<>> /\ Waiting
  BY DEF TypeOK, Answered
<1>2. /\ 1 \in DOMAIN inbox
      /\ inbox[1].kind = "answer" /\ inbox[1].call = nextId - 1
  BY <1>1, QueueTail DEF Answered, Answer
<1>3. (\A i \in DOMAIN outbox : outbox[i].kind = "reply") /\ Right(pc, shown[pc])
  BY <1>1, <1>2 DEF Displayed
<1>4. \A n \in DOMAIN inbox' : inbox'[n].kind = "answer" => inbox'[n].call \in Nat /\ inbox'[n].call < nextId
  <2>1. \A n \in DOMAIN inbox : inbox[n].kind = "answer" => inbox[n].call \in Nat /\ inbox[n].call < nextId
    <3>1. ~Ended
      BY <1>1 DEF Waiting, Ended
    <3> QED
      BY <3>1 DEF Displayed, TypeOK, Inbound, Request, End
  <2>2. inbox' = Tail(inbox)
    BY DEF Answered
  <2> QED
    BY <1>1, <2>1, <2>2, QueueTail
<1>5. UNCHANGED <<seen, refreshDue, lastSetup, shown>>
  BY DEF Answered, hostVars
<1>6. CASE pc = "bar"
  <2>1. PICK call :
          /\ outbox' = Append(outbox, call) /\ nextId' = nextId + 1 /\ pc' = "pane"
          /\ call.kind = "pane" /\ call.call = nextId
          /\ call.payload = HomePane(SnapshotOf(seen), lastSetup)
    BY <1>6 DEF Answered, PaneCall
  <2>2. \A i \in DOMAIN outbox' : outbox'[i].kind # "reply" => i = Len(outbox) + 1 /\ outbox'[i] = call
    BY <1>1, <1>3, <2>1, QueueAppend
  <2>3. Right("pane", call.payload)' /\ Right("bar", shown.bar)'
    BY <1>3, <1>5, <1>6, <2>1 DEF Right
  <2>4. \A n \in DOMAIN inbox' : inbox'[n].kind = "answer" =>
          inbox'[n].call < nextId' /\ inbox'[n].call # nextId' - 1
    BY <1>1, <1>4, <2>1
  <2>5. /\ \A i \in DOMAIN outbox' : outbox'[i].kind # "reply" =>
             outbox'[i].kind = pc' /\ outbox'[i].call = nextId' - 1 /\ Right(pc, outbox[i].payload)'
        /\ \A i, j \in DOMAIN outbox' :
             outbox'[i].kind # "reply" /\ outbox'[j].kind # "reply" => i = j
    BY <1>1, <2>1, <2>2, <2>3
  <2> QED
    BY <2>1, <2>3, <2>4, <2>5 DEF Displayed, Waiting, Inspecting
<1>7. CASE pc = "pane"
  <2>1. pc' = "idle" /\ UNCHANGED <<outbox, nextId>>
    BY <1>7 DEF Answered
  <2>2. Right("bar", shown.bar)' /\ Right("pane", shown.pane)'
    BY <1>3, <1>5, <1>7 DEF Right, Displayed
  <2> QED
    BY <1>3, <1>4, <2>1, <2>2 DEF Displayed, Waiting, Inspecting
<1> QED
  BY <1>1, <1>6, <1>7 DEF Waiting

(* A setup in the middle of a publication changes what the pane has to show *)
(* and leaves a refresh due.                                               *)
LEMMA HandleDisplayed ==
  ASSUME TypeOK, Displayed, HandleWaiting \/ HandleIdle
  PROVE  Displayed'
<1> DEFINE m == Head(inbox)
<1>1. /\ inbox \in Seq(Inbound) /\ inbox # <<>> /\ inbox' = Tail(inbox)
      /\ UNCHANGED <<nextId, seen, shown>>
      /\ Obey(m)
  BY DEF TypeOK, HandleWaiting, HandleIdle, hostVars
<1>2. \A n \in DOMAIN inbox' : n + 1 \in DOMAIN inbox /\ inbox'[n] = inbox[n + 1]
  BY <1>1, QueueTail
<1>3. \A i \in DOMAIN outbox' : outbox'[i].kind # "reply" => i \in DOMAIN outbox /\ outbox'[i] = outbox[i]
  BY QueueReply
     DEF HandleWaiting, HandleIdle, RepliesTo
<1>4. AsksRefresh(m) \/ UNCHANGED lastSetup
  BY <1>1 DEF Obey, AsksRefresh
<1> HIDE DEF m
<1>5. \A n \in DOMAIN inbox' : inbox'[n].kind = "answer" => inbox'[n].call < nextId'
  BY <1>1, <1>2 DEF Displayed, HandleWaiting, HandleIdle, Waiting, Ended
<1>6. CASE HandleWaiting
  <2>1. /\ Waiting /\ pc' = pc
        /\ refreshDue' = (refreshDue \/ AsksRefresh(m))
    BY <1>6 DEF HandleWaiting, m
  <2>2. \A slot, payload : Right(slot, payload) => Right(slot, payload)'
    BY <1>1, <1>4, <2>1 DEF Right
  <2>3. \A i \in DOMAIN outbox' : outbox'[i].kind # "reply" =>
          outbox'[i].kind = pc' /\ outbox'[i].call = nextId' - 1 /\ Right(pc, outbox[i].payload)'
    <3> SUFFICES ASSUME NEW i \in DOMAIN outbox', outbox'[i].kind # "reply"
                 PROVE  outbox'[i].kind = pc' /\ outbox'[i].call = nextId' - 1
                        /\ Right(pc, outbox[i].payload)'
      OBVIOUS
    <3>1. /\ i \in DOMAIN outbox /\ outbox'[i] = outbox[i]
          /\ outbox[i].kind = pc /\ outbox[i].call = nextId - 1 /\ Right(pc, outbox[i].payload)
      BY <1>3, <2>1 DEF Displayed
    <3> QED
      BY <1>1, <1>4, <2>1, <3>1 DEF Right
  <2>4. \A i, j \in DOMAIN outbox' : outbox'[i].kind # "reply" /\ outbox'[j].kind # "reply" => i = j
    BY <1>3, <2>1 DEF Displayed
  <2>5. \A n \in DOMAIN inbox' : inbox'[n].kind = "answer" /\ inbox'[n].call = nextId' - 1 =>
          (\A i \in DOMAIN outbox' : outbox'[i].kind = "reply") /\ Right(pc, shown[pc])'
    <3> SUFFICES ASSUME NEW n \in DOMAIN inbox', inbox'[n].kind = "answer",
                        inbox'[n].call = nextId' - 1
                 PROVE  (\A i \in DOMAIN outbox' : outbox'[i].kind = "reply")
                        /\ Right(pc, shown[pc])'
      OBVIOUS
    <3>1. (\A i \in DOMAIN outbox : outbox[i].kind = "reply") /\ Right(pc, shown[pc])
      BY <1>1, <1>2, <2>1 DEF Displayed
    <3> QED
      BY <1>1, <1>3, <1>4, <2>1, <3>1 DEF Right
  <2>6. pc = "pane" => Right("bar", shown.bar)'
    BY <1>1 DEF Displayed, Right
  <2> QED
    BY <1>5, <2>1, <2>3, <2>4, <2>5, <2>6 DEF Displayed, Waiting, Inspecting
<1>7. CASE HandleIdle
  <2>1. /\ pc = "idle" /\ refreshDue' = FALSE
        /\ IF refreshDue \/ AsksRefresh(m) THEN pc' = "key" ELSE UNCHANGED pc
    BY <1>7 DEF HandleIdle, m
  <2>2. \A i \in DOMAIN outbox' : outbox'[i].kind = "reply"
    BY <1>3, <2>1 DEF Displayed
  <2>3. pc' = "idle" => Right("bar", shown.bar)' /\ Right("pane", shown.pane)'
    BY <1>1, <1>4, <2>1 DEF Displayed, Right
  <2> QED
    BY <1>5, <2>1, <2>2, <2>3 DEF Displayed, Waiting, Inspecting
<1> QED
  BY <1>6, <1>7

(* The host displays what it reads and answers it.                         *)
LEMMA ServeDisplayed ==
  ASSUME TypeOK, Displayed, Serve \/ Reject
  PROVE  Displayed'
<1> DEFINE m == Head(outbox)
<1>1. /\ outbox \in Seq(Outbound) /\ inbox \in Seq(Inbound) /\ outbox # <<>>
      /\ outbox' = Tail(outbox)
      /\ UNCHANGED <<pc, nextId, seen, refreshDue, lastSetup>>
  BY DEF TypeOK, Serve, Reject, workerVars
<1>2. /\ 1 \in DOMAIN outbox /\ m = outbox[1]
      /\ \A i \in DOMAIN outbox' : i + 1 \in DOMAIN outbox /\ outbox'[i] = outbox[i + 1]
  BY <1>1, QueueTail
<1>3. \A i \in DOMAIN outbox' : i + 1 # 1 /\ i \in Nat
  BY <1>1
<1> HIDE DEF m
<1>4. \A slot, payload : Right(slot, payload) <=> Right(slot, payload)'
  BY <1>1 DEF Right
<1>5. /\ Inspecting \/ pc = "idle" => \A i \in DOMAIN outbox' : outbox'[i].kind = "reply"
      /\ Waiting => \A i \in DOMAIN outbox' : outbox'[i].kind # "reply" =>
           outbox'[i].kind = pc /\ outbox'[i].call = nextId - 1 /\ Right(pc, outbox'[i].payload)
      /\ Waiting => \A i, j \in DOMAIN outbox' :
           outbox'[i].kind # "reply" /\ outbox'[j].kind # "reply" => i = j
  <2>1. \A i, j \in DOMAIN outbox' : i + 1 = j + 1 => i = j
    BY <1>3
  <2> QED
    BY <1>2, <2>1 DEF Displayed
<1>6. Waiting /\ m.kind # "reply" => \A i \in DOMAIN outbox' : outbox'[i].kind = "reply"
  BY <1>2, <1>3 DEF Displayed
<1>7. CASE m.kind = "reply" /\ Serve
  <2>1. UNCHANGED <<inbox, shown>>
    BY <1>7 DEF Serve, m
  <2> QED
    BY <1>1, <1>2, <1>4, <1>5, <2>1 DEF Displayed, Waiting, Inspecting, Ended, Right
<1>8. CASE m.kind # "reply" /\ Serve
  <2>1. /\ m.kind \in {"bar", "pane"}
        /\ shown' = [shown EXCEPT ![m.kind] = m.payload]
        /\ inbox' = inbox \/ inbox' = Append(inbox, Answer(m.call))
    BY <1>8 DEF Serve, m
  <2>2. Waiting => m.kind = pc /\ m.call = nextId - 1 /\ Right(pc, m.payload)
    BY <1>2, <1>8 DEF Displayed
  <2>3. ~Inspecting /\ pc # "idle"
    BY <1>2, <1>8 DEF Displayed
  <2>4. CASE ~Waiting
    BY <1>1, <2>3, <2>4 DEF Displayed, Waiting, Inspecting, Ended, TypeOK
  <2>5. CASE Waiting
    <3>1. /\ \A i \in DOMAIN outbox' : outbox'[i].kind = "reply"
          /\ m.kind = pc /\ m.call = nextId - 1 /\ Right(pc, m.payload)
      BY <1>6, <1>8, <2>2, <2>5
    <3>2. /\ shown'[pc] = m.payload
          /\ pc = "pane" => shown'.bar = shown.bar
      BY <2>1, <3>1 DEF TypeOK
    <3>3. Right(pc, shown[pc])' /\ (pc = "pane" => Right("bar", shown.bar)')
      BY <1>1, <2>5, <3>1, <3>2 DEF Right, Displayed, Waiting
    <3>4. nextId \in Nat /\ nextId - 1 < nextId
      BY DEF TypeOK
    <3>5. \A n \in DOMAIN inbox' : inbox'[n].kind = "answer" => inbox'[n].call < nextId
      <4>1. \A n \in DOMAIN inbox : inbox[n].kind = "answer" => inbox[n].call < nextId
        BY <2>5 DEF Displayed, Waiting, Ended
      <4>2. Answer(m.call).call = nextId - 1
        BY <3>1 DEF Answer
      <4>3. CASE inbox' = inbox
        BY <4>1, <4>3
      <4>4. CASE inbox' = Append(inbox, Answer(m.call))
        BY <1>1, <3>4, <4>1, <4>2, <4>4, QueueAppend
      <4> QED
        BY <2>1, <4>3, <4>4
    <3> QED
      BY <1>1, <2>3, <2>5, <3>1, <3>3, <3>5 DEF Displayed, Waiting, Inspecting
  <2> QED
    BY <2>4, <2>5
<1>9. CASE Reject
  <2>1. UNCHANGED shown /\ inbox' = Append(inbox, Rejection(outbox[1].call))
    BY <1>1, <1>2, <1>9 DEF Reject, hostVars, m
  <2>2. \A n \in DOMAIN inbox' : inbox'[n].kind = "answer" => n \in DOMAIN inbox /\ inbox'[n] = inbox[n]
    BY <1>1, <2>1, QueueAppend DEF Rejection
  <2> QED
    BY <1>1, <1>2, <1>4, <1>5, <2>1, <2>2 DEF Displayed, Waiting, Inspecting, Ended, Right
<1> QED
  BY <1>7, <1>8, <1>9

LEMMA DisplayedStep ==
  ASSUME TypeOK, Displayed, [Next]_vars
  PROVE  Displayed'
<1>1. CASE Rejected \/ HandleEnd \/ Timeout \/ ReplyFails \/ CallFails
  <2>1. pc' \in {"failed", "stopped"}
    BY <1>1 DEF Rejected, HandleEnd, Timeout, ReplyFails, CallFails
  <2> QED
    BY <2>1 DEF Displayed, Waiting, Inspecting, Ended
<1> QED
  BY <1>1, Notifying, HostDisplayed, InspectDisplayed, AnsweredDisplayed, HandleDisplayed,
     ServeDisplayed DEF Next, WorkerStep

(* An idle worker that owes no refresh shows what it saw and its last       *)
(* notice, whatever requests were handled while it published.               *)
THEOREM CalmShown == Spec => []CalmMeansShown
<1>1. Init => Displayed
  BY DEF Init, Displayed, Waiting, Inspecting
<1>2. TInv /\ Displayed /\ [Next]_vars => TInv' /\ Displayed'
  BY TypeStep, DisplayedStep DEF TInv
<1>3. Displayed => CalmMeansShown
  BY DEF Displayed, CalmMeansShown, Right
<1> QED
  BY TypeInit, <1>1, <1>2, <1>3, PTL DEF Spec

-----------------------------------------------------------------------------
(* A notice and the row beside it.                                         *)

LEMMA ConfirmedStep ==
  ASSUME TInv, Confirmed, [Next]_vars
  PROVE  Confirmed'
<1>1. CASE Inspect
  <2>1. UNCHANGED <<world, lastSetup>>
    BY <1>1 DEF Inspect, InspectKey, InspectHistory, InspectCodex, InspectClaude, worldVars
  <2>2. seen.targets \in [Targets -> Parts \cup {None}] /\ world.targets \in [Targets -> Parts]
    BY DEF TInv, TypeOK, Machine
  <2>3. CASE InspectKey \/ InspectHistory
    BY <2>1, <2>3 DEF InspectKey, InspectHistory, Confirmed, Waiting
  <2>4. CASE InspectCodex
    BY <2>1, <2>2, <2>4 DEF InspectCodex, Confirmed, Waiting, TInv, TypeOK, Targets
  <2>5. CASE InspectClaude
    <3>1. seen'.targets = [seen.targets EXCEPT !["claude"] = world.targets["claude"]]
      BY <2>5 DEF InspectClaude, TInv, TypeOK
    <3>2. seen.targets["codex"] = world.targets["codex"]
      BY <2>5 DEF InspectClaude, Confirmed
    <3>3. seen'.targets = world.targets
      BY <2>2, <3>1, <3>2 DEF Targets
    <3> QED
      BY <2>1, <2>5, <3>3 DEF InspectClaude, Confirmed, Waiting
  <2> QED
    BY <1>1, <2>3, <2>4, <2>5 DEF Inspect
<1>2. CASE HandleWaiting \/ HandleIdle \/ ReplyFails
  <2> DEFINE m == Head(inbox)
  <2>1. m \in Inbound /\ m.kind = "request" /\ Obey(m)
    BY <1>2, Reading DEF HandleWaiting, HandleIdle, ReplyFails, TInv
  <2>2. /\ UNCHANGED seen
        /\ \/ Waiting /\ pc' = pc /\ refreshDue' = (refreshDue \/ AsksRefresh(m))
           \/ pc = "idle" /\ pc' = "key"
           \/ pc = "idle" /\ pc' = "idle" /\ ~refreshDue /\ ~AsksRefresh(m)
           \/ pc' = "failed"
    BY <1>2 DEF HandleWaiting, HandleIdle, ReplyFails, TInv, TypeOK
  <2> HIDE DEF m
  <2>3. CASE m.method = "setup"
    <3>1. PICK res \in SetupResults(world, m.target) :
            world' = res.world /\ lastSetup' = [target |-> m.target, outcome |-> res.outcome]
      BY <2>1, <2>3 DEF Obey
    <3>2. m.target \in Targets
      BY <2>1, <2>3 DEF Inbound, Request, Methods, Plain, Setups, End
    <3>3. res.outcome # "failed" =>
            res.world.targets[m.target] = [hook |-> "installed", skill |-> "already_current"]
      BY <3>2 DEF SetupResults, TInv, TypeOK, Machine
    <3>4. AsksRefresh(m)
      BY <2>3 DEF AsksRefresh
    <3> QED
      BY <2>2, <3>1, <3>3, <3>4 DEF Confirmed, Waiting
  <2>4. CASE m.method # "setup"
    <3>1. UNCHANGED <<world, lastSetup>>
      BY <2>1, <2>4 DEF Obey
    <3> QED
      BY <2>2, <3>1 DEF Confirmed, Waiting
  <2> QED
    BY <2>3, <2>4
<1>3. CASE Answered \/ Rejected \/ HandleEnd \/ Timeout \/ CallFails
  BY <1>3 DEF Answered, Rejected, HandleEnd, Timeout, CallFails, Confirmed, Waiting, worldVars
<1>4. CASE Change
  <2>1. world'.targets = world.targets /\ UNCHANGED workerVars
    BY <1>4 DEF Change, StoreKey, CreateFile, CreateTables, RecordLesson, Becomes, TInv, TypeOK, Machine
  <2> QED
    BY <2>1 DEF Confirmed, Waiting, workerVars
<1>5. ASSUME UNCHANGED <<worldVars, workerVars>>
      PROVE  Confirmed'
  BY <1>5 DEF Confirmed, Waiting, worldVars, workerVars
<1>6. CASE Serve \/ Reject \/ Close \/ UNCHANGED vars \/ \E m \in Methods : Ask(m) \/ Notify(m)
  BY <1>5, <1>6 DEF Serve, Reject, Close, Notify, Ask, vars
<1> QED
  BY <1>1, <1>2, <1>3, <1>4, <1>6, Notifying DEF Next, WorkerStep

LEMMA SetUpMeansConnected ==
  ASSUME NEW s, NEW t \in Targets, NEW notice,
         s.targets[t] = [hook |-> "installed", skill |-> "already_current"]
  PROVE  HomePane(SnapshotOf(s), notice).rows[t] = "connected"
<1>1. SnapshotOf(s).integrations = [u \in Targets |-> Integration(s.targets[u])]
  BY DEF SnapshotOf
<1>2. Integration(s.targets[t]) = [hook |-> "ready", skill |-> "ready"]
  BY DEF Integration, HookReadiness, SkillReadiness
<1>3. IntegrationLabel([hook |-> "ready", skill |-> "ready"]) = "connected"
  BY DEF IntegrationLabel, Connected
<1>4. HomePane(SnapshotOf(s), notice).rows
        = [u \in Targets |-> IntegrationLabel(SnapshotOf(s).integrations[u])]
  BY <1>1 DEF HomePane
<1> QED
  BY <1>1, <1>2, <1>3, <1>4

(* The notice of a successful setup stands beside a row that says           *)
(* connected, although the pane is rendered from an earlier inspection.      *)
THEOREM NoticeAgrees == Spec => []NoticeConfirmed
<1>1. Init => Displayed /\ Confirmed
  BY DEF Init, Displayed, Confirmed, Waiting, Inspecting
<1>2. TInv /\ Displayed /\ Confirmed /\ [Next]_vars => TInv' /\ Displayed' /\ Confirmed'
  BY TypeStep, DisplayedStep, ConfirmedStep DEF TInv
<1>3. TInv /\ Displayed /\ Confirmed => NoticeConfirmed
  <2> SUFFICES ASSUME TInv, Displayed, Confirmed, pc = "idle", ~refreshDue,
                      lastSetup # None, lastSetup.outcome # "failed"
               PROVE  shown.pane.rows[lastSetup.target] = "connected"
    BY DEF NoticeConfirmed
  <2>1. shown.pane = HomePane(SnapshotOf(seen), lastSetup)
    BY DEF Displayed, Right
  <2>2. lastSetup.target \in Targets
    BY DEF TInv, TypeOK, Notices
  <2>3. seen.targets[lastSetup.target] = [hook |-> "installed", skill |-> "already_current"]
    BY DEF Confirmed
  <2> QED
    BY <2>1, <2>2, <2>3, SetUpMeansConnected
<1> QED
  BY TypeInit, <1>1, <1>2, <1>3, PTL DEF Spec

-----------------------------------------------------------------------------
(* Requests and replies are counted. *)

(* The positions of a queue that hold a member of M, and how many there are. *)
Places(q, M) == {i \in DOMAIN q : q[i] \in M}
Held(q, M) == Cardinality(Places(q, M))

LEMMA HeldType ==
  ASSUME NEW S, NEW q \in Seq(S), NEW M
  PROVE  IsFiniteSet(Places(q, M)) /\ Held(q, M) \in Nat
<1>1. IsFiniteSet(1..Len(q))
  BY FS_Interval
<1>2. Places(q, M) \in SUBSET (1..Len(q))
  BY DEF Places
<1> QED
  BY <1>1, <1>2, FS_Subset, FS_CardinalityType DEF Held

LEMMA HeldEmpty ==
  ASSUME NEW M
  PROVE  Held(<<>>, M) = 0
<1>1. Places(<<>>, M) = {}
  BY DEF Places
<1> QED
  BY <1>1, FS_EmptySet DEF Held

LEMMA HeldAppend ==
  ASSUME NEW S, NEW q \in Seq(S), NEW x, NEW M
  PROVE  Held(Append(q, x), M) = Held(q, M) + (IF x \in M THEN 1 ELSE 0)
<1>1. /\ DOMAIN Append(q, x) = DOMAIN q \cup {Len(q) + 1}
      /\ Len(q) + 1 \notin DOMAIN q
      /\ \A n \in DOMAIN q : Append(q, x)[n] = q[n]
      /\ Append(q, x)[Len(q) + 1] = x
  BY QueueAppend
<1>2. IsFiniteSet(Places(q, M)) /\ Held(q, M) \in Nat
  BY HeldType
<1>3. CASE x \in M
  <2>1. Places(Append(q, x), M) = Places(q, M) \cup {Len(q) + 1} /\ Len(q) + 1 \notin Places(q, M)
    BY <1>1, <1>3 DEF Places
  <2> QED
    BY <1>2, <1>3, <2>1, FS_AddElement DEF Held
<1>4. CASE x \notin M
  <2>1. Places(Append(q, x), M) = Places(q, M)
    BY <1>1, <1>4 DEF Places
  <2> QED
    BY <1>2, <1>4, <2>1 DEF Held
<1> QED
  BY <1>3, <1>4

LEMMA HeldTail ==
  ASSUME NEW S, NEW q \in Seq(S), q # <<>>, NEW M
  PROVE  Held(q, M) = Held(Tail(q), M) + (IF Head(q) \in M THEN 1 ELSE 0)
<1> DEFINE rest == Places(q, M) \ {1}
           f == [i \in Places(Tail(q), M) |-> i + 1]
<1>1. /\ 1 \in DOMAIN q /\ Head(q) = q[1] /\ Tail(q) \in Seq(S)
      /\ DOMAIN q = 1..Len(q) /\ DOMAIN Tail(q) = 1..(Len(q) - 1) /\ Len(q) \in Nat \ {0}
      /\ \A n \in DOMAIN Tail(q) : n + 1 \in DOMAIN q /\ Tail(q)[n] = q[n + 1]
  BY QueueTail
<1>2. f \in Bijection(Places(Tail(q), M), rest)
  <2>1. \A i \in Places(Tail(q), M) : i \in Nat \ {0} /\ i + 1 \in rest
    BY <1>1 DEF Places
  <2>2. \A j \in rest : j - 1 \in Places(Tail(q), M) /\ (j - 1) + 1 = j
    <3> SUFFICES ASSUME NEW j \in rest
                 PROVE  j - 1 \in Places(Tail(q), M) /\ (j - 1) + 1 = j
      OBVIOUS
    <3>1. j \in 1..Len(q) /\ j # 1 /\ q[j] \in M
      BY <1>1 DEF Places
    <3>2. j - 1 \in DOMAIN Tail(q) /\ (j - 1) + 1 = j
      BY <1>1, <3>1
    <3> QED
      BY <1>1, <3>1, <3>2 DEF Places
  <2>3. f \in [Places(Tail(q), M) -> rest]
    BY <2>1
  <2>4. \A i, j \in Places(Tail(q), M) : f[i] = f[j] => i = j
    BY <2>1
  <2>5. \A j \in rest : \E i \in Places(Tail(q), M) : f[i] = j
    BY <2>2
  <2> QED
    BY <2>3, <2>4, <2>5 DEF Bijection, Injection, Surjection, IsInjective
<1>3. IsFiniteSet(Places(q, M)) /\ IsFiniteSet(Places(Tail(q), M))
      /\ Held(q, M) \in Nat /\ Held(Tail(q), M) \in Nat
  BY <1>1, HeldType
<1>4. Cardinality(rest) = Held(Tail(q), M)
  BY <1>2, <1>3, FS_Bijection DEF ExistsBijection, Held
<1>5. 1 \in Places(q, M) <=> Head(q) \in M
  BY <1>1 DEF Places
<1> HIDE DEF rest
<1>6. CASE Head(q) \in M
  <2>1. Cardinality(Places(q, M) \ {1}) = Cardinality(Places(q, M)) - 1
    BY <1>3, <1>5, <1>6, FS_RemoveElement
  <2> QED
    BY <1>3, <1>4, <1>6, <2>1 DEF Held, rest
<1>7. CASE Head(q) \notin M
  <2>1. rest = Places(q, M)
    BY <1>5, <1>7 DEF rest
  <2> QED
    BY <1>3, <1>4, <1>7, <2>1 DEF Held
<1> QED
  BY <1>6, <1>7

(* The messages about request r; every request is in one place, and those   *)
(* not yet sent are nowhere; so is one whose reply a failed worker lost.    *)
AskedOf(r) == {m \in Inbound : m.kind = "request" /\ m.id = r}
RepliesOf(r) == {m \in Outbound : m.kind = "reply" /\ m.id = r}

Known(r) == Held(inbox, AskedOf(r)) + Held(outbox, RepliesOf(r)) + replied[r]

OnePlace ==
  \A r \in Requests : \/ Known(r) = IF r <= sent THEN 1 ELSE 0
                      \/ Known(r) = 0 /\ pc = "failed"

LEMMA KnownParts ==
  ASSUME TypeOK, NEW r \in Requests
  PROVE  /\ Held(inbox, AskedOf(r)) \in Nat /\ Held(outbox, RepliesOf(r)) \in Nat
         /\ replied[r] \in Nat /\ sent \in Nat
BY HeldType DEF TypeOK

(* A queue that loses no message about r and gets none.                    *)
LEMMA SameKnown ==
  ASSUME OnePlace, UNCHANGED <<replied, sent>>, pc = "failed" => pc' = "failed",
         \A r \in Requests : /\ Held(inbox', AskedOf(r)) = Held(inbox, AskedOf(r))
                             /\ Held(outbox', RepliesOf(r)) = Held(outbox, RepliesOf(r))
  PROVE  OnePlace'
BY DEF OnePlace, Known

LEMMA HandleOnce ==
  ASSUME TInv, OnePlace, HandleWaiting \/ HandleIdle \/ ReplyFails
  PROVE  OnePlace'
<1> DEFINE m == Head(inbox)
<1>1. /\ inbox # <<>> /\ m.kind = "request" /\ m \in Inbound
      /\ inbox' = Tail(inbox) /\ UNCHANGED <<replied, sent>> /\ pc # "failed"
      /\ \/ outbox' = outbox \o RepliesTo(m)
         \/ outbox' = outbox /\ pc' = "failed"
  BY Reading DEF TInv, HandleWaiting, HandleIdle, ReplyFails, Waiting, hostVars
<1>2. inbox \in Seq(Inbound) /\ outbox \in Seq(Outbound)
  BY DEF TInv, TypeOK
<1>3. m.id \in Requests \cup {None} /\ None \notin Requests
  BY <1>1, WorkerAssumption DEF Inbound, Request, End, Requests
<1> SUFFICES ASSUME NEW r \in Requests
             PROVE  \/ Known(r)' = Known(r)
                    \/ Known(r)' = 0 /\ pc' = "failed"
  BY <1>1 DEF OnePlace
<1>4. m \in AskedOf(r) <=> m.id = r
  BY <1>1 DEF AskedOf
<1>5. Held(inbox, AskedOf(r)) = Held(inbox', AskedOf(r)) + (IF m.id = r THEN 1 ELSE 0)
  BY <1>1, <1>2, <1>4, HeldTail
<1>6. ASSUME outbox' = outbox \o RepliesTo(m)
      PROVE  Held(outbox', RepliesOf(r)) = Held(outbox, RepliesOf(r)) + (IF m.id = r THEN 1 ELSE 0)
  <2>1. CASE m.id = None
    <3>1. outbox' = outbox
      BY <1>2, <1>6, <2>1 DEF RepliesTo
    <3> QED
      BY <1>2, <1>3, <2>1, <3>1, HeldType
  <2>2. CASE m.id # None
    <3>1. outbox' = Append(outbox, Reply(m.id))
      BY <1>2, <1>6, <2>2 DEF RepliesTo
    <3>2. Reply(m.id) \in RepliesOf(r) <=> m.id = r
      BY <1>3, <2>2 DEF Reply, RepliesOf, Outbound
    <3> QED
      BY <1>2, <3>1, <3>2, HeldAppend
  <2> QED
    BY <2>1, <2>2
<1>7. Held(inbox', AskedOf(r)) \in Nat /\ Held(outbox, RepliesOf(r)) \in Nat /\ replied[r] \in Nat
  <2>1. inbox' \in Seq(Inbound)
    BY <1>1, <1>2
  <2> QED
    BY <1>2, <2>1, HeldType DEF TInv, TypeOK
<1>8. CASE outbox' = outbox \o RepliesTo(m)
  BY <1>1, <1>5, <1>6, <1>7, <1>8 DEF Known
<1>9. CASE outbox' = outbox /\ pc' = "failed"
  <2>1. Known(r) \in {0, 1}
    BY DEF OnePlace
  <2> QED
    BY <1>1, <1>5, <1>7, <1>9, <2>1 DEF Known
<1> QED
  BY <1>1, <1>8, <1>9

LEMMA WorkerOnce ==
  ASSUME TInv, OnePlace, Inspect \/ Answered \/ Rejected \/ HandleEnd \/ Timeout \/ CallFails
  PROVE  OnePlace'
<1>1. /\ inbox \in Seq(Inbound) /\ outbox \in Seq(Outbound) /\ UNCHANGED <<replied, sent>>
      /\ pc # "failed"
  BY DEF TInv, TypeOK, Inspect, InspectKey, InspectHistory, InspectCodex, InspectClaude, Answered, Rejected,
     HandleEnd, Timeout, CallFails, Waiting, hostVars
<1> SUFFICES ASSUME NEW r \in Requests
             PROVE  /\ Held(inbox', AskedOf(r)) = Held(inbox, AskedOf(r))
                    /\ Held(outbox', RepliesOf(r)) = Held(outbox, RepliesOf(r))
  BY <1>1, SameKnown
<1>2. Held(inbox', AskedOf(r)) = Held(inbox, AskedOf(r))
  <2>1. CASE Answered \/ Rejected \/ HandleEnd \/ (CallFails /\ pc = "bar")
    <3>1. inbox # <<>> /\ inbox' = Tail(inbox) /\ Head(inbox) \notin AskedOf(r)
      BY <2>1 DEF Answered, Rejected, HandleEnd, CallFails, Answer, Rejection, End, AskedOf
    <3>2. inbox' \in Seq(Inbound)
      BY <1>1, <3>1
    <3>3. Held(inbox', AskedOf(r)) \in Nat
      BY <3>2, HeldType
    <3> QED
      BY <1>1, <3>1, <3>3, HeldTail
  <2>2. CASE ~(Answered \/ Rejected \/ HandleEnd \/ (CallFails /\ pc = "bar"))
    BY <2>2 DEF Inspect, InspectKey, InspectHistory, InspectCodex, InspectClaude, Timeout, CallFails
  <2> QED
    BY <2>1, <2>2
<1>3. Held(outbox', RepliesOf(r)) = Held(outbox, RepliesOf(r))
  <2>1. ASSUME NEW x, x.kind # "reply", outbox' = Append(outbox, x)
        PROVE  Held(outbox', RepliesOf(r)) = Held(outbox, RepliesOf(r))
    <3>1. x \notin RepliesOf(r) /\ Held(outbox, RepliesOf(r)) \in Nat
      BY <1>1, <2>1, HeldType DEF RepliesOf
    <3> QED
      BY <1>1, <2>1, <3>1, HeldAppend
  <2>2. outbox' = outbox \/ \E x : x.kind # "reply" /\ outbox' = Append(outbox, x)
    BY DEF Inspect, InspectKey, InspectHistory, InspectCodex, InspectClaude, Answered, Rejected, HandleEnd,
       Timeout, CallFails, BarCall, PaneCall
  <2> QED
    BY <2>1, <2>2
<1> QED
  BY <1>2, <1>3

LEMMA AskOnce ==
  ASSUME TInv, OnePlace, NEW m \in Methods, Ask(m)
  PROVE  OnePlace'
<1> DEFINE x == Request(sent + 1, m)
<1>1. /\ sent' = sent + 1 /\ inbox' = Append(inbox, x) /\ sent \in 0..MaxRequests
      /\ sent + 1 \in Requests /\ UNCHANGED <<outbox, replied>> /\ inbox \in Seq(Inbound)
      /\ pc # "failed"
  BY WorkerAssumption DEF Ask, TInv, TypeOK, Requests, Ended
<1> SUFFICES ASSUME NEW r \in Requests
             PROVE  Known(r)' = IF r <= sent + 1 THEN 1 ELSE 0
  BY <1>1 DEF OnePlace
<1>2. x \in AskedOf(r) <=> r = sent + 1
  BY <1>1 DEF Request, AskedOf, Inbound
<1>3. Held(inbox', AskedOf(r)) = Held(inbox, AskedOf(r)) + (IF r = sent + 1 THEN 1 ELSE 0)
  BY <1>1, <1>2, HeldAppend
<1>4. Known(r) = IF r <= sent THEN 1 ELSE 0
  BY <1>1 DEF OnePlace
<1> QED
  BY <1>1, <1>3, <1>4, KnownParts DEF Known, TInv, Requests

LEMMA HostOnce ==
  ASSUME TInv, OnePlace,
         Serve \/ Reject \/ Close \/ (\E m \in Methods : Notify(m)) \/ Change \/ UNCHANGED vars
  PROVE  OnePlace'
<1>1. inbox \in Seq(Inbound) /\ outbox \in Seq(Outbound) /\ pc' = pc
  BY DEF TInv, TypeOK, Serve, Reject, Close, Notify, Change, StoreKey, CreateFile, CreateTables,
         RecordLesson, Becomes, workerVars, vars
<1>2. ASSUME NEW r \in Requests, NEW x, x \notin AskedOf(r), inbox' = Append(inbox, x)
      PROVE  Held(inbox', AskedOf(r)) = Held(inbox, AskedOf(r))
  BY <1>1, <1>2, HeldAppend, HeldType
<1>3. ASSUME NEW r \in Requests, outbox # <<>>, outbox' = Tail(outbox)
      PROVE  Held(outbox, RepliesOf(r)) = Held(outbox', RepliesOf(r))
               + (IF Head(outbox).kind = "reply" /\ Head(outbox).id = r THEN 1 ELSE 0)
  <2>1. Head(outbox) \in Outbound
    BY <1>1, <1>3
  <2>2. Head(outbox) \in RepliesOf(r) <=> Head(outbox).kind = "reply" /\ Head(outbox).id = r
    BY <2>1 DEF RepliesOf
  <2> QED
    BY <1>1, <1>3, <2>2, HeldTail
<1>4. ASSUME NEW r \in Requests
      PROVE  Held(outbox', RepliesOf(r)) \in Nat /\ Held(outbox, RepliesOf(r)) \in Nat
  <2>1. outbox' = outbox \/ (outbox # <<>> /\ outbox' = Tail(outbox))
    BY DEF Serve, Reject, Close, Notify, Change, StoreKey, CreateFile, CreateTables,
           RecordLesson, Becomes, vars
  <2>2. Tail(outbox) \in Seq(Outbound) \/ outbox = <<>>
    BY <1>1
  <2>3. outbox' \in Seq(Outbound)
    BY <1>1, <2>1, <2>2
  <2> QED
    BY <1>1, <2>3, HeldType
<1>5. CASE Serve /\ Head(outbox).kind = "reply"
  <2>1. /\ outbox # <<>> /\ outbox' = Tail(outbox) /\ inbox' = inbox /\ sent' = sent
        /\ replied' = [replied EXCEPT ![Head(outbox).id] = @ + 1]
    BY <1>5 DEF Serve
  <2> SUFFICES ASSUME NEW r \in Requests
               PROVE  Known(r)' = Known(r)
    BY <1>1, <2>1 DEF OnePlace
  <2>2. replied \in [Requests -> Nat] /\ Held(inbox, AskedOf(r)) \in Nat
    BY KnownParts DEF TInv, TypeOK
  <2>3. replied'[r] = replied[r] + (IF Head(outbox).id = r THEN 1 ELSE 0)
    BY <2>1, <2>2
  <2>4. Held(outbox, RepliesOf(r)) = Held(outbox', RepliesOf(r))
               + (IF Head(outbox).id = r THEN 1 ELSE 0)
    BY <1>3, <1>5, <2>1
  <2> QED
    BY <1>4, <2>1, <2>2, <2>3, <2>4 DEF Known
<1>6. CASE (Serve \/ Reject) /\ Head(outbox).kind # "reply"
  <2>1. /\ outbox # <<>> /\ outbox' = Tail(outbox) /\ UNCHANGED <<sent, replied>>
        /\ inbox' = inbox \/ inbox' = Append(inbox, Answer(Head(outbox).call))
                          \/ inbox' = Append(inbox, Rejection(Head(outbox).call))
    BY <1>6 DEF Serve, Reject, hostVars
  <2> SUFFICES ASSUME NEW r \in Requests
               PROVE  /\ Held(inbox', AskedOf(r)) = Held(inbox, AskedOf(r))
                      /\ Held(outbox', RepliesOf(r)) = Held(outbox, RepliesOf(r))
    BY <1>1, <2>1, SameKnown
  <2>2. Answer(Head(outbox).call) \notin AskedOf(r) /\ Rejection(Head(outbox).call) \notin AskedOf(r)
    BY DEF Answer, Rejection, AskedOf
  <2> QED
    BY <1>2, <1>3, <1>4, <1>6, <2>1, <2>2
<1>7. CASE Close \/ (\E m \in Methods : Notify(m)) \/ Change \/ UNCHANGED vars
  <2>1. /\ UNCHANGED <<outbox, sent, replied>>
        /\ \/ inbox' = inbox
           \/ inbox' = Append(inbox, End)
           \/ \E m : inbox = <<>> /\ inbox' = <<Request(None, m)>>
    <3>1. CASE Close
      BY <3>1 DEF Close
    <3>2. ASSUME NEW m \in Methods, Notify(m)
          PROVE  /\ UNCHANGED <<outbox, sent, replied>>
                 /\ inbox = <<>> /\ inbox' = <<Request(None, m)>>
      BY <3>2 DEF Notify, hostVars
    <3>3. CASE Change
      BY <3>3 DEF Change, StoreKey, CreateFile, CreateTables, RecordLesson, Becomes, hostVars
    <3>4. CASE UNCHANGED vars
      BY <3>4 DEF vars, hostVars
    <3> QED
      BY <1>7, <3>1, <3>2, <3>3, <3>4
  <2>2. \A m : inbox = <<>> /\ inbox' = <<Request(None, m)>> => inbox' = Append(inbox, Request(None, m))
    OBVIOUS
  <2> SUFFICES ASSUME NEW r \in Requests
               PROVE  Held(inbox', AskedOf(r)) = Held(inbox, AskedOf(r))
    BY <1>1, <2>1, SameKnown
  <2>3. End \notin AskedOf(r) /\ \A m : Request(None, m) \notin AskedOf(r)
    BY WorkerAssumption DEF End, Request, AskedOf, Requests
  <2> QED
    BY <1>2, <2>1, <2>2, <2>3
<1> QED
  BY <1>5, <1>6, <1>7 DEF Reject

LEMMA OnceStep == TInv /\ OnePlace /\ [Next]_vars => OnePlace'
BY HandleOnce, WorkerOnce, AskOnce, HostOnce, Notifying DEF Next, WorkerStep

LEMMA OnceInit == Init => OnePlace
<1> SUFFICES ASSUME Init, NEW r \in Requests
             PROVE  Known(r) = 0 /\ ~(r <= sent)
  BY DEF OnePlace
<1> QED
  BY HeldEmpty DEF Init, Known, Requests

(* Each request the host has sent is in exactly one place: waiting to be    *)
(* read, answered by one reply on its way, or answered; a worker whose      *)
(* write failed may have lost the reply it was writing, and none before it. *)
THEOREM AnsweredOnce == Spec => []RepliedOnce
<1>1. TInv /\ OnePlace => RepliedOnce
  <2> SUFFICES ASSUME TInv, OnePlace, NEW r \in 1..sent
               PROVE  LET places ==
                            Cardinality({i \in DOMAIN inbox :
                                           inbox[i].kind = "request" /\ inbox[i].id = r})
                              + Cardinality({i \in DOMAIN outbox :
                                               outbox[i].kind = "reply" /\ outbox[i].id = r})
                              + replied[r]
                      IN places = 1 \/ (places = 0 /\ pc = "failed")
    BY DEF RepliedOnce, Count
  <2>1. r \in Requests /\ r <= sent
    <3>1. MaxRequests \in Nat /\ sent \in 0..MaxRequests
      BY WorkerAssumption DEF TInv, TypeOK
    <3> QED
      BY <3>1 DEF Requests
  <2>2. /\ \A i \in DOMAIN inbox : inbox[i] \in Inbound
        /\ \A i \in DOMAIN outbox : outbox[i] \in Outbound
    BY DEF TInv, TypeOK
  <2>3. {i \in DOMAIN inbox : inbox[i].kind = "request" /\ inbox[i].id = r} = Places(inbox, AskedOf(r))
    BY <2>2 DEF Places, AskedOf
  <2>4. {i \in DOMAIN outbox : outbox[i].kind = "reply" /\ outbox[i].id = r} = Places(outbox, RepliesOf(r))
    BY <2>2 DEF Places, RepliesOf
  <2> QED
    BY <2>1, <2>3, <2>4 DEF OnePlace, Known, Held
<1>2. TInv /\ OnePlace /\ [Next]_vars => (TInv /\ OnePlace)'
  BY OnceStep, TypeStep
<1>3. Init => TInv /\ OnePlace
  BY OnceInit, TypeInit
<1> QED
  BY <1>1, <1>2, <1>3, PTL DEF Spec
=============================================================================

---------------------------- MODULE PluginWorker ----------------------------
(***************************************************************************)
(* The Agent of Empires plugin worker (src/aoe_plugin/protocol.rs): one    *)
(* thread that inspects the store and the integrations, publishes what it  *)
(* saw by two host calls and answers the host's requests, also those that  *)
(* arrive while it waits for the answer to a call of its own.  The host    *)
(* and its two pipes are external; so are the processes that store the     *)
(* key, create the database and install integrations while the worker      *)
(* looks at them one after the other.                                      *)
(***************************************************************************)
EXTENDS Health, FiniteSets

CONSTANTS
  MaxRequests,    \* bound: requests of the host, numbered from 1
  Notified,       \* methods the host also invokes by notifications
  MaxCalls,       \* bound: calls the worker makes before the last of them
  InitialWorlds,  \* states of the machine the worker may start on
  MaxChanges,     \* bound: what other processes change meanwhile
  MaxCapsules     \* bound: lessons they record

ASSUME WorkerAssumption ==
  /\ None \notin Nat
  /\ MaxRequests \in Nat /\ MaxCalls \in Nat /\ MaxChanges \in Nat /\ MaxCapsules \in Nat

Requests == 1..MaxRequests
Targets == {"codex", "claude"}
Setups == [method : {"setup"}, target : Targets]
Plain(method) == [method |-> method, target |-> None]
Methods == {Plain("status"), Plain("refresh"), Plain("unknown")} \cup Setups

ASSUME NotifiedAssumption == Notified \subseteq Methods

(* A machine: its key, its history database, and each target's hook and    *)
(* skill.  What the worker has seen of it has the same form.               *)
Parts == [hook : HookStates \cup {"error"}, skill : SkillChecks]
Machine == [key : Keys, db : Databases, targets : [Targets -> Parts]]

ASSUME MachineAssumption == InitialWorlds \subseteq Machine

(* The snapshot made of what was seen.                                     *)
SnapshotOf(s) ==
  [health |-> Report(s.key, s.db, <<>>),
   integrations |-> [t \in Targets |-> Integration(s.targets[t])]]

(* Inbound: a request, a notification (no id), an answer, a rejection, end. *)
Request(r, m) == [kind |-> "request", id |-> r, method |-> m.method, target |-> m.target]
Answer(n) == [kind |-> "answer", call |-> n]
Rejection(n) == [kind |-> "rejection", call |-> n]
End == [kind |-> "end"]

(* Outbound: ui.state.set of one slot, or the reply to a request.           *)
BarCall(n, bar) == [kind |-> "bar", call |-> n, payload |-> bar]
PaneCall(n, pane) == [kind |-> "pane", call |-> n, payload |-> pane]
Reply(r) == [kind |-> "reply", id |-> r]

VARIABLES
  inbox,        \* host to worker
  outbox,       \* worker to host
  world,        \* what inspect() looks at
  changes,      \* how often others have changed it
  moments,      \* history: the true health at the moments of the last inspection
  pc,           \* where the worker is
  nextId,       \* calls it has made
  seen,         \* what its inspection has seen: the snapshot it publishes
  refreshDue,   \* its refresh_due flag
  lastSetup,    \* its last_setup notice: none or one
  sent,         \* number of requests the host has sent
  replied,      \* replies the host has received: request -> number
  shown,        \* what the host displays in the two slots
  closed        \* the host has closed its pipe

worldVars == <<world, changes, moments>>
workerVars == <<pc, nextId, seen, refreshDue, lastSetup>>
hostVars == <<sent, replied, shown, closed>>
vars == <<inbox, outbox, worldVars, workerVars, hostVars>>

Inspecting == pc \in {"key", "history", "codex", "claude"}
Waiting == pc \in {"bar", "pane"}
Ended == pc \in {"stopped", "failed"}

Inbound ==
  {Request(r, m) : r \in Requests \cup {None}, m \in Methods}
    \cup [kind : {"answer", "rejection"}, call : Nat] \cup {End}
Outbound ==
  [kind : {"reply"}, id : Requests]
    \cup [kind : {"bar"}, call : Nat, payload : Bars]
    \cup [kind : {"pane"}, call : Nat, payload : Panes(Targets)]
Notices == [target : Targets, outcome : {"installed", "current", "failed"}]

TypeOK ==
  /\ inbox \in Seq(Inbound) /\ outbox \in Seq(Outbound)
  /\ world \in Machine /\ changes \in 0..MaxChanges
  /\ moments \subseteq Overalls
  /\ pc \in {"key", "history", "codex", "claude", "bar", "pane", "idle", "stopped", "failed"}
  /\ nextId \in Nat
  /\ seen \in [key : Keys \cup {None}, db : Databases \cup {None},
               targets : [Targets -> Parts \cup {None}]]
  /\ refreshDue \in BOOLEAN /\ closed \in BOOLEAN
  /\ lastSetup \in Notices \cup {None}
  /\ sent \in 0..MaxRequests
  /\ replied \in [Requests -> Nat]
  /\ shown \in [bar : Bars \cup {None}, pane : Panes(Targets) \cup {None}]

(* What a machine's health is: it can record and recall, nothing has been   *)
(* set up, or something is in the way.                                     *)
TrueHealth(w) ==
  CASE w.key = "present" /\ w.db.file = "sound" -> "ready"
    [] w.key = "absent" /\ w.db.file = "missing" -> "not_configured"
    [] OTHER -> "degraded"

Init ==
  /\ inbox = <<>> /\ outbox = <<>>
  /\ world \in InitialWorlds /\ changes = 0
  /\ moments = {TrueHealth(world)}
  /\ pc = "key" /\ nextId = 0
  /\ seen = [key |-> None, db |-> None, targets |-> [t \in Targets |-> None]]
  /\ refreshDue = FALSE /\ lastSetup = None
  /\ sent = 0 /\ replied = [r \in Requests |-> 0]
  /\ shown = [bar |-> None, pane |-> None]
  /\ closed = FALSE

-----------------------------------------------------------------------------
(* The host; it sends nothing to a worker whose process has ended.         *)

Ask(m) ==
  /\ ~closed /\ ~Ended /\ sent < MaxRequests
  /\ sent' = sent + 1
  /\ inbox' = Append(inbox, Request(sent', m))
  /\ UNCHANGED <<outbox, worldVars, workerVars, replied, shown, closed>>

(* A notification: no id, no reply.  A host may go on polling the status.   *)
Notify(m) ==
  /\ ~closed /\ ~Ended /\ inbox = <<>>
  /\ inbox' = <<Request(None, m)>>
  /\ UNCHANGED <<outbox, worldVars, workerVars, hostVars>>

Poll == Notify(Plain("status"))

(* The host reads one message; a call is displayed and answered, or refused.*)
Serve ==
  LET m == Head(outbox) IN
    /\ outbox # <<>>
    /\ outbox' = Tail(outbox)
    /\ \/ /\ m.kind = "reply"
          /\ replied' = [replied EXCEPT ![m.id] = @ + 1]
          /\ UNCHANGED <<inbox, shown>>
       \/ /\ m.kind \in {"bar", "pane"}
          /\ shown' = [shown EXCEPT ![m.kind] = m.payload]
          /\ inbox' = IF closed THEN inbox ELSE Append(inbox, Answer(m.call))
          /\ UNCHANGED replied
    /\ UNCHANGED <<worldVars, workerVars, sent, closed>>

Reject ==
  /\ outbox # <<>> /\ Head(outbox).kind # "reply" /\ ~closed
  /\ outbox' = Tail(outbox)
  /\ inbox' = Append(inbox, Rejection(Head(outbox).call))
  /\ UNCHANGED <<worldVars, workerVars, hostVars>>

Close ==
  /\ ~closed /\ ~Ended
  /\ closed' = TRUE
  /\ inbox' = Append(inbox, End)
  /\ UNCHANGED <<outbox, worldVars, workerVars, sent, replied, shown>>

-----------------------------------------------------------------------------
(* Other processes.  A first run stores the key, creates the database file  *)
(* and then its tables (record_hook, EncryptedStore::open); agents record   *)
(* lessons.  What installers do beside a setup is the matter of module      *)
(* Setup.                                                                  *)

Becomes(w) ==
  /\ changes < MaxChanges
  /\ world' = w
  /\ changes' = changes + 1
  /\ moments' = IF Inspecting THEN moments \cup {TrueHealth(w)} ELSE moments
  /\ UNCHANGED <<inbox, outbox, workerVars, hostVars>>

StoreKey == world.key = "absent" /\ Becomes([world EXCEPT !.key = "present"])

CreateFile ==
  /\ world.key = "present" /\ world.db.file = "missing"
  /\ Becomes([world EXCEPT !.db.file = "bare"])

CreateTables ==
  /\ world.key = "present" /\ world.db.file = "bare"
  /\ Becomes([world EXCEPT !.db.file = "sound"])

RecordLesson ==
  /\ world.key = "present" /\ world.db.file = "sound"
  /\ world.db.capsules # None /\ world.db.capsules < MaxCapsules
  /\ Becomes([world EXCEPT !.db.capsules = @ + 1])

Change == StoreKey \/ CreateFile \/ CreateTables \/ RecordLesson

-----------------------------------------------------------------------------
(* The worker: inspect, one probe after the other.                         *)

InspectKey ==
  /\ pc = "key"
  /\ seen' = [seen EXCEPT !.key = world.key]
  /\ pc' = "history"
  /\ UNCHANGED <<inbox, outbox, worldVars, nextId, refreshDue, lastSetup, hostVars>>

(* Faulty variant: a database seen once is not looked at again.            *)
InspectHistoryOnce ==
  /\ pc = "history"
  /\ seen' = [seen EXCEPT !.db = IF @ = None THEN world.db ELSE @]
  /\ pc' = "codex"
  /\ UNCHANGED <<inbox, outbox, worldVars, nextId, refreshDue, lastSetup, hostVars>>

InspectHistory ==
  /\ pc = "history"
  /\ seen' = [seen EXCEPT !.db = world.db]
  /\ pc' = "codex"
  /\ UNCHANGED <<inbox, outbox, worldVars, nextId, refreshDue, lastSetup, hostVars>>

(* inspect_target, the hook and the skill of one agent in one step; after   *)
(* the second, the first of the two calls of publish_health.               *)
InspectCodex ==
  /\ pc = "codex"
  /\ seen' = [seen EXCEPT !.targets["codex"] = world.targets["codex"]]
  /\ pc' = "claude"
  /\ UNCHANGED <<inbox, outbox, worldVars, nextId, refreshDue, lastSetup, hostVars>>

InspectClaude ==
  /\ pc = "claude"
  /\ seen' = [seen EXCEPT !.targets["claude"] = world.targets["claude"]]
  /\ outbox' = Append(outbox, BarCall(nextId, StatusBar(SnapshotOf(seen').health)))
  /\ nextId' = nextId + 1
  /\ pc' = "bar"
  /\ UNCHANGED <<inbox, worldVars, refreshDue, lastSetup, hostVars>>

Inspect == InspectKey \/ InspectHistory \/ InspectCodex \/ InspectClaude

-----------------------------------------------------------------------------
(* The worker: requests.                                                   *)

(* Faulty variant: an unknown method is not replied to.                    *)
RepliesToKnown(m) ==
  IF m.id = None \/ m.method = "unknown" THEN <<>> ELSE <<Reply(m.id)>>

(* handle_inbound: the replies it sends, and what becomes of its flags.     *)
RepliesTo(m) == IF m.id = None THEN <<>> ELSE <<Reply(m.id)>>

(* Faulty variant: a setup request does not ask for a refresh.              *)
AsksRefreshNoSetup(m) == m.method = "refresh"

AsksRefresh(m) == m.method \in {"refresh", "setup"}

(* run_setup: both previews pass or nothing is done; then the skill and the *)
(* hook are installed, unless a write fails in between.                    *)
SetupResults(w, t) ==
  LET at == w.targets[t]
      blocked == at.hook \notin {"installed", "not_installed"} \/ at.skill = "error"
      result(v, outcome) == [world |-> v, outcome |-> outcome]
      complete == [w EXCEPT !.targets[t] = [hook |-> "installed", skill |-> "already_current"]]
  IN {result(w, "failed"), result([w EXCEPT !.targets[t].skill =
                                     IF blocked THEN @ ELSE "already_current"], "failed")}
     \cup IF blocked THEN {}
          ELSE {result(complete, IF complete = w THEN "current" ELSE "installed")}

(* What handling m does to the worker's notice and to the machine.          *)
Obey(m) ==
  IF m.method = "setup"
    THEN \E res \in SetupResults(world, m.target) :
           /\ world' = res.world
           /\ lastSetup' = [target |-> m.target, outcome |-> res.outcome]
    ELSE UNCHANGED <<world, lastSetup>>

(* The answer to the call it waits for: the second call, or done.  Back in  *)
(* serve, the flag is looked at only after another message.                 *)
Answered ==
  /\ Waiting /\ inbox # <<>>
  /\ Head(inbox) = Answer(nextId - 1)
  /\ inbox' = Tail(inbox)
  /\ \/ /\ pc = "bar"
        /\ outbox' = Append(outbox, PaneCall(nextId, HomePane(SnapshotOf(seen), lastSetup)))
        /\ nextId' = nextId + 1
        /\ pc' = "pane"
     \/ /\ pc = "pane"
        /\ pc' = "idle"
        /\ UNCHANGED <<outbox, nextId>>
  /\ UNCHANGED <<worldVars, seen, refreshDue, lastSetup, hostVars>>

Rejected ==
  /\ Waiting /\ inbox # <<>>
  /\ Head(inbox) = Rejection(nextId - 1)
  /\ inbox' = Tail(inbox)
  /\ pc' = "failed"
  /\ UNCHANGED <<outbox, worldVars, nextId, seen, refreshDue, lastSetup, hostVars>>

(* A request that arrives while a call is outstanding.                      *)
HandleWaiting ==
  LET m == Head(inbox) IN
    /\ Waiting /\ inbox # <<>> /\ m.kind = "request"
    /\ inbox' = Tail(inbox)
    /\ outbox' = outbox \o RepliesTo(m)
    /\ Obey(m)
    /\ refreshDue' = (refreshDue \/ AsksRefresh(m))
    /\ UNCHANGED <<pc, changes, moments, nextId, seen, hostVars>>

(* Faulty variants: the flag left by the last publication is not looked at; *)
(* the last snapshot is published again.                                   *)
HandleIdleForgetting ==
  LET m == Head(inbox) IN
    /\ pc = "idle" /\ inbox # <<>> /\ m.kind = "request"
    /\ inbox' = Tail(inbox)
    /\ outbox' = outbox \o RepliesTo(m)
    /\ Obey(m)
    /\ refreshDue' = FALSE
    /\ IF AsksRefresh(m)
         THEN pc' = "key" /\ moments' = {TrueHealth(world')}
         ELSE UNCHANGED <<pc, moments>>
    /\ UNCHANGED <<changes, nextId, seen, hostVars>>
HandleIdleRepublishing ==
  LET m == Head(inbox)
      due == refreshDue \/ AsksRefresh(m)
      bar == BarCall(nextId, StatusBar(SnapshotOf(seen).health)) IN
    /\ pc = "idle" /\ inbox # <<>> /\ m.kind = "request"
    /\ inbox' = Tail(inbox)
    /\ outbox' = outbox \o RepliesTo(m) \o (IF due THEN <<bar>> ELSE <<>>)
    /\ Obey(m)
    /\ refreshDue' = FALSE
    /\ IF due THEN pc' = "bar" /\ nextId' = nextId + 1 ELSE UNCHANGED <<pc, nextId>>
    /\ UNCHANGED <<changes, moments, seen, hostVars>>

(* A request in the serve loop, and the inspection for the refresh that is  *)
(* due after it.                                                           *)
HandleIdle ==
  LET m == Head(inbox) IN
    /\ pc = "idle" /\ inbox # <<>> /\ m.kind = "request"
    /\ inbox' = Tail(inbox)
    /\ outbox' = outbox \o RepliesTo(m)
    /\ Obey(m)
    /\ refreshDue' = FALSE
    /\ IF refreshDue \/ AsksRefresh(m)
         THEN pc' = "key" /\ moments' = {TrueHealth(world')}
         ELSE UNCHANGED <<pc, moments>>
    /\ UNCHANGED <<changes, nextId, seen, hostVars>>

HandleEnd ==
  /\ Waiting \/ pc = "idle"
  /\ inbox # <<>> /\ Head(inbox) = End
  /\ pc' = "stopped"
  /\ inbox' = Tail(inbox)
  /\ UNCHANGED <<outbox, worldVars, nextId, seen, refreshDue, lastSetup, hostVars>>

(* recv_timeout: nothing came for HOST_RPC_TIMEOUT.                         *)
Timeout ==
  /\ Waiting /\ inbox = <<>>
  /\ pc' = "failed"
  /\ UNCHANGED <<inbox, outbox, worldVars, nextId, seen, refreshDue, lastSetup, hostVars>>

(* Worker::send fails: a reply that is not written, or not all of it; the   *)
(* request has been obeyed.                                                *)
ReplyFails ==
  LET m == Head(inbox) IN
    /\ Waiting \/ pc = "idle"
    /\ inbox # <<>> /\ m.kind = "request" /\ m.id # None
    /\ inbox' = Tail(inbox)
    /\ outbox' \in {outbox, outbox \o RepliesTo(m)}
    /\ Obey(m)
    /\ pc' = "failed"
    /\ UNCHANGED <<changes, moments, nextId, seen, refreshDue, hostVars>>

(* Or one of the two calls, and with it what was seen.                      *)
CallFails ==
  /\ \/ pc = "claude" /\ UNCHANGED inbox
     \/ /\ pc = "bar" /\ inbox # <<>> /\ Head(inbox) = Answer(nextId - 1)
        /\ inbox' = Tail(inbox)
  /\ pc' = "failed" /\ nextId' = nextId + 1
  /\ UNCHANGED <<outbox, worldVars, seen, refreshDue, lastSetup, hostVars>>

WorkerStep ==
  Inspect \/ Answered \/ Rejected \/ HandleWaiting \/ HandleIdle \/ HandleEnd

Next ==
  \/ WorkerStep \/ Timeout \/ ReplyFails \/ CallFails
  \/ Serve \/ Reject \/ Close \/ Change
  \/ Poll \/ (\E m \in Notified : nextId < MaxCalls /\ Notify(m))
  \/ \E m \in Methods : Ask(m)

Spec == Init /\ [][Next]_vars

(* The worker's thread runs and the host reads its pipe; nobody has to ask  *)
(* or to close anything.                                                    *)
FairSpec == Spec /\ WF_vars(WorkerStep) /\ WF_vars(Serve)

(* A host that also keeps polling the status.                               *)
PolledSpec == FairSpec /\ WF_vars(Poll)

-----------------------------------------------------------------------------
Count(seq, Test(_)) == Cardinality({i \in DOMAIN seq : Test(seq[i])})

(* Each request is in exactly one place: still to be read, or answered by   *)
(* one reply on its way or received; requests handled in the middle of a    *)
(* publication included (handle_inbound is called from two loops).  Only a  *)
(* worker that failed may have lost the reply it was writing.               *)
RepliedOnce ==
  \A r \in 1..sent :
    LET asked(m) == m.kind = "request" /\ m.id = r
        reply(m) == m.kind = "reply" /\ m.id = r
        places == Count(inbox, asked) + Count(outbox, reply) + replied[r]
    IN places = 1 \/ (places = 0 /\ pc = "failed")

(* An idle worker that owes no refresh has its last setup notice and one    *)
(* snapshot in both slots: a setup or a refresh handled while publishing    *)
(* leaves a refresh due.                                                    *)
CalmMeansShown ==
  pc = "idle" /\ ~refreshDue =>
    /\ shown.bar = StatusBar(SnapshotOf(seen).health)
    /\ shown.pane = HomePane(SnapshotOf(seen), lastSetup)

(* aoe-plugin.toml promises health: although the key and the database are   *)
(* probed one after the other while a first run creates them, the overall   *)
(* health that is published was the machine's at some moment of the         *)
(* inspection.                                                             *)
ShownWasTrue ==
  Waiting \/ pc = "idle" => SnapshotOf(seen).health.status \in moments

(* view.rs setup_notice says an agent is connected after a successful       *)
(* setup; the row of that agent beside the notice must agree, although a    *)
(* setup may be handled between the inspection and the pane that shows its  *)
(* notice.  The pane in between is followed by the refresh that is due.     *)
NoticeConfirmed ==
  pc = "idle" /\ ~refreshDue /\ lastSetup # None /\ lastSetup.outcome # "failed" =>
    shown.pane.rows[lastSetup.target] = "connected"

(* aoe-plugin.toml: the refresh command refreshes the health shown by the   *)
(* host: a refresh accepted in the middle of a publication starts another   *)
(* one after it, unless the worker ends.  It takes a host that sends        *)
(* something: serve looks at the flag only after a message.                 *)
RefreshPublished == refreshDue /\ pc = "idle" ~> pc = "bar" \/ Ended

(* Every request is eventually answered, one that arrives in the middle of  *)
(* a publication too, unless the worker ends.                               *)
EveryRequestAnswered == \A r \in Requests : r <= sent ~> replied[r] = 1 \/ Ended

=============================================================================

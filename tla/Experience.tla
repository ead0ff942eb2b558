----------------------------- MODULE Experience -----------------------------
(***************************************************************************)
(* ExperienceService over the table of capsules: processes that record,    *)
(* confirm, challenge, retire and supersede capsules, each in a project of *)
(* its own or in the same, kept for that project or shared with the others.*)
(* Every operation reads capsules, computes in memory and writes whole     *)
(* capsules back, with no transaction and no version check around it, so   *)
(* two processes may work from the same reading.                           *)
(*                                                                         *)
(* A project's successive identities are its generations: forgetting it    *)
(* erases the capsules recorded from it in any scope, puts a tombstone on  *)
(* the generation and the next resolution creates another (modules         *)
(* EncryptedStore and Recording).                                          *)
(***************************************************************************)
EXTENDS Capsule

CONSTANTS
  CapsuleIds,
  Agents,       \* processes that run one experience subcommand each
  Home,         \* the project each runs in
  Workspace,    \* the directory above a project
  ConfirmEnv,   \* the environment confirm gives its entries
  Caveats,      \* whether a recorded lesson has a caveat: a subset of BOOLEAN
  Legacy,       \* capsules left by an early v4 release: challenged, no bookkeeping
  MaxTime,      \* bound: clock ticks
  MaxForgets    \* bound: how often each project is forgotten

ASSUME ExperienceAssumption ==
  /\ ConfirmEnv \in Envs /\ Caveats \subseteq BOOLEAN /\ Legacy \subseteq CapsuleIds
  /\ Home \in [Agents -> Projects] /\ Workspace \in [Projects -> Projects]
  /\ MaxTime \in Nat /\ MaxForgets \in Nat
  /\ None \notin Capsules

VARIABLES
  rows,         \* table experiences: capsule id -> capsule, or None
  issued,       \* the capsule ids generated so far
  generation,   \* which identity each project's path maps to
  clock,        \* Utc::now()
  call,         \* the request each agent executes, or None
  todo,         \* the writes it has still to execute
  answer        \* what the request that ended in the last step reported

tableVars == <<rows, issued>>
agentVars == <<call, todo>>
vars == <<tableVars, generation, clock, agentVars, answer>>

-----------------------------------------------------------------------------
RecordCalls ==
  [op : {"record"}, at : 0..MaxTime, scope : Scopes, bucket : Identities \cup {None},
   origin : Identities, id : CapsuleIds,
   topic : Topics, lesson : Lessons, caveat : Caveats, outcome : Outcomes, env : Envs]
ConfirmCalls ==
  [op : {"confirm"}, at : 0..MaxTime, id : CapsuleIds, outcome : Outcomes,
   receipt : Receipts \cup {None}]
TransitionCalls ==
  [op : {"transition"}, origin : Identities, id : CapsuleIds,
   to : {"challenged", "obsolete"}]
SupersedeCalls ==
  [op : {"supersede"}, origin : Identities, id : CapsuleIds, by : CapsuleIds,
   old : Capsules \cup {None}]

Calls == RecordCalls \cup ConfirmCalls \cup TransitionCalls \cup SupersedeCalls

Answers == {"none", "recorded", "confirmed", "duplicate", "challenged", "done", "error"}

(* One replace_experience or append_experience: what is answered when it is *)
(* the last, and whether its refusal fails the request.                     *)
Writes ==
  [kind : {"replace", "append"}, id : CapsuleIds, body : Capsules,
   result : Answers, checked : BOOLEAN]

TypeOK ==
  /\ rows \in [CapsuleIds -> Capsules \cup {None}]
  /\ issued \in SUBSET CapsuleIds
  /\ generation \in [Projects -> Nat]
  /\ clock \in 0..MaxTime
  /\ call \in [Agents -> Calls \cup {None}]
  /\ todo \in [Agents -> Seq(Writes)]
  /\ answer \in Answers

LegacyCapsules ==
  {[topic |-> t, lesson |-> l, caveat |-> FALSE, lifecycle |-> "challenged",
    challenge |-> None,
    evidence |-> <<[at |-> 0, outcome |-> "success", env |-> ConfirmEnv, receipt |-> None]>>,
    created |-> 0, last |-> 0, scope |-> s,
    bucket |-> [project |-> p, generation |-> 0],
    origin |-> [project |-> p, generation |-> 0]] :
     t \in Topics, l \in Lessons, s \in Scopes \cap {"project"}, p \in Projects}

Init ==
  /\ rows \in [CapsuleIds -> LegacyCapsules \cup {None}]
  /\ {c \in CapsuleIds : rows[c] # None} = Legacy
  /\ issued = Legacy
  /\ generation = [p \in Projects |-> 0] /\ clock = 0
  /\ call = [a \in Agents |-> None]
  /\ todo = [a \in Agents |-> <<>>]
  /\ answer = "none"

-----------------------------------------------------------------------------
(* Requests arrive; record and confirm take the time, and those that name a *)
(* project resolve it, before they read any capsule.                        *)

(* The identity a path resolves to, and the one that limits a scope.        *)
Identity(p) == [project |-> p, generation |-> generation[p]]
Current(a) == Identity(Home[a])
Bucket(a, scope) ==
  CASE scope = "project" -> Current(a)
    [] scope = "workspace" -> Identity(Workspace[Home[a]])
    [] OTHER -> None

Start(a, request) ==
  /\ call[a] = None
  /\ call' = [call EXCEPT ![a] = request]
  /\ answer' = "none"
  /\ UNCHANGED <<rows, generation, clock, todo>>

StartRecord(a) ==
  \E c \in CapsuleIds \ issued, t \in Topics, l \in Lessons, v \in Caveats,
     o \in Outcomes, env \in Envs, s \in Scopes :
    /\ issued' = issued \cup {c}
    /\ Start(a, [op |-> "record", at |-> clock, scope |-> s, bucket |-> Bucket(a, s),
                 origin |-> Current(a), id |-> c, topic |-> t, lesson |-> l, caveat |-> v, outcome |-> o, env |-> env])

(* A selector comes from a listing or a recall, so its capsule has existed. *)
StartConfirm(a) ==
  /\ \E c \in issued, o \in Outcomes, r \in Receipts \cup {None} :
       Start(a, [op |-> "confirm", at |-> clock, id |-> c, outcome |-> o, receipt |-> r])
  /\ UNCHANGED issued

StartTransition(a) ==
  /\ \E c \in issued, to \in {"challenged", "obsolete"} :
       Start(a, [op |-> "transition", origin |-> Current(a), id |-> c, to |-> to])
  /\ UNCHANGED issued

StartSupersede(a) ==
  /\ \E c, d \in issued :
       c # d /\ Start(a, [op |-> "supersede", origin |-> Current(a), id |-> c, by |-> d,
                          old |-> None])
  /\ UNCHANGED issued

-----------------------------------------------------------------------------
(* The end of a request. *)
Finish(a, result) ==
  /\ call' = [call EXCEPT ![a] = None]
  /\ todo' = [todo EXCEPT ![a] = <<>>]
  /\ answer' = result

Plan(a, writes) ==
  /\ todo' = [todo EXCEPT ![a] = writes]
  /\ answer' = "none"
  /\ UNCHANGED call

(* An agent that has its request and has not read yet.                      *)
Reading(a, op) == call[a] # None /\ call[a].op = op /\ todo[a] = <<>>

Replace(c, body, result) ==
  [kind |-> "replace", id |-> c, body |-> body, result |-> result,
   checked |-> TRUE]
Insert(c, body, result) == [Replace(c, body, result) EXCEPT !.kind = "append"]
Unchecked(w) == [w EXCEPT !.checked = FALSE]

ReadOnly == UNCHANGED <<tableVars, generation, clock>>

EntryOf(k) == [at |-> k.at, outcome |-> k.outcome, env |-> k.env, receipt |-> None]

Candidate(k) ==
  [topic |-> k.topic, lesson |-> k.lesson, caveat |-> k.caveat, lifecycle |-> "active",
   challenge |-> None, evidence |-> <<EntryOf(k)>>, created |-> k.at, last |-> k.at,
   scope |-> k.scope, bucket |-> k.bucket, origin |-> k.origin]

(* Faulty variants: retired capsules are matched; only the same wording is. *)
EquivalentsEvenRetired(k) ==
  {c \in CapsuleIds : /\ rows[c] # None
                      /\ SameBucket(rows[c], k) /\ rows[c].topic = k.topic}
EquivalentsVerbatim(k) ==
  {c \in CapsuleIds : /\ rows[c] # None
                      /\ SameBucket(rows[c], k) /\ rows[c].topic = k.topic
                      /\ rows[c].lesson = k.lesson /\ ~Retired(rows[c])}

(* find_equivalent's candidates: any of them may be the most similar.       *)
Equivalents(k) ==
  {c \in CapsuleIds : /\ rows[c] # None
                      /\ SameBucket(rows[c], k) /\ rows[c].topic = k.topic
                      /\ ~Retired(rows[c])}

Contradicts(k, c) == rows[c].lesson # k.lesson /\ rows[c].lifecycle = "active"

(* same_conservative_cohort: a report of the same day that says the same.   *)
AlreadyReported(capsule, e) ==
  \E i \in DOMAIN capsule.evidence :
    /\ capsule.evidence[i].receipt = None
    /\ capsule.evidence[i].outcome = e.outcome
    /\ SameEvidenceCohort(capsule.evidence[i], e)

(* The caveat of an equivalent report fills a gap, never replaces one.      *)
WithCaveat(capsule, k) == [capsule EXCEPT !.caveat = @ \/ k.caveat]

(* Faulty variant: only the new capsule is challenged.                      *)
ChallengeNew(k, c) == <<Unchecked(Insert(k.id, Challenge(Candidate(k), k.at), "challenged"))>>

(* A contradiction: both capsules, in two writes nobody checks.             *)
ChallengeBoth(k, c) ==
  <<Unchecked(Replace(c, Challenge(rows[c], k.at), "challenged")),
    Unchecked(Insert(k.id, Challenge(Candidate(k), k.at), "challenged"))>>

(* record_at, the reading and what it decides. *)
ReadRecord(a) ==
  LET k == call[a] IN
    /\ Reading(a, "record")
    /\ \/ /\ Equivalents(k) = {}
          /\ Plan(a, <<Insert(k.id, Candidate(k), "recorded")>>)
       \/ \E c \in Equivalents(k) :
            /\ Contradicts(k, c)
            /\ Plan(a, ChallengeBoth(k, c))
       \/ \E c \in Equivalents(k) :
            /\ ~Contradicts(k, c) /\ AlreadyReported(rows[c], EntryOf(k))
            /\ IF k.caveat /\ ~rows[c].caveat
                 THEN Plan(a, <<Replace(c, WithCaveat(rows[c], k), "confirmed")>>)
                 ELSE Finish(a, "duplicate")
       \/ \E c \in Equivalents(k) :
            /\ ~Contradicts(k, c) /\ ~AlreadyReported(rows[c], EntryOf(k))
            /\ LET body == WithCaveat(ConfirmWithRecovery(rows[c], EntryOf(k)), k)
               IN Plan(a, <<Replace(c, body, "confirmed")>>)
    /\ ReadOnly

ReceiptSeen(capsule, r) ==
  r # None /\ \E i \in DOMAIN capsule.evidence : capsule.evidence[i].receipt = r

InUse(c) == rows[c] # None /\ ~Retired(rows[c])

(* confirm_at, the reading: by id prefix, in any project. *)
ReadConfirm(a) ==
  LET k == call[a]
      e == [at |-> k.at, outcome |-> k.outcome, env |-> ConfirmEnv, receipt |-> k.receipt] IN
    /\ Reading(a, "confirm")
    /\ \/ ~InUse(k.id) /\ Finish(a, "error")
       \/ /\ InUse(k.id)
          /\ IF ReceiptSeen(rows[k.id], k.receipt)
               THEN Finish(a, "confirmed")
               ELSE LET body == ConfirmWithRecovery(rows[k.id], e)
                    IN Plan(a, <<Replace(k.id, body, "confirmed")>>)
    /\ ReadOnly

(* select: only capsules recorded from the project, in any scope.           *)
Selected(k, c) == rows[c] # None /\ rows[c].origin = k.origin

ReadTransition(a) ==
  LET k == call[a] IN
    /\ Reading(a, "transition")
    /\ IF Selected(k, k.id)
         THEN LET body == SetLifecycle(rows[k.id], k.to, clock)
              IN Plan(a, <<Unchecked(Replace(k.id, body, "done"))>>)
         ELSE Finish(a, "error")
    /\ ReadOnly

(* supersede selects the capsule to be replaced, and keeps what it read,    *)
ReadReplaced(a) ==
  LET k == call[a] IN
    /\ Reading(a, "supersede") /\ k.old = None
    /\ \/ /\ Selected(k, k.id)
          /\ call' = [call EXCEPT ![a].old = rows[k.id]]
          /\ answer' = "none" /\ UNCHANGED todo
       \/ ~Selected(k, k.id) /\ Finish(a, "error")
    /\ ReadOnly

(* then the one that replaces it: the old one is written first, then the    *)
(* new one, neither write checked.                                          *)
ReadSupersede(a) ==
  LET k == call[a] IN
    /\ Reading(a, "supersede") /\ k.old # None
    /\ IF Selected(k, k.by)
         THEN LET old == SetLifecycle(k.old, "superseded", clock)
                  new == SetLifecycle(rows[k.by], "active", clock)
              IN Plan(a, <<Unchecked(Replace(k.id, old, "done")),
                           Unchecked(Replace(k.by, new, "done"))>>)
         ELSE Finish(a, "error")
    /\ ReadOnly

-----------------------------------------------------------------------------
Live(identity) == identity.generation = generation[identity.project]

(* Faulty variant: replace does not look for a tombstone and upserts.       *)
AcceptedUpsert(w) == w.kind = "append" => rows[w.id] = None

(* append_experience and replace_experience: refused under a tombstone, an  *)
(* insertion also on an existing id, an update also on a missing row.       *)
Accepted(w) ==
  /\ Live(w.body.origin)
  /\ (w.kind = "append") = (rows[w.id] = None)

(* What fails the request: an invalid capsule, or a checked refusal.        *)
Failed(w) == ~Valid(w.body) \/ (w.checked /\ ~Accepted(w))

(* One write.  Sealing validates the capsule first.                         *)
Write(a) ==
  LET w == Head(todo[a]) IN
    /\ todo[a] # <<>>
    /\ IF Valid(w.body) /\ Accepted(w)
         THEN rows' = [rows EXCEPT ![w.id] = w.body]
         ELSE UNCHANGED rows
    /\ \/ Failed(w) /\ Finish(a, "error")
       \/ ~Failed(w) /\ Len(todo[a]) = 1 /\ Finish(a, w.result)
       \/ ~Failed(w) /\ Len(todo[a]) > 1 /\ Plan(a, Tail(todo[a]))
    /\ UNCHANGED <<issued, generation, clock>>

Crash(a) ==
  /\ call[a] # None
  /\ Finish(a, "error")
  /\ ReadOnly

(* erase_project: whatever was recorded from it, also what it shared.       *)
Forget(p) ==
  /\ generation[p] < MaxForgets
  /\ generation' = [generation EXCEPT ![p] = @ + 1]
  /\ rows' = [c \in CapsuleIds |->
                IF rows[c] # None /\ rows[c].origin = Identity(p) THEN None ELSE rows[c]]
  /\ answer' = "none"
  /\ UNCHANGED <<issued, clock, agentVars>>

Tick ==
  /\ clock < MaxTime
  /\ clock' = clock + 1
  /\ answer' = "none"
  /\ UNCHANGED <<tableVars, generation, agentVars>>

Next ==
  \/ \E a \in Agents :
       \/ StartRecord(a) \/ StartConfirm(a) \/ StartTransition(a) \/ StartSupersede(a)
       \/ ReadRecord(a) \/ ReadConfirm(a) \/ ReadTransition(a)
       \/ ReadReplaced(a) \/ ReadSupersede(a)
       \/ Write(a) \/ Crash(a)
  \/ \E p \in Projects : Forget(p)
  \/ Tick

Spec == Init /\ [][Next]_vars

=============================================================================

------------------------------ MODULE Capsule -------------------------------
(***************************************************************************)
(* The operations on one experience capsule (src/core/experience.rs): its  *)
(* bounded evidence log, its lifecycle and the bookkeeping by which a      *)
(* challenged capsule earns its way back.  Pure operators, no state.       *)
(*                                                                         *)
(* Abstracted: the texts (a topic stands for task, procedure, tags and     *)
(* situation, a lesson for its wording; equal means similar enough) and of *)
(* an entry's provenance what is the same in all reports of one machine:   *)
(* kept are its time, outcome, environment and receipt.                    *)
(***************************************************************************)
EXTENDS Naturals, Sequences, FiniteSets

CONSTANTS
  Topics, Lessons,
  Projects,     \* paths of projects, and of the directories above them
  Scopes,       \* scopes lessons are recorded in
  Envs,         \* environment fingerprints
  Receipts,     \* confirmation receipts a recall may issue
  MaxEvidence,  \* MAX_EVIDENCE_ENTRIES (64)
  Required,     \* CHALLENGE_RESOLUTION_EVIDENCE (3)
  DayLength,    \* clock ticks in one UTC day
  None

ASSUME CapsuleAssumption ==
  /\ MaxEvidence \in Nat \ {0}
  /\ Required \in Nat \ {0}
  /\ DayLength \in Nat \ {0}
  /\ None \notin Receipts
  /\ Scopes \subseteq {"project", "workspace", "ecosystem", "machine", "global"}

Outcomes == {"success", "failure"}
Lifecycles == {"active", "challenged", "superseded", "obsolete"}

Entries == [at : Nat, outcome : Outcomes, env : Envs, receipt : Receipts \cup {None}]

(* A path's successive identities: forgetting it ends one.                 *)
Identities == [project : Projects, generation : Nat]

Challenges == [challenged_at : Nat, supporting : Outcomes, recovery : Nat]

ASSUME NoChallenge == None \notin Challenges

Capsules ==
  [topic : Topics, lesson : Lessons, caveat : BOOLEAN,
   lifecycle : Lifecycles, challenge : Challenges \cup {None},
   evidence : Seq(Entries), created : Nat, last : Nat,
   scope : Scopes, bucket : Identities \cup {None}, origin : Identities]

-----------------------------------------------------------------------------
Day(t) == t \div DayLength

Retired(c) == c.lifecycle \in {"superseded", "obsolete"}

(* ScopeKey: a scope, with the identity of the project or the directory     *)
(* above it that it is limited to (an ecosystem is part of the topic).     *)
SameBucket(c, d) == c.scope = d.scope /\ c.bucket = d.bucket

(* validate, as far as the fields kept here go. *)
Valid(c) ==
  /\ Len(c.evidence) \in 1..MaxEvidence
  /\ c.last >= c.created
  /\ c.challenge # None => c.lifecycle = "challenged"

(* same_evidence_cohort: reports of one day and environment count once.     *)
SameEvidenceCohort(x, y) == Day(x.at) = Day(y.at) /\ x.env = y.env

Successes(c) == {i \in DOMAIN c.evidence : c.evidence[i].outcome = "success"}
Failures(c) == DOMAIN c.evidence \ Successes(c)

DominantOutcome(c) ==
  IF Cardinality(Successes(c)) >= Cardinality(Failures(c)) THEN "success" ELSE "failure"

Challenge(c, at) ==
  [c EXCEPT !.lifecycle = "challenged",
            !.challenge = [challenged_at |-> at, supporting |-> DominantOutcome(c),
                           recovery |-> 0]]

(* Faulty variant: the recovery bookkeeping outlives the challenge.         *)
SetLifecycleKeeping(c, lifecycle, at) ==
  IF lifecycle = "challenged" THEN Challenge(c, at)
  ELSE [c EXCEPT !.lifecycle = lifecycle]

SetLifecycle(c, lifecycle, at) ==
  IF lifecycle = "challenged" THEN Challenge(c, at)
  ELSE [c EXCEPT !.lifecycle = lifecycle, !.challenge = None]

(* Faulty variant: the bound is one too small.                              *)
ConfirmDroppingEarly(c, e) ==
  LET log == Append(c.evidence, e) IN
    [c EXCEPT !.evidence = IF Len(log) >= MaxEvidence THEN Tail(log) ELSE log,
              !.last = IF e.at > @ THEN e.at ELSE @]

(* confirm: the oldest entry goes when the bound is hit.                    *)
Confirm(c, e) ==
  LET log == Append(c.evidence, e) IN
    [c EXCEPT !.evidence = IF Len(log) > MaxEvidence THEN Tail(log) ELSE log,
              !.last = IF e.at > @ THEN e.at ELSE @]

-----------------------------------------------------------------------------
(* Evidence that speaks for a challenged capsule.                           *)
Supports(state, e) == e.at > state.challenged_at /\ e.outcome = state.supporting

SupportingOf(c, state) == {i \in DOMAIN c.evidence : Supports(state, c.evidence[i])}

(* Faulty variant: what was reported before the challenge counts as well.   *)
IndependentEarly(c, state, e) ==
  /\ e.outcome = state.supporting
  /\ \A i \in SupportingOf(c, state) : ~SameEvidenceCohort(c.evidence[i], e)

(* A supporting entry of a cohort not seen since the challenge.             *)
Independent(c, state, e) ==
  /\ Supports(state, e)
  /\ \A i \in SupportingOf(c, state) : ~SameEvidenceCohort(c.evidence[i], e)

(* Faulty variant: opposing evidence only fails to count.                   *)
AdvanceWithoutReset(c, state, e) ==
  IF Independent(c, state, e) THEN [state EXCEPT !.recovery = @ + 1] ELSE state

Advance(c, state, e) ==
  CASE Independent(c, state, e) -> [state EXCEPT !.recovery = @ + 1]
    [] ~Supports(state, e) -> [state EXCEPT !.challenged_at = e.at, !.recovery = 0]
    [] OTHER -> state

(* confirm_with_recovery; a challenged capsule without bookkeeping is an    *)
(* early v4 payload.                                                        *)
ConfirmWithRecovery(c, e) ==
  IF c.lifecycle # "challenged" THEN Confirm(c, e)
  ELSE LET base == IF c.challenge = None THEN Challenge(c, c.last) ELSE c
           state == Advance(base, base.challenge, e)
           done == Confirm(base, e) IN
         IF state.recovery >= Required
           THEN [done EXCEPT !.lifecycle = "active", !.challenge = None]
           ELSE [done EXCEPT !.challenge = state]

(* The distinct cohorts that support c since its challenge.                 *)
SupportingCohorts(c, state) ==
  {<<Day(c.evidence[i].at), c.evidence[i].env>> : i \in SupportingOf(c, state)}

=============================================================================

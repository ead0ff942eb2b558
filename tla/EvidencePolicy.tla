--------------------------- MODULE EvidencePolicy ---------------------------
(***************************************************************************)
(* How much the evidence behind one recalled lesson counts: the scope,     *)
(* lifecycle and age weights of RankingPolicy, the quality of a claim, the *)
(* collapse of correlated observations into cohorts, and what the total    *)
(* allows the answer to say.                                               *)
(*                                                                         *)
(* Weights are thousandths, rounded down; outcomes are weighed per cohort. *)
(* Every stored entry comes from EvidenceEntry::agent_reported, so its     *)
(* source, agent, attestation and explicit cohort are the same.            *)
(***************************************************************************)
EXTENDS Naturals, Sequences, FiniteSetsExt

(* In twentieths. *)
ScopeWeight ==
  [project |-> 20, workspace |-> 17, ecosystem |-> 13, machine |-> 11, global |-> 7]
HalfLifeDays ==
  [project |-> 120, workspace |-> 120, ecosystem |-> 180, machine |-> 60, global |-> 180]
LifecycleWeight == [active |-> 20, challenged |-> 7, superseded |-> 0, obsolete |-> 0]

(* exp(-ln 2 * age / half-life), by a quadratic between half-lives that is  *)
(* within three thousandths of it.  A time to come counts as now.           *)
AgeWeight(scope, age) ==
  LET half == HalfLifeDays[scope]
      past == IF age < 0 THEN 0 ELSE age
      rest == past % half
      part == 1000 - (672 * rest) \div half + (172 * rest * rest) \div (half * half)
      halved[n \in 0..(past \div half)] == IF n = 0 THEN part ELSE halved[n - 1] \div 2
  IN halved[past \div half]

(* A self-reported claim, and how it was verified.                          *)
QualityWeight == [none |-> 750, targeted |-> 787, full |-> 825, native |-> 825]

(* One observation's base weight: scope, age, applicability (in 1/800),     *)
(* lifecycle and version (in twentieths).                                   *)
BaseWeight(scope, age, applicability, lifecycle, version) ==
  LET prior == (ScopeWeight[scope] * applicability) \div 16
      aged == (prior * AgeWeight(scope, age)) \div 1000
  IN (aged * LifecycleWeight[lifecycle] * version) \div 400

-----------------------------------------------------------------------------
(* An observation is [weight, success, day, env]; env is everything of the  *)
(* fingerprint that an inferred cohort compares.                            *)
Observation(base, entry) ==
  [weight |-> (base * QualityWeight[entry.verification]) \div 1000,
   success |-> entry.outcome = "success",
   day |-> entry.day,
   env |-> <<entry.tool, entry.major, entry.host>>]

(* Faulty variant: every observation is a cohort of its own.                *)
CohortOfOne(observations, i) == <<i>>

Cohort(observations, i) == <<observations[i].day, observations[i].env>>

Cohorts(observations) == {Cohort(observations, i) : i \in DOMAIN observations}

MembersOf(observations, cohort) ==
  {i \in DOMAIN observations : Cohort(observations, i) = cohort}

(* A cohort counts for no more than its strongest observation.              *)
Cap(observations, cohort) ==
  Max({observations[i].weight : i \in MembersOf(observations, cohort)})

WeightOf(observations, members) ==
  MapThenSumSet(LAMBDA i : observations[i].weight, members)

(* The share of its capped weight that a cohort's successes (or failures)   *)
(* have.                                                                    *)
Weighted(observations, cohort, success) ==
  LET members == MembersOf(observations, cohort)
      told == {i \in members : observations[i].success = success}
      sum == WeightOf(observations, members)
  IN IF sum = 0 THEN 0
     ELSE (WeightOf(observations, told) * Cap(observations, cohort)) \div sum

Successes(observations) ==
  MapThenSumSet(LAMBDA c : Weighted(observations, c, TRUE), Cohorts(observations))
Failures(observations) ==
  MapThenSumSet(LAMBDA c : Weighted(observations, c, FALSE), Cohorts(observations))

Mass(observations) ==
  MapThenSumSet(LAMBDA c : Cap(observations, c), Cohorts(observations))
Squares(observations) ==
  MapThenSumSet(LAMBDA c : Cap(observations, c) * Cap(observations, c), Cohorts(observations))

(* effective_evidence >= tenths/10: both the absolute mass and the Kish     *)
(* size (mass * mass / squares) reach it.                                   *)
EffectiveAtLeast(observations, tenths) ==
  /\ Mass(observations) >= 100 * tenths
  /\ 10 * Mass(observations) * Mass(observations) >= tenths * Squares(observations)

Strength(observations) ==
  CASE ~EffectiveAtLeast(observations, 25) -> "limited"
    [] EffectiveAtLeast(observations, 60) -> "strong"
    [] OTHER -> "moderate"

(* The mean of Beta(1 + successes, 1 + failures), in thousandths.           *)
Mean(observations) ==
  LET s == Successes(observations)
      f == Failures(observations)
  IN (1000 * (1000 + s)) \div (2000 + s + f)

(* How strongly a lesson may count as guided: twice its lean, a quarter     *)
(* when mixed, nothing without a label.  The ends of the 80 % interval lie  *)
(* on the two sides of the mean; how far is left open, so a lean may stay   *)
(* unlabelled.                                                              *)
GuidanceStrengths(observations) ==
  LET mean == Mean(observations) IN
    CASE Strength(observations) = "limited" -> {0}
      [] Strength(observations) # "limited" /\ mean >= 650 -> {0, 2 * mean - 1000}
      [] Strength(observations) # "limited" /\ mean <= 350 -> {0, 1000 - 2 * mean}
      [] OTHER -> {250}

=============================================================================

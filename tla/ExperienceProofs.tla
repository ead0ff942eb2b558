-------------------------- MODULE ExperienceProofs --------------------------
(***************************************************************************)
(* What the capsule table keeps however many processes work on it from     *)
(* stale readings, for every evidence bound, recovery threshold and clock. *)
(*                                                                         *)
(* The inductive argument: a capsule is sound if it is well typed, passes  *)
(* validate and holds no receipt twice.  Every operation of module Capsule *)
(* makes sound capsules of sound capsules, so whatever an agent computes   *)
(* from a reading, however old, is sound; and a write only reaches the     *)
(* table under an identity that is still alive.  A second argument holds    *)
(* while one process works at a time: whatever it has planned still fits    *)
(* the table it will find (Fresh).                                         *)
(***************************************************************************)
EXTENDS ExperienceProps, FiniteSetTheorems, SequenceTheorems, TLAPS

DistinctReceipts(c) ==
  \A i, j \in DOMAIN c.evidence :
    /\ c.evidence[i].receipt = c.evidence[j].receipt
    /\ c.evidence[i].receipt # None
    => i = j

(* The support at the end of the log that nothing interrupts, and the       *)
(* recovery counter beside it.                                             *)
Cohort(e) == <<Day(e.at), e.env>>

CohortsAt(c, I) == {Cohort(c.evidence[i]) : i \in I}

CountedOf(c, state) ==
  {i \in DOMAIN c.evidence :
     \A j \in DOMAIN c.evidence : j >= i => Supports(state, c.evidence[j])}

Backed(c) ==
  c.challenge # None =>
    /\ c.challenge.recovery < Required
    /\ Complete(c, c.challenge) =>
         c.challenge.recovery <= Cardinality(CohortsAt(c, CountedOf(c, c.challenge)))

Fit(c) == c \in Capsules /\ Valid(c) /\ DistinctReceipts(c)

Sound(c) == Fit(c) /\ Backed(c)

Pending == \A a \in Agents : \A i \in DOMAIN todo[a] : Sound(todo[a][i].body)

(* supersede keeps the first of its two readings with the request.          *)
Holding(a) == call[a] # None /\ call[a].op = "supersede" /\ call[a].old # None
Held == \A a \in Agents : Holding(a) => Sound(call[a].old)

IInv ==
  /\ TypeOK
  /\ \A c \in Stored : Sound(rows[c])
  /\ Pending
  /\ Held
  /\ ForgottenNeverReturn

-----------------------------------------------------------------------------
(* The operations on one capsule. *)

(* One report appended to a bounded log: a full one loses its first entry.  *)
Lost(c) == IF Len(c.evidence) = MaxEvidence THEN 1 ELSE 0

LEMMA ConfirmLog ==
  ASSUME NEW c \in Capsules, NEW e \in Entries, Len(c.evidence) \in 1..MaxEvidence
  PROVE  /\ Confirm(c, e) \in Capsules
         /\ Len(Confirm(c, e).evidence) = Len(c.evidence) - Lost(c) + 1
         /\ Confirm(c, e).evidence[Len(c.evidence) - Lost(c) + 1] = e
         /\ \A i \in 1..(Len(c.evidence) - Lost(c)) :
              Confirm(c, e).evidence[i] = c.evidence[i + Lost(c)]
<1> DEFINE n == Len(c.evidence)
           log == Append(c.evidence, e)
           kept == IF Len(log) > MaxEvidence THEN Tail(log) ELSE log
           later == IF e.at > c.last THEN e.at ELSE c.last
<1>1. /\ c.evidence \in Seq(Entries) /\ n \in Nat \ {0} /\ MaxEvidence \in Nat /\ n <= MaxEvidence
      /\ log \in Seq(Entries) /\ Len(log) = n + 1 /\ log[n + 1] = e
      /\ \A i \in 1..n : log[i] = c.evidence[i]
  BY CapsuleAssumption DEF Capsules
<1> DEFINE Good(q, k) == /\ q \in Seq(Entries) /\ Len(q) = n - k + 1 /\ q[n - k + 1] = e
                         /\ \A i \in 1..(n - k) : q[i] = c.evidence[i + k]
<1>2. Good(kept, Lost(c))
  <2>1. CASE n = MaxEvidence
    <3>1. kept = Tail(log) /\ Lost(c) = 1
      BY <1>1, <2>1 DEF Lost
    <3>2. /\ Tail(log) \in Seq(Entries) /\ Len(Tail(log)) = n
          /\ \A i \in 1..n : Tail(log)[i] = log[i + 1]
      BY <1>1
    <3>3. /\ n \in 1..n /\ n - 1 + 1 = n
          /\ \A i \in 1..(n - 1) : i \in 1..n /\ i + 1 \in 1..n
      BY <1>1
    <3> HIDE DEF kept, log
    <3>4. Good(kept, 1)
      BY <1>1, <3>1, <3>2, <3>3
    <3> QED
      BY <3>1, <3>4
  <2>2. CASE n # MaxEvidence
    <3>1. kept = log /\ Lost(c) = 0
      BY <1>1, <2>2 DEF Lost
    <3>2. n - 0 = n /\ \A i \in 1..n : i + 0 = i
      BY <1>1
    <3> HIDE DEF kept, log
    <3>3. Good(kept, 0)
      BY <1>1, <3>1, <3>2
    <3> QED
      BY <3>1, <3>3
  <2> QED
    BY <2>1, <2>2
<1>3. later \in Nat
  BY DEF Capsules, Entries
<1>4. Confirm(c, e) = [c EXCEPT !.evidence = kept, !.last = later]
  BY DEF Confirm
<1> HIDE DEF kept, later
<1>5. Confirm(c, e) \in Capsules /\ Confirm(c, e).evidence = kept
  BY <1>2, <1>3, <1>4 DEF Capsules
<1> QED
  BY <1>2, <1>5

LEMMA CohortsFinite ==
  ASSUME NEW c \in Capsules, NEW I \in SUBSET DOMAIN c.evidence
  PROVE  IsFiniteSet(CohortsAt(c, I)) /\ Cardinality(CohortsAt(c, I)) \in Nat
<1> DEFINE T == CohortsAt(c, I)
           f == [i \in I |-> Cohort(c.evidence[i])]
<1>1. IsFiniteSet(1..Len(c.evidence)) /\ DOMAIN c.evidence = 1..Len(c.evidence)
  BY FS_Interval DEF Capsules
<1>2. IsFiniteSet(I)
  BY <1>1, FS_Subset
<1>3. f \in Surjection(I, T)
  <2>1. T = {f[i] : i \in I}
    BY DEF CohortsAt
  <2> HIDE DEF T
  <2> QED
    BY <2>1 DEF Surjection
<1> HIDE DEF T, f
<1>4. IsFiniteSet(T)
  BY <1>2, <1>3, FS_Surjection
<1> QED
  BY <1>4, FS_CardinalityType DEF T

LEMMA MoreCohorts ==
  ASSUME NEW c \in Capsules, NEW I \in SUBSET DOMAIN c.evidence, NEW T,
         T \subseteq CohortsAt(c, I)
  PROVE  IsFiniteSet(T) /\ Cardinality(T) <= Cardinality(CohortsAt(c, I))
BY CohortsFinite, FS_Subset

(* A supporting report: what was counted is counted still, with the report, *)
(* if the log was complete, and the log was if it is afterwards.           *)
LEMMA ConfirmCounted ==
  ASSUME NEW c \in Capsules, NEW e \in Entries, NEW state \in Challenges,
         Len(c.evidence) \in 1..MaxEvidence, Supports(state, e)
  PROVE  LET d == Confirm(c, e) IN
         /\ Complete(d, state) => Complete(c, state)
         /\ Complete(c, state) =>
              CohortsAt(c, CountedOf(c, state)) \cup {Cohort(e)} \subseteq CohortsAt(d, CountedOf(d, state))
<1> DEFINE d == Confirm(c, e)
           n == Len(c.evidence)
           k == Lost(c)
           m == n - k + 1
<1>1. /\ c.evidence \in Seq(Entries) /\ DOMAIN c.evidence = 1..n /\ n \in Nat \ {0}
      /\ MaxEvidence \in Nat /\ n <= MaxEvidence
      /\ k \in {0, 1} /\ (k = 1 <=> n = MaxEvidence) /\ m \in Nat \ {0}
  BY CapsuleAssumption DEF Capsules, Lost
<1>2. /\ d \in Capsules /\ DOMAIN d.evidence = 1..m /\ Len(d.evidence) = m /\ d.evidence[m] = e
      /\ \A i \in 1..(n - k) : d.evidence[i] = c.evidence[i + k]
  <2>1. /\ d \in Capsules /\ Len(d.evidence) = m /\ d.evidence[m] = e
        /\ \A i \in 1..(n - k) : d.evidence[i] = c.evidence[i + k]
    BY ConfirmLog
  <2>2. d.evidence \in Seq(Entries)
    BY <2>1 DEF Capsules
  <2> HIDE DEF d, m
  <2> QED
    BY <2>1, <2>2
<1>3. \A i \in 1..m : i = m \/ (i \in 1..(n - k) /\ i + k \in 1..n)
  BY <1>1
<1>4. \A i \in 1..n : i > k => i - k \in 1..(n - k) /\ i - k \in 1..m /\ i - k + k = i
  BY <1>1
<1> HIDE DEF d, k, m
<1>5. Complete(d, state) => Complete(c, state)
  <2>1. CASE n < MaxEvidence
    BY <2>1 DEF Complete
  <2>2. CASE n = MaxEvidence
    <3>1. m = MaxEvidence
      BY <1>1, <2>2 DEF m
    <3>2. SUFFICES ASSUME SupportingOf(d, state) # DOMAIN d.evidence
                   PROVE  SupportingOf(c, state) # DOMAIN c.evidence
      BY <1>1, <1>2, <3>1 DEF Complete
    <3>3. PICK i \in 1..m : ~Supports(state, d.evidence[i])
      BY <1>2, <3>2 DEF SupportingOf
    <3>4. i + k \in 1..n /\ ~Supports(state, c.evidence[i + k])
      BY <1>2, <1>3, <3>3
    <3> QED
      BY <1>1, <3>4 DEF SupportingOf
  <2> QED
    BY <1>1, <2>1, <2>2
<1>6. ASSUME Complete(c, state)
      PROVE  CohortsAt(c, CountedOf(c, state)) \cup {Cohort(e)} \subseteq CohortsAt(d, CountedOf(d, state))
  <2>1. m \in CountedOf(d, state)
    BY <1>1, <1>2 DEF CountedOf
  <2>2. ASSUME NEW i \in CountedOf(c, state)
        PROVE  i - k \in CountedOf(d, state) /\ d.evidence[i - k] = c.evidence[i]
    <3>1. i \in 1..n /\ \A j \in 1..n : j >= i => Supports(state, c.evidence[j])
      BY <1>1, <2>2 DEF CountedOf
    <3>2. i > k
      <4>1. CASE k = 0
        BY <3>1, <4>1
      <4>2. CASE k = 1
        <5>1. PICK j \in 1..n : ~Supports(state, c.evidence[j])
          BY <1>1, <1>6, <4>2 DEF Complete, SupportingOf
        <5> QED
          BY <3>1, <4>2, <5>1
      <4> QED
        BY <1>1, <4>1, <4>2
    <3>3. i - k \in 1..m /\ d.evidence[i - k] = c.evidence[i]
      BY <1>2, <1>4, <3>1, <3>2
    <3>4. ASSUME NEW j \in 1..m, j >= i - k
          PROVE  Supports(state, d.evidence[j])
      <4>1. CASE j = m
        BY <1>2, <4>1
      <4>2. CASE j # m
        <5>1. j \in 1..(n - k) /\ j + k \in 1..n /\ j + k >= i
          BY <1>1, <1>3, <3>1, <3>4, <4>2
        <5> QED
          BY <1>2, <3>1, <5>1
      <4> QED
        BY <4>1, <4>2
    <3> QED
      BY <1>2, <3>3, <3>4 DEF CountedOf
  <2> QED
    BY <1>2, <2>1, <2>2 DEF CohortsAt
<1> QED
  BY <1>5, <1>6 DEF d

LEMMA AdvanceType ==
  ASSUME NEW c, NEW state \in Challenges, NEW e \in Entries
  PROVE  Advance(c, state, e) \in Challenges
<1>1. CASE Independent(c, state, e)
  <2>1. Supports(state, e)
    BY <1>1 DEF Independent
  <2> QED
    BY <1>1, <2>1 DEF Advance, Challenges
<1>2. CASE ~Independent(c, state, e) /\ ~Supports(state, e)
  BY <1>2 DEF Advance, Challenges, Entries
<1>3. CASE ~Independent(c, state, e) /\ Supports(state, e)
  BY <1>3 DEF Advance
<1> QED
  BY <1>1, <1>2, <1>3

(* The counter advances with the cohorts in the log, and reaches the        *)
(* threshold only with another supporting one.                             *)
LEMMA AdvanceBacked ==
  ASSUME NEW c \in Capsules, NEW state \in Challenges, NEW e \in Entries,
         Len(c.evidence) \in 1..MaxEvidence,
         Complete(c, state) => state.recovery <= Cardinality(CohortsAt(c, CountedOf(c, state)))
  PROVE  LET d == Confirm(c, e)
             new == Advance(c, state, e) IN
         /\ Complete(d, new) => new.recovery <= Cardinality(CohortsAt(d, CountedOf(d, new)))
         /\ new.recovery > state.recovery /\ Complete(c, state) =>
              new.recovery <= Cardinality(CohortsAt(d, CountedOf(d, state)))
<1> DEFINE d == Confirm(c, e)
           new == Advance(c, state, e)
           held == CohortsAt(c, CountedOf(c, state))
           after(st) == CohortsAt(d, CountedOf(d, st))
<1>1. /\ state.recovery \in Nat /\ IsFiniteSet(held) /\ Cardinality(held) \in Nat
      /\ Complete(c, state) => state.recovery <= Cardinality(held)
  BY CohortsFinite DEF Challenges, CountedOf
<1>2. d \in Capsules
  BY ConfirmLog
<1>3. \A st : IsFiniteSet(after(st)) /\ Cardinality(after(st)) \in Nat
  <2> SUFFICES ASSUME NEW st PROVE IsFiniteSet(after(st)) /\ Cardinality(after(st)) \in Nat
    OBVIOUS
  <2>1. CountedOf(d, st) \in SUBSET DOMAIN d.evidence
    BY DEF CountedOf
  <2> HIDE DEF d
  <2> QED
    BY <1>2, <2>1, CohortsFinite
<1>4. Supports(state, e) =>
        /\ Complete(d, state) => Complete(c, state)
        /\ Complete(c, state) => held \cup {Cohort(e)} \subseteq after(state)
  BY ConfirmCounted
<1>5. CASE Independent(c, state, e)
  <2>1. /\ new.recovery = state.recovery + 1 /\ new.challenged_at = state.challenged_at
        /\ new.supporting = state.supporting /\ Supports(state, e)
    BY <1>5 DEF Advance, Challenges, Independent
  <2>2. Cohort(e) \notin held
    BY <1>5 DEF Independent, SupportingOf, CountedOf, CohortsAt, SameEvidenceCohort, Cohort
  <2>3. \A x : Supports(new, x) <=> Supports(state, x)
    BY <2>1 DEF Supports
  <2>4. after(new) = after(state) /\ (Complete(d, new) <=> Complete(d, state))
    BY <2>3 DEF CountedOf, Complete, SupportingOf
  <2> HIDE DEF new, d, held, after
  <2>5. Complete(c, state) => new.recovery <= Cardinality(after(state))
    <3> SUFFICES ASSUME Complete(c, state) PROVE new.recovery <= Cardinality(after(state))
      OBVIOUS
    <3>1. Cardinality(held \cup {Cohort(e)}) = Cardinality(held) + 1
      BY <1>1, <2>2, FS_AddElement
    <3>2. Cardinality(held \cup {Cohort(e)}) <= Cardinality(after(state))
      BY <1>3, <1>4, <2>1, FS_Subset
    <3> QED
      BY <1>1, <1>3, <2>1, <3>1, <3>2
  <2> QED
    BY <1>4, <2>1, <2>4, <2>5 DEF new, d, after
<1>6. CASE ~Independent(c, state, e) /\ ~Supports(state, e)
  <2>1. new.recovery = 0
    BY <1>6 DEF Advance, Challenges
  <2> HIDE DEF new, d, after
  <2>2. new.recovery <= Cardinality(after(new)) /\ ~(new.recovery > state.recovery)
    BY <1>1, <1>3, <2>1
  <2> QED
    BY <2>2 DEF new, d, after
<1>7. CASE ~Independent(c, state, e) /\ Supports(state, e)
  <2>1. new = state
    BY <1>7 DEF Advance
  <2>2. ~(new.recovery > state.recovery)
    BY <1>1, <2>1
  <2> HIDE DEF new, d, held, after
  <2>3. Complete(d, new) => new.recovery <= Cardinality(after(new))
    <3> SUFFICES ASSUME Complete(d, state) PROVE state.recovery <= Cardinality(after(state))
      BY <2>1
    <3>1. Cardinality(held) <= Cardinality(after(state))
      BY <1>3, <1>4, <1>7, FS_Subset
    <3> QED
      BY <1>1, <1>3, <1>4, <1>7, <3>1
  <2> QED
    BY <2>2, <2>3 DEF new, d, after
<1> QED
  BY <1>5, <1>6, <1>7

(* A report whose receipt is not in the log yet, appended and bounded.     *)
LEMMA ConfirmFit ==
  ASSUME NEW c, Fit(c), NEW e \in Entries,
         e.receipt # None => \A i \in DOMAIN c.evidence : c.evidence[i].receipt # e.receipt
  PROVE  Fit(Confirm(c, e)) /\ Confirm(c, e).lifecycle = c.lifecycle
                            /\ Confirm(c, e).challenge = c.challenge
<1> DEFINE log == Append(c.evidence, e)
           kept == IF Len(log) > MaxEvidence THEN Tail(log) ELSE log
<1>1. c \in Capsules /\ c.evidence \in Seq(Entries) /\ Len(c.evidence) \in 1..MaxEvidence
  BY DEF Fit, Capsules, Valid
<1>2. log \in Seq(Entries) /\ Len(log) = Len(c.evidence) + 1
  BY <1>1
<1>3. kept \in Seq(Entries) /\ Len(kept) \in 1..MaxEvidence
  BY <1>1, <1>2, CapsuleAssumption
<1>4. \A i, j \in DOMAIN log :
        log[i].receipt = log[j].receipt /\ log[i].receipt # None => i = j
  BY <1>1, <1>2 DEF Fit, DistinctReceipts
<1>5. \A i, j \in DOMAIN kept :
        kept[i].receipt = kept[j].receipt /\ kept[i].receipt # None => i = j
  <2>1. CASE Len(log) > MaxEvidence
    <3>1. \A i \in DOMAIN kept : i + 1 \in DOMAIN log /\ kept[i] = log[i + 1]
      BY <1>2, <2>1
    <3>2. DOMAIN kept \subseteq Nat
      BY <1>3
    <3> SUFFICES ASSUME NEW i \in DOMAIN kept, NEW j \in DOMAIN kept,
                        kept[i].receipt = kept[j].receipt, kept[i].receipt # None
                 PROVE  i = j
      OBVIOUS
    <3> HIDE DEF kept, log
    <3>3. i + 1 = j + 1
      BY <1>4, <3>1
    <3> QED
      BY <3>2, <3>3
  <2>2. CASE ~(Len(log) > MaxEvidence)
    BY <1>4, <2>2
  <2> QED
    BY <2>1, <2>2
<1> DEFINE d == Confirm(c, e)
<1>6. /\ d.evidence = kept /\ d.lifecycle = c.lifecycle /\ d.challenge = c.challenge
      /\ d.created = c.created /\ d.last \in Nat /\ d.last >= c.last
      /\ d \in Capsules
  <2> DEFINE later == IF e.at > c.last THEN e.at ELSE c.last
  <2>1. later \in Nat /\ later >= c.last
    BY <1>1 DEF Capsules, Entries
  <2>2. d = [c EXCEPT !.evidence = kept, !.last = later]
    BY DEF Confirm
  <2> HIDE DEF d, kept, later
  <2> QED
    BY <1>1, <1>3, <2>1, <2>2 DEF Capsules
<1>7. Valid(d)
  BY <1>1, <1>3, <1>6 DEF Valid, Fit, Capsules
<1>8. DistinctReceipts(d)
  <2>1. d.evidence = kept
    BY <1>6
  <2> HIDE DEF d, kept
  <2> QED
    BY <1>5, <2>1, Zenon DEF DistinctReceipts
<1> QED
  BY <1>6, <1>7, <1>8 DEF Fit

(* A challenge starts with no progress, which needs no backing.            *)
LEMMA ChallengeSound ==
  ASSUME NEW c, Sound(c), NEW at \in Nat
  PROVE  /\ Sound(Challenge(c, at))
         /\ Challenge(c, at).lifecycle = "challenged"
         /\ Challenge(c, at).challenge \in Challenges
         /\ Challenge(c, at).evidence = c.evidence
<1> DEFINE d == Challenge(c, at)
<1>1. DominantOutcome(c) \in Outcomes
  BY DEF DominantOutcome, Outcomes
<1>2. /\ Fit(d) /\ d.lifecycle = "challenged" /\ d.challenge \in Challenges
      /\ d.evidence = c.evidence /\ d.challenge.recovery = 0
  BY <1>1 DEF Sound, Fit, Challenge, Challenges, Capsules, Lifecycles, Valid, DistinctReceipts
<1> HIDE DEF d
<1>3. Cardinality(CohortsAt(d, CountedOf(d, d.challenge))) \in Nat
  BY <1>2, CohortsFinite DEF Fit, CountedOf
<1>4. Backed(d)
  BY <1>2, <1>3, CapsuleAssumption DEF Backed
<1> QED
  BY <1>2, <1>4 DEF Sound, d

LEMMA SetLifecycleSound ==
  ASSUME NEW c, Sound(c), NEW at \in Nat, NEW lifecycle \in Lifecycles
  PROVE  Sound(SetLifecycle(c, lifecycle, at))
<1>1. CASE lifecycle = "challenged"
  BY <1>1, ChallengeSound DEF SetLifecycle
<1>2. CASE lifecycle # "challenged"
  BY <1>2 DEF SetLifecycle, Sound, Fit, Backed, Capsules, Valid, DistinctReceipts
<1> QED
  BY <1>1, <1>2

(* A report on a challenged capsule, or on any other.                      *)
LEMMA RecoverySound ==
  ASSUME NEW c, Sound(c), NEW e \in Entries,
         e.receipt # None => \A i \in DOMAIN c.evidence : c.evidence[i].receipt # e.receipt
  PROVE  Sound(ConfirmWithRecovery(c, e))
<1>1. CASE c.lifecycle # "challenged"
  <2>1. c.challenge = None
    BY <1>1 DEF Sound, Fit, Valid
  <2>2. Fit(Confirm(c, e)) /\ Confirm(c, e).challenge = None
    BY <2>1, ConfirmFit DEF Sound
  <2> QED
    BY <1>1, <2>2 DEF ConfirmWithRecovery, Sound, Backed
<1>2. CASE c.lifecycle = "challenged"
  <2> DEFINE base == IF c.challenge = None THEN Challenge(c, c.last) ELSE c
             state == Advance(base, base.challenge, e)
             done == Confirm(base, e)
             active == [done EXCEPT !.lifecycle = "active", !.challenge = None]
             still == [done EXCEPT !.challenge = state]
  <2>1. c.last \in Nat /\ c.challenge \in Challenges \cup {None}
    BY DEF Sound, Fit, Capsules
  <2>2. /\ Sound(base) /\ base.lifecycle = "challenged"
        /\ base.challenge \in Challenges /\ base.evidence = c.evidence
    BY <1>2, <2>1, ChallengeSound
  <2>3. ConfirmWithRecovery(c, e) = IF state.recovery >= Required THEN active ELSE still
    BY <1>2 DEF ConfirmWithRecovery
  <2> HIDE DEF base
  <2>4. state \in Challenges
    BY <2>2, AdvanceType
  <2>5. Fit(done) /\ done.lifecycle = "challenged"
    BY <2>2, ConfirmFit DEF Sound
  <2>6. Complete(done, state) =>
          state.recovery <= Cardinality(CohortsAt(done, CountedOf(done, state)))
    <3>1. base \in Capsules /\ Len(base.evidence) \in 1..MaxEvidence
      BY <2>2 DEF Sound, Fit, Valid
    <3>2. Complete(base, base.challenge) =>
            base.challenge.recovery <= Cardinality(CohortsAt(base, CountedOf(base, base.challenge)))
      BY <2>2, NoChallenge DEF Sound, Backed
    <3> QED
      BY <2>2, <3>1, <3>2, AdvanceBacked
  <2> HIDE DEF done, state
  <2>7. Sound(active)
    BY <2>5 DEF Sound, Fit, Backed, Capsules, Lifecycles, Valid, DistinctReceipts
  <2>8. ASSUME ~(state.recovery >= Required)
        PROVE  Sound(still)
    <3>1. Fit(still) /\ still.challenge = state /\ still.evidence = done.evidence
      BY <2>4, <2>5 DEF Fit, Capsules, Lifecycles, Valid, DistinctReceipts
    <3>2. state.recovery < Required
      BY <2>4, <2>8, CapsuleAssumption DEF Challenges
    <3>3. /\ CohortsAt(still, CountedOf(still, state)) = CohortsAt(done, CountedOf(done, state))
          /\ Complete(still, state) <=> Complete(done, state)
      BY <3>1 DEF CohortsAt, CountedOf, Complete, SupportingOf
    <3> HIDE DEF still
    <3> QED
      BY <2>6, <3>1, <3>2, <3>3 DEF Sound, Backed
  <2> HIDE DEF active, still
  <2> QED
    BY <2>3, <2>7, <2>8
<1> QED
  BY <1>1, <1>2

LEMMA WithCaveatSound ==
  ASSUME NEW c, Sound(c), NEW k \in RecordCalls
  PROVE  Sound(WithCaveat(c, k))
<1>1. k.caveat \in BOOLEAN /\ c.caveat \in BOOLEAN
  BY ExperienceAssumption DEF RecordCalls, Sound, Fit, Capsules
<1> DEFINE v == c.caveat \/ k.caveat
           d == [c EXCEPT !.caveat = v]
<1>2. v \in BOOLEAN
  BY <1>1
<1>3. WithCaveat(c, k) = d
  BY DEF WithCaveat
<1> HIDE DEF v
<1>4. Fit(d) /\ d.evidence = c.evidence /\ d.challenge = c.challenge
  BY <1>2 DEF Sound, Fit, Capsules, Valid, DistinctReceipts
<1> HIDE DEF d
<1>5. /\ CohortsAt(d, CountedOf(d, d.challenge)) = CohortsAt(c, CountedOf(c, c.challenge))
      /\ Complete(d, d.challenge) <=> Complete(c, c.challenge)
  BY <1>4 DEF CohortsAt, CountedOf, Complete, SupportingOf
<1>6. Backed(d)
  BY <1>4, <1>5 DEF Sound, Backed
<1> QED
  BY <1>3, <1>4, <1>6 DEF Sound

LEMMA EntryType ==
  ASSUME NEW k \in RecordCalls
  PROVE  EntryOf(k) \in Entries /\ EntryOf(k).receipt = None
  BY ExperienceAssumption DEF RecordCalls, EntryOf, Entries

LEMMA CandidateSound ==
  ASSUME NEW k \in RecordCalls
  PROVE  Sound(Candidate(k))
<1> DEFINE log == <<EntryOf(k)>>
<1>1. log \in Seq(Entries) /\ Len(log) = 1 /\ DOMAIN log = {1}
  BY EntryType
<1>2. /\ k.topic \in Topics /\ k.lesson \in Lessons /\ k.caveat \in BOOLEAN
      /\ k.at \in Nat /\ k.scope \in Scopes
      /\ k.origin \in Identities /\ k.bucket \in Identities \cup {None}
  BY ExperienceAssumption DEF RecordCalls
<1>3. Candidate(k) =
        [topic |-> k.topic, lesson |-> k.lesson, caveat |-> k.caveat,
         lifecycle |-> "active", challenge |-> None, evidence |-> log,
         created |-> k.at, last |-> k.at, scope |-> k.scope, bucket |-> k.bucket,
         origin |-> k.origin]
  BY DEF Candidate
<1> HIDE DEF log
<1>4. Candidate(k) \in Capsules
  BY <1>1, <1>2, <1>3 DEF Capsules, Lifecycles
<1>5. Valid(Candidate(k))
  <2>1. /\ Candidate(k).evidence = log /\ Candidate(k).challenge = None
        /\ Candidate(k).last = k.at /\ Candidate(k).created = k.at
    BY <1>3
  <2>2. Len(log) \in 1..MaxEvidence
    BY <1>1, CapsuleAssumption
  <2> QED
    BY <1>2, <2>1, <2>2 DEF Valid
<1>6. DistinctReceipts(Candidate(k))
  BY <1>1, <1>3 DEF DistinctReceipts
<1>7. Backed(Candidate(k))
  BY <1>3 DEF Backed
<1> QED
  BY <1>4, <1>5, <1>6, <1>7 DEF Sound, Fit

-----------------------------------------------------------------------------
(* The steps of a request. *)

LEMMA WriteTypes ==
  ASSUME NEW c \in CapsuleIds, NEW body \in Capsules, NEW result \in Answers
  PROVE  /\ Replace(c, body, result) \in Writes /\ Replace(c, body, result).body = body
         /\ Insert(c, body, result) \in Writes /\ Insert(c, body, result).body = body
         /\ Unchecked(Replace(c, body, result)) \in Writes
         /\ Unchecked(Replace(c, body, result)).body = body
         /\ Unchecked(Insert(c, body, result)) \in Writes
         /\ Unchecked(Insert(c, body, result)).body = body
  BY DEF Replace, Insert, Unchecked, Writes

(* An agent decides on writes of sound capsules.                           *)
LEMMA PlanStep ==
  ASSUME IInv, NEW a \in Agents, NEW writes \in Seq(Writes),
         \A i \in DOMAIN writes : Sound(writes[i].body),
         Plan(a, writes), ReadOnly
  PROVE  IInv'
<1>1. TypeOK'
  BY DEF IInv, TypeOK, Plan, ReadOnly, tableVars, Answers
<1>2. Pending' /\ Held'
  BY DEF IInv, TypeOK, Pending, Plan, Held, Holding
<1>3. (\A c \in Stored : Sound(rows[c]))' /\ ForgottenNeverReturn'
  BY DEF IInv, Stored, ForgottenNeverReturn, Live, ReadOnly, tableVars
<1> QED
  BY <1>1, <1>2, <1>3 DEF IInv

LEMMA PlanOne ==
  ASSUME IInv, NEW a \in Agents, NEW w \in Writes, Sound(w.body),
         Plan(a, <<w>>), ReadOnly
  PROVE  IInv'
<1> DEFINE writes == <<w>>
<1>1. writes \in Seq(Writes) /\ \A i \in DOMAIN writes : writes[i] = w
  OBVIOUS
<1>2. Plan(a, writes)
  OBVIOUS
<1> HIDE DEF writes
<1> QED
  BY <1>1, <1>2, PlanStep

LEMMA PlanTwo ==
  ASSUME IInv, NEW a \in Agents, NEW w \in Writes, NEW x \in Writes,
         Sound(w.body), Sound(x.body), Plan(a, <<w, x>>), ReadOnly
  PROVE  IInv'
<1> DEFINE writes == <<w, x>>
<1>1. writes \in Seq(Writes) /\ \A i \in DOMAIN writes : writes[i] \in {w, x}
  OBVIOUS
<1>2. Plan(a, writes)
  OBVIOUS
<1> HIDE DEF writes
<1> QED
  BY <1>1, <1>2, PlanStep

LEMMA FinishStep ==
  ASSUME IInv, NEW a \in Agents, NEW result \in Answers, Finish(a, result), ReadOnly
  PROVE  IInv'
<1>1. TypeOK'
  BY DEF IInv, TypeOK, Finish, ReadOnly, tableVars
<1>2. Pending' /\ Held'
  BY DEF IInv, TypeOK, Pending, Finish, Held, Holding
<1>3. (\A c \in Stored : Sound(rows[c]))' /\ ForgottenNeverReturn'
  BY DEF IInv, Stored, ForgottenNeverReturn, Live, ReadOnly, tableVars
<1> QED
  BY <1>1, <1>2, <1>3 DEF IInv

LEMMA ReadRecordStep ==
  ASSUME IInv, NEW a \in Agents, ReadRecord(a)
  PROVE  IInv'
<1> DEFINE k == call[a]
<1>1. k \in RecordCalls /\ k.at \in Nat /\ k.id \in CapsuleIds /\ ReadOnly
  <2>1. k \in Calls /\ k.op = "record"
    BY DEF IInv, TypeOK, ReadRecord, Reading
  <2>2. k \in RecordCalls
    BY <2>1 DEF Calls, RecordCalls, ConfirmCalls, TransitionCalls, SupersedeCalls
  <2> QED
    BY <2>2, ExperienceAssumption DEF RecordCalls, ReadRecord
<1>2. \A c \in Equivalents(k) : c \in CapsuleIds /\ Sound(rows[c])
  BY DEF Equivalents, IInv, Stored
<1>3. {"recorded", "challenged", "confirmed", "duplicate"} \subseteq Answers
  BY DEF Answers
<1>4. Sound(Candidate(k)) /\ Candidate(k) \in Capsules
  BY <1>1, CandidateSound DEF Sound, Fit
<1>5. CASE Equivalents(k) = {} /\ Plan(a, <<Insert(k.id, Candidate(k), "recorded")>>)
  BY <1>1, <1>3, <1>4, <1>5, WriteTypes, PlanOne
<1>6. ASSUME NEW c \in Equivalents(k), Plan(a, ChallengeBoth(k, c))
      PROVE  IInv'
  <2> DEFINE old == Challenge(rows[c], k.at)
             new == Challenge(Candidate(k), k.at)
  <2>1. Sound(old) /\ Sound(new) /\ old \in Capsules /\ new \in Capsules
    BY <1>1, <1>2, <1>4, ChallengeSound DEF Sound, Fit
  <2>2. ChallengeBoth(k, c) = <<Unchecked(Replace(c, old, "challenged")),
                                Unchecked(Insert(k.id, new, "challenged"))>>
    BY DEF ChallengeBoth
  <2> HIDE DEF old, new
  <2> QED
    BY <1>1, <1>2, <1>3, <1>6, <2>1, <2>2, WriteTypes, PlanTwo
<1>7. ASSUME NEW c \in Equivalents(k),
             Plan(a, <<Replace(c, WithCaveat(rows[c], k), "confirmed")>>)
      PROVE  IInv'
  <2>1. Sound(WithCaveat(rows[c], k)) /\ WithCaveat(rows[c], k) \in Capsules
    BY <1>1, <1>2, WithCaveatSound DEF Sound, Fit
  <2> QED
    BY <1>1, <1>2, <1>3, <1>7, <2>1, WriteTypes, PlanOne
<1>8. CASE Finish(a, "duplicate")
  BY <1>1, <1>3, <1>8, FinishStep
<1>9. ASSUME NEW c \in Equivalents(k),
             Plan(a, <<Replace(c, WithCaveat(ConfirmWithRecovery(rows[c], EntryOf(k)), k),
                               "confirmed")>>)
      PROVE  IInv'
  <2> DEFINE body == WithCaveat(ConfirmWithRecovery(rows[c], EntryOf(k)), k)
  <2>1. Sound(ConfirmWithRecovery(rows[c], EntryOf(k)))
    BY <1>1, <1>2, EntryType, RecoverySound
  <2>2. Sound(body) /\ body \in Capsules
    BY <1>1, <2>1, WithCaveatSound DEF Sound, Fit
  <2> HIDE DEF body
  <2>3. Plan(a, <<Replace(c, body, "confirmed")>>)
    BY <1>9 DEF body
  <2> QED
    BY <1>1, <1>2, <1>3, <2>2, <2>3, WriteTypes, PlanOne
<1> QED
  BY <1>5, <1>6, <1>7, <1>8, <1>9 DEF ReadRecord

LEMMA ReadConfirmStep ==
  ASSUME IInv, NEW a \in Agents, ReadConfirm(a)
  PROVE  IInv'
<1> DEFINE k == call[a]
           e == [at |-> k.at, outcome |-> k.outcome, env |-> ConfirmEnv, receipt |-> k.receipt]
           body == ConfirmWithRecovery(rows[k.id], e)
<1>1. k \in ConfirmCalls /\ ReadOnly
  <2>1. k \in Calls /\ k.op = "confirm"
    BY DEF IInv, TypeOK, ReadConfirm, Reading
  <2> QED
    BY <2>1 DEF Calls, RecordCalls, ConfirmCalls, TransitionCalls, SupersedeCalls, ReadConfirm
<1>2. e \in Entries /\ e.receipt = k.receipt /\ k.id \in CapsuleIds
  BY <1>1, ExperienceAssumption DEF ConfirmCalls, Entries
<1>3. "error" \in Answers /\ "confirmed" \in Answers
  BY DEF Answers
<1>4. CASE Finish(a, "error") \/ Finish(a, "confirmed")
  BY <1>1, <1>3, <1>4, FinishStep
<1>5. CASE /\ InUse(k.id) /\ ~ReceiptSeen(rows[k.id], k.receipt)
           /\ Plan(a, <<Replace(k.id, body, "confirmed")>>)
  <2>1. Sound(rows[k.id])
    BY <1>2, <1>5 DEF InUse, IInv, Stored
  <2>2. e.receipt # None =>
          \A i \in DOMAIN rows[k.id].evidence : rows[k.id].evidence[i].receipt # e.receipt
    BY <1>2, <1>5 DEF ReceiptSeen
  <2>3. Sound(body) /\ body \in Capsules
    <3> HIDE DEF e
    <3> QED
      BY <1>2, <2>1, <2>2, RecoverySound DEF Sound, Fit
  <2> HIDE DEF body
  <2> QED
    BY <1>1, <1>2, <1>3, <1>5, <2>3, WriteTypes, PlanOne
<1> QED
  BY <1>4, <1>5 DEF ReadConfirm

LEMMA ReadTransitionStep ==
  ASSUME IInv, NEW a \in Agents, ReadTransition(a)
  PROVE  IInv'
<1> DEFINE k == call[a]
           body == SetLifecycle(rows[k.id], k.to, clock)
<1>1. k \in TransitionCalls /\ ReadOnly
  <2>1. k \in Calls /\ k.op = "transition"
    BY DEF IInv, TypeOK, ReadTransition, Reading
  <2> QED
    BY <2>1 DEF Calls, RecordCalls, ConfirmCalls, TransitionCalls, SupersedeCalls, ReadTransition
<1>2. k.id \in CapsuleIds /\ k.to \in Lifecycles /\ clock \in Nat
  BY <1>1, ExperienceAssumption DEF TransitionCalls, Lifecycles, IInv, TypeOK
<1>3. "error" \in Answers /\ "done" \in Answers
  BY DEF Answers
<1>4. CASE Finish(a, "error")
  BY <1>1, <1>3, <1>4, FinishStep
<1>5. CASE Selected(k, k.id) /\ Plan(a, <<Unchecked(Replace(k.id, body, "done"))>>)
  <2>1. Sound(body) /\ body \in Capsules
    BY <1>2, <1>5, SetLifecycleSound DEF Selected, IInv, Stored, Sound, Fit
  <2> HIDE DEF body
  <2> QED
    BY <1>1, <1>2, <1>3, <1>5, <2>1, WriteTypes, PlanOne
<1> QED
  BY <1>4, <1>5 DEF ReadTransition

LEMMA ReplacedCall ==
  ASSUME IInv, NEW a \in Agents, call[a] # None, call[a].op = "supersede"
  PROVE  /\ call[a] \in SupersedeCalls
         /\ call[a].id \in CapsuleIds /\ call[a].by \in CapsuleIds /\ clock \in Nat
<1>1. call[a] \in SupersedeCalls
  <2>1. call[a] \in Calls
    BY DEF IInv, TypeOK
  <2> QED
    BY <2>1 DEF Calls, RecordCalls, ConfirmCalls, TransitionCalls, SupersedeCalls
<1> QED
  BY <1>1, ExperienceAssumption DEF SupersedeCalls, IInv, TypeOK

LEMMA ReadReplacedStep ==
  ASSUME IInv, NEW a \in Agents, ReadReplaced(a)
  PROVE  IInv'
<1> DEFINE k == call[a]
<1>1. k # None /\ k.op = "supersede" /\ ReadOnly
  BY DEF ReadReplaced, Reading
<1>2. k \in SupersedeCalls /\ k.id \in CapsuleIds
  BY <1>1, ReplacedCall
<1>3. CASE Finish(a, "error")
  <2>1. "error" \in Answers
    BY DEF Answers
  <2> QED
    BY <1>1, <1>3, <2>1, FinishStep
<1>4. CASE /\ Selected(k, k.id) /\ call' = [call EXCEPT ![a].old = rows[k.id]]
           /\ answer' = "none" /\ UNCHANGED todo
  <2>1. Sound(rows[k.id]) /\ rows[k.id] \in Capsules
    BY <1>2, <1>4 DEF Selected, IInv, Stored, Sound, Fit
  <2>2. call' = [call EXCEPT ![a] = [k EXCEPT !.old = rows[k.id]]]
    BY <1>4
  <2>3. [k EXCEPT !.old = rows[k.id]] \in Calls /\ [k EXCEPT !.old = rows[k.id]].old = rows[k.id]
    BY <1>2, <2>1 DEF SupersedeCalls, Calls
  <2>4. TypeOK'
    BY <1>1, <1>4, <2>2, <2>3 DEF IInv, TypeOK, ReadOnly, tableVars, Answers
  <2>5. Held'
    BY <2>1, <2>2, <2>3 DEF IInv, TypeOK, Held, Holding
  <2>6. Pending' /\ (\A c \in Stored : Sound(rows[c]))' /\ ForgottenNeverReturn'
    BY <1>1, <1>4 DEF IInv, Pending, Stored, ForgottenNeverReturn, Live, ReadOnly, tableVars
  <2> QED
    BY <2>4, <2>5, <2>6 DEF IInv
<1> QED
  BY <1>3, <1>4 DEF ReadReplaced

LEMMA ReadSupersedeStep ==
  ASSUME IInv, NEW a \in Agents, ReadSupersede(a)
  PROVE  IInv'
<1> DEFINE k == call[a]
           old == SetLifecycle(k.old, "superseded", clock)
           new == SetLifecycle(rows[k.by], "active", clock)
<1>1. k # None /\ k.op = "supersede" /\ k.old # None /\ ReadOnly
  BY DEF ReadSupersede, Reading
<1>2. k.id \in CapsuleIds /\ k.by \in CapsuleIds /\ clock \in Nat
  BY <1>1, ReplacedCall
<1>3. "error" \in Answers /\ "done" \in Answers
  BY DEF Answers
<1>4. CASE Finish(a, "error")
  BY <1>1, <1>3, <1>4, FinishStep
<1>5. CASE /\ Selected(k, k.by)
           /\ Plan(a, <<Unchecked(Replace(k.id, old, "done")),
                        Unchecked(Replace(k.by, new, "done"))>>)
  <2>1. Sound(k.old) /\ Sound(rows[k.by])
    BY <1>1, <1>2, <1>5 DEF Selected, IInv, Stored, Held, Holding
  <2>2. Sound(old) /\ Sound(new) /\ old \in Capsules /\ new \in Capsules
    BY <1>2, <2>1, SetLifecycleSound DEF Sound, Fit, Lifecycles
  <2> HIDE DEF old, new
  <2> QED
    BY <1>1, <1>2, <1>3, <1>5, <2>2, WriteTypes, PlanTwo
<1> QED
  BY <1>4, <1>5 DEF ReadSupersede

LEMMA CurrentType ==
  ASSUME IInv, NEW a \in Agents
  PROVE  /\ Current(a) \in Identities
         /\ \A s \in Scopes : Bucket(a, s) \in Identities \cup {None}
<1>1. \A p \in Projects : Identity(p) \in Identities
  BY DEF IInv, TypeOK, Identity, Identities
<1> QED
  BY <1>1, ExperienceAssumption DEF Current, Bucket

(* A new request.                                                          *)
LEMMA StartStep ==
  ASSUME IInv, NEW a \in Agents, NEW request \in Calls, Start(a, request),
         issued' \subseteq CapsuleIds,
         request.op = "supersede" => request.old = None
  PROVE  IInv'
<1>1. TypeOK'
  BY DEF IInv, TypeOK, Start, Answers
<1>2. Held'
  BY DEF IInv, TypeOK, Start, Held, Holding
<1> QED
  BY <1>1, <1>2 DEF IInv, Pending, Stored, ForgottenNeverReturn, Live, Start

(* The first of the writes an agent has planned.                           *)
LEMMA WriteStep ==
  ASSUME IInv, NEW a \in Agents, Write(a)
  PROVE  IInv'
<1> DEFINE w == Head(todo[a])
<1>1. todo[a] \in Seq(Writes) /\ todo[a] # <<>>
  BY DEF IInv, TypeOK, Write
<1>2. w \in Writes /\ w = todo[a][1] /\ 1 \in DOMAIN todo[a]
  BY <1>1
<1>3. Sound(w.body) /\ w.id \in CapsuleIds /\ w.body \in Capsules /\ w.result \in Answers
  BY <1>2 DEF IInv, Pending, Sound, Fit, Writes
<1>4. /\ rows' = rows \/ (Accepted(w) /\ rows' = [rows EXCEPT ![w.id] = w.body])
      /\ UNCHANGED <<issued, generation, clock>>
  BY DEF Write
<1>5. \/ \E result \in Answers : Finish(a, result)
      \/ Plan(a, Tail(todo[a]))
  BY <1>3 DEF Write, Answers
<1> HIDE DEF w
<1>6. rows' \in [CapsuleIds -> Capsules \cup {None}]
  BY <1>3, <1>4 DEF IInv, TypeOK
<1>7. Tail(todo[a]) \in Seq(Writes)
      /\ \A i \in DOMAIN Tail(todo[a]) : i + 1 \in DOMAIN todo[a]
                                        /\ Tail(todo[a])[i] = todo[a][i + 1]
  BY <1>1
<1>8. todo' \in [Agents -> Seq(Writes)] /\ call' \in [Agents -> Calls \cup {None}]
      /\ answer' \in Answers
  <2>1. CASE \E result \in Answers : Finish(a, result)
    BY <2>1 DEF IInv, TypeOK, Finish
  <2>2. CASE Plan(a, Tail(todo[a]))
    BY <2>2, <1>7 DEF IInv, TypeOK, Plan, Answers
  <2> QED
    BY <1>5, <2>1, <2>2
<1>9. Pending'
  <2>1. CASE \E result \in Answers : Finish(a, result)
    BY <2>1 DEF IInv, TypeOK, Pending, Finish
  <2>2. CASE Plan(a, Tail(todo[a]))
    BY <2>2, <1>7 DEF IInv, TypeOK, Pending, Plan
  <2> QED
    BY <1>5, <2>1, <2>2
<1>10. \A c \in Stored' : Sound(rows'[c])
  BY <1>3, <1>4 DEF IInv, TypeOK, Stored
<1>11. ForgottenNeverReturn'
  BY <1>3, <1>4 DEF IInv, TypeOK, Stored, ForgottenNeverReturn, Accepted, Live
<1>12. Held'
  BY <1>5 DEF IInv, TypeOK, Held, Holding, Finish, Plan
<1> QED
  BY <1>4, <1>6, <1>8, <1>9, <1>10, <1>11, <1>12 DEF IInv, TypeOK

LEMMA ForgetStep ==
  ASSUME IInv, NEW p \in Projects, Forget(p)
  PROVE  IInv'
<1>1. /\ rows' \in [CapsuleIds -> Capsules \cup {None}]
      /\ \A c \in Stored' : c \in Stored /\ rows'[c] = rows[c] /\ rows[c].origin # Identity(p)
  BY DEF Forget, IInv, TypeOK, Stored
<1>2. /\ generation' \in [Projects -> Nat]
      /\ \A q \in Projects \ {p} : generation'[q] = generation[q]
  BY DEF Forget, IInv, TypeOK
<1>3. ForgottenNeverReturn'
  <2> SUFFICES ASSUME NEW c \in Stored' PROVE Live(rows[c].origin)'
    BY DEF ForgottenNeverReturn
  <2>1. /\ rows'[c] = rows[c] /\ rows[c].origin # [project |-> p, generation |-> generation[p]]
        /\ rows[c].origin.generation = generation[rows[c].origin.project]
    BY <1>1 DEF IInv, ForgottenNeverReturn, Live, Identity
  <2>2. rows[c].origin \in Identities
    BY <1>1 DEF IInv, Sound, Fit, Capsules
  <2>3. rows[c].origin.project \in Projects \ {p}
    BY <2>1, <2>2 DEF Identities
  <2> QED
    BY <1>2, <2>1, <2>3 DEF Live
<1>4. (\A c \in Stored : Sound(rows[c]))'
  BY <1>1 DEF IInv
<1>5. TypeOK' /\ Pending' /\ Held'
  BY <1>1, <1>2 DEF Forget, IInv, TypeOK, Pending, Held, Holding, agentVars, Answers
<1> QED
  BY <1>3, <1>4, <1>5 DEF IInv

LEMMA TickStep ==
  ASSUME IInv, Tick
  PROVE  IInv'
<1>1. clock' \in 0..MaxTime
  BY ExperienceAssumption DEF Tick, IInv, TypeOK
<1> QED
  BY <1>1 DEF Tick, IInv, TypeOK, Pending, Held, Holding, ForgottenNeverReturn, Live, Stored,
              tableVars, agentVars, Answers

-----------------------------------------------------------------------------
LEMMA LegacySound ==
  ASSUME NEW c \in LegacyCapsules
  PROVE  Sound(c) /\ c.origin \in Identities /\ c.origin.generation = 0
<1> DEFINE entry == [at |-> 0, outcome |-> "success", env |-> ConfirmEnv, receipt |-> None]
           log == <<entry>>
           first(p) == [project |-> p, generation |-> 0]
           early(t, l, s, p) ==
             [topic |-> t, lesson |-> l, caveat |-> FALSE, lifecycle |-> "challenged",
              challenge |-> None, evidence |-> log, created |-> 0, last |-> 0,
              scope |-> s, bucket |-> first(p), origin |-> first(p)]
<1>1. \E t \in Topics, l \in Lessons, s \in Scopes, p \in Projects : c = early(t, l, s, p)
  BY DEF LegacyCapsules
<1>2. entry \in Entries /\ entry.receipt = None
  BY ExperienceAssumption DEF Entries, Outcomes
<1>3. log \in Seq(Entries) /\ Len(log) = 1 /\ DOMAIN log = {1}
  BY <1>2
<1> HIDE DEF log
<1>4. /\ c.evidence = log /\ c.challenge = None /\ c.last = 0 /\ c.created = 0
      /\ c.origin \in Identities /\ c.origin.generation = 0
  BY <1>1 DEF Identities
<1>5. c \in Capsules
  BY <1>1, <1>3 DEF Capsules, Lifecycles, Identities
<1>6. Len(log) \in 1..MaxEvidence
  BY <1>3, CapsuleAssumption
<1>7. Valid(c)
  BY <1>4, <1>6 DEF Valid
<1>8. DistinctReceipts(c)
  BY <1>3, <1>4 DEF DistinctReceipts
<1>9. Backed(c)
  BY <1>4 DEF Backed
<1> QED
  BY <1>4, <1>5, <1>7, <1>8, <1>9 DEF Sound, Fit

LEMMA InitIInv == Init => IInv
<1> SUFFICES ASSUME Init PROVE IInv
  OBVIOUS
<1>1. \A c \in Stored : Sound(rows[c]) /\ rows[c].origin \in Identities
                          /\ rows[c].origin.generation = 0
  BY LegacySound DEF Init, Stored
<1>2. LegacyCapsules \subseteq Capsules
  BY LegacySound DEF Sound, Fit
<1>3. TypeOK
  BY <1>2, ExperienceAssumption DEF Init, TypeOK, Answers
<1>4. Pending /\ Held
  BY DEF Init, Pending, Held, Holding
<1>5. ForgottenNeverReturn
  BY <1>1 DEF Init, ForgottenNeverReturn, Live, Identities
<1> QED
  BY <1>1, <1>3, <1>4, <1>5 DEF IInv

LEMMA InvStep == IInv /\ [Next]_vars => IInv'
<1> SUFFICES ASSUME IInv, [Next]_vars PROVE IInv'
  OBVIOUS
<1>1. ASSUME NEW a \in Agents, StartRecord(a) PROVE IInv'
  <2>1. PICK c \in CapsuleIds \ issued, t \in Topics, l \in Lessons, v \in Caveats,
             o \in Outcomes, env \in Envs, s \in Scopes :
          /\ issued' = issued \cup {c}
          /\ Start(a, [op |-> "record", at |-> clock, scope |-> s, bucket |-> Bucket(a, s),
                       origin |-> Current(a), id |-> c, topic |-> t, lesson |-> l, caveat |-> v, outcome |-> o, env |-> env])
    BY <1>1 DEF StartRecord
  <2> DEFINE k == [op |-> "record", at |-> clock, scope |-> s, bucket |-> Bucket(a, s),
                   origin |-> Current(a), id |-> c, topic |-> t, lesson |-> l, caveat |-> v, outcome |-> o, env |-> env]
  <2>2. k \in Calls
    BY CurrentType DEF IInv, TypeOK, Calls, RecordCalls
  <2>3. issued' \subseteq CapsuleIds
    BY <2>1 DEF IInv, TypeOK
  <2>4. Start(a, k) /\ k.op # "supersede"
    BY <2>1
  <2> HIDE DEF k
  <2> QED
    BY <2>2, <2>3, <2>4, StartStep
<1>2. ASSUME NEW a \in Agents,
             StartConfirm(a) \/ StartTransition(a) \/ StartSupersede(a)
      PROVE  IInv'
  <2>1. CASE StartConfirm(a)
    <3>1. PICK c \in issued, o \in Outcomes, r \in Receipts \cup {None} :
            Start(a, [op |-> "confirm", at |-> clock, id |-> c, outcome |-> o, receipt |-> r])
      BY <2>1 DEF StartConfirm
    <3> DEFINE k == [op |-> "confirm", at |-> clock, id |-> c, outcome |-> o, receipt |-> r]
    <3>2. k \in Calls /\ k.op = "confirm"
      BY DEF IInv, TypeOK, Calls, ConfirmCalls
    <3>3. issued' \subseteq CapsuleIds
      BY <2>1 DEF IInv, TypeOK, StartConfirm
    <3>4. Start(a, k)
      BY <3>1
    <3> HIDE DEF k
    <3> QED
      BY <3>2, <3>3, <3>4, StartStep
  <2>2. CASE StartTransition(a)
    <3>1. PICK c \in issued, to \in {"challenged", "obsolete"} :
            Start(a, [op |-> "transition", origin |-> Current(a), id |-> c, to |-> to])
      BY <2>2 DEF StartTransition
    <3> DEFINE k == [op |-> "transition", origin |-> Current(a), id |-> c, to |-> to]
    <3>2. k \in Calls /\ k.op = "transition"
      BY CurrentType DEF IInv, TypeOK, Calls, TransitionCalls
    <3>3. issued' \subseteq CapsuleIds
      BY <2>2 DEF IInv, TypeOK, StartTransition
    <3>4. Start(a, k)
      BY <3>1
    <3> HIDE DEF k
    <3> QED
      BY <3>2, <3>3, <3>4, StartStep
  <2>3. CASE StartSupersede(a)
    <3>1. PICK c, d \in issued :
            Start(a, [op |-> "supersede", origin |-> Current(a), id |-> c, by |-> d, old |-> None])
      BY <2>3 DEF StartSupersede
    <3> DEFINE k == [op |-> "supersede", origin |-> Current(a), id |-> c, by |-> d, old |-> None]
    <3>2. k \in Calls
      BY CurrentType DEF IInv, TypeOK, Calls, SupersedeCalls
    <3>3. issued' \subseteq CapsuleIds
      BY <2>3 DEF IInv, TypeOK, StartSupersede
    <3>4. Start(a, k) /\ k.old = None
      BY <3>1
    <3> HIDE DEF k
    <3> QED
      BY <3>2, <3>3, <3>4, StartStep
  <2> QED
    BY <1>2, <2>1, <2>2, <2>3
<1>3. ASSUME NEW a \in Agents,
             \/ ReadRecord(a) \/ ReadConfirm(a) \/ ReadTransition(a)
             \/ ReadReplaced(a) \/ ReadSupersede(a) \/ Write(a)
      PROVE  IInv'
  BY <1>3, ReadRecordStep, ReadConfirmStep, ReadTransitionStep, ReadReplacedStep,
     ReadSupersedeStep, WriteStep
<1>4. ASSUME NEW a \in Agents, Crash(a) PROVE IInv'
  <2>1. "error" \in Answers
    BY DEF Answers
  <2> QED
    BY <1>4, <2>1, FinishStep DEF Crash
<1>5. CASE UNCHANGED vars
  BY <1>5 DEF vars, tableVars, agentVars, IInv, TypeOK, Pending, Held, Holding, Stored,
              ForgottenNeverReturn, Live
<1> QED
  BY <1>1, <1>2, <1>3, <1>4, <1>5, ForgetStep, TickStep DEF Next

(* The table, the requests in flight and their pending writes are well     *)
(* typed, whatever the agents do and wherever they die.                    *)
THEOREM TypeCorrect == Spec => []TypeOK
<1>1. IInv => TypeOK
  BY DEF IInv
<1> QED
  BY <1>1, InitIInv, InvStep, PTL DEF Spec

(* experience.rs validates a capsule before it seals it: that check never  *)
(* fails on the service's own result, so neither supersede nor a           *)
(* contradiction stops between its two writes because of it.               *)
THEOREM AlwaysValid == Spec => []CapsulesValid
<1>1. IInv => CapsulesValid
  BY DEF IInv, Pending, CapsulesValid, Sound, Fit
<1> QED
  BY <1>1, InitIInv, InvStep, PTL DEF Spec

(* No capsule of a forgotten identity is in the table, although agents     *)
(* write back what they read before the erase (experience.rs               *)
(* append_experience, replace_experience).                                 *)
THEOREM NothingReturns == Spec => []ForgottenNeverReturn
<1>1. IInv => ForgottenNeverReturn
  BY DEF IInv
<1> QED
  BY <1>1, InitIInv, InvStep, PTL DEF Spec

(* However many agents present one receipt, no log holds it twice          *)
(* (confirm_at looks for it in the capsule it is about to write).          *)
THEOREM ReceiptsOnce == Spec => []ReceiptOnce
<1>1. IInv => ReceiptOnce
  BY DEF IInv, Sound, Fit, DistinctReceipts, ReceiptOnce
<1> QED
  BY <1>1, InitIInv, InvStep, PTL DEF Spec

(* The recovery counter never claims more than the log of its own capsule   *)
(* shows while nothing was evicted, although a report may be computed from  *)
(* a capsule that others have written since (confirm_with_recovery): what   *)
(* is written back is log and counter of one reading.                      *)
THEOREM BackedProgress == Spec => []ProgressBacked
<1>1. IInv => ProgressBacked
  <2> SUFFICES ASSUME IInv, NEW c \in Stored, rows[c].challenge # None
               PROVE  /\ rows[c].challenge.recovery < Required
                      /\ Len(rows[c].evidence) < MaxEvidence =>
                           rows[c].challenge.recovery
                             <= Cardinality(SupportingCohorts(rows[c], rows[c].challenge))
    BY DEF ProgressBacked
  <2> DEFINE d == rows[c]
             state == d.challenge
             counted == CohortsAt(d, CountedOf(d, state))
  <2>1. d \in Capsules /\ state \in Challenges /\ Backed(d) /\ state.recovery \in Nat
    BY DEF IInv, Sound, Fit, Capsules, Challenges
  <2>2. SupportingOf(d, state) \in SUBSET DOMAIN d.evidence /\ CountedOf(d, state) \subseteq SupportingOf(d, state)
    <3>1. \A i \in DOMAIN d.evidence : i >= i
      BY <2>1 DEF Capsules
    <3> QED
      BY <3>1 DEF SupportingOf, CountedOf
  <2>3. SupportingCohorts(d, state) = CohortsAt(d, SupportingOf(d, state))
    BY DEF SupportingCohorts, CohortsAt, Cohort
  <2> HIDE DEF d, state
  <2>4. counted \subseteq CohortsAt(d, SupportingOf(d, state))
    BY <2>2 DEF CohortsAt
  <2>5. /\ Cardinality(counted) <= Cardinality(SupportingCohorts(d, state))
        /\ Cardinality(counted) \in Nat /\ Cardinality(SupportingCohorts(d, state)) \in Nat
    BY <2>1, <2>2, <2>3, <2>4, MoreCohorts, CohortsFinite
  <2>6. d.challenge = state /\ d.challenge # None
    BY DEF d, state
  <2>7. /\ state.recovery < Required
        /\ Len(d.evidence) < MaxEvidence => state.recovery <= Cardinality(counted)
    BY <2>1, <2>6 DEF Backed, Complete
  <2>8. Len(d.evidence) < MaxEvidence => state.recovery <= Cardinality(SupportingCohorts(d, state))
    BY <2>1, <2>5, <2>7
  <2> QED
    BY <2>7, <2>8 DEF d, state
<1> QED
  BY <1>1, InitIInv, InvStep, PTL DEF Spec

-----------------------------------------------------------------------------
(* One process at a time.  Every argument below is the same: what an agent  *)
(* has planned fits the table it will find, since nobody else writes.      *)

Alone == \A a, b \in Agents : a = b

(* What a capsule may gain by one write, and what makes it active again.   *)
Grown(old, new) ==
  /\ \/ new.evidence = old.evidence
     \/ SubSeq(new.evidence, 1, Len(new.evidence) - 1) =
          IF Len(old.evidence) = MaxEvidence THEN Tail(old.evidence) ELSE old.evidence
  /\ old.caveat => new.caveat

Earned(old, new) ==
  old.lifecycle = "challenged" /\ Complete(old, StateOf(old)) /\ new.lifecycle = "active"
    => Cardinality(CohortsAt(new, Unopposed(new, StateOf(old).supporting)
                                    \cap SupportingOf(new, StateOf(old)))) >= Required

(* What agent a has planned is still what the table needs.                 *)
Fits(a, w) ==
  /\ w.kind = "replace" /\ rows[w.id] # None =>
       /\ Grown(rows[w.id], w.body)
       /\ call[a].op \in {"record", "confirm"} => ~Retired(rows[w.id])
       /\ call[a].op # "supersede" => Earned(rows[w.id], w.body)
  /\ w.kind = "append" =>
       /\ call[a].op = "record" /\ w.id = call[a].id
       /\ w.body.lifecycle = "active" =>
            \A d \in Stored : rows[d].topic = w.body.topic /\ SameBucket(rows[d], w.body)
                                => Retired(rows[d])

Planned(a) ==
  \A i \in DOMAIN todo[a] :
    /\ Fits(a, todo[a][i])
    /\ todo[a][i].kind = "append" =>
         i = Len(todo[a]) /\ (todo[a][i].body.lifecycle = "active" => Len(todo[a]) = 1)
    /\ \A j \in DOMAIN todo[a] : todo[a][j].id = todo[a][i].id => i = j

Recording(a) == call[a] # None /\ call[a].op = "record"
Superseding(a) == call[a] # None /\ call[a].op = "supersede"

(* The first reading of a supersede is still what the table has.            *)
UpToDate(a) ==
  Superseding(a) =>
    /\ call[a].id # call[a].by
    /\ call[a].old # None /\ todo[a] = <<>> => rows[call[a].id] \in {None, call[a].old}

Fresh ==
  /\ Stored \subseteq issued
  /\ \A a \in Agents :
       /\ todo[a] # <<>> => call[a] # None
       /\ Planned(a)
       /\ Recording(a) => call[a].id \in issued /\ rows[call[a].id] = None
       /\ UpToDate(a)

-----------------------------------------------------------------------------
(* What the operations make of a capsule, next to what it was. *)

LEMMA SameLogGrown ==
  ASSUME NEW c, NEW d, d.evidence = c.evidence, c.caveat => d.caveat
  PROVE  Grown(c, d)
BY DEF Grown

LEMMA ConfirmGrows ==
  ASSUME NEW c \in Capsules, NEW e \in Entries, Len(c.evidence) \in 1..MaxEvidence
  PROVE  LET log == Confirm(c, e).evidence IN
         SubSeq(log, 1, Len(log) - 1) = IF Len(c.evidence) = MaxEvidence THEN Tail(c.evidence) ELSE c.evidence
<1> DEFINE log == Confirm(c, e).evidence
           n == Len(c.evidence)
           k == Lost(c)
           kept == IF n = MaxEvidence THEN Tail(c.evidence) ELSE c.evidence
           front == SubSeq(log, 1, Len(log) - 1)
<1>1. c.evidence \in Seq(Entries) /\ n \in Nat \ {0} /\ k \in {0, 1} /\ (k = 1 <=> n = MaxEvidence)
  BY DEF Capsules, Lost
<1>2. log \in Seq(Entries) /\ Len(log) = n - k + 1 /\ \A i \in 1..(n - k) : log[i] = c.evidence[i + k]
  BY ConfirmLog DEF Capsules
<1>3. kept \in Seq(Entries) /\ Len(kept) = n - k /\ \A i \in 1..(n - k) : kept[i] = c.evidence[i + k]
  <2>1. CASE n = MaxEvidence
    <3>1. /\ Tail(c.evidence) \in Seq(Entries) /\ Len(Tail(c.evidence)) = n - 1
          /\ \A i \in 1..(n - 1) : Tail(c.evidence)[i] = c.evidence[i + 1]
      BY <1>1
    <3> QED
      BY <1>1, <2>1, <3>1
  <2>2. CASE n # MaxEvidence
    <3>1. k = 0 /\ n - k = n /\ \A i \in 1..n : i + k = i
      BY <1>1, <2>2
    <3> QED
      BY <1>1, <2>2, <3>1
  <2> QED
    BY <2>1, <2>2
<1> HIDE DEF log, k, kept
<1>4. n - k \in Nat /\ Len(log) - 1 = n - k /\ 1 \in Int /\ n - k \in Int
  BY <1>1, <1>2
<1>5. /\ front \in Seq(Entries) /\ Len(front) = n - k
      /\ \A i \in 1..(n - k) : front[i] = log[i]
  BY <1>2, <1>4
<1> HIDE DEF front
<1>6. front = kept
  BY <1>2, <1>3, <1>5, SeqEqual
<1> QED
  BY <1>6 DEF front, log, kept

LEMMA ReportParts ==
  ASSUME NEW c, Sound(c), NEW e \in Entries
  PROVE  LET base == IF c.challenge = None THEN Challenge(c, c.last) ELSE c
             d == ConfirmWithRecovery(c, e) IN
         /\ d.evidence = Confirm(c, e).evidence /\ d.caveat = c.caveat
         /\ base.evidence = c.evidence /\ Confirm(base, e).evidence = Confirm(c, e).evidence
<1>1. c \in Capsules
  BY DEF Sound, Fit
<1> QED
  BY <1>1 DEF ConfirmWithRecovery, Confirm, Challenge, Capsules

(* A report leaves the log what it was but for its own entry.               *)
LEMMA ReportGrows ==
  ASSUME NEW c, Sound(c), NEW e \in Entries
  PROVE  Grown(c, ConfirmWithRecovery(c, e))
<1>1. c \in Capsules /\ Len(c.evidence) \in 1..MaxEvidence
  BY DEF Sound, Fit, Valid
<1> QED
  BY <1>1, ReportParts, ConfirmGrows DEF Grown

(* A report reactivates only with a threshold of counted cohorts, each of   *)
(* which is among the unopposed support of the new log.                     *)
LEMMA ReportEarned ==
  ASSUME NEW c, Sound(c), NEW e \in Entries
  PROVE  Earned(c, ConfirmWithRecovery(c, e))
<1> DEFINE base == IF c.challenge = None THEN Challenge(c, c.last) ELSE c
           st == StateOf(c)
           state == Advance(base, st, e)
           done == Confirm(base, e)
           d == ConfirmWithRecovery(c, e)
           proof == Unopposed(d, st.supporting) \cap SupportingOf(d, st)
<1> SUFFICES ASSUME c.lifecycle = "challenged", Complete(c, st), d.lifecycle = "active"
             PROVE  Cardinality(CohortsAt(d, proof)) >= Required
  BY DEF Earned
<1>1. c \in Capsules /\ c.last \in Nat /\ c.challenge \in Challenges \cup {None}
  BY DEF Sound, Fit, Capsules
<1>2. /\ Sound(base) /\ base.lifecycle = "challenged" /\ base.challenge \in Challenges
      /\ base.evidence = c.evidence /\ base.challenge = st
  BY <1>1, ChallengeSound DEF StateOf
<1>3. base \in Capsules /\ Len(base.evidence) \in 1..MaxEvidence /\ Backed(base)
  BY <1>2 DEF Sound, Fit, Valid
<1>4. d = IF state.recovery >= Required
            THEN [done EXCEPT !.lifecycle = "active", !.challenge = None]
            ELSE [done EXCEPT !.challenge = state]
  BY <1>2 DEF ConfirmWithRecovery
<1> HIDE DEF base
<1>5. done \in Capsules /\ done.lifecycle = "challenged"
  <2>1. done.lifecycle = base.lifecycle
    BY <1>3 DEF Confirm, Capsules
  <2> QED
    BY <1>2, <1>3, <2>1, ConfirmLog
<1> HIDE DEF done, state, d
<1>6. state.recovery >= Required /\ d.evidence = done.evidence
  BY <1>4, <1>5 DEF Capsules
<1>7. Complete(base, st)
  BY <1>2 DEF Complete, SupportingOf
<1>8. /\ st.recovery < Required /\ st \in Challenges /\ st.recovery \in Nat
      /\ Complete(base, st) => st.recovery <= Cardinality(CohortsAt(base, CountedOf(base, st)))
  BY <1>2, <1>3, NoChallenge DEF Backed, Challenges
<1>9. state.recovery \in Nat
  BY <1>8, AdvanceType DEF state, Challenges
<1>10. state.recovery > st.recovery
  BY <1>6, <1>8, <1>9, CapsuleAssumption
<1>11. state.recovery <= Cardinality(CohortsAt(done, CountedOf(done, st)))
  BY <1>3, <1>7, <1>8, <1>10, AdvanceBacked DEF done, state
<1>12. d \in Capsules
  BY <1>4, <1>5, <1>8, AdvanceType DEF state, Capsules, Lifecycles
<1>13. CountedOf(d, st) \subseteq proof /\ CountedOf(d, st) = CountedOf(done, st)
  <2>1. \A i \in DOMAIN d.evidence : i >= i
    BY <1>12 DEF Capsules
  <2> QED
    BY <1>6, <2>1 DEF CountedOf, Unopposed, SupportingOf, Supports
<1>14. CohortsAt(done, CountedOf(done, st)) \subseteq CohortsAt(d, proof)
  BY <1>6, <1>13 DEF CohortsAt
<1>15. proof \in SUBSET DOMAIN d.evidence
  BY DEF SupportingOf
<1> HIDE DEF proof, st
<1>16. /\ Cardinality(CohortsAt(done, CountedOf(done, st))) <= Cardinality(CohortsAt(d, proof))
       /\ Cardinality(CohortsAt(d, proof)) \in Nat
  BY <1>12, <1>14, <1>15, MoreCohorts, CohortsFinite
<1>17. Cardinality(CohortsAt(done, CountedOf(done, st))) \in Nat
  <2>1. CountedOf(done, st) \in SUBSET DOMAIN done.evidence
    BY DEF CountedOf
  <2> QED
    BY <1>5, <2>1, CohortsFinite
<1> QED
  BY <1>6, <1>9, <1>11, <1>16, <1>17, CapsuleAssumption

LEMMA CaveatAdded ==
  ASSUME NEW c, NEW d, Sound(d), NEW k \in RecordCalls, Grown(c, d), Earned(c, d)
  PROVE  Grown(c, WithCaveat(d, k)) /\ Earned(c, WithCaveat(d, k))
<1>1. d \in Capsules
  BY DEF Sound, Fit
<1> DEFINE x == WithCaveat(d, k)
<1>2. x.evidence = d.evidence /\ x.lifecycle = d.lifecycle /\ (d.caveat => x.caveat)
  BY <1>1 DEF WithCaveat, Capsules
<1> HIDE DEF x
<1>3. Grown(c, x)
  BY <1>2 DEF Grown
<1>4. Earned(c, x)
  BY <1>2 DEF Earned, CohortsAt, Unopposed, SupportingOf
<1> QED
  BY <1>3, <1>4 DEF x

-----------------------------------------------------------------------------
(* The plan of the only process stays fit. *)

LEMMA FreshOne ==
  ASSUME Alone, IInv, Fresh, NEW a \in Agents, call[a] # None,
         NEW w, Plan(a, <<w>>), ReadOnly, Fits(a, w)
  PROVE  Fresh'
<1>1. /\ todo'[a] = <<w>> /\ UNCHANGED <<rows, issued, call>>
      /\ \A b \in Agents : b = a
  BY DEF Plan, ReadOnly, tableVars, IInv, TypeOK, Alone
<1>2. DOMAIN todo'[a] = {1} /\ Len(todo'[a]) = 1 /\ todo'[a][1] = w
  BY <1>1
<1>3. Fits(a, w)'
  BY <1>1 DEF Fits, Stored
<1>4. Planned(a)'
  BY <1>2, <1>3 DEF Planned
<1>5. todo'[a] # <<>>
  BY <1>2
<1> QED
  BY <1>1, <1>4, <1>5 DEF Fresh, Stored, Recording, UpToDate, Superseding

LEMMA FreshTwo ==
  ASSUME Alone, IInv, Fresh, NEW a \in Agents, call[a] # None,
         NEW w, NEW x, Plan(a, <<w, x>>), ReadOnly, Fits(a, w), Fits(a, x),
         w.id # x.id, w.kind # "append", x.kind = "append" => x.body.lifecycle # "active"
  PROVE  Fresh'
<1>1. /\ todo'[a] = <<w, x>> /\ UNCHANGED <<rows, issued, call>>
      /\ \A b \in Agents : b = a
  BY DEF Plan, ReadOnly, tableVars, IInv, TypeOK, Alone
<1>2. DOMAIN todo'[a] = {1, 2} /\ Len(todo'[a]) = 2 /\ todo'[a][1] = w /\ todo'[a][2] = x
  BY <1>1
<1>3. Fits(a, w)' /\ Fits(a, x)'
  BY <1>1 DEF Fits, Stored
<1>4. Planned(a)'
  BY <1>2, <1>3 DEF Planned
<1>5. todo'[a] # <<>>
  BY <1>2
<1> QED
  BY <1>1, <1>4, <1>5 DEF Fresh, Stored, Recording, UpToDate, Superseding

(* The only process has nothing planned.                                   *)
LEMMA FreshIdle ==
  ASSUME Alone, NEW a \in Agents, todo'[a] = <<>>, Stored' \subseteq issued',
         Recording(a)' => call'[a].id \in issued' /\ rows'[call'[a].id] = None,
         UpToDate(a)'
  PROVE  Fresh'
<1>1. \A b \in Agents : b = a
  BY DEF Alone
<1>2. DOMAIN todo'[a] = {}
  OBVIOUS
<1>3. Planned(a)'
  BY <1>2 DEF Planned
<1> QED
  BY <1>1, <1>3 DEF Fresh

LEMMA FreshFinish ==
  ASSUME Alone, IInv, Fresh, NEW a \in Agents, NEW result, Finish(a, result), ReadOnly
  PROVE  Fresh'
<1>1. todo'[a] = <<>> /\ call'[a] = None /\ UNCHANGED <<rows, issued>>
  BY DEF Finish, ReadOnly, tableVars, IInv, TypeOK
<1> QED
  BY <1>1, FreshIdle DEF Recording, UpToDate, Superseding, Fresh, Stored

LEMMA FreshRecord ==
  ASSUME Alone, IInv, Fresh, NEW a \in Agents, ReadRecord(a)
  PROVE  Fresh'
<1> DEFINE k == call[a]
<1>1. k \in RecordCalls /\ k.op = "record" /\ k # None /\ ReadOnly /\ k.at \in Nat /\ rows[k.id] = None
  <2>1. k \in Calls /\ k.op = "record" /\ k # None
    BY DEF IInv, TypeOK, ReadRecord, Reading
  <2>2. k \in RecordCalls
    BY <2>1 DEF Calls, RecordCalls, ConfirmCalls, TransitionCalls, SupersedeCalls
  <2> QED
    BY <2>1, <2>2, ExperienceAssumption DEF RecordCalls, ReadRecord, Fresh, Recording
<1>2. \A c \in Equivalents(k) : /\ c \in Stored /\ Sound(rows[c]) /\ c # k.id
                               /\ ~Retired(rows[c])
  BY <1>1 DEF Equivalents, IInv, Stored
<1>3. CASE Equivalents(k) = {} /\ Plan(a, <<Insert(k.id, Candidate(k), "recorded")>>)
  <2> DEFINE w == Insert(k.id, Candidate(k), "recorded")
  <2>1. w.kind = "append" /\ w.id = k.id /\ w.body = Candidate(k)
    BY DEF Insert, Replace
  <2>2. \A d \in Stored : rows[d].topic = k.topic /\ SameBucket(rows[d], k) => Retired(rows[d])
    BY <1>3 DEF Equivalents, Stored
  <2>3. Candidate(k).topic = k.topic /\ \A d : SameBucket(d, Candidate(k)) <=> SameBucket(d, k)
    BY DEF Candidate, SameBucket
  <2> HIDE DEF w
  <2>4. Fits(a, w)
    BY <1>1, <2>1, <2>2, <2>3 DEF Fits
  <2> QED
    BY <1>1, <1>3, <2>4, FreshOne DEF w
<1>4. ASSUME NEW c \in Equivalents(k), Plan(a, ChallengeBoth(k, c))
      PROVE  Fresh'
  <2> DEFINE w == Unchecked(Replace(c, Challenge(rows[c], k.at), "challenged"))
             x == Unchecked(Insert(k.id, Challenge(Candidate(k), k.at), "challenged"))
  <2>1. /\ w.kind = "replace" /\ w.id = c /\ w.body = Challenge(rows[c], k.at)
        /\ x.kind = "append" /\ x.id = k.id /\ x.body = Challenge(Candidate(k), k.at)
    BY DEF Unchecked, Insert, Replace
  <2>2. w.body.lifecycle = "challenged" /\ x.body.lifecycle = "challenged"
    BY <1>1, <1>2, <2>1, ChallengeSound, CandidateSound
  <2>3. w.body.evidence = rows[c].evidence /\ w.body.caveat = rows[c].caveat
    <3>1. rows[c] \in Capsules
      BY <1>2 DEF Sound, Fit
    <3> QED
      BY <2>1, <3>1 DEF Challenge, Capsules
  <2>4. Plan(a, <<w, x>>)
    BY <1>4 DEF ChallengeBoth
  <2> HIDE DEF w, x
  <2>5. Fits(a, w)
    BY <1>2, <2>1, <2>2, <2>3, SameLogGrown DEF Fits, Earned
  <2>6. Fits(a, x)
    BY <1>1, <2>1, <2>2 DEF Fits
  <2> QED
    BY <1>1, <1>2, <2>1, <2>2, <2>4, <2>5, <2>6, FreshTwo
<1>5. ASSUME NEW c \in Equivalents(k), NEW body, Plan(a, <<Replace(c, body, "confirmed")>>),
             Grown(rows[c], body), Earned(rows[c], body)
      PROVE  Fresh'
  <2> DEFINE w == Replace(c, body, "confirmed")
  <2>1. w.kind = "replace" /\ w.id = c /\ w.body = body
    BY DEF Replace
  <2> HIDE DEF w
  <2>2. Fits(a, w)
    BY <1>2, <1>5, <2>1 DEF Fits
  <2> QED
    BY <1>1, <1>5, <2>2, FreshOne DEF w
<1>6. ASSUME NEW c \in Equivalents(k),
             Plan(a, <<Replace(c, WithCaveat(rows[c], k), "confirmed")>>)
      PROVE  Fresh'
  <2>1. Sound(rows[c]) /\ Grown(rows[c], rows[c]) /\ Earned(rows[c], rows[c])
    BY <1>2, SameLogGrown DEF Earned
  <2>2. Grown(rows[c], WithCaveat(rows[c], k)) /\ Earned(rows[c], WithCaveat(rows[c], k))
    BY <1>1, <2>1, CaveatAdded
  <2> QED
    BY <1>5, <1>6, <2>2
<1>7. ASSUME NEW c \in Equivalents(k), ~AlreadyReported(rows[c], EntryOf(k)),
             Plan(a, <<Replace(c, WithCaveat(ConfirmWithRecovery(rows[c], EntryOf(k)), k),
                               "confirmed")>>)
      PROVE  Fresh'
  <2> DEFINE d == ConfirmWithRecovery(rows[c], EntryOf(k))
  <2>1. Sound(rows[c]) /\ EntryOf(k) \in Entries /\ EntryOf(k).receipt = None
    BY <1>1, <1>2, EntryType
  <2>2. Sound(d) /\ Grown(rows[c], d) /\ Earned(rows[c], d)
    BY <2>1, RecoverySound, ReportGrows, ReportEarned
  <2>3. Plan(a, <<Replace(c, WithCaveat(d, k), "confirmed")>>)
    BY <1>7
  <2> HIDE DEF d
  <2>4. Grown(rows[c], WithCaveat(d, k)) /\ Earned(rows[c], WithCaveat(d, k))
    BY <1>1, <2>2, CaveatAdded
  <2> QED
    BY <1>5, <2>3, <2>4
<1>8. CASE Finish(a, "duplicate")
  BY <1>1, <1>8, FreshFinish
<1> QED
  BY <1>3, <1>4, <1>6, <1>7, <1>8 DEF ReadRecord

LEMMA FreshConfirm ==
  ASSUME Alone, IInv, Fresh, NEW a \in Agents, ReadConfirm(a)
  PROVE  Fresh'
<1> DEFINE k == call[a]
           e == [at |-> k.at, outcome |-> k.outcome, env |-> ConfirmEnv, receipt |-> k.receipt]
           body == ConfirmWithRecovery(rows[k.id], e)
           w == Replace(k.id, body, "confirmed")
<1>1. k \in ConfirmCalls /\ k # None /\ ReadOnly
  <2>1. k \in Calls /\ k.op = "confirm"
    BY DEF IInv, TypeOK, ReadConfirm, Reading
  <2> QED
    BY <2>1 DEF Calls, RecordCalls, ConfirmCalls, TransitionCalls, SupersedeCalls, ReadConfirm, Reading
<1>2. e \in Entries /\ k.id \in CapsuleIds
  BY <1>1, ExperienceAssumption DEF ConfirmCalls, Entries
<1>3. CASE Finish(a, "error") \/ Finish(a, "confirmed")
  BY <1>1, <1>3, FreshFinish
<1>4. CASE InUse(k.id) /\ Plan(a, <<w>>)
  <2>1. Sound(rows[k.id]) /\ ~Retired(rows[k.id])
    BY <1>2, <1>4 DEF InUse, IInv, Stored
  <2> HIDE DEF e
  <2>2. Grown(rows[k.id], body) /\ Earned(rows[k.id], body)
    BY <1>2, <2>1, ReportGrows, ReportEarned
  <2>3. w.kind = "replace" /\ w.id = k.id /\ w.body = body
    BY DEF Replace
  <2> HIDE DEF w, body
  <2>4. Fits(a, w)
    BY <2>1, <2>2, <2>3 DEF Fits
  <2> QED
    BY <1>1, <1>4, <2>4, FreshOne
<1> QED
  BY <1>3, <1>4 DEF ReadConfirm

(* An explicit lifecycle leaves the log and the caveat alone.              *)
LEMMA SetLifecycleParts ==
  ASSUME NEW c, Sound(c), NEW lifecycle \in Lifecycles, NEW at \in Nat
  PROVE  /\ Grown(c, SetLifecycle(c, lifecycle, at))
         /\ SetLifecycle(c, lifecycle, at).lifecycle = lifecycle
<1>1. c \in Capsules
  BY DEF Sound, Fit
<1> DEFINE d == SetLifecycle(c, lifecycle, at)
<1>2. d.evidence = c.evidence /\ d.caveat = c.caveat /\ d.lifecycle = lifecycle
  BY <1>1 DEF SetLifecycle, Challenge, Capsules
<1> HIDE DEF d
<1> QED
  BY <1>2, SameLogGrown DEF d

LEMMA FreshTransition ==
  ASSUME Alone, IInv, Fresh, NEW a \in Agents, ReadTransition(a)
  PROVE  Fresh'
<1> DEFINE k == call[a]
           body == SetLifecycle(rows[k.id], k.to, clock)
           w == Unchecked(Replace(k.id, body, "done"))
<1>1. k \in TransitionCalls /\ k # None /\ ReadOnly /\ k.op = "transition"
  <2>1. k \in Calls /\ k.op = "transition"
    BY DEF IInv, TypeOK, ReadTransition, Reading
  <2> QED
    BY <2>1 DEF Calls, RecordCalls, ConfirmCalls, TransitionCalls, SupersedeCalls, ReadTransition, Reading
<1>2. k.id \in CapsuleIds /\ k.to \in Lifecycles \ {"active"} /\ clock \in Nat
  BY <1>1, ExperienceAssumption DEF TransitionCalls, Lifecycles, IInv, TypeOK
<1>3. CASE Finish(a, "error")
  BY <1>1, <1>3, FreshFinish
<1>4. CASE Selected(k, k.id) /\ Plan(a, <<w>>)
  <2>1. Sound(rows[k.id])
    BY <1>2, <1>4 DEF Selected, IInv, Stored
  <2>2. Grown(rows[k.id], body) /\ body.lifecycle # "active"
    BY <1>2, <2>1, SetLifecycleParts
  <2>3. w.kind = "replace" /\ w.id = k.id /\ w.body = body
    BY DEF Replace, Unchecked
  <2> HIDE DEF w, body
  <2>4. Fits(a, w)
    BY <1>1, <2>2, <2>3 DEF Fits, Earned
  <2> QED
    BY <1>1, <1>4, <2>4, FreshOne
<1> QED
  BY <1>3, <1>4 DEF ReadTransition

LEMMA FreshReplaced ==
  ASSUME Alone, IInv, Fresh, NEW a \in Agents, ReadReplaced(a)
  PROVE  Fresh'
<1> DEFINE k == call[a]
<1>1. k # None /\ k.op = "supersede" /\ ReadOnly /\ todo[a] = <<>> /\ k.id # k.by
  BY DEF ReadReplaced, Reading, Fresh, UpToDate, Superseding
<1>2. k \in SupersedeCalls
  BY <1>1, ReplacedCall
<1>3. CASE Finish(a, "error")
  BY <1>1, <1>3, FreshFinish
<1>4. CASE call' = [call EXCEPT ![a].old = rows[k.id]] /\ UNCHANGED todo
  <2>1. call'[a] = [k EXCEPT !.old = rows[k.id]] /\ todo'[a] = <<>> /\ UNCHANGED <<rows, issued>>
    BY <1>1, <1>4 DEF IInv, TypeOK, ReadOnly, tableVars
  <2>2. call'[a].op = "supersede" /\ call'[a].id = k.id /\ call'[a].by = k.by /\ call'[a].old = rows[k.id]
    BY <1>1, <1>2, <2>1 DEF SupersedeCalls
  <2>3. UpToDate(a)' /\ ~Recording(a)'
    BY <1>1, <2>1, <2>2 DEF UpToDate, Recording
  <2>4. Stored' \subseteq issued'
    BY <2>1 DEF Fresh, Stored
  <2> QED
    BY <2>1, <2>3, <2>4, FreshIdle
<1> QED
  BY <1>3, <1>4 DEF ReadReplaced

LEMMA FreshSupersede ==
  ASSUME Alone, IInv, Fresh, NEW a \in Agents, ReadSupersede(a)
  PROVE  Fresh'
<1> DEFINE k == call[a]
           old == SetLifecycle(k.old, "superseded", clock)
           new == SetLifecycle(rows[k.by], "active", clock)
           w == Unchecked(Replace(k.id, old, "done"))
           x == Unchecked(Replace(k.by, new, "done"))
<1>1. /\ k # None /\ ReadOnly /\ k.op = "supersede" /\ k.id # k.by /\ k.old # None
      /\ rows[k.id] \in {None, k.old}
  BY DEF ReadSupersede, Reading, Fresh, UpToDate, Superseding
<1>2. k.id \in CapsuleIds /\ k.by \in CapsuleIds /\ clock \in Nat
  BY <1>1, ReplacedCall
<1>3. CASE Finish(a, "error")
  BY <1>1, <1>3, FreshFinish
<1>4. CASE Selected(k, k.by) /\ Plan(a, <<w, x>>)
  <2>1. Sound(k.old) /\ Sound(rows[k.by])
    BY <1>1, <1>2, <1>4 DEF Selected, IInv, Stored, Held, Holding
  <2>2. Grown(k.old, old) /\ Grown(rows[k.by], new)
    BY <1>2, <2>1, SetLifecycleParts DEF Lifecycles
  <2>3. /\ w.kind = "replace" /\ w.id = k.id /\ w.body = old
        /\ x.kind = "replace" /\ x.id = k.by /\ x.body = new
    BY DEF Replace, Unchecked
  <2> HIDE DEF w, x, old, new
  <2>4. Fits(a, w) /\ Fits(a, x)
    BY <1>1, <2>2, <2>3 DEF Fits
  <2> QED
    BY <1>1, <1>4, <2>3, <2>4, FreshTwo
<1> QED
  BY <1>3, <1>4 DEF ReadSupersede

(* A request arrives.                                                      *)
LEMMA FreshStart ==
  ASSUME Alone, IInv, Fresh, NEW a \in Agents, NEW request, Start(a, request),
         issued \subseteq issued',
         request.op = "record" => request.id \in issued' /\ request.id \in CapsuleIds \ issued,
         request.op = "supersede" => request.id # request.by /\ request.old = None
  PROVE  Fresh'
<1>1. /\ call'[a] = request /\ todo' = todo /\ rows' = rows /\ call[a] = None
      /\ Stored \subseteq issued
  BY DEF Start, IInv, TypeOK, Fresh
<1>2. todo'[a] = <<>> /\ Stored' \subseteq issued'
  BY <1>1 DEF Fresh, Stored
<1>3. Recording(a)' => call'[a].id \in issued' /\ rows'[call'[a].id] = None
  BY <1>1 DEF Recording, Stored
<1> QED
  BY <1>1, <1>2, <1>3, FreshIdle DEF UpToDate, Superseding

LEMMA FitsStays ==
  ASSUME NEW a, NEW x, Fits(a, x), call'[a] = call[a], rows'[x.id] = rows[x.id],
         x.kind = "append" => x.body.lifecycle # "active"
  PROVE  Fits(a, x)'
BY DEF Fits

(* One of the planned writes: the others are of other capsules.            *)
LEMMA FreshWrite ==
  ASSUME Alone, IInv, Fresh, NEW a \in Agents, Write(a)
  PROVE  Fresh'
<1> DEFINE w == Head(todo[a])
           n == Len(todo[a])
<1>1. todo[a] \in Seq(Writes) /\ todo[a] # <<>> /\ n \in Nat \ {0} /\ DOMAIN todo[a] = 1..n
  BY DEF IInv, TypeOK, Write
<1>2. w = todo[a][1] /\ 1 \in DOMAIN todo[a] /\ w \in Writes /\ w.id \in CapsuleIds
  <2>1. w = todo[a][1] /\ 1 \in DOMAIN todo[a]
    BY <1>1
  <2>2. todo[a][1] \in Writes
    BY <1>1, <2>1
  <2> QED
    BY <2>1, <2>2 DEF Writes
<1>3. /\ rows' = rows \/ (Accepted(w) /\ rows' = [rows EXCEPT ![w.id] = w.body])
      /\ issued' = issued
  BY DEF Write
<1>4. \/ \E result : Finish(a, result)
      \/ n > 1 /\ Plan(a, Tail(todo[a]))
  BY DEF Write
<1>5. call[a] # None /\ Planned(a) /\ Fits(a, w) /\ Stored \subseteq issued
  BY <1>1, <1>2 DEF Fresh, Planned
<1>6. w.kind = "append" => w.id \in issued
  BY <1>5 DEF Fits, Fresh, Recording
<1>7. Stored' \subseteq issued'
  <2> SUFFICES ASSUME NEW c \in Stored' PROVE c \in issued
    BY <1>3
  <2>1. CASE rows[c] # None
    BY <1>5, <2>1 DEF Stored
  <2>2. CASE rows[c] = None
    <3>1. Accepted(w) /\ c = w.id
      BY <1>3, <2>2 DEF Stored, IInv, TypeOK
    <3>2. w.kind = "append"
      BY <1>2, <2>2, <3>1 DEF Accepted
    <3> QED
      BY <1>6, <3>1, <3>2
  <2> QED
    BY <2>1, <2>2
<1>8. CASE \E result : Finish(a, result)
  <2>1. todo'[a] = <<>> /\ call'[a] = None
    BY <1>8 DEF Finish, IInv, TypeOK
  <2> QED
    BY <1>7, <2>1, FreshIdle DEF Recording, UpToDate, Superseding
<1>9. CASE n > 1 /\ Plan(a, Tail(todo[a]))
  <2> DEFINE rest == Tail(todo[a])
  <2>1. /\ DOMAIN rest = 1..(n - 1) /\ Len(rest) = n - 1
        /\ \A i \in 1..(n - 1) : i + 1 \in 1..n /\ rest[i] = todo[a][i + 1] /\ i + 1 # 1
    BY <1>1
  <2>2. todo'[a] = rest /\ call' = call /\ \A b \in Agents : b = a
    BY <1>9 DEF Plan, IInv, TypeOK, Alone
  <2>3. w.kind = "replace" /\ n # 1
    BY <1>1, <1>2, <1>5, <1>9 DEF Planned, Writes
  <2>4. \A c \in CapsuleIds : c # w.id => rows'[c] = rows[c]
    BY <1>3 DEF IInv, TypeOK
  <2>5. \A c \in CapsuleIds : rows[c] = None => rows'[c] = None
    BY <1>2, <1>3, <2>3 DEF Accepted, IInv, TypeOK
  <2> HIDE DEF rest, w
  <2>6. ASSUME NEW i \in 1..(n - 1), NEW x, x = rest[i]
        PROVE  /\ Fits(a, x)'
               /\ x.kind = "append" => i = n - 1 /\ x.body.lifecycle # "active"
               /\ \A j \in 1..(n - 1) : rest[j].id = x.id => i = j
    <3>1. i + 1 \in 1..n /\ x = todo[a][i + 1] /\ i + 1 # 1 /\ i \in Nat
      BY <1>1, <2>1, <2>6
    <3>2. Fits(a, x) /\ x.id # w.id
      BY <1>1, <1>2, <1>5, <3>1 DEF Planned
    <3>3. x.kind = "append" => i + 1 = n /\ x.body.lifecycle # "active"
      BY <1>1, <1>5, <2>3, <3>1 DEF Planned
    <3>4. x \in Writes
      BY <1>1, <3>1
    <3>5. x.id \in CapsuleIds
      BY <3>4 DEF Writes
    <3>6. call'[a] = call[a] /\ rows'[x.id] = rows[x.id]
      BY <2>2, <2>4, <3>2, <3>5
    <3>7. Fits(a, x)'
      BY <3>2, <3>3, <3>6, FitsStays
    <3>8. \A j \in 1..(n - 1) : rest[j].id = x.id => i = j
      <4> SUFFICES ASSUME NEW j \in 1..(n - 1), rest[j].id = x.id PROVE i = j
        OBVIOUS
      <4>1. j + 1 \in 1..n /\ todo[a][j + 1].id = todo[a][i + 1].id
        BY <2>1, <3>1
      <4>2. i + 1 = j + 1
        BY <1>1, <1>5, <3>1, <4>1 DEF Planned
      <4> QED
        BY <1>1, <3>1, <4>2
    <3>9. i + 1 = n => i = n - 1
      BY <1>1, <3>1
    <3> QED
      BY <3>3, <3>7, <3>8, <3>9
  <2>7. Planned(a)'
    <3> SUFFICES ASSUME NEW i \in DOMAIN todo'[a]
                 PROVE  /\ Fits(a, todo[a][i])'
                        /\ todo'[a][i].kind = "append" =>
                             i = Len(todo'[a]) /\ (todo'[a][i].body.lifecycle = "active" => Len(todo'[a]) = 1)
                        /\ \A j \in DOMAIN todo'[a] : todo'[a][j].id = todo'[a][i].id => i = j
      BY DEF Planned
    <3>1. PICK x : x = todo'[a][i]
      OBVIOUS
    <3>2. i \in 1..(n - 1) /\ x = rest[i]
      BY <2>1, <2>2, <3>1
    <3>3. /\ Fits(a, x)'
          /\ x.kind = "append" => i = n - 1 /\ x.body.lifecycle # "active"
          /\ \A j \in 1..(n - 1) : rest[j].id = x.id => i = j
      BY <2>6, <3>2
    <3>4. Fits(a, todo[a][i])'
      BY <3>1, <3>3 DEF Fits
    <3> QED
      BY <2>1, <2>2, <3>1, <3>3, <3>4
  <2>8. Recording(a)' => call'[a].id \in issued' /\ rows'[call'[a].id] = None
    <3>1. Recording(a) => call[a].id \in issued /\ rows[call[a].id] = None /\ call[a].id \in CapsuleIds
      BY DEF Fresh, IInv, TypeOK
    <3> QED
      BY <1>3, <2>2, <2>5, <3>1 DEF Recording
  <2>9. todo'[a] # <<>>
    BY <1>9, <2>1, <2>2
  <2>10. UpToDate(a)'
    BY <2>2, <2>9 DEF Fresh, UpToDate, Superseding
  <2> QED
    BY <1>5, <1>7, <2>2, <2>7, <2>8, <2>9, <2>10 DEF Fresh
<1> QED
  BY <1>4, <1>8, <1>9

LEMMA FreshForget ==
  ASSUME IInv, Fresh, NEW p \in Projects, Forget(p)
  PROVE  Fresh'
<1>1. \A c \in CapsuleIds : rows'[c] = None \/ rows'[c] = rows[c]
  BY DEF Forget
<1>2. UNCHANGED <<issued, call, todo>> /\ Stored' \subseteq Stored
  BY <1>1 DEF Forget, agentVars, Stored
<1>3. \A a \in Agents : \A i \in DOMAIN todo[a] : todo[a][i].id \in CapsuleIds
  <2> SUFFICES ASSUME NEW a \in Agents, NEW i \in DOMAIN todo[a] PROVE todo[a][i].id \in CapsuleIds
    OBVIOUS
  <2>1. todo[a] \in Seq(Writes)
    BY DEF IInv, TypeOK
  <2>2. todo[a][i] \in Writes
    BY <2>1
  <2> QED
    BY <2>2 DEF Writes
<1>4. \A a \in Agents : Planned(a)'
  <2> SUFFICES ASSUME NEW a \in Agents, NEW i \in DOMAIN todo[a]
               PROVE  Fits(a, todo[a][i])'
    BY <1>2 DEF Planned, Fresh
  <2>1. Fits(a, todo[a][i])
    BY DEF Fresh, Planned
  <2>2. \A c \in Stored' : c \in Stored /\ rows'[c] = rows[c]
    BY <1>1 DEF Stored
  <2> QED
    BY <1>1, <1>2, <1>3, <2>1, <2>2 DEF Fits
<1>5. \A a \in Agents : Recording(a)' => call'[a].id \in issued' /\ rows'[call'[a].id] = None
  <2> SUFFICES ASSUME NEW a \in Agents, Recording(a)
               PROVE  call[a].id \in issued /\ rows'[call[a].id] = None
    BY <1>2 DEF Recording
  <2>1. call[a].id \in issued /\ rows[call[a].id] = None /\ call[a].id \in CapsuleIds
    BY DEF Fresh, IInv, TypeOK
  <2> QED
    BY <1>1, <2>1
<1>6. \A a \in Agents : UpToDate(a)'
  <2> SUFFICES ASSUME NEW a \in Agents, Superseding(a) PROVE UpToDate(a)'
    BY <1>2 DEF UpToDate, Superseding
  <2>1. UpToDate(a) /\ call[a].id \in CapsuleIds
    BY ReplacedCall DEF Fresh, Superseding
  <2> QED
    BY <1>1, <1>2, <2>1 DEF UpToDate, Superseding
<1> QED
  BY <1>2, <1>4, <1>5, <1>6 DEF Fresh

LEMMA FreshSame ==
  ASSUME Fresh, UNCHANGED <<rows, issued, call, todo>>
  PROVE  Fresh'
BY DEF Fresh, Planned, Fits, Stored, Recording, UpToDate, Superseding

LEMMA InitFresh == Init => Fresh
<1> SUFFICES ASSUME Init PROVE Fresh
  OBVIOUS
<1>1. \A a \in Agents : todo[a] = <<>> /\ DOMAIN todo[a] = {} /\ call[a] = None
  BY DEF Init
<1>2. Stored \subseteq issued
  BY DEF Init, Stored
<1> QED
  BY <1>1, <1>2 DEF Fresh, Planned, Recording, UpToDate, Superseding

LEMMA FreshStep == Alone /\ IInv /\ Fresh /\ [Next]_vars => Fresh'
<1> SUFFICES ASSUME Alone, IInv, Fresh, [Next]_vars PROVE Fresh'
  OBVIOUS
<1>1. ASSUME NEW a \in Agents, StartRecord(a) PROVE Fresh'
  <2>1. PICK c \in CapsuleIds \ issued, t \in Topics, l \in Lessons, v \in Caveats,
             o \in Outcomes, env \in Envs, s \in Scopes :
          /\ issued' = issued \cup {c}
          /\ Start(a, [op |-> "record", at |-> clock, scope |-> s, bucket |-> Bucket(a, s),
                       origin |-> Current(a), id |-> c, topic |-> t, lesson |-> l, caveat |-> v, outcome |-> o, env |-> env])
    BY <1>1 DEF StartRecord
  <2> QED
    BY <2>1, FreshStart
<1>2. ASSUME NEW a \in Agents, StartConfirm(a) \/ StartTransition(a) PROVE Fresh'
  BY <1>2, FreshStart DEF StartConfirm, StartTransition
<1>3. ASSUME NEW a \in Agents, StartSupersede(a) PROVE Fresh'
  BY <1>3, FreshStart DEF StartSupersede
<1>4. ASSUME NEW a \in Agents,
             \/ ReadRecord(a) \/ ReadConfirm(a) \/ ReadTransition(a)
             \/ ReadReplaced(a) \/ ReadSupersede(a) \/ Write(a)
      PROVE  Fresh'
  BY <1>4, FreshRecord, FreshConfirm, FreshTransition, FreshReplaced, FreshSupersede, FreshWrite
<1>5. ASSUME NEW a \in Agents, Crash(a) PROVE Fresh'
  BY <1>5, FreshFinish DEF Crash
<1>6. CASE Tick \/ UNCHANGED vars
  BY <1>6, FreshSame DEF Tick, vars, tableVars, agentVars
<1> QED
  BY <1>1, <1>2, <1>3, <1>4, <1>5, <1>6, FreshForget DEF Next

(* A capsule that is in the table after a step was there, or was written by *)
(* a plan that fits.                                                       *)
LEMMA Changes ==
  ASSUME Alone, IInv, Fresh, [Next]_vars, NEW c \in CapsuleIds,
         rows'[c] # rows[c], rows'[c] # None
  PROVE  \E a \in Agents, w \in Writes :
           /\ Write(a) /\ call[a] \in Calls /\ Writing(call[a].op)
           /\ Fits(a, w) /\ w.id = c /\ w.body = rows'[c]
           /\ w.kind = IF rows[c] = None THEN "append" ELSE "replace"
<1>1. PICK a \in Agents : Write(a)
  <2>1. \/ \E a \in Agents : Write(a)
        \/ rows' = rows
        \/ \E p \in Projects : Forget(p)
    BY DEF Next, Start, StartRecord, StartConfirm, StartTransition, StartSupersede, ReadRecord, ReadConfirm,
           ReadTransition, ReadReplaced, ReadSupersede, ReadOnly, Crash, Tick, tableVars, vars
  <2>2. \A p \in Projects : Forget(p) => rows'[c] = rows[c] \/ rows'[c] = None
    BY DEF Forget
  <2> QED
    BY <2>1, <2>2
<1> DEFINE w == Head(todo[a])
<1>2. todo[a] \in Seq(Writes) /\ todo[a] # <<>>
  BY <1>1 DEF IInv, TypeOK, Write
<1>3. w = todo[a][1] /\ 1 \in DOMAIN todo[a] /\ Len(Tail(todo[a])) # Len(todo[a])
  BY <1>2
<1>4. todo[a][1] \in Writes
  BY <1>2, <1>3
<1>5. Fits(a, w) /\ call[a] # None /\ call[a] \in Calls
  BY <1>2, <1>3 DEF Fresh, Planned, IInv, TypeOK
<1>6. todo'[a] = <<>> \/ todo'[a] = Tail(todo[a])
  BY <1>1 DEF Write, Finish, Plan, IInv, TypeOK
<1>7. todo'[a] # todo[a]
  <2>1. CASE todo'[a] = <<>>
    BY <1>2, <2>1
  <2>2. CASE todo'[a] = Tail(todo[a])
    <3> HIDE DEF w
    <3> QED
      BY <1>3, <2>2, Zenon
  <2> QED
    BY <1>6, <2>1, <2>2
<1>8. Writing(call[a].op)
  BY <1>2, <1>5, <1>7 DEF Writing
<1>9. Accepted(w) /\ rows' = [rows EXCEPT ![w.id] = w.body]
  BY <1>1 DEF Write
<1>10. w.id = c /\ w.body = rows'[c] /\ w \in Writes
  BY <1>3, <1>4, <1>9 DEF IInv, TypeOK
<1>11. w.kind = IF rows[c] = None THEN "append" ELSE "replace"
  BY <1>9, <1>10 DEF Accepted, Writes
<1> HIDE DEF w
<1> QED
  BY <1>1, <1>5, <1>8, <1>10, <1>11

(* While one process works at a time no report is lost: a write keeps what  *)
(* the capsule had, but for the oldest entry of a full log, and adds at     *)
(* most one entry (architecture.md: a confirmation "appends one evidence    *)
(* entry to exactly that capsule").                                        *)
THEOREM NothingLost ==
  ASSUME Alone
  PROVE  Spec => NoLostUpdate
<1>1. ASSUME IInv, Fresh, [Next]_vars, NEW c \in Stored, c \in Stored'
      PROVE  Grown(rows[c], rows'[c])
  <2>1. CASE rows'[c] = rows[c]
    BY <2>1, SameLogGrown
  <2>2. CASE rows'[c] # rows[c]
    <3>1. c \in CapsuleIds /\ rows[c] # None /\ rows'[c] # None
      BY <1>1 DEF Stored
    <3> QED
      BY <1>1, <2>2, <3>1, Changes DEF Fits
  <2> QED
    BY <2>1, <2>2
<1>2. IInv /\ Fresh /\ [Next]_vars =>
        [\A c \in Stored : c \in Stored' =>
           LET old == rows[c].evidence
               new == rows'[c].evidence IN
             /\ \/ new = old
                \/ SubSeq(new, 1, Len(new) - 1) =
                     IF Len(old) = MaxEvidence THEN Tail(old) ELSE old
             /\ rows[c].caveat => rows'[c].caveat]_vars
  BY <1>1 DEF Grown
<1> QED
  BY <1>2, InitIInv, InvStep, InitFresh, FreshStep, PTL DEF Spec, NoLostUpdate

(* architecture.md: "Recovery requires three distinct supporting           *)
(* post-challenge cohorts; opposing evidence resets progress": while one    *)
(* process works at a time a report reactivates a challenged capsule only   *)
(* with that many cohorts after the challenge and the last opposition, for  *)
(* every threshold and bound, as far as its log is complete.               *)
THEOREM EarnedRecovery ==
  ASSUME Alone
  PROVE  Spec => RecoveryEarned
<1>1. ASSUME IInv, Fresh, [Next]_vars, NEW c \in Stored, c \in Stored', ~Writing("supersede")
      PROVE  Earned(rows[c], rows'[c])
  <2>1. CASE rows'[c] = rows[c]
    BY <2>1 DEF Earned
  <2>2. CASE rows'[c] # rows[c]
    <3>1. c \in CapsuleIds /\ rows[c] # None /\ rows'[c] # None
      BY <1>1 DEF Stored
    <3> QED
      BY <1>1, <2>2, <3>1, Changes DEF Fits
  <2> QED
    BY <2>1, <2>2
<1>2. IInv /\ Fresh /\ [Next]_vars =>
        [\A c \in Stored :
           /\ rows[c].lifecycle = "challenged" /\ Complete(rows[c], StateOf(rows[c]))
           /\ c \in Stored' /\ rows'[c].lifecycle = "active"
           /\ ~Writing("supersede")
           => LET state == StateOf(rows[c])
                  proof == Unopposed(rows'[c], state.supporting)
                             \cap SupportingOf(rows'[c], state)
                  cohort(i) == <<Day(rows'[c].evidence[i].at), rows'[c].evidence[i].env>>
              IN Cardinality({cohort(i) : i \in proof}) >= Required]_vars
  BY <1>1 DEF Earned, CohortsAt, Cohort
<1> QED
  BY <1>2, InitIInv, InvStep, InitFresh, FreshStep, PTL DEF Spec, RecoveryEarned

(* architecture.md: "`obsolete` retires a lesson": while one process works  *)
(* at a time no report changes a retired capsule, only transition and       *)
(* supersede do.                                                           *)
THEOREM RetiredStay ==
  ASSUME Alone
  PROVE  Spec => RetiredIsFrozen
<1>1. ASSUME IInv, Fresh, [Next]_vars, NEW c \in Stored, c \in Stored',
             Retired(rows[c]), rows'[c] # rows[c]
      PROVE  Writing("transition") \/ Writing("supersede")
  <2>1. c \in CapsuleIds /\ rows[c] # None /\ rows'[c] # None
    BY <1>1 DEF Stored
  <2>2. PICK a \in Agents, w \in Writes :
           /\ call[a] \in Calls /\ Writing(call[a].op)
           /\ Fits(a, w) /\ w.id = c /\ w.kind = "replace"
    BY <1>1, <2>1, Changes
  <2>3. call[a].op \in {"record", "confirm", "transition", "supersede"}
    BY <2>2 DEF Calls, RecordCalls, ConfirmCalls, TransitionCalls, SupersedeCalls
  <2>4. call[a].op \notin {"record", "confirm"}
    BY <1>1, <2>1, <2>2 DEF Fits
  <2> QED
    BY <2>2, <2>3, <2>4
<1>2. IInv /\ Fresh /\ [Next]_vars =>
        [\A c \in Stored :
           Retired(rows[c]) /\ c \in Stored' /\ rows'[c] # rows[c]
             => Writing("transition") \/ Writing("supersede")]_vars
  BY <1>1
<1> QED
  BY <1>2, InitIInv, InvStep, InitFresh, FreshStep, PTL DEF Spec, RetiredIsFrozen

(* v0.8-plan.md: "`experience record` confirms an equivalent active capsule *)
(* instead of inserting a paraphrase duplicate": while one process works at *)
(* a time an active capsule is inserted only when none in use is equivalent.*)
THEOREM OneOfAKind ==
  ASSUME Alone
  PROVE  Spec => RecordsOnce
<1>1. ASSUME IInv, Fresh, [Next]_vars, NEW c \in Stored' \ Stored, rows'[c].lifecycle = "active",
             NEW d \in Stored, rows[d].topic = rows'[c].topic, SameBucket(rows[d], rows'[c])
      PROVE  Retired(rows[d])
  <2>1. c \in CapsuleIds /\ rows[c] = None /\ rows'[c] # None
    BY DEF Stored
  <2> QED
    BY <1>1, <2>1, Changes DEF Fits
<1>2. IInv /\ Fresh /\ [Next]_vars =>
        [\A c \in Stored' \ Stored :
           rows'[c].lifecycle = "active" =>
             \A d \in Stored : rows[d].topic = rows'[c].topic /\ SameBucket(rows[d], rows'[c])
                             => Retired(rows[d])]_vars
  BY <1>1
<1> QED
  BY <1>2, InitIInv, InvStep, InitFresh, FreshStep, PTL DEF Spec, RecordsOnce

-----------------------------------------------------------------------------
(* A contradiction, when nothing is forgotten meanwhile: neither of its two *)
(* writes is checked, so an identity that ended in between would leave one  *)
(* side unmarked.                                                          *)
NothingForgotten == MaxForgets = 0

(* A contradiction, before each of its two writes.                          *)
BothAhead(a) ==
  /\ Len(todo[a]) = 2
  /\ LET w == todo[a][1] IN
       /\ w.kind = "replace" /\ ~w.checked /\ w.id # call[a].id /\ rows[w.id] # None
       /\ w.body.topic = call[a].topic /\ w.body.lesson # call[a].lesson
       /\ w.body.lifecycle = "challenged" /\ Live(w.body.origin)

OneMarked(a) ==
  /\ Len(todo[a]) = 1
  /\ \E c \in Stored \ {call[a].id} :
       rows[c].topic = call[a].topic /\ rows[c].lesson # call[a].lesson
         /\ rows[c].lifecycle = "challenged"

Marking(a) ==
  \A i \in DOMAIN todo[a] : todo[a][i].result = "challenged" =>
    /\ Recording(a) /\ (BothAhead(a) \/ OneMarked(a))
    /\ LET x == todo[a][Len(todo[a])] IN
         /\ x.kind = "append" /\ x.id = call[a].id /\ ~x.checked
         /\ x.body.lifecycle = "challenged" /\ Live(x.body.origin)

Marked == \A a \in Agents : Marking(a) /\ (Recording(a) => Live(call[a].origin))

(* The only process has nothing planned, or nothing that marks.            *)
LEMMA MarkedIdle ==
  ASSUME Alone, NEW a \in Agents, todo'[a] = <<>>,
         Recording(a)' => Live(call[a].origin)'
  PROVE  Marked'
<1>1. DOMAIN todo'[a] = {} /\ \A b \in Agents : b = a
  BY DEF Alone
<1> QED
  BY <1>1 DEF Marked, Marking

LEMMA MarkedSame ==
  ASSUME Alone, IInv, Marked, NEW a \in Agents, UNCHANGED <<call, generation>>,
         \A i \in DOMAIN todo'[a] : todo'[a][i].result # "challenged"
  PROVE  Marked'
<1>1. \A b \in Agents : b = a
  BY DEF Alone
<1> QED
  BY <1>1 DEF Marked, Marking, Recording, Live

LEMMA MarkedOne ==
  ASSUME Alone, IInv, Marked, NEW a \in Agents, NEW w, w.result # "challenged",
         Plan(a, <<w>>), ReadOnly
  PROVE  Marked'
<1>1. todo'[a] = <<w>> /\ UNCHANGED <<call, generation>>
  BY DEF Plan, ReadOnly, IInv, TypeOK
<1>2. \A i \in DOMAIN todo'[a] : todo'[a][i] = w
  BY <1>1
<1> QED
  BY <1>1, <1>2, MarkedSame

LEMMA MarkedFinish ==
  ASSUME Alone, IInv, NEW a \in Agents, NEW result, Finish(a, result)
  PROVE  Marked'
<1>1. todo'[a] = <<>> /\ call'[a] = None
  BY DEF Finish, IInv, TypeOK
<1> QED
  BY <1>1, MarkedIdle DEF Recording

LEMMA MarkedStart ==
  ASSUME Alone, IInv, Fresh, NEW a \in Agents, NEW request, Start(a, request),
         request.op = "record" => request.origin = Current(a)
  PROVE  Marked'
<1>1. /\ call'[a] = request /\ todo' = todo /\ generation' = generation /\ call[a] = None
  BY DEF Start, IInv, TypeOK
<1>2. todo'[a] = <<>>
  BY <1>1 DEF Fresh
<1>3. Live(Current(a))
  BY DEF Live, Current, Identity
<1>4. Recording(a)' => Live(call[a].origin)'
  BY <1>1, <1>3 DEF Recording, Live
<1> QED
  BY <1>2, <1>4, MarkedIdle

LEMMA MarkedRecord ==
  ASSUME Alone, IInv, Fresh, Marked, NEW a \in Agents, ReadRecord(a)
  PROVE  Marked'
<1> DEFINE k == call[a]
<1>1. k \in RecordCalls /\ Recording(a) /\ ReadOnly /\ k.at \in Nat /\ rows[k.id] = None /\ Live(k.origin)
  <2>1. k \in Calls /\ k.op = "record" /\ k # None
    BY DEF IInv, TypeOK, ReadRecord, Reading
  <2>2. k \in RecordCalls
    BY <2>1 DEF Calls, RecordCalls, ConfirmCalls, TransitionCalls, SupersedeCalls
  <2> QED
    BY <2>1, <2>2, ExperienceAssumption DEF RecordCalls, ReadRecord, Fresh, Recording, Marked
<1>2. ASSUME NEW c, NEW body, NEW result, result # "challenged",
             Plan(a, <<Replace(c, body, result)>>) \/ Plan(a, <<Insert(c, body, result)>>)
      PROVE  Marked'
  <2>1. Replace(c, body, result).result # "challenged" /\ Insert(c, body, result).result # "challenged"
    BY <1>2 DEF Replace, Insert
  <2> QED
    BY <1>1, <1>2, <2>1, MarkedOne
<1>3. ASSUME NEW c \in Equivalents(k), Contradicts(k, c), Plan(a, ChallengeBoth(k, c))
      PROVE  Marked'
  <2> DEFINE w == Unchecked(Replace(c, Challenge(rows[c], k.at), "challenged"))
             x == Unchecked(Insert(k.id, Challenge(Candidate(k), k.at), "challenged"))
  <2>1. c \in Stored /\ c # k.id /\ Sound(rows[c]) /\ rows[c].topic = k.topic /\ rows[c].lesson # k.lesson
    BY <1>1, <1>3 DEF Equivalents, Contradicts, IInv, Stored
  <2>2. Live(rows[c].origin)
    BY <2>1 DEF IInv, ForgottenNeverReturn
  <2>3. /\ w.kind = "replace" /\ w.id = c /\ w.body = Challenge(rows[c], k.at) /\ ~w.checked
        /\ x.kind = "append" /\ x.id = k.id /\ x.body = Challenge(Candidate(k), k.at) /\ ~x.checked
    BY DEF Unchecked, Insert, Replace
  <2>4. Sound(Candidate(k)) /\ Candidate(k).origin = k.origin
    BY <1>1, CandidateSound DEF Candidate
  <2>5. /\ w.body.lifecycle = "challenged" /\ w.body.topic = k.topic /\ w.body.lesson # k.lesson
        /\ w.body.origin = rows[c].origin
        /\ x.body.lifecycle = "challenged" /\ x.body.origin = k.origin
    BY <2>1, <2>3, <2>4 DEF Challenge, Sound, Fit, Capsules
  <2>6. Plan(a, <<w, x>>)
    BY <1>3 DEF ChallengeBoth
  <2> HIDE DEF w, x
  <2>7. /\ todo'[a] = <<w, x>> /\ UNCHANGED <<call, generation, rows>> /\ \A b \in Agents : b = a
    BY <1>1, <2>6 DEF Plan, ReadOnly, tableVars, IInv, TypeOK, Alone
  <2>8. DOMAIN todo'[a] = {1, 2} /\ Len(todo'[a]) = 2 /\ todo'[a][1] = w /\ todo'[a][2] = x
    BY <2>7
  <2>9. BothAhead(a)'
    BY <2>1, <2>2, <2>3, <2>5, <2>7, <2>8 DEF BothAhead, Live, Stored
  <2>10. Marking(a)'
    BY <1>1, <2>3, <2>5, <2>7, <2>8, <2>9 DEF Marking, Live, Recording
  <2> QED
    BY <1>1, <2>7, <2>10 DEF Marked, Live
<1>4. CASE Finish(a, "duplicate")
  BY <1>4, MarkedFinish
<1> QED
  BY <1>2, <1>3, <1>4 DEF ReadRecord

LEMMA MarkedRead ==
  ASSUME Alone, IInv, Fresh, Marked, NEW a \in Agents,
         ReadConfirm(a) \/ ReadTransition(a) \/ ReadReplaced(a) \/ ReadSupersede(a)
  PROVE  Marked'
<1>1. ReadOnly
  BY DEF ReadConfirm, ReadTransition, ReadReplaced, ReadSupersede
<1>2. ASSUME NEW c, NEW body, NEW result, result # "challenged",
             \/ Plan(a, <<Replace(c, body, result)>>)
             \/ Plan(a, <<Unchecked(Replace(c, body, result))>>)
      PROVE  Marked'
  <2>1. /\ Replace(c, body, result).result # "challenged"
        /\ Unchecked(Replace(c, body, result)).result # "challenged"
    BY <1>2 DEF Replace, Unchecked
  <2> QED
    BY <1>1, <1>2, <2>1, MarkedOne
<1>3. ASSUME NEW c, NEW body, NEW d, NEW other,
             Plan(a, <<Unchecked(Replace(c, body, "done")), Unchecked(Replace(d, other, "done"))>>)
      PROVE  Marked'
  <2> DEFINE w == Unchecked(Replace(c, body, "done"))
             x == Unchecked(Replace(d, other, "done"))
  <2>1. w.result = "done" /\ x.result = "done"
    BY DEF Replace, Unchecked
  <2> HIDE DEF w, x
  <2>2. todo'[a] = <<w, x>> /\ UNCHANGED <<call, generation>>
    BY <1>1, <1>3 DEF Plan, ReadOnly, IInv, TypeOK, w, x
  <2>3. \A i \in DOMAIN todo'[a] : todo'[a][i] \in {w, x}
    BY <2>2
  <2> QED
    BY <2>1, <2>2, <2>3, MarkedSame
<1>4. ASSUME NEW result, Finish(a, result) PROVE Marked'
  BY <1>4, MarkedFinish
<1>5. CASE ReadConfirm(a)
  BY <1>2, <1>4, <1>5 DEF ReadConfirm
<1>6. CASE ReadTransition(a)
  BY <1>2, <1>4, <1>6 DEF ReadTransition
<1>7. CASE ReadSupersede(a)
  BY <1>3, <1>4, <1>7 DEF ReadSupersede
<1>8. CASE ReadReplaced(a)
  <2>1. CASE Finish(a, "error")
    BY <1>4, <2>1
  <2>2. CASE call' = [call EXCEPT ![a].old = rows[call[a].id]] /\ UNCHANGED todo
    <3>1. call[a] # None /\ call[a].op = "supersede" /\ todo[a] = <<>>
      BY <1>8 DEF ReadReplaced, Reading
    <3>2. call[a] \in SupersedeCalls
      BY <3>1, ReplacedCall
    <3>3. call'[a].op = "supersede" /\ todo'[a] = <<>>
      BY <2>2, <3>1, <3>2 DEF IInv, TypeOK, SupersedeCalls
    <3> QED
      BY <3>3, MarkedIdle DEF Recording
  <2> QED
    BY <1>8, <2>1, <2>2 DEF ReadReplaced
<1> QED
  BY <1>5, <1>6, <1>7, <1>8

(* The first side is marked when the second is still to be inserted.       *)
LEMMA MarkedWrite ==
  ASSUME Alone, IInv, Fresh, Marked, NEW a \in Agents, Write(a)
  PROVE  Marked'
<1> DEFINE w == Head(todo[a])
           rest == Tail(todo[a])
           n == Len(todo[a])
<1>1. /\ todo[a] \in Seq(Writes) /\ todo[a] # <<>> /\ n \in Nat \ {0} /\ DOMAIN todo[a] = 1..n
      /\ w = todo[a][1]
      /\ DOMAIN rest = 1..(n - 1) /\ Len(rest) = n - 1
      /\ \A i \in 1..(n - 1) : i + 1 \in 1..n /\ rest[i] = todo[a][i + 1]
  BY DEF IInv, TypeOK, Write
<1>2. \/ \E result : Finish(a, result)
      \/ n > 1 /\ Plan(a, rest)
  BY DEF Write
<1>3. generation' = generation /\ \A b \in Agents : b = a
  BY DEF Write, Alone
<1>4. CASE n > 1 /\ Plan(a, rest)
  <2>1. todo'[a] = rest /\ call' = call
    BY <1>4 DEF Plan, IInv, TypeOK
  <2>2. CASE \E i \in DOMAIN rest : rest[i].result = "challenged"
    <3>1. /\ Recording(a) /\ BothAhead(a) /\ n = 2
          /\ LET x == todo[a][n] IN
               /\ x.kind = "append" /\ x.id = call[a].id /\ ~x.checked
               /\ x.body.lifecycle = "challenged" /\ Live(x.body.origin)
      <4>1. PICK i \in 1..(n - 1) : todo[a][i + 1].result = "challenged" /\ i + 1 \in 1..n
        BY <1>1, <2>2
      <4>2. ~OneMarked(a)
        BY <1>1, <1>4 DEF OneMarked
      <4> QED
        BY <1>1, <4>1, <4>2 DEF Marked, Marking, BothAhead
    <3>2. /\ w.kind = "replace" /\ w.id # call[a].id /\ rows[w.id] # None
          /\ w.body.topic = call[a].topic /\ w.body.lesson # call[a].lesson
          /\ w.body.lifecycle = "challenged" /\ Live(w.body.origin)
      BY <1>1, <3>1 DEF BothAhead
    <3>3. Sound(w.body) /\ w.id \in CapsuleIds /\ w.body # None
      <4>1. w \in Writes /\ 1 \in DOMAIN todo[a]
        BY <1>1
      <4> QED
        BY <1>1, <4>1, ExperienceAssumption DEF IInv, Pending, Writes
    <3>4. rows' = [rows EXCEPT ![w.id] = w.body]
      BY <3>2, <3>3 DEF Write, Accepted, Sound, Fit
    <3> HIDE DEF w, rest
    <3>5. rows'[w.id] = w.body /\ w.id \in Stored'
      BY <3>3, <3>4 DEF IInv, TypeOK, Stored
    <3>6. Len(rest) = 1 /\ DOMAIN rest = {1} /\ rest[1] = todo[a][n]
      BY <1>1, <3>1
    <3>7. OneMarked(a)'
      BY <2>1, <3>2, <3>5, <3>6 DEF OneMarked
    <3>8. Marking(a)'
      BY <1>3, <2>1, <3>1, <3>6, <3>7 DEF Marking, Recording, Live
    <3> QED
      BY <1>3, <2>1, <3>1, <3>8 DEF Marked, Recording, Live
  <2>3. CASE ~ \E i \in DOMAIN rest : rest[i].result = "challenged"
    BY <1>3, <2>1, <2>3, MarkedSame
  <2> QED
    BY <2>2, <2>3
<1> QED
  BY <1>2, <1>4, MarkedFinish

LEMMA MarkedStep == NothingForgotten /\ Alone /\ IInv /\ Fresh /\ Marked /\ [Next]_vars => Marked'
<1> SUFFICES ASSUME NothingForgotten, Alone, IInv, Fresh, Marked, [Next]_vars PROVE Marked'
  OBVIOUS
<1>1. ASSUME NEW a \in Agents, StartRecord(a) \/ StartConfirm(a) \/ StartTransition(a) \/ StartSupersede(a)
      PROVE  Marked'
  BY <1>1, MarkedStart DEF StartRecord, StartConfirm, StartTransition, StartSupersede
<1>2. ASSUME NEW a \in Agents, Crash(a) PROVE Marked'
  BY <1>2, MarkedFinish DEF Crash
<1>3. CASE Tick \/ UNCHANGED vars
  <2>1. UNCHANGED <<rows, call, todo, generation>>
    BY <1>3 DEF Tick, vars, tableVars, agentVars
  <2> QED
    BY <2>1 DEF Marked, Marking, BothAhead, OneMarked, Recording, Live, Stored
<1>4. \A p \in Projects : ~Forget(p)
  BY DEF NothingForgotten, Forget, IInv, TypeOK
<1> QED
  BY <1>1, <1>2, <1>3, <1>4, MarkedRecord, MarkedRead, MarkedWrite DEF Next

LEMMA InitMarked == Init => Marked
BY DEF Init, Marked, Marking, Recording

(* v0.8-plan.md: "Contradicting lesson in the same applicability region     *)
(* marks both `challenged`": when a record reports a contradiction, the new *)
(* capsule and one it contradicts are in the table, both challenged, while  *)
(* one process works at a time and nothing is forgotten.                   *)
THEOREM BothMarked ==
  ASSUME Alone, NothingForgotten
  PROVE  Spec => ContradictionMarksBoth
<1>1. ASSUME IInv, Fresh, Marked, [Next]_vars, NEW a \in Agents,
             call[a] # None, call'[a] = None, answer' = "challenged"
      PROVE  \E c \in Stored' \ {call[a].id} :
               /\ call[a].id \in Stored'
               /\ rows'[c].topic = call[a].topic /\ rows'[c].lesson # call[a].lesson
               /\ rows'[c].lifecycle = "challenged"
               /\ rows'[call[a].id].lifecycle = "challenged"
  <2> DEFINE w == Head(todo[a])
  <2>1. Write(a)
    <3>1. \A b \in Agents : b = a
      BY DEF Alone
    <3>2. ~(Tick \/ UNCHANGED vars \/ \E p \in Projects : Forget(p))
      BY <1>1 DEF Tick, vars, Forget, agentVars
    <3>3. ~Crash(a)
      BY <1>1 DEF Crash, Finish
    <3>4. ~(StartRecord(a) \/ StartConfirm(a) \/ StartTransition(a) \/ StartSupersede(a))
      BY <1>1 DEF StartRecord, StartConfirm, StartTransition, StartSupersede, Start
    <3>5. ~(ReadRecord(a) \/ ReadConfirm(a) \/ ReadTransition(a) \/ ReadReplaced(a) \/ ReadSupersede(a))
      BY <1>1 DEF ReadRecord, ReadConfirm, ReadTransition, ReadReplaced, ReadSupersede, Finish, Plan
    <3> QED
      BY <1>1, <3>1, <3>2, <3>3, <3>4, <3>5 DEF Next
  <2>2. Len(todo[a]) = 1 /\ w.result = "challenged" /\ Valid(w.body) /\ todo[a] # <<>>
    BY <1>1, <2>1 DEF Write, Failed, Finish, Plan
  <2>3. todo[a] \in Seq(Writes)
    BY <1>1 DEF IInv, TypeOK
  <2>4. w = todo[a][1] /\ w \in Writes /\ 1 \in DOMAIN todo[a]
    BY <2>2, <2>3
  <2>5. /\ Recording(a) /\ OneMarked(a)
        /\ w.kind = "append" /\ w.id = call[a].id
        /\ w.body.lifecycle = "challenged" /\ Live(w.body.origin)
    BY <1>1, <2>2, <2>4 DEF Marked, Marking, BothAhead
  <2>6. rows[w.id] = None /\ w.id \in CapsuleIds /\ w.body # None
    BY <1>1, <2>4, <2>5, ExperienceAssumption DEF Fresh, Writes
  <2>7. rows' = [rows EXCEPT ![w.id] = w.body]
    BY <2>1, <2>2, <2>5, <2>6 DEF Write, Accepted
  <2> HIDE DEF w
  <2>8. PICK c \in Stored \ {call[a].id} :
          rows[c].topic = call[a].topic /\ rows[c].lesson # call[a].lesson /\ rows[c].lifecycle = "challenged"
    BY <2>5 DEF OneMarked
  <2>9. rows'[c] = rows[c] /\ c \in Stored' /\ rows'[w.id] = w.body /\ w.id \in Stored'
    BY <1>1, <2>5, <2>6, <2>7, <2>8 DEF IInv, TypeOK, Stored
  <2> QED
    BY <2>5, <2>8, <2>9
<1>2. IInv /\ Fresh /\ Marked /\ [Next]_vars =>
        [\A a \in Agents :
           call[a] # None /\ call'[a] = None /\ answer' = "challenged" =>
             \E c \in Stored' \ {call[a].id} :
               /\ call[a].id \in Stored'
               /\ rows'[c].topic = call[a].topic /\ rows'[c].lesson # call[a].lesson
               /\ rows'[c].lifecycle = "challenged"
               /\ rows'[call[a].id].lifecycle = "challenged"]_vars
  BY <1>1
<1> QED
  BY <1>2, InitIInv, InvStep, InitFresh, FreshStep, InitMarked, MarkedStep, PTL
     DEF Spec, ContradictionMarksBoth

=============================================================================

-------------------------- MODULE RetentionProofs ---------------------------
(***************************************************************************)
(* Pruning, for any number of rows and pruners and any size of a batch: a  *)
(* preview is exact, and a pruner that ends by itself leaves no candidate. *)
(*                                                                         *)
(* Both rest on one fact about ORDER BY ... LIMIT n: of a finite set in a  *)
(* strict total order it returns n elements, or all when there are fewer.  *)
(***************************************************************************)
EXTENDS Retention, FiniteSetTheorems, TLAPS

-----------------------------------------------------------------------------
(* A finite set has a minimal element in every strict order: the sets of    *)
(* what comes before an element are well-founded under inclusion.           *)
LEMMA MinimalElement ==
  ASSUME NEW S, IsFiniteSet(S), NEW R,
         \A x \in S : <<x, x>> \notin R,
         \A x, y, z \in S : <<x, y>> \in R /\ <<y, z>> \in R => <<x, z>> \in R,
         NEW X \in SUBSET S, X # {}
  PROVE  \E x \in X : \A y \in X : <<y, x>> \notin R
<1> DEFINE Below(i) == {j \in S : <<j, i>> \in R}
           T == {Below(i) : i \in X}
<1>1. IsWellFoundedOn(StrictSubsetOrdering(S), SUBSET S)
  <2>1. FiniteSubsetsOf(S) = SUBSET S
    BY FS_FiniteSubsetsOfFinite
  <2>2. IsWellFoundedOn(StrictSubsetOrdering(S), FiniteSubsetsOf(S))
    BY FS_StrictSubsetOrderingWellFounded
  <2> QED
    BY <2>1, <2>2
<1>2. T \subseteq SUBSET S /\ T # {}
  <2>1. \A i : Below(i) \in SUBSET S
    OBVIOUS
  <2> HIDE DEF Below
  <2> QED
    BY <2>1
<1>3. PICK d \in T : \A e \in T : <<e, d>> \notin StrictSubsetOrdering(S)
  BY <1>1, <1>2, WFMin
<1>4. PICK x \in X : d = Below(x)
  BY <1>3
<1>5. ASSUME NEW y \in X, <<y, x>> \in R
      PROVE  FALSE
  <2>1. Below(y) \subseteq Below(x) /\ y \in Below(x) /\ y \notin Below(y)
    BY <1>5
  <2>2. Below(y) \in SUBSET S /\ Below(x) \in SUBSET S
    OBVIOUS
  <2>3. <<Below(y), Below(x)>> \in StrictSubsetOrdering(S)
    BY <2>1, <2>2 DEF StrictSubsetOrdering
  <2> QED
    BY <1>3, <1>4, <2>3
<1> QED
  BY <1>5

(* The first n elements of a finite set under a strict total order.        *)
FirstOf(S, R, n) == {i \in S : Cardinality({j \in S : <<j, i>> \in R}) < n}

LEMMA FirstOfSize ==
  ASSUME NEW S, IsFiniteSet(S), NEW R, NEW n \in Nat,
         \A x \in S : <<x, x>> \notin R,
         \A x, y, z \in S : <<x, y>> \in R /\ <<y, z>> \in R => <<x, z>> \in R,
         \A x, y \in S : x = y \/ <<x, y>> \in R \/ <<y, x>> \in R
  PROVE  /\ FirstOf(S, R, n) \in SUBSET S
         /\ Cardinality(FirstOf(S, R, n)) \in Nat
         /\ Cardinality(FirstOf(S, R, n)) <= n
         /\ Cardinality(FirstOf(S, R, n)) < n => FirstOf(S, R, n) = S
         /\ Cardinality(S) <= n => FirstOf(S, R, n) = S
<1> DEFINE F == FirstOf(S, R, n)
           Below(i) == {j \in S : <<j, i>> \in R}
<1>1. /\ F \in SUBSET S /\ IsFiniteSet(F) /\ Cardinality(F) \in Nat
      /\ Cardinality(S) \in Nat
  BY FS_Subset, FS_CardinalityType DEF FirstOf
<1>2. \A i \in S : Below(i) \in SUBSET S /\ IsFiniteSet(Below(i)) /\ Cardinality(Below(i)) \in Nat
  BY FS_Subset, FS_CardinalityType
<1>3. \A i \in S : i \in F <=> Cardinality(Below(i)) < n
  BY DEF FirstOf
<1> HIDE DEF F
<1>4. Cardinality(F) <= n
  <2>1. CASE F = {}
    BY <2>1, FS_EmptySet
  <2>2. CASE F # {}
    <3> DEFINE Q == {p \in S \X S : <<p[2], p[1]>> \in R}
    <3>1. \A x, y \in S : <<x, y>> \in Q <=> <<y, x>> \in R
      OBVIOUS
    <3> HIDE DEF Q
    <3>2. PICK m \in F : \A y \in F : <<y, m>> \notin Q
      <4>1. \A x \in S : <<x, x>> \notin Q
        BY <3>1
      <4>2. \A x, y, z \in S : <<x, y>> \in Q /\ <<y, z>> \in Q => <<x, z>> \in Q
        BY <3>1
      <4> QED
        BY <1>1, <2>2, <4>1, <4>2, MinimalElement
    <3>3. F \ {m} \subseteq Below(m)
      BY <1>1, <3>1, <3>2
    <3>4. Cardinality(F \ {m}) = Cardinality(F) - 1
      BY <1>1, FS_RemoveElement
    <3>5. Cardinality(F \ {m}) <= Cardinality(Below(m))
      BY <1>1, <1>2, <3>3, FS_Subset
    <3>6. Cardinality(Below(m)) < n /\ Cardinality(Below(m)) \in Nat
      BY <1>1, <1>2, <1>3
    <3> HIDE DEF Below
    <3> QED
      BY <1>1, <3>4, <3>5, <3>6
  <2> QED
    BY <2>1, <2>2
<1>5. ASSUME Cardinality(F) < n
      PROVE  F = S
  <2> SUFFICES ASSUME S \ F # {}
               PROVE  FALSE
    BY <1>1
  <2>1. PICK i \in S \ F : \A y \in S \ F : <<y, i>> \notin R
    <3> DEFINE X == S \ F
    <3>1. X \in SUBSET S /\ X # {}
      OBVIOUS
    <3> HIDE DEF X
    <3>2. \E x \in X : \A y \in X : <<y, x>> \notin R
      BY <3>1, MinimalElement
    <3> QED
      BY <3>2 DEF X
  <2>2. Below(i) \in SUBSET F
    BY <2>1
  <2>3. Cardinality(Below(i)) \in Nat /\ ~(Cardinality(Below(i)) < n)
    BY <1>2, <1>3, <2>1
  <2> HIDE DEF Below
  <2>4. Cardinality(Below(i)) <= Cardinality(F)
    BY <1>1, <2>2, FS_Subset
  <2> QED
    BY <1>1, <1>5, <2>3, <2>4
<1>6. ASSUME Cardinality(S) <= n
      PROVE  F = S
  <2>1. ASSUME NEW i \in S
        PROVE  i \in F
    <3>1. Below(i) \in SUBSET (S \ {i})
      OBVIOUS
    <3>2. IsFiniteSet(S \ {i}) /\ Cardinality(S \ {i}) = Cardinality(S) - 1
      BY FS_RemoveElement
    <3>3. Cardinality(Below(i)) <= Cardinality(S \ {i})
      BY <3>1, <3>2, FS_Subset
    <3>4. Cardinality(Below(i)) \in Nat
      BY <1>2
    <3>5. i \in F <=> Cardinality(Below(i)) < n
      BY <1>3
    <3> HIDE DEF Below
    <3> QED
      BY <1>1, <1>6, <3>2, <3>3, <3>4, <3>5
  <2> QED
    BY <1>1, <2>1
<1> QED
  BY <1>1, <1>4, <1>5, <1>6 DEF F

-----------------------------------------------------------------------------
(* Tables of times, by (time, id).                                         *)

Table(Ids) == [Ids -> Times \cup {None}]

LEMMA OlderOrder ==
  ASSUME NEW Ids \in SUBSET Nat, NEW table \in Table(Ids)
  PROVE  /\ \A i \in Rows(table) : ~Older(table, i, i)
         /\ \A i, j, k \in Rows(table) :
              Older(table, i, j) /\ Older(table, j, k) => Older(table, i, k)
         /\ \A i, j \in Rows(table) : i = j \/ Older(table, i, j) \/ Older(table, j, i)
<1>1. \A i \in Rows(table) : i \in Nat /\ table[i] \in Nat
  BY RetentionAssumption DEF Table, Rows, Times
<1> QED
  BY <1>1 DEF Older

LEMMA RowsFinite ==
  ASSUME NEW Ids \in SUBSET Nat, IsFiniteSet(Ids), NEW table \in Table(Ids), NEW S \in SUBSET Rows(table)
  PROVE  IsFiniteSet(S) /\ Cardinality(S) \in Nat
<1>1. S \in SUBSET Ids
  BY DEF Rows, Table
<1> QED
  BY <1>1, FS_Subset, FS_CardinalityType

LEMMA OldestSize ==
  ASSUME NEW Ids \in SUBSET Nat, IsFiniteSet(Ids), NEW table \in Table(Ids),
         NEW S \in SUBSET Rows(table), NEW n \in Nat
  PROVE  /\ Oldest(table, S, n) \in SUBSET S
         /\ Cardinality(Oldest(table, S, n)) \in Nat
         /\ Cardinality(Oldest(table, S, n)) <= n
         /\ Cardinality(Oldest(table, S, n)) < n => Oldest(table, S, n) = S
<1> DEFINE R == {p \in S \X S : Older(table, p[1], p[2])}
<1>1. \A x, y \in S : <<x, y>> \in R <=> Older(table, x, y)
  OBVIOUS
<1>2. Oldest(table, S, n) = FirstOf(S, R, n)
  <2>1. \A i \in S : {j \in S : Older(table, j, i)} = {j \in S : <<j, i>> \in R}
    BY <1>1
  <2> HIDE DEF R
  <2> QED
    BY <2>1 DEF Oldest, FirstOf
<1> HIDE DEF R
<1>3. IsFiniteSet(S)
  BY RowsFinite
<1>4. /\ \A x \in S : <<x, x>> \notin R
      /\ \A x, y, z \in S : <<x, y>> \in R /\ <<y, z>> \in R => <<x, z>> \in R
      /\ \A x, y \in S : x = y \/ <<x, y>> \in R \/ <<y, x>> \in R
  BY <1>1, OlderOrder
<1> QED
  BY <1>2, <1>3, <1>4, FirstOfSize

LEMMA NewestSize ==
  ASSUME NEW Ids \in SUBSET Nat, IsFiniteSet(Ids), NEW table \in Table(Ids),
         NEW S \in SUBSET Rows(table), NEW n \in Nat
  PROVE  /\ Newest(table, S, n) \in SUBSET S
         /\ Cardinality(Newest(table, S, n)) \in Nat
         /\ Cardinality(Newest(table, S, n)) <= n
         /\ Cardinality(Newest(table, S, n)) < n => Newest(table, S, n) = S
         /\ Cardinality(S) <= n => Newest(table, S, n) = S
<1> DEFINE R == {p \in S \X S : Older(table, p[2], p[1])}
<1>1. \A x, y \in S : <<x, y>> \in R <=> Older(table, y, x)
  OBVIOUS
<1>2. Newest(table, S, n) = FirstOf(S, R, n)
  <2>1. \A i \in S : {j \in S : Older(table, i, j)} = {j \in S : <<j, i>> \in R}
    BY <1>1
  <2> HIDE DEF R
  <2> QED
    BY <2>1 DEF Newest, FirstOf
<1> HIDE DEF R
<1>3. IsFiniteSet(S)
  BY RowsFinite
<1>4. /\ \A x \in S : <<x, x>> \notin R
      /\ \A x, y, z \in S : <<x, y>> \in R /\ <<y, z>> \in R => <<x, z>> \in R
      /\ \A x, y \in S : x = y \/ <<x, y>> \in R \/ <<y, x>> \in R
  BY <1>1, OlderOrder
<1> QED
  BY <1>2, <1>3, <1>4, FirstOfSize

-----------------------------------------------------------------------------
(* The invariant is the type: whatever the tables hold, the order is total. *)

LEMMA InitTypeOK == Init => TypeOK
BY RetentionAssumption DEF Init, TypeOK

LEMMA StepTypeOK == TypeOK /\ [Next]_vars => TypeOK'
<1> SUFFICES ASSUME TypeOK, [Next]_vars PROVE TypeOK'
  OBVIOUS
<1> USE RetentionAssumption
<1>1. ASSUME NEW p \in Pruners, NEW s \in Selections, Enforce(p, s)
      PROVE  TypeOK'
  BY <1>1 DEF TypeOK, Enforce
<1>2. ASSUME NEW p \in Pruners, DeleteBatch(p)
      PROVE  TypeOK'
  <2>1. \A S : /\ Without(created, S) \in [EventIds -> Times \cup {None}]
               /\ Without(updated, S) \in [CapsuleIds -> Times \cup {None}]
    BY DEF TypeOK, Without
  <2>2. /\ created' \in [EventIds -> Times \cup {None}]
        /\ updated' \in [CapsuleIds -> Times \cup {None}]
    BY <1>2, <2>1 DEF DeleteBatch
  <2>3. \/ policy' = policy
        \/ policy' = [policy EXCEPT ![p] = None]
    BY <1>2 DEF DeleteBatch
  <2>4. \/ status' = status
        \/ status' = [status EXCEPT ![p] = "pruned"]
    BY <1>2 DEF DeleteBatch
  <2>5. appends' = appends
    BY <1>2 DEF DeleteBatch
  <2> QED
    BY <2>2, <2>3, <2>4, <2>5 DEF TypeOK
<1>3. ASSUME NEW p \in Pruners, Interrupt(p)
      PROVE  TypeOK'
  BY <1>3 DEF TypeOK, Interrupt
<1>4. ASSUME NEW e \in EventIds, NEW t \in Times, AppendEvent(e, t)
      PROVE  TypeOK'
  BY <1>4 DEF TypeOK, AppendEvent
<1>5. ASSUME NEW c \in CapsuleIds, NEW t \in Times, TouchCapsule(c, t)
      PROVE  TypeOK'
  BY <1>5 DEF TypeOK, TouchCapsule
<1>6. CASE UNCHANGED vars
  BY <1>6 DEF TypeOK, vars
<1> QED
  BY <1>1, <1>2, <1>3, <1>4, <1>5, <1>6 DEF Next

(* Every variable keeps its type, for any number of rows and pruners.       *)
THEOREM TypeCorrect == Spec => []TypeOK
<1> QED
  BY InitTypeOK, StepTypeOK, PTL DEF Spec

(* A preview counts exactly the rows an undisturbed run would delete: the   *)
(* COUNT queries agree with the candidates for any tables and any policy.   *)
LEMMA CountExact == TypeOK => PreviewExact
<1> SUFFICES ASSUME TypeOK, NEW s \in Selections
             PROVE  CountCandidates(s)
                      = Cardinality(EventCandidates(s)) + Cardinality(CapsuleCandidates(s))
  BY DEF PreviewExact
<1>1. CASE s.kind = "before"
  BY <1>1 DEF CountCandidates, EventCandidates, CapsuleCandidates
<1>2. CASE s.kind # "before"
  <2> DEFINE rows == Rows(created)
             kept == Newest(created, rows, s.keep)
  <2>1. s.keep \in Nat
    <3>1. Cardinality(EventIds) \in Nat
      BY RetentionAssumption, FS_CardinalityType
    <3> QED
      BY <1>2, <3>1 DEF Selections
  <2>2. created \in Table(EventIds) /\ EventIds \in SUBSET Nat /\ IsFiniteSet(EventIds)
    BY RetentionAssumption DEF TypeOK, Table
  <2>3. IsFiniteSet(rows) /\ Cardinality(rows) \in Nat
    BY <2>2, RowsFinite
  <2>4. /\ kept \in SUBSET rows /\ Cardinality(kept) \in Nat /\ Cardinality(kept) <= s.keep
        /\ Cardinality(kept) < s.keep => kept = rows
        /\ Cardinality(rows) <= s.keep => kept = rows
    BY <2>1, <2>2, NewestSize
  <2>5. Cardinality(rows \ kept) = Cardinality(rows) - Cardinality(kept)
    <3>1. rows \cap kept = kept
      BY <2>4
    <3> HIDE DEF rows, kept
    <3> QED
      BY <2>3, <3>1, FS_Difference
  <2>6. EventCandidates(s) = rows \ kept /\ CapsuleCandidates(s) = {}
    BY <1>2 DEF EventCandidates, CapsuleCandidates, Beyond
  <2>7. CountCandidates(s)
          = IF Cardinality(rows) > s.keep THEN Cardinality(rows) - s.keep ELSE 0
    BY <1>2 DEF CountCandidates
  <2>8. Cardinality({}) = 0
    BY FS_EmptySet
  <2> HIDE DEF rows, kept
  <2> QED
    BY <2>1, <2>3, <2>4, <2>5, <2>6, <2>7, <2>8
<1> QED
  BY <1>1, <1>2

(* PreviewExact holds in every state, for every instance.                   *)
THEOREM PreviewAlwaysExact == Spec => []PreviewExact
<1> QED
  BY InitTypeOK, StepTypeOK, CountExact, PTL DEF Spec

-----------------------------------------------------------------------------
(* A batch that comes back short took every candidate of both tables: the   *)
(* capsules get what the events leave of it, so neither can hide the other. *)
LEMMA ShortBatch ==
  ASSUME TypeOK, NEW s \in Selections,
         Cardinality(EventBatch(s)) + Cardinality(CapsuleBatch(s)) < BatchSize
  PROVE  EventBatch(s) = EventCandidates(s) /\ CapsuleBatch(s) = CapsuleCandidates(s)
<1>1. /\ created \in Table(EventIds) /\ updated \in Table(CapsuleIds)
      /\ EventIds \in SUBSET Nat /\ IsFiniteSet(EventIds)
      /\ CapsuleIds \in SUBSET Nat /\ IsFiniteSet(CapsuleIds)
      /\ BatchSize \in Nat
  BY RetentionAssumption DEF TypeOK, Table
<1>2. EventCandidates(s) \in SUBSET Rows(created) /\ CapsuleCandidates(s) \in SUBSET Rows(updated)
  BY DEF EventCandidates, CapsuleCandidates, Before, Beyond
<1>3. /\ Cardinality(EventBatch(s)) \in Nat /\ Cardinality(EventBatch(s)) <= BatchSize
      /\ Cardinality(EventBatch(s)) < BatchSize => EventBatch(s) = EventCandidates(s)
  BY <1>1, <1>2, OldestSize DEF EventBatch
<1> DEFINE room == BatchSize - Cardinality(EventBatch(s))
<1>4. room \in Nat
  BY <1>1, <1>3
<1>5. CapsuleBatch(s) = Oldest(updated, CapsuleCandidates(s), room)
  BY DEF CapsuleBatch
<1> HIDE DEF room
<1>6. /\ Cardinality(CapsuleBatch(s)) \in Nat
      /\ Cardinality(CapsuleBatch(s)) < room => CapsuleBatch(s) = CapsuleCandidates(s)
  BY <1>1, <1>2, <1>4, <1>5, OldestSize
<1> QED
  BY <1>1, <1>3, <1>6 DEF room

(* Deleting the candidates of a policy leaves it none.                      *)
LEMMA NoneLeft ==
  ASSUME TypeOK, TypeOK', NEW s \in Selections,
         created' = Without(created, EventCandidates(s)),
         updated' = Without(updated, CapsuleCandidates(s))
  PROVE  CountCandidates(s)' = 0
<1>1. CASE s.kind = "before"
  <2>1. Before(created', s.cutoff) = {}
    <3>1. Before(created', s.cutoff)
            = {i \in DOMAIN created' : created'[i] # None /\ created'[i] < s.cutoff}
      BY DEF Before, Rows
    <3>2. \A i \in DOMAIN created' : created'[i] # None => i \notin EventCandidates(s) /\ created'[i] = created[i]
                                                          /\ i \in DOMAIN created
      BY DEF Without
    <3>3. EventCandidates(s) = {i \in DOMAIN created : created[i] # None /\ created[i] < s.cutoff}
      BY <1>1 DEF EventCandidates, Before, Rows
    <3> QED
      BY <3>1, <3>2, <3>3
  <2>2. Before(updated', s.cutoff) = {}
    <3>1. Before(updated', s.cutoff)
            = {i \in DOMAIN updated' : updated'[i] # None /\ updated'[i] < s.cutoff}
      BY DEF Before, Rows
    <3>2. \A i \in DOMAIN updated' : updated'[i] # None => i \notin CapsuleCandidates(s) /\ updated'[i] = updated[i]
                                                          /\ i \in DOMAIN updated
      BY DEF Without
    <3>3. CapsuleCandidates(s) = {i \in DOMAIN updated : updated[i] # None /\ updated[i] < s.cutoff}
      BY <1>1 DEF CapsuleCandidates, Before, Rows
    <3> QED
      BY <3>1, <3>2, <3>3
  <2>3. Cardinality({}) = 0
    BY FS_EmptySet
  <2>4. CountCandidates(s)'
          = Cardinality(Before(created', s.cutoff)) + Cardinality(Before(updated', s.cutoff))
    BY <1>1 DEF CountCandidates
  <2> QED
    BY <2>1, <2>2, <2>3, <2>4
<1>2. CASE s.kind # "before"
  <2> DEFINE kept == Newest(created, Rows(created), s.keep)
             left == Rows(created')
  <2>1. s.keep \in Nat
    <3>1. Cardinality(EventIds) \in Nat
      BY RetentionAssumption, FS_CardinalityType
    <3> QED
      BY <1>2, <3>1 DEF Selections
  <2>2. /\ created \in Table(EventIds) /\ created' \in Table(EventIds)
        /\ EventIds \in SUBSET Nat /\ IsFiniteSet(EventIds)
    BY RetentionAssumption DEF TypeOK, Table
  <2>3. kept \in SUBSET Rows(created) /\ Cardinality(kept) \in Nat /\ Cardinality(kept) <= s.keep
    BY <2>1, <2>2, NewestSize
  <2>4. EventCandidates(s) = Rows(created) \ kept
    BY <1>2 DEF EventCandidates, Beyond
  <2>5. left = kept
    <3> HIDE DEF kept
    <3> QED
      BY <2>3, <2>4 DEF Rows, Without
  <2>6. CountCandidates(s)'
          = IF Cardinality(left) > s.keep THEN Cardinality(left) - s.keep ELSE 0
    BY <1>2 DEF CountCandidates
  <2> HIDE DEF kept, left
  <2> QED
    BY <2>1, <2>3, <2>5, <2>6
<1> QED
  BY <1>1, <1>2

LEMMA StepExhausted ==
  ASSUME TypeOK, TypeOK', [Next]_vars, NEW p \in Pruners, NEW s \in Selections,
         policy[p] = s, policy'[p] = None, status'[p] # "error"
  PROVE  CountCandidates(s)' = 0
<1>1. s # None
  BY RetentionAssumption
<1>2. ASSUME NEW q \in Pruners, NEW r \in Selections, Enforce(q, r)
      PROVE  FALSE
  BY <1>1, <1>2, RetentionAssumption DEF Enforce, TypeOK
<1>3. ASSUME NEW q \in Pruners, DeleteBatch(q)
      PROVE  CountCandidates(s)' = 0
  <2> DEFINE n == Cardinality(EventBatch(policy[q])) + Cardinality(CapsuleBatch(policy[q]))
  <2>1. /\ created' = Without(created, EventBatch(policy[q]))
        /\ updated' = Without(updated, CapsuleBatch(policy[q]))
        /\ policy' = IF n < BatchSize THEN [policy EXCEPT ![q] = None] ELSE policy
    BY <1>3 DEF DeleteBatch
  <2> HIDE DEF n
  <2>2. q = p /\ n < BatchSize
    BY <1>1, <2>1 DEF TypeOK
  <2>3. Cardinality(EventBatch(s)) + Cardinality(CapsuleBatch(s)) < BatchSize
    BY <2>2 DEF n
  <2>4. EventBatch(s) = EventCandidates(s) /\ CapsuleBatch(s) = CapsuleCandidates(s)
    BY <2>3, ShortBatch
  <2>5. /\ created' = Without(created, EventCandidates(s))
        /\ updated' = Without(updated, CapsuleCandidates(s))
    BY <2>1, <2>2, <2>4
  <2> QED
    BY <2>5, NoneLeft
<1>4. ASSUME NEW q \in Pruners, Interrupt(q)
      PROVE  FALSE
  BY <1>1, <1>4 DEF Interrupt, TypeOK
<1>5. ASSUME NEW e \in EventIds, NEW t \in Times, AppendEvent(e, t)
      PROVE  FALSE
  BY <1>1, <1>5 DEF AppendEvent
<1>6. ASSUME NEW c \in CapsuleIds, NEW t \in Times, TouchCapsule(c, t)
      PROVE  FALSE
  BY <1>1, <1>6 DEF TouchCapsule
<1>7. ASSUME UNCHANGED vars
      PROVE  FALSE
  BY <1>1, <1>7 DEF vars
<1> QED
  BY <1>2, <1>3, <1>4, <1>5, <1>6, <1>7 DEF Next

(* A pruner that ends by itself leaves no candidate of its policy, for any  *)
(* size of a batch and whatever other processes write between two batches.  *)
THEOREM ExhaustedAlways == Spec => ExhaustedWhenDone
<1>1. TypeOK /\ [Next]_vars
        => [\A p \in Pruners, s \in Selections :
              policy[p] = s /\ policy'[p] = None /\ status'[p] # "error"
                => CountCandidates(s)' = 0]_vars
  BY StepTypeOK, StepExhausted
<1> QED
  BY InitTypeOK, StepTypeOK, <1>1, PTL DEF Spec, ExhaustedWhenDone

=============================================================================

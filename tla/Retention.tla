----------------------------- MODULE Retention ------------------------------
(***************************************************************************)
(* prune --apply: RetentionService::enforce deletes candidates in batches, *)
(* each an IMMEDIATE transaction over the events and the experiences       *)
(* (delete_retention_batch), until a batch comes back short.  Between two  *)
(* batches hooks append events, old ones included (a transcript ingested   *)
(* late keeps its timestamps), and confirmations touch capsules.           *)
(***************************************************************************)
EXTENDS Naturals, FiniteSets

CONSTANTS
  EventIds, CapsuleIds,  \* naturals: SQLite breaks ties by id
  MaxTime,               \* bound: created_at_ms and updated_at_ms
  BatchSize,             \* RETENTION_DELETE_BATCH_SIZE (500)
  Pruners,
  MaxAppends,            \* bound: rows written while pruning goes on
  None

Times == 0..MaxTime
Selections ==
  [kind : {"before"}, cutoff : Times] \cup [kind : {"beyond"}, keep : 0..Cardinality(EventIds)]

ASSUME RetentionAssumption ==
  /\ EventIds \subseteq Nat /\ IsFiniteSet(EventIds)
  /\ CapsuleIds \subseteq Nat /\ IsFiniteSet(CapsuleIds)
  /\ MaxTime \in Nat /\ MaxAppends \in Nat
  /\ BatchSize \in Nat \ {0}
  /\ None \notin Nat /\ None \notin Selections

VARIABLES
  created,      \* events: id -> created_at_ms, or None
  updated,      \* experiences: id -> updated_at_ms, or None
  policy,       \* the selection each pruner was validated with, or None
  status,       \* what it reports (policy None) or would report now
  appends       \* rows written so far

vars == <<created, updated, policy, status, appends>>

TypeOK ==
  /\ created \in [EventIds -> Times \cup {None}]
  /\ updated \in [CapsuleIds -> Times \cup {None}]
  /\ policy \in [Pruners -> Selections \cup {None}]
  /\ status \in [Pruners -> {"none", "no_changes", "pruned", "error"}]
  /\ appends \in 0..MaxAppends
  /\ \A p \in Pruners : policy[p] # None => status[p] \in {"no_changes", "pruned"}

Init ==
  /\ created \in [EventIds -> Times \cup {None}]
  /\ updated \in [CapsuleIds -> Times \cup {None}]
  /\ policy = [p \in Pruners |-> None]
  /\ status = [p \in Pruners |-> "none"]
  /\ appends = 0

-----------------------------------------------------------------------------
(* SELECT ... ORDER BY time, id LIMIT n, over a table of times.            *)

Rows(table) == {i \in DOMAIN table : table[i] # None}

Older(table, i, j) == table[i] < table[j] \/ (table[i] = table[j] /\ i < j)

Oldest(table, S, n) ==
  {i \in S : Cardinality({j \in S : Older(table, j, i)}) < n}

Newest(table, S, n) ==
  {i \in S : Cardinality({j \in S : Older(table, i, j)}) < n}

Before(table, cutoff) == {i \in Rows(table) : table[i] < cutoff}

(* Faulty variant: only what is older by time than all that is kept.        *)
BeyondByTime(keep) ==
  {i \in Rows(created) :
     Cardinality({j \in Rows(created) : created[i] < created[j]}) >= keep}

Beyond(keep) == Rows(created) \ Newest(created, Rows(created), keep)

EventCandidates(s) ==
  IF s.kind = "before" THEN Before(created, s.cutoff) ELSE Beyond(s.keep)

CapsuleCandidates(s) ==
  IF s.kind = "before" THEN Before(updated, s.cutoff) ELSE {}

(* count_retention_candidates: what a preview reports.                     *)
CountCandidates(s) ==
  IF s.kind = "before"
    THEN Cardinality(Before(created, s.cutoff)) + Cardinality(Before(updated, s.cutoff))
    ELSE IF Cardinality(Rows(created)) > s.keep THEN Cardinality(Rows(created)) - s.keep ELSE 0

Without(table, S) == [i \in DOMAIN table |-> IF i \in S THEN None ELSE table[i]]

-----------------------------------------------------------------------------
Enforce(p, s) ==
  /\ policy[p] = None
  /\ policy' = [policy EXCEPT ![p] = s]
  /\ status' = [status EXCEPT ![p] = "no_changes"]
  /\ UNCHANGED <<created, updated, appends>>

(* The rows of one batch: events first, capsules in what is left of it.    *)
EventBatch(s) == Oldest(created, EventCandidates(s), BatchSize)
CapsuleBatch(s) ==
  Oldest(updated, CapsuleCandidates(s), BatchSize - Cardinality(EventBatch(s)))

(* Faulty variants: the capsules do not count for the size of a batch; no  *)
(* batch is ever the last.                                                 *)
DeleteBatchCountingEvents(p) ==
  LET s == policy[p]
      es == EventBatch(s)
      cs == CapsuleBatch(s) IN
    /\ s # None
    /\ created' = Without(created, es)
    /\ updated' = Without(updated, cs)
    /\ status' = IF es \cup cs = {} THEN status ELSE [status EXCEPT ![p] = "pruned"]
    /\ policy' = IF Cardinality(es) < BatchSize THEN [policy EXCEPT ![p] = None] ELSE policy
    /\ UNCHANGED appends
DeleteBatchEndlessly(p) ==
  LET s == policy[p]
      es == EventBatch(s)
      cs == CapsuleBatch(s) IN
    /\ s # None
    /\ created' = Without(created, es)
    /\ updated' = Without(updated, cs)
    /\ status' = IF es \cup cs = {} THEN status ELSE [status EXCEPT ![p] = "pruned"]
    /\ UNCHANGED <<policy, appends>>

(* One transaction; a short batch is the last one.                         *)
DeleteBatch(p) ==
  LET s == policy[p]
      es == EventBatch(s)
      cs == CapsuleBatch(s)
      n == Cardinality(es) + Cardinality(cs) IN
    /\ s # None
    /\ created' = Without(created, es)
    /\ updated' = Without(updated, cs)
    /\ status' = IF n = 0 THEN status ELSE [status EXCEPT ![p] = "pruned"]
    /\ policy' = IF n < BatchSize THEN [policy EXCEPT ![p] = None] ELSE policy
    /\ UNCHANGED appends

(* A failure between batches leaves the partial result.                    *)
Interrupt(p) ==
  /\ policy[p] # None
  /\ policy' = [policy EXCEPT ![p] = None]
  /\ status' = [status EXCEPT ![p] = "error"]
  /\ UNCHANGED <<created, updated, appends>>

(* Another process: an event of any age, a capsule recorded or confirmed.  *)
AppendEvent(e, t) ==
  /\ appends < MaxAppends
  /\ created[e] = None
  /\ created' = [created EXCEPT ![e] = t]
  /\ appends' = appends + 1
  /\ UNCHANGED <<updated, policy, status>>

TouchCapsule(c, t) ==
  /\ appends < MaxAppends
  /\ updated[c] # None => t > updated[c]
  /\ updated' = [updated EXCEPT ![c] = t]
  /\ appends' = appends + 1
  /\ UNCHANGED <<created, policy, status>>

Next ==
  \/ \E p \in Pruners : \/ \E s \in Selections : Enforce(p, s)
                        \/ DeleteBatch(p)
                        \/ Interrupt(p)
  \/ \E e \in EventIds, t \in Times : AppendEvent(e, t)
  \/ \E c \in CapsuleIds, t \in Times : TouchCapsule(c, t)

Spec == Init /\ [][Next]_vars

(* A pruner goes on while there are full batches.                          *)
FairSpec == Spec /\ \A p \in Pruners : WF_vars(DeleteBatch(p))

-----------------------------------------------------------------------------
(* A preview counts exactly the rows an undisturbed run would delete, for  *)
(* every policy, also when rows share a timestamp.                         *)
PreviewExact ==
  \A s \in Selections :
    CountCandidates(s) = Cardinality(EventCandidates(s)) + Cardinality(CapsuleCandidates(s))

(* architecture.md: apply "repeats until no candidates remain": a pruner   *)
(* that ends by itself leaves none of its policy, in either table,         *)
(* although the two tables share each batch.                               *)
ExhaustedWhenDone ==
  [][\A p \in Pruners, s \in Selections :
       policy[p] = s /\ policy'[p] = None /\ status'[p] # "error"
         => CountCandidates(s)' = 0]_vars

(* Whatever other processes append in between, finitely often, pruning     *)
(* comes to an end: each batch is short or makes progress.                 *)
PruningEnds == \A p \in Pruners : policy[p] # None ~> policy[p] = None

=============================================================================

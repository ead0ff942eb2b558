---------------------------- MODULE MCIngestion -----------------------------
(* Instances of Ingestion for TLC. *)
EXTENDS Ingestion, TLC

CONSTANT MaxDeletions  \* bound: how often the project is forgotten or an event pruned

(* The identities, the calls and the ingesters are interchangeable. *)
Symmetry ==
  Permutations(ProjectIds) \cup Permutations(EventIds) \cup Permutations(Ingesters)

MCNext == Next /\ Cardinality(forgotten') + Cardinality(pruned') <= MaxDeletions

MCSpec == Init /\ [][MCNext]_vars
MCFairSpec == MCSpec /\ Fairness
=============================================================================

-------------------------- MODULE MCIngestionQuiet --------------------------
(* An instance of QuietIngestion for TLC. *)
EXTENDS QuietIngestion, MCIngestion

CONSTANT MaxMishaps  \* bound: ingesters killed and files started over, together

MCQuietNext ==
  /\ QuietNext
  /\ Cardinality(forgotten') + Cardinality(pruned') <= MaxDeletions
  /\ crashes' + rewrites' <= MaxMishaps

MCQuietSpec == QuietInit /\ [][MCQuietNext]_quietVars
=============================================================================

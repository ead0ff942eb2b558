--------------------------- MODULE QuietIngestion ---------------------------
(***************************************************************************)
(* Overlapping ingesters on a file that is started over only while no      *)
(* ingester has it open, with a history of whether anything but one        *)
(* ingester at a time, never killed, on an appended file has happened yet. *)
(***************************************************************************)
EXTENDS Ingestion

VARIABLE disturbed  \* history: ingesters overlapped, one died, or the file was replaced

quietVars == <<vars, disturbed>>

Overlap == \E g, h \in Ingesters : g # h /\ pc[g] # "idle" /\ pc[h] # "idle"

QuietInit == Init /\ disturbed = FALSE

QuietNext ==
  /\ Next
  /\ rewrites' # rewrites => \A g \in Ingesters : pc[g] \notin {"read", "digest"}
  /\ disturbed' = (disturbed \/ Overlap' \/ crashes' # crashes \/ rewrites' # rewrites)

QuietSpec == QuietInit /\ [][QuietNext]_quietVars

(* As long as nothing disturbs the ingesters, the retained checkpoint does *)
(* what docs/roadmap.md says of it: a forgotten event stays away, and so   *)
(* does one that retention has deleted.                                    *)
QuietNoResurrection == ~disturbed => \A e \in erased \cup pruned : events[e] = None

(* Undisturbed, a stored checkpoint only ever advances.                    *)
QuietCursorAdvances ==
  [][~disturbed' /\ cursor # None => cursor'.offset >= cursor.offset]_quietVars
=============================================================================

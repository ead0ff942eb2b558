---------------------------- MODULE MCRecording -----------------------------
(* Instances of Recording for TLC: paths, events, capsules, identities and *)
(* writers are model values, and nothing in the specification tells two of *)
(* them apart.  Observation and Admission say what a row may hold.         *)
EXTENDS RecordingProps, Observation, Admission, TLC

Symmetry ==
  Permutations(Paths) \cup Permutations(ProjectIds) \cup Permutations(EventIds)
    \cup Permutations(CapsuleIds) \cup Permutations(Writers)
=============================================================================

---------------------------- MODULE MCExperience ----------------------------
(* Instances of ExperienceProps for TLC. *)
EXTENDS ExperienceProps, TLC

(* An agent has the name of the project it runs in, so that agents with     *)
(* their projects are interchangeable; and so are new capsules.             *)
MCHome == [a \in Agents |-> a]

(* The path that is no agent's project is the directory above the others.   *)
MCWorkspace ==
  [p \in Projects |-> IF Projects = Agents THEN p ELSE CHOOSE w \in Projects \ Agents : TRUE]

Symmetry == Permutations(Agents) \cup Permutations(CapsuleIds \ Legacy)

(* Bound: one project is forgotten, in behaviours of one day, or none.      *)
ForgottenEarly ==
  \A p \in Projects : generation[p] > 0 =>
    clock = 0 /\ \A q \in Projects \ {p} : generation[q] = 0
=============================================================================

---------------------------- MODULE ProjectLedger ---------------------------
(***************************************************************************)
(* What project history promises its users, with no identities, mappings   *)
(* or tombstones: every path has a shelf of stored items; a writer holds a *)
(* ticket for one shelf from the moment its project is resolved until it   *)
(* stores its item or dies; forgetting a path empties the shelf and tears  *)
(* up every ticket for it, in one step.  So nothing a writer began before  *)
(* the forget ever reaches a shelf after it.                               *)
(***************************************************************************)
CONSTANTS Paths, Items, Writers, None

VARIABLES shelf, ticket

vars == <<shelf, ticket>>

Init ==
  /\ shelf = [p \in Paths |-> {}]
  /\ ticket = [w \in Writers |-> None]

Shelved(i) == \E p \in Paths : i \in shelf[p]

Admit(w, p) ==
  /\ ticket[w] = None
  /\ ticket' = [ticket EXCEPT ![w] = p]
  /\ UNCHANGED shelf

(* An item is stored once; storing it again changes nothing. *)
Store(w, i) ==
  /\ ticket[w] \in Paths
  /\ shelf' = IF Shelved(i) THEN shelf
                            ELSE [shelf EXCEPT ![ticket[w]] = @ \cup {i}]
  /\ ticket' = [ticket EXCEPT ![w] = None]

Abandon(w) ==
  /\ ticket[w] \in Paths
  /\ ticket' = [ticket EXCEPT ![w] = None]
  /\ UNCHANGED shelf

Forget(p) ==
  /\ shelf' = [shelf EXCEPT ![p] = {}]
  /\ ticket' = [w \in Writers |-> IF ticket[w] = p THEN None ELSE ticket[w]]

Expire(S) ==
  /\ shelf' = [p \in Paths |-> shelf[p] \ S]
  /\ UNCHANGED ticket

Next ==
  \/ \E w \in Writers, p \in Paths : Admit(w, p)
  \/ \E w \in Writers, i \in Items : Store(w, i)
  \/ \E w \in Writers : Abandon(w)
  \/ \E p \in Paths : Forget(p)
  \/ \E S \in SUBSET Items : Expire(S)

Spec == Init /\ [][Next]_vars

=============================================================================

----------------------------- MODULE Recording ------------------------------
(***************************************************************************)
(* The processes that write project history while others forget or prune   *)
(* it.  A writer is one short-lived regurgitate process: a host hook that  *)
(* records one event (RecordingService::record) or a CLI call that adds    *)
(* one capsule (ExperienceService::record_at, its insertion branch).  Both *)
(* resolve the project first and append afterwards, in separate SQL        *)
(* statements with no transaction around them.                             *)
(***************************************************************************)
EXTENDS EncryptedStore

CONSTANT Writers

Items == EventIds \cup CapsuleIds

ASSUME RecordingAssumption == EventIds \cap CapsuleIds = {}

VARIABLES
  pc,        \* the next statement of each writer
  path,      \* the project path it was started with
  item,      \* the event or the capsule it is to store
  held,      \* the project identity it has resolved, kept in a local variable
  outcome    \* what the last finished run reported

writerVars == <<pc, path, item, held, outcome>>
vars == <<storeVars, writerVars>>

Outcomes == {"none", "inserted", "already_present", "error"}

TypeOK ==
  /\ StoreTypeOK
  /\ pc \in [Writers -> {"idle", "load", "insert", "reload", "append"}]
  /\ path \in [Writers -> Paths \cup {None}]
  /\ item \in [Writers -> Items \cup {None}]
  /\ held \in [Writers -> ProjectIds \cup {None}]
  /\ outcome \in [Writers -> Outcomes]
  /\ \A w \in Writers : pc[w] # "idle" => path[w] \in Paths /\ item[w] \in Items
  /\ \A w \in Writers : pc[w] = "append" => held[w] \in ProjectIds

Init ==
  /\ StoreInit
  /\ pc = [w \in Writers |-> "idle"]
  /\ path = [w \in Writers |-> None]
  /\ item = [w \in Writers |-> None]
  /\ held = [w \in Writers |-> None]
  /\ outcome = [w \in Writers |-> "none"]

-----------------------------------------------------------------------------
(* The process ends: its local variables are gone. *)
Exit(w, result) ==
  /\ pc' = [pc EXCEPT ![w] = "idle"]
  /\ path' = [path EXCEPT ![w] = None]
  /\ item' = [item EXCEPT ![w] = None]
  /\ held' = [held EXCEPT ![w] = None]
  /\ outcome' = [outcome EXCEPT ![w] = result]

Begin(w, p, i) ==
  /\ pc[w] = "idle"
  /\ pc' = [pc EXCEPT ![w] = "load"]
  /\ path' = [path EXCEPT ![w] = p]
  /\ item' = [item EXCEPT ![w] = i]
  /\ outcome' = [outcome EXCEPT ![w] = "none"]
  /\ UNCHANGED <<projects, forgotten, events, experiences, held>>

(* The id of an event is derived from its session: it may be delivered again. *)
BeginEvent(w, p, e) == Begin(w, p, e) /\ UNCHANGED issued

(* A capsule gets a random UUID of its own. *)
BeginCapsule(w, p, c) ==
  /\ c \notin issued
  /\ issued' = issued \cup {c}
  /\ Begin(w, p, c)

(* The identity a load of the mapping returned becomes the resolved one. *)
Resolved(w) ==
  /\ projects[path[w]] # None
  /\ held' = [held EXCEPT ![w] = projects[path[w]]]
  /\ pc' = [pc EXCEPT ![w] = "append"]
  /\ UNCHANGED <<storeVars, path, item, outcome>>

(* resolve_project, the first load. *)
LoadProject(w) ==
  /\ pc[w] = "load"
  /\ \/ Resolved(w)
     \/ /\ projects[path[w]] = None
        /\ pc' = [pc EXCEPT ![w] = "insert"]
        /\ UNCHANGED <<storeVars, path, item, held, outcome>>

InsertProject(w) ==
  /\ pc[w] = "insert"
  /\ InsertMapping(path[w])
  /\ pc' = [pc EXCEPT ![w] = "reload"]
  /\ UNCHANGED <<path, item, held, outcome>>

(* resolve_project, the second load: an erase may have come in between. *)
ReloadProject(w) ==
  /\ pc[w] = "reload"
  /\ \/ Resolved(w)
     \/ /\ projects[path[w]] = None
        /\ Exit(w, "error")
        /\ UNCHANGED storeVars

RecordEvent(w) ==
  /\ pc[w] = "append"
  /\ item[w] \in EventIds
  /\ AppendEvent(item[w], held[w])
  /\ Exit(w, IF EventAccepted(item[w], held[w]) THEN "inserted" ELSE "already_present")

RecordCapsule(w) ==
  /\ pc[w] = "append"
  /\ item[w] \in CapsuleIds
  /\ \E b \in Bodies : AppendExperience(item[w], held[w], b)
  /\ Exit(w, IF ExperienceAccepted(item[w], held[w]) THEN "inserted" ELSE "error")

Crash(w) ==
  /\ pc[w] # "idle"
  /\ Exit(w, "error")
  /\ UNCHANGED storeVars

(* forget --apply in another process: a single transaction. *)
Forget(p) ==
  /\ EraseProject(p)
  /\ UNCHANGED writerVars

(* prune --apply in another process, one batch. *)
Prune(es, cs) ==
  /\ es \cup cs # {}
  /\ \A e \in es : events[e] # None
  /\ \A c \in cs : experiences[c] # None
  /\ DeleteBatch(es, cs)
  /\ UNCHANGED writerVars

Step(w) ==
  \/ LoadProject(w)
  \/ InsertProject(w)
  \/ ReloadProject(w)
  \/ RecordEvent(w)
  \/ RecordCapsule(w)

Next ==
  \/ \E w \in Writers : Step(w)
  \/ \E w \in Writers : Crash(w)
  \/ \E w \in Writers, p \in Paths, e \in EventIds : BeginEvent(w, p, e)
  \/ \E w \in Writers, p \in Paths, c \in CapsuleIds : BeginCapsule(w, p, c)
  \/ \E p \in Paths : Forget(p)
  \/ \E es \in SUBSET EventIds, cs \in SUBSET CapsuleIds : Prune(es, cs)

Spec == Init /\ [][Next]_vars

=============================================================================

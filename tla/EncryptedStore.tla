--------------------------- MODULE EncryptedStore ---------------------------
(***************************************************************************)
(* The SQLite database every regurgitate process shares.  One operator per *)
(* SQL statement (or IMMEDIATE transaction) of src/storage; SQLite runs    *)
(* each of them atomically, so each is one step.  Between two statements   *)
(* of one process any statement of another process may run: the modules    *)
(* that EXTEND this one put the statements in the order of a service.      *)
(*                                                                         *)
(* Ciphertexts, nonces and lookup tokens are abstracted away: a token is   *)
(* an injective function of what it is derived from, so the identity       *)
(* itself stands for it.                                                   *)
(***************************************************************************)
EXTENDS FiniteSets

CONSTANTS
  Paths,        \* canonical project paths (repository roots)
  ProjectIds,   \* the UUIDs that may become project identities
  EventIds,     \* deterministic event UUIDs
  CapsuleIds,   \* experience capsule UUIDs
  Bodies,       \* what a sealed capsule holds besides its origin
  None          \* SQL's missing row

ExperienceRow == [origin : ProjectIds, body : Bodies]

ASSUME StoreAssumption ==
  /\ None \notin Paths \cup ProjectIds \cup ExperienceRow
  /\ ProjectIds \cap CapsuleIds = {}

VARIABLES
  projects,     \* table private_projects: path -> identity, or None
  forgotten,    \* table forgotten_project_tokens
  issued,       \* the UUIDs Uuid::new_v4 has returned so far
  events,       \* table events: event id -> owning identity, or None
  experiences   \* table experiences: capsule id -> row, or None

storeVars == <<projects, forgotten, issued, events, experiences>>

StoreTypeOK ==
  /\ projects \in [Paths -> ProjectIds \cup {None}]
  /\ forgotten \in SUBSET ProjectIds
  /\ issued \in SUBSET (ProjectIds \cup CapsuleIds)
  /\ events \in [EventIds -> ProjectIds \cup {None}]
  /\ experiences \in [CapsuleIds -> ExperienceRow \cup {None}]

StoreInit ==
  /\ projects = [p \in Paths |-> None]
  /\ forgotten = {}
  /\ issued = {}
  /\ events = [e \in EventIds |-> None]
  /\ experiences = [c \in CapsuleIds |-> None]

-----------------------------------------------------------------------------
(* The identities some path maps to now. *)
Mapped == {projects[p] : p \in Paths} \ {None}

EventsOf(id) == {e \in EventIds : events[e] = id}

ExperiencesOf(id) ==
  {c \in CapsuleIds : experiences[c] # None /\ experiences[c].origin = id}

(* Faulty variant: INSERT OR REPLACE, the last creator wins. *)
InsertMappingReplacing(path) ==
  /\ \E id \in ProjectIds \ issued :
       /\ issued' = issued \cup {id}
       /\ projects' = [projects EXCEPT ![path] = id]
  /\ UNCHANGED <<forgotten, events, experiences>>

(***************************************************************************)
(* INSERT OR IGNORE INTO private_projects with a UUID generated just       *)
(* before: an existing mapping wins and the new UUID is lost.              *)
(***************************************************************************)
InsertMapping(path) ==
  /\ \E id \in ProjectIds \ issued :
       /\ issued' = issued \cup {id}
       /\ projects' = IF projects[path] = None
                        THEN [projects EXCEPT ![path] = id]
                        ELSE projects
  /\ UNCHANGED <<forgotten, events, experiences>>

(* Faulty variants: no tombstone lookup; no primary-key conflict. *)
EventAcceptedIfNew(e, id) == events[e] = None
EventAcceptedIfLive(e, id) == id \notin forgotten

(* Whether the INSERT OR IGNORE ... WHERE NOT EXISTS of append adds a row. *)
EventAccepted(e, id) == events[e] = None /\ id \notin forgotten

AppendEvent(e, id) ==
  /\ events' = IF EventAccepted(e, id) THEN [events EXCEPT ![e] = id]
                                       ELSE events
  /\ UNCHANGED <<projects, forgotten, issued, experiences>>

(* Faulty variant: no tombstone lookup. *)
ExperienceAcceptedIfNew(c, id) == experiences[c] = None

ExperienceAccepted(c, id) == experiences[c] = None /\ id \notin forgotten

AppendExperience(c, id, b) ==
  /\ experiences' = IF ExperienceAccepted(c, id)
                      THEN [experiences EXCEPT ![c] = [origin |-> id, body |-> b]]
                      ELSE experiences
  /\ UNCHANGED <<projects, forgotten, issued, events>>

(* Faulty variant: the mapping survives. *)
EraseProjectRowsOnly(path) ==
  LET id == projects[path] IN
    /\ id # None
    /\ forgotten' = forgotten \cup {id}
    /\ events' = [e \in EventIds |-> IF e \in EventsOf(id) THEN None ELSE events[e]]
    /\ experiences' = [c \in CapsuleIds |->
                         IF c \in ExperiencesOf(id) THEN None ELSE experiences[c]]
    /\ UNCHANGED <<projects, issued>>

(***************************************************************************)
(* erase_project: one IMMEDIATE transaction finds the identity, writes its *)
(* tombstone, deletes both ledgers' rows and the mapping.  Ingestion       *)
(* cursors are in another table and stay.                                  *)
(***************************************************************************)
EraseProject(path) ==
  LET id == projects[path] IN
    /\ id # None
    /\ forgotten' = forgotten \cup {id}
    /\ events' = [e \in EventIds |-> IF e \in EventsOf(id) THEN None ELSE events[e]]
    /\ experiences' = [c \in CapsuleIds |->
                         IF c \in ExperiencesOf(id) THEN None ELSE experiences[c]]
    /\ projects' = [projects EXCEPT ![path] = None]
    /\ UNCHANGED issued

(***************************************************************************)
(* One retention batch: which rows it selects is the subject of module     *)
(* Retention; here any rows may go.                                        *)
(***************************************************************************)
DeleteBatch(es, cs) ==
  /\ events' = [e \in EventIds |-> IF e \in es THEN None ELSE events[e]]
  /\ experiences' = [c \in CapsuleIds |-> IF c \in cs THEN None ELSE experiences[c]]
  /\ UNCHANGED <<projects, forgotten, issued>>

=============================================================================

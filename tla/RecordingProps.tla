--------------------------- MODULE RecordingProps ---------------------------
(***************************************************************************)
(* What the recording protocol guarantees however writers, forgets, prunes *)
(* and crashes interleave.                                                 *)
(***************************************************************************)
EXTENDS Recording

(* No stored event or capsule belongs to an identity that no path maps to: *)
(* a writer that resolved its project before an erase cannot recreate an   *)
(* orphan row after it (forgetting.rs, sqlite.rs append).                  *)
NoOrphanRows ==
  /\ \A e \in EventIds : events[e] # None => events[e] \in Mapped
  /\ \A c \in CapsuleIds :
       experiences[c] # None => experiences[c].origin \in Mapped

(* Two paths never share an identity and no path maps to a forgotten one,  *)
(* although resolve_project creates mappings without a transaction.        *)
MappingsSound ==
  /\ \A p, q \in Paths :
       projects[p] # None /\ projects[p] = projects[q] => p = q
  /\ Mapped \cap forgotten = {}
  /\ Mapped \cup forgotten \subseteq issued

(* A writer about to append holds the identity its path maps to now, or    *)
(* one that has been forgotten: concurrent first resolvers of one path     *)
(* agree (project.rs resolve_project re-reads after INSERT OR IGNORE).     *)
ResolversAgree ==
  \A w \in Writers :
    pc[w] = "append" => \/ held[w] = projects[path[w]]
                        \/ held[w] \in forgotten

IInv == TypeOK /\ NoOrphanRows /\ MappingsSound /\ ResolversAgree

(* An identity is never brought back: once forgotten it stays forgotten,   *)
(* and no step stores a row under it.                                      *)
ForgottenForGood ==
  [][/\ forgotten \subseteq forgotten'
     /\ \A id \in forgotten : EventsOf(id)' = {} /\ ExperiencesOf(id)' = {}]_vars

-----------------------------------------------------------------------------
(* The items stored under the identity a path maps to. *)
ShelfOf(p) ==
  IF projects[p] = None THEN {}
  ELSE EventsOf(projects[p]) \cup ExperiencesOf(projects[p])

(* A writer's ticket is the path whose live identity it holds. *)
TicketOf(w) ==
  IF pc[w] = "append" /\ held[w] \notin forgotten THEN path[w] ELSE None

Ledger == INSTANCE ProjectLedger
            WITH shelf <- [p \in Paths |-> ShelfOf(p)],
                 ticket <- [w \in Writers |-> TicketOf(w)]

(* Resolution, tombstones and the atomic erase together implement the      *)
(* ledger: forgetting a path is one atomic step that also revokes every    *)
(* writer that resolved the project before it.                             *)
ImplementsLedger == Ledger!Spec

=============================================================================

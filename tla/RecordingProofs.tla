--------------------------- MODULE RecordingProofs --------------------------
(***************************************************************************)
(* Proofs, for any number of paths, identities, events, capsules and       *)
(* writers, of what module RecordingProps states.  IInv is inductive:      *)
(* NoOrphanRows needs ResolversAgree (whoever is about to append holds the *)
(* live identity of its path or a forgotten one, and the statement refuses *)
(* the latter), and ResolversAgree needs MappingsSound (an erase retires   *)
(* the identity of one path only).                                         *)
(***************************************************************************)
EXTENDS RecordingProps, TLAPS

USE StoreAssumption, RecordingAssumption

(* The initial state satisfies the inductive invariant. *)
LEMMA InitIInv == Init => IInv
  BY DEF Init, StoreInit, IInv, TypeOK, StoreTypeOK, Outcomes, NoOrphanRows,
         MappingsSound, ResolversAgree, Mapped

(* What it means to be a live identity. *)
LEMMA MappedIs == \A x : x \in Mapped <=> x # None /\ \E p \in Paths : projects[p] = x
  BY DEF Mapped

-----------------------------------------------------------------------------
(* Type correctness (TypeOK) is preserved by every step. *)
LEMMA TypeStep == TypeOK /\ [Next]_vars => TypeOK'
<1> SUFFICES ASSUME TypeOK, [Next]_vars PROVE TypeOK'
  OBVIOUS
<1> USE DEF TypeOK, StoreTypeOK, Outcomes
<1>1. ASSUME NEW w \in Writers, LoadProject(w) PROVE TypeOK'
  BY <1>1 DEF LoadProject, Resolved, storeVars
<1>2. ASSUME NEW w \in Writers, InsertProject(w) PROVE TypeOK'
  BY <1>2 DEF InsertProject, InsertMapping
<1>3. ASSUME NEW w \in Writers, ReloadProject(w) PROVE TypeOK'
  BY <1>3 DEF ReloadProject, Resolved, Exit, storeVars
<1>4. ASSUME NEW w \in Writers, RecordEvent(w) PROVE TypeOK'
  BY <1>4 DEF RecordEvent, AppendEvent, Exit
<1>5. ASSUME NEW w \in Writers, RecordCapsule(w) PROVE TypeOK'
  <2> PICK b \in Bodies : AppendExperience(item[w], held[w], b)
    BY <1>5 DEF RecordCapsule
  <2>1. [origin |-> held[w], body |-> b] \in ExperienceRow
    BY <1>5 DEF RecordCapsule, ExperienceRow
  <2> QED
    BY <1>5, <2>1 DEF RecordCapsule, AppendExperience, Exit
<1>6. ASSUME NEW w \in Writers, Crash(w) PROVE TypeOK'
  BY <1>6 DEF Crash, Exit, storeVars
<1>7. ASSUME NEW w \in Writers, NEW p \in Paths, NEW e \in EventIds, BeginEvent(w, p, e)
      PROVE TypeOK'
  BY <1>7 DEF BeginEvent, Begin, Items
<1>8. ASSUME NEW w \in Writers, NEW p \in Paths, NEW c \in CapsuleIds, BeginCapsule(w, p, c)
      PROVE TypeOK'
  BY <1>8 DEF BeginCapsule, Begin, Items
<1>9. ASSUME NEW p \in Paths, Forget(p) PROVE TypeOK'
  BY <1>9 DEF Forget, EraseProject, writerVars
<1>10. ASSUME NEW es \in SUBSET EventIds, NEW cs \in SUBSET CapsuleIds, Prune(es, cs)
       PROVE TypeOK'
  BY <1>10 DEF Prune, DeleteBatch, writerVars
<1>11. CASE UNCHANGED vars
  BY <1>11 DEF vars, storeVars, writerVars
<1> QED
  BY <1>1, <1>2, <1>3, <1>4, <1>5, <1>6, <1>7, <1>8, <1>9, <1>10, <1>11 DEF Next, Step

(* Every reachable state is well typed. *)
THEOREM TypeCorrect == Spec => []TypeOK
<1>1. Init => TypeOK
  BY InitIInv DEF IInv
<1> QED
  BY <1>1, TypeStep, PTL DEF Spec

-----------------------------------------------------------------------------
(* Steps of a writer that touch no table keep the invariant: a resolved    *)
(* identity is the one just loaded.                                        *)
LEMMA LocalStep ==
  ASSUME IInv, TypeOK', UNCHANGED storeVars, NEW w \in Writers,
         LoadProject(w) \/ ReloadProject(w) \/ Crash(w)
  PROVE  IInv'
<1>1. NoOrphanRows' /\ MappingsSound'
  BY DEF IInv, NoOrphanRows, MappingsSound, storeVars, Mapped
<1>2. ResolversAgree'
  BY DEF IInv, TypeOK, StoreTypeOK, ResolversAgree, LoadProject, ReloadProject, Crash,
         Resolved, Exit, storeVars
<1> QED
  BY <1>1, <1>2 DEF IInv

(* A new process starts: only its own variables and the UUIDs handed out.  *)
LEMMA BeginStep ==
  ASSUME IInv, TypeOK', NEW w \in Writers, NEW p \in Paths,
         \/ \E e \in EventIds : BeginEvent(w, p, e)
         \/ \E c \in CapsuleIds : BeginCapsule(w, p, c)
  PROVE  IInv'
<1>1. /\ UNCHANGED <<projects, forgotten, events, experiences, held>>
      /\ issued \subseteq issued'
      /\ pc' = [pc EXCEPT ![w] = "load"] /\ path' = [path EXCEPT ![w] = p]
  BY DEF BeginEvent, BeginCapsule, Begin
<1>2. NoOrphanRows' /\ MappingsSound'
  BY <1>1 DEF IInv, NoOrphanRows, MappingsSound, Mapped
<1>3. ResolversAgree'
  BY <1>1 DEF IInv, TypeOK, StoreTypeOK, ResolversAgree
<1> QED
  BY <1>2, <1>3 DEF IInv

(* The mapping inserted, if any, is a fresh identity, and it replaces none. *)
LEMMA InsertStep ==
  ASSUME IInv, TypeOK', NEW w \in Writers, InsertProject(w)
  PROVE  IInv'
<1> USE DEF IInv, TypeOK, StoreTypeOK
<1> DEFINE me == path[w]
<1>0. me \in Paths
  BY DEF InsertProject
<1>1. PICK id \in ProjectIds \ issued :
        /\ issued' = issued \cup {id}
        /\ projects' = IF projects[me] = None THEN [projects EXCEPT ![me] = id]
                                               ELSE projects
  BY DEF InsertProject, InsertMapping
<1>2. UNCHANGED <<forgotten, events, experiences, path, item, held>>
      /\ pc' = [pc EXCEPT ![w] = "reload"]
  BY DEF InsertProject, InsertMapping
<1>3. id \notin Mapped /\ id \notin forgotten /\ id # None
  BY <1>1 DEF MappingsSound
<1>4. Mapped \subseteq Mapped' /\ Mapped' \subseteq Mapped \cup {id}
  BY <1>0, <1>1, MappedIs DEF Mapped
<1>5. NoOrphanRows'
  BY <1>2, <1>4 DEF NoOrphanRows
<1>6. MappingsSound'
  <2>1. ASSUME NEW p \in Paths, NEW q \in Paths, projects'[p] # None,
               projects'[p] = projects'[q]
        PROVE  p = q
    BY <2>1, <1>0, <1>1, <1>3, MappedIs DEF MappingsSound
  <2>2. Mapped' \cap forgotten' = {} /\ Mapped' \cup forgotten' \subseteq issued'
    BY <1>1, <1>2, <1>3, <1>4 DEF MappingsSound
  <2> QED
    BY <2>1, <2>2 DEF MappingsSound
<1>7. ResolversAgree'
  BY <1>0, <1>1, <1>2 DEF ResolversAgree
<1> QED
  BY <1>5, <1>6, <1>7

(* An append stores a row only under a live identity: the one held is the  *)
(* path's own or a forgotten one, which the statement refuses.             *)
LEMMA AppendStep ==
  ASSUME IInv, TypeOK', NEW w \in Writers, RecordEvent(w) \/ RecordCapsule(w)
  PROVE  IInv'
<1> USE DEF IInv, TypeOK, StoreTypeOK
<1>1. UNCHANGED <<projects, forgotten, issued>>
  BY DEF RecordEvent, RecordCapsule, AppendEvent, AppendExperience
<1>2. Mapped' = Mapped /\ MappingsSound'
  BY <1>1 DEF MappingsSound, Mapped
<1>3. pc[w] = "append" /\ path[w] \in Paths /\ held[w] \in ProjectIds
  BY DEF RecordEvent, RecordCapsule
<1>4. held[w] \in Mapped \/ held[w] \in forgotten
  BY <1>3, MappedIs DEF ResolversAgree
<1>5. ResolversAgree'
  BY <1>1 DEF ResolversAgree, RecordEvent, RecordCapsule, Exit
<1>6. NoOrphanRows'
  <2>1. CASE RecordEvent(w)
    <3>1. UNCHANGED experiences
          /\ \A e \in EventIds : \/ events'[e] = events[e]
                                 \/ events'[e] = held[w] /\ held[w] \notin forgotten
      BY <2>1 DEF RecordEvent, AppendEvent, EventAccepted
    <3> QED
      BY <3>1, <1>2, <1>4 DEF NoOrphanRows
  <2>2. CASE RecordCapsule(w)
    <3> PICK b \in Bodies : AppendExperience(item[w], held[w], b)
      BY <2>2 DEF RecordCapsule
    <3>1. UNCHANGED events
          /\ \A c \in CapsuleIds :
               \/ experiences'[c] = experiences[c]
               \/ experiences'[c].origin = held[w] /\ held[w] \notin forgotten
      BY DEF AppendExperience, ExperienceAccepted
    <3> QED
      BY <3>1, <1>2, <1>4 DEF NoOrphanRows
  <2> QED
    BY <2>1, <2>2
<1> QED
  BY <1>2, <1>5, <1>6

(* An erase retires one identity, its rows and its mapping together.       *)
LEMMA ForgetStep ==
  ASSUME IInv, TypeOK', NEW p \in Paths, Forget(p)
  PROVE  IInv'
<1> USE DEF IInv, TypeOK, StoreTypeOK
<1> DEFINE id == projects[p]
<1>1. /\ id # None /\ forgotten' = forgotten \cup {id}
      /\ projects' = [projects EXCEPT ![p] = None]
      /\ UNCHANGED <<issued, writerVars>>
  BY DEF Forget, EraseProject
<1>2. Mapped' = Mapped \ {id}
  BY <1>1, MappedIs DEF Mapped, MappingsSound
<1>3. NoOrphanRows'
  <2>1. \A e \in EventIds : events'[e] # None => events'[e] = events[e] /\ events[e] # id
    BY DEF Forget, EraseProject, EventsOf
  <2>2. \A c \in CapsuleIds : experiences'[c] # None =>
          experiences'[c] = experiences[c] /\ experiences[c].origin # id
    BY DEF Forget, EraseProject, ExperiencesOf
  <2> QED
    BY <2>1, <2>2, <1>2 DEF NoOrphanRows
<1>4. MappingsSound'
  <2>1. Mapped' \cap forgotten' = {} /\ Mapped' \cup forgotten' \subseteq issued'
    BY <1>1, <1>2, MappedIs DEF MappingsSound
  <2>2. \A q, r \in Paths : projects'[q] # None /\ projects'[q] = projects'[r] => q = r
    BY <1>1 DEF MappingsSound
  <2> QED
    BY <2>1, <2>2 DEF MappingsSound
<1>5. ResolversAgree'
  BY <1>1 DEF ResolversAgree, writerVars
<1> QED
  BY <1>3, <1>4, <1>5

(* A retention batch only removes rows.                                    *)
LEMMA PruneStep ==
  ASSUME IInv, TypeOK', NEW es \in SUBSET EventIds, NEW cs \in SUBSET CapsuleIds,
         Prune(es, cs)
  PROVE  IInv'
<1>1. UNCHANGED <<projects, forgotten, issued, writerVars>>
  BY DEF Prune, DeleteBatch
<1>2. MappingsSound' /\ ResolversAgree' /\ Mapped' = Mapped
  BY <1>1 DEF IInv, MappingsSound, ResolversAgree, Mapped, writerVars
<1>3. NoOrphanRows'
  BY <1>2 DEF IInv, NoOrphanRows, Prune, DeleteBatch
<1> QED
  BY <1>2, <1>3 DEF IInv

(* The invariant is inductive. *)
LEMMA InvStep == IInv /\ [Next]_vars => IInv'
<1> SUFFICES ASSUME IInv, [Next]_vars PROVE IInv'
  OBVIOUS
<1>0. TypeOK'
  BY TypeStep DEF IInv
<1>1. ASSUME NEW w \in Writers, LoadProject(w) \/ ReloadProject(w) \/ Crash(w)
      PROVE  IInv'
  <2>1. UNCHANGED storeVars
    BY <1>1 DEF LoadProject, ReloadProject, Crash, Resolved
  <2> QED
    BY <1>0, <1>1, <2>1, LocalStep
<1>2. ASSUME NEW w \in Writers, InsertProject(w) PROVE IInv'
  BY <1>0, <1>2, InsertStep
<1>3. ASSUME NEW w \in Writers, RecordEvent(w) \/ RecordCapsule(w) PROVE IInv'
  BY <1>0, <1>3, AppendStep
<1>4. ASSUME NEW w \in Writers, NEW p \in Paths,
             \/ \E e \in EventIds : BeginEvent(w, p, e)
             \/ \E c \in CapsuleIds : BeginCapsule(w, p, c)
      PROVE  IInv'
  BY <1>0, <1>4, BeginStep
<1>5. ASSUME NEW p \in Paths, Forget(p) PROVE IInv'
  BY <1>0, <1>5, ForgetStep
<1>6. ASSUME NEW es \in SUBSET EventIds, NEW cs \in SUBSET CapsuleIds, Prune(es, cs)
      PROVE  IInv'
  BY <1>0, <1>6, PruneStep
<1>7. CASE UNCHANGED vars
  BY <1>0, <1>7 DEF IInv, NoOrphanRows, MappingsSound, ResolversAgree, Mapped,
                    vars, storeVars, writerVars
<1> QED
  BY <1>1, <1>2, <1>3, <1>4, <1>5, <1>6, <1>7 DEF Next, Step

(* The inductive invariant holds in every reachable state. *)
THEOREM Invariance == Spec => []IInv
  BY InitIInv, InvStep, PTL DEF Spec

(* No row is ever stored under an identity that no path maps to. *)
THEOREM NoOrphans == Spec => []NoOrphanRows
<1>1. IInv => NoOrphanRows
  BY DEF IInv
<1> QED
  BY <1>1, Invariance, PTL

(* Live identities are injective, never forgotten and never reissued. *)
THEOREM Mappings == Spec => []MappingsSound
<1>1. IInv => MappingsSound
  BY DEF IInv
<1> QED
  BY <1>1, Invariance, PTL

(* Concurrent resolvers of one path agree on its identity. *)
THEOREM Agreement == Spec => []ResolversAgree
<1>1. IInv => ResolversAgree
  BY DEF IInv
<1> QED
  BY <1>1, Invariance, PTL

-----------------------------------------------------------------------------
(* No row survives or appears under an identity once it is forgotten. *)
LEMMA ForgottenStep ==
  ASSUME IInv, IInv', [Next]_vars
  PROVE  /\ forgotten \subseteq forgotten'
         /\ \A id \in forgotten : EventsOf(id)' = {} /\ ExperiencesOf(id)' = {}
<1>1. forgotten \subseteq forgotten'
  BY DEF Next, Step, LoadProject, InsertProject, ReloadProject, Resolved, RecordEvent,
         RecordCapsule, Crash, BeginEvent, BeginCapsule, Begin, Forget, Prune,
         InsertMapping, AppendEvent, AppendExperience, EraseProject, DeleteBatch,
         vars, storeVars
<1>2. ASSUME NEW id \in forgotten PROVE EventsOf(id)' = {} /\ ExperiencesOf(id)' = {}
  <2>1. id \notin Mapped'
    BY <1>1 DEF IInv, MappingsSound
  <2>2. id # None
    BY DEF IInv, TypeOK, StoreTypeOK
  <2> QED
    BY <2>1, <2>2 DEF IInv, NoOrphanRows, EventsOf, ExperiencesOf
<1> QED
  BY <1>1, <1>2

(* An identity, once forgotten, stays forgotten and owns nothing. *)
THEOREM ForgottenStays == Spec => ForgottenForGood
<1>1. IInv /\ IInv' /\ [Next]_vars =>
        [/\ forgotten \subseteq forgotten'
         /\ \A id \in forgotten : EventsOf(id)' = {} /\ ExperiencesOf(id)' = {}]_vars
  BY ForgottenStep
<1> QED
  BY <1>1, Invariance, PTL DEF Spec, ForgottenForGood

-----------------------------------------------------------------------------
(* The refinement: what each step does to the shelves and the tickets.     *)
Shelves == [p \in Paths |-> ShelfOf(p)]
Tickets == [w \in Writers |-> TicketOf(w)]

(* An item is on some shelf exactly when its row exists. *)
LEMMA ShelvedIs ==
  ASSUME IInv
  PROVE  /\ \A e \in EventIds : Ledger!Shelved(e) <=> events[e] # None
         /\ \A c \in CapsuleIds : Ledger!Shelved(c) <=> experiences[c] # None
  BY MappedIs DEF IInv, TypeOK, StoreTypeOK, NoOrphanRows, ShelfOf, EventsOf, ExperiencesOf,
       Ledger!Shelved

(* The initial shelves and tickets are empty. *)
LEMMA LedgerInit == Init => Ledger!Init
  BY DEF Init, StoreInit, Ledger!Init, ShelfOf, TicketOf

(* Resolving a project, finding nothing and dying move tickets only.       *)
LEMMA LedgerLocal ==
  ASSUME IInv, UNCHANGED storeVars, NEW w \in Writers,
         LoadProject(w) \/ ReloadProject(w) \/ Crash(w)
  PROVE  [Ledger!Next]_(Ledger!vars)
<1> USE DEF IInv, TypeOK, StoreTypeOK
<1>1. UNCHANGED Shelves
  BY DEF storeVars, Shelves, ShelfOf, EventsOf, ExperiencesOf
<1>2. CASE (LoadProject(w) \/ ReloadProject(w)) /\ Resolved(w)
  <2>1. path[w] \in Paths /\ projects[path[w]] \notin forgotten
    BY <1>2, MappedIs DEF LoadProject, ReloadProject, Resolved, MappingsSound
  <2>2. Tickets[w] = None /\ Tickets' = [Tickets EXCEPT ![w] = path[w]]
    BY <1>2, <2>1 DEF Tickets, TicketOf, LoadProject, ReloadProject, Resolved, storeVars, Exit
  <2>3. Ledger!Admit(w, path[w])
    BY <1>1, <2>2 DEF Ledger!Admit, Tickets, Shelves
  <2> QED
    BY <2>1, <2>3 DEF Ledger!Next
<1>3. CASE (LoadProject(w) \/ ReloadProject(w)) /\ ~Resolved(w)
  <2>1. UNCHANGED Tickets
    BY <1>3 DEF Tickets, TicketOf, LoadProject, ReloadProject, storeVars, Exit
  <2> QED
    BY <1>1, <2>1 DEF Ledger!vars, Tickets, Shelves
<1>4. CASE Crash(w)
  <2>1. Tickets' = [Tickets EXCEPT ![w] = None]
    BY <1>4 DEF Tickets, TicketOf, Crash, Exit, storeVars
  <2>2. CASE Tickets[w] = None
    <3>1. UNCHANGED Tickets
      BY <2>1, <2>2 DEF Tickets
    <3> QED
      BY <1>1, <3>1 DEF Ledger!vars, Tickets, Shelves
  <2>3. CASE Tickets[w] # None
    <3>1. Tickets[w] \in Paths
      BY <2>3, <1>4 DEF Tickets, TicketOf
    <3>2. Ledger!Abandon(w)
      BY <1>1, <2>1, <3>1 DEF Ledger!Abandon, Tickets, Shelves
    <3> QED
      BY <3>2 DEF Ledger!Next
  <2> QED
    BY <2>2, <2>3
<1> QED
  BY <1>2, <1>3, <1>4

(* A fresh identity owns nothing: creating a mapping changes no shelf.     *)
LEMMA LedgerInsert ==
  ASSUME IInv, NEW w \in Writers, InsertProject(w)
  PROVE  UNCHANGED <<Shelves, Tickets>>
<1> USE DEF IInv, TypeOK, StoreTypeOK
<1> DEFINE me == path[w]
<1>1. PICK id \in ProjectIds \ issued :
        projects' = IF projects[me] = None THEN [projects EXCEPT ![me] = id] ELSE projects
  BY DEF InsertProject, InsertMapping
<1>2. UNCHANGED <<forgotten, events, experiences, path, item, held>>
      /\ pc' = [pc EXCEPT ![w] = "reload"] /\ pc[w] = "insert" /\ me \in Paths
  BY DEF InsertProject, InsertMapping
<1>3. EventsOf(id) = {} /\ ExperiencesOf(id) = {} /\ id # None
  BY <1>1 DEF NoOrphanRows, MappingsSound, EventsOf, ExperiencesOf
<1>4. UNCHANGED Tickets
  BY <1>2 DEF Tickets, TicketOf
<1>5. UNCHANGED Shelves
  <2> SUFFICES ASSUME NEW p \in Paths PROVE ShelfOf(p)' = ShelfOf(p)
    BY DEF Shelves
  <2>1. CASE projects'[p] = projects[p]
    BY <2>1, <1>2 DEF ShelfOf, EventsOf, ExperiencesOf
  <2>2. CASE projects'[p] # projects[p]
    <3>1. projects[p] = None /\ projects'[p] = id
      BY <2>2, <1>1, <1>2
    <3> QED
      BY <3>1, <1>2, <1>3 DEF ShelfOf, EventsOf, ExperiencesOf
  <2> QED
    BY <2>1, <2>2
<1> QED
  BY <1>4, <1>5

(* An append stores the item on the shelf of the writer's ticket; without  *)
(* a ticket it is refused.                                                 *)
LEMMA LedgerAppend ==
  ASSUME IInv, NEW w \in Writers, RecordEvent(w) \/ RecordCapsule(w)
  PROVE  [Ledger!Next]_(Ledger!vars)
<1> USE DEF IInv, TypeOK, StoreTypeOK
<1> DEFINE me == path[w]
           i == item[w]
<1>1. pc[w] = "append" /\ me \in Paths /\ held[w] \in ProjectIds /\ i \in Items
      /\ UNCHANGED <<projects, forgotten>>
  BY DEF RecordEvent, RecordCapsule, AppendEvent, AppendExperience
<1>2. Tickets' = [Tickets EXCEPT ![w] = None]
  BY <1>1 DEF Tickets, TicketOf, RecordEvent, RecordCapsule, Exit
<1>3. CASE held[w] \in forgotten
  <2>1. UNCHANGED <<events, experiences>>
    BY <1>3 DEF RecordEvent, RecordCapsule, AppendEvent, AppendExperience,
                EventAccepted, ExperienceAccepted
  <2>2. UNCHANGED Shelves
    BY <1>1, <2>1 DEF Shelves, ShelfOf, EventsOf, ExperiencesOf
  <2>3. Tickets[w] = None
    BY <1>3 DEF Tickets, TicketOf
  <2>4. UNCHANGED Tickets
    BY <1>2, <2>3 DEF Tickets
  <2> QED
    BY <2>2, <2>4 DEF Ledger!vars, Tickets, Shelves
<1>4. CASE held[w] \notin forgotten
  <2>1. held[w] = projects[me] /\ Tickets[w] = me
    BY <1>1, <1>4 DEF ResolversAgree, Tickets, TicketOf
  <2>2. ASSUME NEW q \in Paths, q # me, projects[q] # None PROVE projects[q] # held[w]
    BY <1>1, <2>1, <2>2 DEF MappingsSound
  <2>3. Shelves' = IF Ledger!Shelved(i) THEN Shelves
                   ELSE [Shelves EXCEPT ![me] = Shelves[me] \cup {i}]
    <3>1. CASE RecordEvent(w)
      <4>1. UNCHANGED experiences /\ i \in EventIds
            /\ events' = IF events[i] = None THEN [events EXCEPT ![i] = held[w]] ELSE events
        BY <3>1, <1>4 DEF RecordEvent, AppendEvent, EventAccepted
      <4>2. CASE events[i] # None
        BY <4>1, <4>2, <1>1, ShelvedIs DEF Shelves, ShelfOf, EventsOf, ExperiencesOf
      <4>3. CASE events[i] = None
        <5>1. ~Ledger!Shelved(i)
          BY <4>1, <4>3, ShelvedIs
        <5>2. ASSUME NEW q \in Paths, q = me PROVE ShelfOf(q)' = ShelfOf(q) \cup {i}
          <6>1. projects'[me] = held[w] /\ projects[me] = held[w] /\ held[w] # None
            BY <1>1, <2>1
          <6>2. {e \in EventIds : events'[e] = held[w]}
                  = {e \in EventIds : events[e] = held[w]} \cup {i}
            BY <4>1, <4>3
          <6> QED
            BY <4>1, <5>2, <6>1, <6>2 DEF ShelfOf, EventsOf, ExperiencesOf
        <5>3. ASSUME NEW q \in Paths, q # me PROVE ShelfOf(q)' = ShelfOf(q)
          BY <4>1, <4>3, <5>3, <1>1, <2>2 DEF ShelfOf, EventsOf, ExperiencesOf
        <5>4. Shelves' = [Shelves EXCEPT ![me] = Shelves[me] \cup {i}]
          BY <5>2, <5>3, <1>1 DEF Shelves
        <5> QED
          BY <5>1, <5>4
      <4> QED
        BY <4>2, <4>3
    <3>2. CASE RecordCapsule(w)
      <4> PICK b \in Bodies : AppendExperience(i, held[w], b)
        BY <3>2 DEF RecordCapsule
      <4>1. UNCHANGED events /\ i \in CapsuleIds
            /\ experiences' = IF experiences[i] = None
                 THEN [experiences EXCEPT ![i] = [origin |-> held[w], body |-> b]]
                 ELSE experiences
        BY <3>2, <1>4 DEF RecordCapsule, AppendExperience, ExperienceAccepted
      <4>2. CASE experiences[i] # None
        BY <4>1, <4>2, <1>1, ShelvedIs DEF Shelves, ShelfOf, EventsOf, ExperiencesOf
      <4>3. CASE experiences[i] = None
        <5>0. [origin |-> held[w], body |-> b] # None
          BY <1>1 DEF ExperienceRow
        <5>1. ~Ledger!Shelved(i)
          BY <4>1, <4>3, ShelvedIs
        <5>2. ASSUME NEW q \in Paths, q = me PROVE ShelfOf(q)' = ShelfOf(q) \cup {i}
          <6>1. projects'[me] = held[w] /\ projects[me] = held[w] /\ held[w] # None
            BY <1>1, <2>1
          <6>2. {c \in CapsuleIds : experiences'[c] # None /\ experiences'[c].origin = held[w]}
                  = {c \in CapsuleIds : experiences[c] # None
                                         /\ experiences[c].origin = held[w]} \cup {i}
            BY <4>1, <4>3, <5>0
          <6> QED
            BY <4>1, <5>2, <6>1, <6>2 DEF ShelfOf, EventsOf, ExperiencesOf
        <5>3. ASSUME NEW q \in Paths, q # me PROVE ShelfOf(q)' = ShelfOf(q)
          BY <4>1, <4>3, <5>3, <1>1, <2>2 DEF ShelfOf, EventsOf, ExperiencesOf
        <5>4. Shelves' = [Shelves EXCEPT ![me] = Shelves[me] \cup {i}]
          BY <5>2, <5>3, <1>1 DEF Shelves
        <5> QED
          BY <5>1, <5>4
      <4> QED
        BY <4>2, <4>3
    <3> QED
      BY <3>1, <3>2
  <2>4. Ledger!Store(w, i)
    BY <1>1, <1>2, <2>1, <2>3 DEF Ledger!Store, Shelves, Tickets
  <2> QED
    BY <1>1, <2>4 DEF Ledger!Next
<1> QED
  BY <1>3, <1>4

(* An erase empties one shelf and tears up exactly the tickets for it.     *)
LEMMA LedgerForget ==
  ASSUME IInv, NEW p \in Paths, Forget(p)
  PROVE  Ledger!Forget(p)
<1> USE DEF IInv, TypeOK, StoreTypeOK
<1> DEFINE id == projects[p]
<1>1. /\ id # None /\ forgotten' = forgotten \cup {id}
      /\ projects' = [projects EXCEPT ![p] = None]
      /\ UNCHANGED <<issued, pc, path, item, held>>
  BY DEF Forget, EraseProject, writerVars
<1>2. ASSUME NEW q \in Paths, q # p PROVE ShelfOf(q)' = ShelfOf(q)
  <2>1. projects[q] # None => projects[q] # id
    BY <1>1, <1>2 DEF MappingsSound
  <2>2. CASE projects[q] = None
    BY <1>1, <1>2, <2>2 DEF ShelfOf
  <2>3. CASE projects[q] # None
    <3>1. EventsOf(projects[q])' = EventsOf(projects[q])
      BY <1>1, <1>2, <2>1, <2>3 DEF Forget, EraseProject, EventsOf
    <3>2. ExperiencesOf(projects[q])' = ExperiencesOf(projects[q])
      BY <1>1, <1>2, <2>1, <2>3 DEF Forget, EraseProject, ExperiencesOf
    <3> QED
      BY <1>1, <1>2, <2>3, <3>1, <3>2 DEF ShelfOf
  <2> QED
    BY <2>2, <2>3
<1>3. Shelves' = [Shelves EXCEPT ![p] = {}]
  BY <1>1, <1>2 DEF Shelves, ShelfOf
<1>4. ASSUME NEW w \in Writers
      PROVE  TicketOf(w)' = IF TicketOf(w) = p THEN None ELSE TicketOf(w)
  BY <1>1, <1>4 DEF TicketOf, ResolversAgree, MappingsSound
<1> QED
  BY <1>3, <1>4 DEF Ledger!Forget, Shelves

(* A retention batch takes its rows off the shelves.                       *)
LEMMA LedgerPrune ==
  ASSUME IInv, NEW es \in SUBSET EventIds, NEW cs \in SUBSET CapsuleIds, Prune(es, cs)
  PROVE  Ledger!Expire(es \cup cs)
<1> USE DEF IInv, TypeOK, StoreTypeOK
<1>1. UNCHANGED <<projects, forgotten, pc, path, held>>
  BY DEF Prune, DeleteBatch, writerVars
<1>2. ASSUME NEW p \in Paths PROVE ShelfOf(p)' = ShelfOf(p) \ (es \cup cs)
  BY <1>1 DEF ShelfOf, EventsOf, ExperiencesOf, Prune, DeleteBatch
<1> QED
  BY <1>1, <1>2 DEF Ledger!Expire, TicketOf

(* Every step of the processes is a step of the ledger or leaves it alone. *)
LEMMA LedgerStep == IInv /\ [Next]_vars => [Ledger!Next]_(Ledger!vars)
<1> SUFFICES ASSUME IInv, [Next]_vars PROVE [Ledger!Next]_(Ledger!vars)
  OBVIOUS
<1>1. ASSUME NEW w \in Writers, LoadProject(w) \/ ReloadProject(w) \/ Crash(w)
      PROVE  [Ledger!Next]_(Ledger!vars)
  <2>1. UNCHANGED storeVars
    BY <1>1 DEF LoadProject, ReloadProject, Crash, Resolved
  <2> QED
    BY <1>1, <2>1, LedgerLocal
<1>2. ASSUME NEW w \in Writers, InsertProject(w) PROVE [Ledger!Next]_(Ledger!vars)
  BY <1>2, LedgerInsert DEF Ledger!vars, Shelves, Tickets
<1>3. ASSUME NEW w \in Writers, RecordEvent(w) \/ RecordCapsule(w)
      PROVE  [Ledger!Next]_(Ledger!vars)
  BY <1>3, LedgerAppend
<1>4. ASSUME NEW w \in Writers, NEW p \in Paths,
             \/ \E e \in EventIds : BeginEvent(w, p, e)
             \/ \E c \in CapsuleIds : BeginCapsule(w, p, c)
      PROVE  [Ledger!Next]_(Ledger!vars)
  <2>1. /\ UNCHANGED <<projects, forgotten, events, experiences, held>>
        /\ pc[w] = "idle" /\ pc' = [pc EXCEPT ![w] = "load"]
        /\ path' = [path EXCEPT ![w] = p]
    BY <1>4 DEF BeginEvent, BeginCapsule, Begin
  <2>2. UNCHANGED Shelves
    BY <2>1 DEF Shelves, ShelfOf, EventsOf, ExperiencesOf
  <2>3. UNCHANGED Tickets
    BY <2>1 DEF IInv, TypeOK, Tickets, TicketOf
  <2> QED
    BY <2>2, <2>3 DEF Ledger!vars, Shelves, Tickets
<1>5. ASSUME NEW p \in Paths, Forget(p) PROVE [Ledger!Next]_(Ledger!vars)
  BY <1>5, LedgerForget DEF Ledger!Next
<1>6. ASSUME NEW es \in SUBSET EventIds, NEW cs \in SUBSET CapsuleIds, Prune(es, cs)
      PROVE  [Ledger!Next]_(Ledger!vars)
  BY <1>6, LedgerPrune DEF Ledger!Next, Items
<1>7. CASE UNCHANGED vars
  BY <1>7 DEF vars, storeVars, writerVars, Ledger!vars, ShelfOf, TicketOf, EventsOf,
              ExperiencesOf
<1> QED
  BY <1>1, <1>2, <1>3, <1>4, <1>5, <1>6, <1>7 DEF Next, Step

(* The recording protocol implements the ledger. *)
THEOREM Refinement == Spec => ImplementsLedger
  BY LedgerInit, LedgerStep, Invariance, PTL DEF Spec, ImplementsLedger, Ledger!Spec

=============================================================================

-------------------------- MODULE ExperienceProps ---------------------------
(***************************************************************************)
(* What the capsule table keeps, first whatever the interleaving, then     *)
(* what holds only while one process works at a time.                      *)
(***************************************************************************)
EXTENDS Experience

Stored == {c \in CapsuleIds : rows[c] # None}

(* Every stored capsule, and every capsule an agent is about to store from *)
(* an old reading, passes validate: so no operation can fail half-way on   *)
(* its own result (supersede and challenge write without validating first).*)
CapsulesValid ==
  /\ \A c \in Stored : Valid(rows[c])
  /\ \A a \in Agents : \A i \in DOMAIN todo[a] : Valid(todo[a][i].body)

(* A capsule of a forgotten identity is never in the table, although       *)
(* agents that read it before the erase write it back afterwards           *)
(* (experience.rs replace_experience and append_experience).               *)
ForgottenNeverReturn == \A c \in Stored : Live(rows[c].origin)

(* The recovery counter of a challenged capsule is never more than the     *)
(* distinct supporting cohorts its own log shows since the challenge, as   *)
(* long as nothing was evicted, and it never reaches the threshold without *)
(* reactivating (core/experience.rs confirm_with_recovery).                *)
ProgressBacked ==
  \A c \in Stored :
    LET state == rows[c].challenge IN
      state # None =>
        /\ state.recovery < Required
        /\ Len(rows[c].evidence) < MaxEvidence =>
             state.recovery <= Cardinality(SupportingCohorts(rows[c], state))

(* However often and from however many processes a receipt is presented,   *)
(* a log never holds it twice (confirm_at).                                *)
ReceiptOnce ==
  \A c \in Stored : \A i, j \in DOMAIN rows[c].evidence :
    /\ rows[c].evidence[i].receipt = rows[c].evidence[j].receipt
    /\ rows[c].evidence[i].receipt # None
    => i = j

-----------------------------------------------------------------------------
(* Agent a executes a write of a request of kind op in this step.          *)
Writing(op) == \E a \in Agents : call[a] # None /\ call[a].op = op /\ todo[a] # <<>> /\ todo'[a] # todo[a]

(* The recovery bookkeeping in force; an early payload has none.           *)
StateOf(c) == IF c.challenge = None THEN Challenge(c, c.last).challenge ELSE c.challenge

(* The entries at the end of the log that nothing opposes.                 *)
Unopposed(c, outcome) ==
  {i \in DOMAIN c.evidence :
     \A j \in DOMAIN c.evidence : j >= i => c.evidence[j].outcome = outcome}

(* The log shows all that was counted: it never was full, or an entry that *)
(* came before is still in it.                                             *)
Complete(c, state) ==
  Len(c.evidence) < MaxEvidence \/ SupportingOf(c, state) # DOMAIN c.evidence

(* architecture.md: "Recovery requires three distinct supporting           *)
(* post-challenge cohorts; opposing evidence resets progress": a challenged*)
(* capsule becomes active, unless by supersede, only with that many        *)
(* cohorts in its log after the challenge and after the last opposition,   *)
(* as far as the log is complete.                                          *)
RecoveryEarned ==
  [][\A c \in Stored :
       /\ rows[c].lifecycle = "challenged" /\ Complete(rows[c], StateOf(rows[c]))
       /\ c \in Stored' /\ rows'[c].lifecycle = "active"
       /\ ~Writing("supersede")
       => LET state == StateOf(rows[c])
              proof == Unopposed(rows'[c], state.supporting)
                         \cap SupportingOf(rows'[c], state)
              cohort(i) == <<Day(rows'[c].evidence[i].at), rows'[c].evidence[i].env>>
          IN Cardinality({cohort(i) : i \in proof}) >= Required]_vars

(* architecture.md: a confirmation "appends one evidence entry to exactly  *)
(* that capsule": no write takes away what a capsule had, save the oldest  *)
(* entry of a full log; it adds at most one entry, and keeps the caveat.   *)
NoLostUpdate ==
  [][\A c \in Stored : c \in Stored' =>
       LET old == rows[c].evidence
           new == rows'[c].evidence IN
         /\ \/ new = old
            \/ SubSeq(new, 1, Len(new) - 1) =
                 IF Len(old) = MaxEvidence THEN Tail(old) ELSE old
         /\ rows[c].caveat => rows'[c].caveat]_vars

(* architecture.md: "`obsolete` retires a lesson": a retired capsule       *)
(* changes only by an explicit lifecycle command (or is forgotten).        *)
RetiredIsFrozen ==
  [][\A c \in Stored :
       Retired(rows[c]) /\ c \in Stored' /\ rows'[c] # rows[c]
         => Writing("transition") \/ Writing("supersede")]_vars

(* v0.8-plan.md: "Contradicting lesson in the same applicability region    *)
(* marks both `challenged`": when a record reports so, the new capsule and *)
(* one it contradicts are challenged in the table.                         *)
ContradictionMarksBoth ==
  [][\A a \in Agents :
       call[a] # None /\ call'[a] = None /\ answer' = "challenged" =>
         \E c \in Stored' \ {call[a].id} :
           /\ call[a].id \in Stored'
           /\ rows'[c].topic = call[a].topic /\ rows'[c].lesson # call[a].lesson
           /\ rows'[c].lifecycle = "challenged"
           /\ rows'[call[a].id].lifecycle = "challenged"]_vars

(* v0.8-plan.md: "`experience record` confirms an equivalent active capsule*)
(* instead of inserting a paraphrase duplicate": an active capsule is only *)
(* inserted when the table has no equivalent one in use.                   *)
RecordsOnce ==
  [][\A c \in Stored' \ Stored :
       rows'[c].lifecycle = "active" =>
         \A d \in Stored : rows[d].topic = rows'[c].topic /\ SameBucket(rows[d], rows'[c])
                         => Retired(rows[d])]_vars

=============================================================================

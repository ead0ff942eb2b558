---------------------------- MODULE SetupProofs -----------------------------
(***************************************************************************)
(* Any number of installers on one home directory: nothing others keep in  *)
(* a configuration file is lost, no event gets two handlers, and a swap of *)
(* the skill that fails is undone.                                         *)
(*                                                                         *)
(* Each installer has a local invariant about what it has chosen, locked   *)
(* and prepared.  Its own steps establish it; the steps of others keep it  *)
(* because they leave alone a file that is locked, because hooks.json      *)
(* neither appears nor disappears, and because config.toml gets no handler *)
(* where there is a hooks.json.                                            *)
(*                                                                         *)
(* The second half is about what one merge makes of a configuration: what  *)
(* it keeps, what it adds, and that it is stable, for settings with any    *)
(* number of groups and handlers and for any hook command.                 *)
(***************************************************************************)
EXTENDS Setup, ClaudeConfig, AoeConfig, FiniteSetTheorems, SequenceTheorems, TLAPS

Single(doc) == \A e \in Events : Cardinality(Unrestricted(doc.hooks[e])) <= 1
NoHooks(doc) == \A e \in Events : doc.hooks[e] = <<>>

-----------------------------------------------------------------------------
(* What is prepared. *)

LEMMA MigratedHandlers ==
  ASSUME NEW h \in Seq(Handlers), NEW c \in Commands
  PROVE  /\ Migrated(h, c) \in Seq(Handlers)
         /\ Unrestricted(Migrated(h, c)) = Unrestricted(h)
<1>1. DOMAIN h = 1..Len(h) /\ Len(h) \in Nat /\ \A i \in DOMAIN h : h[i] \in Handlers
  BY ElementOfSeq, LenProperties
<1>2. \A i \in DOMAIN h : /\ Migrated(h, c)[i] \in Handlers
                          /\ Migrated(h, c)[i].restricted = h[i].restricted
  BY <1>1 DEF Migrated, Handlers
<1>3. DOMAIN Migrated(h, c) = DOMAIN h /\ Migrated(h, c) \in [1..Len(h) -> Handlers]
  BY <1>1, <1>2 DEF Migrated
<1>4. Migrated(h, c) \in Seq(Handlers)
  BY <1>1, <1>3, SeqDef
<1>5. Unrestricted(Migrated(h, c)) = Unrestricted(h)
  BY <1>2, <1>3 DEF Unrestricted
<1> QED
  BY <1>4, <1>5

LEMMA NewHandlers ==
  ASSUME NEW c \in Commands
  PROVE  /\ <<NewHandler(c)>> \in Seq(Handlers)
         /\ Cardinality(Unrestricted(<<NewHandler(c)>>)) = 1
<1>1. NewHandler(c) \in Handlers /\ ~NewHandler(c).restricted
  BY DEF NewHandler, Handlers
<1>2. Unrestricted(<<NewHandler(c)>>) = {1}
  BY <1>1 DEF Unrestricted
<1> QED
  BY <1>1, <1>2, FS_Singleton

LEMMA NoneUnrestricted == Unrestricted(<<>>) = {} /\ Cardinality({}) = 0
  BY FS_EmptySet DEF Unrestricted

(* The document an installer writes is a document, keeps what is foreign    *)
(* and has no second handler unless there was one.                          *)
LEMMA PreparedDoc ==
  ASSUME NEW kind, NEW doc \in Docs, NEW c \in Commands,
         Prepared(kind, doc, c) # Conflict
  PROVE  /\ Prepared(kind, doc, c) \in Docs
         /\ Prepared(kind, doc, c).foreign = doc.foreign
         /\ Single(doc) => Single(Prepared(kind, doc, c))
<1> DEFINE merged(e) == IF kind = "toml" THEN MergedToml(doc.hooks[e], c)
                        ELSE MergedJson(doc.hooks[e], c)
<1>1. /\ \A e \in Events : merged(e) # Conflict
      /\ Prepared(kind, doc, c) = [doc EXCEPT !.hooks = [e \in Events |-> merged(e)]]
  BY DEF Prepared
<1>2. ASSUME NEW e \in Events
      PROVE  /\ merged(e) \in Seq(Handlers)
             /\ Cardinality(Unrestricted(doc.hooks[e])) <= 1
                  => Cardinality(Unrestricted(merged(e))) <= 1
  <2>1. doc.hooks[e] \in Seq(Handlers)
    BY DEF Docs
  <2>2. merged(e) \in {Migrated(doc.hooks[e], c), <<NewHandler(c)>>}
    BY <1>1 DEF MergedToml, MergedJson
  <2> HIDE DEF merged
  <2>3. CASE merged(e) = Migrated(doc.hooks[e], c)
    BY <2>1, <2>3, MigratedHandlers
  <2>4. CASE merged(e) = <<NewHandler(c)>>
    BY <2>4, NewHandlers
  <2> QED
    BY <2>2, <2>3, <2>4
<1> HIDE DEF merged
<1>3. [e \in Events |-> merged(e)] \in [Events -> Seq(Handlers)]
  BY <1>2
<1>4. /\ Prepared(kind, doc, c).hooks = [e \in Events |-> merged(e)]
      /\ Prepared(kind, doc, c).foreign = doc.foreign
      /\ Prepared(kind, doc, c) \in Docs
  BY <1>1, <1>3 DEF Docs
<1> QED
  BY <1>2, <1>4 DEF Single

LEMMA ReadDoc ==
  ASSUME NEW file \in Docs \cup {None}
  PROVE  Read(file) \in Docs
<1>1. <<>> \in Seq(Handlers)
  BY EmptySeq
<1>2. EmptyDoc \in Docs
  BY <1>1 DEF EmptyDoc, Docs
<1> QED
  BY <1>2 DEF Read

-----------------------------------------------------------------------------
(* The inductive invariant. *)

Holding == {"reread", "write"}
Decided == {"preview", "lock", "reread", "write"}
Swapping == {"swap", "restore", "clean"}

(* The file that is written to records for itself alone.                    *)
Chosen(p) ==
  IF goal[p] = "toml" THEN files["json"] = None
  ELSE files["json"] # None /\ NoHooks(Read(files["toml"]))

Local(p) ==
  /\ pc[p] # "idle" =>
       job[p] \in Jobs /\ job[p].tasks # <<>> /\ (job[p].json => files["json"] # None)
  /\ backup[p] # None <=> pc[p] \in Swapping
  /\ pc[p] \in Holding => lock[goal[p]] = p
  /\ pc[p] = "exists" /\ ~mixed[p] /\ files["json"] # None => NoHooks(Read(files["toml"]))
  /\ pc[p] \in Decided => Chosen(p)
  /\ pc[p] = "write" =>
       /\ prepared[p] \in Docs /\ Single(prepared[p])
       /\ prepared[p].foreign = Read(files[goal[p]]).foreign

SetupInv == TypeOK /\ RecordedOnce /\ SwapUndone /\ \A p \in Installers : Local(p)

LocalTypes ==
  /\ pc \in [Installers -> Steps]
  /\ job \in [Installers -> Jobs \cup {None}]
  /\ goal \in [Installers -> Files]
  /\ mixed \in [Installers -> BOOLEAN]
  /\ prepared \in [Installers -> Docs \cup {None}]
  /\ backup \in [Installers -> Skills \cup {None}]

(* What a step of p does to the others: nothing to their variables, ...     *)
Others(p) ==
  \A q \in Installers \ {p} :
    /\ pc'[q] = pc[q] /\ job'[q] = job[q] /\ goal'[q] = goal[q]
    /\ mixed'[q] = mixed[q] /\ prepared'[q] = prepared[q] /\ backup'[q] = backup[q]

(* ... nothing to a file they hold, and nothing to what they decided by.    *)
Rely(p) ==
  /\ files["json"] = None <=> files'["json"] = None
  /\ files["json"] # None /\ NoHooks(Read(files["toml"])) => NoHooks(Read(files'["toml"]))
  /\ \A f \in Files, q \in Installers \ {p} :
       lock[f] = q => lock'[f] = q /\ Read(files'[f]).foreign = Read(files[f]).foreign

LEMMA Bystanders ==
  ASSUME TypeOK, NEW p, Others(p), Rely(p), NEW q \in Installers \ {p}, Local(q)
  PROVE  Local(q)'
<1>1. goal[q] \in Files
  BY DEF TypeOK
<1> QED
  BY <1>1 DEF Others, Rely, Local, Chosen, Holding, Decided, Files

(* A step of p that changes no file relies on nothing.                      *)
LEMMA QuietRely ==
  ASSUME NEW p, files' = files,
         lock' = lock \/ Unlocked(p) \/ \E f \in Files : lock[f] = None /\ lock' = [lock EXCEPT ![f] = p],
         TypeOK
  PROVE  Rely(p)
BY SetupAssumption DEF Rely, Unlocked, TypeOK

(* A task or a job that ends leaves an installer with nothing in hand.      *)
Fresher(p) ==
  /\ pc'[p] \in {"idle", "choose", "look"}
  /\ backup'[p] = None
  /\ pc'[p] # "idle" =>
       job'[p] \in Jobs /\ job'[p].tasks # <<>> /\ job'[p].json = job[p].json

LEMMA EndFacts ==
  ASSUME TypeOK, NEW p \in Installers, End(p)
  PROVE  LocalTypes' /\ Others(p) /\ Fresher(p)
BY DEF TypeOK, End, Returned, Goto, LocalTypes, Others, Fresher, Steps, Files

LEMMA DoneFacts ==
  ASSUME TypeOK, NEW p \in Installers, pc[p] # "idle", Local(p), Done(p)
  PROVE  LocalTypes' /\ Others(p) /\ Fresher(p)
<1> DEFINE rest == Tail(job[p].tasks)
<1>1. job[p] \in Jobs /\ job[p].tasks # <<>> /\ job[p].tasks \in Seq(Tasks)
  BY DEF Local, Jobs
<1>2. rest \in Seq(Tasks)
  BY <1>1, HeadTailProperties
<1>3. CASE rest = <<>> /\ End(p)
  BY <1>3, EndFacts
<1>4. CASE rest # <<>> /\ Goto(p, FirstStep(Head(rest))) /\ Returned(p)
           /\ job' = [job EXCEPT ![p].tasks = rest]
  <2>1. job'[p] \in Jobs /\ job'[p].tasks # <<>> /\ job'[p].json = job[p].json
    BY <1>1, <1>2, <1>4 DEF Jobs, TypeOK
  <2>2. FirstStep(Head(rest)) \in {"choose", "look"}
    BY DEF FirstStep
  <2> HIDE DEF rest
  <2>3. job' \in [Installers -> Jobs \cup {None}] /\ \A q \in Installers \ {p} : job'[q] = job[q]
    BY <1>4, <2>1 DEF TypeOK
  <2> QED
    BY <1>4, <2>1, <2>2, <2>3 DEF TypeOK, Returned, Goto, LocalTypes, Others, Fresher, Steps, Files
<1> QED
  BY <1>3, <1>4 DEF Done

LEMMA FresherLocal ==
  ASSUME TypeOK, NEW p \in Installers, pc[p] # "idle", Local(p), Fresher(p), Rely(p)
  PROVE  Local(p)'
BY DEF Fresher, Local, Rely, Holding, Decided, Swapping

-----------------------------------------------------------------------------
(* The steps. *)

LEMMA Together ==
  ASSUME SetupInv, NEW p \in Installers, Others(p), Rely(p),
         TypeOK', RecordedOnce', SwapUndone', Local(p)'
  PROVE  SetupInv'
<1>1. \A q \in Installers \ {p} : Local(q)'
  BY Bystanders DEF SetupInv
<1> QED
  BY <1>1 DEF SetupInv

(* A step outside a swap that leaves the skill alone.                       *)
LEMMA SwapElsewhere ==
  ASSUME SwapUndone, NEW p \in Installers, Others(p), UNCHANGED skillVars,
         pc[p] \notin {"swap", "restore"}, backup'[p] # None => backup[p] # None
  PROVE  SwapUndone'
BY DEF SwapUndone, Others, skillVars

(* A step of that kind that leaves the files alone, too.                    *)
LEMMA QuietStep ==
  ASSUME SetupInv, NEW p \in Installers, Others(p), UNCHANGED <<files, skillVars>>,
         LocalTypes', lock' \in [Files -> Installers \cup {None}], Rely(p),
         pc[p] \notin {"swap", "restore"}, backup'[p] # None => backup[p] # None,
         Local(p)'
  PROVE  SetupInv'
<1>1. TypeOK' /\ RecordedOnce'
  BY DEF SetupInv, TypeOK, LocalTypes, RecordedOnce, Once, Records, skillVars
<1>2. SwapUndone'
  BY SwapElsewhere DEF SetupInv
<1> QED
  BY <1>1, <1>2, Together

LEMMA UnlockedType ==
  ASSUME TypeOK, NEW p, Unlocked(p)
  PROVE  lock' \in [Files -> Installers \cup {None}]
BY DEF TypeOK, Unlocked

(* Such a step that ends a task or the job.                                 *)
LEMMA EndingStep ==
  ASSUME SetupInv, NEW p \in Installers, pc[p] \notin {"idle", "swap", "restore"},
         End(p) \/ Done(p), UNCHANGED <<files, skillVars>>, lock' = lock \/ Unlocked(p)
  PROVE  SetupInv'
<1>1. TypeOK /\ Local(p)
  BY DEF SetupInv
<1>2. LocalTypes' /\ Others(p) /\ Fresher(p)
  BY <1>1, EndFacts, DoneFacts
<1>3. Rely(p) /\ lock' \in [Files -> Installers \cup {None}]
  BY <1>1, QuietRely, UnlockedType DEF TypeOK
<1>4. Local(p)'
  BY <1>1, <1>2, <1>3, FresherLocal
<1>5. backup'[p] = None
  BY <1>2 DEF Fresher
<1> QED
  BY <1>2, <1>3, <1>4, <1>5, QuietStep

LEMMA StartStep ==
  ASSUME SetupInv, NEW p \in Installers, NEW tasks \in Seq(Tasks), tasks # <<>>,
         NEW command \in Commands, NEW replace \in BOOLEAN, NEW json \in BOOLEAN,
         json => files["json"] # None, Start(p, tasks, command, replace, json)
  PROVE  SetupInv'
<1>1. TypeOK /\ Local(p) /\ pc[p] = "idle"
  BY DEF SetupInv, Start
<1>2. FirstStep(Head(tasks)) \in {"choose", "look"}
  BY DEF FirstStep
<1>3. [tasks |-> tasks, command |-> command, replace |-> replace, json |-> json] \in Jobs
  BY DEF Jobs
<1>4. LocalTypes' /\ Others(p)
  BY <1>1, <1>2, <1>3 DEF Start, Goto, LocalTypes, TypeOK, Others, Steps, localVars
<1>5. Rely(p) /\ lock' \in [Files -> Installers \cup {None}]
  BY <1>1, QuietRely DEF Start, configVars, TypeOK
<1>6. /\ pc'[p] \in {"choose", "look"} /\ backup'[p] = None
      /\ job'[p] = [tasks |-> tasks, command |-> command, replace |-> replace, json |-> json]
      /\ files' = files
  BY <1>1, <1>2 DEF Start, Goto, TypeOK, Local, Swapping, localVars, configVars
<1>7. Local(p)'
  BY <1>3, <1>6 DEF Local, Holding, Decided, Swapping
<1> QED
  BY <1>1, <1>4, <1>5, <1>6, <1>7, QuietStep DEF Start, configVars

LEMMA StartSteps ==
  ASSUME SetupInv, NEW p \in Installers, StartHook(p) \/ StartSkill(p) \/ StartSetup(p)
  PROVE  SetupInv'
<1> DEFINE four == <<"previewHook", "previewSkill", "skill", "hook">>
<1>1. CASE StartHook(p)
  <2>1. <<"hook">> \in Seq(Tasks) /\ <<"hook">> # <<>>
    BY DEF Tasks
  <2>2. PICK command \in Commands, json \in BOOLEAN :
          (json => files["json"] # None) /\ Start(p, <<"hook">>, command, FALSE, json)
    BY <1>1 DEF StartHook
  <2> QED
    BY <2>1, <2>2, StartStep
<1>2. CASE StartSkill(p)
  <2>1. <<"skill">> \in Seq(Tasks) /\ <<"skill">> # <<>>
    BY DEF Tasks
  <2>2. PICK command \in Commands, replace \in BOOLEAN :
          Start(p, <<"skill">>, command, replace, FALSE)
    BY <1>2 DEF StartSkill
  <2> QED
    BY <2>1, <2>2, StartStep
<1>3. CASE StartSetup(p)
  <2>1. four \in Seq(Tasks) /\ four # <<>>
    BY DEF Tasks
  <2>2. PICK command \in Commands : Start(p, four, command, FALSE, FALSE)
    BY <1>3 DEF StartSetup, Commands
  <2> HIDE DEF four
  <2> QED
    BY <2>1, <2>2, StartStep
<1> QED
  BY <1>1, <1>2, <1>3

(* A step of p that does not end anything and touches only its variables.   *)
LEMMA ThinkingStep ==
  ASSUME SetupInv, NEW p \in Installers, Others(p), LocalTypes',
         UNCHANGED <<configVars, skillVars>>, pc[p] \notin {"swap", "restore"},
         backup' = backup, Local(p)'
  PROVE  SetupInv'
<1>1. Rely(p) /\ lock' \in [Files -> Installers \cup {None}]
  BY QuietRely DEF SetupInv, TypeOK, configVars
<1> QED
  BY <1>1, QuietStep DEF configVars

LEMMA ChooseStep ==
  ASSUME SetupInv, NEW p \in Installers, Choose(p)
  PROVE  SetupInv'
<1> DEFINE toml == Read(files["toml"])
<1>1. TypeOK /\ Local(p) /\ pc[p] = "choose" /\ UNCHANGED <<configVars, skillVars>>
  BY DEF SetupInv, Choose
<1>2. CASE End(p)
  BY <1>1, <1>2, EndingStep DEF configVars
<1>3. CASE /\ mixed' = [mixed EXCEPT ![p] = HasHooks(toml)]
           /\ Goto(p, "exists")
           /\ UNCHANGED <<job, goal, prepared, backup>>
  <2>1. LocalTypes' /\ Others(p) /\ mixed'[p] = HasHooks(toml)
    BY <1>1, <1>3 DEF LocalTypes, TypeOK, Others, Goto, Steps, HasHooks
  <2>2. ~mixed'[p] => NoHooks(toml)
    BY <2>1 DEF HasHooks, NoHooks
  <2>3. Local(p)'
    BY <1>1, <1>3, <2>2
       DEF Local, TypeOK, Goto, configVars, Holding, Decided, Swapping
  <2> QED
    BY <1>1, <1>3, <2>1, <2>3, ThinkingStep
<1> QED
  BY <1>2, <1>3 DEF Choose

LEMMA ExistsStep ==
  ASSUME SetupInv, NEW p \in Installers, Exists(p)
  PROVE  SetupInv'
<1> DEFINE json == job[p].json \/ files["json"] # None
<1>1. TypeOK /\ Local(p) /\ pc[p] = "exists" /\ UNCHANGED <<configVars, skillVars>>
  BY DEF SetupInv, Exists
<1>2. CASE End(p)
  BY <1>1, <1>2, EndingStep DEF configVars
<1>3. CASE /\ ~(json /\ mixed[p])
           /\ goal' = [goal EXCEPT ![p] = IF json THEN "json" ELSE "toml"]
           /\ Goto(p, "preview")
           /\ UNCHANGED <<job, mixed, prepared, backup>>
  <2>1. LocalTypes' /\ Others(p) /\ pc'[p] = "preview"
        /\ goal'[p] = IF json THEN "json" ELSE "toml"
    BY <1>1, <1>3 DEF LocalTypes, TypeOK, Others, Goto, Steps, Files
  <2>2. json <=> files["json"] # None
    BY <1>1 DEF Local
  <2>3. Chosen(p)'
    BY <1>1, <1>3, <2>1, <2>2 DEF Chosen, Local, configVars
  <2>4. Local(p)'
    BY <1>1, <1>3, <2>1, <2>3 DEF Local, configVars, Holding, Swapping
  <2> QED
    BY <1>1, <1>3, <2>1, <2>4, ThinkingStep
<1> QED
  BY <1>2, <1>3 DEF Exists

LEMMA FreshFacts ==
  ASSUME SetupInv, NEW p \in Installers, pc[p] # "idle", Fresh(p) # Conflict
  PROVE  /\ Fresh(p) \in Docs /\ Single(Fresh(p))
         /\ Fresh(p).foreign = Read(files[goal[p]]).foreign
<1>1. goal[p] \in Files /\ files[goal[p]] \in Docs \cup {None}
  BY DEF SetupInv, TypeOK
<1>2. Read(files[goal[p]]) \in Docs /\ Single(Read(files[goal[p]]))
  BY <1>1, ReadDoc DEF SetupInv, RecordedOnce, Once, Single
<1>3. job[p].command \in Commands
  BY DEF SetupInv, Local, Jobs
<1> QED
  BY <1>2, <1>3, PreparedDoc DEF Fresh

LEMMA PreviewStep ==
  ASSUME SetupInv, NEW p \in Installers, Preview(p)
  PROVE  SetupInv'
<1>1. TypeOK /\ Local(p) /\ pc[p] = "preview" /\ UNCHANGED <<configVars, skillVars>>
  BY DEF SetupInv, Preview
<1>2. CASE End(p) \/ Done(p)
  BY <1>1, <1>2, EndingStep DEF configVars
<1>3. CASE /\ Fresh(p) # Conflict
           /\ prepared' = [prepared EXCEPT ![p] = Fresh(p)]
           /\ Goto(p, "lock")
           /\ UNCHANGED <<job, goal, mixed, backup>>
  <2>1. Fresh(p) \in Docs
    BY <1>1, <1>3, FreshFacts
  <2>2. LocalTypes' /\ Others(p) /\ pc'[p] = "lock"
    BY <1>1, <1>3, <2>1 DEF LocalTypes, TypeOK, Others, Goto, Steps
  <2>3. Local(p)'
    BY <1>1, <1>3, <2>2 DEF Local, Chosen, configVars, Holding, Decided, Swapping
  <2> QED
    BY <1>1, <1>3, <2>2, <2>3, ThinkingStep
<1> QED
  BY <1>2, <1>3 DEF Preview

LEMMA LockStep ==
  ASSUME SetupInv, NEW p \in Installers, Lock(p)
  PROVE  SetupInv'
<1>1. /\ TypeOK /\ Local(p) /\ pc[p] = "lock" /\ UNCHANGED <<files, skillVars, job, localVars>>
      /\ goal[p] \in Files /\ lock[goal[p]] = None /\ lock' = [lock EXCEPT ![goal[p]] = p]
  BY DEF SetupInv, Lock, TypeOK
<1>2. LocalTypes' /\ Others(p) /\ pc'[p] = "reread" /\ lock' \in [Files -> Installers \cup {None}]
  BY <1>1 DEF Lock, LocalTypes, TypeOK, Others, Goto, Steps, localVars
<1>3. Rely(p)
  BY <1>1, QuietRely
<1>4. Local(p)'
  BY <1>1, <1>2 DEF Local, Chosen, TypeOK, localVars, Holding, Decided, Swapping
<1> QED
  BY <1>1, <1>2, <1>3, <1>4, QuietStep DEF localVars

LEMMA RereadStep ==
  ASSUME SetupInv, NEW p \in Installers, Reread(p)
  PROVE  SetupInv'
<1>1. TypeOK /\ Local(p) /\ pc[p] = "reread" /\ UNCHANGED <<files, skillVars>>
  BY DEF SetupInv, Reread
<1>2. CASE (End(p) \/ Done(p)) /\ Unlocked(p)
  BY <1>1, <1>2, EndingStep
<1>3. CASE /\ Fresh(p) # Conflict
           /\ prepared' = [prepared EXCEPT ![p] = Fresh(p)]
           /\ Goto(p, "write")
           /\ UNCHANGED <<lock, job, goal, mixed, backup>>
  <2>1. /\ Fresh(p) \in Docs /\ Single(Fresh(p))
        /\ Fresh(p).foreign = Read(files[goal[p]]).foreign
    BY <1>1, <1>3, FreshFacts
  <2>2. LocalTypes' /\ Others(p) /\ pc'[p] = "write" /\ prepared'[p] = Fresh(p)
    BY <1>1, <1>3, <2>1 DEF LocalTypes, TypeOK, Others, Goto, Steps
  <2> HIDE DEF Fresh
  <2>3. Local(p)'
    BY <1>1, <1>3, <2>1, <2>2 DEF Local, Chosen, Holding, Decided, Swapping
  <2> QED
    BY <1>1, <1>3, <2>2, <2>3, ThinkingStep DEF configVars
<1> QED
  BY <1>2, <1>3 DEF Reread

(* The step the whole is about: the file is locked, so it is what it was    *)
(* when it was read again, and there is no other file to record in.         *)
LEMMA WriteStep ==
  ASSUME SetupInv, NEW p \in Installers, Write(p)
  PROVE  SetupInv' /\ \A f \in Files : Read(files'[f]).foreign = Read(files[f]).foreign
<1> DEFINE g == goal[p]
<1>1. /\ TypeOK /\ Local(p) /\ RecordedOnce /\ SwapUndone /\ pc[p] = "write"
      /\ g \in Files /\ lock[g] = p /\ Chosen(p)
      /\ prepared[p] \in Docs /\ Single(prepared[p])
      /\ prepared[p].foreign = Read(files[g]).foreign
  BY DEF SetupInv, Write, TypeOK, Local, Holding, Decided
<1>2. /\ files' = [files EXCEPT ![g] = prepared[p]] /\ Done(p) /\ Unlocked(p)
      /\ UNCHANGED skillVars
  BY DEF Write
<1>3. LocalTypes' /\ Others(p) /\ Fresher(p)
  BY <1>1, <1>2, DoneFacts
<1>4. Read(prepared[p]) = prepared[p] /\ prepared[p] # None
  BY <1>1, ConfigAssumption DEF Read
<1> HIDE DEF g
<1>5. \A f \in Files : Read(files'[f]).foreign = Read(files[f]).foreign
  BY <1>1, <1>2, <1>4 DEF TypeOK
<1>6. \A q \in Installers \ {p}, f \in Files : lock[f] = q => lock'[f] = q
  BY <1>2 DEF Unlocked
<1>7. ASSUME g = "toml" PROVE RecordedOnce' /\ Rely(p)
  <2>1. files["json"] = None /\ files'["json"] = None
    BY <1>1, <1>2, <1>7 DEF Chosen, TypeOK, Files, g
  <2>2. ~Records(files', "json")
    BY <2>1, NoneUnrestricted DEF Records, Read, EmptyDoc
  <2>3. RecordedOnce'
    BY <1>1, <1>2, <1>4, <2>2 DEF RecordedOnce, Once, Single, TypeOK
  <2>4. Rely(p)
    BY <1>5, <1>6, <2>1 DEF Rely
  <2> QED
    BY <2>3, <2>4
<1>8. ASSUME g = "json" PROVE RecordedOnce' /\ Rely(p)
  <2>1. /\ files["json"] # None /\ files'["json"] # None
        /\ files'["toml"] = files["toml"] /\ NoHooks(Read(files["toml"]))
    BY <1>1, <1>2, <1>4, <1>8 DEF Chosen, TypeOK, Files, g
  <2>2. ~Records(files', "toml")
    BY <2>1, NoneUnrestricted DEF Records, NoHooks
  <2>3. RecordedOnce'
    BY <1>1, <1>2, <1>4, <2>2 DEF RecordedOnce, Once, Single, TypeOK
  <2>4. Rely(p)
    BY <1>5, <1>6, <2>1 DEF Rely
  <2> QED
    BY <2>3, <2>4
<1>9. RecordedOnce' /\ Rely(p)
  BY <1>1, <1>7, <1>8 DEF Files
<1>10. TypeOK'
  <2>1. files' \in [Files -> Docs \cup {None}] /\ lock' \in [Files -> Installers \cup {None}]
    BY <1>1, <1>2, UnlockedType DEF TypeOK
  <2> QED
    BY <1>1, <1>2, <1>3, <2>1 DEF TypeOK, LocalTypes, skillVars
<1>11. SwapUndone'
  BY <1>1, <1>2, <1>3, SwapElsewhere DEF Fresher
<1>12. Local(p)'
  BY <1>1, <1>3, <1>9, FresherLocal
<1> QED
  BY <1>3, <1>5, <1>9, <1>10, <1>11, <1>12, Together

LEMMA PackageSkill ==
  ASSUME NEW c \in Commands
  PROVE  Package(c) \in Skills /\ Package(c) # None
<1>1. Package(c) \in Skills
  BY DEF Package, Skills
<1> QED
  BY <1>1, SetupAssumption

(* A step on the skill directory.                                           *)
LEMMA SkillStep ==
  ASSUME SetupInv, NEW p \in Installers, Others(p), UNCHANGED configVars, LocalTypes',
         skill' \in Skills \cup {None}, litter' \in SUBSET Skills, killed' \in BOOLEAN,
         SwapUndone', Local(p)'
  PROVE  SetupInv'
<1>1. TypeOK' /\ RecordedOnce' /\ Rely(p)
  BY QuietRely DEF SetupInv, TypeOK, LocalTypes, RecordedOnce, Once, Records, configVars
<1> QED
  BY <1>1, Together

LEMMA LookStep ==
  ASSUME SetupInv, NEW p \in Installers, Look(p) \/ Recheck(p)
  PROVE  SetupInv'
<1>1. TypeOK /\ Local(p) /\ pc[p] \in {"look", "recheck"} /\ UNCHANGED <<configVars, skillVars>>
  BY DEF SetupInv, Look, Recheck
<1>2. CASE End(p) \/ Done(p)
  BY <1>1, <1>2, EndingStep DEF configVars
<1>3. CASE (\E step \in {"recheck", "place", "backup"} : Goto(p, step)) /\ UNCHANGED <<job, localVars>>
  <2>1. /\ LocalTypes' /\ Others(p) /\ pc'[p] \in {"recheck", "place", "backup"}
        /\ backup' = backup /\ job' = job /\ files' = files
    BY <1>1, <1>3 DEF LocalTypes, TypeOK, Others, Goto, Steps, localVars, configVars
  <2>2. Local(p)'
    BY <1>1, <2>1 DEF Local, Holding, Decided, Swapping
  <2> QED
    BY <1>1, <2>1, <2>2, ThinkingStep
<1> QED
  BY <1>2, <1>3 DEF Look, Recheck

LEMMA PlaceStep ==
  ASSUME SetupInv, NEW p \in Installers, Place(p)
  PROVE  SetupInv'
<1>1. TypeOK /\ Local(p) /\ pc[p] = "place" /\ UNCHANGED <<configVars, litter, killed>>
  BY DEF SetupInv, Place
<1>2. Package(job[p].command) \in Skills /\ Package(job[p].command) # None
  BY <1>1, PackageSkill DEF Local, Jobs
<1>3. CASE skill' = Package(job[p].command) /\ Done(p)
  <2>1. LocalTypes' /\ Others(p) /\ Fresher(p)
    BY <1>1, <1>3, DoneFacts
  <2>2. Local(p)'
    BY <1>1, <2>1, FresherLocal, QuietRely DEF configVars
  <2>3. SwapUndone'
    BY <1>2, <1>3 DEF SwapUndone
  <2> QED
    BY <1>1, <1>2, <1>3, <2>1, <2>2, <2>3, SkillStep DEF TypeOK
<1>4. CASE (End(p) \/ Done(p)) /\ UNCHANGED skill
  BY <1>1, <1>4, EndingStep DEF configVars, skillVars
<1> QED
  BY <1>3, <1>4 DEF Place

LEMMA BackupStep ==
  ASSUME SetupInv, NEW p \in Installers, Backup(p)
  PROVE  SetupInv'
<1>1. TypeOK /\ Local(p) /\ pc[p] = "backup" /\ UNCHANGED <<configVars, litter, killed>>
  BY DEF SetupInv, Backup
<1>2. CASE End(p) /\ UNCHANGED skill
  BY <1>1, <1>2, EndingStep DEF configVars, skillVars
<1>3. CASE /\ skill # None /\ skill' = None
           /\ backup' = [backup EXCEPT ![p] = skill]
           /\ Goto(p, "swap")
           /\ UNCHANGED <<job, goal, mixed, prepared>>
  <2>1. LocalTypes' /\ Others(p) /\ pc'[p] = "swap" /\ backup'[p] = skill
    BY <1>1, <1>3 DEF LocalTypes, TypeOK, Others, Goto, Steps
  <2>2. Local(p)'
    BY <1>1, <1>3, <2>1 DEF Local, configVars, Holding, Decided, Swapping
  <2>3. SwapUndone'
    BY <2>1 DEF SwapUndone
  <2> QED
    BY <1>1, <1>3, <2>1, <2>2, <2>3, SkillStep DEF TypeOK
<1> QED
  BY <1>2, <1>3 DEF Backup

LEMMA SwapStep ==
  ASSUME SetupInv, NEW p \in Installers, Swap(p)
  PROVE  SetupInv'
<1>1. /\ TypeOK /\ Local(p) /\ pc[p] = "swap"
      /\ UNCHANGED <<configVars, litter, killed, job, localVars>>
  BY DEF SetupInv, Swap
<1>2. Package(job[p].command) \in Skills /\ Package(job[p].command) # None
  BY <1>1, PackageSkill DEF Local, Jobs
<1>3. PICK step \in {"clean", "restore"} :
        /\ Goto(p, step)
        /\ skill' = IF step = "clean" THEN Package(job[p].command) ELSE skill
  BY DEF Swap
<1>4. LocalTypes' /\ Others(p) /\ pc'[p] = step
  BY <1>1, <1>3 DEF LocalTypes, TypeOK, Others, Goto, Steps, localVars
<1>5. Local(p)'
  BY <1>1, <1>4 DEF Local, configVars, localVars, Holding, Decided, Swapping
<1>6. SwapUndone'
  BY <1>2, <1>3, <1>4 DEF SwapUndone
<1> QED
  BY <1>1, <1>2, <1>3, <1>4, <1>5, <1>6, SkillStep DEF TypeOK

LEMMA RestoreStep ==
  ASSUME SetupInv, NEW p \in Installers, Restore(p)
  PROVE  SetupInv'
<1>1. /\ TypeOK /\ Local(p) /\ pc[p] = "restore" /\ End(p) /\ UNCHANGED <<configVars, killed>>
      /\ backup[p] \in Skills /\ backup[p] # None
  BY DEF SetupInv, Restore, TypeOK, Local, Swapping
<1>2. skill' # None /\ skill' \in Skills \cup {None} /\ litter' \in SUBSET Skills
  BY <1>1 DEF Restore, TypeOK
<1>3. LocalTypes' /\ Others(p) /\ Fresher(p)
  BY <1>1, EndFacts
<1>4. Local(p)'
  BY <1>1, <1>3, FresherLocal, QuietRely DEF configVars
<1>5. SwapUndone'
  BY <1>2 DEF SwapUndone
<1> QED
  BY <1>1, <1>2, <1>3, <1>4, <1>5, SkillStep DEF TypeOK

LEMMA CleanStep ==
  ASSUME SetupInv, NEW p \in Installers, Clean(p)
  PROVE  SetupInv'
BY EndingStep DEF Clean, configVars

(* Whoever fails elsewhere than in a swap leaves the one who swaps.         *)
LEMMA FailStep ==
  ASSUME SetupInv, NEW p \in Installers, Fail(p)
  PROVE  SetupInv'
<1>1. /\ TypeOK /\ Local(p) /\ RecordedOnce /\ SwapUndone /\ pc[p] # "idle"
      /\ End(p) /\ Unlocked(p) /\ UNCHANGED <<files, skill>>
      /\ litter' = IF backup[p] = None THEN litter ELSE litter \cup {backup[p]}
      /\ killed' = (killed \/ pc[p] \in {"swap", "restore"})
  BY DEF SetupInv, Fail
<1>2. LocalTypes' /\ Others(p) /\ Fresher(p)
  BY <1>1, EndFacts
<1>3. Rely(p) /\ lock' \in [Files -> Installers \cup {None}]
  BY <1>1, QuietRely, UnlockedType
<1>4. Local(p)'
  BY <1>1, <1>2, <1>3, FresherLocal
<1>5. SwapUndone'
  BY <1>1, <1>2 DEF SwapUndone, Others, Fresher
<1>6. backup[p] \in Skills \cup {None}
  BY <1>1 DEF TypeOK
<1>7. litter' \in SUBSET Skills /\ killed' \in BOOLEAN
  BY <1>1, <1>6 DEF TypeOK
<1>8. TypeOK' /\ RecordedOnce'
  BY <1>1, <1>2, <1>3, <1>7 DEF TypeOK, LocalTypes, RecordedOnce, Once, Records
<1> QED
  BY <1>2, <1>3, <1>4, <1>5, <1>8, Together

(* Others write under the lock, too, and keep our handlers.                 *)
LEMMA HostStep ==
  ASSUME SetupInv, NEW f \in Files, HostWrite(f)
  PROVE  /\ SetupInv'
         /\ \A g \in Files : lock[g] # None => Read(files'[g]).foreign = Read(files[g]).foreign
<1>1. /\ TypeOK /\ RecordedOnce /\ SwapUndone /\ \A q \in Installers : Local(q)
      /\ lock[f] = None
      /\ f = "json" => files[f] # None
      /\ UNCHANGED <<lock, skillVars, pc, job, localVars>>
  BY DEF SetupInv, HostWrite
<1>2. PICK x \in Changing :
        files' = [files EXCEPT ![f] =
                    [Read(files[f]) EXCEPT !.foreign = IF x \in @ THEN @ \ {x} ELSE @ \cup {x}]]
  BY DEF HostWrite
<1>3. Read(files[f]) \in Docs
  BY <1>1, ReadDoc DEF TypeOK
<1>4. files'[f] \in Docs /\ files'[f].hooks = Read(files[f]).hooks
  BY <1>1, <1>2, <1>3, SetupAssumption DEF TypeOK, Docs
<1>5. \A g \in Files : /\ files'[g] \in Docs \cup {None}
                       /\ Read(files'[g]).hooks = Read(files[g]).hooks
                       /\ lock[g] # None => files'[g] = files[g]
  <2>1. files'[f] # None
    BY <1>4, ConfigAssumption
  <2>2. \A g \in Files : g # f => files'[g] = files[g]
    BY <1>1, <1>2 DEF TypeOK
  <2> QED
    BY <1>1, <1>4, <2>1, <2>2 DEF TypeOK, Read
<1>6. files["json"] = None <=> files'["json"] = None
  <2>1. files'[f] # None
    BY <1>4, ConfigAssumption
  <2>2. f # "json" => files'["json"] = files["json"]
    BY <1>1, <1>2 DEF TypeOK, Files
  <2> QED
    BY <1>1, <2>1, <2>2
<1>7. Others(None)
  BY <1>1 DEF Others, localVars
<1>8. Rely(None)
  BY <1>1, <1>5, <1>6, SetupAssumption DEF Rely, NoHooks, Files
<1>9. \A q \in Installers : Local(q)'
  BY <1>1, <1>7, <1>8, Bystanders, SetupAssumption
<1>10. TypeOK'
  <2>1. files' \in [Files -> Docs \cup {None}]
    BY <1>1, <1>2, <1>5 DEF TypeOK
  <2> QED
    BY <1>1, <2>1 DEF TypeOK, skillVars, localVars
<1>11. RecordedOnce'
  BY <1>1, <1>5 DEF RecordedOnce, Once, Records, Files
<1>12. SwapUndone'
  BY <1>1 DEF SwapUndone, skillVars, localVars
<1> QED
  BY <1>5, <1>9, <1>10, <1>11, <1>12 DEF SetupInv

-----------------------------------------------------------------------------
(* The theorems. *)

LEMMA InitSetup == Init => SetupInv
<1> SUFFICES ASSUME Init PROVE SetupInv
  OBVIOUS
<1>1. TypeOK
  BY SetupAssumption DEF Init, TypeOK, Steps, Files
<1>2. RecordedOnce
  BY SetupAssumption DEF Init, RecordedOnce
<1>3. SwapUndone
  BY DEF Init, SwapUndone
<1>4. \A p \in Installers : Local(p)
  BY DEF Init, Local, Holding, Decided, Swapping
<1> QED
  BY <1>1, <1>2, <1>3, <1>4 DEF SetupInv

(* Every step keeps the invariant, and no step changes what is foreign in a *)
(* file somebody has locked.                                                *)
LEMMA SetupStep ==
  ASSUME SetupInv, [Next]_vars
  PROVE  /\ SetupInv'
         /\ \A f \in Files : lock[f] # None => Read(files'[f]).foreign = Read(files[f]).foreign
<1> DEFINE Kept == \A f \in Files : lock[f] # None => Read(files'[f]).foreign = Read(files[f]).foreign
<1>1. CASE UNCHANGED vars
  BY <1>1 DEF SetupInv, TypeOK, RecordedOnce, Once, Records, SwapUndone, Local, Chosen, vars,
              configVars, skillVars, localVars
<1>2. ASSUME NEW p \in Installers, StartHook(p) \/ StartSkill(p) \/ StartSetup(p)
      PROVE  SetupInv' /\ Kept
  <2>1. UNCHANGED files
    BY <1>2 DEF StartHook, StartSkill, StartSetup, Start, configVars
  <2> QED
    BY <1>2, <2>1, StartSteps
<1>3. ASSUME NEW p \in Installers, Choose(p) \/ Exists(p) \/ Preview(p) \/ Lock(p) \/ Reread(p)
      PROVE  SetupInv' /\ Kept
  <2>1. UNCHANGED files
    BY <1>3 DEF Choose, Exists, Preview, Lock, Reread, configVars
  <2> QED
    BY <1>3, <2>1, ChooseStep, ExistsStep, PreviewStep, LockStep, RereadStep
<1>4. ASSUME NEW p \in Installers, Write(p)
      PROVE  SetupInv' /\ Kept
  BY <1>4, WriteStep
<1>5. ASSUME NEW p \in Installers, Look(p) \/ Recheck(p) \/ Place(p) \/ Backup(p)
      PROVE  SetupInv' /\ Kept
  <2>1. UNCHANGED files
    BY <1>5 DEF Look, Recheck, Place, Backup, configVars
  <2> QED
    BY <1>5, <2>1, LookStep, PlaceStep, BackupStep
<1>6. ASSUME NEW p \in Installers, Swap(p) \/ Restore(p) \/ Clean(p) \/ Fail(p)
      PROVE  SetupInv' /\ Kept
  <2>1. UNCHANGED files
    BY <1>6 DEF Swap, Restore, Clean, Fail, configVars
  <2> QED
    BY <1>6, <2>1, SwapStep, RestoreStep, CleanStep, FailStep
<1>7. ASSUME NEW f \in Files, HostWrite(f)
      PROVE  SetupInv' /\ Kept
  BY <1>7, HostStep
<1> QED
  BY <1>1, <1>2, <1>3, <1>4, <1>5, <1>6, <1>7 DEF Next

THEOREM SetupInvariant == Spec => []SetupInv
<1>1. SetupInv /\ [Next]_vars => SetupInv'
  BY SetupStep
<1> QED
  BY <1>1, InitSetup, PTL DEF Spec

(* The types of Setup.                                                      *)
THEOREM SetupTypes == Spec => []TypeOK
<1>1. SetupInv => TypeOK
  BY DEF SetupInv
<1> QED
  BY <1>1, SetupInvariant, PTL

(* However many installers run, no event gets a second handler.             *)
THEOREM OneHandler == Spec => []RecordedOnce
<1>1. SetupInv => RecordedOnce
  BY DEF SetupInv
<1> QED
  BY <1>1, SetupInvariant, PTL

(* However many installers run, a failed swap of the skill is undone.       *)
THEOREM SkillReturns == Spec => []SwapUndone
<1>1. SetupInv => SwapUndone
  BY DEF SetupInv
<1> QED
  BY <1>1, SetupInvariant, PTL

(* What others keep in a configuration file stays while it is locked.       *)
THEOREM NothingForeignLost == Spec => ForeignKept
<1>1. SetupInv /\ [Next]_vars =>
        [\A f \in Files : lock[f] # None => Read(files'[f]).foreign = Read(files[f]).foreign]_vars
  BY SetupStep
<1> QED
  BY <1>1, SetupInvariant, PTL DEF Spec, ForeignKept

-----------------------------------------------------------------------------
(* Claude: one event, merged with the command c; s is the stock command of *)
(* the event.                                                              *)

LEMMA MigratedHooksForm ==
  ASSUME NEW hooks \in Seq(HandlerValues), NEW c \in HookCommands, NEW s \in HookCommands
  PROVE  /\ MigratedHooks(hooks, c, s) \in Seq(HandlerValues)
         /\ Len(MigratedHooks(hooks, c, s)) = Len(hooks)
         /\ \A k \in 1..Len(hooks) :
              MigratedHooks(hooks, c, s)[k] = IF SameStock(hooks[k], s) THEN c ELSE hooks[k]
<1>1. \A k \in 1..Len(hooks) : hooks[k] \in HandlerValues
  OBVIOUS
<1>2. c \in HandlerValues
  BY DEF HandlerValues
<1>3. \A k \in 1..Len(hooks) : (IF SameStock(hooks[k], s) THEN c ELSE hooks[k]) \in HandlerValues
  BY <1>1, <1>2
<1>4. MigratedHooks(hooks, c, s)
        = [k \in 1..Len(hooks) |-> IF SameStock(hooks[k], s) THEN c ELSE hooks[k]]
  BY DEF MigratedHooks
<1>5. MigratedHooks(hooks, c, s) \in [1..Len(hooks) -> HandlerValues]
  BY <1>3, <1>4
<1>6. Len(hooks) \in Nat
  OBVIOUS
<1>7. MigratedHooks(hooks, c, s) \in Seq(HandlerValues)
  BY <1>5, <1>6
<1>8. DOMAIN MigratedHooks(hooks, c, s) = 1..Len(hooks)
  BY <1>4
<1>9. Len(MigratedHooks(hooks, c, s)) = Len(hooks)
  BY <1>6, <1>7, <1>8
<1> QED
  BY <1>4, <1>7, <1>9

LEMMA MigratedHooksTwice ==
  ASSUME NEW hooks \in Seq(HandlerValues), NEW c \in HookCommands, NEW s \in HookCommands
  PROVE  MigratedHooks(MigratedHooks(hooks, c, s), c, s) = MigratedHooks(hooks, c, s)
<1> DEFINE new == MigratedHooks(hooks, c, s)
<1>1. /\ new \in Seq(HandlerValues) /\ Len(new) = Len(hooks)
      /\ \A k \in 1..Len(hooks) : new[k] = IF SameStock(hooks[k], s) THEN c ELSE hooks[k]
  BY MigratedHooksForm
<1> HIDE DEF new
<1>2. /\ MigratedHooks(new, c, s) \in Seq(HandlerValues)
      /\ Len(MigratedHooks(new, c, s)) = Len(new)
      /\ \A k \in 1..Len(new) :
           MigratedHooks(new, c, s)[k] = IF SameStock(new[k], s) THEN c ELSE new[k]
  BY <1>1, MigratedHooksForm
<1>3. \A k \in 1..Len(new) : MigratedHooks(new, c, s)[k] = new[k]
  BY <1>1, <1>2
<1>4. MigratedHooks(new, c, s) = new
  BY <1>1, <1>2, <1>3
<1> QED
  BY <1>4 DEF new

LEMMA MigratedAlready ==
  ASSUME NEW hooks \in Seq(HandlerValues), NEW c \in HookCommands, NEW s \in HookCommands,
         Len(hooks) = 1, hooks[1] = c
  PROVE  MigratedHooks(hooks, c, s) = hooks
<1>1. /\ MigratedHooks(hooks, c, s) \in Seq(HandlerValues)
      /\ Len(MigratedHooks(hooks, c, s)) = 1 /\ MigratedHooks(hooks, c, s)[1] = c
  BY MigratedHooksForm
<1>2. \A k \in 1..1 : MigratedHooks(hooks, c, s)[k] = hooks[k]
  BY <1>1
<1> QED
  BY <1>1, <1>2

LEMMA MigratedGroupForm ==
  ASSUME NEW group \in Groups, NEW c \in HookCommands, NEW s \in HookCommands,
         group # Malformed
  PROVE  /\ MigratedGroup(group, c, s) \in WellFormed
         /\ MigratedGroup(group, c, s).matcher = group.matcher
<1>1. group \in WellFormed /\ group.hooks \in HandlerLists
  BY DEF Groups, WellFormed
<1>2. CASE group.matcher # "all" \/ group.hooks = Malformed
  BY <1>1, <1>2 DEF MigratedGroup
<1>3. CASE ~(group.matcher # "all" \/ group.hooks = Malformed)
  <2>1. group.hooks \in Seq(HandlerValues)
    BY <1>1, <1>3 DEF HandlerLists
  <2>2. MigratedHooks(group.hooks, c, s) \in HandlerLists
    BY <2>1, MigratedHooksForm DEF HandlerLists
  <2> QED
    BY <1>3, <2>2 DEF MigratedGroup, WellFormed
<1> QED
  BY <1>2, <1>3

(* The groups of a list keep their form when it is migrated.               *)
LEMMA MigrationForm ==
  ASSUME NEW groups \in Seq(Groups), NEW c \in HookCommands, NEW s \in HookCommands,
         c # s => \A i \in DOMAIN groups : groups[i] # Malformed
  PROVE  /\ MigratedGroups(groups, c, s) \in Seq(Groups)
         /\ Len(MigratedGroups(groups, c, s)) = Len(groups)
         /\ \A i \in 1..Len(groups) :
              MigratedGroups(groups, c, s)[i]
                = IF c = s THEN groups[i] ELSE MigratedGroup(groups[i], c, s)
<1>1. CASE c = s
  BY <1>1 DEF MigratedGroups
<1>2. CASE c # s
  <2>1. \A i \in 1..Len(groups) : MigratedGroup(groups[i], c, s) \in Groups
    BY <1>2, MigratedGroupForm DEF Groups
  <2>2. MigratedGroups(groups, c, s) = [i \in 1..Len(groups) |-> MigratedGroup(groups[i], c, s)]
    BY <1>2 DEF MigratedGroups
  <2>3. MigratedGroups(groups, c, s) \in [1..Len(groups) -> Groups]
    BY <2>1, <2>2
  <2>4. Len(groups) \in Nat
    OBVIOUS
  <2>5. MigratedGroups(groups, c, s) \in Seq(Groups)
    BY <2>3, <2>4
  <2>6. DOMAIN MigratedGroups(groups, c, s) = 1..Len(groups)
    BY <2>2
  <2>7. Len(MigratedGroups(groups, c, s)) = Len(groups)
    BY <2>4, <2>5, <2>6
  <2> QED
    BY <1>2, <2>2, <2>5, <2>7
<1> QED
  BY <1>1, <1>2

LEMMA MigratedTwice ==
  ASSUME NEW groups \in Seq(Groups), NEW c \in HookCommands, NEW s \in HookCommands,
         c # s => \A i \in DOMAIN groups : groups[i] # Malformed
  PROVE  MigratedGroups(MigratedGroups(groups, c, s), c, s) = MigratedGroups(groups, c, s)
<1> DEFINE m == MigratedGroups(groups, c, s)
<1>1. CASE c = s
  BY <1>1 DEF MigratedGroups
<1>2. CASE c # s
  <2>1. /\ m \in Seq(Groups) /\ Len(m) = Len(groups) /\ Len(groups) \in Nat
        /\ \A i \in 1..Len(groups) : m[i] = MigratedGroup(groups[i], c, s)
    BY <1>2, MigrationForm
  <2>2. ASSUME NEW i \in 1..Len(groups)
        PROVE  MigratedGroup(m[i], c, s) = m[i]
    <3>1. groups[i] \in WellFormed /\ groups[i].hooks \in HandlerLists
      BY <1>2, <2>2 DEF Groups, WellFormed
    <3>2. CASE groups[i].matcher # "all" \/ groups[i].hooks = Malformed
      BY <2>1, <2>2, <3>2 DEF MigratedGroup
    <3>3. CASE ~(groups[i].matcher # "all" \/ groups[i].hooks = Malformed)
      <4>1. groups[i].hooks \in Seq(HandlerValues)
        BY <3>1, <3>3 DEF HandlerLists
      <4>2. MigratedHooks(MigratedHooks(groups[i].hooks, c, s), c, s)
              = MigratedHooks(groups[i].hooks, c, s)
        BY <4>1, MigratedHooksTwice
      <4>3. m[i] = [matcher |-> "all", hooks |-> MigratedHooks(groups[i].hooks, c, s)]
        BY <2>1, <2>2, <3>3 DEF MigratedGroup
      <4> QED
        BY <4>2, <4>3 DEF MigratedGroup
    <3> QED
      BY <3>2, <3>3
  <2>3. \A i \in DOMAIN m : m[i] # Malformed
    BY <1>2, <2>1, MigratedGroupForm, ClaudeAssumption
  <2>4. /\ MigratedGroups(m, c, s) \in Seq(Groups) /\ Len(MigratedGroups(m, c, s)) = Len(m)
        /\ \A i \in 1..Len(m) : MigratedGroups(m, c, s)[i] = MigratedGroup(m[i], c, s)
    BY <1>2, <2>1, <2>3, MigrationForm
  <2> HIDE DEF m
  <2>5. MigratedGroups(m, c, s) = m
    BY <2>1, <2>2, <2>4
  <2> QED
    BY <2>5 DEF m
<1> QED
  BY <1>1, <1>2

(* Groups of a migrated list keep their form too, and none is of the wrong  *)
(* type when there was something to migrate.                               *)
LEMMA MigratedReadable ==
  ASSUME NEW groups \in Seq(Groups), NEW c \in HookCommands, NEW s \in HookCommands,
         c # s, \A i \in DOMAIN groups : groups[i] # Malformed
  PROVE  \A i \in 1..Len(groups) : MigratedGroups(groups, c, s)[i] # Malformed
BY MigrationForm, MigratedGroupForm, ClaudeAssumption

(* The two ways a merge succeeds: a group covers every tool and all before  *)
(* it can be read, or no group is ours and all can be read.                *)
LEMMA CoverageCases ==
  ASSUME NEW groups \in Seq(Groups), NEW c \in HookCommands, NEW s \in HookCommands
  PROVE  /\ Coverage(groups, c, s) = "all"
              <=> \E i \in 1..Len(groups) :
                    /\ CoversAll(groups[i], c, s)
                    /\ \A j \in 1..(i - 1) : ~Unreadable(groups[j], c, s)
         /\ Coverage(groups, c, s) = "missing"
              => \A i \in 1..Len(groups) :
                   /\ ~RunsOurs(groups[i], c, s) /\ ~Unreadable(groups[i], c, s)
<1>1. DOMAIN groups = 1..Len(groups) /\ Len(groups) \in Nat
  OBVIOUS
<1>2. Coverage(groups, c, s) = "all"
        <=> \E i \in 1..Len(groups) :
              /\ CoversAll(groups[i], c, s)
              /\ \A j \in 1..(i - 1) : ~Unreadable(groups[j], c, s)
  BY <1>1 DEF Coverage
<1>3. Coverage(groups, c, s) = "missing"
        => \A i \in 1..Len(groups) :
             ~RunsOurs(groups[i], c, s) /\ ~Unreadable(groups[i], c, s)
  BY <1>1 DEF Coverage
<1> QED
  BY <1>2, <1>3

(* The group an installer adds.                                            *)
LEMMA NewGroupCovers ==
  ASSUME NEW c \in HookCommands, NEW s \in HookCommands
  PROVE  /\ NewGroup(c) \in Groups /\ NewGroup(c) # Malformed
         /\ CoversAll(NewGroup(c), c, s) /\ NewGroup(c).hooks[1] = c
         /\ NewGroup(c).matcher = "all" /\ NewGroup(c).hooks = <<c>>
<1>1. c \in HandlerValues /\ c # Malformed
  BY ClaudeAssumption DEF HandlerValues
<1>2. <<c>> \in Seq(HandlerValues) /\ DOMAIN <<c>> = {1} /\ <<c>>[1] = c
  BY <1>1
<1>3. /\ NewGroup(c) \in WellFormed /\ NewGroup(c).matcher = "all"
      /\ NewGroup(c).hooks = <<c>>
  BY <1>2 DEF NewGroup, WellFormed, HandlerLists
<1>4. <<c>> # Malformed
  BY <1>2, ClaudeAssumption
<1>5. RunsOurs(NewGroup(c), c, s)
  BY <1>2, <1>3 DEF RunsOurs
<1>6. ~Unreadable(NewGroup(c), c, s)
  BY <1>1, <1>2, <1>3, <1>4, ClaudeAssumption DEF Unreadable
<1> QED
  BY <1>2, <1>3, <1>5, <1>6, ClaudeAssumption DEF CoversAll, Groups

(* A migrated list to which the new group is added.                        *)
LEMMA AddedGroup ==
  ASSUME NEW m \in Seq(Groups), NEW g \in Groups
  PROVE  /\ Append(m, g) \in Seq(Groups) /\ Len(Append(m, g)) = Len(m) + 1
         /\ Len(m) \in Nat /\ Append(m, g)[Len(m) + 1] = g
         /\ \A i \in 1..Len(m) : Append(m, g)[i] = m[i]
OBVIOUS

(* A list that was migrated and then given the new group is already         *)
(* migrated.                                                               *)
LEMMA MigratedAdded ==
  ASSUME NEW m \in Seq(Groups), NEW c \in HookCommands, NEW s \in HookCommands,
         c # s => \A i \in 1..Len(m) : m[i] # Malformed,
         MigratedGroups(m, c, s) = m
  PROVE  MigratedGroups(Append(m, NewGroup(c)), c, s) = Append(m, NewGroup(c))
<1> DEFINE a == Append(m, NewGroup(c))
<1>1. /\ a \in Seq(Groups) /\ Len(a) = Len(m) + 1 /\ Len(m) \in Nat
      /\ a[Len(m) + 1] = NewGroup(c) /\ \A i \in 1..Len(m) : a[i] = m[i]
  BY AddedGroup, NewGroupCovers
<1> HIDE DEF a
<1>2. CASE c = s
  BY <1>2 DEF MigratedGroups, a
<1>3. CASE c # s
  <2>1. \A i \in DOMAIN a : a[i] # Malformed
    BY <1>1, <1>3, NewGroupCovers
  <2>2. /\ MigratedGroups(a, c, s) \in Seq(Groups) /\ Len(MigratedGroups(a, c, s)) = Len(a)
        /\ \A i \in 1..Len(a) : MigratedGroups(a, c, s)[i] = MigratedGroup(a[i], c, s)
    BY <1>1, <1>3, <2>1, MigrationForm
  <2>3. \A i \in 1..Len(m) : m[i] = MigratedGroup(m[i], c, s)
    BY <1>3, MigrationForm
  <2>4. MigratedGroup(NewGroup(c), c, s) = NewGroup(c)
    <3>1. <<c>> \in Seq(HandlerValues) /\ Len(<<c>>) = 1 /\ <<c>>[1] = c
      BY DEF HandlerValues
    <3>2. MigratedHooks(<<c>>, c, s) = <<c>>
      BY <3>1, MigratedAlready
    <3> QED
      BY <3>2 DEF MigratedGroup, NewGroup
  <2>5. \A i \in 1..Len(a) : MigratedGroup(a[i], c, s) = a[i]
    BY <1>1, <2>3, <2>4
  <2>6. MigratedGroups(a, c, s) = a
    BY <1>1, <2>2, <2>5
  <2> QED
    BY <2>6 DEF a
<1> QED
  BY <1>2, <1>3

(* What a successful merge of one event returns.                           *)
LEMMA MergeCases ==
  ASSUME NEW groups \in Seq(Groups) \cup {Malformed},
         NEW c \in HookCommands, NEW s \in HookCommands,
         MergedGroups(groups, c, s) # Conflict
  PROVE  /\ groups \in Seq(Groups)
         /\ c # s => \A i \in DOMAIN groups : groups[i] # Malformed
         /\ \/ /\ Coverage(MigratedGroups(groups, c, s), c, s) = "all"
               /\ MergedGroups(groups, c, s) = MigratedGroups(groups, c, s)
            \/ /\ Coverage(MigratedGroups(groups, c, s), c, s) = "missing"
               /\ MergedGroups(groups, c, s)
                    = Append(MigratedGroups(groups, c, s), NewGroup(c))
BY DEF MergedGroups

(* One event: merging what was merged changes nothing.                     *)
LEMMA MergedTwice ==
  ASSUME NEW groups \in Seq(Groups) \cup {Malformed},
         NEW c \in HookCommands, NEW s \in HookCommands,
         MergedGroups(groups, c, s) # Conflict
  PROVE  /\ MergedGroups(groups, c, s) \in Seq(Groups)
         /\ MergedGroups(MergedGroups(groups, c, s), c, s) = MergedGroups(groups, c, s)
<1> DEFINE m == MigratedGroups(groups, c, s)
<1>1. groups \in Seq(Groups) /\ (c # s => \A i \in DOMAIN groups : groups[i] # Malformed)
  BY MergeCases
<1>2. /\ m \in Seq(Groups) /\ Len(m) = Len(groups) /\ MigratedGroups(m, c, s) = m
      /\ c # s => \A i \in 1..Len(m) : m[i] # Malformed
  BY <1>1, MigrationForm, MigratedTwice, MigratedReadable
<1>3. m # Malformed
  BY <1>2, ClaudeAssumption
<1>4. \/ Coverage(m, c, s) = "all" /\ MergedGroups(groups, c, s) = m
      \/ Coverage(m, c, s) = "missing" /\ MergedGroups(groups, c, s) = Append(m, NewGroup(c))
  BY MergeCases
<1> HIDE DEF m
<1>5. CASE Coverage(m, c, s) = "all" /\ MergedGroups(groups, c, s) = m
  <2>1. \A i \in DOMAIN m : c # s => m[i] # Malformed
    BY <1>2
  <2>2. MergedGroups(m, c, s) = m
    BY <1>2, <1>3, <1>5, <2>1 DEF MergedGroups
  <2> QED
    BY <1>2, <1>5, <2>2
<1>6. CASE Coverage(m, c, s) = "missing" /\ MergedGroups(groups, c, s) = Append(m, NewGroup(c))
  <2> DEFINE a == Append(m, NewGroup(c))
  <2>1. /\ a \in Seq(Groups) /\ Len(a) = Len(m) + 1 /\ Len(m) \in Nat
        /\ a[Len(m) + 1] = NewGroup(c) /\ \A i \in 1..Len(m) : a[i] = m[i]
    BY <1>2, AddedGroup, NewGroupCovers
  <2>2. MigratedGroups(a, c, s) = a
    BY <1>2, MigratedAdded
  <2> HIDE DEF a
  <2>3. \A i \in 1..Len(m) : ~Unreadable(a[i], c, s)
    BY <1>2, <1>6, <2>1, CoverageCases
  <2>4. CoversAll(a[Len(m) + 1], c, s)
    BY <2>1, NewGroupCovers
  <2>5. Coverage(a, c, s) = "all"
    <3>1. Len(m) + 1 \in 1..Len(a) /\ (Len(m) + 1) - 1 = Len(m)
      BY <2>1
    <3> QED
      BY <2>1, <2>3, <2>4, <3>1, CoverageCases
  <2>6. \A i \in DOMAIN a : c # s => a[i] # Malformed
    BY <1>2, <2>1, NewGroupCovers
  <2>7. a # Malformed
    BY <2>1, ClaudeAssumption
  <2>8. MergedGroups(a, c, s) = a
    BY <2>2, <2>5, <2>6, <2>7 DEF MergedGroups
  <2> QED
    BY <1>6, <2>1, <2>8 DEF a
<1> QED
  BY <1>4, <1>5, <1>6

-----------------------------------------------------------------------------
(* What a merge of one event keeps and adds.                               *)

(* A group is as it was, or only its bare Regurgitate commands changed, and *)
(* it ran for every tool.                                                  *)
GroupKept(old, new, c, s) ==
  \/ new = old
  \/ /\ old.matcher = "all" /\ new.matcher = "all" /\ Len(new.hooks) = Len(old.hooks)
     /\ \A k \in 1..Len(old.hooks) :
          new.hooks[k] # old.hooks[k] => SameStock(old.hooks[k], s) /\ new.hooks[k] = c

GroupsKept(old, new, c, s) ==
  /\ Len(new) \in {Len(old), Len(old) + 1}
  /\ \A i \in 1..Len(old) : GroupKept(old[i], new[i], c, s)

(* A group runs the command for every tool; it may be another Regurgitate   *)
(* executable only if the stock command was asked for.                     *)
RunsForAll(groups, c, s) ==
  \E i \in 1..Len(groups) :
    /\ groups[i].matcher = "all"
    /\ \E k \in DOMAIN groups[i].hooks :
         IF c = s THEN groups[i].hooks[k] = c \/ SameStock(groups[i].hooks[k], s)
         ELSE groups[i].hooks[k] = c

LEMMA MigrationKeeps ==
  ASSUME NEW groups \in Seq(Groups), NEW c \in HookCommands, NEW s \in HookCommands,
         c # s => \A i \in DOMAIN groups : groups[i] # Malformed
  PROVE  \A i \in 1..Len(groups) :
           GroupKept(groups[i], MigratedGroups(groups, c, s)[i], c, s)
<1>1. CASE c = s
  BY <1>1 DEF MigratedGroups, GroupKept
<1>2. CASE c # s
  <2> SUFFICES ASSUME NEW i \in 1..Len(groups)
               PROVE  GroupKept(groups[i], MigratedGroup(groups[i], c, s), c, s)
    BY <1>2, MigrationForm
  <2>1. groups[i] \in WellFormed /\ groups[i].hooks \in HandlerLists
    BY <1>2 DEF Groups, WellFormed
  <2>2. CASE groups[i].matcher # "all" \/ groups[i].hooks = Malformed
    BY <2>1, <2>2 DEF MigratedGroup, GroupKept
  <2>3. CASE ~(groups[i].matcher # "all" \/ groups[i].hooks = Malformed)
    <3>1. groups[i].hooks \in Seq(HandlerValues)
      BY <2>1, <2>3 DEF HandlerLists
    <3>2. /\ Len(MigratedHooks(groups[i].hooks, c, s)) = Len(groups[i].hooks)
          /\ \A k \in 1..Len(groups[i].hooks) :
               MigratedHooks(groups[i].hooks, c, s)[k]
                 = IF SameStock(groups[i].hooks[k], s) THEN c ELSE groups[i].hooks[k]
      BY <3>1, MigratedHooksForm
    <3>3. MigratedGroup(groups[i], c, s)
            = [matcher |-> "all", hooks |-> MigratedHooks(groups[i].hooks, c, s)]
      BY <2>3 DEF MigratedGroup
    <3> QED
      BY <2>3, <3>2, <3>3 DEF GroupKept
  <2> QED
    BY <2>2, <2>3
<1> QED
  BY <1>1, <1>2

LEMMA MergeKeeps ==
  ASSUME NEW groups \in Seq(Groups) \cup {Malformed},
         NEW c \in HookCommands, NEW s \in HookCommands,
         MergedGroups(groups, c, s) # Conflict
  PROVE  groups \in Seq(Groups) /\ GroupsKept(groups, MergedGroups(groups, c, s), c, s)
<1> DEFINE m == MigratedGroups(groups, c, s)
<1>1. groups \in Seq(Groups) /\ (c # s => \A i \in DOMAIN groups : groups[i] # Malformed)
  BY MergeCases
<1>2. /\ m \in Seq(Groups) /\ Len(m) = Len(groups)
      /\ \A i \in 1..Len(groups) : GroupKept(groups[i], m[i], c, s)
  BY <1>1, MigrationForm, MigrationKeeps
<1>3. MergedGroups(groups, c, s) = m \/ MergedGroups(groups, c, s) = Append(m, NewGroup(c))
  BY MergeCases
<1> HIDE DEF m
<1>4. /\ Len(Append(m, NewGroup(c))) = Len(m) + 1
      /\ \A i \in 1..Len(m) : Append(m, NewGroup(c))[i] = m[i]
  BY <1>2, AddedGroup, NewGroupCovers
<1> QED
  BY <1>1, <1>2, <1>3, <1>4 DEF GroupsKept

(* In a group that ran for every tool a migration leaves no other stock     *)
(* command.                                                                *)
LEMMA MigratedRuns ==
  ASSUME NEW group \in Groups, NEW c \in HookCommands, NEW s \in HookCommands,
         group # Malformed, CoversAll(MigratedGroup(group, c, s), c, s)
  PROVE  \E k \in DOMAIN MigratedGroup(group, c, s).hooks :
           MigratedGroup(group, c, s).hooks[k] = c
<1>1. group \in WellFormed /\ group.hooks \in HandlerLists
  BY DEF Groups, WellFormed
<1>2. group.matcher = "all"
  BY MigratedGroupForm DEF CoversAll
<1>3. group.hooks # Malformed
  BY DEF CoversAll, Unreadable, MigratedGroup
<1>4. group.hooks \in Seq(HandlerValues)
  BY <1>1, <1>3 DEF HandlerLists
<1>5. MigratedGroup(group, c, s).hooks = MigratedHooks(group.hooks, c, s)
  BY <1>2, <1>3 DEF MigratedGroup
<1>6. /\ MigratedHooks(group.hooks, c, s) \in Seq(HandlerValues)
      /\ Len(MigratedHooks(group.hooks, c, s)) = Len(group.hooks)
      /\ \A k \in 1..Len(group.hooks) :
           MigratedHooks(group.hooks, c, s)[k]
             = IF SameStock(group.hooks[k], s) THEN c ELSE group.hooks[k]
  BY <1>4, MigratedHooksForm
<1>7. DOMAIN MigratedHooks(group.hooks, c, s) = 1..Len(group.hooks)
  BY <1>6
<1>8. PICK k \in 1..Len(group.hooks) :
        \/ MigratedHooks(group.hooks, c, s)[k] = c
        \/ SameStock(MigratedHooks(group.hooks, c, s)[k], s)
  BY <1>5, <1>7 DEF CoversAll, RunsOurs
<1>9. MigratedHooks(group.hooks, c, s)[k] = c
  BY <1>6, <1>8
<1> QED
  BY <1>5, <1>7, <1>9

LEMMA MergeRuns ==
  ASSUME NEW groups \in Seq(Groups) \cup {Malformed},
         NEW c \in HookCommands, NEW s \in HookCommands,
         MergedGroups(groups, c, s) # Conflict
  PROVE  RunsForAll(MergedGroups(groups, c, s), c, s)
<1> DEFINE m == MigratedGroups(groups, c, s)
<1>1. groups \in Seq(Groups) /\ (c # s => \A i \in DOMAIN groups : groups[i] # Malformed)
  BY MergeCases
<1>2. /\ m \in Seq(Groups) /\ Len(m) = Len(groups)
      /\ \A i \in 1..Len(groups) :
           m[i] = IF c = s THEN groups[i] ELSE MigratedGroup(groups[i], c, s)
  BY <1>1, MigrationForm
<1>3. \/ Coverage(m, c, s) = "all" /\ MergedGroups(groups, c, s) = m
      \/ Coverage(m, c, s) = "missing" /\ MergedGroups(groups, c, s) = Append(m, NewGroup(c))
  BY MergeCases
<1> HIDE DEF m
<1>4. CASE Coverage(m, c, s) = "all" /\ MergedGroups(groups, c, s) = m
  <2>1. PICK i \in 1..Len(m) : CoversAll(m[i], c, s)
    BY <1>2, <1>4, CoverageCases
  <2>2. m[i].matcher = "all"
    BY <2>1 DEF CoversAll
  <2>3. CASE c = s
    <3>1. \E k \in DOMAIN m[i].hooks : m[i].hooks[k] = c \/ SameStock(m[i].hooks[k], s)
      BY <2>1 DEF CoversAll, RunsOurs
    <3> QED
      BY <1>4, <2>2, <2>3, <3>1 DEF RunsForAll
  <2>4. CASE c # s
    <3>1. i \in DOMAIN groups /\ groups[i] \in Groups /\ groups[i] # Malformed
      BY <1>1, <1>2, <2>4
    <3>2. m[i] = MigratedGroup(groups[i], c, s)
      BY <1>2, <2>4
    <3>3. \E k \in DOMAIN m[i].hooks : m[i].hooks[k] = c
      BY <2>1, <3>1, <3>2, MigratedRuns
    <3> QED
      BY <1>4, <2>2, <2>4, <3>3 DEF RunsForAll
  <2> QED
    BY <2>3, <2>4
<1>5. CASE Coverage(m, c, s) = "missing" /\ MergedGroups(groups, c, s) = Append(m, NewGroup(c))
  <2> DEFINE a == Append(m, NewGroup(c))
  <2>1. /\ Len(a) = Len(m) + 1 /\ Len(m) \in Nat /\ a[Len(m) + 1] = NewGroup(c)
    BY <1>2, AddedGroup, NewGroupCovers
  <2> HIDE DEF a
  <2>2. Len(m) + 1 \in 1..Len(a)
    BY <2>1
  <2>3. 1 \in DOMAIN a[Len(m) + 1].hooks /\ a[Len(m) + 1].hooks[1] = c
    BY <2>1, NewGroupCovers
  <2>4. a[Len(m) + 1].matcher = "all"
    BY <2>1, NewGroupCovers
  <2>5. RunsForAll(a, c, s)
    BY <2>2, <2>3, <2>4 DEF RunsForAll
  <2> QED
    BY <1>5, <2>5 DEF a
<1> QED
  BY <1>3, <1>4, <1>5

-----------------------------------------------------------------------------
(* Claude: the whole of the settings.                                      *)

LEMMA EventCommandType ==
  ASSUME NEW command \in HookCommands, NEW e \in HOOK_EVENTS
  PROVE  EventCommand(e, command) \in HookCommands
BY DEF EventCommand, HookCommands

LEMMA StockCommandType == STOCK_COMMAND \in HookCommands
BY DEF STOCK_COMMAND, HookCommands, Commands

LEMMA PreparedForm ==
  ASSUME NEW settings \in Settings \cup {Unusable}, NEW command \in HookCommands,
         PreparedSettings(settings, command) # Conflict
  PROVE  /\ settings \in Settings
         /\ \A e \in MappedEvents(command) :
              /\ e \in HOOK_EVENTS
              /\ settings[e] \in Seq(Groups) \cup {Malformed}
              /\ EventCommand(e, command) \in HookCommands
              /\ EventCommand(e, STOCK_COMMAND) \in HookCommands
              /\ MergedEvent(settings, e, command) # Conflict
         /\ PreparedSettings(settings, command)
              = [e \in HOOK_EVENTS |-> IF e \in MappedEvents(command)
                                         THEN MergedEvent(settings, e, command) ELSE settings[e]]
<1>1. /\ settings # Unusable
      /\ \A e \in MappedEvents(command) : MergedEvent(settings, e, command) # Conflict
  BY DEF PreparedSettings
<1>2. settings \in Settings
  BY <1>1
<1>3. \A e \in MappedEvents(command) : e \in HOOK_EVENTS
  BY DEF MappedEvents
<1>4. \A e \in HOOK_EVENTS : settings[e] \in Seq(Groups) \cup {Malformed}
  BY <1>2 DEF Settings
<1>5. PreparedSettings(settings, command)
        = [e \in HOOK_EVENTS |-> IF e \in MappedEvents(command)
                                   THEN MergedEvent(settings, e, command) ELSE settings[e]]
  BY <1>1 DEF PreparedSettings
<1> QED
  BY <1>1, <1>2, <1>3, <1>4, <1>5, EventCommandType, StockCommandType

(* Installing twice changes nothing, and right after an installation the    *)
(* inspection that health and the worker use finds the hooks installed     *)
(* (claude_config.rs:76-84, 93-116): whatever else the settings hold, what  *)
(* prepare_config writes is what prepare_config accepts.                   *)
THEOREM ClaudeStable ==
  ASSUME NEW settings \in Settings \cup {Unusable}, NEW command \in HookCommands,
         PreparedSettings(settings, command) # Conflict
  PROVE  /\ PreparedSettings(PreparedSettings(settings, command), command)
              = PreparedSettings(settings, command)
         /\ Inspected(PreparedSettings(settings, command), command) = "installed"
<1> DEFINE P == PreparedSettings(settings, command)
<1>1. /\ settings \in Settings
      /\ \A e \in MappedEvents(command) :
           /\ P[e] \in Seq(Groups)
           /\ P[e] = MergedEvent(settings, e, command)
           /\ MergedEvent(P, e, command) = P[e]
  <2>1. settings \in Settings
    BY PreparedForm
  <2>2. ASSUME NEW e \in MappedEvents(command)
        PROVE  /\ P[e] \in Seq(Groups)
               /\ P[e] = MergedEvent(settings, e, command)
               /\ MergedEvent(P, e, command) = P[e]
    <3>1. /\ e \in HOOK_EVENTS
          /\ settings[e] \in Seq(Groups) \cup {Malformed}
          /\ EventCommand(e, command) \in HookCommands
          /\ EventCommand(e, STOCK_COMMAND) \in HookCommands
          /\ MergedEvent(settings, e, command) # Conflict
          /\ P[e] = MergedEvent(settings, e, command)
      BY <2>2, PreparedForm
    <3> HIDE DEF P
    <3> QED
      BY <3>1, MergedTwice DEF MergedEvent
  <2> QED
    BY <2>1, <2>2
<1>2. P = [e \in HOOK_EVENTS |-> IF e \in MappedEvents(command) THEN P[e] ELSE settings[e]]
  BY PreparedForm
<1>3. \A e \in HOOK_EVENTS : settings[e] \in Seq(Groups) \cup {Malformed}
  BY <1>1 DEF Settings
<1>4. P \in Settings
  BY <1>1, <1>2, <1>3 DEF Settings
<1> HIDE DEF P
<1>5. P # Unusable /\ P # Conflict
  BY <1>4, ClaudeAssumption
<1>6. \A e \in MappedEvents(command) : MergedEvent(P, e, command) # Conflict
  BY <1>1, ClaudeAssumption
<1>7. PreparedSettings(P, command)
        = [e \in HOOK_EVENTS |-> IF e \in MappedEvents(command)
                                   THEN MergedEvent(P, e, command) ELSE P[e]]
  BY <1>5, <1>6 DEF PreparedSettings
<1>8. PreparedSettings(P, command) = P
  BY <1>1, <1>4, <1>7 DEF Settings
<1>9. Inspected(P, command) = "installed"
  BY <1>5, <1>8 DEF Inspected
<1> QED
  BY <1>8, <1>9 DEF P

(* "Existing settings, matcher groups, and personal commands are retained"  *)
(* (claude_config.rs:86-87): no group is dropped, reordered or has its      *)
(* matcher changed; within a group only a bare Regurgitate command is       *)
(* replaced, by the one that is installed; at most one group is added to an *)
(* event, at its end.                                                      *)
THEOREM ClaudeKeepsOthers ==
  ASSUME NEW settings \in Settings \cup {Unusable}, NEW command \in HookCommands,
         PreparedSettings(settings, command) # Conflict
  PROVE  \A e \in HOOK_EVENTS :
           IF e \in MappedEvents(command)
             THEN GroupsKept(settings[e], PreparedSettings(settings, command)[e],
                             EventCommand(e, command), EventCommand(e, STOCK_COMMAND))
             ELSE PreparedSettings(settings, command)[e] = settings[e]
BY PreparedForm, MergeKeeps DEF MergedEvent

(* An installation that succeeds, or finds nothing to do, leaves every      *)
(* event it maps with a group that runs Regurgitate for all tools; unless   *)
(* the stock command was asked for it is the executable that was asked for, *)
(* never the one of an older installation.                                 *)
THEOREM ClaudeRuns ==
  ASSUME NEW settings \in Settings \cup {Unusable}, NEW command \in HookCommands,
         PreparedSettings(settings, command) # Conflict
  PROVE  \A e \in MappedEvents(command) :
           RunsForAll(PreparedSettings(settings, command)[e],
                      EventCommand(e, command), EventCommand(e, STOCK_COMMAND))
<1> SUFFICES ASSUME NEW e \in MappedEvents(command)
             PROVE  RunsForAll(PreparedSettings(settings, command)[e],
                               EventCommand(e, command), EventCommand(e, STOCK_COMMAND))
  OBVIOUS
<1>1. /\ settings[e] \in Seq(Groups) \cup {Malformed}
      /\ EventCommand(e, command) \in HookCommands
      /\ EventCommand(e, STOCK_COMMAND) \in HookCommands
      /\ MergedEvent(settings, e, command) # Conflict
      /\ PreparedSettings(settings, command)[e] = MergedEvent(settings, e, command)
  BY PreparedForm
<1> QED
  BY <1>1, MergeRuns DEF MergedEvent

(* An event whose groups hold one bare Regurgitate command each is merged   *)
(* by HookConfig's MergedToml, which Setup models an installation with.     *)
SoleHandler(groups, s) ==
  \A i \in 1..Len(groups) :
    /\ groups[i] # Malformed /\ groups[i].matcher # Malformed
    /\ groups[i].hooks \in Seq(HandlerValues) /\ Len(groups[i].hooks) = 1
    /\ SameStock(groups[i].hooks[1], s)

Flat(groups) ==
  [i \in DOMAIN groups |->
     [command |-> groups[i].hooks[1].program, restricted |-> groups[i].matcher # "all"]]

LEMMA OneHandlerCoverage ==
  ASSUME NEW groups \in Seq(Groups), NEW c \in HookCommands, NEW s \in HookCommands,
         \A i \in 1..Len(groups) :
           /\ groups[i] # Malformed /\ groups[i].matcher # Malformed
           /\ groups[i].hooks \in Seq(HandlerValues) /\ Len(groups[i].hooks) = 1
           /\ groups[i].hooks[1] = c \/ SameStock(groups[i].hooks[1], s)
  PROVE  Coverage(groups, c, s)
           = IF \E i \in 1..Len(groups) : groups[i].matcher = "all" THEN "all"
             ELSE IF groups = <<>> THEN "missing" ELSE "restricted"
<1>1. DOMAIN groups = 1..Len(groups) /\ Len(groups) \in Nat
  OBVIOUS
<1>2. ASSUME NEW i \in 1..Len(groups)
      PROVE  RunsOurs(groups[i], c, s) /\ ~Unreadable(groups[i], c, s)
  <2>1. DOMAIN groups[i].hooks = {1}
    BY <1>2
  <2>2. groups[i].hooks[1] # Malformed
    BY <1>2, ClaudeAssumption DEF SameStock
  <2>3. groups[i].hooks # Malformed
    BY <1>2, ClaudeAssumption
  <2> QED
    BY <1>2, <2>1, <2>2, <2>3 DEF RunsOurs, Unreadable
<1>3. \A i \in 1..Len(groups) : CoversAll(groups[i], c, s) <=> groups[i].matcher = "all"
  BY <1>2 DEF CoversAll
<1>4. \A i \in 1..Len(groups) : \A j \in 1..(i - 1) : j \in 1..Len(groups)
  BY <1>1
<1>5. CASE \E i \in 1..Len(groups) : groups[i].matcher = "all"
  BY <1>1, <1>2, <1>3, <1>4, <1>5 DEF Coverage
<1>6. CASE ~ \E i \in 1..Len(groups) : groups[i].matcher = "all"
  <2>1. ~ \E i \in DOMAIN groups : CoversAll(groups[i], c, s)
    BY <1>1, <1>3, <1>6
  <2>2. ~ \E i \in DOMAIN groups : Unreadable(groups[i], c, s)
    BY <1>1, <1>2
  <2>3. Coverage(groups, c, s)
          = IF \E i \in DOMAIN groups : RunsOurs(groups[i], c, s) THEN "restricted" ELSE "missing"
    BY <2>1, <2>2 DEF Coverage
  <2>4. CASE groups = <<>>
    BY <1>6, <2>3, <2>4
  <2>5. CASE groups # <<>>
    <3>1. 1 \in DOMAIN groups
      BY <2>5
    <3> QED
      BY <1>1, <1>2, <1>6, <2>3, <2>5, <3>1
  <2> QED
    BY <2>4, <2>5
<1> QED
  BY <1>5, <1>6

(* The merge of an event whose groups hold one bare Regurgitate command     *)
(* each, seen as a list of handlers, is HookConfig's.                      *)
THEOREM ClaudeMergesAsToml ==
  ASSUME NEW groups \in Seq(Groups), NEW c \in HookCommands, NEW s \in HookCommands,
         s.program = Standard, c.action = s.action, c.program \in Commands,
         SoleHandler(groups, s)
  PROVE  MergedToml(Flat(groups), c.program)
           = IF MergedGroups(groups, c, s) = Conflict THEN Conflict
             ELSE Flat(MergedGroups(groups, c, s))
<1> DEFINE m == MigratedGroups(groups, c, s)
<1>1. DOMAIN groups = 1..Len(groups) /\ Len(groups) \in Nat
  OBVIOUS
<1>2. c = s <=> c.program = Standard
  BY DEF HookCommands
<1>3. SameStock(c, s)
  BY DEF SameStock
<1>4. \A i \in DOMAIN groups : groups[i] # Malformed
  BY <1>1 DEF SoleHandler
<1>5. /\ m \in Seq(Groups) /\ Len(m) = Len(groups) /\ DOMAIN m = 1..Len(groups)
      /\ \A i \in 1..Len(groups) :
           m[i] = IF c = s THEN groups[i] ELSE MigratedGroup(groups[i], c, s)
  BY <1>4, MigrationForm
<1>6. ASSUME NEW i \in 1..Len(groups)
      PROVE  /\ m[i] # Malformed /\ m[i].matcher # Malformed
             /\ m[i].hooks \in Seq(HandlerValues) /\ Len(m[i].hooks) = 1
             /\ m[i].hooks[1] = c \/ SameStock(m[i].hooks[1], s)
             /\ m[i].matcher = groups[i].matcher
             /\ m[i].hooks[1] = IF c # s /\ groups[i].matcher = "all" THEN c
                                ELSE groups[i].hooks[1]
  <2>1. /\ groups[i] # Malformed /\ groups[i].matcher # Malformed
        /\ groups[i].hooks \in Seq(HandlerValues) /\ Len(groups[i].hooks) = 1
        /\ SameStock(groups[i].hooks[1], s) /\ groups[i] \in Groups
    BY <1>6 DEF SoleHandler
  <2>2. CASE c = s
    BY <1>5, <2>1, <2>2
  <2>3. CASE c # s /\ groups[i].matcher # "all"
    <3>1. m[i] = groups[i]
      BY <1>5, <2>3 DEF MigratedGroup
    <3> QED
      BY <2>1, <2>3, <3>1
  <2>4. CASE c # s /\ groups[i].matcher = "all"
    <3>1. m[i] = MigratedGroup(groups[i], c, s) /\ m[i] \in WellFormed
      BY <1>5, <2>1, <2>4, MigratedGroupForm
    <3>2. m[i] # Malformed
      BY <3>1, ClaudeAssumption
    <3>3. groups[i].hooks # Malformed
      BY <2>1, ClaudeAssumption
    <3>4. m[i] = [matcher |-> "all", hooks |-> MigratedHooks(groups[i].hooks, c, s)]
      BY <2>4, <3>1, <3>3 DEF MigratedGroup
    <3>5. groups[i].hooks \in Seq(HandlerValues)
      BY <2>1
    <3>6. /\ MigratedHooks(groups[i].hooks, c, s) \in Seq(HandlerValues)
          /\ Len(MigratedHooks(groups[i].hooks, c, s)) = Len(groups[i].hooks)
          /\ \A k \in 1..Len(groups[i].hooks) :
               MigratedHooks(groups[i].hooks, c, s)[k]
                 = IF SameStock(groups[i].hooks[k], s) THEN c ELSE groups[i].hooks[k]
      BY <3>5, MigratedHooksForm
    <3>7. MigratedHooks(groups[i].hooks, c, s)[1] = c
      BY <2>1, <3>6
    <3> QED
      BY <2>1, <2>4, <3>2, <3>4, <3>6, <3>7, ClaudeAssumption
  <2> QED
    BY <2>2, <2>3, <2>4
<1>7. Coverage(m, c, s)
        = IF \E i \in 1..Len(groups) : groups[i].matcher = "all" THEN "all"
          ELSE IF m = <<>> THEN "missing" ELSE "restricted"
  <2>1. \A i \in 1..Len(m) :
          /\ m[i] # Malformed /\ m[i].matcher # Malformed
          /\ m[i].hooks \in Seq(HandlerValues) /\ Len(m[i].hooks) = 1
          /\ m[i].hooks[1] = c \/ SameStock(m[i].hooks[1], s)
    BY <1>5, <1>6
  <2>2. m \in Seq(Groups)
    BY <1>5
  <2> HIDE DEF m
  <2>3. Coverage(m, c, s)
          = IF \E i \in 1..Len(m) : m[i].matcher = "all" THEN "all"
            ELSE IF m = <<>> THEN "missing" ELSE "restricted"
    BY <2>1, <2>2, OneHandlerCoverage
  <2> QED
    BY <1>5, <1>6, <2>3
<1>8. groups # Malformed
  BY ClaudeAssumption
<1>9. MergedGroups(groups, c, s)
        = IF Coverage(m, c, s) = "all" THEN m
          ELSE IF Coverage(m, c, s) = "missing" THEN Append(m, NewGroup(c)) ELSE Conflict
  BY <1>4, <1>8 DEF MergedGroups
<1>10. m # Conflict
  BY <1>5, ClaudeAssumption
<1>11. /\ Flat(groups) = [i \in 1..Len(groups) |->
             [command |-> groups[i].hooks[1].program,
              restricted |-> groups[i].matcher # "all"]]
       /\ DOMAIN Flat(groups) = 1..Len(groups)
       /\ \A i \in 1..Len(groups) : Flat(groups)[i].restricted = (groups[i].matcher # "all")
  BY <1>1 DEF Flat
<1>12. Flat(m) = [i \in 1..Len(groups) |->
             [command |-> IF c # s /\ groups[i].matcher = "all" THEN c.program
                          ELSE groups[i].hooks[1].program,
              restricted |-> groups[i].matcher # "all"]]
  BY <1>5, <1>6 DEF Flat
<1> HIDE DEF m
<1>13. CASE \E i \in 1..Len(groups) : groups[i].matcher = "all"
  <2>1. Unrestricted(Flat(groups)) # {}
    BY <1>11, <1>13 DEF Unrestricted
  <2>2. MergedToml(Flat(groups), c.program) = Migrated(Flat(groups), c.program)
    BY <2>1 DEF MergedToml
  <2>3. MergedGroups(groups, c, s) = m
    BY <1>7, <1>9, <1>13
  <2>4. Migrated(Flat(groups), c.program)
          = [i \in 1..Len(groups) |->
               IF groups[i].matcher # "all" \/ c.program = Standard THEN Flat(groups)[i]
               ELSE [Flat(groups)[i] EXCEPT !.command = c.program]]
    BY <1>11 DEF Migrated
  <2>5. \A i \in 1..Len(groups) :
          (IF groups[i].matcher # "all" \/ c.program = Standard THEN Flat(groups)[i]
           ELSE [Flat(groups)[i] EXCEPT !.command = c.program])
            = [command |-> IF c # s /\ groups[i].matcher = "all" THEN c.program
                           ELSE groups[i].hooks[1].program,
               restricted |-> groups[i].matcher # "all"]
    BY <1>2, <1>11
  <2>6. Migrated(Flat(groups), c.program) = Flat(m)
    BY <1>12, <2>4, <2>5
  <2> QED
    BY <1>10, <2>2, <2>3, <2>6
<1>14. CASE ~(\E i \in 1..Len(groups) : groups[i].matcher = "all") /\ groups = <<>>
  <2>1. m = <<>>
    BY <1>5, <1>14
  <2>2. MergedGroups(groups, c, s) = Append(m, NewGroup(c))
    BY <1>7, <1>9, <1>14, <2>1
  <2>3. Append(m, NewGroup(c)) = <<NewGroup(c)>> /\ <<NewGroup(c)>> \in Seq(Groups)
    BY <2>1, NewGroupCovers
  <2>4. Flat(<<NewGroup(c)>>) = <<NewHandler(c.program)>>
    <3>1. /\ NewGroup(c).hooks[1] = c /\ NewGroup(c).matcher = "all"
      BY NewGroupCovers
    <3>2. DOMAIN <<NewGroup(c)>> = 1..1 /\ \A i \in 1..1 : <<NewGroup(c)>>[i] = NewGroup(c)
      OBVIOUS
    <3>3. Flat(<<NewGroup(c)>>) = [i \in 1..1 |-> NewHandler(c.program)]
      BY <3>1, <3>2 DEF Flat, NewHandler
    <3>4. <<NewHandler(c.program)>> = [i \in 1..1 |-> NewHandler(c.program)]
      OBVIOUS
    <3> QED
      BY <3>3, <3>4
  <2>5. Flat(groups) = <<>>
    BY <1>11, <1>14
  <2>6. Unrestricted(Flat(groups)) = {}
    BY <1>11, <1>14 DEF Unrestricted
  <2>7. MergedToml(Flat(groups), c.program) = <<NewHandler(c.program)>>
    BY <2>5, <2>6 DEF MergedToml
  <2>8. <<NewGroup(c)>> # Conflict
    BY <2>3, ClaudeAssumption
  <2> QED
    BY <2>2, <2>3, <2>4, <2>7, <2>8
<1>15. CASE ~(\E i \in 1..Len(groups) : groups[i].matcher = "all") /\ groups # <<>>
  <2>1. m # <<>> /\ Len(groups) # 0
    BY <1>1, <1>5, <1>15
  <2>2. MergedGroups(groups, c, s) = Conflict
    BY <1>7, <1>9, <1>15, <2>1
  <2>3. Unrestricted(Flat(groups)) = {}
    BY <1>11, <1>15 DEF Unrestricted
  <2>4. Flat(groups) # <<>>
    BY <1>1, <1>11, <2>1
  <2>5. MergedToml(Flat(groups), c.program) = Conflict
    BY <2>3, <2>4 DEF MergedToml
  <2> QED
    BY <2>2, <2>5
<1> QED
  BY <1>13, <1>14, <1>15

-----------------------------------------------------------------------------
(* Agent of Empires.                                                       *)

(* Installing twice changes nothing and is then seen as installed.          *)
THEOREM AoeStable ==
  ASSUME NEW table \in StatusTables \cup {UnusableTable}, PreparedTable(table) # Conflict
  PROVE  /\ PreparedTable(PreparedTable(table)) = PreparedTable(table)
         /\ InspectedTable(PreparedTable(table)) = "installed"
<1> DEFINE P == PreparedTable(table)
<1>1. table \in StatusTables
  BY DEF PreparedTable
<1>2. P = [enabled |-> TRUE,
           hook |-> [h \in StatusHooks |->
                       IF h \in OurHooks THEN AOE_HOOK_COMMAND ELSE table.hook[h]]]
  BY DEF PreparedTable
<1>3. P \in StatusTables
  BY <1>1, <1>2 DEF StatusTables
<1>4. \A h \in OurHooks : h \in StatusHooks /\ P.hook[h] = AOE_HOOK_COMMAND
  BY <1>2 DEF StatusHooks
<1>5. P.enabled = TRUE
  BY <1>2
<1> HIDE DEF P
<1>6. P # UnusableTable /\ P # Conflict
  BY <1>3, AoeAssumption
<1>7. ~(\E h \in OurHooks : Occupied(P, h)) /\ ~Dormant(P)
  BY <1>4, <1>5 DEF Occupied, Dormant
<1>8. PreparedTable(P)
        = [enabled |-> TRUE,
           hook |-> [h \in StatusHooks |->
                       IF h \in OurHooks THEN AOE_HOOK_COMMAND ELSE P.hook[h]]]
  BY <1>7, <1>6 DEF PreparedTable
<1>9. P.hook = [h \in StatusHooks |-> IF h \in OurHooks THEN AOE_HOOK_COMMAND ELSE P.hook[h]]
  BY <1>3, <1>4 DEF StatusTables
<1>10. P = [enabled |-> TRUE, hook |-> P.hook]
  BY <1>3, <1>5 DEF StatusTables
<1>11. PreparedTable(P) = P
  BY <1>8, <1>9, <1>10
<1> QED
  BY <1>11, <1>6 DEF P, InspectedTable

(* Which hooks Agent of Empires runs: those of a table that is enabled.     *)
Running(table) ==
  IF table.enabled = TRUE
    THEN {h \in StatusHooks : table.hook[h] # None} ELSE {}

(* "Existing hook commands are never composed or replaced"                  *)
(* (aoe_config.rs:56-57), and none starts to run because of us             *)
(* (aoe_config.rs:115-121): a hook that is not ours keeps its command, and   *)
(* runs afterwards only if it ran before.                                  *)
THEOREM AoeKeepsOthers ==
  ASSUME NEW table \in StatusTables \cup {UnusableTable}, PreparedTable(table) # Conflict
  PROVE  /\ \A h \in StatusHooks :
              table.hook[h] # None => PreparedTable(table).hook[h] = table.hook[h]
         /\ Running(PreparedTable(table)) \subseteq Running(table) \cup OurHooks
         /\ OurHooks \subseteq Running(PreparedTable(table))
<1> DEFINE P == PreparedTable(table)
<1>1. table \in StatusTables /\ ~Dormant(table) /\ \A h \in OurHooks : ~Occupied(table, h)
  BY DEF PreparedTable
<1>2. P = [enabled |-> TRUE,
           hook |-> [h \in StatusHooks |->
                       IF h \in OurHooks THEN AOE_HOOK_COMMAND ELSE table.hook[h]]]
  BY DEF PreparedTable
<1> HIDE DEF P
<1>3. /\ P.enabled = TRUE
      /\ \A h \in StatusHooks :
           P.hook[h] = IF h \in OurHooks THEN AOE_HOOK_COMMAND ELSE table.hook[h]
  BY <1>2
<1>4. \A h \in StatusHooks : table.hook[h] # None => P.hook[h] = table.hook[h]
  BY <1>1, <1>3 DEF Occupied
<1>5. Running(P) \subseteq Running(table) \cup OurHooks
  BY <1>1, <1>3 DEF Running, Dormant, StatusHooks
<1>6. OurHooks \subseteq Running(P)
  BY <1>3, AoeAssumption DEF Running, StatusHooks
<1> QED
  BY <1>4, <1>5, <1>6 DEF P

=============================================================================

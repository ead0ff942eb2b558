---------------------------- MODULE RecallProofs ----------------------------
(***************************************************************************)
(* What is stored and what is recalled of it.                              *)
(*                                                                         *)
(* Stored: the migration of a v2 label to a procedure loses nothing recall *)
(* can ask for, an admitted sentence can be read back, and an adapter      *)
(* hands on only events the store accepts.                                 *)
(*                                                                         *)
(* Recalled: Recall's invariants hold for any store, any requests and any  *)
(* writes by other processes between the queries.  IInv says what the      *)
(* candidates read so far have to do with the rows as they stand; the      *)
(* answer is a matter of ranking those candidates.                         *)
(***************************************************************************)
EXTENDS Recall, Observation, Admission, Integers, FiniteSetTheorems, SequenceTheorems, TLAPS

-----------------------------------------------------------------------------
(* What is stored. *)

(* Procedure::from_strategy then legacy_strategy gives the label back, but  *)
(* for "other", which comes back as the native tool.                        *)
LEMMA MigrationReversible ==
  \A s \in Strategies :
    LegacyStrategy(FromStrategy(s)) = IF s = "other" THEN "native_tool" ELSE s
BY DEF Strategies, FromStrategy, LegacyStrategy, EmptyProcedure, NoMode, MutationModes,
       ExecutionModes, ResearchModes, IntegrationModes

(* A filter on an operation selects a migrated label exactly when it        *)
(* selected the label: "legacy --operation filters keep working".           *)
THEOREM MigrationKeepsOperation ==
  \A s \in Strategies : Classification(FromStrategy(s)) = PracticeOperation(s)
BY MigrationReversible DEF Classification, PracticeOperation, Strategies, MutationModes,
       ExecutionModes, ResearchModes, IntegrationModes

LEMMA MigratedSteps ==
  ASSUME NEW steps \in {<<>>, <<"preview", "apply">>, <<"reproduce", "compare">>}
  PROVE  steps \in Seq(Steps) /\ Len(steps) <= MaxProcedureSteps
<1>1. {"preview", "apply", "reproduce", "compare"} \subseteq Steps
      BY DEF Steps
<1>2. CASE steps = <<>> BY <1>2 DEF MaxProcedureSteps
<1>3. CASE steps = <<"preview", "apply">> BY <1>1, <1>3 DEF MaxProcedureSteps
<1>4. CASE steps = <<"reproduce", "compare">> BY <1>1, <1>4 DEF MaxProcedureSteps
<1> QED BY <1>2, <1>3, <1>4

(* Every label migrates to a procedure that validate accepts.               *)
THEOREM MigrationValid ==
  \A s \in Strategies : FromStrategy(s) \in Procedure /\ ValidProcedure(FromStrategy(s))
<1> SUFFICES ASSUME NEW s \in Strategies
             PROVE  FromStrategy(s) \in Procedure /\ ValidProcedure(FromStrategy(s))
    OBVIOUS
<1> DEFINE p == FromStrategy(s)
<1> USE DEF Strategies, FromStrategy, EmptyProcedure, NoMode, MutationModes, ExecutionModes,
           ResearchModes, IntegrationModes
<1>1. p.steps \in {<<>>, <<"preview", "apply">>, <<"reproduce", "compare">>}
      OBVIOUS
<1>2. p.steps \in Seq(Steps) /\ Len(p.steps) <= MaxProcedureSteps
      BY <1>1, MigratedSteps
<1>3. p = [mutation |-> p.mutation, verification |-> p.verification,
           execution |-> p.execution, research |-> p.research,
           integration |-> p.integration, steps |-> p.steps]
  <2>1. CASE s \in MutationModes BY <2>1
  <2>2. CASE s \in {"native_tool", "atomic_write"} BY <2>2
  <2>3. CASE s = "preview_then_apply" BY <2>3
  <2>4. CASE s \in ResearchModes BY <2>4
  <2>5. CASE s \in IntegrationModes BY <2>5
  <2>6. CASE s \in {"targeted_verification", "full_verification", "other"} BY <2>6
  <2> QED BY <2>1, <2>2, <2>3, <2>4, <2>5, <2>6
<1>8. /\ p.mutation \in MutationModes \cup {NoMode}
      /\ p.verification \in VerificationModes \cup {NoMode}
      /\ p.execution \in ExecutionModes \cup {NoMode}
      /\ p.research \in ResearchModes \cup {NoMode}
      /\ p.integration \in IntegrationModes \cup {NoMode}
      BY DEF VerificationModes
<1>4. p \in Procedure
  <2> HIDE DEF p
  <2> QED BY <1>2, <1>3, <1>8 DEF Procedure
<1>5. \/ p.mutation # NoMode \/ p.verification # NoMode \/ p.execution # NoMode
      \/ p.research # NoMode \/ p.integration # NoMode
      OBVIOUS
<1>6. p # EmptyProcedure
      BY <1>5
<1> QED BY <1>2, <1>4, <1>6 DEF ValidProcedure

-----------------------------------------------------------------------------
(* An adapter hands on only events the store accepts (sqlite.rs:143), for   *)
(* any tool and any response: a hook execution without a task whose error   *)
(* class is there exactly when it failed.                                  *)
THEOREM ObservationsValid ==
  ASSUME NEW input \in HookInputs,
         NEW event \in {CodexObservation(input), ClaudeObservation(input)}, event # Refused
  PROVE  /\ ValidEvidenceShape(event)
         /\ event.error # Absent <=> event.outcome = "failure"
         /\ event.agent = "claude" => event.outcome # "unknown"
<1>1. \A r \in Responses :
        LET result == ClassifyToolResponse(r) IN
          /\ result.error # Absent <=> result.outcome = "failure"
          /\ result = Result(result.outcome, result.error)
  BY ObservationAssumption
     DEF Responses, ClassifyToolResponse, FromExitCode, Succeeded, Result, ErrorClasses
<1>2. ASSUME event = CodexObservation(input)
      PROVE  \E outcome, error :
               /\ event = HookEvent("codex", input.tool, Result(outcome, error))
               /\ error # Absent <=> outcome = "failure"
  <2>1. CASE input.response = Absent
    BY <1>2, <2>1 DEF CodexObservation
  <2>2. CASE input.response # Absent
    <3>1. input.response \in Responses
      BY <2>2 DEF HookInputs
    <3> QED
      BY <1>1, <1>2, <2>2, <3>1 DEF CodexObservation
  <2> QED
    BY <2>1, <2>2
<1>3. ASSUME event = ClaudeObservation(input)
      PROVE  \E outcome, error :
               /\ event = HookEvent("claude", input.tool, Result(outcome, error))
               /\ error # Absent <=> outcome = "failure"
               /\ outcome # "unknown"
  BY <1>3, ObservationAssumption DEF ClaudeObservation, Succeeded, ErrorClasses
<1>4. PICK agent, outcome, error :
        /\ agent \in {"codex", "claude"}
        /\ event = HookEvent(agent, input.tool, Result(outcome, error))
        /\ error # Absent <=> outcome = "failure"
        /\ agent = "claude" => outcome # "unknown"
  BY <1>2, <1>3
<1> QED
  BY <1>4 DEF HookEvent, Result, ValidEvidenceShape

(* A strategy is derived for exactly the tools that change a file, and but  *)
(* for write_file the operation of its label is the tool's.                 *)
THEOREM ToolStrategyMatches ==
  \A tool \in Tools :
    LET strategy == ClassifyStrategy(tool)
        operation == ClassifyTool(tool).operation IN
      /\ strategy # Absent <=> operation \in {"apply_patch", "write_file"}
      /\ strategy # Absent /\ tool # "write_file" => PracticeOperation(strategy) = operation
<1> SUFFICES ASSUME NEW tool \in Tools
             PROVE  LET strategy == ClassifyStrategy(tool)
                        operation == ClassifyTool(tool).operation IN
                      /\ strategy # Absent <=> operation \in {"apply_patch", "write_file"}
                      /\ strategy # Absent /\ tool # "write_file"
                           => PracticeOperation(strategy) = operation
  OBVIOUS
<1>1. CASE tool \in {"apply_patch", "Edit", "Write", "NotebookEdit", "write_file"}
  <2>1. Absent # "structured_patch" /\ Absent # "direct_text_mutation"
    BY ObservationAssumption DEF ToolStrategies
  <2>2. CASE tool = "apply_patch"
    <3>1. ClassifyStrategy(tool) = "structured_patch"
      BY <2>2 DEF ClassifyStrategy
    <3>2. ClassifyTool(tool).operation = "apply_patch"
      BY <2>2 DEF ClassifyTool, Class
    <3> QED
      BY <2>1, <3>1, <3>2 DEF PracticeOperation, MutationModes
  <2>3. CASE tool \in {"Edit", "Write", "NotebookEdit"}
    <3>1. ClassifyStrategy(tool) = "direct_text_mutation"
      BY <2>3 DEF ClassifyStrategy
    <3>2. ClassifyTool(tool).operation = "apply_patch"
      BY <2>3 DEF ClassifyTool, Class
    <3> QED
      BY <2>1, <3>1, <3>2 DEF PracticeOperation, MutationModes
  <2>4. CASE tool = "write_file"
    <3>1. ClassifyStrategy(tool) = "direct_text_mutation"
      BY <2>4 DEF ClassifyStrategy
    <3>2. ClassifyTool(tool).operation = "write_file"
      BY <2>4 DEF ClassifyTool, Class
    <3> QED
      BY <2>1, <2>4, <3>1, <3>2
  <2> QED
    BY <1>1, <2>2, <2>3, <2>4
<1>2. CASE tool \notin {"apply_patch", "Edit", "Write", "NotebookEdit", "write_file"}
  <2>1. ClassifyStrategy(tool) = Absent
    BY <1>2 DEF ClassifyStrategy
  <2>2. ClassifyTool(tool).operation \notin {"apply_patch", "write_file"}
    BY <1>2 DEF ClassifyTool, Class
  <2> QED
    BY <2>1, <2>2
<1> QED
  BY <1>1, <1>2

-----------------------------------------------------------------------------
(* The checks do not look at what surrounds a text.                        *)
LEMMA PaddingUnseen ==
  ASSUME NEW text \in Texts, NEW max \in Nat
  PROVE  AdmitText([text EXCEPT !.padding = "none"], max) = AdmitText(text, max)
<1> DEFINE bare == [text EXCEPT !.padding = "none"]
<1>1. /\ bare.words = text.words /\ bare.chars = text.chars /\ bare.control = text.control
      /\ bare.url = text.url /\ bare.secret = text.secret /\ bare.phrase = text.phrase
      /\ bare.solid = text.solid /\ bare.symbols = text.symbols
  BY DEF Texts
<1> HIDE DEF bare
<1>2. Checks(bare, max) = Checks(text, max)
  <2>1. /\ SomeWord(bare, PathLike) = SomeWord(text, PathLike)
        /\ SomeWord(bare, Forbidden) = SomeWord(text, Forbidden)
        /\ SomeWord(bare, Assignment) = SomeWord(text, Assignment)
        /\ SomeWord(bare, Conversational) = SomeWord(text, Conversational)
        /\ SomeWord(bare, Opaque) = SomeWord(text, Opaque)
    BY <1>1 DEF SomeWord
  <2>2. Symbolic(bare) = Symbolic(text)
    BY <1>1 DEF Symbolic
  <2> QED
    BY <1>1, <2>1, <2>2 DEF Checks
<1>3. AdmitText(bare, max) = AdmitText(text, max)
  BY <1>2 DEF AdmitText
<1> QED
  BY <1>3 DEF bare

(* "Deserialization re-validates" (core/experience.rs:29-31): what new      *)
(* stored is accepted when it is read back, unchanged, however often.       *)
THEOREM AdmittedReadsBack ==
  ASSUME NEW text \in Texts, NEW max \in Nat, AdmitText(text, max) = Admitted
  PROVE  /\ BoundedText(text, max) \in Texts
         /\ BoundedText(BoundedText(text, max), max) = BoundedText(text, max)
<1> DEFINE bare == [text EXCEPT !.padding = "none"]
<1>1. BoundedText(text, max) = bare
  BY DEF BoundedText
<1>2. bare \in Texts /\ [bare EXCEPT !.padding = "none"] = bare
  BY DEF Texts
<1>3. AdmitText(bare, max) = Admitted
  BY PaddingUnseen
<1> HIDE DEF bare
<1>4. BoundedText(bare, max) = bare
  BY <1>2, <1>3 DEF BoundedText
<1> QED
  BY <1>1, <1>2, <1>4

-----------------------------------------------------------------------------
(* Numbers. *)

(* Induction up to a bound, on a set instead of a predicate.               *)
LEMMA UpTo ==
  ASSUME NEW m \in Nat, NEW S, 0 \in S, \A i \in 0..(m - 1) : i \in S => i + 1 \in S
  PROVE  0..m \subseteq S
<1> DEFINE T == {i \in Nat : i <= m /\ i \notin S}
<1> SUFFICES ASSUME T # {}
             PROVE  FALSE
  OBVIOUS
<1>1. IsWellFoundedOn(OpToRel(<, Nat), Nat)
  BY NatLessThanWellFounded
<1>2. PICK k \in T : \A j \in T : ~(<<j, k>> \in OpToRel(<, Nat))
  BY <1>1, WFMin
<1>3. k \in Nat /\ k # 0 /\ k <= m /\ k \notin S
  OBVIOUS
<1>4. k - 1 \in Nat /\ k - 1 <= m /\ k - 1 \in 0..(m - 1)
  BY <1>3
<1>5. <<k - 1, k>> \in OpToRel(<, Nat)
  BY <1>3, <1>4 DEF OpToRel
<1>6. k - 1 \in S
  BY <1>2, <1>4, <1>5
<1> QED
  BY <1>3, <1>4, <1>6

(* The least of some numbers, and the greatest of bounded ones.            *)
LEMMA LeastOf ==
  ASSUME NEW S, S \subseteq Nat, S # {}
  PROVE  Min(S) \in S /\ \A x \in S : Min(S) <= x
<1>1. IsWellFoundedOn(OpToRel(<, Nat), Nat)
  BY NatLessThanWellFounded
<1>2. PICK k \in S : \A j \in S : ~(<<j, k>> \in OpToRel(<, Nat))
  BY <1>1, WFMin
<1>3. ASSUME NEW j \in S
      PROVE  k <= j
  <2>1. j \in Nat /\ k \in Nat
    OBVIOUS
  <2>2. SUFFICES ASSUME j < k
                 PROVE  FALSE
    BY <2>1
  <2>3. <<j, k>> \in OpToRel(<, Nat)
    BY <2>1, <2>2 DEF OpToRel
  <2> QED
    BY <1>2, <2>3
<1>4. \E x \in S : \A y \in S : x =< y
  BY <1>3
<1> QED
  BY <1>4 DEF Min

LEMMA GreatestOf ==
  ASSUME NEW S, S \subseteq Nat, S # {}, NEW b \in Nat, \A x \in S : x <= b
  PROVE  Max(S) \in S /\ \A x \in S : Max(S) >= x
<1> DEFINE T == {b - x : x \in S}
<1>1. T \subseteq Nat /\ T # {}
  <2>1. ASSUME NEW x \in S
        PROVE  b - x \in Nat
    <3>1. x \in Nat /\ x <= b
      OBVIOUS
    <3> QED
      BY <3>1
  <2>2. PICK x \in S : TRUE
    OBVIOUS
  <2>3. b - x \in T
    OBVIOUS
  <2> QED
    BY <2>1, <2>3
<1>2. Min(T) \in T /\ \A y \in T : Min(T) <= y
  BY <1>1, LeastOf
<1>3. PICK k \in S : Min(T) = b - k
  BY <1>2
<1>4. \A y \in S : b - y \in T /\ b - k <= b - y
  BY <1>2, <1>3
<1>5. \A y \in S : k >= y
  BY <1>4
<1>6. \E x \in S : \A y \in S : x >= y
  BY <1>5
<1> QED
  BY <1>6 DEF Max

(* Finitely many numbers are bounded.                                      *)
LEMMA Bounded ==
  ASSUME NEW n \in Nat, NEW f \in [1..n -> Nat]
  PROVE  \E b \in Nat : \A i \in 1..n : f[i] <= b
<1> DEFINE S == {m \in 0..n : \E b \in Nat : \A i \in 1..m : f[i] <= b}
<1>1. 0 \in S
  OBVIOUS
<1>2. ASSUME NEW m \in 0..(n - 1), m \in S
      PROVE  m + 1 \in S
  <2>1. PICK b \in Nat : \A i \in 1..m : f[i] <= b
    BY <1>2
  <2>2. f[m + 1] \in Nat /\ m + 1 \in 0..n
    OBVIOUS
  <2>3. b + f[m + 1] \in Nat /\ \A i \in 1..(m + 1) : f[i] <= b + f[m + 1]
    BY <2>1, <2>2
  <2> QED
    BY <2>2, <2>3
<1> HIDE DEF S
<1>3. 0..n \subseteq S
  BY <1>1, <1>2, UpTo
<1>4. n \in 0..n
  OBVIOUS
<1>5. n \in S
  BY <1>3, <1>4
<1> QED
  BY <1>5 DEF S

LEMMA Lesser ==
  ASSUME NEW a \in Nat, NEW b \in Nat
  PROVE  Min({a, b}) = IF a <= b THEN a ELSE b
<1>1. Min({a, b}) \in {a, b} /\ \A x \in {a, b} : Min({a, b}) <= x
  <2> {a, b} \subseteq Nat /\ {a, b} # {}
    OBVIOUS
  <2> QED
    BY LeastOf
<1> QED
  BY <1>1

-----------------------------------------------------------------------------
(* Sequences. *)

(* A function that follows Only through the items.                         *)
Keeps(f, items, some, m) ==
  f = [n \in 0..m |-> IF n = 0 THEN <<>>
                      ELSE IF items[n] \in some THEN Append(f[n - 1], items[n]) ELSE f[n - 1]]

LEMMA KeepsExists ==
  ASSUME NEW items, NEW some, NEW m \in Nat
  PROVE  \E f : Keeps(f, items, some, m)
<1> DEFINE S == {k \in 0..m : \E f : Keeps(f, items, some, k)}
<1>1. 0 \in S
  <2> DEFINE f == [n \in 0..0 |-> <<>>]
  <2>1. Keeps(f, items, some, 0)
    BY DEF Keeps
  <2> QED
    BY <2>1
<1>2. ASSUME NEW i \in 0..(m - 1), i \in S
      PROVE  i + 1 \in S
  <2>1. PICK f : Keeps(f, items, some, i)
    BY <1>2
  <2> DEFINE next == IF items[i + 1] \in some THEN Append(f[i], items[i + 1]) ELSE f[i]
             g == [n \in 0..(i + 1) |-> IF n = i + 1 THEN next ELSE f[n]]
  <2>2. ASSUME NEW n \in 0..(i + 1)
        PROVE  g[n] = IF n = 0 THEN <<>>
                      ELSE IF items[n] \in some THEN Append(g[n - 1], items[n]) ELSE g[n - 1]
    <3>1. \A k \in 0..i : f[k] = IF k = 0 THEN <<>>
                                 ELSE IF items[k] \in some THEN Append(f[k - 1], items[k]) ELSE f[k - 1]
      BY <2>1 DEF Keeps
    <3>2. CASE n = i + 1
      BY <3>2
    <3>3. CASE n # i + 1
      BY <3>1, <3>3
    <3> QED
      BY <3>2, <3>3
  <2>3. g = [n \in 0..(i + 1) |->
               IF n = 0 THEN <<>>
               ELSE IF items[n] \in some THEN Append(g[n - 1], items[n]) ELSE g[n - 1]]
    BY <2>2
  <2>4. Keeps(g, items, some, i + 1)
    BY <2>3 DEF Keeps
  <2> QED
    BY <2>4
<1> HIDE DEF S
<1>3. 0..m \subseteq S
  BY <1>1, <1>2, UpTo
<1> QED
  BY <1>3 DEF S

LEMMA RangeIs ==
  ASSUME NEW T, NEW s \in Seq(T)
  PROVE  /\ Range(s) = {s[i] : i \in 1..Len(s)}
         /\ Range(s) \subseteq T
         /\ DOMAIN s = 1..Len(s)
         /\ Len(s) \in Nat
BY DEF Range

LEMMA IndicesFinite ==
  ASSUME NEW T, NEW s \in Seq(T)
  PROVE  DOMAIN s = 1..Len(s) /\ IsFiniteSet(1..Len(s))
<1> DEFINE n == Len(s)
<1>1. n \in Int /\ DOMAIN s = 1..n
  OBVIOUS
<1> HIDE DEF n
<1>2. IsFiniteSet(1..n)
  BY <1>1, FS_Interval
<1> QED
  BY <1>1, <1>2 DEF n

LEMMA RangeAppended ==
  ASSUME NEW T, NEW s \in Seq(T), NEW x \in T
  PROVE  Range(Append(s, x)) = Range(s) \cup {x}
<1>1. /\ Append(s, x) \in Seq(T)
      /\ Len(Append(s, x)) = Len(s) + 1
      /\ \A i \in 1..(Len(s) + 1) : Append(s, x)[i] = IF i <= Len(s) THEN s[i] ELSE x
  OBVIOUS
<1>2. Len(s) \in Nat
  OBVIOUS
<1>3. Range(Append(s, x)) = {Append(s, x)[i] : i \in 1..(Len(s) + 1)}
  BY <1>1, RangeIs
<1>4. Range(s) = {s[i] : i \in 1..Len(s)}
  BY RangeIs
<1> QED
  BY <1>1, <1>2, <1>3, <1>4

LEMMA RangeJoined ==
  ASSUME NEW T, NEW s \in Seq(T), NEW t \in Seq(T)
  PROVE  Range(s \o t) = Range(s) \cup Range(t)
<1>1. /\ s \o t \in Seq(T)
      /\ Len(s \o t) = Len(s) + Len(t)
      /\ \A i \in 1..(Len(s) + Len(t)) :
           (s \o t)[i] = IF i <= Len(s) THEN s[i] ELSE t[i - Len(s)]
  OBVIOUS
<1>2. Len(s) \in Nat /\ Len(t) \in Nat
  OBVIOUS
<1>3. Range(s \o t) = {(s \o t)[i] : i \in 1..(Len(s) + Len(t))}
  BY <1>1, RangeIs
<1>4. Range(s) = {s[i] : i \in 1..Len(s)} /\ Range(t) = {t[i] : i \in 1..Len(t)}
  BY RangeIs
<1>5. \A i \in 1..Len(t) : (s \o t)[Len(s) + i] = t[i] /\ Len(s) + i \in 1..(Len(s) + Len(t))
  BY <1>1, <1>2
<1>6. \A i \in 1..Len(s) : (s \o t)[i] = s[i] /\ i \in 1..(Len(s) + Len(t))
  BY <1>1, <1>2
<1>7. Range(s) \cup Range(t) \subseteq Range(s \o t)
  BY <1>3, <1>4, <1>5, <1>6
<1>8. ASSUME NEW i \in 1..(Len(s) + Len(t))
      PROVE  (s \o t)[i] \in Range(s) \cup Range(t)
  <2>1. CASE i <= Len(s)
    BY <1>1, <1>2, <1>4, <2>1
  <2>2. CASE i > Len(s)
    <3>1. i - Len(s) \in 1..Len(t) /\ (s \o t)[i] = t[i - Len(s)]
      BY <1>1, <1>2, <2>2
    <3> QED
      BY <1>4, <3>1
  <2> QED
    BY <1>2, <2>1, <2>2
<1> QED
  BY <1>3, <1>7, <1>8

(* What Only returns. *)
LEMMA OnlyItems ==
  ASSUME NEW T, NEW items \in Seq(T), NEW some
  PROVE  /\ Only(items, some) \in Seq(T)
         /\ Range(Only(items, some)) = Range(items) \cap some
<1> DEFINE n == Len(items)
<1>1. n \in Nat /\ \A i \in 1..n : items[i] \in T
  OBVIOUS
<1>2. PICK f : Keeps(f, items, some, n) /\ Only(items, some) = f[n]
  <2>1. \E f : Keeps(f, items, some, n)
    BY <1>1, KeepsExists
  <2> QED
    BY <2>1 DEF Only, Keeps
<1>3. \A k \in 0..n : f[k] = IF k = 0 THEN <<>>
                             ELSE IF items[k] \in some THEN Append(f[k - 1], items[k]) ELSE f[k - 1]
  BY <1>2 DEF Keeps
<1> DEFINE S == {k \in 0..n : f[k] \in Seq(T) /\ Range(f[k]) = {items[i] : i \in 1..k} \cap some}
<1>4. 0 \in S
  <2>1. f[0] = <<>>
    BY <1>1, <1>3
  <2>2. <<>> \in Seq(T) /\ Range(<<>>) = {}
    BY DEF Range
  <2>3. {items[i] : i \in 1..0} = {} /\ 0 \in 0..n
    BY <1>1
  <2> QED
    BY <2>1, <2>2, <2>3
<1>5. ASSUME NEW k \in 0..(n - 1), k \in S
      PROVE  k + 1 \in S
  <2>1. /\ k + 1 \in 1..n /\ k + 1 \in 0..n /\ k \in Nat
        /\ f[k + 1] = IF items[k + 1] \in some THEN Append(f[k], items[k + 1]) ELSE f[k]
    BY <1>1, <1>3
  <2>2. {items[i] : i \in 1..(k + 1)} = {items[i] : i \in 1..k} \cup {items[k + 1]}
    BY <2>1
  <2>3. f[k] \in Seq(T) /\ Range(f[k]) = {items[i] : i \in 1..k} \cap some /\ items[k + 1] \in T
    BY <1>1, <1>5, <2>1
  <2>4. Range(Append(f[k], items[k + 1])) = Range(f[k]) \cup {items[k + 1]}
        /\ Append(f[k], items[k + 1]) \in Seq(T)
    BY <2>3, RangeAppended
  <2> QED
    BY <2>1, <2>2, <2>3, <2>4
<1>6. n \in S
  <2> HIDE DEF S, n
  <2>1. 0..n \subseteq S
    BY <1>1, <1>4, <1>5, UpTo
  <2> QED
    BY <1>1, <2>1
<1> QED
  BY <1>2, <1>6, RangeIs

LEMMA SliceItems ==
  ASSUME NEW T, NEW s \in Seq(T), NEW k \in 0..Len(s)
  PROVE  /\ SubSeq(s, 1, k) \in Seq(T)
         /\ Len(SubSeq(s, 1, k)) = k
         /\ \A i \in 1..k : SubSeq(s, 1, k)[i] = s[i]
         /\ Range(SubSeq(s, 1, k)) \subseteq Range(s)
<1>1. /\ Len(s) \in Nat /\ k \in Nat /\ k <= Len(s)
      /\ SubSeq(s, 1, k) = [i \in 1..k |-> s[i]]
  OBVIOUS
<1>2. \A i \in 1..k : s[i] \in T
  BY <1>1
<1>3. SubSeq(s, 1, k) \in Seq(T) /\ Len(SubSeq(s, 1, k)) = k
  BY <1>1, <1>2
<1>4. /\ Range(SubSeq(s, 1, k)) = {SubSeq(s, 1, k)[i] : i \in 1..k}
      /\ Range(s) = {s[i] : i \in 1..Len(s)}
  BY <1>3, RangeIs
<1>5. \A i \in 1..k : SubSeq(s, 1, k)[i] = s[i] /\ i \in 1..Len(s)
  BY <1>1
<1> QED
  BY <1>1, <1>3, <1>4, <1>5
-----------------------------------------------------------------------------
(* How much what is stored counts. *)

LEMMA CapsuleFields ==
  ASSUME NEW ids, NEW c \in Capsules(ids)
  PROVE  /\ c.id \in ids /\ c.scope \in DOMAIN ScopeWeight /\ c.lesson \in Optional
         /\ c.lifecycle \in DOMAIN LifecycleWeight /\ c.evidence \in Seq(Entries)
         /\ c.last \in Nat /\ c.situation \in BOOLEAN
BY DEF Capsules

LEMMA EnvironmentBound ==
  ASSUME NEW ids, NEW c \in Capsules(ids)
  PROVE  EnvironmentTerm(c) \in 0..4
<1> DEFINE term(entry) == CASE None \in {entry.host, Host} -> 3
                            [] OTHER -> IF entry.host = Host THEN 4 ELSE 1
           terms == {term(c.evidence[i]) : i \in DOMAIN c.evidence}
<1>1. \A e : term(e) \in {1, 3, 4}
  OBVIOUS
<1>2. terms \subseteq {1, 3, 4}
  BY <1>1
<1>3. CASE terms = {}
  <2>1. EnvironmentTerm(c) = 0
    BY <1>3 DEF EnvironmentTerm
  <2> QED
    BY <2>1
<1>4. CASE terms # {}
  <2> HIDE DEF terms
  <2>1. \E t \in terms : \A u \in terms : u <= t
    <3>1. CASE 4 \in terms
      BY <1>2, <3>1
    <3>2. CASE 4 \notin terms /\ 3 \in terms
      BY <1>2, <3>2
    <3>3. CASE 4 \notin terms /\ 3 \notin terms
      <4>1. \A u \in terms : u = 1
        BY <1>2, <3>3
      <4>2. 1 \in terms
        BY <1>4, <4>1
      <4> QED
        BY <4>1, <4>2
    <3> QED
      BY <3>1, <3>2, <3>3
  <2>2. (CHOOSE t \in terms : \A u \in terms : u <= t) \in terms
    BY <2>1
  <2>3. EnvironmentTerm(c) = CHOOSE t \in terms : \A u \in terms : u <= t
    BY <1>4 DEF EnvironmentTerm, terms
  <2>4. EnvironmentTerm(c) \in {1, 3, 4}
    BY <1>2, <2>2, <2>3
  <2> QED
    BY <2>4
<1> QED
  BY <1>3, <1>4

LEMMA ApplicabilityBound ==
  ASSUME NEW ctx, NEW intent, NEW ids, NEW c \in Capsules(ids)
  PROVE  Applicability(ctx, intent, c) \in Nat /\ Applicability(ctx, intent, c) <= 800
<1>1. \A hints, recorded : MatchTerm(hints, recorded) \in 0..4
  BY DEF MatchTerm
<1>2. EnvironmentTerm(c) \in 0..4
  BY EnvironmentBound
<1>3. RiskFactor(ctx, intent, c) \in Nat /\ RiskFactor(ctx, intent, c) <= 20
  BY DEF RiskFactor
<1> DEFINE quarters ==
             14 * 4 + 10 * MatchTerm(ArtifactHints(ctx, intent), c.artifact)
             + 4 * MatchTerm(EcosystemHints(ctx, intent), c.ecosystem)
             + 4 * MatchTerm(ToolHints(ctx, intent), ToolOf(c))
             + 4 * MatchTerm(PhaseHints(ctx, intent), c.phase)
             + 4 * EnvironmentTerm(c)
           risk == RiskFactor(ctx, intent, c)
           product == quarters * risk
<1>4. quarters \in Nat /\ quarters <= 160
  <2>1. /\ MatchTerm(ArtifactHints(ctx, intent), c.artifact) \in 0..4
        /\ MatchTerm(EcosystemHints(ctx, intent), c.ecosystem) \in 0..4
        /\ MatchTerm(ToolHints(ctx, intent), ToolOf(c)) \in 0..4
        /\ MatchTerm(PhaseHints(ctx, intent), c.phase) \in 0..4
    BY <1>1
  <2> QED
    BY <1>2, <2>1
<1>5. Applicability(ctx, intent, c) = product \div 4
  BY DEF Applicability
<1> HIDE DEF quarters, risk
<1>6. risk \in Nat /\ risk <= 20
  BY <1>3 DEF risk
<1>7. product \in Nat /\ product <= 160 * risk
  BY <1>4, <1>6
<1> HIDE DEF product
<1>8. product \in Nat /\ product <= 3200
  BY <1>6, <1>7
<1>9. product \div 4 \in Nat /\ product \div 4 <= 800
  BY <1>8
<1> QED
  BY <1>5, <1>9

(* A share of a number is no more than it. *)
LEMMA Shared ==
  ASSUME NEW n \in Nat, n > 0, NEW x \in Nat, NEW y \in Nat, y <= n
  PROVE  (x * y) \div n \in Nat /\ (x * y) \div n <= x
<1> DEFINE p == x * y
           q == p \div n
<1>1. p \in Nat /\ p <= x * n
  OBVIOUS
<1> HIDE DEF p
<1>2. q \in Nat /\ n * q <= p
  BY <1>1
<1> HIDE DEF q
<1>3. n * q <= n * x
  BY <1>1, <1>2
<1>4. q <= x
  BY <1>2, <1>3
<1> QED
  BY <1>2, <1>4 DEF p, q

(* Halving keeps a bound. *)
Halves(f, part, m) == f = [n \in 0..m |-> IF n = 0 THEN part ELSE f[n - 1] \div 2]

LEMMA HalvesExists ==
  ASSUME NEW part, NEW m \in Nat
  PROVE  \E f : Halves(f, part, m)
<1> DEFINE S == {k \in 0..m : \E f : Halves(f, part, k)}
<1>1. 0 \in S
  <2> DEFINE f == [n \in 0..0 |-> part]
  <2>1. Halves(f, part, 0)
    BY DEF Halves
  <2> QED
    BY <2>1
<1>2. ASSUME NEW i \in 0..(m - 1), i \in S
      PROVE  i + 1 \in S
  <2>1. PICK f : Halves(f, part, i)
    BY <1>2
  <2> DEFINE g == [n \in 0..(i + 1) |-> IF n = i + 1 THEN f[i] \div 2 ELSE f[n]]
  <2>2. ASSUME NEW n \in 0..(i + 1)
        PROVE  g[n] = IF n = 0 THEN part ELSE g[n - 1] \div 2
    <3>1. \A k \in 0..i : f[k] = IF k = 0 THEN part ELSE f[k - 1] \div 2
      BY <2>1 DEF Halves
    <3>2. CASE n = i + 1
      BY <3>2
    <3>3. CASE n # i + 1
      BY <3>1, <3>3
    <3> QED
      BY <3>2, <3>3
  <2>3. g = [n \in 0..(i + 1) |-> IF n = 0 THEN part ELSE g[n - 1] \div 2]
    BY <2>2
  <2>4. Halves(g, part, i + 1)
    BY <2>3 DEF Halves
  <2> QED
    BY <2>4
<1> HIDE DEF S
<1>3. 0..m \subseteq S
  BY <1>1, <1>2, UpTo
<1> QED
  BY <1>3 DEF S

LEMMA HalvesBound ==
  ASSUME NEW part \in Nat, NEW b \in Nat, part <= b, NEW m \in Nat, NEW f, Halves(f, part, m)
  PROVE  f[m] \in Nat /\ f[m] <= b
<1>1. \A n \in 0..m : f[n] = IF n = 0 THEN part ELSE f[n - 1] \div 2
  BY DEF Halves
<1> DEFINE S == {k \in 0..m : f[k] \in Nat /\ f[k] <= b}
<1>2. 0 \in S
  BY <1>1
<1>3. ASSUME NEW k \in 0..(m - 1), k \in S
      PROVE  k + 1 \in S
  <2>1. k + 1 \in 0..m /\ f[k + 1] = f[k] \div 2 /\ f[k] \in Nat /\ f[k] <= b
    BY <1>1, <1>3
  <2>2. \A x \in Nat : x \div 2 \in Nat /\ x \div 2 <= x
    OBVIOUS
  <2> QED
    BY <2>1, <2>2
<1> HIDE DEF S
<1>4. 0..m \subseteq S
  BY <1>2, <1>3, UpTo
<1>5. m \in 0..m
  OBVIOUS
<1>6. m \in S
  BY <1>4, <1>5
<1> QED
  BY <1>6 DEF S

Part(half, rest) == 1000 - (672 * rest) \div half + (172 * rest * rest) \div (half * half)

LEMMA PartBound ==
  ASSUME NEW half \in {60, 120, 180}, NEW rest \in 0..(half - 1)
  PROVE  Part(half, rest) \in Nat /\ Part(half, rest) <= 1000
<1> DEFINE a == (672 * rest) \div half
           b == (172 * rest * rest) \div (half * half)
<1>1. a \in Nat /\ a <= 672
  <2>1. CASE half = 60 BY <2>1
  <2>2. CASE half = 120 BY <2>2
  <2>3. CASE half = 180 BY <2>3
  <2> QED BY <2>1, <2>2, <2>3
<1>2. rest * rest \in Nat /\ rest * rest <= half * rest
  OBVIOUS
<1>3. b \in Nat /\ b <= a
  <2>1. 172 * rest * rest = 172 * (rest * rest)
    OBVIOUS
  <2>2. ASSUME NEW sq \in Nat, sq <= half * rest
        PROVE  (172 * sq) \div (half * half) \in Nat /\ (172 * sq) \div (half * half) <= a
    <3>1. CASE half = 60 BY <2>2, <3>1
    <3>2. CASE half = 120 BY <2>2, <3>2
    <3>3. CASE half = 180 BY <2>2, <3>3
    <3> QED BY <3>1, <3>2, <3>3
  <2> QED
    BY <1>2, <2>1, <2>2
<1> HIDE DEF a, b
<1>4. 1000 - a + b \in Nat /\ 1000 - a + b <= 1000
  BY <1>1, <1>3
<1> QED
  BY <1>4 DEF a, b, Part

LEMMA AgeBound ==
  ASSUME NEW scope \in DOMAIN ScopeWeight, NEW age \in Int
  PROVE  AgeWeight(scope, age) \in Nat /\ AgeWeight(scope, age) <= 1000
<1> DEFINE half == HalfLifeDays[scope]
           past == IF age < 0 THEN 0 ELSE age
           rest == past % half
           part == Part(half, rest)
           m == past \div half
<1>1. half \in {60, 120, 180}
  BY DEF ScopeWeight, HalfLifeDays
<1>2. past \in Nat
  OBVIOUS
<1>3. rest \in 0..(half - 1) /\ m \in Nat
  <2> HIDE DEF half, past
  <2>1. half \in Nat /\ half > 0
    BY <1>1
  <2> QED
    BY <1>2, <2>1
<1>4. part \in Nat /\ part <= 1000
  <2> HIDE DEF half, rest
  <2>1. rest \in 0..(half - 1)
    BY <1>3
  <2> QED
    BY <1>1, <2>1, PartBound
<1> HIDE DEF part, m
<1>5. \E f : Halves(f, part, m)
  BY <1>3, HalvesExists
<1>6. \E f : Halves(f, part, m) /\ AgeWeight(scope, age) = f[m]
  BY <1>5 DEF AgeWeight, Halves, part, m, Part
<1>7. PICK f : Halves(f, part, m) /\ AgeWeight(scope, age) = f[m]
  BY <1>6
<1>8. f[m] \in Nat /\ f[m] <= 1000
  BY <1>3, <1>4, <1>7, HalvesBound
<1> QED
  BY <1>7, <1>8

(* What an observation keeps of its entry, and what it weighs at the most. *)
Weighs(o, entry) ==
  /\ o.weight \in Nat /\ o.weight <= 825
  /\ o.day = entry.day
  /\ o.env = <<entry.tool, entry.major, entry.host>>

(* One observation weighs no more than a success that was fully verified.  *)
LEMMA WeightBound ==
  ASSUME NEW ctx, NEW intent, NEW now \in Nat, NEW ids, NEW c \in Capsules(ids),
         NEW entry \in Entries
  PROVE  Weighs(ObservationOf(ctx, intent, now, c, entry), entry)
<1> DEFINE base == BaseWeight(c.scope, now - entry.day, Applicability(ctx, intent, c),
                              c.lifecycle, MajorCompatibility(ctx, intent, entry))
           o == ObservationOf(ctx, intent, now, c, entry)
           quality == QualityWeight[entry.verification]
<1>1. o = Observation(base, entry)
  BY DEF ObservationOf
<1>2. /\ o.weight = (base * quality) \div 1000 /\ o.day = entry.day
      /\ o.env = <<entry.tool, entry.major, entry.host>>
  BY <1>1 DEF Observation
<1>3. quality \in Nat /\ quality <= 825
  BY DEF Entries, QualityWeight
<1>4. base \in Nat /\ base <= 1000
  <2> DEFINE a == Applicability(ctx, intent, c)
             w == ScopeWeight[c.scope]
             age == AgeWeight(c.scope, now - entry.day)
             l == LifecycleWeight[c.lifecycle]
             v == MajorCompatibility(ctx, intent, entry)
             prior == (w * a) \div 16
             aged == (prior * age) \div 1000
  <2>1. a \in Nat /\ a <= 800
    BY ApplicabilityBound
  <2>2. w \in Nat /\ w <= 20
    BY CapsuleFields DEF ScopeWeight
  <2>3. age \in Nat /\ age <= 1000
    <3>1. entry.day \in Nat
      BY DEF Entries
    <3>2. now - entry.day \in Int
      BY <3>1
    <3>3. c.scope \in DOMAIN ScopeWeight
      BY CapsuleFields
    <3> QED
      BY <3>2, <3>3, AgeBound
  <2>4. l \in Nat /\ l <= 20
    BY CapsuleFields DEF LifecycleWeight
  <2>5. v \in Nat /\ v <= 20
    BY DEF MajorCompatibility
  <2>6. base = (aged * l * v) \div 400
    BY DEF BaseWeight
  <2> HIDE DEF a, w, age, l, v, base
  <2>7. prior \in Nat /\ prior <= 1000
    <3> DEFINE product == w * a
    <3>1. product \in Nat /\ product <= 20 * a
      BY <2>1, <2>2
    <3> HIDE DEF product
    <3>2. product \in Nat /\ product <= 16000
      BY <2>1, <3>1
    <3>3. product \div 16 \in Nat /\ product \div 16 <= 1000
      BY <3>2
    <3> QED
      BY <3>3 DEF product
  <2> HIDE DEF prior
  <2>8. aged \in Nat /\ aged <= 1000
    <3>1. (prior * age) \div 1000 \in Nat /\ (prior * age) \div 1000 <= prior
      BY <2>3, <2>7, Shared
    <3> QED
      BY <2>7, <3>1
  <2> HIDE DEF aged
  <2> DEFINE k == l * v
  <2>9. k \in Nat /\ k <= 20 * v /\ aged * l * v = aged * k
    BY <2>4, <2>5, <2>8
  <2> HIDE DEF k
  <2>10. k \in Nat /\ k <= 400
    BY <2>5, <2>9
  <2>11. (aged * k) \div 400 \in Nat /\ (aged * k) \div 400 <= aged
    BY <2>8, <2>10, Shared
  <2> QED
    BY <2>6, <2>8, <2>9, <2>11
<1> HIDE DEF base, quality
<1>5. (base * quality) \div 1000 \in Nat /\ (base * quality) \div 1000 <= 825
  <2> DEFINE product == base * quality
  <2>1. product \in Nat /\ product <= 1000 * quality
    BY <1>3, <1>4
  <2> HIDE DEF product
  <2>2. product \div 1000 \in Nat /\ product \div 1000 <= quality
    BY <1>3, <2>1
  <2> QED
    BY <1>3, <2>2 DEF product
<1> HIDE DEF o
<1>6. Weighs(o, entry)
  BY <1>2, <1>5 DEF Weighs
<1> QED
  BY <1>6 DEF o

-----------------------------------------------------------------------------
(* The member that stands for a lesson. *)

LEMMA BestOf ==
  ASSUME NEW n \in Nat, NEW f \in [1..n -> Nat], NEW M, M \subseteq 1..n, M # {}
  PROVE  \E i \in M : \A j \in M : f[j] <= f[i]
<1>1. PICK b \in Nat : \A i \in 1..n : f[i] <= b
  BY Bounded
<1> DEFINE V == {f[i] : i \in M}
<1>2. V \subseteq Nat /\ V # {} /\ \A x \in V : x <= b
  <2>1. ASSUME NEW i \in M
        PROVE  f[i] \in Nat /\ f[i] <= b
    BY <1>1
  <2> QED
    BY <2>1
<1>3. Max(V) \in V /\ \A x \in V : Max(V) >= x
  <2> HIDE DEF V
  <2> QED
    BY <1>2, GreatestOf
<1>4. PICK i \in M : f[i] = Max(V)
  BY <1>3
<1>5. ASSUME NEW j \in M
      PROVE  f[j] <= f[i]
  <2>1. f[j] \in V /\ f[j] \in Nat /\ f[i] \in Nat
    OBVIOUS
  <2>2. Max(V) >= f[j]
    BY <1>3, <2>1
  <2> QED
    BY <1>4, <2>2
<1> QED
  BY <1>5

(* The representative is a member that no member outranks.                 *)
LEMMA RepresentativeExists ==
  ASSUME NEW ctx, NEW intent, NEW ids, NEW candidates \in Seq(Capsules(ids)),
         NEW members, members \subseteq DOMAIN candidates, members # {}
  PROVE  LET r == Representative(ctx, intent, candidates, members) IN
           /\ r \in members
           /\ \A j \in members : ~Outranks(ctx, intent, candidates[j], candidates[r])
<1> DEFINE n == Len(candidates)
           text == [i \in 1..n |-> IF candidates[i].lesson # None THEN 1 ELSE 0]
           prior == [i \in 1..n |-> ScopeWeight[candidates[i].scope]
                                      * Applicability(ctx, intent, candidates[i])]
           last == [i \in 1..n |-> candidates[i].last]
           First == {i \in members : \A j \in members : text[j] <= text[i]}
           Second == {i \in First : \A j \in First : prior[j] <= prior[i]}
           Third == {i \in Second : \A j \in Second : last[j] <= last[i]}
           r == Min(Third)
<1>1. n \in Nat /\ DOMAIN candidates = 1..n /\ \A i \in 1..n : candidates[i] \in Capsules(ids)
  OBVIOUS
<1>2. text \in [1..n -> Nat]
  OBVIOUS
<1>3. prior \in [1..n -> Nat]
  <2>1. ASSUME NEW i \in 1..n
        PROVE  ScopeWeight[candidates[i].scope] * Applicability(ctx, intent, candidates[i]) \in Nat
    <3>1. ScopeWeight[candidates[i].scope] \in Nat
      BY <1>1, CapsuleFields DEF ScopeWeight
    <3>2. Applicability(ctx, intent, candidates[i]) \in Nat
      BY <1>1, ApplicabilityBound
    <3> QED
      BY <3>1, <3>2
  <2> QED
    BY <2>1
<1>4. last \in [1..n -> Nat]
  BY <1>1, CapsuleFields
<1>5. \A i, j \in 1..n :
        Outranks(ctx, intent, candidates[i], candidates[j])
          <=> \/ text[i] > text[j]
              \/ text[i] = text[j] /\ prior[i] > prior[j]
              \/ text[i] = text[j] /\ prior[i] = prior[j] /\ last[i] > last[j]
  BY DEF Outranks
<1> HIDE DEF text, prior, last, n
<1>6. First \subseteq members /\ First # {}
  BY <1>1, <1>2, BestOf
<1>7. Second \subseteq First /\ Second # {}
  <2> HIDE DEF First
  <2> QED
    BY <1>1, <1>3, <1>6, BestOf
<1>8. Third \subseteq Second /\ Third # {}
  <2> HIDE DEF First, Second
  <2> QED
    BY <1>1, <1>4, <1>6, <1>7, BestOf
<1>9. r \in Third /\ \A x \in Third : r <= x
  <2> HIDE DEF First, Second, Third
  <2> QED
    BY <1>1, <1>6, <1>7, <1>8, LeastOf
<1> HIDE DEF r
<1>10. r \in members /\ r \in 1..n
  BY <1>1, <1>9
<1>11. ASSUME NEW j \in members
       PROVE  ~Outranks(ctx, intent, candidates[j], candidates[r])
  <2>1. j \in 1..n /\ text[j] \in Nat /\ text[r] \in Nat /\ prior[j] \in Nat /\ prior[r] \in Nat
        /\ last[j] \in Nat /\ last[r] \in Nat
    BY <1>1, <1>2, <1>3, <1>4, <1>10
  <2>2. text[j] <= text[r]
    BY <1>9
  <2>3. text[j] = text[r] => j \in First
    BY <1>9
  <2>4. j \in First => prior[j] <= prior[r]
    BY <1>9
  <2>5. j \in First /\ prior[j] = prior[r] => j \in Second
    BY <1>9
  <2>6. j \in Second => last[j] <= last[r]
    BY <1>9
  <2> QED
    BY <1>5, <1>10, <2>1, <2>2, <2>3, <2>4, <2>5, <2>6
<1>12. ASSUME NEW j \in members, j < r
       PROVE  Outranks(ctx, intent, candidates[r], candidates[j])
  <2>1. j \in 1..n /\ text[j] \in Nat /\ text[r] \in Nat /\ prior[j] \in Nat /\ prior[r] \in Nat
        /\ last[j] \in Nat /\ last[r] \in Nat
    BY <1>1, <1>2, <1>3, <1>4, <1>10
  <2>2. j \notin Third
    BY <1>9, <1>10, <1>12, <2>1
  <2>3. CASE j \notin First
    <3>1. PICK k \in members : ~(text[k] <= text[j])
      BY <2>3
    <3>2. text[k] <= text[r] /\ text[k] \in Nat
      BY <1>1, <1>2, <1>9
    <3>3. text[r] > text[j]
      BY <2>1, <3>1, <3>2
    <3> QED
      BY <1>5, <1>10, <2>1, <3>3
  <2>4. CASE j \in First /\ j \notin Second
    <3>1. PICK k \in First : ~(prior[k] <= prior[j])
      BY <2>4
    <3>2. prior[k] <= prior[r] /\ prior[k] \in Nat
      BY <1>1, <1>3, <1>9
    <3>3. prior[r] > prior[j]
      BY <2>1, <3>1, <3>2
    <3>4. text[r] <= text[j] /\ text[j] <= text[r]
      BY <1>9, <1>10, <2>4
    <3>5. text[r] = text[j]
      BY <2>1, <3>4
    <3> QED
      BY <1>5, <1>10, <2>1, <3>3, <3>5
  <2>5. CASE j \in Second /\ j \notin Third
    <3>1. PICK k \in Second : ~(last[k] <= last[j])
      BY <2>5
    <3>2. last[k] <= last[r] /\ last[k] \in Nat
      BY <1>1, <1>4, <1>9
    <3>3. last[r] > last[j]
      BY <2>1, <3>1, <3>2
    <3>4. text[r] <= text[j] /\ text[j] <= text[r]
      BY <1>9, <1>10, <2>5
    <3>5. prior[r] <= prior[j] /\ prior[j] <= prior[r]
      BY <1>9, <2>5
    <3>6. text[r] = text[j] /\ prior[r] = prior[j]
      BY <2>1, <3>4, <3>5
    <3> QED
      BY <1>5, <1>10, <2>1, <3>3, <3>6
  <2> QED
    BY <2>2, <2>3, <2>4, <2>5
<1> DEFINE Best(i) == \A j \in members :
                        /\ ~Outranks(ctx, intent, candidates[j], candidates[i])
                        /\ j < i => Outranks(ctx, intent, candidates[i], candidates[j])
<1>13. Best(r)
  BY <1>11, <1>12
<1>14. Representative(ctx, intent, candidates, members) = CHOOSE i \in members : Best(i)
  BY DEF Representative
<1> HIDE DEF Best
<1>15. LET c == CHOOSE i \in members : Best(i) IN c \in members /\ Best(c)
  BY <1>10, <1>13
<1> QED
  BY <1>14, <1>15 DEF Best

-----------------------------------------------------------------------------
(* One cluster per identity. *)

Alike(candidates, considered, i) ==
  {j \in considered : Identity(candidates[j]) = Identity(candidates[i])}

LEMMA ConsideredIs ==
  ASSUME NEW ctx, NEW intent, NEW options, NEW ids, NEW candidates \in Seq(Capsules(ids))
  PROVE  LET considered == Considered(ctx, intent, options, candidates) IN
           considered \subseteq DOMAIN candidates /\ IsFiniteSet(considered)
<1> DEFINE considered == Considered(ctx, intent, options, candidates)
<1>1. considered \subseteq 1..Len(candidates) /\ DOMAIN candidates = 1..Len(candidates)
  BY DEF Considered
<1>2. IsFiniteSet(1..Len(candidates))
  BY IndicesFinite
<1> QED
  BY <1>1, <1>2, FS_Subset

(* A cluster stands for the considered candidates of one identity.         *)
LEMMA ClusterIs ==
  ASSUME NEW ctx, NEW intent, NEW now, NEW ids, NEW candidates \in Seq(Capsules(ids)),
         NEW considered, considered \subseteq DOMAIN candidates, NEW i \in considered
  PROVE  LET members == Alike(candidates, considered, i)
             cluster == Cluster(ctx, intent, now, candidates, members)
         IN /\ cluster.identity = Identity(candidates[i])
            /\ \E j \in members : cluster.scope = candidates[j].scope
            /\ (\E j \in members : candidates[j].lesson # None) => cluster.text
            /\ cluster.failing <=>
                 \E j \in members : \/ Count(candidates[j], "failure") > 0
                                    \/ candidates[j].lifecycle = "challenged"
            /\ cluster.strength
                 = Strength(ObservationsOf(ctx, intent, now, candidates, members))
<1> DEFINE members == Alike(candidates, considered, i)
           cluster == Cluster(ctx, intent, now, candidates, members)
           r == Representative(ctx, intent, candidates, members)
<1>1. i \in members /\ members \subseteq considered /\ members \subseteq DOMAIN candidates
  BY DEF Alike
<1>2. r \in members /\ \A j \in members : ~Outranks(ctx, intent, candidates[j], candidates[r])
  <2> HIDE DEF members
  <2> QED
    BY <1>1, RepresentativeExists
<1>3. Identity(candidates[r]) = Identity(candidates[i])
  BY <1>2 DEF Alike
<1> HIDE DEF members, r
<1>4. /\ cluster.identity = Identity(candidates[r])
      /\ cluster.scope = candidates[r].scope
      /\ cluster.text = (candidates[r].lesson # None)
      /\ cluster.failing = \E j \in members : \/ Count(candidates[j], "failure") > 0
                                              \/ candidates[j].lifecycle = "challenged"
      /\ cluster.strength = Strength(ObservationsOf(ctx, intent, now, candidates, members))
  BY DEF Cluster, r
<1> HIDE DEF cluster
<1>5. ASSUME NEW j \in members, candidates[j].lesson # None
      PROVE  cluster.text
  <2>1. ~Outranks(ctx, intent, candidates[j], candidates[r])
    BY <1>2
  <2>2. CASE candidates[r].lesson = None
    BY <1>5, <2>1, <2>2 DEF Outranks
  <2> QED
    BY <1>4, <2>2
<1>6. /\ cluster.identity = Identity(candidates[i])
      /\ \E j \in members : cluster.scope = candidates[j].scope
      /\ (\E j \in members : candidates[j].lesson # None) => cluster.text
      /\ cluster.failing <=>
           \E j \in members : \/ Count(candidates[j], "failure") > 0
                              \/ candidates[j].lifecycle = "challenged"
      /\ cluster.strength
           = Strength(ObservationsOf(ctx, intent, now, candidates, members))
  BY <1>2, <1>3, <1>4, <1>5
<1> QED
  BY <1>6 DEF cluster, members

LEMMA ClustersAre ==
  ASSUME NEW ctx, NEW intent, NEW options, NEW now, NEW candidates
  PROVE  LET considered == Considered(ctx, intent, options, candidates) IN
           Clusters(ctx, intent, options, now, candidates)
             = {Cluster(ctx, intent, now, candidates, Alike(candidates, considered, i)) :
                  i \in considered}
BY DEF Clusters, Alike

LEMMA ClustersFinite ==
  ASSUME NEW ctx, NEW intent, NEW options, NEW now, NEW ids,
         NEW candidates \in Seq(Capsules(ids))
  PROVE  IsFiniteSet(Clusters(ctx, intent, options, now, candidates))
<1> DEFINE considered == Considered(ctx, intent, options, candidates)
           C == Clusters(ctx, intent, options, now, candidates)
           f == [i \in considered |->
                   Cluster(ctx, intent, now, candidates, Alike(candidates, considered, i))]
<1>1. IsFiniteSet(considered)
  BY ConsideredIs
<1>2. C = {Cluster(ctx, intent, now, candidates, Alike(candidates, considered, i)) :
             i \in considered}
  BY ClustersAre
<1>3. f \in Surjection(considered, C)
  <2> HIDE DEF considered, C
  <2>1. f \in [considered -> C] /\ \A x \in C : \E i \in considered : f[i] = x
    BY <1>2
  <2> HIDE DEF f
  <2> QED
    BY <2>1 DEF Surjection
<1> QED
  <2> HIDE DEF considered, C, f
  <2>1. IsFiniteSet(C)
    BY <1>1, <1>3, FS_Surjection
  <2> QED
    BY <2>1 DEF C

LEMMA ClusterIdentity ==
  ASSUME NEW ctx, NEW intent, NEW now, NEW ids, NEW candidates \in Seq(Capsules(ids)),
         NEW considered, considered \subseteq DOMAIN candidates, NEW i \in considered
  PROVE  Cluster(ctx, intent, now, candidates, Alike(candidates, considered, i)).identity
           = Identity(candidates[i])
<1> DEFINE members == Alike(candidates, considered, i)
           r == Representative(ctx, intent, candidates, members)
           x == Cluster(ctx, intent, now, candidates, members)
<1>1. i \in members /\ members \subseteq DOMAIN candidates
  BY DEF Alike
<1>2. r \in members
  <2> HIDE DEF members
  <2> QED
    BY <1>1, RepresentativeExists
<1>3. Identity(candidates[r]) = Identity(candidates[i])
  BY <1>2 DEF Alike
<1>4. x.identity = Identity(candidates[r])
  BY DEF Cluster
<1> QED
  BY <1>3, <1>4

(* Two clusters never share an identity.                                   *)
LEMMA OneEach ==
  ASSUME NEW ctx, NEW intent, NEW options, NEW now, NEW ids,
         NEW candidates \in Seq(Capsules(ids)),
         NEW x \in Clusters(ctx, intent, options, now, candidates),
         NEW y \in Clusters(ctx, intent, options, now, candidates), x.identity = y.identity
  PROVE  x = y
<1> DEFINE considered == Considered(ctx, intent, options, candidates)
           cluster(i) == Cluster(ctx, intent, now, candidates, Alike(candidates, considered, i))
<1>1. considered \subseteq DOMAIN candidates
  BY ConsideredIs
<1>2. PICK i \in considered : x = cluster(i)
  BY ClustersAre
<1>3. PICK j \in considered : y = cluster(j)
  BY ClustersAre
<1>4. ASSUME NEW k \in considered
      PROVE  cluster(k).identity = Identity(candidates[k])
  BY <1>1, ClusterIdentity
<1> HIDE DEF cluster
<1>5. Identity(candidates[i]) = Identity(candidates[j])
  BY <1>2, <1>3, <1>4
<1>6. Alike(candidates, considered, i) = Alike(candidates, considered, j)
  BY <1>5 DEF Alike
<1> QED
  BY <1>2, <1>3, <1>6 DEF cluster

(* Every considered candidate is part of a cluster.                        *)
LEMMA Clustered ==
  ASSUME NEW ctx, NEW intent, NEW options, NEW now, NEW ids,
         NEW candidates \in Seq(Capsules(ids)),
         NEW j \in Considered(ctx, intent, options, candidates)
  PROVE  \E x \in Clusters(ctx, intent, options, now, candidates) :
           /\ x.identity = Identity(candidates[j])
           /\ candidates[j].lesson # None => x.text
           /\ Count(candidates[j], "failure") > 0 \/ candidates[j].lifecycle = "challenged"
                => x.failing
<1> DEFINE considered == Considered(ctx, intent, options, candidates)
           x == Cluster(ctx, intent, now, candidates, Alike(candidates, considered, j))
<1>1. considered \subseteq DOMAIN candidates /\ j \in considered
  BY ConsideredIs
<1>2. x \in Clusters(ctx, intent, options, now, candidates)
  BY ClustersAre
<1>3. j \in Alike(candidates, considered, j)
  BY DEF Alike
<1> HIDE DEF considered
<1>4. /\ x.identity = Identity(candidates[j])
      /\ (\E k \in Alike(candidates, considered, j) : candidates[k].lesson # None) => x.text
      /\ x.failing <=>
           \E k \in Alike(candidates, considered, j) : \/ Count(candidates[k], "failure") > 0
                                                       \/ candidates[k].lifecycle = "challenged"
  BY <1>1, ClusterIs
<1> HIDE DEF x
<1> QED
  BY <1>2, <1>3, <1>4

-----------------------------------------------------------------------------
(* From an order to an answer. *)

LEMMA OrderIs ==
  ASSUME NEW C, IsFiniteSet(C), NEW order \in Orders(C)
  PROVE  /\ order \in Seq(C)
         /\ Len(order) = Cardinality(C)
         /\ Range(order) = C
         /\ \A i, j \in DOMAIN order : order[i] = order[j] => i = j
<1> DEFINE n == Cardinality(C)
<1>1. n \in Nat /\ IsFiniteSet(1..n) /\ Cardinality(1..n) = n
  <2>1. n \in Nat
    BY FS_CardinalityType
  <2> HIDE DEF n
  <2>2. IsFiniteSet(1..n) /\ Cardinality(1..n) = IF 1 > n THEN 0 ELSE n - 1 + 1
    BY <2>1, FS_Interval
  <2> QED
    BY <2>1, <2>2
<1>2. order \in [1..n -> C] /\ \A i, j \in 1..n : i # j => order[i] # order[j]
  BY DEF Orders, SetToSeqs
<1> HIDE DEF n
<1>3. order \in Injection(1..n, C)
  BY <1>2 DEF Injection, IsInjective
<1>4. Cardinality(1..n) = n /\ n = Cardinality(C)
  BY <1>1 DEF n
<1>5. order \in Surjection(1..n, C)
  BY <1>3, <1>4, FS_Injection
<1>6. order \in Seq(C) /\ Len(order) = n
  BY <1>1, <1>2
<1>7. Range(order) = C
  BY <1>2, <1>5 DEF Surjection, Range
<1> QED
  BY <1>2, <1>4, <1>6, <1>7

(* Reserve only swaps: with the best failing one in front.                 *)
FailingIn(order) == {i \in DOMAIN order : order[i].failing}

Exchanged(order, swapped, best) ==
  \A i \in DOMAIN order :
    swapped[i] = IF i = best THEN order[1] ELSE IF i = 1 THEN order[best] ELSE order[i]

LEMMA ReserveIs ==
  ASSUME NEW C, NEW order \in Seq(C), NEW reserve
  PROVE  /\ Reserve(reserve, order) \in Seq(C)
         /\ Len(Reserve(reserve, order)) = Len(order)
         /\ ~reserve \/ FailingIn(order) = {} => Reserve(reserve, order) = order
         /\ reserve /\ FailingIn(order) # {} =>
              /\ Min(FailingIn(order)) \in FailingIn(order)
              /\ Exchanged(order, Reserve(reserve, order), Min(FailingIn(order)))
<1> DEFINE n == Len(order)
           failing == FailingIn(order)
           best == Min(failing)
           swapped == Reserve(reserve, order)
           exchanged == [order EXCEPT ![1] = order[best], ![best] = order[1]]
<1>1. n \in Nat /\ DOMAIN order = 1..n /\ failing \subseteq Nat /\ order \in [1..n -> C]
  BY DEF FailingIn
<1>2. swapped = IF ~reserve \/ failing = {} THEN order ELSE exchanged
  BY DEF Reserve, FailingIn
<1>3. CASE ~reserve \/ failing = {}
  BY <1>2, <1>3
<1>4. CASE reserve /\ failing # {}
  <2>1. best \in failing
    <3> HIDE DEF failing
    <3> QED
      BY <1>1, <1>4, LeastOf
  <2>2. best \in 1..n /\ 1 \in 1..n
    BY <1>1, <2>1 DEF FailingIn
  <2> HIDE DEF best, n
  <2>3. /\ exchanged \in [1..n -> C]
        /\ \A i \in 1..n : exchanged[i] = IF i = best THEN order[1]
                                          ELSE IF i = 1 THEN order[best] ELSE order[i]
    BY <1>1, <2>2
  <2> HIDE DEF exchanged
  <2>4. exchanged \in Seq(C) /\ Len(exchanged) = n
    BY <1>1, <2>3
  <2>5. swapped = exchanged
    BY <1>2, <1>4
  <2> HIDE DEF swapped, failing
  <2>6. /\ swapped \in Seq(C) /\ Len(swapped) = n
        /\ best \in failing
        /\ Exchanged(order, swapped, best)
    BY <1>1, <2>1, <2>3, <2>4, <2>5 DEF Exchanged
  <2> QED
    BY <1>4, <2>6 DEF swapped, failing, best, n
<1> QED
  BY <1>3, <1>4

LEMMA Sliced ==
  ASSUME NEW C, NEW s \in Seq(C), NEW m \in 0..Len(s), NEW k \in 0..m
  PROVE  SubSeq(SubSeq(s, 1, m), 1, k) = SubSeq(s, 1, k)
<1> DEFINE t == SubSeq(s, 1, m)
<1>1. /\ t \in Seq(C) /\ Len(t) = m /\ \A i \in 1..m : t[i] = s[i]
  BY SliceItems
<1> HIDE DEF t
<1>2. k \in 0..Len(t) /\ k \in 0..Len(s) /\ k \in Nat
  BY <1>1
<1>3. /\ SubSeq(t, 1, k) \in Seq(C) /\ Len(SubSeq(t, 1, k)) = k
      /\ \A i \in 1..k : SubSeq(t, 1, k)[i] = t[i]
  BY <1>1, <1>2, SliceItems
<1>4. /\ SubSeq(s, 1, k) \in Seq(C) /\ Len(SubSeq(s, 1, k)) = k
      /\ \A i \in 1..k : SubSeq(s, 1, k)[i] = s[i]
  BY <1>2, SliceItems
<1>5. \A i \in 1..k : SubSeq(t, 1, k)[i] = SubSeq(s, 1, k)[i]
  BY <1>1, <1>2, <1>3, <1>4
<1>6. SubSeq(t, 1, k) = SubSeq(s, 1, k)
  <2> DEFINE a == SubSeq(t, 1, k)
             b == SubSeq(s, 1, k)
  <2> HIDE DEF a, b
  <2>1. a \in Seq(C) /\ b \in Seq(C) /\ Len(a) = Len(b) /\ \A i \in 1..Len(a) : a[i] = b[i]
    BY <1>3, <1>4, <1>5 DEF a, b
  <2>2. a = b
    BY <2>1, SeqEqual
  <2> QED
    BY <2>2 DEF a, b
<1> QED
  BY <1>6 DEF t

(* What the limit and the budget leave is the front of the order, and what *)
(* they leave out is counted.                                              *)
Fits(found, k, order, limit, telemetry, budget) ==
  /\ found.items = SubSeq(order, 1, k)
  /\ found.omitted = Len(order) - k
  /\ k <= limit
  /\ k # 0 => Settled(found.items, found.omitted, telemetry) <= budget

LEMMA BudgetedIs ==
  ASSUME NEW C, NEW order \in Seq(C), NEW limit \in Nat, NEW telemetry, NEW budget
  PROVE  \E k \in 0..Len(order) :
           Fits(Budgeted(Limited(order, limit), telemetry, budget), k, order, limit, telemetry,
                budget)
<1> DEFINE n == Len(order)
           m == IF limit <= n THEN limit ELSE n
           answer == Limited(order, limit)
           cut(k) == [items |-> Kept(answer.items, k),
                      omitted |-> answer.omitted + Len(answer.items) - k]
           fits == {k \in DOMAIN answer.items :
                      Settled(cut(k).items, cut(k).omitted, telemetry) <= budget}
           k0 == IF fits = {} THEN 0 ELSE Max(fits)
<1>1. n \in Nat /\ m \in 0..n /\ m \in Nat /\ m <= limit /\ Min({limit, n}) = m
  BY Lesser
<1>2. answer.items = SubSeq(order, 1, m) /\ answer.omitted = n - m
  <2>1. answer.items = SubSeq(order, 1, Min({limit, n}))
    BY DEF Limited
  <2>2. answer.omitted = IF n > limit THEN n - limit ELSE 0
    BY DEF Limited
  <2>3. (IF n > limit THEN n - limit ELSE 0) = n - m
    <3> HIDE DEF n
    <3>1. CASE limit <= n
      BY <1>1, <3>1
    <3>2. CASE ~(limit <= n)
      BY <1>1, <3>2
    <3> QED
      BY <3>1, <3>2
  <2> QED
    BY <1>1, <2>1, <2>2, <2>3
<1> HIDE DEF m, answer, n
<1>3. /\ answer.items \in Seq(C) /\ Len(answer.items) = m
  <2>1. m \in 0..Len(order)
    BY <1>1 DEF n
  <2> QED
    BY <1>2, <2>1, SliceItems
<1>4. ASSUME NEW k \in 0..m
      PROVE  cut(k) = [items |-> SubSeq(order, 1, k), omitted |-> n - k]
  <2>1. SubSeq(SubSeq(order, 1, m), 1, k) = SubSeq(order, 1, k)
    <3>1. m \in 0..Len(order)
      BY <1>1 DEF n
    <3> QED
      BY <3>1, Sliced
  <2>2. Kept(answer.items, k) = SubSeq(order, 1, k)
    BY <1>2, <2>1 DEF Kept
  <2>3. answer.omitted + Len(answer.items) - k = n - k
    BY <1>1, <1>2, <1>3
  <2> QED
    BY <2>2, <2>3
<1>5. fits \subseteq 1..m
  BY <1>3
<1>6. k0 \in 0..m /\ (k0 # 0 => k0 \in fits)
  <2>1. CASE fits = {}
    BY <1>1, <2>1
  <2>2. CASE fits # {}
    <3> HIDE DEF fits
    <3>1. Max(fits) \in fits
      <4>1. fits \subseteq Nat /\ \A x \in fits : x <= m
        BY <1>1, <1>5
      <4> QED
        BY <1>1, <2>2, <4>1, GreatestOf
    <3>2. k0 = Max(fits)
      BY <2>2
    <3>3. k0 \in fits /\ k0 \in 1..m
      BY <1>5, <3>1, <3>2
    <3> HIDE DEF k0
    <3> QED
      BY <1>1, <3>3
  <2> QED
    BY <2>1, <2>2
<1>7. Budgeted(answer, telemetry, budget) = cut(k0)
  BY DEF Budgeted
<1>8. k0 # 0 => Settled(cut(k0).items, cut(k0).omitted, telemetry) <= budget
  BY <1>6
<1> HIDE DEF k0, cut, fits
<1>9. /\ k0 \in 0..n /\ k0 <= limit
      /\ cut(k0).items = SubSeq(order, 1, k0)
      /\ cut(k0).omitted = n - k0
  <2>1. cut(k0) = [items |-> SubSeq(order, 1, k0), omitted |-> n - k0]
    BY <1>4, <1>6
  <2> QED
    BY <1>1, <1>6, <2>1
<1> QED
  BY <1>7, <1>8, <1>9 DEF n, answer, Fits

(* A brief shows only what it was given. *)
LEMMA RenderedIs ==
  ASSUME NEW C, NEW answer, answer.items \in Seq(C), NEW budget
  PROVE  /\ Rendered(answer, budget).items \in Seq(C)
         /\ Range(Rendered(answer, budget).items) \subseteq Range(answer.items)
<1> DEFINE notes == Only(answer.items, {item \in Range(answer.items) : item.complete})
           cut(k) == [items |-> SubSeq(notes, 1, k), omitted |-> answer.omitted + Len(notes) - k]
           fits == {k \in DOMAIN notes :
                      (TextBytes(cut(k).items, cut(k).omitted) + 4) \div 4 <= budget}
<1>1. notes \in Seq(C) /\ Range(notes) \subseteq Range(answer.items)
  BY OnlyItems
<1>2. Rendered(answer, budget) = IF fits = {} THEN EmptyBrief ELSE cut(Max(fits))
  BY DEF Rendered
<1> HIDE DEF notes
<1>3. CASE fits = {}
  <2>1. Rendered(answer, budget).items = <<>>
    BY <1>2, <1>3 DEF EmptyBrief
  <2>2. Range(<<>>) = {}
    BY DEF Range
  <2> QED
    BY <2>1, <2>2
<1>4. CASE fits # {}
  <2> DEFINE k == Max(fits)
  <2>1. k \in 1..Len(notes)
    <3>1. fits \subseteq 1..Len(notes) /\ Len(notes) \in Nat
      BY <1>1
    <3> HIDE DEF fits
    <3>2. fits \subseteq Nat /\ \A x \in fits : x <= Len(notes)
      BY <3>1
    <3> QED
      BY <1>4, <3>1, <3>2, GreatestOf
  <2>2. Rendered(answer, budget).items = SubSeq(notes, 1, k)
    <3>1. Rendered(answer, budget) = cut(k)
      BY <1>2, <1>4
    <3> HIDE DEF k
    <3>2. cut(k).items = SubSeq(notes, 1, k)
      OBVIOUS
    <3> QED
      BY <3>1, <3>2
  <2> HIDE DEF k
  <2>3. k \in 0..Len(notes)
    BY <1>1, <2>1
  <2>4. SubSeq(notes, 1, k) \in Seq(C) /\ Range(SubSeq(notes, 1, k)) \subseteq Range(notes)
    BY <1>1, <2>3, SliceItems
  <2> QED
    BY <1>1, <2>2, <2>4
<1> QED
  BY <1>3, <1>4

LEMMA SelectedIs ==
  ASSUME NEW C, NEW items \in Seq(C)
  PROVE  Selected(items) \in Seq(C) /\ Range(Selected(items)) \subseteq Range(items)
<1> DEFINE eligible == Eligible(items)
           ours == {item \in Range(eligible) : item.scope = "project"}
           first == Only(eligible, ours)
           rest == Only(eligible, Range(eligible) \ ours)
           sorted == first \o rest
           k == Min({BriefItems, Len(sorted)})
<1>1. eligible \in Seq(C) /\ Range(eligible) \subseteq Range(items)
  BY OnlyItems DEF Eligible
<1> HIDE DEF eligible
<1>2. first \in Seq(C) /\ Range(first) \subseteq Range(eligible)
  BY <1>1, OnlyItems
<1>3. rest \in Seq(C) /\ Range(rest) \subseteq Range(eligible)
  BY <1>1, OnlyItems
<1>4. ProjectFirst(eligible) = sorted
  BY DEF ProjectFirst
<1> HIDE DEF first, rest, ours
<1>5. sorted \in Seq(C) /\ Range(sorted) \subseteq Range(items)
  BY <1>1, <1>2, <1>3, RangeJoined
<1>6. Selected(items) = SubSeq(sorted, 1, k)
  BY <1>4 DEF Selected, eligible
<1> HIDE DEF sorted
<1>7. k \in 0..Len(sorted)
  <2>1. Len(sorted) \in Nat
    BY <1>5
  <2> QED
    BY <2>1, Lesser DEF BriefItems
<1> HIDE DEF k
<1>8. SubSeq(sorted, 1, k) \in Seq(C) /\ Range(SubSeq(sorted, 1, k)) \subseteq Range(sorted)
  BY <1>5, <1>7, SliceItems
<1> QED
  BY <1>5, <1>6, <1>8

(* What a caller is shown was found. *)
LEMMA DeliveredIs ==
  ASSUME NEW C, NEW found, found.items \in Seq(C), NEW request, request.mode \in Modes
  PROVE  /\ Delivered(request, found).items \in Seq(C)
         /\ Range(Delivered(request, found).items) \subseteq Range(found.items)
         /\ request.mode = "recall" => /\ Delivered(request, found).items = found.items
                                       /\ Delivered(request, found).omitted = found.omitted
<1> DEFINE shown == Delivered(request, found)
<1>1. CASE request.mode = "recall"
  <2>1. shown = Answer(IF found.items = <<>> THEN "no_matches" ELSE "matches", found)
    BY <1>1 DEF Delivered, Preflights
  <2>2. shown.items = found.items /\ shown.omitted = found.omitted
    BY <2>1 DEF Answer
  <2> QED
    BY <2>2
<1>2. CASE request.mode = "brief"
  <2> DEFINE brief == Rendered(found, BriefBudget(request))
  <2>1. shown = IF brief.items = <<>> THEN Quiet ELSE Answer("brief", brief)
    BY <1>2 DEF Delivered, Preflights
  <2>2. brief.items \in Seq(C) /\ Range(brief.items) \subseteq Range(found.items)
    BY RenderedIs
  <2> HIDE DEF brief
  <2>3. Quiet.items = <<>> /\ Answer("brief", brief).items = brief.items
    BY DEF Quiet, Answer, EmptyBrief
  <2>4. shown.items \in {<<>>, brief.items}
    BY <2>1, <2>3
  <2>5. <<>> \in Seq(C) /\ Range(<<>>) = {}
    BY DEF Range
  <2> QED
    BY <1>2, <2>2, <2>4, <2>5
<1>3. CASE request.mode \in Preflights
  <2> DEFINE selected == Selected(found.items)
             given == [items |-> selected, omitted |-> 0]
             brief == Rendered(given, BriefBudget(request))
  <2>1. shown = Answer("brief", brief)
    BY <1>3 DEF Delivered, Preflights
  <2>2. selected \in Seq(C) /\ Range(selected) \subseteq Range(found.items)
    BY SelectedIs
  <2> HIDE DEF selected
  <2>3. given.items = selected
    OBVIOUS
  <2> HIDE DEF given
  <2>4. brief.items \in Seq(C) /\ Range(brief.items) \subseteq Range(given.items)
    BY <2>2, <2>3, RenderedIs
  <2> HIDE DEF brief
  <2>5. shown.items = brief.items
    BY <2>1 DEF Answer
  <2> QED
    BY <1>3, <2>2, <2>3, <2>4, <2>5 DEF Preflights
<1> QED
  BY <1>1, <1>2, <1>3 DEF Modes, Preflights

-----------------------------------------------------------------------------
(* What independent reports can weigh. *)

Chosen(s) == CHOOSE c \in s : TRUE

(* A function that adds up the caps of a set of cohorts, chosen one by one. *)
Sums(f, o, sets) ==
  f = [s \in sets |-> IF s = {} THEN 0 ELSE Cap(o, Chosen(s)) + f[s \ {Chosen(s)}]]

Smaller(S, k) == {s \in SUBSET S : Cardinality(s) <= k}

LEMMA WithoutOne ==
  ASSUME NEW S, IsFiniteSet(S), NEW s \in SUBSET S
  PROVE  /\ IsFiniteSet(s) /\ Cardinality(s) \in Nat /\ Cardinality(s) <= Cardinality(S)
         /\ Cardinality(s) = 0 <=> s = {}
         /\ s # {} => /\ Chosen(s) \in s
                      /\ s \ {Chosen(s)} \in SUBSET S
                      /\ Cardinality(s \ {Chosen(s)}) = Cardinality(s) - 1
<1>1. IsFiniteSet(s) /\ Cardinality(s) <= Cardinality(S)
  BY FS_Subset
<1>2. Cardinality(s) \in Nat /\ (Cardinality(s) = 0 <=> s = {})
  BY <1>1, FS_CardinalityType, FS_EmptySet
<1>3. s # {} => Chosen(s) \in s
  BY DEF Chosen
<1>4. s # {} => Cardinality(s \ {Chosen(s)}) = Cardinality(s) - 1
  BY <1>1, <1>3, FS_RemoveElement
<1> QED
  BY <1>1, <1>2, <1>3, <1>4

LEMMA OnlyEmpty ==
  ASSUME NEW S, IsFiniteSet(S), NEW s \in Smaller(S, 0)
  PROVE  s = {} /\ Cardinality(s) = 0
<1>1. s \in SUBSET S /\ Cardinality(s) <= 0
  BY DEF Smaller
<1>2. Cardinality(s) \in Nat /\ (Cardinality(s) = 0 <=> s = {})
  BY <1>1, WithoutOne
<1> QED
  BY <1>1, <1>2

LEMMA SumsExist ==
  ASSUME NEW o, NEW S, IsFiniteSet(S)
  PROVE  \E f : Sums(f, o, SUBSET S)
<1> DEFINE n == Cardinality(S)
           K == {k \in 0..n : \E f : Sums(f, o, Smaller(S, k))}
<1>1. n \in Nat
  BY FS_CardinalityType
<1>2. 0 \in K
  <2> DEFINE f == [s \in Smaller(S, 0) |-> 0]
  <2>1. \A s \in Smaller(S, 0) : s = {}
    BY OnlyEmpty
  <2>2. f = [s \in Smaller(S, 0) |->
               IF s = {} THEN 0 ELSE Cap(o, Chosen(s)) + f[s \ {Chosen(s)}]]
    BY <2>1
  <2>3. Sums(f, o, Smaller(S, 0))
    BY <2>2 DEF Sums
  <2> QED
    BY <1>1, <2>3
<1>3. ASSUME NEW k \in 0..(n - 1), k \in K
      PROVE  k + 1 \in K
  <2>1. PICK f : Sums(f, o, Smaller(S, k))
    BY <1>3
  <2> DEFINE g == [s \in Smaller(S, k + 1) |->
                     IF s = {} THEN 0 ELSE Cap(o, Chosen(s)) + f[s \ {Chosen(s)}]]
  <2>2. k \in Nat /\ k + 1 \in 0..n
    BY <1>1
  <2>3. ASSUME NEW s \in Smaller(S, k + 1), s # {}
        PROVE  s \ {Chosen(s)} \in Smaller(S, k)
    <3>1. /\ s \in SUBSET S /\ Cardinality(s) \in Nat /\ Cardinality(s) <= k + 1
          /\ s \ {Chosen(s)} \in SUBSET S
          /\ Cardinality(s \ {Chosen(s)}) = Cardinality(s) - 1
      BY <2>3, WithoutOne DEF Smaller
    <3>2. Cardinality(s) - 1 <= k
      BY <2>2, <3>1
    <3> QED
      BY <3>1, <3>2 DEF Smaller
  <2>4. \A s \in Smaller(S, k) :
          f[s] = IF s = {} THEN 0 ELSE Cap(o, Chosen(s)) + f[s \ {Chosen(s)}]
    BY <2>1 DEF Sums
  <2>5. ASSUME NEW s \in Smaller(S, k)
        PROVE  s \in Smaller(S, k + 1) /\ g[s] = f[s]
    <3>1. s \in Smaller(S, k + 1)
      <4>1. s \in SUBSET S /\ Cardinality(s) <= k /\ Cardinality(s) \in Nat
        BY WithoutOne DEF Smaller
      <4>2. Cardinality(s) <= k + 1
        BY <2>2, <4>1
      <4> QED
        BY <4>1, <4>2 DEF Smaller
    <3> QED
      BY <2>4, <3>1
  <2>6. ASSUME NEW s \in Smaller(S, k + 1)
        PROVE  g[s] = IF s = {} THEN 0 ELSE Cap(o, Chosen(s)) + g[s \ {Chosen(s)}]
    <3>1. CASE s = {}
      BY <3>1
    <3>2. CASE s # {}
      <4>1. g[s \ {Chosen(s)}] = f[s \ {Chosen(s)}]
        BY <2>3, <2>5, <3>2
      <4> QED
        BY <3>2, <4>1
    <3> QED
      BY <3>1, <3>2
  <2>7. g = [s \in Smaller(S, k + 1) |->
               IF s = {} THEN 0 ELSE Cap(o, Chosen(s)) + g[s \ {Chosen(s)}]]
    BY <2>6
  <2>8. Sums(g, o, Smaller(S, k + 1))
    BY <2>7 DEF Sums
  <2> QED
    BY <2>2, <2>8
<1>4. n \in K
  <2> HIDE DEF n, K
  <2>1. 0..n \subseteq K
    BY <1>1, <1>2, <1>3, UpTo
  <2> QED
    BY <1>1, <2>1
<1>5. Smaller(S, n) = SUBSET S
  BY WithoutOne DEF Smaller
<1> QED
  BY <1>4, <1>5

(* Caps of 825 at the most add up to no more than 825 each.                *)
LEMMA SumsBound ==
  ASSUME NEW o, NEW S, IsFiniteSet(S), NEW f, Sums(f, o, SUBSET S),
         \A c \in S : Cap(o, c) \in Nat /\ Cap(o, c) <= 825
  PROVE  f[S] \in Nat /\ f[S] <= 825 * Cardinality(S)
<1> DEFINE n == Cardinality(S)
           K == {k \in 0..n : \A s \in Smaller(S, k) :
                                f[s] \in Nat /\ f[s] <= 825 * Cardinality(s)}
<1>1. n \in Nat
  BY FS_CardinalityType
<1>2. \A s \in SUBSET S :
        f[s] = IF s = {} THEN 0 ELSE Cap(o, Chosen(s)) + f[s \ {Chosen(s)}]
  BY DEF Sums
<1>3. f[{}] = 0
  BY <1>2
<1>4. 0 \in K
  <2>1. ASSUME NEW s \in Smaller(S, 0)
        PROVE  f[s] \in Nat /\ f[s] <= 825 * Cardinality(s)
    <3>1. s = {} /\ Cardinality(s) = 0
      BY OnlyEmpty
    <3> QED
      BY <1>3, <3>1
  <2> QED
    BY <1>1, <2>1
<1>5. ASSUME NEW k \in 0..(n - 1), k \in K
      PROVE  k + 1 \in K
  <2>1. k \in Nat /\ k + 1 \in 0..n
    BY <1>1
  <2>2. ASSUME NEW s \in Smaller(S, k + 1)
        PROVE  f[s] \in Nat /\ f[s] <= 825 * Cardinality(s)
    <3>1. s \in SUBSET S /\ Cardinality(s) <= k + 1
      BY DEF Smaller
    <3>2. CASE s = {}
      BY <1>3, <3>2, FS_EmptySet
    <3>3. CASE s # {}
      <4> DEFINE t == s \ {Chosen(s)}
                 c == Cap(o, Chosen(s))
      <4>1. /\ Cardinality(s) \in Nat /\ t \in SUBSET S
            /\ Cardinality(t) = Cardinality(s) - 1 /\ Cardinality(t) \in Nat
            /\ Chosen(s) \in S
        <5>1. /\ Cardinality(s) \in Nat /\ t \in SUBSET S /\ Chosen(s) \in s
              /\ Cardinality(t) = Cardinality(s) - 1
          BY <3>1, <3>3, WithoutOne
        <5> HIDE DEF t
        <5>2. Cardinality(t) \in Nat
          BY <5>1, WithoutOne
        <5> QED
          BY <3>1, <5>1, <5>2
      <4>2. Cardinality(t) <= k
        BY <2>1, <3>1, <4>1
      <4>3. f[t] \in Nat /\ f[t] <= 825 * Cardinality(t)
        BY <1>5, <4>1, <4>2 DEF Smaller
      <4>4. c \in Nat /\ c <= 825
        BY <4>1
      <4>5. f[s] = c + f[t]
        BY <1>2, <3>1, <3>3
      <4> HIDE DEF c, t
      <4> QED
        BY <4>1, <4>3, <4>4, <4>5
    <3> QED
      BY <3>2, <3>3
  <2> QED
    BY <2>1, <2>2
<1>6. n \in K
  <2> HIDE DEF n, K
  <2>1. 0..n \subseteq K
    BY <1>1, <1>4, <1>5, UpTo
  <2> QED
    BY <1>1, <2>1
<1>7. S \in Smaller(S, n)
  BY <1>1, WithoutOne DEF Smaller
<1> QED
  BY <1>6, <1>7

LEMMA MassBound ==
  ASSUME NEW o, IsFiniteSet(Cohorts(o)),
         \A p \in DOMAIN o : o[p].weight \in Nat /\ o[p].weight <= 825
  PROVE  Mass(o) \in Nat /\ Mass(o) <= 825 * Cardinality(Cohorts(o))
<1> DEFINE S == Cohorts(o)
<1>1. ASSUME NEW c \in S
      PROVE  Cap(o, c) \in Nat /\ Cap(o, c) <= 825
  <2> DEFINE W == {o[p].weight : p \in MembersOf(o, c)}
  <2>1. PICK p \in DOMAIN o : Cohort(o, p) = c
    BY DEF Cohorts
  <2>2. p \in MembersOf(o, c) /\ MembersOf(o, c) \subseteq DOMAIN o
    BY <2>1 DEF MembersOf
  <2>3. W \subseteq Nat /\ W # {} /\ \A x \in W : x <= 825
    BY <2>2
  <2>4. Max(W) \in W
    <3> HIDE DEF W
    <3>1. 825 \in Nat
      OBVIOUS
    <3> QED
      BY <2>3, <3>1, GreatestOf
  <2>5. Cap(o, c) = Max(W)
    BY DEF Cap
  <2> QED
    BY <2>3, <2>4, <2>5
<1>2. \E f : Sums(f, o, SUBSET S)
  BY SumsExist
<1>3. \E f : Sums(f, o, SUBSET S) /\ Mass(o) = f[S]
  BY <1>2 DEF Mass, MapThenSumSet, MapThenFoldSet, Sums, Chosen
<1>4. PICK f : Sums(f, o, SUBSET S) /\ Mass(o) = f[S]
  BY <1>3
<1> QED
  BY <1>1, <1>4, SumsBound

LEMMA StrengthNeeds ==
  ASSUME NEW o, Mass(o) \in Nat
  PROVE  /\ Strength(o) = "moderate" => Mass(o) >= 2500
         /\ Strength(o) = "strong" => Mass(o) >= 6000
BY DEF Strength, EffectiveAtLeast

(* The reports that some candidates rest on.                               *)
Report(entry) == <<entry.day, entry.tool, entry.major, entry.host>>
ReportsOf(capsule) == {Report(entry) : entry \in Range(capsule.evidence)}
Reports(candidates, some) == UNION {ReportsOf(candidates[n]) : n \in some}

LEMMA ReportsFinite ==
  ASSUME NEW ids, NEW candidates \in Seq(Capsules(ids)), NEW some \in SUBSET DOMAIN candidates
  PROVE  IsFiniteSet(some) /\ IsFiniteSet(Reports(candidates, some))
<1>1. IsFiniteSet(some)
  <2>1. DOMAIN candidates = 1..Len(candidates) /\ IsFiniteSet(1..Len(candidates))
    BY IndicesFinite
  <2> QED
    BY <2>1, FS_Subset
<1> DEFINE SS == {ReportsOf(candidates[n]) : n \in some}
           f == [n \in some |-> ReportsOf(candidates[n])]
<1>2. IsFiniteSet(SS)
  <2>1. f \in [some -> SS] /\ \A x \in SS : \E n \in some : f[n] = x
    OBVIOUS
  <2> HIDE DEF f, SS
  <2>2. f \in Surjection(some, SS)
    BY <2>1 DEF Surjection
  <2> QED
    BY <1>1, <2>2, FS_Surjection
<1>3. ASSUME NEW n \in some
      PROVE  IsFiniteSet(ReportsOf(candidates[n]))
  <2> DEFINE evidence == candidates[n].evidence
             g == [k \in 1..Len(evidence) |-> Report(evidence[k])]
             R == ReportsOf(candidates[n])
  <2>1. evidence \in Seq(Entries)
    <3>1. candidates[n] \in Capsules(ids)
      OBVIOUS
    <3> QED
      BY <3>1, CapsuleFields
  <2> HIDE DEF evidence
  <2>2. Range(evidence) = {evidence[k] : k \in 1..Len(evidence)} /\ Len(evidence) \in Nat
    BY <2>1, RangeIs
  <2>3. R = {Report(entry) : entry \in Range(evidence)}
    BY DEF ReportsOf, evidence
  <2>4. R = {Report(evidence[k]) : k \in 1..Len(evidence)}
    BY <2>2, <2>3
  <2> HIDE DEF R
  <2>5. g \in [1..Len(evidence) -> R] /\ \A x \in R : \E k \in 1..Len(evidence) : g[k] = x
    BY <2>4
  <2> HIDE DEF g
  <2>6. g \in Surjection(1..Len(evidence), R)
    BY <2>5 DEF Surjection
  <2>7. IsFiniteSet(1..Len(evidence))
    BY <2>1, IndicesFinite
  <2>8. IsFiniteSet(R)
    BY <2>6, <2>7, FS_Surjection
  <2> QED
    BY <2>8 DEF R
<1>4. \A x \in SS : IsFiniteSet(x)
  BY <1>3
<1>5. Reports(candidates, some) = UNION SS
  BY DEF Reports
<1> HIDE DEF SS
<1> QED
  BY <1>1, <1>2, <1>4, <1>5, FS_UNION

(* Every observation is one of a report.                                   *)
Backed(o, p, candidates, members) ==
  /\ o[p].weight \in Nat /\ o[p].weight <= 825
  /\ \E n \in members : \E entry \in Range(candidates[n].evidence) :
       Cohort(o, p) = <<entry.day, <<entry.tool, entry.major, entry.host>>>>

LEMMA ObservationsAre ==
  ASSUME NEW ctx, NEW intent, NEW now \in Nat, NEW ids, NEW candidates \in Seq(Capsules(ids)),
         NEW members \in SUBSET DOMAIN candidates,
         NEW p \in DOMAIN ObservationsOf(ctx, intent, now, candidates, members)
  PROVE  Backed(ObservationsOf(ctx, intent, now, candidates, members), p, candidates, members)
<1> DEFINE o == ObservationsOf(ctx, intent, now, candidates, members)
           n == p[1]
           capsule == candidates[n]
           entry == capsule.evidence[p[2]]
           seen == ObservationOf(ctx, intent, now, capsule, entry)
<1>1. DOMAIN o = UNION {{i} \X DOMAIN candidates[i].evidence : i \in members}
  BY DEF ObservationsOf
<1>2. n \in members /\ p[2] \in DOMAIN candidates[n].evidence
  BY <1>1
<1>3. o[p] = seen
  BY <1>1 DEF ObservationsOf
<1>4. capsule \in Capsules(ids)
  BY <1>2
<1>5. capsule.evidence \in Seq(Entries)
  BY <1>4, CapsuleFields
<1>6. entry \in Entries /\ entry \in Range(capsule.evidence)
  <2> HIDE DEF n
  <2> QED
    BY <1>2, <1>5 DEF Range
<1> HIDE DEF entry, capsule, n, seen
<1>7. Weighs(seen, entry)
  <2>1. capsule \in Capsules(ids) /\ entry \in Entries
    BY <1>4, <1>6
  <2> QED
    BY <2>1, WeightBound DEF seen
<1>8. Cohort(o, p) = <<entry.day, <<entry.tool, entry.major, entry.host>>>>
  <2>1. o[p] = seen
    BY <1>3
  <2> HIDE DEF o
  <2> QED
    BY <1>7, <2>1 DEF Cohort, Weighs
<1>9. \E k \in members : \E e \in Range(candidates[k].evidence) :
        Cohort(o, p) = <<e.day, <<e.tool, e.major, e.host>>>>
  <2> HIDE DEF o
  <2> QED
    BY <1>2, <1>6, <1>8 DEF capsule
<1>10. o[p].weight \in Nat /\ o[p].weight <= 825
  BY <1>3, <1>7 DEF Weighs
<1> HIDE DEF o
<1>11. Backed(o, p, candidates, members)
  BY <1>9, <1>10 DEF Backed
<1> QED
  BY <1>11 DEF o

(* What a lesson is said to be rests on as many reports of its own.        *)
LEMMA StrengthRests ==
  ASSUME NEW ctx, NEW intent, NEW now \in Nat, NEW ids, NEW candidates \in Seq(Capsules(ids)),
         NEW some \in SUBSET DOMAIN candidates, NEW members \in SUBSET some
  PROVE  LET o == ObservationsOf(ctx, intent, now, candidates, members)
             reported == Cardinality(Reports(candidates, some))
         IN /\ Strength(o) = "moderate" => reported >= 4
            /\ Strength(o) = "strong" => reported >= 8
<1> DEFINE o == ObservationsOf(ctx, intent, now, candidates, members)
           R == Reports(candidates, some)
           f == [q \in R |-> <<q[1], <<q[2], q[3], q[4]>>>>]
           T == {f[q] : q \in R}
<1>1. ASSUME NEW p \in DOMAIN o
      PROVE  Backed(o, p, candidates, members)
  <2>1. members \in SUBSET DOMAIN candidates
    OBVIOUS
  <2> QED
    BY <2>1, ObservationsAre
<1>2. IsFiniteSet(R) /\ Cardinality(R) \in Nat
  BY ReportsFinite, FS_CardinalityType
<1>3. \A n \in members : \A entry \in Range(candidates[n].evidence) :
        Report(entry) \in R
  BY DEF Reports, ReportsOf
<1> HIDE DEF R
<1>4. IsFiniteSet(T) /\ Cardinality(T) <= Cardinality(R)
  <2>1. f \in [R -> T] /\ \A x \in T : \E q \in R : f[q] = x
    OBVIOUS
  <2> HIDE DEF f, T
  <2>2. f \in Surjection(R, T)
    BY <2>1 DEF Surjection
  <2> QED
    BY <1>2, <2>2, FS_Surjection
<1>5. ASSUME NEW c \in Cohorts(o)
      PROVE  c \in T
  <2>1. PICK p \in DOMAIN o : c = Cohort(o, p)
    BY DEF Cohorts
  <2>2. PICK n \in members :
          \E entry \in Range(candidates[n].evidence) :
            c = <<entry.day, <<entry.tool, entry.major, entry.host>>>>
    BY <1>1, <2>1 DEF Backed
  <2>3. PICK entry \in Range(candidates[n].evidence) :
          c = <<entry.day, <<entry.tool, entry.major, entry.host>>>>
    BY <2>2
  <2>4. Report(entry) \in R
    BY <1>3
  <2>5. f[Report(entry)] = c
    BY <2>3, <2>4 DEF Report
  <2> QED
    BY <2>4, <2>5
<1> HIDE DEF T
<1>6. IsFiniteSet(Cohorts(o)) /\ Cardinality(Cohorts(o)) <= Cardinality(T)
  BY <1>4, <1>5, FS_Subset
<1>7. Mass(o) \in Nat /\ Mass(o) <= 825 * Cardinality(Cohorts(o))
  <2>1. \A p \in DOMAIN o : o[p].weight \in Nat /\ o[p].weight <= 825
    BY <1>1 DEF Backed
  <2> QED
    BY <1>6, <2>1, MassBound
<1>8. Cardinality(Cohorts(o)) \in Nat /\ Cardinality(T) \in Nat
  BY <1>4, <1>6, FS_CardinalityType
<1>9. Mass(o) <= 825 * Cardinality(R)
  BY <1>2, <1>4, <1>6, <1>7, <1>8
<1>10. /\ Strength(o) = "moderate" => Mass(o) >= 2500
       /\ Strength(o) = "strong" => Mass(o) >= 6000
  BY <1>7, StrengthNeeds
<1>11. /\ Strength(o) = "moderate" => Cardinality(R) >= 4
       /\ Strength(o) = "strong" => Cardinality(R) >= 8
  BY <1>2, <1>7, <1>9, <1>10
<1> QED
  BY <1>11 DEF o, R

-----------------------------------------------------------------------------
(* The invariant. *)

AllIds == CapsuleIds \cup LegacyIds

ReaderFields ==
  {"at", "request", "context", "intent", "found", "read", "ecosystems", "candidates",
   "telemetry", "ranked", "answer"}

Types ==
  /\ rows \in Seq(Capsules(CapsuleIds))
  /\ \A r, s \in Range(rows) : r.id = s.id => r = s
  /\ steady \subseteq CapsuleIds
  /\ DOMAIN reader = ReaderFields
  /\ reader.candidates \in Seq(Capsules(AllIds))
  /\ reader.at # "idle" => reader.request \in Requests
  /\ host # "idle" => reader.at # "idle"

(* A copy of a capsule that nobody touched is the row as it stands.        *)
Same == \A copy \in Range(reader.candidates) : copy.id \in steady => copy \in Range(rows)

(* A row that nobody touched, in a bucket that was read to its end, was    *)
(* read.                                                                   *)
Searched(row) ==
  /\ row.id \in steady
  /\ ReadToTheEnd(row.scope)
  /\ row.scope \in {"project", "workspace"} => row.anchor = "here"
  /\ row.scope = "ecosystem" => row.ecosystem \in Ecosystems \ reader.ecosystems

Found == \A row \in Range(rows) : Searched(row) => row \in Range(reader.candidates)

Emptied == reader.at \notin {"ecosystems", "done"} => reader.ecosystems = {}

(* What is read beyond the project is read when the project told too       *)
(* little; what the practice events told is part of the project.           *)
AllLocal == \A copy \in Range(reader.candidates) : copy.scope = "project"

First == {"idle", "project", "telemetry", "local"}
Early == First \cup {"practices", "sparse", "workspace"}

Fresh == reader.at \in First => reader.candidates = <<>> /\ reader.read = {}

Nearby == reader.at \in Early => AllLocal

Own ==
  {i \in DOMAIN reader.candidates :
     /\ reader.candidates[i].scope = "project"
     /\ reader.candidates[i].lifecycle = "active"
     /\ Applicable(Ctx, ReaderIntent, reader.candidates[i])}

Narrow ==
  reader.at \in {"workspace", "ecosystems", "global"} \/ ~AllLocal => Cardinality(Own) < Sparse

Heard ==
  mapped /\ "project" \in reader.read /\ reader.at \notin {"practices", "done"}
    => Range(Legacy) \subseteq Range(reader.candidates)

Unanswered == reader.at # "done" => reader.answer = NoAnswer

IInv ==
  Types /\ Same /\ Found /\ Emptied /\ Fresh /\ Nearby /\ Narrow /\ Heard /\ Unanswered

(* What there was to rank, and what became of it.                          *)
ClustersNow == Clusters(Ctx, ReaderIntent, Options(reader.request), Today, reader.candidates)

Fitting(order) ==
  LET options == Options(reader.request) IN
    Budgeted(Limited(Reserve(RiskSensitive(Ctx, ReaderIntent), order), options.limit),
             reader.telemetry, options.budget)

Ranked ==
  /\ reader.ecosystems = {}
  /\ mapped /\ "project" \in reader.read => Range(Legacy) \subseteq Range(reader.candidates)
  /\ reader.ranked \in Orders(ClustersNow)
  /\ reader.answer = Delivered(reader.request, Fitting(reader.ranked))

Unasked ==
  /\ UnrecognizedQuery(reader.request) \/ reader.request.mode \in Preflights
  /\ reader.ranked = <<>> /\ Items = <<>>

(* An answer is the ranking of all that was read, or there was nothing to  *)
(* rank.                                                                   *)
Explained == Answered => Ranked \/ Unasked
-----------------------------------------------------------------------------
(* What a query brings. *)

CountOf(items, scope) == Cardinality({i \in DOMAIN items : items[i].scope = scope})

LEMMA CountGrows ==
  ASSUME NEW T, NEW s \in Seq(T), NEW t \in Seq(T), NEW scope
  PROVE  /\ CountOf(s, scope) \in Nat /\ CountOf(s \o t, scope) \in Nat
         /\ CountOf(s, scope) <= CountOf(s \o t, scope)
         /\ (\A i \in DOMAIN t : t[i].scope = scope) => Len(t) <= CountOf(s \o t, scope)
<1> DEFINE A == {i \in DOMAIN s : s[i].scope = scope}
           B == {i \in DOMAIN (s \o t) : (s \o t)[i].scope = scope}
           n == Len(s)
           m == Len(t)
<1>1. /\ n \in Nat /\ m \in Nat /\ DOMAIN s = 1..n /\ DOMAIN t = 1..m
      /\ DOMAIN (s \o t) = 1..(n + m)
      /\ \A i \in 1..(n + m) : (s \o t)[i] = IF i <= n THEN s[i] ELSE t[i - n]
  OBVIOUS
<1>2. IsFiniteSet(B)
  <2>1. B \subseteq 1..(n + m)
    BY <1>1
  <2>2. n + m \in Int
    BY <1>1
  <2> HIDE DEF B, n, m
  <2>3. IsFiniteSet(1..(n + m))
    BY <2>2, FS_Interval
  <2> QED
    BY <2>1, <2>3, FS_Subset
<1>3. A \subseteq B
  BY <1>1
<1>4. IsFiniteSet(A) /\ Cardinality(A) <= Cardinality(B)
  BY <1>2, <1>3, FS_Subset
<1>5. Cardinality(A) \in Nat /\ Cardinality(B) \in Nat
  BY <1>2, <1>4, FS_CardinalityType
<1>6. ASSUME \A i \in DOMAIN t : t[i].scope = scope
      PROVE  m <= Cardinality(B)
  <2> DEFINE I == (n + 1)..(n + m)
  <2>1. I \subseteq B
    <3>1. ASSUME NEW i \in I
          PROVE  i \in B
      <4>1. i \in 1..(n + m) /\ ~(i <= n) /\ i - n \in 1..m
        BY <1>1
      <4> QED
        BY <1>1, <1>6, <4>1
    <3> QED
      BY <3>1
  <2>2. IsFiniteSet(I) /\ Cardinality(I) = m
    <3> DEFINE a == n + 1
               b == n + m
    <3> HIDE DEF n, m
    <3>1. a \in Int /\ b \in Int /\ I = a..b /\ m \in Nat
      BY <1>1
    <3>2. IF a > b THEN m = 0 ELSE b - a + 1 = m
      BY <1>1
    <3> HIDE DEF a, b, I
    <3>3. IsFiniteSet(a..b) /\ Cardinality(a..b) = IF a > b THEN 0 ELSE b - a + 1
      BY <3>1, FS_Interval
    <3> QED
      BY <3>1, <3>2, <3>3
  <2> HIDE DEF I, B
  <2>3. Cardinality(I) <= Cardinality(B)
    BY <1>2, <2>1, FS_Subset
  <2> QED
    BY <2>2, <2>3
<1> HIDE DEF A, B
<1> QED
  BY <1>4, <1>5, <1>6 DEF A, B, CountOf

LEMMA NewestIs ==
  ASSUME RecallAssumption, NEW ids, rows \in Seq(Capsules(ids)), NEW bucket \in SUBSET Range(rows)
  PROVE  /\ Newest(bucket) \in Seq(Capsules(ids))
         /\ Range(Newest(bucket)) \subseteq bucket
         /\ bucket \subseteq Range(Newest(bucket)) \/ Len(Newest(bucket)) = Window
<1> DEFINE found == Only(rows, bucket)
           k == Min({Window, Len(found)})
<1>1. found \in Seq(Capsules(ids)) /\ Range(found) = bucket
  <2>1. found \in Seq(Capsules(ids)) /\ Range(found) = Range(rows) \cap bucket
    BY OnlyItems
  <2> QED
    BY <2>1
<1>2. Newest(bucket) = SubSeq(found, 1, k)
  BY DEF Newest
<1> HIDE DEF found
<1>3. Window \in Nat /\ Len(found) \in Nat
  BY <1>1 DEF RecallAssumption
<1>4. k = IF Window <= Len(found) THEN Window ELSE Len(found)
  BY <1>3, Lesser
<1>5. k \in 0..Len(found)
  BY <1>3, <1>4
<1> HIDE DEF k
<1>6. /\ SubSeq(found, 1, k) \in Seq(Capsules(ids))
      /\ Len(SubSeq(found, 1, k)) = k
      /\ Range(SubSeq(found, 1, k)) \subseteq Range(found)
  BY <1>1, <1>5, SliceItems
<1>7. CASE k = Window
  BY <1>1, <1>2, <1>6, <1>7
<1>8. CASE k = Len(found)
  <2>1. SubSeq(found, 1, k) = found
    BY <1>1, <1>8
  <2> QED
    BY <1>1, <1>2, <1>6, <2>1
<1> QED
  BY <1>4, <1>7, <1>8

(* The candidates after another bucket was read.                           *)
LEMMA BucketRead ==
  ASSUME RecallAssumption, Types, Same, UNCHANGED <<rows, steady>>,
         NEW bucket \in SUBSET Range(rows), NEW scope, \A row \in bucket : row.scope = scope,
         reader'.candidates = reader.candidates \o Newest(bucket)
  PROVE  /\ reader'.candidates \in Seq(Capsules(AllIds))
         /\ Same'
         /\ Range(reader'.candidates) = Range(reader.candidates) \cup Range(Newest(bucket))
         /\ Range(Newest(bucket)) \subseteq bucket
         /\ ReadToTheEnd(scope)' => bucket \subseteq Range(reader'.candidates)
         /\ \A s \in reader.read : ReadToTheEnd(s)' => ReadToTheEnd(s)
<1> DEFINE T == Capsules(AllIds)
           old == reader.candidates
           new == Newest(bucket)
           all == old \o new
<1>1. rows \in Seq(T) /\ old \in Seq(T) /\ Window \in Nat
  <2>1. Capsules(CapsuleIds) \subseteq T
    BY DEF Capsules, AllIds
  <2>2. rows \in Seq(Capsules(CapsuleIds))
    BY DEF Types
  <2>3. rows \in Seq(T)
    BY <2>1, <2>2
  <2> QED
    BY <2>3 DEF Types, RecallAssumption
<1> HIDE DEF T, old, new
<1>2. /\ new \in Seq(T) /\ Range(new) \subseteq bucket
      /\ bucket \subseteq Range(new) \/ Len(new) = Window
  BY <1>1, NewestIs DEF T, new
<1>3. /\ reader'.candidates = all /\ all \in Seq(T)
      /\ Range(all) = Range(old) \cup Range(new)
  BY <1>1, <1>2, RangeJoined DEF old, new
<1>4. Same'
  <2> SUFFICES ASSUME NEW copy \in Range(all), copy.id \in steady
               PROVE  copy \in Range(rows)
    BY <1>3 DEF Same
  <2>1. CASE copy \in Range(old)
    BY <2>1 DEF Same, old
  <2>2. CASE copy \in Range(new)
    BY <1>2, <2>2
  <2> QED
    BY <1>3, <2>1, <2>2
<1>5. \A s : ReadToTheEnd(s) <=> s \in reader.read /\ CountOf(old, s) < Window
  BY DEF ReadToTheEnd, CountOf, old
<1>6. \A s : ReadToTheEnd(s)' <=> s \in reader'.read /\ CountOf(all, s) < Window
  BY <1>3 DEF ReadToTheEnd, CountOf
<1>7. ASSUME NEW s \in reader.read, ReadToTheEnd(s)'
      PROVE  ReadToTheEnd(s)
  <2>1. CountOf(old, s) \in Nat /\ CountOf(all, s) \in Nat /\ CountOf(old, s) <= CountOf(all, s)
    BY <1>1, <1>2, CountGrows
  <2> QED
    BY <1>1, <1>5, <1>6, <1>7, <2>1
<1>8. ASSUME ReadToTheEnd(scope)'
      PROVE  bucket \subseteq Range(new)
  <2>1. \A i \in DOMAIN new : new[i].scope = scope
    BY <1>2 DEF Range
  <2>2. CountOf(all, scope) \in Nat /\ Len(new) <= CountOf(all, scope)
    BY <1>1, <1>2, <2>1, CountGrows
  <2>3. CountOf(all, scope) < Window
    BY <1>6, <1>8
  <2>4. Len(new) # Window
    BY <1>1, <2>2, <2>3
  <2> QED
    BY <1>2, <2>4
<1> HIDE DEF all
<1> QED
  BY <1>2, <1>3, <1>4, <1>7, <1>8 DEF T, old, new

(* Old practice events make capsules of the project, with ids of their own. *)
SameWork(event) == {e \in Told : e.task = event.task /\ e.strategy = event.strategy}

LEMMA LegacyCapsuleTyped ==
  ASSUME RecallAssumption, NEW event \in Told
  PROVE  /\ LegacyCapsule(event.task, event.strategy) \in Capsules(LegacyIds)
         /\ LegacyCapsule(event.task, event.strategy).scope = "project"
         /\ Range(LegacyCapsule(event.task, event.strategy).evidence)
              \subseteq {LegacyEntry(e) : e \in SameWork(event)}
<1> DEFINE task == event.task
           strategy == event.strategy
           Saying == Entries \cap {LegacyEntry(e) : e \in SameWork(event)}
           told == Only(Practices, {e \in Told : e.task = task /\ e.strategy = strategy})
           list == [n \in DOMAIN told |-> LegacyEntry(told[n])]
           entries == Reverse(list)
           kept == SubSeq(entries, 1, Min({MaxLegacy, Len(entries)}))
           capsule == LegacyCapsule(task, strategy)
<1>1. Practices \in Seq(PracticeEvents) /\ MaxLegacy \in Nat
  BY DEF RecallAssumption
<1>2. /\ told \in Seq(PracticeEvents) /\ event \in Range(told)
      /\ Range(told) \subseteq Told /\ Range(told) \subseteq SameWork(event)
  <2>1. /\ told \in Seq(PracticeEvents)
        /\ Range(told) = Range(Practices) \cap {e \in Told : e.task = task /\ e.strategy = strategy}
    BY <1>1, OnlyItems
  <2>2. event \in Range(Practices)
    BY DEF Told
  <2> HIDE DEF told
  <2> QED
    BY <2>1, <2>2 DEF SameWork
<1> HIDE DEF told
<1>3. DOMAIN told = 1..Len(told) /\ Len(told) \in Nat /\ 1 \in 1..Len(told)
  <2>1. Range(told) = {told[i] : i \in 1..Len(told)} /\ DOMAIN told = 1..Len(told) /\ Len(told) \in Nat
    BY <1>2, RangeIs
  <2> QED
    BY <1>2, <2>1
<1>4. event \in PracticeEvents
  <2>1. event \in Range(Practices) /\ Range(Practices) \subseteq PracticeEvents
    BY <1>1, RangeIs DEF Told
  <2> QED
    BY <2>1
<1>5. ASSUME NEW n \in 1..Len(told)
      PROVE  LegacyEntry(told[n]) \in Saying
  <2>1. told[n] \in PracticeEvents /\ told[n] \in Told
    BY <1>2, <1>3 DEF Range
  <2>2. told[n].day \in Nat /\ told[n].outcome \in {"success", "failure"}
    BY <2>1 DEF PracticeEvents, Told
  <2>3. "none" \in DOMAIN QualityWeight
    BY DEF QualityWeight
  <2>4. None \in Optional
    BY DEF Optional
  <2>5. LegacyEntry(told[n]) \in Entries
    BY <2>2, <2>3, <2>4 DEF LegacyEntry, Entries
  <2>6. told[n] \in SameWork(event)
    BY <1>2, <1>3 DEF Range
  <2> QED
    BY <2>5, <2>6
<1> HIDE DEF Saying
<1>6. list \in Seq(Saying) /\ Len(list) = Len(told)
  BY <1>3, <1>5
<1> HIDE DEF list
<1>7. entries \in Seq(Saying)
  <2>1. \A i \in 1..Len(list) : Len(list) - i + 1 \in 1..Len(list)
    BY <1>3, <1>6
  <2>2. \A i \in 1..Len(list) : list[Len(list) - i + 1] \in Saying
    BY <1>6, <2>1
  <2> QED
    BY <1>3, <1>6, <2>2 DEF Reverse
<1> HIDE DEF entries
<1>8. kept \in Seq(Saying)
  <2>1. Len(entries) \in Nat /\ Min({MaxLegacy, Len(entries)}) \in 0..Len(entries)
    <3>1. Len(entries) \in Nat
      BY <1>7
    <3> QED
      BY <1>1, <3>1, Lesser
  <2> QED
    BY <1>7, <2>1, SliceItems
<1>9. FromStrategy(strategy) \in Procedure
  BY <1>4, MigrationValid DEF PracticeEvents
<1>10. /\ <<task, strategy>> \in LegacyIds /\ task \in STRING
       /\ told[1].day \in Nat
  <2>1. told[1] \in PracticeEvents
    BY <1>2, <1>3
  <2> QED
    BY <1>4, <2>1 DEF LegacyIds, PracticeEvents, Told
<1>11. capsule = [id |-> <<task, strategy>>, origin |-> "here", scope |-> "project", anchor |-> "here",
      task |-> task, situation |-> FALSE, lesson |-> None,
      procedure |-> FromStrategy(strategy), artifact |-> None, phase |-> None,
      ecosystem |-> None, tool |-> None, risks |-> {}, lifecycle |-> "active",
      evidence |-> kept,
      last |-> told[1].day, bytes |-> 180, note |-> 0, legacy |-> TRUE]
  BY DEF LegacyCapsule, entries, list, told
<1> HIDE DEF kept, task, strategy, capsule
<1>12. capsule \in Capsules(LegacyIds) /\ capsule.scope = "project" /\ capsule.evidence = kept
  <2>1. "project" \in DOMAIN ScopeWeight /\ "active" \in DOMAIN LifecycleWeight
    BY DEF ScopeWeight, LifecycleWeight
  <2>2. None \in Optional /\ "here" \in Places
    BY DEF Optional, Places
  <2>3. kept \in Seq(Entries)
    <3>1. Saying \subseteq Entries
      BY DEF Saying
    <3> QED
      BY <1>8, <3>1
  <2> QED
    BY <1>9, <1>10, <1>11, <2>1, <2>2, <2>3 DEF Capsules
<1>13. Range(kept) \subseteq Saying
  BY <1>8, RangeIs
<1> QED
  BY <1>12, <1>13 DEF capsule, task, strategy, Saying

LEMMA LegacyTyped ==
  ASSUME RecallAssumption
  PROVE  /\ Legacy \in Seq(Capsules(LegacyIds))
         /\ \A capsule \in Range(Legacy) : capsule.scope = "project"
         /\ Range(Legacy) = {LegacyCapsule(event.task, event.strategy) : event \in Told}
<1> DEFINE S == {LegacyCapsule(event.task, event.strategy) : event \in Told}
           n == Cardinality(S)
           f == [event \in Told |-> LegacyCapsule(event.task, event.strategy)]
<1>1. IsFiniteSet(S)
  <2>1. IsFiniteSet(Told)
    <3> DEFINE g == [i \in 1..Len(Practices) |-> Practices[i]]
    <3>1. Range(Practices) = {Practices[i] : i \in 1..Len(Practices)} /\ Len(Practices) \in Nat
      <4>1. Practices \in Seq(PracticeEvents)
        BY DEF RecallAssumption
      <4> QED
        BY <4>1, RangeIs
    <3>2. g \in Surjection(1..Len(Practices), Range(Practices))
      BY <3>1 DEF Surjection
    <3> HIDE DEF g
    <3>3. IsFiniteSet(1..Len(Practices))
      BY IndicesFinite DEF RecallAssumption
    <3>4. IsFiniteSet(Range(Practices))
      BY <3>2, <3>3, FS_Surjection
    <3>5. Told \subseteq Range(Practices)
      BY DEF Told
    <3> QED
      BY <3>4, <3>5, FS_Subset
  <2>2. f \in [Told -> S] /\ \A x \in S : \E event \in Told : f[event] = x
    OBVIOUS
  <2> HIDE DEF f, S
  <2>3. f \in Surjection(Told, S)
    BY <2>2 DEF Surjection
  <2> QED
    BY <2>1, <2>3, FS_Surjection
<1>2. S \subseteq Capsules(LegacyIds) /\ \A capsule \in S : capsule.scope = "project"
  BY LegacyCapsuleTyped
<1>3. Legacy = SetToSeq(S)
  BY DEF Legacy
<1> HIDE DEF S, f
<1>4. n \in Nat
  BY <1>1, FS_CardinalityType
<1>5. \E g \in [1..n -> S] : IsInjective(g)
  <2>1. \E g \in Bijection(1..n, S) : TRUE
    BY <1>1, FS_CardinalityType DEF ExistsBijection
  <2> QED
    BY <2>1 DEF Bijection, Injection
<1>6. Legacy \in [1..n -> S] /\ IsInjective(Legacy)
  BY <1>3, <1>5 DEF SetToSeq
<1>7. Legacy \in Surjection(1..n, S)
  <2>1. Cardinality(1..n) = n
    BY <1>4, FS_Interval
  <2>2. Legacy \in Injection(1..n, S)
    BY <1>6 DEF Injection
  <2> QED
    BY <1>1, <2>1, <2>2, FS_Injection
<1> HIDE DEF n
<1>8. Legacy \in Seq(S)
  BY <1>4, <1>6
<1>9. \A capsule \in S : \E i \in 1..n : Legacy[i] = capsule
  BY <1>7 DEF Surjection
<1>10. DOMAIN Legacy = 1..n /\ \A i \in 1..n : Legacy[i] \in S
  BY <1>6
<1>11. Range(Legacy) = S
  BY <1>9, <1>10 DEF Range
<1> QED
  BY <1>2, <1>8, <1>11 DEF S

(* Every practice event of the project is recalled, in one capsule with all *)
(* of its task and strategy, and a query selects that capsule as it would   *)
(* have selected the event: a filter on an operation by the event's own,    *)
(* though the capsule holds the procedure its label migrated to ("legacy    *)
(* --operation filters keep working").  What the capsule reports, events of *)
(* that task and strategy told.                                             *)
THEOREM EventsRecognised ==
  ASSUME NEW event \in Told
  PROVE  \E capsule \in Range(Legacy) :
           /\ capsule.task = event.task
           /\ \A other \in Range(Legacy) : other.id = <<event.task, event.strategy>> <=> other = capsule
           /\ \A entry \in Range(capsule.evidence) :
                \E e \in Told : /\ e.task = event.task /\ e.strategy = event.strategy
                               /\ entry.outcome = e.outcome /\ entry.day = e.day
           /\ \A ctx, intent, options :
                Matches(ctx, intent, options, capsule) <=>
                  /\ options.operation \in {None, PracticeOperation(event.strategy)}
                  /\ options.failuresOnly => Count(capsule, "failure") > 0
                  /\ Applicable(ctx, intent, capsule)
<1> DEFINE capsule == LegacyCapsule(event.task, event.strategy)
<1>1. /\ Range(Legacy) = {LegacyCapsule(e.task, e.strategy) : e \in Told}
      /\ Range(capsule.evidence) \subseteq {LegacyEntry(e) : e \in SameWork(event)}
  BY RecallAssumption, LegacyTyped, LegacyCapsuleTyped
<1>2. \A task, strategy :
        /\ LegacyCapsule(task, strategy).id = <<task, strategy>>
        /\ LegacyCapsule(task, strategy).task = task
        /\ LegacyCapsule(task, strategy).procedure = FromStrategy(strategy)
        /\ LegacyCapsule(task, strategy).lifecycle = "active"
  BY DEF LegacyCapsule
<1>3. event.strategy \in Strategies
  <2>1. event \in Range(Practices) /\ Range(Practices) \subseteq PracticeEvents
    BY RecallAssumption, RangeIs DEF Told, RecallAssumption
  <2> QED
    BY <2>1 DEF PracticeEvents
<1>4. Classification(capsule.procedure) = PracticeOperation(event.strategy)
  BY <1>2, <1>3, MigrationKeepsOperation
<1>5. ASSUME NEW entry \in Range(capsule.evidence)
      PROVE  \E e \in Told : /\ e.task = event.task /\ e.strategy = event.strategy
                             /\ entry.outcome = e.outcome /\ entry.day = e.day
  <2>1. PICK e \in SameWork(event) : entry = LegacyEntry(e)
    BY <1>1, <1>5
  <2> QED
    BY <2>1 DEF SameWork, LegacyEntry
<1>6. ASSUME NEW other \in Range(Legacy)
      PROVE  other.id = <<event.task, event.strategy>> <=> other = capsule
  <2>1. PICK e \in Told : other = LegacyCapsule(e.task, e.strategy)
    BY <1>1, <1>6
  <2>2. other.id = <<e.task, e.strategy>>
    BY <1>2, <2>1
  <2> QED
    BY <1>2, <2>1, <2>2
<1>7. ASSUME NEW ctx, NEW intent, NEW options
      PROVE  Matches(ctx, intent, options, capsule) <=>
               /\ options.operation \in {None, PracticeOperation(event.strategy)}
               /\ options.failuresOnly => Count(capsule, "failure") > 0
               /\ Applicable(ctx, intent, capsule)
  BY <1>2, <1>4 DEF Matches
<1>8. capsule \in Range(Legacy) /\ capsule.task = event.task
  BY <1>1, <1>2
<1> HIDE DEF capsule
<1> QED
  BY <1>5, <1>6, <1>7, <1>8

-----------------------------------------------------------------------------
(* Every step keeps the invariant. *)

LEMMA InitInv ==
  ASSUME RecallAssumption, Init
  PROVE  IInv
<1>1. /\ rows \in Stores /\ mapped = TRUE /\ steady = {} /\ reader = Idle /\ host = "idle"
  BY DEF Init
<1>2. /\ DOMAIN reader = ReaderFields
      /\ reader.at = "idle" /\ reader.candidates = <<>> /\ reader.read = {}
      /\ reader.ecosystems = {} /\ reader.answer = NoAnswer
  BY <1>1 DEF Idle, ReaderFields
<1>3. rows \in Seq(Capsules(CapsuleIds)) /\ \A i, j \in DOMAIN rows : rows[i].id = rows[j].id => i = j
  BY <1>1 DEF RecallAssumption
<1>4. \A r, s \in Range(rows) : r.id = s.id => r = s
  BY <1>3 DEF Range
<1>5. Range(reader.candidates) = {} /\ reader.candidates \in Seq(Capsules(AllIds))
  BY <1>2 DEF Range
<1>6. Types
  BY <1>1, <1>2, <1>3, <1>4, <1>5 DEF Types
<1>7. Same /\ AllLocal /\ Narrow /\ Nearby /\ Fresh
  BY <1>2, <1>5 DEF Same, AllLocal, Narrow, Nearby, Fresh
<1>8. Found
  BY <1>1 DEF Found, Searched
<1>9. Emptied /\ Heard /\ Unanswered
  BY <1>2 DEF Emptied, Heard, Unanswered, Items, NoAnswer
<1> QED
  BY <1>6, <1>7, <1>8, <1>9 DEF IInv

(* Steps that read nothing. *)
LEMMA Carried ==
  ASSUME IInv, UNCHANGED <<rows, mapped, steady>>,
         DOMAIN reader' = ReaderFields, reader'.candidates = reader.candidates,
         reader'.read = reader.read, reader'.ecosystems = reader.ecosystems,
         reader'.context = reader.context, reader'.intent = reader.intent,
         reader'.request = reader.request, reader.at # "idle",
         \/ reader'.at = "done"
         \/ /\ {reader.at, reader'.at} \subseteq {"project", "telemetry", "local", "sparse", "deliver"}
            /\ reader'.at \in Early => reader.at \in Early
            /\ reader'.at \in First => reader.at \in First
            /\ reader'.answer = reader.answer
  PROVE  IInv'
<1>1. Types'
  BY DEF IInv, Types
<1>2. Same'
  BY DEF IInv, Same
<1>3. AllLocal' <=> AllLocal
  BY DEF AllLocal
<1>4. Own' = Own
  BY DEF Own, Ctx, ReaderIntent
<1>5. Narrow'
  BY <1>3, <1>4 DEF IInv, Narrow
<1>6. Found'
  <2>1. \A s : ReadToTheEnd(s)' <=> ReadToTheEnd(s)
    BY DEF ReadToTheEnd
  <2>2. Ecosystems' = Ecosystems
    BY DEF Ecosystems, Ctx, ReaderIntent
  <2>3. \A row : Searched(row)' <=> Searched(row)
    BY <2>1, <2>2 DEF Searched
  <2> QED
    BY <2>3 DEF IInv, Found
<1>7. Emptied'
  BY DEF IInv, Emptied
<1>8. Nearby'
  BY <1>3 DEF IInv, Nearby, Early, First
<1>9. Heard'
  BY DEF IInv, Heard
<1>10. Unanswered' /\ Fresh'
  BY DEF IInv, Unanswered, Items, Fresh, First
<1> QED
  BY <1>1, <1>2, <1>5, <1>6, <1>7, <1>8, <1>9, <1>10 DEF IInv

LEMMA AskKeeps ==
  ASSUME IInv, RecallAssumption, NEW request \in Requests, Ask(request) \/ SpawnFails(request)
  PROVE  IInv'
<1>1. UNCHANGED <<rows, mapped>> /\ steady' = Ids
  BY DEF Ask, SpawnFails
<1>2. \/ reader' = Begun(request, "project")
      \/ reader' = [Begun(request, "done") EXCEPT !.answer = Silent]
  BY DEF Ask, SpawnFails
<1>3. /\ DOMAIN reader' = ReaderFields
      /\ reader'.request = request /\ reader'.candidates = <<>>
      /\ reader'.read = {} /\ reader'.ecosystems = {}
      /\ \/ reader'.at = "project" /\ reader'.answer = NoAnswer
         \/ reader'.at = "done"
  <2>1. CASE reader' = Begun(request, "project")
    BY <2>1 DEF Begun, Idle, ReaderFields
  <2>2. CASE reader' = [Begun(request, "done") EXCEPT !.answer = Silent]
    BY <2>2 DEF Begun, Idle, ReaderFields
  <2> QED
    BY <1>2, <2>1, <2>2
<1>4. reader'.at # "idle"
  BY <1>3
<1>5. Range(reader'.candidates) = {} /\ reader'.candidates \in Seq(Capsules(AllIds))
  BY <1>3 DEF Range
<1>6. Ids \subseteq CapsuleIds
  <2>1. ASSUME NEW i \in DOMAIN rows
        PROVE  rows[i].id \in CapsuleIds
    <3>1. rows[i] \in Capsules(CapsuleIds)
      BY DEF IInv, Types
    <3> QED
      BY <3>1, CapsuleFields
  <2> QED
    BY <2>1 DEF Ids
<1>7. Types'
  BY <1>1, <1>3, <1>4, <1>5, <1>6 DEF IInv, Types
<1>8. Same' /\ AllLocal' /\ Narrow' /\ Nearby' /\ Fresh'
  BY <1>3, <1>5 DEF Same, AllLocal, Narrow, Nearby, Fresh
<1>9. Found'
  BY <1>3 DEF Found, Searched, ReadToTheEnd
<1>10. Emptied' /\ Heard' /\ Unanswered'
  BY <1>3 DEF Emptied, Heard, Unanswered, Items, NoAnswer
<1> QED
  BY <1>7, <1>8, <1>9, <1>10 DEF IInv

LEMMA QuietKeeps ==
  ASSUME IInv, FindProject \/ ReadTelemetry \/ ProcessEnds
  PROVE  IInv'
<1>1. DOMAIN reader = ReaderFields
  BY DEF IInv, Types
<1>2. CASE FindProject
  <2> DEFINE at == IF mapped THEN "telemetry"
                   ELSE IF UnrecognizedQuery(reader.request) THEN "deliver" ELSE "sparse"
  <2>1. /\ UNCHANGED <<rows, mapped, steady>> /\ reader.at = "project"
        /\ reader' = [reader EXCEPT !.found = mapped, !.at = at]
    BY <1>2 DEF FindProject
  <2>2. at \in {"telemetry", "deliver", "sparse"}
    OBVIOUS
  <2> HIDE DEF at
  <2>3. /\ DOMAIN reader' = ReaderFields /\ reader'.candidates = reader.candidates
        /\ reader'.read = reader.read /\ reader'.ecosystems = reader.ecosystems
        /\ reader'.context = reader.context /\ reader'.intent = reader.intent
        /\ reader'.request = reader.request /\ reader'.answer = reader.answer /\ reader'.at = at
    BY <1>1, <2>1 DEF ReaderFields
  <2>4. reader.at # "idle" /\ reader.at \in Early /\ reader.at \in First
        /\ {reader.at, reader'.at} \subseteq {"project", "telemetry", "local", "sparse", "deliver"}
    BY <2>1, <2>2, <2>3 DEF Early, First
  <2> QED
    BY <2>1, <2>3, <2>4, Carried
<1>3. CASE ReadTelemetry
  <2> DEFINE at == IF UnrecognizedQuery(reader.request) THEN "deliver" ELSE "local"
             size == SummaryBytes(HookSummary(IF mapped THEN Executions ELSE <<>>,
                                              Options(reader.request)))
  <2>1. /\ UNCHANGED <<rows, mapped, steady>> /\ reader.at = "telemetry"
        /\ reader' = [reader EXCEPT !.telemetry = size, !.at = at]
    BY <1>3 DEF ReadTelemetry
  <2>2. at \in {"local", "deliver"}
    OBVIOUS
  <2> HIDE DEF at, size
  <2>3. /\ DOMAIN reader' = ReaderFields /\ reader'.candidates = reader.candidates
        /\ reader'.read = reader.read /\ reader'.ecosystems = reader.ecosystems
        /\ reader'.context = reader.context /\ reader'.intent = reader.intent
        /\ reader'.request = reader.request /\ reader'.answer = reader.answer /\ reader'.at = at
    BY <1>1, <2>1 DEF ReaderFields
  <2>4. reader.at # "idle" /\ reader.at \in Early /\ reader.at \in First
        /\ {reader.at, reader'.at} \subseteq {"project", "telemetry", "local", "sparse", "deliver"}
    BY <2>1, <2>2, <2>3 DEF Early, First
  <2> QED
    BY <2>1, <2>3, <2>4, Carried
<1>4. CASE ProcessEnds
  <2>1. /\ UNCHANGED <<rows, mapped, steady>>
        /\ reader' = [reader EXCEPT !.at = "done"] /\ reader.at # "idle"
    BY <1>4 DEF ProcessEnds, IInv, Types
  <2>2. /\ DOMAIN reader' = ReaderFields /\ reader'.candidates = reader.candidates
        /\ reader'.read = reader.read /\ reader'.ecosystems = reader.ecosystems
        /\ reader'.context = reader.context /\ reader'.intent = reader.intent
        /\ reader'.request = reader.request /\ reader'.at = "done"
    BY <1>1, <2>1 DEF ReaderFields
  <2> QED
    BY <1>4, <2>1, <2>2, Carried
<1> QED
  BY <1>2, <1>3, <1>4

LEMMA SettleKeeps ==
  ASSUME IInv, reader.at # "idle", NEW answer, NEW ranked, Settle(answer, ranked)
  PROVE  IInv'
<1>1. DOMAIN reader = ReaderFields
  BY DEF IInv, Types
<1>2. /\ UNCHANGED <<rows, mapped, steady>>
      /\ reader' = [reader EXCEPT !.at = "done", !.ranked = ranked,
                                  !.answer = IF host = "released" THEN NoAnswer ELSE answer]
  BY DEF Settle
<1>3. /\ DOMAIN reader' = ReaderFields /\ reader'.candidates = reader.candidates
      /\ reader'.read = reader.read /\ reader'.ecosystems = reader.ecosystems
      /\ reader'.context = reader.context /\ reader'.intent = reader.intent
      /\ reader'.request = reader.request /\ reader'.at = "done"
  BY <1>1, <1>2 DEF ReaderFields
<1> QED
  BY <1>2, <1>3, Carried

LEMMA TimeoutKeeps ==
  ASSUME IInv, UNCHANGED <<rows, mapped, steady, reader>>,
         host' # "idle" => host # "idle"
  PROVE  IInv'
<1>1. Types' /\ Same' /\ Emptied' /\ Fresh' /\ Heard' /\ Unanswered'
  BY DEF IInv, Types, Same, Emptied, Fresh, Heard, Unanswered, Items
<1>2. AllLocal' = AllLocal /\ Own' = Own
  BY DEF AllLocal, Own, Ctx, ReaderIntent
<1>3. Nearby' /\ Narrow'
  BY <1>2 DEF IInv, Nearby, Narrow
<1>4. Found'
  <2>1. \A row : Searched(row)' <=> Searched(row)
    BY DEF Searched, ReadToTheEnd, Ecosystems, Ctx, ReaderIntent
  <2> QED
    BY <2>1 DEF IInv, Found
<1> QED
  BY <1>1, <1>3, <1>4 DEF IInv

(* Steps that read a bucket. *)
LEMMA BucketKeeps ==
  ASSUME RecallAssumption, IInv, UNCHANGED <<rows, mapped, steady, host>>,
         DOMAIN reader' = ReaderFields,
         reader'.context = reader.context, reader'.intent = reader.intent,
         reader'.request = reader.request, reader.at # "idle", reader'.at # "idle",
         NEW bucket \in SUBSET Range(rows), NEW scope, \A row \in bucket : row.scope = scope,
         reader'.candidates = reader.candidates \o Newest(bucket),
         \A row \in Range(rows) :
           Searched(row)' =>
             \/ row \in bucket
             \/ /\ row.scope \in reader.read
                /\ row.scope = "ecosystem" => row.ecosystem \notin reader.ecosystems
  PROVE  /\ Types' /\ Same' /\ Found'
         /\ Range(reader.candidates) \subseteq Range(reader'.candidates)
         /\ AllLocal /\ scope = "project" => AllLocal'
         /\ scope # "project" => Own' = Own
<1> DEFINE old == reader.candidates
           new == Newest(bucket)
<1>1. Types /\ Same /\ Found
  BY DEF IInv
<1>2. /\ reader'.candidates \in Seq(Capsules(AllIds))
      /\ Same'
      /\ Range(reader'.candidates) = Range(old) \cup Range(new)
      /\ Range(new) \subseteq bucket
      /\ ReadToTheEnd(scope)' => bucket \subseteq Range(reader'.candidates)
      /\ \A s \in reader.read : ReadToTheEnd(s)' => ReadToTheEnd(s)
  BY <1>1, BucketRead
<1>3. Types'
  BY <1>1, <1>2 DEF Types
<1>4. Found'
  <2> SUFFICES ASSUME NEW row \in Range(rows), Searched(row)'
               PROVE  row \in Range(reader'.candidates)
    BY DEF Found
  <2>1. row.id \in steady /\ ReadToTheEnd(row.scope)'
        /\ (row.scope \in {"project", "workspace"} => row.anchor = "here")
        /\ (row.scope = "ecosystem" => row.ecosystem \in Ecosystems)
    BY DEF Searched, Ecosystems, Ctx, ReaderIntent
  <2>2. CASE row \in bucket
    BY <1>2, <2>1, <2>2
  <2>3. CASE /\ row.scope \in reader.read
             /\ row.scope = "ecosystem" => row.ecosystem \notin reader.ecosystems
    <3>1. Searched(row)
      BY <1>2, <2>1, <2>3 DEF Searched
    <3> QED
      BY <1>1, <1>2, <3>1 DEF Found
  <2> QED
    BY <2>2, <2>3
<1>5. ASSUME AllLocal, scope = "project"
      PROVE  AllLocal'
  BY <1>2, <1>5 DEF AllLocal
<1>6. ASSUME scope # "project"
      PROVE  Own' = Own
  <2> DEFINE n == Len(old)
             m == Len(new)
             all == old \o new
  <2>1. old \in Seq(Capsules(AllIds)) /\ new \in Seq(Capsules(CapsuleIds))
    BY <1>1, NewestIs DEF Types
  <2> HIDE DEF new, old
  <2>2. /\ n \in Nat /\ m \in Nat /\ DOMAIN old = 1..n /\ DOMAIN new = 1..m
        /\ DOMAIN all = 1..(n + m)
        /\ \A i \in 1..(n + m) : all[i] = IF i <= n THEN old[i] ELSE new[i - n]
    BY <2>1
  <2>3. ASSUME NEW i \in 1..(n + m), ~(i <= n)
        PROVE  all[i].scope # "project"
    <3>1. i - n \in 1..m /\ all[i] = new[i - n]
      BY <2>2, <2>3
    <3>2. new[i - n] \in bucket
      BY <1>2, <2>2, <3>1 DEF Range
    <3> QED
      BY <1>6, <3>1, <3>2
  <2>4. Own' = {i \in DOMAIN all : /\ all[i].scope = "project" /\ all[i].lifecycle = "active"
                                   /\ Applicable(Ctx, ReaderIntent, all[i])}
    BY DEF Own, Ctx, ReaderIntent, old, new
  <2>5. Own = {i \in DOMAIN old : /\ old[i].scope = "project" /\ old[i].lifecycle = "active"
                                  /\ Applicable(Ctx, ReaderIntent, old[i])}
    BY DEF Own, old
  <2> HIDE DEF all
  <2>6. ASSUME NEW i
        PROVE  i \in Own' <=> i \in Own
    <3>1. CASE i \in 1..n
      BY <2>2, <2>4, <2>5, <3>1
    <3>2. CASE i \in 1..(n + m) /\ ~(i <= n)
      BY <2>2, <2>3, <2>4, <2>5, <3>2
    <3>3. CASE i \notin 1..(n + m)
      BY <2>2, <2>4, <2>5, <3>3
    <3> QED
      BY <2>2, <3>1, <3>2, <3>3
  <2> QED
    BY <2>4, <2>5, <2>6
<1> HIDE DEF new
<1> QED
  BY <1>2, <1>3, <1>4, <1>5, <1>6

LEMMA ReadProjectKeeps ==
  ASSUME RecallAssumption, IInv, ReadProject
  PROVE  IInv'
<1> DEFINE bucket == {row \in Rows("project") : row.anchor = "here"}
<1>1. DOMAIN reader = ReaderFields /\ reader.at = "local"
  BY DEF IInv, Types, ReadProject
<1>2. /\ UNCHANGED <<rows, mapped, steady, host>>
      /\ reader' = [reader EXCEPT !.candidates = Newest(bucket), !.read = {"project"},
                                  !.at = "practices"]
  BY DEF ReadProject, ProjectRows
<1>3. /\ bucket \in SUBSET Range(rows)
      /\ \A row \in bucket : row.scope = "project"
      /\ \A row \in Range(rows) : row.scope = "project" /\ row.anchor = "here" => row \in bucket
  BY DEF Rows
<1> HIDE DEF bucket
<1>4. /\ DOMAIN reader' = ReaderFields /\ reader'.candidates = Newest(bucket)
      /\ reader'.read = {"project"} /\ reader'.ecosystems = reader.ecosystems
      /\ reader'.context = reader.context /\ reader'.intent = reader.intent
      /\ reader'.request = reader.request /\ reader'.answer = reader.answer
      /\ reader'.at = "practices"
  BY <1>1, <1>2 DEF ReaderFields
<1>5. reader.candidates = <<>> /\ reader.read = {}
  BY <1>1 DEF IInv, Fresh, First
<1>6. Newest(bucket) = reader.candidates \o Newest(bucket)
  <2>1. Newest(bucket) \in Seq(Capsules(CapsuleIds))
    BY <1>3, NewestIs DEF IInv, Types
  <2> QED
    BY <1>5, <2>1
<1>7. ASSUME NEW row \in Range(rows), Searched(row)'
      PROVE  row \in bucket
  BY <1>3, <1>4, <1>7 DEF Searched, ReadToTheEnd
<1>8. /\ Types' /\ Same' /\ Found'
      /\ AllLocal => AllLocal'
  <2>1. reader'.candidates = reader.candidates \o Newest(bucket)
    BY <1>4, <1>6
  <2>2. reader.at # "idle" /\ reader'.at # "idle"
    BY <1>1, <1>4
  <2> QED
    BY <1>2, <1>3, <1>4, <1>7, <2>1, <2>2, BucketKeeps
<1>9. AllLocal'
  BY <1>1, <1>8 DEF IInv, Nearby, Early, First
<1>10. /\ Emptied' /\ Unanswered' /\ Heard' /\ Nearby' /\ Narrow' /\ Fresh'
  BY <1>1, <1>4, <1>9 DEF IInv, Emptied, Unanswered, Heard, Nearby, Narrow, Fresh, First, Items
<1> QED
  BY <1>8, <1>10 DEF IInv

LEMMA ReadPracticesKeeps ==
  ASSUME RecallAssumption, IInv, ReadPractices
  PROVE  IInv'
<1> DEFINE T == Capsules(AllIds)
           old == reader.candidates
           new == IF mapped THEN Legacy ELSE <<>>
           all == old \o new
<1>1. DOMAIN reader = ReaderFields /\ reader.at = "practices"
  BY DEF IInv, Types, ReadPractices
<1>2. /\ UNCHANGED <<rows, mapped, steady, host>>
      /\ reader' = [reader EXCEPT !.candidates = all, !.at = "sparse"]
  BY DEF ReadPractices
<1>3. /\ new \in Seq(T)
      /\ \A copy \in Range(new) : copy.id \in LegacyIds /\ copy.scope = "project"
      /\ mapped => Range(Legacy) \subseteq Range(new)
  <2>1. /\ Legacy \in Seq(Capsules(LegacyIds)) /\ \A copy \in Range(Legacy) : copy.scope = "project"
    BY LegacyTyped
  <2>2. Range(Legacy) \subseteq Capsules(LegacyIds)
    BY <2>1, RangeIs
  <2>3. Capsules(LegacyIds) \subseteq T
    BY DEF Capsules, AllIds
  <2>4. Legacy \in Seq(T)
    BY <2>1, <2>3
  <2>5. \A copy \in Range(Legacy) : copy.id \in LegacyIds
    BY <2>2, CapsuleFields
  <2>6. Range(<<>>) = {} /\ <<>> \in Seq(T)
    BY DEF Range
  <2> QED
    BY <2>1, <2>4, <2>5, <2>6
<1>4. old \in Seq(T)
  BY DEF IInv, Types
<1> HIDE DEF T, old, new
<1>5. all \in Seq(T) /\ Range(all) = Range(old) \cup Range(new)
  BY <1>3, <1>4, RangeJoined
<1> HIDE DEF all
<1>6. /\ DOMAIN reader' = ReaderFields /\ reader'.candidates = all
      /\ reader'.read = reader.read /\ reader'.ecosystems = reader.ecosystems
      /\ reader'.context = reader.context /\ reader'.intent = reader.intent
      /\ reader'.request = reader.request /\ reader'.answer = reader.answer
      /\ reader'.at = "sparse"
  BY <1>1, <1>2 DEF ReaderFields
<1>7. Types'
  BY <1>1, <1>2, <1>5, <1>6 DEF IInv, Types, T
<1>8. Same'
  <2> SUFFICES ASSUME NEW copy \in Range(all), copy.id \in steady
               PROVE  copy \in Range(rows)
    BY <1>2, <1>6 DEF Same
  <2>1. CASE copy \in Range(old)
    BY <2>1 DEF IInv, Same, old
  <2>2. CASE copy \in Range(new)
    <3>1. copy.id \in LegacyIds
      BY <1>3, <2>2
    <3>2. steady \cap LegacyIds = {}
      BY DEF IInv, Types, RecallAssumption
    <3> QED
      BY <3>1, <3>2
  <2> QED
    BY <1>5, <2>1, <2>2
<1>9. ASSUME NEW row \in Range(rows), Searched(row)'
      PROVE  row \in Range(all)
  <2>1. CountOf(old, row.scope) \in Nat /\ CountOf(all, row.scope) \in Nat
        /\ CountOf(old, row.scope) <= CountOf(all, row.scope)
    BY <1>3, <1>4, CountGrows DEF all
  <2>2. CountOf(all, row.scope) < Window /\ row.scope \in reader.read /\ Window \in Nat
    BY <1>6, <1>9 DEF Searched, ReadToTheEnd, CountOf, RecallAssumption
  <2>3. ReadToTheEnd(row.scope)
    BY <2>1, <2>2 DEF ReadToTheEnd, CountOf, old
  <2>4. Searched(row)
    BY <1>2, <1>6, <1>9, <2>3 DEF Searched, Ecosystems, Ctx, ReaderIntent
  <2> QED
    BY <1>5, <2>4 DEF IInv, Found, old
<1>10. Found'
  BY <1>2, <1>6, <1>9 DEF Found
<1>11. AllLocal'
  <2>1. AllLocal
    BY <1>1 DEF IInv, Nearby, Early
  <2> QED
    BY <1>3, <1>5, <1>6, <2>1 DEF AllLocal, old
<1>12. Heard'
  BY <1>2, <1>3, <1>5, <1>6 DEF Heard, Legacy, Told, LegacyCapsule
<1>13. Emptied' /\ Unanswered' /\ Nearby' /\ Narrow' /\ Fresh'
  BY <1>1, <1>6, <1>11 DEF IInv, Emptied, Unanswered, Nearby, Narrow, Fresh, First, Items
<1> QED
  BY <1>7, <1>8, <1>10, <1>12, <1>13 DEF IInv

(* Too few of what was read apply, and so too few of the project's own.    *)
LEMMA SparseOwn ==
  ASSUME RecallAssumption, IInv, LocallySparse(reader.candidates)
  PROVE  Cardinality(Own) < Sparse
<1> DEFINE S == {i \in DOMAIN reader.candidates :
                   /\ reader.candidates[i].lifecycle = "active"
                   /\ Applicable(Ctx, ReaderIntent, reader.candidates[i])}
<1>1. Own \subseteq S
  BY DEF Own
<1>2. IsFiniteSet(S)
  <2>1. DOMAIN reader.candidates = 1..Len(reader.candidates) /\ Len(reader.candidates) \in Nat
    BY DEF IInv, Types
  <2>2. IsFiniteSet(1..Len(reader.candidates))
    BY IndicesFinite DEF IInv, Types
  <2>3. S \subseteq 1..Len(reader.candidates)
    BY <2>1
  <2> HIDE DEF S
  <2> QED
    BY <2>2, <2>3, FS_Subset
<1>3. Cardinality(S) < Sparse
  BY DEF LocallySparse
<1> HIDE DEF S
<1>4. Cardinality(Own) <= Cardinality(S) /\ Cardinality(S) \in Nat /\ Cardinality(Own) \in Nat
  BY <1>1, <1>2, FS_Subset, FS_CardinalityType
<1>5. Sparse \in Nat
  BY DEF RecallAssumption
<1> QED
  BY <1>3, <1>4, <1>5

LEMMA FindWorkspaceKeeps ==
  ASSUME RecallAssumption, IInv, FindWorkspace
  PROVE  IInv'
<1>1. DOMAIN reader = ReaderFields /\ reader.at = "sparse" /\ UNCHANGED <<rows, mapped, steady, host>>
  BY DEF IInv, Types, FindWorkspace
<1>2. CASE ~LocallySparse(reader.candidates)
  <2>1. reader' = [reader EXCEPT !.at = "deliver"]
    BY <1>2 DEF FindWorkspace
  <2>2. /\ DOMAIN reader' = ReaderFields /\ reader'.candidates = reader.candidates
        /\ reader'.read = reader.read /\ reader'.ecosystems = reader.ecosystems
        /\ reader'.context = reader.context /\ reader'.intent = reader.intent
        /\ reader'.request = reader.request /\ reader'.answer = reader.answer
        /\ reader'.at = "deliver"
    BY <1>1, <2>1 DEF ReaderFields
  <2>3. reader.at # "idle" /\ reader'.at \notin Early /\ reader'.at \notin First
        /\ {reader.at, reader'.at} \subseteq {"project", "telemetry", "local", "sparse", "deliver"}
    BY <1>1, <2>2 DEF Early, First
  <2> QED
    BY <1>1, <2>2, <2>3, Carried
<1>3. CASE LocallySparse(reader.candidates)
  <2>1. Cardinality(Own) < Sparse
    BY <1>3, SparseOwn
  <2>2. PICK read, ecosystems, at :
          /\ reader' = [reader EXCEPT !.read = read, !.ecosystems = ecosystems, !.at = at]
          /\ \/ read = reader.read /\ ecosystems = reader.ecosystems /\ at = "workspace"
             \/ /\ read = reader.read \cup {"workspace", "ecosystem"}
                /\ ecosystems = Ecosystems /\ at = "ecosystems"
                /\ \A row \in Rows("workspace") : row.anchor # "here"
    <3>1. CASE reader' = [reader EXCEPT !.at = "workspace"]
      <4>1. reader' = [reader EXCEPT !.read = reader.read, !.ecosystems = reader.ecosystems,
                                     !.at = "workspace"]
        BY <1>1, <3>1 DEF ReaderFields
      <4> QED
        BY <4>1
    <3>2. CASE /\ reader' = [reader EXCEPT !.read = @ \cup {"workspace", "ecosystem"},
                                           !.ecosystems = Ecosystems, !.at = "ecosystems"]
               /\ \A row \in Rows("workspace") : row.anchor # "here"
      BY <3>2
    <3> QED
      BY <1>3, <3>1, <3>2 DEF FindWorkspace
  <2>3. /\ DOMAIN reader' = ReaderFields /\ reader'.candidates = reader.candidates
        /\ reader'.read = read /\ reader'.ecosystems = ecosystems
        /\ reader'.context = reader.context /\ reader'.intent = reader.intent
        /\ reader'.request = reader.request /\ reader'.answer = reader.answer
        /\ reader'.at = at
    BY <1>1, <2>2 DEF ReaderFields
  <2>4. reader.at # "idle" /\ reader'.at # "idle" /\ reader.at \in Early
        /\ reader'.at \notin First /\ reader'.at # "done"
    BY <1>1, <2>2, <2>3 DEF Early, First
  <2>5. Types'
    BY <1>1, <2>3, <2>4 DEF IInv, Types
  <2>6. Same' /\ (AllLocal' <=> AllLocal) /\ Own' = Own /\ Ecosystems' = Ecosystems
    BY <1>1, <2>3 DEF IInv, Same, AllLocal, Own, Ecosystems, Ctx, ReaderIntent
  <2>7. Found'
    <3>1. ASSUME NEW row \in Range(rows), Searched(row)'
          PROVE  row \in Range(reader.candidates)
      <4>1. Searched(row)
        <5>1. /\ row.id \in steady /\ row.scope \in read
              /\ Cardinality({i \in DOMAIN reader.candidates :
                                reader.candidates[i].scope = row.scope}) < Window
              /\ row.scope \in {"project", "workspace"} => row.anchor = "here"
              /\ row.scope = "ecosystem" => row.ecosystem \in Ecosystems \ ecosystems
          BY <1>1, <2>3, <2>6, <3>1 DEF Searched, ReadToTheEnd
        <5>2. row.scope = "workspace" /\ row.anchor = "here" => row \in Rows("workspace")
          BY DEF Rows
        <5>3. row.scope \in reader.read
              /\ (row.scope = "ecosystem" => row.ecosystem \in Ecosystems \ reader.ecosystems)
          BY <2>2, <5>1, <5>2
        <5> QED
          BY <5>1, <5>3 DEF Searched, ReadToTheEnd
      <4> QED
        BY <4>1 DEF IInv, Found
    <3> QED
      BY <1>1, <2>3, <3>1 DEF Found
  <2>8. Nearby' /\ Narrow' /\ Fresh'
    BY <2>1, <2>4, <2>6 DEF IInv, Nearby, Narrow, Fresh
  <2>9. Heard'
    BY <1>1, <2>2, <2>3 DEF IInv, Heard
  <2>10. Emptied' /\ Unanswered'
    BY <1>1, <2>2, <2>3, <2>4 DEF IInv, Emptied, Unanswered
  <2> QED
    BY <2>5, <2>6, <2>7, <2>8, <2>9, <2>10 DEF IInv
<1> QED
  BY <1>2, <1>3

LEMMA ReadWorkspaceKeeps ==
  ASSUME RecallAssumption, IInv, ReadWorkspace
  PROVE  IInv'
<1> DEFINE bucket == {row \in Rows("workspace") : row.anchor = "here"}
<1>1. /\ DOMAIN reader = ReaderFields /\ reader.at = "workspace"
      /\ UNCHANGED <<rows, mapped, steady, host>>
  BY DEF IInv, Types, ReadWorkspace
<1>2. reader' = [reader EXCEPT !.candidates = @ \o Newest(bucket),
                               !.read = @ \cup {"workspace", "ecosystem"},
                               !.ecosystems = Ecosystems, !.at = "ecosystems"]
  BY DEF ReadWorkspace, WorkspaceRows
<1>3. /\ bucket \in SUBSET Range(rows)
      /\ \A row \in bucket : row.scope = "workspace"
      /\ \A row \in Range(rows) : row.scope = "workspace" /\ row.anchor = "here" => row \in bucket
  BY DEF Rows
<1> HIDE DEF bucket
<1>4. /\ DOMAIN reader' = ReaderFields
      /\ reader'.candidates = reader.candidates \o Newest(bucket)
      /\ reader'.read = reader.read \cup {"workspace", "ecosystem"}
      /\ reader'.ecosystems = Ecosystems
      /\ reader'.context = reader.context /\ reader'.intent = reader.intent
      /\ reader'.request = reader.request /\ reader'.answer = reader.answer
      /\ reader'.at = "ecosystems"
  BY <1>1, <1>2 DEF ReaderFields
<1>5. Ecosystems' = Ecosystems
  BY <1>4 DEF Ecosystems, Ctx, ReaderIntent
<1>6. ASSUME NEW row \in Range(rows), Searched(row)'
      PROVE  \/ row \in bucket
             \/ /\ row.scope \in reader.read
                /\ row.scope = "ecosystem" => row.ecosystem \notin reader.ecosystems
  <2>1. row.scope # "ecosystem"
    BY <1>4, <1>5, <1>6 DEF Searched
  <2>2. row.scope \in reader.read \cup {"workspace"}
    BY <1>4, <1>6, <2>1 DEF Searched, ReadToTheEnd
  <2>3. row.scope = "workspace" => row.anchor = "here"
    BY <1>6 DEF Searched
  <2> QED
    BY <1>3, <2>1, <2>2, <2>3
<1>7. /\ Types' /\ Same' /\ Found' /\ Own' = Own
      /\ Range(reader.candidates) \subseteq Range(reader'.candidates)
  <2> DEFINE scope == "workspace"
  <2>1. /\ DOMAIN reader' = ReaderFields /\ UNCHANGED <<rows, mapped, steady, host>>
        /\ reader'.context = reader.context /\ reader'.intent = reader.intent
        /\ reader'.request = reader.request
        /\ reader.at # "idle" /\ reader'.at # "idle" /\ scope # "project"
        /\ reader'.candidates = reader.candidates \o Newest(bucket)
    BY <1>1, <1>4
  <2>2. bucket \in SUBSET Range(rows) /\ \A row \in bucket : row.scope = scope
    BY <1>3
  <2> HIDE DEF scope
  <2> QED
    BY <1>6, <2>1, <2>2, BucketKeeps
<1>8. Cardinality(Own) < Sparse
  BY <1>1 DEF IInv, Narrow
<1>9. Heard'
  BY <1>1, <1>4, <1>7 DEF IInv, Heard
<1>10. Emptied' /\ Unanswered' /\ Nearby' /\ Narrow' /\ Fresh'
  BY <1>1, <1>4, <1>7, <1>8 DEF IInv, Emptied, Unanswered, Nearby, Narrow, Fresh, First, Early, Items
<1> QED
  BY <1>7, <1>9, <1>10 DEF IInv

(* The buckets beyond the workspace.                                       *)
LEMMA BeyondKeeps ==
  ASSUME RecallAssumption, IInv, UNCHANGED <<rows, mapped, steady, host>>,
         reader.at \in {"ecosystems", "global"}, reader'.at \in {"ecosystems", "global", "deliver"},
         DOMAIN reader' = ReaderFields,
         reader'.context = reader.context, reader'.intent = reader.intent,
         reader'.request = reader.request, reader'.answer = reader.answer,
         NEW bucket \in SUBSET Range(rows), NEW scope, scope # "project",
         \A row \in bucket : row.scope = scope,
         reader'.candidates = reader.candidates \o Newest(bucket),
         "project" \in reader'.read => "project" \in reader.read,
         Emptied',
         \A row \in Range(rows) :
           Searched(row)' =>
             \/ row \in bucket
             \/ /\ row.scope \in reader.read
                /\ row.scope = "ecosystem" => row.ecosystem \notin reader.ecosystems
  PROVE  IInv'
<1>1. /\ Types' /\ Same' /\ Found' /\ Own' = Own
      /\ Range(reader.candidates) \subseteq Range(reader'.candidates)
  BY BucketKeeps
<1>2. Heard'
  BY <1>1 DEF IInv, Heard
<1>3. Unanswered' /\ Nearby' /\ Narrow' /\ Fresh'
  BY <1>1 DEF IInv, Unanswered, Nearby, Narrow, Fresh, First, Early, Items
<1> QED
  BY <1>1, <1>2, <1>3 DEF IInv

LEMMA ReadEcosystemKeeps ==
  ASSUME RecallAssumption, IInv, ReadEcosystem
  PROVE  IInv'
<1>1. DOMAIN reader = ReaderFields /\ reader.at = "ecosystems" /\ UNCHANGED <<rows, mapped, steady, host>>
  BY DEF IInv, Types, ReadEcosystem
<1>2. PICK e \in reader.ecosystems :
        reader' = [reader EXCEPT !.candidates = @ \o EcosystemRows(e), !.ecosystems = @ \ {e}]
  BY DEF ReadEcosystem
<1> DEFINE bucket == {row \in Rows("ecosystem") : row.ecosystem = e}
<1>3. /\ bucket \in SUBSET Range(rows)
      /\ \A row \in bucket : row.scope = "ecosystem"
      /\ \A row \in Range(rows) : row.scope = "ecosystem" /\ row.ecosystem = e => row \in bucket
  BY DEF Rows
<1>4. EcosystemRows(e) = Newest(bucket)
  BY DEF EcosystemRows
<1> HIDE DEF bucket
<1>5. /\ DOMAIN reader' = ReaderFields
      /\ reader'.candidates = reader.candidates \o Newest(bucket)
      /\ reader'.read = reader.read /\ reader'.ecosystems = reader.ecosystems \ {e}
      /\ reader'.context = reader.context /\ reader'.intent = reader.intent
      /\ reader'.request = reader.request /\ reader'.answer = reader.answer
      /\ reader'.at = "ecosystems"
  BY <1>1, <1>2, <1>4 DEF ReaderFields
<1>6. ASSUME NEW row \in Range(rows), Searched(row)'
      PROVE  \/ row \in bucket
             \/ /\ row.scope \in reader.read
                /\ row.scope = "ecosystem" => row.ecosystem \notin reader.ecosystems
  <2>1. row.scope \in reader.read /\ (row.scope = "ecosystem" => row.ecosystem \notin reader.ecosystems \ {e})
    BY <1>5, <1>6 DEF Searched, ReadToTheEnd
  <2> QED
    BY <1>3, <2>1
<1>7. Emptied'
  BY <1>5 DEF Emptied
<1>8. reader.at \in {"ecosystems", "global"} /\ reader'.at \in {"ecosystems", "global", "deliver"}
      /\ "ecosystem" # "project" /\ ("project" \in reader'.read => "project" \in reader.read)
  BY <1>1, <1>5
<1> QED
  BY <1>1, <1>3, <1>5, <1>6, <1>7, <1>8, BeyondKeeps

LEMMA ReadLastKeeps ==
  ASSUME RecallAssumption, IInv, ReadMachine \/ ReadGlobal
  PROVE  IInv'
<1>1. DOMAIN reader = ReaderFields /\ UNCHANGED <<rows, mapped, steady, host>>
  BY DEF IInv, Types, ReadMachine, ReadGlobal
<1>2. PICK scope \in {"machine", "global"} :
        /\ reader.ecosystems = {}
        /\ reader.at \in {"ecosystems", "global"}
        /\ \E at \in {"global", "deliver"} :
             reader' = [reader EXCEPT !.candidates = @ \o Newest(Rows(scope)),
                                      !.read = @ \cup {scope}, !.at = at]
  <2>1. CASE ReadMachine
    BY <2>1 DEF ReadMachine, MachineRows
  <2>2. CASE ReadGlobal
    BY <2>2 DEF ReadGlobal, GlobalRows, IInv, Emptied
  <2> QED
    BY <2>1, <2>2
<1>3. PICK at \in {"global", "deliver"} :
        reader' = [reader EXCEPT !.candidates = @ \o Newest(Rows(scope)),
                                 !.read = @ \cup {scope}, !.at = at]
  BY <1>2
<1> DEFINE bucket == Rows(scope)
<1>4. /\ bucket \in SUBSET Range(rows)
      /\ \A row \in bucket : row.scope = scope
      /\ \A row \in Range(rows) : row.scope = scope => row \in bucket
  BY DEF Rows
<1>5. /\ DOMAIN reader' = ReaderFields
      /\ reader'.candidates = reader.candidates \o Newest(bucket)
      /\ reader'.read = reader.read \cup {scope} /\ reader'.ecosystems = reader.ecosystems
      /\ reader'.context = reader.context /\ reader'.intent = reader.intent
      /\ reader'.request = reader.request /\ reader'.answer = reader.answer
      /\ reader'.at = at
  BY <1>1, <1>3 DEF ReaderFields
<1> HIDE DEF bucket
<1>6. ASSUME NEW row \in Range(rows), Searched(row)'
      PROVE  \/ row \in bucket
             \/ /\ row.scope \in reader.read
                /\ row.scope = "ecosystem" => row.ecosystem \notin reader.ecosystems
  <2>1. row.scope \in reader.read \cup {scope}
    BY <1>5, <1>6 DEF Searched, ReadToTheEnd
  <2> QED
    BY <1>2, <1>4, <2>1
<1>7. Emptied'
  BY <1>2, <1>5 DEF Emptied
<1>8. reader.at \in {"ecosystems", "global"} /\ reader'.at \in {"ecosystems", "global", "deliver"}
      /\ scope # "project" /\ ("project" \in reader'.read => "project" \in reader.read)
  BY <1>2, <1>5
<1> QED
  BY <1>1, <1>4, <1>5, <1>6, <1>7, <1>8, BeyondKeeps

(* Writes by other processes. *)
LEMMA ChangeKeeps ==
  ASSUME IInv, UNCHANGED <<reader, host>>, mapped' => mapped,
         rows' \in Seq(Capsules(CapsuleIds)),
         \A r, s \in Range(rows') : r.id = s.id => r = s,
         steady' \subseteq steady,
         \A row : row.id \in steady' => (row \in Range(rows) <=> row \in Range(rows'))
  PROVE  IInv'
<1>1. Types' /\ Emptied' /\ Fresh' /\ Unanswered'
  BY DEF IInv, Types, Emptied, Fresh, Unanswered, Items
<1>2. Heard'
  BY DEF IInv, Heard, Legacy, Told, LegacyCapsule
<1>3. AllLocal' = AllLocal /\ Own' = Own
  BY DEF AllLocal, Own, Ctx, ReaderIntent
<1>4. Nearby' /\ Narrow'
  BY <1>3 DEF IInv, Nearby, Narrow
<1>5. Same'
  BY DEF IInv, Same
<1>6. ASSUME NEW row, Searched(row)'
      PROVE  Searched(row) /\ row.id \in steady'
  BY <1>6 DEF Searched, ReadToTheEnd, Ecosystems, Ctx, ReaderIntent
<1>7. Found'
  BY <1>6 DEF IInv, Found
<1> QED
  BY <1>1, <1>2, <1>4, <1>5, <1>7 DEF IInv

LEMMA WriteKeeps ==
  ASSUME IInv, NEW capsule \in Capsules(CapsuleIds), Write(capsule)
  PROVE  IInv'
<1> DEFINE keep == {row \in Range(rows) : row.id # capsule.id}
           rest == Only(rows, keep)
<1>1. /\ UNCHANGED <<reader, host, mapped>> /\ steady' = steady \ {capsule.id}
      /\ rows' = <<capsule>> \o rest
  BY DEF Write
<1>2. rows \in Seq(Capsules(CapsuleIds))
      /\ \A r, s \in Range(rows) : r.id = s.id => r = s
  BY DEF IInv, Types
<1>3. rest \in Seq(Capsules(CapsuleIds)) /\ Range(rest) = keep
  <2>1. rest \in Seq(Capsules(CapsuleIds)) /\ Range(rest) = Range(rows) \cap keep
    <3> HIDE DEF keep
    <3> QED
      BY <1>2, OnlyItems
  <2> QED
    BY <2>1
<1> HIDE DEF rest
<1>4. /\ <<capsule>> \in Seq(Capsules(CapsuleIds)) /\ Range(<<capsule>>) = {capsule}
  BY DEF Range
<1>5. rows' \in Seq(Capsules(CapsuleIds)) /\ Range(rows') = {capsule} \cup keep
  <2> DEFINE T == Capsules(CapsuleIds)
             first == <<capsule>>
  <2>1. first \in Seq(T) /\ rest \in Seq(T) /\ Range(first) = {capsule} /\ Range(rest) = keep
    BY <1>3, <1>4
  <2> HIDE DEF T, first
  <2>2. first \o rest \in Seq(T) /\ Range(first \o rest) = Range(first) \cup Range(rest)
    BY <2>1, RangeJoined
  <2> QED
    BY <1>1, <2>1, <2>2 DEF T, first
<1>6. \A r, s \in Range(rows') : r.id = s.id => r = s
  BY <1>2, <1>5
<1>7. \A row : row.id \in steady' => (row \in Range(rows) <=> row \in Range(rows'))
  BY <1>1, <1>5
<1>8. steady' \subseteq steady /\ (mapped' => mapped)
  BY <1>1
<1> QED
  BY <1>1, <1>5, <1>6, <1>7, <1>8, ChangeKeeps

LEMMA ForgetKeeps ==
  ASSUME IInv, Forget
  PROVE  IInv'
<1> DEFINE keep == {row \in Range(rows) : row.origin # "here"}
<1>1. /\ UNCHANGED <<reader, host>> /\ mapped' = FALSE
      /\ steady' = steady \ {rows[i].id : i \in {n \in DOMAIN rows : rows[n].origin = "here"}}
      /\ rows' = Only(rows, keep)
  BY DEF Forget
<1>2. rows \in Seq(Capsules(CapsuleIds))
      /\ \A r, s \in Range(rows) : r.id = s.id => r = s
  BY DEF IInv, Types
<1>3. rows' \in Seq(Capsules(CapsuleIds)) /\ Range(rows') = keep
  <2>1. rows' \in Seq(Capsules(CapsuleIds)) /\ Range(rows') = Range(rows) \cap keep
    <3> HIDE DEF keep
    <3> QED
      BY <1>1, <1>2, OnlyItems
  <2> QED
    BY <2>1
<1>4. \A r, s \in Range(rows') : r.id = s.id => r = s
  BY <1>2, <1>3
<1>5. ASSUME NEW row, row.id \in steady', row \in Range(rows)
      PROVE  row.origin # "here"
  <2>1. PICK n \in DOMAIN rows : rows[n] = row
    BY <1>5 DEF Range
  <2> QED
    BY <1>1, <1>5, <2>1
<1>6. \A row : row.id \in steady' => (row \in Range(rows) <=> row \in Range(rows'))
  BY <1>3, <1>5
<1>7. steady' \subseteq steady /\ (mapped' => mapped)
  BY <1>1
<1> QED
  BY <1>1, <1>3, <1>4, <1>6, <1>7, ChangeKeeps

LEMMA CapsuleChanged ==
  ASSUME NEW ids, NEW c \in Capsules(ids)
  PROVE  /\ \A lifecycle \in DOMAIN LifecycleWeight :
              [c EXCEPT !.lifecycle = lifecycle] \in Capsules(ids)
         /\ \A evidence \in Seq(Entries), last \in Nat :
              [c EXCEPT !.evidence = evidence, !.last = last] \in Capsules(ids)
<1>1. ASSUME NEW lifecycle \in DOMAIN LifecycleWeight
      PROVE  [c EXCEPT !.lifecycle = lifecycle] \in Capsules(ids)
  BY DEF Capsules
<1>2. ASSUME NEW evidence \in Seq(Entries), NEW last \in Nat
      PROVE  [c EXCEPT !.evidence = evidence, !.last = last] \in Capsules(ids)
  BY DEF Capsules
<1> QED
  BY <1>1, <1>2

LEMMA OthersKeep ==
  ASSUME RecallAssumption, IInv, Confirm \/ Transition \/ Record
  PROVE  IInv'
<1>1. \A i \in DOMAIN rows : rows[i] \in Capsules(CapsuleIds)
  BY DEF IInv, Types
<1>2. CASE Confirm
  <2>1. PICK i \in DOMAIN rows, outcome \in {"success", "failure"} :
          \E lifecycle \in {rows[i].lifecycle}
                           \cup (IF rows[i].lifecycle = "challenged" THEN {"active"} ELSE {}) :
            Write([Confirmation(rows[i], outcome) EXCEPT !.lifecycle = lifecycle])
    BY <1>2 DEF Confirm
  <2>2. PICK lifecycle \in {rows[i].lifecycle}
                           \cup (IF rows[i].lifecycle = "challenged" THEN {"active"} ELSE {}) :
          Write([Confirmation(rows[i], outcome) EXCEPT !.lifecycle = lifecycle])
    BY <2>1
  <2> DEFINE row == rows[i]
             entry == [day |-> Today, outcome |-> outcome, verification |-> "none",
                       tool |-> None, major |-> None, host |-> Host]
             capsule == [Confirmation(row, outcome) EXCEPT !.lifecycle = lifecycle]
  <2>3. row \in Capsules(CapsuleIds)
    BY <1>1
  <2>4. lifecycle \in DOMAIN LifecycleWeight
    BY <2>3, CapsuleFields DEF LifecycleWeight
  <2>5. Today \in Nat /\ Host \in STRING /\ "none" \in DOMAIN QualityWeight
    BY DEF RecallAssumption, QualityWeight
  <2>6. entry \in Entries
    BY <2>5 DEF Entries, Optional
  <2> HIDE DEF row, entry
  <2>7. Append(row.evidence, entry) \in Seq(Entries)
    BY <2>3, <2>6, CapsuleFields
  <2>8. Confirmation(row, outcome)
          = [row EXCEPT !.evidence = Append(row.evidence, entry), !.last = Today]
    BY DEF Confirmation, entry
  <2>9. Confirmation(row, outcome) \in Capsules(CapsuleIds)
    <3> DEFINE evidence == Append(row.evidence, entry)
    <3>1. evidence \in Seq(Entries) /\ Today \in Nat
      BY <2>5, <2>7
    <3>2. Confirmation(row, outcome) = [row EXCEPT !.evidence = evidence, !.last = Today]
      BY <2>8
    <3> HIDE DEF evidence
    <3>3. [row EXCEPT !.evidence = evidence, !.last = Today] \in Capsules(CapsuleIds)
      BY <2>3, <3>1, CapsuleChanged
    <3> QED
      BY <3>2, <3>3
  <2>10. capsule \in Capsules(CapsuleIds)
    BY <2>4, <2>9, CapsuleChanged
  <2> QED
    BY <2>2, <2>10, WriteKeeps DEF row
<1>3. CASE Transition
  <2>1. PICK i \in DOMAIN rows, lifecycle \in DOMAIN LifecycleWeight \ {"active"} :
          Write([rows[i] EXCEPT !.lifecycle = lifecycle])
    BY <1>3 DEF Transition
  <2>2. [rows[i] EXCEPT !.lifecycle = lifecycle] \in Capsules(CapsuleIds)
    BY <1>1, CapsuleChanged
  <2> QED
    BY <2>1, <2>2, WriteKeeps
<1>4. CASE Record
  <2>1. PICK capsule \in Unwritten : Write(capsule)
    BY <1>4 DEF Record
  <2>2. capsule \in Capsules(CapsuleIds)
    BY DEF RecallAssumption
  <2> QED
    BY <2>1, <2>2, WriteKeeps
<1> QED
  BY <1>2, <1>3, <1>4

LEMMA IInvStep ==
  ASSUME RecallAssumption, IInv, [Next]_vars
  PROVE  IInv'
<1>1. CASE UNCHANGED vars
  BY <1>1, TimeoutKeeps DEF vars
<1>2. CASE \E request \in Requests : Ask(request) \/ SpawnFails(request)
  BY <1>2, AskKeeps
<1>3. CASE FindProject \/ ReadTelemetry \/ ProcessEnds
  BY <1>3, QuietKeeps
<1>4. CASE \/ ReadProject \/ ReadPractices \/ FindWorkspace \/ ReadWorkspace
           \/ ReadEcosystem \/ ReadMachine \/ ReadGlobal
  BY <1>4, ReadProjectKeeps, ReadPracticesKeeps, FindWorkspaceKeeps, ReadWorkspaceKeeps,
     ReadEcosystemKeeps, ReadLastKeeps
<1>5. CASE Deliver \/ StaySilent
  <2>1. reader.at # "idle" /\ \E answer, ranked : Settle(answer, ranked)
    BY <1>5 DEF Deliver, StaySilent
  <2> QED
    BY <2>1, SettleKeeps
<1>6. CASE Fail
  <2>1. reader.at # "idle" /\ \E answer, ranked : Settle(answer, ranked)
    BY <1>6 DEF Fail
  <2> QED
    BY <2>1, SettleKeeps
<1>7. CASE Timeout
  <2>1. UNCHANGED <<rows, mapped, steady, reader>> /\ host # "idle"
    BY <1>7 DEF Timeout
  <2> QED
    BY <2>1, TimeoutKeeps
<1>8. CASE Confirm \/ Transition \/ Record
  BY <1>8, OthersKeep
<1>9. CASE Forget
  BY <1>9, ForgetKeeps
<1> QED
  BY <1>1, <1>2, <1>3, <1>4, <1>5, <1>6, <1>7, <1>8, <1>9 DEF Next

-----------------------------------------------------------------------------
(* Every answer is explained. *)

LEMMA LimitTyped ==
  ASSUME RecallAssumption, NEW request \in Requests
  PROVE  Options(request).limit \in Nat /\ request.mode \in Modes
<1>1. request.mode \in Modes /\ request.options.limit \in Nat /\ BriefLimit \in Nat
  BY DEF RecallAssumption
<1>2. CASE request.mode \in Preflights
  BY <1>1, <1>2 DEF Options
<1>3. CASE request.mode = "brief"
  <2>1. Options(request) = [request.options EXCEPT !.budget = MaxTokenBudget]
    BY <1>3 DEF Options, Preflights
  <2>2. [request.options EXCEPT !.budget = MaxTokenBudget].limit = request.options.limit
    BY DEF RecallAssumption
  <2> QED
    BY <1>1, <2>1, <2>2
<1>4. CASE request.mode = "recall"
  BY <1>1, <1>4 DEF Options, Preflights
<1> QED
  BY <1>1, <1>2, <1>3, <1>4 DEF Modes, Preflights

(* Nothing recalled is nothing delivered.                                  *)
LEMMA NothingDelivered ==
  ASSUME NEW request, request.mode \in Modes
  PROVE  Delivered(request, EmptyBrief).items = <<>>
<1>1. EmptyBrief.items = <<>>
  BY DEF EmptyBrief
<1> DEFINE found == EmptyBrief
           items == Delivered(request, found).items
<1>2. found.items \in Seq({}) /\ Range(found.items) = {}
  BY <1>1 DEF Range
<1> HIDE DEF found
<1>3. items \in Seq({})
  BY <1>2, DeliveredIs
<1> HIDE DEF items
<1>4. items = <<>>
  BY <1>3
<1> QED
  BY <1>4 DEF items, found

LEMMA ExplainedStep ==
  ASSUME RecallAssumption, IInv, Explained, [Next]_vars
  PROVE  Explained'
<1>1. /\ DOMAIN reader = ReaderFields
      /\ reader.at # "done" => reader.answer = NoAnswer
      /\ reader.at # "idle" => reader.request \in Requests
  BY DEF IInv, Types, Unanswered
<1>2. ASSUME UNCHANGED <<rows, mapped, steady, reader>>
      PROVE  Explained'
  <2>1. (Answered' <=> Answered) /\ (Unasked' <=> Unasked) /\ (Ranked' <=> Ranked)
    BY <1>2 DEF Answered, Unasked, Ranked, Items, ClustersNow, Fitting, Ctx, ReaderIntent,
                Legacy, Told, LegacyCapsule
  <2> QED
    BY <2>1 DEF Explained
<1>3. ASSUME reader'.at # "done"
      PROVE  Explained'
  BY <1>3 DEF Explained, Answered
<1>4. CASE UNCHANGED vars
  BY <1>2, <1>4 DEF vars
<1>5. CASE Timeout
  BY <1>2, <1>5 DEF Timeout
<1>6. CASE \E request \in Requests : Ask(request) \/ SpawnFails(request)
  <2>1. PICK request \in Requests : Ask(request) \/ SpawnFails(request)
    BY <1>6
  <2>2. CASE reader' = Begun(request, "project")
    <3>1. reader'.at = "project"
      BY <2>2 DEF Begun, Idle
    <3> QED
      BY <1>3, <3>1
  <2>3. CASE /\ reader' = [Begun(request, "done") EXCEPT !.answer = Silent]
             /\ request.mode \in Preflights
    <3>1. /\ reader'.request = request /\ reader'.ranked = <<>>
          /\ reader'.answer = Silent
      BY <2>3 DEF Begun, Idle
    <3>2. Silent.items = <<>>
      BY DEF Silent, Answer, EmptyBrief
    <3> QED
      BY <2>3, <3>1, <3>2 DEF Explained, Unasked, Items
  <2> QED
    BY <2>1, <2>2, <2>3 DEF Ask, SpawnFails, Preflights
<1>7. CASE \/ FindProject \/ ReadTelemetry \/ ReadProject \/ ReadPractices
           \/ FindWorkspace \/ ReadWorkspace \/ ReadEcosystem \/ ReadMachine \/ ReadGlobal
  <2>1. reader'.at \in {"telemetry", "deliver", "sparse", "local", "practices", "workspace",
                        "ecosystems", "global"}
    BY <1>1, <1>7 DEF FindProject, ReadTelemetry, ReadProject, ReadPractices, FindWorkspace,
                      ReadWorkspace, ReadEcosystem, ReadMachine, ReadGlobal, ReaderFields
  <2> QED
    BY <1>3, <2>1
<1>8. CASE ProcessEnds
  <2>1. reader'.answer = NoAnswer
    BY <1>1, <1>8 DEF ProcessEnds, ReaderFields
  <2> QED
    BY <2>1 DEF Explained, Answered, NoAnswer
<1>9. CASE Confirm \/ Transition \/ Record \/ Forget
  <2>1. reader' = reader /\ reader.at # "done"
    BY <1>9 DEF Confirm, Transition, Record, Forget, Write, MayWrite
  <2> QED
    BY <1>3, <2>1
<1>10. ASSUME NEW answer, NEW ranked, Settle(answer, ranked)
       PROVE  /\ reader'.at = "done" /\ reader'.ranked = ranked
              /\ reader'.answer = answer \/ reader'.answer = NoAnswer
              /\ reader'.request = reader.request /\ reader'.candidates = reader.candidates
              /\ reader'.context = reader.context /\ reader'.intent = reader.intent
              /\ reader'.read = reader.read /\ reader'.ecosystems = reader.ecosystems
              /\ reader'.telemetry = reader.telemetry
              /\ UNCHANGED <<rows, mapped, steady>>
  BY <1>1, <1>10 DEF Settle, ReaderFields
<1>11. ASSUME reader'.answer = NoAnswer
       PROVE  Explained'
  BY <1>11 DEF Explained, Answered, NoAnswer
<1>12. CASE Fail
  <2> DEFINE answer == CASE reader.request.mode \in Preflights -> Silent
                         [] reader.request.mode \notin Preflights /\ reader.request.bestEffort ->
                              Answer("unavailable", EmptyBrief)
                         [] OTHER -> Answer("error", EmptyBrief)
  <2>1. Settle(answer, <<>>)
    BY <1>12 DEF Fail
  <2>2. CASE reader.request.mode \in Preflights
    <3>1. answer = Silent
      BY <2>2
    <3>2. Silent.items = <<>>
      BY DEF Silent, Answer, EmptyBrief
    <3> HIDE DEF answer
    <3>3. CASE reader'.answer = answer
      BY <1>10, <2>1, <2>2, <3>1, <3>2, <3>3 DEF Explained, Unasked, Items
    <3> QED
      BY <1>10, <1>11, <2>1, <3>3
  <2>3. CASE reader.request.mode \notin Preflights
    <3>1. answer.status \in {"unavailable", "error"}
      BY <2>3 DEF Answer
    <3> HIDE DEF answer
    <3>2. CASE reader'.answer = answer
      BY <3>1, <3>2 DEF Explained, Answered
    <3> QED
      BY <1>10, <1>11, <2>1, <3>2
  <2> QED
    BY <2>2, <2>3
<1>13. CASE StaySilent
  <2>1. Settle(Silent, <<>>) /\ reader.request.mode \in Preflights
    BY <1>13 DEF StaySilent, Casual
  <2>2. Silent.items = <<>>
    BY DEF Silent, Answer, EmptyBrief
  <2>3. CASE reader'.answer = Silent
    BY <1>10, <2>1, <2>2, <2>3 DEF Explained, Unasked, Items
  <2> QED
    BY <1>10, <1>11, <2>1, <2>3
<1>14. CASE Deliver
  <2>1. reader.at = "deliver" /\ reader.request.mode \in Modes
    BY <1>1, <1>14, LimitTyped DEF Deliver
  <2>2. CASE UnrecognizedQuery(reader.request)
    <3> DEFINE answer == Delivered(reader.request, EmptyBrief)
    <3>1. Settle(answer, <<>>) /\ answer.items = <<>>
      BY <1>14, <2>1, <2>2, NothingDelivered DEF Deliver
    <3> HIDE DEF answer
    <3>2. CASE reader'.answer = answer
      <4>1. reader'.request = reader.request /\ reader'.ranked = <<>> /\ Items' = <<>>
        BY <1>10, <3>1, <3>2 DEF Items
      <4>2. UnrecognizedQuery(reader'.request)
        BY <2>2, <4>1
      <4> QED
        BY <4>1, <4>2 DEF Explained, Unasked
    <3> QED
      BY <1>10, <1>11, <3>1, <3>2
  <2>3. CASE ~UnrecognizedQuery(reader.request)
    <3>1. PICK order \in Orders(ClustersNow) :
            Settle(Delivered(reader.request, Fitting(order)), order)
      BY <1>14, <2>3 DEF Deliver, ClustersNow, Fitting
    <3> DEFINE answer == Delivered(reader.request, Fitting(order))
    <3>2. CASE reader'.answer = answer
      <4>1. ClustersNow' = ClustersNow /\ Fitting(order)' = Fitting(order)
        BY <1>10, <3>1 DEF ClustersNow, Fitting, Ctx, ReaderIntent
      <4>2. reader.ecosystems = {}
        BY <2>1 DEF IInv, Emptied
      <4>3. mapped /\ "project" \in reader.read => Range(Legacy) \subseteq Range(reader.candidates)
        BY <2>1 DEF IInv, Heard
      <4>4. Legacy' = Legacy
        BY DEF Legacy, Told, LegacyCapsule
      <4>5. Fitting(reader.ranked)' = Fitting(order)
        BY <1>10, <3>1 DEF Fitting, Ctx, ReaderIntent
      <4>6. reader'.ranked \in Orders(ClustersNow)'
        BY <1>10, <3>1, <4>1 DEF Orders
      <4> QED
        BY <1>10, <3>1, <3>2, <4>1, <4>2, <4>3, <4>4, <4>5, <4>6 DEF Explained, Ranked
    <3> QED
      BY <1>10, <1>11, <3>1, <3>2
  <2> QED
    BY <2>2, <2>3
<1> QED
  BY <1>4, <1>5, <1>6, <1>7, <1>8, <1>9, <1>12, <1>13, <1>14 DEF Next

-----------------------------------------------------------------------------
(* What an answer rests on. *)

(* A row that was due takes part, in the first of its copies.              *)
LEMMA DueTakesPart ==
  ASSUME IInv, reader.ecosystems = {}, NEW row \in DueRows
  PROVE  \E j \in Considered(Ctx, ReaderIntent, Options(reader.request), reader.candidates) :
           reader.candidates[j] = row
<1> DEFINE candidates == reader.candidates
           copies == {i \in DOMAIN candidates : candidates[i].id = row.id}
           j == Min(copies)
<1>1. /\ candidates \in Seq(Capsules(AllIds))
      /\ \A r, s \in Range(rows) : r.id = s.id => r = s
      /\ Same /\ Found
  BY DEF IInv, Types
<1>2. /\ row \in Range(rows) /\ row.id \in steady
      /\ Matches(Ctx, ReaderIntent, Options(reader.request), row)
      /\ Searched(row)
  BY DEF DueRows, Due, Searched
<1>3. row \in Range(candidates)
  BY <1>1, <1>2 DEF Found
<1>4. PICK i \in DOMAIN candidates : candidates[i] = row
  BY <1>3 DEF Range
<1>5. copies \subseteq Nat /\ i \in copies
  BY <1>1, <1>4
<1>6. j \in copies /\ \A k \in copies : j <= k
  <2> HIDE DEF copies
  <2> QED
    BY <1>5, LeastOf
<1> HIDE DEF j
<1>7. j \in DOMAIN candidates /\ j \in Nat /\ candidates[j].id = row.id
  BY <1>5, <1>6
<1>8. candidates[j] = row
  <2>1. candidates[j] \in Range(candidates)
    BY <1>7 DEF Range
  <2>2. candidates[j] \in Range(rows)
    BY <1>1, <1>2, <1>7, <2>1 DEF Same
  <2> QED
    BY <1>1, <1>2, <1>7, <2>2
<1>9. ASSUME NEW k \in 1..(j - 1)
      PROVE  candidates[k].id # candidates[j].id
  <2>1. k \in DOMAIN candidates /\ k \in Nat /\ k < j
    BY <1>1, <1>7
  <2> QED
    BY <1>6, <1>7, <2>1
<1>10. j \in Considered(Ctx, ReaderIntent, Options(reader.request), candidates)
  BY <1>2, <1>7, <1>8, <1>9 DEF Considered
<1> QED
  BY <1>8, <1>10

(* The ranked lessons are those of the candidates, each once; an answer    *)
(* shows some of them.                                                     *)
LEMMA RankedIs ==
  ASSUME RecallAssumption, IInv, Answered, Ranked
  PROVE  /\ reader.ranked \in Seq(ClustersNow)
         /\ Range(reader.ranked) = ClustersNow
         /\ \A i, j \in DOMAIN reader.ranked : reader.ranked[i] = reader.ranked[j] => i = j
         /\ Items \in Seq(ClustersNow)
         /\ \A x, y \in ClustersNow : x.identity = y.identity => x = y
<1> DEFINE order == reader.ranked
           C == ClustersNow
           swapped == Reserve(RiskSensitive(Ctx, ReaderIntent), order)
           limit == Options(reader.request).limit
           found == Fitting(order)
<1>1. reader.candidates \in Seq(Capsules(AllIds)) /\ reader.request \in Requests
  BY DEF IInv, Types, Answered
<1>2. limit \in Nat /\ reader.request.mode \in Modes
  BY <1>1, LimitTyped
<1>3. IsFiniteSet(C)
  BY <1>1, ClustersFinite DEF ClustersNow
<1>4. \A x, y \in C : x.identity = y.identity => x = y
  BY <1>1, OneEach DEF ClustersNow
<1>5. order \in Orders(C) /\ reader.answer = Delivered(reader.request, found)
  BY DEF Ranked
<1> HIDE DEF C, order, limit, found
<1>6. /\ order \in Seq(C) /\ Range(order) = C
      /\ \A i, j \in DOMAIN order : order[i] = order[j] => i = j
  BY <1>3, <1>5, OrderIs
<1>7. swapped \in Seq(C)
  BY <1>6, ReserveIs
<1>8. found = Budgeted(Limited(swapped, limit), reader.telemetry, Options(reader.request).budget)
  BY DEF Fitting, found, limit, order
<1> HIDE DEF swapped
<1>9. PICK k \in 0..Len(swapped) : found.items = SubSeq(swapped, 1, k)
  BY <1>2, <1>7, <1>8, BudgetedIs DEF Fits
<1>10. found.items \in Seq(C)
  BY <1>7, <1>9, SliceItems
<1>11. Items \in Seq(C)
  BY <1>2, <1>5, <1>10, DeliveredIs DEF Items
<1> QED
  BY <1>4, <1>6, <1>11 DEF C, order

(* What the recall command answers is the front of the ranking, the        *)
(* reserved one exchanged, as far as the limit and the budget allow.       *)
FrontOf(order, k) ==
  LET swapped == Reserve(RiskSensitive(Ctx, ReaderIntent), order)
      options == reader.request.options
  IN /\ k \in 0..Len(order)
     /\ Items = SubSeq(swapped, 1, k)
     /\ reader.answer.omitted = Len(order) - k
     /\ k <= options.limit
     /\ k # 0 => Settled(Items, reader.answer.omitted, reader.telemetry) <= options.budget

LEMMA RecalledIs ==
  ASSUME RecallAssumption, IInv, Answered, Ranked, reader.request.mode = "recall"
  PROVE  \E k : FrontOf(reader.ranked, k)
<1> DEFINE order == reader.ranked
           C == ClustersNow
           swapped == Reserve(RiskSensitive(Ctx, ReaderIntent), order)
           options == reader.request.options
           found == Fitting(order)
<1>1. reader.candidates \in Seq(Capsules(AllIds)) /\ reader.request \in Requests
  BY DEF IInv, Types, Answered
<1>2. /\ Options(reader.request) = options /\ options.limit \in Nat
      /\ reader.request.mode \in Modes
  BY <1>1, LimitTyped DEF Options, Preflights
<1>3. reader.answer = Delivered(reader.request, found)
  BY DEF Ranked
<1>4. order \in Seq(C)
  BY RankedIs
<1> HIDE DEF C, order, found
<1>5. swapped \in Seq(C) /\ Len(swapped) = Len(order)
  BY <1>4, ReserveIs
<1>6. found = Budgeted(Limited(swapped, options.limit), reader.telemetry, options.budget)
  BY <1>2 DEF Fitting, found, order
<1> HIDE DEF swapped, options
<1>7. PICK k \in 0..Len(swapped) :
        /\ found.items = SubSeq(swapped, 1, k)
        /\ found.omitted = Len(swapped) - k
        /\ k <= options.limit
        /\ k # 0 => Settled(found.items, found.omitted, reader.telemetry) <= options.budget
  <2> DEFINE limit == options.limit
             budget == options.budget
             telemetry == reader.telemetry
  <2>1. limit \in Nat /\ found = Budgeted(Limited(swapped, limit), telemetry, budget)
    BY <1>2, <1>6
  <2> HIDE DEF limit, budget, telemetry
  <2>2. \E k \in 0..Len(swapped) :
          /\ found.items = SubSeq(swapped, 1, k)
          /\ found.omitted = Len(swapped) - k
          /\ k <= limit
          /\ k # 0 => Settled(found.items, found.omitted, telemetry) <= budget
    <3>1. \E k \in 0..Len(swapped) :
            Fits(Budgeted(Limited(swapped, limit), telemetry, budget), k, swapped, limit,
                 telemetry, budget)
      BY <1>5, <2>1, BudgetedIs
    <3>2. \E k \in 0..Len(swapped) : Fits(found, k, swapped, limit, telemetry, budget)
      BY <2>1, <3>1
    <3> QED
      BY <3>2 DEF Fits
  <2> QED
    BY <2>2 DEF limit, budget, telemetry
<1>8. found.items \in Seq(C)
  BY <1>5, <1>7, SliceItems
<1>9. Items = found.items /\ reader.answer.omitted = found.omitted
  BY <1>2, <1>3, <1>8, DeliveredIs DEF Items
<1>10. FrontOf(order, k)
  BY <1>5, <1>7, <1>9 DEF FrontOf, swapped, options
<1> QED
  BY <1>10 DEF order

-----------------------------------------------------------------------------
(* What an answer may say. *)

LEMMA TextShown ==
  ASSUME RecallAssumption, IInv, Explained
  PROVE  TextNotHidden
<1> SUFFICES ASSUME Answered, NEW i \in DOMAIN Items, NEW row \in DueRows, row.lesson # None,
                    Identity(row) = Items[i].identity
             PROVE  Items[i].text
  BY DEF TextNotHidden
<1>1. Ranked
  BY DEF Explained, Unasked
<1>2. reader.candidates \in Seq(Capsules(AllIds)) /\ reader.ecosystems = {}
  BY <1>1 DEF IInv, Types, Ranked
<1>3. /\ Items \in Seq(ClustersNow)
      /\ \A x, y \in ClustersNow : x.identity = y.identity => x = y
  BY <1>1, RankedIs
<1>4. PICK j \in Considered(Ctx, ReaderIntent, Options(reader.request), reader.candidates) :
        reader.candidates[j] = row
  BY <1>2, DueTakesPart
<1>5. PICK x \in ClustersNow :
        /\ x.identity = Identity(reader.candidates[j])
        /\ reader.candidates[j].lesson # None => x.text
  BY <1>2, Clustered DEF ClustersNow
<1>6. Items[i] \in ClustersNow
  <2> DEFINE C == ClustersNow
  <2> HIDE DEF C
  <2>1. Items \in Seq(C)
    BY <1>3 DEF C
  <2>2. Items[i] \in C
    BY <2>1
  <2> QED
    BY <2>2 DEF C
<1>7. x = Items[i]
  BY <1>3, <1>4, <1>5, <1>6
<1> QED
  BY <1>4, <1>5, <1>7

LEMMA StrengthEarned ==
  ASSUME RecallAssumption, IInv, Explained
  PROVE  ConfirmedIndependently
<1> DEFINE candidates == reader.candidates
           told(i) == {n \in DOMAIN candidates : Identity(candidates[n]) = Items[i].identity}
<1> SUFFICES ASSUME Answered, NEW i \in DOMAIN Items
             PROVE  LET reported == Cardinality(Reports(candidates, told(i))) IN
                      /\ Items[i].strength = "moderate" => reported >= 4
                      /\ Items[i].strength = "strong" => reported >= 8
  BY DEF ConfirmedIndependently, Reports, ReportsOf, Report
<1>1. Ranked
  BY DEF Explained, Unasked
<1>2. candidates \in Seq(Capsules(AllIds)) /\ Today \in Nat
  BY DEF IInv, Types, RecallAssumption
<1> DEFINE considered == Considered(Ctx, ReaderIntent, Options(reader.request), candidates)
           C == ClustersNow
<1>3. Items \in Seq(C)
  BY <1>1, RankedIs
<1>4. considered \subseteq DOMAIN candidates
  BY <1>2, ConsideredIs
<1>5. \A x \in C : \E n \in considered :
        x = Cluster(Ctx, ReaderIntent, Today, candidates, Alike(candidates, considered, n))
  BY ClustersAre DEF ClustersNow
<1> HIDE DEF C, considered, candidates
<1>6. Items[i] \in C
  BY <1>3
<1>7. PICK n \in considered :
        Items[i] = Cluster(Ctx, ReaderIntent, Today, candidates, Alike(candidates, considered, n))
  BY <1>5, <1>6
<1> DEFINE members == Alike(candidates, considered, n)
           x == Cluster(Ctx, ReaderIntent, Today, candidates, members)
           o == ObservationsOf(Ctx, ReaderIntent, Today, candidates, members)
<1>8. x.identity = Identity(candidates[n]) /\ x.strength = Strength(o)
  <2>1. x.identity = Identity(candidates[n])
    BY <1>2, <1>4, ClusterIdentity
  <2>2. x.strength = Strength(o)
    BY DEF Cluster
  <2> QED
    BY <2>1, <2>2
<1>9. x = Items[i]
  BY <1>7
<1>10. members \subseteq told(i) /\ told(i) \subseteq DOMAIN candidates
  BY <1>4, <1>8, <1>9 DEF Alike
<1> HIDE DEF x, members, told
<1>11. /\ Strength(o) = "moderate" => Cardinality(Reports(candidates, told(i))) >= 4
       /\ Strength(o) = "strong" => Cardinality(Reports(candidates, told(i))) >= 8
  BY <1>2, <1>10, StrengthRests
<1> QED
  BY <1>8, <1>9, <1>11

LEMMA FailureFirst ==
  ASSUME RecallAssumption, IInv, Explained
  PROVE  FailureReserved
<1> SUFFICES ASSUME Answered, reader.request.mode = "recall", Items # <<>>,
                    RiskSensitive(Ctx, ReaderIntent),
                    NEW row \in DueRows, Count(row, "failure") > 0 \/ row.lifecycle = "challenged"
             PROVE  Items[1].failing
  BY DEF FailureReserved
<1>1. Ranked
  BY DEF Explained, Unasked
<1>2. reader.candidates \in Seq(Capsules(AllIds)) /\ reader.ecosystems = {}
  BY <1>1 DEF IInv, Types, Ranked
<1>3. PICK j \in Considered(Ctx, ReaderIntent, Options(reader.request), reader.candidates) :
        reader.candidates[j] = row
  BY <1>2, DueTakesPart
<1>4. PICK x \in ClustersNow :
        /\ x.identity = Identity(reader.candidates[j])
        /\ Count(reader.candidates[j], "failure") > 0
           \/ reader.candidates[j].lifecycle = "challenged" => x.failing
  BY <1>2, Clustered DEF ClustersNow
<1>5. x.failing
  BY <1>3, <1>4
<1> DEFINE order == reader.ranked
           C == ClustersNow
           reserve == RiskSensitive(Ctx, ReaderIntent)
           failing == FailingIn(order)
           best == Min(failing)
           swapped == Reserve(reserve, order)
<1>6. order \in Seq(C) /\ Range(order) = C /\ Items \in Seq(C)
  BY <1>1, RankedIs
<1>7. PICK k : k \in 0..Len(order) /\ Items = SubSeq(swapped, 1, k)
  BY <1>1, RecalledIs DEF FrontOf
<1>8. x \in C
  OBVIOUS
<1> HIDE DEF C
<1>9. failing # {}
  BY <1>5, <1>6, <1>8 DEF Range, FailingIn
<1>10. /\ swapped \in Seq(C) /\ Len(swapped) = Len(order)
       /\ best \in failing
       /\ Exchanged(order, swapped, best)
  <2>1. reserve /\ failing # {} /\ order \in Seq(C)
    BY <1>6, <1>9
  <2> HIDE DEF order, reserve
  <2> QED
    BY <2>1, ReserveIs
<1> HIDE DEF order, swapped, best
<1>11. k \in 1..Len(order) /\ 1 \in DOMAIN order /\ order[best].failing
  <2>1. k # 0
    BY <1>7, <1>10
  <2> QED
    BY <1>6, <1>7, <1>10, <2>1 DEF FailingIn
<1>12. k \in 0..Len(swapped) /\ 1 \in 1..k
  BY <1>6, <1>10, <1>11
<1>13. Items[1] = swapped[1]
  BY <1>7, <1>10, <1>12, SliceItems
<1> QED
  BY <1>10, <1>11, <1>13 DEF Exchanged

LEMMA TrimmedLast ==
  ASSUME RecallAssumption, IInv, Explained
  PROVE  TrimmedFromTheEnd
<1> DEFINE order == reader.ranked
           C == ClustersNow
           reserve == RiskSensitive(Ctx, ReaderIntent)
           best == Min(FailingIn(order))
           swapped == Reserve(reserve, order)
           shown(n) == order[n].identity \in ShownIdentities
<1> SUFFICES ASSUME Answered, reader.request.mode = "recall",
                    NEW i \in DOMAIN order, NEW j \in DOMAIN order, i < j, ~shown(i), shown(j)
             PROVE  (reserve /\ FailingIn(order) # {}) /\ (i = 1 \/ j = best)
  BY DEF TrimmedFromTheEnd, FailingIn
<1>1. Ranked
  BY DEF Explained, Unasked
<1>2. /\ order \in Seq(C)
      /\ \A m, n \in DOMAIN order : order[m] = order[n] => m = n
      /\ \A x, y \in C : x.identity = y.identity => x = y
  BY <1>1, RankedIs
<1>3. PICK k : k \in 0..Len(order) /\ Items = SubSeq(swapped, 1, k)
  BY <1>1, RecalledIs DEF FrontOf
<1>4. ShownIdentities = {Items[m].identity : m \in DOMAIN Items}
  BY DEF ShownIdentities
<1> HIDE DEF order, C, reserve
<1>5. /\ swapped \in Seq(C) /\ Len(swapped) = Len(order)
      /\ ~reserve \/ FailingIn(order) = {} => swapped = order
      /\ reserve /\ FailingIn(order) # {} =>
           best \in FailingIn(order) /\ Exchanged(order, swapped, best)
  BY <1>2, ReserveIs
<1>6. FailingIn(order) \subseteq DOMAIN order
  BY DEF FailingIn
<1> HIDE DEF swapped, best
<1>7. /\ DOMAIN order = 1..Len(order) /\ Len(order) \in Nat /\ k \in Nat /\ k <= Len(order)
      /\ i \in Nat /\ j \in Nat
      /\ \A m \in DOMAIN order : order[m] \in C
  BY <1>2, <1>3
<1>8. /\ Len(Items) = k /\ DOMAIN Items = 1..k
      /\ \A m \in 1..k : Items[m] = swapped[m]
  <2>1. k \in 0..Len(swapped)
    BY <1>3, <1>5
  <2> DEFINE items == SubSeq(swapped, 1, k)
  <2>2. items \in Seq(C) /\ Len(items) = k /\ \A m \in 1..k : items[m] = swapped[m]
    BY <1>5, <2>1, SliceItems
  <2>3. Items = items
    BY <1>3
  <2> HIDE DEF items
  <2> QED
    BY <2>2, <2>3
(* A lesson of the order is shown just where the exchange put it.          *)
<1>9. PICK m \in 1..k : swapped[m].identity = order[j].identity
  BY <1>4, <1>8
<1>10. ASSUME NEW n \in 1..k
       PROVE  swapped[n] # order[i]
  BY <1>4, <1>8, <1>10
<1>11. swapped[m] \in C /\ m \in DOMAIN order
  BY <1>5, <1>7
<1>12. swapped[m] = order[j]
  BY <1>2, <1>7, <1>9, <1>11
<1>13. CASE ~reserve \/ FailingIn(order) = {}
  <2>1. swapped = order
    BY <1>5, <1>13
  <2>2. m = j
    BY <1>2, <1>11, <1>12, <2>1
  <2>3. i \in 1..k
    BY <1>7, <2>2
  <2> QED
    BY <1>10, <2>1, <2>3
<1>14. CASE reserve /\ FailingIn(order) # {}
  <2>1. SUFFICES ASSUME i # 1, j # best
                 PROVE  FALSE
    BY <1>14
  <2>2. /\ best \in DOMAIN order /\ 1 \in DOMAIN order
        /\ \A n \in DOMAIN order :
             swapped[n] = IF n = best THEN order[1] ELSE IF n = 1 THEN order[best] ELSE order[n]
    BY <1>5, <1>6, <1>7, <1>14 DEF Exchanged
  <2>3. m = j
    <3>1. j # 1
      BY <1>7
    <3>2. m # best
      BY <1>2, <1>12, <2>2, <3>1
    <3>3. m # 1
      BY <1>2, <1>12, <2>1, <2>2, <3>2
    <3> QED
      BY <1>2, <1>11, <1>12, <2>2, <3>2, <3>3
  <2>4. i \in 1..k /\ 1 \in 1..k
    BY <1>7, <2>3
  <2>5. i # best
    <3>1. SUFFICES ASSUME i = best
                   PROVE  FALSE
      OBVIOUS
    <3>2. swapped[1] = order[i]
      BY <2>1, <2>2, <3>1
    <3> QED
      BY <1>10, <2>4, <3>2
  <2>6. swapped[i] = order[i]
    BY <2>1, <2>2, <2>5
  <2> QED
    BY <1>10, <2>4, <2>6
<1> QED
  BY <1>13, <1>14

LEMMA AllCounted ==
  ASSUME RecallAssumption, IInv, Explained
  PROVE  NothingOverlooked
<1> DEFINE order == reader.ranked
           C == ClustersNow
           reserve == RiskSensitive(Ctx, ReaderIntent)
           swapped == Reserve(reserve, order)
           options == reader.request.options
           n == Len(order)
           due == {Identity(row) : row \in DueRows}
<1> SUFFICES ASSUME Answered, reader.request.mode = "recall",
                    ~UnrecognizedQuery(reader.request)
             PROVE  /\ Cardinality(due \ ShownIdentities) <= reader.answer.omitted
                    /\ Len(Items) <= options.limit
                    /\ Items # <<>> =>
                         Settled(Items, reader.answer.omitted, reader.telemetry) <= options.budget
  BY DEF NothingOverlooked
<1>1. Ranked
  BY DEF Explained, Unasked, Preflights
<1>2. /\ order \in Seq(C) /\ Range(order) = C
  BY <1>1, RankedIs
<1>3. PICK k : FrontOf(order, k)
  BY <1>1, RecalledIs
<1>4. ShownIdentities = {Items[m].identity : m \in DOMAIN Items}
  BY DEF ShownIdentities
<1>5. ASSUME NEW identity \in due
      PROVE  \E x \in C : x.identity = identity
  <2>1. PICK row \in DueRows : identity = Identity(row)
    OBVIOUS
  <2>2. reader.candidates \in Seq(Capsules(AllIds)) /\ reader.ecosystems = {}
    BY <1>1 DEF IInv, Types, Ranked
  <2>3. PICK j \in Considered(Ctx, ReaderIntent, Options(reader.request), reader.candidates) :
          reader.candidates[j] = row
    BY <2>2, DueTakesPart
  <2>4. \E x \in ClustersNow :
          /\ x.identity = Identity(reader.candidates[j])
          /\ reader.candidates[j].lesson # None => x.text
    BY <2>2, Clustered DEF ClustersNow
  <2> QED
    BY <2>1, <2>3, <2>4
<1>6. /\ k \in 0..n
      /\ Items = SubSeq(swapped, 1, k)
      /\ reader.answer.omitted = n - k
      /\ k <= options.limit
      /\ k # 0 => Settled(Items, reader.answer.omitted, reader.telemetry) <= options.budget
  BY <1>3 DEF FrontOf
<1> HIDE DEF order, C, reserve, options, due
<1>7. /\ swapped \in Seq(C) /\ Len(swapped) = n
      /\ ~reserve \/ FailingIn(order) = {} => swapped = order
      /\ reserve /\ FailingIn(order) # {} =>
           /\ Min(FailingIn(order)) \in FailingIn(order)
           /\ Exchanged(order, swapped, Min(FailingIn(order)))
  BY <1>2, ReserveIs
<1>8. n \in Nat /\ k \in Nat /\ k <= n /\ DOMAIN order = 1..n
  BY <1>2, <1>6
<1>9. \A x \in C : \E m \in 1..n : swapped[m] = x
  <2> SUFFICES ASSUME NEW x \in C
               PROVE  \E m \in 1..n : swapped[m] = x
    OBVIOUS
  <2>1. PICK l \in 1..n : order[l] = x
    BY <1>2, <1>8 DEF Range
  <2>2. CASE ~reserve \/ FailingIn(order) = {}
    BY <1>7, <2>1, <2>2
  <2>3. CASE reserve /\ FailingIn(order) # {}
    <3> DEFINE best == Min(FailingIn(order))
    <3>1. best \in 1..n /\ Exchanged(order, swapped, best)
      BY <1>7, <1>8, <2>3 DEF FailingIn
    <3> HIDE DEF best, swapped
    <3>2. 1 \in 1..n
      BY <1>8, <3>1
    <3>3. /\ swapped[best] = order[1]
          /\ best # 1 => swapped[1] = order[best]
          /\ l \notin {1, best} => swapped[l] = order[l]
      BY <1>8, <2>1, <3>1, <3>2 DEF Exchanged
    <3>4. CASE l = 1
      BY <2>1, <3>1, <3>3, <3>4
    <3>5. CASE l = best /\ l # 1
      BY <2>1, <3>2, <3>3, <3>5
    <3>6. CASE l \notin {1, best}
      BY <2>1, <3>3, <3>6
    <3> QED
      BY <3>4, <3>5, <3>6
  <2> QED
    BY <2>2, <2>3
<1> HIDE DEF swapped, n
<1>10. /\ Len(Items) = k /\ DOMAIN Items = 1..k
       /\ \A m \in 1..k : Items[m] = swapped[m]
  <2>1. k \in 0..Len(swapped)
    BY <1>6, <1>7
  <2> DEFINE items == SubSeq(swapped, 1, k)
  <2>2. items \in Seq(C) /\ Len(items) = k /\ \A m \in 1..k : items[m] = swapped[m]
    BY <1>7, <2>1, SliceItems
  <2>3. Items = items
    BY <1>6
  <2> HIDE DEF items
  <2> QED
    BY <2>2, <2>3
<1> DEFINE I == (k + 1)..n
           f == [m \in I |-> swapped[m].identity]
           T == {f[m] : m \in I}
<1>11. due \ ShownIdentities \subseteq T
  <2> SUFFICES ASSUME NEW identity \in due, identity \notin ShownIdentities
               PROVE  identity \in T
    OBVIOUS
  <2>1. PICK m \in 1..n : swapped[m].identity = identity
    BY <1>5, <1>9
  <2>2. m \notin 1..k
    BY <1>4, <1>10, <2>1
  <2>3. m \in I
    BY <1>8, <2>2
  <2> QED
    BY <2>1, <2>3
<1>12. IsFiniteSet(I) /\ Cardinality(I) = n - k
  <2>1. n \in Int /\ k + 1 \in Int
    BY <1>8
  <2>2. /\ IsFiniteSet((k + 1)..n)
        /\ Cardinality((k + 1)..n) = IF k + 1 > n THEN 0 ELSE n - (k + 1) + 1
    <3> DEFINE a == k + 1
    <3> HIDE DEF a
    <3>1. a \in Int
      BY <2>1 DEF a
    <3>2. IsFiniteSet(a..n) /\ Cardinality(a..n) = IF a > n THEN 0 ELSE n - a + 1
      BY <2>1, <3>1, FS_Interval
    <3> QED
      BY <3>2 DEF a
  <2> QED
    BY <1>8, <2>2
<1>13. IsFiniteSet(T) /\ Cardinality(T) <= Cardinality(I)
  <2>1. f \in [I -> T] /\ \A x \in T : \E m \in I : f[m] = x
    OBVIOUS
  <2> HIDE DEF f, T, I
  <2>2. f \in Surjection(I, T)
    BY <2>1 DEF Surjection
  <2> QED
    BY <1>12, <2>2, FS_Surjection
<1> HIDE DEF T, f, I
<1>14. IsFiniteSet(due \ ShownIdentities)
       /\ Cardinality(due \ ShownIdentities) <= Cardinality(T)
  BY <1>11, <1>13, FS_Subset
<1>15. Cardinality(due \ ShownIdentities) \in Nat /\ Cardinality(T) \in Nat
  BY <1>13, <1>14, FS_CardinalityType
<1>16. Cardinality(due \ ShownIdentities) <= reader.answer.omitted
  BY <1>6, <1>8, <1>12, <1>13, <1>14, <1>15
<1>17. Items # <<>> => k # 0
  BY <1>10
<1> QED
  BY <1>6, <1>10, <1>16, <1>17

LEMMA BroaderSparse ==
  ASSUME RecallAssumption, IInv, Explained
  PROVE  BroaderOnlyWhenSparse
<1> DEFINE candidates == reader.candidates
           own == {row \in Rows("project") : row.anchor = "here" /\ row.id \in steady}
                  \cup (IF mapped THEN Range(Legacy) ELSE {})
           active == {capsule \in own : /\ capsule.lifecycle = "active"
                                        /\ Applicable(Ctx, ReaderIntent, capsule)}
<1> SUFFICES ASSUME Answered, NEW i \in DOMAIN Items, Items[i].scope # "project",
                    ReadToTheEnd("project")
             PROVE  Cardinality(active) < Sparse
  BY DEF BroaderOnlyWhenSparse
<1>1. Ranked
  BY DEF Explained, Unasked
<1>2. candidates \in Seq(Capsules(AllIds)) /\ Sparse \in Nat
  BY DEF IInv, Types, RecallAssumption
<1>3. Cardinality(Own) < Sparse
  <2> DEFINE considered == Considered(Ctx, ReaderIntent, Options(reader.request), candidates)
             C == ClustersNow
  <2>1. Items \in Seq(C)
    BY <1>1, RankedIs
  <2>2. considered \subseteq DOMAIN candidates
    BY <1>2, ConsideredIs
  <2>3. \A x \in C : \E n \in considered :
          x = Cluster(Ctx, ReaderIntent, Today, candidates, Alike(candidates, considered, n))
    BY ClustersAre DEF ClustersNow
  <2> HIDE DEF C, considered
  <2>4. PICK n \in considered :
          Items[i] = Cluster(Ctx, ReaderIntent, Today, candidates,
                             Alike(candidates, considered, n))
    BY <2>1, <2>3
  <2> DEFINE members == Alike(candidates, considered, n)
             r == Representative(Ctx, ReaderIntent, candidates, members)
  <2>5. members \subseteq DOMAIN candidates /\ n \in members
    BY <2>2 DEF Alike
  <2>6. r \in members
    <3> HIDE DEF members, candidates
    <3> QED
      BY <1>2, <2>5, RepresentativeExists
  <2>7. Items[i].scope = candidates[r].scope
    BY <2>4 DEF Cluster
  <2>8. ~AllLocal
    BY <2>5, <2>6, <2>7 DEF AllLocal, Range
  <2> QED
    BY <2>8 DEF IInv, Narrow
<1>4. ASSUME NEW capsule \in own
      PROVE  capsule \in Range(candidates) /\ capsule.scope = "project"
  <2>1. CASE capsule \in Rows("project") /\ capsule.anchor = "here" /\ capsule.id \in steady
    <3>1. capsule \in Range(rows) /\ capsule.scope = "project"
      BY <2>1 DEF Rows
    <3>2. Searched(capsule)
      BY <2>1, <3>1 DEF Searched
    <3> QED
      BY <3>1, <3>2 DEF IInv, Found
  <2>2. CASE mapped /\ capsule \in Range(Legacy)
    <3>1. "project" \in reader.read
      BY DEF ReadToTheEnd
    <3> QED
      BY <1>1, <2>2, <3>1, LegacyTyped DEF Ranked
  <2> QED
    BY <2>1, <2>2
<1> DEFINE f == [n \in Own |-> candidates[n]]
           T == {f[n] : n \in Own}
<1>5. active \subseteq T
  <2> SUFFICES ASSUME NEW capsule \in active
               PROVE  capsule \in T
    OBVIOUS
  <2>1. PICK n \in DOMAIN candidates : candidates[n] = capsule
    BY <1>4 DEF Range
  <2>2. n \in Own
    BY <1>4, <2>1 DEF Own
  <2> QED
    BY <2>1, <2>2
<1>6. IsFiniteSet(Own)
  <2>1. DOMAIN candidates = 1..Len(candidates) /\ IsFiniteSet(1..Len(candidates))
    BY <1>2, IndicesFinite
  <2>2. Own \subseteq DOMAIN candidates
    BY DEF Own
  <2> QED
    BY <2>1, <2>2, FS_Subset
<1>7. IsFiniteSet(T) /\ Cardinality(T) <= Cardinality(Own)
  <2>1. f \in [Own -> T] /\ \A x \in T : \E n \in Own : f[n] = x
    OBVIOUS
  <2> HIDE DEF f, T
  <2>2. f \in Surjection(Own, T)
    BY <2>1 DEF Surjection
  <2> QED
    BY <1>6, <2>2, FS_Surjection
<1> HIDE DEF T, f, active
<1>8. IsFiniteSet(active) /\ Cardinality(active) <= Cardinality(T)
  BY <1>5, <1>7, FS_Subset
<1>9. {Cardinality(active), Cardinality(T), Cardinality(Own)} \subseteq Nat
  BY <1>6, <1>7, <1>8, FS_CardinalityType
<1> QED
  BY <1>2, <1>3, <1>7, <1>8, <1>9

-----------------------------------------------------------------------------
(* What holds of every request. *)

(* Whatever other processes write between its queries: a copy of a capsule *)
(* nobody touched is the row as it stands, a row nobody touched of a bucket *)
(* read to its end is among the candidates, and broader scopes are read    *)
(* only after the project told too little (recall, scoped_experiences).    *)
THEOREM ReadingHolds == Spec => []IInv
<1>1. Init => IInv
  BY RecallAssumption, InitInv
<1>2. IInv /\ [Next]_vars => IInv'
  BY RecallAssumption, IInvStep
<1> QED
  BY <1>1, <1>2, PTL DEF Spec

(* An answer is the ranking of all that was read, cut by the limit and the *)
(* budget and handed over as the caller's mode has it; only an unrecognised *)
(* query and a silent preflight are answered without one (recall, rank,    *)
(* budgeted_result, brief).                                                *)
THEOREM AnswersExplained == Spec => [](IInv /\ Explained)
<1>1. Init => Explained
  BY DEF Init, Idle, Explained, Answered
<1>2. IInv /\ Explained /\ [Next]_vars => Explained'
  BY RecallAssumption, ExplainedStep
<1> QED
  BY <1>1, <1>2, ReadingHolds, PTL DEF Spec

(* Every matching lesson that was in the store throughout is shown or      *)
(* counted, and the answer keeps to its limit and its token budget.        *)
THEOREM OverlooksNothing == Spec => []NothingOverlooked
<1>1. IInv /\ Explained => NothingOverlooked
  BY RecallAssumption, AllCounted
<1> QED
  BY <1>1, AnswersExplained, PTL

(* A risk-sensitive request is told of a known failure first.              *)
THEOREM ReservesFailure == Spec => []FailureReserved
<1>1. IInv /\ Explained => FailureReserved
  BY RecallAssumption, FailureFirst
<1> QED
  BY <1>1, AnswersExplained, PTL

(* What is left out ranks below what is shown, but for the exchange.       *)
THEOREM TrimsFromTheEnd == Spec => []TrimmedFromTheEnd
<1>1. IInv /\ Explained => TrimmedFromTheEnd
  BY RecallAssumption, TrimmedLast
<1> QED
  BY <1>1, AnswersExplained, PTL

(* No repetition makes a lesson moderate or strong, whatever the scopes,   *)
(* ages, applicabilities and versions of what confirms it.                 *)
THEOREM ConfirmsIndependently == Spec => []ConfirmedIndependently
<1>1. IInv /\ Explained => ConfirmedIndependently
  BY RecallAssumption, StrengthEarned
<1> QED
  BY <1>1, AnswersExplained, PTL

(* A project that tells enough is not answered from beyond.                *)
THEOREM BroadensOnlyWhenSparse == Spec => []BroaderOnlyWhenSparse
<1>1. IInv /\ Explained => BroaderOnlyWhenSparse
  BY RecallAssumption, BroaderSparse
<1> QED
  BY <1>1, AnswersExplained, PTL

(* The text of a lesson is shown when any of its capsules has one.         *)
THEOREM HidesNoText == Spec => []TextNotHidden
<1>1. IInv /\ Explained => TextNotHidden
  BY RecallAssumption, TextShown
<1> QED
  BY <1>1, AnswersExplained, PTL
=============================================================================

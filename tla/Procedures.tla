----------------------------- MODULE Procedures -----------------------------
(***************************************************************************)
(* How work was done: the five dimensions and the steps of a Procedure,    *)
(* the single label v2 had for it, and the operation it is filtered by.    *)
(***************************************************************************)
EXTENDS Naturals, Sequences

NoMode == "none"

MutationModes ==
  {"structured_patch", "direct_text_mutation", "incremental_native_regeneration",
   "bulk_change"}
VerificationModes == {"targeted", "full", "native"}
ExecutionModes == {"preview_then_apply", "atomic_write", "native_tool"}
ResearchModes == {"reproduce_then_compare", "per_subject_streaming", "resource_cap_first"}
IntegrationModes == {"native_hook", "transcript_fallback"}
Steps ==
  {"inspect", "reproduce", "compare", "patch", "regenerate", "preview", "apply",
   "verify_targeted", "verify_full", "verify_native", "rollback", "hypothesize",
   "classify", "annotate"}
MaxProcedureSteps == 6

Procedure ==
  [mutation : MutationModes \cup {NoMode}, verification : VerificationModes \cup {NoMode},
   execution : ExecutionModes \cup {NoMode}, research : ResearchModes \cup {NoMode},
   integration : IntegrationModes \cup {NoMode}, steps : Seq(Steps)]

Strategies ==
  MutationModes \cup ExecutionModes \cup ResearchModes \cup IntegrationModes
    \cup {"targeted_verification", "full_verification", "other"}

EmptyProcedure ==
  [mutation |-> NoMode, verification |-> NoMode, execution |-> NoMode,
   research |-> NoMode, integration |-> NoMode, steps |-> <<>>]

ValidProcedure(p) == p # EmptyProcedure /\ Len(p.steps) <= MaxProcedureSteps

(* The migration of a v2 label; "other" becomes the native tool.            *)
FromStrategy(s) ==
  CASE s \in MutationModes -> [EmptyProcedure EXCEPT !.mutation = s]
    [] s = "targeted_verification" -> [EmptyProcedure EXCEPT !.verification = "targeted"]
    [] s = "full_verification" -> [EmptyProcedure EXCEPT !.verification = "full"]
    [] s \in {"native_tool", "atomic_write"} -> [EmptyProcedure EXCEPT !.execution = s]
    [] s = "preview_then_apply" ->
         [EmptyProcedure EXCEPT !.execution = s, !.steps = <<"preview", "apply">>]
    [] s = "reproduce_then_compare" ->
         [EmptyProcedure EXCEPT !.research = s, !.steps = <<"reproduce", "compare">>]
    [] s \in {"per_subject_streaming", "resource_cap_first"} ->
         [EmptyProcedure EXCEPT !.research = s]
    [] s \in IntegrationModes -> [EmptyProcedure EXCEPT !.integration = s]
    [] s = "other" -> [EmptyProcedure EXCEPT !.execution = "native_tool"]

(* The most specific dimension gives the label.                             *)
LegacyStrategy(p) ==
  IF p.mutation # NoMode THEN p.mutation
  ELSE IF p.research # NoMode THEN p.research
  ELSE IF p.verification # NoMode THEN
    IF p.verification = "native" THEN "native_tool"
    ELSE IF p.verification = "full" THEN "full_verification" ELSE "targeted_verification"
  ELSE IF p.execution # NoMode THEN p.execution
  ELSE IF p.integration # NoMode THEN p.integration
  ELSE "other"

(* The operation of a label.                                                *)
PracticeOperation(s) ==
  IF s \in MutationModes THEN "apply_patch"
  ELSE IF s = "atomic_write" THEN "write_file"
  ELSE IF s \in {"targeted_verification", "full_verification"} THEN "command"
  ELSE IF s \in ResearchModes THEN "analyze"
  ELSE "tool_call"

Classification(p) == PracticeOperation(LegacyStrategy(p))

=============================================================================

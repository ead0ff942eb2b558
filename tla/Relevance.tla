----------------------------- MODULE Relevance -----------------------------
(***************************************************************************)
(* Whether a stored lesson belongs to the task at hand, and how well: the  *)
(* hard exclusions of relevance.rs and the ContextMatcher of recall.rs.    *)
(*                                                                         *)
(* A context is what the caller knows of the task: explicit values (or     *)
(* None) outrank the hints of the query, which outrank the defaults of the *)
(* project.  The factors are the code's numbers as integers: terms in      *)
(* quarters, applicability in 1/800, so 800 is a perfect match.            *)
(***************************************************************************)
EXTENDS TaskIntent, Naturals, FiniteSets

CONSTANT Host   \* HostClass::current() of the recalling process

None == "none"

RelatedEcosystems ==
  {{"javascript", "typescript"}, {"php", "laravel"}, {"c", "cpp"}, {"cuda", "c"},
   {"cuda", "cpp"}}

CompatibleEcosystems(left, right) ==
  left = right \/ "generic" \in {left, right} \/ {left, right} \in RelatedEcosystems

EcosystemConflicts(explicit, inferred, recorded) ==
  /\ recorded # None
  /\ IF explicit # None THEN ~CompatibleEcosystems(explicit, recorded)
     ELSE /\ inferred # {}
          /\ \A hint \in inferred : ~CompatibleEcosystems(hint, recorded)

ToolConflicts(explicit, recorded) ==
  /\ None \notin {explicit, recorded} /\ "other" \notin {explicit, recorded}
  /\ explicit # recorded

-----------------------------------------------------------------------------
(* The hints on one dimension, by precedence.                               *)
Hints(explicit, inferred, default) ==
  IF explicit # None THEN {explicit}
  ELSE IF inferred # {} THEN inferred
  ELSE {default} \ {None}

(* In quarters: silence of the context costs nothing, an untagged lesson    *)
(* scores half, disagreement nothing.                                       *)
MatchTerm(hints, recorded) ==
  CASE hints = {} -> 4
    [] hints # {} /\ recorded = None -> 2
    [] OTHER -> IF recorded \in hints THEN 4 ELSE 0

(* exact_match_term: missing context or missing metadata is no agreement.   *)
ExactMatch(hints, recorded) == recorded # None /\ recorded \in hints

ArtifactHints(ctx, intent) == Hints(ctx.artifact, intent.artifacts, ctx.defaults.artifact)
EcosystemHints(ctx, intent) == Hints(ctx.ecosystem, intent.ecosystems, ctx.defaults.ecosystem)
ToolHints(ctx, intent) == Hints(ctx.tool, intent.tools, ctx.defaults.tool)
PhaseHints(ctx, intent) == Hints(ctx.phase, intent.phases, None)
Risks(ctx, intent) == IF ctx.risks # {} THEN ctx.risks ELSE intent.risks

(* The tool of a lesson is its tag or, without one, the first its evidence  *)
(* names.                                                                   *)
ToolOf(capsule) ==
  LET named == {i \in DOMAIN capsule.evidence : capsule.evidence[i].tool # None} IN
    IF capsule.tool # None \/ named = {} THEN capsule.tool
    ELSE capsule.evidence[CHOOSE i \in named : \A j \in named : i <= j].tool

(* A lesson from outside the project needs one exact agreement beyond the   *)
(* task category.                                                           *)
BroaderScopeAnchor(ctx, intent, capsule) ==
  \/ ExactMatch(ArtifactHints(ctx, intent), capsule.artifact)
  \/ ExactMatch(EcosystemHints(ctx, intent), capsule.ecosystem)
  \/ ExactMatch(ToolHints(ctx, intent), ToolOf(capsule))
  \/ ExactMatch(PhaseHints(ctx, intent), capsule.phase)
  \/ Risks(ctx, intent) \cap capsule.risks # {}

TaskAgrees(ctx, intent, capsule) ==
  IF ctx.task # None THEN capsule.task = ctx.task
  ELSE HasTaskHints(intent) => capsule.task \in intent.tasks

ContextComplete(capsule) == capsule.situation /\ capsule.lesson # None

(* The early returns of applicability.                                      *)
InRegion(ctx, intent, capsule) ==
  /\ ~EcosystemConflicts(ctx.ecosystem, intent.ecosystems, capsule.ecosystem)
  /\ ~ToolConflicts(ctx.tool, capsule.tool)
  /\ TaskAgrees(ctx, intent, capsule)
  /\ capsule.scope # "project" =>
       /\ ContextComplete(capsule)
       /\ ctx.asked /\ ctx.task = None => BroaderScopeAnchor(ctx, intent, capsule)

(* In quarters; an entry that names no host scores three, one on another    *)
(* host one.                                                                *)
EnvironmentTerm(capsule) ==
  LET term(entry) == CASE None \in {entry.host, Host} -> 3
                       [] OTHER -> IF entry.host = Host THEN 4 ELSE 1
      terms == {term(capsule.evidence[i]) : i \in DOMAIN capsule.evidence}
  IN IF terms = {} THEN 0 ELSE CHOOSE t \in terms : \A u \in terms : u <= t

(* In twentieths. *)
RiskFactor(ctx, intent, capsule) ==
  CASE Risks(ctx, intent) = {} -> 20
    [] Risks(ctx, intent) # {} /\ capsule.risks = {} -> 11
    [] OTHER -> IF Risks(ctx, intent) \cap capsule.risks # {} THEN 20 ELSE 2

(* The weights .35 .25 .20 .10 .10 in fortieths: ecosystem and tool share   *)
(* one.  The task term is 1 wherever the region is left.                    *)
Applicability(ctx, intent, capsule) ==
  LET quarters ==
        14 * 4 + 10 * MatchTerm(ArtifactHints(ctx, intent), capsule.artifact)
        + 4 * MatchTerm(EcosystemHints(ctx, intent), capsule.ecosystem)
        + 4 * MatchTerm(ToolHints(ctx, intent), ToolOf(capsule))
        + 4 * MatchTerm(PhaseHints(ctx, intent), capsule.phase)
        + 4 * EnvironmentTerm(capsule)
  IN (quarters * RiskFactor(ctx, intent, capsule)) \div 4

MinApplicability == 160               \* 0.2
BroaderScopeMinApplicability == 480   \* 0.6

Applicable(ctx, intent, capsule) ==
  /\ InRegion(ctx, intent, capsule)
  /\ Applicability(ctx, intent, capsule) >=
       IF capsule.scope = "project" THEN MinApplicability
       ELSE BroaderScopeMinApplicability

(* How far evidence from another major version of the tool counts, in       *)
(* twentieths.                                                              *)
MajorCompatibility(ctx, intent, entry) ==
  IF ctx.major = None THEN 20
  ELSE CASE entry.major = ctx.major -> 20
         [] entry.major = None -> 13
         [] OTHER -> IF "version_sensitive" \in ctx.risks \cup intent.risks THEN 2 ELSE 10

=============================================================================

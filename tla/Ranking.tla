------------------------------ MODULE Ranking ------------------------------
(***************************************************************************)
(* The second stage of recall: from the candidates read to the answer.     *)
(* Candidates with the same controlled identity are one lesson; lessons    *)
(* are ordered by score, a known failure may be reserved the first place,  *)
(* then the result limit and the token budget trim the end.                *)
(*                                                                         *)
(* An answer item is a record of what is shown of a lesson.  The width of  *)
(* the credible interval is left open, so a score is known to within the   *)
(* weight of confidence, and any order the scores allow may result.        *)
(***************************************************************************)
EXTENDS Relevance, EvidencePolicy, Procedures, SequencesExt

(* The items that are among some, in their order.                           *)
Only(items, some) ==
  LET kept[n \in 0..Len(items)] ==
        IF n = 0 THEN <<>>
        ELSE IF items[n] \in some THEN Append(kept[n - 1], items[n]) ELSE kept[n - 1]
  IN kept[Len(items)]

Count(capsule, outcome) ==
  Cardinality({i \in DOMAIN capsule.evidence : capsule.evidence[i].outcome = outcome})

Identity(capsule) ==
  [task |-> capsule.task, procedure |-> capsule.procedure, artifact |-> capsule.artifact,
   phase |-> capsule.phase, ecosystem |-> capsule.ecosystem, tool |-> capsule.tool,
   risks |-> capsule.risks]

(* A lesson that is not retired and that the filters and the context admit. *)
Matches(ctx, intent, options, capsule) ==
  /\ capsule.lifecycle \notin {"superseded", "obsolete"}
  /\ options.operation \in {None, Classification(capsule.procedure)}
  /\ options.failuresOnly => Count(capsule, "failure") > 0
  /\ Applicable(ctx, intent, capsule)

(* The candidates that take part: of each capsule the first copy.           *)
Considered(ctx, intent, options, candidates) ==
  {i \in DOMAIN candidates :
     /\ \A j \in 1..(i - 1) : candidates[j].id # candidates[i].id
     /\ Matches(ctx, intent, options, candidates[i])}

-----------------------------------------------------------------------------
(* Faulty variant: a lesson without text may stand for one that has it.     *)
OutranksByPrior(ctx, intent, left, right) ==
  ScopeWeight[left.scope] * Applicability(ctx, intent, left)
    > ScopeWeight[right.scope] * Applicability(ctx, intent, right)

(* representative_rank: text first, then the prior times the applicability, *)
(* then the latest confirmation; the first candidate keeps a tie.           *)
Outranks(ctx, intent, left, right) ==
  LET text(c) == IF c.lesson # None THEN 1 ELSE 0
      prior(c) == ScopeWeight[c.scope] * Applicability(ctx, intent, c)
  IN \/ text(left) > text(right)
     \/ text(left) = text(right) /\ prior(left) > prior(right)
     \/ text(left) = text(right) /\ prior(left) = prior(right) /\ left.last > right.last

Representative(ctx, intent, candidates, members) ==
  CHOOSE i \in members :
    \A j \in members :
      /\ ~Outranks(ctx, intent, candidates[j], candidates[i])
      /\ j < i => Outranks(ctx, intent, candidates[i], candidates[j])

(* What one entry of a candidate says, and what all those of some say.      *)
ObservationOf(ctx, intent, now, capsule, entry) ==
  Observation(BaseWeight(capsule.scope, now - entry.day, Applicability(ctx, intent, capsule),
                         capsule.lifecycle, MajorCompatibility(ctx, intent, entry)),
              entry)

ObservationsOf(ctx, intent, now, candidates, members) ==
  [p \in UNION {{i} \X DOMAIN candidates[i].evidence : i \in members} |->
     ObservationOf(ctx, intent, now, candidates[p[1]], candidates[p[1]].evidence[p[2]])]

(* A cluster: what the members of one identity say together, and the bounds *)
(* of its score in thousandths: applicability, guidance, recency, scope and *)
(* text weigh 450, 250, 100, 50 and 20, confidence the 150 left open.       *)
Cluster(ctx, intent, now, candidates, members) ==
  LET shown == candidates[Representative(ctx, intent, candidates, members)]
      applicability == Max({Applicability(ctx, intent, candidates[i]) : i \in members})
      prior == Max({ScopeWeight[candidates[i].scope] : i \in members})
      age == now - Max({candidates[i].last : i \in members})
      observations == ObservationsOf(ctx, intent, now, candidates, members)
      known == (450 * applicability) \div 800 + AgeWeight(shown.scope, age) \div 10
               + (50 * prior) \div 20 + IF shown.lesson # None THEN 20 ELSE 0
  IN [id |-> shown.id, identity |-> Identity(shown), scope |-> shown.scope,
      text |-> shown.lesson # None, complete |-> ContextComplete(shown),
      reference |-> ~shown.legacy, bytes |-> shown.bytes, note |-> shown.note,
      strength |-> Strength(observations),
      failing |-> \E i \in members : \/ Count(candidates[i], "failure") > 0
                                     \/ candidates[i].lifecycle = "challenged",
      least |-> known + Min(GuidanceStrengths(observations)) \div 4,
      most |-> known + Max(GuidanceStrengths(observations)) \div 4 + 150]

(* One cluster per identity. *)
Clusters(ctx, intent, options, now, candidates) ==
  LET considered == Considered(ctx, intent, options, candidates) IN
    {Cluster(ctx, intent, now, candidates,
             {j \in considered : Identity(candidates[j]) = Identity(candidates[i])}) :
       i \in considered}

-----------------------------------------------------------------------------
(* The orders the scores allow. *)
Orders(clusters) ==
  {order \in SetToSeqs(clusters) :
     \A i, j \in DOMAIN order : i < j => order[j].least <= order[i].most}

(* A risk-sensitive request: an explicit risk, or one in the query.         *)
RiskSensitive(ctx, intent) == Risks(ctx, intent) # {}

(* Faulty variant: nothing is reserved.                                     *)
KeepOrder(reserve, order) == order

(* The best failed or challenged lesson trades places with the first.       *)
Reserve(reserve, order) ==
  LET failing == {i \in DOMAIN order : order[i].failing}
      best == Min(failing)
  IN IF ~reserve \/ failing = {} THEN order
     ELSE [order EXCEPT ![1] = order[best], ![best] = order[1]]

(* rank: what fits the limit, and how many do not.                          *)
Limited(order, limit) ==
  [items |-> SubSeq(order, 1, Min({limit, Len(order)})),
   omitted |-> IF Len(order) > limit THEN Len(order) - limit ELSE 0]

-----------------------------------------------------------------------------
(* What the hook telemetry adds, if there is any.                           *)
Digits(n) == IF n < 10 THEN 1 ELSE IF n < 100 THEN 2 ELSE IF n < 1000 THEN 3 ELSE 4

HookSummary(executions, options) ==
  LET sampled == SelectSeq(executions, LAMBDA e : options.operation \in {None, e.operation})
      reported(outcome) == Len(SelectSeq(sampled, LAMBDA e : e.outcome = outcome))
  IN <<Len(sampled), reported("success"), reported("failure"), reported("unknown")>>

SummaryBytes(summary) ==
  IF summary[1] = 0 THEN 0 ELSE 93 + FoldFunction(LAMBDA n, sum : Digits(n) + sum, 0, summary)

(* estimate_tokens of an answer with items: four bytes a token, rounded up, *)
(* with the newline; the counts are written only when they are not zero.    *)
AnswerBytes == 36
Estimate(items, omitted, telemetry, tokens) ==
  LET bytes == FoldFunction(LAMBDA item, sum : item.bytes + 1 + sum, AnswerBytes, items)
               + telemetry + (IF omitted = 0 THEN 0 ELSE 11 + Digits(omitted))
               + (IF tokens = 0 THEN 0 ELSE 22 + Digits(tokens))
  IN (bytes + 1 + 3) \div 4

(* The estimate that counts its own digits: the first one that repeats.     *)
Settled(items, omitted, telemetry) ==
  LET e[n \in 0..4] == IF n = 0 THEN 0 ELSE Estimate(items, omitted, telemetry, e[n - 1])
  IN e[Min({n \in 1..4 : n = 4 \/ e[n] = e[n - 1]})]

(* Faulty variant: the best items are dropped first.                        *)
KeptLast(items, k) == SubSeq(items, Len(items) - k + 1, Len(items))
Kept(items, k) == SubSeq(items, 1, k)

(* Faulty variant: what the budget drops is not counted.                    *)
BudgetedSilently(answer, telemetry, budget) ==
  LET fits == {k \in DOMAIN answer.items :
                 Settled(Kept(answer.items, k), answer.omitted, telemetry) <= budget}
  IN [answer EXCEPT !.items = Kept(@, IF fits = {} THEN 0 ELSE Max(fits))]

(* budgeted_result: drops the last item until the estimate fits.            *)
Budgeted(answer, telemetry, budget) ==
  LET cut(k) == [items |-> Kept(answer.items, k),
                 omitted |-> answer.omitted + Len(answer.items) - k]
      fits == {k \in DOMAIN answer.items :
                 Settled(cut(k).items, cut(k).omitted, telemetry) <= budget}
  IN cut(IF fits = {} THEN 0 ELSE Max(fits))

-----------------------------------------------------------------------------
(* brief: the complete lessons of the answer; with a confirmed one among    *)
(* them only those, without one only those that can be confirmed; from the  *)
(* project first, and no more than one.                                     *)
BriefItems == 1

Eligible(items) ==
  LET complete == {item \in Range(items) : item.complete}
      confirmed == {item \in complete : item.strength # "limited"}
  IN Only(items, IF confirmed # {} THEN confirmed ELSE {item \in complete : item.reference})

ProjectFirst(items) ==
  LET ours == {item \in Range(items) : item.scope = "project"}
  IN Only(items, ours) \o Only(items, Range(items) \ ours)

Selected(items) ==
  LET sorted == ProjectFirst(Eligible(items))
  IN SubSeq(sorted, 1, Min({BriefItems, Len(sorted)}))

(* render_brief: whole notes are dropped from the end until the text fits;  *)
(* a brief without a note is empty.                                         *)
HeaderBytes == 82
ConfirmBytes == 86
OmittedBytes(n) ==
  IF n = 0 THEN 0 ELSE 44 + Digits(n) + IF n = 1 THEN 0 ELSE 1

TextBytes(items, omitted) ==
  FoldFunction(LAMBDA item, sum : item.note + sum, HeaderBytes, items)
    + (IF \E i \in DOMAIN items : items[i].reference THEN ConfirmBytes ELSE 0)
    + OmittedBytes(omitted)

EmptyBrief == [items |-> <<>>, omitted |-> 0]

Rendered(answer, budget) ==
  LET notes == Only(answer.items, {item \in Range(answer.items) : item.complete})
      cut(k) == [items |-> SubSeq(notes, 1, k), omitted |-> answer.omitted + Len(notes) - k]
      fits == {k \in DOMAIN notes : (TextBytes(cut(k).items, cut(k).omitted) + 4) \div 4 <= budget}
  IN IF fits = {} THEN EmptyBrief ELSE cut(Max(fits))

=============================================================================

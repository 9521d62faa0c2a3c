------------------------------- MODULE Scoring -------------------------------
(***************************************************************************)
(* eval/scoring.py with eval/compare_results.py: the saved results of a    *)
(* run are scored case by case against the ground truth.  match_claims     *)
(* gives each ground-truth claim, in order, the unused prediction of its   *)
(* document that overlaps it most; score_case and breakdown_by_issue_type  *)
(* count what came of it, each in its own way.                             *)
(*                                                                         *)
(* The word overlap of a claim and a prediction (_jaccard of excerpts or   *)
(* of subjects, whichever is larger) is chosen when a case is loaded, in   *)
(* percent.  Rates are kept as their two counts, and of a mean of rates    *)
(* whether it is None, 0, 1 or in between.                                 *)
(***************************************************************************)
EXTENDS Naturals, Sequences, FiniteSets, SequencesExt

CONSTANTS
  GroundTruth,     \* the cases: [manifest, claims]
  Documents,       \* document ids a prediction may cite
  Statuses,        \* verification statuses
  IssueTypes,
  Scores,          \* bound: overlaps, in percent
  MATCH_THRESHOLD,
  MaxPredictions   \* bound: claims predicted for one case

Categories == IssueTypes \cup {"none_clean"}

\* referential_errors of validate_ground_truth.py: a claim is about a document
\* of its case (its id is its place, so it is unique).
ReferentiallySound(gt) ==
  \A c \in DOMAIN gt.claims : gt.claims[c].doc \in gt.manifest

ASSUME ScoringAssumption ==
  /\ GroundTruth \in Seq([manifest : SUBSET Documents,
       claims : Seq([doc : Documents, expected : Statuses, issue : Categories])])
  /\ \A k \in DOMAIN GroundTruth : ReferentiallySound(GroundTruth[k])
  /\ IsFiniteSet(IssueTypes)
  /\ Scores \subseteq Nat /\ MaxPredictions \in Nat
  /\ MATCH_THRESHOLD \in Nat \ {0}

VARIABLES
  case,       \* number of the case
  pc,         \* "load", "matching", "done"
  failed,     \* the run has an error for this case in place of claims
  predicted,  \* predicted_claims: [doc, status]
  overlap,    \* of each claim and prediction
  claim,      \* match_claims: the ground-truth claim being matched
  next,       \* the prediction looked at next
  best,       \* best_pred, 0 for None
  unused,     \* unused_predicted
  matches,    \* the prediction each claim was given, 0 for None
  rows,       \* the CaseMetrics of the cases so far
  stats       \* the CategoryStats so far

loopVars == << claim, next, best, unused, matches >>
caseVars == << failed, predicted, overlap >>
vars     == << case, pc, caseVars, loopVars, rows, stats >>

Claims   == GroundTruth[case].claims
Relevant(issues) == {c \in DOMAIN Claims : Claims[c].issue \in issues}

Predictions == [doc : Documents, status : Statuses]

Init ==
  /\ case = 1 /\ pc = "load"
  /\ failed = FALSE /\ predicted = << >> /\ overlap = << >>
  /\ claim = 1 /\ next = 1 /\ best = 0 /\ unused = {} /\ matches = << >>
  /\ rows = << >>
  /\ stats = [i \in Categories |-> [total |-> 0, matched |-> 0, correct |-> 0]]

\* Wrong on purpose: the claims of the agent that did not fail are used.
ExtractAnyway(claims, error) == claims

\* compare_results.py: no prediction counts when any agent of the case failed,
\* whatever the others returned.
Extract(claims, error) == IF error THEN << >> ELSE claims

\* The next case, with the claims its run saved.
Load(claims, error) ==
  /\ pc = "load" /\ case \in DOMAIN GroundTruth
  /\ failed' = error
  /\ predicted' = Extract(claims, error)
  /\ overlap' \in [DOMAIN Claims -> [DOMAIN predicted' -> Scores]]
  /\ claim' = 1 /\ next' = 1 /\ best' = 0
  /\ unused' = DOMAIN predicted' /\ matches' = << >>
  /\ pc' = "matching"
  /\ UNCHANGED << case, rows, stats >>

Matching == pc = "matching" /\ claim \in DOMAIN Claims

best_score == IF best = 0 THEN 0 ELSE overlap[claim][best]

\* Wrong on purpose: the source document is not compared.
ConsiderAnyDocument ==
  /\ Matching /\ next \in DOMAIN predicted
  /\ best' = IF next \in unused /\ overlap[claim][next] > best_score
             THEN next ELSE best
  /\ next' = next + 1
  /\ UNCHANGED << case, pc, caseVars, claim, unused, matches, rows, stats >>

\* The inner loop looks at one prediction.
Consider ==
  /\ Matching /\ next \in DOMAIN predicted
  /\ best' = IF /\ next \in unused
                /\ predicted[next].doc = Claims[claim].doc
                /\ overlap[claim][next] > best_score
             THEN next ELSE best
  /\ next' = next + 1
  /\ UNCHANGED << case, pc, caseVars, claim, unused, matches, rows, stats >>

\* Wrong on purpose: the prediction stays available.
SettleKeeping ==
  /\ Matching /\ next = Len(predicted) + 1
  /\ matches' = Append(matches, IF best_score >= MATCH_THRESHOLD THEN best ELSE 0)
  /\ claim' = claim + 1 /\ next' = 1 /\ best' = 0
  /\ UNCHANGED << case, pc, caseVars, unused, rows, stats >>

\* Wrong on purpose: the best prediction is used up even below the threshold.
SettleUsingUp ==
  /\ Matching /\ next = Len(predicted) + 1
  /\ matches' = Append(matches, IF best_score >= MATCH_THRESHOLD THEN best ELSE 0)
  /\ unused' = unused \ {best}
  /\ claim' = claim + 1 /\ next' = 1 /\ best' = 0
  /\ UNCHANGED << case, pc, caseVars, rows, stats >>

\* The inner loop is over: the claim is matched, or a miss.
Settle ==
  LET match == IF best_score >= MATCH_THRESHOLD THEN best ELSE 0 IN
  /\ Matching /\ next = Len(predicted) + 1
  /\ matches' = Append(matches, match)
  /\ unused' = unused \ {match}
  /\ claim' = claim + 1 /\ next' = 1 /\ best' = 0
  /\ UNCHANGED << case, pc, caseVars, rows, stats >>

-----------------------------------------------------------------------------
Matched == {c \in DOMAIN matches : matches[c] # 0}
Correct == {c \in Matched : predicted[matches[c]].status = Claims[c].expected}

Contradictions  == {"direct_contradiction", "subtle_contradiction"}
MissingEvidence == {"missing_evidence"}

\* _recall_for_issue_type; no case of its own when nothing is relevant.
Recall(issues) ==
  [right |-> Cardinality(Relevant(issues) \cap Correct), of |-> Cardinality(Relevant(issues))]

NoRate == [right |-> 0, of |-> 0]

\* score_case: a failed case has all its claims missed and no rates (a rate of
\* nothing is None).
Metrics ==
  [valid |-> ~ failed, total |-> Len(Claims),
   matched |-> IF failed THEN 0 ELSE Cardinality(Matched),
   missed  |-> IF failed THEN DOMAIN Claims ELSE DOMAIN Claims \ Matched,
   extra   |-> IF failed THEN 0 ELSE Cardinality(unused),
   accuracy |-> IF failed THEN NoRate
                ELSE [right |-> Cardinality(Correct), of |-> Cardinality(Matched)],
   contradiction |-> IF failed THEN NoRate ELSE Recall(Contradictions),
   missing |-> IF failed THEN NoRate ELSE Recall(MissingEvidence)]

\* breakdown_by_issue_type, of the same matches: match_claims is run again on
\* the same claims and gives the same.
Counted ==
  [i \in Categories |->
    [total   |-> stats[i].total + Cardinality(Relevant({i})),
     matched |-> stats[i].matched + Cardinality(Relevant({i}) \cap Matched),
     correct |-> stats[i].correct + Cardinality(Relevant({i}) \cap Correct)]]

ScoreCase ==
  /\ pc = "matching" /\ claim = Len(Claims) + 1
  /\ rows' = Append(rows, Metrics)
  /\ stats' = Counted
  /\ case' = case + 1
  /\ pc' = IF case = Len(GroundTruth) THEN "done" ELSE "load"
  /\ failed' = FALSE /\ predicted' = << >> /\ overlap' = << >>
  /\ claim' = 1 /\ next' = 1 /\ best' = 0 /\ unused' = {} /\ matches' = << >>

Next ==
  \/ \E n \in 0 .. MaxPredictions, error \in BOOLEAN :
       \E claims \in [1 .. n -> Predictions] : Load(claims, error)
  \/ Consider \/ Settle \/ ScoreCase

Spec == Init /\ [][Next]_vars

-----------------------------------------------------------------------------
Suits(c, p) ==
  predicted[p].doc = Claims[c].doc /\ overlap[c][p] >= MATCH_THRESHOLD

\* c would rather have p than q: more overlap, or as much and listed first.
Prefers(c, p, q) ==
  overlap[c][p] > overlap[c][q] \/ (overlap[c][p] = overlap[c][q] /\ p <= q)

\* A miss is a miss and a match the best there was: a prediction that suits a
\* claim and was not given to it was given to an earlier claim, or the claim
\* has one it prefers.
MatchesAreBest ==
  \A c \in DOMAIN matches :
    /\ matches[c] # 0 => Suits(c, matches[c])
    /\ \A p \in DOMAIN predicted :
         Suits(c, p) =>
           \/ \E d \in 1 .. c - 1 : matches[d] = p
           \/ matches[c] # 0 /\ Prefers(c, matches[c], p)

\* No prediction is counted for two claims, or both for one and as an extra:
\* what is left over is exactly what no claim was given.
NoPredictionCountsTwice ==
  /\ \A c, d \in DOMAIN matches : matches[c] = matches[d] /\ c # d => matches[c] = 0
  /\ pc = "matching" => unused = DOMAIN predicted \ ToSet(matches)

\* The reference: each claim in turn takes, of the predictions offered and not
\* taken yet, the one it prefers.
Greedy(match, offered) ==
  \A c \in DOMAIN match :
    LET left == {p \in offered : Suits(c, p) /\ \A d \in 1 .. c - 1 : match[d] # p} IN
    IF left = {} THEN match[c] = 0
    ELSE match[c] \in left /\ \A p \in left : Prefers(c, match[c], p)

\* "Unmatched predicted claims are reported as extras, not penalized": with any
\* one of its claims left out, an agent would not have had more matches.
ExtrasNeverCostAMatch ==
  pc = "matching" /\ claim = Len(Claims) + 1 =>
    \A p \in DOMAIN predicted :
      LET offered == DOMAIN predicted \ {p} IN
      \A match \in [DOMAIN Claims -> {0} \cup offered] :
        Greedy(match, offered) =>
          Cardinality({c \in DOMAIN Claims : match[c] # 0}) <= Cardinality(Matched)

\* sum(): as many as there are units in the counts.
SumOf(count) == Cardinality(UNION {{i} \X (1 .. count[i]) : i \in DOMAIN count})

\* What is kept of the mean of those rates that are not None.
Mean(rates) ==
  LET given == {r \in rates : r.of # 0} IN
  IF given = {} THEN "None"
  ELSE IF \A r \in given : r.right = r.of THEN "1"
  ELSE IF \A r \in given : r.right = 0 THEN "0" ELSE "between"

\* aggregate(): its recall is of sums over all cases, the other rates are means
\* of the valid cases' rates, each case counting once.
Aggregate ==
  LET valid == {k \in DOMAIN rows : rows[k].valid} IN
  [total         |-> SumOf([k \in DOMAIN rows |-> rows[k].total]),
   matched       |-> SumOf([k \in DOMAIN rows |-> rows[k].matched]),
   accuracy      |-> Mean({rows[k].accuracy : k \in valid}),
   contradiction |-> Mean({rows[k].contradiction : k \in valid}),
   missing       |-> Mean({rows[k].missing : k \in valid})]

\* compare(): the categories pooled, those that there are (it leaves the totals
\* to the lines of the categories).
Pooled(issues) ==
  [total   |-> SumOf([i \in issues \cap Categories |-> stats[i].total]),
   matched |-> SumOf([i \in issues \cap Categories |-> stats[i].matched]),
   correct |-> SumOf([i \in issues \cap Categories |-> stats[i].correct])]

\* The two reports of one run "can legitimately disagree" about an accuracy, one
\* counting every claim once and the other every case (scoring.py): but never
\* on how many claims there were and were matched, nor, failed cases included,
\* on whether there is an accuracy, all were right or none was.  For a recall,
\* a failed case counts in the breakdown only: what the breakdown has all right
\* aggregate() has all right, and both or none find nothing right.
ReportsAreConsistent ==
  LET all == Pooled(Categories) IN
  /\ all.total = Aggregate.total /\ all.matched = Aggregate.matched
  /\ Mean({[right |-> all.correct, of |-> all.matched]}) = Aggregate.accuracy
  /\ Pooled(Contradictions).correct = 0 <=> Aggregate.contradiction \in {"None", "0"}
  /\ Pooled(MissingEvidence).correct = 0 <=> Aggregate.missing \in {"None", "0"}
  /\ Pooled(Contradictions).correct = Pooled(Contradictions).total =>
       Aggregate.contradiction \in {"None", "1"}
  /\ Pooled(MissingEvidence).correct = Pooled(MissingEvidence).total =>
       Aggregate.missing \in {"None", "1"}
=============================================================================

--------------------------- MODULE Reconciliation ----------------------------
(***************************************************************************)
(* app/reconcile.py: reconcile(), with run_reinvestigation of              *)
(* app/reinvestigate.py.  Claims are numbered in the order pool_claims     *)
(* gives them: the security investigator's first.                          *)
(*                                                                         *)
(* What the model answers is chosen freely from what its tool schema       *)
(* allows: the program does not validate the answers of these two calls,   *)
(* so an adjudication may cite claims it was not shown, or none that       *)
(* exists.  Word overlap of two subjects (_jaccard >= SAME_TOPIC_THRESHOLD)*)
(* is a relation chosen in the initial state.                              *)
(***************************************************************************)
EXTENDS Naturals, Sequences, FiniteSets, SequencesExt

CONSTANTS
  NSecurity, NPrivacy,  \* number of claims of each investigator
  Predicates, Values,   \* what claims say
  Verdicts,             \* verification statuses a re-investigation may give
  Unknown,              \* a claim id no claim has
  Topics,               \* bound: pairs of claims whose subjects may overlap
  Citations,            \* bound: the claim_ids an adjudicated conflict may cite
  MaxSemantic           \* bound: conflicts one adjudication reports

Claims == 1 .. NSecurity + NPrivacy
None   == "none"

ASSUME ReconciliationAssumption ==
  /\ NSecurity \in Nat /\ NPrivacy \in Nat /\ MaxSemantic \in Nat
  /\ Unknown \notin Claims
  /\ Topics \subseteq Claims \X Claims
  /\ Citations \subseteq Seq(Claims \cup {Unknown})
  /\ "contradicted" \in Verdicts /\ None \notin Verdicts

VARIABLES
  claim,      \* predicate and value of each claim
  sameTopic,  \* the pairs of claims whose subjects overlap enough
  status,     \* verification_status of each claim, updated in place
  pc,         \* "reinvestigating", "adjudicating", "reconciled", "raised"
  conflicts,  \* the conflicts reported: [ids, method, status]
  records     \* reinvestigation_records: [ids, resolved, verdict]

vars == << claim, sameTopic, status, pc, conflicts, records >>

agent_type(c) ==
  IF c <= NSecurity THEN "security_investigator" ELSE "privacy_investigator"

Pairs == {p \in Claims \X Claims : p[1] < p[2]}

\* Wrong on purpose: disagreements across the domains are re-investigated too.
InConflictAnyAgent(p) ==
  /\ claim[p[1]].predicate = claim[p[2]].predicate
  /\ p \in sameTopic
  /\ claim[p[1]].value # claim[p[2]].value

\* find_deterministic_conflicts: same agent, same predicate, same topic,
\* different values.
InConflict(p) ==
  /\ agent_type(p[1]) = agent_type(p[2])
  /\ claim[p[1]].predicate = claim[p[2]].predicate
  /\ p \in sameTopic
  /\ claim[p[1]].value # claim[p[2]].value

Before(p, q) == p[1] < q[1] \/ (p[1] = q[1] /\ p[2] < q[2])

\* In the order of its two loops: the n-th is the one with n - 1 before it.
deterministic ==
  LET found == {p \in Pairs : InConflict(p)} IN
  [n \in 1 .. Cardinality(found) |->
     CHOOSE p \in found : Cardinality({q \in found : Before(q, p)}) = n - 1]

deterministic_ids == UNION {{p[1], p[2]} : p \in {q \in Pairs : InConflict(q)}}

\* What the investigators found: the status is the same for all, any other is
\* only a renaming of what later steps make of it.
Original == "unverified"

Init ==
  /\ claim \in [Claims -> [predicate : Predicates, value : Values]]
  /\ sameTopic \in SUBSET (Topics \cap Pairs)
  /\ status = [c \in Claims |-> Original]
  /\ pc = "reinvestigating"
  /\ conflicts = << >> /\ records = << >>

\* Wrong on purpose: an unresolved outcome overwrites the claims as well, by
\* the status it does not have too.
ReinvestigateOverwriting(resolved, verdict) ==
  LET k   == Len(records) + 1
      ids == deterministic[k]
  IN  /\ pc = "reinvestigating" /\ k <= Len(deterministic)
      /\ records' = Append(records,
           [ids |-> ids, resolved |-> resolved, verdict |-> verdict])
      /\ status' = [c \in Claims |->
                     IF c \in {ids[1], ids[2]} THEN verdict ELSE status[c]]
      /\ conflicts' = Append(conflicts,
           [ids |-> ids, method |-> "reinvestigation",
            status |-> IF resolved THEN "resolved" ELSE "open"])
      /\ UNCHANGED << claim, sameTopic, pc >>

\* The next deterministic conflict, re-investigated once.  Only an outcome
\* that is resolved and names a status overwrites the two claims.
Reinvestigate(resolved, verdict) ==
  LET k   == Len(records) + 1
      ids == deterministic[k]
  IN  /\ pc = "reinvestigating" /\ k <= Len(deterministic)
      /\ records' = Append(records,
           [ids |-> ids, resolved |-> resolved, verdict |-> verdict])
      /\ status' = IF resolved /\ verdict # None
                   THEN [c \in Claims |->
                          IF c \in {ids[1], ids[2]} THEN verdict ELSE status[c]]
                   ELSE status
      /\ conflicts' = Append(conflicts,
           [ids |-> ids, method |-> "reinvestigation",
            status |-> IF resolved THEN "resolved" ELSE "open"])
      /\ UNCHANGED << claim, sameTopic, pc >>

\* The adjudication call is made for the claims no deterministic conflict
\* concerns, and skipped when there is none.
Adjudicate ==
  /\ pc = "reinvestigating" /\ Len(records) = Len(deterministic)
  /\ pc' = IF Claims \ deterministic_ids = {} THEN "reconciled" ELSE "adjudicating"
  /\ UNCHANGED << claim, sameTopic, status, conflicts, records >>

Semantic == {k \in DOMAIN conflicts : conflicts[k].method = "semantic_adjudication"}

\* Wrong on purpose: low confidence overwrites too.
ApplySemanticAlways(ids, confidence) ==
  /\ pc = "adjudicating" /\ Cardinality(Semantic) < MaxSemantic
  /\ status' = [c \in Claims |-> IF c \in ToSet(ids) THEN "contradicted" ELSE status[c]]
  /\ conflicts' = Append(conflicts,
       [ids |-> ids, method |-> "semantic_adjudication",
        status |-> IF confidence = "high" THEN "resolved" ELSE "open"])
  /\ UNCHANGED << claim, sameTopic, pc, records >>

\* One conflict of the answer.  High confidence overwrites every claim it cites
\* that exists, one a re-investigation settled included.
ApplySemantic(ids, confidence) ==
  /\ pc = "adjudicating" /\ Cardinality(Semantic) < MaxSemantic
  /\ status' = [c \in Claims |->
       IF confidence = "high" /\ c \in ToSet(ids) THEN "contradicted" ELSE status[c]]
  /\ conflicts' = Append(conflicts,
       [ids |-> ids, method |-> "semantic_adjudication",
        status |-> IF confidence = "high" THEN "resolved" ELSE "open"])
  /\ UNCHANGED << claim, sameTopic, pc, records >>

Return ==
  /\ pc = "adjudicating"
  /\ pc' = "reconciled"
  /\ UNCHANGED << claim, sameTopic, status, conflicts, records >>

\* A call fails for good, or its answer lacks a field: reconcile() raises, and
\* the claims keep what was written into them so far.
Fail ==
  /\ \/ pc = "reinvestigating"
        /\ \/ Len(records) < Len(deterministic)
           \/ Claims \ deterministic_ids # {}
     \/ pc = "adjudicating" /\ Semantic = {}
  /\ pc' = "raised"
  /\ UNCHANGED << claim, sameTopic, status, conflicts, records >>

Next ==
  \/ \E resolved \in BOOLEAN, verdict \in Verdicts \cup {None} :
       Reinvestigate(resolved, verdict)
  \/ Adjudicate \/ Return \/ Fail
  \/ \E ids \in Citations, confidence \in {"high", "low"} :
       ApplySemantic(ids, confidence)

Spec == Init /\ [][Next]_vars

-----------------------------------------------------------------------------
\* What every variable may hold.
TypeOK ==
  /\ claim \in [Claims -> [predicate : Predicates, value : Values]]
  /\ sameTopic \subseteq Pairs
  /\ status \in [Claims -> Verdicts \cup {Original}]
  /\ pc \in {"reinvestigating", "adjudicating", "reconciled", "raised"}
  /\ conflicts \in Seq([ids : Seq(Claims \cup {Unknown}) \cup Pairs,
                        method : {"reinvestigation", "semantic_adjudication"},
                        status : {"resolved", "open"}])
  /\ records \in Seq([ids : Pairs, resolved : BOOLEAN, verdict : Verdicts \cup {None}])

\* The status conflict k, if it settled anything, gives to the claims it cites.
VerdictOf(k) ==
  IF conflicts[k].status = "open" THEN None
  ELSE IF k <= Len(records) THEN records[k].verdict
  ELSE "contradicted"

Settles(k, c) == c \in ToSet(conflicts[k].ids) /\ VerdictOf(k) # None

\* The reviewer can trace every label: a claim's status is what the last
\* conflict that settled it says, and an open conflict (low confidence, or a
\* re-investigation that resolved nothing) never changes one, although the
\* conflicts overlap and the claims are shared objects updated in place.
StatusIsLastVerdict ==
  \A c \in Claims :
    LET settling == {k \in DOMAIN conflicts : Settles(k, c)}
        last     == CHOOSE k \in settling : \A j \in settling : j <= k
    IN  status[c] = IF settling = {} THEN Original ELSE VerdictOf(last)

\* No disagreement inside a domain is dropped or asked twice: when reconcile()
\* returns, each pair of claims of one agent that say different things of the
\* same subject has exactly one re-investigation and one conflict, and no pair
\* across the domains has one.  Those are for the adjudicator to find, among the
\* claims it is given: nothing is promised of a claim that is not among them.
EveryDisagreementOnce ==
  pc = "reconciled" =>
    \A p \in Pairs :
      Cardinality({k \in DOMAIN conflicts :
                     conflicts[k].method = "reinvestigation" /\ conflicts[k].ids = p})
        = IF /\ \E a \in {1 .. NSecurity, NSecurity + 1 .. NSecurity + NPrivacy} :
                  p[1] \in a /\ p[2] \in a
             /\ p \in sameTopic /\ claim[p[1]].predicate = claim[p[2]].predicate
             /\ claim[p[1]].value # claim[p[2]].value
          THEN 1 ELSE 0
=============================================================================

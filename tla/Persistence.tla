----------------------------- MODULE Persistence -----------------------------
(***************************************************************************)
(* scripts/seed_demo_case.py seed_case() once the documents are stored and *)
(* reconcile() has returned: app/persist.py writes the two agent runs with *)
(* their claims, findings and evidence, then the conflicts, and the case   *)
(* is taken to AWAITING_HUMAN_REVIEW, all in one transaction, which nobody *)
(* sees before it commits.                                                 *)
(*                                                                         *)
(* A claim row has one finding, which keeps what the investigator said;    *)
(* only the conflicts tell what reconciliation made of it.  Conflicts name *)
(* claims by agent and place ("security-0"), so what they are linked to    *)
(* depends on the order in which the claims were persisted.                *)
(***************************************************************************)
EXTENDS Reconciliation

VARIABLES
  stage,   \* of the transaction: "open", "investigated" (the agents are done),
           \* "committed" or "gone" (rolled back)
  runs,    \* number of agent runs persisted
  graph,   \* the claims persisted of each agent, in order
  rows,    \* conflict rows written: [findings, status, record]
  history  \* the statuses of the case, oldest first

txVars  == << stage, runs, graph, rows, history >>
allVars == << vars, txVars >>

Lifecycle == INSTANCE CaseLifecycle WITH path <- history

Agents == << "security_investigator", "privacy_investigator" >>

PInit ==
  /\ Init
  /\ stage = "open" /\ runs = 0 /\ graph = [a \in ToSet(Agents) |-> << >>]
  /\ rows = << >>
  /\ history = << "INTAKE", "VALIDATING", "DOCUMENTS_READY", "CLASSIFYING", "INVESTIGATING" >>

Persisting == pc = "reconciled" /\ stage \in {"open", "investigated"}

\* An exception, or the loss of the process or its connection.
LoseTransaction ==
  /\ Persisting
  /\ stage' = "gone"
  /\ runs' = 0 /\ graph' = [a \in ToSet(Agents) |-> << >>]
  /\ rows' = << >> /\ history' = << >>
  /\ UNCHANGED vars

\* The claims of an agent's own result, in order, by their pooled numbers.
ClaimsOf(agent) ==
  IF agent = Agents[1] THEN [i \in 1 .. NSecurity |-> i]
                       ELSE [i \in 1 .. NPrivacy |-> NSecurity + i]

\* Wrong on purpose: claims about documents the case does not have are skipped.
PersistAgentResultSkipping(foreign) ==
  LET agent == Agents[runs + 1] IN
  /\ Persisting /\ stage = "open" /\ runs < Len(Agents)
  /\ runs' = runs + 1
  /\ graph' = [graph EXCEPT
       ![agent] = SelectSeq(ClaimsOf(agent), LAMBDA c : c \notin foreign)]
  /\ UNCHANGED << vars, stage, rows, history >>

\* persist_agent_result for the next agent.  A claim whose source or evidence
\* names a document the case does not have (foreign) is a KeyError: the agents
\* are told the ids, and nothing checks their answers for them.
PersistAgentResult(foreign) ==
  LET agent == Agents[runs + 1] IN
  /\ Persisting /\ stage = "open" /\ runs < Len(Agents)
  /\ IF \E c \in foreign : agent_type(c) = agent
     THEN LoseTransaction
     ELSE /\ runs' = runs + 1
          /\ graph' = [graph EXCEPT ![agent] = ClaimsOf(agent)]
          /\ UNCHANGED << vars, stage, rows, history >>

\* transition_case with its answer thrown away, as seed_case does: a hop from a
\* status the case is not in returns False and leaves no trace.  Every hop here
\* is an edge of TRANSITIONS, so none raises InvalidTransitionError.
Hop(path, from, to) == IF Last(path) = from THEN Append(path, to) ELSE path

\* Both agents are done: the two hops to RECONCILING.
CompleteInvestigations ==
  /\ Persisting /\ stage = "open" /\ runs = Len(Agents)
  /\ stage' = "investigated"
  /\ LET complete == Hop(history, "INVESTIGATING", "INVESTIGATIONS_COMPLETE")
     IN  history' = Hop(complete, "INVESTIGATIONS_COMPLETE", "RECONCILING")
  /\ UNCHANGED << vars, runs, graph, rows >>

\* claim_by_pooled_id: the place of claim c among its agent's, and the claim
\* persisted there.
Place(c) == IF c <= NSecurity THEN c ELSE c - NSecurity
ByPooledId(c) == graph[agent_type(c)][Place(c)]
HasRow(c) == c \in Claims /\ Place(c) \in DOMAIN graph[agent_type(c)]

\* Wrong on purpose: records are looked up by the first claim alone.
RecordByFirst(ids) ==
  LET same == {j \in DOMAIN records : records[j].ids[1] = ids[1]}
  IN  IF same = {} THEN 0 ELSE Max(same)

\* reinvest_by_claim_ids: the record of the conflict's own claims, 0 if none.
\* A later record with the same claims replaces an earlier one.
RecordFor(ids) ==
  LET same == {j \in DOMAIN records : ToSet(records[j].ids) = ToSet(ids)}
  IN  IF same = {} THEN 0 ELSE Max(same)

\* Wrong on purpose: a claim may be cited twice.
CitableTwice(ids) == \A c \in ToSet(ids) : HasRow(c)

\* Every id names a claim (claim_by_pooled_id raises KeyError otherwise), and
\* none is listed twice (conflict_findings has the pair as its primary key).
Citable(ids) == IsInjective(ids) /\ \A c \in ToSet(ids) : HasRow(c)

\* One turn of persist_reconciliation's loop.
PersistConflict ==
  LET k == Len(rows) + 1
      c == conflicts[k]
  IN  /\ Persisting /\ stage = "investigated" /\ k <= Len(conflicts)
      /\ IF Citable(c.ids)
         THEN /\ rows' = Append(rows,
                   [findings |-> {ByPooledId(id) : id \in ToSet(c.ids)},
                    status |-> c.status,
                    record |-> IF c.method = "reinvestigation"
                               THEN RecordFor(c.ids) ELSE 0])
              /\ UNCHANGED << vars, stage, runs, graph, history >>
         ELSE LoseTransaction

\* The path of a case that was sent back for its re-investigations.
SentBack(path) ==
  LET back == Hop(path, "RECONCILING", "REINVESTIGATING")
  IN  Hop(back, "REINVESTIGATING", "RECONCILING_POST_REINVESTIGATION")

\* Wrong on purpose: both branches share the hop RECONCILING -> SYNTHESIZING,
\* which a case that was sent back does not make.
CommitCaseFromReconciling ==
  /\ Persisting /\ stage = "investigated" /\ Len(rows) = Len(conflicts)
  /\ stage' = "committed"
  /\ LET path == IF records # << >> THEN SentBack(history) ELSE history
         done == Hop(path, "RECONCILING", "SYNTHESIZING")
     IN  history' = Hop(done, "SYNTHESIZING", "AWAITING_HUMAN_REVIEW")
  /\ UNCHANGED << vars, runs, graph, rows >>

\* The hops after persist_reconciliation, and the commit.
CommitCase ==
  /\ Persisting /\ stage = "investigated" /\ Len(rows) = Len(conflicts)
  /\ stage' = "committed"
  /\ LET done == IF records # << >>
                 THEN Hop(SentBack(history),
                          "RECONCILING_POST_REINVESTIGATION", "SYNTHESIZING")
                 ELSE Hop(history, "RECONCILING", "SYNTHESIZING")
     IN  history' = Hop(done, "SYNTHESIZING", "AWAITING_HUMAN_REVIEW")
  /\ UNCHANGED << vars, runs, graph, rows >>

PNext ==
  \/ Next /\ UNCHANGED txVars
  \/ \E foreign \in {{}} \cup {{c} : c \in Claims} : PersistAgentResult(foreign)
  \/ CompleteInvestigations \/ PersistConflict \/ CommitCase \/ LoseTransaction

PSpec == PInit /\ [][PNext]_allVars

-----------------------------------------------------------------------------
\* What a reviewer finds in the database is what was said: every claim an
\* investigator made is there once, and a conflict is linked to the findings
\* of exactly the claims it cites, with its own status, although it names them
\* by their place and conflicts overlap.
PersistedGraphIsExact ==
  stage = "committed" =>
    /\ graph[Agents[1]] \o graph[Agents[2]] = [c \in Claims |-> c]
    /\ Len(rows) = Len(conflicts)
    /\ \A k \in DOMAIN rows :
         /\ rows[k].findings = ToSet(conflicts[k].ids)
         /\ rows[k].status = conflicts[k].status

\* Decision #13 in the data: every re-investigation made is stored once, with
\* the conflict it was made for, and with no other (reinvestigations.conflict_id
\* is unique).
EachReinvestigationStoredOnce ==
  stage = "committed" =>
    \A j \in DOMAIN records :
      LET holders == {k \in DOMAIN rows : rows[k].record = j}
      IN  /\ Cardinality(holders) = 1
          /\ \A k \in holders : rows[k].findings = ToSet(records[j].ids)

\* A conflict the reviewer could not read never gets into the database: a case
\* with a citation of no claim, or of one claim twice, is not seeded at all.
BadCitationLeavesNothing ==
  (\E k \in DOMAIN conflicts :
     Cardinality(ToSet(conflicts[k].ids) \cap Claims) < Len(conflicts[k].ids)) =>
    stage # "committed"

\* The history a reviewer sees tells what happened: it follows the lifecycle to
\* AWAITING_HUMAN_REVIEW, and passes through REINVESTIGATING exactly when some
\* conflict of the case was re-investigated.  seed_case looks at no answer of
\* its transition_case calls: a hop that did not apply would go unnoticed.
HistoryTellsTheCase ==
  stage = "committed" =>
    /\ Lifecycle!IsCasePath(history)
    /\ Last(history) = "AWAITING_HUMAN_REVIEW"
    /\ Contains(history, "REINVESTIGATING")
         <=> \E k \in DOMAIN rows : rows[k].record # 0
=============================================================================

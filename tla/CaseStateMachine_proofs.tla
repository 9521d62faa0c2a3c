----------------------- MODULE CaseStateMachine_proofs -----------------------
(***************************************************************************)
(* Proofs about CaseStateMachine for any number of sessions.               *)
(*                                                                         *)
(* HistoryMatchesStatus is not inductive: a commit publishes rows written  *)
(* earlier, so the invariant must also say that those rows continue the    *)
(* committed history, that only the holder of the row lock has any (else   *)
(* another commit could come between), and that a waiter asks for a legal  *)
(* hop.  IInv adds exactly this.                                           *)
(***************************************************************************)
EXTENDS CaseStateMachine, SequenceTheorems, TLAPS

PendingAuditMatches ==
  \A s \in Sessions : writes[s].audit = writes[s].transitions

IInv ==
  /\ TypeOK
  /\ HistoryMatchesStatus
  /\ AuditMatchesHistory
  /\ PendingAuditMatches
  /\ LockDiscipline
  /\ PendingContinuesHistory

-----------------------------------------------------------------------------
\* The graph: its edges stay inside it and NULL is no status.

LEMMA GraphType ==
  /\ "INTAKE" \in Status
  /\ Null \notin Status
  /\ \A s \in Status : TRANSITIONS[s] \subseteq Status
  BY DEF Status, TRANSITIONS, Graph!Status, Graph!TRANSITIONS, Null

LEMMA NoHopType == NoHop \in Hop
  BY GraphType DEF NoHop, Hop

LEMMA NoWritesType == NoWrites \in [transitions : Seq(Hop), audit : Seq(Hop)]
  BY DEF NoWrites

LEMMA HopsEndInStatus ==
  ASSUME NEW rows \in Seq(Hop)
  PROVE  \A i \in 1 .. Len(rows) : rows[i].to \in Status
<1>1. \A i \in 1 .. Len(rows) : rows[i] \in Hop
  OBVIOUS
<1>2. \A h \in Hop : h.to \in Status
  BY DEF Hop
<1> QED
  BY <1>1, <1>2

-----------------------------------------------------------------------------
\* Chains of hops.

\* A legal hop from where a chain ends makes a longer chain.
LEMMA ChainedAppend ==
  ASSUME NEW rows \in Seq(Hop), NEW h \in Hop, Chained(rows), Legal(h),
         h.from = rows[Len(rows)].to
  PROVE  Chained(Append(rows, h))
<1>1. /\ Len(Append(rows, h)) = Len(rows) + 1
      /\ Append(rows, h)[Len(rows) + 1] = h
      /\ \A i \in 1 .. Len(rows) : Append(rows, h)[i] = rows[i]
  OBVIOUS
<1>2. Len(rows) >= 1
  BY DEF Chained
<1>3. Append(rows, h) # << >> /\ Append(rows, h)[1] = NoHop
  BY <1>1, <1>2 DEF Chained
<1>4. ASSUME NEW i \in 1 .. Len(Append(rows, h)) - 1
      PROVE  /\ Legal(Append(rows, h)[i + 1])
             /\ Append(rows, h)[i + 1].from = Append(rows, h)[i].to
  <2>1. CASE i = Len(rows)
    BY <2>1, <1>1, <1>2
  <2>2. CASE i < Len(rows)
    <3>1. i \in 1 .. Len(rows) - 1 /\ i + 1 \in 1 .. Len(rows)
      BY <2>2, <1>1
    <3>2. Append(rows, h)[i] = rows[i] /\ Append(rows, h)[i + 1] = rows[i + 1]
      BY <3>1, <1>1
    <3> QED
      BY <3>1, <3>2 DEF Chained
  <2> QED
    BY <2>1, <2>2, <1>1
<1> QED
  BY <1>3, <1>4 DEF Chained

\* Appending to what a session has pending appends to what it would publish.
LEMMA ConcatAppend ==
  ASSUME NEW a \in Seq(Hop), NEW b \in Seq(Hop), NEW h \in Hop
  PROVE  /\ a \o Append(b, h) = Append(a \o b, h)
         /\ a \o << >> = a
  OBVIOUS

LEMMA AppendType ==
  ASSUME NEW a \in Seq(Hop), NEW h \in Hop
  PROVE  Append(a, h) \in Seq(Hop) /\ Append(a, h) # << >>
  BY AppendProperties

\* The last hop of a concatenation.
LEMMA LastOfConcat ==
  ASSUME NEW a \in Seq(Hop), NEW b \in Seq(Hop), a # << >>
  PROVE  /\ a \o b \in Seq(Hop) /\ a \o b # << >>
         /\ (a \o b)[Len(a \o b)] = IF b = << >> THEN a[Len(a)] ELSE b[Len(b)]
  OBVIOUS

-----------------------------------------------------------------------------
\* The status a session sees is the end of what it would publish.
LEMMA VisibleIsEnd ==
  ASSUME IInv, NEW s \in Sessions
  PROVE  /\ Visible(s) \in Status
         /\ transitions \o writes[s].transitions \in Seq(Hop)
         /\ LET p == transitions \o writes[s].transitions
            IN  Visible(s) = p[Len(p)].to
<1>1. /\ transitions \in Seq(Hop) /\ transitions # << >>
      /\ writes[s].transitions \in Seq(Hop)
      /\ transitions[Len(transitions)].to = status /\ status \in Status
  BY DEF IInv, TypeOK, HistoryMatchesStatus, Chained
<1>2. CASE writes[s].transitions = << >>
  BY <1>1, <1>2, LastOfConcat DEF Visible
<1>3. CASE writes[s].transitions # << >>
  <2> DEFINE w == writes[s].transitions
  <2>1. w[Len(w)] \in Hop
    BY <1>1, <1>3
  <2> QED
    BY <2>1, <1>1, <1>3, LastOfConcat DEF Visible, Hop
<1> QED
  BY <1>2, <1>3

\* An UPDATE that matches keeps the invariant: the new row continues what its
\* session would publish, and the session now holds the row.
LEMMA ApplyKeepsIInv ==
  ASSUME IInv, NEW s \in Sessions, NEW h \in Hop, Legal(h), h.from = Visible(s),
         lock \in {s, NoSession}, Apply(s, h), UNCHANGED dbVars,
         call' = call \/ call' = [call EXCEPT ![s] = NoHop]
  PROVE  IInv'
<1> DEFINE w == writes[s].transitions
<1>a. w \in Seq(Hop) /\ writes[s].audit = w /\ transitions \in Seq(Hop)
  BY DEF IInv, TypeOK, PendingAuditMatches
<1> HIDE DEF w
<1>0. /\ w \in Seq(Hop) /\ writes[s].audit = w /\ transitions \in Seq(Hop)
      /\ Append(w, h) \in Seq(Hop) /\ Append(w, h) # << >>
  BY <1>a, AppendType
<1>1. writes' = [writes EXCEPT ![s] =
                   [transitions |-> Append(w, h), audit |-> Append(w, h)]]
  BY <1>0 DEF Apply, IInv, TypeOK, w
<1>2. TypeOK'
  <2>1. call' \in [Sessions -> Hop]
    BY NoHopType DEF IInv, TypeOK
  <2>2. writes' \in [Sessions -> [transitions : Seq(Hop), audit : Seq(Hop)]]
    <3>1. [transitions |-> Append(w, h), audit |-> Append(w, h)]
            \in [transitions : Seq(Hop), audit : Seq(Hop)]
      BY <1>0
    <3> QED
      BY <3>1, <1>1 DEF IInv, TypeOK
  <2> QED
    BY <2>1, <2>2 DEF IInv, TypeOK, Apply, dbVars
<1>3. HistoryMatchesStatus' /\ AuditMatchesHistory'
  BY DEF IInv, HistoryMatchesStatus, AuditMatchesHistory, Chained, dbVars
<1>4. PendingAuditMatches'
  BY <1>1 DEF IInv, TypeOK, PendingAuditMatches
<1>5. LockDiscipline'
  <2> SUFFICES ASSUME NEW t \in Sessions
               PROVE  /\ writes'[t] # NoWrites => lock' = t
                      /\ reply'[t] = "applied" => writes'[t] # NoWrites
                      /\ pc'[t] = "waiting" => writes'[t] = NoWrites /\ Legal(call'[t])
    BY DEF LockDiscipline, Legal
  <2>1. CASE t = s
    <3>1. writes'[t] # NoWrites
      BY <2>1, <1>0, <1>1 DEF IInv, TypeOK, NoWrites
    <3> QED
      BY <2>1, <3>1 DEF IInv, TypeOK, Apply
  <2>2. CASE t # s
    <3>1. writes'[t] = writes[t] /\ reply'[t] = reply[t] /\ pc'[t] = pc[t]
          /\ call'[t] = call[t]
      BY <2>2, <1>1 DEF IInv, TypeOK, Apply
    <3>2. writes[t] = NoWrites
      BY <2>2, NoSessionAssumption DEF IInv, LockDiscipline
    <3> QED
      BY <3>1, <3>2 DEF IInv, LockDiscipline, Legal
  <2> QED
    BY <2>1, <2>2
<1>6. PendingContinuesHistory'
  <2> SUFFICES ASSUME NEW t \in Sessions
               PROVE  Chained(transitions \o writes'[t].transitions)
    BY DEF PendingContinuesHistory, dbVars, Chained
  <2>1. CASE t = s
    <3>1. writes'[t].transitions = Append(w, h)
      BY <2>1, <1>1 DEF IInv, TypeOK
    <3>2. Chained(transitions \o w)
      BY DEF IInv, PendingContinuesHistory, w
    <3>3. Chained(Append(transitions \o w, h))
      BY <3>2, VisibleIsEnd, ChainedAppend DEF w
    <3>4. transitions \o Append(w, h) = Append(transitions \o w, h)
      BY <1>0, ConcatAppend
    <3> QED
      BY <3>1, <3>3, <3>4
  <2>2. CASE t # s
    BY <2>2, <1>1 DEF IInv, TypeOK, PendingContinuesHistory
  <2> QED
    BY <2>1, <2>2
<1> QED
  BY <1>2, <1>3, <1>4, <1>5, <1>6 DEF IInv

\* A step that leaves tables, lock and uncommitted rows alone keeps IInv when
\* it only moves s, and s does not claim an answer True or wait for nothing.
LEMMA QuietKeepsIInv ==
  ASSUME IInv, NEW s \in Sessions, UNCHANGED << dbVars, lock, writes >>, TypeOK',
         reply' = reply \/ reply' = [reply EXCEPT ![s] = "missed"],
         \A t \in Sessions \ {s} : pc'[t] = pc[t] /\ call'[t] = call[t],
         pc'[s] = "waiting" => writes[s] = NoWrites /\ Legal(call'[s])
  PROVE  IInv'
<1>1. HistoryMatchesStatus' /\ AuditMatchesHistory' /\ PendingAuditMatches'
      /\ PendingContinuesHistory'
  BY DEF IInv, HistoryMatchesStatus, AuditMatchesHistory, PendingAuditMatches,
         PendingContinuesHistory, Chained, dbVars
<1>2. LockDiscipline'
  <2> SUFFICES ASSUME NEW t \in Sessions
               PROVE  /\ writes[t] # NoWrites => lock = t
                      /\ reply'[t] = "applied" => writes[t] # NoWrites
                      /\ pc'[t] = "waiting" => writes[t] = NoWrites /\ Legal(call'[t])
    BY DEF LockDiscipline, Legal
  <2>1. /\ writes[t] # NoWrites => lock = t
        /\ reply'[t] = "applied" => writes[t] # NoWrites
    BY DEF IInv, TypeOK, LockDiscipline
  <2>2. pc'[t] = "waiting" => writes[t] = NoWrites /\ Legal(call'[t])
    BY DEF IInv, LockDiscipline, Legal
  <2> QED
    BY <2>1, <2>2
<1> QED
  BY <1>1, <1>2 DEF IInv

\* Ending a transaction that published nothing keeps IInv.
LEMMA EndKeepsIInv ==
  ASSUME IInv, NEW s \in Sessions, EndTransaction(s), UNCHANGED dbVars
  PROVE  IInv'
<1>1. TypeOK'
  BY NoHopType, NoWritesType DEF IInv, TypeOK, EndTransaction, dbVars
<1>2. HistoryMatchesStatus' /\ AuditMatchesHistory'
  BY DEF IInv, HistoryMatchesStatus, AuditMatchesHistory, Chained, dbVars
<1>3. \A t \in Sessions : writes'[t] = IF t = s THEN NoWrites ELSE writes[t]
  BY DEF IInv, TypeOK, EndTransaction
<1>4. PendingAuditMatches'
  BY <1>3 DEF IInv, PendingAuditMatches, NoWrites
<1>5. LockDiscipline'
  BY <1>3, NoSessionAssumption DEF IInv, TypeOK, LockDiscipline, EndTransaction, Legal
<1>6. PendingContinuesHistory'
  <2> SUFFICES ASSUME NEW t \in Sessions
               PROVE  Chained(transitions \o writes'[t].transitions)
    BY DEF PendingContinuesHistory, dbVars, Chained
  <2>1. CASE t = s
    <3>1. transitions \o writes'[t].transitions = transitions
      BY <2>1, <1>3, ConcatAppend, NoHopType DEF NoWrites, IInv, TypeOK
    <3> QED
      BY <3>1 DEF IInv, HistoryMatchesStatus
  <2>2. CASE t # s
    BY <2>2, <1>3 DEF IInv, PendingContinuesHistory
  <2> QED
    BY <2>1, <2>2
<1> QED
  BY <1>1, <1>2, <1>4, <1>5, <1>6 DEF IInv

\* A commit publishes what its session had pending, which continued the
\* committed history; nobody else had anything pending.
LEMMA CommitKeepsIInv ==
  ASSUME IInv, NEW s \in Sessions, Commit(s)
  PROVE  IInv'
<1> DEFINE w == writes[s].transitions
<1>1. /\ w \in Seq(Hop) /\ writes[s].audit = w
      /\ transitions \in Seq(Hop) /\ transitions # << >> /\ audit = transitions
      /\ transitions[Len(transitions)].to = status
  BY DEF IInv, TypeOK, PendingAuditMatches, AuditMatchesHistory,
         HistoryMatchesStatus, Chained
<1>2. transitions' = transitions \o w /\ audit' = transitions \o w
  BY <1>1 DEF Commit
<1>3. \A t \in Sessions : writes'[t] = IF t = s THEN NoWrites ELSE writes[t]
  BY DEF IInv, TypeOK, Commit, EndTransaction
<1>4. TypeOK'
  <2>1. status' \in Status /\ transitions' \in Seq(Hop) /\ audit' \in Seq(Hop)
    BY <1>2, VisibleIsEnd DEF Commit
  <2> QED
    BY <2>1, NoHopType, NoWritesType DEF IInv, TypeOK, Commit, EndTransaction
<1>5. HistoryMatchesStatus'
  <2>1. Chained(transitions')
    BY <1>2 DEF IInv, PendingContinuesHistory
  <2>2. transitions'[Len(transitions')].to = status'
    BY <1>2, VisibleIsEnd DEF Commit
  <2> QED
    BY <2>1, <2>2 DEF HistoryMatchesStatus, Chained
<1>6. AuditMatchesHistory' /\ PendingAuditMatches'
  BY <1>2, <1>3 DEF IInv, AuditMatchesHistory, PendingAuditMatches, NoWrites
<1>7. LockDiscipline'
  BY <1>3, NoSessionAssumption
  DEF IInv, TypeOK, LockDiscipline, Commit, EndTransaction, Legal
<1>8. PendingContinuesHistory'
  <2> SUFFICES ASSUME NEW t \in Sessions
               PROVE  Chained(transitions' \o writes'[t].transitions)
    BY DEF PendingContinuesHistory, Chained
  <2>1. CASE writes'[t] = NoWrites
    <3>1. transitions' \o writes'[t].transitions = transitions'
      BY <2>1, <1>4, ConcatAppend, NoHopType DEF NoWrites, TypeOK
    <3> QED
      BY <3>1, <1>5 DEF HistoryMatchesStatus, Chained
  <2>2. CASE writes'[t] # NoWrites
    <3>1. t # s /\ writes'[t] = writes[t] /\ lock = t
      BY <2>2, <1>3 DEF IInv, LockDiscipline
    <3>2. w = << >>
      BY <3>1 DEF IInv, LockDiscipline, NoWrites
    <3>3. transitions' = transitions
      BY <3>2, <1>1, <1>2, ConcatAppend, NoHopType
    <3> QED
      BY <3>1, <3>3 DEF IInv, PendingContinuesHistory
  <2> QED
    BY <2>1, <2>2
<1> QED
  BY <1>4, <1>5, <1>6, <1>7, <1>8 DEF IInv

-----------------------------------------------------------------------------
LEMMA InitIInv == Init => IInv
<1> SUFFICES ASSUME Init PROVE IInv
  OBVIOUS
<1>1. TypeOK
  BY GraphType, NoHopType, NoWritesType DEF Init, TypeOK
<1>2. Chained(<< NoHop >>) /\ << NoHop >>[Len(<< NoHop >>)].to = "INTAKE"
  BY DEF Chained, NoHop
<1>3. HistoryMatchesStatus /\ AuditMatchesHistory /\ PendingAuditMatches
  BY <1>2 DEF Init, HistoryMatchesStatus, AuditMatchesHistory, PendingAuditMatches,
              NoWrites
<1>4. LockDiscipline
  BY DEF Init, LockDiscipline
<1>5. PendingContinuesHistory
  <2>1. << NoHop >> \o << >> = << NoHop >>
    BY ConcatAppend, NoHopType
  <2> QED
    BY <2>1, <1>2 DEF Init, PendingContinuesHistory, NoWrites
<1> QED
  BY <1>1, <1>3, <1>4, <1>5 DEF IInv

LEMMA NextIInv == IInv /\ [Next]_vars => IInv'
<1> SUFFICES ASSUME IInv, [Next]_vars PROVE IInv'
  OBVIOUS
<1>1. CASE UNCHANGED vars
  BY <1>1 DEF vars, dbVars, sessVars, IInv, TypeOK, HistoryMatchesStatus,
              AuditMatchesHistory, PendingAuditMatches, LockDiscipline,
              PendingContinuesHistory, Chained, Legal
<1>2. ASSUME NEW s \in Sessions, Step(s)
      PROVE  IInv'
  <2>1. CASE Begin(s)
    <3>1. TypeOK'
      BY <2>1 DEF Begin, IInv, TypeOK, dbVars
    <3> QED
      BY <2>1, <3>1, QuietKeepsIInv DEF Begin, IInv, TypeOK
  <2>2. CASE Commit(s)
    BY <2>2, CommitKeepsIInv
  <2>3. CASE Rollback(s) \/ Disconnect(s)
    BY <2>3, EndKeepsIInv DEF Rollback, Disconnect
  <2>4. CASE Resume(s)
    <3>1. call[s] \in Hop /\ Legal(call[s]) /\ writes[s] = NoWrites
      BY <2>4 DEF Resume, IInv, TypeOK, LockDiscipline
    <3>2. CASE call[s].from = status
      <4>1. call[s].from = Visible(s)
        BY <3>1, <3>2 DEF Visible, NoWrites
      <4> QED
        BY <2>4, <3>1, <3>2, <4>1, ApplyKeepsIInv DEF Resume
    <3>3. CASE call[s].from # status
      <4>1. TypeOK'
        BY <2>4, <3>3, NoHopType DEF Resume, Miss, IInv, TypeOK, dbVars
      <4> QED
        BY <2>4, <3>3, <4>1, QuietKeepsIInv DEF Resume, Miss, IInv, TypeOK
    <3> QED
      BY <3>2, <3>3
  <2>5. CASE TransitionMisses(s)
    <3>1. TypeOK'
      BY <2>5 DEF TransitionMisses, Miss, IInv, TypeOK, dbVars
    <3> QED
      BY <2>5, <3>1, QuietKeepsIInv DEF TransitionMisses, Miss, IInv, TypeOK
  <2>6. CASE TransitionRaises(s)
    <3>1. TypeOK'
      BY <2>6 DEF TransitionRaises, IInv, TypeOK, dbVars
    <3> QED
      BY <2>6, <3>1, QuietKeepsIInv DEF TransitionRaises, IInv, TypeOK
  <2>7. ASSUME NEW to \in Status, TransitionApplies(s, to)
        PROVE  IInv'
    <3>1. HopTo(s, to) \in Hop /\ HopTo(s, to).from = Visible(s)
      BY VisibleIsEnd DEF HopTo, Hop
    <3> QED
      BY <2>7, <3>1, ApplyKeepsIInv DEF TransitionApplies
  <2>8. ASSUME NEW to \in Status, TransitionWaits(s, to)
        PROVE  IInv'
    <3>1. HopTo(s, to) \in Hop /\ Legal(HopTo(s, to))
      BY <2>8, VisibleIsEnd DEF HopTo, Hop, TransitionWaits
    <3>2. TypeOK'
      BY <2>8, <3>1 DEF TransitionWaits, IInv, TypeOK, dbVars
    <3>3. writes[s] = NoWrites
      BY <2>8 DEF TransitionWaits, IInv, LockDiscipline
    <3>4. Legal(call'[s])
      BY <2>8, <3>1 DEF TransitionWaits, IInv, TypeOK
    <3> QED
      BY <2>8, <3>2, <3>3, <3>4, QuietKeepsIInv DEF TransitionWaits, IInv, TypeOK
  <2> QED
    BY <1>2, <2>1, <2>2, <2>3, <2>4, <2>5, <2>6, <2>7, <2>8 DEF Step
<1> QED
  BY <1>1, <1>2 DEF Next

-----------------------------------------------------------------------------
\* The results about the tables.

LEMMA Invariance == Spec => []IInv
  BY InitIInv, NextIInv, PTL DEF Spec

\* Every variable keeps its type, for any set of sessions.
THEOREM TypeCorrect == Spec => []TypeOK
<1>1. IInv => TypeOK
  BY DEF IInv
<1> QED
  BY <1>1, Invariance, PTL

\* The committed history is always one chain of legal hops that ends in the
\* status the case row shows.
THEOREM HistoryIsRight == Spec => []HistoryMatchesStatus
<1>1. IInv => HistoryMatchesStatus
  BY DEF IInv
<1> QED
  BY <1>1, Invariance, PTL

\* The audit log never tells another story than the history table.
THEOREM AuditIsRight == Spec => []AuditMatchesHistory
<1>1. IInv => AuditMatchesHistory
  BY DEF IInv
<1> QED
  BY <1>1, Invariance, PTL

\* Of all sessions racing for the case, at most one holds an answer True.
THEOREM AtMostOneWinner == Spec => []OneWinner
<1>1. IInv => OneWinner
  BY DEF IInv, LockDiscipline, OneWinner
<1> QED
  BY <1>1, Invariance, PTL

-----------------------------------------------------------------------------
\* What session s would leave in case_state_transitions if it committed now.
Published(s) == transitions \o writes[s].transitions

\* In any step the history becomes what the moving session had pending, or
\* stays; what a session has pending is dropped, kept, or grows by one legal
\* hop.
LEMMA StepEffect ==
  ASSUME IInv, NEW s \in Sessions, Step(s)
  PROVE  /\ transitions' \in {transitions, Published(s)}
         /\ \A t \in Sessions :
              \/ Published(t)' \in {transitions', Published(t)}
              \/ \E h \in Hop :
                   /\ Legal(h) /\ h.from = Published(t)[Len(Published(t))].to
                   /\ Published(t)' = Append(Published(t), h)
<1>0. /\ transitions \in Seq(Hop) /\ \A t \in Sessions : writes[t].transitions \in Seq(Hop)
      /\ IInv'
  BY NextIInv DEF IInv, TypeOK, Next
<1>1. CASE UNCHANGED << transitions, writes >>
  BY <1>1 DEF Published
<1>2. CASE EndTransaction(s) /\ UNCHANGED dbVars
  <2>1. \A t \in Sessions : writes'[t] = IF t = s THEN NoWrites ELSE writes[t]
    BY <1>2 DEF IInv, TypeOK, EndTransaction
  <2>2. transitions' = transitions /\ transitions \o << >> = transitions
    BY <1>0, <1>2, ConcatAppend, NoHopType DEF dbVars
  <2>3. Published(s)' = transitions'
    <3>1. writes'[s].transitions = << >>
      BY <2>1 DEF NoWrites
    <3> QED
      BY <2>2, <3>1 DEF Published
  <2>4. ASSUME NEW t \in Sessions, t # s PROVE Published(t)' = Published(t)
    <3>1. writes'[t] = writes[t]
      BY <2>1, <2>4
    <3> QED
      BY <2>2, <3>1 DEF Published
  <2> QED
    BY <2>2, <2>3, <2>4
<1>3. CASE Commit(s)
  <2>1. transitions' = Published(s)
    BY <1>3 DEF Commit, Published
  <2>2. \A t \in Sessions : writes'[t] = IF t = s THEN NoWrites ELSE writes[t]
    BY <1>3 DEF IInv, TypeOK, Commit, EndTransaction
  <2>3. \A a \in Seq(Hop) : a \o << >> = a
    BY ConcatAppend, NoHopType
  <2>4. ASSUME NEW t \in Sessions
        PROVE  Published(t)' \in {transitions', Published(t)}
    <3>1. CASE writes'[t] = NoWrites
      BY <3>1, <2>3, <1>0 DEF Published, NoWrites, IInv, TypeOK
    <3>2. CASE writes'[t] # NoWrites
      <4>1. t # s /\ writes'[t] = writes[t] /\ lock = t
        BY <3>2, <2>2 DEF IInv, LockDiscipline
      <4>2. writes[s] = NoWrites
        BY <4>1 DEF IInv, LockDiscipline
      <4>3. transitions' = transitions
        BY <4>2, <2>1, <2>3, <1>0 DEF Published, NoWrites
      <4> QED
        BY <4>1, <4>3 DEF Published
    <3> QED
      BY <3>1, <3>2
  <2> QED
    BY <2>1, <2>4
<1>4. ASSUME NEW h \in Hop, Legal(h), h.from = Visible(s), Apply(s, h), UNCHANGED dbVars
      PROVE  /\ transitions' = transitions
             /\ \A t \in Sessions :
                  \/ Published(t)' = Published(t)
                  \/ /\ h.from = Published(t)[Len(Published(t))].to
                     /\ Published(t)' = Append(Published(t), h)
  <2>1. transitions' = transitions
    BY <1>4 DEF dbVars
  <2>2. \A t \in Sessions : t # s => Published(t)' = Published(t)
    BY <1>4, <2>1 DEF Published, Apply, IInv, TypeOK
  <2>3. writes'[s].transitions = Append(writes[s].transitions, h)
    BY <1>4 DEF Apply, IInv, TypeOK
  <2>4. Published(s)' = Append(Published(s), h)
    <3>1. Published(s)' = transitions \o Append(writes[s].transitions, h)
      BY <2>1, <2>3 DEF Published
    <3>2. writes[s].transitions \in Seq(Hop)
      BY <1>0
    <3>3. transitions \o Append(writes[s].transitions, h)
            = Append(transitions \o writes[s].transitions, h)
      BY <1>0, <3>2, ConcatAppend
    <3> QED
      BY <3>1, <3>3 DEF Published
  <2>5. h.from = Published(s)[Len(Published(s))].to
    BY <1>4, VisibleIsEnd DEF Published
  <2> QED
    BY <2>1, <2>2, <2>4, <2>5
<1>5. CASE Resume(s)
  <2>1. CASE call[s].from = status
    <3>1. call[s] \in Hop /\ Legal(call[s]) /\ writes[s] = NoWrites
      BY <1>5 DEF Resume, IInv, TypeOK, LockDiscipline
    <3>2. call[s].from = Visible(s) /\ Apply(s, call[s]) /\ UNCHANGED dbVars
      BY <1>5, <2>1, <3>1 DEF Visible, NoWrites, Resume
    <3> QED
      BY <3>1, <3>2, <1>4
  <2>2. CASE call[s].from # status
    BY <1>5, <2>2, <1>1 DEF Resume, Miss, dbVars
  <2> QED
    BY <2>1, <2>2
<1>6. ASSUME NEW to \in Status, TransitionApplies(s, to)
      PROVE  \E h \in Hop : /\ Legal(h) /\ h.from = Visible(s)
                            /\ Apply(s, h) /\ UNCHANGED dbVars
  <2>1. HopTo(s, to) \in Hop /\ HopTo(s, to).from = Visible(s)
    BY VisibleIsEnd DEF HopTo, Hop
  <2> QED
    BY <1>6, <2>1 DEF TransitionApplies
<1>7. CASE \/ Begin(s) \/ TransitionMisses(s) \/ TransitionRaises(s)
           \/ \E to \in Status : TransitionWaits(s, to)
  BY <1>7, <1>1
  DEF Begin, TransitionMisses, Miss, TransitionRaises, TransitionWaits, dbVars
<1>8. CASE Rollback(s) \/ Disconnect(s)
  BY <1>8, <1>2 DEF Rollback, Disconnect
<1> QED
  BY <1>3, <1>4, <1>5, <1>6, <1>7, <1>8 DEF Step

-----------------------------------------------------------------------------
\* No status is entered twice: every legal hop goes up in this ranking.
Rank ==
  [ INTAKE |-> 1, VALIDATING |-> 2, VALIDATION_FAILED |-> 3, DOCUMENTS_READY |-> 3,
    CLASSIFYING |-> 4, INVESTIGATING |-> 5, INVESTIGATIONS_COMPLETE |-> 6,
    RECONCILING |-> 7, REINVESTIGATING |-> 8,
    RECONCILING_POST_REINVESTIGATION |-> 9, SYNTHESIZING |-> 10,
    AWAITING_HUMAN_REVIEW |-> 11, FINALIZED |-> 12, FAILED |-> 13, CANCELLED |-> 13 ]

Ranked(rows) ==
  \A i, j \in DOMAIN rows : i < j => Rank[rows[i].to] < Rank[rows[j].to]

RankInv ==
  /\ IInv
  /\ Ranked(transitions)
  /\ \A s \in Sessions : Ranked(Published(s))

LEMMA RankType == Rank \in [Status -> Nat]
  BY DEF Rank, Status, Graph!Status, Graph!TRANSITIONS

LEMMA HopsGoUp ==
  \A a \in Status : \A b \in TRANSITIONS[a] : Rank[a] < Rank[b]
  BY DEF Rank, Status, TRANSITIONS, Graph!Status, Graph!TRANSITIONS

LEMMA RankedAppend ==
  ASSUME NEW rows \in Seq(Hop), NEW h \in Hop, rows # << >>, Ranked(rows),
         Legal(h), h.from = rows[Len(rows)].to
  PROVE  Ranked(Append(rows, h))
<1>1. /\ Len(Append(rows, h)) = Len(rows) + 1
      /\ Append(rows, h)[Len(rows) + 1] = h
      /\ \A i \in 1 .. Len(rows) : Append(rows, h)[i] = rows[i]
      /\ Len(rows) \in Nat /\ Len(rows) >= 1
      /\ DOMAIN Append(rows, h) = 1 .. Len(rows) + 1
  OBVIOUS
<1>2. Rank[rows[Len(rows)].to] < Rank[h.to]
  BY HopsGoUp DEF Legal
<1>3. \A i \in 1 .. Len(rows) : rows[i].to \in Status
  BY HopsEndInStatus
<1>4. ASSUME NEW i \in 1 .. Len(rows) + 1, NEW j \in 1 .. Len(rows) + 1, i < j
      PROVE  Rank[Append(rows, h)[i].to] < Rank[Append(rows, h)[j].to]
  <2>1. CASE j <= Len(rows)
    BY <2>1, <1>1, <1>4 DEF Ranked
  <2>2. CASE j = Len(rows) + 1 /\ i = Len(rows)
    BY <2>2, <1>1, <1>2
  <2>3. CASE j = Len(rows) + 1 /\ i < Len(rows)
    <3>1. Rank[rows[i].to] < Rank[rows[Len(rows)].to]
      BY <2>3, <1>1 DEF Ranked
    <3>2. /\ Rank[rows[i].to] \in Nat /\ Rank[rows[Len(rows)].to] \in Nat
          /\ Rank[h.to] \in Nat
      BY <2>3, <1>1, <1>3, RankType DEF Hop
    <3>3. Append(rows, h)[i] = rows[i] /\ Append(rows, h)[j] = h
      BY <2>3, <1>1
    <3> QED
      BY <3>1, <3>2, <3>3, <1>2
  <2> QED
    BY <2>1, <2>2, <2>3, <1>1, <1>4
<1> QED
  BY <1>1, <1>4 DEF Ranked

LEMMA RankInvariance == Spec => []RankInv
<1>1. Init => RankInv
  <2> SUFFICES ASSUME Init PROVE RankInv
    OBVIOUS
  <2>1. Ranked(transitions)
    BY DEF Init, Ranked
  <2>2. ASSUME NEW s \in Sessions PROVE Published(s) = transitions
    <3>1. << NoHop >> \o << >> = << NoHop >>
      BY ConcatAppend, NoHopType
    <3> QED
      BY <3>1 DEF Init, Published, NoWrites
  <2> QED
    BY <2>1, <2>2, InitIInv DEF RankInv
<1>2. RankInv /\ [Next]_vars => RankInv'
  <2> SUFFICES ASSUME RankInv, [Next]_vars PROVE RankInv'
    OBVIOUS
  <2>1. IInv /\ IInv'
    BY NextIInv DEF RankInv
  <2>2. CASE UNCHANGED vars
    BY <2>1, <2>2 DEF RankInv, Ranked, Published, vars, dbVars, sessVars
  <2>3. ASSUME NEW s \in Sessions, Step(s) PROVE RankInv'
    <3>1. Ranked(transitions')
      BY <2>1, <2>3, StepEffect DEF RankInv
    <3>2. ASSUME NEW t \in Sessions PROVE Ranked(Published(t)')
      <4>1. CASE Published(t)' \in {transitions', Published(t)}
        BY <4>1, <3>1 DEF RankInv
      <4>2. ASSUME NEW h \in Hop, Legal(h),
                   h.from = Published(t)[Len(Published(t))].to,
                   Published(t)' = Append(Published(t), h)
            PROVE  Ranked(Published(t)')
        <5>1. Published(t) \in Seq(Hop) /\ Published(t) # << >>
          <6>1. Published(t) \in Seq(Hop)
            BY <2>1, VisibleIsEnd DEF Published
          <6>2. Published(t) # << >>
            BY <2>1 DEF Published, IInv, PendingContinuesHistory, Chained
          <6> QED
            BY <6>1, <6>2
        <5> QED
          BY <4>2, <5>1, RankedAppend DEF RankInv
      <4> QED
        BY <2>1, <2>3, <4>1, <4>2, StepEffect
    <3> QED
      BY <2>1, <3>1, <3>2 DEF RankInv, Ranked
  <2> QED
    BY <2>2, <2>3 DEF Next
<1> QED
  BY <1>1, <1>2, PTL DEF Spec

\* "Concurrent workers can't double-advance a case": no two history rows leave
\* the same status.
THEOREM NoDoubleAdvance == Spec => []OneRowPerHop
<1>1. RankInv => OneRowPerHop
  <2> SUFFICES ASSUME RankInv, NEW i \in DOMAIN transitions,
                      NEW j \in DOMAIN transitions, i < j,
                      transitions[i].from = transitions[j].from
               PROVE  FALSE
    <3>1. DOMAIN transitions = 1 .. Len(transitions) /\ Len(transitions) \in Nat
      BY DEF RankInv, IInv, TypeOK
    <3> QED
      BY <3>1 DEF OneRowPerHop
  <2>1. /\ transitions \in Seq(Hop) /\ DOMAIN transitions = 1 .. Len(transitions)
        /\ Chained(transitions) /\ Len(transitions) \in Nat
    BY DEF RankInv, IInv, TypeOK, HistoryMatchesStatus
  <2>2. \A k \in 1 .. Len(transitions) :
          k > 1 => /\ transitions[k].from = transitions[k - 1].to
                   /\ transitions[k].from \in Status
    <3> TAKE k \in 1 .. Len(transitions)
    <3> HAVE k > 1
    <3>1. k - 1 \in 1 .. Len(transitions) - 1 /\ (k - 1) + 1 = k
      BY <2>1
    <3> QED
      BY <3>1, <2>1 DEF Chained, Legal
  <2>3. j > 1 /\ transitions[j].from \in Status
    BY <2>1, <2>2
  <2>4. CASE i = 1
    BY <2>4, <2>1, <2>3, GraphType DEF Chained, NoHop
  <2>5. CASE i > 1
    <3>1. transitions[i - 1].to = transitions[j - 1].to
      BY <2>1, <2>2, <2>3, <2>5
    <3>2. /\ i - 1 \in DOMAIN transitions /\ j - 1 \in DOMAIN transitions
          /\ i - 1 < j - 1
      BY <2>1, <2>5
    <3>3. Rank[transitions[i - 1].to] < Rank[transitions[j - 1].to]
      BY <3>2 DEF RankInv, Ranked
    <3>4. Rank[transitions[i - 1].to] \in Nat
      BY <2>1, <3>2, RankType, HopsEndInStatus
    <3> QED
      BY <3>1, <3>3, <3>4
  <2> QED
    BY <2>1, <2>4, <2>5
<1> QED
  BY <1>1, RankInvariance, PTL

\* At most one re-investigation round, and only a reviewed case is finalized.
THEOREM ReviewIsRight == Spec => []ReviewAndReinvestigation
<1>1. RankInv => ReviewAndReinvestigation
  <2> SUFFICES ASSUME RankInv PROVE ReviewAndReinvestigation
    OBVIOUS
  <2> DEFINE p == PathOf(transitions)
  <2>1. /\ transitions \in Seq(Hop) /\ DOMAIN transitions = 1 .. Len(transitions)
        /\ Chained(transitions) /\ Len(transitions) \in Nat
    BY DEF RankInv, IInv, TypeOK, HistoryMatchesStatus
  <2>2. /\ DOMAIN p = 1 .. Len(transitions)
        /\ \A i \in 1 .. Len(transitions) : p[i] = transitions[i].to
    BY <2>1 DEF PathOf
  <2>3. \A i, j \in 1 .. Len(transitions) :
          i < j => transitions[i].to # transitions[j].to
    <3> SUFFICES ASSUME NEW i \in 1 .. Len(transitions),
                        NEW j \in 1 .. Len(transitions), i < j,
                        transitions[i].to = transitions[j].to
                 PROVE  FALSE
      OBVIOUS
    <3>1. Rank[transitions[i].to] < Rank[transitions[j].to]
      BY <2>1 DEF RankInv, Ranked
    <3>2. Rank[transitions[i].to] \in Nat
      BY <2>1, RankType, HopsEndInStatus
    <3> QED
      BY <3>1, <3>2
  <2>4. \A a \in Status : "FINALIZED" \in TRANSITIONS[a] => a = "AWAITING_HUMAN_REVIEW"
    BY DEF Status, TRANSITIONS, Graph!Status, Graph!TRANSITIONS
  <2>5. ASSUME NEW i \in 1 .. Len(transitions), transitions[i].to = "FINALIZED"
        PROVE  i > 1 /\ transitions[i - 1].to = "AWAITING_HUMAN_REVIEW"
    <3>1. i > 1
      BY <2>1, <2>5 DEF Chained, NoHop
    <3>2. i - 1 \in 1 .. Len(transitions) - 1 /\ (i - 1) + 1 = i
      BY <2>1, <3>1
    <3>3. Legal(transitions[i]) /\ transitions[i].from = transitions[i - 1].to
      BY <2>1, <3>2 DEF Chained
    <3> QED
      BY <3>1, <3>3, <2>4, <2>5 DEF Legal
  <2>6. \A i, j \in DOMAIN p :
          p[i] = "REINVESTIGATING" /\ p[j] = "REINVESTIGATING" => i = j
    BY <2>1, <2>2, <2>3
  <2>7. \A i \in DOMAIN p :
          p[i] = "FINALIZED" => i > 1 /\ p[i - 1] = "AWAITING_HUMAN_REVIEW"
    <3> TAKE i \in DOMAIN p
    <3> HAVE p[i] = "FINALIZED"
    <3>1. i > 1 /\ transitions[i - 1].to = "AWAITING_HUMAN_REVIEW"
      BY <2>2, <2>5
    <3> QED
      BY <3>1, <2>1, <2>2
  <2> HIDE DEF p
  <2> QED
    BY <2>6, <2>7 DEF ReviewAndReinvestigation, p
<1> QED
  BY <1>1, RankInvariance, PTL

-----------------------------------------------------------------------------
\* The refinement, and the action property it shares its argument with.

LEMMA ChainIsPath ==
  ASSUME NEW rows \in Seq(Hop), Chained(rows)
  PROVE  /\ Graph!IsCasePath(PathOf(rows))
         /\ PathOf(rows) \in Seq(Status) /\ Len(PathOf(rows)) = Len(rows)
<1>1. /\ DOMAIN rows = 1 .. Len(rows) /\ Len(rows) \in Nat /\ Len(rows) >= 1
      /\ \A i \in 1 .. Len(rows) : rows[i].to \in Status
  BY HopsEndInStatus DEF Chained
<1>2. /\ PathOf(rows) \in Seq(Status) /\ Len(PathOf(rows)) = Len(rows)
      /\ \A i \in 1 .. Len(rows) : PathOf(rows)[i] = rows[i].to
  BY <1>1 DEF PathOf
<1>3. PathOf(rows) # << >> /\ PathOf(rows)[1] = "INTAKE"
  BY <1>1, <1>2 DEF Chained, NoHop
<1>4. ASSUME NEW i \in 1 .. Len(rows) - 1
      PROVE  PathOf(rows)[i + 1] \in TRANSITIONS[PathOf(rows)[i]]
  <2>1. Legal(rows[i + 1]) /\ rows[i + 1].from = rows[i].to
    BY DEF Chained
  <2>2. PathOf(rows)[i] = rows[i].to /\ PathOf(rows)[i + 1] = rows[i + 1].to
    BY <1>1, <1>2
  <2> QED
    BY <2>1, <2>2 DEF Legal
<1> QED
  BY <1>2, <1>3, <1>4 DEF Graph!IsCasePath, TRANSITIONS

\* A step leaves status and history alone, or publishes pending rows, the
\* first of which leaves the status the case had.
LEMMA PublishOrStutter ==
  ASSUME IInv, NEW s \in Sessions, Step(s)
  PROVE  \/ UNCHANGED << status, transitions >>
         \/ /\ writes[s].transitions # << >>
            /\ transitions' = Published(s)
            /\ TRANSITIONS[status] # {}
<1> DEFINE w == writes[s].transitions
<1>0. /\ w \in Seq(Hop) /\ transitions \in Seq(Hop) /\ Len(transitions) >= 1
      /\ Len(transitions) \in Nat /\ transitions[Len(transitions)].to = status
  BY DEF IInv, TypeOK, HistoryMatchesStatus, Chained
<1>1. CASE Commit(s) /\ w = << >>
  BY <1>0, <1>1 DEF Commit, Visible
<1>2. CASE Commit(s) /\ w # << >>
  <2>1. transitions' = transitions \o w
    BY <1>2 DEF Commit
  <2>2. /\ Len(transitions \o w) > Len(transitions) /\ Len(transitions \o w) \in Nat
        /\ (transitions \o w)[Len(transitions)] = transitions[Len(transitions)]
    <3> HIDE DEF w
    <3> QED
      BY <1>0, <1>2
  <2>3. Chained(transitions \o w)
    BY DEF IInv, PendingContinuesHistory
  <2>4. Len(transitions) \in 1 .. Len(transitions \o w) - 1
    BY <1>0, <2>2
  <2>5. Legal((transitions \o w)[Len(transitions) + 1])
        /\ (transitions \o w)[Len(transitions) + 1].from = status
    BY <2>2, <2>3, <2>4, <1>0 DEF Chained
  <2>6. TRANSITIONS[status] # {}
    BY <2>5 DEF Legal
  <2> QED
    BY <1>2, <2>1, <2>6 DEF Published
<1>3. CASE ~ Commit(s)
  BY <1>3
  DEF Step, Begin, Rollback, Disconnect, Resume, TransitionMisses, TransitionRaises,
      TransitionApplies, TransitionWaits, dbVars
<1> QED
  BY <1>1, <1>2, <1>3

\* A closed case stays as it was closed.
THEOREM ClosedStaysClosed == Spec => TerminalIsForever
<1>1. IInv /\ [Next]_vars
        => [(status \in Graph!TERMINAL_STATUSES) => (status' = status)]_vars
  <2> SUFFICES ASSUME IInv, [Next]_vars, status \in Graph!TERMINAL_STATUSES
               PROVE  status' = status
    OBVIOUS
  <2>1. TRANSITIONS[status] = {}
    BY DEF Graph!TERMINAL_STATUSES, TRANSITIONS
  <2>2. CASE UNCHANGED vars
    BY <2>2 DEF vars, dbVars
  <2>3. CASE Next
    BY <2>1, <2>3, PublishOrStutter DEF Next
  <2> QED
    BY <2>2, <2>3
<1> QED
  BY <1>1, Invariance, PTL DEF Spec, TerminalIsForever

\* The tables implement the abstract lifecycle.
THEOREM Refinement == Spec => ImplementsLifecycle
<1> DEFINE path == [i \in DOMAIN transitions |-> transitions[i].to]
<1>1. Init => Graph!Init
  BY DEF Init, Graph!Init, NoHop
<1>2. IInv /\ [Next]_vars => [Graph!Advance]_path
  <2> SUFFICES ASSUME IInv, [Next]_vars PROVE Graph!Advance \/ path' = path
    OBVIOUS
  <2>1. CASE UNCHANGED vars
    BY <2>1 DEF vars, dbVars
  <2>2. ASSUME NEW s \in Sessions, Step(s)
        PROVE  Graph!Advance \/ path' = path
    <3>1. CASE UNCHANGED transitions
      BY <3>1
    <3>2. CASE writes[s].transitions # << >> /\ transitions' = Published(s)
      <4> DEFINE w == writes[s].transitions
      <4>1. w \in Seq(Hop) /\ transitions \in Seq(Hop) /\ Chained(transitions)
            /\ transitions' \in Seq(Hop) /\ Chained(transitions')
        <5>1. IInv'
          BY <2>2, NextIInv DEF Next
        <5>2. Chained(Published(s))
          BY DEF IInv, PendingContinuesHistory, Published
        <5> QED
          BY <5>1, <5>2, <3>2 DEF IInv, TypeOK, HistoryMatchesStatus, Chained
      <4>2. transitions' = transitions \o w /\ w # << >>
        BY <3>2 DEF Published
      <4> HIDE DEF w
      <4>3. /\ Len(transitions') > Len(transitions)
            /\ \A i \in 1 .. Len(transitions) : transitions'[i] = transitions[i]
            /\ Len(transitions) \in Nat /\ Len(transitions') \in Nat
            /\ DOMAIN transitions = 1 .. Len(transitions)
            /\ DOMAIN transitions' = 1 .. Len(transitions')
        BY <4>1, <4>2
      <4>4. /\ Graph!IsCasePath(PathOf(transitions'))
            /\ PathOf(transitions') \in Seq(Status)
            /\ Len(PathOf(transitions')) = Len(transitions')
            /\ PathOf(transitions) \in Seq(Status)
            /\ Len(PathOf(transitions)) = Len(transitions)
        BY <4>1, ChainIsPath
      <4>5. path = PathOf(transitions) /\ path' = PathOf(transitions')
        BY DEF PathOf
      <4>6. \A i \in 1 .. Len(path) : path'[i] = path[i]
        BY <4>3, <4>4, <4>5
      <4>7. SubSeq(path', 1, Len(path)) = path
        <5> HIDE DEF path
        <5>1. path \in Seq(Status) /\ path' \in Seq(Status) /\ Len(path) <= Len(path')
              /\ Len(path) \in Nat
          BY <4>3, <4>4, <4>5
        <5> QED
          BY <5>1, <4>6
      <4> QED
        BY <4>3, <4>4, <4>5, <4>7 DEF Graph!Advance
    <3> QED
      BY <2>2, <3>1, <3>2, PublishOrStutter
  <2> QED
    BY <2>1, <2>2 DEF Next
<1> QED
  BY <1>1, <1>2, Invariance, PTL DEF Spec, ImplementsLifecycle, Graph!Spec
=============================================================================

-------------------------- MODULE CaseStateMachine --------------------------
(***************************************************************************)
(* app/state_machine.py: transition_case() called by concurrent sessions   *)
(* on one case row.  A session is a SQLAlchemy session with its own        *)
(* Postgres transaction under READ COMMITTED:                              *)
(*                                                                         *)
(*   - status, transitions and audit are the committed tables;             *)
(*   - writes[s] is what session s has written and not yet committed, seen *)
(*     by s alone;                                                         *)
(*   - lock is the session holding the row lock its UPDATE took, kept to   *)
(*     the end of its transaction;                                         *)
(*   - an UPDATE whose WHERE matches the committed row but finds it locked *)
(*     waits, and tests the WHERE again on the row it is given.            *)
(*                                                                         *)
(* The tables are sequences in commit order; rows carry no time (created_at*)
(* is the transaction's start, the same for all its rows).                 *)
(***************************************************************************)
EXTENDS Naturals, Sequences

CONSTANTS
  Sessions,    \* the database sessions
  NoSession    \* the row lock is free

ASSUME NoSessionAssumption == NoSession \notin Sessions

VARIABLES
  status,       \* cases.status, committed
  transitions,  \* case_state_transitions, committed: hops [from, to]
  audit,        \* audit_events about the status, committed: hops [from, to]
  lock,         \* the session whose UPDATE locked the row, or NoSession
  pc,           \* what each session is doing
  call,         \* the hop a waiting session's UPDATE asks for
  reply,        \* what transition_case last returned to each session
  writes        \* the rows each session has added and not committed

dbVars   == << status, transitions, audit >>
sessVars == << pc, call, reply, writes >>
vars     == << dbVars, lock, sessVars >>

\* The graph, and what a path of it is.
Graph == INSTANCE CaseLifecycle
           WITH path <- [i \in DOMAIN transitions |-> transitions[i].to]

Status      == Graph!Status
TRANSITIONS == Graph!TRANSITIONS

\* from_status is NULL on the row create_case() writes.
Null == "NULL"
Hop  == [from : Status \cup {Null}, to : Status]
Legal(h) == h.from \in Status /\ h.to \in TRANSITIONS[h.from]
LegalHops == {h \in Hop : Legal(h)}

NoWrites == [transitions |-> << >>, audit |-> << >>]
NoHop    == [from |-> Null, to |-> "INTAKE"]

\* Wrong on purpose: the UPDATE does not see what its own session wrote.
CommittedStatus(s) == status

\* The status an UPDATE of session s compares with: its own uncommitted value
\* if it wrote one, else the committed one.
Visible(s) ==
  LET mine == writes[s].transitions
  IN  IF mine = << >> THEN status ELSE mine[Len(mine)].to

-----------------------------------------------------------------------------
\* app/intake.py create_case(), committed: the case, its first history row and
\* its audit event.
Init ==
  /\ status      = "INTAKE"
  /\ transitions = << NoHop >>
  /\ audit       = << NoHop >>
  /\ lock        = NoSession
  /\ pc          = [s \in Sessions |-> "idle"]
  /\ call        = [s \in Sessions |-> NoHop]
  /\ reply       = [s \in Sessions |-> "none"]
  /\ writes      = [s \in Sessions |-> NoWrites]

Begin(s) ==
  /\ pc[s] = "idle"
  /\ pc' = [pc EXCEPT ![s] = "active"]
  /\ UNCHANGED << dbVars, lock, call, reply, writes >>

\* Wrong on purpose: the audit event does not name the new status.
ApplyAuditingSource(s, h) ==
  /\ lock' = s
  /\ writes' = [writes EXCEPT ![s] =
       [transitions |-> Append(@.transitions, h),
        audit |-> Append(@.audit, [h EXCEPT !.to = Null])]]
  /\ reply' = [reply EXCEPT ![s] = "applied"]
  /\ pc' = [pc EXCEPT ![s] = "active"]

\* The UPDATE hit one row: it is locked and changed, and the history row and
\* the audit event are flushed in the same transaction.
Apply(s, h) ==
  /\ lock' = s
  /\ writes' = [writes EXCEPT ![s] =
       [transitions |-> Append(@.transitions, h), audit |-> Append(@.audit, h)]]
  /\ reply' = [reply EXCEPT ![s] = "applied"]
  /\ pc' = [pc EXCEPT ![s] = "active"]

\* rowcount == 0: nothing is written, the caller gets False.
Miss(s) ==
  /\ reply' = [reply EXCEPT ![s] = "missed"]
  /\ pc' = [pc EXCEPT ![s] = "active"]
  /\ UNCHANGED << lock, writes >>

\* transition_case(from_status, to_status) by the three answers its UPDATE can
\* get.  A hop can only match from the status the session sees; every other
\* legal hop is a miss, whichever it is.
HopTo(s, to) == [from |-> Visible(s), to |-> to]

\* Wrong on purpose: a SELECT of the status instead of the row lock.
TransitionAppliesUnlocked(s, to) ==
  /\ pc[s] = "active" /\ Legal(HopTo(s, to))
  /\ Apply(s, HopTo(s, to))
  /\ UNCHANGED << dbVars, call >>

TransitionApplies(s, to) ==
  /\ pc[s] = "active" /\ Legal(HopTo(s, to))
  /\ lock \in {s, NoSession}
  /\ Apply(s, HopTo(s, to))
  /\ UNCHANGED << dbVars, call >>

TransitionWaits(s, to) ==
  /\ pc[s] = "active" /\ Legal(HopTo(s, to))
  /\ lock \notin {s, NoSession}
  /\ call' = [call EXCEPT ![s] = HopTo(s, to)]
  /\ pc' = [pc EXCEPT ![s] = "waiting"]
  /\ UNCHANGED << dbVars, lock, reply, writes >>

TransitionMisses(s) ==
  /\ pc[s] = "active"
  /\ {h \in LegalHops : h.from # Visible(s)} # {}
  /\ Miss(s)
  /\ UNCHANGED << dbVars, call >>

\* InvalidTransitionError: raised before any statement is sent.
TransitionRaises(s) ==
  /\ pc[s] = "active"
  /\ Hop \ LegalHops # {}
  /\ pc' = [pc EXCEPT ![s] = "raised"]
  /\ UNCHANGED << dbVars, lock, call, reply, writes >>

\* Wrong on purpose: the UPDATE's WHERE does not name the status.
ResumeBlindly(s) ==
  /\ pc[s] = "waiting" /\ lock = NoSession
  /\ Apply(s, call[s])
  /\ call' = [call EXCEPT ![s] = NoHop]
  /\ UNCHANGED dbVars

\* The transaction the UPDATE waited for has ended: the WHERE is evaluated
\* again on the row as it is now.
Resume(s) ==
  /\ pc[s] = "waiting" /\ lock = NoSession
  /\ IF call[s].from = status THEN Apply(s, call[s]) ELSE Miss(s)
  /\ call' = [call EXCEPT ![s] = NoHop]
  /\ UNCHANGED dbVars

\* Wrong on purpose: the session is returned to the pool without a rollback
\* and keeps its lock.
EndKeepingLock(s) ==
  /\ UNCHANGED lock
  /\ pc' = [pc EXCEPT ![s] = "idle"]
  /\ call' = [call EXCEPT ![s] = NoHop]
  /\ reply' = [reply EXCEPT ![s] = "none"]
  /\ writes' = [writes EXCEPT ![s] = NoWrites]

\* The transaction is over: its writes are gone from the session and its lock
\* is released.
EndTransaction(s) ==
  /\ lock' = IF lock = s THEN NoSession ELSE lock
  /\ pc' = [pc EXCEPT ![s] = "idle"]
  /\ call' = [call EXCEPT ![s] = NoHop]
  /\ reply' = [reply EXCEPT ![s] = "none"]
  /\ writes' = [writes EXCEPT ![s] = NoWrites]

Commit(s) ==
  /\ pc[s] = "active"
  /\ status' = Visible(s)
  /\ transitions' = transitions \o writes[s].transitions
  /\ audit' = audit \o writes[s].audit
  /\ EndTransaction(s)

\* Wrong on purpose: audit events are written through a session of their own.
RollbackKeepingAudit(s) ==
  /\ pc[s] \in {"active", "raised"}
  /\ audit' = audit \o writes[s].audit
  /\ EndTransaction(s)
  /\ UNCHANGED << status, transitions >>

\* The caller rolls back: after an exception, or because it was told False.
Rollback(s) ==
  /\ pc[s] \in {"active", "raised"}
  /\ EndTransaction(s)
  /\ UNCHANGED dbVars

\* The process or its connection is lost at any point of the transaction.
Disconnect(s) ==
  /\ pc[s] # "idle"
  /\ EndTransaction(s)
  /\ UNCHANGED dbVars

Step(s) ==
  \/ Begin(s) \/ Commit(s) \/ Rollback(s) \/ Disconnect(s) \/ Resume(s)
  \/ TransitionMisses(s) \/ TransitionRaises(s)
  \/ \E to \in Status : TransitionApplies(s, to) \/ TransitionWaits(s, to)

Next == \E s \in Sessions : Step(s)

\* A session ends its transaction (get_db commits or rolls back in every case),
\* and Postgres queues the waiters of a row so that none starves.
Fairness ==
  \A s \in Sessions : /\ WF_vars(Commit(s) \/ Rollback(s))
                      /\ SF_vars(Resume(s))

Spec     == Init /\ [][Next]_vars
FairSpec == Spec /\ Fairness

-----------------------------------------------------------------------------
PathOf(rows) == [i \in DOMAIN rows |-> rows[i].to]

\* What every variable may hold.
TypeOK ==
  /\ status \in Status
  /\ transitions \in Seq(Hop)
  /\ audit \in Seq(Hop)
  /\ lock \in Sessions \cup {NoSession}
  /\ pc \in [Sessions -> {"idle", "active", "waiting", "raised"}]
  /\ call \in [Sessions -> Hop]
  /\ reply \in [Sessions -> {"none", "applied", "missed"}]
  /\ writes \in [Sessions -> [transitions : Seq(Hop), audit : Seq(Hop)]]

\* case_state_transitions is one unbroken chain of legal hops from creation to
\* the status the case row shows: the status column and the history written in
\* transition_case() never disagree in committed data, whatever interleaves.
Chained(rows) ==
  /\ rows # << >>
  /\ rows[1] = NoHop
  /\ \A i \in 1 .. Len(rows) - 1 :
       Legal(rows[i + 1]) /\ rows[i + 1].from = rows[i].to

HistoryMatchesStatus ==
  /\ Chained(transitions)
  /\ transitions[Len(transitions)].to = status

\* "Concurrent workers can't double-advance a case": no status is left twice,
\* so a hop has exactly one history row even when several sessions asked for
\* it at once and all of them committed.
OneRowPerHop ==
  \A i, j \in DOMAIN transitions :
    transitions[i].from = transitions[j].from => i = j

\* Two sessions never both hold an answer True that is still to be committed.
OneWinner ==
  \A s, t \in Sessions :
    reply[s] = "applied" /\ reply[t] = "applied" => s = t

\* Only the session holding the row lock has uncommitted rows, an answer True
\* is backed by such rows, and a session that waits has written nothing: it
\* will publish nothing but what its own UPDATE, once answered, allows.
LockDiscipline ==
  \A s \in Sessions :
    /\ writes[s] # NoWrites => lock = s
    /\ reply[s] = "applied" => writes[s] # NoWrites
    /\ pc[s] = "waiting" => writes[s] = NoWrites /\ Legal(call[s])

\* What the winner is about to publish continues the committed history: the
\* status did not move under it between its UPDATE and its commit.
PendingContinuesHistory ==
  \A s \in Sessions : Chained(transitions \o writes[s].transitions)

\* The audit log tells the same story as the history table, in committed data
\* (record_event shares the caller's transaction).
AuditMatchesHistory == audit = transitions

\* Decision #13: at most one re-investigation round.  A case passes through
\* REINVESTIGATING at most once, and is finalized only straight out of human
\* review.
ReviewAndReinvestigation ==
  LET p == PathOf(transitions)
  IN  /\ \A i, j \in DOMAIN p :
           p[i] = "REINVESTIGATING" /\ p[j] = "REINVESTIGATING" => i = j
      /\ \A i \in DOMAIN p :
           p[i] = "FINALIZED" => i > 1 /\ p[i - 1] = "AWAITING_HUMAN_REVIEW"

\* A terminal status is never left, not even by a stale retry that read the
\* status before another session closed the case.
TerminalIsForever ==
  [][(status \in Graph!TERMINAL_STATUSES) => (status' = status)]_vars

\* Every UPDATE that waits for the row is answered, or its session is gone.
EveryCallIsAnswered ==
  \A s \in Sessions : pc[s] = "waiting" ~> pc[s] # "waiting"

\* The tables implement the abstract lifecycle: the committed history, read as
\* a path, only ever grows along TRANSITIONS.
ImplementsLifecycle == Graph!Spec
=============================================================================

---------------------------- MODULE CaseLifecycle ----------------------------
(***************************************************************************)
(* What the case state machine promises: a case starts in INTAKE and only  *)
(* ever moves along the edges of TRANSITIONS.  The only state is the path  *)
(* of statuses the case has been through, oldest first.                    *)
(*                                                                         *)
(* A step may add several statuses at once: a transaction that makes       *)
(* several hops publishes them together when it commits (seed_case runs    *)
(* the whole pipeline in one transaction).                                 *)
(***************************************************************************)
EXTENDS Naturals, Sequences

\* Wrong on purpose: the second reconciliation may ask for one more round.
UnboundedTRANSITIONS ==
  [ INTAKE                  |-> {"RECONCILING", "FAILED"},
    RECONCILING             |-> {"REINVESTIGATING", "FAILED"},
    REINVESTIGATING         |-> {"RECONCILING_POST_REINVESTIGATION", "FAILED"},
    RECONCILING_POST_REINVESTIGATION |-> {"REINVESTIGATING", "FAILED"},
    FAILED                  |-> {} ]

\* app/state_machine.py, the graph as data.
TRANSITIONS ==
  [ INTAKE                  |-> {"VALIDATING", "FAILED", "CANCELLED"},
    VALIDATING              |-> {"VALIDATION_FAILED", "DOCUMENTS_READY",
                                 "FAILED", "CANCELLED"},
    VALIDATION_FAILED       |-> {},
    DOCUMENTS_READY         |-> {"CLASSIFYING", "FAILED", "CANCELLED"},
    CLASSIFYING             |-> {"INVESTIGATING", "FAILED", "CANCELLED"},
    INVESTIGATING           |-> {"INVESTIGATIONS_COMPLETE", "FAILED", "CANCELLED"},
    INVESTIGATIONS_COMPLETE |-> {"RECONCILING", "FAILED", "CANCELLED"},
    RECONCILING             |-> {"SYNTHESIZING", "REINVESTIGATING",
                                 "FAILED", "CANCELLED"},
    REINVESTIGATING         |-> {"RECONCILING_POST_REINVESTIGATION",
                                 "FAILED", "CANCELLED"},
    RECONCILING_POST_REINVESTIGATION |-> {"SYNTHESIZING", "FAILED", "CANCELLED"},
    SYNTHESIZING            |-> {"AWAITING_HUMAN_REVIEW", "FAILED", "CANCELLED"},
    AWAITING_HUMAN_REVIEW   |-> {"FINALIZED", "FAILED", "CANCELLED"},
    FINALIZED               |-> {},
    FAILED                  |-> {},
    CANCELLED               |-> {} ]

Status == DOMAIN TRANSITIONS

TERMINAL_STATUSES == {s \in Status : TRANSITIONS[s] = {}}

IsCasePath(p) ==
  /\ p # << >>
  /\ p[1] = "INTAKE"
  /\ \A i \in 1 .. Len(p) - 1 : p[i + 1] \in TRANSITIONS[p[i]]

-----------------------------------------------------------------------------
VARIABLE path

Init == path = << "INTAKE" >>

\* The path grows, keeps what it had, and stays a path of the graph.
Advance ==
  /\ Len(path') > Len(path)
  /\ SubSeq(path', 1, Len(path)) = path
  /\ IsCasePath(path')

Spec == Init /\ [][Advance]_path
=============================================================================

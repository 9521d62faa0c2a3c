--------------------------- MODULE ReviewDecision ----------------------------
(***************************************************************************)
(* What the review form of one case promises the reviewers, without        *)
(* transactions, locks, pages or tokens: one request at most decides the   *)
(* case, for good, and whoever is told 409 was beaten by a decision that   *)
(* had been made by then.  Whoever is told that it was recorded has        *)
(* decided the case or holds a promise that it will.  There is one promise *)
(* at a time, and nobody else decides while it stands; it is broken only   *)
(* when the transaction behind it fails.                                   *)
(***************************************************************************)
CONSTANTS Requests, NoRequest

VARIABLES
  winner,    \* the request whose decision is on record, or NoRequest
  promised,  \* the request told so before its decision is on record
  told       \* what each request was answered

vars == << winner, promised, told >>

Init ==
  /\ winner = NoRequest
  /\ promised = NoRequest
  /\ told = [r \in Requests |-> "nothing"]

\* The decision of r becomes visible to everyone.
Decide(r) ==
  /\ winner = NoRequest
  /\ IF promised = NoRequest THEN told[r] = "nothing" ELSE promised = r
  /\ winner' = r /\ promised' = NoRequest
  /\ UNCHANGED told

Tell(r, answer) ==
  /\ told[r] = "nothing"
  /\ told' = [told EXCEPT ![r] = answer]
  /\ UNCHANGED winner

Confirm(r) == winner = r /\ Tell(r, "recorded") /\ UNCHANGED promised

\* r is told before its decision is visible.
Promise(r) ==
  /\ winner = NoRequest /\ promised = NoRequest
  /\ Tell(r, "recorded")
  /\ promised' = r

\* The decision that was promised never becomes visible.
Break(r) ==
  /\ promised = r
  /\ promised' = NoRequest
  /\ UNCHANGED << winner, told >>

Beat(r) == winner \notin {NoRequest, r} /\ Tell(r, "conflict") /\ UNCHANGED promised

\* Forbidden, invalid or failed: the request will never decide anything.
Refuse(r) == winner # r /\ Tell(r, "refused") /\ UNCHANGED promised

Next ==
  \E r \in Requests :
    Decide(r) \/ Confirm(r) \/ Promise(r) \/ Break(r) \/ Beat(r) \/ Refuse(r)

Spec == Init /\ [][Next]_vars
=============================================================================

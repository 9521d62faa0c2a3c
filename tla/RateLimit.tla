----------------------------- MODULE RateLimit -----------------------------
(***************************************************************************)
(* app/web/ratelimit.py: AuthRateLimitMiddleware.dispatch on one event     *)
(* loop.  Each request reads its client's list of recent failures, awaits  *)
(* the application, and writes the list it read back, with its own failure *)
(* added: requests of one client that overlap overwrite each other's list. *)
(* Time is a counter that any number of ticks may pass between two steps.  *)
(***************************************************************************)
EXTENDS Naturals, Sequences, FiniteSets

CONSTANTS
  Requests,             \* requests, each handled once
  Clients,              \* client addresses
  MAX_FAILED_ATTEMPTS,
  WINDOW_SECONDS,
  MaxTime,              \* bound: clock ticks
  MaxInFlight           \* bound: requests between their read and their write

ASSUME RateLimitAssumption ==
  /\ IsFiniteSet(Requests)
  /\ MAX_FAILED_ATTEMPTS \in Nat \ {0} /\ WINDOW_SECONDS \in Nat \ {0}
  /\ MaxTime \in Nat /\ MaxInFlight \in Nat \ {0}

VARIABLES
  clock,     \* time.monotonic()
  failures,  \* _failures: the list of failure times kept for each client
  pc,        \* "new", "awaiting" the application, "done"
  client,    \* the client of each request
  now,       \* the time each request read when it arrived
  recent,    \* the list each request read and filtered
  status     \* the status code each request was answered with

vars == << clock, failures, pc, client, now, recent, status >>

InFlight == {r \in Requests : pc[r] = "awaiting"}

Init ==
  /\ clock = 0
  /\ failures = [c \in Clients |-> << >>]
  /\ pc = [r \in Requests |-> "new"]
  /\ client \in [Requests -> Clients]
  /\ now = [r \in Requests |-> 0]
  /\ recent = [r \in Requests |-> << >>]
  /\ status = [r \in Requests |-> 0]

Tick ==
  /\ clock < MaxTime
  /\ clock' = clock + 1
  /\ UNCHANGED << failures, pc, client, now, recent, status >>

InWindow(t) == clock - t < WINDOW_SECONDS

\* The list without the times outside the window, its order kept: the n-th time
\* is the one with n - 1 that stay before it.
Filtered(c) ==
  LET stay == {i \in DOMAIN failures[c] : InWindow(failures[c][i])} IN
  [n \in 1 .. Cardinality(stay) |->
     failures[c][CHOOSE i \in stay : Cardinality({j \in stay : j < i}) = n - 1]]

\* dispatch() up to its await, when the client may go on.
Admit(r) ==
  LET kept == Filtered(client[r]) IN
  /\ pc[r] = "new"
  /\ Cardinality(InFlight) < MaxInFlight
  /\ Len(kept) < MAX_FAILED_ATTEMPTS
  /\ now' = [now EXCEPT ![r] = clock]
  /\ recent' = [recent EXCEPT ![r] = kept]
  /\ pc' = [pc EXCEPT ![r] = "awaiting"]
  /\ UNCHANGED << clock, failures, client, status >>

\* dispatch() when the client has failed too often: 429, which counts as no
\* failure itself.
Throttle(r) ==
  LET kept == Filtered(client[r]) IN
  /\ pc[r] = "new"
  /\ Len(kept) >= MAX_FAILED_ATTEMPTS
  /\ failures' = [failures EXCEPT ![client[r]] = kept]
  /\ now' = [now EXCEPT ![r] = clock]
  /\ pc' = [pc EXCEPT ![r] = "done"]
  /\ status' = [status EXCEPT ![r] = 429]
  /\ UNCHANGED << clock, client, recent >>

\* Wrong on purpose: every response counts as a failure.
CompleteCountingAll(r, code) ==
  /\ pc[r] = "awaiting"
  /\ failures' = [failures EXCEPT ![client[r]] = Append(recent[r], now[r])]
  /\ pc' = [pc EXCEPT ![r] = "done"]
  /\ status' = [status EXCEPT ![r] = code]
  /\ recent' = [recent EXCEPT ![r] = << >>]
  /\ UNCHANGED << clock, client, now >>

\* Wrong on purpose: one list for all clients.
CompleteForAll(r, code) ==
  /\ pc[r] = "awaiting"
  /\ failures' = [c \in Clients |->
       IF code = 401 THEN Append(recent[r], now[r]) ELSE recent[r]]
  /\ pc' = [pc EXCEPT ![r] = "done"]
  /\ status' = [status EXCEPT ![r] = code]
  /\ recent' = [recent EXCEPT ![r] = << >>]
  /\ UNCHANGED << clock, client, now >>

\* dispatch() after its await: the application answered 401 or something else.
Complete(r, code) ==
  /\ pc[r] = "awaiting"
  /\ failures' = [failures EXCEPT ![client[r]] =
       IF code = 401 THEN Append(recent[r], now[r]) ELSE recent[r]]
  /\ pc' = [pc EXCEPT ![r] = "done"]
  /\ status' = [status EXCEPT ![r] = code]
  /\ recent' = [recent EXCEPT ![r] = << >>]
  /\ UNCHANGED << clock, client, now >>

\* call_next raised (the server answers 500): nothing is written back.
Fail(r) ==
  /\ pc[r] = "awaiting"
  /\ pc' = [pc EXCEPT ![r] = "done"]
  /\ status' = [status EXCEPT ![r] = 500]
  /\ recent' = [recent EXCEPT ![r] = << >>]
  /\ UNCHANGED << clock, failures, client, now >>

Next ==
  \/ Tick
  \/ \E r \in Requests : \/ Admit(r) \/ Throttle(r) \/ Fail(r)
                         \/ \E code \in {200, 401} : Complete(r, code)

Spec == Init /\ [][Next]_vars

-----------------------------------------------------------------------------
\* What really happened: the requests of client c answered 401 and begun less
\* than a window ago.
RealFailures(c) ==
  {r \in Requests : client[r] = c /\ status[r] = 401 /\ InWindow(now[r])}

\* What dispatch() would count for client c if a request arrived now.
Counted(c) == Len(Filtered(c))

\* What every variable may hold.
TypeOK ==
  /\ clock \in 0 .. MaxTime
  /\ failures \in [Clients -> Seq(0 .. MaxTime)]
  /\ pc \in [Requests -> {"new", "awaiting", "done"}]
  /\ client \in [Requests -> Clients]
  /\ now \in [Requests -> 0 .. MaxTime]
  /\ recent \in [Requests -> Seq(0 .. MaxTime)]
  /\ status \in [Requests -> {0, 200, 401, 429, 500}]

\* A client is never charged with more than it did: every time kept for it is
\* the time of a 401 of its own, each counted once.  Overlapping requests lose
\* failures but never invent or duplicate one.
NeverOvercounts ==
  \A c \in Clients : \A t \in 0 .. MaxTime :
    Cardinality({i \in DOMAIN failures[c] : failures[c][i] = t}) <=
      Cardinality({r \in Requests : client[r] = c /\ status[r] = 401 /\ now[r] = t})

\* "A reviewer with valid credentials should never be throttled": a request is
\* refused only while its own client has failed MAX_FAILED_ATTEMPTS times
\* within the window.
ThrottledDeservedIt ==
  [][\A r \in Requests :
       status[r] = 0 /\ status'[r] = 429 =>
         Cardinality(RealFailures(client[r])) >= MAX_FAILED_ATTEMPTS]_vars

\* The count is exact whenever no request of the client is in flight.
CountsEveryFailure ==
  \A c \in Clients :
    (\A r \in InFlight : client[r] # c) => Counted(c) = Cardinality(RealFailures(c))
=============================================================================

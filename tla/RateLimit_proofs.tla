--------------------------- MODULE RateLimit_proofs --------------------------
(***************************************************************************)
(* Proofs about RateLimit for any number of requests and clients, any      *)
(* limit and any window.                                                   *)
(*                                                                         *)
(* A count of times says too little to be inductive.  The invariant names, *)
(* for every time in a list, the failed request it stands for (Accounted): *)
(* a list that is filtered, handed to a request and written back later     *)
(* still stands for the same requests, whatever other requests did.        *)
(***************************************************************************)
EXTENDS RateLimit, FiniteSetTheorems, SequenceTheorems, TLAPS

\* The requests of client c that were answered 401.
Failed(c) == {r \in Requests : client[r] = c /\ status[r] = 401}

\* Every time in the list is that of a failure of client c, another one for
\* each, and the failures in must are all there.
Accounted(list, c, must) ==
  \E f \in [DOMAIN list -> Failed(c)] :
    /\ \A i, j \in DOMAIN list : f[i] = f[j] => i = j
    /\ \A i \in DOMAIN list : now[f[i]] = list[i]
    /\ \A q \in must : \E i \in DOMAIN list : f[i] = q

\* A failure stays one, and keeps its time and client.
FailuresStay ==
  \A c : \A r \in Failed(c) : r \in Failed(c)' /\ now'[r] = now[r]

Below(S, k) == {j \in S : j < k}
Nth(S, i)   == CHOOSE k \in S : Cardinality(Below(S, k)) = i - 1

\* A finite set of numbers has a first, a second, and so on, and each only once.
LEMMA NumbersInOrder ==
  ASSUME NEW S \in SUBSET Nat, IsFiniteSet(S), NEW n, n = Cardinality(S)
  PROVE  /\ n \in Nat /\ \A i \in 1 .. n : Nth(S, i) \in S
         /\ \A i, j \in 1 .. n : Nth(S, i) = Nth(S, j) => i = j
         /\ \A k \in S : \E i \in 1 .. n : Nth(S, i) = k
<1> DEFINE rank == [k \in S |-> Cardinality(Below(S, k)) + 1]
<1>1. n \in Nat
  BY FS_CardinalityType
<1>2. \A k \in S : /\ IsFiniteSet(Below(S, k))
                   /\ Cardinality(Below(S, k)) \in Nat /\ Cardinality(Below(S, k)) < n
  <2> SUFFICES ASSUME NEW k \in S
               PROVE  /\ IsFiniteSet(Below(S, k))
                      /\ Cardinality(Below(S, k)) \in Nat /\ Cardinality(Below(S, k)) < n
    OBVIOUS
  <2>1. Below(S, k) \subseteq S /\ k \notin Below(S, k)
    BY DEF Below
  <2>2. /\ IsFiniteSet(Below(S, k)) /\ Cardinality(Below(S, k)) <= n
        /\ n = Cardinality(Below(S, k)) => S = Below(S, k)
    BY <2>1, FS_Subset
  <2>3. Cardinality(Below(S, k)) \in Nat
    BY <2>2, FS_CardinalityType
  <2> QED
    BY <1>1, <2>1, <2>2, <2>3
<1>3. \A j, k \in S : Cardinality(Below(S, j)) = Cardinality(Below(S, k)) => j = k
  <2>1. ASSUME NEW j \in S, NEW k \in S, j < k
        PROVE  Cardinality(Below(S, j)) # Cardinality(Below(S, k))
    <3>1. j \in Nat /\ k \in Nat
      OBVIOUS
    <3>2. Below(S, j) \subseteq Below(S, k)
      <4> SUFFICES ASSUME NEW i \in S, i < j PROVE i < k
        BY DEF Below
      <4>1. i \in Nat
        OBVIOUS
      <4> QED
        BY <2>1, <3>1, <4>1
    <3>3. j \in Below(S, k) /\ j \notin Below(S, j)
      BY <2>1, <3>1 DEF Below
    <3>4. Cardinality(Below(S, k)) = Cardinality(Below(S, j)) => Below(S, k) = Below(S, j)
      BY <1>2, <3>2, FS_Subset
    <3> QED
      BY <3>3, <3>4
  <2>2. \A j, k \in S : j = k \/ j < k \/ k < j
    OBVIOUS
  <2> QED
    BY <2>1, <2>2
<1>4. \A i \in 1 .. n : \E k \in S : Cardinality(Below(S, k)) = i - 1
  <2>1. \A k \in S : Cardinality(Below(S, k)) + 1 \in 1 .. n
    BY <1>1, <1>2
  <2>2. rank \in [S -> 1 .. n]
    BY <2>1
  <2>3. \A j, k \in S : rank[j] = rank[k] => j = k
    BY <1>2, <1>3
  <2>4. rank \in Injection(S, 1 .. n)
    BY <2>2, <2>3 DEF Injection, IsInjective
  <2>5. IsFiniteSet(1 .. n) /\ Cardinality(1 .. n) = n
    BY <1>1, FS_Interval
  <2>6. rank \in Surjection(S, 1 .. n)
    BY <2>4, <2>5, FS_Injection
  <2>7. \A i \in 1 .. n : \E k \in S : rank[k] = i
    BY <2>6 DEF Surjection
  <2>8. \A k \in S : rank[k] = Cardinality(Below(S, k)) + 1
    OBVIOUS
  <2> HIDE DEF rank
  <2> QED
    BY <1>1, <1>2, <2>7, <2>8
<1>5. \A i \in 1 .. n : Nth(S, i) \in S /\ Cardinality(Below(S, Nth(S, i))) = i - 1
  BY <1>4 DEF Nth
<1>6. \A i, j \in 1 .. n : Nth(S, i) = Nth(S, j) => i = j
  BY <1>1, <1>5
<1>7. ASSUME NEW k \in S PROVE \E i \in 1 .. n : Nth(S, i) = k
  <2>1. PICK i \in 1 .. n : i = Cardinality(Below(S, k)) + 1
    BY <1>1, <1>2
  <2>2. Cardinality(Below(S, Nth(S, i))) = Cardinality(Below(S, k))
    BY <1>2, <1>5, <2>1
  <2> QED
    BY <1>3, <1>5, <2>2
<1> QED
  BY <1>1, <1>5, <1>6, <1>7

\* The times of client c that dispatch() keeps.
Stay(c) == {i \in DOMAIN failures[c] : InWindow(failures[c][i])}

LEMMA FilteredList ==
  ASSUME NEW c, failures[c] \in Seq(0 .. MaxTime)
  PROVE  LET n == Cardinality(Stay(c)) IN
         /\ n \in Nat /\ DOMAIN Filtered(c) = 1 .. n /\ Len(Filtered(c)) = n
         /\ \A i \in 1 .. n : /\ Nth(Stay(c), i) \in Stay(c)
                              /\ Filtered(c)[i] = failures[c][Nth(Stay(c), i)]
         /\ \A i, j \in 1 .. n : Nth(Stay(c), i) = Nth(Stay(c), j) => i = j
         /\ \A k \in Stay(c) : \E i \in 1 .. n : Nth(Stay(c), i) = k
         /\ Filtered(c) \in Seq(0 .. MaxTime)
<1>1. /\ Stay(c) \in SUBSET Nat /\ IsFiniteSet(Stay(c))
  <2>1. Stay(c) \subseteq 1 .. Len(failures[c]) /\ Len(failures[c]) \in Nat
    BY DEF Stay
  <2>2. 1 \in Int /\ Len(failures[c]) \in Int
    BY <2>1
  <2>3. IsFiniteSet(1 .. Len(failures[c]))
    BY <2>2, FS_Interval
  <2> QED
    BY <2>1, <2>3, FS_Subset
<1> DEFINE n == Cardinality(Stay(c))
<1> HIDE DEF n
<1>2. /\ n \in Nat /\ \A i \in 1 .. n : Nth(Stay(c), i) \in Stay(c)
      /\ \A i, j \in 1 .. n : Nth(Stay(c), i) = Nth(Stay(c), j) => i = j
      /\ \A k \in Stay(c) : \E i \in 1 .. n : Nth(Stay(c), i) = k
  BY <1>1, NumbersInOrder DEF n
<1>3. Filtered(c) = [i \in 1 .. n |-> failures[c][Nth(Stay(c), i)]]
  BY DEF Filtered, Stay, Nth, Below, n
<1>4. \A i \in 1 .. n : failures[c][Nth(Stay(c), i)] \in 0 .. MaxTime
  <2>1. \A k \in 1 .. Len(failures[c]) : failures[c][k] \in 0 .. MaxTime
    BY ElementOfSeq
  <2>2. \A k \in Stay(c) : k \in 1 .. Len(failures[c])
    BY DEF Stay
  <2> QED
    BY <1>2, <2>1, <2>2
<1>5. /\ DOMAIN Filtered(c) = 1 .. n /\ Len(Filtered(c)) = n
      /\ \A i \in 1 .. n : Filtered(c)[i] = failures[c][Nth(Stay(c), i)]
      /\ Filtered(c) \in Seq(0 .. MaxTime)
  BY <1>2, <1>3, <1>4
<1> QED
  BY <1>2, <1>5 DEF n

-----------------------------------------------------------------------------
\* Filtering keeps an account, of the failures that are still in the window.
LEMMA FilterKeepsAccount ==
  ASSUME NEW c, failures[c] \in Seq(0 .. MaxTime), NEW must,
         Accounted(failures[c], c, must)
  PROVE  Accounted(Filtered(c), c, {q \in must : InWindow(now[q])})
<1> DEFINE n == Cardinality(Stay(c))
           L == failures[c]
<1>1. PICK f \in [DOMAIN L -> Failed(c)] :
        /\ \A i, j \in DOMAIN L : f[i] = f[j] => i = j
        /\ \A i \in DOMAIN L : now[f[i]] = L[i]
        /\ \A q \in must : \E i \in DOMAIN L : f[i] = q
  BY DEF Accounted
<1>2. /\ DOMAIN Filtered(c) = 1 .. n
      /\ \A i \in 1 .. n : /\ Nth(Stay(c), i) \in Stay(c)
                           /\ Filtered(c)[i] = L[Nth(Stay(c), i)]
      /\ \A i, j \in 1 .. n : Nth(Stay(c), i) = Nth(Stay(c), j) => i = j
      /\ \A k \in Stay(c) : \E i \in 1 .. n : Nth(Stay(c), i) = k
  BY FilteredList
<1>3. Stay(c) = {i \in DOMAIN L : InWindow(L[i])}
  BY DEF Stay
<1> HIDE DEF n, L
<1> DEFINE h == [i \in 1 .. n |-> f[Nth(Stay(c), i)]]
<1>4. h \in [1 .. n -> Failed(c)]
  BY <1>2, <1>3
<1>5. \A i, j \in 1 .. n : h[i] = h[j] => i = j
  BY <1>1, <1>2, <1>3
<1>6. \A i \in 1 .. n : now[h[i]] = Filtered(c)[i]
  BY <1>1, <1>2, <1>3
<1>7. ASSUME NEW q \in must, InWindow(now[q]) PROVE \E i \in 1 .. n : h[i] = q
  <2>1. PICK k \in DOMAIN L : f[k] = q
    BY <1>1
  <2>2. k \in Stay(c)
    BY <1>1, <1>3, <1>7, <2>1
  <2> QED
    BY <1>2, <2>1, <2>2
<1> HIDE DEF h
<1>8. \E g \in [DOMAIN Filtered(c) -> Failed(c)] :
        /\ \A i, j \in DOMAIN Filtered(c) : g[i] = g[j] => i = j
        /\ \A i \in DOMAIN Filtered(c) : now[g[i]] = Filtered(c)[i]
        /\ \A q \in {q \in must : InWindow(now[q])} : \E i \in DOMAIN Filtered(c) : g[i] = q
  <2>1. \A q \in {q \in must : InWindow(now[q])} : \E i \in 1 .. n : h[i] = q
    BY <1>7
  <2>2. h \in [DOMAIN Filtered(c) -> Failed(c)]
    BY <1>2, <1>4
  <2> WITNESS h \in [DOMAIN Filtered(c) -> Failed(c)]
  <2> QED
    BY <1>2, <1>5, <1>6, <2>1
<1> QED
  BY <1>8 DEF Accounted

\* An account stays one while failures stay what they are.
LEMMA AccountStays ==
  ASSUME FailuresStay, NEW c, NEW L, NEW must, Accounted(L, c, must)
  PROVE  Accounted(L, c, must)'
<1>1. PICK f \in [DOMAIN L -> Failed(c)] :
        /\ \A i, j \in DOMAIN L : f[i] = f[j] => i = j
        /\ \A i \in DOMAIN L : now[f[i]] = L[i]
        /\ \A q \in must : \E i \in DOMAIN L : f[i] = q
  BY DEF Accounted
<1>2. \A i \in DOMAIN L : f[i] \in Failed(c)' /\ now'[f[i]] = now[f[i]]
  BY <1>1 DEF FailuresStay
<1>3. f \in [DOMAIN L -> Failed(c)']
  BY <1>1, <1>2
<1> QED
  BY <1>1, <1>2, <1>3 DEF Accounted

LEMMA AccountOfFewer ==
  ASSUME NEW c, NEW L, NEW must, NEW fewer \in SUBSET must, Accounted(L, c, must)
  PROVE  Accounted(L, c, fewer)
  BY DEF Accounted

\* A request that fails now adds its own time to the list it was given.
LEMMA AppendKeepsAccount ==
  ASSUME FailuresStay, NEW r \in Requests, NEW c, r \notin Failed(c), r \in Failed(c)',
         NEW L \in Seq(0 .. MaxTime), NEW t \in 0 .. MaxTime, now'[r] = t,
         NEW must, Accounted(L, c, must)
  PROVE  Accounted(Append(L, t), c, must \cup {r})'
<1>1. PICK f \in [DOMAIN L -> Failed(c)] :
        /\ \A i, j \in DOMAIN L : f[i] = f[j] => i = j
        /\ \A i \in DOMAIN L : now[f[i]] = L[i]
        /\ \A q \in must : \E i \in DOMAIN L : f[i] = q
  BY DEF Accounted
<1> DEFINE n == Len(L)
           M == Append(L, t)
           h == [i \in 1 .. n + 1 |-> IF i = n + 1 THEN r ELSE f[i]]
<1>2. /\ n \in Nat /\ DOMAIN L = 1 .. n /\ DOMAIN M = 1 .. n + 1
      /\ M[n + 1] = t /\ \A i \in 1 .. n : M[i] = L[i]
  OBVIOUS
<1> HIDE DEF n, M
<1>3. \A i \in 1 .. n : /\ f[i] \in Failed(c) /\ f[i] # r /\ f[i] \in Failed(c)'
                        /\ now'[f[i]] = L[i]
  BY <1>1, <1>2 DEF FailuresStay
<1>4. /\ \A i \in 1 .. n : i \in 1 .. n + 1 /\ h[i] = f[i]
      /\ n + 1 \in 1 .. n + 1 /\ h[n + 1] = r /\ \A i \in 1 .. n + 1 : i \in 1 .. n \/ i = n + 1
  BY <1>2
<1>5. h \in [1 .. n + 1 -> Failed(c)']
  BY <1>3, <1>4
<1> HIDE DEF h
<1>6. \A i, j \in 1 .. n + 1 : h[i] = h[j] => i = j
  BY <1>1, <1>2, <1>3, <1>4
<1>7. \A i \in 1 .. n + 1 : now'[h[i]] = M[i]
  BY <1>2, <1>3, <1>4
<1>8. \A q \in must \cup {r} : \E i \in 1 .. n + 1 : h[i] = q
  BY <1>1, <1>2, <1>4
<1>9. Accounted(M, c, must \cup {r})'
  <2>1. \E g \in [DOMAIN M -> Failed(c)'] :
          /\ \A i, j \in DOMAIN M : g[i] = g[j] => i = j
          /\ \A i \in DOMAIN M : now'[g[i]] = M[i]
          /\ \A q \in must \cup {r} : \E i \in DOMAIN M : g[i] = q
    <3>1. h \in [DOMAIN M -> Failed(c)']
      BY <1>2, <1>5
    <3> WITNESS h \in [DOMAIN M -> Failed(c)']
    <3> QED
      BY <1>2, <1>6, <1>7, <1>8
  <2> QED
    BY <2>1 DEF Accounted
<1> QED
  BY <1>9 DEF M


-----------------------------------------------------------------------------
\* No two requests of one client are in flight at once.
Serial == \A q, r \in InFlight : client[q] = client[r] => q = r

\* What a list must account for: if exact, every failure within the window.
Owed(exact, c) == IF exact THEN RealFailures(c) ELSE {}

\* The inductive invariant.  With exact = FALSE every behaviour keeps it; with
\* exact = TRUE every behaviour in which no client's requests overlap.
Books(exact) ==
  /\ TypeOK
  /\ \A r \in Requests : pc[r] # "done" => status[r] = 0
  /\ \A c \in Clients : Accounted(failures[c], c, Owed(exact, c))
  /\ \A r \in Requests :
       pc[r] = "awaiting" => Accounted(recent[r], client[r], Owed(exact, client[r]))

LEMMA InitBooks == ASSUME NEW exact \in BOOLEAN, Init PROVE Books(exact)
<1>1. TypeOK
  BY RateLimitAssumption DEF Init, TypeOK
<1>2. \A c \in Clients : Failed(c) = {} /\ Owed(exact, c) = {}
  BY DEF Init, Failed, Owed, RealFailures
<1>3. ASSUME NEW c \in Clients PROVE Accounted(failures[c], c, Owed(exact, c))
  <2>1. failures[c] = << >> /\ DOMAIN failures[c] = {}
    BY DEF Init
  <2>2. [i \in {} |-> i] \in [{} -> Failed(c)]
    OBVIOUS
  <2> QED
    BY <1>2, <2>1, <2>2 DEF Accounted
<1>4. \A r \in Requests : pc[r] = "new" /\ status[r] = 0
  BY DEF Init
<1> QED
  BY <1>1, <1>3, <1>4 DEF Books

LEMMA TypesStay == ASSUME TypeOK, [Next]_vars PROVE TypeOK'
<1> USE RateLimitAssumption
<1>1. \A c \in Clients : failures[c] \in Seq(0 .. MaxTime)
  BY DEF TypeOK
<1>2. \A c \in Clients : Filtered(c) \in Seq(0 .. MaxTime)
  BY <1>1, FilteredList
<1>3. CASE UNCHANGED vars
  BY <1>3 DEF TypeOK, vars
<1>4. CASE Tick
  BY <1>4 DEF TypeOK, Tick
<1>5. ASSUME NEW r \in Requests, Admit(r) PROVE TypeOK'
  <2>1. Filtered(client[r]) \in Seq(0 .. MaxTime)
    BY <1>2 DEF TypeOK
  <2> QED
    BY <1>5, <2>1 DEF TypeOK, Admit
<1>6. ASSUME NEW r \in Requests, Throttle(r) PROVE TypeOK'
  <2>1. Filtered(client[r]) \in Seq(0 .. MaxTime) /\ client[r] \in Clients
    BY <1>2 DEF TypeOK
  <2> QED
    BY <1>6, <2>1 DEF TypeOK, Throttle
<1>7. ASSUME NEW r \in Requests, Fail(r) PROVE TypeOK'
  BY <1>7 DEF TypeOK, Fail
<1>8. ASSUME NEW r \in Requests, NEW code \in {200, 401}, Complete(r, code) PROVE TypeOK'
  <2>1. /\ recent[r] \in Seq(0 .. MaxTime) /\ now[r] \in 0 .. MaxTime
        /\ Append(recent[r], now[r]) \in Seq(0 .. MaxTime)
    BY DEF TypeOK
  <2>2. failures' \in [Clients -> Seq(0 .. MaxTime)]
    BY <1>8, <2>1 DEF TypeOK, Complete
  <2> QED
    BY <1>8, <2>2 DEF TypeOK, Complete
<1> QED
  BY <1>3, <1>4, <1>5, <1>6, <1>7, <1>8 DEF Next

\* An answered request is not touched again.
LEMMA FailuresDoStay ==
  ASSUME TypeOK, \A r \in Requests : pc[r] # "done" => status[r] = 0, [Next]_vars
  PROVE  FailuresStay
<1> SUFFICES ASSUME NEW q \in Requests, status[q] = 401
             PROVE  client'[q] = client[q] /\ status'[q] = 401 /\ now'[q] = now[q]
  BY DEF FailuresStay, Failed
<1>1. pc[q] = "done"
  OBVIOUS
<1>2. CASE UNCHANGED vars \/ Tick
  BY <1>2 DEF vars, Tick
<1>3. ASSUME NEW r \in Requests,
             Admit(r) \/ Throttle(r) \/ Fail(r) \/ \E code \in {200, 401} : Complete(r, code)
      PROVE  client'[q] = client[q] /\ status'[q] = 401 /\ now'[q] = now[q]
  <2>1. r # q
    BY <1>1, <1>3 DEF Admit, Throttle, Fail, Complete
  <2> QED
    BY <1>3, <2>1 DEF TypeOK, Admit, Throttle, Fail, Complete
<1> QED
  BY <1>2, <1>3 DEF Next

\* Nobody owes more, unless a request fails, and only its own client then.
LEMMA OwedShrinks ==
  ASSUME TypeOK, FailuresStay, NEW exact \in BOOLEAN, NEW c,
         clock' \in Nat, clock <= clock', NEW fresh \in SUBSET Requests,
         \A r \in Requests : r \in Failed(c)' => r \in Failed(c) \/ r \in fresh
  PROVE  Owed(exact, c)' \subseteq Owed(exact, c) \cup fresh
<1> SUFFICES ASSUME exact, NEW r \in RealFailures(c)', r \notin fresh
             PROVE  r \in RealFailures(c)
  BY DEF Owed
<1>1. r \in Requests /\ r \in Failed(c)' /\ clock' - now'[r] < WINDOW_SECONDS
  BY DEF RealFailures, Failed, InWindow
<1>2. r \in Failed(c) /\ now'[r] = now[r]
  BY <1>1 DEF FailuresStay
<1>3. now[r] \in Nat /\ clock \in Nat /\ WINDOW_SECONDS \in Nat
  BY <1>1, RateLimitAssumption DEF TypeOK
<1>4. clock - now[r] < WINDOW_SECONDS
  BY <1>1, <1>2, <1>3
<1> QED
  BY <1>2, <1>4 DEF RealFailures, Failed, InWindow

\* Steps in which no request fails.
LEMMA QuietStepKeepsBooks ==
  ASSUME NEW exact \in BOOLEAN, Books(exact), [Next]_vars,
         clock <= clock', \A r \in Requests : status'[r] = 401 => status[r] = 401,
         client' = client,
         \A r \in Requests : pc'[r] # "done" => status'[r] = 0,
         \A c \in Clients : \/ failures'[c] = failures[c]
                            \/ failures'[c] = Filtered(c)
                            \/ \E r \in Requests : /\ pc[r] = "awaiting" /\ client[r] = c
                                                   /\ failures'[c] = recent[r],
         \A r \in Requests : pc'[r] = "awaiting" =>
           \/ pc[r] = "awaiting" /\ recent'[r] = recent[r]
           \/ recent'[r] = Filtered(client[r])
  PROVE  Books(exact)'
<1>1. TypeOK /\ TypeOK' /\ FailuresStay
  BY TypesStay, FailuresDoStay DEF Books
<1>2. ASSUME NEW c \in Clients PROVE Owed(exact, c)' \subseteq Owed(exact, c)
  <2>1. \A r \in Requests : r \in Failed(c)' => r \in Failed(c) \/ r \in {}
    BY DEF Failed
  <2>2. clock' \in Nat /\ {} \in SUBSET Requests
    BY <1>1, RateLimitAssumption DEF TypeOK
  <2>3. Owed(exact, c)' \subseteq Owed(exact, c) \cup {}
    BY <1>1, <2>1, <2>2, OwedShrinks
  <2> QED
    BY <2>3
<1>3. ASSUME NEW c \in Clients, NEW L, L = failures'[c], Accounted(L, c, Owed(exact, c))
      PROVE  Accounted(failures[c], c, Owed(exact, c))'
  <2> SUFFICES ASSUME NEW m, m = Owed(exact, c)'
               PROVE  Accounted(failures[c], c, Owed(exact, c))'
    OBVIOUS
  <2>1. Accounted(L, c, m)'
    BY <1>1, <1>2, <1>3, AccountStays, AccountOfFewer
  <2> QED
    BY <1>3, <2>1 DEF Accounted
<1>4. ASSUME NEW r \in Requests, NEW L, L = recent'[r],
             Accounted(L, client[r], Owed(exact, client[r]))
      PROVE  Accounted(recent[r], client[r], Owed(exact, client[r]))'
  <2> SUFFICES ASSUME NEW c, c = client[r], c = client'[r], NEW m, m = Owed(exact, c)'
               PROVE  Accounted(recent[r], client[r], Owed(exact, client[r]))'
    OBVIOUS
  <2>1. c \in Clients
    BY <1>1 DEF TypeOK
  <2>2. Accounted(L, c, m)'
    BY <1>1, <1>2, <1>4, <2>1, AccountStays, AccountOfFewer
  <2>3. m = Owed(exact, client[r])'
    BY DEF Owed, RealFailures
  <2> QED
    BY <1>4, <2>2, <2>3 DEF Accounted, Failed
<1>5. ASSUME NEW c \in Clients PROVE Accounted(Filtered(c), c, Owed(exact, c))
  <2>1. failures[c] \in Seq(0 .. MaxTime) /\ Accounted(failures[c], c, Owed(exact, c))
    BY DEF Books, TypeOK
  <2>2. Accounted(Filtered(c), c, {q \in Owed(exact, c) : InWindow(now[q])})
    BY <2>1, FilterKeepsAccount
  <2>3. {q \in Owed(exact, c) : InWindow(now[q])} = Owed(exact, c)
    BY DEF Owed, RealFailures
  <2> QED
    BY <2>2, <2>3
<1>6. \A r \in Requests : pc[r] = "awaiting" =>
        Accounted(recent[r], client[r], Owed(exact, client[r]))
  BY DEF Books
<1>7. ASSUME NEW c \in Clients PROVE Accounted(failures[c], c, Owed(exact, c))'
  <2>1. Accounted(failures'[c], c, Owed(exact, c))
    <3>1. CASE failures'[c] = failures[c]
      BY <3>1 DEF Books
    <3>2. CASE failures'[c] = Filtered(c)
      BY <1>5, <3>2
    <3>3. CASE \E r \in Requests : /\ pc[r] = "awaiting" /\ client[r] = c
                                   /\ failures'[c] = recent[r]
      BY <1>6, <3>3
    <3> QED
      BY <3>1, <3>2, <3>3
  <2> QED
    BY <1>3, <2>1
<1>8. ASSUME NEW r \in Requests, pc'[r] = "awaiting"
      PROVE  Accounted(recent[r], client[r], Owed(exact, client[r]))'
  <2>1. client[r] \in Clients
    BY <1>1 DEF TypeOK
  <2>2. Accounted(recent'[r], client[r], Owed(exact, client[r]))
    BY <1>5, <1>6, <1>8, <2>1
  <2> QED
    BY <1>4, <2>2
<1> QED
  BY <1>1, <1>7, <1>8 DEF Books

\* A request fails: its list and its time replace its client's list.  Another
\* request of the client that is in flight would now hold too short a list.
LEMMA FailingStepKeepsBooks ==
  ASSUME NEW exact \in BOOLEAN, Books(exact), exact => Serial,
         NEW r \in Requests, Complete(r, 401)
  PROVE  Books(exact)'
<1>1. /\ pc[r] = "awaiting" /\ clock' = clock /\ client' = client /\ now' = now
      /\ failures' = [failures EXCEPT ![client[r]] = Append(recent[r], now[r])]
      /\ pc' = [pc EXCEPT ![r] = "done"] /\ status' = [status EXCEPT ![r] = 401]
      /\ recent' = [recent EXCEPT ![r] = << >>]
  BY DEF Complete
<1>2. [Next]_vars
  BY DEF Next
<1>3. TypeOK /\ TypeOK' /\ FailuresStay
  BY <1>2, TypesStay, FailuresDoStay DEF Books
<1>4. /\ client[r] \in Clients /\ now[r] \in 0 .. MaxTime
      /\ recent[r] \in Seq(0 .. MaxTime)
  BY <1>3 DEF TypeOK
<1>5. r \notin Failed(client[r]) /\ r \in Failed(client[r])'
  <2>1. status[r] = 0
    BY <1>1 DEF Books
  <2>2. status'[r] = 401 /\ client'[r] = client[r]
    BY <1>1, <1>3 DEF TypeOK
  <2> QED
    BY <2>1, <2>2 DEF Failed
<1>6. ASSUME NEW q \in Requests, pc'[q] # "done" PROVE status'[q] = 0
  BY <1>1, <1>3, <1>6 DEF Books, TypeOK
<1>7. clock' \in Nat /\ clock <= clock'
  BY <1>1, <1>3, RateLimitAssumption DEF TypeOK
<1>8. ASSUME NEW c \in Clients, c # client[r] PROVE Owed(exact, c)' \subseteq Owed(exact, c)
  <2>1. \A q \in Requests : q \in Failed(c)' => q \in Failed(c) \/ q \in {}
    BY <1>1, <1>3, <1>8 DEF Failed, TypeOK
  <2>2. Owed(exact, c)' \subseteq Owed(exact, c) \cup {}
    BY <1>3, <1>7, <2>1, OwedShrinks
  <2> QED
    BY <2>2
<1>9. Owed(exact, client[r])' \subseteq Owed(exact, client[r]) \cup {r}
  <2> SUFFICES ASSUME NEW c, c = client[r], c = client'[r]
               PROVE  Owed(exact, c)' \subseteq Owed(exact, c) \cup {r}
    BY <1>1 DEF Owed, RealFailures
  <2>1. \A q \in Requests : q \in Failed(c)' => q \in Failed(c) \/ q \in {r}
    BY <1>1, <1>3 DEF Failed, TypeOK
  <2> QED
    BY <1>3, <1>7, <2>1, OwedShrinks
<1>10. ASSUME NEW c \in Clients PROVE Accounted(failures[c], c, Owed(exact, c))'
  <2> SUFFICES ASSUME NEW m, m = Owed(exact, c)', NEW L, L = failures'[c]
               PROVE  Accounted(L, c, m)'
    BY DEF Accounted
  <2>1. CASE c = client[r]
    <3> SUFFICES ASSUME NEW R, R = recent[r], NEW t, t = now[r], NEW o, o = Owed(exact, c)
                 PROVE  Accounted(L, c, m)'
      OBVIOUS
    <3>1. L = Append(R, t)
      BY <1>1, <1>3, <2>1 DEF TypeOK
    <3>2. Accounted(R, c, o)
      BY <1>1, <2>1 DEF Books
    <3>3. Accounted(Append(R, t), c, o \cup {r})'
      <4>1. r \notin Failed(c) /\ r \in Failed(c)'
        BY <1>1, <1>5, <2>1 DEF Failed
      <4>2. R \in Seq(0 .. MaxTime) /\ t \in 0 .. MaxTime /\ now'[r] = t
        BY <1>1, <1>4
      <4> QED
        BY <1>3, <3>2, <4>1, <4>2, AppendKeepsAccount
    <3>4. m \subseteq o \cup {r}
      BY <1>1, <1>9, <2>1 DEF Owed, RealFailures
    <3> QED
      BY <3>1, <3>3, <3>4 DEF Accounted
  <2>2. CASE c # client[r]
    <3>1. L = failures[c] /\ Accounted(L, c, Owed(exact, c))
      BY <1>1, <1>3, <2>2 DEF Books, TypeOK
    <3>2. Accounted(L, c, m)
      BY <1>8, <2>2, <3>1, AccountOfFewer
    <3> QED
      BY <1>3, <3>2, AccountStays
  <2> QED
    BY <2>1, <2>2
<1>11. ASSUME NEW q \in Requests, pc'[q] = "awaiting"
       PROVE  Accounted(recent[q], client[q], Owed(exact, client[q]))'
  <2>1. q # r /\ pc[q] = "awaiting" /\ recent'[q] = recent[q]
    BY <1>1, <1>3, <1>11 DEF TypeOK
  <2>2. exact => client[q] # client[r]
    BY <1>1, <2>1 DEF Serial, InFlight
  <2>3. Accounted(recent[q], client[q], Owed(exact, client[q]))
    BY <2>1 DEF Books
  <2> SUFFICES ASSUME NEW c, c = client[q], c = client'[q],
                      NEW o, o = Owed(exact, c), NEW m, m = Owed(exact, c)',
                      NEW L, L = recent[q], L = recent'[q]
               PROVE  Accounted(recent[q], client[q], Owed(exact, client[q]))'
    BY <1>1, <2>1
  <2>4. m \subseteq o
    <3>1. CASE exact
      BY <1>3, <1>8, <2>2, <3>1 DEF TypeOK
    <3>2. CASE ~ exact
      BY <3>2 DEF Owed
    <3> QED
      BY <3>1, <3>2
  <2>5. Accounted(L, c, o)
    BY <2>3
  <2>6. Accounted(L, c, m)'
    BY <1>3, <2>4, <2>5, AccountOfFewer, AccountStays
  <2>7. m = Owed(exact, client[q])'
    BY DEF Owed, RealFailures
  <2> QED
    BY <2>6, <2>7 DEF Accounted, Failed
<1> QED
  BY <1>3, <1>6, <1>10, <1>11 DEF Books

LEMMA NextKeepsBooks ==
  ASSUME NEW exact \in BOOLEAN, Books(exact), exact => Serial, [Next]_vars
  PROVE  Books(exact)'
<1>1. TypeOK /\ clock \in Nat
  BY RateLimitAssumption DEF Books, TypeOK
<1>2. \A r \in Requests : pc[r] # "done" => status[r] = 0
  BY DEF Books
<1>3. CASE UNCHANGED vars
  BY <1>1, <1>2, <1>3, QuietStepKeepsBooks DEF vars
<1>4. CASE Tick
  <2>1. clock <= clock'
    BY <1>1, <1>4 DEF Tick
  <2> QED
    BY <1>1, <1>2, <1>4, <2>1, QuietStepKeepsBooks DEF Tick
<1>5. ASSUME NEW r \in Requests, Admit(r) PROVE Books(exact)'
  <2>1. clock <= clock' /\ client' = client
    BY <1>1, <1>5 DEF Admit
  <2>2. \A q \in Requests : status'[q] = 401 => status[q] = 401
    BY <1>1, <1>5 DEF Admit, TypeOK
  <2>3. \A q \in Requests : pc'[q] # "done" => status'[q] = 0
    BY <1>1, <1>2, <1>5 DEF Admit, TypeOK
  <2>4. \A c \in Clients : \/ failures'[c] = failures[c]
                           \/ failures'[c] = Filtered(c)
                           \/ \E q \in Requests : /\ pc[q] = "awaiting" /\ client[q] = c
                                                  /\ failures'[c] = recent[q]
    BY <1>1, <1>5 DEF Admit, TypeOK
  <2>5. \A q \in Requests : pc'[q] = "awaiting" =>
          \/ pc[q] = "awaiting" /\ recent'[q] = recent[q]
          \/ recent'[q] = Filtered(client[q])
    BY <1>1, <1>5 DEF Admit, TypeOK
  <2>6. [Next]_vars
    BY <1>5 DEF Next
  <2> QED
    BY <2>1, <2>2, <2>3, <2>4, <2>5, <2>6, QuietStepKeepsBooks
<1>6. ASSUME NEW r \in Requests, Throttle(r) PROVE Books(exact)'
  <2>1. clock <= clock' /\ client' = client
    BY <1>1, <1>6 DEF Throttle
  <2>2. \A q \in Requests : status'[q] = 401 => status[q] = 401
    BY <1>1, <1>6 DEF Throttle, TypeOK
  <2>3. \A q \in Requests : pc'[q] # "done" => status'[q] = 0
    BY <1>1, <1>2, <1>6 DEF Throttle, TypeOK
  <2>4. \A c \in Clients : \/ failures'[c] = failures[c]
                           \/ failures'[c] = Filtered(c)
                           \/ \E q \in Requests : /\ pc[q] = "awaiting" /\ client[q] = c
                                                  /\ failures'[c] = recent[q]
    BY <1>1, <1>6 DEF Throttle, TypeOK
  <2>5. \A q \in Requests : pc'[q] = "awaiting" =>
          \/ pc[q] = "awaiting" /\ recent'[q] = recent[q]
          \/ recent'[q] = Filtered(client[q])
    BY <1>1, <1>6 DEF Throttle, TypeOK
  <2>6. [Next]_vars
    BY <1>6 DEF Next
  <2> QED
    BY <2>1, <2>2, <2>3, <2>4, <2>5, <2>6, QuietStepKeepsBooks
<1>7. ASSUME NEW r \in Requests, Fail(r) PROVE Books(exact)'
  <2>1. clock <= clock' /\ client' = client
    BY <1>1, <1>7 DEF Fail
  <2>2. \A q \in Requests : status'[q] = 401 => status[q] = 401
    BY <1>1, <1>7 DEF Fail, TypeOK
  <2>3. \A q \in Requests : pc'[q] # "done" => status'[q] = 0
    BY <1>1, <1>2, <1>7 DEF Fail, TypeOK
  <2>4. \A c \in Clients : \/ failures'[c] = failures[c]
                           \/ failures'[c] = Filtered(c)
                           \/ \E q \in Requests : /\ pc[q] = "awaiting" /\ client[q] = c
                                                  /\ failures'[c] = recent[q]
    BY <1>1, <1>7 DEF Fail, TypeOK
  <2>5. \A q \in Requests : pc'[q] = "awaiting" =>
          \/ pc[q] = "awaiting" /\ recent'[q] = recent[q]
          \/ recent'[q] = Filtered(client[q])
    BY <1>1, <1>7 DEF Fail, TypeOK
  <2>6. [Next]_vars
    BY <1>7 DEF Next
  <2> QED
    BY <2>1, <2>2, <2>3, <2>4, <2>5, <2>6, QuietStepKeepsBooks
<1>8. ASSUME NEW r \in Requests, Complete(r, 200) PROVE Books(exact)'
  <2>1. clock <= clock' /\ client' = client
    BY <1>1, <1>8 DEF Complete
  <2>2. \A q \in Requests : status'[q] = 401 => status[q] = 401
    BY <1>1, <1>8 DEF Complete, TypeOK
  <2>3. \A q \in Requests : pc'[q] # "done" => status'[q] = 0
    BY <1>1, <1>2, <1>8 DEF Complete, TypeOK
  <2>4. \A c \in Clients : \/ failures'[c] = failures[c]
                           \/ failures'[c] = Filtered(c)
                           \/ \E q \in Requests : /\ pc[q] = "awaiting" /\ client[q] = c
                                                  /\ failures'[c] = recent[q]
    BY <1>1, <1>8 DEF Complete, TypeOK
  <2>5. \A q \in Requests : pc'[q] = "awaiting" =>
          \/ pc[q] = "awaiting" /\ recent'[q] = recent[q]
          \/ recent'[q] = Filtered(client[q])
    BY <1>1, <1>8 DEF Complete, TypeOK
  <2>6. [Next]_vars
    BY <1>8 DEF Next
  <2> QED
    BY <2>1, <2>2, <2>3, <2>4, <2>5, <2>6, QuietStepKeepsBooks
<1> QED
  BY <1>3, <1>4, <1>5, <1>6, <1>7, <1>8, FailingStepKeepsBooks DEF Next


-----------------------------------------------------------------------------
\* The times dispatch() would count are those of failures in the window.
LEMMA CountOfAccount ==
  ASSUME NEW exact \in BOOLEAN, Books(exact), NEW c \in Clients
  PROVE  /\ Counted(c) \in Nat /\ Cardinality(RealFailures(c)) \in Nat
         /\ Counted(c) <= Cardinality(RealFailures(c))
         /\ exact => Counted(c) = Cardinality(RealFailures(c))
<1> DEFINE n == Len(Filtered(c))
           K == Filtered(c)
<1>1. failures[c] \in Seq(0 .. MaxTime) /\ Accounted(failures[c], c, Owed(exact, c))
  BY DEF Books, TypeOK
<1>2. Accounted(K, c, {q \in Owed(exact, c) : InWindow(now[q])})
  BY <1>1, FilterKeepsAccount
<1>3. /\ n \in Nat /\ DOMAIN K = 1 .. n /\ \A i \in 1 .. n : InWindow(K[i])
  <2> DEFINE m == Cardinality(Stay(c))
  <2>1. /\ m \in Nat /\ DOMAIN K = 1 .. m /\ n = m
        /\ \A i \in 1 .. m : /\ Nth(Stay(c), i) \in Stay(c)
                             /\ K[i] = failures[c][Nth(Stay(c), i)]
    BY <1>1, FilteredList
  <2> HIDE DEF m, n, K
  <2> QED
    BY <2>1 DEF Stay
<1> HIDE DEF n, K
<1>4. PICK f \in [1 .. n -> Failed(c)] :
        /\ \A i, j \in 1 .. n : f[i] = f[j] => i = j
        /\ \A i \in 1 .. n : now[f[i]] = K[i]
        /\ \A q \in {q \in Owed(exact, c) : InWindow(now[q])} : \E i \in 1 .. n : f[i] = q
  BY <1>2, <1>3 DEF Accounted
<1>5. \A i \in 1 .. n : f[i] \in RealFailures(c)
  BY <1>3, <1>4 DEF Failed, RealFailures
<1>6. f \in Injection(1 .. n, RealFailures(c))
  BY <1>4, <1>5 DEF Injection, IsInjective
<1>7. IsFiniteSet(RealFailures(c))
  BY RateLimitAssumption, FS_Subset DEF RealFailures
<1>8. IsFiniteSet(1 .. n) /\ Cardinality(1 .. n) = n
  BY <1>3, FS_Interval
<1>9. /\ n <= Cardinality(RealFailures(c)) /\ Cardinality(RealFailures(c)) \in Nat
      /\ n = Cardinality(RealFailures(c)) <=> f \in Surjection(1 .. n, RealFailures(c))
  BY <1>6, <1>7, <1>8, FS_Injection, FS_CardinalityType
<1>10. ASSUME exact PROVE f \in Surjection(1 .. n, RealFailures(c))
  <2>1. \A q \in RealFailures(c) : \E i \in 1 .. n : f[i] = q
    BY <1>4, <1>10 DEF Owed, RealFailures
  <2> QED
    BY <1>4, <1>5, <2>1 DEF Surjection
<1> QED
  BY <1>3, <1>9, <1>10 DEF Counted, n

LEMMA NobodyIsOvercharged == ASSUME Books(FALSE) PROVE NeverOvercounts
<1> SUFFICES ASSUME NEW c \in Clients, NEW t \in 0 .. MaxTime
             PROVE  Cardinality({i \in DOMAIN failures[c] : failures[c][i] = t}) <=
                    Cardinality({r \in Requests : client[r] = c /\ status[r] = 401 /\ now[r] = t})
  BY DEF NeverOvercounts
<1> DEFINE L == failures[c]
           S == {i \in DOMAIN L : L[i] = t}
           T == {r \in Requests : client[r] = c /\ status[r] = 401 /\ now[r] = t}
<1>1. PICK f \in [DOMAIN L -> Failed(c)] :
        /\ \A i, j \in DOMAIN L : f[i] = f[j] => i = j
        /\ \A i \in DOMAIN L : now[f[i]] = L[i]
  BY DEF Books, Accounted
<1> DEFINE h == [i \in S |-> f[i]]
<1>2. h \in [S -> T] /\ \A i, j \in S : h[i] = h[j] => i = j
  BY <1>1 DEF Failed
<1>3. h \in Injection(S, T)
  BY <1>2 DEF Injection, IsInjective
<1>4. IsFiniteSet(T)
  BY RateLimitAssumption, FS_Subset
<1> QED
  BY <1>3, <1>4, FS_Injection

LEMMA RefusedDeservedIt ==
  ASSUME NEW exact \in BOOLEAN, Books(exact), [Next]_vars,
         NEW r \in Requests, status[r] = 0, status'[r] = 429
  PROVE  Cardinality(RealFailures(client[r])) >= MAX_FAILED_ATTEMPTS
<1>1. TypeOK
  BY DEF Books
<1>2. Throttle(r)
  <2>1. ~ UNCHANGED vars /\ ~ Tick
    BY DEF vars, Tick
  <2>2. ASSUME NEW q \in Requests, Admit(q) \/ Fail(q) PROVE FALSE
    <3>1. CASE Admit(q)
      BY <3>1 DEF Admit
    <3>2. CASE Fail(q)
      BY <1>1, <3>2 DEF Fail, TypeOK
    <3> QED
      BY <2>2, <3>1, <3>2
  <2>3. ASSUME NEW q \in Requests, NEW code \in {200, 401}, Complete(q, code) PROVE FALSE
    BY <1>1, <2>3 DEF Complete, TypeOK
  <2>4. ASSUME NEW q \in Requests, Throttle(q) PROVE q = r
    BY <1>1, <2>4 DEF Throttle, TypeOK
  <2> QED
    BY <2>1, <2>2, <2>3, <2>4 DEF Next
<1>3. client[r] \in Clients /\ Counted(client[r]) >= MAX_FAILED_ATTEMPTS
  BY <1>1, <1>2 DEF Throttle, Counted, TypeOK
<1>4. /\ Counted(client[r]) \in Nat /\ Cardinality(RealFailures(client[r])) \in Nat
      /\ Counted(client[r]) <= Cardinality(RealFailures(client[r]))
  BY <1>3, CountOfAccount
<1> QED
  BY <1>3, <1>4, RateLimitAssumption

LEMMA BooksAreKept == Spec => []Books(FALSE)
<1>1. Init => Books(FALSE)
  BY InitBooks
<1>2. Books(FALSE) /\ [Next]_vars => Books(FALSE)'
  BY NextKeepsBooks
<1> QED
  BY <1>1, <1>2, PTL DEF Spec

\* What the limiter's variables may hold.
THEOREM TypesHold == Spec => []TypeOK
<1>1. Books(FALSE) => TypeOK
  BY DEF Books
<1> QED
  BY <1>1, BooksAreKept, PTL

\* No client is charged with a failure it did not make, or with one twice,
\* whatever lists overlapping requests write over each other.
THEOREM NoOvercount == Spec => []NeverOvercounts
  BY BooksAreKept, NobodyIsOvercharged, PTL

\* A request is refused only while its own client has failed too often.
THEOREM OnlyFailuresThrottle == Spec => ThrottledDeservedIt
<1>1. Books(FALSE) /\ [Next]_vars =>
        [\A r \in Requests : status[r] = 0 /\ status'[r] = 429 =>
           Cardinality(RealFailures(client[r])) >= MAX_FAILED_ATTEMPTS]_vars
  BY RefusedDeservedIt
<1> QED
  BY <1>1, BooksAreKept, PTL DEF Spec, ThrottledDeservedIt

\* Overlap is the only way to lose a failure: as long as no two requests of one
\* client are in flight at once, every failure in the window is counted.
THEOREM SerialClientsAreCounted == Spec /\ []Serial => []CountsEveryFailure
<1>1. Init => Books(TRUE)
  BY InitBooks
<1>2. Books(TRUE) /\ Serial /\ [Next]_vars => Books(TRUE)'
  BY NextKeepsBooks
<1>3. Books(TRUE) => CountsEveryFailure
  BY CountOfAccount DEF CountsEveryFailure
<1> QED
  BY <1>1, <1>2, <1>3, PTL DEF Spec

=============================================================================

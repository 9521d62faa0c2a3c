-------------------------- MODULE Persistence_proofs -------------------------
(***************************************************************************)
(* Proofs about Reconciliation and Persistence, for any number of claims,  *)
(* any relation of their subjects, and any answers of the model.           *)
(*                                                                         *)
(* Neither module's properties are inductive: the last verdict on a claim  *)
(* is looked up in records and conflicts, which are two lists, and a row   *)
(* finds its record and its claims by searching them.  What keeps them     *)
(* together is the order in which they are filled: Listed says it for      *)
(* reconcile() (first the re-investigations, the k-th for the k-th         *)
(* disagreement, then what the adjudicator reported), TxInv for the        *)
(* transaction (what is persisted at each number of agent runs and rows,   *)
(* and the statuses of the case so far).                                   *)
(***************************************************************************)
EXTENDS Persistence, FiniteSetTheorems, SequenceTheorems, TLAPS

Found == {p \in Pairs : InConflict(p)}
Below(p) == {q \in Found : Before(q, p)}

LEMMA ClaimNumbers ==
  /\ NSecurity \in Nat /\ NPrivacy \in Nat /\ Claims = 1 .. NSecurity + NPrivacy
  /\ Claims \subseteq Nat /\ IsFiniteSet(Claims)
<1>1. NSecurity \in Nat /\ NPrivacy \in Nat
  BY ReconciliationAssumption
<1> QED
  BY <1>1, FS_Interval DEF Claims

LEMMA PairShape ==
  ASSUME NEW p \in Pairs
  PROVE  /\ p = << p[1], p[2] >> /\ p[1] \in Claims /\ p[2] \in Claims
         /\ p[1] \in Nat /\ p[2] \in Nat /\ p[1] < p[2]
         /\ DOMAIN p = 1 .. 2 /\ Len(p) = 2 /\ ToSet(p) = {p[1], p[2]}
         /\ IsInjective(p)
<1>1. p \in Claims \X Claims /\ p[1] < p[2]
  BY DEF Pairs
<1>2. p = << p[1], p[2] >> /\ p[1] \in Claims /\ p[2] \in Claims
  BY <1>1
<1>3. p[1] \in Nat /\ p[2] \in Nat
  BY <1>2, ClaimNumbers
<1>4. DOMAIN p = 1 .. 2 /\ Len(p) = 2
  BY <1>2
<1>5. ToSet(p) = {p[1], p[2]}
  BY <1>4 DEF ToSet
<1>6. IsInjective(p)
  BY <1>1, <1>3, <1>4 DEF IsInjective
<1> QED
  BY <1>1, <1>2, <1>3, <1>4, <1>5, <1>6

\* Two pairs with the same claims are the same pair.
LEMMA PairsBySet ==
  ASSUME NEW p \in Pairs, NEW q \in Pairs, ToSet(p) = ToSet(q)
  PROVE  p = q
<1>1. {p[1], p[2]} = {q[1], q[2]} /\ p[1] < p[2] /\ q[1] < q[2]
  BY PairShape
<1>2. p[1] \in Nat /\ p[2] \in Nat /\ q[1] \in Nat /\ q[2] \in Nat
  BY PairShape
<1>3. p[1] = q[1] /\ p[2] = q[2]
  BY <1>1, <1>2
<1> QED
  BY <1>3, PairShape

LEMMA FoundIsFinite == Found \subseteq Pairs /\ IsFiniteSet(Found)
<1>1. IsFiniteSet(Claims \X Claims)
  BY ClaimNumbers, FS_Product
<1>2. Found \subseteq Claims \X Claims /\ Found \subseteq Pairs
  BY DEF Found, Pairs
<1> QED
  BY <1>1, <1>2, FS_Subset

\* The number of pairs before a pair is less than that before a later one.
LEMMA RankGrows ==
  ASSUME NEW p \in Found, NEW q \in Found, Before(p, q)
  PROVE  /\ Cardinality(Below(p)) \in Nat /\ Cardinality(Below(q)) \in Nat
         /\ Cardinality(Below(p)) < Cardinality(Below(q))
<1>1. IsFiniteSet(Below(q)) /\ IsFiniteSet(Below(p))
  BY FoundIsFinite, FS_Subset DEF Below
<1>2. Below(p) \subseteq Below(q)
  <2> SUFFICES ASSUME NEW r \in Found, Before(r, p) PROVE Before(r, q)
    BY DEF Below
  <2>1. /\ r[1] \in Nat /\ r[2] \in Nat /\ p[1] \in Nat /\ p[2] \in Nat
        /\ q[1] \in Nat /\ q[2] \in Nat
    BY FoundIsFinite, PairShape
  <2> QED
    BY <2>1 DEF Before
<1>3. p \in Below(q) /\ p \notin Below(p)
  <2>1. p[1] \in Nat /\ p[2] \in Nat
    BY FoundIsFinite, PairShape
  <2> QED
    BY <2>1 DEF Below, Before
<1>4. Cardinality(Below(p)) \in Nat /\ Cardinality(Below(q)) \in Nat
  BY <1>1, FS_CardinalityType
<1>5. /\ Cardinality(Below(p)) <= Cardinality(Below(q))
      /\ Cardinality(Below(p)) = Cardinality(Below(q)) => Below(p) = Below(q)
  BY <1>1, <1>2, FS_Subset
<1> QED
  BY <1>3, <1>4, <1>5

LEMMA BeforeIsTotal ==
  ASSUME NEW p \in Pairs, NEW q \in Pairs, p # q
  PROVE  Before(p, q) \/ Before(q, p)
<1>1. p[1] # q[1] \/ p[2] # q[2]
  BY PairShape
<1>2. p[1] \in Nat /\ p[2] \in Nat /\ q[1] \in Nat /\ q[2] \in Nat
  BY PairShape
<1> QED
  BY <1>1, <1>2 DEF Before

\* deterministic lists every disagreement once: the pair with n - 1 before it
\* exists, and is the only one.
LEMMA DeterministicIsAList ==
  LET n == Cardinality(Found) IN
  /\ n \in Nat /\ deterministic \in [1 .. n -> Found] /\ Len(deterministic) = n
  /\ DOMAIN deterministic = 1 .. n
  /\ \A p \in Found : \E k \in 1 .. n : deterministic[k] = p
  /\ \A j, k \in 1 .. n : deterministic[j] = deterministic[k] => j = k
<1> DEFINE n == Cardinality(Found)
           f == [p \in Found |-> Cardinality(Below(p)) + 1]
<1>1. n \in Nat
  BY FoundIsFinite, FS_CardinalityType
<1>2. \A p \in Found : Cardinality(Below(p)) \in Nat /\ Cardinality(Below(p)) < n
  <2> SUFFICES ASSUME NEW p \in Found
               PROVE  Cardinality(Below(p)) \in Nat /\ Cardinality(Below(p)) < n
    OBVIOUS
  <2>1. Below(p) \subseteq Found /\ p \notin Below(p)
    <3>1. p[1] \in Nat /\ p[2] \in Nat
      BY FoundIsFinite, PairShape
    <3> QED
      BY <3>1 DEF Below, Before
  <2>2. /\ IsFiniteSet(Below(p)) /\ Cardinality(Below(p)) <= n
        /\ n = Cardinality(Below(p)) => Found = Below(p)
    BY <2>1, FoundIsFinite, FS_Subset
  <2>3. Cardinality(Below(p)) \in Nat
    BY <2>2, FS_CardinalityType
  <2> QED
    BY <1>1, <2>1, <2>2, <2>3
<1>3. \A p, q \in Found : Cardinality(Below(p)) = Cardinality(Below(q)) => p = q
  <2> SUFFICES ASSUME NEW p \in Found, NEW q \in Found, p # q
               PROVE  Cardinality(Below(p)) # Cardinality(Below(q))
    OBVIOUS
  <2>1. CASE Before(p, q)
    BY <2>1, RankGrows
  <2>2. CASE Before(q, p)
    BY <2>2, RankGrows
  <2> QED
    BY <2>1, <2>2, BeforeIsTotal, FoundIsFinite
<1>4. \A m \in 1 .. n : \E p \in Found : Cardinality(Below(p)) = m - 1
  <2>1. f \in [Found -> 1 .. n]
    BY <1>1, <1>2
  <2>2. \A p, q \in Found : f[p] = f[q] => p = q
    BY <1>2, <1>3
  <2>3. f \in Injection(Found, 1 .. n)
    BY <2>1, <2>2 DEF Injection, IsInjective
  <2>4. IsFiniteSet(1 .. n) /\ Cardinality(1 .. n) = n
    BY <1>1, FS_Interval
  <2>5. f \in Surjection(Found, 1 .. n)
    BY <2>3, <2>4, FS_Injection
  <2>6. \A m \in 1 .. n : \E p \in Found : f[p] = m
    BY <2>5 DEF Surjection
  <2> QED
    BY <1>1, <1>2, <2>6
<1>5. deterministic = [m \in 1 .. n |->
                         CHOOSE p \in Found : Cardinality(Below(p)) = m - 1]
  BY DEF deterministic, Found, Below
<1> HIDE DEF n
<1>6. \A m \in 1 .. n : /\ deterministic[m] \in Found
                        /\ Cardinality(Below(deterministic[m])) = m - 1
  BY <1>4, <1>5
<1>7. deterministic \in [1 .. n -> Found] /\ DOMAIN deterministic = 1 .. n
  BY <1>5, <1>6
<1>8. Len(deterministic) = n
  BY <1>1, <1>7
<1>9. \A p \in Found : \E k \in 1 .. n : deterministic[k] = p
  <2> SUFFICES ASSUME NEW p \in Found PROVE \E k \in 1 .. n : deterministic[k] = p
    OBVIOUS
  <2>1. Cardinality(Below(p)) + 1 \in 1 .. n
    BY <1>1, <1>2
  <2>2. Cardinality(Below(deterministic[Cardinality(Below(p)) + 1])) = Cardinality(Below(p))
    BY <1>2, <1>6, <2>1
  <2> QED
    BY <1>3, <1>6, <2>1, <2>2
<1>10. \A j, k \in 1 .. n : deterministic[j] = deterministic[k] => j = k
  BY <1>1, <1>6
<1> QED
  BY <1>1, <1>7, <1>8, <1>9, <1>10 DEF n

-----------------------------------------------------------------------------
\* Every set of natural numbers that is not empty has a least one; so every
\* such set of places in a sequence has a last one.
LEMMA LeastNumber ==
  ASSUME NEW T \in SUBSET Nat, T # {}
  PROVE  \E x \in T : \A y \in T : x <= y
<1> DEFINE R == {ss \in Nat \X Nat : ss[1] < ss[2]}
<1>1. IsWellFoundedOn(R, Nat)
  BY NatLessThanWellFounded DEF OpToRel
<1>2. \A x, y \in Nat : y < x => << y, x >> \in R
  OBVIOUS
<1> HIDE DEF R
<1>3. PICK x \in T : \A y \in T : ~ (<< y, x >> \in R)
  BY <1>1, WFMin
<1>4. ASSUME NEW y \in T PROVE x <= y
  <2>1. x \in Nat /\ y \in Nat /\ ~ (y < x)
    BY <1>2, <1>3
  <2> QED
    BY <2>1
<1> QED
  BY <1>4

LEMMA LastPlace ==
  ASSUME NEW n \in Nat, NEW S \in SUBSET (1 .. n), S # {}
  PROVE  \E k \in S : \A j \in S : j <= k
<1> DEFINE T == {n - k : k \in S}
<1>1. \A k \in S : n - k \in T /\ n - k \in Nat
  OBVIOUS
<1>2. T \in SUBSET Nat /\ T # {}
  BY <1>1
<1>3. PICK x \in T : \A y \in T : x <= y
  BY <1>2, LeastNumber
<1>4. PICK k \in S : x = n - k
  BY <1>3
<1>5. ASSUME NEW j \in S PROVE j <= k
  <2>1. n - k <= n - j
    BY <1>1, <1>3, <1>4
  <2> QED
    BY <2>1
<1> QED
  BY <1>5

Settling(c) == {k \in DOMAIN conflicts : Settles(k, c)}
LastOf(S)   == CHOOSE k \in S : \A j \in S : j <= k

LEMMA StatusRestated ==
  StatusIsLastVerdict <=>
    \A c \in Claims :
      status[c] = IF Settling(c) = {} THEN Original ELSE VerdictOf(LastOf(Settling(c)))
  BY DEF StatusIsLastVerdict, Settling, LastOf

\* One more conflict changes the label of a claim exactly if it settles it.
LEMMA OneMoreConflict ==
  ASSUME NEW n \in Nat, DOMAIN conflicts = 1 .. n, DOMAIN conflicts' = 1 .. n + 1,
         \A k \in 1 .. n : conflicts'[k] = conflicts[k] /\ VerdictOf(k)' = VerdictOf(k),
         \A c \in Claims :
           status'[c] = IF Settles(n + 1, c)' THEN VerdictOf(n + 1)' ELSE status[c],
         StatusIsLastVerdict
  PROVE  StatusIsLastVerdict'
<1> SUFFICES ASSUME NEW c \in Claims
             PROVE  status'[c] = IF Settling(c)' = {} THEN Original
                                 ELSE VerdictOf(LastOf(Settling(c)))'
  BY DEF StatusIsLastVerdict, Settling, LastOf
<1>1. status[c] = IF Settling(c) = {} THEN Original ELSE VerdictOf(LastOf(Settling(c)))
  BY StatusRestated
<1>2. Settling(c) \in SUBSET (1 .. n)
  BY DEF Settling
<1>3. \A k \in 1 .. n : Settles(k, c)' <=> Settles(k, c)
  BY DEF Settles
<1>4. CASE Settles(n + 1, c)'
  <2>1. Settling(c)' = Settling(c) \cup {n + 1}
    BY <1>3, <1>4 DEF Settling
  <2>2. LastOf(Settling(c))' = n + 1
    BY <1>2, <2>1 DEF LastOf
  <2> QED
    BY <1>4, <2>1, <2>2
<1>5. CASE ~ Settles(n + 1, c)'
  <2>1. Settling(c)' = Settling(c)
    BY <1>3, <1>5 DEF Settling
  <2>2. CASE Settling(c) = {}
    BY <1>1, <1>5, <2>1, <2>2
  <2>3. CASE Settling(c) # {}
    <3>1. LastOf(Settling(c)) \in Settling(c)
      BY <1>2, <2>3, LastPlace DEF LastOf
    <3>2. PICK last \in 1 .. n : last = LastOf(Settling(c))
      BY <1>2, <3>1
    <3>3. LastOf(Settling(c))' = last
      BY <2>1, <3>2 DEF LastOf
    <3>4. VerdictOf(last)' = VerdictOf(last)
      OBVIOUS
    <3> QED
      BY <1>1, <1>5, <2>1, <2>3, <3>2, <3>3, <3>4
  <2> QED
    BY <2>2, <2>3
<1> QED
  BY <1>4, <1>5

-----------------------------------------------------------------------------
\* The conflicts are the re-investigations made so far, in the order of the
\* disagreements, and then what the adjudicator reported.
Listed ==
  /\ Len(records) <= Len(deterministic) /\ Len(records) <= Len(conflicts)
  /\ \A j \in 1 .. Len(records) :
       /\ records[j].ids = deterministic[j]
       /\ conflicts[j] = [ids |-> records[j].ids, method |-> "reinvestigation",
                          status |-> IF records[j].resolved THEN "resolved" ELSE "open"]
  /\ \A k \in Len(records) + 1 .. Len(conflicts) :
       conflicts[k].method = "semantic_adjudication" /\ conflicts[k].ids \in Citations
  /\ pc = "reinvestigating" => Len(conflicts) = Len(records)
  /\ pc \in {"adjudicating", "reconciled"} => Len(records) = Len(deterministic)

IInv == TypeOK /\ Listed /\ StatusIsLastVerdict

LEMMA FrozenDisagreements ==
  ASSUME UNCHANGED << claim, sameTopic >>
  PROVE  deterministic' = deterministic /\ Found' = Found
  BY DEF deterministic, Found, InConflict, Pairs, Claims, agent_type, Before

LEMMA InitIInv == Init => IInv
<1> SUFFICES ASSUME Init PROVE IInv
  OBVIOUS
<1>1. TypeOK
  BY DEF Init, TypeOK
<1>2. Len(deterministic) \in Nat
  BY DeterministicIsAList
<1>3. Listed
  BY <1>2 DEF Init, Listed
<1>4. StatusIsLastVerdict
  BY StatusRestated DEF Init, Settling
<1> QED
  BY <1>1, <1>3, <1>4 DEF IInv

LEMMA ReinvestigateKeepsIInv ==
  ASSUME IInv, NEW resolved \in BOOLEAN, NEW verdict \in Verdicts \cup {None},
         Reinvestigate(resolved, verdict)
  PROVE  IInv'
<1> SUFFICES ASSUME NEW n, n = Len(records) PROVE IInv'
  OBVIOUS
<1> DEFINE ids == deterministic[n + 1]
           rec == [ids |-> ids, resolved |-> resolved, verdict |-> verdict]
           con == [ids |-> ids, method |-> "reinvestigation",
                   status |-> IF resolved THEN "resolved" ELSE "open"]
<1>1. /\ pc = "reinvestigating" /\ n + 1 <= Len(deterministic)
      /\ records' = Append(records, rec) /\ conflicts' = Append(conflicts, con)
      /\ status' = IF resolved /\ verdict # None
                   THEN [c \in Claims |->
                          IF c \in {ids[1], ids[2]} THEN verdict ELSE status[c]]
                   ELSE status
      /\ UNCHANGED << claim, sameTopic, pc >>
  BY DEF Reinvestigate
<1>2. TypeOK /\ n \in Nat /\ Len(conflicts) = n /\ n = Len(records)
  BY <1>1 DEF IInv, Listed, TypeOK
<1>3. ids \in Pairs
  BY <1>1, <1>2, DeterministicIsAList, FoundIsFinite
<1>4. ToSet(ids) = {ids[1], ids[2]}
  BY <1>3, PairShape
<1>5. deterministic' = deterministic
  BY <1>1, FrozenDisagreements
<1> HIDE DEF ids
<1>6. TypeOK'
  <2>1. rec \in [ids : Pairs, resolved : BOOLEAN, verdict : Verdicts \cup {None}]
    BY <1>3
  <2>2. con \in [ids : Seq(Claims \cup {Unknown}) \cup Pairs,
                 method : {"reinvestigation", "semantic_adjudication"},
                 status : {"resolved", "open"}]
    BY <1>3
  <2>3. status' \in [Claims -> Verdicts \cup {Original}]
    BY <1>1, <1>2 DEF TypeOK
  <2>4. Pairs' = Pairs /\ Claims' = Claims
    BY DEF Pairs, Claims
  <2> QED
    BY <1>1, <1>2, <2>1, <2>2, <2>3, <2>4 DEF TypeOK
<1>7. /\ Len(records') = n + 1 /\ Len(conflicts') = n + 1
      /\ records'[n + 1] = rec /\ conflicts'[n + 1] = con
      /\ \A j \in 1 .. n : records'[j] = records[j] /\ conflicts'[j] = conflicts[j]
      /\ DOMAIN conflicts = 1 .. n /\ DOMAIN conflicts' = 1 .. n + 1
  BY <1>1, <1>2 DEF TypeOK
<1>8. Listed'
  BY <1>1, <1>2, <1>5, <1>7 DEF Listed, IInv, ids
<1>9. StatusIsLastVerdict'
  <2>1. \A k \in 1 .. n : VerdictOf(k)' = VerdictOf(k)
    BY <1>2, <1>7 DEF VerdictOf
  <2>2. VerdictOf(n + 1)' = IF resolved THEN verdict ELSE None
    BY <1>2, <1>7 DEF VerdictOf
  <2>3. \A c \in Claims :
          Settles(n + 1, c)' <=> c \in {ids[1], ids[2]} /\ resolved /\ verdict # None
    BY <1>4, <1>7, <2>2 DEF Settles
  <2>4. \A c \in Claims :
          status'[c] = IF Settles(n + 1, c)' THEN VerdictOf(n + 1)' ELSE status[c]
    BY <1>1, <1>2, <2>2, <2>3 DEF TypeOK
  <2> QED
    BY <1>2, <1>7, <2>1, <2>4, OneMoreConflict DEF IInv
<1> QED
  BY <1>6, <1>8, <1>9 DEF IInv

LEMMA ApplySemanticKeepsIInv ==
  ASSUME IInv, NEW ids \in Citations, NEW confidence \in {"high", "low"},
         ApplySemantic(ids, confidence)
  PROVE  IInv'
<1> SUFFICES ASSUME NEW n, n = Len(conflicts) PROVE IInv'
  OBVIOUS
<1> DEFINE con == [ids |-> ids, method |-> "semantic_adjudication",
                   status |-> IF confidence = "high" THEN "resolved" ELSE "open"]
<1>1. /\ pc = "adjudicating"
      /\ status' = [c \in Claims |->
           IF confidence = "high" /\ c \in ToSet(ids) THEN "contradicted" ELSE status[c]]
      /\ conflicts' = Append(conflicts, con)
      /\ UNCHANGED << claim, sameTopic, pc, records >>
  BY DEF ApplySemantic
<1>2. TypeOK /\ n \in Nat /\ Len(records) \in Nat /\ Len(records) <= n
  BY DEF IInv, Listed, TypeOK
<1>3. deterministic' = deterministic
  BY <1>1, FrozenDisagreements
<1>4. "contradicted" \in Verdicts /\ None \notin Verdicts /\ ids \in Seq(Claims \cup {Unknown})
  BY ReconciliationAssumption
<1>5. TypeOK'
  <2>1. con \in [ids : Seq(Claims \cup {Unknown}) \cup Pairs,
                 method : {"reinvestigation", "semantic_adjudication"},
                 status : {"resolved", "open"}]
    BY <1>4
  <2>2. status' \in [Claims -> Verdicts \cup {Original}]
    BY <1>1, <1>2, <1>4 DEF TypeOK
  <2>3. Pairs' = Pairs /\ Claims' = Claims
    BY DEF Pairs, Claims
  <2> QED
    BY <1>1, <1>2, <2>1, <2>2, <2>3 DEF TypeOK
<1>6. /\ Len(conflicts') = n + 1 /\ conflicts'[n + 1] = con
      /\ \A k \in 1 .. n : conflicts'[k] = conflicts[k]
      /\ DOMAIN conflicts = 1 .. n /\ DOMAIN conflicts' = 1 .. n + 1
  BY <1>1, <1>2 DEF TypeOK
<1>7. Listed'
  BY <1>1, <1>2, <1>3, <1>6 DEF Listed, IInv
<1>8. StatusIsLastVerdict'
  <2>1. \A k \in 1 .. n : VerdictOf(k)' = VerdictOf(k)
    BY <1>1, <1>6 DEF VerdictOf
  <2>2. VerdictOf(n + 1)' = IF confidence = "high" THEN "contradicted" ELSE None
    BY <1>1, <1>2, <1>6 DEF VerdictOf
  <2>3. \A c \in Claims : Settles(n + 1, c)' <=> c \in ToSet(ids) /\ confidence = "high"
    BY <1>4, <1>6, <2>2 DEF Settles
  <2>4. \A c \in Claims :
          status'[c] = IF Settles(n + 1, c)' THEN VerdictOf(n + 1)' ELSE status[c]
    BY <1>1, <1>2, <2>2, <2>3 DEF TypeOK
  <2> QED
    BY <1>2, <1>6, <2>1, <2>4, OneMoreConflict DEF IInv
<1> QED
  BY <1>5, <1>7, <1>8 DEF IInv

\* A step that only moves pc, or nothing.
LEMMA PcKeepsIInv ==
  ASSUME IInv, UNCHANGED << claim, sameTopic, status, conflicts, records >>,
         pc' \in {"reinvestigating", "adjudicating", "reconciled", "raised"},
         pc' = "reinvestigating" => pc = "reinvestigating",
         pc' \in {"adjudicating", "reconciled"} => Len(records) = Len(deterministic)
  PROVE  IInv'
<1>1. deterministic' = deterministic
  BY FrozenDisagreements
<1>2. TypeOK'
  BY DEF IInv, TypeOK, Pairs, Claims
<1>3. Listed'
  BY <1>1 DEF IInv, Listed
<1>4. StatusIsLastVerdict'
  <2> SUFFICES ASSUME NEW c \in Claims
               PROVE  status'[c] = IF Settling(c)' = {} THEN Original
                                   ELSE VerdictOf(LastOf(Settling(c)))'
    BY DEF StatusIsLastVerdict, Settling, LastOf
  <2>1. PICK last : last = LastOf(Settling(c))
    OBVIOUS
  <2>2. Settling(c)' = Settling(c) /\ VerdictOf(last)' = VerdictOf(last)
    BY DEF Settling, Settles, VerdictOf
  <2>3. LastOf(Settling(c))' = last
    BY <2>1, <2>2 DEF LastOf
  <2> QED
    BY <2>1, <2>2, <2>3, StatusRestated DEF IInv
<1> QED
  BY <1>2, <1>3, <1>4 DEF IInv

LEMMA NextIInv == ASSUME IInv, [Next]_vars PROVE IInv'
<1> USE DEF IInv
<1>1. CASE UNCHANGED vars
  BY <1>1, PcKeepsIInv DEF vars, TypeOK, Listed
<1>2. CASE Adjudicate
  BY <1>2, PcKeepsIInv DEF Adjudicate
<1>3. CASE Return
  BY <1>3, PcKeepsIInv DEF Return, Listed
<1>4. CASE Fail
  BY <1>4, PcKeepsIInv DEF Fail
<1> QED
  BY <1>1, <1>2, <1>3, <1>4, ReinvestigateKeepsIInv, ApplySemanticKeepsIInv DEF Next

\* What reconcile() has done so far is known at every step of it.
THEOREM Inductive == Spec => []IInv
  BY InitIInv, NextIInv, PTL DEF Spec

\* An agent's claims are those up to NSecurity or those above.
LEMMA DomainsApart ==
  ASSUME NEW p \in Pairs
  PROVE  agent_type(p[1]) = agent_type(p[2]) <=>
           \E a \in {1 .. NSecurity, NSecurity + 1 .. NSecurity + NPrivacy} :
             p[1] \in a /\ p[2] \in a
<1>1. /\ p[1] \in Nat /\ p[2] \in Nat /\ p[1] \in 1 .. NSecurity + NPrivacy
      /\ p[2] \in 1 .. NSecurity + NPrivacy /\ NSecurity \in Nat /\ NPrivacy \in Nat
  BY PairShape, ClaimNumbers
<1>2. agent_type(p[1]) = agent_type(p[2]) <=> (p[1] <= NSecurity <=> p[2] <= NSecurity)
  BY <1>1 DEF agent_type
<1> QED
  BY <1>1, <1>2

LEMMA DisagreementsOnce == IInv => EveryDisagreementOnce
<1> SUFFICES ASSUME IInv, pc = "reconciled", NEW p \in Pairs
             PROVE  Cardinality({k \in DOMAIN conflicts :
                       conflicts[k].method = "reinvestigation" /\ conflicts[k].ids = p})
                    = IF /\ \E a \in {1 .. NSecurity, NSecurity + 1 .. NSecurity + NPrivacy} :
                               p[1] \in a /\ p[2] \in a
                         /\ p \in sameTopic /\ claim[p[1]].predicate = claim[p[2]].predicate
                         /\ claim[p[1]].value # claim[p[2]].value
                      THEN 1 ELSE 0
  BY DEF EveryDisagreementOnce
<1> DEFINE n    == Len(records)
           Asks == {k \in DOMAIN conflicts :
                      conflicts[k].method = "reinvestigation" /\ conflicts[k].ids = p}
<1>1. /\ n \in Nat /\ n = Len(deterministic) /\ Len(conflicts) \in Nat
      /\ n <= Len(conflicts) /\ DOMAIN conflicts = 1 .. Len(conflicts)
  BY DEF IInv, TypeOK, Listed
<1>2. Asks = {k \in 1 .. n : deterministic[k] = p}
  <2>1. ASSUME NEW k \in 1 .. n
        PROVE  conflicts[k].method = "reinvestigation" /\ conflicts[k].ids = deterministic[k]
    <3>1. Listed
      BY DEF IInv
    <3>2. PICK st : conflicts[k] = [ids |-> deterministic[k], method |-> "reinvestigation",
                                    status |-> st]
      BY <3>1 DEF Listed
    <3> QED
      BY <3>2
  <2>2. \A k \in n + 1 .. Len(conflicts) : conflicts[k].method # "reinvestigation"
    BY DEF IInv, Listed
  <2> QED
    BY <1>1, <2>1, <2>2
<1>3. /\ n = Cardinality(Found) /\ \A k \in 1 .. n : deterministic[k] \in Found
      /\ p \in Found => \E k \in 1 .. n : deterministic[k] = p
      /\ \A j, k \in 1 .. n : deterministic[j] = deterministic[k] => j = k
  BY <1>1, DeterministicIsAList
<1>4. CASE p \in Found
  <2>1. PICK k \in 1 .. n : Asks = {k}
    BY <1>2, <1>3, <1>4
  <2>2. Cardinality(Asks) = 1
    BY <2>1, FS_Singleton
  <2> QED
    BY <1>4, <2>2, DomainsApart DEF Found, InConflict
<1>5. CASE p \notin Found
  <2>1. Asks = {}
    BY <1>2, <1>3, <1>5
  <2>2. Cardinality(Asks) = 0
    BY <2>1, FS_EmptySet
  <2> QED
    BY <1>5, <2>2, DomainsApart DEF Found, InConflict
<1> QED
  BY <1>4, <1>5

-----------------------------------------------------------------------------
Start == << "INTAKE", "VALIDATING", "DOCUMENTS_READY", "CLASSIFYING", "INVESTIGATING" >>
Ready == Start \o << "INVESTIGATIONS_COMPLETE", "RECONCILING" >>
End   == Ready \o
  (IF records # << >>
   THEN << "REINVESTIGATING", "RECONCILING_POST_REINVESTIGATION" >>
   ELSE << >>) \o << "SYNTHESIZING", "AWAITING_HUMAN_REVIEW" >>

GraphOf(n) ==
  [a \in ToSet(Agents) |->
     IF a = Agents[1] THEN IF n >= 1 THEN ClaimsOf(a) ELSE << >>
                      ELSE IF n >= 2 THEN ClaimsOf(a) ELSE << >>]

Row == [findings : SUBSET Claims, status : {"resolved", "open"}, record : Nat]

\* The row of conflict k.
RowIs(k) ==
  /\ IsInjective(conflicts[k].ids) /\ ToSet(conflicts[k].ids) \subseteq Claims
  /\ rows[k] = [findings |-> ToSet(conflicts[k].ids), status |-> conflicts[k].status,
                record |-> IF k <= Len(records) THEN k ELSE 0]

TxInv ==
  /\ stage \in {"open", "investigated", "committed", "gone"}
  /\ pc # "reconciled" =>
       stage = "open" /\ runs = 0 /\ rows = << >> /\ history = Start
  /\ stage # "gone" =>
       /\ runs \in 0 .. 2 /\ graph = GraphOf(runs)
       /\ rows \in Seq(Row) /\ Len(rows) <= Len(conflicts)
       /\ \A k \in 1 .. Len(rows) : RowIs(k)
  /\ stage = "open" => history = Start /\ rows = << >>
  /\ stage = "investigated" => pc = "reconciled" /\ history = Ready /\ runs = 2
  /\ stage = "committed" =>
       /\ pc = "reconciled" /\ runs = 2 /\ Len(rows) = Len(conflicts)
       /\ history = End

LEMMA AgentNames ==
  /\ Agents[1] = "security_investigator" /\ Agents[2] = "privacy_investigator"
  /\ Len(Agents) = 2 /\ Agents[1] # Agents[2] /\ ToSet(Agents) = {Agents[1], Agents[2]}
<1>1. DOMAIN Agents = 1 .. 2
  BY DEF Agents
<1>2. Agents[1] = "security_investigator" /\ Agents[2] = "privacy_investigator" /\ Len(Agents) = 2
  BY DEF Agents
<1> QED
  BY <1>1, <1>2 DEF ToSet

Statuses == {"INTAKE", "VALIDATING", "DOCUMENTS_READY", "CLASSIFYING", "INVESTIGATING",
             "INVESTIGATIONS_COMPLETE", "RECONCILING", "REINVESTIGATING",
             "RECONCILING_POST_REINVESTIGATION", "SYNTHESIZING", "AWAITING_HUMAN_REVIEW"}

\* A history that makes two more hops.
LEMMA TwoHops ==
  ASSUME NEW s \in Seq(Statuses), NEW a \in Statuses, NEW b \in Statuses
  PROVE  /\ s \o << a, b >> \in Seq(Statuses) /\ Len(s \o << a, b >>) = Len(s) + 2
         /\ \A i \in 1 .. Len(s) : (s \o << a, b >>)[i] = s[i]
         /\ (s \o << a, b >>)[Len(s) + 1] = a /\ (s \o << a, b >>)[Len(s) + 2] = b
         /\ Last(s \o << a, b >>) = b
<1> DEFINE t == << a, b >>
<1>1. t \in Seq(Statuses) /\ Len(t) = 2 /\ t[1] = a /\ t[2] = b
  OBVIOUS
<1>2. Len(s) \in Nat
  OBVIOUS
<1> HIDE DEF t
<1>3. /\ s \o t \in Seq(Statuses) /\ Len(s \o t) = Len(s) + 2
      /\ \A i \in 1 .. Len(s) + 2 : (s \o t)[i] = IF i <= Len(s) THEN s[i] ELSE t[i - Len(s)]
  <2>1. t \in Seq(Statuses)
    BY <1>1
  <2>2. /\ s \o t \in Seq(Statuses) /\ Len(s \o t) = Len(s) + Len(t)
        /\ \A i \in 1 .. Len(s) + Len(t) :
             (s \o t)[i] = IF i <= Len(s) THEN s[i] ELSE t[i - Len(s)]
    BY <2>1, ConcatProperties, Zenon
  <2> QED
    BY <1>1, <2>2
<1>4. \A i \in 1 .. Len(s) : (s \o t)[i] = s[i]
  BY <1>2, <1>3
<1>5. (s \o t)[Len(s) + 1] = a /\ (s \o t)[Len(s) + 2] = b
  BY <1>1, <1>2, <1>3
<1>6. Last(s \o t) = b
  BY <1>3, <1>5 DEF Last
<1> QED
  BY <1>3, <1>4, <1>5, <1>6 DEF t

LEMMA StatusesSoFar ==
  /\ Start \in Seq(Statuses) /\ Len(Start) = 5 /\ Last(Start) = "INVESTIGATING"
  /\ Ready \in Seq(Statuses) /\ Len(Ready) = 7 /\ Last(Ready) = "RECONCILING"
  /\ Ready[6] = "INVESTIGATIONS_COMPLETE" /\ Ready[7] = "RECONCILING"
  /\ \A i \in 1 .. 5 : Ready[i] = Start[i]
<1>1. Start \in Seq(Statuses)
  BY DEF Start, Statuses
<1>2. Len(Start) = 5
  BY DEF Start
<1>3. Start[5] = "INVESTIGATING"
  BY DEF Start
<1>4. Last(Start) = "INVESTIGATING"
  BY <1>2, <1>3 DEF Last
<1>5. "INVESTIGATIONS_COMPLETE" \in Statuses /\ "RECONCILING" \in Statuses
  BY DEF Statuses
<1>6. /\ Ready \in Seq(Statuses) /\ Len(Ready) = Len(Start) + 2
      /\ \A i \in 1 .. Len(Start) : Ready[i] = Start[i]
      /\ Ready[Len(Start) + 1] = "INVESTIGATIONS_COMPLETE"
      /\ Ready[Len(Start) + 2] = "RECONCILING" /\ Last(Ready) = "RECONCILING"
  BY <1>1, <1>5, TwoHops DEF Ready
<1> QED
  BY <1>1, <1>2, <1>4, <1>6

\* Two hops that apply, the second from where the first one led.
LEMMA HopsApply ==
  ASSUME NEW s \in Seq(Statuses), s # << >>, NEW a \in Statuses, NEW b \in Statuses
  PROVE  Hop(Hop(s, Last(s), a), a, b) = s \o << a, b >>
<1>1. Hop(s, Last(s), a) = Append(s, a)
  BY DEF Hop
<1>2. Last(Append(s, a)) = a
  BY DEF Last
<1>3. Hop(Append(s, a), a, b) = Append(Append(s, a), b)
  BY <1>2 DEF Hop
<1>4. Append(Append(s, a), b) = s \o << a, b >>
  OBVIOUS
<1> QED
  BY <1>1, <1>3, <1>4

\* The hops seed_case makes all apply, each from where the one before led.
LEMMA HopsOfTheCase ==
  /\ Hop(Hop(Start, "INVESTIGATING", "INVESTIGATIONS_COMPLETE"),
         "INVESTIGATIONS_COMPLETE", "RECONCILING") = Ready
  /\ Hop(IF records # << >>
         THEN Hop(SentBack(Ready), "RECONCILING_POST_REINVESTIGATION", "SYNTHESIZING")
         ELSE Hop(Ready, "RECONCILING", "SYNTHESIZING"),
         "SYNTHESIZING", "AWAITING_HUMAN_REVIEW") = End
<1> DEFINE mid == Ready \o << "REINVESTIGATING", "RECONCILING_POST_REINVESTIGATION" >>
<1>1. /\ Start \in Seq(Statuses) /\ Start # << >> /\ Last(Start) = "INVESTIGATING"
      /\ Ready \in Seq(Statuses) /\ Ready # << >> /\ Last(Ready) = "RECONCILING"
  <2>1. Len(Start) # 0 /\ Len(Ready) # 0
    BY StatusesSoFar
  <2>2. Start # << >> /\ Ready # << >>
    BY <2>1
  <2> QED
    BY <2>2, StatusesSoFar
<1>2. /\ "INVESTIGATIONS_COMPLETE" \in Statuses /\ "RECONCILING" \in Statuses
      /\ "REINVESTIGATING" \in Statuses /\ "RECONCILING_POST_REINVESTIGATION" \in Statuses
      /\ "SYNTHESIZING" \in Statuses /\ "AWAITING_HUMAN_REVIEW" \in Statuses
  BY DEF Statuses
<1>3. Hop(Hop(Start, "INVESTIGATING", "INVESTIGATIONS_COMPLETE"),
          "INVESTIGATIONS_COMPLETE", "RECONCILING") = Ready
  BY <1>1, <1>2, HopsApply DEF Ready
<1>4. SentBack(Ready) = mid
  BY <1>1, <1>2, HopsApply DEF SentBack
<1>5. /\ mid \in Seq(Statuses) /\ mid # << >>
      /\ Last(mid) = "RECONCILING_POST_REINVESTIGATION"
  <2>1. /\ mid \in Seq(Statuses) /\ Len(mid) = Len(Ready) + 2
        /\ Last(mid) = "RECONCILING_POST_REINVESTIGATION"
    BY <1>1, <1>2, TwoHops
  <2> QED
    BY <2>1, StatusesSoFar
<1> HIDE DEF mid
<1>6. CASE records # << >>
  <2>1. End = mid \o << "SYNTHESIZING", "AWAITING_HUMAN_REVIEW" >>
    BY <1>6 DEF End, mid
  <2>2. Hop(Hop(mid, "RECONCILING_POST_REINVESTIGATION", "SYNTHESIZING"),
            "SYNTHESIZING", "AWAITING_HUMAN_REVIEW") = End
    BY <1>2, <1>5, <2>1, HopsApply
  <2> QED
    BY <1>3, <1>4, <1>6, <2>2
<1>7. CASE records = << >>
  <2>1. End = Ready \o << "SYNTHESIZING", "AWAITING_HUMAN_REVIEW" >>
    BY <1>1, <1>7, ConcatEmptySeq DEF End
  <2>2. Hop(Hop(Ready, "RECONCILING", "SYNTHESIZING"),
            "SYNTHESIZING", "AWAITING_HUMAN_REVIEW") = End
    BY <1>1, <1>2, <2>1, HopsApply
  <2> QED
    BY <1>3, <1>7, <2>2
<1> QED
  BY <1>6, <1>7

LEMMA InitTxInv == PInit => TxInv
<1> SUFFICES ASSUME PInit PROVE TxInv
  OBVIOUS
<1>1. graph = GraphOf(0)
  BY AgentNames DEF PInit, GraphOf
<1>2. pc = "reinvestigating" /\ Len(conflicts) = 0
  BY DEF PInit, Init
<1>3. rows \in Seq(Row) /\ Len(rows) = 0
  BY DEF PInit
<1> QED
  BY <1>1, <1>2, <1>3 DEF PInit, TxInv, Start

\* reconcile() is still running: the transaction has not begun to write.
LEMMA ReconcileKeepsTxInv ==
  ASSUME IInv', TxInv, Next, UNCHANGED txVars
  PROVE  TxInv'
<1>1. pc # "reconciled"
  BY DEF Next, Reinvestigate, Adjudicate, Return, Fail, ApplySemantic
<1>2. stage = "open" /\ runs = 0 /\ rows = << >> /\ history = Start /\ graph = GraphOf(0)
  BY <1>1 DEF TxInv
<1>3. stage' = "open" /\ runs' = 0 /\ rows' = << >> /\ history' = Start /\ graph' = GraphOf(0)
  BY <1>2 DEF txVars
<1>4. Len(conflicts') \in Nat
  BY DEF IInv, TypeOK
<1>5. rows' \in Seq(Row) /\ Len(rows') = 0
  BY <1>3
<1> QED
  BY <1>3, <1>4, <1>5 DEF TxInv, Start, GraphOf, Row

LEMMA LoseKeepsTxInv == ASSUME TxInv, LoseTransaction PROVE TxInv'
  BY DEF TxInv, LoseTransaction, Persisting, vars

LEMMA PersistAgentKeepsTxInv ==
  ASSUME IInv, TxInv, NEW foreign, PersistAgentResult(foreign)
  PROVE  TxInv'
<1>1. CASE LoseTransaction
  BY <1>1, LoseKeepsTxInv
<1>2. CASE ~ LoseTransaction
  <2> SUFFICES ASSUME NEW n, n = runs PROVE TxInv'
    OBVIOUS
  <2>1. /\ Persisting /\ stage = "open" /\ n < 2 /\ runs' = n + 1
        /\ graph' = [graph EXCEPT ![Agents[n + 1]] = ClaimsOf(Agents[n + 1])]
        /\ UNCHANGED << vars, stage, rows, history >>
    BY <1>2, AgentNames DEF PersistAgentResult
  <2>2. /\ n \in 0 .. 1 /\ graph = GraphOf(n) /\ history = Start /\ rows = << >>
        /\ stage = "open" /\ pc = "reconciled"
    BY <2>1 DEF TxInv, Persisting
  <2>3. graph' = GraphOf(n + 1)
    <3>1. CASE n = 0
      <4>1. graph = [a \in {Agents[1], Agents[2]} |-> << >>]
        BY <2>2, <3>1, AgentNames DEF GraphOf
      <4>2. GraphOf(1) = [a \in {Agents[1], Agents[2]} |->
                            IF a = Agents[1] THEN ClaimsOf(a) ELSE << >>]
        BY AgentNames DEF GraphOf
      <4>3. graph' = [graph EXCEPT ![Agents[1]] = ClaimsOf(Agents[1])]
        BY <2>1, <3>1
      <4>4. n + 1 = 1
        BY <3>1
      <4> QED
        BY <4>1, <4>2, <4>3, <4>4, AgentNames
    <3>2. CASE n = 1
      <4>1. graph = [a \in {Agents[1], Agents[2]} |->
                       IF a = Agents[1] THEN ClaimsOf(a) ELSE << >>]
        BY <2>2, <3>2, AgentNames DEF GraphOf
      <4>2. GraphOf(2) = [a \in {Agents[1], Agents[2]} |-> ClaimsOf(a)]
        BY AgentNames DEF GraphOf
      <4>3. graph' = [graph EXCEPT ![Agents[2]] = ClaimsOf(Agents[2])]
        BY <2>1, <3>2
      <4>4. n + 1 = 2
        BY <3>2
      <4> QED
        BY <4>1, <4>2, <4>3, <4>4, AgentNames
    <3> QED
      BY <2>2, <3>1, <3>2
  <2>4. Len(conflicts) \in Nat
    BY DEF IInv, TypeOK
  <2>5. rows' = << >> /\ rows' \in Seq(Row) /\ Len(rows') = 0
    BY <2>1, <2>2
  <2>6. /\ stage' = "open" /\ pc' = "reconciled" /\ history' = Start /\ conflicts' = conflicts
        /\ n + 1 \in 0 .. 2
    BY <2>1, <2>2 DEF vars
  <2>7. /\ runs' \in 0 .. 2 /\ Len(rows') <= Len(conflicts')
        /\ \A k \in 1 .. Len(rows') : RowIs(k)'
    BY <2>1, <2>4, <2>5, <2>6
  <2>8. graph' = GraphOf(runs)'
    BY <2>1, <2>3 DEF GraphOf
  <2> QED
    BY <2>5, <2>6, <2>7, <2>8 DEF TxInv, Start, Row
<1> QED
  BY <1>1, <1>2

\* The rows written stay what they are while conflicts and records do.
LEMMA RowsStay ==
  ASSUME UNCHANGED << conflicts, records >>, NEW k, rows'[k] = rows[k], RowIs(k)
  PROVE  RowIs(k)'
  BY DEF RowIs, Claims

LEMMA HopsKeepTxInv ==
  ASSUME IInv, TxInv, CompleteInvestigations \/ CommitCase
  PROVE  TxInv'
<1>1. Persisting /\ UNCHANGED << vars, runs, graph, rows >>
  BY DEF CompleteInvestigations, CommitCase
<1>2. /\ stage \in {"open", "investigated"} /\ pc' = "reconciled"
      /\ UNCHANGED << conflicts, records >>
  BY <1>1 DEF Persisting, TxInv, vars
<1>3. /\ runs' \in 0 .. 2 /\ graph' = GraphOf(runs')
      /\ rows' \in Seq(Row) /\ Len(rows') <= Len(conflicts')
      /\ \A k \in 1 .. Len(rows') : RowIs(k)'
  BY <1>1, <1>2, RowsStay DEF TxInv
<1>4. CASE CompleteInvestigations
  <2>1. stage = "open" /\ runs = 2 /\ stage' = "investigated"
    BY <1>4, AgentNames DEF CompleteInvestigations
  <2>2. history = Start
    BY <2>1 DEF TxInv
  <2>3. history' = Ready
    BY <1>4, <2>2, HopsOfTheCase DEF CompleteInvestigations
  <2> QED
    BY <1>1, <1>2, <1>3, <2>1, <2>3 DEF TxInv, Ready, Start, GraphOf, Row
<1>5. CASE CommitCase
  <2>1. /\ stage = "investigated" /\ stage' = "committed" /\ Len(rows) = Len(conflicts)
    BY <1>5 DEF CommitCase
  <2>2. history = Ready /\ runs = 2
    BY <2>1 DEF TxInv
  <2>3. history' = End'
    <3>1. history' = End
      BY <1>5, <2>2, HopsOfTheCase DEF CommitCase
    <3> QED
      BY <1>2, <3>1 DEF End, Ready, Start
  <2> QED
    BY <1>1, <1>2, <1>3, <2>1, <2>2, <2>3 DEF TxInv, GraphOf, Row
<1> QED
  BY <1>4, <1>5

\* Both agents are persisted: a claim's number and its place name the same row.
LEMMA PooledIdsAreRight ==
  ASSUME graph = GraphOf(2), NEW c \in Claims
  PROVE  HasRow(c) /\ ByPooledId(c) = c
<1>1. c \in Nat /\ NSecurity \in Nat /\ NPrivacy \in Nat /\ c \in 1 .. NSecurity + NPrivacy
  BY ClaimNumbers
<1>2. CASE c <= NSecurity
  <2>1. agent_type(c) = Agents[1] /\ Place(c) = c /\ c \in 1 .. NSecurity
    BY <1>1, <1>2, AgentNames DEF agent_type, Place
  <2>2. graph[Agents[1]] = [i \in 1 .. NSecurity |-> i]
    BY AgentNames DEF GraphOf, ClaimsOf
  <2> QED
    BY <2>1, <2>2 DEF HasRow, ByPooledId
<1>3. CASE ~ (c <= NSecurity)
  <2>1. /\ agent_type(c) = Agents[2] /\ Place(c) = c - NSecurity
        /\ c - NSecurity \in 1 .. NPrivacy /\ NSecurity + (c - NSecurity) = c
    BY <1>1, <1>3, AgentNames DEF agent_type, Place
  <2>2. graph[Agents[2]] = [i \in 1 .. NPrivacy |-> NSecurity + i]
    BY AgentNames DEF GraphOf, ClaimsOf
  <2> QED
    BY <2>1, <2>2 DEF HasRow, ByPooledId
<1> QED
  BY <1>2, <1>3

\* The record looked up for a re-investigation's conflict is its own.
LEMMA OwnRecord ==
  ASSUME IInv, NEW k \in 1 .. Len(records)
  PROVE  RecordFor(conflicts[k].ids) = k
<1> DEFINE ids  == conflicts[k].ids
           same == {j \in DOMAIN records : ToSet(records[j].ids) = ToSet(ids)}
<1>1. /\ Len(records) \in Nat /\ DOMAIN records = 1 .. Len(records)
      /\ Len(records) <= Len(deterministic)
      /\ \A j \in 1 .. Len(records) : records[j].ids = deterministic[j]
  <2>1. Len(records) \in Nat /\ DOMAIN records = 1 .. Len(records)
    BY DEF IInv, TypeOK
  <2>2. /\ Len(records) <= Len(deterministic)
        /\ \A j \in 1 .. Len(records) : records[j].ids = deterministic[j]
    BY DEF IInv, Listed
  <2> QED
    BY <2>1, <2>2
<1>2. ids = records[k].ids
  <2>1. PICK st : conflicts[k] = [ids |-> records[k].ids, method |-> "reinvestigation",
                                  status |-> st]
    BY DEF IInv, Listed
  <2> QED
    BY <2>1
<1>3. \A j \in 1 .. Len(records) : j \in 1 .. Len(deterministic) /\ deterministic[j] \in Pairs
  BY <1>1, DeterministicIsAList, FoundIsFinite
<1>4. \A j \in 1 .. Len(records) : ToSet(records[j].ids) = ToSet(ids) => j = k
  <2> SUFFICES ASSUME NEW j \in 1 .. Len(records),
                      ToSet(deterministic[j]) = ToSet(deterministic[k])
               PROVE  j = k
    BY <1>1, <1>2
  <2>1. deterministic[j] = deterministic[k]
    BY <1>3, PairsBySet
  <2> QED
    BY <1>3, <2>1, DeterministicIsAList
<1>5. same = {k}
  BY <1>1, <1>2, <1>4
<1>6. Max({k}) = k
  BY DEF Max
<1> QED
  BY <1>5, <1>6 DEF RecordFor

LEMMA PersistConflictKeepsTxInv ==
  ASSUME IInv, TxInv, PersistConflict
  PROVE  TxInv'
<1>1. CASE LoseTransaction
  BY <1>1, LoseKeepsTxInv
<1>2. CASE ~ LoseTransaction
  <2> SUFFICES ASSUME NEW n, n = Len(rows) PROVE TxInv'
    OBVIOUS
  <2> DEFINE con == conflicts[n + 1]
             row == [findings |-> {ByPooledId(id) : id \in ToSet(con.ids)},
                     status |-> con.status,
                     record |-> IF con.method = "reinvestigation"
                                THEN RecordFor(con.ids) ELSE 0]
  <2>1. /\ Persisting /\ stage = "investigated" /\ n + 1 <= Len(conflicts)
        /\ Citable(con.ids) /\ rows' = Append(rows, row)
        /\ UNCHANGED << vars, stage, runs, graph, history >>
    BY <1>2 DEF PersistConflict
  <2>2. /\ stage = "investigated" /\ pc = "reconciled" /\ history = Ready /\ runs = 2
        /\ graph = GraphOf(2) /\ rows \in Seq(Row) /\ n \in Nat
        /\ \A k \in 1 .. n : RowIs(k)
    BY <2>1, StatusesSoFar DEF TxInv, Persisting
  <2>3. /\ con.status \in {"resolved", "open"} /\ Len(conflicts) \in Nat
        /\ Len(records) \in Nat
    <3>1. /\ conflicts \in Seq([ids : Seq(Claims \cup {Unknown}) \cup Pairs,
                               method : {"reinvestigation", "semantic_adjudication"},
                               status : {"resolved", "open"}])
          /\ Len(conflicts) \in Nat /\ Len(records) \in Nat
      BY DEF IInv, TypeOK
    <3>2. n + 1 \in 1 .. Len(conflicts)
      BY <2>1, <2>2, <3>1
    <3>3. con \in [ids : Seq(Claims \cup {Unknown}) \cup Pairs,
                  method : {"reinvestigation", "semantic_adjudication"},
                  status : {"resolved", "open"}]
      BY <3>1, <3>2, ElementOfSeq, Zenon
    <3> QED
      BY <3>1, <3>3
  <2>4. IsInjective(con.ids) /\ ToSet(con.ids) \subseteq Claims
    BY <2>1 DEF Citable, HasRow
  <2>5. row.findings = ToSet(con.ids)
    BY <2>2, <2>4, PooledIdsAreRight
  <2>6. row.record = IF n + 1 <= Len(records) THEN n + 1 ELSE 0
    <3>1. CASE n + 1 <= Len(records)
      <4>1. n + 1 \in 1 .. Len(records)
        BY <2>2, <2>3, <3>1
      <4>2. PICK st : con = [ids |-> records[n + 1].ids, method |-> "reinvestigation",
                             status |-> st]
        BY <4>1 DEF IInv, Listed
      <4> QED
        BY <3>1, <4>1, <4>2, OwnRecord
    <3>2. CASE ~ (n + 1 <= Len(records))
      <4>1. con.method = "semantic_adjudication"
        BY <2>1, <2>2, <2>3, <3>2 DEF IInv, Listed
      <4> QED
        BY <3>2, <4>1
    <3> QED
      BY <3>1, <3>2
  <2>7. row = [findings |-> ToSet(con.ids), status |-> con.status,
               record |-> IF n + 1 <= Len(records) THEN n + 1 ELSE 0]
    BY <2>5, <2>6
  <2>8. row \in Row
    BY <2>2, <2>3, <2>4, <2>7 DEF Row
  <2> HIDE DEF row
  <2>9. /\ rows' \in Seq(Row) /\ Len(rows') = n + 1 /\ rows'[n + 1] = row
        /\ \A k \in 1 .. n : rows'[k] = rows[k]
    BY <2>1, <2>2, <2>8
  <2>10. UNCHANGED << conflicts, records >> /\ pc' = "reconciled"
    BY <2>1, <2>2 DEF vars
  <2>11. \A k \in 1 .. n + 1 : RowIs(k)'
    <3>1. RowIs(n + 1)'
      BY <2>4, <2>7, <2>9, <2>10 DEF RowIs, Claims
    <3>2. \A k \in 1 .. n : RowIs(k)'
      BY <2>2, <2>9, <2>10, RowsStay
    <3> QED
      BY <2>2, <3>1, <3>2
  <2> QED
    BY <2>1, <2>2, <2>9, <2>10, <2>11 DEF TxInv, Ready, Start, GraphOf, Row
<1> QED
  BY <1>1, <1>2

LEMMA NextTxInv ==
  ASSUME IInv, IInv', TxInv, [PNext]_allVars
  PROVE  TxInv'
<1>1. CASE UNCHANGED allVars
  BY <1>1, RowsStay DEF allVars, vars, txVars, TxInv, End, Ready, Start, GraphOf, Row
<1> QED
  BY <1>1, ReconcileKeepsTxInv, PersistAgentKeepsTxInv, HopsKeepTxInv,
     PersistConflictKeepsTxInv, LoseKeepsTxInv DEF PNext


LEMMA StepsKeepBoth == ASSUME IInv, TxInv, [PNext]_allVars PROVE IInv' /\ TxInv'
<1>1. [Next]_vars
  BY DEF PNext, allVars, LoseTransaction, PersistAgentResult, CompleteInvestigations,
         PersistConflict, CommitCase
<1> QED
  BY <1>1, NextIInv, NextTxInv

LEMMA BothHold == PSpec => [](IInv /\ TxInv)
<1>1. PInit => IInv /\ TxInv
  BY InitIInv, InitTxInv DEF PInit
<1>2. IInv /\ TxInv /\ [PNext]_allVars => (IInv /\ TxInv)'
  BY StepsKeepBoth
<1> QED
  BY <1>1, <1>2, PTL DEF PSpec

-----------------------------------------------------------------------------
LEMMA GraphFromTxInv == IInv /\ TxInv => PersistedGraphIsExact
<1> SUFFICES ASSUME IInv, TxInv, stage = "committed"
             PROVE  /\ graph[Agents[1]] \o graph[Agents[2]] = [c \in Claims |-> c]
                    /\ Len(rows) = Len(conflicts)
                    /\ \A k \in DOMAIN rows :
                         /\ rows[k].findings = ToSet(conflicts[k].ids)
                         /\ rows[k].status = conflicts[k].status
  BY DEF PersistedGraphIsExact
<1> DEFINE s == [i \in 1 .. NSecurity |-> i]
           t == [i \in 1 .. NPrivacy |-> NSecurity + i]
           u == [c \in 1 .. NSecurity + NPrivacy |-> c]
<1>1. /\ graph = GraphOf(2) /\ rows \in Seq(Row) /\ Len(rows) = Len(conflicts)
      /\ \A k \in 1 .. Len(rows) : RowIs(k)
  BY DEF TxInv
<1>2. graph[Agents[1]] = s /\ graph[Agents[2]] = t
  BY <1>1, AgentNames DEF GraphOf, ClaimsOf
<1>3. s \o t = u
  <2>1. NSecurity \in Nat /\ NPrivacy \in Nat
    BY ClaimNumbers
  <2>2. /\ s \in Seq(Nat) /\ Len(s) = NSecurity /\ t \in Seq(Nat) /\ Len(t) = NPrivacy
        /\ u \in Seq(Nat) /\ Len(u) = NSecurity + NPrivacy
        /\ \A i \in 1 .. NSecurity : s[i] = i
        /\ \A i \in 1 .. NPrivacy : t[i] = NSecurity + i
        /\ \A i \in 1 .. NSecurity + NPrivacy : u[i] = i
    BY <2>1
  <2> HIDE DEF s, t, u
  <2>3. /\ s \o t \in Seq(Nat) /\ Len(s \o t) = Len(s) + Len(t)
        /\ \A i \in 1 .. Len(s) + Len(t) :
             (s \o t)[i] = IF i <= Len(s) THEN s[i] ELSE t[i - Len(s)]
    <3>1. s \in Seq(Nat) /\ t \in Seq(Nat)
      BY <2>2
    <3> QED
      BY <3>1, ConcatProperties, Zenon
  <2>4. ASSUME NEW i \in 1 .. NSecurity + NPrivacy PROVE (s \o t)[i] = u[i]
    <3>1. CASE i <= NSecurity
      BY <2>1, <2>2, <2>3, <3>1
    <3>2. CASE ~ (i <= NSecurity)
      <4>1. i - NSecurity \in 1 .. NPrivacy /\ NSecurity + (i - NSecurity) = i
        BY <2>1, <3>2
      <4> QED
        BY <2>2, <2>3, <3>2, <4>1
    <3> QED
      BY <3>1, <3>2
  <2> QED
    BY <2>2, <2>3, <2>4, SeqEqual
<1>4. DOMAIN rows = 1 .. Len(rows)
  BY <1>1
<1>5. \A k \in DOMAIN rows : /\ rows[k].findings = ToSet(conflicts[k].ids)
                             /\ rows[k].status = conflicts[k].status
  BY <1>1, <1>4 DEF RowIs
<1> QED
  BY <1>1, <1>2, <1>3, <1>5 DEF Claims

\* Row j holds record j, and the rows after the re-investigations' hold none.
LEMMA RecordOfRow ==
  ASSUME IInv, TxInv, stage = "committed"
  PROVE  /\ DOMAIN rows = 1 .. Len(conflicts) /\ DOMAIN records = 1 .. Len(records)
         /\ Len(records) \in Nat /\ Len(conflicts) \in Nat
         /\ Len(records) <= Len(conflicts)
         /\ \A k \in 1 .. Len(conflicts) :
              rows[k].record = IF k <= Len(records) THEN k ELSE 0
<1>1. /\ rows \in Seq(Row) /\ Len(rows) = Len(conflicts)
      /\ \A k \in 1 .. Len(rows) : RowIs(k)
  BY DEF TxInv
<1>2. DOMAIN rows = 1 .. Len(conflicts)
  BY <1>1
<1>3. /\ DOMAIN records = 1 .. Len(records) /\ Len(records) \in Nat /\ Len(conflicts) \in Nat
  BY DEF IInv, TypeOK
<1>4. Len(records) <= Len(conflicts)
  BY DEF IInv, Listed
<1>5. \A k \in 1 .. Len(conflicts) :
        rows[k].record = IF k <= Len(records) THEN k ELSE 0
  <2> SUFFICES ASSUME NEW k \in 1 .. Len(conflicts)
               PROVE  rows[k].record = IF k <= Len(records) THEN k ELSE 0
    OBVIOUS
  <2>1. PICK fs, st : rows[k] = [findings |-> fs, status |-> st,
                                 record |-> IF k <= Len(records) THEN k ELSE 0]
    BY <1>1 DEF RowIs
  <2> QED
    BY <2>1
<1> QED
  BY <1>2, <1>3, <1>4, <1>5

LEMMA StoredOnceFromTxInv == IInv /\ TxInv => EachReinvestigationStoredOnce
<1> SUFFICES ASSUME IInv, TxInv, stage = "committed", NEW j \in DOMAIN records
             PROVE  /\ Cardinality({k \in DOMAIN rows : rows[k].record = j}) = 1
                    /\ \A k \in {k \in DOMAIN rows : rows[k].record = j} :
                         rows[k].findings = ToSet(records[j].ids)
  BY DEF EachReinvestigationStoredOnce
<1>1. /\ j \in 1 .. Len(records) /\ j \in DOMAIN rows
      /\ {k \in DOMAIN rows : rows[k].record = j} = {j}
  BY RecordOfRow
<1>2. Cardinality({j}) = 1
  BY FS_Singleton
<1>3. rows[j].findings = ToSet(conflicts[j].ids)
  BY <1>1, GraphFromTxInv DEF PersistedGraphIsExact
<1>4. conflicts[j].ids = records[j].ids
  <2>1. PICK st : conflicts[j] = [ids |-> records[j].ids, method |-> "reinvestigation",
                                  status |-> st]
    BY <1>1 DEF IInv, Listed
  <2> QED
    BY <2>1
<1> QED
  BY <1>1, <1>2, <1>3, <1>4

LEMMA CitationsFromTxInv == IInv /\ TxInv => BadCitationLeavesNothing
<1> SUFFICES ASSUME IInv, TxInv, stage = "committed", NEW k \in DOMAIN conflicts
             PROVE  ~ (Cardinality(ToSet(conflicts[k].ids) \cap Claims) < Len(conflicts[k].ids))
  BY DEF BadCitationLeavesNothing
<1> DEFINE ids == conflicts[k].ids
<1>1. /\ conflicts \in Seq([ids : Seq(Claims \cup {Unknown}) \cup Pairs,
                            method : {"reinvestigation", "semantic_adjudication"},
                            status : {"resolved", "open"}])
      /\ DOMAIN conflicts = 1 .. Len(conflicts)
  BY DEF IInv, TypeOK
<1>2. conflicts[k] \in [ids : Seq(Claims \cup {Unknown}) \cup Pairs,
                        method : {"reinvestigation", "semantic_adjudication"},
                        status : {"resolved", "open"}]
  BY <1>1, ElementOfSeq, Zenon
<1>3. ids \in Seq(Claims \cup {Unknown}) \cup Pairs
  BY <1>2
<1>4. IsInjective(ids) /\ ToSet(ids) \subseteq Claims
  BY <1>1 DEF TxInv, RowIs
<1> HIDE DEF ids
<1>5. Len(ids) \in Nat /\ DOMAIN ids = 1 .. Len(ids) /\ ids \in [1 .. Len(ids) -> ToSet(ids)]
  <2>1. Len(ids) \in Nat /\ DOMAIN ids = 1 .. Len(ids)
    BY <1>3, PairShape
  <2>2. ids = [i \in DOMAIN ids |-> ids[i]]
    BY <1>3, PairShape
  <2> QED
    BY <2>1, <2>2 DEF ToSet
<1>6. ids \in Bijection(1 .. Len(ids), ToSet(ids))
  BY <1>4, <1>5 DEF Bijection, Injection, Surjection, ToSet
<1>7. Cardinality(ToSet(ids)) = Len(ids)
  BY <1>5, <1>6, FS_Interval, FS_Bijection DEF ExistsBijection
<1>8. ToSet(ids) \cap Claims = ToSet(ids)
  BY <1>4
<1>9. Cardinality(ToSet(ids) \cap Claims) = Len(ids)
  BY <1>7, <1>8, Zenon
<1>10. ~ (Len(ids) < Len(ids))
  BY <1>5
<1> QED
  BY <1>9, <1>10, Zenon DEF ids

\* The hops seed_case makes are edges of the lifecycle.
LEMMA Edges ==
  /\ "VALIDATING" \in Lifecycle!TRANSITIONS["INTAKE"]
  /\ "DOCUMENTS_READY" \in Lifecycle!TRANSITIONS["VALIDATING"]
  /\ "CLASSIFYING" \in Lifecycle!TRANSITIONS["DOCUMENTS_READY"]
  /\ "INVESTIGATING" \in Lifecycle!TRANSITIONS["CLASSIFYING"]
  /\ "INVESTIGATIONS_COMPLETE" \in Lifecycle!TRANSITIONS["INVESTIGATING"]
  /\ "RECONCILING" \in Lifecycle!TRANSITIONS["INVESTIGATIONS_COMPLETE"]
  /\ "REINVESTIGATING" \in Lifecycle!TRANSITIONS["RECONCILING"]
  /\ "RECONCILING_POST_REINVESTIGATION" \in Lifecycle!TRANSITIONS["REINVESTIGATING"]
  /\ "SYNTHESIZING" \in Lifecycle!TRANSITIONS["RECONCILING"]
  /\ "SYNTHESIZING" \in Lifecycle!TRANSITIONS["RECONCILING_POST_REINVESTIGATION"]
  /\ "AWAITING_HUMAN_REVIEW" \in Lifecycle!TRANSITIONS["SYNTHESIZING"]
  BY DEF Lifecycle!TRANSITIONS

LEMMA EndIsAPath ==
  ASSUME Len(records) \in Nat, DOMAIN records = 1 .. Len(records)
  PROVE  /\ Lifecycle!IsCasePath(End) /\ Last(End) = "AWAITING_HUMAN_REVIEW"
         /\ Contains(End, "REINVESTIGATING") <=> records # << >>
<1> DEFINE mid == Ready \o << "REINVESTIGATING", "RECONCILING_POST_REINVESTIGATION" >>
<1>1. /\ Ready[1] = "INTAKE" /\ Ready[2] = "VALIDATING" /\ Ready[3] = "DOCUMENTS_READY"
      /\ Ready[4] = "CLASSIFYING" /\ Ready[5] = "INVESTIGATING"
      /\ Ready[6] = "INVESTIGATIONS_COMPLETE" /\ Ready[7] = "RECONCILING"
      /\ Ready \in Seq(Statuses) /\ Len(Ready) = 7
  BY StatusesSoFar DEF Start
<1>2. /\ "REINVESTIGATING" \in Statuses /\ "RECONCILING_POST_REINVESTIGATION" \in Statuses
      /\ "SYNTHESIZING" \in Statuses /\ "AWAITING_HUMAN_REVIEW" \in Statuses
  BY DEF Statuses
<1>3. CASE records = << >>
  <2>1. End = Ready \o << "SYNTHESIZING", "AWAITING_HUMAN_REVIEW" >>
    BY <1>1, <1>3, ConcatEmptySeq DEF End
  <2>2. /\ Len(End) = 9 /\ Last(End) = "AWAITING_HUMAN_REVIEW" /\ End \in Seq(Statuses)
        /\ \A i \in 1 .. 7 : End[i] = Ready[i]
        /\ End[8] = "SYNTHESIZING" /\ End[9] = "AWAITING_HUMAN_REVIEW"
    <3>1. /\ Len(End) = Len(Ready) + 2 /\ Last(End) = "AWAITING_HUMAN_REVIEW"
          /\ End \in Seq(Statuses) /\ \A i \in 1 .. Len(Ready) : End[i] = Ready[i]
          /\ End[Len(Ready) + 1] = "SYNTHESIZING"
          /\ End[Len(Ready) + 2] = "AWAITING_HUMAN_REVIEW"
      <4>1. /\ Ready \in Seq(Statuses) /\ "SYNTHESIZING" \in Statuses
            /\ "AWAITING_HUMAN_REVIEW" \in Statuses
        BY <1>1, <1>2
      <4> QED
        BY <2>1, <4>1, TwoHops
    <3> QED
      BY <1>1, <3>1
  <2>3. ~ Contains(End, "REINVESTIGATING")
    BY <1>1, <2>2 DEF Contains
  <2>4. Lifecycle!IsCasePath(End)
    <3>1. End[1] = "INTAKE" /\ End # << >>
      <4>1. 1 \in 1 .. 7 /\ End[1] = Ready[1]
        BY <2>2
      <4>2. Len(End) # 0
        BY <2>2
      <4>3. End # << >>
        BY <4>2
      <4> QED
        BY <1>1, <4>1, <4>3
    <3>2. ASSUME NEW i \in 1 .. 8 PROVE End[i + 1] \in Lifecycle!TRANSITIONS[End[i]]
      <4>1. i = 1 \/ i = 2 \/ i = 3 \/ i = 4 \/ i = 5 \/ i = 6 \/ i = 7 \/ i = 8
        OBVIOUS
      <4> QED
        BY <1>1, <2>2, <4>1, Edges
    <3> QED
      BY <2>2, <3>1, <3>2 DEF Lifecycle!IsCasePath
  <2> QED
    BY <1>3, <2>2, <2>3, <2>4
<1>4. CASE records # << >>
  <2>1. End = mid \o << "SYNTHESIZING", "AWAITING_HUMAN_REVIEW" >>
    BY <1>4 DEF End
  <2>2. /\ mid \in Seq(Statuses) /\ Len(mid) = 9 /\ \A i \in 1 .. 7 : mid[i] = Ready[i]
        /\ mid[8] = "REINVESTIGATING" /\ mid[9] = "RECONCILING_POST_REINVESTIGATION"
    <3>1. /\ mid \in Seq(Statuses) /\ Len(mid) = Len(Ready) + 2
          /\ \A i \in 1 .. Len(Ready) : mid[i] = Ready[i]
          /\ mid[Len(Ready) + 1] = "REINVESTIGATING"
          /\ mid[Len(Ready) + 2] = "RECONCILING_POST_REINVESTIGATION"
      <4>1. /\ Ready \in Seq(Statuses) /\ "REINVESTIGATING" \in Statuses
            /\ "RECONCILING_POST_REINVESTIGATION" \in Statuses
        BY <1>1, <1>2
      <4> QED
        BY <4>1, TwoHops
    <3> QED
      BY <1>1, <3>1
  <2> HIDE DEF mid
  <2>3. /\ Len(End) = 11 /\ Last(End) = "AWAITING_HUMAN_REVIEW" /\ End \in Seq(Statuses)
        /\ \A i \in 1 .. 9 : End[i] = mid[i]
        /\ End[10] = "SYNTHESIZING" /\ End[11] = "AWAITING_HUMAN_REVIEW"
    <3>1. /\ Len(End) = Len(mid) + 2 /\ Last(End) = "AWAITING_HUMAN_REVIEW"
          /\ End \in Seq(Statuses) /\ \A i \in 1 .. Len(mid) : End[i] = mid[i]
          /\ End[Len(mid) + 1] = "SYNTHESIZING"
          /\ End[Len(mid) + 2] = "AWAITING_HUMAN_REVIEW"
      <4>1. /\ mid \in Seq(Statuses) /\ "SYNTHESIZING" \in Statuses
            /\ "AWAITING_HUMAN_REVIEW" \in Statuses
        BY <1>2, <2>2
      <4> QED
        BY <2>1, <4>1, TwoHops
    <3> QED
      BY <2>2, <3>1
  <2>4. Contains(End, "REINVESTIGATING")
    BY <2>2, <2>3 DEF Contains
  <2>5. Lifecycle!IsCasePath(End)
    <3>1. End[1] = "INTAKE" /\ End # << >>
      <4>1. 1 \in 1 .. 7 /\ 1 \in 1 .. 9 /\ End[1] = mid[1] /\ mid[1] = Ready[1]
        BY <2>2, <2>3
      <4>2. Len(End) # 0
        BY <2>3
      <4>3. End # << >>
        BY <4>2
      <4> QED
        BY <1>1, <4>1, <4>3
    <3>2. ASSUME NEW i \in 1 .. 10 PROVE End[i + 1] \in Lifecycle!TRANSITIONS[End[i]]
      <4>1. CASE i \in 1 .. 6
        <5>1. i = 1 \/ i = 2 \/ i = 3 \/ i = 4 \/ i = 5 \/ i = 6
          BY <4>1
        <5> QED
          BY <1>1, <2>2, <2>3, <5>1, Edges
      <4>2. CASE i \in 7 .. 10
        <5>1. i = 7 \/ i = 8 \/ i = 9 \/ i = 10
          BY <4>2
        <5> QED
          BY <1>1, <2>2, <2>3, <5>1, Edges
      <4> QED
        BY <4>1, <4>2
    <3> QED
      BY <2>3, <3>1, <3>2 DEF Lifecycle!IsCasePath
  <2> QED
    BY <1>4, <2>3, <2>4, <2>5
<1> QED
  BY <1>3, <1>4

LEMMA HistoryFromTxInv == IInv /\ TxInv => HistoryTellsTheCase
<1> SUFFICES ASSUME IInv, TxInv, stage = "committed"
             PROVE  /\ Lifecycle!IsCasePath(history)
                    /\ Last(history) = "AWAITING_HUMAN_REVIEW"
                    /\ Contains(history, "REINVESTIGATING")
                         <=> \E k \in DOMAIN rows : rows[k].record # 0
  BY DEF HistoryTellsTheCase
<1>1. history = End
  BY DEF TxInv
<1>2. /\ Len(records) \in Nat /\ DOMAIN records = 1 .. Len(records)
      /\ Lifecycle!IsCasePath(End) /\ Last(End) = "AWAITING_HUMAN_REVIEW"
      /\ Contains(End, "REINVESTIGATING") <=> records # << >>
  BY EndIsAPath, RecordOfRow
<1>3. records # << >> <=> Len(records) > 0
  BY DEF IInv, TypeOK
<1>4. (\E k \in DOMAIN rows : rows[k].record # 0) <=> Len(records) > 0
  <2>1. ASSUME Len(records) > 0 PROVE 1 \in DOMAIN rows /\ rows[1].record # 0
    BY <2>1, RecordOfRow
  <2>2. ASSUME NEW k \in DOMAIN rows, rows[k].record # 0 PROVE Len(records) > 0
    BY <2>2, RecordOfRow
  <2> QED
    BY <2>1, <2>2
<1> QED
  BY <1>1, <1>2, <1>3, <1>4

-----------------------------------------------------------------------------
\* Persisting is done around reconcile() and never reaches into it: seen from
\* reconcile(), seed_case's transaction takes reconcile()'s steps, or none.
THEOREM PersistingImplementsReconciliation == PSpec => Spec
<1>1. [PNext]_allVars => [Next]_vars
  BY DEF PNext, allVars, LoseTransaction, PersistAgentResult, CompleteInvestigations,
         PersistConflict, CommitCase
<1> QED
  BY <1>1, PTL DEF PSpec, Spec, PInit

\* What every variable of reconcile() may hold, to the end of the transaction.
THEOREM TypesHold == PSpec => []TypeOK
  BY BothHold, PTL DEF IInv

\* Every label can be traced to the last conflict that settled it, for any
\* number of claims, conflicts that overlap in any way, and any answers.
THEOREM LabelsAreTraceable == PSpec => []StatusIsLastVerdict
  BY BothHold, PTL DEF IInv

\* Every disagreement inside a domain is re-investigated once, and no other pair.
THEOREM EachDisagreementOnce == PSpec => []EveryDisagreementOnce
<1>1. IInv => EveryDisagreementOnce
  BY DisagreementsOnce
<1> QED
  BY <1>1, BothHold, PTL

\* What is committed is what was said, claim by claim and conflict by conflict.
THEOREM GraphIsExact == PSpec => []PersistedGraphIsExact
  BY BothHold, GraphFromTxInv, PTL

\* Each re-investigation is stored once, with its own conflict.
THEOREM StoredOnce == PSpec => []EachReinvestigationStoredOnce
  BY BothHold, StoredOnceFromTxInv, PTL

\* A case with a conflict that cites no claim, or one twice, never commits.
THEOREM NothingBadCommits == PSpec => []BadCitationLeavesNothing
  BY BothHold, CitationsFromTxInv, PTL

\* The history of a committed case follows the lifecycle to the review, through
\* REINVESTIGATING exactly when a conflict was re-investigated.
THEOREM HistoryIsTrue == PSpec => []HistoryTellsTheCase
  BY BothHold, HistoryFromTxInv, PTL

=============================================================================

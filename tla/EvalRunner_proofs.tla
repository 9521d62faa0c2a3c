-------------------------- MODULE EvalRunner_proofs --------------------------
(***************************************************************************)
(* Proofs about EvalRunner for any runs, costs and budget.                 *)
(*                                                                         *)
(* RowsAreExact is about the rows that are finished.  A row gets its cost  *)
(* from tokens, and billed changes while the case is under way, so the     *)
(* invariant also says that tokens is the bill of the current case unless  *)
(* one of its calls failed (CaseInHand), and that the cases to come have   *)
(* cost nothing yet (NothingBilledAhead).  The budget is kept by what a    *)
(* case under way may still add (Spending): a call costs at most MaxCost,  *)
(* and the budget was not yet spent when the case began.                   *)
(***************************************************************************)
EXTENDS EvalRunner, FiniteSetTheorems, SequenceTheorems, TLAPS

CaseInHand ==
  pc = "calling" => /\ case \in Cases /\ call <= Calls[case]
                    /\ ~ error => tokens = billed[case]

NothingBilledAhead ==
  \A c \in Cases :
    c > case \/ (c = case /\ pc \in {"start", "loop", "reporting", "done"}) =>
      billed[c] = 0 /\ lost[c] = 0

IInv ==
  /\ TypeOK
  /\ Len(results) = case - 1
  /\ CaseInHand
  /\ NothingBilledAhead
  /\ RowsAreExact

-----------------------------------------------------------------------------
LEMMA RunnerTypes ==
  ASSUME TypeOK
  PROVE  Calls \in Seq(Nat) /\ Len(Calls) \in Nat /\ Cases \subseteq Nat
<1>1. Calls \in Seq(Nat)
  BY EvalAssumption DEF TypeOK, Calls
<1> QED
  BY <1>1 DEF Cases

LEMMA InitIInv == Init => IInv
<1> SUFFICES ASSUME Init PROVE IInv
  OBVIOUS
<1>1. Calls \in Seq(Nat) /\ Len(Calls) \in Nat /\ Cases \subseteq Nat
  BY EvalAssumption DEF Init, Calls, Cases
<1>2. TypeOK
  <2>1. << >> \in Seq([case : Cases, cost : Nat, valid : BOOLEAN])
    OBVIOUS
  <2>2. /\ case \in 1 .. Len(Calls) + 1 /\ cumulative \in Nat
        /\ billed \in [Cases -> Nat] /\ lost \in [Cases -> Nat]
    BY <1>1, EvalAssumption DEF Init
  <2> QED
    BY <2>1, <2>2 DEF Init, TypeOK
<1>3. CaseInHand /\ NothingBilledAhead
  BY DEF Init, CaseInHand, NothingBilledAhead
<1>4. Len(results) = case - 1 /\ RowsAreExact
  BY DEF Init, RowsAreExact
<1> QED
  BY <1>2, <1>3, <1>4 DEF IInv

\* A step that only moves on between cases.
LEMMA MoveKeepsIInv ==
  ASSUME IInv, UNCHANGED << runner, case, error, cumulative, results, bills >>,
         file' \in {file, results},
         pc' \in {"loop", "reporting", "done", "refused", "crashed"},
         pc' = "loop" => pc = "start",
         pc' \in {"reporting", "done"} => pc \in {"loop", "reporting"},
         call' = call, tokens' = tokens
  PROVE  IInv'
<1>1. TypeOK' /\ Len(results)' = case' - 1
  BY DEF IInv, TypeOK, Calls, Cases, bills
<1>2. CaseInHand'
  BY DEF CaseInHand
<1>3. NothingBilledAhead'
  BY DEF IInv, NothingBilledAhead, Cases, Calls, bills
<1>4. RowsAreExact'
  BY DEF IInv, RowsAreExact, bills
<1> QED
  BY <1>1, <1>2, <1>3, <1>4 DEF IInv

LEMMA StartKeepsIInv == ASSUME IInv, StartCase PROVE IInv'
<1>1. Calls \in Seq(Nat) /\ Len(Calls) \in Nat /\ Cases \subseteq Nat
  BY RunnerTypes DEF IInv
<1>2. TypeOK' /\ Len(results)' = case' - 1
  BY DEF IInv, TypeOK, StartCase, Calls, Cases, bills
<1>3. CaseInHand'
  <2>1. case \in Cases /\ Calls[case] \in Nat /\ billed[case] = 0
    BY <1>1 DEF IInv, StartCase, NothingBilledAhead, Cases
  <2>2. call' = 0 /\ tokens' = 0 /\ UNCHANGED << case, Calls, Cases, billed >>
    BY DEF StartCase, Calls, Cases, bills
  <2> QED
    BY <2>1, <2>2 DEF CaseInHand
<1>4. NothingBilledAhead' /\ RowsAreExact'
  BY DEF IInv, StartCase, NothingBilledAhead, RowsAreExact, Cases, Calls, bills
<1> QED
  BY <1>2, <1>3, <1>4 DEF IInv

\* A call, whatever its outcome, is billed to the current case.
LEMMA CallKeepsIInv ==
  ASSUME IInv, pc = "calling", NEW cost \in Nat, Bill(cost),
         UNCHANGED << runner, case, cumulative, results, file >>,
         pc' \in {"calling", "crashed"},
         call' \in Nat, tokens' \in Nat, error' \in BOOLEAN,
         pc' = "calling" => /\ call' <= Calls[case]
                            /\ ~ error' => ~ error /\ tokens' = tokens + cost
  PROVE  IInv'
<1>1. Calls \in Seq(Nat) /\ Len(Calls) \in Nat /\ Cases \subseteq Nat /\ case \in Cases
  BY RunnerTypes DEF IInv, CaseInHand
<1>2. /\ billed' \in [Cases -> Nat] /\ billed'[case] = billed[case] + cost
      /\ lost' \in [Cases -> Nat]
      /\ \A c \in Cases \ {case} : billed'[c] = billed[c] /\ lost'[c] = lost[c]
  <2>1. PICK units \in 0 .. MaxLost : lost' = [lost EXCEPT ![case] = @ + units]
    BY DEF Bill
  <2>2. units \in Nat
    BY EvalAssumption
  <2>3. billed \in [Cases -> Nat] /\ lost \in [Cases -> Nat]
    BY DEF IInv, TypeOK
  <2>4. billed' = [billed EXCEPT ![case] = @ + cost]
    BY DEF Bill
  <2> HIDE DEF Cases
  <2> QED
    BY <1>1, <2>1, <2>2, <2>3, <2>4
<1>3. TypeOK' /\ Len(results)' = case' - 1
  BY <1>2 DEF IInv, TypeOK, Calls, Cases
<1>4. CaseInHand'
  BY <1>1, <1>2 DEF IInv, TypeOK, CaseInHand, Calls, Cases
<1>5. NothingBilledAhead'
  BY <1>1, <1>2 DEF IInv, TypeOK, NothingBilledAhead, Calls, Cases
<1>6. RowsAreExact'
  <2>1. DOMAIN results = 1 .. case - 1
    BY <1>1 DEF IInv, TypeOK
  <2>2. \A i \in 1 .. case - 1 : i \in Cases \ {case}
    BY <1>1 DEF Cases
  <2> QED
    BY <1>2, <2>1, <2>2 DEF IInv, RowsAreExact
<1> QED
  BY <1>3, <1>4, <1>5, <1>6 DEF IInv

LEMMA FinishKeepsIInv == ASSUME IInv, FinishCase PROVE IInv'
<1>1. Calls \in Seq(Nat) /\ Len(Calls) \in Nat /\ Cases \subseteq Nat /\ case \in Cases
  BY RunnerTypes DEF IInv, CaseInHand, FinishCase
<1>2. Row \in [case : Cases, cost : Nat, valid : BOOLEAN]
  BY <1>1 DEF IInv, TypeOK, Row
<1>3. /\ Len(results') = Len(results) + 1
      /\ DOMAIN results' = DOMAIN results \cup {case}
      /\ \A i \in DOMAIN results : results'[i] = results[i] /\ i # case
      /\ results'[case] = Row
      /\ results' \in Seq([case : Cases, cost : Nat, valid : BOOLEAN])
  <2> DEFINE R == [case : Cases, cost : Nat, valid : BOOLEAN]
  <2>1. results \in Seq(R) /\ Row \in R /\ results' = Append(results, Row)
    BY <1>2 DEF IInv, TypeOK, FinishCase
  <2>2. Len(results) = case - 1 /\ case \in Nat
    BY <1>1 DEF IInv
  <2> HIDE DEF R
  <2>3. /\ results' \in Seq(R) /\ Len(results') = Len(results) + 1
        /\ results'[Len(results) + 1] = Row
        /\ \A i \in 1 .. Len(results) : results'[i] = results[i]
    BY <2>1
  <2>4. DOMAIN results = 1 .. Len(results) /\ DOMAIN results' = 1 .. Len(results')
        /\ Len(results) \in Nat
    BY <2>1, <2>3
  <2> QED
    BY <2>2, <2>3, <2>4 DEF R
<1>4. TypeOK' /\ Len(results)' = case' - 1
  <2>1. Row.cost \in Nat
    BY <1>2
  <2>2. case' \in 1 .. Len(Calls) + 1 /\ Len(results') = case' - 1 /\ cumulative' \in Nat
    <3>1. case' = case + 1 /\ cumulative' = cumulative + Row.cost /\ cumulative \in Nat
      BY DEF IInv, TypeOK, FinishCase
    <3>2. Len(results) = case - 1 /\ case \in 1 .. Len(Calls)
      BY <1>1 DEF IInv, Cases
    <3>3. Len(results') = Len(results) + 1
      BY <1>3
    <3>4. cumulative' \in Nat /\ Len(Calls) \in Nat
      BY <1>1, <2>1, <3>1
    <3> QED
      BY <3>1, <3>2, <3>3, <3>4
  <2>3. UNCHANGED << runner, Calls, Cases >>
    BY DEF FinishCase, Calls, Cases
  <2> QED
    BY <1>3, <2>2, <2>3 DEF IInv, TypeOK, FinishCase, bills
<1>5. CaseInHand'
  BY DEF FinishCase, CaseInHand
<1>6. NothingBilledAhead'
  BY <1>1 DEF IInv, TypeOK, FinishCase, NothingBilledAhead, Calls, Cases, bills
<1>7. RowsAreExact'
  <2>1. /\ Row.case = case
        /\ Row.valid => Row.cost = billed[case]
        /\ ~ Row.valid => Row.cost = 0
    BY DEF IInv, FinishCase, CaseInHand, Row
  <2> QED
    BY <1>3, <2>1 DEF IInv, RowsAreExact, FinishCase, bills
<1> QED
  BY <1>4, <1>5, <1>6, <1>7 DEF IInv

LEMMA NextIInv == ASSUME IInv, [Next]_vars PROVE IInv'
<1>1. CASE Begin
  BY <1>1, MoveKeepsIInv DEF Begin
<1>2. CASE StartCase
  BY <1>2, StartKeepsIInv
<1>3. CASE LeaveLoop
  BY <1>3, MoveKeepsIInv DEF LeaveLoop
<1>4. CASE FinishCase
  BY <1>4, FinishKeepsIInv
<1>5. CASE Report
  BY <1>5, MoveKeepsIInv DEF Report
<1>6. ASSUME NEW cost \in 0 .. MaxCost, CallSucceeds(cost) \/ CallFails(cost) \/ CallBreaks(cost)
      PROVE  IInv'
  <2>1. /\ cost \in Nat /\ pc = "calling"
        /\ UNCHANGED << runner, case, cumulative, results, file >>
    BY <1>6, EvalAssumption DEF CallSucceeds, CallFails, CallBreaks, Calling
  <2>2. call \in Nat /\ tokens \in Nat /\ error \in BOOLEAN /\ Calls[case] \in Nat
    BY <2>1, RunnerTypes DEF IInv, TypeOK, CaseInHand, Cases
  <2>3. CASE CallSucceeds(cost)
    <3>1. /\ pc' = "calling" /\ call' = call + 1 /\ call < Calls[case] /\ Bill(cost)
          /\ tokens' = tokens + cost /\ error' = error
      BY <2>1, <2>3 DEF CallSucceeds, Calling
    <3>2. call' \in Nat /\ call' <= Calls[case] /\ tokens' \in Nat
      BY <2>1, <2>2, <3>1
    <3>3. pc' = "calling" => /\ call' <= Calls[case]
                             /\ ~ error' => ~ error /\ tokens' = tokens + cost
      BY <3>1, <3>2
    <3>4. error' \in BOOLEAN /\ pc' \in {"calling", "crashed"}
      BY <2>2, <3>1
    <3> QED
      BY <2>1, <3>1, <3>2, <3>3, <3>4, CallKeepsIInv, Zenon
  <2>4. CASE CallFails(cost)
    <3>1. tokens' = tokens /\ call < Calls[case] /\ Bill(cost)
      BY <2>4 DEF CallFails, Calling
    <3>2. \/ pc' = "calling" /\ error' = TRUE /\ call' = call + 1
          \/ pc' = "crashed" /\ error' = error /\ call' = call
      BY <2>1, <2>4 DEF CallFails
    <3>3. call' \in Nat /\ tokens' \in Nat
      BY <2>2, <3>1, <3>2
    <3>4. error' \in BOOLEAN
      BY <2>2, <3>2, Zenon
    <3>5. pc' = "calling" => error' = TRUE /\ call' <= Calls[case]
      BY <2>2, <3>1, <3>2
    <3>6. pc' \in {"calling", "crashed"}
      BY <3>2
    <3> QED
      BY <2>1, <3>1, <3>3, <3>4, <3>5, <3>6, CallKeepsIInv, Zenon
  <2>5. CASE CallBreaks(cost)
    <3>1. CASE Bill(cost)
      BY <2>1, <2>2, <2>5, <3>1, CallKeepsIInv DEF CallBreaks
    <3>2. CASE UNCHANGED bills
      BY <2>5, <3>2, MoveKeepsIInv DEF CallBreaks
    <3> QED
      BY <2>5, <3>1, <3>2 DEF CallBreaks
  <2> QED
    BY <1>6, <2>3, <2>4, <2>5
<1>7. CASE UNCHANGED vars
  BY <1>7 DEF vars, bills, IInv, TypeOK, CaseInHand, NothingBilledAhead, RowsAreExact,
     Calls, Cases
<1> QED
  BY <1>1, <1>2, <1>3, <1>4, <1>5, <1>6, <1>7, EvalAssumption DEF Next

-----------------------------------------------------------------------------
UnitSet(cost) == UNION {{i} \X (1 .. cost[i]) : i \in DOMAIN cost}
Costs(rows)   == [i \in DOMAIN rows |-> rows[i].cost]

LEMMA UnitsOfOne ==
  ASSUME NEW i, NEW c \in Nat
  PROVE  IsFiniteSet({i} \X (1 .. c)) /\ Cardinality({i} \X (1 .. c)) = c
<1>1. IsFiniteSet(1 .. c) /\ Cardinality(1 .. c) = c
  BY FS_Interval
<1>2. IsFiniteSet({i}) /\ Cardinality({i}) = 1
  BY FS_Singleton
<1>3. IsFiniteSet({i} \X (1 .. c)) /\ Cardinality({i} \X (1 .. c)) = 1 * c
  <2> DEFINE one == {i}
             units == 1 .. c
  <2>1. /\ IsFiniteSet(one) /\ Cardinality(one) = 1
        /\ IsFiniteSet(units) /\ Cardinality(units) = c
    BY <1>1, <1>2
  <2> HIDE DEF one, units
  <2>2. IsFiniteSet(one \X units) /\ Cardinality(one \X units) = 1 * c
    BY <2>1, FS_Product
  <2> QED
    BY <2>2 DEF one, units
<1> QED
  BY <1>3

LEMMA UnitsAreFinite ==
  ASSUME NEW n \in Nat, NEW cost \in [1 .. n -> Nat]
  PROVE  IsFiniteSet(UnitSet(cost)) /\ Units(cost) = Cardinality(UnitSet(cost))
<1> DEFINE family == {{i} \X (1 .. cost[i]) : i \in 1 .. n}
           f == [i \in 1 .. n |-> {i} \X (1 .. cost[i])]
<1>1. f \in Surjection(1 .. n, family)
  BY DEF Surjection
<1>2. IsFiniteSet(1 .. n)
  BY FS_Interval
<1>3. IsFiniteSet(family)
  <2> HIDE DEF f, family
  <2> QED
    BY <1>1, <1>2, FS_Surjection
<1>4. \A i \in 1 .. n : IsFiniteSet({i} \X (1 .. cost[i]))
  BY UnitsOfOne
<1>5. IsFiniteSet(UNION family)
  BY <1>3, <1>4, FS_UNION
<1>6. UnitSet(cost) = UNION family
  BY DEF UnitSet
<1> QED
  BY <1>5, <1>6 DEF Units, UnitSet

\* Costs that are no higher add up to no more.
LEMMA UnitsGrow ==
  ASSUME NEW m \in Nat, NEW n \in Nat, m <= n,
         NEW few \in [1 .. m -> Nat], NEW cost \in [1 .. n -> Nat],
         \A i \in 1 .. m : few[i] <= cost[i]
  PROVE  /\ Units(few) \in Nat /\ Units(cost) \in Nat
         /\ Units(few) <= Units(cost)
<1>1. /\ IsFiniteSet(UnitSet(few)) /\ Units(few) = Cardinality(UnitSet(few))
      /\ IsFiniteSet(UnitSet(cost)) /\ Units(cost) = Cardinality(UnitSet(cost))
  BY UnitsAreFinite
<1>2. UnitSet(few) \subseteq UnitSet(cost)
  <2> SUFFICES ASSUME NEW i \in 1 .. m, NEW u \in 1 .. few[i]
               PROVE  << i, u >> \in UnitSet(cost)
    BY DEF UnitSet
  <2>1. i \in 1 .. n /\ u \in 1 .. cost[i]
    OBVIOUS
  <2> QED
    BY <2>1 DEF UnitSet
<1> QED
  BY <1>1, <1>2, FS_Subset, FS_CardinalityType

\* One more cost adds its units.
LEMMA OneMoreCost ==
  ASSUME NEW n \in Nat, NEW few \in [1 .. n -> Nat], NEW cost \in [1 .. n + 1 -> Nat],
         \A i \in 1 .. n : cost[i] = few[i]
  PROVE  /\ Units(few) \in Nat
         /\ Units(cost) = Units(few) + cost[n + 1]
<1> DEFINE c   == cost[n + 1]
           new == {n + 1} \X (1 .. c)
<1>1. /\ IsFiniteSet(UnitSet(few)) /\ Units(few) = Cardinality(UnitSet(few))
      /\ Units(few) \in Nat
  BY UnitsAreFinite, FS_CardinalityType
<1>2. n + 1 \in Nat
  OBVIOUS
<1>3. Units(cost) = Cardinality(UnitSet(cost))
  BY <1>2, UnitsAreFinite
<1>4. UnitSet(cost) = UnitSet(few) \cup new
  <2>1. 1 .. n + 1 = (1 .. n) \cup {n + 1}
    OBVIOUS
  <2>2. DOMAIN cost = (1 .. n) \cup {n + 1} /\ DOMAIN few = 1 .. n
    BY <2>1
  <2>3. \A i \in 1 .. n : {i} \X (1 .. cost[i]) = {i} \X (1 .. few[i])
    OBVIOUS
  <2> HIDE DEF c
  <2>4. ASSUME NEW x PROVE x \in UnitSet(cost) <=> x \in UnitSet(few) \cup new
    <3>1. x \in UnitSet(cost) <=> \E i \in (1 .. n) \cup {n + 1} : x \in {i} \X (1 .. cost[i])
      BY <2>2 DEF UnitSet
    <3>2. x \in UnitSet(few) <=> \E i \in 1 .. n : x \in {i} \X (1 .. few[i])
      BY <2>2 DEF UnitSet
    <3>3. new = {n + 1} \X (1 .. cost[n + 1])
      BY DEF c
    <3> QED
      BY <2>3, <3>1, <3>2, <3>3, Zenon
  <2> QED
    BY <2>4
<1>5. UnitSet(few) \cap new = {}
  <2>1. ASSUME NEW x \in UnitSet(few) PROVE x[1] \in 1 .. n
    BY <2>1 DEF UnitSet
  <2>2. ASSUME NEW x \in new PROVE x[1] = n + 1
    BY <2>2
  <2> QED
    BY <2>1, <2>2
<1>6. c \in Nat /\ IsFiniteSet(new) /\ Cardinality(new) = c
  <2>1. c \in Nat
    OBVIOUS
  <2> HIDE DEF c
  <2> QED
    BY <2>1, UnitsOfOne
<1> HIDE DEF new
<1>7. Cardinality({}) = 0
  BY FS_EmptySet
<1>8. Cardinality(UnitSet(few) \cup new) = Cardinality(UnitSet(few)) + c
  <2> HIDE DEF c
  <2>1. Cardinality(UnitSet(few) \cup new) =
          Cardinality(UnitSet(few)) + Cardinality(new) - Cardinality(UnitSet(few) \cap new)
    BY <1>1, <1>6, FS_Union
  <2>2. Cardinality(UnitSet(few) \cap new) = 0
    BY <1>5, <1>7
  <2>3. Cardinality(UnitSet(few)) \in Nat
    BY <1>1
  <2> QED
    BY <1>6, <2>1, <2>2, <2>3
<1> QED
  BY <1>1, <1>3, <1>4, <1>8

-----------------------------------------------------------------------------
\* What is spent, what the case under way may add, and why the loop was left.
Spending ==
  /\ cumulative = PRIOR_SPEND + Total(results)
  /\ pc = "calling" => cumulative < BUDGET_TOTAL /\ tokens <= call * MaxCost
  /\ results # << >> => cumulative < BUDGET_TOTAL + Calls[Len(results)] * MaxCost
  /\ pc \in {"reporting", "done"} => case \notin Cases \/ cumulative >= BUDGET_TOTAL
  /\ pc = "done" => file = results

LEMMA InitSpending == Init => Spending
<1> SUFFICES ASSUME Init PROVE Spending
  OBVIOUS
<1>1. results = << >> /\ pc = "start" /\ cumulative = PRIOR_SPEND /\ PRIOR_SPEND \in Nat
  BY EvalAssumption DEF Init
<1>2. Total(results) = 0
  <2>1. UNION {{i} \X (1 .. Costs(results)[i]) : i \in DOMAIN Costs(results)} = {}
    BY <1>1 DEF Costs
  <2> QED
    BY <2>1, FS_EmptySet DEF Total, Units, Costs
<1> QED
  BY <1>1, <1>2 DEF Spending

\* A step between cases, or the start of one.
LEMMA MoveKeepsSpending ==
  ASSUME Spending, UNCHANGED << runner, case, cumulative, results >>,
         pc' # "calling",
         pc' \in {"reporting", "done"} =>
           pc = "reporting" \/ case \notin Cases \/ cumulative >= BUDGET_TOTAL,
         pc' = "done" => file' = results
  PROVE  Spending'
  BY DEF Spending, Total, Units, Calls, Cases

LEMMA StartKeepsSpending == ASSUME IInv, Spending, StartCase PROVE Spending'
<1>1. 0 <= 0 * MaxCost
  BY EvalAssumption
<1> QED
  BY <1>1 DEF Spending, StartCase, Total, Units, Calls, Cases

LEMMA CallKeepsSpending ==
  ASSUME IInv, Spending, pc = "calling", NEW cost \in 0 .. MaxCost,
         UNCHANGED << runner, cumulative, results >>,
         pc' \in {"calling", "crashed"},
         pc' = "calling" => call' = call + 1 /\ tokens' \in {tokens, tokens + cost}
  PROVE  Spending'
<1>1. /\ call \in Nat /\ MaxCost \in Nat /\ cost \in Nat /\ cost <= MaxCost
      /\ tokens \in Nat /\ tokens <= call * MaxCost
  BY EvalAssumption DEF IInv, TypeOK, Spending
<1>2. (call + 1) * MaxCost = call * MaxCost + MaxCost /\ call * MaxCost \in Nat
  BY <1>1
<1>3. pc' = "calling" => tokens' <= call' * MaxCost
  BY <1>1, <1>2
<1> QED
  BY <1>3 DEF Spending, Total, Units, Calls, Cases

LEMMA FinishKeepsSpending == ASSUME IInv, Spending, FinishCase PROVE Spending'
<1> DEFINE n == Len(results)
           R == [case : Cases, cost : Nat, valid : BOOLEAN]
<1>1. /\ pc = "calling" /\ call = Calls[case] /\ results' = Append(results, Row)
      /\ cumulative' = cumulative + Row.cost /\ pc' = "loop"
      /\ UNCHANGED << runner, file >>
  BY DEF FinishCase
<1>2. /\ results \in Seq(R) /\ n \in Nat /\ n + 1 = case /\ cumulative \in Nat
      /\ tokens \in Nat /\ call \in Nat
  BY <1>1 DEF IInv, TypeOK
<1>3. Row \in R /\ Row.cost \in Nat /\ Row.cost <= tokens
  <2>1. case \in Cases
    BY <1>1 DEF IInv, CaseInHand
  <2>2. Row.cost = IF error THEN 0 ELSE tokens
    BY DEF Row
  <2>3. Row.cost \in Nat /\ Row.cost <= tokens
    BY <1>2, <2>2
  <2>4. (~ error) \in BOOLEAN
    OBVIOUS
  <2> QED
    BY <1>2, <2>1, <2>3, <2>4 DEF Row
<1> HIDE DEF R
<1>4. /\ results' \in Seq(R) /\ Len(results') = n + 1 /\ DOMAIN results' = 1 .. n + 1
      /\ DOMAIN results = 1 .. n /\ results'[n + 1] = Row
      /\ \A i \in 1 .. n : results'[i] = results[i]
  BY <1>1, <1>2, <1>3
<1>5. Total(results') = Total(results) + Row.cost /\ Total(results) \in Nat
  <2>1. /\ \A i \in 1 .. n : results[i] \in R
        /\ \A i \in 1 .. n + 1 : results'[i] \in R
    BY <1>2, <1>4
  <2>2. Costs(results) \in [1 .. n -> Nat] /\ Costs(results') \in [1 .. n + 1 -> Nat]
    BY <1>4, <2>1 DEF Costs, R
  <2>3. \A i \in 1 .. n : Costs(results')[i] = Costs(results)[i]
    BY <1>2, <1>4 DEF Costs
  <2>4. Costs(results')[n + 1] = Row.cost
    BY <1>2, <1>4 DEF Costs
  <2>5. Units(Costs(results')) = Units(Costs(results)) + Row.cost
        /\ Units(Costs(results)) \in Nat
    BY <1>2, <2>2, <2>3, <2>4, OneMoreCost
  <2> QED
    BY <2>5 DEF Total, Costs
<1>6. cumulative' = PRIOR_SPEND + Total(results')
  BY <1>1, <1>3, <1>5, EvalAssumption DEF Spending
<1>7. cumulative' < BUDGET_TOTAL + Calls'[Len(results')] * MaxCost
  <2>1. Calls' = Calls
    BY <1>1 DEF Calls
  <2>2. cumulative < BUDGET_TOTAL /\ tokens <= Calls[case] * MaxCost
    BY <1>1 DEF Spending
  <2>3. Calls[case] * MaxCost \in Nat /\ BUDGET_TOTAL \in Nat
    BY <1>1, <1>2, EvalAssumption
  <2>4. Calls'[Len(results')] * MaxCost = Calls[case] * MaxCost
    BY <1>2, <1>4, <2>1
  <2> QED
    BY <1>1, <1>2, <1>3, <2>2, <2>3, <2>4
<1> QED
  BY <1>1, <1>6, <1>7 DEF Spending, Total, Units

LEMMA NextSpending == ASSUME IInv, Spending, [Next]_vars PROVE Spending'
<1>1. CASE Begin
  BY <1>1, MoveKeepsSpending DEF Begin
<1>2. CASE StartCase
  BY <1>2, StartKeepsSpending
<1>3. CASE LeaveLoop
  BY <1>3, MoveKeepsSpending DEF LeaveLoop
<1>4. CASE FinishCase
  BY <1>4, FinishKeepsSpending
<1>5. CASE Report
  BY <1>5, MoveKeepsSpending DEF Report
<1>6. ASSUME NEW cost \in 0 .. MaxCost, CallSucceeds(cost) \/ CallFails(cost) \/ CallBreaks(cost)
      PROVE  Spending'
  <2>1. CASE CallSucceeds(cost)
    BY <2>1, CallKeepsSpending DEF CallSucceeds, Calling
  <2>2. CASE CallFails(cost)
    BY <2>2, CallKeepsSpending DEF CallFails, Calling
  <2>3. CASE CallBreaks(cost)
    BY <2>3, CallKeepsSpending DEF CallBreaks
  <2> QED
    BY <1>6, <2>1, <2>2, <2>3
<1>7. CASE UNCHANGED vars
  BY <1>7 DEF vars, Spending, Total, Units, Calls, Cases
<1> QED
  BY <1>1, <1>2, <1>3, <1>4, <1>5, <1>6, <1>7, EvalAssumption DEF Next

LEMMA OvershootFromSpending == IInv /\ Spending => OvershootIsOneCase
<1> SUFFICES ASSUME IInv, Spending PROVE cumulative <= RealSpend
  BY DEF OvershootIsOneCase, Spending
<1> DEFINE n == Len(results)
           m == Len(Calls)
<1>1. /\ n \in Nat /\ m \in Nat /\ n <= m /\ DOMAIN results = 1 .. n
      /\ billed \in [1 .. m -> Nat] /\ lost \in [1 .. m -> Nat]
      /\ results \in Seq([case : Cases, cost : Nat, valid : BOOLEAN])
  BY RunnerTypes DEF IInv, TypeOK, Cases
<1>2. \A i \in 1 .. n : results[i] \in [case : Cases, cost : Nat, valid : BOOLEAN]
  BY <1>1, ElementOfSeq
<1>3. Costs(results) \in [1 .. n -> Nat]
  BY <1>1, <1>2 DEF Costs
<1>4. \A i \in 1 .. n : Costs(results)[i] <= billed[i]
  <2> SUFFICES ASSUME NEW i \in 1 .. n PROVE results[i].cost <= billed[i]
    BY <1>1 DEF Costs
  <2>1. results[i].valid \in BOOLEAN /\ billed[i] \in Nat
    <3>1. i \in 1 .. m
      BY <1>1
    <3> QED
      BY <1>1, <1>2, <3>1
  <2>2. results[i].cost = billed[i] \/ results[i].cost = 0
    BY <1>1, <2>1 DEF IInv, RowsAreExact
  <2> QED
    BY <2>1, <2>2
<1> HIDE DEF n, m
<1>5. /\ Units(Costs(results)) \in Nat /\ Units(billed) \in Nat
      /\ Units(Costs(results)) <= Units(billed)
  BY <1>1, <1>3, <1>4, UnitsGrow
<1>6. Total(results) = Units(Costs(results))
  BY DEF Total, Costs
<1>7. Units(lost) \in Nat
  <2>1. m <= m /\ \A i \in 1 .. m : lost[i] <= lost[i]
    BY <1>1
  <2> QED
    BY <1>1, <2>1, UnitsGrow
<1> QED
  BY <1>5, <1>6, <1>7, EvalAssumption DEF Spending, RealSpend

LEMMA FileFromSpending == IInv /\ Spending => FileAccountsForEveryCase
<1> SUFFICES ASSUME IInv, Spending, pc = "done"
             PROVE  /\ file = results
                    /\ Len(file) = Len(Calls) \/ PRIOR_SPEND + Total(file) >= BUDGET_TOTAL
                    /\ \A c \in Cases :
                         billed[c] + lost[c] > 0 => \E i \in DOMAIN file : file[i].case = c
  BY DEF FileAccountsForEveryCase
<1>1. file = results /\ cumulative = PRIOR_SPEND + Total(file)
  BY DEF Spending
<1>2. /\ Len(results) \in Nat /\ Len(Calls) \in Nat /\ Len(results) = case - 1
      /\ case \in 1 .. Len(Calls) + 1 /\ DOMAIN results = 1 .. Len(results)
  BY RunnerTypes DEF IInv, TypeOK
<1>3. Len(file) = Len(Calls) \/ PRIOR_SPEND + Total(file) >= BUDGET_TOTAL
  BY <1>1, <1>2 DEF Spending, Cases
<1>4. ASSUME NEW c \in Cases, billed[c] + lost[c] > 0
      PROVE  c \in DOMAIN file /\ file[c].case = c
  <2>1. ~ (billed[c] = 0 /\ lost[c] = 0)
    BY <1>4
  <2>2. c \in Nat /\ ~ (c > case \/ c = case) /\ c >= 1
    BY <2>1 DEF IInv, NothingBilledAhead, Cases
  <2>3. c \in DOMAIN results
    BY <1>2, <2>2
  <2> QED
    BY <1>1, <2>3 DEF IInv, RowsAreExact
<1> QED
  BY <1>1, <1>3, <1>4

-----------------------------------------------------------------------------
\* What the rows and the sums rest on holds throughout a run.
THEOREM Inductive == Spec => [](IInv /\ Spending)
<1>1. Init => IInv /\ Spending
  BY InitIInv, InitSpending
<1>2. IInv /\ Spending /\ [Next]_vars => (IInv /\ Spending)'
  BY NextIInv, NextSpending
<1> QED
  BY <1>1, <1>2, PTL DEF Spec

\* What every variable may hold.
THEOREM TypesHold == Spec => []TypeOK
<1>1. IInv => TypeOK
  BY DEF IInv
<1> QED
  BY <1>1, Inductive, PTL

\* What the runner believes it has spent is what its rows say, at most what was
\* billed, and less than one case above the budget.
THEOREM OvershootHolds == Spec => []OvershootIsOneCase
  BY OvershootFromSpending, Inductive, PTL

\* A results file has a row of every case, or the budget is spent; and every
\* case that was billed is in it.
THEOREM FileHolds == Spec => []FileAccountsForEveryCase
  BY FileFromSpending, Inductive, PTL

\* The row of a valid case costs what the provider charged for that case's
\* answers, and the row of a failed one nothing, for any number of cases and
\* calls and whatever attempts were lost.
THEOREM RowsHold == Spec => []RowsAreExact
<1>1. IInv => RowsAreExact
  BY DEF IInv
<1> QED
  BY <1>1, Inductive, PTL
=============================================================================

---------------------------- MODULE Scoring_proofs ----------------------------
(***************************************************************************)
(* Proofs about match_claims as Scoring models it, for any ground truth,   *)
(* predictions, overlaps and threshold.                                    *)
(*                                                                         *)
(* That a match is the best there was is decided one prediction at a time: *)
(* the invariant says of the inner loop that best is the preferred one of  *)
(* the predictions looked at (BestSoFar), and of the outer loop that       *)
(* unused is what no claim was given (Leftover).                           *)
(***************************************************************************)
EXTENDS Scoring, FiniteSetTheorems, NaturalsInduction, WellFoundedInduction, TLAPS

Typed ==
  /\ case \in DOMAIN GroundTruth
  /\ predicted \in Seq(Predictions)
  /\ overlap \in [DOMAIN Claims -> [DOMAIN predicted -> Nat]]
  /\ claim \in 1 .. Len(Claims) + 1
  /\ next \in 1 .. Len(predicted) + 1
  /\ best \in {0} \cup DOMAIN predicted
  /\ matches \in Seq({0} \cup DOMAIN predicted)
  /\ Len(matches) = claim - 1

Leftover == unused = DOMAIN predicted \ ToSet(matches)

Once == \A c, d \in DOMAIN matches : matches[c] = matches[d] /\ c # d => matches[c] = 0

SameDocument(p) == predicted[p].doc = Claims[claim].doc

BestSoFar ==
  /\ best # 0 => best \in unused /\ best < next /\ SameDocument(best)
  /\ \A p \in unused :
       p < next /\ SameDocument(p) =>
         overlap[claim][p] = 0 \/ (best # 0 /\ Prefers(claim, best, p))

Matcher ==
  /\ Typed /\ Leftover /\ Once /\ MatchesAreBest
  /\ claim \in DOMAIN Claims => BestSoFar
  /\ claim \notin DOMAIN Claims => best = 0

IInv ==
  \/ pc \in {"load", "done"} /\ matches = << >>
  \/ pc = "matching" /\ Matcher

-----------------------------------------------------------------------------
LEMMA ClaimsType ==
  ASSUME case \in DOMAIN GroundTruth
  PROVE  /\ Claims \in Seq([doc : Documents, expected : Statuses, issue : Categories])
         /\ Len(Claims) \in Nat /\ DOMAIN Claims = 1 .. Len(Claims)
<1> DEFINE C == [doc : Documents, expected : Statuses, issue : Categories]
           G == [manifest : SUBSET Documents, claims : Seq(C)]
<1>0. GroundTruth \in Seq(G)
  BY ScoringAssumption
<1> HIDE DEF G
<1>1. GroundTruth[case] \in G
  BY <1>0
<1> USE DEF G
<1> HIDE DEF C
<1>2. Claims \in Seq(C)
  BY <1>1 DEF Claims
<1>3. Len(Claims) \in Nat /\ DOMAIN Claims = 1 .. Len(Claims)
  BY <1>2
<1> QED
  BY <1>2, <1>3 DEF C

\* Appending to a sequence adds one element to its set.
LEMMA AppendToSet ==
  ASSUME NEW S, NEW s \in Seq(S), NEW x \in S
  PROVE  /\ Append(s, x) \in Seq(S) /\ Len(Append(s, x)) = Len(s) + 1
         /\ DOMAIN Append(s, x) = DOMAIN s \cup {Len(s) + 1}
         /\ \A i \in DOMAIN s : Append(s, x)[i] = s[i] /\ i # Len(s) + 1
         /\ Append(s, x)[Len(s) + 1] = x
         /\ ToSet(Append(s, x)) = ToSet(s) \cup {x}
<1>1. /\ Append(s, x) \in Seq(S) /\ Len(Append(s, x)) = Len(s) + 1
      /\ Len(s) \in Nat /\ DOMAIN s = 1 .. Len(s)
      /\ DOMAIN Append(s, x) = 1 .. Len(s) + 1
  OBVIOUS
<1>2. DOMAIN Append(s, x) = DOMAIN s \cup {Len(s) + 1}
  BY <1>1
<1>3. /\ \A i \in DOMAIN s : Append(s, x)[i] = s[i] /\ i # Len(s) + 1
      /\ Append(s, x)[Len(s) + 1] = x
  BY <1>1
<1>4. ToSet(Append(s, x)) = ToSet(s) \cup {x}
  BY <1>2, <1>3 DEF ToSet
<1> QED
  BY <1>1, <1>2, <1>3, <1>4

LEMMA LoadKeepsIInv ==
  ASSUME NEW n \in Nat, NEW claims \in [1 .. n -> Predictions],
         NEW failure \in BOOLEAN, Load(claims, failure)
  PROVE  IInv'
<1>1. claims \in Seq(Predictions) /\ << >> \in Seq(Predictions)
  OBVIOUS
<1>2. predicted' \in Seq(Predictions)
  BY <1>1 DEF Load, Extract
<1>3. /\ case' = case /\ case \in DOMAIN GroundTruth /\ Claims' = Claims
      /\ claim' = 1 /\ next' = 1 /\ best' = 0 /\ matches' = << >>
      /\ unused' = DOMAIN predicted' /\ pc' = "matching"
  BY DEF Load, Claims
<1>4. overlap' \in [DOMAIN Claims -> [DOMAIN predicted' -> Nat]]
  BY ScoringAssumption DEF Load
<1>5. Typed'
  BY <1>2, <1>3, <1>4, ClaimsType DEF Typed
<1>6. Leftover' /\ Once' /\ MatchesAreBest'
  <2>1. DOMAIN matches' = {}
    BY <1>3
  <2> QED
    BY <1>3, <2>1 DEF Leftover, Once, MatchesAreBest, ToSet
<1>7. BestSoFar'
  BY <1>2, <1>3 DEF BestSoFar
<1> QED
  BY <1>3, <1>5, <1>6, <1>7 DEF IInv, Matcher

LEMMA ConsiderKeepsIInv == ASSUME IInv, Consider PROVE IInv'
<1>1. /\ Typed /\ Leftover /\ Once /\ MatchesAreBest /\ BestSoFar
      /\ pc = "matching" /\ claim \in DOMAIN Claims /\ next \in DOMAIN predicted
  BY DEF IInv, Matcher, Consider, Matching
<1>2. /\ UNCHANGED << case, pc, predicted, overlap, claim, unused, matches, Claims >>
      /\ next' = next + 1
  BY DEF Consider, caseVars, Claims
<1>3. \A p \in DOMAIN predicted : overlap[claim][p] \in Nat
  BY <1>1 DEF Typed
<1>4. DOMAIN predicted \subseteq Nat \ {0} /\ next \in Nat
  BY <1>1 DEF Typed
<1>5. best' \in {best, next}
  BY DEF Consider
<1>6. Typed'
  <2>1. next' \in 1 .. Len(predicted) + 1 /\ best' \in {0} \cup DOMAIN predicted
    BY <1>1, <1>2, <1>5 DEF Typed
  <2> QED
    BY <1>1, <1>2, <2>1 DEF Typed
<1>7. Leftover' /\ Once'
  BY <1>1, <1>2 DEF Leftover, Once
<1>8. MatchesAreBest'
  BY <1>1, <1>2 DEF MatchesAreBest, Suits, Prefers
<1>9. BestSoFar'
  <2>1. \A p \in unused : p \in DOMAIN predicted
    BY <1>1 DEF Leftover
  <2>2. CASE /\ next \in unused /\ SameDocument(next)
             /\ overlap[claim][next] > best_score
    <3>1. best' = next
      BY <2>2 DEF Consider, SameDocument
    <3>2. ASSUME NEW p \in unused, p < next', SameDocument(p)
          PROVE  overlap[claim][p] = 0 \/ Prefers(claim, next, p)
      <4>1. p \in DOMAIN predicted /\ overlap[claim][p] \in Nat
            /\ overlap[claim][next] \in Nat
        BY <1>1, <1>3, <2>1
      <4>2. CASE p = next
        BY <1>4, <4>1, <4>2 DEF Prefers
      <4>3. CASE p # next
        <5>1. p < next
          BY <1>2, <1>4, <3>2, <4>1, <4>3
        <5>2. overlap[claim][p] = 0 \/ (best # 0 /\ Prefers(claim, best, p))
          BY <1>1, <3>2, <5>1 DEF BestSoFar
        <5>3. best # 0 => overlap[claim][best] \in Nat
          BY <1>1, <1>3 DEF Typed
        <5> QED
          BY <2>2, <4>1, <5>2, <5>3 DEF Prefers, best_score
      <4> QED
        BY <4>2, <4>3
    <3>3. next # 0 /\ next < next'
      BY <1>1, <1>2, <1>4
    <3> QED
      BY <1>2, <2>2, <3>1, <3>2, <3>3 DEF BestSoFar, SameDocument, Prefers
  <2>3. CASE ~ /\ next \in unused /\ SameDocument(next)
               /\ overlap[claim][next] > best_score
    <3>1. best' = best
      BY <2>3 DEF Consider, SameDocument
    <3>2. ASSUME NEW p \in unused, p < next', SameDocument(p)
          PROVE  overlap[claim][p] = 0 \/ (best # 0 /\ Prefers(claim, best, p))
      BY <1>1, <1>2, <1>3, <1>4, <2>1, <2>3, <3>2
      DEF BestSoFar, Prefers, best_score
    <3>3. best # 0 => best \in unused /\ best < next' /\ SameDocument(best)
      BY <1>1, <1>2, <1>4, <2>1 DEF BestSoFar
    <3> QED
      BY <1>2, <3>1, <3>2, <3>3 DEF BestSoFar, SameDocument, Prefers
  <2> QED
    BY <2>2, <2>3
<1> QED
  BY <1>1, <1>2, <1>6, <1>7, <1>8, <1>9 DEF IInv, Matcher

\* The inner loop is over: best is the preferred one of all that is unused.
LEMMA SettleKeepsIInv == ASSUME IInv, Settle PROVE IInv'
<1> DEFINE match == IF best_score >= MATCH_THRESHOLD THEN best ELSE 0
<1>1. /\ Typed /\ Leftover /\ Once /\ MatchesAreBest /\ BestSoFar
      /\ pc = "matching" /\ claim \in DOMAIN Claims /\ next = Len(predicted) + 1
  BY DEF IInv, Matcher, Settle, Matching
<1>2. /\ UNCHANGED << case, pc, predicted, overlap, Claims >>
      /\ matches' = Append(matches, match) /\ unused' = unused \ {match}
      /\ claim' = claim + 1 /\ next' = 1 /\ best' = 0
  BY DEF Settle, caseVars, Claims
<1>3. /\ claim \in Nat \ {0} /\ Len(Claims) \in Nat /\ DOMAIN Claims = 1 .. Len(Claims)
      /\ DOMAIN predicted = 1 .. Len(predicted) /\ Len(predicted) \in Nat
      /\ MATCH_THRESHOLD \in Nat \ {0}
  BY <1>1, ClaimsType, ScoringAssumption DEF Typed
<1>4. match \in {0} \cup DOMAIN predicted
  BY <1>1 DEF Typed
<1>5. /\ matches' \in Seq({0} \cup DOMAIN predicted) /\ Len(matches') = claim
      /\ DOMAIN matches' = DOMAIN matches \cup {claim}
      /\ DOMAIN matches = 1 .. claim - 1
      /\ \A c \in DOMAIN matches : matches'[c] = matches[c] /\ c # claim
      /\ matches'[claim] = match
      /\ ToSet(matches') = ToSet(matches) \cup {match}
  <2>1. matches \in Seq({0} \cup DOMAIN predicted) /\ Len(matches) = claim - 1
    BY <1>1 DEF Typed
  <2> HIDE DEF match
  <2> QED
    BY <1>2, <1>3, <1>4, <2>1, AppendToSet
<1>6. match # 0 => /\ match = best /\ match \in unused /\ SameDocument(match)
                   /\ overlap[claim][match] >= MATCH_THRESHOLD
  BY <1>1 DEF BestSoFar, best_score
<1>7. \A p \in unused : Suits(claim, p) => match # 0 /\ Prefers(claim, match, p)
  <2> SUFFICES ASSUME NEW p \in unused, Suits(claim, p)
               PROVE  match # 0 /\ Prefers(claim, match, p)
    OBVIOUS
  <2>1. p \in DOMAIN predicted /\ p < next /\ SameDocument(p)
    BY <1>1, <1>3 DEF Leftover, Suits, SameDocument
  <2>2. /\ overlap[claim][p] \in Nat /\ overlap[claim][p] >= MATCH_THRESHOLD
        /\ overlap[claim][p] # 0
    BY <1>1, <1>3, <2>1 DEF Typed, Suits
  <2>3. best # 0 /\ Prefers(claim, best, p)
    BY <1>1, <2>1, <2>2 DEF BestSoFar
  <2>4. overlap[claim][best] \in Nat
    BY <1>1, <2>3 DEF Typed
  <2>5. match = best
    BY <1>3, <2>2, <2>3, <2>4 DEF Prefers, best_score
  <2> QED
    BY <2>3, <2>5
<1> HIDE DEF match
<1>8. Typed'
  BY <1>1, <1>2, <1>3, <1>5 DEF Typed
<1>9. Leftover'
  BY <1>1, <1>2, <1>3, <1>5 DEF Leftover
<1>10. Once'
  <2>1. \A c \in DOMAIN matches : matches[c] \in ToSet(matches)
    BY DEF ToSet
  <2>2. match # 0 => match \notin ToSet(matches)
    BY <1>1, <1>6 DEF Leftover
  <2> QED
    BY <1>1, <1>5, <2>1, <2>2 DEF Once
<1>11. MatchesAreBest'
  <2>1. ASSUME NEW c \in DOMAIN matches, NEW p \in DOMAIN predicted, Suits(c, p)
        PROVE  \/ \E d \in 1 .. c - 1 : matches'[d] = p
               \/ matches'[c] # 0 /\ Prefers(c, matches'[c], p)
    <3>1. \A d \in 1 .. c - 1 : d \in DOMAIN matches
      BY <1>3, <1>5
    <3> QED
      BY <1>1, <1>5, <2>1, <3>1 DEF MatchesAreBest
  <2>2. ASSUME NEW p \in DOMAIN predicted, Suits(claim, p)
        PROVE  \/ \E d \in 1 .. claim - 1 : matches'[d] = p
               \/ match # 0 /\ Prefers(claim, match, p)
    <3>1. CASE p \in unused
      BY <1>7, <2>2, <3>1
    <3>2. CASE p \notin unused
      BY <1>1, <1>5, <3>2 DEF Leftover, ToSet
    <3> QED
      BY <3>1, <3>2
  <2>3. \A c \in DOMAIN matches : matches'[c] # 0 => Suits(c, matches'[c])
    BY <1>1, <1>5 DEF MatchesAreBest
  <2>4. match # 0 => Suits(claim, match)
    BY <1>6 DEF Suits, SameDocument
  <2>5. \A c \in DOMAIN matches' :
          /\ matches'[c] # 0 => Suits(c, matches'[c])
          /\ \A p \in DOMAIN predicted :
               Suits(c, p) => \/ \E d \in 1 .. c - 1 : matches'[d] = p
                              \/ matches'[c] # 0 /\ Prefers(c, matches'[c], p)
    BY <1>5, <2>1, <2>2, <2>3, <2>4
  <2> QED
    BY <1>2, <2>5 DEF MatchesAreBest, Suits, Prefers
<1>12. BestSoFar'
  BY <1>2, <1>3, <1>1 DEF BestSoFar, Leftover
<1> QED
  BY <1>1, <1>2, <1>8, <1>9, <1>10, <1>11, <1>12 DEF IInv, Matcher

LEMMA NextIInv == ASSUME IInv, [Next]_vars PROVE IInv'
<1>1. ASSUME NEW n \in 0 .. MaxPredictions, NEW failure \in BOOLEAN,
             NEW claims \in [1 .. n -> Predictions], Load(claims, failure)
      PROVE  IInv'
  BY <1>1, LoadKeepsIInv, ScoringAssumption
<1>2. CASE Consider
  BY <1>2, ConsiderKeepsIInv
<1>3. CASE Settle
  BY <1>3, SettleKeepsIInv
<1>4. CASE ScoreCase
  BY <1>4 DEF ScoreCase, IInv
<1>5. CASE UNCHANGED vars
  BY <1>5 DEF vars, loopVars, caseVars, IInv, Matcher, Typed, Leftover, Once, BestSoFar,
      MatchesAreBest, SameDocument, Suits, Prefers, Claims
<1> QED
  BY <1>1, <1>2, <1>3, <1>4, <1>5 DEF Next

\* What the matcher knows of the claims done and the predictions left holds at
\* every turn of its two loops.
THEOREM Inductive == Spec => []IInv
<1>1. Init => IInv
  BY DEF Init, IInv
<1> QED
  BY <1>1, NextIInv, PTL DEF Spec

\* Whatever the overlaps, the greedy loop gives every claim the best
\* prediction that was left to it, and calls it a miss only if none suited.
THEOREM BestHolds == Spec => []MatchesAreBest
<1>1. IInv => MatchesAreBest
  BY DEF IInv, Matcher, MatchesAreBest
<1> QED
  BY <1>1, Inductive, PTL

\* No prediction is given to two claims, nor kept as an extra once given.
THEOREM CountedOnce == Spec => []NoPredictionCountsTwice
<1>1. IInv => NoPredictionCountsTwice
  BY DEF IInv, Matcher, Once, Leftover, NoPredictionCountsTwice
<1> QED
  BY <1>1, Inductive, PTL

-----------------------------------------------------------------------------
\* Extras.  With one prediction less, the predictions left after each claim are
\* those left with all of them but one at most (OneApart); so the matches are
\* at most as many.

LEMMA LeastNumber ==
  ASSUME NEW T \in SUBSET Nat, T # {}
  PROVE  \E x \in T : \A y \in T : x <= y
<1> DEFINE R == {ss \in Nat \X Nat : ss[1] < ss[2]}
<1>1. IsWellFoundedOn(R, Nat)
  BY NatLessThanWellFounded DEF OpToRel
<1>2. \A x, y \in Nat : y < x => << y, x >> \in R
  OBVIOUS
<1> HIDE DEF R
<1>3. PICK x \in T : \A y \in T : ~ (<< y, x >> \in R)
  BY <1>1, WFMin
<1>4. ASSUME NEW y \in T PROVE x <= y
  <2>1. x \in Nat /\ y \in Nat /\ ~ (y < x)
    BY <1>2, <1>3
  <2> QED
    BY <2>1
<1> QED
  BY <1>4

\* What match leaves of the predictions offered after its first c claims.
LeftOf(match, offered, c) == offered \ {match[d] : d \in 1 .. c}

OneApart(few, many) == few \subseteq many /\ \E x : many \subseteq few \cup {x}

\* The claim c takes a of those left to it, or none suits.
Takes(c, a, left) ==
  LET suitable == {p \in left : Suits(c, p)} IN
  IF suitable = {} THEN a = 0 ELSE a \in suitable /\ \A p \in suitable : Prefers(c, a, p)

Overlaps == \A c \in DOMAIN Claims, p \in DOMAIN predicted : overlap[c][p] \in Nat

LEMMA TakesKeepsOneApart ==
  ASSUME Overlaps, DOMAIN predicted \subseteq Nat \ {0}, NEW c \in DOMAIN Claims,
         NEW many \in SUBSET DOMAIN predicted, NEW few, OneApart(few, many),
         NEW a, NEW b, Takes(c, a, many), Takes(c, b, few)
  PROVE  OneApart(few \ {b}, many \ {a})
<1> DEFINE suitableMany == {p \in many : Suits(c, p)}
           suitableFew  == {p \in few : Suits(c, p)}
<1>1. PICK x : many \subseteq few \cup {x}
  BY DEF OneApart
<1>2. few \subseteq many /\ suitableFew \subseteq suitableMany /\ 0 \notin many
  BY DEF OneApart
<1>3. /\ suitableMany = {} => a = 0
      /\ suitableMany # {} => a \in suitableMany /\ \A p \in suitableMany : Prefers(c, a, p)
      /\ suitableFew = {} => b = 0
      /\ suitableFew # {} => b \in suitableFew /\ \A p \in suitableFew : Prefers(c, b, p)
  BY DEF Takes
<1>4. CASE suitableMany = {}
  <2>1. a = 0 /\ b = 0
    BY <1>2, <1>3, <1>4
  <2>2. many \ {a} = many /\ few \ {b} = few
    BY <1>2, <2>1
  <2> QED
    BY <2>2
<1>5. CASE suitableMany # {} /\ a \in few
  <2>1. a \in suitableFew
    BY <1>3, <1>5
  <2>2. Prefers(c, b, a) /\ Prefers(c, a, b) /\ b \in suitableFew
    BY <1>2, <1>3, <1>5, <2>1
  <2>3. /\ a \in Nat /\ b \in Nat
        /\ overlap[c][a] \in Nat /\ overlap[c][b] \in Nat
    BY <1>2, <2>1, <2>2 DEF Overlaps
  <2>4. a = b
    BY <2>2, <2>3 DEF Prefers
  <2> QED
    BY <1>1, <1>2, <2>4 DEF OneApart
<1>6. CASE suitableMany # {} /\ a \notin few
  <2>1. a = x
    BY <1>1, <1>3, <1>6
  <2>2. few \ {b} \subseteq many \ {a}
    BY <1>2, <1>6
  <2>3. many \ {a} \subseteq (few \ {b}) \cup {b}
    BY <1>1, <2>1
  <2> QED
    BY <2>2, <2>3 DEF OneApart
<1> QED
  BY <1>4, <1>5, <1>6

LEMMA GreedyTakes ==
  ASSUME NEW offered, NEW n \in Nat, NEW match, DOMAIN match = 1 .. n, Greedy(match, offered),
         NEW c \in 1 .. n
  PROVE  Takes(c, match[c], LeftOf(match, offered, c - 1))
<1> DEFINE left == {p \in offered : Suits(c, p) /\ \A d \in 1 .. c - 1 : match[d] # p}
<1>1. left = {p \in LeftOf(match, offered, c - 1) : Suits(c, p)}
  BY DEF LeftOf
<1>2. IF left = {} THEN match[c] = 0
      ELSE match[c] \in left /\ \A p \in left : Prefers(c, match[c], p)
  BY DEF Greedy
<1> HIDE DEF left
<1> QED
  BY <1>1, <1>2 DEF Takes

\* match_claims is one such matching, of all the predictions.
LEMMA MatcherTakes ==
  ASSUME Matcher, NEW c \in DOMAIN matches
  PROVE  Takes(c, matches[c], LeftOf(matches, DOMAIN predicted, c - 1))
<1> DEFINE suitable == {p \in LeftOf(matches, DOMAIN predicted, c - 1) : Suits(c, p)}
<1>1. /\ matches \in Seq({0} \cup DOMAIN predicted)
      /\ c \in Nat /\ \A d \in 1 .. c - 1 : d \in DOMAIN matches /\ d # c
  BY DEF Matcher, Typed
<1>2. \A p : p \in suitable <=> /\ p \in DOMAIN predicted /\ Suits(c, p)
                                /\ \A d \in 1 .. c - 1 : matches[d] # p
  BY DEF LeftOf
<1>3. matches[c] # 0 => matches[c] \in DOMAIN predicted /\ Suits(c, matches[c])
  BY <1>1 DEF Matcher, MatchesAreBest
<1>4. matches[c] # 0 => matches[c] \in suitable
  BY <1>1, <1>2, <1>3 DEF Matcher, Once
<1>5. \A p \in suitable : matches[c] # 0 /\ Prefers(c, matches[c], p)
  BY <1>2 DEF Matcher, MatchesAreBest
<1> HIDE DEF suitable
<1>6. IF suitable = {} THEN matches[c] = 0
      ELSE matches[c] \in suitable /\ \A p \in suitable : Prefers(c, matches[c], p)
  BY <1>4, <1>5
<1> QED
  BY <1>6 DEF Takes, suitable

\* All claims matched, with one prediction less and with all of them.
LEMMA LeftOneApart ==
  ASSUME Matcher, DOMAIN matches = DOMAIN Claims, Overlaps,
         NEW p \in DOMAIN predicted,
         NEW match, DOMAIN match = DOMAIN Claims, Greedy(match, DOMAIN predicted \ {p})
  PROVE  OneApart(LeftOf(match, DOMAIN predicted \ {p}, Len(Claims)),
                  LeftOf(matches, DOMAIN predicted, Len(Claims)))
<1> DEFINE n == Len(Claims)
           offered == DOMAIN predicted \ {p}
           Few(c)  == LeftOf(match, offered, c)
           Many(c) == LeftOf(matches, DOMAIN predicted, c)
           Wrong == {c \in 0 .. n : ~ OneApart(Few(c), Many(c))}
<1>1. n \in Nat /\ DOMAIN Claims = 1 .. n /\ DOMAIN predicted \subseteq Nat \ {0}
  BY ClaimsType DEF Matcher, Typed
<1>2. OneApart(Few(0), Many(0))
  <2>1. \A f, S : LeftOf(f, S, 0) = S
    <3>1. 1 .. 0 = {}
      OBVIOUS
    <3> QED
      BY <3>1 DEF LeftOf
  <2>2. Few(0) = offered /\ Many(0) = DOMAIN predicted
    BY <2>1
  <2>3. DOMAIN predicted \subseteq offered \cup {p}
    OBVIOUS
  <2> QED
    BY <2>2, <2>3 DEF OneApart
<1>3. ASSUME NEW c \in 1 .. n, OneApart(Few(c - 1), Many(c - 1))
      PROVE  OneApart(Few(c), Many(c))
  <2>1. Many(c - 1) \in SUBSET DOMAIN predicted
    BY DEF LeftOf
  <2>2. Takes(c, matches[c], Many(c - 1)) /\ Takes(c, match[c], Few(c - 1))
    BY <1>1, MatcherTakes, GreedyTakes
  <2>3. c \in DOMAIN Claims
    BY <1>1
  <2>4. OneApart(Few(c - 1) \ {match[c]}, Many(c - 1) \ {matches[c]})
    <3> HIDE DEF Few, Many
    <3> QED
      BY <1>1, <1>3, <2>1, <2>2, <2>3, TakesKeepsOneApart
  <2>5. 1 .. c = (1 .. c - 1) \cup {c}
    BY <1>1
  <2>6. Few(c) = Few(c - 1) \ {match[c]} /\ Many(c) = Many(c - 1) \ {matches[c]}
    BY <2>5 DEF LeftOf
  <2> QED
    BY <2>4, <2>6
<1> HIDE DEF Few, Many
<1>4. Wrong = {}
  <2> SUFFICES ASSUME Wrong # {} PROVE FALSE
    OBVIOUS
  <2>1. Wrong \in SUBSET Nat
    BY <1>1
  <2>2. PICK c \in Wrong : \A e \in Wrong : c <= e
    BY <2>1, LeastNumber
  <2>3. c \in 1 .. n /\ c - 1 \in 0 .. n /\ ~ (c <= c - 1)
    BY <1>1, <1>2
  <2>4. OneApart(Few(c - 1), Many(c - 1))
    BY <2>2, <2>3
  <2> QED
    BY <1>3, <2>3, <2>4
<1>5. n \in 0 .. n
  BY <1>1
<1> QED
  BY <1>4, <1>5 DEF Few, Many

\* Predictions taken, counted by the claims that took them.
LEMMA TakenByClaims ==
  ASSUME NEW n \in Nat, NEW match, DOMAIN match = 1 .. n, NEW offered, IsFiniteSet(offered),
         0 \notin offered, \A c \in 1 .. n : match[c] \in {0} \cup offered,
         \A c, d \in 1 .. n : match[c] = match[d] /\ c # d => match[c] = 0
  PROVE  LET taking == {c \in 1 .. n : match[c] # 0}
             left == LeftOf(match, offered, n)
         IN  /\ IsFiniteSet(left) /\ Cardinality(taking) \in Nat
             /\ Cardinality(left) \in Nat
             /\ Cardinality(offered) = Cardinality(taking) + Cardinality(left)
<1> DEFINE taking == {c \in 1 .. n : match[c] # 0}
           left   == LeftOf(match, offered, n)
           taken  == {match[c] : c \in taking}
           f      == [c \in taking |-> match[c]]
<1>1. IsFiniteSet(taking) /\ Cardinality(taking) \in Nat
  <2>1. IsFiniteSet(1 .. n) /\ taking \subseteq 1 .. n
    BY FS_Interval
  <2> QED
    BY <2>1, FS_Subset, FS_CardinalityType
<1>2. f \in Bijection(taking, taken)
  BY DEF Bijection, Injection, Surjection, IsInjective
<1>3. IsFiniteSet(taken) /\ Cardinality(taken) = Cardinality(taking)
  <2> HIDE DEF taking, taken, f
  <2> QED
    BY <1>1, <1>2, FS_Bijection DEF ExistsBijection
<1>4. left = offered \ taken /\ taken \subseteq offered
  BY DEF LeftOf
<1> HIDE DEF taking, left, taken, f
<1>5. /\ IsFiniteSet(left) /\ Cardinality(left) \in Nat
      /\ Cardinality(left) = Cardinality(offered) - Cardinality(offered \cap taken)
      /\ Cardinality(offered) \in Nat
  BY <1>4, FS_Difference, FS_CardinalityType
<1>6. Cardinality(offered \cap taken) = Cardinality(taken)
  <2>1. offered \cap taken = taken
    BY <1>4
  <2> QED
    BY <2>1
<1>7. Cardinality(offered) = Cardinality(taking) + Cardinality(left)
  BY <1>1, <1>3, <1>5, <1>6
<1> QED
  BY <1>1, <1>5, <1>7 DEF taking, left

LEMMA GreedyOnce ==
  ASSUME NEW n \in Nat, NEW match, DOMAIN match = 1 .. n, NEW offered, Greedy(match, offered),
         NEW c \in 1 .. n, NEW d \in 1 .. n, match[c] = match[d], c # d
  PROVE  match[c] = 0
<1>1. ASSUME NEW e \in 1 .. n, match[e] # 0 PROVE \A g \in 1 .. e - 1 : match[g] # match[e]
  BY <1>1 DEF Greedy
<1>2. c \in 1 .. d - 1 \/ d \in 1 .. c - 1
  OBVIOUS
<1> QED
  BY <1>1, <1>2

LEMMA ExtrasFromIInv == IInv => ExtrasNeverCostAMatch
<1> SUFFICES ASSUME IInv, pc = "matching", claim = Len(Claims) + 1,
                    NEW p \in DOMAIN predicted,
                    NEW match \in [DOMAIN Claims -> {0} \cup (DOMAIN predicted \ {p})],
                    Greedy(match, DOMAIN predicted \ {p})
             PROVE  Cardinality({c \in DOMAIN Claims : match[c] # 0}) <= Cardinality(Matched)
  BY DEF ExtrasNeverCostAMatch
<1> DEFINE n == Len(Claims)
           D == DOMAIN predicted
           offered == D \ {p}
           Few  == LeftOf(match, offered, n)
           Many == LeftOf(matches, D, n)
           givenFew  == {c \in 1 .. n : match[c] # 0}
           givenMany == {c \in 1 .. n : matches[c] # 0}
<1>1. /\ Matcher /\ n \in Nat /\ DOMAIN Claims = 1 .. n /\ predicted \in Seq(Predictions)
      /\ matches \in Seq({0} \cup D) /\ Len(matches) = claim - 1
      /\ overlap \in [DOMAIN Claims -> [D -> Nat]]
  BY ClaimsType DEF IInv, Matcher, Typed
<1>2. /\ DOMAIN matches = 1 .. n /\ \A c \in 1 .. n : matches[c] \in {0} \cup D
      /\ Overlaps
  BY <1>1 DEF Overlaps
<1>3. D = 1 .. Len(predicted) /\ Len(predicted) \in Nat
  BY <1>1
<1>4. IsFiniteSet(D) /\ IsFiniteSet(offered) /\ 0 \notin D /\ Cardinality(D) \in Nat
      /\ Cardinality(offered) = Cardinality(D) - 1
  <2>1. IsFiniteSet(D) /\ 0 \notin D
    BY <1>3, FS_Interval
  <2> QED
    BY <2>1, FS_RemoveElement, FS_CardinalityType
<1>5. OneApart(Few, Many)
  BY <1>1, <1>2, LeftOneApart
<1>6. \A c, d \in 1 .. n : match[c] = match[d] /\ c # d => match[c] = 0
  BY <1>1, GreedyOnce
<1>7. \A c, d \in 1 .. n : matches[c] = matches[d] /\ c # d => matches[c] = 0
  BY <1>1, <1>2 DEF Matcher, Once
<1>8. /\ IsFiniteSet(Few) /\ Cardinality(givenFew) \in Nat /\ Cardinality(Few) \in Nat
      /\ Cardinality(offered) = Cardinality(givenFew) + Cardinality(Few)
  <2>1. DOMAIN match = 1 .. n /\ \A c \in 1 .. n : match[c] \in {0} \cup offered
    BY <1>1
  <2> HIDE DEF D, offered
  <2>2. 0 \notin offered
    BY <1>4 DEF offered
  <2> QED
    BY <1>1, <1>4, <1>6, <2>1, <2>2, TakenByClaims
<1>9. /\ IsFiniteSet(Many) /\ Cardinality(givenMany) \in Nat /\ Cardinality(Many) \in Nat
      /\ Cardinality(D) = Cardinality(givenMany) + Cardinality(Many)
  <2> HIDE DEF D
  <2> QED
    BY <1>1, <1>2, <1>4, <1>7, TakenByClaims
<1>10. Cardinality(Many) <= Cardinality(Few) + 1
  <2>1. PICK x : Many \subseteq Few \cup {x}
    BY <1>5 DEF OneApart
  <2> HIDE DEF Few, Many
  <2>2. /\ IsFiniteSet(Few \cup {x})
        /\ Cardinality(Few \cup {x}) = IF x \in Few THEN Cardinality(Few) ELSE Cardinality(Few) + 1
    BY <1>8, FS_AddElement
  <2>3. Cardinality(Many) <= Cardinality(Few \cup {x})
    BY <2>1, <2>2, FS_Subset
  <2> QED
    BY <1>8, <1>9, <2>2, <2>3
<1>11. Matched = givenMany /\ {c \in DOMAIN Claims : match[c] # 0} = givenFew
  BY <1>1, <1>2 DEF Matched
<1> HIDE DEF D, offered, Few, Many, givenFew, givenMany
<1>12. Cardinality(givenFew) <= Cardinality(givenMany)
  BY <1>4, <1>8, <1>9, <1>10
<1> QED
  BY <1>11, <1>12

\* Whatever an agent predicts in addition, it has at least as many matches: a
\* greedy matching is never hurt by a prediction more.
THEOREM ExtrasAreFree == Spec => []ExtrasNeverCostAMatch
  BY ExtrasFromIInv, Inductive, PTL

-----------------------------------------------------------------------------
\* Sums.  A count that grows by the size of a set, for every place, grows in sum
\* by the size of all these sets together if no two of them meet (AddCounts):
\* that is how the breakdown counts the claims of a case, category by category,
\* and how the rows count one more case.

UnitSet(count) == UNION {{i} \X (1 .. count[i]) : i \in DOMAIN count}

LEMMA UnitsAreFinite ==
  ASSUME NEW I, IsFiniteSet(I), NEW count \in [I -> Nat]
  PROVE  /\ IsFiniteSet(UnitSet(count)) /\ SumOf(count) = Cardinality(UnitSet(count))
         /\ SumOf(count) \in Nat
<1> DEFINE family == {{i} \X (1 .. count[i]) : i \in I}
           f == [i \in I |-> {i} \X (1 .. count[i])]
<1>1. f \in Surjection(I, family)
  BY DEF Surjection
<1>2. IsFiniteSet(family)
  BY <1>1, FS_Surjection
<1>3. \A i \in I : IsFiniteSet({i} \X (1 .. count[i]))
  <2> SUFFICES ASSUME NEW i \in I PROVE IsFiniteSet({i} \X (1 .. count[i]))
    OBVIOUS
  <2> DEFINE one == {i}
             units == 1 .. count[i]
  <2>1. IsFiniteSet(one) /\ IsFiniteSet(units)
    <3>1. 1 \in Int /\ count[i] \in Int
      OBVIOUS
    <3> QED
      BY <3>1, FS_Singleton, FS_Interval
  <2> HIDE DEF one, units
  <2>2. IsFiniteSet(one \X units)
    BY <2>1, FS_Product
  <2> QED
    BY <2>2 DEF one, units
<1>4. IsFiniteSet(UNION family)
  BY <1>2, <1>3, FS_UNION
<1>5. UnitSet(count) = UNION family /\ SumOf(count) = Cardinality(UnitSet(count))
  BY DEF UnitSet, SumOf
<1> QED
  BY <1>4, <1>5, FS_CardinalityType

LEMMA AddCounts ==
  ASSUME NEW I, IsFiniteSet(I), NEW few \in [I -> Nat], NEW count \in [I -> Nat],
         NEW R, \A i \in I : IsFiniteSet(R[i]),
         \A i \in I : count[i] = few[i] + Cardinality(R[i]),
         \A i, j \in I : i # j => R[i] \cap R[j] = {}
  PROVE  /\ SumOf(few) \in Nat
         /\ SumOf(count) = SumOf(few) + Cardinality(UNION {R[i] : i \in I})
<1> DEFINE All == UNION {R[i] : i \in I}
           New == {x \in UnitSet(count) : x[2] > few[x[1]]}
           b   == [i \in I |-> CHOOSE g : g \in Bijection(1 .. Cardinality(R[i]), R[i])]
           f   == [x \in New |-> b[x[1]][x[2] - few[x[1]]]]
<1>1. /\ IsFiniteSet(UnitSet(few)) /\ SumOf(few) = Cardinality(UnitSet(few))
      /\ IsFiniteSet(UnitSet(count)) /\ SumOf(count) = Cardinality(UnitSet(count))
      /\ SumOf(few) \in Nat /\ SumOf(count) \in Nat
  BY UnitsAreFinite
<1>2. \A i \in I : Cardinality(R[i]) \in Nat /\ b[i] \in Bijection(1 .. Cardinality(R[i]), R[i])
  <2> SUFFICES ASSUME NEW i \in I
               PROVE  Cardinality(R[i]) \in Nat
                      /\ b[i] \in Bijection(1 .. Cardinality(R[i]), R[i])
    OBVIOUS
  <2>1. Cardinality(R[i]) \in Nat /\ \E g : g \in Bijection(1 .. Cardinality(R[i]), R[i])
    BY FS_CardinalityType DEF ExistsBijection
  <2> QED
    BY <2>1
<1> HIDE DEF b
<1>3. \A x : x \in UnitSet(count) <=>
        x = << x[1], x[2] >> /\ x[1] \in I /\ x[2] \in 1 .. count[x[1]]
  BY DEF UnitSet
<1>4. \A x : x \in UnitSet(few) <=>
        x = << x[1], x[2] >> /\ x[1] \in I /\ x[2] \in 1 .. few[x[1]]
  BY DEF UnitSet
<1>5. \A x : x \in New <=>
        x = << x[1], x[2] >> /\ x[1] \in I /\ x[2] \in few[x[1]] + 1 .. count[x[1]]
  BY <1>3
<1>6. UnitSet(count) = UnitSet(few) \cup New /\ UnitSet(few) \cap New = {}
  <2>1. \A i \in I : Cardinality(R[i]) \in Nat /\ few[i] \in Nat /\ count[i] = few[i] + Cardinality(R[i])
    BY <1>2
  <2> HIDE DEF New
  <2>2. ASSUME NEW x
        PROVE  /\ x \in UnitSet(count) <=> x \in UnitSet(few) \/ x \in New
               /\ ~ (x \in UnitSet(few) /\ x \in New)
    BY <1>3, <1>4, <1>5, <2>1
  <2> QED
    BY <2>2
<1> HIDE DEF New
<1>7. \A x \in New : /\ x[1] \in I /\ x[2] - few[x[1]] \in 1 .. Cardinality(R[x[1]])
                     /\ f[x] \in R[x[1]]
  <2> SUFFICES ASSUME NEW x \in New
               PROVE  /\ x[1] \in I /\ x[2] - few[x[1]] \in 1 .. Cardinality(R[x[1]])
                      /\ f[x] \in R[x[1]]
    OBVIOUS
  <2> DEFINE i == x[1]
  <2>1. /\ i \in I /\ x[2] \in few[i] + 1 .. count[i] /\ few[i] \in Nat
        /\ count[i] = few[i] + Cardinality(R[i]) /\ Cardinality(R[i]) \in Nat
    BY <1>2, <1>5
  <2>2. x[2] - few[i] \in 1 .. Cardinality(R[i])
    BY <2>1
  <2>3. b[i][x[2] - few[i]] \in R[i]
    BY <1>2, <2>1, <2>2 DEF Bijection, Injection
  <2> QED
    BY <2>1, <2>2, <2>3
<1>8. \A x, y \in New : f[x] = f[y] => x = y
  <2> SUFFICES ASSUME NEW x \in New, NEW y \in New, f[x] = f[y] PROVE x = y
    OBVIOUS
  <2>1. x[1] = y[1]
    BY <1>7
  <2> DEFINE i == x[1]
             k == x[2] - few[i]
             l == y[2] - few[i]
  <2>2. /\ i \in I /\ k \in 1 .. Cardinality(R[i]) /\ l \in 1 .. Cardinality(R[i])
        /\ b[i][k] = b[i][l]
    BY <1>7, <2>1
  <2>3. k = l
    <3> HIDE DEF k, l, i
    <3>1. b[i] \in Bijection(1 .. Cardinality(R[i]), R[i])
      BY <1>2, <2>2
    <3> QED
      BY <2>2, <3>1 DEF Bijection, Injection, IsInjective
  <2>4. x[2] \in Int /\ y[2] \in Int /\ few[i] \in Nat
    BY <1>5, <2>1, <2>2
  <2>5. x[2] = y[2]
    BY <2>3, <2>4
  <2> QED
    BY <1>5, <2>1, <2>5
<1>9. \A r \in All : \E x \in New : f[x] = r
  <2> SUFFICES ASSUME NEW i \in I, NEW r \in R[i] PROVE \E x \in New : f[x] = r
    OBVIOUS
  <2>1. PICK k \in 1 .. Cardinality(R[i]) : b[i][k] = r
    BY <1>2 DEF Bijection, Surjection
  <2> DEFINE x == << i, few[i] + k >>
  <2>2. /\ x = << x[1], x[2] >> /\ x[1] = i /\ x[2] = few[i] + k /\ few[i] \in Nat
        /\ count[i] = few[i] + Cardinality(R[i]) /\ Cardinality(R[i]) \in Nat
    BY <1>2
  <2>3. few[i] + k \in few[i] + 1 .. count[i] /\ (few[i] + k) - few[i] = k
    BY <2>2
  <2>4. x \in New
    BY <1>5, <2>2, <2>3
  <2>5. f[x] = r
    BY <2>1, <2>2, <2>3, <2>4
  <2> QED
    BY <2>4, <2>5
<1>10. f \in Bijection(New, All)
  <2>1. f \in [New -> All]
    BY <1>7
  <2> QED
    BY <1>8, <1>9, <2>1 DEF Bijection, Injection, Surjection, IsInjective
<1>11. IsFiniteSet(New) /\ Cardinality(New) = Cardinality(All) /\ Cardinality(New) \in Nat
  <2>1. IsFiniteSet(New) /\ Cardinality(New) \in Nat
    BY <1>1, <1>6, FS_Subset, FS_CardinalityType
  <2> HIDE DEF f, All
  <2> QED
    BY <1>10, <2>1, FS_Bijection DEF ExistsBijection
<1>12. Cardinality(UnitSet(few) \cap New) = 0
  BY <1>6, FS_EmptySet
<1>13. Cardinality(UnitSet(few) \cup New) = Cardinality(UnitSet(few)) + Cardinality(New)
  <2>1. Cardinality(UnitSet(few) \cup New) =
          Cardinality(UnitSet(few)) + Cardinality(New) - Cardinality(UnitSet(few) \cap New)
    BY <1>1, <1>11, FS_Union
  <2> QED
    BY <1>1, <1>11, <1>12, <2>1
<1> HIDE DEF All
<1>14. SumOf(count) = SumOf(few) + Cardinality(All)
  BY <1>1, <1>6, <1>11, <1>13
<1> QED
  BY <1>1, <1>14 DEF All

\* Of two counts, one nowhere more than the other, the sums are equal only when
\* the counts are; and a sum is zero only when every count is.
LEMMA CompareSums ==
  ASSUME NEW I, IsFiniteSet(I), NEW few \in [I -> Nat], NEW count \in [I -> Nat],
         \A i \in I : few[i] <= count[i]
  PROVE  /\ SumOf(few) = SumOf(count) <=> \A i \in I : few[i] = count[i]
         /\ SumOf(few) = 0 <=> \A i \in I : few[i] = 0
<1>1. /\ IsFiniteSet(UnitSet(few)) /\ SumOf(few) = Cardinality(UnitSet(few))
      /\ IsFiniteSet(UnitSet(count)) /\ SumOf(count) = Cardinality(UnitSet(count))
  BY UnitsAreFinite
<1>2. \A i \in I : /\ \A n : << i, n >> \in UnitSet(few) <=> n \in 1 .. few[i]
                   /\ \A n : << i, n >> \in UnitSet(count) <=> n \in 1 .. count[i]
  BY DEF UnitSet
<1>3. UnitSet(few) \in SUBSET UnitSet(count)
  <2>1. \A i \in I : 1 .. few[i] \subseteq 1 .. count[i]
    OBVIOUS
  <2> QED
    BY <2>1 DEF UnitSet
<1>4. SumOf(few) = SumOf(count) => \A i \in I : few[i] = count[i]
  <2> SUFFICES ASSUME SumOf(few) = SumOf(count), NEW i \in I PROVE few[i] = count[i]
    OBVIOUS
  <2>1. UnitSet(few) = UnitSet(count)
    BY <1>1, <1>3, FS_Subset
  <2>2. few[i] \in Nat /\ count[i] \in Nat /\ few[i] <= count[i]
    OBVIOUS
  <2>3. count[i] \in 1 .. count[i] <=> count[i] \in 1 .. few[i]
    BY <1>2, <2>1
  <2> QED
    BY <2>2, <2>3
<1>5. (\A i \in I : few[i] = count[i]) => SumOf(few) = SumOf(count)
  <2> SUFFICES ASSUME \A i \in I : few[i] = count[i] PROVE SumOf(few) = SumOf(count)
    OBVIOUS
  <2>1. few = count
    OBVIOUS
  <2> QED
    BY <2>1
<1>6. SumOf(few) = 0 => \A i \in I : few[i] = 0
  <2> SUFFICES ASSUME SumOf(few) = 0, NEW i \in I PROVE few[i] = 0
    OBVIOUS
  <2>1. UnitSet(few) = {}
    BY <1>1, FS_EmptySet
  <2>2. few[i] \notin 1 .. few[i] /\ few[i] \in Nat
    BY <1>2, <2>1
  <2> QED
    BY <2>2
<1>7. (\A i \in I : few[i] = 0) => SumOf(few) = 0
  <2> SUFFICES ASSUME \A i \in I : few[i] = 0 PROVE SumOf(few) = 0
    OBVIOUS
  <2>1. UnitSet(few) = {}
    BY DEF UnitSet
  <2> QED
    BY <1>1, <2>1, FS_EmptySet
<1> QED
  BY <1>4, <1>5, <1>6, <1>7

\* A count that is no longer zero adds itself.
LEMMA CountOne ==
  ASSUME NEW I, IsFiniteSet(I), NEW few \in [I -> Nat], NEW count \in [I -> Nat], NEW m \in I,
         few[m] = 0, \A i \in I \ {m} : count[i] = few[i]
  PROVE  SumOf(count) = SumOf(few) + count[m]
<1> DEFINE R == [i \in I |-> IF i = m THEN 1 .. count[m] ELSE {}]
<1>1. /\ IsFiniteSet({}) /\ Cardinality({}) = 0
      /\ IsFiniteSet(1 .. count[m]) /\ Cardinality(1 .. count[m]) = count[m]
  BY FS_EmptySet, FS_Interval
<1>2. \A i \in I : R[i] = IF i = m THEN 1 .. count[m] ELSE {}
  OBVIOUS
<1> HIDE DEF R
<1>3. \A i \in I : IsFiniteSet(R[i])
  BY <1>1, <1>2
<1>4. \A i \in I : count[i] = few[i] + Cardinality(R[i])
  BY <1>1, <1>2
<1>5. \A i, j \in I : i # j => R[i] \cap R[j] = {}
  BY <1>2
<1>6. UNION {R[i] : i \in I} = 1 .. count[m]
  BY <1>2
<1>7. SumOf(count) = SumOf(few) + Cardinality(UNION {R[i] : i \in I})
  BY <1>3, <1>4, <1>5, AddCounts
<1> QED
  BY <1>1, <1>6, <1>7

\* One more row adds its count.
LEMMA OneMoreRow ==
  ASSUME NEW n \in Nat, NEW few \in [1 .. n -> Nat], NEW count \in [1 .. n + 1 -> Nat],
         \A k \in 1 .. n : count[k] = few[k]
  PROVE  SumOf(count) = SumOf(few) + count[n + 1]
<1> DEFINE I == 1 .. n + 1
           zero == [k \in I |-> IF k = n + 1 THEN 0 ELSE few[k]]
<1>1. /\ IsFiniteSet(I) /\ n + 1 \in I
      /\ \A k \in I : k = n + 1 \/ k \in 1 .. n
  BY FS_Interval
<1>2. /\ zero \in [I -> Nat]
      /\ \A k \in 1 .. n : zero[k] = few[k]
      /\ zero[n + 1] = 0
  BY <1>1
<1>3. SumOf(count) = SumOf(zero) + count[n + 1]
  BY <1>1, <1>2, CountOne
<1>4. SumOf(zero) = SumOf(few)
  <2>1. DOMAIN zero = I /\ DOMAIN few = 1 .. n
    BY <1>2
  <2>2. ASSUME NEW x PROVE x \in UnitSet(zero) <=> x \in UnitSet(few)
    <3>1. x \in UnitSet(zero) <=> \E k \in I : x \in {k} \X (1 .. zero[k])
      BY <2>1 DEF UnitSet
    <3>2. x \in UnitSet(few) <=> \E k \in 1 .. n : x \in {k} \X (1 .. few[k])
      BY <2>1 DEF UnitSet
    <3>3. 1 .. zero[n + 1] = {}
      BY <1>2
    <3>4. \A k \in 1 .. n : k \in I /\ zero[k] = few[k]
      BY <1>2
    <3> HIDE DEF zero, I
    <3> QED
      BY <1>1, <3>1, <3>2, <3>3, <3>4
  <2>3. UnitSet(zero) = UnitSet(few)
    BY <2>2
  <2> QED
    BY <2>3 DEF SumOf, UnitSet
<1> QED
  BY <1>3, <1>4

\* What the breakdown adds for a set X of a case's claims is how many of X have
\* one of the issues.
LEMMA CategoriesAdd ==
  ASSUME case \in DOMAIN GroundTruth, NEW I \in SUBSET Categories, NEW X \in SUBSET DOMAIN Claims,
         NEW few \in [I -> Nat], NEW count \in [I -> Nat],
         \A i \in I : count[i] = few[i] + Cardinality(Relevant({i}) \cap X)
  PROVE  SumOf(count) = SumOf(few) + Cardinality(Relevant(I) \cap X)
<1> DEFINE R == [i \in I |-> Relevant({i}) \cap X]
<1>1. IsFiniteSet(Categories) /\ IsFiniteSet(I)
  <2>1. IsFiniteSet(IssueTypes) /\ IsFiniteSet({"none_clean"})
    BY ScoringAssumption, FS_Singleton
  <2>2. IsFiniteSet(Categories)
    BY <2>1, FS_Union DEF Categories
  <2> QED
    BY <2>2, FS_Subset
<1>2. IsFiniteSet(DOMAIN Claims)
  <2>1. Len(Claims) \in Int /\ 1 \in Int /\ DOMAIN Claims = 1 .. Len(Claims)
    BY ClaimsType
  <2> QED
    BY <2>1, FS_Interval
<1>3. \A i \in I : IsFiniteSet(R[i])
  <2>1. \A i \in I : R[i] \in SUBSET DOMAIN Claims
    OBVIOUS
  <2> QED
    BY <1>2, <2>1, FS_Subset
<1>4. \A i, j \in I : i # j => R[i] \cap R[j] = {}
  BY DEF Relevant
<1>5. UNION {R[i] : i \in I} = Relevant(I) \cap X
  BY DEF Relevant
<1>6. \A i \in I : count[i] = few[i] + Cardinality(R[i])
  OBVIOUS
<1> HIDE DEF R
<1> QED
  BY <1>1, <1>3, <1>4, <1>5, <1>6, AddCounts

Rate == {r \in [right : Nat, of : Nat] : r.right <= r.of}
Row  == [valid : BOOLEAN, total : Nat, matched : Nat, missed : SUBSET Nat, extra : Nat,
         accuracy : Rate, contradiction : Rate, missing : Rate]
Stat == [total : Nat, matched : Nat, correct : Nat]

\* Column by column, the categories add up to the rows.
ColumnsAddUp ==
  /\ Pooled(Categories).total = SumOf([k \in DOMAIN rows |-> rows[k].total])
  /\ Pooled(Categories).matched = SumOf([k \in DOMAIN rows |-> rows[k].matched])
  /\ Pooled(Categories).correct = SumOf([k \in DOMAIN rows |-> rows[k].accuracy.right])
  /\ Pooled(Contradictions).correct =
       SumOf([k \in DOMAIN rows |-> rows[k].contradiction.right])
  /\ Pooled(MissingEvidence).correct = SumOf([k \in DOMAIN rows |-> rows[k].missing.right])

\* What is wrong in a row's recall is wrong in one of its categories.
Shows(rate, S, issues) ==
  rate.right < rate.of => \E i \in issues \cap Categories : S[i].correct < S[i].total

Wrong(R, S) ==
  /\ \A i \in Categories : S[i].correct <= S[i].total
  /\ \A k \in DOMAIN R : /\ R[k].accuracy.of = R[k].matched
                         /\ ~ R[k].valid => R[k].matched = 0 /\ R[k].contradiction.of = 0
                                            /\ R[k].missing.of = 0
                         /\ Shows(R[k].contradiction, S, Contradictions)
                         /\ Shows(R[k].missing, S, MissingEvidence)

\* A failed case has no predictions to match: the breakdown, which does not
\* look at the failure, counts it as the row does.
Reports ==
  /\ pc = "matching" /\ failed => predicted = << >>
  /\ rows \in Seq(Row) /\ stats \in [Categories -> Stat]
  /\ ColumnsAddUp /\ Wrong(rows, stats)

LEMMA SizesAreNumbers ==
  ASSUME case \in DOMAIN GroundTruth, NEW X \in SUBSET DOMAIN Claims
  PROVE  Cardinality(X) \in Nat
<1>1. Len(Claims) \in Int /\ 1 \in Int /\ DOMAIN Claims = 1 .. Len(Claims)
  BY ClaimsType
<1>2. IsFiniteSet(DOMAIN Claims)
  BY <1>1, FS_Interval
<1> QED
  BY <1>2, FS_Subset, FS_CardinalityType

\* All claims of a case are done, and a failed case has none matched.
LEMMA AtTheEnd ==
  ASSUME IInv, Reports, ScoreCase
  PROVE  /\ case \in DOMAIN GroundTruth /\ DOMAIN matches = DOMAIN Claims
         /\ Matched \in SUBSET DOMAIN Claims /\ Correct \in SUBSET Matched
         /\ failed => Matched = {}
         /\ Cardinality(unused) \in Nat
<1>1. /\ case \in DOMAIN GroundTruth /\ predicted \in Seq(Predictions)
      /\ matches \in Seq({0} \cup DOMAIN predicted) /\ Len(matches) = claim - 1
      /\ claim = Len(Claims) + 1 /\ pc = "matching" /\ unused \subseteq DOMAIN predicted
  BY DEF IInv, ScoreCase, Matcher, Typed, Leftover
<1>2. DOMAIN matches = DOMAIN Claims
  BY <1>1, ClaimsType
<1>3. failed => Matched = {}
  <2>1. failed => DOMAIN predicted = {}
    BY <1>1 DEF Reports
  <2> QED
    BY <1>1, <2>1 DEF Matched
<1>4. Cardinality(unused) \in Nat
  <2>1. Len(predicted) \in Int /\ 1 \in Int /\ DOMAIN predicted = 1 .. Len(predicted)
    BY <1>1
  <2>2. IsFiniteSet(DOMAIN predicted)
    BY <2>1, FS_Interval
  <2> QED
    BY <1>1, <2>2, FS_Subset, FS_CardinalityType
<1> QED
  BY <1>1, <1>2, <1>3, <1>4 DEF Matched, Correct

LEMMA PartIsSmaller ==
  ASSUME case \in DOMAIN GroundTruth, NEW X \in SUBSET DOMAIN Claims, NEW Y \in SUBSET X
  PROVE  /\ Cardinality(Y) <= Cardinality(X)
         /\ Y # X => Cardinality(Y) < Cardinality(X)
<1>1. Len(Claims) \in Int /\ 1 \in Int /\ DOMAIN Claims = 1 .. Len(Claims)
  BY ClaimsType
<1>2. IsFiniteSet(X)
  BY <1>1, FS_Interval, FS_Subset
<1>3. Cardinality(X) \in Nat /\ Cardinality(Y) \in Nat
  BY <1>2, FS_Subset, FS_CardinalityType
<1>4. Cardinality(Y) <= Cardinality(X) /\ (Cardinality(Y) = Cardinality(X) => Y = X)
  BY <1>2, FS_Subset
<1> QED
  BY <1>3, <1>4

\* The row of a case, failed or not, in the terms of the breakdown.
LEMMA MetricsCount ==
  ASSUME IInv, Reports, ScoreCase
  PROVE  /\ Metrics \in Row
         /\ Metrics.total = Cardinality(Relevant(Categories) \cap DOMAIN Claims)
         /\ Metrics.matched = Cardinality(Relevant(Categories) \cap Matched)
         /\ Metrics.accuracy.right = Cardinality(Relevant(Categories) \cap Correct)
         /\ Metrics.contradiction.right =
              Cardinality(Relevant(Contradictions \cap Categories) \cap Correct)
         /\ Metrics.missing.right =
              Cardinality(Relevant(MissingEvidence \cap Categories) \cap Correct)
<1>1. /\ case \in DOMAIN GroundTruth /\ Matched \in SUBSET DOMAIN Claims
      /\ Correct \in SUBSET Matched /\ (failed => Matched = {})
      /\ Cardinality(unused) \in Nat
  BY AtTheEnd
<1>2. /\ Claims \in Seq([doc : Documents, expected : Statuses, issue : Categories])
      /\ Len(Claims) \in Nat /\ DOMAIN Claims = 1 .. Len(Claims)
  BY <1>1, ClaimsType
<1>3. \A c \in DOMAIN Claims : Claims[c].issue \in Categories
  <2> DEFINE C == [doc : Documents, expected : Statuses, issue : Categories]
  <2>1. \A x \in C : x.issue \in Categories
    OBVIOUS
  <2>2. Claims \in Seq(C)
    BY <1>2
  <2> HIDE DEF C
  <2>3. \A c \in DOMAIN Claims : Claims[c] \in C
    BY <1>2, <2>2
  <2> QED
    BY <2>1, <2>3
<1>4. /\ Relevant(Categories) = DOMAIN Claims
      /\ \A issues : Relevant(issues \cap Categories) = Relevant(issues)
      /\ \A issues : Relevant(issues) \in SUBSET DOMAIN Claims
  BY <1>3 DEF Relevant
<1>5. Cardinality(DOMAIN Claims) = Len(Claims)
  BY <1>2, FS_Interval
<1>6. Cardinality({}) = 0
  BY FS_EmptySet
<1>7. /\ Relevant(Categories) \cap DOMAIN Claims = DOMAIN Claims
      /\ Relevant(Categories) \cap Matched = Matched
      /\ Relevant(Categories) \cap Correct = Correct
  <2>1. \A X \in SUBSET DOMAIN Claims : DOMAIN Claims \cap X = X
    OBVIOUS
  <2>2. Correct \in SUBSET DOMAIN Claims /\ DOMAIN Claims \in SUBSET DOMAIN Claims
    BY <1>1
  <2> QED
    BY <1>1, <1>4, <2>1, <2>2
<1>8. failed => /\ Cardinality(Matched) = 0 /\ Cardinality(Correct) = 0
                /\ \A issues : Cardinality(Relevant(issues) \cap Correct) = 0
  <2> SUFFICES ASSUME failed
               PROVE  /\ Cardinality(Matched) = 0 /\ Cardinality(Correct) = 0
                      /\ \A issues : Cardinality(Relevant(issues) \cap Correct) = 0
    OBVIOUS
  <2>1. Matched = {} /\ Correct = {}
    BY <1>1
  <2>2. \A X : X \cap Correct = {}
    BY <2>1
  <2> QED
    BY <1>6, <2>1, <2>2
<1>9. Cardinality(Matched) \in Nat /\ Cardinality(Correct) \in Nat
  <2>1. Correct \in SUBSET DOMAIN Claims
    BY <1>1
  <2> QED
    BY <1>1, <2>1, SizesAreNumbers
<1>10. \A issues : Recall(issues) \in Rate
  <2> SUFFICES ASSUME NEW issues PROVE Recall(issues) \in Rate
    OBVIOUS
  <2>1. /\ Relevant(issues) \in SUBSET DOMAIN Claims
        /\ Relevant(issues) \cap Correct \in SUBSET DOMAIN Claims
    BY <1>4
  <2>2. /\ Cardinality(Relevant(issues)) \in Nat
        /\ Cardinality(Relevant(issues) \cap Correct) \in Nat
    BY <1>1, <2>1, SizesAreNumbers
  <2>3. Cardinality(Relevant(issues) \cap Correct) <= Cardinality(Relevant(issues))
    BY <1>1, <2>1, PartIsSmaller
  <2> QED
    BY <2>2, <2>3 DEF Recall, Rate
<1>11. NoRate \in Rate /\ NoRate.right = 0
  BY DEF NoRate, Rate
<1>12. \A issues : Recall(issues).right = Cardinality(Relevant(issues) \cap Correct)
  BY DEF Recall
<1> DEFINE accuracy == [right |-> Cardinality(Correct), of |-> Cardinality(Matched)]
<1>13. Metrics \in Row
  <2>1. DOMAIN Claims \in SUBSET Nat /\ DOMAIN Claims \ Matched \in SUBSET Nat
        /\ (~ failed) \in BOOLEAN
    BY <1>2
  <2>2. accuracy \in Rate
    <3>1. Cardinality(Correct) <= Cardinality(Matched)
      BY <1>1, PartIsSmaller
    <3> QED
      BY <1>9, <3>1 DEF Rate
  <2>3. Metrics.accuracy \in Rate
    BY <1>11, <2>2 DEF Metrics
  <2>4. Metrics.contradiction \in Rate /\ Metrics.missing \in Rate
    BY <1>10, <1>11 DEF Metrics
  <2> HIDE DEF accuracy
  <2> QED
    BY <1>1, <1>2, <1>9, <2>1, <2>3, <2>4 DEF Metrics, Row
<1>14. /\ Metrics.total = Len(Claims)
       /\ Metrics.matched = IF failed THEN 0 ELSE Cardinality(Matched)
       /\ Metrics.accuracy.right = IF failed THEN 0 ELSE Cardinality(Correct)
       /\ Metrics.contradiction.right =
            IF failed THEN 0 ELSE Cardinality(Relevant(Contradictions) \cap Correct)
       /\ Metrics.missing.right =
            IF failed THEN 0 ELSE Cardinality(Relevant(MissingEvidence) \cap Correct)
  BY <1>11, <1>12 DEF Metrics
<1>15. /\ Metrics.contradiction.right = Cardinality(Relevant(Contradictions) \cap Correct)
       /\ Metrics.missing.right = Cardinality(Relevant(MissingEvidence) \cap Correct)
       /\ Metrics.matched = Cardinality(Matched) /\ Metrics.accuracy.right = Cardinality(Correct)
  BY <1>8, <1>14
<1>16. /\ Relevant(Contradictions \cap Categories) = Relevant(Contradictions)
       /\ Relevant(MissingEvidence \cap Categories) = Relevant(MissingEvidence)
  BY <1>4
<1> QED
  BY <1>5, <1>7, <1>13, <1>14, <1>15, <1>16

\* What the breakdown of a category becomes.
LEMMA CountedStats ==
  ASSUME IInv, Reports, ScoreCase
  PROVE  /\ stats' \in [Categories -> Stat]
         /\ \A i \in Categories :
              /\ stats'[i].total = stats[i].total + Cardinality(Relevant({i}) \cap DOMAIN Claims)
              /\ stats'[i].matched = stats[i].matched + Cardinality(Relevant({i}) \cap Matched)
              /\ stats'[i].correct = stats[i].correct + Cardinality(Relevant({i}) \cap Correct)
<1>1. /\ case \in DOMAIN GroundTruth /\ DOMAIN Claims \in SUBSET DOMAIN Claims
      /\ Matched \in SUBSET DOMAIN Claims /\ Correct \in SUBSET DOMAIN Claims
  BY AtTheEnd
<1>2. stats \in [Categories -> Stat] /\ stats' = Counted
  BY DEF Reports, ScoreCase
<1>3. \A X \in SUBSET DOMAIN Claims : \A i : Cardinality(Relevant({i}) \cap X) \in Nat
  <2>1. \A X \in SUBSET DOMAIN Claims : \A i : Relevant({i}) \cap X \in SUBSET DOMAIN Claims
    OBVIOUS
  <2> QED
    BY <1>1, <2>1, SizesAreNumbers
<1>4. ASSUME NEW i \in Categories
      PROVE  /\ stats'[i] \in Stat
             /\ stats'[i].total = stats[i].total + Cardinality(Relevant({i}) \cap DOMAIN Claims)
             /\ stats'[i].matched = stats[i].matched + Cardinality(Relevant({i}) \cap Matched)
             /\ stats'[i].correct = stats[i].correct + Cardinality(Relevant({i}) \cap Correct)
  <2>1. stats[i].total \in Nat /\ stats[i].matched \in Nat /\ stats[i].correct \in Nat
    BY <1>2 DEF Stat
  <2>2. Relevant({i}) \cap DOMAIN Claims = Relevant({i})
    BY DEF Relevant
  <2>3. PICK a \in Nat, b \in Nat, c \in Nat :
          /\ a = Cardinality(Relevant({i})) /\ b = Cardinality(Relevant({i}) \cap Matched)
          /\ c = Cardinality(Relevant({i}) \cap Correct)
    <3>1. Cardinality(Relevant({i})) = Cardinality(Relevant({i}) \cap DOMAIN Claims)
      BY <2>2
    <3> QED
      BY <1>1, <1>3, <3>1
  <2>4. a = Cardinality(Relevant({i}) \cap DOMAIN Claims)
    BY <2>2, <2>3
  <2>5. stats'[i] = [total |-> stats[i].total + a, matched |-> stats[i].matched + b,
                     correct |-> stats[i].correct + c]
    BY <1>2, <2>3 DEF Counted
  <2>6. stats'[i] \in Stat /\ stats'[i].total = stats[i].total + a
        /\ stats'[i].matched = stats[i].matched + b /\ stats'[i].correct = stats[i].correct + c
    BY <2>1, <2>5 DEF Stat
  <2> QED
    BY <2>3, <2>4, <2>6
<1> QED
  BY <1>2, <1>4 DEF Counted

\* A recall that is not full has a claim of its issues that is not right, and so
\* has that claim's category.
LEMMA RecallIsShown ==
  ASSUME case \in DOMAIN GroundTruth, NEW issues,
         NEW S, \A i \in Categories :
           Cardinality(Relevant({i}) \cap Correct) < Cardinality(Relevant({i})) =>
             S[i].correct < S[i].total
  PROVE  Shows(Recall(issues), S, issues)
<1> SUFFICES ASSUME Recall(issues).right < Recall(issues).of
             PROVE  \E i \in issues \cap Categories : S[i].correct < S[i].total
  BY DEF Shows
<1>1. Cardinality(Relevant(issues) \cap Correct) < Cardinality(Relevant(issues))
  BY DEF Recall
<1>2. \A X : Relevant(X) \in SUBSET DOMAIN Claims
  BY DEF Relevant
<1>3. Cardinality(Relevant(issues)) \in Nat
  BY <1>2, SizesAreNumbers
<1>4. PICK c \in Relevant(issues) : c \notin Correct
  <2>1. CASE Relevant(issues) \subseteq Correct
    <3>1. Relevant(issues) \cap Correct = Relevant(issues)
      BY <2>1
    <3> QED
      BY <1>1, <1>3, <3>1
  <2> QED
    BY <2>1
<1>5. PICK i : i = Claims[c].issue
  OBVIOUS
<1>6. i \in issues \cap Categories
  <2> DEFINE C == [doc : Documents, expected : Statuses, issue : Categories]
  <2>1. \A x \in C : x.issue \in Categories
    OBVIOUS
  <2>2. Claims \in Seq(C) /\ c \in DOMAIN Claims /\ DOMAIN Claims = 1 .. Len(Claims)
    BY ClaimsType DEF Relevant
  <2> HIDE DEF C
  <2>3. Claims[c] \in C
    BY <2>2
  <2> QED
    BY <1>4, <1>5, <2>1, <2>3 DEF Relevant
<1>7. Relevant({i}) \cap Correct # Relevant({i})
  BY <1>4, <1>5 DEF Relevant
<1>8. Cardinality(Relevant({i}) \cap Correct) < Cardinality(Relevant({i}))
  <2>1. Relevant({i}) \cap Correct \in SUBSET Relevant({i})
    OBVIOUS
  <2> QED
    BY <1>2, <1>7, <2>1, PartIsSmaller
<1> QED
  BY <1>6, <1>8

\* One more case: its own recalls are shown, and what was wrong stays.
LEMMA WrongIsShown == ASSUME IInv, Reports, ScoreCase PROVE Wrong(rows', stats')
<1>1. /\ case \in DOMAIN GroundTruth /\ Correct \in SUBSET DOMAIN Claims
      /\ failed => Matched = {}
  BY AtTheEnd
<1>2. ASSUME NEW i \in Categories
      PROVE  /\ stats'[i].correct <= stats'[i].total
             /\ stats[i].correct < stats[i].total => stats'[i].correct < stats'[i].total
             /\ Cardinality(Relevant({i}) \cap Correct) < Cardinality(Relevant({i})) =>
                  stats'[i].correct < stats'[i].total
  <2>1. PICK a, b : a = Cardinality(Relevant({i})) /\ b = Cardinality(Relevant({i}) \cap Correct)
    OBVIOUS
  <2>2. Relevant({i}) \in SUBSET DOMAIN Claims /\ Relevant({i}) \cap DOMAIN Claims = Relevant({i})
    BY DEF Relevant
  <2>3. a \in Nat /\ b \in Nat /\ b <= a
    <3>1. Relevant({i}) \cap Correct \in SUBSET Relevant({i})
      OBVIOUS
    <3>2. Relevant({i}) \cap Correct \in SUBSET DOMAIN Claims
      BY <1>1
    <3> QED
      BY <1>1, <2>1, <2>2, <3>1, <3>2, SizesAreNumbers, PartIsSmaller
  <2>4. stats'[i].total = stats[i].total + a /\ stats'[i].correct = stats[i].correct + b
    BY <2>1, <2>2, CountedStats
  <2>5. stats[i].total \in Nat /\ stats[i].correct \in Nat /\ stats[i].correct <= stats[i].total
    BY DEF Reports, Wrong, Stat
  <2> QED
    BY <2>1, <2>3, <2>4, <2>5
<1>3. PICK S : S = stats'
  OBVIOUS
<1>4. \A rate, issues : Shows(rate, stats, issues) => Shows(rate, S, issues)
  BY <1>2, <1>3 DEF Shows
<1>5. PICK row \in Row : row = Metrics
  BY MetricsCount
<1>6. PICK n \in Nat : n = Len(rows) /\ DOMAIN rows = 1 .. n
  BY DEF Reports
<1>7. /\ DOMAIN rows' = 1 .. n + 1 /\ rows'[n + 1] = row
      /\ \A k \in 1 .. n : rows'[k] = rows[k]
  <2>1. rows \in Seq(Row) /\ rows' = Append(rows, row)
    BY <1>5 DEF Reports, ScoreCase
  <2> HIDE DEF Row
  <2> QED
    BY <1>6, <2>1
<1>8. /\ row.accuracy.of = row.matched
      /\ ~ row.valid => row.matched = 0 /\ row.contradiction.of = 0 /\ row.missing.of = 0
      /\ row.contradiction \in {NoRate, Recall(Contradictions)}
      /\ row.missing \in {NoRate, Recall(MissingEvidence)}
  BY <1>5 DEF Metrics, NoRate
<1>9. Shows(row.contradiction, S, Contradictions) /\ Shows(row.missing, S, MissingEvidence)
  <2>1. \A issues : Shows(NoRate, S, issues)
    BY DEF Shows, NoRate
  <2>2. \A i \in Categories :
          Cardinality(Relevant({i}) \cap Correct) < Cardinality(Relevant({i})) =>
            S[i].correct < S[i].total
    BY <1>2, <1>3
  <2>3. \A issues : Shows(Recall(issues), S, issues)
    BY <1>1, <2>2, RecallIsShown
  <2> QED
    BY <1>8, <2>1, <2>3
<1>10. ASSUME NEW k \in 1 .. n + 1
       PROVE  /\ rows'[k].accuracy.of = rows'[k].matched
              /\ ~ rows'[k].valid => rows'[k].matched = 0 /\ rows'[k].contradiction.of = 0
                                     /\ rows'[k].missing.of = 0
              /\ Shows(rows'[k].contradiction, S, Contradictions)
              /\ Shows(rows'[k].missing, S, MissingEvidence)
  <2>1. CASE k = n + 1
    BY <1>7, <1>8, <1>9, <2>1
  <2>2. CASE k \in 1 .. n
    BY <1>4, <1>6, <1>7, <2>2 DEF Reports, Wrong
  <2> QED
    BY <2>1, <2>2
<1> QED
  BY <1>2, <1>3, <1>7, <1>10 DEF Wrong

\* One more case counted, in both reports.
LEMMA ScoreCaseKeepsReports == ASSUME IInv, Reports, ScoreCase PROVE Reports'
<1> DEFINE n == Len(rows)
           All == Categories \cap Categories
           C == Contradictions \cap Categories
           E == MissingEvidence \cap Categories
<1>1. /\ case \in DOMAIN GroundTruth /\ DOMAIN Claims \in SUBSET DOMAIN Claims
      /\ Matched \in SUBSET DOMAIN Claims /\ Correct \in SUBSET DOMAIN Claims
  BY AtTheEnd
<1>2. PICK row \in Row : row = Metrics
  BY MetricsCount
<1>3. /\ rows \in Seq(Row) /\ n \in Nat /\ DOMAIN rows = 1 .. n
      /\ \A k \in 1 .. n : rows[k] \in Row
  BY DEF Reports
<1>4. PICK rows2 \in Seq(Row) :
        /\ rows2 = rows' /\ DOMAIN rows2 = 1 .. n + 1
        /\ \A k \in 1 .. n : rows2[k] = rows[k]
        /\ rows2[n + 1] = row
        /\ \A k \in 1 .. n + 1 : rows2[k] \in Row
  <2> HIDE DEF Row
  <2>1. rows' = Append(rows, row)
    BY <1>2 DEF ScoreCase
  <2> QED
    BY <1>3, <2>1
<1>5. PICK stats2 \in [Categories -> Stat] :
        /\ stats2 = stats'
        /\ \A i \in Categories :
             /\ stats2[i].total = stats[i].total + Cardinality(Relevant({i}) \cap DOMAIN Claims)
             /\ stats2[i].matched = stats[i].matched + Cardinality(Relevant({i}) \cap Matched)
             /\ stats2[i].correct = stats[i].correct + Cardinality(Relevant({i}) \cap Correct)
  BY CountedStats
<1>6. /\ row.total = Cardinality(Relevant(All) \cap DOMAIN Claims)
      /\ row.matched = Cardinality(Relevant(All) \cap Matched)
      /\ row.accuracy.right = Cardinality(Relevant(All) \cap Correct)
      /\ row.contradiction.right = Cardinality(Relevant(C) \cap Correct)
      /\ row.missing.right = Cardinality(Relevant(E) \cap Correct)
  <2>1. All = Categories
    OBVIOUS
  <2> QED
    BY <1>2, <2>1, MetricsCount
<1>7. /\ \A s \in Stat : s.total \in Nat /\ s.matched \in Nat /\ s.correct \in Nat
      /\ \A r \in Row : r.total \in Nat /\ r.matched \in Nat /\ r.accuracy.right \in Nat
            /\ r.contradiction.right \in Nat /\ r.missing.right \in Nat
      /\ \A i \in Categories : stats[i] \in Stat /\ stats2[i] \in Stat
  BY DEF Stat, Row, Rate, Reports
<1>8. All \in SUBSET Categories /\ C \in SUBSET Categories /\ E \in SUBSET Categories
  OBVIOUS
<1> HIDE DEF n, All, C, E
<1>9. ASSUME SumOf([i \in All |-> stats[i].total]) = SumOf([k \in DOMAIN rows |-> rows[k].total])
      PROVE  SumOf([i \in All |-> stats2[i].total]) = SumOf([k \in DOMAIN rows2 |-> rows2[k].total])
  <2>1. PICK few \in [All -> Nat], count \in [All -> Nat], fewRows \in [1 .. n -> Nat],
             countRows \in [1 .. n + 1 -> Nat] :
          /\ few = [i \in All |-> stats[i].total] /\ count = [i \in All |-> stats2[i].total]
          /\ fewRows = [k \in DOMAIN rows |-> rows[k].total]
          /\ countRows = [k \in DOMAIN rows2 |-> rows2[k].total]
    BY <1>3, <1>4, <1>7, <1>8
  <2>2. \A i \in All : count[i] = few[i] + Cardinality(Relevant({i}) \cap DOMAIN Claims)
    BY <1>5, <1>8, <2>1
  <2>3. /\ \A k \in 1 .. n : countRows[k] = fewRows[k]
        /\ countRows[n + 1] = Cardinality(Relevant(All) \cap DOMAIN Claims)
    BY <1>3, <1>4, <1>6, <2>1
  <2>4. SumOf(few) = SumOf(fewRows)
    BY <1>9, <2>1
  <2>5. SumOf(count) = SumOf(few) + Cardinality(Relevant(All) \cap DOMAIN Claims)
    <3>1. PICK X : X = DOMAIN Claims
      OBVIOUS
    <3>2. X \in SUBSET DOMAIN Claims
      BY <3>1
    <3>3. \A i \in All : count[i] = few[i] + Cardinality(Relevant({i}) \cap X)
      BY <2>2, <3>1
    <3>4. SumOf(count) = SumOf(few) + Cardinality(Relevant(All) \cap X)
      BY <1>1, <1>8, <3>2, <3>3, CategoriesAdd
    <3> QED
      BY <3>1, <3>4
  <2>6. SumOf(countRows) = SumOf(fewRows) + countRows[n + 1]
    BY <1>3, <2>3, OneMoreRow
  <2> QED
    BY <2>1, <2>3, <2>4, <2>5, <2>6
<1>10. ASSUME SumOf([i \in All |-> stats[i].matched]) = SumOf([k \in DOMAIN rows |-> rows[k].matched])
      PROVE  SumOf([i \in All |-> stats2[i].matched]) = SumOf([k \in DOMAIN rows2 |-> rows2[k].matched])
  <2>1. PICK few \in [All -> Nat], count \in [All -> Nat], fewRows \in [1 .. n -> Nat],
             countRows \in [1 .. n + 1 -> Nat] :
          /\ few = [i \in All |-> stats[i].matched] /\ count = [i \in All |-> stats2[i].matched]
          /\ fewRows = [k \in DOMAIN rows |-> rows[k].matched]
          /\ countRows = [k \in DOMAIN rows2 |-> rows2[k].matched]
    BY <1>3, <1>4, <1>7, <1>8
  <2>2. \A i \in All : count[i] = few[i] + Cardinality(Relevant({i}) \cap Matched)
    BY <1>5, <1>8, <2>1
  <2>3. /\ \A k \in 1 .. n : countRows[k] = fewRows[k]
        /\ countRows[n + 1] = Cardinality(Relevant(All) \cap Matched)
    BY <1>3, <1>4, <1>6, <2>1
  <2>4. SumOf(few) = SumOf(fewRows)
    BY <1>10, <2>1
  <2>5. SumOf(count) = SumOf(few) + Cardinality(Relevant(All) \cap Matched)
    BY <1>1, <1>8, <2>2, CategoriesAdd
  <2>6. SumOf(countRows) = SumOf(fewRows) + countRows[n + 1]
    BY <1>3, <2>3, OneMoreRow
  <2> QED
    BY <2>1, <2>3, <2>4, <2>5, <2>6
<1>11. ASSUME SumOf([i \in All |-> stats[i].correct]) = SumOf([k \in DOMAIN rows |-> rows[k].accuracy.right])
      PROVE  SumOf([i \in All |-> stats2[i].correct]) = SumOf([k \in DOMAIN rows2 |-> rows2[k].accuracy.right])
  <2>1. PICK few \in [All -> Nat], count \in [All -> Nat], fewRows \in [1 .. n -> Nat],
             countRows \in [1 .. n + 1 -> Nat] :
          /\ few = [i \in All |-> stats[i].correct] /\ count = [i \in All |-> stats2[i].correct]
          /\ fewRows = [k \in DOMAIN rows |-> rows[k].accuracy.right]
          /\ countRows = [k \in DOMAIN rows2 |-> rows2[k].accuracy.right]
    BY <1>3, <1>4, <1>7, <1>8
  <2>2. \A i \in All : count[i] = few[i] + Cardinality(Relevant({i}) \cap Correct)
    BY <1>5, <1>8, <2>1
  <2>3. /\ \A k \in 1 .. n : countRows[k] = fewRows[k]
        /\ countRows[n + 1] = Cardinality(Relevant(All) \cap Correct)
    BY <1>3, <1>4, <1>6, <2>1
  <2>4. SumOf(few) = SumOf(fewRows)
    BY <1>11, <2>1
  <2>5. SumOf(count) = SumOf(few) + Cardinality(Relevant(All) \cap Correct)
    BY <1>1, <1>8, <2>2, CategoriesAdd
  <2>6. SumOf(countRows) = SumOf(fewRows) + countRows[n + 1]
    BY <1>3, <2>3, OneMoreRow
  <2> QED
    BY <2>1, <2>3, <2>4, <2>5, <2>6
<1>12. ASSUME SumOf([i \in C |-> stats[i].correct]) = SumOf([k \in DOMAIN rows |-> rows[k].contradiction.right])
      PROVE  SumOf([i \in C |-> stats2[i].correct]) = SumOf([k \in DOMAIN rows2 |-> rows2[k].contradiction.right])
  <2>1. PICK few \in [C -> Nat], count \in [C -> Nat], fewRows \in [1 .. n -> Nat],
             countRows \in [1 .. n + 1 -> Nat] :
          /\ few = [i \in C |-> stats[i].correct] /\ count = [i \in C |-> stats2[i].correct]
          /\ fewRows = [k \in DOMAIN rows |-> rows[k].contradiction.right]
          /\ countRows = [k \in DOMAIN rows2 |-> rows2[k].contradiction.right]
    BY <1>3, <1>4, <1>7, <1>8
  <2>2. \A i \in C : count[i] = few[i] + Cardinality(Relevant({i}) \cap Correct)
    BY <1>5, <1>8, <2>1
  <2>3. /\ \A k \in 1 .. n : countRows[k] = fewRows[k]
        /\ countRows[n + 1] = Cardinality(Relevant(C) \cap Correct)
    BY <1>3, <1>4, <1>6, <2>1
  <2>4. SumOf(few) = SumOf(fewRows)
    BY <1>12, <2>1
  <2>5. SumOf(count) = SumOf(few) + Cardinality(Relevant(C) \cap Correct)
    BY <1>1, <1>8, <2>2, CategoriesAdd
  <2>6. SumOf(countRows) = SumOf(fewRows) + countRows[n + 1]
    BY <1>3, <2>3, OneMoreRow
  <2> QED
    BY <2>1, <2>3, <2>4, <2>5, <2>6
<1>13. ASSUME SumOf([i \in E |-> stats[i].correct]) = SumOf([k \in DOMAIN rows |-> rows[k].missing.right])
      PROVE  SumOf([i \in E |-> stats2[i].correct]) = SumOf([k \in DOMAIN rows2 |-> rows2[k].missing.right])
  <2>1. PICK few \in [E -> Nat], count \in [E -> Nat], fewRows \in [1 .. n -> Nat],
             countRows \in [1 .. n + 1 -> Nat] :
          /\ few = [i \in E |-> stats[i].correct] /\ count = [i \in E |-> stats2[i].correct]
          /\ fewRows = [k \in DOMAIN rows |-> rows[k].missing.right]
          /\ countRows = [k \in DOMAIN rows2 |-> rows2[k].missing.right]
    BY <1>3, <1>4, <1>7, <1>8
  <2>2. \A i \in E : count[i] = few[i] + Cardinality(Relevant({i}) \cap Correct)
    BY <1>5, <1>8, <2>1
  <2>3. /\ \A k \in 1 .. n : countRows[k] = fewRows[k]
        /\ countRows[n + 1] = Cardinality(Relevant(E) \cap Correct)
    BY <1>3, <1>4, <1>6, <2>1
  <2>4. SumOf(few) = SumOf(fewRows)
    BY <1>13, <2>1
  <2>5. SumOf(count) = SumOf(few) + Cardinality(Relevant(E) \cap Correct)
    BY <1>1, <1>8, <2>2, CategoriesAdd
  <2>6. SumOf(countRows) = SumOf(fewRows) + countRows[n + 1]
    BY <1>3, <2>3, OneMoreRow
  <2> QED
    BY <2>1, <2>3, <2>4, <2>5, <2>6
<1>14. ColumnsAddUp <=>
         /\ SumOf([i \in All |-> stats[i].total]) = SumOf([k \in DOMAIN rows |-> rows[k].total])
         /\ SumOf([i \in All |-> stats[i].matched]) = SumOf([k \in DOMAIN rows |-> rows[k].matched])
         /\ SumOf([i \in All |-> stats[i].correct]) = SumOf([k \in DOMAIN rows |-> rows[k].accuracy.right])
         /\ SumOf([i \in C |-> stats[i].correct]) =
              SumOf([k \in DOMAIN rows |-> rows[k].contradiction.right])
         /\ SumOf([i \in E |-> stats[i].correct]) =
              SumOf([k \in DOMAIN rows |-> rows[k].missing.right])
  BY DEF ColumnsAddUp, Pooled, All, C, E
<1>15. ColumnsAddUp' <=>
         /\ SumOf([i \in All |-> stats2[i].total]) = SumOf([k \in DOMAIN rows2 |-> rows2[k].total])
         /\ SumOf([i \in All |-> stats2[i].matched]) =
              SumOf([k \in DOMAIN rows2 |-> rows2[k].matched])
         /\ SumOf([i \in All |-> stats2[i].correct]) =
              SumOf([k \in DOMAIN rows2 |-> rows2[k].accuracy.right])
         /\ SumOf([i \in C |-> stats2[i].correct]) =
              SumOf([k \in DOMAIN rows2 |-> rows2[k].contradiction.right])
         /\ SumOf([i \in E |-> stats2[i].correct]) =
              SumOf([k \in DOMAIN rows2 |-> rows2[k].missing.right])
  <2>1. stats' = stats2 /\ rows' = rows2
    BY <1>4, <1>5
  <2> QED
    BY <2>1 DEF ColumnsAddUp, Pooled, All, C, E
<1>16. ColumnsAddUp'
  BY <1>9, <1>10, <1>11, <1>12, <1>13, <1>14, <1>15 DEF Reports
<1>17. pc' # "matching"
  BY DEF ScoreCase
<1>18. Wrong(rows', stats')
  BY WrongIsShown
<1> QED
  BY <1>4, <1>5, <1>16, <1>17, <1>18 DEF Reports

\* No row and no claim counted yet.
LEMMA InitReports == Init => Reports
<1> SUFFICES ASSUME Init PROVE Reports
  OBVIOUS
<1>1. /\ pc = "load" /\ rows = << >>
      /\ stats = [i \in Categories |-> [total |-> 0, matched |-> 0, correct |-> 0]]
  BY DEF Init
<1>2. rows \in Seq(Row) /\ DOMAIN rows = {}
  BY <1>1
<1>3. stats \in [Categories -> Stat]
  BY <1>1 DEF Stat
<1>4. ASSUME NEW count, \A i \in DOMAIN count : count[i] = 0
      PROVE  SumOf(count) = Cardinality({})
  <2>1. UNION {{i} \X (1 .. count[i]) : i \in DOMAIN count} = {}
    BY <1>4
  <2> QED
    BY <2>1 DEF SumOf
<1>5. \A issues : /\ Pooled(issues).total = Cardinality({})
                  /\ Pooled(issues).matched = Cardinality({})
                  /\ Pooled(issues).correct = Cardinality({})
  <2> SUFFICES ASSUME NEW issues
               PROVE  /\ Pooled(issues).total = Cardinality({})
                      /\ Pooled(issues).matched = Cardinality({})
                      /\ Pooled(issues).correct = Cardinality({})
    OBVIOUS
  <2>1. /\ \A i \in issues \cap Categories : [i_1 \in issues \cap Categories |-> stats[i_1].total][i] = 0
        /\ \A i \in issues \cap Categories : [i_1 \in issues \cap Categories |-> stats[i_1].matched][i] = 0
        /\ \A i \in issues \cap Categories : [i_1 \in issues \cap Categories |-> stats[i_1].correct][i] = 0
    BY <1>1
  <2>2. /\ SumOf([i \in issues \cap Categories |-> stats[i].total]) = Cardinality({})
        /\ SumOf([i \in issues \cap Categories |-> stats[i].matched]) = Cardinality({})
        /\ SumOf([i \in issues \cap Categories |-> stats[i].correct]) = Cardinality({})
    BY <1>4, <2>1
  <2> QED
    BY <2>2 DEF Pooled
<1>6. /\ SumOf([k \in DOMAIN rows |-> rows[k].total]) = Cardinality({})
      /\ SumOf([k \in DOMAIN rows |-> rows[k].matched]) = Cardinality({})
      /\ SumOf([k \in DOMAIN rows |-> rows[k].accuracy.right]) = Cardinality({})
      /\ SumOf([k \in DOMAIN rows |-> rows[k].contradiction.right]) = Cardinality({})
      /\ SumOf([k \in DOMAIN rows |-> rows[k].missing.right]) = Cardinality({})
  BY <1>2, <1>4
<1>7. ColumnsAddUp
  BY <1>5, <1>6 DEF ColumnsAddUp
<1>8. Wrong(rows, stats)
  BY <1>1, <1>2 DEF Wrong
<1> QED
  BY <1>1, <1>2, <1>3, <1>7, <1>8 DEF Reports

\* A step that leaves both reports alone.
LEMMA QuietReports ==
  ASSUME Reports, rows' = rows, stats' = stats, pc' = "matching" /\ failed' => predicted' = << >>
  PROVE  Reports'
BY DEF Reports, ColumnsAddUp, Pooled

LEMMA NextReports == ASSUME IInv, Reports, [Next]_vars PROVE Reports'
<1>1. ASSUME NEW claims, NEW error \in BOOLEAN, Load(claims, error) PROVE Reports'
  <2>1. failed' => predicted' = << >>
    BY <1>1 DEF Load, Extract
  <2> QED
    BY <1>1, <2>1, QuietReports DEF Load
<1>2. CASE Consider
  BY <1>2, QuietReports DEF Consider, caseVars, Reports
<1>3. CASE Settle
  BY <1>3, QuietReports DEF Settle, caseVars, Reports
<1>4. CASE ScoreCase
  BY <1>4, ScoreCaseKeepsReports
<1>5. CASE UNCHANGED vars
  BY <1>5, QuietReports DEF vars, caseVars, Reports
<1> QED
  BY <1>1, <1>2, <1>3, <1>4, <1>5 DEF Next

-----------------------------------------------------------------------------
\* A mean over all the rates, those that are None among them.
LEMMA MeanOfAll ==
  ASSUME NEW rates
  PROVE  Mean(rates) =
           IF \A r \in rates : r.of = 0 THEN "None"
           ELSE IF \A r \in rates : r.of # 0 => r.right = r.of THEN "1"
           ELSE IF \A r \in rates : r.of # 0 => r.right = 0 THEN "0" ELSE "between"
<1> DEFINE given == {r \in rates : r.of # 0}
<1>1. given = {} <=> \A r \in rates : r.of = 0
  OBVIOUS
<1>2. (\A r \in given : r.right = r.of) <=> (\A r \in rates : r.of # 0 => r.right = r.of)
  OBVIOUS
<1>3. (\A r \in given : r.right = 0) <=> (\A r \in rates : r.of # 0 => r.right = 0)
  OBVIOUS
<1>4. Mean(rates) = IF given = {} THEN "None"
                    ELSE IF \A r \in given : r.right = r.of THEN "1"
                    ELSE IF \A r \in given : r.right = 0 THEN "0" ELSE "between"
  BY DEF Mean
<1> HIDE DEF given
<1> QED
  BY <1>1, <1>2, <1>3, <1>4

\* The facts about the rows that the means are made of.
LEMMA RowsAre ==
  ASSUME Reports
  PROVE  /\ IsFiniteSet(DOMAIN rows)
         /\ \A k \in DOMAIN rows :
              /\ rows[k].accuracy \in Rate /\ rows[k].contradiction \in Rate
              /\ rows[k].missing \in Rate /\ rows[k].matched \in Nat
              /\ rows[k].accuracy.of = rows[k].matched
              /\ ~ rows[k].valid => /\ rows[k].accuracy.of = 0 /\ rows[k].contradiction.of = 0
                                    /\ rows[k].missing.of = 0
<1>1. rows \in Seq(Row)
  BY DEF Reports
<1>2. \A r \in Row : r.accuracy \in Rate /\ r.contradiction \in Rate /\ r.missing \in Rate
                     /\ r.matched \in Nat
  BY DEF Row
<1> HIDE DEF Row
<1>3. DOMAIN rows = 1 .. Len(rows) /\ Len(rows) \in Nat /\ \A k \in DOMAIN rows : rows[k] \in Row
  BY <1>1
<1>4. IsFiniteSet(DOMAIN rows)
  BY <1>3, FS_Interval
<1> QED
  BY <1>2, <1>3, <1>4 DEF Reports, Wrong

\* The accuracy pooled and the mean of the rows' accuracies are of one kind.
LEMMA AccuraciesAgree ==
  ASSUME Reports
  PROVE  Mean({[right |-> Pooled(Categories).correct, of |-> Pooled(Categories).matched]}) =
           Aggregate.accuracy
<1>1. /\ IsFiniteSet(DOMAIN rows)
      /\ \A k \in DOMAIN rows :
           /\ rows[k].accuracy \in Rate /\ rows[k].matched \in Nat
           /\ rows[k].accuracy.of = rows[k].matched
           /\ ~ rows[k].valid => rows[k].accuracy.of = 0
  BY RowsAre
<1>2. PICK right, matched :
        /\ right = [k \in DOMAIN rows |-> rows[k].accuracy.right]
        /\ matched = [k \in DOMAIN rows |-> rows[k].matched]
  OBVIOUS
<1>3. /\ right \in [DOMAIN rows -> Nat] /\ matched \in [DOMAIN rows -> Nat]
      /\ \A k \in DOMAIN rows : right[k] <= matched[k]
  BY <1>1, <1>2 DEF Rate
<1>4. PICK x : x = [right |-> Pooled(Categories).correct, of |-> Pooled(Categories).matched]
  OBVIOUS
<1>5. x.right = SumOf(right) /\ x.of = SumOf(matched)
  BY <1>2, <1>4 DEF Reports, ColumnsAddUp
<1>6. /\ x.right = x.of <=> \A k \in DOMAIN rows : right[k] = matched[k]
      /\ x.right = 0 <=> \A k \in DOMAIN rows : right[k] = 0
  BY <1>1, <1>3, <1>5, CompareSums
<1>7. x.of = 0 <=> \A k \in DOMAIN rows : matched[k] = 0
  <2>1. \A k \in DOMAIN rows : matched[k] <= matched[k]
    BY <1>3
  <2> QED
    BY <1>1, <1>3, <1>5, <2>1, CompareSums
<1>8. PICK rates : rates = {rows[k].accuracy : k \in {j \in DOMAIN rows : rows[j].valid}}
  OBVIOUS
<1>9. /\ \A r \in rates : \E k \in DOMAIN rows : r = rows[k].accuracy
      /\ \A k \in DOMAIN rows : rows[k].valid => rows[k].accuracy \in rates
  BY <1>8
<1>10. \A k \in DOMAIN rows :
         /\ rows[k].accuracy.right = right[k] /\ rows[k].accuracy.of = matched[k]
         /\ matched[k] = 0 => right[k] = 0
         /\ ~ rows[k].valid => matched[k] = 0
  BY <1>1, <1>2, <1>3
<1>11. (\A r \in rates : r.of = 0) <=> x.of = 0
  BY <1>7, <1>9, <1>10
<1>12. (\A r \in rates : r.of # 0 => r.right = r.of) <=> x.right = x.of
  BY <1>6, <1>9, <1>10
<1>13. (\A r \in rates : r.of # 0 => r.right = 0) <=> x.right = 0
  BY <1>6, <1>9, <1>10
<1>14. Mean(rates) = IF x.of = 0 THEN "None" ELSE IF x.right = x.of THEN "1"
                     ELSE IF x.right = 0 THEN "0" ELSE "between"
  BY <1>11, <1>12, <1>13, MeanOfAll
<1>15. Mean({x}) = IF x.of = 0 THEN "None" ELSE IF x.right = x.of THEN "1"
                   ELSE IF x.right = 0 THEN "0" ELSE "between"
  <2>1. Mean({x}) =
           IF \A r \in {x} : r.of = 0 THEN "None"
           ELSE IF \A r \in {x} : r.of # 0 => r.right = r.of THEN "1"
           ELSE IF \A r \in {x} : r.of # 0 => r.right = 0 THEN "0" ELSE "between"
    BY MeanOfAll
  <2> QED
    BY <2>1
<1>16. Aggregate.accuracy = Mean(rates)
  BY <1>8 DEF Aggregate
<1> QED
  BY <1>4, <1>14, <1>15, <1>16

\* A recall and its categories: nothing right in both, and no claim that is
\* wrong in the recall only.
LEMMA RecallsAgree ==
  ASSUME Reports, NEW issues, NEW rate, rate = [k \in DOMAIN rows |-> rate[k]],
         \A k \in DOMAIN rows : /\ rate[k] \in Rate /\ (~ rows[k].valid => rate[k].of = 0)
                                /\ Shows(rate[k], stats, issues),
         Pooled(issues).correct = SumOf([k \in DOMAIN rows |-> rate[k].right]),
         NEW mean, mean = Mean({rate[k] : k \in {j \in DOMAIN rows : rows[j].valid}})
  PROVE  /\ Pooled(issues).correct = 0 <=> mean \in {"None", "0"}
         /\ Pooled(issues).correct = Pooled(issues).total => mean \in {"None", "1"}
<1>1. PICK rates : rates = {rate[k] : k \in {j \in DOMAIN rows : rows[j].valid}}
  OBVIOUS
<1>2. /\ \A r \in rates : \E k \in DOMAIN rows : r = rate[k]
      /\ \A k \in DOMAIN rows : rows[k].valid => rate[k] \in rates
  BY <1>1
<1>3. \A k \in DOMAIN rows : /\ rate[k].right \in Nat /\ rate[k].of \in Nat
                             /\ rate[k].right <= rate[k].of
                             /\ ~ rows[k].valid => rate[k].of = 0
  BY DEF Rate
<1>4. Pooled(issues).correct = 0 <=> \A k \in DOMAIN rows : rate[k].right = 0
  <2>1. PICK right : right = [k \in DOMAIN rows |-> rate[k].right]
    OBVIOUS
  <2>2. right \in [DOMAIN rows -> Nat] /\ \A k \in DOMAIN rows : right[k] <= right[k]
    BY <1>3, <2>1
  <2>3. IsFiniteSet(DOMAIN rows)
    BY RowsAre
  <2>4. SumOf(right) = 0 <=> \A k \in DOMAIN rows : right[k] = 0
    BY <2>2, <2>3, CompareSums
  <2> QED
    BY <2>1, <2>4
<1>5. Pooled(issues).correct = 0 <=> \A r \in rates : r.of # 0 => r.right = 0
  BY <1>2, <1>3, <1>4
<1>6. mean \in {"None", "0"} <=> \A r \in rates : r.of # 0 => r.right = 0
  <2>1. \A r \in rates : r.of # 0 => ~ (r.right = r.of /\ r.right = 0)
    OBVIOUS
  <2>2. mean = IF \A r \in rates : r.of = 0 THEN "None"
               ELSE IF \A r \in rates : r.of # 0 => r.right = r.of THEN "1"
               ELSE IF \A r \in rates : r.of # 0 => r.right = 0 THEN "0" ELSE "between"
    BY <1>1, MeanOfAll
  <2> QED
    BY <2>1, <2>2
<1>7. ASSUME Pooled(issues).correct = Pooled(issues).total PROVE mean \in {"None", "1"}
  <2>1. PICK I : I = issues \cap Categories
    OBVIOUS
  <2>2. IsFiniteSet(I)
    <3>1. IsFiniteSet(IssueTypes) /\ IsFiniteSet({"none_clean"})
      BY ScoringAssumption, FS_Singleton
    <3>2. IsFiniteSet(Categories)
      BY <3>1, FS_Union DEF Categories
    <3>3. I \in SUBSET Categories
      BY <2>1
    <3> QED
      BY <3>2, <3>3, FS_Subset
  <2>3. PICK correct, total :
          /\ correct = [i \in I |-> stats[i].correct] /\ total = [i \in I |-> stats[i].total]
    OBVIOUS
  <2>4. /\ correct \in [I -> Nat] /\ total \in [I -> Nat]
        /\ \A i \in I : correct[i] <= total[i]
    BY <2>1, <2>3 DEF Reports, Wrong, Stat
  <2>5. SumOf(correct) = SumOf(total)
    BY <1>7, <2>1, <2>3 DEF Pooled
  <2>6. \A i \in I : stats[i].correct = stats[i].total /\ stats[i].total \in Nat
    <3>1. \A i \in I : correct[i] = total[i]
      BY <2>2, <2>4, <2>5, CompareSums
    <3> QED
      BY <2>3, <2>4, <3>1
  <2>7. ASSUME NEW k \in DOMAIN rows PROVE rate[k].right = rate[k].of
    <3>1. ~ \E i \in issues \cap Categories : stats[i].correct < stats[i].total
      BY <2>1, <2>6
    <3>2. Shows(rate[k], stats, issues)
      OBVIOUS
    <3>3. ~ rate[k].right < rate[k].of
      BY <3>1, <3>2 DEF Shows
    <3>4. PICK x \in Nat, y \in Nat : x = rate[k].right /\ y = rate[k].of /\ x <= y
      BY <1>3
    <3>5. x = y
      BY <3>3, <3>4
    <3> QED
      BY <3>4, <3>5
  <2>8. \A r \in rates : r.of # 0 => r.right = r.of
    BY <1>2, <2>7
  <2> QED
    BY <1>1, <2>8, MeanOfAll
<1> QED
  BY <1>5, <1>6, <1>7

LEMMA Consistent == Reports => ReportsAreConsistent
<1> SUFFICES ASSUME Reports PROVE ReportsAreConsistent
  OBVIOUS
<1>1. /\ Pooled(Categories).total = Aggregate.total
      /\ Pooled(Categories).matched = Aggregate.matched
  BY DEF Reports, ColumnsAddUp, Aggregate
<1>2. Mean({[right |-> Pooled(Categories).correct, of |-> Pooled(Categories).matched]}) =
        Aggregate.accuracy
  BY AccuraciesAgree
<1>3. /\ Pooled(Contradictions).correct = 0 <=> Aggregate.contradiction \in {"None", "0"}
      /\ Pooled(Contradictions).correct = Pooled(Contradictions).total =>
           Aggregate.contradiction \in {"None", "1"}
  <2>1. PICK rate : rate = [k \in DOMAIN rows |-> rows[k].contradiction]
    OBVIOUS
  <2>2. /\ rate = [k \in DOMAIN rows |-> rate[k]]
        /\ \A k \in DOMAIN rows : rate[k] \in Rate /\ (~ rows[k].valid => rate[k].of = 0)
                                  /\ Shows(rate[k], stats, Contradictions)
    BY <2>1, RowsAre DEF Reports, Wrong
  <2>3. Pooled(Contradictions).correct = SumOf([k \in DOMAIN rows |-> rate[k].right])
    <3>1. [k \in DOMAIN rows |-> rate[k].right] =
            [k \in DOMAIN rows |-> rows[k].contradiction.right]
      BY <2>1
    <3> QED
      BY <3>1 DEF Reports, ColumnsAddUp
  <2>4. Aggregate.contradiction = Mean({rate[k] : k \in {j \in DOMAIN rows : rows[j].valid}})
    <3>1. {rate[k] : k \in {j \in DOMAIN rows : rows[j].valid}} =
            {rows[k].contradiction : k \in {j \in DOMAIN rows : rows[j].valid}}
      BY <2>1
    <3> QED
      BY <3>1 DEF Aggregate
  <2> QED
    BY <2>2, <2>3, <2>4, RecallsAgree
<1>4. /\ Pooled(MissingEvidence).correct = 0 <=> Aggregate.missing \in {"None", "0"}
      /\ Pooled(MissingEvidence).correct = Pooled(MissingEvidence).total =>
           Aggregate.missing \in {"None", "1"}
  <2>1. PICK rate : rate = [k \in DOMAIN rows |-> rows[k].missing]
    OBVIOUS
  <2>2. /\ rate = [k \in DOMAIN rows |-> rate[k]]
        /\ \A k \in DOMAIN rows : rate[k] \in Rate /\ (~ rows[k].valid => rate[k].of = 0)
                                  /\ Shows(rate[k], stats, MissingEvidence)
    BY <2>1, RowsAre DEF Reports, Wrong
  <2>3. Pooled(MissingEvidence).correct = SumOf([k \in DOMAIN rows |-> rate[k].right])
    <3>1. [k \in DOMAIN rows |-> rate[k].right] = [k \in DOMAIN rows |-> rows[k].missing.right]
      BY <2>1
    <3> QED
      BY <3>1 DEF Reports, ColumnsAddUp
  <2>4. Aggregate.missing = Mean({rate[k] : k \in {j \in DOMAIN rows : rows[j].valid}})
    <3>1. {rate[k] : k \in {j \in DOMAIN rows : rows[j].valid}} =
            {rows[k].missing : k \in {j \in DOMAIN rows : rows[j].valid}}
      BY <2>1
    <3> QED
      BY <3>1 DEF Aggregate
  <2> QED
    BY <2>2, <2>3, <2>4, RecallsAgree
<1> QED
  BY <1>1, <1>2, <1>3, <1>4 DEF ReportsAreConsistent

\* Whatever the cases, their claims and what failed: the breakdown and the
\* aggregate of a run count the same claims and matches, and their accuracies
\* and recalls contradict each other nowhere, however differently they weigh.
THEOREM ReportsAgree == Spec => []ReportsAreConsistent
<1>1. Init => Reports
  BY InitReports
<1>2. IInv /\ Reports /\ [Next]_vars => Reports'
  BY NextReports
<1> QED
  BY <1>1, <1>2, Consistent, Inductive, PTL DEF Spec
=============================================================================

---------------------------- MODULE PartsProofs ----------------------------
(* Theorems about the parts of MCParts, for all values of their constants. *)
EXTENDS MCParts, FiniteSetTheorems, WellFoundedInduction, TLAPS

------------------------------------------------------------------------------
(* Numbers up to a bound, and functions defined from one to the next       *)

\* Induction on the numbers up to a bound, for a set of numbers.
LEMMA UpTo ==
  ASSUME NEW b \in Nat, NEW T, 0 \in T, \A n \in 0..b : n < b /\ n \in T => n + 1 \in T
  PROVE  \A n \in 0..b : n \in T
<1>. DEFINE Out == {n \in Nat : n <= b /\ n \notin T}
<1>. SUFFICES ASSUME Out # {} PROVE FALSE
  OBVIOUS
<1>1. IsWellFoundedOn(OpToRel(<, Nat), Nat)
  BY NatLessThanWellFounded
<1>2. Out \subseteq Nat
  OBVIOUS
<1>. HIDE DEF Out
<1>3. PICK n \in Out : \A m \in Out : ~(<<m, n>> \in OpToRel(<, Nat))
  BY <1>1, <1>2, WFMin, Zenon
<1>4. \A m \in Out : ~ (m < n)
  BY <1>2, <1>3 DEF OpToRel
<1>. USE DEF Out
<1>5. n \in Nat /\ n <= b /\ n \notin T
  BY <1>3
<1>6. n # 0
  BY <1>5, Zenon
<1>7. n - 1 \in T
  BY <1>4, <1>5, <1>6
<1>. QED BY <1>5, <1>6, <1>7

\* g is what F makes of first, one number after the other.
Steps(g, b, first, F) ==
  /\ DOMAIN g = 0..b
  /\ \A n \in 0..b : g[n] = IF n = 0 THEN first ELSE F[n][g[n - 1]]

LEMMA StepsExist ==
  ASSUME NEW S, NEW b \in Nat, NEW first \in S, NEW F \in [1..b -> [S -> S]]
  PROVE  \E g \in [0..b -> S] : Steps(g, b, first, F)
<1>. DEFINE T == {n \in 0..b : \E g \in [0..n -> S] : Steps(g, n, first, F)}
<1>1. 0 \in T
  <2>1. [n \in 0..0 |-> first] \in [0..0 -> S] /\ Steps([n \in 0..0 |-> first], 0, first, F)
    BY DEF Steps
  <2>. QED BY <2>1
<1>2. ASSUME NEW n \in 0..b, n < b, n \in T
      PROVE  n + 1 \in T
  <2>1. PICK g \in [0..n -> S] : Steps(g, n, first, F)
    BY <1>2
  <2>. DEFINE x == F[n + 1][g[n]]
              h == [i \in 0..(n + 1) |-> IF i <= n THEN g[i] ELSE x]
  <2>2. x \in S
    <3>1. F[n + 1] \in [S -> S] /\ g[n] \in S
      BY <1>2
    <3>. QED BY <3>1
  <2>3. h \in [0..(n + 1) -> S]
    BY <2>2
  <2>4. Steps(h, n + 1, first, F)
    <3>1. \A i \in 0..n : h[i] = g[i]
      BY <1>2
    <3>2. h[n + 1] = x /\ DOMAIN h = 0..(n + 1)
      BY <1>2
    <3>. HIDE DEF h
    <3>3. ASSUME NEW i \in 0..(n + 1)
          PROVE  h[i] = IF i = 0 THEN first ELSE F[i][h[i - 1]]
      <4>1. CASE i = n + 1
        <5>1. i # 0 /\ h[i - 1] = g[n]
          BY <4>1, <3>1, <1>2
        <5>. QED BY <4>1, <5>1, <3>2
      <4>2. CASE i # n + 1
        <5>1. i \in 0..n /\ (i # 0 => i - 1 \in 0..n)
          BY <4>2, <1>2
        <5>2. g[i] = IF i = 0 THEN first ELSE F[i][g[i - 1]]
          BY <5>1, <2>1 DEF Steps
        <5>. QED BY <5>1, <5>2, <3>1
      <4>. QED BY <4>1, <4>2
    <3>. QED BY <3>2, <3>3 DEF Steps
  <2>. HIDE DEF h
  <2>. QED BY <1>2, <2>3, <2>4
<1>3. b \in T
  <2>. HIDE DEF T
  <2>1. \A n \in 0..b : n < b /\ n \in T => n + 1 \in T
    BY <1>2
  <2>2. \A n \in 0..b : n \in T
    BY <1>1, <2>1, UpTo
  <2>. QED BY <2>2
<1>. QED BY <1>3

------------------------------------------------------------------------------
(* The working set: the pure parts                                         *)

\* The tokens of a list, one item after the other.
LEMMA TokenSteps ==
  ASSUME NEW items \in Seq(WS!Items)
  PROVE  \E f \in [0..Len(items) -> Nat] :
           /\ f[0] = 0
           /\ \A k \in 1..Len(items) : f[k] = f[k - 1] + Size[items[k]]
           /\ WS!TokensUsed(items) = f[Len(items)]
<1>. DEFINE b == Len(items)
            F == [k \in 1..b |-> [t \in Nat |-> t + Size[items[k]]]]
            Is(f) == f = [k \in 0..b |-> IF k = 0 THEN 0 ELSE f[k - 1] + Size[items[k]]]
            upTo == CHOOSE f : Is(f)
<1>1. b \in Nat /\ \A k \in 1..b : Size[items[k]] \in Nat
  BY PartsAssumption DEF WS!WorkingSetAssumption
<1>2. F \in [1..b -> [Nat -> Nat]]
  BY <1>1
<1>9. \A k \in 1..b, t \in Nat : F[k][t] = t + Size[items[k]]
  OBVIOUS
<1>. HIDE DEF F
<1>3. PICK g \in [0..b -> Nat] : Steps(g, b, 0, F)
  BY <1>1, <1>2, StepsExist
<1>4. Is(g)
  <2>1. ASSUME NEW k \in 0..b, k # 0 PROVE g[k] = g[k - 1] + Size[items[k]]
    <3>1. k \in 1..b /\ g[k - 1] \in Nat
      BY <1>1, <1>3, <2>1
    <3>2. g[k] = F[k][g[k - 1]]
      BY <1>3, <2>1 DEF Steps
    <3>. QED BY <1>9, <3>1, <3>2
  <2>2. 0 \in 0..b
    BY <1>1
  <2>3. g[0] = 0
    BY <1>3, <2>2 DEF Steps
  <2>. QED BY <1>3, <2>1, <2>3
<1>5. Is(upTo)
  BY <1>4
<1>6. upTo \in [0..b -> Nat]
  <2>. DEFINE T == {n \in 0..b : upTo[n] \in Nat}
  <2>. HIDE DEF upTo
  <2>1. DOMAIN upTo = 0..b /\ \A k \in 0..b : upTo[k] = IF k = 0 THEN 0 ELSE upTo[k - 1] + Size[items[k]]
    BY <1>5
  <2>2. 0 \in T
    BY <1>1, <2>1
  <2>3. ASSUME NEW n \in 0..b, n < b, n \in T PROVE n + 1 \in T
    <3>1. n + 1 \in 1..b /\ n + 1 # 0 /\ (n + 1) - 1 = n
      BY <2>3, <1>1
    <3>2. upTo[n + 1] = upTo[n] + Size[items[n + 1]]
      BY <2>1, <3>1
    <3>3. upTo[n] \in Nat /\ Size[items[n + 1]] \in Nat
      BY <1>1, <2>3, <3>1
    <3>. QED BY <3>1, <3>2, <3>3
  <2>4. \A n \in 0..b : n \in T
    <3>. HIDE DEF T
    <3>. QED BY <1>1, <2>2, <2>3, UpTo
  <2>. QED BY <1>5, <2>1, <2>4
<1>7. WS!TokensUsed(items) = upTo[b]
  BY DEF WS!TokensUsed
<1>. HIDE DEF upTo
<1>8. upTo[0] = 0 /\ \A k \in 1..b : upTo[k] = upTo[k - 1] + Size[items[k]]
  BY <1>1, <1>5
<1>. QED BY <1>6, <1>7, <1>8

LEMMA TokensNat == ASSUME NEW items \in Seq(WS!Items) PROVE WS!TokensUsed(items) \in Nat
<1>1. PICK f \in [0..Len(items) -> Nat] : WS!TokensUsed(items) = f[Len(items)]
  BY TokenSteps
<1>2. Len(items) \in 0..Len(items)
  OBVIOUS
<1>. QED BY <1>1, <1>2

LEMMA TokensAppend ==
  ASSUME NEW items \in Seq(WS!Items), NEW x \in WS!Items
  PROVE  /\ WS!TokensUsed(items) \in Nat
         /\ WS!TokensUsed(Append(items, x)) = WS!TokensUsed(items) + Size[x]
<1>. DEFINE b == Len(items)
            more == Append(items, x)
<1>1. b \in Nat /\ Len(more) = b + 1 /\ more \in Seq(WS!Items) /\ more[b + 1] = x
  OBVIOUS
<1>2. \A k \in 1..b : more[k] = items[k] /\ Size[items[k]] \in Nat
  BY PartsAssumption DEF WS!WorkingSetAssumption
<1>3. PICK f \in [0..b -> Nat] :
        /\ f[0] = 0
        /\ \A k \in 1..b : f[k] = f[k - 1] + Size[items[k]]
        /\ WS!TokensUsed(items) = f[b]
  BY TokenSteps
<1>. HIDE DEF more
<1>4. PICK g \in [0..(b + 1) -> Nat] :
        /\ g[0] = 0
        /\ \A k \in 1..(b + 1) : g[k] = g[k - 1] + Size[more[k]]
        /\ WS!TokensUsed(more) = g[b + 1]
  BY <1>1, TokenSteps
<1>. DEFINE T == {n \in 0..b : g[n] = f[n]}
<1>5. 0 \in T
  BY <1>1, <1>3, <1>4
<1>6. ASSUME NEW n \in 0..b, n < b, n \in T PROVE n + 1 \in T
  <2>1. n + 1 \in 1..b /\ n + 1 \in 1..(b + 1) /\ (n + 1) - 1 = n
    BY <1>1, <1>6
  <2>2. g[n + 1] = g[n] + Size[more[n + 1]]
    BY <1>4, <2>1
  <2>3. f[n + 1] = f[n] + Size[items[n + 1]]
    BY <1>3, <2>1
  <2>. QED BY <1>2, <1>6, <2>1, <2>2, <2>3
<1>7. \A n \in 0..b : n \in T
  <2>. HIDE DEF T
  <2>. QED BY <1>1, <1>5, <1>6, UpTo
<1>8. g[b] = f[b]
  BY <1>1, <1>7
<1>9. g[b + 1] = g[b] + Size[x]
  <2>1. b + 1 \in 1..(b + 1) /\ (b + 1) - 1 = b
    BY <1>1
  <2>. QED BY <1>1, <1>4, <2>1
<1>10. b \in 0..b
  BY <1>1
<1>. QED BY <1>3, <1>4, <1>8, <1>9, <1>10 DEF more

\* What the greedy pass has chosen after some offers: all it must, and optional items
\* only as long as they fit.
Fits(st, must, order, budget) ==
  /\ st.chosen \in Seq(WS!Items) /\ st.left = budget - WS!TokensUsed(st.chosen)
  /\ WS!SeqRange(must) \subseteq WS!SeqRange(st.chosen)
  /\ WS!SeqRange(st.chosen) \subseteq WS!SeqRange(must) \cup WS!SeqRange(order)
  /\ (\E i \in WS!SeqRange(st.chosen) : ~WS!Must(i)) => st.left >= 0

LEMMA RangeAppend ==
  ASSUME NEW S, NEW s \in Seq(S), NEW x \in S
  PROVE  WS!SeqRange(Append(s, x)) = WS!SeqRange(s) \cup {x}
<1>. DEFINE t == Append(s, x)
<1>1. /\ DOMAIN t = 1..(Len(s) + 1) /\ DOMAIN s = 1..Len(s) /\ Len(s) \in Nat
      /\ \A i \in 1..Len(s) : t[i] = s[i]
      /\ t[Len(s) + 1] = x
  OBVIOUS
<1>. HIDE DEF t
<1>2. ASSUME NEW y \in WS!SeqRange(t) PROVE y \in WS!SeqRange(s) \cup {x}
  <2>1. PICK i \in DOMAIN t : y = t[i]
    BY DEF WS!SeqRange
  <2>2. i = Len(s) + 1 \/ i \in 1..Len(s)
    BY <1>1
  <2>. QED BY <1>1, <2>1, <2>2 DEF WS!SeqRange
<1>3. ASSUME NEW y \in WS!SeqRange(s) \cup {x} PROVE y \in WS!SeqRange(t)
  BY <1>1, <1>3 DEF WS!SeqRange
<1>. QED BY <1>2, <1>3 DEF t

LEMMA OfferFits ==
  ASSUME NEW must \in Seq(WS!Items), NEW order \in Seq(WS!Items), NEW budget \in Nat,
         NEW base, NEW ties, NEW st, Fits(st, must, order, budget),
         NEW k \in DOMAIN order
  PROVE  Fits(WS!Offer(order[k], base, ties, st), must, order, budget)
<1>1. CASE WS!Offer(order[k], base, ties, st) = st
  BY <1>1
<1>2. CASE WS!Offer(order[k], base, ties, st) # st
  <2>1. PICK i : i = order[k]
    OBVIOUS
  <2>2. i \in WS!Items /\ i \in WS!SeqRange(order) /\ Size[i] \in Nat
    BY <2>1, PartsAssumption DEF WS!SeqRange, WS!WorkingSetAssumption
  <2>3. PICK new : new = WS!Offer(i, base, ties, st)
    OBVIOUS
  <2>4. Size[i] <= st.left /\ new.chosen = Append(st.chosen, i) /\ new.left = st.left - Size[i]
    BY <1>2, <2>1, <2>3 DEF WS!Offer
  <2>5. /\ WS!TokensUsed(new.chosen) = WS!TokensUsed(st.chosen) + Size[i]
        /\ WS!TokensUsed(st.chosen) \in Nat
    BY <2>2, <2>4, TokensAppend DEF Fits
  <2>6. WS!SeqRange(new.chosen) = WS!SeqRange(st.chosen) \cup {i}
    BY <2>2, <2>4, RangeAppend DEF Fits
  <2>7. new.left = budget - WS!TokensUsed(new.chosen) /\ new.left >= 0
    BY <2>2, <2>4, <2>5 DEF Fits
  <2>8. new.chosen \in Seq(WS!Items)
    BY <2>2, <2>4 DEF Fits
  <2>. QED BY <2>1, <2>2, <2>3, <2>6, <2>7, <2>8 DEF Fits
<1>. QED BY <1>1, <1>2

LEMMA GreedySound ==
  ASSUME NEW must \in Seq(WS!Items), NEW order \in Seq(WS!Items), NEW budget \in Nat,
         NEW base, NEW ties, \A i \in WS!SeqRange(must) : WS!Must(i)
  PROVE  LET chosen == WS!Greedy(must, order, budget, base, ties)
         IN  /\ chosen \in Seq(WS!Items)
             /\ WS!SeqRange(must) \subseteq WS!SeqRange(chosen)
             /\ WS!SeqRange(chosen) \subseteq WS!SeqRange(must) \cup WS!SeqRange(order)
             /\ (\E i \in WS!SeqRange(chosen) : ~WS!Must(i)) => WS!TokensUsed(chosen) <= budget
<1>. DEFINE b == Len(order)
            start == [chosen |-> must, left |-> budget - WS!TokensUsed(must)]
            S == {st \in [chosen : Seq(WS!Items), left : Int] : Fits(st, must, order, budget)}
            F == [k \in 1..b |-> [st \in S |-> WS!Offer(order[k], base, ties, st)]]
            Is(f) == f = [k \in 0..b |-> IF k = 0 THEN start
                                         ELSE WS!Offer(order[k], base, ties, f[k - 1])]
            step == CHOOSE f : Is(f)
<1>1. b \in Nat /\ WS!TokensUsed(must) \in Nat
  BY TokensNat
<1>2. start \in S
  BY <1>1 DEF Fits
<1>3. ASSUME NEW k \in 1..b, NEW st \in S PROVE WS!Offer(order[k], base, ties, st) \in S
  <2>1. Fits(WS!Offer(order[k], base, ties, st), must, order, budget)
    BY OfferFits
  <2>2. Size[order[k]] \in Nat /\ order[k] \in WS!Items
    BY PartsAssumption DEF WS!WorkingSetAssumption
  <2>3. WS!Offer(order[k], base, ties, st) \in [chosen : Seq(WS!Items), left : Int]
    BY <2>2 DEF WS!Offer
  <2>. QED BY <2>1, <2>3
<1>4. /\ F \in [1..b -> [S -> S]]
      /\ \A k \in 1..b, st \in S : F[k][st] = WS!Offer(order[k], base, ties, st)
  <2>. HIDE DEF S
  <2>. QED BY <1>3
<1>. HIDE DEF F, S, start
<1>5. PICK g \in [0..b -> S] : Steps(g, b, start, F)
  BY <1>1, <1>2, <1>4, StepsExist
<1>6. Is(g)
  <2>1. ASSUME NEW k \in 0..b, k # 0 PROVE g[k] = WS!Offer(order[k], base, ties, g[k - 1])
    <3>1. k \in 1..b /\ g[k - 1] \in S
      BY <1>1, <1>5, <2>1
    <3>2. g[k] = F[k][g[k - 1]]
      BY <1>5, <2>1 DEF Steps
    <3>. QED BY <1>4, <3>1, <3>2
  <2>2. 0 \in 0..b
    BY <1>1
  <2>3. g[0] = start
    BY <1>5, <2>2 DEF Steps
  <2>. QED BY <1>5, <2>1, <2>3
<1>7. Is(step)
  BY <1>6
<1>8. WS!Greedy(must, order, budget, base, ties) = step[b].chosen
  BY DEF WS!Greedy, start
<1>. HIDE DEF step
<1>9. \A n \in 0..b : step[n] \in S
  <2>. DEFINE T == {n \in 0..b : step[n] \in S}
  <2>1. 0 \in T
    BY <1>1, <1>2, <1>7
  <2>2. ASSUME NEW n \in 0..b, n < b, n \in T PROVE n + 1 \in T
    <3>1. n + 1 \in 1..b /\ n + 1 \in 0..b /\ n + 1 # 0 /\ (n + 1) - 1 = n
      BY <1>1, <2>2
    <3>2. step[n + 1] = WS!Offer(order[n + 1], base, ties, step[n])
      BY <1>7, <3>1
    <3>. QED BY <1>3, <2>2, <3>1, <3>2
  <2>3. \A n \in 0..b : n \in T
    <3>. HIDE DEF T
    <3>. QED BY <1>1, <2>1, <2>2, UpTo
  <2>. QED BY <2>3
<1>10. step[b] \in S
  BY <1>1, <1>9
<1>11. PICK st : st = step[b]
  OBVIOUS
<1>12. Fits(st, must, order, budget)
  BY <1>10, <1>11 DEF S
<1>13. (\E i \in WS!SeqRange(st.chosen) : ~WS!Must(i)) => WS!TokensUsed(st.chosen) <= budget
  <2>1. WS!TokensUsed(st.chosen) \in Nat
    BY <1>12, TokensNat DEF Fits
  <2>. QED BY <1>12, <2>1 DEF Fits
<1>. QED BY <1>8, <1>11, <1>12, <1>13 DEF Fits

\* The module WorkingSet counts as this one does.
LEMMA SameCount ==
  ASSUME NEW S PROVE (WS!IsFiniteSet(S) <=> IsFiniteSet(S)) /\ WS!Cardinality(S) = Cardinality(S)
BY DEF IsFiniteSet, WS!IsFiniteSet, Cardinality, WS!Cardinality

LEMMA ItemsFinite ==
  ASSUME NEW S \in SUBSET WS!Items PROVE IsFiniteSet(S) /\ Cardinality(S) \in Nat
<1>1. IsFiniteSet(WS!Items)
  BY PartsAssumption, SameCount DEF WS!WorkingSetAssumption
<1>. QED BY <1>1, FS_Subset, FS_CardinalityType

LEMMA OrderSeq ==
  ASSUME NEW S \in SUBSET WS!Items, NEW base, NEW q \in WS!Orders(S, base)
  PROVE  q \in Seq(S) /\ q \in Seq(WS!Items) /\ WS!SeqRange(q) = S
<1>1. q \in [1..Cardinality(S) -> S] /\ WS!SeqRange(q) = S
  BY SameCount DEF WS!Orders
<1>2. Cardinality(S) \in Nat
  BY ItemsFinite
<1>. QED BY <1>1, <1>2

\* best[f] keeps every fact that any source gave.
LEMMA BestDomain ==
  ASSUME NEW D \in SUBSET Facts, NEW old \in [D -> 1..MaxScore],
         NEW H \in SUBSET Facts, NEW hits \in [H -> 1..MaxScore]
  PROVE  WS!Best(old, hits) \in [D \cup H -> 1..MaxScore]
BY DEF WS!Best

\* A set and a part of it with as many elements are the same.
LEMMA AllOf ==
  ASSUME NEW S \in SUBSET WS!Items, NEW T \in SUBSET S, Cardinality(T) = Cardinality(S)
  PROVE  T = S
<1>1. IsFiniteSet(S)
  BY ItemsFinite
<1>. QED BY <1>1, FS_Subset

\* The two cuts and the merge (root_top_k, rerank and merge_duplicates): a constraint is
\* ranked, or more were found than the cuts keep, or a duplicate with no lower score is.
LEMMA CutsKeep ==
  ASSUME NEW D \in SUBSET Facts, NEW score \in [D -> 1..MaxScore],
         NEW S \in WS!Capped(score, RootTopK), NEW how,
         NEW T \in SUBSET S, Cardinality(T) = WS!Cut(how, Cardinality(S)),
         NEW R, R = T \/ R \in WS!Merges(T, score)
  PROVE  /\ R \subseteq D
         /\ \A f \in Constraint \cap D :
              \/ f \in R
              \/ Cardinality(D) > WS!Least(RootTopK, RerankCap)
              \/ \E g \in (R \cap WS!Group(f, D)) \ {f} : score[g] >= score[f]
<1>1. S \in SUBSET D /\ Cardinality(S) = WS!Least(RootTopK, Cardinality(D)) /\ DOMAIN score = D
  BY SameCount DEF WS!Capped
<1>2. R \subseteq T
  BY DEF WS!Merges
<1>3. ASSUME NEW f \in Constraint \cap D, f \notin R,
             ~(Cardinality(D) > WS!Least(RootTopK, RerankCap))
      PROVE  \E g \in (R \cap WS!Group(f, D)) \ {f} : score[g] >= score[f]
  <2>1. RootTopK \in Nat /\ RerankCap \in Nat /\ D \in SUBSET WS!Items
    BY PartsAssumption DEF WS!WorkingSetAssumption, WS!Items
  <2>2. Cardinality(D) \in Nat /\ IsFiniteSet(D)
    BY <2>1, ItemsFinite
  <2>3. Cardinality(D) <= RootTopK /\ Cardinality(D) <= RerankCap
    BY <1>3, <2>1, <2>2 DEF WS!Least
  <2>4. Cardinality(S) = Cardinality(D)
    BY <1>1, <2>1, <2>2, <2>3 DEF WS!Least
  <2>5. S = D
    BY <1>1, <2>1, <2>4, AllOf
  <2>6. Cardinality(T) = Cardinality(D)
    BY <2>1, <2>2, <2>3, <2>5 DEF WS!Cut, WS!Least
  <2>7. T = D
    BY <2>1, <2>5, <2>6, AllOf
  <2>8. R \in WS!Merges(D, score)
    BY <1>3, <2>7
  <2>9. /\ Cardinality(R \cap WS!Group(f, D)) = 1
        /\ \A g \in R \cap WS!Group(f, D) : score[g] >= score[f]
    BY <1>3, <2>8, SameCount DEF WS!Merges
  <2>10. CASE R \cap WS!Group(f, D) = {}
    <3>1. Cardinality({}) = 1
      BY <2>9, <2>10
    <3>. QED BY <3>1, FS_EmptySet
  <2>. QED BY <1>3, <2>9, <2>10
<1>. QED BY <1>1, <1>2, <1>3

------------------------------------------------------------------------------
(* The working set: the steps                                              *)

LEMMA IdleCall == WS!Idle \in WS!CallType /\ WS!NoSnapshot \in WS!Snapshots
<1>1. WS!NoSnapshot \in WS!Snapshots
  BY DEF WS!NoSnapshot, WS!Snapshots
<1>2. <<>> \in [{} -> 1..MaxScore]
  OBVIOUS
<1>3. <<>> \in UNION {[D -> 1..MaxScore] : D \in SUBSET Facts}
  BY <1>2
<1>. QED BY <1>1, <1>3 DEF WS!Idle, WS!CallType, WS!Standings

LEMMA WorkingSetInit == ASSUME WS!Init PROVE WS!IInv
<1>1. \A c \in WS!Builds : build[c] = WS!Idle
  BY DEF WS!Init
<1>2. \A c \in WS!Builds : build[c].pc = "idle"
  BY <1>1 DEF WS!Idle
<1>3. build \in [WS!Builds -> WS!CallType] /\ memory \in WS!Snapshots /\ redis \in WS!Snapshots
  BY IdleCall DEF WS!Init
<1>4. standing \in [Facts -> WS!Standings]
  BY DEF WS!Init, WS!Standings
<1>5. \A c \in WS!Builds : /\ WS!FoundAfterStart(build[c]) /\ WS!RankedKeeps(build[c])
                         /\ WS!SelectedWell(build[c]) /\ WS!Undisturbed(c, build[c])
  BY <1>2 DEF WS!FoundAfterStart, WS!RankedKeeps, WS!SelectedWell, WS!Undisturbed, WS!Running
<1>. QED BY <1>3, <1>4, <1>5 DEF WS!IInv, WS!Builds

\* What a step of one call leaves to be shown: the call's own part.
LEMMA OwnPart ==
  ASSUME WS!IInv, NEW c \in WS!Builds, WS!Running(c), NEW x \in WS!CallType,
         build' = [build EXCEPT ![c] = x], UNCHANGED standing,
         memory' \in WS!Snapshots, redis' \in WS!Snapshots,
         WS!FoundAfterStart(x), WS!RankedKeeps(x), WS!SelectedWell(x),
         build[c].mixed => x.mixed,
         c \in Assembling /\ ~x.mixed =>
           /\ x.pc \in {"persist", "assemble", "cache", "returned"} => memory' = x.snapshot
           /\ x.pc = "returned" => redis' = x.snapshot
           /\ x.pc \in {"cache", "returned", "done"} => x.system \subseteq WS!ItemsOf(x.snapshot)
           /\ x.pc = "done" => x.shown = WS!ItemsOf(x.snapshot)
  PROVE  WS!IInv'
<1>1. build \in [WS!Builds -> WS!CallType] /\ build' \in [WS!Builds -> WS!CallType]
  BY DEF WS!IInv
<1>2. build'[c] = x /\ \A d \in WS!Builds \ {c} : build'[d] = build[d]
  BY <1>1
<1>3. \A d \in WS!Builds : /\ WS!FoundAfterStart(build[d])' /\ WS!RankedKeeps(build[d])'
                         /\ WS!SelectedWell(build[d])'
  BY <1>2 DEF WS!IInv, WS!FoundAfterStart, WS!RankedKeeps, WS!SelectedWell
<1>4. \A d \in WS!Builds \ {c} : WS!Running(d)' = WS!Running(d)
  BY <1>2 DEF WS!Running
<1>5. ASSUME NEW d \in Assembling PROVE WS!Undisturbed(d, build[d])'
  <2>1. d \in WS!Builds /\ WS!Undisturbed(d, build[d])
    BY DEF WS!IInv, WS!Builds
  <2>2. CASE d = c
    <3>1. ~x.mixed => \A e \in WS!Builds \ {c} : ~WS!Running(e)'
      BY <1>4, <2>1, <2>2 DEF WS!Undisturbed
    <3>. QED BY <1>2, <2>2, <3>1 DEF WS!Undisturbed
  <2>3. CASE d # c
    <3>1. build[d].mixed \/ ~WS!Running(d)
      BY <2>1, <2>3 DEF WS!Undisturbed
    <3>2. build[d].mixed \/ build[d].pc \in {"idle", "done", "dead"}
      BY <3>1 DEF WS!Running
    <3>3. build'[d] = build[d] /\ WS!Running(d)' = WS!Running(d)
      BY <1>2, <1>4, <2>1, <2>3
    <3>. QED BY <2>1, <3>1, <3>2, <3>3 DEF WS!Undisturbed
  <2>. QED BY <2>2, <2>3
<1>. QED BY <1>1, <1>3, <1>5 DEF WS!IInv

LEMMA OneFoundSound ==
  ASSUME WS!IInv, NEW c \in WS!Builds, build[c].pc = "gather", NEW source,
         NEW H \in SUBSET Facts, NEW hits \in [H -> 1..MaxScore],
         \A f \in H : standing[f] # "gone",
         WS!Gather(c, source, [build[c] EXCEPT !.score = WS!Best(@, hits)]),
         UNCHANGED <<standing, memory, redis>>
  PROVE  WS!IInv'
<1>1. PICK y : y = build[c]
  OBVIOUS
<1>2. y \in WS!CallType /\ WS!FoundAfterStart(y)
  BY <1>1 DEF WS!IInv
<1>3. PICK D \in SUBSET Facts : y.score \in [D -> 1..MaxScore]
  BY <1>2 DEF WS!CallType
<1>4. PICK best : best = WS!Best(y.score, hits)
  OBVIOUS
<1>5. best \in [D \cup H -> 1..MaxScore]
  BY <1>3, <1>4, BestDomain
<1>6. PICK x : x = [[y EXCEPT !.score = best] EXCEPT !.pending = @ \ {source}]
  OBVIOUS
<1>7. build' = [build EXCEPT ![c] = x]
  BY <1>1, <1>4, <1>6 DEF WS!Gather
<1>8. best \in UNION {[E -> 1..MaxScore] : E \in SUBSET Facts}
  BY <1>3, <1>5
<1>9. x \in WS!CallType
  BY <1>2, <1>6, <1>8 DEF WS!CallType
<1>10. x.pc = "gather" /\ x.at = y.at /\ x.score = best /\ x.mixed = y.mixed
  BY <1>1, <1>2, <1>6 DEF WS!CallType
<1>11. WS!FoundAfterStart(x)
  <2>1. \A f \in DOMAIN best : y.at[f] # "gone"
    <3>1. \A f \in D : y.at[f] # "gone"
      BY <1>1, <1>2, <1>3 DEF WS!FoundAfterStart
    <3>2. \A f \in H : y.at[f] # "gone"
      BY <1>1, <1>2 DEF WS!FoundAfterStart
    <3>. QED BY <1>5, <3>1, <3>2
  <2>. QED BY <1>1, <1>2, <1>10, <2>1 DEF WS!FoundAfterStart
<1>12. WS!RankedKeeps(x) /\ WS!SelectedWell(x)
  BY <1>10 DEF WS!RankedKeeps, WS!SelectedWell
<1>13. memory' \in WS!Snapshots /\ redis' \in WS!Snapshots
  BY DEF WS!IInv
<1>14. WS!Running(c)
  BY DEF WS!Running
<1>. QED BY <1>1, <1>7, <1>9, <1>10, <1>11, <1>12, <1>13, <1>14, OwnPart

LEMMA GatherSound ==
  ASSUME WS!IInv, NEW c \in WS!Builds, WS!Structural(c) \/ WS!Vector(c) PROVE WS!IInv'
<1>1. MaxScore \in Nat \ {0}
  BY PartsAssumption DEF WS!WorkingSetAssumption
<1>2. CASE WS!Structural(c)
  <2>1. PICK H \in SUBSET {f \in Facts : standing[f] = "live"} :
          WS!Gather(c, "structural", [build[c] EXCEPT !.score = WS!Best(@, [f \in H |-> 1])])
    BY <1>2 DEF WS!Structural
  <2>2. [f \in H |-> 1] \in [H -> 1..MaxScore]
    BY <1>1
  <2>3. H \in SUBSET Facts /\ \A f \in H : standing[f] # "gone"
    BY <2>1
  <2>4. build[c].pc = "gather" /\ UNCHANGED <<standing, memory, redis>>
    BY <1>2 DEF WS!Structural
  <2>. QED BY <2>1, <2>2, <2>3, <2>4, OneFoundSound
<1>3. CASE WS!Vector(c)
  <2>1. PICK H \in SUBSET Facts :
          \E hits \in [{f \in H : WS!Found(f)} -> 1..MaxScore] :
             WS!Gather(c, "vector", [build[c] EXCEPT !.score = WS!Best(@, hits)])
    BY <1>3 DEF WS!Vector
  <2>5. PICK hits \in [{f \in H : WS!Found(f)} -> 1..MaxScore] :
          WS!Gather(c, "vector", [build[c] EXCEPT !.score = WS!Best(@, hits)])
    BY <2>1
  <2>2. PICK G \in SUBSET Facts : G = {f \in H : WS!Found(f)}
    OBVIOUS
  <2>3. hits \in [G -> 1..MaxScore] /\ \A f \in G : standing[f] # "gone"
    BY <2>2 DEF WS!Found
  <2>4. build[c].pc = "gather" /\ UNCHANGED <<standing, memory, redis>>
    BY <1>3 DEF WS!Vector
  <2>. QED BY <2>5, <2>3, <2>4, OneFoundSound
<1>. QED BY <1>2, <1>3

\* One disturbance or several: others become mixed.
LEMMA MixingSound ==
  ASSUME WS!IInv, NEW new \in [WS!Builds -> WS!CallType], NEW others,
         NEW d \in WS!Builds, d \notin others \/ new[d] = build[d]
  PROVE  LET y == WS!Mixing(new, others)[d]
         IN  /\ y \in WS!CallType
             /\ y.pc = new[d].pc /\ y.at = new[d].at /\ y.score = new[d].score
             /\ y.ranked = new[d].ranked /\ y.direct = new[d].direct
             /\ y.snapshot = new[d].snapshot /\ y.budget = new[d].budget
             /\ y.system = new[d].system /\ y.shown = new[d].shown
             /\ d \notin others => y = new[d]
             /\ d \in others => (y.mixed <=> new[d].mixed \/ WS!Running(d))
<1>1. PICK z : z = new[d]
  OBVIOUS
<1>2. PICK y : y = WS!Mixing(new, others)[d]
  OBVIOUS
<1>3. z \in WS!CallType
  BY <1>1
<1>4. y = IF d \in others /\ WS!Running(d) THEN [z EXCEPT !.mixed = TRUE] ELSE z
  BY <1>1, <1>2 DEF WS!Mixing
<1>5. [z EXCEPT !.mixed = TRUE] \in WS!CallType
  BY <1>3 DEF WS!CallType
<1>6. y \in WS!CallType
  BY <1>3, <1>4, <1>5
<1>7. /\ y.pc = z.pc /\ y.at = z.at /\ y.score = z.score
      /\ y.ranked = z.ranked /\ y.direct = z.direct
      /\ y.snapshot = z.snapshot /\ y.budget = z.budget
      /\ y.system = z.system /\ y.shown = z.shown
  BY <1>3, <1>4 DEF WS!CallType
<1>8. d \in others => (y.mixed <=> z.mixed \/ WS!Running(d))
  <2>1. z.mixed \in BOOLEAN
    BY <1>3 DEF WS!CallType
  <2>2. CASE d \in others /\ WS!Running(d)
    <3>1. y.mixed = TRUE
      BY <1>3, <1>4, <2>2 DEF WS!CallType
    <3>. QED BY <2>2, <3>1
  <2>3. CASE ~(d \in others /\ WS!Running(d))
    BY <1>4, <2>3
  <2>. QED BY <2>2, <2>3
<1>. QED BY <1>1, <1>2, <1>4, <1>6, <1>7, <1>8

LEMMA StartSound == ASSUME WS!IInv, NEW c \in WS!Builds, WS!Start(c) PROVE WS!IInv'
<1>. DEFINE began(budget, E, D) ==
       [WS!Idle EXCEPT !.pc = "gather", !.budget = budget,
          !.edges = E, !.direct = D, !.pending = WS!Sources, !.at = standing,
          !.mixed = \E d \in WS!Builds : WS!Running(d)]
<1>1. PICK budget \in Budgets : \E E \in WS!ConflictEdges, D \in WS!DirectItems :
        build' = WS!Mixing([build EXCEPT ![c] = began(budget, E, D)], WS!Builds \ {c})
  BY DEF WS!Start
<1>2. PICK E \in WS!ConflictEdges, D \in WS!DirectItems :
        build' = WS!Mixing([build EXCEPT ![c] = began(budget, E, D)], WS!Builds \ {c})
  BY <1>1
<1>3. PICK x : x = began(budget, E, D)
  OBVIOUS
<1>4. PICK busy \in BOOLEAN : busy <=> (\E d \in WS!Builds : WS!Running(d))
  OBVIOUS
<1>5. /\ x.pc = "gather" /\ x.at = standing /\ x.score = <<>>
      /\ (x.mixed <=> busy) /\ x.budget = budget /\ x.edges = E
      /\ x.direct = D /\ x.pending = WS!Sources /\ x.ranked = {} /\ x.snapshot = WS!NoSnapshot
      /\ x.system = {} /\ x.shown = {}
  BY <1>3, <1>4 DEF WS!Idle
<1>6. x \in WS!CallType
  <2>1. WS!Idle \in WS!CallType
    BY IdleCall
  <2>2. standing \in [Facts -> WS!Standings]
    BY DEF WS!IInv
  <2>3. budget \in Nat
    BY PartsAssumption DEF WS!WorkingSetAssumption
  <2>4. E \in SUBSET (Facts \X Facts) /\ D \in SUBSET Direct
    BY PartsAssumption DEF WS!WorkingSetAssumption, WS!ConflictEdges, WS!DirectItems
  <2>5. (\E d \in WS!Builds : WS!Running(d)) \in BOOLEAN
    OBVIOUS
  <2>. QED BY <1>3, <2>1, <2>2, <2>3, <2>4, <2>5 DEF WS!CallType
<1>7. PICK new : new = [build EXCEPT ![c] = x]
  OBVIOUS
<1>8. /\ new \in [WS!Builds -> WS!CallType] /\ new[c] = x
      /\ \A d \in WS!Builds \ {c} : new[d] = build[d]
  BY <1>6, <1>7 DEF WS!IInv
<1>9. build' = WS!Mixing(new, WS!Builds \ {c})
  BY <1>2, <1>3, <1>7
<1>10. build'[c] = x
  BY <1>8, <1>9, MixingSound
<1>11. \A d \in WS!Builds \ {c} :
         /\ build'[d].pc = build[d].pc /\ build'[d].at = build[d].at
         /\ build'[d].score = build[d].score /\ build'[d].ranked = build[d].ranked
         /\ build'[d].direct = build[d].direct /\ build'[d].snapshot = build[d].snapshot
         /\ build'[d].budget = build[d].budget /\ build'[d].system = build[d].system
         /\ build'[d].shown = build[d].shown
         /\ (build'[d].mixed <=> build[d].mixed \/ WS!Running(d))
  BY <1>8, <1>9, MixingSound
<1>12. build' \in [WS!Builds -> WS!CallType]
  <2>1. \A d \in WS!Builds : WS!Mixing(new, WS!Builds \ {c})[d] \in WS!CallType
    BY <1>8, MixingSound
  <2>2. build' = [d \in WS!Builds |-> WS!Mixing(new, WS!Builds \ {c})[d]]
    BY <1>9 DEF WS!Mixing
  <2>. QED BY <2>1, <2>2
<1>13. UNCHANGED <<standing, memory, redis>>
  BY DEF WS!Start
<1>14. \A d \in WS!Builds \ {c} : WS!Running(d)' <=> WS!Running(d)
  BY <1>11 DEF WS!Running
<1>15. \A d \in WS!Builds \ {c} :
         /\ WS!FoundAfterStart(build[d])' /\ WS!RankedKeeps(build[d])'
         /\ WS!SelectedWell(build[d])'
  BY <1>11, <1>13
     DEF WS!IInv, WS!FoundAfterStart, WS!RankedKeeps, WS!SelectedWell
<1>16. WS!FoundAfterStart(build[c])' /\ WS!RankedKeeps(build[c])' /\ WS!SelectedWell(build[c])'
  BY <1>5, <1>10, <1>13 DEF WS!FoundAfterStart, WS!RankedKeeps, WS!SelectedWell
<1>17. ASSUME NEW d \in Assembling PROVE WS!Undisturbed(d, build[d])'
  <2>1. d \in WS!Builds /\ WS!Undisturbed(d, build[d])
    BY DEF WS!IInv, WS!Builds
  <2>2. CASE d = c
    <3>1. ~x.mixed => \A e \in WS!Builds \ {c} : ~WS!Running(e)'
      BY <1>4, <1>5, <1>14
    <3>. QED BY <1>5, <1>10, <2>2, <3>1 DEF WS!Undisturbed
  <2>3. CASE d # c
    <3>1. build'[d].mixed \/ build[d].pc \in {"idle", "done", "dead"}
      BY <1>11, <2>1, <2>3 DEF WS!Running
    <3>2. ~build'[d].mixed => ~build[d].mixed
      BY <1>11, <2>1, <2>3
    <3>. QED BY <1>11, <1>14, <2>1, <2>3, <3>1, <3>2 DEF WS!Undisturbed, WS!Running
  <2>. QED BY <2>2, <2>3
<1>. QED BY <1>12, <1>13, <1>15, <1>16, <1>17 DEF WS!IInv

LEMMA RerankSound == ASSUME WS!IInv, NEW c \in WS!Builds, WS!Rerank(c) PROVE WS!IInv'
<1>1. PICK y : y = build[c]
  OBVIOUS
<1>2. y \in WS!CallType /\ WS!FoundAfterStart(y) /\ y.pc = "gather"
  BY <1>1 DEF WS!IInv, WS!Rerank
<1>3. PICK D \in SUBSET Facts : y.score \in [D -> 1..MaxScore]
  BY <1>2 DEF WS!CallType
<1>4. PICK score \in [D -> 1..MaxScore] : score = y.score
  BY <1>3
<1>5. PICK how \in {"all", "unmerged", "raised"}, S \in WS!Capped(build[c].score, RootTopK) :
        \E T \in SUBSET S :
          /\ WS!Cardinality(T) = WS!Cut(how, WS!Cardinality(S))
          /\ \E R \in IF how = "all" THEN WS!Merges(T, build[c].score) ELSE {T} :
               build' = [build EXCEPT ![c].ranked = R, ![c].pc = "score"]
  BY DEF WS!Rerank
<1>6. PICK T \in SUBSET S :
        /\ WS!Cardinality(T) = WS!Cut(how, WS!Cardinality(S))
        /\ \E R \in IF how = "all" THEN WS!Merges(T, build[c].score) ELSE {T} :
             build' = [build EXCEPT ![c].ranked = R, ![c].pc = "score"]
  BY <1>5
<1>7. PICK R \in IF how = "all" THEN WS!Merges(T, build[c].score) ELSE {T} :
        build' = [build EXCEPT ![c].ranked = R, ![c].pc = "score"]
  BY <1>6
<1>8. /\ R = T \/ R \in WS!Merges(T, score)
      /\ S \in WS!Capped(score, RootTopK)
  BY <1>1, <1>4, <1>5, <1>7
<1>9. Cardinality(T) = WS!Cut(how, Cardinality(S))
  BY <1>6, SameCount
<1>10. /\ R \subseteq D
       /\ \A f \in Constraint \cap D :
            \/ f \in R
            \/ Cardinality(D) > WS!Least(RootTopK, RerankCap)
            \/ \E g \in (R \cap WS!Group(f, D)) \ {f} : score[g] >= score[f]
  <2>1. D \in SUBSET Facts /\ score \in [D -> 1..MaxScore]
    BY <1>3, <1>4
  <2>2. S \in WS!Capped(score, RootTopK) /\ T \in SUBSET S
    BY <1>6, <1>8
  <2>3. R = T \/ R \in WS!Merges(T, score)
    BY <1>8
  <2>. QED BY <1>9, <2>1, <2>2, <2>3, CutsKeep
<1>11. PICK x : x = [y EXCEPT !.ranked = R, !.pc = "score"]
  OBVIOUS
<1>12. build' = [build EXCEPT ![c] = x]
  BY <1>1, <1>7, <1>11
<1>13. x \in WS!CallType
  BY <1>2, <1>10, <1>11 DEF WS!CallType
<1>14. x.pc = "score" /\ x.ranked = R /\ x.score = score /\ x.at = y.at /\ x.mixed = y.mixed
  BY <1>2, <1>4, <1>11 DEF WS!CallType
<1>15. WS!RankedKeeps(x)
  BY <1>10, <1>14, SameCount DEF WS!RankedKeeps
<1>16. WS!FoundAfterStart(x) /\ WS!SelectedWell(x)
  BY <1>2, <1>4, <1>14 DEF WS!FoundAfterStart, WS!SelectedWell
<1>17. UNCHANGED <<standing, memory, redis>> /\ memory' \in WS!Snapshots /\ redis' \in WS!Snapshots
  BY DEF WS!Rerank, WS!IInv
<1>18. WS!Running(c)
  BY <1>1, <1>2 DEF WS!Running
<1>. QED BY <1>1, <1>12, <1>13, <1>14, <1>15, <1>16, <1>17, <1>18, OwnPart

LEMMA SelectSound == ASSUME WS!IInv, NEW c \in WS!Builds, WS!Select(c) PROVE WS!IInv'
<1>1. PICK y : y = build[c]
  OBVIOUS
<1>. DEFINE all == build[c].ranked \cup build[c].direct
            must == {i \in all : WS!Must(i)}
<1>3. all = y.ranked \cup y.direct
  BY <1>1
<1>2. y \in WS!CallType /\ WS!FoundAfterStart(y) /\ WS!RankedKeeps(y) /\ y.pc = "score"
  BY <1>1 DEF WS!IInv, WS!Select
<1>5. all \in SUBSET WS!Items /\ must \in SUBSET WS!Items /\ all \ must \in SUBSET WS!Items
  BY <1>2, <1>3 DEF WS!CallType, WS!Items
<1>7. PICK base \in WS!BaseScores(all) :
        \E order \in WS!Orders(all \ must, base), first \in WS!Orders(must, [i \in must |-> 1]) :
          LET snap == [by |-> c,
                  items |-> WS!Greedy(first, order, build[c].budget, base, build[c].edges)]
          IN  /\ memory' = snap
              /\ build' = [build EXCEPT ![c].snapshot = snap, ![c].pc = "persist"]
  BY DEF WS!Select
<1>8. PICK order \in WS!Orders(all \ must, base), first \in WS!Orders(must, [i \in must |-> 1]) :
        LET snap == [by |-> c,
                items |-> WS!Greedy(first, order, build[c].budget, base, build[c].edges)]
        IN  /\ memory' = snap
            /\ build' = [build EXCEPT ![c].snapshot = snap, ![c].pc = "persist"]
  BY <1>7
<1>9. PICK items : items = WS!Greedy(first, order, build[c].budget, base, build[c].edges)
  OBVIOUS
<1>10. PICK snap : snap = [by |-> c, items |-> items]
  OBVIOUS
<1>11. /\ first \in Seq(WS!Items) /\ WS!SeqRange(first) = must
       /\ order \in Seq(WS!Items) /\ WS!SeqRange(order) = all \ must
  BY <1>5, OrderSeq
<1>12. /\ items \in Seq(WS!Items) /\ must \subseteq WS!SeqRange(items)
       /\ WS!SeqRange(items) \subseteq all
       /\ (\E i \in WS!SeqRange(items) : ~WS!Must(i)) => WS!TokensUsed(items) <= y.budget
  <2>1. y.budget \in Nat
    BY <1>2 DEF WS!CallType
  <2>2. \A i \in WS!SeqRange(first) : WS!Must(i)
    BY <1>11
  <2>. QED BY <1>1, <1>9, <1>11, <2>1, <2>2, GreedySound
<1>13. snap \in WS!Snapshots /\ snap.items = items
  BY <1>10, <1>12 DEF WS!Snapshots
<1>14. PICK x : x = [y EXCEPT !.snapshot = snap, !.pc = "persist"]
  OBVIOUS
<1>15. build' = [build EXCEPT ![c] = x] /\ memory' = snap
  BY <1>1, <1>8, <1>9, <1>10, <1>14
<1>16. x \in WS!CallType
  BY <1>2, <1>13, <1>14 DEF WS!CallType
<1>17. /\ x.pc = "persist" /\ x.snapshot = snap /\ x.ranked = y.ranked /\ x.direct = y.direct
       /\ x.score = y.score /\ x.at = y.at /\ x.mixed = y.mixed /\ x.budget = y.budget
  BY <1>2, <1>14 DEF WS!CallType
<1>18. WS!RankedKeeps(x) /\ WS!FoundAfterStart(x)
  BY <1>2, <1>17 DEF WS!FoundAfterStart, WS!RankedKeeps
<1>19. WS!SelectedWell(x)
  BY <1>3, <1>12, <1>13, <1>17 DEF WS!SelectedWell, WS!ItemsOf
<1>20. UNCHANGED <<standing, redis>> /\ memory' \in WS!Snapshots /\ redis' \in WS!Snapshots
  BY <1>13, <1>15 DEF WS!Select, WS!IInv
<1>21. WS!Running(c)
  BY <1>1, <1>2 DEF WS!Running
<1>. QED BY <1>1, <1>15, <1>16, <1>17, <1>18, <1>19, <1>20, <1>21, OwnPart

LEMMA PersistSound == ASSUME WS!IInv, NEW c \in WS!Builds, WS!Persist(c) PROVE WS!IInv'
<1>1. PICK y : y = build[c]
  OBVIOUS
<1>2. c \in Assembling => WS!Undisturbed(c, y)
  BY <1>1 DEF WS!IInv
<1>3. y \in WS!CallType /\ y.pc = "persist"
  BY <1>1 DEF WS!IInv, WS!Persist
<1>4. PICK x : x = [y EXCEPT !.pc = IF c \in Assembling THEN "assemble" ELSE "done",
            !.snapshot = IF c \in Assembling THEN @ ELSE WS!NoSnapshot,
            !.edges = {}, !.score = <<>>, !.direct = {}, !.ranked = {},
            !.at = WS!Idle.at]
  OBVIOUS
<1>5. build' = [build EXCEPT ![c] = x]
  <2>1. build' = [build EXCEPT ![c] =
           [build[c] EXCEPT !.pc = IF c \in Assembling THEN "assemble" ELSE "done",
              !.snapshot = IF c \in Assembling THEN @ ELSE WS!NoSnapshot,
              !.edges = {}, !.score = <<>>, !.direct = {}, !.ranked = {},
              !.at = WS!Idle.at]]
    BY DEF WS!Persist
  <2>. QED BY <1>1, <1>4, <2>1
<1>6. /\ WS!NoSnapshot \in WS!Snapshots /\ WS!Idle.at \in [Facts -> WS!Standings]
      /\ <<>> \in UNION {[D -> 1..MaxScore] : D \in SUBSET Facts}
  <2>1. WS!NoSnapshot \in WS!Snapshots /\ WS!Idle \in WS!CallType
    BY IdleCall
  <2>2. WS!Idle.score = <<>>
    BY DEF WS!Idle
  <2>. QED BY <2>1, <2>2 DEF WS!CallType
<1>7. x \in WS!CallType
  BY <1>3, <1>4, <1>6 DEF WS!CallType
<1>8. x.pc = (IF c \in Assembling THEN "assemble" ELSE "done") /\ x.mixed = y.mixed
  BY <1>3, <1>4 DEF WS!CallType
<1>9. c \in Assembling => x.snapshot = y.snapshot
  BY <1>3, <1>4 DEF WS!CallType
<1>10. WS!RankedKeeps(x) /\ WS!FoundAfterStart(x) /\ WS!SelectedWell(x)
  BY <1>8 DEF WS!FoundAfterStart, WS!RankedKeeps, WS!SelectedWell
<1>11. UNCHANGED <<standing, memory>> /\ memory' \in WS!Snapshots
  BY DEF WS!Persist, WS!IInv
<1>12. redis' \in WS!Snapshots
  <2>1. redis' = redis \/ redis' = y.snapshot
    BY <1>1 DEF WS!Persist
  <2>. QED BY <1>3, <2>1 DEF WS!CallType, WS!IInv
<1>13. WS!Running(c)
  BY <1>1, <1>3 DEF WS!Running
<1>14. c \in Assembling /\ ~x.mixed => memory' = x.snapshot /\ x.pc = "assemble"
  BY <1>2, <1>3, <1>8, <1>9, <1>11 DEF WS!Undisturbed
<1>. QED BY <1>1, <1>5, <1>7, <1>8, <1>10, <1>11, <1>12, <1>13, <1>14, OwnPart

LEMMA BlockOfItems == ASSUME NEW items, NEW budget PROVE WS!Block1(items, budget) \subseteq WS!SeqRange(items)
BY DEF WS!Block1, WS!SeqRange

LEMMA AssembleSound == ASSUME WS!IInv, NEW c \in WS!Builds, WS!Assemble(c) PROVE WS!IInv'
<1>1. PICK y : y = build[c]
  OBVIOUS
<1>2. y \in WS!CallType /\ y.pc = "assemble"
  BY <1>1 DEF WS!IInv, WS!Assemble
<1>3. c \in Assembling => WS!Undisturbed(c, y)
  BY <1>1 DEF WS!IInv
<1>4. PICK block : block = WS!Block1(build[c].snapshot.items, build[c].budget)
  OBVIOUS
<1>5. build' = [build EXCEPT ![c].system = block, ![c].pc = "cache"]
  BY <1>4 DEF WS!Assemble
<1>6. PICK x : x = [y EXCEPT !.system = block, !.pc = "cache"]
  OBVIOUS
<1>7. build' = [build EXCEPT ![c] = x]
  BY <1>1, <1>5, <1>6
<1>8. block \subseteq WS!ItemsOf(y.snapshot)
  BY <1>1, <1>4, BlockOfItems DEF WS!ItemsOf
<1>9. WS!ItemsOf(y.snapshot) \subseteq WS!Items
  <2>1. y.snapshot.items \in Seq(WS!Items)
    BY <1>2 DEF WS!CallType, WS!Snapshots
  <2>. QED BY <2>1 DEF WS!ItemsOf, WS!SeqRange
<1>10. x \in WS!CallType
  BY <1>2, <1>6, <1>8, <1>9 DEF WS!CallType
<1>11. x.pc = "cache" /\ x.system = block /\ x.snapshot = y.snapshot /\ x.mixed = y.mixed
  BY <1>2, <1>6 DEF WS!CallType
<1>12. WS!FoundAfterStart(x) /\ WS!RankedKeeps(x) /\ WS!SelectedWell(x)
  BY <1>11 DEF WS!FoundAfterStart, WS!RankedKeeps, WS!SelectedWell
<1>13. UNCHANGED <<standing, memory, redis>> /\ memory' \in WS!Snapshots /\ redis' \in WS!Snapshots
  BY DEF WS!Assemble, WS!IInv
<1>14. WS!Running(c)
  BY <1>1, <1>2 DEF WS!Running
<1>15. c \in Assembling /\ ~x.mixed => memory' = x.snapshot
  BY <1>2, <1>3, <1>11, <1>13 DEF WS!Undisturbed
<1>. QED BY <1>1, <1>7, <1>8, <1>10, <1>11, <1>12, <1>13, <1>14, <1>15, OwnPart

LEMMA CacheSound == ASSUME WS!IInv, NEW c \in WS!Builds, WS!Cache(c) PROVE WS!IInv'
<1>1. PICK y : y = build[c]
  OBVIOUS
<1>2. y \in WS!CallType /\ y.pc = "cache"
  BY <1>1 DEF WS!IInv, WS!Cache
<1>3. c \in Assembling => WS!Undisturbed(c, y)
  BY <1>1 DEF WS!IInv
<1>4. PICK ok \in BOOLEAN :
        /\ redis' = IF ok THEN build[c].snapshot ELSE redis
        /\ build' = [build EXCEPT ![c].pc = "returned", ![c].mixed = @ \/ ~ok]
  BY DEF WS!Cache
<1>5. PICK mixed \in BOOLEAN : mixed <=> y.mixed \/ ~ok
  OBVIOUS
<1>6. PICK x : x = [y EXCEPT !.pc = "returned", !.mixed = mixed]
  OBVIOUS
<1>7. build' = [build EXCEPT ![c] = x]
  <2>1. mixed = (y.mixed \/ ~ok)
    BY <1>2, <1>5 DEF WS!CallType
  <2>. QED BY <1>1, <1>4, <1>6, <2>1
<1>8. x \in WS!CallType
  BY <1>2, <1>6 DEF WS!CallType
<1>9. /\ x.pc = "returned" /\ x.system = y.system /\ x.snapshot = y.snapshot
      /\ x.mixed = mixed
  BY <1>2, <1>6 DEF WS!CallType
<1>10. WS!FoundAfterStart(x) /\ WS!RankedKeeps(x) /\ WS!SelectedWell(x)
  BY <1>9 DEF WS!FoundAfterStart, WS!RankedKeeps, WS!SelectedWell
<1>11. UNCHANGED <<standing, memory>> /\ memory' \in WS!Snapshots
  BY DEF WS!Cache, WS!IInv
<1>12. redis' \in WS!Snapshots
  BY <1>1, <1>2, <1>4 DEF WS!CallType, WS!IInv
<1>13. WS!Running(c)
  BY <1>1, <1>2 DEF WS!Running
<1>14. c \in Assembling /\ ~x.mixed =>
         /\ memory' = x.snapshot /\ redis' = x.snapshot
         /\ x.system \subseteq WS!ItemsOf(x.snapshot)
  BY <1>1, <1>2, <1>3, <1>4, <1>5, <1>9, <1>11 DEF WS!Undisturbed
<1>15. build[c].mixed => x.mixed
  BY <1>1, <1>5, <1>9
<1>. QED BY <1>7, <1>8, <1>9, <1>10, <1>11, <1>12, <1>13, <1>14, <1>15, OwnPart

LEMMA OverlaySound == ASSUME WS!IInv, NEW c \in WS!Builds, WS!Overlay(c) PROVE WS!IInv'
<1>1. PICK y : y = build[c]
  OBVIOUS
<1>2. y \in WS!CallType /\ y.pc = "returned"
  BY <1>1 DEF WS!IInv, WS!Overlay
<1>3. c \in Assembling => WS!Undisturbed(c, y)
  BY <1>1 DEF WS!IInv
<1>4. PICK shown : shown = WS!ItemsOf(redis)
  OBVIOUS
<1>5. PICK x : x = [y EXCEPT !.shown = shown, !.pc = "done"]
  OBVIOUS
<1>6. build' = [build EXCEPT ![c] = x]
  BY <1>1, <1>4, <1>5 DEF WS!Overlay
<1>7. shown \subseteq WS!Items
  <2>1. redis.items \in Seq(WS!Items)
    BY DEF WS!IInv, WS!Snapshots
  <2>. QED BY <1>4, <2>1 DEF WS!ItemsOf, WS!SeqRange
<1>8. x \in WS!CallType
  BY <1>2, <1>5, <1>7 DEF WS!CallType
<1>9. /\ x.pc = "done" /\ x.system = y.system /\ x.snapshot = y.snapshot
      /\ x.mixed = y.mixed /\ x.shown = shown
  BY <1>2, <1>5 DEF WS!CallType
<1>10. WS!FoundAfterStart(x) /\ WS!RankedKeeps(x) /\ WS!SelectedWell(x)
  BY <1>9 DEF WS!FoundAfterStart, WS!RankedKeeps, WS!SelectedWell
<1>11. UNCHANGED <<standing, memory, redis>> /\ memory' \in WS!Snapshots /\ redis' \in WS!Snapshots
  BY DEF WS!Overlay, WS!IInv
<1>12. WS!Running(c)
  BY <1>1, <1>2 DEF WS!Running
<1>13. c \in Assembling /\ ~x.mixed =>
         /\ x.shown = WS!ItemsOf(x.snapshot)
         /\ x.system \subseteq WS!ItemsOf(x.snapshot)
  BY <1>2, <1>3, <1>4, <1>9 DEF WS!Undisturbed
<1>. QED BY <1>1, <1>6, <1>8, <1>9, <1>10, <1>11, <1>12, <1>13, OwnPart

\* What others do to the facts, the key and the server.
LEMMA SurroundingsSound ==
  ASSUME WS!IInv, (\E f \in Facts : WS!Change(f)) \/ WS!Expire \/ WS!Restart
  PROVE  WS!IInv'
<1>1. CASE \E f \in Facts : WS!Change(f)
  <2>1. PICK f \in Facts : WS!Change(f)
    BY <1>1
  <2>2. PICK to \in WS!Standings : standing' = [standing EXCEPT ![f] = to] /\ standing[f] # "gone"
    BY <2>1 DEF WS!Change
  <2>3. UNCHANGED <<memory, redis, build>>
    BY <2>1 DEF WS!Change
  <2>4. standing' \in [Facts -> WS!Standings] /\ \A g \in Facts : standing[g] = "gone" => standing'[g] = "gone"
    BY <2>2 DEF WS!IInv
  <2>5. \A c \in WS!Builds : WS!FoundAfterStart(build[c])'
    BY <2>3, <2>4 DEF WS!IInv, WS!FoundAfterStart
  <2>6. \A c \in WS!Builds : WS!RankedKeeps(build[c])' /\ WS!SelectedWell(build[c])'
    BY <2>3 DEF WS!IInv, WS!RankedKeeps, WS!SelectedWell
  <2>7. \A c \in Assembling : WS!Undisturbed(c, build[c])'
    BY <2>3 DEF WS!IInv, WS!Undisturbed, WS!Running
  <2>. QED BY <2>3, <2>4, <2>5, <2>6, <2>7 DEF WS!IInv
<1>2. CASE WS!Expire
  <2>1. build \in [WS!Builds -> WS!CallType]
    BY DEF WS!IInv
  <2>2. build' = WS!Mixing(build, WS!Builds) /\ UNCHANGED <<standing, memory>>
    BY <1>2 DEF WS!Expire
  <2>3. redis' \in WS!Snapshots
    BY <1>2, IdleCall DEF WS!Expire
  <2>4. \A d \in WS!Builds :
         /\ build'[d] \in WS!CallType
         /\ build'[d].pc = build[d].pc /\ build'[d].at = build[d].at
         /\ build'[d].score = build[d].score /\ build'[d].ranked = build[d].ranked
         /\ build'[d].direct = build[d].direct /\ build'[d].snapshot = build[d].snapshot
         /\ build'[d].budget = build[d].budget /\ build'[d].system = build[d].system
         /\ build'[d].shown = build[d].shown
         /\ (build'[d].mixed <=> build[d].mixed \/ WS!Running(d))
    BY <2>1, <2>2, MixingSound
  <2>5. build' \in [WS!Builds -> WS!CallType]
    BY <2>2, <2>4 DEF WS!Mixing
  <2>6. \A d \in WS!Builds :
         /\ WS!FoundAfterStart(build[d])' /\ WS!RankedKeeps(build[d])'
         /\ WS!SelectedWell(build[d])'
    BY <2>2, <2>4
       DEF WS!IInv, WS!FoundAfterStart, WS!RankedKeeps, WS!SelectedWell
  <2>7. ASSUME NEW d \in Assembling PROVE WS!Undisturbed(d, build[d])'
    <3>1. d \in WS!Builds /\ WS!Undisturbed(d, build[d])
      BY DEF WS!IInv, WS!Builds
    <3>2. build'[d].mixed \/ build[d].pc \in {"idle", "done", "dead"}
      BY <2>4, <3>1 DEF WS!Running
    <3>3. ~build'[d].mixed => ~build[d].mixed
      BY <2>4, <3>1
    <3>. QED BY <2>4, <3>1, <3>2, <3>3 DEF WS!Undisturbed, WS!Running
  <2>. QED BY <2>2, <2>3, <2>5, <2>6, <2>7 DEF WS!IInv
<1>3. CASE WS!Restart
  <2>1. build \in [WS!Builds -> WS!CallType]
    BY DEF WS!IInv
  <2>2. /\ build' = [c \in WS!Builds |-> IF WS!Running(c) THEN [build[c] EXCEPT !.pc = "dead"]
                                        ELSE build[c]]
        /\ UNCHANGED <<standing, redis>>
    BY <1>3 DEF WS!Restart
  <2>3. memory' \in WS!Snapshots
    BY <1>3, IdleCall DEF WS!Restart
  <2>4. ASSUME NEW c \in WS!Builds
        PROVE  /\ build'[c] \in WS!CallType
               /\ IF WS!Running(c) THEN build'[c].pc = "dead" ELSE build'[c] = build[c]
               /\ build'[c].pc \in {"idle", "done", "dead"}
    <3>1. PICK y : y = build[c]
      OBVIOUS
    <3>2. y \in WS!CallType
      BY <2>1, <3>1
    <3>3. [y EXCEPT !.pc = "dead"] \in WS!CallType /\ [y EXCEPT !.pc = "dead"].pc = "dead"
      BY <3>2 DEF WS!CallType
    <3>4. build'[c] = IF WS!Running(c) THEN [y EXCEPT !.pc = "dead"] ELSE y
      BY <2>2, <3>1
    <3>. QED BY <3>1, <3>2, <3>3, <3>4 DEF WS!Running
  <2>5. build' \in [WS!Builds -> WS!CallType]
    BY <2>2, <2>4
  <2>6. \A c \in WS!Builds :
         /\ WS!FoundAfterStart(build[c])' /\ WS!RankedKeeps(build[c])'
         /\ WS!SelectedWell(build[c])' /\ ~WS!Running(c)'
    BY <2>4 DEF WS!FoundAfterStart, WS!RankedKeeps, WS!SelectedWell, WS!Running
  <2>7. ASSUME NEW d \in Assembling PROVE WS!Undisturbed(d, build[d])'
    <3>1. d \in WS!Builds /\ WS!Undisturbed(d, build[d])
      BY DEF WS!IInv, WS!Builds
    <3>2. CASE WS!Running(d)
      <4>1. build'[d].pc = "dead"
        BY <2>4, <3>1, <3>2
      <4>. QED BY <2>6, <3>1, <4>1 DEF WS!Undisturbed
    <3>3. CASE ~WS!Running(d)
      <4>1. build'[d] = build[d]
        BY <2>4, <3>1, <3>3
      <4>2. build[d].pc \in {"idle", "done", "dead"}
        BY <3>3 DEF WS!Running
      <4>. QED BY <2>6, <3>1, <4>1, <4>2 DEF WS!Undisturbed
    <3>. QED BY <3>2, <3>3
  <2>. QED BY <2>2, <2>3, <2>5, <2>6, <2>7, Zenon DEF WS!IInv
<1>. QED BY <1>1, <1>2, <1>3

LEMMA WorkingSetStep == ASSUME WS!IInv, WS!Next PROVE WS!IInv'
BY StartSound, GatherSound, RerankSound, SelectSound, PersistSound, AssembleSound,
   CacheSound, OverlaySound, SurroundingsSound DEF WS!Next

------------------------------------------------------------------------------
(* The working set, as one of the parts.  Whatever part a behaviour is of, it
   stays of that part, so only the steps of that part matter. *)

WorkingSetInv == part = "workingset" => WS!IInv

LEMMA WorkingSetStutters ==
  ASSUME WorkingSetInv, UNCHANGED <<part, workingSetVars>> PROVE WorkingSetInv'
BY DEF WorkingSetInv, workingSetVars, WS!IInv, WS!FoundAfterStart, WS!RankedKeeps,
       WS!SelectedWell, WS!Undisturbed, WS!Running

LEMMA WorkingSetFirst == PartsInit => WorkingSetInv
BY WorkingSetInit DEF PartsInit, WorkingSetInv

LEMMA WorkingSetKept ==
  ASSUME WorkingSetInv, [PartsNext]_allVars PROVE WorkingSetInv'
<1>1. CASE part = "workingset" /\ WS!Next /\ Others
  BY <1>1, WorkingSetStep DEF WorkingSetInv, Others
<1>2. CASE part # "workingset" /\ UNCHANGED part
  BY <1>2 DEF WorkingSetInv
<1>3. CASE UNCHANGED allVars
  BY <1>3, WorkingSetStutters DEF allVars
<1>. QED BY <1>1, <1>2, <1>3 DEF PartsNext, Others

\* In every state of a call that builds a working set, what it holds was found
\* after its start, has lost no constraint for nothing and fits the budget.
THEOREM WorkingSetInvariant == PartsSpec => [](part = "workingset" => WS!IInv)
<1>1. PartsInit => WorkingSetInv
  BY WorkingSetFirst
<1>2. WorkingSetInv /\ [PartsNext]_allVars => WorkingSetInv'
  BY WorkingSetKept
<1>. QED BY <1>1, <1>2, PTL DEF PartsSpec, WorkingSetInv

\* A fact deleted before a call started is in no snapshot of that call
\* (orchestrator.py looks up every hit of the vector index in the graph).
THEOREM GhostsNeverServed == PartsSpec => []NoGhostFacts
<1>1. WorkingSetInv => NoGhostFacts
  <2>. SUFFICES ASSUME part = "workingset", WS!IInv,
                       NEW c \in WS!Builds, WS!JustSelected(c),
                       NEW i \in WS!ItemsOf(build[c].snapshot) \cap Facts
                PROVE  build[c].at[i] # "gone"
    BY DEF WorkingSetInv, NoGhostFacts, WS!NoGhostFacts
  <2>1. build[c].pc = "persist" /\ build[c] \in WS!CallType
    BY DEF WS!JustSelected, WS!IInv
  <2>2. i \in build[c].ranked \cup build[c].direct
    BY <2>1 DEF WS!IInv, WS!SelectedWell
  <2>3. i \notin build[c].direct
    BY <2>1, PartsAssumption DEF WS!CallType, WS!WorkingSetAssumption
  <2>4. i \in DOMAIN build[c].score
    BY <2>1, <2>2, <2>3 DEF WS!IInv, WS!RankedKeeps
  <2>. QED BY <2>1, <2>4 DEF WS!IInv, WS!FoundAfterStart
<1>2. PartsSpec => []WorkingSetInv
  BY WorkingSetInvariant DEF WorkingSetInv
<1>. QED BY <1>1, <1>2, PTL

\* A budget is overspent by what must be injected only (BudgetSelector.select).
THEOREM OverspendIsForced == PartsSpec => []OverspendOnlyByMust
<1>1. WorkingSetInv => OverspendOnlyByMust
  BY DEF WorkingSetInv, OverspendOnlyByMust, WS!OverspendOnlyByMust, WS!IInv,
         WS!SelectedWell, WS!JustSelected, WS!ItemsOf
<1>2. PartsSpec => []WorkingSetInv
  BY WorkingSetInvariant DEF WorkingSetInv
<1>. QED BY <1>1, <1>2, PTL

\* A constraint that was found is selected, unless a cap or a near duplicate with
\* no lower score took its place (the cuts and merge_duplicates of rerank).
THEOREM ConstraintsSurvive == PartsSpec => []ConstraintLostOnlyToBetter
<1>1. WorkingSetInv => ConstraintLostOnlyToBetter
  <2>. SUFFICES ASSUME part = "workingset", WS!IInv,
                       NEW c \in WS!Builds, WS!JustSelected(c),
                       NEW f \in Constraint \cap DOMAIN build[c].score
                PROVE  \/ f \in WS!ItemsOf(build[c].snapshot)
                       \/ WS!Cardinality(DOMAIN build[c].score) > WS!Least(RootTopK, RerankCap)
                       \/ \E g \in (build[c].ranked \cap WS!Group(f, DOMAIN build[c].score)) \ {f} :
                             build[c].score[g] >= build[c].score[f]
    BY DEF WorkingSetInv, ConstraintLostOnlyToBetter, WS!ConstraintLostOnlyToBetter
  <2>1. build[c].pc = "persist" /\ WS!RankedKeeps(build[c]) /\ WS!SelectedWell(build[c])
    BY DEF WS!JustSelected, WS!IInv
  <2>2. f \in build[c].ranked => f \in WS!ItemsOf(build[c].snapshot)
    BY <2>1 DEF WS!SelectedWell, WS!Must
  <2>. QED BY <2>1, <2>2 DEF WS!RankedKeeps
<1>2. PartsSpec => []WorkingSetInv
  BY WorkingSetInvariant DEF WorkingSetInv
<1>. QED BY <1>1, <1>2, PTL

\* The two halves of an undisturbed turn's prompt come from the one snapshot it
\* selected (assemble and build_overlay of the lifecycle).
THEOREM OverlayMatchesTurn == PartsSpec => []OverlayIsOfThisTurn
<1>1. WorkingSetInv => OverlayIsOfThisTurn
  <2>. SUFFICES ASSUME part = "workingset", WS!IInv, NEW c \in Assembling, ~build[c].mixed
                PROVE  /\ build[c].pc = "returned" => WS!GetWorkingSet = redis
                       /\ build[c].pc = "done" =>
                            /\ build[c].shown = WS!ItemsOf(build[c].snapshot)
                            /\ build[c].system \subseteq build[c].shown
    BY DEF WorkingSetInv, OverlayIsOfThisTurn, WS!OverlayIsOfThisTurn
  <2>1. WS!Undisturbed(c, build[c])
    BY DEF WS!IInv
  <2>. QED BY <2>1 DEF WS!Undisturbed, WS!GetWorkingSet
<1>2. PartsSpec => []WorkingSetInv
  BY WorkingSetInvariant DEF WorkingSetInv
<1>. QED BY <1>1, <1>2, PTL
------------------------------------------------------------------------------
(* Profiles: what was read is as old as it may be, and time stands still until
   it is in the cache. *)

LEMMA ProfilesInitSound == ASSUME PR!ProfilesInit PROVE PR!IInv
BY PartsAssumption
DEF PR!ProfilesInit, PR!IInv, PR!Rows, PR!NoEntry, PR!Unstarted, PR!EntryType, PR!ResolveType,
    PR!ProfilesAssumption, PR!HeldSince, PR!OverridesServed, PR!StaleAtMostTtl,
    PR!OwnOverrideServed

LEMMA HitSound ==
  ASSUME PR!IInv, NEW r \in Resolvers, PR!Hit(r) PROVE PR!IInv'
<1>. USE PartsAssumption DEF PR!ProfilesAssumption
<1>1. PICK p \in Processes : p = ServerOf[r]
  OBVIOUS
<1>2. /\ resolve[r].pc = "idle" /\ cache[p].held /\ clock - cache[p].at < Ttl
      /\ resolve' = [resolve EXCEPT ![r] =
             [@ EXCEPT !.pc = "done", !.policy = cache[p].policy, !.begun = clock]]
      /\ UNCHANGED <<table, cache, writing, clock, writes, lookups, since, own>>
  BY <1>1 DEF PR!Hit, PR!Fresh
<1>3. PICK x : x = [resolve[r] EXCEPT !.pc = "done", !.policy = cache[p].policy, !.begun = clock]
  OBVIOUS
<1>4. resolve[r] \in PR!ResolveType /\ cache[p] \in PR!EntryType /\ clock \in Nat
  BY DEF PR!IInv
<1>5. x \in PR!ResolveType /\ x.pc = "done" /\ x.policy = cache[p].policy /\ x.begun = clock
  BY <1>3, <1>4 DEF PR!ResolveType, PR!EntryType
<1>6. resolve' = [resolve EXCEPT ![r] = x]
  BY <1>2, <1>3
<1>7. /\ resolve' \in [Resolvers -> PR!ResolveType] /\ resolve'[r] = x
      /\ \A q \in Resolvers : q # r => resolve'[q] = resolve[q]
      /\ \A q \in Resolvers : resolve'[q].begun <= clock
  BY <1>4, <1>5, <1>6 DEF PR!IInv
<1>8. PR!StaleAtMostTtl'
  <2>. SUFFICES ASSUME lookups = 0, NEW q \in Resolvers, resolve'[q].pc = "done"
                PROVE  \/ resolve'[q].policy = table
                       \/ resolve'[q].begun - since[resolve'[q].policy] <= Ttl
    BY <1>2 DEF PR!StaleAtMostTtl
  <2>1. CASE q = r
    <3>1. cache[p].policy = table \/ since[cache[p].policy] >= cache[p].at
      BY <1>2 DEF PR!IInv, PR!HeldSince
    <3>2. since[cache[p].policy] \in Nat /\ cache[p].at \in Nat /\ Ttl \in Nat
      BY <1>4 DEF PR!IInv, PR!EntryType
    <3>. QED BY <1>2, <1>4, <1>5, <1>7, <2>1, <3>1, <3>2
  <2>2. CASE q # r
    BY <1>7, <2>2 DEF PR!IInv, PR!OverridesServed, PR!StaleAtMostTtl
  <2>. QED BY <2>1, <2>2
<1>9. PR!OwnOverrideServed'
  BY <1>2 DEF PR!IInv, PR!OverridesServed, PR!OwnOverrideServed
<1>10. \A q \in Resolvers : resolve'[q].pc = "flatten" => q # r /\ resolve'[q] = resolve[q]
  BY <1>5, <1>7
<1>. QED BY <1>2, <1>7, <1>8, <1>9, <1>10 DEF PR!IInv, PR!OverridesServed, PR!HeldSince

LEMMA ProfilesReadSound ==
  ASSUME PR!IInv, NEW r \in Resolvers, PR!Read(r) PROVE PR!IInv'
<1>. USE PartsAssumption DEF PR!ProfilesAssumption
<1>1. PICK p \in Processes : p = ServerOf[r]
  OBVIOUS
<1>2. PICK ok \in BOOLEAN :
        /\ resolve[r].pc = "idle"
        /\ cache' = [cache EXCEPT ![p] = PR!NoEntry]
        /\ lookups' = IF ok THEN lookups ELSE lookups + 1
        /\ own' = IF ok THEN own ELSE [own EXCEPT ![p].known = FALSE]
        /\ resolve' = [resolve EXCEPT ![r] =
             [@ EXCEPT !.pc = "flatten", !.row = IF ok THEN table ELSE NoOverride,
                !.blind = ~ok, !.begun = clock]]
        /\ UNCHANGED <<table, writing, clock, writes, since>>
  BY <1>1 DEF PR!Read
<1>3. PICK x : x = [resolve[r] EXCEPT !.pc = "flatten", !.row = IF ok THEN table ELSE NoOverride,
                !.blind = ~ok, !.begun = clock]
  OBVIOUS
<1>4. resolve[r] \in PR!ResolveType /\ clock \in Nat /\ table \in PR!Rows /\ lookups \in Nat
  BY DEF PR!IInv
<1>5. x \in PR!ResolveType /\ x.pc = "flatten" /\ x.begun = clock
      /\ x.row = IF ok THEN table ELSE NoOverride
  BY <1>3, <1>4 DEF PR!ResolveType, PR!Rows
<1>6. resolve' \in [Resolvers -> PR!ResolveType] /\ resolve'[r] = x
      /\ \A q \in Resolvers : q # r => resolve'[q] = resolve[q]
  BY <1>2, <1>3, <1>5 DEF PR!IInv
<1>7. PR!NoEntry \in PR!EntryType /\ ~PR!NoEntry.held /\ PR!NoEntry.at = 0
  BY DEF PR!NoEntry, PR!EntryType, PR!Rows
<1>8. /\ cache' \in [Processes -> PR!EntryType]
      /\ \A q \in Processes : cache'[q].at <= clock
      /\ \A q \in Processes : cache'[q].held => q # p /\ cache'[q] = cache[q]
  BY <1>2, <1>4, <1>7 DEF PR!IInv
<1>9. lookups' \in Nat /\ (lookups' = 0 => lookups = 0 /\ ok)
  BY <1>2, <1>4
<1>10. /\ own' \in [Processes -> [known : BOOLEAN, row : PR!Rows]]
       /\ \A q \in Processes : own'[q].row = own[q].row /\ (own'[q].known => own[q].known)
       /\ own'[p].known => ok
  <2>1. own \in [Processes -> [known : BOOLEAN, row : PR!Rows]]
    BY DEF PR!IInv
  <2>2. CASE ok
    BY <1>2, <2>1, <2>2
  <2>3. CASE ~ok
    <3>1. own' = [own EXCEPT ![p].known = FALSE]
      BY <1>2, <2>3
    <3>. QED BY <2>1, <3>1
  <2>. QED BY <2>2, <2>3
<1>11. PR!OverridesServed'
  <2>1. \A q \in Resolvers : resolve'[q].pc = "done" => resolve'[q] = resolve[q]
    BY <1>5, <1>6
  <2>2. PR!StaleAtMostTtl'
    BY <1>2, <1>9, <2>1 DEF PR!IInv, PR!OverridesServed, PR!StaleAtMostTtl
  <2>3. PR!OwnOverrideServed'
    BY <1>8, <1>10 DEF PR!IInv, PR!OverridesServed, PR!OwnOverrideServed
  <2>. QED BY <2>2, <2>3 DEF PR!OverridesServed
<1>12. ASSUME NEW q \in Resolvers, resolve'[q].pc = "flatten"
       PROVE  /\ resolve'[q].begun = clock
              /\ lookups' = 0 => PR!HeldSince(resolve'[q].row, clock)
              /\ own'[ServerOf[q]].known => resolve'[q].row = own'[ServerOf[q]].row
  <2>1. CASE q = r
    BY <1>1, <1>5, <1>6, <1>9, <1>10, <2>1 DEF PR!IInv, PR!HeldSince
  <2>2. CASE q # r
    BY <1>6, <1>9, <1>10, <1>12, <2>2 DEF PR!IInv, PR!HeldSince
  <2>. QED BY <2>1, <2>2
<1>13. ASSUME lookups' = 0, NEW q \in Processes, cache'[q].held
       PROVE  PR!HeldSince(cache'[q].policy, cache'[q].at)
  BY <1>8, <1>9, <1>13 DEF PR!IInv, PR!HeldSince
<1>14. \A q \in Resolvers : resolve'[q].begun <= clock
  BY <1>4, <1>5, <1>6 DEF PR!IInv
<1>. QED BY <1>2, <1>6, <1>8, <1>9, <1>10, <1>11, <1>12, <1>13, <1>14 DEF PR!IInv, PR!HeldSince

LEMMA FlattenSound ==
  ASSUME PR!IInv, NEW r \in Resolvers, PR!Flatten(r) PROVE PR!IInv'
<1>. USE PartsAssumption DEF PR!ProfilesAssumption
<1>1. PICK p \in Processes : p = ServerOf[r]
  OBVIOUS
<1>2. PICK row \in PR!Rows : row = resolve[r].row
  BY DEF PR!IInv, PR!ResolveType
<1>3. /\ resolve[r].pc = "flatten"
      /\ UNCHANGED <<table, writing, clock, writes, lookups, since, own>>
  BY DEF PR!Flatten
<1>4. resolve[r].begun = clock /\ clock \in Nat
      /\ (lookups = 0 => PR!HeldSince(row, clock)) /\ (own[p].known => row = own[p].row)
  BY <1>1, <1>2, <1>3 DEF PR!IInv
<1>5. CASE row \in Unvalidated
  <2>1. resolve' = [resolve EXCEPT ![r].pc = "raised"] /\ UNCHANGED cache
    BY <1>2, <1>5 DEF PR!Flatten
  <2>2. resolve' \in [Resolvers -> PR!ResolveType] /\ resolve'[r].pc = "raised"
        /\ resolve'[r].begun = clock
        /\ \A q \in Resolvers : q # r => resolve'[q] = resolve[q]
    BY <1>4, <2>1 DEF PR!IInv, PR!ResolveType
  <2>. QED BY <1>3, <2>1, <2>2 DEF PR!IInv, PR!HeldSince, PR!OverridesServed,
              PR!StaleAtMostTtl, PR!OwnOverrideServed
<1>6. CASE row \notin Unvalidated
  <2>1. /\ resolve' = [resolve EXCEPT ![r].pc = "done", ![r].policy = row]
        /\ cache' = [cache EXCEPT ![p] = [policy |-> row, at |-> clock, held |-> TRUE]]
    BY <1>1, <1>2, <1>6 DEF PR!Flatten
  <2>2. resolve' \in [Resolvers -> PR!ResolveType]
        /\ resolve'[r].pc = "done" /\ resolve'[r].policy = row /\ resolve'[r].begun = clock
        /\ \A q \in Resolvers : q # r => resolve'[q] = resolve[q]
    <3>1. PICK x : x = [resolve[r] EXCEPT !.pc = "done", !.policy = row]
      OBVIOUS
    <3>2. resolve' = [resolve EXCEPT ![r] = x] /\ resolve[r] \in PR!ResolveType
      BY <2>1, <3>1 DEF PR!IInv
    <3>3. x \in PR!ResolveType /\ x.pc = "done" /\ x.policy = row /\ x.begun = clock
      BY <1>4, <3>1, <3>2 DEF PR!ResolveType
    <3>. QED BY <3>2, <3>3 DEF PR!IInv
  <2>3. cache' \in [Processes -> PR!EntryType]
        /\ cache'[p].policy = row /\ cache'[p].at = clock
        /\ \A q \in Processes : q # p => cache'[q] = cache[q]
    BY <1>4, <2>1 DEF PR!IInv, PR!EntryType
  <2>4. PR!StaleAtMostTtl'
    <3>. SUFFICES ASSUME lookups = 0, NEW q \in Resolvers, resolve'[q].pc = "done"
                  PROVE  \/ resolve'[q].policy = table
                         \/ resolve'[q].begun - since[resolve'[q].policy] <= Ttl
      BY <1>3 DEF PR!StaleAtMostTtl
    <3>1. CASE q = r
      <4>1. row = table \/ since[row] >= clock
        BY <1>4 DEF PR!HeldSince
      <4>2. since[row] \in Nat /\ Ttl \in Nat
        BY DEF PR!IInv
      <4>. QED BY <1>4, <2>2, <3>1, <4>1, <4>2
    <3>2. CASE q # r
      BY <2>2, <3>2 DEF PR!IInv, PR!OverridesServed, PR!StaleAtMostTtl
    <3>. QED BY <3>1, <3>2
  <2>5. PR!OwnOverrideServed'
    BY <1>3, <1>4, <2>3 DEF PR!IInv, PR!OverridesServed, PR!OwnOverrideServed
  <2>6. \A q \in Processes : lookups = 0 /\ cache'[q].held =>
          PR!HeldSince(cache'[q].policy, cache'[q].at)
    BY <1>4, <2>3 DEF PR!IInv
  <2>7. \A q \in Resolvers : resolve'[q].pc = "flatten" => resolve'[q] = resolve[q]
    BY <2>2
  <2>8. /\ \A q \in Resolvers : resolve'[q].begun <= clock
        /\ \A q \in Processes : cache'[q].at <= clock
    BY <1>4, <2>2, <2>3 DEF PR!IInv
  <2>. QED BY <1>3, <2>2, <2>3, <2>4, <2>5, <2>6, <2>7, <2>8
           DEF PR!IInv, PR!HeldSince, PR!OverridesServed
<1>. QED BY <1>5, <1>6

\* The table changes hands only here.
LEMMA ProfilesWriteSound ==
  ASSUME PR!IInv, NEW p \in Processes, NEW row \in PR!Rows, PR!Write(p, row) PROVE PR!IInv'
<1>. USE PartsAssumption DEF PR!ProfilesAssumption
<1>1. /\ table' = row
      /\ since' = [since EXCEPT ![table] = clock]
      /\ writing' = writing \cup {p}
      /\ own' = [q \in Processes |-> [known |-> FALSE, row |-> row]]
      /\ UNCHANGED <<cache, resolve, clock, lookups>>
  BY DEF PR!Write
<1>2. table \in PR!Rows /\ clock \in Nat /\ since \in [PR!Rows -> Nat]
      /\ \A o \in PR!Rows : since[o] <= clock
  BY DEF PR!IInv
<1>3. since' \in [PR!Rows -> Nat] /\ since'[table] = clock
      /\ \A o \in PR!Rows : since'[o] >= since[o] /\ since'[o] <= clock
  BY <1>1, <1>2
<1>4. ASSUME NEW o \in PR!Rows, NEW t \in Nat, t <= clock, PR!HeldSince(o, t)
      PROVE  PR!HeldSince(o, t)'
  BY <1>2, <1>3, <1>4 DEF PR!HeldSince
<1>5. own' \in [Processes -> [known : BOOLEAN, row : PR!Rows]]
      /\ \A q \in Processes : ~own'[q].known /\ own'[q].row = row
  BY <1>1
<1>6. \A q \in Resolvers : resolve[q].row \in PR!Rows /\ resolve[q].policy \in PR!Rows
                           /\ resolve[q].begun \in Nat
  BY DEF PR!IInv, PR!ResolveType
<1>7. \A q \in Processes : cache[q].policy \in PR!Rows /\ cache[q].at \in Nat
  BY DEF PR!IInv, PR!EntryType
<1>8. ASSUME lookups = 0, NEW q \in Processes, cache[q].held
      PROVE  PR!HeldSince(cache[q].policy, cache[q].at)'
  <2>1. PR!HeldSince(cache[q].policy, cache[q].at) /\ cache[q].at <= clock
    BY <1>8 DEF PR!IInv
  <2>. QED BY <1>1, <1>4, <1>7, <2>1 DEF PR!HeldSince
<1>9. PR!StaleAtMostTtl'
  <2>. SUFFICES ASSUME lookups = 0, NEW q \in Resolvers, resolve[q].pc = "done"
                PROVE  \/ resolve[q].policy = row
                       \/ resolve[q].begun - since'[resolve[q].policy] <= Ttl
    BY <1>1 DEF PR!StaleAtMostTtl
  <2>1. \/ resolve[q].policy = table
        \/ resolve[q].begun - since[resolve[q].policy] <= Ttl
    BY DEF PR!IInv, PR!OverridesServed, PR!StaleAtMostTtl
  <2>2. resolve[q].begun <= clock /\ Ttl \in Nat
    BY DEF PR!IInv
  <2>. QED BY <1>2, <1>3, <1>6, <2>1, <2>2
<1>10. ASSUME NEW q \in Resolvers, resolve[q].pc = "flatten", lookups = 0
       PROVE  PR!HeldSince(resolve[q].row, clock)'
  <2>1. PR!HeldSince(resolve[q].row, clock)
    BY <1>10 DEF PR!IInv
  <2>. QED BY <1>1, <1>2, <1>4, <1>6, <2>1 DEF PR!HeldSince
<1>11. PR!OwnOverrideServed'
  BY <1>5 DEF PR!OwnOverrideServed
<1>12. \A q \in Resolvers : ServerOf[q] \in Processes
  OBVIOUS
<1>. QED BY <1>1, <1>2, <1>3, <1>5, <1>8, <1>9, <1>10, <1>11, <1>12 DEF PR!IInv, PR!OverridesServed

LEMMA InvalidateSound ==
  ASSUME PR!IInv, NEW p \in Processes, PR!Invalidate(p) PROVE PR!IInv'
<1>. USE PartsAssumption DEF PR!ProfilesAssumption
<1>1. PICK known \in BOOLEAN : known = (PR!Loading(p) = {})
  OBVIOUS
<1>2. /\ cache' = [cache EXCEPT ![p] = PR!NoEntry]
      /\ own' = [own EXCEPT ![p].known = known]
      /\ writing' = writing \ {p}
      /\ UNCHANGED <<table, resolve, clock, lookups, since>>
  BY <1>1 DEF PR!Invalidate
<1>3. PR!NoEntry \in PR!EntryType /\ ~PR!NoEntry.held /\ PR!NoEntry.at = 0
  BY DEF PR!NoEntry, PR!EntryType, PR!Rows
<1>4. /\ cache' \in [Processes -> PR!EntryType]
      /\ \A q \in Processes : cache'[q].at <= clock
      /\ \A q \in Processes : cache'[q].held => q # p /\ cache'[q] = cache[q]
  BY <1>2, <1>3 DEF PR!IInv
<1>5. own \in [Processes -> [known : BOOLEAN, row : PR!Rows]]
  BY DEF PR!IInv
<1>6. /\ own' \in [Processes -> [known : BOOLEAN, row : PR!Rows]]
      /\ \A q \in Processes : own'[q].row = own[q].row /\ (q # p => own'[q] = own[q])
      /\ own'[p].known => PR!Loading(p) = {}
  <2>1. CASE known
    <3>1. own' = [own EXCEPT ![p].known = TRUE] /\ PR!Loading(p) = {}
      BY <1>1, <1>2, <2>1
    <3>. QED BY <1>5, <3>1
  <2>2. CASE ~known
    <3>1. own' = [own EXCEPT ![p].known = FALSE]
      BY <1>2, <2>2
    <3>. QED BY <1>5, <3>1
  <2>. QED BY <2>1, <2>2
<1>7. ASSUME NEW q \in Resolvers, resolve[q].pc = "flatten", own'[ServerOf[q]].known
      PROVE  resolve[q].row = own'[ServerOf[q]].row
  <2>1. ServerOf[q] # p
    BY <1>6, <1>7 DEF PR!Loading
  <2>. QED BY <1>6, <1>7, <2>1 DEF PR!IInv
<1>8. PR!OverridesServed'
  BY <1>2, <1>4, <1>6 DEF PR!IInv, PR!OverridesServed, PR!StaleAtMostTtl, PR!OwnOverrideServed
<1>. QED BY <1>2, <1>4, <1>6, <1>7, <1>8 DEF PR!IInv, PR!HeldSince

LEMMA RestartSound ==
  ASSUME PR!IInv, NEW p \in Processes, PR!Restart(p) PROVE PR!IInv'
<1>. USE PartsAssumption DEF PR!ProfilesAssumption
<1>1. /\ writing' = writing \ {p}
      /\ lookups' = lookups + 1
      /\ cache' = [cache EXCEPT ![p] = PR!NoEntry]
      /\ resolve' = [r \in Resolvers |->
            IF r \in PR!Loading(p) THEN [resolve[r] EXCEPT !.pc = "raised"] ELSE resolve[r]]
      /\ UNCHANGED <<table, clock, since, own>>
  BY DEF PR!Restart
<1>2. lookups' \in Nat /\ lookups' # 0
  BY <1>1 DEF PR!IInv
<1>3. PR!NoEntry \in PR!EntryType /\ ~PR!NoEntry.held /\ PR!NoEntry.at = 0
  BY DEF PR!NoEntry, PR!EntryType, PR!Rows
<1>4. /\ cache' \in [Processes -> PR!EntryType]
      /\ \A q \in Processes : cache'[q].at <= clock
      /\ \A q \in Processes : cache'[q].held => q # p /\ cache'[q] = cache[q]
  BY <1>1, <1>3 DEF PR!IInv
<1>5. ASSUME NEW r \in Resolvers
      PROVE  /\ resolve'[r] \in PR!ResolveType /\ resolve'[r].begun = resolve[r].begun
             /\ resolve'[r].pc = "raised" \/ resolve'[r] = resolve[r]
  <2>1. PICK x : x = resolve[r]
    OBVIOUS
  <2>2. x \in PR!ResolveType
    BY <2>1 DEF PR!IInv
  <2>3. [x EXCEPT !.pc = "raised"] \in PR!ResolveType /\ [x EXCEPT !.pc = "raised"].pc = "raised"
        /\ [x EXCEPT !.pc = "raised"].begun = x.begun
    BY <2>2 DEF PR!ResolveType
  <2>4. resolve'[r] = IF r \in PR!Loading(p) THEN [x EXCEPT !.pc = "raised"] ELSE x
    BY <1>1, <2>1
  <2>. QED BY <2>1, <2>2, <2>3, <2>4
<1>6. resolve' \in [Resolvers -> PR!ResolveType]
  BY <1>1, <1>5
<1>7. PR!OverridesServed'
  BY <1>1, <1>2, <1>4 DEF PR!IInv, PR!OverridesServed, PR!StaleAtMostTtl, PR!OwnOverrideServed
<1>. QED BY <1>1, <1>2, <1>4, <1>5, <1>6, <1>7 DEF PR!IInv, PR!HeldSince

LEMMA TickSound == ASSUME PR!IInv, PR!Tick PROVE PR!IInv'
<1>. USE PartsAssumption DEF PR!ProfilesAssumption
<1>1. /\ clock' = clock + 1
      /\ \A p \in Processes : PR!Loading(p) = {}
      /\ UNCHANGED <<table, cache, resolve, writing, lookups, since, own>>
  BY DEF PR!Tick
<1>2. \A r \in Resolvers : resolve[r].pc # "flatten"
  BY <1>1 DEF PR!Loading
<1>3. \A r \in Resolvers : resolve[r].begun \in Nat
  BY DEF PR!IInv, PR!ResolveType
<1>4. \A p \in Processes : cache[p].at \in Nat
  BY DEF PR!IInv, PR!EntryType
<1>. QED BY <1>1, <1>2, <1>3, <1>4 DEF PR!IInv, PR!HeldSince, PR!OverridesServed,
            PR!StaleAtMostTtl, PR!OwnOverrideServed

LEMMA ProfilesStep == ASSUME PR!IInv, PR!ProfilesNext PROVE PR!IInv'
BY HitSound, ProfilesReadSound, FlattenSound, ProfilesWriteSound, InvalidateSound,
   RestartSound, TickSound DEF PR!ProfilesNext

ProfilesInv == part = "profiles" => PR!IInv

LEMMA ProfilesStutters ==
  ASSUME ProfilesInv, UNCHANGED <<part, profilesVars>> PROVE ProfilesInv'
BY DEF ProfilesInv, profilesVars, PR!IInv, PR!HeldSince, PR!OverridesServed,
       PR!StaleAtMostTtl, PR!OwnOverrideServed

LEMMA ProfilesKept ==
  ASSUME ProfilesInv, [PartsNext]_allVars PROVE ProfilesInv'
<1>1. CASE part = "profiles" /\ PR!ProfilesNext /\ Others
  BY <1>1, ProfilesStep DEF ProfilesInv, Others
<1>2. CASE part # "profiles" /\ UNCHANGED part
  BY <1>2 DEF ProfilesInv
<1>3. CASE UNCHANGED allVars
  BY <1>3, ProfilesStutters DEF allVars
<1>. QED BY <1>1, <1>2, <1>3 DEF PartsNext, Others

\* A session gets the override of its organisation: at once where it was registered,
\* within the TTL elsewhere (ProfileRegistry.resolve_profile and its cache).
THEOREM OverridesAreServed == PartsSpec => []OverridesServed
<1>1. PartsInit => ProfilesInv
  BY ProfilesInitSound DEF PartsInit, ProfilesInv
<1>2. ProfilesInv /\ [PartsNext]_allVars => ProfilesInv'
  BY ProfilesKept
<1>3. ProfilesInv => OverridesServed
  BY DEF ProfilesInv, OverridesServed, PR!IInv
<1>. QED BY <1>1, <1>2, <1>3, PTL DEF PartsSpec
------------------------------------------------------------------------------
(* UseCounts: as long as no write overtakes another, what was counted stays
   counted, in the node and in the copies made of it. *)

LEMMA UsesInitSound == ASSUME UC!UseCountsInit PROVE UC!IInv
<1>. USE PartsAssumption DEF UC!UseCountsAssumption
<1>1. UC!NoFact \in UC!FactType
  BY DEF UC!NoFact, UC!FactType
<1>2. UC!Idle \in UC!WriterType /\ UC!Pending(UC!Idle)
  BY <1>1 DEF UC!Idle, UC!WriterType, UC!Pending
<1>3. UC!NoRun \in [stage : {0, 3, 4, 5}, copy : UC!FactType, proved : BOOLEAN]
  BY <1>1 DEF UC!NoRun
<1>4. fact \in UC!FactType
  BY DEF UC!UseCountsInit, UC!FactType
<1>5. UC!NoSnapshot \in [shown : BOOLEAN, counts : Nat \X Nat]
  BY DEF UC!NoSnapshot
<1>6. /\ snapshot = [s \in Sessions |-> UC!NoSnapshot] /\ writer = [t \in Tasks |-> UC!Idle]
      /\ pass = UC!NoRun /\ fact.use = 0 /\ fact.suc = 0 /\ faults = 0
      /\ proved = FALSE /\ punished = FALSE /\ overtaken = FALSE /\ unscanned = FALSE
  BY DEF UC!UseCountsInit
<1>7. ~pass.proved
  BY <1>6 DEF UC!NoRun
<1>8. UC!UseRewarded
  BY <1>6 DEF UC!UseRewarded, UC!UsefulFactKept, UC!RatioAtMostOne
<1>9. \A t \in Tasks : UC!Pending(writer[t])
  BY <1>2, <1>6
<1>. QED BY <1>2, <1>3, <1>4, <1>5, <1>6, <1>7, <1>8, <1>9 DEF UC!IInv

LEMMA ShowSound ==
  ASSUME UC!IInv, NEW s \in Sessions, UC!Show(s) PROVE UC!IInv'
<1>1. /\ snapshot' = [snapshot EXCEPT ![s] = [shown |-> TRUE, counts |-> UC!Counters(fact)]]
      /\ UNCHANGED <<fact, writer, pass, uses, runs, faults, proved, punished, overtaken, unscanned>>
  BY DEF UC!Show, UC!history
<1>2. [shown |-> TRUE, counts |-> UC!Counters(fact)] \in [shown : BOOLEAN, counts : Nat \X Nat]
  BY DEF UC!IInv, UC!FactType, UC!Counters
<1>3. snapshot' \in [Sessions -> [shown : BOOLEAN, counts : Nat \X Nat]]
  BY <1>1, <1>2 DEF UC!IInv
<1>. QED BY <1>1, <1>3 DEF UC!IInv, UC!Pending, UC!UseRewarded, UC!UsefulFactKept, UC!RatioAtMostOne

LEMMA AfterTurnSound ==
  ASSUME UC!IInv, NEW t \in Tasks, NEW s \in Sessions, NEW scan \in BOOLEAN,
         NEW quoted \in BOOLEAN, NEW rt1 \in BOOLEAN, UC!AfterTurn(t, s, scan, quoted, rt1)
  PROVE  UC!IInv'
<1>0. PICK then \in BOOLEAN : then = (scan /\ rt1)
  OBVIOUS
<1>1. PICK w : w = [writer[t] EXCEPT !.pc = "read", !.kind = IF scan THEN "turn" ELSE "batch",
            !.quoted = quoted, !.then = then,
            !.seen = snapshot[s].counts, !.base = snapshot[s].counts]
  OBVIOUS
<1>2. /\ writer' = [writer EXCEPT ![t] = w]
      /\ unscanned' = (unscanned \/ ~scan)
      /\ UNCHANGED <<fact, snapshot, pass, runs, faults, proved, punished, overtaken>>
  BY <1>0, <1>1 DEF UC!AfterTurn
<1>3. writer[t] \in UC!WriterType /\ snapshot[s].counts \in Nat \X Nat
  BY DEF UC!IInv
<1>4. /\ w \in UC!WriterType /\ w.pc = "read" /\ w.kind = IF scan THEN "turn" ELSE "batch"
      /\ w.base = w.seen
      /\ w.then => scan
  <2>1. then => scan
    BY <1>0
  <2>2. (IF scan THEN "turn" ELSE "batch") \in {"turn", "batch"}
    OBVIOUS
  <2>. QED BY <1>1, <1>3, <2>1, <2>2 DEF UC!WriterType
<1>5. unscanned' \in BOOLEAN /\ (~unscanned' => scan /\ ~unscanned)
  BY <1>2 DEF UC!IInv
<1>6. UC!Pending(w)'
  BY <1>4, <1>5 DEF UC!Pending
<1>7. ASSUME NEW u \in Tasks, u # t PROVE UC!Pending(writer[u])'
  <2>1. UC!Pending(writer[u]) /\ writer'[u] = writer[u]
    BY <1>2, <1>7 DEF UC!IInv
  <2>. QED BY <1>2, <1>5, <2>1 DEF UC!Pending
<1>8. writer' \in [Tasks -> UC!WriterType] /\ writer'[t] = w
  BY <1>2, <1>4 DEF UC!IInv
<1>9. \A u \in Tasks : UC!Pending(writer[u])'
  BY <1>6, <1>7, <1>8
<1>. QED BY <1>2, <1>5, <1>8, <1>9
         DEF UC!IInv, UC!UseRewarded, UC!UsefulFactKept, UC!RatioAtMostOne

\* A writer is replaced and nothing else changes.
LEMMA WriterReplaced ==
  ASSUME UC!IInv, NEW t \in Tasks, NEW w \in UC!WriterType, UC!Pending(w),
         writer' = [writer EXCEPT ![t] = w],
         UNCHANGED <<fact, snapshot, pass, faults, proved, punished, overtaken, unscanned>>
  PROVE  UC!IInv'
<1>1. writer' \in [Tasks -> UC!WriterType] /\ writer'[t] = w
      /\ \A u \in Tasks : u # t => writer'[u] = writer[u]
  BY DEF UC!IInv
<1>2. \A u \in Tasks : UC!Pending(writer[u])'
  BY <1>1 DEF UC!IInv, UC!Pending
<1>. QED BY <1>1, <1>2
         DEF UC!IInv, UC!UseRewarded, UC!UsefulFactKept, UC!RatioAtMostOne

LEMMA RecallSound ==
  ASSUME UC!IInv, NEW t \in Tasks, UC!Recall(t) PROVE UC!IInv'
<1>1. PICK copy : copy = [fact EXCEPT !.use = @ + 1]
  OBVIOUS
<1>2. PICK w : w = [writer[t] EXCEPT !.pc = "write", !.kind = "recall", !.base = UC!Counters(fact),
            !.source = fact, !.copy = copy]
  OBVIOUS
<1>3. /\ writer' = [writer EXCEPT ![t] = w] /\ writer[t].pc = "idle"
      /\ UNCHANGED <<fact, snapshot, pass, runs, faults, proved, punished, overtaken, unscanned>>
  BY <1>1, <1>2 DEF UC!Recall, UC!history
<1>4. writer[t] = UC!Idle /\ writer[t] \in UC!WriterType /\ fact \in UC!FactType
  BY <1>3 DEF UC!IInv, UC!Pending
<1>5. copy \in UC!FactType
  BY <1>1, <1>4 DEF UC!FactType
<1>6. UC!Counters(fact) \in Nat \X Nat /\ ~writer[t].then
  BY <1>4 DEF UC!FactType, UC!Counters, UC!Idle
<1>7. w \in UC!WriterType /\ w.pc = "write" /\ w.kind = "recall" /\ w.source = fact /\ w.copy = copy
      /\ ~w.then
  BY <1>2, <1>4, <1>5, <1>6 DEF UC!WriterType
<1>8. UC!Pending(w)
  BY <1>1, <1>7 DEF UC!Pending
<1>. QED BY <1>3, <1>7, <1>8, WriterReplaced

\* The success a turn or RT-1 writes only ever adds to the node it was read from.
LEMMA UpdatedFact ==
  ASSUME NEW f \in UC!FactType, NEW seen \in Nat \X Nat, NEW quoted \in BOOLEAN,
         NEW kind \in {"turn", "batch"}
  PROVE  LET g == UC!Updated(kind, quoted, seen, f) IN
         /\ g \in UC!FactType
         /\ g.use = IF kind = "turn" THEN seen[1] + 1 ELSE f.use
         /\ g.suc = IF kind = "batch" \/ quoted THEN seen[2] + 1 ELSE f.suc
<1>1. seen[1] + 1 \in Nat /\ seen[2] + 1 \in Nat
  OBVIOUS
<1>2. CASE kind = "turn" /\ quoted
  <2>1. UC!Updated(kind, quoted, seen, f) = [f EXCEPT !.use = seen[1] + 1, !.suc = seen[2] + 1]
    BY <1>2 DEF UC!Updated
  <2>. QED BY <1>1, <1>2, <2>1 DEF UC!FactType
<1>3. CASE kind = "turn" /\ ~quoted
  <2>1. UC!Updated(kind, quoted, seen, f) = [f EXCEPT !.use = seen[1] + 1]
    BY <1>3 DEF UC!Updated
  <2>. QED BY <1>1, <1>3, <2>1 DEF UC!FactType
<1>4. CASE kind = "batch"
  <2>1. UC!Updated(kind, quoted, seen, f) = [f EXCEPT !.suc = seen[2] + 1]
    BY <1>4 DEF UC!Updated
  <2>. QED BY <1>1, <1>4, <2>1 DEF UC!FactType
<1>. QED BY <1>2, <1>3, <1>4

LEMMA ReadNodeSound ==
  ASSUME UC!IInv, NEW t \in Tasks, UC!ReadNode(t) PROVE UC!IInv'
<1>1. PICK copy : copy = UC!Updated(writer[t].kind, writer[t].quoted, writer[t].seen, fact)
  OBVIOUS
<1>2. PICK w : w = [writer[t] EXCEPT !.pc = "write", !.source = fact, !.copy = copy]
  OBVIOUS
<1>3. /\ writer' = [writer EXCEPT ![t] = w] /\ writer[t].pc = "read"
      /\ UNCHANGED <<fact, snapshot, pass, runs, faults, proved, punished, overtaken, unscanned>>
  BY <1>1, <1>2 DEF UC!ReadNode, UC!history
<1>4. writer[t] \in UC!WriterType /\ fact \in UC!FactType /\ UC!Pending(writer[t])
      /\ writer[t].kind \in {"turn", "batch"}
  BY <1>3 DEF UC!IInv, UC!Pending
<1>5. copy \in UC!FactType
  BY <1>1, <1>4, UpdatedFact DEF UC!WriterType
<1>6. /\ w \in UC!WriterType /\ w.pc = "write" /\ w.source = fact /\ w.copy = copy
      /\ w.kind = writer[t].kind /\ w.then = writer[t].then /\ w.seen = writer[t].seen
      /\ w.base = writer[t].base /\ w.quoted = writer[t].quoted
  BY <1>2, <1>4, <1>5 DEF UC!WriterType
<1>7. UC!Pending(w)
  BY <1>1, <1>4, <1>6 DEF UC!Pending
<1>. QED BY <1>3, <1>6, <1>7, WriterReplaced

\* What a step of the consolidation makes of a copy: the counters stay, and what was
\* used with success is neither decayed nor kept from recall.
LEMMA StageKeepsSuccess ==
  ASSUME NEW f \in UC!FactType, NEW stage \in {3, 4, 5}
  PROVE  LET g == UC!AfterStage(stage, f) IN
         /\ g \in UC!FactType /\ g.suc = f.suc /\ g.use = f.use
         /\ f.suc > 0 => g.confidence >= f.confidence /\ g.black = f.black
<1>. USE PartsAssumption DEF UC!UseCountsAssumption
<1>1. CASE stage = 3
  <2>1. UC!AfterStage(stage, f) = UC!Strengthened(f)
    BY <1>1 DEF UC!AfterStage
  <2>2. f.confidence + 1 \in Int /\ f.confidence \in Int
    BY DEF UC!FactType
  <2>3. PICK x : x = IF f.confidence < MaxConfidence THEN f.confidence + 1 ELSE f.confidence
    OBVIOUS
  <2>4. x \in Int /\ x >= f.confidence
    BY <2>2, <2>3
  <2>5. UC!Strengthened(f) \in {f, [f EXCEPT !.confidence = x]}
    BY <2>3 DEF UC!Strengthened
  <2>. QED BY <2>1, <2>2, <2>4, <2>5 DEF UC!FactType
<1>2. CASE stage = 4
  <2>1. UC!AfterStage(stage, f) = UC!Decayed(f)
    BY <1>2 DEF UC!AfterStage
  <2>2. CASE f.suc > 0 \/ f.archived
    BY <2>1, <2>2 DEF UC!Decayed, UC!FactType
  <2>3. CASE ~(f.suc > 0 \/ f.archived)
    <3>1. PICK gone_ \in BOOLEAN : gone_ = (f.confidence = 1)
      OBVIOUS
    <3>2. PICK low : low = f.confidence - 1
      OBVIOUS
    <3>3. low \in Int
      BY <3>2 DEF UC!FactType
    <3>4. UC!Decayed(f) = [f EXCEPT !.confidence = low, !.archived = gone_]
      BY <2>3, <3>1, <3>2 DEF UC!Decayed
    <3>5. UC!Decayed(f) \in UC!FactType /\ UC!Decayed(f).suc = f.suc /\ UC!Decayed(f).use = f.use
      BY <3>3, <3>4 DEF UC!FactType
    <3>6. ~(f.suc > 0)
      BY <2>3
    <3>. QED BY <2>1, <3>5, <3>6
  <2>. QED BY <2>2, <2>3
<1>3. CASE stage = 5
  <2>1. UC!AfterStage(stage, f) = UC!Pruned(f)
    BY <1>3 DEF UC!AfterStage
  <2>2. UC!Pruned(f) \in {f, [f EXCEPT !.black = TRUE]} /\ (f.suc > 0 => UC!Pruned(f) = f)
    BY DEF UC!Pruned, UC!FactType
  <2>3. [f EXCEPT !.black = TRUE] \in UC!FactType
    BY DEF UC!FactType
  <2>4. UC!Pruned(f).suc = f.suc /\ UC!Pruned(f).use = f.use
    BY <2>2 DEF UC!FactType
  <2>5. UC!Pruned(f) \in UC!FactType
    BY <2>2, <2>3
  <2>6. f.confidence >= f.confidence
    BY DEF UC!FactType
  <2>. QED BY <2>1, <2>2, <2>4, <2>5, <2>6
<1>. QED BY <1>1, <1>2, <1>3

LEMMA LoadSound == ASSUME UC!IInv, UC!Load PROVE UC!IInv'
<1>1. PICK r : r = [stage |-> 3, copy |-> fact, proved |-> proved]
  OBVIOUS
<1>2. /\ pass' = r
      /\ UNCHANGED <<fact, snapshot, writer, uses, faults, proved, punished, overtaken, unscanned>>
  BY <1>1 DEF UC!Load, UC!history
<1>3. r \in [stage : {0, 3, 4, 5}, copy : UC!FactType, proved : BOOLEAN]
      /\ r.copy = fact /\ r.proved = proved
  BY <1>1 DEF UC!IInv
<1>4. ~overtaken /\ r.proved => r.copy.suc > 0
  BY <1>3 DEF UC!IInv
<1>. QED BY <1>2, <1>3, <1>4
         DEF UC!IInv, UC!Pending, UC!UseRewarded, UC!UsefulFactKept, UC!RatioAtMostOne

LEMMA StageSound == ASSUME UC!IInv, UC!Stage PROVE UC!IInv'
<1>. USE PartsAssumption DEF UC!UseCountsAssumption
<1>1. PICK copy : copy = UC!AfterStage(pass.stage, pass.copy)
  OBVIOUS
<1>2. pass \in [stage : {0, 3, 4, 5}, copy : UC!FactType, proved : BOOLEAN] /\ fact \in UC!FactType
      /\ pass.stage \in {3, 4, 5}
  BY DEF UC!IInv, UC!Stage
<1>3. /\ copy \in UC!FactType /\ copy.suc = pass.copy.suc /\ copy.use = pass.copy.use
      /\ pass.copy.suc > 0 => copy.confidence >= pass.copy.confidence /\ copy.black = pass.copy.black
  BY <1>1, <1>2, StageKeepsSuccess
<1>4. /\ pass' = IF pass.stage = 5 THEN UC!NoRun ELSE [pass EXCEPT !.copy = copy, !.stage = @ + 1]
      /\ punished' = (punished \/ (pass.proved /\ (copy.confidence < pass.copy.confidence
                                               \/ (copy.black /\ ~pass.copy.black))))
      /\ \/ /\ fact' = copy
            /\ overtaken' = (overtaken \/ fact # pass.copy)
            /\ UNCHANGED faults
         \/ /\ faults < MaxFaults /\ faults' = faults + 1
            /\ UNCHANGED <<fact, overtaken>>
      /\ UNCHANGED <<snapshot, writer, uses, runs, proved, unscanned>>
  BY <1>1 DEF UC!Stage
<1>5. overtaken' \in BOOLEAN /\ (~overtaken' => ~overtaken)
  BY <1>4 DEF UC!IInv
<1>6. faults' \in Nat /\ (faults' = 0 => faults = 0 /\ fact' = copy)
      /\ (~overtaken' => fact' = fact \/ (fact' = copy /\ fact = pass.copy))
  <2>1. faults \in Nat
    BY DEF UC!IInv
  <2>2. CASE fact' = copy /\ overtaken' = (overtaken \/ fact # pass.copy) /\ UNCHANGED faults
    BY <2>1, <2>2
  <2>3. CASE faults' = faults + 1 /\ UNCHANGED <<fact, overtaken>>
    BY <2>1, <2>3
  <2>. QED BY <1>4, <2>2, <2>3
<1>7. pass' \in [stage : {0, 3, 4, 5}, copy : UC!FactType, proved : BOOLEAN]
      /\ (pass'.proved => pass.proved /\ pass'.copy = copy)
  <2>1. CASE pass.stage = 5
    <3>1. UC!NoFact \in UC!FactType
      BY DEF UC!NoFact, UC!FactType
    <3>. QED BY <1>4, <2>1, <3>1 DEF UC!NoRun
  <2>2. CASE pass.stage # 5
    <3>1. pass' = [pass EXCEPT !.copy = copy, !.stage = @ + 1]
      BY <1>4, <2>2
    <3>2. pass.stage + 1 \in {0, 3, 4, 5}
      BY <1>2, <2>2
    <3>. QED BY <1>2, <1>3, <3>1, <3>2
  <2>. QED BY <2>1, <2>2
<1>8. fact' \in UC!FactType
  BY <1>2, <1>3, <1>4
<1>9. ~overtaken /\ pass.proved => pass.copy.suc > 0
  BY DEF UC!IInv
<1>10. ~overtaken' /\ pass'.proved => pass'.copy.suc > 0
  BY <1>3, <1>5, <1>7, <1>9
<1>11. ~overtaken' => fact'.suc = fact.suc /\ fact'.use = fact.use
  BY <1>3, <1>6
<1>12. punished' \in BOOLEAN
  BY <1>4 DEF UC!IInv
<1>13. UC!UsefulFactKept'
  <2>. SUFFICES ASSUME ~overtaken' PROVE ~punished'
    BY DEF UC!UsefulFactKept
  <2>1. ~punished
    BY <1>5 DEF UC!IInv, UC!UseRewarded, UC!UsefulFactKept
  <2>2. pass.proved => copy.confidence >= pass.copy.confidence /\ copy.black = pass.copy.black
    BY <1>3, <1>5, <1>9
  <2>3. copy.confidence \in Int /\ pass.copy.confidence \in Int
    BY <1>2, <1>3 DEF UC!FactType
  <2>4. ~(pass.proved /\ (copy.confidence < pass.copy.confidence
                          \/ (copy.black /\ ~pass.copy.black)))
    BY <2>2, <2>3
  <2>. QED BY <1>4, <2>1, <2>4, Zenon
<1>14. UC!RatioAtMostOne'
  BY <1>4, <1>5, <1>6, <1>11 DEF UC!IInv, UC!UseRewarded, UC!RatioAtMostOne
<1>15. \A t \in Tasks : UC!Pending(writer[t])'
  BY <1>4, <1>5, <1>6 DEF UC!IInv, UC!Pending
<1>16. ~overtaken' /\ proved' => fact'.suc > 0
  BY <1>4, <1>5, <1>11 DEF UC!IInv
<1>. QED BY <1>4, <1>5, <1>6, <1>7, <1>8, <1>10, <1>12, <1>13, <1>14, <1>15, <1>16
         DEF UC!IInv, UC!UseRewarded

LEMMA WriteNodeSound ==
  ASSUME UC!IInv, NEW t \in Tasks, UC!WriteNode(t) PROVE UC!IInv'
<1>1. PICK w : w = writer[t]
  OBVIOUS
<1>2. w \in UC!WriterType /\ UC!Pending(w) /\ w.pc = "write" /\ fact \in UC!FactType
  BY <1>1 DEF UC!IInv, UC!WriteNode
<1>3. /\ \/ /\ fact' = w.copy
            /\ overtaken' = (overtaken \/ ~UC!UpToDate(w))
            /\ proved' = (proved \/ w.copy.suc > fact.suc)
            /\ UNCHANGED faults
         \/ /\ faults < MaxFaults /\ faults' = faults + 1
            /\ UNCHANGED <<fact, overtaken, proved>>
      /\ writer' = [writer EXCEPT ![t] =
           IF ~w.then THEN UC!Idle
           ELSE [w EXCEPT !.pc = "read", !.kind = "batch", !.then = FALSE,
                   !.base = UC!Counters(fact')]]
      /\ UNCHANGED <<snapshot, pass, uses, runs, punished, unscanned>>
  BY <1>1 DEF UC!WriteNode
<1>4. w.copy \in UC!FactType /\ w.source \in UC!FactType /\ w.seen \in Nat \X Nat
      /\ w.quoted \in BOOLEAN /\ w.base \in Nat \X Nat /\ w.kind \in {"turn", "batch", "recall"}
  BY <1>2 DEF UC!WriterType, UC!Pending
<1>5. fact' \in UC!FactType
  BY <1>2, <1>3, <1>4
<1>6. overtaken' \in BOOLEAN /\ proved' \in BOOLEAN
      /\ faults' \in Nat
      /\ (~overtaken' => ~overtaken) /\ (faults' = 0 => faults = 0 /\ fact' = w.copy)
      /\ (~overtaken' /\ fact' # fact => UC!UpToDate(w) /\ fact' = w.copy)
      /\ (faults' = 0 /\ ~overtaken' => UC!UpToDate(w))
      /\ (proved' => proved \/ (w.copy.suc > fact.suc /\ fact' = w.copy))
  <2>1. faults \in Nat /\ overtaken \in BOOLEAN /\ proved \in BOOLEAN
    BY DEF UC!IInv
  <2>2. CASE /\ fact' = w.copy
             /\ overtaken' = (overtaken \/ ~UC!UpToDate(w))
             /\ proved' = (proved \/ w.copy.suc > fact.suc)
             /\ UNCHANGED faults
    <3>1. overtaken' \in BOOLEAN /\ (~overtaken' => ~overtaken /\ UC!UpToDate(w))
      BY <2>1, <2>2, Zenon
    <3>2. proved' \in BOOLEAN /\ (proved' => proved \/ w.copy.suc > fact.suc)
      BY <2>1, <2>2, Zenon
    <3>. QED BY <2>1, <2>2, <3>1, <3>2
  <2>3. CASE faults' = faults + 1 /\ UNCHANGED <<fact, overtaken, proved>>
    BY <2>1, <2>3
  <2>. QED BY <1>3, <2>2, <2>3, Zenon
\* What is written adds to what it was read from.
<1>7. /\ w.kind = "recall" => w.copy.use = w.source.use + 1 /\ w.copy.suc = w.source.suc
      /\ w.kind # "recall" =>
           /\ w.copy.use = IF w.kind = "turn" THEN w.seen[1] + 1 ELSE w.source.use
           /\ w.copy.suc = IF w.kind = "batch" \/ w.quoted THEN w.seen[2] + 1 ELSE w.source.suc
  <2>1. CASE w.kind = "recall"
    <3>1. w.copy = [w.source EXCEPT !.use = @ + 1]
      BY <1>2, <2>1 DEF UC!Pending
    <3>. QED BY <1>4, <2>1, <3>1 DEF UC!FactType
  <2>2. CASE w.kind # "recall"
    <3>1. w.copy = UC!Updated(w.kind, w.quoted, w.seen, w.source)
      BY <1>2, <2>2 DEF UC!Pending
    <3>. QED BY <1>4, <2>2, <3>1, UpdatedFact
  <2>. QED BY <2>1, <2>2
<1>8. fact.use \in Nat /\ fact.suc \in Nat /\ w.source.use \in Nat /\ w.source.suc \in Nat
      /\ w.seen[1] \in Nat /\ w.seen[2] \in Nat
  BY <1>2, <1>4 DEF UC!FactType
<1>9. ~overtaken' /\ proved' => fact'.suc > 0
  <2>. SUFFICES ASSUME ~overtaken', proved', fact' # fact PROVE fact'.suc > 0
    <3>1. fact' = fact => (proved' => proved)
      BY <1>6, <1>8
    <3>2. ~overtaken /\ proved => fact.suc > 0
      BY DEF UC!IInv
    <3>. QED BY <1>6, <3>1, <3>2
  <2>1. fact' = w.copy /\ fact = w.source /\ (proved \/ w.copy.suc > fact.suc)
    BY <1>6 DEF UC!UpToDate
  <2>2. proved => fact.suc > 0
    BY <1>6 DEF UC!IInv
  <2>3. CASE w.kind # "recall" /\ (w.kind = "batch" \/ w.quoted)
    BY <1>7, <1>8, <2>1, <2>3
  <2>4. CASE ~(w.kind # "recall" /\ (w.kind = "batch" \/ w.quoted))
    <3>1. w.copy.suc = w.source.suc
      BY <1>7, <2>4
    <3>. QED BY <1>8, <2>1, <2>2, <3>1
  <2>. QED BY <2>3, <2>4
<1>10. ~overtaken' /\ ~unscanned /\ faults' = 0 =>
          /\ fact = w.source /\ UC!Counters(fact) = w.base /\ fact' = w.copy
          /\ fact.suc <= fact.use
  <2>1. ~overtaken /\ ~unscanned /\ faults = 0 => fact.suc <= fact.use
    BY DEF UC!IInv, UC!UseRewarded, UC!RatioAtMostOne
  <2>. QED BY <1>6, <2>1 DEF UC!UpToDate
<1>11. UC!RatioAtMostOne'
  <2>. SUFFICES ASSUME ~overtaken', ~unscanned, faults' = 0 PROVE w.copy.suc <= w.copy.use
    BY <1>3, <1>10 DEF UC!RatioAtMostOne
  <2>1. w.base = <<fact.use, fact.suc>> /\ fact = w.source /\ fact.suc <= fact.use
    BY <1>10 DEF UC!Counters
  <2>2. CASE w.kind = "recall"
    BY <1>7, <1>8, <2>1, <2>2
  <2>3. CASE w.kind = "turn"
    <3>1. w.seen = w.base
      BY <1>2, <2>3 DEF UC!Pending
    <3>. QED BY <1>7, <1>8, <2>1, <2>3, <3>1
  <2>4. CASE w.kind = "batch"
    <3>1. w.base[1] = w.seen[1] + 1 /\ w.seen[2] <= w.seen[1]
      BY <1>2, <1>6, <2>4 DEF UC!Pending
    <3>. QED BY <1>7, <1>8, <2>1, <2>4, <3>1
  <2>. QED BY <1>4, <2>2, <2>3, <2>4
<1>12. PICK x : x = IF ~w.then THEN UC!Idle
                   ELSE [w EXCEPT !.pc = "read", !.kind = "batch", !.then = FALSE,
                           !.base = UC!Counters(fact')]
  OBVIOUS
<1>13. UC!Counters(fact') \in Nat \X Nat /\ UC!Counters(fact') = <<fact'.use, fact'.suc>>
  BY <1>5 DEF UC!FactType, UC!Counters
<1>14. x \in UC!WriterType /\ UC!Pending(x)'
  <2>1. CASE ~w.then
    <3>1. UC!NoFact \in UC!FactType
      BY DEF UC!NoFact, UC!FactType
    <3>. QED BY <1>12, <2>1, <3>1 DEF UC!Idle, UC!WriterType, UC!Pending
  <2>2. CASE w.then
    <3>1. x = [w EXCEPT !.pc = "read", !.kind = "batch", !.then = FALSE, !.base = UC!Counters(fact')]
      BY <1>12, <2>2
    <3>2. /\ x \in UC!WriterType /\ x.pc = "read" /\ x.kind = "batch" /\ ~x.then
          /\ x.base = UC!Counters(fact') /\ x.seen = w.seen
      BY <1>2, <1>13, <3>1 DEF UC!WriterType
    <3>3. w.kind = "turn" /\ w.seen = w.base
      BY <1>2, <2>2 DEF UC!Pending
    <3>4. ~overtaken' /\ ~unscanned' /\ faults' = 0 =>
            x.base[1] = x.seen[1] + 1 /\ x.seen[2] <= x.seen[1]
      <4>. SUFFICES ASSUME ~overtaken', ~unscanned, faults' = 0
                    PROVE  x.base[1] = x.seen[1] + 1 /\ x.seen[2] <= x.seen[1]
        BY <1>3
      <4>1. w.base = <<fact.use, fact.suc>> /\ fact' = w.copy /\ fact.suc <= fact.use
        BY <1>10 DEF UC!Counters
      <4>. QED BY <1>7, <1>8, <1>13, <3>2, <3>3, <4>1
    <3>. QED BY <3>2, <3>4 DEF UC!Pending
  <2>. QED BY <2>1, <2>2
<1>15. writer' \in [Tasks -> UC!WriterType] /\ writer'[t] = x
       /\ \A u \in Tasks : u # t => writer'[u] = writer[u]
  BY <1>3, <1>12, <1>14 DEF UC!IInv
<1>16. ASSUME NEW u \in Tasks PROVE UC!Pending(writer[u])'
  <2>1. CASE u = t
    BY <1>14, <1>15, <2>1
  <2>2. CASE u # t
    <3>1. UC!Pending(writer[u])
      BY DEF UC!IInv
    <3>. QED BY <1>3, <1>6, <1>15, <2>2, <3>1 DEF UC!Pending
  <2>. QED BY <2>1, <2>2
<1>17. UC!UsefulFactKept'
  BY <1>3, <1>6 DEF UC!IInv, UC!UseRewarded, UC!UsefulFactKept
<1>18. ~overtaken' /\ pass.proved => pass.copy.suc > 0
  BY <1>6 DEF UC!IInv
<1>. QED BY <1>3, <1>5, <1>6, <1>9, <1>11, <1>15, <1>16, <1>17, <1>18 DEF UC!IInv, UC!UseRewarded

LEMMA UsesStep == ASSUME UC!IInv, UC!UseCountsNext PROVE UC!IInv'
BY ShowSound, AfterTurnSound, RecallSound, ReadNodeSound, WriteNodeSound, LoadSound, StageSound
   DEF UC!UseCountsNext

UsesInv == part = "uses" => UC!IInv

LEMMA UsesStutters ==
  ASSUME UsesInv, UNCHANGED <<part, usesVars>> PROVE UsesInv'
BY DEF UsesInv, usesVars, UC!IInv, UC!Pending, UC!UseRewarded,
       UC!UsefulFactKept, UC!RatioAtMostOne, UC!UpToDate

LEMMA UsesKept ==
  ASSUME UsesInv, [PartsNext]_allVars PROVE UsesInv'
<1>1. CASE part = "uses" /\ UC!UseCountsNext /\ Others
  BY <1>1, UsesStep DEF UsesInv, Others
<1>2. CASE part # "uses" /\ UNCHANGED part
  BY <1>2 DEF UsesInv
<1>3. CASE UNCHANGED allVars
  BY <1>3, UsesStutters DEF allVars
<1>. QED BY <1>1, <1>2, <1>3 DEF PartsNext, Others

\* Using a fact with success counts for it, once for each use, unless a write overtook
\* another (the counters of after_turn, RT-1, recall and the consolidation stages).
THEOREM UseIsRewarded == PartsSpec => []UseRewarded
<1>1. PartsInit => UsesInv
  BY UsesInitSound DEF PartsInit, UsesInv
<1>2. UsesInv /\ [PartsNext]_allVars => UsesInv'
  BY UsesKept
<1>3. UsesInv => UseRewarded
  BY DEF UsesInv, UseRewarded, UC!IInv
<1>. QED BY <1>1, <1>2, <1>3, PTL DEF PartsSpec
------------------------------------------------------------------------------
(* Organisation: as long as no two requests are about one actor at once, the
   node and the edges are what the requests asked for, up to what the one under
   way has still to write. *)

LEMMA NodesTyped == OR!NoNode \in OR!NodeType /\ OR!NoNode.teams = {} /\ ~OR!NoNode.stored
BY DEF OR!NoNode, OR!NodeType

LEMMA NoRequestIdle == OR!NoRequest \in OR!RequestType /\ OR!NoRequest.pc = "idle"
<1>. USE PartsAssumption DEF OR!OrganisationAssumption
<1>1. OR!NoRequest \in OR!RequestType
  BY NodesTyped DEF OR!NoRequest, OR!RequestType, OR!Ops
<1>2. OR!NoRequest.pc = "idle"
  BY DEF OR!NoRequest
<1>. QED BY <1>1, <1>2

LEMMA OrganisationInitSound == ASSUME OR!OrganisationInit PROVE OR!IInv
<1>. USE PartsAssumption DEF OR!OrganisationAssumption
<1>1. PICK first : first = [level |-> ExemptLevel, teams |-> {}, stored |-> TRUE]
  OBVIOUS
<1>2. first \in OR!NodeType /\ first.teams = {} /\ first.stored
  BY <1>1 DEF OR!NodeType
<1>3. /\ node = [a \in Actors |-> IF a = Admin THEN first ELSE OR!NoNode]
      /\ edges = {} /\ asked = node /\ request = [c \in Calls |-> OR!NoRequest]
      /\ overlap = {} /\ degraded = {} /\ spread = {}
  BY <1>1 DEF OR!OrganisationInit
<1>4. \A a \in Actors : OR!TeamsOf(a) = {} /\ asked[a].teams = {}
  BY <1>2, <1>3, NodesTyped DEF OR!TeamsOf
<1>5. \A c \in Calls : request[c].pc = "idle" /\ request[c] \in OR!RequestType
  BY <1>3, NoRequestIdle
<1>6. OR!UnknownHasNothing
  BY <1>2, <1>3, <1>4 DEF OR!UnknownHasNothing
<1>7. \A a \in Actors : OR!Settled(a)
  BY <1>3, <1>4 DEF OR!Settled, OR!EdgesRight
<1>8. node \in [Actors -> OR!NodeType]
  BY <1>2, <1>3, NodesTyped
<1>. QED BY <1>3, <1>5, <1>6, <1>7, <1>8 DEF OR!IInv, OR!WellFormed

\* A step of one request about one actor leaves the others as they are: what is to be
\* shown is about that actor and that request.
StepOf(c, a, n, w, q) ==
  /\ q.pc = "idle" \/ q.actor = a
  /\ request[c].pc # "idle" => request[c].actor = a
  /\ ~(request[c].pc = "idle" /\ q.pc = "idle")
  /\ node' = [node EXCEPT ![a] = n] /\ asked' = [asked EXCEPT ![a] = w]
  /\ request' = [request EXCEPT ![c] = q]
  /\ edges' \subseteq Actors \X Teams
  /\ \A b \in Actors : b # a => OR!TeamsOf(b)' = OR!TeamsOf(b)
  /\ overlap \subseteq overlap' /\ overlap' \subseteq overlap \cup {a}
  /\ \A d \in Calls : d # c /\ request[d].pc # "idle" /\ request[d].actor = a /\ q.pc # "idle"
        => a \in overlap'
  /\ degraded \subseteq degraded' /\ degraded' \subseteq degraded \cup {a}
  /\ spread \subseteq spread' /\ spread' \subseteq spread \cup {a} /\ spread' \subseteq degraded'
  /\ ~n.stored => ~node[a].stored /\ n = OR!NoNode /\ w = OR!NoNode /\ OR!TeamsOf(a)' = {}
  /\ OR!WellFormed(q)'
  /\ a \notin overlap' /\ q.pc = "idle" => OR!Settled(a)'
  /\ a \notin overlap' /\ q.pc # "idle" => OR!UnderWay(q)'

LEMMA OneActor ==
  ASSUME OR!IInv, NEW c \in Calls, NEW a \in Actors, NEW n \in OR!NodeType, NEW w \in OR!NodeType,
         NEW q \in OR!RequestType, StepOf(c, a, n, w, q)
  PROVE  OR!IInv'
<1>. USE DEF StepOf
<1>1. /\ node' \in [Actors -> OR!NodeType] /\ node'[a] = n
      /\ asked' \in [Actors -> OR!NodeType] /\ asked'[a] = w
      /\ request' \in [Calls -> OR!RequestType] /\ request'[c] = q
      /\ \A b \in Actors : b # a => node'[b] = node[b] /\ asked'[b] = asked[b]
      /\ \A d \in Calls : d # c => request'[d] = request[d]
  BY DEF OR!IInv
<1>2. OR!UnknownHasNothing'
  BY <1>1 DEF OR!IInv, OR!UnknownHasNothing
<1>3. \A d \in Calls : request[d].actor \in Actors
  BY DEF OR!IInv, OR!RequestType
<1>4. ASSUME NEW d \in Calls PROVE OR!WellFormed(request[d])'
  <2>1. CASE d = c
    BY <1>1, <2>1
  <2>2. CASE d # c
    <3>1. OR!WellFormed(request[d]) /\ request'[d] = request[d]
      BY <1>1, <2>2 DEF OR!IInv
    <3>2. node[request[d].actor].stored => node'[request[d].actor].stored
      BY <1>1, <1>3
    <3>. QED BY <3>1, <3>2 DEF OR!WellFormed
  <2>. QED BY <2>1, <2>2
<1>5. ASSUME NEW d \in Calls, NEW e \in Calls, d # e, request'[d].pc # "idle",
             request'[e].pc # "idle", request'[d].actor = request'[e].actor
      PROVE  request'[d].actor \in overlap'
  <2>1. CASE d # c /\ e # c
    BY <1>1, <1>5, <2>1 DEF OR!IInv
  <2>2. CASE d = c
    BY <1>1, <1>5, <2>2
  <2>3. CASE e = c
    BY <1>1, <1>5, <2>3
  <2>. QED BY <2>1, <2>2, <2>3
<1>6. ASSUME NEW b \in Actors, b # a, OR!Settled(b) PROVE OR!Settled(b)'
  BY <1>1, <1>6 DEF OR!Settled, OR!EdgesRight
<1>7. ASSUME NEW b \in Actors, OR!Quiet(b)', b \notin overlap' PROVE OR!Settled(b)'
  <2>1. CASE b = a
    BY <1>1, <1>7, <2>1 DEF OR!Quiet
  <2>2. CASE b # a
    <3>1. OR!Quiet(b)
      BY <1>1, <1>7, <2>2 DEF OR!Quiet
    <3>. QED BY <1>6, <1>7, <2>2, <3>1 DEF OR!IInv
  <2>. QED BY <2>1, <2>2
<1>8. ASSUME NEW d \in Calls, request'[d].pc # "idle", request'[d].actor \notin overlap'
      PROVE  OR!UnderWay(request[d])'
  <2>1. CASE d = c
    BY <1>1, <1>8, <2>1
  <2>2. CASE d # c /\ request[d].actor # a
    <3>1. OR!UnderWay(request[d]) /\ request'[d] = request[d]
      BY <1>1, <1>8, <2>2 DEF OR!IInv
    <3>2. PICK b \in Actors : b = request[d].actor
      BY <1>3
    <3>3. b # a /\ (b \in degraded' <=> b \in degraded) /\ (b \in spread' <=> b \in spread)
          /\ OR!TeamsOf(b)' = OR!TeamsOf(b)
      BY <2>2, <3>2
    <3>. QED BY <1>1, <3>1, <3>2, <3>3 DEF OR!UnderWay, OR!Settled, OR!EdgesRight
  <2>3. CASE d # c /\ request[d].actor = a
    \* The other request about a: there is none, or the two overlap.
    <3>1. request[d].pc # "idle" /\ a \notin overlap' /\ a \notin overlap
      BY <1>1, <1>8, <2>3
    <3>2. q.pc = "idle"
      BY <2>3, <3>1
    <3>3. request[c].pc = "idle"
      BY <2>3, <3>1 DEF OR!IInv
    <3>. QED BY <3>2, <3>3
  <2>. QED BY <2>1, <2>2, <2>3
<1>. QED BY <1>1, <1>2, <1>4, <1>5, <1>7, <1>8 DEF OR!IInv

LEMMA BeginSound ==
  ASSUME OR!IInv, NEW c \in Calls, NEW by \in Actors, NEW a \in Actors, NEW op \in OR!Ops,
         NEW level \in Levels \cup {0}, NEW team \in SUBSET Teams,
         OR!Begin(c, by, op, a, team, level)
  PROVE  OR!IInv'
<1>. USE PartsAssumption DEF OR!OrganisationAssumption
<1>1. PICK copy : copy = [level |-> level, teams |-> team, stored |-> TRUE]
  OBVIOUS
<1>2. PICK pc : pc = CASE op = "register" -> "write" [] op = "update" -> "read" [] OTHER -> "edge"
  OBVIOUS
<1>3. PICK q : q = [pc |-> pc, op |-> op, actor |-> a, team |-> team, level |-> level, copy |-> copy]
  OBVIOUS
<1>4. /\ request[c].pc = "idle"
      /\ op = "register" =>
           ~node[a].stored /\ \A d \in Calls : request[d].pc = "idle" \/ request[d].actor # a
      /\ request' = [request EXCEPT ![c] = q]
      /\ overlap' = IF \E d \in Calls : request[d].pc # "idle" /\ request[d].actor = a
                    THEN overlap \cup {a} ELSE overlap
      /\ UNCHANGED <<node, edges, failures, asked, degraded, spread>>
  BY <1>1, <1>2, <1>3 DEF OR!Begin
<1>5. /\ op = "register" => pc = "write"
      /\ op = "update" => pc = "read"
      /\ op \in {"add", "remove"} => pc = "edge"
  BY <1>2
<1>6. copy \in OR!NodeType /\ copy.stored /\ copy.teams = team
  BY <1>1 DEF OR!NodeType
<1>7. q \in OR!RequestType /\ q.pc = pc /\ q.op = op /\ q.actor = a /\ q.copy = copy /\ q.pc # "idle"
  <2>1. level \in Nat
    OBVIOUS
  <2>2. pc \in {"edge", "read", "write"}
    BY <1>5 DEF OR!Ops
  <2>3. q \in OR!RequestType
    BY <1>3, <1>6, <2>1, <2>2 DEF OR!RequestType
  <2>4. q.pc = pc /\ q.op = op /\ q.actor = a /\ q.copy = copy
    BY <1>3
  <2>. QED BY <2>2, <2>3, <2>4
<1>8. PICK n : n = node[a]
  OBVIOUS
<1>9. PICK w : w = asked[a]
  OBVIOUS
<1>10. /\ n \in OR!NodeType /\ w \in OR!NodeType
       /\ node' = [node EXCEPT ![a] = n] /\ asked' = [asked EXCEPT ![a] = w]
  BY <1>4, <1>8, <1>9 DEF OR!IInv
<1>11. OR!WellFormed(q)'
  BY <1>5, <1>6, <1>7 DEF OR!WellFormed, OR!Ops
<1>12. a \notin overlap' => OR!UnderWay(q)'
  <2>. SUFFICES ASSUME a \notin overlap' PROVE OR!UnderWay(q)'
    OBVIOUS
  <2>1. OR!Quiet(a) /\ a \notin overlap
    BY <1>4 DEF OR!Quiet
  <2>2. OR!Settled(a)
    BY <2>1 DEF OR!IInv
  <2>3. OR!Settled(a)' /\ OR!EdgesRight(a)'
    BY <1>4, <2>2 DEF OR!Settled, OR!EdgesRight, OR!TeamsOf
  <2>. QED BY <1>4, <1>5, <1>7, <2>3 DEF OR!UnderWay, OR!Ops
<1>13. \A b \in Actors : OR!TeamsOf(b)' = OR!TeamsOf(b)
  BY <1>4 DEF OR!TeamsOf
<1>14. ~n.stored => ~node[a].stored /\ n = OR!NoNode /\ w = OR!NoNode /\ OR!TeamsOf(a)' = {}
  BY <1>8, <1>9, <1>13 DEF OR!IInv, OR!UnknownHasNothing
<1>15. \A d \in Calls : d # c /\ request[d].pc # "idle" /\ request[d].actor = a => a \in overlap'
  BY <1>4
<1>16. edges' \subseteq Actors \X Teams /\ spread' \subseteq degraded'
       /\ overlap \subseteq overlap' /\ overlap' \subseteq overlap \cup {a}
  BY <1>4 DEF OR!IInv
<1>17. StepOf(c, a, n, w, q)
  BY <1>4, <1>7, <1>10, <1>11, <1>12, <1>13, <1>14, <1>15, <1>16 DEF StepOf
<1>. QED BY <1>7, <1>10, <1>17, OneActor

\* What holds of the actor of a request that is under way.
LEMMA RequestKnows ==
  ASSUME OR!IInv, NEW c \in Calls, NEW r, r = request[c], r.pc # "idle"
  PROVE  /\ r \in OR!RequestType /\ r.actor \in Actors /\ OR!WellFormed(r)
         /\ r.actor \notin overlap => OR!UnderWay(r)
         /\ \A d \in Calls : d # c /\ request[d].pc # "idle" /\ request[d].actor = r.actor
               => r.actor \in overlap
         /\ node[r.actor] \in OR!NodeType /\ asked[r.actor] \in OR!NodeType
         /\ edges \subseteq Actors \X Teams /\ spread \subseteq degraded
         /\ ~node[r.actor].stored => node[r.actor] = OR!NoNode /\ asked[r.actor] = OR!NoNode
                                      /\ OR!TeamsOf(r.actor) = {}
BY DEF OR!IInv, OR!RequestType, OR!UnknownHasNothing

LEMMA EdgeSound ==
  ASSUME OR!IInv, NEW c \in Calls, OR!Edge(c) PROVE OR!IInv'
<1>1. PICK r : r = request[c]
  OBVIOUS
<1>2. PICK a : a = r.actor
  OBVIOUS
<1>3. PICK pair : pair = {a} \X r.team
  OBVIOUS
<1>4. /\ r.pc = "edge"
      /\ request' = [request EXCEPT ![c].pc = "read"]
      /\ IF r.op = "remove"
         THEN edges' = edges \ pair /\ asked' = [asked EXCEPT ![a].teams = @ \ r.team]
         ELSE IF node[a].stored
         THEN edges' = edges \cup pair /\ asked' = [asked EXCEPT ![a].teams = @ \cup r.team]
         ELSE UNCHANGED <<edges, asked>>
      /\ UNCHANGED <<node, begun, failures, overlap, degraded, spread>>
  BY <1>1, <1>2, <1>3 DEF OR!Edge
<1>5. /\ r \in OR!RequestType /\ a \in Actors /\ OR!WellFormed(r)
      /\ a \notin overlap => OR!UnderWay(r)
      /\ \A d \in Calls : d # c /\ request[d].pc # "idle" /\ request[d].actor = a => a \in overlap
      /\ node[a] \in OR!NodeType /\ asked[a] \in OR!NodeType
      /\ edges \subseteq Actors \X Teams /\ spread \subseteq degraded
      /\ ~node[a].stored => node[a] = OR!NoNode /\ asked[a] = OR!NoNode /\ OR!TeamsOf(a) = {}
  BY <1>1, <1>2, <1>4, RequestKnows
<1>6. PICK q : q = [r EXCEPT !.pc = "read"]
  OBVIOUS
<1>7. q \in OR!RequestType /\ q.pc = "read" /\ q.actor = a /\ q.op = r.op /\ q.team = r.team
      /\ request' = [request EXCEPT ![c] = q] /\ r.team \subseteq Teams
      /\ r.op \in {"add", "remove"} /\ q.op # "register"
  BY <1>1, <1>2, <1>4, <1>5, <1>6 DEF OR!RequestType, OR!WellFormed
<1>8. PICK teams : teams = IF r.op = "remove" THEN asked[a].teams \ r.team
                          ELSE IF node[a].stored THEN asked[a].teams \cup r.team
                          ELSE asked[a].teams
  OBVIOUS
<1>9. PICK w : w = [asked[a] EXCEPT !.teams = teams]
  OBVIOUS
<1>10. w \in OR!NodeType /\ w.teams = teams /\ w.level = asked[a].level /\ w.stored = asked[a].stored
  <2>1. teams \subseteq Teams
    BY <1>5, <1>7, <1>8 DEF OR!NodeType
  <2>. QED BY <1>5, <1>9, <2>1 DEF OR!NodeType
<1>11. asked' = [asked EXCEPT ![a] = w]
  <2>1. CASE r.op = "remove" \/ node[a].stored
    BY <1>4, <1>8, <1>9, <2>1
  <2>2. CASE ~(r.op = "remove" \/ node[a].stored)
    <3>1. asked' = asked /\ w = asked[a]
      BY <1>4, <1>5, <1>8, <1>9, <2>2 DEF OR!NodeType
    <3>. QED BY <3>1 DEF OR!IInv
  <2>. QED BY <2>1, <2>2
<1>12. /\ edges' \subseteq Actors \X Teams
       /\ \A b \in Actors : b # a => OR!TeamsOf(b)' = OR!TeamsOf(b)
       /\ OR!TeamsOf(a)' = IF r.op = "remove" THEN OR!TeamsOf(a) \ r.team
                           ELSE IF node[a].stored THEN OR!TeamsOf(a) \cup r.team
                           ELSE OR!TeamsOf(a)
  <2>1. CASE r.op = "remove"
    BY <1>3, <1>4, <1>5, <1>7, <2>1 DEF OR!TeamsOf
  <2>2. CASE r.op # "remove" /\ node[a].stored
    BY <1>3, <1>4, <1>5, <1>7, <2>2 DEF OR!TeamsOf
  <2>3. CASE r.op # "remove" /\ ~node[a].stored
    BY <1>4, <1>5, <2>3 DEF OR!TeamsOf
  <2>. QED BY <2>1, <2>2, <2>3
<1>13. node' = [node EXCEPT ![a] = node[a]]
  BY <1>4 DEF OR!IInv
<1>14. ~node[a].stored => w = OR!NoNode /\ OR!TeamsOf(a)' = {}
  <2>. SUFFICES ASSUME ~node[a].stored PROVE w = OR!NoNode /\ OR!TeamsOf(a)' = {}
    OBVIOUS
  <2>1. asked[a] = OR!NoNode /\ OR!TeamsOf(a) = {} /\ OR!NoNode.teams = {}
    BY <1>5, NodesTyped
  <2>2. teams = {}
    BY <1>8, <2>1
  <2>. QED BY <1>9, <1>12, <2>1, <2>2 DEF OR!NoNode
<1>15. OR!WellFormed(q)'
  BY <1>7 DEF OR!WellFormed
<1>16. a \notin overlap' => OR!UnderWay(q)'
  <2>. SUFFICES ASSUME a \notin overlap PROVE OR!UnderWay(q)'
    BY <1>4
  <2>1. OR!UnderWay(r)
    BY <1>5
  <2>2. OR!EdgesRight(a) /\ OR!Settled(a)
    BY <1>2, <1>4, <2>1 DEF OR!UnderWay
  <2>3. asked'[a] = w
    BY <1>5, <1>11 DEF OR!IInv
  <2>4. OR!EdgesRight(a)'
    BY <1>4, <1>8, <1>10, <1>12, <2>2, <2>3 DEF OR!EdgesRight
  <2>5. a \notin degraded /\ node[a].stored =>
          w = [node[a] EXCEPT !.teams = OR!TeamsAfter(q, node[a].teams)]
    BY <1>7, <1>8, <1>9, <2>2 DEF OR!Settled, OR!TeamsAfter
  <2>. QED BY <1>4, <1>7, <2>3, <2>4, <2>5 DEF OR!UnderWay, OR!TeamsAfter
<1>17. StepOf(c, a, node[a], w, q)
  BY <1>1, <1>2, <1>4, <1>5, <1>7, <1>11, <1>12, <1>13, <1>14, <1>15, <1>16 DEF StepOf
<1>. QED BY <1>5, <1>7, <1>10, <1>17, OneActor

LEMMA OrgReadSound ==
  ASSUME OR!IInv, NEW c \in Calls, OR!Read(c) PROVE OR!IInv'
<1>1. PICK r : r = request[c]
  OBVIOUS
<1>2. PICK a : a = r.actor
  OBVIOUS
<1>3. PICK found : found = node[a]
  OBVIOUS
<1>4. PICK copy : copy = CASE r.op = "add" -> [found EXCEPT !.teams = @ \cup r.team]
                          [] r.op = "remove" -> [found EXCEPT !.teams = @ \ r.team]
                          [] OTHER -> [found EXCEPT !.level = r.level]
  OBVIOUS
<1>5. PICK q : q = IF ~found.stored \/ (r.op # "update" /\ copy = found)
                  THEN OR!NoRequest ELSE [r EXCEPT !.pc = "write", !.copy = copy]
  OBVIOUS
<1>6. /\ r.pc = "read"
      /\ request' = [request EXCEPT ![c] = q]
      /\ UNCHANGED <<node, edges, begun, failures, asked, overlap, degraded, spread>>
  BY <1>1, <1>2, <1>3, <1>4, <1>5 DEF OR!Read
<1>7. /\ r \in OR!RequestType /\ a \in Actors /\ OR!WellFormed(r)
      /\ a \notin overlap => OR!UnderWay(r)
      /\ \A d \in Calls : d # c /\ request[d].pc # "idle" /\ request[d].actor = a => a \in overlap
      /\ node[a] \in OR!NodeType /\ asked[a] \in OR!NodeType
      /\ edges \subseteq Actors \X Teams /\ spread \subseteq degraded
      /\ ~node[a].stored => node[a] = OR!NoNode /\ asked[a] = OR!NoNode /\ OR!TeamsOf(a) = {}
  BY <1>1, <1>2, <1>6, RequestKnows
<1>8. r.op \in {"add", "remove", "update"} /\ r.team \subseteq Teams /\ r.level \in Nat
  BY <1>6, <1>7 DEF OR!RequestType, OR!WellFormed, OR!Ops
<1>9. /\ copy \in OR!NodeType /\ copy.stored = found.stored
      /\ r.op \in {"add", "remove"} => copy = [node[a] EXCEPT !.teams = OR!TeamsAfter(r, node[a].teams)]
      /\ r.op = "update" => copy = [node[a] EXCEPT !.level = r.level]
  <2>1. CASE r.op = "add"
    <3>1. copy = [found EXCEPT !.teams = @ \cup r.team]
      BY <1>4, <2>1
    <3>. QED BY <1>3, <1>7, <1>8, <2>1, <3>1 DEF OR!NodeType, OR!TeamsAfter
  <2>2. CASE r.op = "remove"
    <3>1. copy = [found EXCEPT !.teams = @ \ r.team]
      BY <1>4, <2>2
    <3>. QED BY <1>3, <1>7, <1>8, <2>2, <3>1 DEF OR!NodeType, OR!TeamsAfter
  <2>3. CASE r.op = "update"
    <3>1. copy = [found EXCEPT !.level = r.level]
      BY <1>4, <2>3
    <3>. QED BY <1>3, <1>7, <1>8, <2>3, <3>1 DEF OR!NodeType
  <2>. QED BY <1>8, <2>1, <2>2, <2>3
<1>10. /\ q \in OR!RequestType
       /\ q.pc = "idle" \/ (q.pc = "write" /\ q.actor = a /\ q.op = r.op /\ q.copy = copy
                            /\ q.level = r.level /\ q.team = r.team /\ found.stored)
       /\ q.pc = "idle" => ~found.stored \/ (r.op # "update" /\ copy = found)
  <2>1. CASE ~found.stored \/ (r.op # "update" /\ copy = found)
    BY <1>5, <2>1, NoRequestIdle
  <2>2. CASE ~(~found.stored \/ (r.op # "update" /\ copy = found))
    <3>1. q = [r EXCEPT !.pc = "write", !.copy = copy]
      BY <1>5, <2>2
    <3>. QED BY <1>2, <1>7, <1>9, <2>2, <3>1 DEF OR!RequestType
  <2>. QED BY <2>1, <2>2
<1>11. node' = [node EXCEPT ![a] = node[a]] /\ asked' = [asked EXCEPT ![a] = asked[a]]
  BY <1>6 DEF OR!IInv
<1>12. \A b \in Actors : OR!TeamsOf(b)' = OR!TeamsOf(b)
  BY <1>6 DEF OR!TeamsOf
<1>13. OR!WellFormed(q)'
  BY <1>3, <1>6, <1>9, <1>10 DEF OR!WellFormed
<1>14. a \notin overlap => OR!EdgesRight(a)
       /\ (r.op \in {"add", "remove"} /\ a \notin degraded /\ node[a].stored =>
             asked[a] = [node[a] EXCEPT !.teams = OR!TeamsAfter(r, node[a].teams)])
       /\ (r.op = "update" => OR!Settled(a))
  BY <1>2, <1>6, <1>7 DEF OR!UnderWay
<1>15. a \notin overlap' /\ q.pc = "idle" => OR!Settled(a)'
  <2>. SUFFICES ASSUME a \notin overlap, q.pc = "idle" PROVE OR!Settled(a)'
    BY <1>6
  <2>1. a \notin degraded => asked[a] = node[a]
    <3>1. CASE ~found.stored
      BY <1>3, <1>7, <3>1
    <3>2. CASE found.stored
      BY <1>3, <1>8, <1>9, <1>10, <1>14, <3>2
    <3>. QED BY <3>1, <3>2
  <2>. QED BY <1>6, <1>7, <1>12, <1>14, <2>1 DEF OR!Settled, OR!EdgesRight
<1>16. a \notin overlap' /\ q.pc # "idle" => OR!UnderWay(q)'
  <2>. SUFFICES ASSUME a \notin overlap, q.pc # "idle" PROVE OR!UnderWay(q)'
    BY <1>6
  <2>1. OR!EdgesRight(a)' /\ (r.op = "update" => OR!Settled(a)')
    BY <1>6, <1>7, <1>12, <1>14 DEF OR!Settled, OR!EdgesRight
  <2>2. r.op \in {"add", "remove"} /\ a \notin degraded => asked[a] = copy
    BY <1>3, <1>9, <1>10, <1>14
  <2>. QED BY <1>6, <1>8, <1>9, <1>10, <2>1, <2>2 DEF OR!UnderWay
<1>17. StepOf(c, a, node[a], asked[a], q)
  BY <1>1, <1>2, <1>6, <1>7, <1>10, <1>11, <1>12, <1>13, <1>15, <1>16 DEF StepOf
<1>. QED BY <1>7, <1>10, <1>17, OneActor

LEMMA OrgWriteSound ==
  ASSUME OR!IInv, NEW c \in Calls, OR!Write(c) PROVE OR!IInv'
<1>1. PICK r : r = request[c]
  OBVIOUS
<1>2. PICK a : a = r.actor
  OBVIOUS
<1>3. PICK q : q = IF r.op \in {"register", "update"} THEN [r EXCEPT !.pc = "link"] ELSE OR!NoRequest
  OBVIOUS
<1>4. /\ r.pc = "write"
      /\ node' = [node EXCEPT ![a] = r.copy]
      /\ request' = [request EXCEPT ![c] = q]
      /\ asked' = CASE r.op = "register" -> [asked EXCEPT ![a] = r.copy]
                    [] r.op = "update" -> [asked EXCEPT ![a].level = r.level]
                    [] OTHER -> asked
      /\ UNCHANGED <<edges, begun, failures, overlap, degraded, spread>>
  BY <1>1, <1>2, <1>3 DEF OR!Write
<1>5. /\ r \in OR!RequestType /\ a \in Actors /\ OR!WellFormed(r)
      /\ a \notin overlap => OR!UnderWay(r)
      /\ \A d \in Calls : d # c /\ request[d].pc # "idle" /\ request[d].actor = a => a \in overlap
      /\ node[a] \in OR!NodeType /\ asked[a] \in OR!NodeType
      /\ edges \subseteq Actors \X Teams /\ spread \subseteq degraded
      /\ ~node[a].stored => node[a] = OR!NoNode /\ asked[a] = OR!NoNode /\ OR!TeamsOf(a) = {}
  BY <1>1, <1>2, <1>4, RequestKnows
<1>6. r.op \in OR!Ops /\ r.copy \in OR!NodeType /\ r.copy.stored /\ r.level \in Nat
  BY <1>4, <1>5 DEF OR!RequestType, OR!WellFormed
<1>7. PICK w : w = CASE r.op = "register" -> r.copy
                     [] r.op = "update" -> [asked[a] EXCEPT !.level = r.level]
                     [] OTHER -> asked[a]
  OBVIOUS
<1>8. /\ r.op = "register" => w = r.copy
      /\ r.op = "update" => w = [asked[a] EXCEPT !.level = r.level]
      /\ r.op \in {"add", "remove"} => w = asked[a]
  BY <1>7
<1>9. w \in OR!NodeType /\ (r.op # "register" => w.teams = asked[a].teams)
  BY <1>5, <1>6, <1>8 DEF OR!NodeType, OR!Ops
<1>10. asked' = [asked EXCEPT ![a] = w]
  <2>1. CASE r.op = "register"
    BY <1>4, <1>8, <2>1
  <2>2. CASE r.op = "update"
    BY <1>4, <1>8, <2>2
  <2>3. CASE r.op \in {"add", "remove"}
    <3>1. asked' = asked
      BY <1>4, <2>3
    <3>. QED BY <1>8, <2>3, <3>1 DEF OR!IInv
  <2>. QED BY <1>6, <2>1, <2>2, <2>3 DEF OR!Ops
<1>11. /\ q \in OR!RequestType
       /\ r.op \in {"add", "remove"} => q.pc = "idle"
       /\ r.op \in {"register", "update"} =>
            q.pc = "link" /\ q.actor = a /\ q.op = r.op /\ q.copy = r.copy
  <2>1. CASE r.op \in {"register", "update"}
    <3>1. q = [r EXCEPT !.pc = "link"]
      BY <1>3, <2>1
    <3>. QED BY <1>2, <1>5, <2>1, <3>1 DEF OR!RequestType
  <2>2. CASE r.op \notin {"register", "update"}
    BY <1>3, <2>2, NoRequestIdle
  <2>. QED BY <2>1, <2>2
<1>12. \A b \in Actors : OR!TeamsOf(b)' = OR!TeamsOf(b)
  BY <1>4 DEF OR!TeamsOf
<1>13. node'[a] = r.copy /\ asked'[a] = w
  BY <1>4, <1>5, <1>10 DEF OR!IInv
<1>14. OR!WellFormed(q)'
  BY <1>6, <1>11, <1>13 DEF OR!WellFormed, OR!Ops
<1>15. a \notin overlap' /\ q.pc = "idle" => OR!Settled(a)'
  <2>. SUFFICES ASSUME a \notin overlap, q.pc = "idle" PROVE OR!Settled(a)'
    BY <1>4
  <2>1. r.op \in {"add", "remove"}
    BY <1>6, <1>11 DEF OR!Ops
  <2>2. OR!EdgesRight(a) /\ (a \notin degraded => asked[a] = r.copy)
    BY <1>2, <1>4, <1>5, <2>1 DEF OR!UnderWay
  <2>. QED BY <1>4, <1>5, <1>8, <1>12, <1>13, <2>1, <2>2 DEF OR!Settled, OR!EdgesRight
<1>16. a \notin overlap' /\ q.pc # "idle" => OR!UnderWay(q)'
  <2>. SUFFICES ASSUME a \notin overlap, q.pc # "idle" PROVE OR!UnderWay(q)'
    BY <1>4
  <2>1. r.op \in {"register", "update"} /\ q.pc = "link" /\ q.actor = a /\ q.copy = r.copy
    BY <1>6, <1>11 DEF OR!Ops
  <2>2. OR!Settled(a)
    BY <1>2, <1>4, <1>5, <2>1 DEF OR!UnderWay
  <2>. SUFFICES ASSUME a \notin degraded
                PROVE  node'[a] = r.copy /\ asked'[a] = r.copy /\ OR!TeamsOf(a)' \subseteq r.copy.teams
    BY <1>4, <2>1 DEF OR!UnderWay
  <2>3. node[a] = asked[a] /\ OR!TeamsOf(a) = asked[a].teams
    BY <1>5, <2>2 DEF OR!Settled, OR!EdgesRight
  <2>4. CASE r.op = "register"
    <3>1. ~node[a].stored
      BY <1>2, <1>4, <1>5, <2>4 DEF OR!UnderWay
    <3>. QED BY <1>5, <1>8, <1>12, <1>13, <2>4, <3>1
  <2>5. CASE r.op = "update"
    <3>1. r.copy = [node[a] EXCEPT !.level = r.level]
      BY <1>2, <1>4, <1>5, <2>5 DEF OR!UnderWay
    <3>2. r.copy.teams = asked[a].teams /\ w = r.copy
      BY <1>5, <1>8, <2>3, <2>5, <3>1 DEF OR!NodeType
    <3>. QED BY <1>5, <1>12, <1>13, <2>3, <3>2
  <2>. QED BY <2>1, <2>4, <2>5
<1>17. StepOf(c, a, r.copy, w, q)
  BY <1>1, <1>2, <1>4, <1>5, <1>6, <1>10, <1>11, <1>12, <1>14, <1>15, <1>16 DEF StepOf, OR!Ops
<1>. QED BY <1>5, <1>6, <1>9, <1>11, <1>17, OneActor

LEMMA FailNodeSound ==
  ASSUME OR!IInv, NEW c \in Calls, OR!FailNode(c) PROVE OR!IInv'
<1>1. PICK r : r = request[c]
  OBVIOUS
<1>2. PICK a : a = r.actor
  OBVIOUS
<1>3. PICK q : q = OR!NoRequest
  OBVIOUS
<1>4. /\ r.pc \in {"read", "write"}
      /\ degraded' = IF r.op \in {"add", "remove"} THEN degraded \cup {a} ELSE degraded
      /\ request' = [request EXCEPT ![c] = q]
      /\ UNCHANGED <<node, edges, begun, asked, overlap, spread>>
  BY <1>1, <1>2, <1>3 DEF OR!FailNode
<1>5. /\ r \in OR!RequestType /\ a \in Actors /\ OR!WellFormed(r)
      /\ a \notin overlap => OR!UnderWay(r)
      /\ \A d \in Calls : d # c /\ request[d].pc # "idle" /\ request[d].actor = a => a \in overlap
      /\ node[a] \in OR!NodeType /\ asked[a] \in OR!NodeType
      /\ edges \subseteq Actors \X Teams /\ spread \subseteq degraded
      /\ ~node[a].stored => node[a] = OR!NoNode /\ asked[a] = OR!NoNode /\ OR!TeamsOf(a) = {}
  BY <1>1, <1>2, <1>4, RequestKnows
<1>6. q \in OR!RequestType /\ q.pc = "idle"
  BY <1>3, NoRequestIdle
<1>7. node' = [node EXCEPT ![a] = node[a]] /\ asked' = [asked EXCEPT ![a] = asked[a]]
  BY <1>4 DEF OR!IInv
<1>8. \A b \in Actors : OR!TeamsOf(b)' = OR!TeamsOf(b)
  BY <1>4 DEF OR!TeamsOf
<1>9. OR!WellFormed(q)'
  BY <1>6 DEF OR!WellFormed
<1>10. a \notin overlap' => OR!Settled(a)'
  <2>. SUFFICES ASSUME a \notin overlap PROVE OR!Settled(a)'
    BY <1>4
  <2>1. OR!EdgesRight(a) /\ (r.op \notin {"add", "remove"} => OR!Settled(a))
    BY <1>2, <1>4, <1>5 DEF OR!UnderWay
  <2>2. OR!EdgesRight(a)'
    BY <1>4, <1>5, <1>8, <2>1 DEF OR!EdgesRight
  <2>3. a \notin degraded' => OR!Settled(a) /\ a \notin degraded
    BY <1>4, <2>1
  <2>. QED BY <1>4, <2>2, <2>3 DEF OR!Settled
<1>11. degraded \subseteq degraded' /\ degraded' \subseteq degraded \cup {a} /\ spread' \subseteq degraded'
  BY <1>4, <1>5
<1>12. StepOf(c, a, node[a], asked[a], q)
  BY <1>1, <1>2, <1>4, <1>5, <1>6, <1>7, <1>8, <1>9, <1>10, <1>11 DEF StepOf
<1>. QED BY <1>5, <1>6, <1>12, OneActor

LEMMA LinkSound ==
  ASSUME OR!IInv, NEW c \in Calls, OR!Link(c) PROVE OR!IInv'
<1>1. PICK r : r = request[c]
  OBVIOUS
<1>2. PICK a : a = r.actor
  OBVIOUS
<1>3. PICK q : q = OR!NoRequest
  OBVIOUS
<1>4. PICK made \in SUBSET r.copy.teams :
        /\ r.pc = "link"
        /\ edges' = edges \cup ({a} \X made)
        /\ LET half == made # r.copy.teams \/ a \in degraded
           IN  /\ degraded' = IF half THEN degraded \cup {a} ELSE degraded
               /\ spread' = IF half THEN spread \cup {a} ELSE spread
        /\ request' = [request EXCEPT ![c] = q]
        /\ UNCHANGED <<node, begun, asked, overlap>>
  BY <1>1, <1>2, <1>3 DEF OR!Link
<1>5. /\ r \in OR!RequestType /\ a \in Actors /\ OR!WellFormed(r)
      /\ a \notin overlap => OR!UnderWay(r)
      /\ \A d \in Calls : d # c /\ request[d].pc # "idle" /\ request[d].actor = a => a \in overlap
      /\ node[a] \in OR!NodeType /\ asked[a] \in OR!NodeType
      /\ edges \subseteq Actors \X Teams /\ spread \subseteq degraded
  BY <1>1, <1>2, <1>4, RequestKnows
<1>6. q \in OR!RequestType /\ q.pc = "idle"
  BY <1>3, NoRequestIdle
<1>7. node' = [node EXCEPT ![a] = node[a]] /\ asked' = [asked EXCEPT ![a] = asked[a]]
  BY <1>4 DEF OR!IInv
<1>8. made \subseteq Teams /\ r.copy.teams \subseteq Teams /\ node[a].stored
  BY <1>2, <1>4, <1>5 DEF OR!RequestType, OR!NodeType, OR!WellFormed
<1>9. /\ edges' \subseteq Actors \X Teams
      /\ \A b \in Actors : b # a => OR!TeamsOf(b)' = OR!TeamsOf(b)
      /\ OR!TeamsOf(a)' = OR!TeamsOf(a) \cup made
  BY <1>4, <1>5, <1>8 DEF OR!TeamsOf
<1>10. OR!WellFormed(q)'
  BY <1>6 DEF OR!WellFormed
<1>11. a \notin overlap' => OR!Settled(a)'
  <2>. SUFFICES ASSUME a \notin overlap PROVE OR!Settled(a)'
    BY <1>4
  <2>1. CASE made # r.copy.teams \/ a \in degraded
    <3>1. a \in spread' /\ a \in degraded'
      BY <1>4, <2>1
    <3>. QED BY <3>1 DEF OR!Settled, OR!EdgesRight
  <2>2. CASE ~(made # r.copy.teams \/ a \in degraded)
    <3>1. node[a] = r.copy /\ asked[a] = r.copy /\ OR!TeamsOf(a) \subseteq r.copy.teams
      BY <1>2, <1>4, <1>5, <2>2 DEF OR!UnderWay
    <3>. QED BY <1>4, <1>9, <2>2, <3>1 DEF OR!Settled, OR!EdgesRight
  <2>. QED BY <2>1, <2>2
<1>12. /\ degraded \subseteq degraded' /\ degraded' \subseteq degraded \cup {a}
       /\ spread \subseteq spread' /\ spread' \subseteq spread \cup {a} /\ spread' \subseteq degraded'
  BY <1>4, <1>5
<1>13. StepOf(c, a, node[a], asked[a], q)
  BY <1>1, <1>2, <1>4, <1>5, <1>6, <1>7, <1>8, <1>9, <1>10, <1>11, <1>12 DEF StepOf
<1>. QED BY <1>5, <1>6, <1>13, OneActor

LEMMA OrganisationStep == ASSUME OR!IInv, OR!OrganisationNext PROVE OR!IInv'
BY BeginSound, EdgeSound, OrgReadSound, OrgWriteSound, FailNodeSound, LinkSound
   DEF OR!OrganisationNext

OrganisationInv == part = "organisation" => OR!IInv

LEMMA OrganisationStutters ==
  ASSUME OrganisationInv, UNCHANGED <<part, organisationVars>> PROVE OrganisationInv'
BY DEF OrganisationInv, organisationVars, OR!IInv, OR!UnknownHasNothing, OR!WellFormed,
       OR!Quiet, OR!Settled, OR!EdgesRight, OR!UnderWay, OR!TeamsOf, OR!TeamsAfter

LEMMA OrganisationKept ==
  ASSUME OrganisationInv, [PartsNext]_allVars PROVE OrganisationInv'
<1>1. CASE part = "organisation" /\ OR!OrganisationNext /\ Others
  BY <1>1, OrganisationStep DEF OrganisationInv, Others
<1>2. CASE part # "organisation" /\ UNCHANGED part
  BY <1>2 DEF OrganisationInv
<1>3. CASE UNCHANGED allVars
  BY <1>3, OrganisationStutters DEF allVars
<1>. QED BY <1>1, <1>2, <1>3 DEF PartsNext, Others

\* An actor whose requests did not overlap is in the teams they asked for, by its node,
\* which the authority checks read, as by its edges (admin.py and runtime/actors).
THEOREM MembershipIsAgreed == PartsSpec => []MembershipAgrees
<1>1. PartsInit => OrganisationInv
  BY OrganisationInitSound DEF PartsInit, OrganisationInv
<1>2. OrganisationInv /\ [PartsNext]_allVars => OrganisationInv'
  BY OrganisationKept
<1>3. OrganisationInv => MembershipAgrees
  BY DEF OrganisationInv, MembershipAgrees, OR!IInv, OR!MembershipAgrees, OR!Settled, OR!EdgesRight
<1>. QED BY <1>1, <1>2, <1>3, PTL DEF PartsSpec
------------------------------------------------------------------------------
(* Hitl: the key of a pending request runs out before its token, and a callback
   that is under way is about a request somebody was asked to decide. *)

Humans == {q1, q2}
CallbackType == [at : {"idle", "patch", "write", "done"}, r : Humans \cup {None},
                 button : HI!Buttons \cup {None}]
StatusType == {None, "pending", "timed_out"} \cup HI!Buttons
PostType == [at : {"none", "stored", "post", "sent", "exhausted"}, attempts : Nat]
HeardType == {None, "ok", "expired", "not found", "unreachable"}

LEMMA HitlTyped ==
  HI!IInv <=>
    /\ status \in [Humans -> StatusType]
    /\ left \in [Humans -> Nat] /\ age \in [Humans -> Nat]
    /\ post \in [Humans -> PostType]
    /\ told \subseteq Humans
    /\ call \in [Callbacks -> CallbackType]
    /\ heard \in [Callbacks -> HeardType]
    /\ written \in [Humans -> SUBSET HI!Buttons]
    /\ \A r \in Humans : HI!TokenOutlives(r) /\ HI!Unborn(r)
    /\ \A c \in Callbacks : HI!Pressed(c)
    /\ HI!DecidedAsPressed
BY DEF HI!IInv, Humans, CallbackType, StatusType, PostType, HeardType

LEMMA HitlTypedNext ==
  ASSUME status' \in [Humans -> StatusType], left' \in [Humans -> Nat], age' \in [Humans -> Nat],
         post' \in [Humans -> PostType], told' \subseteq Humans,
         call' \in [Callbacks -> CallbackType], heard' \in [Callbacks -> HeardType],
         written' \in [Humans -> SUBSET HI!Buttons],
         \A r \in Humans : HI!TokenOutlives(r)' /\ HI!Unborn(r)',
         \A c \in Callbacks : HI!Pressed(c)', HI!DecidedAsPressed'
  PROVE  HI!IInv'
BY DEF HI!IInv, Humans, CallbackType, StatusType, PostType, HeardType

LEMMA HitlInitSound == ASSUME HI!HitlInit PROVE HI!IInv
<1>. USE PartsAssumption DEF HI!HitlAssumption
<1>1. HI!Uncalled \in CallbackType /\ HI!Uncalled.at = "idle" /\ HI!Uncalled.button = None
  BY DEF HI!Uncalled, CallbackType
<1>2. [at |-> "none", attempts |-> 0] \in PostType
  BY DEF PostType
<1>3. None \notin HI!Buttons /\ None # "pending"
  BY DEF HI!Buttons
<1>. QED BY <1>1, <1>2, <1>3, HitlTyped
         DEF HI!HitlInit, Humans, StatusType, HeardType, HI!TokenOutlives, HI!Unborn, HI!Pressed,
             HI!DecidedAsPressed

LEMMA CreateSound == ASSUME HI!IInv, NEW r \in Humans, HI!Create(r) PROVE HI!IInv'
<1>. USE PartsAssumption DEF HI!HitlAssumption
<1>1. /\ post[r].at = "none"
      /\ status' = [status EXCEPT ![r] = "pending"]
      /\ left' = [left EXCEPT ![r] = Timeout + Grace]
      /\ post' = [post EXCEPT ![r].at = "stored"]
      /\ UNCHANGED <<age, told, call, heard, written, lapsed, troubles>>
  BY DEF HI!Create
<1>2. Timeout + Grace \in Nat /\ Timeout + Grace > 0
  OBVIOUS
<1>3. post[r] \in PostType /\ age[r] = 0 /\ post[r].attempts = 0 /\ r \notin told
  BY <1>1, HitlTyped DEF HI!Unborn
<1>4. /\ post' \in [Humans -> PostType] /\ post'[r].at = "stored" /\ post'[r].attempts = 0
      /\ \A q \in Humans : q # r => post'[q] = post[q]
  BY <1>1, <1>3, HitlTyped DEF PostType
<1>5. /\ status' \in [Humans -> StatusType] /\ status'[r] = "pending"
      /\ left' \in [Humans -> Nat] /\ left'[r] = Timeout + Grace
      /\ \A q \in Humans : q # r => status'[q] = status[q] /\ left'[q] = left[q]
  BY <1>1, <1>2, HitlTyped DEF StatusType
<1>6. \A q \in Humans : HI!TokenOutlives(q)' /\ HI!Unborn(q)'
  BY <1>1, <1>2, <1>3, <1>4, <1>5, HitlTyped DEF HI!TokenOutlives, HI!Unborn
<1>7. \A c \in Callbacks : HI!Pressed(c)'
  <2>. SUFFICES ASSUME NEW c \in Callbacks PROVE HI!Pressed(c)'
    OBVIOUS
  <2>1. HI!Pressed(c) /\ call[c] \in CallbackType
    BY HitlTyped
  <2>2. call[c].at # "idle" => call[c].r \in Humans /\ call[c].r # r
    BY <1>3, <2>1, HitlTyped DEF HI!Pressed
  <2>. QED BY <1>1, <1>5, <2>1, <2>2 DEF HI!Pressed, CallbackType
<1>8. HI!DecidedAsPressed'
  <2>1. "pending" \notin HI!Buttons
    BY DEF HI!Buttons
  <2>. QED BY <1>1, <1>5, <2>1, HitlTyped DEF HI!DecidedAsPressed, Humans
<1>. QED BY <1>1, <1>4, <1>5, <1>6, <1>7, <1>8, HitlTyped, HitlTypedNext

LEMMA SignSound == ASSUME HI!IInv, NEW r \in Humans, HI!Sign(r) PROVE HI!IInv'
<1>. USE PartsAssumption DEF HI!HitlAssumption
<1>1. /\ post[r].at = "stored"
      /\ post' = [post EXCEPT ![r] = [at |-> "post", attempts |-> 1]]
      /\ age' = [age EXCEPT ![r] = 0]
      /\ UNCHANGED <<status, left, due, written, lapsed, told, call, heard, troubles>>
  BY DEF HI!Sign, HI!store
<1>2. age[r] = 0
  BY <1>1, HitlTyped DEF HI!Unborn
<1>3. [at |-> "post", attempts |-> 1] \in PostType
  BY DEF PostType
<1>4. /\ post' \in [Humans -> PostType] /\ post'[r].at = "post"
      /\ \A q \in Humans : q # r => post'[q] = post[q]
  BY <1>1, <1>3, HitlTyped
<1>5. age' = age
  BY <1>1, <1>2, HitlTyped
<1>6. \A q \in Humans : HI!TokenOutlives(q)' /\ HI!Unborn(q)'
  BY <1>1, <1>4, <1>5, HitlTyped DEF HI!TokenOutlives, HI!Unborn
<1>7. \A c \in Callbacks : HI!Pressed(c)'
  BY <1>1, HitlTyped DEF HI!Pressed
<1>8. HI!DecidedAsPressed'
  BY <1>1, HitlTyped DEF HI!DecidedAsPressed
<1>. QED BY <1>1, <1>4, <1>5, <1>6, <1>7, <1>8, HitlTyped, HitlTypedNext

LEMMA PostSound == ASSUME HI!IInv, NEW r \in Humans, HI!Post(r) PROVE HI!IInv'
<1>. USE PartsAssumption DEF HI!HitlAssumption
<1>1. PICK taken \in BOOLEAN, answered \in BOOLEAN :
        /\ post[r].at = "post"
        /\ told' = IF taken THEN told \cup {r} ELSE told
        /\ post' = [post EXCEPT ![r] =
             [at |-> IF answered THEN "sent"
                     ELSE IF @.attempts <= Retries THEN "post" ELSE "exhausted",
              attempts |-> IF answered \/ @.attempts > Retries THEN @.attempts
                           ELSE @.attempts + 1]]
        /\ UNCHANGED <<status, left, due, written, lapsed, age, call, heard>>
  BY DEF HI!Post, HI!store
<1>2. PICK at : at = IF answered THEN "sent"
                    ELSE IF post[r].attempts <= Retries THEN "post" ELSE "exhausted"
  OBVIOUS
<1>3. PICK n : n = IF answered \/ post[r].attempts > Retries THEN post[r].attempts
                  ELSE post[r].attempts + 1
  OBVIOUS
<1>4. post[r].attempts \in Nat
  BY HitlTyped DEF PostType
<1>5. at \in {"sent", "post", "exhausted"} /\ n \in Nat
  BY <1>2, <1>3, <1>4
<1>6. post' = [post EXCEPT ![r] = [at |-> at, attempts |-> n]]
  BY <1>1, <1>2, <1>3
<1>7. [at |-> at, attempts |-> n] \in PostType
  BY <1>5 DEF PostType
<1>8. /\ post' \in [Humans -> PostType] /\ post'[r].at \notin {"none", "stored"}
      /\ \A q \in Humans : q # r => post'[q] = post[q]
  BY <1>5, <1>6, <1>7, HitlTyped
<1>9. told' \subseteq Humans /\ told \subseteq told' /\ told' \subseteq told \cup {r}
  BY <1>1, HitlTyped
<1>10. \A q \in Humans : HI!TokenOutlives(q)' /\ HI!Unborn(q)'
  BY <1>1, <1>8, <1>9, HitlTyped DEF HI!TokenOutlives, HI!Unborn
<1>11. \A c \in Callbacks : HI!Pressed(c)'
  BY <1>1, <1>9, HitlTyped DEF HI!Pressed
<1>12. HI!DecidedAsPressed'
  BY <1>1, <1>9, HitlTyped DEF HI!DecidedAsPressed
<1>. QED BY <1>1, <1>8, <1>9, <1>10, <1>11, <1>12, HitlTyped, HitlTypedNext

LEMMA TimeOutSound == ASSUME HI!IInv, NEW r \in Humans, HI!TimeOut(r) PROVE HI!IInv'
<1>. USE PartsAssumption DEF HI!HitlAssumption
<1>1. /\ status[r] = "pending"
      /\ status' = [status EXCEPT ![r] = "timed_out"]
      /\ left' = [left EXCEPT ![r] = ResolvedTtl]
      /\ UNCHANGED <<due, post, age, told, call, heard, written, lapsed, troubles>>
  BY DEF HI!TimeOut
<1>2. /\ status' \in [Humans -> StatusType] /\ status'[r] = "timed_out"
      /\ left' \in [Humans -> Nat]
      /\ \A q \in Humans : q # r => status'[q] = status[q] /\ left'[q] = left[q]
  BY <1>1, HitlTyped DEF StatusType
<1>3. \A q \in Humans : HI!TokenOutlives(q)' /\ HI!Unborn(q)'
  BY <1>1, <1>2, HitlTyped DEF HI!TokenOutlives, HI!Unborn
<1>4. ASSUME NEW c \in Callbacks PROVE HI!Pressed(c)'
  <2>1. HI!Pressed(c) /\ call[c] \in CallbackType
    BY HitlTyped
  <2>2. call[c].at # "idle" => call[c].r \in Humans
    BY <2>1, HitlTyped DEF HI!Pressed
  <2>. QED BY <1>1, <1>2, <2>1, <2>2 DEF HI!Pressed, CallbackType
<1>5. HI!DecidedAsPressed'
  <2>1. "timed_out" \notin HI!Buttons
    BY DEF HI!Buttons
  <2>. QED BY <1>1, <1>2, <2>1, HitlTyped DEF HI!DecidedAsPressed, Humans
<1>. QED BY <1>1, <1>2, <1>3, <1>4, <1>5, HitlTyped, HitlTypedNext

LEMMA TickKeepsHumans == ASSUME HI!IInv, HI!Tick PROVE HI!IInv'
<1>. USE PartsAssumption DEF HI!HitlAssumption
<1>1. /\ left' = [r \in Humans |-> HI!Less(left[r])]
      /\ status' = [r \in Humans |-> IF left'[r] = 0 THEN None ELSE status[r]]
      /\ age' = [r \in Humans |->
           IF post[r].attempts = 0 \/ age[r] > TokenLife THEN age[r] ELSE age[r] + 1]
      /\ UNCHANGED <<post, told, call, heard, written, lapsed, troubles>>
  BY DEF HI!Tick, Humans
<1>2. \A r \in Humans : left[r] \in Nat /\ age[r] \in Nat
  BY HitlTyped
<1>3. left' \in [Humans -> Nat]
      /\ \A r \in Humans : left'[r] = IF left[r] = 0 THEN 0 ELSE left[r] - 1
  BY <1>1, <1>2 DEF HI!Less
<1>4. age' \in [Humans -> Nat] /\ \A r \in Humans : age'[r] <= age[r] + 1
      /\ (post[r].attempts = 0 => age'[r] = age[r])
  BY <1>1, <1>2
<1>5. status' \in [Humans -> StatusType]
      /\ \A r \in Humans : status'[r] = None \/ (status'[r] = status[r] /\ left'[r] > 0)
  BY <1>1, <1>3, HitlTyped DEF StatusType
<1>6. ASSUME NEW r \in Humans PROVE HI!TokenOutlives(r)' /\ HI!Unborn(r)'
  <2>1. HI!TokenOutlives(r) /\ HI!Unborn(r)
    BY HitlTyped
  <2>2. HI!Unborn(r)'
    BY <1>1, <1>4, <1>5, <2>1 DEF HI!Unborn
  <2>3. CASE status'[r] = None
    BY <2>2, <2>3 DEF HI!TokenOutlives
  <2>4. CASE status'[r] = status[r] /\ left'[r] > 0
    <3>1. left[r] > 0 /\ left'[r] = left[r] - 1
      BY <1>2, <1>3, <2>4
    <3>2. age'[r] <= age[r] + 1 /\ age'[r] \in Nat
      BY <1>4
    <3>. QED BY <1>2, <2>1, <2>2, <2>4, <3>1, <3>2 DEF HI!TokenOutlives
  <2>. QED BY <1>5, <2>3, <2>4
<1>7. ASSUME NEW c \in Callbacks PROVE HI!Pressed(c)'
  <2>1. HI!Pressed(c) /\ call[c] \in CallbackType
    BY HitlTyped
  <2>2. call[c].at # "idle" => call[c].r \in Humans
    BY <2>1, HitlTyped DEF HI!Pressed
  <2>. QED BY <1>1, <1>5, <2>1, <2>2 DEF HI!Pressed, CallbackType
<1>8. HI!DecidedAsPressed'
  <2>1. None \notin HI!Buttons
    BY DEF HI!Buttons
  <2>. QED BY <1>1, <1>5, <2>1, HitlTyped DEF HI!DecidedAsPressed, Humans
<1>. QED BY <1>1, <1>3, <1>4, <1>5, <1>6, <1>7, <1>8, HitlTyped, HitlTypedNext

LEMMA PressSound ==
  ASSUME HI!IInv, NEW c \in Callbacks, NEW r \in Humans, NEW b \in HI!Buttons, HI!Press(c, r, b)
  PROVE  HI!IInv'
<1>. USE PartsAssumption DEF HI!HitlAssumption
<1>1. PICK at : at = IF HI!TokenExpired(r) THEN "done" ELSE "patch"
  OBVIOUS
<1>2. /\ call[c].at = "idle" /\ r \in told
      /\ call' = [call EXCEPT ![c] = [at |-> at, r |-> r, button |-> b]]
      /\ heard' = heard \/ (age[r] > TokenLife /\ heard' = [heard EXCEPT ![c] = IF @ = None THEN "expired" ELSE @])
      /\ UNCHANGED <<status, left, due, written, lapsed, post, age, told, troubles>>
  BY <1>1 DEF HI!Press, HI!store, HI!Answer, HI!TokenExpired
<1>3. at \in {"done", "patch"}
  BY <1>1
<1>4. [at |-> at, r |-> r, button |-> b] \in CallbackType
  BY <1>3 DEF CallbackType
<1>5. /\ call' \in [Callbacks -> CallbackType] /\ call'[c] = [at |-> at, r |-> r, button |-> b]
      /\ \A d \in Callbacks : d # c => call'[d] = call[d]
  BY <1>2, <1>4, HitlTyped
<1>6. heard[c] = None
  BY <1>2, HitlTyped DEF HI!Pressed
<1>7. /\ heard' \in [Callbacks -> HeardType]
      /\ heard'[c] = None \/ (heard'[c] = "expired" /\ age[r] > TokenLife)
      /\ \A d \in Callbacks : d # c => heard'[d] = heard[d]
  BY <1>2, <1>6, HitlTyped DEF HeardType
<1>8. age[r] > TokenLife => status[r] # "pending"
  <2>1. HI!TokenOutlives(r) /\ left[r] \in Nat /\ age[r] \in Nat
    BY HitlTyped
  <2>. QED BY <2>1 DEF HI!TokenOutlives
<1>9. \A q \in Humans : HI!TokenOutlives(q)' /\ HI!Unborn(q)'
  BY <1>2, HitlTyped DEF HI!TokenOutlives, HI!Unborn
<1>10. ASSUME NEW d \in Callbacks PROVE HI!Pressed(d)'
  <2>1. CASE d = c
    BY <1>2, <1>3, <1>5, <1>7, <1>8, <2>1 DEF HI!Pressed
  <2>2. CASE d # c
    BY <1>2, <1>5, <1>7, <2>2, HitlTyped DEF HI!Pressed
  <2>. QED BY <2>1, <2>2
<1>11. HI!DecidedAsPressed'
  <2>. SUFFICES ASSUME NEW q \in Humans, status[q] \in HI!Buttons
                PROVE  q \in told /\ \E d \in Callbacks : call'[d].r = q /\ call'[d].button = status[q]
    BY <1>2 DEF HI!DecidedAsPressed, Humans
  <2>1. PICK d \in Callbacks : call[d].r = q /\ call[d].button = status[q]
    BY HitlTyped DEF HI!DecidedAsPressed, Humans
  <2>2. d # c
    BY <1>2, <2>1, HitlTyped DEF HI!Pressed, HI!Buttons
  <2>. QED BY <1>2, <1>5, <2>1, <2>2, HitlTyped DEF HI!DecidedAsPressed, Humans
<1>. QED BY <1>2, <1>5, <1>7, <1>9, <1>10, <1>11, HitlTyped, HitlTypedNext

LEMMA GiveUpSound == ASSUME HI!IInv, NEW c \in Callbacks, HI!GiveUp(c) PROVE HI!IInv'
<1>. USE PartsAssumption DEF HI!HitlAssumption
<1>1. /\ call[c].at \in {"patch", "write"} /\ heard[c] = None
      /\ heard' = [heard EXCEPT ![c] = IF @ = None THEN "unreachable" ELSE @]
      /\ call' = call \/ call' = [call EXCEPT ![c].at = "done"]
      /\ UNCHANGED <<status, left, due, written, lapsed, post, age, told>>
  BY DEF HI!GiveUp, HI!store, HI!Answer
<1>2. /\ call' \in [Callbacks -> CallbackType] /\ call'[c].at # "idle"
      /\ \A d \in Callbacks : call'[d].r = call[d].r /\ call'[d].button = call[d].button
      /\ \A d \in Callbacks : d # c => call'[d] = call[d]
  <2>1. CASE call' = call
    BY <1>1, <2>1, HitlTyped DEF CallbackType
  <2>2. CASE call' = [call EXCEPT ![c].at = "done"]
    BY <2>2, HitlTyped DEF CallbackType
  <2>. QED BY <1>1, <2>1, <2>2
<1>3. /\ heard' \in [Callbacks -> HeardType] /\ heard'[c] = "unreachable"
      /\ \A d \in Callbacks : d # c => heard'[d] = heard[d]
  BY <1>1, HitlTyped DEF HeardType
<1>4. \A q \in Humans : HI!TokenOutlives(q)' /\ HI!Unborn(q)'
  BY <1>1, HitlTyped DEF HI!TokenOutlives, HI!Unborn
<1>5. ASSUME NEW d \in Callbacks PROVE HI!Pressed(d)'
  <2>1. CASE d = c
    BY <1>1, <1>2, <1>3, <2>1, HitlTyped DEF HI!Pressed
  <2>2. CASE d # c
    BY <1>1, <1>2, <1>3, <2>2, HitlTyped DEF HI!Pressed
  <2>. QED BY <2>1, <2>2
<1>6. HI!DecidedAsPressed'
  BY <1>1, <1>2, HitlTyped DEF HI!DecidedAsPressed
<1>. QED BY <1>1, <1>2, <1>3, <1>4, <1>5, <1>6, HitlTyped, HitlTypedNext

LEMMA ReadSound == ASSUME HI!IInv, NEW c \in Callbacks, HI!Read(c) PROVE HI!IInv'
<1>. USE PartsAssumption DEF HI!HitlAssumption
<1>1. PICK at : at = IF status[call[c].r] # None /\ AgentOf[call[c].r] = HI!SentAgent
                     THEN "write" ELSE "done"
  OBVIOUS
<1>2. /\ call[c].at = "patch" /\ call' = [call EXCEPT ![c].at = at]
      /\ heard' = heard \/ heard' = [heard EXCEPT ![c] = IF @ = None THEN "not found" ELSE @]
      /\ UNCHANGED <<status, left, due, written, lapsed, post, age, told>>
  BY <1>1 DEF HI!Read, HI!store, HI!Answer
<1>3. at \in {"write", "done"}
  BY <1>1
<1>4. /\ call' \in [Callbacks -> CallbackType] /\ call'[c].at # "idle"
      /\ \A d \in Callbacks : call'[d].r = call[d].r /\ call'[d].button = call[d].button
      /\ \A d \in Callbacks : d # c => call'[d] = call[d]
  BY <1>2, <1>3, HitlTyped DEF CallbackType
<1>5. /\ heard' \in [Callbacks -> HeardType] /\ heard'[c] \in {heard[c], "not found"}
      /\ \A d \in Callbacks : d # c => heard'[d] = heard[d]
  BY <1>2, HitlTyped DEF HeardType
<1>6. \A q \in Humans : HI!TokenOutlives(q)' /\ HI!Unborn(q)'
  BY <1>2, HitlTyped DEF HI!TokenOutlives, HI!Unborn
<1>7. ASSUME NEW d \in Callbacks PROVE HI!Pressed(d)'
  <2>1. CASE d = c
    <3>1. HI!Pressed(c)
      BY HitlTyped
    <3>2. call'[c].r = call[c].r /\ call'[c].button = call[c].button /\ call'[c].at # "idle"
      BY <1>4
    <3>3. /\ call'[c].r \in told' /\ call'[c].button \in HI!Buttons
          /\ heard[c] = "ok" => call'[c].button \in written'[call'[c].r] \/ c \in lapsed'
          /\ heard[c] = "expired" => status'[call'[c].r] # "pending"
      <4>1. /\ call[c].r \in told /\ call[c].button \in HI!Buttons
            /\ heard[c] = "ok" => call[c].button \in written[call[c].r] \/ c \in lapsed
            /\ heard[c] = "expired" => status[call[c].r] # "pending"
        BY <1>2, <3>1 DEF HI!Pressed
      <4>2. told' = told /\ written' = written /\ lapsed' = lapsed /\ status' = status
        BY <1>2
      <4>. QED BY <3>2, <4>1, <4>2
    <3>4. heard'[c] = "ok" \/ heard'[c] = "expired" => heard'[c] = heard[c]
      BY <1>5
    <3>. QED BY <2>1, <3>2, <3>3, <3>4 DEF HI!Pressed
  <2>2. CASE d # c
    BY <1>2, <1>4, <1>5, <2>2, HitlTyped DEF HI!Pressed
  <2>. QED BY <2>1, <2>2
<1>8. HI!DecidedAsPressed'
  BY <1>2, <1>4, HitlTyped DEF HI!DecidedAsPressed
<1>. QED BY <1>2, <1>4, <1>5, <1>6, <1>7, <1>8, HitlTyped, HitlTypedNext

LEMMA WriteSound == ASSUME HI!IInv, NEW c \in Callbacks, HI!Write(c) PROVE HI!IInv'
<1>. USE PartsAssumption DEF HI!HitlAssumption
<1>1. PICK r : r = call[c].r
  OBVIOUS
<1>2. PICK b : b = call[c].button
  OBVIOUS
<1>3. PICK failed \in BOOLEAN :
        /\ call[c].at = "write"
        /\ IF ~failed /\ left[r] > 0
           THEN /\ status' = [status EXCEPT ![r] = b]
                /\ written' = [written EXCEPT ![r] = @ \cup {b}]
                /\ UNCHANGED lapsed
           ELSE /\ lapsed' = IF failed THEN lapsed ELSE lapsed \cup {c}
                /\ UNCHANGED <<status, written>>
        /\ heard' = [heard EXCEPT ![c] = IF @ = None THEN HI!AnswerTo(failed) ELSE @]
        /\ call' = [call EXCEPT ![c].at = "done"]
        /\ UNCHANGED <<left, due, post, age, told>>
  BY <1>1, <1>2 DEF HI!Write, HI!Answer, HI!SentStatus
<1>4. HI!Pressed(c) /\ call[c] \in CallbackType
  BY HitlTyped
<1>5. r \in told /\ r \in Humans /\ b \in HI!Buttons
  BY <1>1, <1>2, <1>3, <1>4, HitlTyped DEF HI!Pressed
<1>6. /\ call' \in [Callbacks -> CallbackType] /\ call'[c].at # "idle"
      /\ \A d \in Callbacks : call'[d].r = call[d].r /\ call'[d].button = call[d].button
      /\ \A d \in Callbacks : d # c => call'[d] = call[d]
  BY <1>3, HitlTyped DEF CallbackType
<1>7. /\ status' \in [Humans -> StatusType] /\ written' \in [Humans -> SUBSET HI!Buttons]
      /\ \A q \in Humans : status'[q] = status[q] \/ (q = r /\ status'[q] = b)
      /\ \A q \in Humans : written[q] \subseteq written'[q]
      /\ lapsed \subseteq lapsed'
      /\ failed \/ b \in written'[r] \/ c \in lapsed'
  BY <1>3, <1>5, HitlTyped DEF StatusType
<1>8. /\ heard' \in [Callbacks -> HeardType]
      /\ heard'[c] = heard[c] \/ heard'[c] = "unreachable" \/ (heard'[c] = "ok" /\ ~failed)
      /\ \A d \in Callbacks : d # c => heard'[d] = heard[d]
  <2>1. HI!AnswerTo(failed) \in {"ok", "unreachable"} /\ (HI!AnswerTo(failed) = "ok" => ~failed)
    BY DEF HI!AnswerTo
  <2>. QED BY <1>3, <2>1, HitlTyped DEF HeardType
<1>9. b # "pending" /\ b # None
  BY <1>5 DEF HI!Buttons
<1>10. \A q \in Humans : HI!TokenOutlives(q)' /\ HI!Unborn(q)'
  BY <1>3, <1>5, <1>7, <1>9, HitlTyped DEF HI!TokenOutlives, HI!Unborn
<1>11. ASSUME NEW d \in Callbacks PROVE HI!Pressed(d)'
  <2>1. HI!Pressed(d) /\ call[d] \in CallbackType
    BY HitlTyped
  <2>2. call[d].at # "idle" => call[d].r \in Humans
    BY <2>1, HitlTyped DEF HI!Pressed
  <2>3. CASE d = c
    BY <1>1, <1>2, <1>3, <1>5, <1>6, <1>7, <1>8, <1>9, <2>1, <2>2, <2>3 DEF HI!Pressed
  <2>4. CASE d # c
    <3>1. call[d].at = "idle" => heard[d] = None
      BY <2>1 DEF HI!Pressed
    <3>. QED BY <1>3, <1>5, <1>6, <1>7, <1>8, <1>9, <2>1, <2>2, <2>4, <3>1 DEF HI!Pressed
  <2>. QED BY <2>3, <2>4
<1>12. HI!DecidedAsPressed'
  BY <1>1, <1>2, <1>3, <1>5, <1>6, <1>7, HitlTyped DEF HI!DecidedAsPressed, Humans
<1>. QED BY <1>3, <1>6, <1>7, <1>8, <1>10, <1>11, <1>12, HitlTyped, HitlTypedNext

LEMMA HitlStep == ASSUME HI!IInv, HI!HitlNext PROVE HI!IInv'
<1>1. \/ HI!Tick
      \/ \E r \in Humans : HI!Create(r) \/ HI!Sign(r) \/ HI!Post(r) \/ HI!TimeOut(r)
      \/ \E c \in Callbacks :
           \/ \E r \in Humans, b \in HI!Buttons : HI!Press(c, r, b)
           \/ HI!Read(c) \/ HI!Write(c) \/ HI!GiveUp(c)
  BY DEF HI!HitlNext, Humans
<1>. QED BY <1>1, TickKeepsHumans, CreateSound, SignSound, PostSound, TimeOutSound, PressSound,
            ReadSound, WriteSound, GiveUpSound

HitlInv == part = "hitl" => HI!IInv

LEMMA HitlStutters ==
  ASSUME HitlInv, UNCHANGED <<part, hitlVars>> PROVE HitlInv'
BY DEF HitlInv, hitlVars, HI!IInv, HI!TokenOutlives, HI!Unborn, HI!Pressed, HI!DecidedAsPressed

LEMMA HitlKept ==
  ASSUME HitlInv, [PartsNext]_allVars PROVE HitlInv'
<1>1. CASE part = "hitl" /\ HI!HitlNext /\ Others
  BY <1>1, HitlStep DEF HitlInv, Others
<1>2. CASE part # "hitl" /\ UNCHANGED part
  BY <1>2 DEF HitlInv
<1>3. CASE UNCHANGED allVars
  BY <1>3, HitlStutters DEF allVars
<1>. QED BY <1>1, <1>2, <1>3 DEF PartsNext, Others

\* What a human who answers an approval request is told is true: an answer that was
\* acknowledged was written, or its request had expired; only what somebody pressed is
\* ever decided; and a request that is still pending can be answered (AnswersAreTrue of
\* Hitl.tla: approval_queue.py, the middleware's router.py).
THEOREM HumansAreAnswered == PartsSpec => []AnswersAreTrue
<1>1. PartsInit => HitlInv
  BY HitlInitSound DEF PartsInit, HitlInv
<1>2. HitlInv /\ [PartsNext]_allVars => HitlInv'
  BY HitlKept
<1>3. HitlInv => AnswersAreTrue
  BY DEF HitlInv, AnswersAreTrue, HI!AnswersAreTrue, HI!AcknowledgedIsWritten, HI!DecidedAsPressed, HI!PendingAnswerable, HI!Pressed, HI!IInv
<1>. QED BY <1>1, <1>2, <1>3, PTL DEF PartsSpec
------------------------------------------------------------------------------
(* Artifacts: an artifact id keeps its content. *)

BatchType == [pc : {"idle", "look", "store"}, of : Outputs \cup {NoOutput}]
CopyType == [of : Outputs \cup {NoOutput}, searched : Nat]
SearchType == [pc : {"idle", "count", "done"}, id : Nat, copy : CopyType]
AssemblyType == [pc : {"idle", "replace"}, given : Seq(Outputs), made : Seq(AR!Lines)]

\* The types of the variables.
OutputsTyped ==
  /\ issued \in Nat
  /\ DOMAIN hash \subseteq 1..issued /\ hash \in [DOMAIN hash -> AR!Artifact]
  /\ batch \in [Batches -> BatchType]
  /\ \A b \in Batches : batch[b].pc # "idle" => batch[b].of \in Outputs
  /\ search \in [Searches -> SearchType]
  /\ said \in Seq(Outputs) /\ assembly \in AssemblyType
  /\ prompt \in Seq(AR!Lines) /\ gone \in BOOLEAN

MadeLeads ==
  assembly.pc = "replace" /\ ~gone => \A k \in DOMAIN assembly.made : AR!Leads(assembly.made[k])

LEMMA OutputsInv ==
  AR!IInv <=> OutputsTyped /\ AR!IdsKeepContent /\ MadeLeads /\ AR!OutputReachable
BY DEF AR!IInv, OutputsTyped, MadeLeads, BatchType, CopyType, SearchType, AssemblyType, AR!Ids

LEMMA OutputsInvNext ==
  ASSUME OutputsTyped', AR!IdsKeepContent', MadeLeads', AR!OutputReachable' PROVE AR!IInv'
BY DEF AR!IInv, OutputsTyped, MadeLeads, BatchType, CopyType, SearchType, AssemblyType, AR!Ids

LEMMA ArtifactsInitSound == ASSUME AR!ArtifactsInit PROVE AR!IInv
<1>1. /\ AR!NoBatch \in BatchType /\ AR!NoBatch.pc = "idle"
      /\ AR!NoSearch \in SearchType /\ AR!NoSearch.pc = "idle"
      /\ AR!NoAssembly \in AssemblyType /\ AR!NoAssembly.pc = "idle"
  BY DEF AR!NoBatch, AR!NoSearch, AR!NoAssembly, BatchType, CopyType, SearchType, AssemblyType
<1>2. OutputsTyped
  <2>1. hash = [i \in {} |-> {}]
    BY DEF AR!ArtifactsInit
  <2>2. DOMAIN hash = {}
    BY <2>1
  <2>3. hash \in [DOMAIN hash -> AR!Artifact]
    BY <2>1, <2>2
  <2>4. batch \in [Batches -> BatchType] /\ \A b \in Batches : batch[b].pc = "idle"
    BY <1>1 DEF AR!ArtifactsInit
  <2>5. search \in [Searches -> SearchType] /\ gone = FALSE
    BY <1>1 DEF AR!ArtifactsInit
  <2>6. issued = 0 /\ said = <<>> /\ prompt = <<>> /\ assembly \in AssemblyType
    BY <1>1 DEF AR!ArtifactsInit
  <2>7. said \in Seq(Outputs) /\ prompt \in Seq(AR!Lines)
    BY <2>6
  <2>. QED BY <2>2, <2>3, <2>4, <2>5, <2>6, <2>7 DEF OutputsTyped
<1>3. AR!IdsKeepContent
  BY <1>1 DEF AR!ArtifactsInit, AR!IdsKeepContent
<1>4. MadeLeads /\ AR!OutputReachable
  BY <1>1 DEF AR!ArtifactsInit, MadeLeads, AR!OutputReachable
<1>. QED BY <1>2, <1>3, <1>4, OutputsInv

\* Artifacts are added, and none of those there changes its content.
HashGrows ==
  /\ DOMAIN hash \subseteq DOMAIN hash'
  /\ \A i \in DOMAIN hash : hash'[i].of = hash[i].of

LEMMA GrowthKeepsLines ==
  ASSUME MadeLeads, AR!OutputReachable, HashGrows, UNCHANGED <<assembly, prompt, overlay, gone>>
  PROVE  MadeLeads' /\ AR!OutputReachable'
<1>1. MadeLeads'
  BY DEF MadeLeads, AR!Leads, HashGrows
<1>2. AR!OutputReachable'
  BY DEF AR!OutputReachable, HashGrows
<1>. QED BY <1>1, <1>2

LEMMA IngestSound ==
  ASSUME AR!IInv, NEW b \in Batches, NEW o \in Outputs, AR!Ingest(b, o) PROVE AR!IInv'
<1>1. PICK call1 : call1 = IF AR!ShouldCapture(o) THEN [pc |-> "look", of |-> o] ELSE AR!NoBatch
  OBVIOUS
<1>2. /\ said' = Append(said, o) /\ batch' = [batch EXCEPT ![b] = call1]
      /\ UNCHANGED <<hash, issued, search, assembly, prompt, overlay, gone>>
  BY <1>1 DEF AR!Ingest
<1>3. call1 \in BatchType /\ (call1.pc # "idle" => call1.of \in Outputs)
  BY <1>1 DEF BatchType, AR!NoBatch
<1>4. OutputsTyped'
  BY <1>2, <1>3, OutputsInv DEF OutputsTyped
<1>5. AR!IdsKeepContent'
  BY <1>2, OutputsInv DEF AR!IdsKeepContent, AR!Ids
<1>6. MadeLeads' /\ AR!OutputReachable'
  BY <1>2, OutputsInv, GrowthKeepsLines DEF HashGrows
<1>. QED BY <1>4, <1>5, <1>6, OutputsInvNext

LEMMA LookSound == ASSUME AR!IInv, NEW b \in Batches, AR!Look(b) PROVE AR!IInv'
<1>1. /\ batch[b].pc = "look"
      /\ batch' = [batch EXCEPT ![b] = AR!NoBatch] \/ batch' = [batch EXCEPT ![b].pc = "store"]
      /\ UNCHANGED <<said, hash, issued, search, assembly, prompt, overlay, gone>>
  BY DEF AR!Look
<1>2. AR!NoBatch \in BatchType /\ AR!NoBatch.pc = "idle"
  BY DEF AR!NoBatch, BatchType
<1>3. batch' \in [Batches -> BatchType]
      /\ \A c \in Batches : batch'[c].pc # "idle" => batch'[c].of \in Outputs
  <2>1. CASE batch' = [batch EXCEPT ![b] = AR!NoBatch]
    BY <1>2, <2>1, OutputsInv DEF OutputsTyped
  <2>2. CASE batch' = [batch EXCEPT ![b].pc = "store"]
    BY <1>1, <2>2, OutputsInv DEF OutputsTyped, BatchType
  <2>. QED BY <1>1, <2>1, <2>2
<1>4. OutputsTyped'
  BY <1>1, <1>3, OutputsInv DEF OutputsTyped
<1>5. AR!IdsKeepContent'
  BY <1>1, OutputsInv DEF AR!IdsKeepContent, AR!Ids
<1>6. MadeLeads' /\ AR!OutputReachable'
  BY <1>1, OutputsInv, GrowthKeepsLines DEF HashGrows
<1>. QED BY <1>4, <1>5, <1>6, OutputsInvNext

LEMMA CaptureSound == ASSUME AR!IInv, NEW b \in Batches, AR!Capture(b) PROVE AR!IInv'
<1>1. PICK new : new = [of |-> batch[b].of, searched |-> 0]
  OBVIOUS
<1>2. /\ batch[b].pc = "store" /\ batch' = [batch EXCEPT ![b] = AR!NoBatch]
      /\ \/ /\ issued' = issued + 1
            /\ hash' = [i \in DOMAIN hash \cup {issued'} |-> IF i = issued' THEN new ELSE hash[i]]
         \/ UNCHANGED <<hash, issued>>
      /\ UNCHANGED <<said, search, assembly, prompt, overlay, gone>>
  BY <1>1 DEF AR!Capture, AR!Put
<1>3. AR!NoBatch \in BatchType /\ AR!NoBatch.pc = "idle"
  BY DEF AR!NoBatch, BatchType
<1>4. batch' \in [Batches -> BatchType]
      /\ \A c \in Batches : batch'[c].pc # "idle" => batch'[c].of \in Outputs
  BY <1>2, <1>3, OutputsInv DEF OutputsTyped
<1>5. new \in AR!Artifact
  BY <1>1, <1>2, OutputsInv DEF OutputsTyped, AR!Artifact
<1>6. /\ issued \in Nat /\ issued' \in Nat /\ issued <= issued'
      /\ DOMAIN hash' \subseteq 1..issued' /\ hash' \in [DOMAIN hash' -> AR!Artifact]
      /\ DOMAIN hash \subseteq DOMAIN hash'
      /\ \A i \in 1..issued : (i \in DOMAIN hash' <=> i \in DOMAIN hash)
           /\ (i \in DOMAIN hash => hash'[i] = hash[i])
  <2>1. issued \in Nat /\ DOMAIN hash \subseteq 1..issued /\ hash \in [DOMAIN hash -> AR!Artifact]
    BY OutputsInv DEF OutputsTyped
  <2>2. CASE UNCHANGED <<hash, issued>>
    BY <2>1, <2>2
  <2>3. CASE /\ issued' = issued + 1
             /\ hash' = [i \in DOMAIN hash \cup {issued'} |-> IF i = issued' THEN new ELSE hash[i]]
    <3>1. DOMAIN hash' = DOMAIN hash \cup {issued + 1}
      BY <2>3
    <3>2. \A i \in DOMAIN hash' : hash'[i] = IF i = issued + 1 THEN new ELSE hash[i]
      BY <2>3, <3>1
    <3>3. issued' = issued + 1 /\ issued + 1 \in Nat /\ \A i \in 1..issued : i # issued + 1
      BY <2>1, <2>3
    <3>4. DOMAIN hash' \subseteq 1..issued'
      BY <2>1, <3>1, <3>3
    <3>5. hash' \in [DOMAIN hash' -> AR!Artifact]
      BY <1>5, <2>1, <2>3, <3>1
    <3>. QED BY <2>1, <3>1, <3>2, <3>3, <3>4, <3>5
  <2>. QED BY <1>2, <2>2, <2>3
<1>7. OutputsTyped'
  BY <1>2, <1>4, <1>6, OutputsInv DEF OutputsTyped
<1>8. AR!IdsKeepContent'
  <2>1. AR!IdsKeepContent /\ 1..issued \subseteq 1..issued'
    BY <1>6, OutputsInv
  <2>. QED BY <1>2, <1>6, <2>1 DEF AR!IdsKeepContent, AR!Ids
<1>9. HashGrows
  BY <1>6, OutputsInv DEF HashGrows, OutputsTyped
<1>10. MadeLeads' /\ AR!OutputReachable'
  BY <1>2, <1>9, OutputsInv, GrowthKeepsLines
<1>. QED BY <1>7, <1>8, <1>10, OutputsInvNext

LEMMA AssemblySound == ASSUME AR!IInv, AR!Assemble PROVE AR!IInv'
<1>1. /\ assembly' = [pc |-> "replace", given |-> said, made |-> <<>>] /\ gone' = FALSE
      /\ UNCHANGED <<said, hash, issued, batch, search, prompt, overlay>>
  BY DEF AR!Assemble
<1>2. assembly' \in AssemblyType
  BY <1>1, OutputsInv DEF OutputsTyped, AssemblyType
<1>3. OutputsTyped'
  BY <1>1, <1>2, OutputsInv DEF OutputsTyped
<1>4. AR!IdsKeepContent'
  BY <1>1, OutputsInv DEF AR!IdsKeepContent, AR!Ids
<1>5. MadeLeads' /\ AR!OutputReachable'
  BY <1>1 DEF MadeLeads, AR!OutputReachable
<1>. QED BY <1>3, <1>4, <1>5, OutputsInvNext

LEMMA ReplaceSound == ASSUME AR!IInv, AR!Replace PROVE AR!IInv'
<1>1. PICK k : k = Len(assembly.made) + 1
  OBVIOUS
<1>2. PICK o : o = assembly.given[k]
  OBVIOUS
<1>3. /\ assembly.pc = "replace" /\ k <= Len(assembly.given)
      /\ UNCHANGED <<said, hash, issued, batch, search, prompt, overlay, gone>>
  BY <1>1 DEF AR!Replace
<1>4. PICK m : /\ assembly' = [assembly EXCEPT !.made = Append(@, m)]
               /\ m = AR!Verbatim(o) \/ \E id \in AR!WithContent(o) : m = AR!Placeholder(o, id)
  BY <1>1, <1>2 DEF AR!Replace
<1>5. assembly \in AssemblyType
  BY OutputsInv DEF OutputsTyped
<1>6. o \in Outputs
  BY <1>1, <1>2, <1>3, <1>5 DEF AssemblyType
<1>7. m \in AR!Lines /\ AR!Leads(m)
  <2>1. CASE m = AR!Verbatim(o)
    BY <1>6, <2>1 DEF AR!Verbatim, AR!Lines, AR!Leads
  <2>2. ASSUME NEW id \in AR!WithContent(o), m = AR!Placeholder(o, id)
        PROVE  m \in AR!Lines /\ AR!Leads(m)
    <3>1. id \in DOMAIN hash /\ hash[id].of = o
      BY <2>2 DEF AR!WithContent
    <3>2. id \in Nat
      BY <3>1, OutputsInv DEF OutputsTyped
    <3>. QED BY <1>6, <2>2, <3>1, <3>2 DEF AR!Placeholder, AR!Lines, AR!Leads
  <2>. QED BY <1>4, <2>1, <2>2
<1>8. /\ assembly' \in AssemblyType /\ assembly'.pc = "replace"
      /\ assembly'.made = Append(assembly.made, m)
  <2>1. assembly.made \in Seq(AR!Lines)
    BY <1>5 DEF AssemblyType
  <2>2. PICK made : made = Append(assembly.made, m)
    OBVIOUS
  <2>3. made \in Seq(AR!Lines)
    BY <1>7, <2>1, <2>2
  <2>4. assembly' = [assembly EXCEPT !.made = made]
    BY <1>4, <2>2
  <2>. QED BY <1>3, <1>5, <2>2, <2>3, <2>4 DEF AssemblyType
<1>9. OutputsTyped'
  BY <1>3, <1>8, OutputsInv DEF OutputsTyped
<1>10. AR!IdsKeepContent'
  BY <1>3, OutputsInv DEF AR!IdsKeepContent, AR!Ids
<1>11. AR!OutputReachable'
  BY <1>8 DEF AR!OutputReachable
<1>12. MadeLeads'
  <2>1. assembly.made \in Seq(AR!Lines)
    BY <1>5 DEF AssemblyType
  <2>2. /\ DOMAIN assembly'.made = 1..(Len(assembly.made) + 1)
        /\ \A j \in DOMAIN assembly'.made :
             assembly'.made[j] = m \/ (j \in DOMAIN assembly.made /\ assembly'.made[j] = assembly.made[j])
    BY <1>8, <2>1
  <2>3. ~gone => \A j \in DOMAIN assembly.made : AR!Leads(assembly.made[j])
    BY <1>3, OutputsInv DEF MadeLeads
  <2>4. ~gone => \A j \in DOMAIN assembly'.made : AR!Leads(assembly'.made[j])
    BY <1>7, <2>2, <2>3
  <2>. QED BY <1>3, <2>4 DEF MadeLeads, AR!Leads
<1>. QED BY <1>9, <1>10, <1>11, <1>12, OutputsInvNext

\* What an assembly has finished replacing is the prompt, but for what it removes.
LEMMA FinishAssemblySound ==
  ASSUME AR!IInv, NEW covered \in SUBSET Outputs, AR!FinishAssembly(covered) PROVE AR!IInv'
<1>1. PICK ok \in BOOLEAN :
        /\ assembly.pc = "replace" /\ assembly' = AR!NoAssembly
        /\ prompt' = [k \in DOMAIN assembly.made |-> AR!Deduplicated(assembly.made[k], covered)]
        /\ overlay' = IF ok THEN covered ELSE overlay
        /\ gone' = (gone \/ ~ok)
        /\ UNCHANGED <<said, hash, issued, batch, search>>
  BY DEF AR!FinishAssembly
<1>2. AR!NoAssembly \in AssemblyType /\ AR!NoAssembly.pc = "idle"
  BY DEF AR!NoAssembly, AssemblyType
<1>3. assembly.made \in Seq(AR!Lines)
  BY OutputsInv DEF OutputsTyped, AssemblyType
<1>4. ASSUME NEW m \in AR!Lines
      PROVE  /\ AR!Deduplicated(m, covered) \in AR!Lines
             /\ AR!Deduplicated(m, covered) = m
                \/ (/\ m.of \in covered /\ AR!Deduplicated(m, covered).as = "removed"
                    /\ AR!Deduplicated(m, covered).of = m.of)
  BY <1>4 DEF AR!Deduplicated, AR!Removed, AR!Lines
<1>5. prompt' \in Seq(AR!Lines)
  <2>1. PICK n \in Nat : DOMAIN assembly.made = 1..n
    BY <1>3
  <2>2. \A k \in 1..n : AR!Deduplicated(assembly.made[k], covered) \in AR!Lines
    BY <1>3, <1>4, <2>1
  <2>3. prompt' \in [1..n -> AR!Lines]
    BY <1>1, <2>1, <2>2
  <2>. QED BY <2>3
<1>6. OutputsTyped'
  BY <1>1, <1>2, <1>5, OutputsInv DEF OutputsTyped
<1>7. AR!IdsKeepContent'
  BY <1>1, OutputsInv DEF AR!IdsKeepContent, AR!Ids
<1>8. MadeLeads'
  BY <1>1, <1>2 DEF MadeLeads
<1>9. AR!OutputReachable'
  <2>. SUFFICES ASSUME ~gone, ok, NEW k \in DOMAIN assembly.made
       PROVE  \/ prompt'[k].as = "verbatim"
              \/ /\ prompt'[k].as = "placeholder" /\ prompt'[k].id \in DOMAIN hash
                 /\ hash[prompt'[k].id].of = prompt'[k].of
              \/ prompt'[k].as = "removed" /\ prompt'[k].of \in covered
    BY <1>1 DEF AR!OutputReachable
  <2>1. assembly.made[k] \in AR!Lines
    BY <1>3
  <2>2. prompt'[k] = AR!Deduplicated(assembly.made[k], covered)
    BY <1>1
  <2>3. AR!Leads(assembly.made[k])
    BY <1>1, OutputsInv DEF MadeLeads
  <2>. QED BY <1>4, <2>1, <2>2, <2>3 DEF AR!Leads
<1>. QED BY <1>6, <1>7, <1>8, <1>9, OutputsInvNext

LEMMA SearchSound ==
  ASSUME AR!IInv, NEW s \in Searches, NEW id \in DOMAIN hash, AR!Search(s, id) PROVE AR!IInv'
<1>1. PICK new : new = [pc |-> "count", id |-> id, copy |-> hash[id]]
  OBVIOUS
<1>2. /\ search[s].pc = "idle" /\ search' = [search EXCEPT ![s] = new]
      /\ UNCHANGED <<said, hash, issued, batch, assembly, prompt, overlay, gone>>
  BY <1>1 DEF AR!Search
<1>3. hash[id] \in AR!Artifact /\ id \in 1..issued /\ id \in Nat
  BY OutputsInv DEF OutputsTyped
<1>4. hash[id] \in CopyType
  BY <1>3 DEF AR!Artifact, CopyType
<1>5. new \in SearchType
  BY <1>1, <1>3, <1>4 DEF SearchType
<1>6. /\ search' \in [Searches -> SearchType] /\ search'[s] = new
      /\ \A t \in Searches : t # s => search'[t] = search[t]
  BY <1>2, <1>5, OutputsInv DEF OutputsTyped
<1>7. OutputsTyped'
  BY <1>2, <1>6, OutputsInv DEF OutputsTyped
<1>8. AR!IdsKeepContent'
  BY <1>1, <1>2, <1>3, <1>6, OutputsInv DEF AR!IdsKeepContent, AR!Ids
<1>9. MadeLeads' /\ AR!OutputReachable'
  BY <1>2, OutputsInv, GrowthKeepsLines DEF HashGrows
<1>. QED BY <1>7, <1>8, <1>9, OutputsInvNext

\* A count stores what the search read, under the same id: with the same content.
LEMMA CountSound == ASSUME AR!IInv, NEW s \in Searches, AR!Count(s) PROVE AR!IInv'
<1>1. PICK id : id = search[s].id
  OBVIOUS
<1>2. PICK new : new = [search[s].copy EXCEPT !.searched = @ + 1]
  OBVIOUS
<1>3. /\ search[s].pc = "count" /\ search' = [search EXCEPT ![s].pc = "done"]
      /\ hash' = [i \in DOMAIN hash \cup {id} |-> IF i = id THEN new ELSE hash[i]]
      /\ UNCHANGED <<said, issued, batch, assembly, prompt, overlay, gone>>
  BY <1>1, <1>2 DEF AR!Count, AR!Put
<1>4. /\ id \in 1..issued /\ search[s].copy \in AR!Artifact
      /\ id \in DOMAIN hash => hash[id].of = search[s].copy.of
  BY <1>1, <1>3, OutputsInv DEF AR!IdsKeepContent, AR!Ids
<1>5. new \in AR!Artifact /\ new.of = search[s].copy.of
  BY <1>2, <1>4 DEF AR!Artifact
<1>6. /\ search' \in [Searches -> SearchType] /\ search'[s].pc = "done"
      /\ \A t \in Searches : t # s => search'[t] = search[t]
  BY <1>3, OutputsInv DEF OutputsTyped, SearchType
<1>7. /\ DOMAIN hash' = DOMAIN hash \cup {id} /\ hash'[id] = new
      /\ \A i \in DOMAIN hash : i # id => hash'[i] = hash[i]
  BY <1>3
<1>8. hash \in [DOMAIN hash -> AR!Artifact] /\ DOMAIN hash \subseteq 1..issued
  BY OutputsInv DEF OutputsTyped
<1>9. hash' \in [DOMAIN hash' -> AR!Artifact] /\ DOMAIN hash' \subseteq 1..issued
  BY <1>3, <1>4, <1>5, <1>7, <1>8
<1>10. OutputsTyped'
  BY <1>3, <1>6, <1>9, OutputsInv DEF OutputsTyped
<1>11. AR!IdsKeepContent'
  <2>1. AR!IdsKeepContent
    BY OutputsInv
  <2>2. \A t \in Searches : search[t].pc = "count" /\ search[t].id = id =>
           search[t].copy.of = new.of
    BY <1>1, <1>3, <1>5, <2>1 DEF AR!IdsKeepContent
  <2>. QED BY <1>3, <1>6, <1>7, <2>1, <2>2 DEF AR!IdsKeepContent, AR!Ids
<1>12. HashGrows
  BY <1>4, <1>5, <1>7 DEF HashGrows
<1>13. MadeLeads' /\ AR!OutputReachable'
  BY <1>3, <1>12, OutputsInv, GrowthKeepsLines
<1>. QED BY <1>10, <1>11, <1>13, OutputsInvNext

LEMMA ExpireSound == ASSUME AR!IInv, AR!Expire PROVE AR!IInv'
<1>1. /\ hash' = <<>> /\ gone' = TRUE
      /\ UNCHANGED <<said, issued, batch, search, assembly, prompt>>
  BY DEF AR!Expire
<1>2. DOMAIN hash' = {} /\ hash' \in [DOMAIN hash' -> AR!Artifact]
  BY <1>1
<1>3. OutputsTyped'
  BY <1>1, <1>2, OutputsInv DEF OutputsTyped
<1>4. AR!IdsKeepContent'
  BY <1>1, <1>2, OutputsInv DEF AR!IdsKeepContent, AR!Ids
<1>5. MadeLeads' /\ AR!OutputReachable'
  BY <1>1 DEF MadeLeads, AR!OutputReachable
<1>. QED BY <1>3, <1>4, <1>5, OutputsInvNext

LEMMA ArtifactsStep == ASSUME AR!IInv, AR!ArtifactsNext PROVE AR!IInv'
BY IngestSound, LookSound, CaptureSound, AssemblySound, ReplaceSound, FinishAssemblySound,
   SearchSound, CountSound, ExpireSound DEF AR!ArtifactsNext

ArtifactsInv == part = "artifacts" => AR!IInv

LEMMA ArtifactsStutters ==
  ASSUME ArtifactsInv, UNCHANGED <<part, artifactsVars>> PROVE ArtifactsInv'
<1>. SUFFICES ASSUME part = "artifacts" PROVE AR!IInv'
  BY DEF ArtifactsInv
<1>1. AR!IInv /\ UNCHANGED <<said, hash, issued, batch, search, assembly, prompt, overlay, gone>>
  BY DEF ArtifactsInv, artifactsVars
<1>2. OutputsTyped'
  BY <1>1, OutputsInv DEF OutputsTyped
<1>3. AR!IdsKeepContent'
  BY <1>1, OutputsInv DEF AR!IdsKeepContent, AR!Ids
<1>4. MadeLeads' /\ AR!OutputReachable'
  BY <1>1, OutputsInv, GrowthKeepsLines DEF HashGrows
<1>. QED BY <1>2, <1>3, <1>4, OutputsInvNext

LEMMA ArtifactsKept ==
  ASSUME ArtifactsInv, [PartsNext]_allVars PROVE ArtifactsInv'
<1>1. CASE part = "artifacts" /\ AR!ArtifactsNext /\ Others
  BY <1>1, ArtifactsStep DEF ArtifactsInv, Others
<1>2. CASE part # "artifacts" /\ UNCHANGED part
  BY <1>2 DEF ArtifactsInv
<1>3. CASE UNCHANGED allVars
  BY <1>3, ArtifactsStutters DEF allVars
<1>. QED BY <1>1, <1>2, <1>3 DEF PartsNext, Others

\* Every tool output of the prompt that the last assembly left can be had: it is there,
\* or its placeholder names an artifact that holds it, or the items that made it
\* redundant are in the overlay (OutputReachable of Artifacts.tla: lifecycle.py,
\* session_artifact_store.py).
THEOREM OutputsAreReachable == PartsSpec => []OutputReachable
<1>1. PartsInit => ArtifactsInv
  BY ArtifactsInitSound DEF PartsInit, ArtifactsInv
<1>2. ArtifactsInv /\ [PartsNext]_allVars => ArtifactsInv'
  BY ArtifactsKept
<1>3. ArtifactsInv => OutputReachable
  BY OutputsInv DEF ArtifactsInv, OutputReachable
<1>. QED BY <1>1, <1>2, <1>3, PTL DEF PartsSpec
------------------------------------------------------------------------------
(* Compaction: what a compaction makes of the messages it read covers them. *)

LEMMA LeastOf ==
  ASSUME NEW T \in SUBSET Nat, T # {} PROVE \E n \in T : \A m \in T : n <= m
<1>1. IsWellFoundedOn(OpToRel(<, Nat), Nat)
  BY NatLessThanWellFounded
<1>2. PICK n \in T : \A m \in T : ~(<<m, n>> \in OpToRel(<, Nat))
  BY <1>1, WFMin, Zenon
<1>3. \A m \in T : ~(m < n)
  BY <1>2 DEF OpToRel
<1>. QED BY <1>3

\* How many numbers of S come before k, and the first n of S.
Rank(S, k) == Cardinality({l \in S : l < k})
First(S, n) == {k \in S : Rank(S, k) < n}

LEMMA RankIsNat ==
  ASSUME NEW S \in SUBSET Nat, IsFiniteSet(S), NEW k \in S PROVE Rank(S, k) \in Nat
BY FS_Subset, FS_CardinalityType DEF Rank

LEMMA RankGrows ==
  ASSUME NEW S \in SUBSET Nat, IsFiniteSet(S), NEW j \in S, NEW k \in S, j < k
  PROVE  Rank(S, j) < Rank(S, k)
<1>. DEFINE A == {l \in S : l < j}
            B == {l \in S : l < k}
<1>1. IsFiniteSet(A) /\ IsFiniteSet(B)
  BY FS_Subset
<1>2. A \cup {j} \subseteq B /\ j \notin A
  <2>1. \A l \in S : l \in Nat
    OBVIOUS
  <2>2. \A l \in S : l < j => l < k
    BY <2>1
  <2>3. ~(j < j)
    BY <2>1
  <2>. QED BY <2>2, <2>3
<1>3. Cardinality(A \cup {j}) = Cardinality(A) + 1
  BY <1>1, <1>2, FS_AddElement
<1>4. Cardinality(A \cup {j}) <= Cardinality(B)
  BY <1>1, <1>2, FS_Subset
<1>5. Cardinality(A) \in Nat /\ Cardinality(B) \in Nat
  BY <1>1, FS_CardinalityType
<1>. QED BY <1>3, <1>4, <1>5 DEF Rank

\* The first n are n, if something is left out.
LEMMA FirstCount ==
  ASSUME NEW S \in SUBSET Nat, IsFiniteSet(S), NEW k \in S, NEW b \in Nat, b <= Rank(S, k)
  PROVE  Cardinality(First(S, b)) = b
<1>. DEFINE T == {n \in 0..b : Cardinality(First(S, n)) = n}
<1>1. 0 \in T
  <2>1. First(S, 0) = {}
    <3>1. \A m \in S : Rank(S, m) \in Nat
      BY RankIsNat
    <3>2. \A m \in S : ~(Rank(S, m) < 0)
      BY <3>1
    <3>. QED BY <3>2 DEF First
  <2>. QED BY <2>1, FS_EmptySet
<1>2. ASSUME NEW n \in 0..b, n < b, n \in T PROVE n + 1 \in T
  <2>1. Cardinality(First(S, n)) = n
    BY <1>2
  <2>2. IsFiniteSet(First(S, n))
    BY FS_Subset DEF First
  <2>3. k \in S \ First(S, n)
    BY <1>2, RankIsNat DEF First
  <2>4. PICK j \in S \ First(S, n) : \A m \in S \ First(S, n) : j <= m
    BY <2>3, LeastOf
  <2>5. Rank(S, j) >= n
    BY <2>4, RankIsNat DEF First
  <2>6. {l \in S : l < j} \subseteq First(S, n)
    <3>1. j \in Nat /\ \A m \in S : m \in Nat
      OBVIOUS
    <3>2. \A m \in S : m < j => m \in First(S, n)
      BY <2>4, <3>1
    <3>. QED BY <3>2
  <2>7. Rank(S, j) <= n
    BY <2>1, <2>2, <2>6, FS_Subset DEF Rank
  <2>8. Rank(S, j) = n
    BY <2>4, <2>5, <2>7, RankIsNat
  <2>9. First(S, n + 1) = First(S, n) \cup {j}
    <3>1. ASSUME NEW m \in S, m # j PROVE Rank(S, m) # n
      BY <2>4, <2>8, <3>1, RankGrows, RankIsNat
    <3>2. \A m \in S : Rank(S, m) \in Nat
      BY RankIsNat
    <3>3. \A m \in S : Rank(S, m) < n + 1 <=> Rank(S, m) < n \/ m = j
      BY <2>4, <2>8, <3>1, <3>2
    <3>. QED BY <2>4, <3>3 DEF First
  <2>10. Cardinality(First(S, n + 1)) = n + 1
    BY <2>1, <2>2, <2>4, <2>9, FS_AddElement
  <2>. QED BY <1>2, <2>10
<1>. HIDE DEF T
<1>3. \A n \in 0..b : n \in T
  BY <1>1, <1>2, UpTo
<1>. QED BY <1>3 DEF T

\* The module Compaction counts as this one does.
LEMMA SameCountOfMessages == ASSUME NEW S PROVE CO!Cardinality(S) = Cardinality(S)
BY DEF Cardinality, CO!Cardinality, IsFiniteSet, CO!IsFiniteSet

LEMMA OldestIsFirst == ASSUME NEW S, NEW n PROVE CO!Oldest(S, n) = First(S, n)
BY SameCountOfMessages DEF CO!Oldest, First, Rank

\* A message that nothing before it equals is the first of its equals.
LEMMA FirstOccurrence ==
  ASSUME NEW seen \in Seq(CO!Messages), NEW k \in DOMAIN seen,
         \A l \in 1..(k - 1) : seen[l] # seen[k]
  PROVE  CO!IndexOf(seen[k], seen) = k
<1>1. DOMAIN seen = 1..Len(seen) /\ Len(seen) \in Nat
  OBVIOUS
<1>2. ASSUME NEW i \in DOMAIN seen, seen[i] = seen[k], \A l \in 1..(i - 1) : seen[l] # seen[k]
      PROVE  i = k
  BY <1>1, <1>2
<1>. QED BY <1>2 DEF CO!IndexOf

\* A message has a first equal, no later than itself.
LEMMA IndexOfBefore ==
  ASSUME NEW seen \in Seq(CO!Messages), NEW k \in DOMAIN seen
  PROVE  /\ CO!IndexOf(seen[k], seen) \in DOMAIN seen /\ CO!IndexOf(seen[k], seen) <= k
         /\ seen[CO!IndexOf(seen[k], seen)] = seen[k]
<1>1. DOMAIN seen = 1..Len(seen) /\ Len(seen) \in Nat
  OBVIOUS
<1>. DEFINE Same == {i \in DOMAIN seen : seen[i] = seen[k]}
<1>2. Same \in SUBSET Nat /\ Same # {}
  BY <1>1
<1>3. PICK i \in Same : \A j \in Same : i <= j
  BY <1>2, LeastOf
<1>4. i \in DOMAIN seen /\ seen[i] = seen[k] /\ \A l \in 1..(i - 1) : seen[l] # seen[k]
  BY <1>1, <1>3
<1>5. CO!IndexOf(seen[k], seen) = i
  BY <1>4, FirstOccurrence
<1>. QED BY <1>3, <1>4, <1>5

\* The message at k is an open question for the code only if it is unanswered.
LEMMA OpenIsUnanswered ==
  ASSUME NEW seen \in Seq(CO!Messages), NEW k \in DOMAIN seen, CO!IsOpenQuestion(seen[k], seen)
  PROVE  CO!Unanswered(k, seen)
<1>1. DOMAIN seen = 1..Len(seen) /\ Len(seen) \in Nat
  OBVIOUS
<1>2. PICK i : i = CO!IndexOf(seen[k], seen)
  OBVIOUS
<1>3. i \in DOMAIN seen /\ i <= k
  BY <1>2, IndexOfBefore
<1>4. (k + 1)..Len(seen) \subseteq (i + 1)..Len(seen)
  BY <1>1, <1>3
<1>. QED BY <1>2, <1>4 DEF CO!IsOpenQuestion, CO!Unanswered

\* What a compaction that read seen would store.
Stores(st, seen, digest) ==
  st = [of |-> seen, kept |-> CO!Of("preserve", seen), digest |-> digest,
        questions |-> CO!Oldest({k \in CO!Of("preserve", seen) : CO!IsOpenQuestion(seen[k], seen)},
                                QuestionsKept)]

LEMMA QuestionsAreKept ==
  ASSUME NEW seen \in Seq(CO!Messages), NEW k \in DOMAIN seen, CO!Unanswered(k, seen),
         \A l \in DOMAIN seen : l < k => seen[l] # seen[k],
         NEW Q, Q = {j \in CO!Of("preserve", seen) : CO!IsOpenQuestion(seen[j], seen)},
         k \notin CO!Oldest(Q, QuestionsKept)
  PROVE  CO!Cardinality({j \in DOMAIN seen : CO!Unanswered(j, seen)}) > QuestionsKept
<1>1. DOMAIN seen = 1..Len(seen) /\ Len(seen) \in Nat /\ QuestionsKept \in Nat
  BY PartsAssumption DEF CO!CompactionAssumption
<1>2. CO!IndexOf(seen[k], seen) = k
  BY <1>1, FirstOccurrence
<1>3. CO!IsOpenQuestion(seen[k], seen) /\ seen[k].kind.asks
  BY <1>2 DEF CO!IsOpenQuestion, CO!Unanswered
<1>4. CO!Class(seen[k], seen) = "preserve"
  BY <1>3 DEF CO!Class
<1>5. k \in Q
  BY <1>3, <1>4 DEF CO!Of
<1>. DEFINE Open == {j \in DOMAIN seen : CO!Unanswered(j, seen)}
<1>6. Q \subseteq Open /\ k \in Open
  BY OpenIsUnanswered DEF CO!Of
<1>7. IsFiniteSet(Open) /\ Open \in SUBSET Nat
  <2>1. Open \in SUBSET (1..Len(seen)) /\ IsFiniteSet(1..Len(seen))
    BY <1>1, FS_Interval
  <2>. HIDE DEF Open
  <2>2. IsFiniteSet(Open)
    BY <2>1, FS_Subset
  <2>3. Open \in SUBSET Nat
    BY <1>1, <2>1
  <2>. QED BY <2>2, <2>3
<1>8. IsFiniteSet(Q) /\ Q \in SUBSET Nat
  BY <1>6, <1>7, FS_Subset
<1>9. Rank(Q, k) \in Nat /\ ~(Rank(Q, k) < QuestionsKept)
  BY <1>5, <1>8, OldestIsFirst, RankIsNat DEF First
<1>. DEFINE Before == {l \in Q : l < k}
<1>10. IsFiniteSet(Before) /\ k \notin Before /\ Before \cup {k} \subseteq Open
  BY <1>6, <1>8, FS_Subset
<1>11. Cardinality(Before \cup {k}) = Rank(Q, k) + 1
  BY <1>10, FS_AddElement DEF Rank
<1>12. Cardinality(Before \cup {k}) <= Cardinality(Open) /\ Cardinality(Open) \in Nat
  BY <1>7, <1>10, FS_Subset, FS_CardinalityType
<1>. QED BY <1>1, <1>9, <1>11, <1>12, SameCountOfMessages

LEMMA MessagesAreCovered ==
  ASSUME NEW seen \in Seq(CO!Messages), NEW k \in DOMAIN seen, NEW digest,
         digest \in {CO!Of("compress", seen), CO!Oldest(CO!Of("compress", seen), DigestKept)}
  PROVE  \/ k \in CO!Of("preserve", seen) \cup digest
         \/ CO!Cardinality(digest) = DigestKept
         \/ seen[k].kind.phatic /\ ~CO!Unanswered(k, seen)
<1>1. DOMAIN seen = 1..Len(seen) /\ Len(seen) \in Nat /\ DigestKept \in Nat
  BY PartsAssumption DEF CO!CompactionAssumption
<1>2. PICK B : B = CO!Of("compress", seen)
  OBVIOUS
<1>3. CASE CO!Class(seen[k], seen) = "compress"
  <2>1. k \in B
    BY <1>2, <1>3 DEF CO!Of
  <2>2. CASE k \in digest
    BY <2>2
  <2>3. CASE k \notin digest
    <3>1. digest = First(B, DigestKept)
      BY <1>2, <2>1, <2>3, OldestIsFirst
    <3>2. IsFiniteSet(B) /\ B \in SUBSET Nat
      <4>1. B \in SUBSET (1..Len(seen)) /\ IsFiniteSet(1..Len(seen))
        BY <1>1, <1>2, FS_Interval DEF CO!Of
      <4>2. IsFiniteSet(B)
        BY <4>1, FS_Subset
      <4>3. B \in SUBSET Nat
        BY <1>1, <4>1
      <4>. QED BY <4>2, <4>3
    <3>3. Rank(B, k) \in Nat /\ ~(Rank(B, k) < DigestKept)
      BY <2>1, <2>3, <3>1, <3>2, RankIsNat DEF First
    <3>. QED BY <1>1, <2>1, <3>1, <3>2, <3>3, FirstCount, SameCountOfMessages
  <2>. QED BY <2>2, <2>3
<1>4. CASE CO!Class(seen[k], seen) = "preserve"
  BY <1>4 DEF CO!Of
<1>5. CASE CO!Class(seen[k], seen) \notin {"compress", "preserve"}
  BY <1>5 DEF CO!Class, CO!Unanswered
<1>. QED BY <1>3, <1>4, <1>5

LEMMA StoredCovers ==
  ASSUME NEW seen \in Seq(CO!Messages), NEW digest, NEW new, Stores(new, seen, digest), state' = new,
         digest \in {CO!Of("compress", seen), CO!Oldest(CO!Of("compress", seen), DigestKept)}
  PROVE  CO!NothingNeededLost'
<1>1. PICK Q : Q = {j \in CO!Of("preserve", seen) : CO!IsOpenQuestion(seen[j], seen)}
  OBVIOUS
<1>2. /\ new.of = seen /\ new.kept = CO!Of("preserve", seen) /\ new.digest = digest
      /\ new.questions = CO!Oldest(Q, QuestionsKept)
  BY <1>1 DEF Stores
<1>3. CO!OpenQuestionsKept'
  <2>. SUFFICES ASSUME NEW k \in DOMAIN seen, CO!Unanswered(k, seen),
                       k \notin CO!Oldest(Q, QuestionsKept),
                       ~ \E l \in DOMAIN seen : l < k /\ seen[l] = seen[k]
                PROVE  CO!Cardinality({j \in DOMAIN seen : CO!Unanswered(j, seen)}) > QuestionsKept
    BY <1>2 DEF CO!OpenQuestionsKept
  <2>. QED BY <1>1, QuestionsAreKept
<1>4. CO!OnlySmallTalkDropped'
  BY <1>2, MessagesAreCovered DEF CO!OnlySmallTalkDropped
<1>. QED BY <1>3, <1>4 DEF CO!NothingNeededLost

LEMMA BucketsArePositions ==
  ASSUME NEW seen \in Seq(CO!Messages), NEW class, NEW n
  PROVE  CO!Of(class, seen) \in SUBSET Nat /\ CO!Oldest(CO!Of(class, seen), n) \in SUBSET Nat
<1>1. DOMAIN seen \subseteq Nat
  OBVIOUS
<1>2. CO!Of(class, seen) \subseteq DOMAIN seen
  BY DEF CO!Of
<1>3. CO!Oldest(CO!Of(class, seen), n) \subseteq CO!Of(class, seen)
  BY DEF CO!Oldest
<1>. QED BY <1>1, <1>2, <1>3

LEMMA NothingStoredLosesNothing ==
  ASSUME state' = CO!NoState PROVE CO!NothingNeededLost' /\ state' \in CO!StateType
<1>1. state'.of = <<>> /\ state' \in CO!StateType
  BY DEF CO!NoState, CO!StateType
<1>2. DOMAIN state'.of = {}
  BY <1>1
<1>. QED BY <1>1, <1>2 DEF CO!NothingNeededLost, CO!OpenQuestionsKept, CO!OnlySmallTalkDropped

LEMMA CompactionInitSound == ASSUME CO!CompactionInit PROVE CO!IInv
<1>1. messages = <<>> /\ state = CO!NoState
      /\ compact = [c \in Compactors |-> [pc |-> "idle", seen |-> <<>>, digest |-> {}]]
  BY DEF CO!CompactionInit
<1>2. [pc |-> "idle", seen |-> <<>>, digest |-> {}] \in CO!CallType
  BY DEF CO!CallType
<1>3. compact \in [Compactors -> CO!CallType] /\ \A c \in Compactors : compact[c].pc = "idle"
  BY <1>1, <1>2
<1>4. state.of = <<>> /\ state \in CO!StateType
  BY <1>1 DEF CO!NoState, CO!StateType
<1>5. DOMAIN state.of = {}
  BY <1>4
<1>6. CO!NothingNeededLost
  BY <1>5 DEF CO!NothingNeededLost, CO!OpenQuestionsKept, CO!OnlySmallTalkDropped
<1>. QED BY <1>1, <1>3, <1>4, <1>6 DEF CO!IInv, CO!Summarized

LEMMA StateStays ==
  ASSUME CO!IInv, state' = state PROVE CO!NothingNeededLost' /\ state' \in CO!StateType
BY DEF CO!IInv, CO!NothingNeededLost, CO!OpenQuestionsKept, CO!OnlySmallTalkDropped

\* A step of one call of compact.
LEMMA OneCompactor ==
  ASSUME CO!IInv, NEW c \in Compactors, NEW new \in CO!CallType,
         compact' = [compact EXCEPT ![c] = new],
         LET bucket == CO!Of("compress", new.seen)
         IN  new.pc = "persist" => new.digest \in {bucket, CO!Oldest(bucket, DigestKept)}
  PROVE  compact' \in [Compactors -> CO!CallType] /\ \A d \in Compactors : CO!Summarized(d)'
<1>1. /\ compact' \in [Compactors -> CO!CallType] /\ compact'[c] = new
      /\ \A d \in Compactors : d # c => compact'[d] = compact[d]
  BY DEF CO!IInv
<1>2. \A d \in Compactors : CO!Summarized(d)
  BY DEF CO!IInv
<1>. QED BY <1>1, <1>2 DEF CO!Summarized

LEMMA MessageComes ==
  ASSUME CO!IInv, NEW kind \in Kinds, NEW t \in Nat, CO!Ingest(kind, t) PROVE CO!IInv'
<1>1. messages' = Append(messages, [kind |-> kind, turn |-> t]) /\ UNCHANGED <<compact, state>>
  BY DEF CO!Ingest
<1>2. [kind |-> kind, turn |-> t] \in CO!Messages
  BY DEF CO!Messages
<1>3. messages' \in Seq(CO!Messages)
  BY <1>1, <1>2 DEF CO!IInv
<1>4. compact' \in [Compactors -> CO!CallType] /\ \A c \in Compactors : CO!Summarized(c)'
  BY <1>1 DEF CO!IInv, CO!Summarized
<1>. QED BY <1>1, <1>3, <1>4, StateStays DEF CO!IInv

LEMMA ReadKeeps == ASSUME CO!IInv, NEW c \in Compactors, CO!Read(c) PROVE CO!IInv'
<1>1. PICK pc : pc = IF messages = <<>> \/ ~CO!ShouldTrigger(c, messages) THEN "done" ELSE "summarize"
  OBVIOUS
<1>2. PICK new : new = [pc |-> pc, seen |-> messages, digest |-> {}]
  OBVIOUS
<1>3. compact' = [compact EXCEPT ![c] = new] /\ UNCHANGED <<messages, state>>
  BY <1>1, <1>2 DEF CO!Read
<1>4. new \in CO!CallType /\ new.pc # "persist"
  BY <1>1, <1>2 DEF CO!CallType, CO!IInv
<1>5. compact' \in [Compactors -> CO!CallType] /\ \A d \in Compactors : CO!Summarized(d)'
  BY <1>3, <1>4, OneCompactor
<1>. QED BY <1>3, <1>5, StateStays DEF CO!IInv

LEMMA SummarizeKeeps == ASSUME CO!IInv, NEW c \in Compactors, CO!Summarize(c) PROVE CO!IInv'
<1>1. PICK seen : seen = compact[c].seen
  OBVIOUS
<1>2. compact[c] \in CO!CallType
  BY DEF CO!IInv
<1>3. seen \in Seq(CO!Messages)
  BY <1>1, <1>2 DEF CO!CallType
<1>4. PICK digest \in {CO!Of("compress", seen), CO!Oldest(CO!Of("compress", seen), DigestKept)} :
        compact' = [compact EXCEPT ![c] = [pc |-> "persist", seen |-> seen, digest |-> digest]]
  BY <1>1 DEF CO!Summarize
<1>5. PICK new : new = [pc |-> "persist", seen |-> seen, digest |-> digest]
  OBVIOUS
<1>6. UNCHANGED <<messages, state>>
  BY DEF CO!Summarize
<1>7. digest \in SUBSET Nat
  <2>1. CO!Of("compress", seen) \in SUBSET Nat
        /\ CO!Oldest(CO!Of("compress", seen), DigestKept) \in SUBSET Nat
    BY <1>3, BucketsArePositions
  <2>. QED BY <1>4, <2>1
<1>8. new \in CO!CallType
  BY <1>3, <1>5, <1>7 DEF CO!CallType
<1>9. compact' = [compact EXCEPT ![c] = new]
  BY <1>4, <1>5
<1>10. compact' \in [Compactors -> CO!CallType] /\ \A d \in Compactors : CO!Summarized(d)'
  BY <1>4, <1>5, <1>8, <1>9, OneCompactor
<1>. QED BY <1>6, <1>10, StateStays DEF CO!IInv

LEMMA PersistKeeps == ASSUME CO!IInv, NEW c \in Compactors, CO!Persist(c) PROVE CO!IInv'
<1>1. PICK seen : seen = compact[c].seen
  OBVIOUS
<1>2. PICK digest : digest = compact[c].digest
  OBVIOUS
<1>3. PICK new : Stores(new, seen, digest)
  BY DEF Stores
<1>4. /\ compact[c].pc = "persist" /\ compact' = [compact EXCEPT ![c].pc = "done"]
      /\ state' \in {state, new} /\ messages' = messages
  BY <1>1, <1>2, <1>3 DEF CO!Persist, Stores
<1>5. compact[c] \in CO!CallType /\ CO!Summarized(c)
  BY DEF CO!IInv
<1>6. /\ seen \in Seq(CO!Messages) /\ digest \in SUBSET Nat
      /\ digest \in {CO!Of("compress", seen), CO!Oldest(CO!Of("compress", seen), DigestKept)}
  BY <1>1, <1>2, <1>4, <1>5 DEF CO!CallType, CO!Summarized
<1>7. CO!NothingNeededLost' /\ state' \in CO!StateType
  <2>1. CASE state' = state
    BY <2>1, StateStays
  <2>2. CASE state' = new
    <3>1. CO!NothingNeededLost'
      BY <1>3, <1>6, <2>2, StoredCovers
    <3>2. CO!Of("preserve", seen) \in SUBSET Nat
      BY <1>6, BucketsArePositions
    <3>3. ASSUME NEW Q, Q \subseteq CO!Of("preserve", seen)
          PROVE  CO!Oldest(Q, QuestionsKept) \in SUBSET Nat
      BY <3>2, <3>3 DEF CO!Oldest
    <3>4. CO!Oldest({k \in CO!Of("preserve", seen) : CO!IsOpenQuestion(seen[k], seen)},
                    QuestionsKept) \in SUBSET Nat
      BY <3>3
    <3>. QED BY <1>3, <1>6, <2>2, <3>1, <3>2, <3>4 DEF Stores, CO!StateType
  <2>. QED BY <1>4, <2>1, <2>2
<1>8. [compact[c] EXCEPT !.pc = "done"] \in CO!CallType
      /\ [compact[c] EXCEPT !.pc = "done"].pc = "done"
  BY <1>5 DEF CO!CallType
<1>9. compact' \in [Compactors -> CO!CallType] /\ \A d \in Compactors : CO!Summarized(d)'
  BY <1>4, <1>8, OneCompactor
<1>. QED BY <1>4, <1>7, <1>9 DEF CO!IInv

LEMMA CompactionStep == ASSUME CO!IInv, CO!CompactionNext PROVE CO!IInv'
<1>1. CASE \E kind \in Kinds, t \in {0, 1} : CO!Ingest(kind, t)
  BY <1>1, MessageComes
<1>2. CASE CO!ExpireState
  <2>1. compact' \in [Compactors -> CO!CallType] /\ \A c \in Compactors : CO!Summarized(c)'
    BY <1>2 DEF CO!ExpireState, CO!IInv, CO!Summarized
  <2>. QED BY <1>2, <2>1, NothingStoredLosesNothing DEF CO!ExpireState, CO!IInv
<1>. QED BY <1>1, <1>2, ReadKeeps, SummarizeKeeps, PersistKeeps DEF CO!CompactionNext

CompactionInv == part = "compaction" => CO!IInv

LEMMA CompactionStutters ==
  ASSUME CompactionInv, UNCHANGED <<part, compactionVars>> PROVE CompactionInv'
<1>. SUFFICES ASSUME part = "compaction" PROVE CO!IInv'
  BY DEF CompactionInv
<1>1. CO!IInv /\ UNCHANGED <<messages, compact, state>>
  BY DEF CompactionInv, compactionVars
<1>2. compact' \in [Compactors -> CO!CallType] /\ \A c \in Compactors : CO!Summarized(c)'
  BY <1>1 DEF CO!IInv, CO!Summarized
<1>. QED BY <1>1, <1>2, StateStays DEF CO!IInv

LEMMA CompactionKept ==
  ASSUME CompactionInv, [PartsNext]_allVars PROVE CompactionInv'
<1>1. CASE part = "compaction" /\ CO!CompactionNext /\ Others
  BY <1>1, CompactionStep DEF CompactionInv, Others
<1>2. CASE part # "compaction" /\ UNCHANGED part
  BY <1>2 DEF CompactionInv
<1>3. CASE UNCHANGED allVars
  BY <1>3, CompactionStutters DEF allVars
<1>. QED BY <1>1, <1>2, <1>3 DEF PartsNext, Others

\* The state a compaction stores has what the rest of the session needs of the messages
\* it takes the place of: every question nobody answered, and every message that is not
\* small talk, but for what the bounds of the state cut off (NothingNeededLost of
\* Compaction.tla: compaction/engine.py).
THEOREM CompactionLosesNothing == PartsSpec => []NothingNeededLost
<1>1. PartsInit => CompactionInv
  BY CompactionInitSound DEF PartsInit, CompactionInv
<1>2. CompactionInv /\ [PartsNext]_allVars => CompactionInv'
  BY CompactionKept
<1>3. CompactionInv => NothingNeededLost
  BY DEF CompactionInv, NothingNeededLost, CO!IInv
<1>. QED BY <1>1, <1>2, <1>3, PTL DEF PartsSpec
------------------------------------------------------------------------------
(* SessionGoals: a list a call has read is as sound as the stored one was, and
   until a call is overtaken it is the stored one.                         *)

LEMMA GoalsAssumed ==
  /\ NoGoal \notin Goals /\ AutoGoals \subseteq Goals /\ SubLimit \in Nat /\ IsFiniteSet(Goals)
  /\ ParentOf \in [Goals -> Goals \cup {NoGoal}]
<1>1. SG!SessionGoalsAssumption
  BY PartsAssumption
<1>2. SG!IsFiniteSet(Goals) <=> IsFiniteSet(Goals)
  BY DEF SG!IsFiniteSet, IsFiniteSet
<1>. QED BY <1>1, <1>2 DEF SG!SessionGoalsAssumption

LEMMA GoalListType ==
  ASSUME NEW list
  PROVE  list \in SG!Lists <=> DOMAIN list \subseteq Goals /\ list \in [DOMAIN list -> SG!GoalType]
BY DEF SG!Lists

LEMMA EmptyList ==
  /\ SG!Empty \in SG!Lists /\ DOMAIN SG!Empty = {}
  /\ \A g : g \notin DOMAIN SG!Empty
BY GoalListType DEF SG!Empty

LEMMA FreshGoal ==
  SG!Fresh \in SG!GoalType /\ SG!Fresh.status = "active" /\ SG!Fresh.resolved = FALSE
BY DEF SG!Fresh, SG!GoalType

LEMMA WithList ==
  ASSUME NEW list \in SG!Lists, NEW g \in Goals, NEW x \in SG!GoalType
  PROVE  /\ SG!With(list, g, x) \in SG!Lists
         /\ DOMAIN SG!With(list, g, x) = DOMAIN list \cup {g}
         /\ \A z \in DOMAIN list \cup {g} :
              SG!With(list, g, x)[z] = IF z = g THEN x ELSE list[z]
<1>. DEFINE L == SG!With(list, g, x)
<1>1. DOMAIN list \subseteq Goals /\ list \in [DOMAIN list -> SG!GoalType]
  BY GoalListType
<1>2. /\ DOMAIN L = DOMAIN list \cup {g}
      /\ \A z \in DOMAIN list \cup {g} : L[z] = IF z = g THEN x ELSE list[z]
  BY DEF SG!With
<1>3. L \in [DOMAIN list \cup {g} -> SG!GoalType]
  BY <1>1 DEF SG!With
<1>. HIDE DEF L
<1>4. L \in SG!Lists
  BY <1>1, <1>2, <1>3, GoalListType
<1>. QED BY <1>2, <1>4 DEF L

LEMMA WithoutList ==
  ASSUME NEW list \in SG!Lists, NEW g
  PROVE  /\ SG!Without(list, g) \in SG!Lists
         /\ DOMAIN SG!Without(list, g) = DOMAIN list \ {g}
         /\ \A z \in DOMAIN list \ {g} : SG!Without(list, g)[z] = list[z]
<1>. DEFINE L == SG!Without(list, g)
<1>1. DOMAIN list \subseteq Goals /\ list \in [DOMAIN list -> SG!GoalType]
  BY GoalListType
<1>2. /\ DOMAIN L = DOMAIN list \ {g} /\ \A z \in DOMAIN list \ {g} : L[z] = list[z]
  BY DEF SG!Without
<1>3. L \in [DOMAIN list \ {g} -> SG!GoalType]
  BY <1>1 DEF SG!Without
<1>. HIDE DEF L
<1>4. L \in SG!Lists
  BY <1>1, <1>2, <1>3, GoalListType
<1>. QED BY <1>2, <1>4 DEF L

\* The sub-goals among some goals, counted as the module counts them.
Subs(D) == {g \in D : ParentOf[g] # NoGoal}

LEMMA SubCountIs ==
  ASSUME NEW list \in SG!Lists
  PROVE  /\ SG!SubCount(list) = Cardinality(Subs(DOMAIN list))
         /\ IsFiniteSet(Subs(DOMAIN list)) /\ SG!SubCount(list) \in Nat
<1>1. \A S : SG!Cardinality(S) = Cardinality(S)
  BY DEF Cardinality, SG!Cardinality, IsFiniteSet, SG!IsFiniteSet
<1>2. SG!SubCount(list) = Cardinality(Subs(DOMAIN list))
  BY <1>1 DEF SG!SubCount, Subs
<1>3. Subs(DOMAIN list) \subseteq Goals
  BY GoalListType DEF Subs
<1>. QED BY <1>2, <1>3, GoalsAssumed, FS_Subset, FS_CardinalityType

LEMMA EmptyCount == SG!SubCount(SG!Empty) = 0
<1>1. Subs(DOMAIN SG!Empty) = {}
  BY EmptyList DEF Subs
<1>. QED BY <1>1, EmptyList, SubCountIs, FS_EmptySet

\* A goal that is there, or is no sub-goal, leaves their number; a sub-goal adds one.
LEMMA WithCount ==
  ASSUME NEW list \in SG!Lists, NEW g \in Goals, NEW x \in SG!GoalType
  PROVE  /\ SG!SubCount(SG!With(list, g, x)) <= SG!SubCount(list) + 1
         /\ g \in DOMAIN list \/ ParentOf[g] = NoGoal =>
              SG!SubCount(SG!With(list, g, x)) = SG!SubCount(list)
<1>. DEFINE L == SG!With(list, g, x)
            D == DOMAIN list
<1>1. L \in SG!Lists /\ DOMAIN L = D \cup {g}
  BY WithList
<1>. HIDE DEF L
<1>2. /\ SG!SubCount(L) = Cardinality(Subs(D \cup {g}))
      /\ SG!SubCount(list) = Cardinality(Subs(D)) /\ IsFiniteSet(Subs(D))
      /\ SG!SubCount(list) \in Nat
  BY <1>1, SubCountIs
<1>3. CASE g \in D \/ ParentOf[g] = NoGoal
  <2>1. Subs(D \cup {g}) = Subs(D)
    BY <1>3 DEF Subs
  <2>. QED BY <1>2, <2>1 DEF L
<1>4. CASE ~(g \in D \/ ParentOf[g] = NoGoal)
  <2>1. Subs(D \cup {g}) = Subs(D) \cup {g} /\ g \notin Subs(D)
    BY <1>4 DEF Subs
  <2>2. Cardinality(Subs(D) \cup {g}) = Cardinality(Subs(D)) + 1
    BY <1>2, <2>1, FS_AddElement
  <2>3. SG!SubCount(L) = SG!SubCount(list) + 1
    BY <1>2, <2>1, <2>2
  <2>. QED BY <1>2, <1>4, <2>3 DEF L
<1>. QED BY <1>3, <1>4

LEMMA WithoutCount ==
  ASSUME NEW list \in SG!Lists, NEW g
  PROVE  SG!SubCount(SG!Without(list, g)) <= SG!SubCount(list)
<1>. DEFINE L == SG!Without(list, g)
<1>1. L \in SG!Lists /\ DOMAIN L = DOMAIN list \ {g}
  BY WithoutList
<1>. HIDE DEF L
<1>2. Subs(DOMAIN L) \subseteq Subs(DOMAIN list)
  BY <1>1 DEF Subs
<1>3. Cardinality(Subs(DOMAIN L)) <= Cardinality(Subs(DOMAIN list))
  BY <1>2, SubCountIs, FS_Subset
<1>4. SG!SubCount(L) <= SG!SubCount(list)
  BY <1>1, <1>3, SubCountIs
<1>. QED BY <1>4 DEF L

\* An update keeps the mark of the runtime.
LEMMA AppliedGoal ==
  ASSUME NEW goal \in SG!GoalType, NEW st \in {"active"} \cup SG!Ended
  PROVE  /\ SG!Applied(goal, st) \in SG!GoalType
         /\ SG!Applied(goal, st).resolved = goal.resolved /\ SG!Applied(goal, st).status = st
         /\ SG!Applied([goal EXCEPT !.status = st], st) = SG!Applied(goal, st)
BY DEF SG!Applied, SG!GoalType

LEMMA NewGoalType ==
  ASSUME NEW c \in SG!CallType, NEW old \in SG!GoalType
  PROVE  SG!NewGoal(c, old) \in SG!GoalType
<1>1. c.new \in SG!GoalType /\ c.status \in {"active"} \cup SG!Ended
  BY DEF SG!CallType
<1>2. SG!Applied(c.new, c.status) \in SG!GoalType /\ SG!Applied(old, c.status) \in SG!GoalType
  BY <1>1, AppliedGoal
<1>3. \A x \in SG!GoalType : [x EXCEPT !.resolved = TRUE] \in SG!GoalType
  BY DEF SG!GoalType
<1>4. [SG!Applied(old, c.status) EXCEPT !.resolved = TRUE] \in SG!GoalType
  BY <1>2, <1>3
<1>. QED BY <1>2, <1>4 DEF SG!NewGoal

\* What a call that may write makes of an auto goal that was sound.
LEMMA NewGoalSound ==
  ASSUME NEW c \in SG!CallType, NEW old \in SG!GoalType, NEW g \in AutoGoals, c.goal = g,
         NEW B, c.op \in SG!Writes,
         old.resolved \/ old.status \in SG!Ended => g \in B,
         c.op = "resolve" => g \in B, c.op = "copy" /\ c.new.resolved => g \in B,
         c.op = "copy" => c.new.status = c.status,
         c.op \in {"copy", "update"} => ~SG!Refused(g, old, SG!NewGoal(c, old))
  PROVE  SG!NewGoal(c, old).resolved \/ SG!NewGoal(c, old).status \in SG!Ended => g \in B
<1>1. c.new \in SG!GoalType /\ c.status \in {"active"} \cup SG!Ended
  BY DEF SG!CallType
<1>. DEFINE x == SG!NewGoal(c, old)
<1>2. CASE c.op = "copy"
  <2>1. x.resolved = c.new.resolved
    BY <1>1, <1>2, AppliedGoal DEF SG!NewGoal
  <2>. QED BY <1>2, <2>1 DEF SG!Refused
<1>3. CASE c.op = "update"
  <2>1. x.resolved = old.resolved
    BY <1>1, <1>3, AppliedGoal DEF SG!NewGoal
  <2>. QED BY <1>3, <2>1 DEF SG!Refused
<1>4. CASE c.op = "resolve"
  BY <1>4
<1>5. CASE c.op \notin {"copy", "update", "resolve"}
  BY <1>5 DEF SG!NewGoal
<1>. QED BY <1>2, <1>3, <1>4, <1>5


------------------------------------------------------------------------------
(* SessionGoals: the steps *)

\* What a call has made sure of stays so.
LEMMA StaysPrepared ==
  ASSUME NEW c, SG!Prepared(c), byRuntime \subseteq byRuntime', raced => raced',
         \A h \in Turns : task[h].pc # "idle" =>
           task'[h].pc # "idle" /\ DOMAIN hold'[h] = DOMAIN hold[h]
  PROVE  SG!Prepared(c)'
BY DEF SG!Prepared, SG!EndingsTrue, SG!MarksTrue

LEMMA StrandStep ==
  ASSUME SG!IInv, NEW t \in SG!Strands, NEW c \in SG!CallType, task' = [task EXCEPT ![t] = c],
         c.pc # "idle", SG!Prepared(c)', byRuntime \subseteq byRuntime', raced => raced',
         \A h \in Turns : task[h].pc # "idle" => DOMAIN hold'[h] = DOMAIN hold[h]
  PROVE  task' \in [SG!Strands -> SG!CallType] /\ \A u \in SG!Strands : SG!Prepared(task[u])'
<1>1. /\ task \in [SG!Strands -> SG!CallType] /\ Turns \subseteq SG!Strands
      /\ \A u \in SG!Strands : task'[u] = IF u = t THEN c ELSE task[u]
  BY DEF SG!IInv, SG!Strands
<1>2. task' \in [SG!Strands -> SG!CallType]
  BY <1>1
<1>3. \A h \in Turns : task[h].pc # "idle" =>
        task'[h].pc # "idle" /\ DOMAIN hold'[h] = DOMAIN hold[h]
  BY <1>1
<1>4. ASSUME NEW u \in SG!Strands PROVE SG!Prepared(task[u])'
  <2>1. CASE u = t
    BY <1>1, <2>1
  <2>2. CASE u # t
    <3>1. PICK d : d = task[u]
      OBVIOUS
    <3>2. SG!Prepared(d)
      BY <3>1 DEF SG!IInv
    <3>3. SG!Prepared(d)'
      BY <1>3, <3>2, StaysPrepared
    <3>. QED BY <1>1, <2>2, <3>1, <3>3
  <2>. QED BY <2>1, <2>2
<1>. QED BY <1>2, <1>4

\* A step of one call that leaves the stored list alone.
LEMMA CallGoes ==
  ASSUME SG!IInv, NEW t \in SG!Strands, NEW c \in SG!CallType, task' = [task EXCEPT ![t] = c],
         c.pc # "idle", SG!Prepared(c)',
         UNCHANGED <<goals, expected, hold, byRuntime, stale, raced>>
  PROVE  SG!IInv'
<1>1. task' \in [SG!Strands -> SG!CallType] /\ \A u \in SG!Strands : SG!Prepared(task[u])'
  BY StrandStep
<1>2. /\ goals' \in SG!Lists /\ hold' \in [Turns -> SG!Lists]
      /\ \A h \in Turns : SG!MarksTrue(hold[h])'
      /\ SG!EndingsTrue(goals)' /\ SG!SubgoalLimit' /\ SG!GoalsKept'
  BY DEF SG!IInv, SG!MarksTrue, SG!EndingsTrue, SG!SubgoalLimit, SG!GoalsKept
<1>. QED BY <1>1, <1>2 DEF SG!IInv

\* The list a call reads is the stored one or, Redis failing, the empty one.
LEMMA ListReadSound ==
  ASSUME SG!IInv, NEW list \in {goals, SG!Empty}
  PROVE  /\ list \in SG!Lists /\ SG!EndingsTrue(list) /\ SG!MarksTrue(list)
         /\ SG!SubCount(list) \in Nat /\ (~raced => SG!SubCount(list) <= SubLimit)
<1>1. CASE list = goals
  BY <1>1, SubCountIs DEF SG!IInv, SG!EndingsTrue, SG!SubgoalLimit
<1>2. CASE list = SG!Empty
  BY <1>2, EmptyList, EmptyCount, GoalsAssumed DEF SG!EndingsTrue, SG!MarksTrue
<1>. QED BY <1>1, <1>2

\* A call that waits for hints, or is done, has nothing to be sure of.
LEMMA RestPrepared == ASSUME NEW c, c.pc \in {"hints", "done"} PROVE SG!Prepared(c)'
BY DEF SG!Prepared

LEMMA IdleStrand ==
  /\ SG!Idle \in SG!CallType /\ SG!Done \in SG!CallType /\ SG!Done.pc = "done"
  /\ SG!Idle.pc = "idle" /\ SG!Idle.op = "none"
  /\ \A n \in Nat : [SG!Idle EXCEPT !.pc = "hints", !.hints = n] \in SG!CallType
  /\ \A n \in Nat : [SG!Idle EXCEPT !.pc = "hints", !.hints = n].pc = "hints"
BY FreshGoal, EmptyList DEF SG!Idle, SG!Done, SG!CallType

LEMMA BackIs ==
  ASSUME SG!IInv, NEW t \in SG!Strands
  PROVE  SG!Back(t) \in SG!CallType /\ SG!Back(t).pc \in {"hints", "done"}
<1>1. task[t].hints \in Nat
  BY DEF SG!IInv, SG!CallType
<1>. QED BY <1>1, IdleStrand DEF SG!Back

LEMMA BeginTurnSound ==
  ASSUME SG!IInv, NEW h \in Turns, SG!BeginTurn(h) PROVE SG!IInv'
<1>1. PICK list \in {goals, SG!Empty} : hold' = [hold EXCEPT ![h] = list]
  BY DEF SG!BeginTurn
<1>2. PICK c : c = [task[h] EXCEPT !.pc = "hints"]
  OBVIOUS
<1>3. h \in SG!Strands /\ task[h] \in SG!CallType
  BY DEF SG!IInv, SG!Strands
<1>4. c \in SG!CallType /\ c.pc = "hints"
  BY <1>2, <1>3 DEF SG!CallType
<1>5. /\ task' = [task EXCEPT ![h] = c] /\ task[h].pc = "idle"
      /\ UNCHANGED <<goals, expected, byRuntime, stale, raced>>
  BY <1>2 DEF SG!BeginTurn
<1>6. SG!Prepared(c)'
  BY <1>4, RestPrepared
<1>7. \A g \in Turns : hold'[g] = IF g = h THEN list ELSE hold[g]
  BY <1>1 DEF SG!IInv
<1>8. task' \in [SG!Strands -> SG!CallType] /\ \A u \in SG!Strands : SG!Prepared(task[u])'
  <2>1. \A g \in Turns : task[g].pc # "idle" => DOMAIN hold'[g] = DOMAIN hold[g]
    BY <1>5, <1>7
  <2>. QED BY <1>3, <1>4, <1>5, <1>6, <2>1, StrandStep
<1>9. /\ hold' \in [Turns -> SG!Lists] /\ \A g \in Turns : SG!MarksTrue(hold[g])'
  <2>1. list \in SG!Lists /\ SG!MarksTrue(list)
    BY ListReadSound
  <2>2. hold' \in [Turns -> SG!Lists]
    BY <1>1, <2>1 DEF SG!IInv
  <2>3. \A g \in Turns : SG!MarksTrue(hold[g])'
    BY <1>5, <1>7, <2>1 DEF SG!IInv, SG!MarksTrue
  <2>. QED BY <2>2, <2>3
<1>10. goals' \in SG!Lists /\ SG!EndingsTrue(goals)' /\ SG!SubgoalLimit' /\ SG!GoalsKept'
  BY <1>5 DEF SG!IInv, SG!MarksTrue, SG!EndingsTrue, SG!SubgoalLimit, SG!GoalsKept
<1>. QED BY <1>8, <1>9, <1>10 DEF SG!IInv

LEMMA HintSound ==
  ASSUME SG!IInv, NEW h \in Turns, NEW g \in Goals,
         NEW st \in {"completed", "abandoned", "progressed"}, SG!Hint(h, g, st)
  PROVE  SG!IInv'
<1>1. PICK was : was = hold[h][g]
  OBVIOUS
<1>2. PICK now : now = IF st = "progressed" THEN was ELSE [was EXCEPT !.status = st]
  OBVIOUS
<1>3. PICK c : c = [task[h] EXCEPT !.pc = "get", !.op = "copy", !.goal = g, !.was = was,
                      !.new = now, !.status = now.status, !.hints = @ + 1]
  OBVIOUS
<1>4. /\ task[h].pc = "hints" /\ g \in DOMAIN hold[h]
      /\ hold' = [hold EXCEPT ![h] = [hold[h] EXCEPT ![g] = now]]
      /\ task' = [task EXCEPT ![h] = c]
      /\ UNCHANGED <<goals, expected, byRuntime, stale, raced>>
  <2>1. hold' = [hold EXCEPT ![h][g] = now]
    BY <1>1, <1>2 DEF SG!Hint
  <2>2. task' = [task EXCEPT ![h] = c]
    BY <1>1, <1>2, <1>3 DEF SG!Hint
  <2>. QED BY <2>1, <2>2 DEF SG!Hint
<1>5. /\ h \in SG!Strands /\ task[h] \in SG!CallType /\ hold[h] \in SG!Lists
      /\ SG!MarksTrue(hold[h])
  BY DEF SG!IInv, SG!Strands
<1>6. was \in SG!GoalType
  BY <1>1, <1>4, <1>5, GoalListType
<1>7. /\ now \in SG!GoalType /\ now.resolved = was.resolved
      /\ now = [was EXCEPT !.status = now.status]
  BY <1>2, <1>6 DEF SG!GoalType, SG!Ended
<1>8. c \in SG!CallType
  <2>1. now.status \in {"active"} \cup SG!Ended
    BY <1>7 DEF SG!GoalType
  <2>2. task[h].hints + 1 \in Nat
    BY <1>5 DEF SG!CallType
  <2>. QED BY <1>3, <1>5, <1>6, <1>7, <2>1, <2>2 DEF SG!CallType, SG!Writes
<1>9. /\ c.pc = "get" /\ c.op = "copy" /\ c.goal = g /\ c.was = was /\ c.new = now
      /\ c.status = now.status
  BY <1>3, <1>5 DEF SG!CallType
<1>10. now.resolved /\ g \in AutoGoals => g \in byRuntime
  BY <1>1, <1>4, <1>5, <1>7 DEF SG!MarksTrue
<1>11. SG!Prepared(c)'
  BY <1>4, <1>7, <1>9, <1>10 DEF SG!Prepared, SG!Writes
<1>12. /\ [hold[h] EXCEPT ![g] = now] \in SG!Lists
       /\ DOMAIN [hold[h] EXCEPT ![g] = now] = DOMAIN hold[h]
       /\ \A z \in DOMAIN hold[h] :
            [hold[h] EXCEPT ![g] = now][z] = IF z = g THEN now ELSE hold[h][z]
  BY <1>5, <1>7, GoalListType
<1>13. \A k \in Turns : hold'[k] = IF k = h THEN [hold[h] EXCEPT ![g] = now] ELSE hold[k]
  BY <1>4 DEF SG!IInv
<1>14. task' \in [SG!Strands -> SG!CallType] /\ \A u \in SG!Strands : SG!Prepared(task[u])'
  <2>1. \A k \in Turns : task[k].pc # "idle" => DOMAIN hold'[k] = DOMAIN hold[k]
    BY <1>12, <1>13
  <2>. QED BY <1>4, <1>5, <1>8, <1>9, <1>11, <2>1, StrandStep
<1>15. hold' \in [Turns -> SG!Lists] /\ \A k \in Turns : SG!MarksTrue(hold[k])'
  <2>1. hold' \in [Turns -> SG!Lists]
    BY <1>4, <1>12 DEF SG!IInv
  <2>2. ASSUME NEW k \in Turns PROVE SG!MarksTrue(hold[k])'
    <3>1. CASE k = h
      <4>1. \A z \in DOMAIN hold'[k] \cap AutoGoals : hold'[k][z].resolved => z \in byRuntime'
        BY <1>4, <1>5, <1>10, <1>12, <1>13, <3>1 DEF SG!MarksTrue
      <4>. QED BY <4>1 DEF SG!MarksTrue
    <3>2. CASE k # h
      BY <1>4, <1>13, <3>2 DEF SG!IInv, SG!MarksTrue
    <3>. QED BY <3>1, <3>2
  <2>. QED BY <2>1, <2>2
<1>16. goals' \in SG!Lists /\ SG!EndingsTrue(goals)' /\ SG!SubgoalLimit' /\ SG!GoalsKept'
  BY <1>4 DEF SG!IInv, SG!MarksTrue, SG!EndingsTrue, SG!SubgoalLimit, SG!GoalsKept
<1>. QED BY <1>14, <1>15, <1>16 DEF SG!IInv

LEMMA DonePrepared == SG!Prepared(SG!Done)'
BY DEF SG!Prepared, SG!Done, SG!Idle


LEMMA DelegateSound ==
  ASSUME SG!IInv, NEW h \in Turns, NEW w \in Workers, NEW op \in {"refine", "add"},
         NEW g \in Goals, SG!Delegate(h, w, op, g)
  PROVE  SG!IInv'
<1>1. /\ h \in SG!Strands /\ w \in SG!Strands /\ task[h] \in SG!CallType
      /\ task[w] \in SG!CallType /\ hold[h] \in SG!Lists
      /\ SG!Prepared(task[h]) /\ Turns \subseteq SG!Strands
  BY DEF SG!IInv, SG!Strands
<1>2. /\ task[h].pc = "hints" /\ task[w].pc = "idle"
      /\ IF op = "refine" THEN g \in DOMAIN hold[h] ELSE ParentOf[g] \in DOMAIN hold[h]
      /\ UNCHANGED <<goals, hold, expected, byRuntime, stale, raced>>
  BY DEF SG!Delegate
<1>3. PICK c : c = [task[h] EXCEPT !.hints = @ + 1]
  OBVIOUS
<1>4. PICK d : d = IF op = "add" /\ ~SG!Room(hold[h], g) THEN SG!Done
                   ELSE [task[w] EXCEPT !.pc = "think", !.op = op, !.goal = g, !.of = h,
                           !.count = SG!SubCount(hold[h])]
  OBVIOUS
<1>5. /\ task' \in [SG!Strands -> SG!CallType]
      /\ \A u \in SG!Strands :
           task'[u] = IF u = w THEN d ELSE IF u = h THEN c ELSE task[u]
      /\ c \in SG!CallType /\ c.pc = "hints" /\ d \in SG!CallType
  <2>1. SG!SubCount(hold[h]) \in Nat /\ task[h].hints + 1 \in Nat
    BY <1>1, SubCountIs DEF SG!CallType
  <2>2. c \in SG!CallType /\ c.pc = "hints"
    BY <1>1, <1>2, <1>3, <2>1 DEF SG!CallType
  <2>3. [task[w] EXCEPT !.pc = "think", !.op = op, !.goal = g, !.of = h,
                        !.count = SG!SubCount(hold[h])] \in SG!CallType
    <3>1. op \in SG!Writes \cup {"none", "refine"} /\ h \in Turns \cup {NoGoal}
      BY DEF SG!Writes
    <3>. QED BY <1>1, <2>1, <3>1 DEF SG!CallType
  <2>4. d \in SG!CallType
    BY <1>4, <2>3, IdleStrand
  <2>5. task' = [task EXCEPT ![h] = c, ![w] = d]
    <3>1. h # w
      BY <1>2
    <3>. QED BY <1>1, <1>3, <1>4, <3>1 DEF SG!Delegate, SG!IInv
  <2>. QED BY <1>1, <1>2, <2>2, <2>4, <2>5 DEF SG!IInv
<1>6. SG!Prepared(d)'
  <2>1. CASE op = "add" /\ ~SG!Room(hold[h], g)
    BY <1>4, <2>1, DonePrepared
  <2>2. CASE ~(op = "add" /\ ~SG!Room(hold[h], g))
    <3>1. /\ d.pc = "think" /\ d.op = op /\ d.goal = g /\ d.of = h
          /\ d.count = SG!SubCount(hold[h])
      BY <1>1, <1>4, <2>2 DEF SG!CallType
    <3>2. task'[h].pc # "idle"
      BY <1>1, <1>2, <1>5
    <3>3. op = "add" => d.count < SubLimit
      BY <2>2, <3>1 DEF SG!Room
    <3>. QED BY <1>2, <3>1, <3>2, <3>3 DEF SG!Prepared
  <2>. QED BY <2>1, <2>2
<1>7. SG!Prepared(c)'
  BY <1>5, RestPrepared
<1>8. \A u \in SG!Strands : SG!Prepared(task[u])'
  <2>1. \A k \in Turns : task[k].pc # "idle" =>
          task'[k].pc # "idle" /\ DOMAIN hold'[k] = DOMAIN hold[k]
    BY <1>1, <1>2, <1>5
  <2>2. ASSUME NEW u \in SG!Strands, u # w, u # h PROVE SG!Prepared(task[u])'
    <3>1. PICK e : e = task[u]
      OBVIOUS
    <3>2. SG!Prepared(e)
      BY <3>1 DEF SG!IInv
    <3>3. SG!Prepared(e)'
      BY <1>2, <2>1, <3>2, StaysPrepared
    <3>. QED BY <1>5, <2>2, <3>1, <3>3
  <2>. QED BY <1>5, <1>6, <1>7, <2>2
<1>9. /\ goals' \in SG!Lists /\ hold' \in [Turns -> SG!Lists]
      /\ \A k \in Turns : SG!MarksTrue(hold[k])'
      /\ SG!EndingsTrue(goals)' /\ SG!SubgoalLimit' /\ SG!GoalsKept'
  BY <1>2 DEF SG!IInv, SG!MarksTrue, SG!EndingsTrue, SG!SubgoalLimit, SG!GoalsKept
<1>. QED BY <1>5, <1>8, <1>9 DEF SG!IInv

LEMMA ThinkSound ==
  ASSUME SG!IInv, NEW w \in Workers, SG!Think(w) PROVE SG!IInv'
<1>1. /\ w \in SG!Strands /\ task[w] \in SG!CallType /\ SG!Prepared(task[w])
      /\ task[w].pc = "think" /\ UNCHANGED <<goals, hold, expected, byRuntime, stale, raced>>
  BY DEF SG!IInv, SG!Strands, SG!Think
<1>2. task[w].op \in {"refine", "add"} /\ task[w].goal \in Goals
  BY <1>1 DEF SG!Prepared
<1>3. CASE task[w].op = "refine"
  <2>1. PICK g, h : g = task[w].goal /\ h = task[w].of
    OBVIOUS
  <2>2. PICK c : c = [task[w] EXCEPT !.pc = "get", !.op = "copy", !.was = hold[h][g],
                        !.new = hold[h][g], !.status = hold[h][g].status]
    OBVIOUS
  <2>3. task' = [task EXCEPT ![w] = c]
    BY <1>3, <2>1, <2>2 DEF SG!Think
  <2>4. h \in Turns /\ g \in DOMAIN hold[h] /\ g \in Goals
    BY <1>1, <1>2, <1>3, <2>1 DEF SG!Prepared
  <2>5. hold[h] \in SG!Lists /\ SG!MarksTrue(hold[h])
    BY <2>4 DEF SG!IInv
  <2>6. hold[h][g] \in SG!GoalType
    BY <2>4, <2>5, GoalListType
  <2>7. hold[h][g].status \in {"active"} \cup SG!Ended
        /\ hold[h][g] = [hold[h][g] EXCEPT !.status = hold[h][g].status]
    BY <2>6 DEF SG!GoalType
  <2>8. c \in SG!CallType
    BY <1>1, <2>2, <2>6, <2>7 DEF SG!CallType, SG!Writes
  <2>9. /\ c.pc = "get" /\ c.op = "copy" /\ c.goal = g /\ c.was = hold[h][g]
        /\ c.new = hold[h][g] /\ c.status = hold[h][g].status
    BY <1>1, <2>1, <2>2 DEF SG!CallType
  <2>10. SG!Prepared(c)'
    BY <1>1, <2>4, <2>5, <2>7, <2>9 DEF SG!Prepared, SG!Writes, SG!MarksTrue
  <2>. QED BY <1>1, <2>3, <2>8, <2>9, <2>10, CallGoes
<1>4. CASE task[w].op = "add"
  <2>1. PICK c : c = [task[w] EXCEPT !.pc = "get"]
    OBVIOUS
  <2>2. task' = [task EXCEPT ![w] = c]
    BY <1>4, <2>1 DEF SG!Think
  <2>3. /\ c \in SG!CallType /\ c.pc = "get" /\ c.op = "add" /\ c.goal = task[w].goal
        /\ c.count = task[w].count
    BY <1>1, <1>4, <2>1 DEF SG!CallType
  <2>4. SG!Prepared(c)'
    BY <1>1, <1>2, <1>4, <2>3 DEF SG!Prepared, SG!Writes
  <2>. QED BY <1>1, <2>2, <2>3, <2>4, CallGoes
<1>. QED BY <1>2, <1>3, <1>4

LEMMA EndTurnSound ==
  ASSUME SG!IInv, NEW h \in Turns, SG!EndTurn(h) PROVE SG!IInv'
<1>1. /\ h \in SG!Strands /\ task' = [task EXCEPT ![h] = SG!Done]
      /\ UNCHANGED <<goals, hold, expected, byRuntime, stale, raced>>
  BY DEF SG!Strands, SG!EndTurn
<1>. QED BY <1>1, DonePrepared, IdleStrand, CallGoes

LEMMA PostGoalSound ==
  ASSUME SG!IInv, NEW r \in Requests, NEW g \in Goals, SG!PostGoal(r, g) PROVE SG!IInv'
<1>1. /\ r \in SG!Strands /\ task[r] \in SG!CallType /\ task[r].pc = "idle"
      /\ UNCHANGED <<goals, hold, expected, byRuntime, stale, raced>>
  BY DEF SG!IInv, SG!Strands, SG!PostGoal
<1>2. PICK list \in {goals, SG!Empty} :
        task' = [task EXCEPT ![r] =
          IF /\ g \notin DOMAIN list
             /\ ParentOf[g] = NoGoal \/ (ParentOf[g] \in DOMAIN list /\ SG!Room(list, g))
          THEN [task[r] EXCEPT !.pc = "get", !.op = "add", !.goal = g,
                               !.count = SG!SubCount(list)]
          ELSE SG!Done]
  BY DEF SG!PostGoal
<1>3. CASE task' = [task EXCEPT ![r] = SG!Done]
  BY <1>1, <1>3, IdleStrand, DonePrepared, CallGoes
<1>4. ASSUME ParentOf[g] = NoGoal \/ SG!Room(list, g),
             task' = [task EXCEPT ![r] = [task[r] EXCEPT !.pc = "get", !.op = "add", !.goal = g,
                                            !.count = SG!SubCount(list)]]
      PROVE  SG!IInv'
  <2>1. PICK c : c = [task[r] EXCEPT !.pc = "get", !.op = "add", !.goal = g,
                                     !.count = SG!SubCount(list)]
    OBVIOUS
  <2>2. SG!SubCount(list) \in Nat
    BY ListReadSound
  <2>3. /\ c \in SG!CallType /\ c.pc = "get" /\ c.op = "add" /\ c.goal = g
        /\ c.count = SG!SubCount(list)
    BY <1>1, <2>1, <2>2 DEF SG!CallType, SG!Writes
  <2>4. SG!Prepared(c)'
    BY <1>4, <2>3 DEF SG!Prepared, SG!Writes, SG!Room
  <2>. QED BY <1>1, <1>4, <2>1, <2>3, <2>4, CallGoes
<1>. QED BY <1>2, <1>3, <1>4

LEMMA RequestSound ==
  ASSUME SG!IInv, NEW r \in Requests, NEW g \in Goals,
         NEW op \in {"update", "resolve", "progress", "remove", "flush"},
         NEW st \in {"active", "completed", "abandoned"}, SG!Request(r, op, g, st)
  PROVE  SG!IInv'
<1>1. /\ r \in SG!Strands /\ task[r] \in SG!CallType /\ (op = "resolve" => g \in AutoGoals)
      /\ UNCHANGED <<goals, hold, expected, byRuntime, stale, raced>>
  BY DEF SG!IInv, SG!Strands, SG!Request
<1>2. PICK c : c = [task[r] EXCEPT !.pc = "get", !.op = op, !.status = st,
                                   !.goal = IF op = "flush" THEN NoGoal ELSE g]
  OBVIOUS
<1>3. task' = [task EXCEPT ![r] = c]
  BY <1>2 DEF SG!Request
<1>4. /\ c \in SG!CallType /\ c.pc = "get" /\ c.op = op
      /\ c.goal = IF op = "flush" THEN NoGoal ELSE g
  <2>1. (IF op = "flush" THEN NoGoal ELSE g) \in Goals \cup {NoGoal}
    OBVIOUS
  <2>2. op \in SG!Writes \cup {"none", "refine"} /\ st \in {"active"} \cup SG!Ended
    BY DEF SG!Writes, SG!Ended
  <2>3. c = [task[r] EXCEPT !.pc = "get", !.op = op, !.status = st, !.goal = c.goal]
        /\ c.goal = IF op = "flush" THEN NoGoal ELSE g
    BY <1>1, <1>2 DEF SG!CallType
  <2>4. c \in SG!CallType
    BY <1>1, <2>1, <2>2, <2>3 DEF SG!CallType
  <2>5. c.pc = "get" /\ c.op = op
    BY <1>1, <1>2 DEF SG!CallType
  <2>. QED BY <2>3, <2>4, <2>5
<1>5. SG!Prepared(c)'
  BY <1>1, <1>4 DEF SG!Prepared, SG!Writes
<1>. QED BY <1>1, <1>3, <1>4, <1>5, CallGoes

LEMMA GetSound ==
  ASSUME SG!IInv, NEW t \in SG!Strands, SG!Get(t) PROVE SG!IInv'
<1>1. /\ task[t] \in SG!CallType /\ task[t].pc = "get" /\ SG!Prepared(task[t])
      /\ UNCHANGED <<goals, hold, expected, byRuntime, stale, raced>>
  BY DEF SG!IInv, SG!Get
<1>2. PICK list \in {goals, SG!Empty} :
        \/ task' = [task EXCEPT ![t] = SG!Back(t)]
        \/ task' = [task EXCEPT ![t] = SG!Done]
        \/ /\ task[t].op \notin {"add", "flush"} => task[t].goal \in DOMAIN list
           /\ task[t].op # "flush" /\ task[t].goal \in DOMAIN list => ~SG!RefusedCall(t, list)
           /\ task' = [task EXCEPT ![t] = [task[t] EXCEPT !.pc = "set", !.base = list]]
  BY DEF SG!Get
<1>3. CASE task' = [task EXCEPT ![t] = SG!Back(t)]
  <2>1. PICK y : y = SG!Back(t)
    OBVIOUS
  <2>2. y \in SG!CallType /\ y.pc \in {"hints", "done"}
    BY <2>1, BackIs
  <2>3. SG!Prepared(y)'
    BY <2>2, RestPrepared
  <2>4. task' = [task EXCEPT ![t] = y] /\ y.pc # "idle"
    BY <1>3, <2>1, <2>2
  <2>. QED BY <1>1, <2>2, <2>3, <2>4, CallGoes
<1>4. CASE task' = [task EXCEPT ![t] = SG!Done]
  BY <1>1, <1>4, IdleStrand, DonePrepared, CallGoes
<1>5. ASSUME task[t].op \notin {"add", "flush"} => task[t].goal \in DOMAIN list,
             task[t].op # "flush" /\ task[t].goal \in DOMAIN list => ~SG!RefusedCall(t, list),
             task' = [task EXCEPT ![t] = [task[t] EXCEPT !.pc = "set", !.base = list]]
      PROVE  SG!IInv'
  <2>1. PICK c : c = [task[t] EXCEPT !.pc = "set", !.base = list]
    OBVIOUS
  <2>2. /\ list \in SG!Lists /\ SG!EndingsTrue(list)
        /\ SG!SubCount(list) \in Nat /\ (~raced => SG!SubCount(list) <= SubLimit)
    BY ListReadSound
  <2>3. /\ c \in SG!CallType /\ c.pc = "set" /\ c.base = list /\ c.op = task[t].op
        /\ c.goal = task[t].goal /\ c.status = task[t].status /\ c.was = task[t].was
        /\ c.new = task[t].new /\ c.count = task[t].count
    BY <1>1, <2>1, <2>2 DEF SG!CallType
  <2>4. \A old : SG!NewGoal(c, old) = SG!NewGoal(task[t], old)
    BY <2>3 DEF SG!NewGoal
  <2>5. c.op \in {"copy", "update"} =>
          ~SG!Refused(c.goal, c.base[c.goal], SG!NewGoal(c, c.base[c.goal]))
    BY <1>5, <2>3, <2>4 DEF SG!RefusedCall
  <2>6. /\ c.op \in SG!Writes /\ (c.op = "flush" \/ c.goal \in Goals)
        /\ c.op = "resolve" => c.goal \in AutoGoals
        /\ c.op = "copy" => /\ c.new = [c.was EXCEPT !.status = c.status]
                            /\ c.new.resolved /\ c.goal \in AutoGoals => c.goal \in byRuntime
        /\ c.op = "add" /\ ParentOf[c.goal] # NoGoal => c.count < SubLimit
    BY <1>1, <2>3 DEF SG!Prepared
  <2>7. PICK b : b = list
    OBVIOUS
  <2>8. SG!EndingsTrue(b)'
    BY <1>1, <2>2, <2>7 DEF SG!EndingsTrue, SG!MarksTrue
  <2>9. SG!EndingsTrue(c.base)'
    BY <2>3, <2>7, <2>8
  <2>10. SG!Prepared(c)'
    BY <1>1, <1>5, <2>2, <2>3, <2>5, <2>6, <2>9 DEF SG!Prepared
  <2>. QED BY <1>1, <1>5, <2>1, <2>3, <2>10, CallGoes
<1>. QED BY <1>2, <1>3, <1>4, <1>5

\* What is about to be stored is as sound as what was read.
LEMMA NewListSound ==
  ASSUME SG!IInv, NEW t \in SG!Strands, task[t].pc = "set", NEW c, c = task[t],
         NEW n, n = SG!NewList(t, c.base),
         NEW B, B = IF c.op = "resolve" THEN byRuntime \cup {c.goal} ELSE byRuntime
  PROVE  /\ n \in SG!Lists
         /\ \A g \in DOMAIN n \cap AutoGoals :
              n[g].resolved \/ n[g].status \in SG!Ended => g \in B
         /\ ~raced /\ ~(c.op = "add" /\ c.count # SG!SubCount(c.base)) =>
              SG!SubCount(n) <= SubLimit
<1>1. c \in SG!CallType /\ SG!Prepared(c) /\ c.pc = "set"
  BY DEF SG!IInv
<1>2. PICK b : b = c.base
  OBVIOUS
<1>3. /\ b \in SG!Lists /\ SG!SubCount(b) \in Nat
      /\ DOMAIN b \subseteq Goals /\ \A g \in DOMAIN b : b[g] \in SG!GoalType
      /\ c.op \in SG!Writes /\ c.count \in Nat
  <2>1. b \in SG!Lists /\ c.count \in Nat
    BY <1>1, <1>2 DEF SG!CallType
  <2>. QED BY <1>1, <2>1, SubCountIs, GoalListType DEF SG!Prepared
<1>4. /\ ~raced => SG!SubCount(b) <= SubLimit
      /\ \A g \in DOMAIN b \cap AutoGoals :
           b[g].resolved \/ b[g].status \in SG!Ended => g \in byRuntime
  BY <1>1, <1>2 DEF SG!Prepared, SG!EndingsTrue, SG!MarksTrue
<1>5. byRuntime \subseteq B /\ SubLimit \in Nat
  BY GoalsAssumed
<1>6. CASE c.op = "add"
  <2>1. c.goal \in Goals /\ (ParentOf[c.goal] # NoGoal => c.count < SubLimit)
    BY <1>1, <1>6 DEF SG!Prepared
  <2>2. n = SG!With(b, c.goal, SG!Fresh)
    BY <1>2, <1>6 DEF SG!NewList
  <2>3. /\ n \in SG!Lists /\ DOMAIN n = DOMAIN b \cup {c.goal}
        /\ \A z \in DOMAIN b \cup {c.goal} : n[z] = IF z = c.goal THEN SG!Fresh ELSE b[z]
        /\ SG!SubCount(n) <= SG!SubCount(b) + 1
        /\ ParentOf[c.goal] = NoGoal => SG!SubCount(n) = SG!SubCount(b)
    <3>1. SG!Fresh \in SG!GoalType
      BY FreshGoal
    <3>2. /\ n \in SG!Lists /\ DOMAIN n = DOMAIN b \cup {c.goal}
          /\ \A z \in DOMAIN b \cup {c.goal} : n[z] = IF z = c.goal THEN SG!Fresh ELSE b[z]
      <4>1. b \in SG!Lists
        BY <1>3
      <4>2. n \in SG!Lists /\ DOMAIN n = DOMAIN b \cup {c.goal}
        <5>1. PICK g, f : g = c.goal /\ f = SG!Fresh
          OBVIOUS
        <5>2. SG!With(b, g, f) \in SG!Lists /\ DOMAIN SG!With(b, g, f) = DOMAIN b \cup {g}
          BY <2>1, <3>1, <4>1, <5>1, WithList
        <5>. QED BY <2>2, <5>1, <5>2
      <4>3. \A z \in DOMAIN b \cup {c.goal} : n[z] = IF z = c.goal THEN SG!Fresh ELSE b[z]
        BY <2>2 DEF SG!With
      <4>. QED BY <4>2, <4>3
    <3>3. /\ SG!SubCount(n) <= SG!SubCount(b) + 1
          /\ ParentOf[c.goal] = NoGoal => SG!SubCount(n) = SG!SubCount(b)
      BY <1>3, <2>1, <2>2, <3>1, WithCount
    <3>. QED BY <3>2, <3>3
  <2>4. SG!SubCount(n) \in Nat
    BY <2>3, SubCountIs
  <2>5. \A g \in DOMAIN n \cap AutoGoals :
          n[g].resolved \/ n[g].status \in SG!Ended => g \in B
    BY <1>4, <1>5, <2>3, FreshGoal DEF SG!Ended
  <2>6. ~raced /\ ~(c.op = "add" /\ c.count # SG!SubCount(c.base)) => SG!SubCount(n) <= SubLimit
    BY <1>2, <1>3, <1>4, <1>5, <1>6, <2>1, <2>3, <2>4
  <2>. QED BY <2>3, <2>5, <2>6
<1>7. CASE c.op = "remove"
  <2>1. n = SG!Without(b, c.goal)
    BY <1>2, <1>7 DEF SG!NewList
  <2>2. /\ n \in SG!Lists /\ DOMAIN n = DOMAIN b \ {c.goal}
        /\ \A z \in DOMAIN b \ {c.goal} : n[z] = b[z]
        /\ SG!SubCount(n) <= SG!SubCount(b)
    <3>1. /\ n \in SG!Lists /\ DOMAIN n = DOMAIN b \ {c.goal}
          /\ \A z \in DOMAIN b \ {c.goal} : n[z] = b[z]
      <4>1. b \in SG!Lists
        BY <1>3
      <4>. QED BY <2>1, <4>1, WithoutList
    <3>2. SG!SubCount(n) <= SG!SubCount(b)
      BY <1>3, <2>1, WithoutCount
    <3>. QED BY <3>1, <3>2
  <2>3. SG!SubCount(n) \in Nat
    BY <2>2, SubCountIs
  <2>4. \A g \in DOMAIN n \cap AutoGoals :
          n[g].resolved \/ n[g].status \in SG!Ended => g \in B
    BY <1>4, <1>5, <2>2
  <2>. QED BY <1>3, <1>4, <1>5, <2>2, <2>3, <2>4
<1>8. CASE c.op = "flush"
  <2>1. n = SG!Empty
    BY <1>8 DEF SG!NewList
  <2>. QED BY <1>5, <2>1, EmptyList, EmptyCount
<1>9. CASE c.op \notin {"add", "remove", "flush"}
  <2>1. PICK g : g = c.goal
    OBVIOUS
  <2>2. g \in DOMAIN b /\ g \in Goals
    BY <1>1, <1>2, <1>3, <1>9, <2>1 DEF SG!Prepared
  <2>3. PICK x : x = SG!NewGoal(c, b[g])
    OBVIOUS
  <2>4. n = SG!With(b, g, x)
    BY <1>2, <1>9, <2>1, <2>3 DEF SG!NewList
  <2>5. x \in SG!GoalType
    BY <1>1, <1>3, <2>2, <2>3, NewGoalType
  <2>6. /\ n \in SG!Lists /\ DOMAIN n = DOMAIN b \cup {g}
        /\ \A z \in DOMAIN b \cup {g} : n[z] = IF z = g THEN x ELSE b[z]
        /\ SG!SubCount(n) = SG!SubCount(b)
    <3>1. /\ n \in SG!Lists /\ DOMAIN n = DOMAIN b \cup {g}
          /\ \A z \in DOMAIN b \cup {g} : n[z] = IF z = g THEN x ELSE b[z]
      <4>1. b \in SG!Lists
        BY <1>3
      <4>. QED BY <2>2, <2>4, <2>5, <4>1, WithList
    <3>2. SG!SubCount(n) = SG!SubCount(b)
      BY <1>3, <2>2, <2>4, <2>5, WithCount
    <3>. QED BY <3>1, <3>2
  <2>7. ASSUME g \in AutoGoals PROVE x.resolved \/ x.status \in SG!Ended => g \in B
    <3>1. /\ c.op = "copy" => c.new = [c.was EXCEPT !.status = c.status]
          /\ c.op = "copy" /\ c.new.resolved => g \in B
          /\ c.op \in {"copy", "update"} => ~SG!Refused(g, b[g], SG!NewGoal(c, b[g]))
      BY <1>1, <1>2, <1>5, <2>1, <2>7 DEF SG!Prepared
    <3>2. c.op = "copy" => c.new.status = c.status
      BY <1>1, <3>1 DEF SG!CallType, SG!GoalType
    <3>3. b[g].resolved \/ b[g].status \in SG!Ended => g \in B
      BY <1>4, <1>5, <2>2, <2>7
    <3>4. c.op = "resolve" => g \in B
      BY <2>1
    <3>5. b[g] \in SG!GoalType
      BY <1>3, <2>2
    <3>. QED BY <1>1, <1>3, <2>1, <2>3, <2>7, <3>1, <3>2, <3>3, <3>4, <3>5, NewGoalSound
  <2>8. \A z \in DOMAIN n \cap AutoGoals :
          n[z].resolved \/ n[z].status \in SG!Ended => z \in B
    BY <1>4, <1>5, <2>2, <2>6, <2>7
  <2>. QED BY <1>4, <2>6, <2>8
<1>. QED BY <1>6, <1>7, <1>8, <1>9

\* A call that nothing has overtaken stores what it was asked for.
LEMMA NewListKept ==
  ASSUME SG!IInv, NEW t \in SG!Strands, task[t].pc = "set", ~stale, ~SG!Overtaken(t),
         NEW c, c = task[t]
  PROVE  SG!NewList(t, c.base) = SG!Effect(t, expected)
<1>1. c \in SG!CallType /\ SG!Prepared(c) /\ c.pc = "set"
  BY DEF SG!IInv
<1>2. c.base = goals /\ goals = expected /\ goals \in SG!Lists
  BY DEF SG!Overtaken, SG!IInv, SG!GoalsKept
<1>3. CASE c.op \in {"add", "remove", "flush"}
  BY <1>2, <1>3 DEF SG!NewList, SG!Effect
<1>4. CASE c.op \notin {"add", "remove", "flush"}
  <2>1. PICK g, l : g = c.goal /\ l = goals
    OBVIOUS
  <2>2. g \in DOMAIN l /\ l[g] \in SG!GoalType /\ l \in [DOMAIN l -> SG!GoalType]
    BY <1>1, <1>2, <1>4, <2>1, GoalListType DEF SG!Prepared
  <2>3. SG!NewList(t, c.base) = SG!With(l, g, SG!NewGoal(c, l[g]))
    BY <1>2, <1>4, <2>1 DEF SG!NewList
  <2>4. CASE c.op = "progress"
    <3>1. SG!NewGoal(c, l[g]) = l[g]
      BY <2>4 DEF SG!NewGoal
    <3>2. SG!With(l, g, l[g]) = l
      BY <2>2 DEF SG!With
    <3>3. SG!Effect(t, expected) = l
      BY <1>2, <2>1, <2>4 DEF SG!Effect
    <3>. QED BY <2>3, <3>1, <3>2, <3>3
  <2>5. CASE c.op = "resolve"
    BY <1>2, <2>1, <2>2, <2>3, <2>5 DEF SG!Effect, SG!NewGoal
  <2>6. CASE c.op \notin {"progress", "resolve"}
    <3>1. SG!Effect(t, expected) = SG!With(l, g, SG!Applied(l[g], c.status))
      BY <1>2, <1>4, <2>1, <2>2, <2>6 DEF SG!Effect
    <3>2. c.op \in {"copy", "update"}
      BY <1>1, <1>4, <2>6 DEF SG!Prepared, SG!Writes
    <3>3. CASE c.op = "update"
      BY <2>3, <3>1, <3>3 DEF SG!NewGoal
    <3>4. CASE c.op = "copy"
      <4>1. l[g] = c.was /\ c.new = [c.was EXCEPT !.status = c.status]
        BY <1>1, <1>2, <2>1, <3>4 DEF SG!Overtaken, SG!Prepared
      <4>2. c.status \in {"active"} \cup SG!Ended
        BY <1>1 DEF SG!CallType
      <4>3. SG!Applied(c.new, c.status) = SG!Applied(l[g], c.status)
        BY <2>2, <4>1, <4>2, AppliedGoal
      <4>. QED BY <2>3, <3>1, <3>4, <4>3 DEF SG!NewGoal
    <3>. QED BY <3>2, <3>3, <3>4
  <2>. QED BY <2>4, <2>5, <2>6
<1>. QED BY <1>3, <1>4

LEMMA SetSound ==
  ASSUME SG!IInv, NEW t \in SG!Strands, SG!Set(t) PROVE SG!IInv'
<1>1. PICK c : c = task[t]
  OBVIOUS
<1>2. c \in SG!CallType /\ SG!Prepared(c) /\ c.pc = "set" /\ hold' = hold
  BY <1>1 DEF SG!IInv, SG!Set
<1>3. PICK n : n = SG!NewList(t, c.base)
  OBVIOUS
<1>4. PICK e : e = SG!Effect(t, expected)
  OBVIOUS
<1>5. PICK ok \in BOOLEAN :
        /\ goals' = IF ok \/ c.op = "flush" THEN n ELSE goals
        /\ expected' = IF ok \/ c.op = "flush" THEN e ELSE expected
        /\ byRuntime' = IF ok /\ c.op = "resolve" THEN byRuntime \cup {c.goal} ELSE byRuntime
        /\ stale' = (stale \/ ((ok \/ c.op = "flush") /\ SG!Overtaken(t))
                           \/ (c.op = "flush" /\ ~ok))
        /\ raced' = (raced \/ (c.op = "add" /\ c.count # SG!SubCount(c.base)))
        /\ task' = [task EXCEPT ![t] = IF ok THEN SG!Back(t) ELSE SG!Done]
  BY <1>1, <1>3, <1>4 DEF SG!Set
<1>6. byRuntime \subseteq byRuntime' /\ (raced => raced')
  BY <1>5
<1>7. task' \in [SG!Strands -> SG!CallType] /\ \A u \in SG!Strands : SG!Prepared(task[u])'
  <2>1. PICK y : y = IF ok THEN SG!Back(t) ELSE SG!Done
    OBVIOUS
  <2>2. y \in SG!CallType /\ y.pc \in {"hints", "done"}
    BY <2>1, BackIs, IdleStrand
  <2>3. SG!Prepared(y)'
    BY <2>2, RestPrepared
  <2>. QED BY <1>2, <1>5, <1>6, <2>1, <2>2, <2>3, StrandStep
<1>8. hold' \in [Turns -> SG!Lists] /\ \A h \in Turns : SG!MarksTrue(hold[h])'
  BY <1>2, <1>6 DEF SG!IInv, SG!MarksTrue
<1>9. CASE ok \/ c.op = "flush"
  <2>1. goals' = n /\ expected' = e
    BY <1>5, <1>9
  <2>2. byRuntime' = IF c.op = "resolve" THEN byRuntime \cup {c.goal} ELSE byRuntime
    BY <1>5, <1>9
  <2>3. /\ n \in SG!Lists
        /\ \A g \in DOMAIN n \cap AutoGoals :
             n[g].resolved \/ n[g].status \in SG!Ended => g \in byRuntime'
        /\ ~raced /\ ~(c.op = "add" /\ c.count # SG!SubCount(c.base)) =>
             SG!SubCount(n) <= SubLimit
    BY <1>1, <1>2, <1>3, <2>2, NewListSound
  <2>4. SG!EndingsTrue(goals)'
    BY <2>1, <2>3 DEF SG!EndingsTrue, SG!MarksTrue
  <2>5. SG!SubgoalLimit'
    BY <1>5, <2>1, <2>3 DEF SG!SubgoalLimit
  <2>6. ~stale' => ~stale /\ ~SG!Overtaken(t)
    BY <1>5, <1>9
  <2>7. SG!GoalsKept'
    BY <1>1, <1>2, <1>3, <1>4, <2>1, <2>6, NewListKept DEF SG!GoalsKept
  <2>. QED BY <1>7, <1>8, <2>1, <2>3, <2>4, <2>5, <2>7 DEF SG!IInv
<1>10. CASE ~(ok \/ c.op = "flush")
  <2>1. goals' = goals /\ expected' = expected /\ byRuntime' = byRuntime /\ (stale => stale')
    <3>1. ~ok /\ c.op # "flush"
      BY <1>10
    <3>2. goals' = goals /\ expected' = expected
      BY <1>5, <3>1
    <3>3. byRuntime' = byRuntime
      BY <1>5, <3>1
    <3>4. stale => stale'
      BY <1>5
    <3>. QED BY <3>2, <3>3, <3>4
  <2>2. goals' \in SG!Lists /\ SG!EndingsTrue(goals)' /\ SG!GoalsKept'
    BY <2>1 DEF SG!IInv, SG!EndingsTrue, SG!MarksTrue, SG!GoalsKept
  <2>3. SG!SubgoalLimit'
    BY <1>6, <2>1 DEF SG!IInv, SG!SubgoalLimit
  <2>. QED BY <1>7, <1>8, <2>2, <2>3 DEF SG!IInv
<1>. QED BY <1>9, <1>10

LEMMA BlockSound ==
  ASSUME SG!IInv, NEW r \in Requests, NEW g \in Goals, SG!Block(r, g) PROVE SG!IInv'
<1>1. /\ r \in SG!Strands /\ goals \in SG!Lists /\ g \in DOMAIN goals
      /\ UNCHANGED <<hold, byRuntime, stale, raced>>
      /\ task' = [task EXCEPT ![r] = SG!Done]
  BY DEF SG!IInv, SG!Block, SG!Strands
<1>2. PICK n : n = [goals EXCEPT ![g].blocked = TRUE]
  OBVIOUS
<1>3. goals' = n
  BY <1>2 DEF SG!Block
<1>4. DOMAIN goals \subseteq Goals /\ goals \in [DOMAIN goals -> SG!GoalType]
  BY <1>1, GoalListType
<1>5. \A x \in SG!GoalType :
        /\ [x EXCEPT !.blocked = TRUE] \in SG!GoalType
        /\ [x EXCEPT !.blocked = TRUE].resolved = x.resolved
        /\ [x EXCEPT !.blocked = TRUE].status = x.status
  BY DEF SG!GoalType
<1>6. /\ DOMAIN n = DOMAIN goals
      /\ \A z \in DOMAIN goals :
           n[z] = IF z = g THEN [goals[z] EXCEPT !.blocked = TRUE] ELSE goals[z]
      /\ n \in [DOMAIN goals -> SG!GoalType]
  BY <1>1, <1>2, <1>4, <1>5
<1>7. n \in SG!Lists
  BY <1>4, <1>6, GoalListType
<1>8. SG!SubCount(n) = SG!SubCount(goals)
  BY <1>1, <1>6, <1>7, SubCountIs
<1>9. task' \in [SG!Strands -> SG!CallType] /\ \A u \in SG!Strands : SG!Prepared(task[u])'
  BY <1>1, IdleStrand, DonePrepared, StrandStep
<1>10. hold' \in [Turns -> SG!Lists] /\ \A h \in Turns : SG!MarksTrue(hold[h])'
  BY <1>1 DEF SG!IInv, SG!MarksTrue
<1>11. SG!EndingsTrue(goals)'
  <2>1. \A z \in DOMAIN n : n[z].resolved = goals[z].resolved /\ n[z].status = goals[z].status
    BY <1>4, <1>5, <1>6
  <2>. QED BY <1>1, <1>3, <1>6, <2>1 DEF SG!IInv, SG!EndingsTrue, SG!MarksTrue
<1>12. SG!SubgoalLimit'
  BY <1>1, <1>3, <1>8 DEF SG!IInv, SG!SubgoalLimit
<1>13. SG!GoalsKept'
  BY <1>1 DEF SG!IInv, SG!GoalsKept, SG!Block
<1>. QED BY <1>3, <1>7, <1>9, <1>10, <1>11, <1>12, <1>13 DEF SG!IInv

LEMMA GoalsStep == SG!IInv /\ SG!SessionGoalsNext => SG!IInv'
<1>. SUFFICES ASSUME SG!IInv, SG!SessionGoalsNext PROVE SG!IInv'
  OBVIOUS
<1>1. CASE \E h \in Turns : SG!BeginTurn(h) \/ SG!EndTurn(h)
  BY <1>1, BeginTurnSound, EndTurnSound
<1>2. CASE \E h \in Turns, g \in Goals :
             \/ \E st \in {"completed", "abandoned", "progressed"} : SG!Hint(h, g, st)
             \/ \E w \in Workers, op \in {"refine", "add"} : SG!Delegate(h, w, op, g)
  BY <1>2, HintSound, DelegateSound
<1>3. CASE \E w \in Workers : SG!Think(w)
  BY <1>3, ThinkSound
<1>4. CASE \E r \in Requests, g \in Goals : SG!PostGoal(r, g) \/ SG!Block(r, g)
  BY <1>4, PostGoalSound, BlockSound
<1>5. CASE \E r \in Requests, g \in Goals :
             \E op \in {"update", "resolve", "progress", "remove", "flush"},
                st \in {"active", "completed", "abandoned"} : SG!Request(r, op, g, st)
  BY <1>5, RequestSound
<1>6. CASE \E t \in SG!Strands : SG!Get(t) \/ SG!Set(t)
  BY <1>6, GetSound, SetSound
<1>. QED BY <1>1, <1>2, <1>3, <1>4, <1>5, <1>6 DEF SG!SessionGoalsNext

LEMMA GoalsInitSound == SG!SessionGoalsInit => SG!IInv
<1>. SUFFICES ASSUME SG!SessionGoalsInit PROVE SG!IInv
  OBVIOUS
<1>1. /\ goals = [g \in {x \in Goals : ParentOf[x] = NoGoal} |-> SG!Fresh]
      /\ task = [t \in SG!Strands |-> SG!Idle] /\ hold = [h \in Turns |-> SG!Empty]
      /\ expected = goals
  BY DEF SG!SessionGoalsInit
<1>2. goals \in SG!Lists
  BY <1>1, FreshGoal, GoalListType
<1>3. hold \in [Turns -> SG!Lists] /\ \A h \in Turns : SG!MarksTrue(hold[h])
  BY <1>1, EmptyList DEF SG!MarksTrue
<1>4. task \in [SG!Strands -> SG!CallType] /\ \A t \in SG!Strands : SG!Prepared(task[t])
  BY <1>1, IdleStrand DEF SG!Prepared
<1>5. SG!EndingsTrue(goals)
  BY <1>1, FreshGoal DEF SG!EndingsTrue, SG!MarksTrue, SG!Ended
<1>6. SG!SubgoalLimit
  <2>1. Subs(DOMAIN goals) = {}
    BY <1>1 DEF Subs
  <2>2. SG!SubCount(goals) = 0
    BY <1>2, <2>1, SubCountIs, FS_EmptySet
  <2>. QED BY <2>2, GoalsAssumed DEF SG!SubgoalLimit
<1>. QED BY <1>1, <1>2, <1>3, <1>4, <1>5, <1>6 DEF SG!IInv, SG!GoalsKept

GoalsInv == part = "goals" => SG!IInv

LEMMA GoalsStutters ==
  ASSUME GoalsInv, UNCHANGED <<part, goalsVars>> PROVE GoalsInv'
BY DEF GoalsInv, goalsVars, SG!IInv, SG!Prepared, SG!EndingsTrue, SG!MarksTrue,
       SG!SubgoalLimit, SG!GoalsKept

LEMMA GoalListKept ==
  ASSUME GoalsInv, [PartsNext]_allVars PROVE GoalsInv'
<1>1. CASE part = "goals" /\ SG!SessionGoalsNext /\ Others
  BY <1>1, GoalsStep DEF GoalsInv, Others
<1>2. CASE part # "goals" /\ UNCHANGED part
  BY <1>2 DEF GoalsInv
<1>3. CASE UNCHANGED allVars
  BY <1>3, GoalsStutters DEF allVars
<1>. QED BY <1>1, <1>2, <1>3 DEF PartsNext, Others

\* The stored list of a session is what the calls asked for until a call stores one that
\* another had overtaken, has no more sub-goals than the limit, and ends an auto goal only
\* where the runtime resolved it (GoalListSound of SessionGoals.tla:
\* working_set/session_goals.py, api/routes/goals.py).
THEOREM GoalListIsSound == PartsSpec => []GoalListSound
<1>1. PartsInit => GoalsInv
  BY GoalsInitSound DEF PartsInit, GoalsInv
<1>2. GoalsInv /\ [PartsNext]_allVars => GoalsInv'
  BY GoalListKept
<1>3. GoalsInv => GoalListSound
  BY DEF GoalsInv, GoalListSound, SG!IInv, SG!GoalListSound, SG!AutoGoalNeedsRuntime,
       SG!EndingsTrue
<1>. QED BY <1>1, <1>2, <1>3, PTL DEF PartsSpec
------------------------------------------------------------------------------
(* Plugins: a message is in the buffer, or with a request under way, or settled;
   while one session runs at a time, all that the plugins keep is its own.  *)

LEMMA PluginFacts ==
  ASSUME PL!IInv, NEW s \in Hosted
  PROVE  /\ turn[s] \in PL!TurnType /\ flow[s] \in PL!FlowType /\ closing[s] \in SUBSET Nat
         /\ letter \in Seq(PL!LetterType) /\ buffer \in Seq(DOMAIN letter)
         /\ engine \in Hosted \cup {NoSession} /\ hooks \in PL!HooksType /\ PL!Waiting(s)
         /\ PL!NoFlow \in PL!FlowType /\ PL!NoFlow.op = "none" /\ PL!NoFlow.took = {}
BY DEF PL!IInv, PL!TypeInv, PL!NoFlow, PL!FlowType

LEMMA LetterFacts ==
  ASSUME NEW letters \in Seq(PL!LetterType), NEW m \in DOMAIN letters
  PROVE  /\ letters[m] \in PL!LetterType /\ letters[m].of \in Hosted
         /\ letters[m].fate \in PL!Fates /\ letters[m].sends \in Nat /\ letters[m].late \in BOOLEAN
         /\ m \in Nat
<1>1. letters[m] \in PL!LetterType /\ m \in Nat
  OBVIOUS
<1>. QED BY <1>1 DEF PL!LetterType

\* While no two sessions run at once and s runs.
LEMMA AloneFacts ==
  ASSUME PL!IInv, NEW s \in Hosted, ~overlapping, turn[s].pc # "idle"
  PROVE  /\ \A r \in Hosted \ {s} : turn[r].pc = "idle" /\ flow[r].took = {} /\ closing[r] = {}
         /\ hooks.key = s /\ crossed = {}
         /\ turn[s].pc \in {"started", "running"} /\ turn[s].n = 1 => hooks.id = s
         /\ turn[s].pc \in {"running", "ended"} => engine = s
         /\ turn[s].pc = "ended" /\ ~turn[s].after => lastTurn = <<s, turn[s].n>>
         /\ turn[s].pc = "ended" /\ turn[s].disposed => buffer = <<>>
         /\ reported => turn[s].pc \in {"running", "ended"} /\ ~turn[s].disposed
         /\ \A m \in DOMAIN letter :
              /\ ~letter[m].late /\ letter[m].of \in Hosted
              /\ letter[m].under \in {NoSession, letter[m].of}
              /\ letter[m].fate \in {"filed", "failed"} \/ letter[m].of = s
<1>1. PL!Alone /\ PL!RunsApart
  BY DEF PL!IInv
<1>2. ASSUME NEW r \in Hosted \ {s}
      PROVE  turn[r].pc = "idle" /\ flow[r].took = {} /\ closing[r] = {}
  <2>1. turn[r].pc = "idle"
    BY <1>1 DEF PL!Alone
  <2>2. PL!Waiting(r) /\ flow[r] \in PL!FlowType
    BY PluginFacts
  <2>. QED BY <2>1, <2>2 DEF PL!Waiting, PL!FlowType
<1>3. \A m \in DOMAIN letter : letter[m].of \in Hosted
  <2>1. letter \in Seq(PL!LetterType)
    BY PluginFacts
  <2>. QED BY <2>1, LetterFacts
<1>4. \A m \in DOMAIN letter :
        /\ ~letter[m].late /\ letter[m].under \in {NoSession, letter[m].of}
        /\ letter[m].fate \in {"filed", "failed"} \/ letter[m].of = s
  BY <1>1, <1>2, <1>3 DEF PL!Alone, PL!RunsApart
<1>5. reported => turn[s].pc \in {"running", "ended"} /\ ~turn[s].disposed
  BY <1>1, <1>2 DEF PL!Alone
<1>6. turn[s].pc = "ended" /\ ~turn[s].after => lastTurn = <<s, turn[s].n>>
  BY <1>1 DEF PL!Alone, PL!ThisRun
<1>. QED BY <1>1, <1>2, <1>3, <1>4, <1>5, <1>6 DEF PL!Alone, PL!RunsApart

\* A step of the run of s: what it has to keep for the runs to stay apart.
LEMMA ApartStep ==
  ASSUME PL!IInv, NEW s \in Hosted, overlapping' = overlapping, turn[s].pc # "idle",
         NEW x, turn' = [turn EXCEPT ![s] = x],
         ~overlapping =>
           /\ hooks'.key = s /\ crossed' = {}
           /\ x.pc \in {"started", "running"} /\ x.n = 1 => hooks'.id = s
           /\ x.pc \in {"running", "ended"} => engine' = s
           /\ x.pc = "ended" /\ ~x.after => lastTurn' = <<s, x.n>>
           /\ x.pc = "ended" /\ x.disposed => buffer' = <<>>
           /\ reported' => x.pc \in {"running", "ended"} /\ ~x.disposed
           /\ \A m \in DOMAIN letter' :
                /\ ~letter'[m].late /\ letter'[m].of \in Hosted
                /\ letter'[m].under \in {NoSession, letter'[m].of}
                /\ letter'[m].fate \in {"filed", "failed"} \/ (letter'[m].of = s /\ x.pc # "idle")
  PROVE  (~overlapping => PL!Alone)' /\ PL!RunsApart'
<1>. SUFFICES ASSUME ~overlapping PROVE PL!Alone' /\ PL!RunsApart'
  BY DEF PL!RunsApart
<1>1. \A r \in Hosted : turn'[r] = IF r = s THEN x ELSE turn[r]
  BY DEF PL!IInv, PL!TypeInv
<1>2. \A r \in Hosted \ {s} : turn'[r].pc = "idle"
  BY <1>1, AloneFacts
<1>3. PL!Alone'
  <2>1. \A r, q \in Hosted : turn'[r].pc # "idle" /\ turn'[q].pc # "idle" => r = q
    BY <1>2
  <2>2. \A r \in Hosted :
          /\ turn'[r].pc # "idle" => hooks'.key = r
          /\ turn'[r].pc \in {"started", "running"} /\ turn'[r].n = 1 => hooks'.id = r
          /\ turn'[r].pc \in {"running", "ended"} => engine' = r
          /\ turn'[r].pc = "ended" /\ ~turn'[r].after => lastTurn' = <<r, turn'[r].n>>
          /\ turn'[r].pc = "ended" /\ turn'[r].disposed => buffer' = <<>>
    BY <1>1, <1>2
  <2>3. reported' =>
          \E r \in Hosted : turn'[r].pc \in {"running", "ended"} /\ ~turn'[r].disposed
    BY <1>1
  <2>. QED BY <2>1, <2>2, <2>3 DEF PL!Alone, PL!ThisRun
<1>4. PL!RunsApart'
  <2>1. \A r \in Hosted : turn'[r].pc \in {"hooked", "started"} => ~reported'
    BY <1>1, <1>2
  <2>2. \A m \in DOMAIN letter' :
          /\ letter'[m].under \in {NoSession, letter'[m].of}
          /\ turn'[letter'[m].of].pc = "idle" => letter'[m].fate \in {"filed", "failed"}
    BY <1>1
  <2>. QED BY <2>1, <2>2 DEF PL!RunsApart
<1>. QED BY <1>3, <1>4

\* What the calls of the run of s are waiting for, after a step of it.
LEMMA WaitingStep ==
  ASSUME PL!IInv, NEW s \in Hosted, NEW x \in PL!TurnType, NEW f \in PL!FlowType,
         NEW took \in SUBSET Nat, turn' = [turn EXCEPT ![s] = x],
         flow' = [flow EXCEPT ![s] = f], closing' = [closing EXCEPT ![s] = took],
         f.op \in {"ingest", "assemble"} => x.pc = "running",
         f.op \in {"given", "kept"} => x.pc = "ended" /\ ~x.after,
         f.op = "none" => f.took = {},
         took # {} => x.pc = "ended" /\ ~x.disposed,
         x.pc \in {"hooked", "started", "running"} => ~x.disposed
  PROVE  /\ turn' \in [Hosted -> PL!TurnType] /\ flow' \in [Hosted -> PL!FlowType]
         /\ closing' \in [Hosted -> SUBSET Nat] /\ \A r \in Hosted : PL!Waiting(r)'
<1>1. /\ \A r \in Hosted : turn'[r] = IF r = s THEN x ELSE turn[r]
      /\ \A r \in Hosted : flow'[r] = IF r = s THEN f ELSE flow[r]
      /\ \A r \in Hosted : closing'[r] = IF r = s THEN took ELSE closing[r]
  BY DEF PL!IInv, PL!TypeInv
<1>2. /\ turn' \in [Hosted -> PL!TurnType] /\ flow' \in [Hosted -> PL!FlowType]
      /\ closing' \in [Hosted -> SUBSET Nat]
  BY DEF PL!IInv, PL!TypeInv
<1>3. ASSUME NEW r \in Hosted PROVE PL!Waiting(r)'
  <2>1. PL!Waiting(r)
    BY DEF PL!IInv
  <2>2. CASE r = s
    BY <1>1, <2>2 DEF PL!Waiting
  <2>3. CASE r # s
    BY <1>1, <2>1, <2>3 DEF PL!Waiting
  <2>. QED BY <2>2, <2>3
<1>. QED BY <1>2, <1>3

\* A step that touches no message.
LEMMA QuietStep ==
  ASSUME PL!IInv, NEW s \in Hosted, NEW x \in PL!TurnType, turn' = [turn EXCEPT ![s] = x],
         UNCHANGED <<letter, buffer, flow, closing>>,
         engine' \in Hosted \cup {NoSession}, hooks' \in PL!HooksType,
         flow[s].op \in {"ingest", "assemble"} => x.pc = "running",
         flow[s].op \in {"given", "kept"} => x.pc = "ended" /\ ~x.after,
         closing[s] # {} => x.pc = "ended" /\ ~x.disposed,
         x.pc \in {"hooked", "started", "running"} => ~x.disposed
  PROVE  PL!TypeInv' /\ PL!MessagesOnce' /\ PL!LettersKept' /\ \A r \in Hosted : PL!Waiting(r)'
<1>1. /\ flow' = [flow EXCEPT ![s] = flow[s]] /\ closing' = [closing EXCEPT ![s] = closing[s]]
      /\ flow[s] \in PL!FlowType /\ closing[s] \in SUBSET Nat /\ PL!Waiting(s)
  BY DEF PL!IInv, PL!TypeInv
<1>2. /\ turn' \in [Hosted -> PL!TurnType] /\ flow' \in [Hosted -> PL!FlowType]
      /\ closing' \in [Hosted -> SUBSET Nat] /\ \A r \in Hosted : PL!Waiting(r)'
  <2>1. PICK f, took : f = flow[s] /\ took = closing[s]
    OBVIOUS
  <2>2. f.op = "none" => f.took = {}
    BY <1>1, <2>1 DEF PL!Waiting
  <2>. QED BY <1>1, <2>1, <2>2, WaitingStep
<1>3. PL!TypeInv'
  BY <1>2 DEF PL!IInv, PL!TypeInv
<1>4. PL!MessagesOnce' /\ PL!LettersKept'
  BY DEF PL!IInv, PL!MessagesOnce, PL!LettersKept, PL!Underway
<1>. QED BY <1>2, <1>3, <1>4

LEMMA BeforeAgentStartSound ==
  ASSUME PL!IInv, NEW s \in Hosted, PL!BeforeAgentStart(s) PROVE PL!IInv'
<1>1. PICK x : x = [pc |-> "hooked", n |-> turn[s].n + 1, after |-> FALSE, disposed |-> FALSE]
  OBVIOUS
<1>2. /\ turn[s].pc = "idle" /\ flow[s] = PL!NoFlow /\ turn' = [turn EXCEPT ![s] = x]
      /\ hooks' = [hooks EXCEPT !.key = s]
      /\ overlapping' = (overlapping \/ \E r \in Hosted \ {s} : turn[r].pc # "idle")
      /\ UNCHANGED <<engine, buffer, lastTurn, reported, flow, closing, letter, lapses, crossed>>
  BY <1>1 DEF PL!BeforeAgentStart, PL!At
<1>3. x \in PL!TurnType /\ x.pc = "hooked" /\ ~x.disposed
  BY <1>1, PluginFacts DEF PL!TurnType
<1>4. PL!TypeInv' /\ PL!MessagesOnce' /\ PL!LettersKept' /\ \A r \in Hosted : PL!Waiting(r)'
  <2>1. closing[s] = {}
    BY <1>2, PluginFacts DEF PL!Waiting
  <2>2. hooks' \in PL!HooksType
    BY <1>2, PluginFacts DEF PL!HooksType
  <2>. QED BY <1>2, <1>3, <2>1, <2>2, PluginFacts, QuietStep
<1>5. ASSUME ~overlapping' PROVE PL!Alone' /\ PL!RunsApart'
  <2>1. PL!Alone /\ PL!RunsApart /\ crossed = {} /\ \A r \in Hosted : turn[r].pc = "idle"
    BY <1>2, <1>5 DEF PL!IInv, PL!RunsApart
  <2>2. ~reported
    BY <2>1 DEF PL!Alone
  <2>3. \A r \in Hosted : turn'[r] = IF r = s THEN x ELSE turn[r]
    BY <1>2 DEF PL!IInv, PL!TypeInv
  <2>4. hooks'.key = s
    BY <1>2, PluginFacts DEF PL!HooksType
  <2>5. PL!Alone'
    BY <1>2, <1>3, <2>1, <2>2, <2>3, <2>4 DEF PL!Alone, PL!ThisRun
  <2>6. \A m \in DOMAIN letter : letter[m].of \in Hosted
    BY PluginFacts, LetterFacts
  <2>7. PL!RunsApart'
    BY <1>2, <1>3, <1>5, <2>1, <2>2, <2>3, <2>6 DEF PL!RunsApart
  <2>. QED BY <2>5, <2>7
<1>. QED BY <1>4, <1>5 DEF PL!IInv, PL!RunsApart

LEMMA SessionStartSound ==
  ASSUME PL!IInv, NEW s \in Hosted, PL!SessionStart(s) PROVE PL!IInv'
<1>1. PICK x : x = [turn[s] EXCEPT !.pc = "started"]
  OBVIOUS
<1>2. /\ turn[s].pc = "hooked" /\ flow[s] = PL!NoFlow /\ turn' = [turn EXCEPT ![s] = x]
      /\ hooks' = [key |-> s, id |-> s]
      /\ UNCHANGED <<engine, buffer, lastTurn, reported, flow, closing, letter, crossed,
                     overlapping>>
  BY <1>1 DEF PL!SessionStart, PL!At, PL!Move
<1>3. x \in PL!TurnType /\ x.pc = "started" /\ x.disposed = turn[s].disposed
  BY <1>1, PluginFacts DEF PL!TurnType
<1>4. PL!TypeInv' /\ PL!MessagesOnce' /\ PL!LettersKept' /\ \A r \in Hosted : PL!Waiting(r)'
  <2>1. closing[s] = {} /\ ~turn[s].disposed
    BY <1>2, PluginFacts DEF PL!Waiting
  <2>2. hooks' \in PL!HooksType
    BY <1>2 DEF PL!HooksType
  <2>. QED BY <1>2, <1>3, <2>1, <2>2, PluginFacts, QuietStep
<1>5. (~overlapping => PL!Alone)' /\ PL!RunsApart'
  BY <1>2, <1>3, AloneFacts, ApartStep
<1>. QED BY <1>4, <1>5 DEF PL!IInv

LEMMA BootstrapSound ==
  ASSUME PL!IInv, NEW s \in Hosted, PL!Bootstrap(s) PROVE PL!IInv'
<1>1. PICK x : x = [turn[s] EXCEPT !.pc = "running"]
  OBVIOUS
<1>2. /\ turn[s].pc = (IF turn[s].n = 1 THEN "started" ELSE "hooked")
      /\ flow[s] = PL!NoFlow /\ turn' = [turn EXCEPT ![s] = x] /\ engine' = s
      /\ UNCHANGED <<hooks, buffer, lastTurn, reported, flow, closing, letter, crossed,
                     overlapping>>
  BY <1>1 DEF PL!Bootstrap, PL!At, PL!Move
<1>3. /\ x \in PL!TurnType /\ x.pc = "running" /\ x.disposed = turn[s].disposed
      /\ x.n = turn[s].n /\ turn[s].pc \in {"hooked", "started"}
  BY <1>1, <1>2, PluginFacts DEF PL!TurnType
<1>4. closing[s] = {} /\ ~turn[s].disposed
  BY <1>3, PluginFacts DEF PL!Waiting
<1>5. PL!TypeInv' /\ PL!MessagesOnce' /\ PL!LettersKept' /\ \A r \in Hosted : PL!Waiting(r)'
  BY <1>2, <1>3, <1>4, PluginFacts, QuietStep
<1>6. (~overlapping => PL!Alone)' /\ PL!RunsApart'
  BY <1>2, <1>3, <1>4, AloneFacts, ApartStep
<1>. QED BY <1>5, <1>6 DEF PL!IInv

LEMMA AgentEndSound ==
  ASSUME PL!IInv, NEW s \in Hosted, PL!AgentEnd(s) PROVE PL!IInv'
<1>1. PICK x : x = [turn[s] EXCEPT !.pc = "ended"]
  OBVIOUS
<1>2. /\ turn[s].pc = "running" /\ flow[s] = PL!NoFlow /\ turn' = [turn EXCEPT ![s] = x]
      /\ lastTurn' = <<s, turn[s].n>>
      /\ UNCHANGED <<engine, hooks, buffer, reported, flow, closing, letter, overlapping>>
  BY <1>1 DEF PL!AgentEnd, PL!At, PL!Move, PL!ThisRun
<1>3. /\ x \in PL!TurnType /\ x.pc = "ended" /\ x.disposed = turn[s].disposed
      /\ x.n = turn[s].n
  BY <1>1, <1>2, PluginFacts DEF PL!TurnType
<1>4. ~turn[s].disposed
  BY <1>2, PluginFacts DEF PL!Waiting
<1>5. PL!TypeInv' /\ PL!MessagesOnce' /\ PL!LettersKept' /\ \A r \in Hosted : PL!Waiting(r)'
  BY <1>2, <1>3, <1>4, PluginFacts, QuietStep
<1>6. ~overlapping => crossed' = {}
  BY <1>2, AloneFacts DEF PL!AgentEnd, PL!Capture, PL!Mark
<1>7. (~overlapping => PL!Alone)' /\ PL!RunsApart'
  BY <1>2, <1>3, <1>4, <1>6, AloneFacts, ApartStep
<1>. QED BY <1>5, <1>7 DEF PL!IInv

LEMMA AbortSound ==
  ASSUME PL!IInv, NEW s \in Hosted, PL!Abort(s) PROVE PL!IInv'
<1>1. PICK x : x = [turn[s] EXCEPT !.pc = "ended", !.after = TRUE]
  OBVIOUS
<1>2. /\ turn[s].pc = "running" /\ flow[s] = PL!NoFlow /\ turn' = [turn EXCEPT ![s] = x]
      /\ UNCHANGED <<engine, hooks, buffer, lastTurn, reported, flow, closing, letter, crossed,
                     overlapping>>
  BY <1>1, PluginFacts DEF PL!Abort, PL!At, PL!IInv, PL!TypeInv, PL!TurnType
<1>3. /\ x \in PL!TurnType /\ x.pc = "ended" /\ x.disposed = turn[s].disposed /\ x.after
      /\ x.n = turn[s].n
  BY <1>1, <1>2, PluginFacts DEF PL!TurnType
<1>4. ~turn[s].disposed
  BY <1>2, PluginFacts DEF PL!Waiting
<1>5. PL!TypeInv' /\ PL!MessagesOnce' /\ PL!LettersKept' /\ \A r \in Hosted : PL!Waiting(r)'
  BY <1>2, <1>3, <1>4, PluginFacts, QuietStep
<1>6. (~overlapping => PL!Alone)' /\ PL!RunsApart'
  BY <1>2, <1>3, <1>4, AloneFacts, ApartStep
<1>. QED BY <1>5, <1>6 DEF PL!IInv

LEMMA LlmInputSound ==
  ASSUME PL!IInv, NEW s \in Hosted, PL!LlmInput(s) PROVE PL!IInv'
<1>1. PICK x : x = turn[s]
  OBVIOUS
<1>2. /\ turn[s].pc = "running" /\ flow[s] = PL!NoFlow /\ turn' = [turn EXCEPT ![s] = x]
      /\ crossed' = crossed \cup PL!Mark(~reported /\ engine # s, "window")
      /\ UNCHANGED <<engine, hooks, buffer, lastTurn, flow, closing, letter, overlapping>>
  BY <1>1 DEF PL!LlmInput, PL!At, PL!IInv, PL!TypeInv
<1>3. x \in PL!TurnType /\ x.pc = "running" /\ ~x.disposed /\ closing[s] = {}
  BY <1>1, <1>2, PluginFacts DEF PL!Waiting
<1>4. PL!TypeInv' /\ PL!MessagesOnce' /\ PL!LettersKept' /\ \A r \in Hosted : PL!Waiting(r)'
  BY <1>2, <1>3, PluginFacts, QuietStep
<1>5. ~overlapping => crossed' = {}
  BY <1>2, AloneFacts DEF PL!Mark
<1>6. (~overlapping => PL!Alone)' /\ PL!RunsApart'
  BY <1>1, <1>2, <1>3, <1>5, AloneFacts, ApartStep
<1>. QED BY <1>4, <1>6 DEF PL!IInv

\* When a run is over, none of its messages is in the buffer or on its way.
LEMMA OverSound ==
  ASSUME PL!IInv, NEW s \in Hosted, PL!Over(s) PROVE PL!IInv'
<1>1. PICK x : x = [turn[s] EXCEPT !.pc = "idle"]
  OBVIOUS
<1>2. /\ turn[s].pc = "ended" /\ turn[s].disposed /\ turn[s].after /\ flow[s] = PL!NoFlow
      /\ turn' = [turn EXCEPT ![s] = x]
      /\ UNCHANGED <<engine, hooks, buffer, lastTurn, reported, flow, closing, letter, crossed,
                     overlapping>>
  BY <1>1 DEF PL!Over, PL!At, PL!Move
<1>3. x \in PL!TurnType /\ x.pc = "idle" /\ x.disposed /\ closing[s] = {} /\ flow[s].took = {}
  BY <1>1, <1>2, PluginFacts DEF PL!TurnType, PL!Waiting
<1>4. PL!TypeInv' /\ PL!MessagesOnce' /\ PL!LettersKept' /\ \A r \in Hosted : PL!Waiting(r)'
  BY <1>2, <1>3, PluginFacts, QuietStep
<1>5. ASSUME ~overlapping
      PROVE  /\ ~reported /\ \A m \in DOMAIN letter : letter[m].fate \in {"filed", "failed"}
  <2>1. ~reported /\ buffer = <<>>
    BY <1>2, <1>5, AloneFacts
  <2>2. \A r \in Hosted : PL!Underway(r) = {}
    BY <1>2, <1>3, <1>5, AloneFacts DEF PL!Underway
  <2>3. \A m \in DOMAIN letter : letter[m].fate \notin {"buffered", "sent", "dropped"}
    <3>1. PL!RangeOf(buffer) = {}
      BY <2>1 DEF PL!RangeOf
    <3>2. \A m \in DOMAIN letter : ~letter[m].late
      BY <1>2, <1>5, AloneFacts
    <3>. QED BY <2>2, <3>1, <3>2 DEF PL!IInv, PL!MessagesOnce, PL!LettersKept
  <2>4. \A m \in DOMAIN letter : letter[m].fate \in PL!Fates
    BY PluginFacts, LetterFacts
  <2>. QED BY <2>1, <2>3, <2>4 DEF PL!Fates
<1>6. (~overlapping => PL!Alone)' /\ PL!RunsApart'
  BY <1>2, <1>3, <1>5, AloneFacts, ApartStep
<1>. QED BY <1>4, <1>6 DEF PL!IInv

------------------------------------------------------------------------------
(* Plugins: the steps that send and settle messages *)

LEMMA SentFacts ==
  ASSUME NEW letters \in Seq(PL!LetterType), NEW took, engine \in Hosted \cup {NoSession}
  PROVE  /\ PL!Sent(letters, took) \in Seq(PL!LetterType)
         /\ DOMAIN PL!Sent(letters, took) = DOMAIN letters
         /\ \A m \in DOMAIN letters :
              /\ m \notin took => PL!Sent(letters, took)[m] = letters[m]
              /\ m \in took =>
                   /\ PL!Sent(letters, took)[m].fate = "sent"
                   /\ PL!Sent(letters, took)[m].under = engine
                   /\ PL!Sent(letters, took)[m].sends = letters[m].sends + 1
                   /\ PL!Sent(letters, took)[m].of = letters[m].of
                   /\ PL!Sent(letters, took)[m].late = letters[m].late
<1>. DEFINE L == PL!Sent(letters, took)
<1>1. \A m \in DOMAIN letters : letters[m] \in PL!LetterType
  BY LetterFacts
<1>2. /\ DOMAIN L = DOMAIN letters
      /\ \A m \in DOMAIN letters :
           L[m] = IF m \in took
                  THEN [letters[m] EXCEPT !.fate = "sent", !.under = engine,
                                          !.sends = letters[m].sends + 1]
                  ELSE letters[m]
  BY DEF PL!Sent
<1>. HIDE DEF L
<1>3. ASSUME NEW m \in DOMAIN letters
      PROVE  /\ L[m] \in PL!LetterType /\ (m \notin took => L[m] = letters[m])
             /\ m \in took => /\ L[m].fate = "sent" /\ L[m].under = engine
                              /\ L[m].sends = letters[m].sends + 1
                              /\ L[m].of = letters[m].of /\ L[m].late = letters[m].late
  <2>1. PICK y, e : y = letters[m] /\ e = engine
    OBVIOUS
  <2>2. y \in PL!LetterType /\ e \in Hosted \cup {NoSession} /\ "sent" \in PL!Fates
    BY <1>1, <2>1 DEF PL!Fates
  <2>3. y.sends + 1 \in Nat
    BY <2>2 DEF PL!LetterType
  <2>4. PICK z : z = [y EXCEPT !.fate = "sent", !.under = e, !.sends = y.sends + 1]
    OBVIOUS
  <2>5. /\ z \in PL!LetterType /\ z.fate = "sent" /\ z.under = e /\ z.sends = y.sends + 1
        /\ z.of = y.of /\ z.late = y.late
    BY <2>2, <2>3, <2>4 DEF PL!LetterType
  <2>6. L[m] = IF m \in took THEN z ELSE y
    BY <1>2, <2>1, <2>4
  <2>. QED BY <2>1, <2>2, <2>5, <2>6
<1>4. PICK k \in Nat : DOMAIN letters = 1..k
  OBVIOUS
<1>5. L \in [1..k -> PL!LetterType]
  <2>1. L \in [DOMAIN L -> PL!LetterType]
    BY <1>2, <1>3 DEF L, PL!Sent
  <2>. QED BY <1>2, <1>4, <2>1
<1>6. L \in Seq(PL!LetterType)
  BY <1>5
<1>. QED BY <1>2, <1>3, <1>6 DEF L

LEMMA SettledFacts ==
  ASSUME letter \in Seq(PL!LetterType), NEW took, NEW ok \in BOOLEAN
  PROVE  /\ PL!Settled(took, ok) \in Seq(PL!LetterType)
         /\ DOMAIN PL!Settled(took, ok) = DOMAIN letter
         /\ \A m \in DOMAIN letter :
              /\ m \notin took => PL!Settled(took, ok)[m] = letter[m]
              /\ m \in took => PL!Settled(took, ok)[m].fate \in {"filed", "failed"}
              /\ PL!Settled(took, ok)[m].under = letter[m].under
              /\ PL!Settled(took, ok)[m].sends = letter[m].sends
              /\ PL!Settled(took, ok)[m].of = letter[m].of
              /\ PL!Settled(took, ok)[m].late = letter[m].late
<1>. DEFINE L == PL!Settled(took, ok)
<1>1. \A m \in DOMAIN letter : letter[m] \in PL!LetterType
  BY LetterFacts
<1>2. /\ DOMAIN L = DOMAIN letter
      /\ \A m \in DOMAIN letter :
           L[m] = IF m \in took
                  THEN [letter[m] EXCEPT !.fate = IF ok THEN "filed" ELSE "failed"]
                  ELSE letter[m]
  BY DEF PL!Settled
<1>. HIDE DEF L
<1>3. ASSUME NEW m \in DOMAIN letter
      PROVE  /\ L[m] \in PL!LetterType /\ (m \notin took => L[m] = letter[m])
             /\ m \in took => L[m].fate \in {"filed", "failed"}
             /\ L[m].under = letter[m].under /\ L[m].sends = letter[m].sends
             /\ L[m].of = letter[m].of /\ L[m].late = letter[m].late
  BY <1>1, <1>2 DEF PL!LetterType, PL!Fates
<1>4. PICK k \in Nat : DOMAIN letter = 1..k
  OBVIOUS
<1>5. L \in [1..k -> PL!LetterType]
  <2>1. L \in [DOMAIN L -> PL!LetterType]
    BY <1>2, <1>3 DEF L, PL!Settled
  <2>. QED BY <1>2, <1>4, <2>1
<1>6. L \in Seq(PL!LetterType)
  BY <1>5
<1>. QED BY <1>2, <1>3, <1>6 DEF L

\* The request that empties the buffer takes along what was never sent.
LEMMA FlushLetters ==
  ASSUME PL!IInv, NEW s \in Hosted, PL!FlushBuffer,
         \A r \in Hosted : flow'[r].took \cup closing'[r] =
           IF r = s THEN PL!Underway(r) \cup PL!RangeOf(buffer) ELSE PL!Underway(r)
  PROVE  /\ letter' \in Seq(PL!LetterType) /\ buffer' \in Seq(DOMAIN letter')
         /\ PL!MessagesOnce' /\ PL!LettersKept' /\ buffer' = <<>>
         /\ ~overlapping /\ turn[s].pc \in {"running", "ended"} =>
              \A m \in DOMAIN letter' :
                /\ ~letter'[m].late /\ letter'[m].of \in Hosted
                /\ letter'[m].under \in {NoSession, letter'[m].of}
                /\ letter'[m].fate \in {"filed", "failed"} \/ letter'[m].of = s
<1>1. /\ letter \in Seq(PL!LetterType) /\ engine \in Hosted \cup {NoSession}
      /\ buffer \in Seq(DOMAIN letter)
  BY PluginFacts
<1>2. PICK took : took = PL!RangeOf(buffer)
  OBVIOUS
<1>3. buffer' = <<>> /\ letter' = PL!Sent(letter, took) /\ took \subseteq DOMAIN letter
  BY <1>1, <1>2 DEF PL!FlushBuffer, PL!RangeOf
<1>4. /\ letter' \in Seq(PL!LetterType) /\ DOMAIN letter' = DOMAIN letter
      /\ \A m \in DOMAIN letter :
           /\ m \notin took => letter'[m] = letter[m]
           /\ m \in took =>
                /\ letter'[m].fate = "sent" /\ letter'[m].under = engine
                /\ letter'[m].sends = letter[m].sends + 1
                /\ letter'[m].of = letter[m].of /\ letter'[m].late = letter[m].late
  BY <1>1, <1>3, SentFacts
<1>5. PL!RangeOf(buffer)' = {}
  BY <1>3 DEF PL!RangeOf
<1>6. ASSUME NEW m \in DOMAIN letter
      PROVE  /\ letter[m].sends <= 1 /\ (letter[m].fate = "dropped" => letter[m].late)
             /\ letter[m].fate = "buffered" <=> m \in took
             /\ m \in took => letter[m].sends = 0
             /\ letter[m].fate = "sent" => \E r \in Hosted : m \in PL!Underway(r)
  BY <1>2 DEF PL!IInv, PL!MessagesOnce, PL!LettersKept
<1>7. PL!MessagesOnce'
  <2>1. ASSUME NEW m \in DOMAIN letter
        PROVE  /\ letter'[m].sends <= 1 /\ (letter'[m].fate = "dropped" => letter'[m].late)
               /\ letter'[m].fate # "buffered"
    BY <1>4, <1>6
  <2>. QED BY <1>4, <1>5, <2>1 DEF PL!MessagesOnce
<1>8. PL!LettersKept'
  <2>1. \A r \in Hosted : PL!Underway(r)' = IF r = s THEN PL!Underway(r) \cup took
                                                     ELSE PL!Underway(r)
    BY <1>2 DEF PL!Underway
  <2>2. ASSUME NEW m \in DOMAIN letter
        PROVE  /\ letter'[m].fate # "buffered"
               /\ letter'[m].fate = "sent" => \E r \in Hosted : m \in PL!Underway(r)'
    BY <1>4, <1>6, <2>1
  <2>3. ASSUME NEW r \in Hosted, NEW m \in PL!Underway(r)'
        PROVE  m \in DOMAIN letter /\ letter'[m].fate \in {"sent", "filed", "failed"}
    <3>1. m \in PL!Underway(r) \/ m \in took
      BY <2>1, <2>3
    <3>2. m \in PL!Underway(r) =>
            m \in DOMAIN letter /\ letter[m].fate \in {"sent", "filed", "failed"}
      BY DEF PL!IInv, PL!LettersKept
    <3>. QED BY <1>3, <1>4, <3>1, <3>2
  <2>. QED BY <1>4, <1>5, <2>2, <2>3 DEF PL!LettersKept
<1>9. ASSUME ~overlapping, turn[s].pc \in {"running", "ended"}, NEW m \in DOMAIN letter
      PROVE  /\ ~letter'[m].late /\ letter'[m].of \in Hosted
             /\ letter'[m].under \in {NoSession, letter'[m].of}
             /\ letter'[m].fate \in {"filed", "failed"} \/ letter'[m].of = s
  <2>1. /\ engine = s /\ ~letter[m].late /\ letter[m].of \in Hosted
        /\ letter[m].under \in {NoSession, letter[m].of}
        /\ letter[m].fate \in {"filed", "failed"} \/ letter[m].of = s
    BY <1>9, AloneFacts
  <2>. QED BY <1>4, <1>6, <1>9, <2>1
<1>. QED BY <1>3, <1>4, <1>7, <1>8, <1>9

\* What assemble and afterTurn do once the buffer is empty.
LEMMA RestFacts ==
  ASSUME PL!IInv, NEW s \in Hosted, NEW op \in {"ingest", "assemble", "given", "kept"},
         PL!Rest(s, op), op \in {"ingest", "assemble"} => turn[s].pc = "running",
         op \in {"given", "kept"} => turn[s].pc = "ended" /\ ~turn[s].after
  PROVE  \E x \in PL!TurnType :
           /\ turn' = [turn EXCEPT ![s] = x]
           /\ x.pc = turn[s].pc /\ x.n = turn[s].n /\ x.disposed = turn[s].disposed
           /\ ~overlapping => crossed' = {} /\ (~x.after => lastTurn' = lastTurn)
           /\ turn[s].after => x.after
<1>1. turn[s] \in PL!TurnType /\ turn \in [Hosted -> PL!TurnType]
  BY DEF PL!IInv, PL!TypeInv
<1>2. CASE op = "ingest"
  <2>1. UNCHANGED <<crossed, lastTurn, turn>>
    BY <1>2 DEF PL!Rest
  <2>2. turn' = [turn EXCEPT ![s] = turn[s]]
    BY <1>1, <2>1
  <2>3. ~overlapping => crossed' = {}
    BY <1>2, <2>1, AloneFacts
  <2>. QED BY <1>1, <2>1, <2>2, <2>3
<1>3. CASE op = "assemble"
  <2>1. UNCHANGED <<lastTurn, turn>> /\ crossed' = crossed \cup PL!Mark(engine # s, "assemble")
    BY <1>3 DEF PL!Rest, PL!Prompt
  <2>2. turn' = [turn EXCEPT ![s] = turn[s]]
    BY <1>1, <2>1
  <2>3. ~overlapping => crossed' = {}
    BY <1>3, <2>1, AloneFacts DEF PL!Mark
  <2>. QED BY <1>1, <2>1, <2>2, <2>3
<1>4. CASE op \in {"given", "kept"}
  <2>1. PICK x : x = [turn[s] EXCEPT !.after = TRUE]
    OBVIOUS
  <2>2. PL!Close(s, TRUE) \/ PL!Close(s, FALSE)
    BY <1>4 DEF PL!Rest
  <2>3. turn' = [turn EXCEPT ![s] = x]
    BY <2>1, <2>2 DEF PL!Close
  <2>4. /\ x \in PL!TurnType /\ x.pc = turn[s].pc /\ x.n = turn[s].n
        /\ x.disposed = turn[s].disposed /\ x.after
    BY <1>1, <2>1 DEF PL!TurnType
  <2>5. ~overlapping => crossed' = {}
    <3>1. ASSUME ~overlapping
          PROVE  crossed = {} /\ engine = s /\ lastTurn = <<s, turn[s].n>>
      BY <1>4, <3>1, AloneFacts
    <3>. QED BY <2>2, <3>1 DEF PL!Close, PL!Mark, PL!ThisRun
  <2>. QED BY <2>3, <2>4, <2>5
<1>. QED BY <1>2, <1>3, <1>4

LEMMA FlushFirstSound ==
  ASSUME PL!IInv, NEW s \in Hosted, NEW op \in {"assemble", "given", "kept"},
         PL!FlushFirst(s, op)
  PROVE  PL!IInv'
<1>1. /\ turn[s].pc = (IF op = "assemble" THEN "running" ELSE "ended")
      /\ flow[s] = PL!NoFlow /\ (op \in {"given", "kept"} => ~turn[s].after)
      /\ UNCHANGED <<engine, hooks, reported, closing, overlapping>>
      /\ turn[s] \in PL!TurnType /\ turn \in [Hosted -> PL!TurnType]
  BY DEF PL!FlushFirst, PL!At, PL!IInv, PL!TypeInv
<1>2. CASE buffer = <<>> /\ PL!Rest(s, op) /\ UNCHANGED <<buffer, letter, flow>>
  <2>1. PICK x \in PL!TurnType :
           /\ turn' = [turn EXCEPT ![s] = x]
           /\ x.pc = turn[s].pc /\ x.n = turn[s].n /\ x.disposed = turn[s].disposed
           /\ ~overlapping => crossed' = {} /\ (~x.after => lastTurn' = lastTurn)
           /\ turn[s].after => x.after
    BY <1>1, <1>2, RestFacts
  <2>2. /\ flow[s].op = "none" /\ (closing[s] # {} => turn[s].pc = "ended" /\ ~turn[s].disposed)
        /\ turn[s].pc = "running" => ~turn[s].disposed
    BY <1>1, PluginFacts DEF PL!Waiting
  <2>3. PL!TypeInv' /\ PL!MessagesOnce' /\ PL!LettersKept' /\ \A r \in Hosted : PL!Waiting(r)'
    BY <1>1, <1>2, <2>1, <2>2, PluginFacts, QuietStep
  <2>4. (~overlapping => PL!Alone)' /\ PL!RunsApart'
    BY <1>1, <1>2, <2>1, AloneFacts, ApartStep
  <2>. QED BY <2>3, <2>4 DEF PL!IInv
<1>3. CASE /\ PL!FlushBuffer /\ UNCHANGED <<crossed, lastTurn, turn>>
           /\ flow' = [flow EXCEPT ![s] = [op |-> op, took |-> PL!RangeOf(buffer)]]
  <2>1. PICK x, f, cl : /\ x = turn[s] /\ f = [op |-> op, took |-> PL!RangeOf(buffer)]
                        /\ cl = closing[s]
    OBVIOUS
  <2>2. /\ turn' = [turn EXCEPT ![s] = x] /\ flow' = [flow EXCEPT ![s] = f]
        /\ closing' = [closing EXCEPT ![s] = cl]
    BY <1>1, <1>3, <2>1 DEF PL!IInv, PL!TypeInv
  <2>3. PL!RangeOf(buffer) \subseteq Nat
    BY PluginFacts DEF PL!RangeOf
  <2>4. /\ x \in PL!TurnType /\ f \in PL!FlowType /\ cl \in SUBSET Nat
        /\ f.op = op /\ f.took = PL!RangeOf(buffer)
        /\ cl # {} => x.pc = "ended" /\ ~x.disposed
        /\ x.pc = "running" => ~x.disposed
    BY <1>1, <2>1, <2>3, PluginFacts DEF PL!FlowType, PL!Waiting
  <2>5. /\ turn' \in [Hosted -> PL!TurnType] /\ flow' \in [Hosted -> PL!FlowType]
        /\ closing' \in [Hosted -> SUBSET Nat] /\ \A r \in Hosted : PL!Waiting(r)'
    BY <1>1, <2>1, <2>2, <2>4, WaitingStep
  <2>6. \A r \in Hosted : flow'[r].took \cup closing'[r] =
          IF r = s THEN PL!Underway(r) \cup PL!RangeOf(buffer) ELSE PL!Underway(r)
    <3>1. flow \in [Hosted -> PL!FlowType] /\ flow[s].took = {}
      BY <1>1, PluginFacts DEF PL!IInv, PL!TypeInv
    <3>. QED BY <1>1, <2>2, <2>4, <3>1 DEF PL!Underway
  <2>7. /\ letter' \in Seq(PL!LetterType) /\ buffer' \in Seq(DOMAIN letter')
        /\ PL!MessagesOnce' /\ PL!LettersKept' /\ buffer' = <<>>
        /\ ~overlapping =>
             \A m \in DOMAIN letter' :
               /\ ~letter'[m].late /\ letter'[m].of \in Hosted
               /\ letter'[m].under \in {NoSession, letter'[m].of}
               /\ letter'[m].fate \in {"filed", "failed"} \/ letter'[m].of = s
    BY <1>1, <1>3, <2>6, FlushLetters
  <2>8. (~overlapping => PL!Alone)' /\ PL!RunsApart'
    <3>1. turn[s].pc \in {"running", "ended"}
      BY <1>1
    <3>2. ASSUME ~overlapping
          PROVE /\ hooks'.key = s /\ crossed' = {}
                /\ x.pc \in {"started", "running"} /\ x.n = 1 => hooks'.id = s
                /\ x.pc \in {"running", "ended"} => engine' = s
                /\ x.pc = "ended" /\ ~x.after => lastTurn' = <<s, x.n>>
                /\ x.pc = "ended" /\ x.disposed => buffer' = <<>>
                /\ reported' => x.pc \in {"running", "ended"} /\ ~x.disposed
      BY <1>1, <1>3, <2>1, <2>7, <3>1, <3>2, AloneFacts
    <3>. QED BY <1>1, <2>1, <2>2, <2>7, <3>1, <3>2, ApartStep
  <2>9. PL!TypeInv'
    BY <1>1, <2>5, <2>7 DEF PL!IInv, PL!TypeInv
  <2>. QED BY <2>5, <2>7, <2>8, <2>9 DEF PL!IInv
<1>. QED BY <1>2, <1>3 DEF PL!FlushFirst

LEMMA ResumeSound ==
  ASSUME PL!IInv, NEW s \in Hosted, PL!Resume(s) PROVE PL!IInv'
<1>1. PICK op, took : op = flow[s].op /\ took = flow[s].took
  OBVIOUS
<1>2. PICK ok \in BOOLEAN : letter' = PL!Settled(took, ok)
  BY <1>1 DEF PL!Resume
<1>3. /\ flow[s] # PL!NoFlow /\ PL!Rest(s, op) /\ flow' = [flow EXCEPT ![s] = PL!NoFlow]
      /\ UNCHANGED <<engine, hooks, buffer, reported, closing, overlapping>>
  BY <1>1 DEF PL!Resume
<1>4. /\ op \in {"ingest", "assemble", "given", "kept"}
      /\ op \in {"ingest", "assemble"} => turn[s].pc = "running"
      /\ op \in {"given", "kept"} => turn[s].pc = "ended" /\ ~turn[s].after
      /\ closing[s] # {} => turn[s].pc = "ended" /\ ~turn[s].disposed
      /\ turn[s].pc \in {"hooked", "started", "running"} => ~turn[s].disposed
  <2>1. PL!Waiting(s) /\ flow[s] \in PL!FlowType
    BY PluginFacts
  <2>2. op # "none"
    BY <1>1, <1>3, <2>1 DEF PL!Waiting, PL!FlowType, PL!NoFlow
  <2>3. op \in {"ingest", "assemble", "given", "kept"}
    BY <1>1, <2>1, <2>2 DEF PL!FlowType
  <2>. QED BY <1>1, <2>1, <2>3 DEF PL!Waiting
<1>5. PICK x \in PL!TurnType :
        /\ turn' = [turn EXCEPT ![s] = x]
        /\ x.pc = turn[s].pc /\ x.n = turn[s].n /\ x.disposed = turn[s].disposed
        /\ ~overlapping => crossed' = {} /\ (~x.after => lastTurn' = lastTurn)
        /\ turn[s].after => x.after
  BY <1>3, <1>4, RestFacts
<1>6. /\ turn' \in [Hosted -> PL!TurnType] /\ flow' \in [Hosted -> PL!FlowType]
      /\ closing' \in [Hosted -> SUBSET Nat] /\ \A r \in Hosted : PL!Waiting(r)'
  <2>1. PICK f, cl : f = PL!NoFlow /\ cl = closing[s]
    OBVIOUS
  <2>2. closing' = [closing EXCEPT ![s] = cl] /\ cl \in SUBSET Nat
    BY <1>3, <2>1 DEF PL!IInv, PL!TypeInv
  <2>3. f \in PL!FlowType /\ f.op = "none" /\ f.took = {}
    BY <2>1, PluginFacts
  <2>. QED BY <1>3, <1>4, <1>5, <2>1, <2>2, <2>3, WaitingStep
<1>7. /\ letter' \in Seq(PL!LetterType) /\ DOMAIN letter' = DOMAIN letter
      /\ \A m \in DOMAIN letter :
           /\ m \notin took => letter'[m] = letter[m]
           /\ m \in took => letter'[m].fate \in {"filed", "failed"}
           /\ letter'[m].under = letter[m].under /\ letter'[m].sends = letter[m].sends
           /\ letter'[m].of = letter[m].of /\ letter'[m].late = letter[m].late
  BY <1>2, PluginFacts, SettledFacts
<1>8. \A r \in Hosted : PL!Underway(r)' = IF r = s THEN closing[s] ELSE PL!Underway(r)
  <2>1. flow \in [Hosted -> PL!FlowType] /\ PL!NoFlow.took = {}
    BY PluginFacts DEF PL!IInv, PL!TypeInv
  <2>. QED BY <1>3, <2>1 DEF PL!Underway
<1>9. ASSUME NEW m \in DOMAIN letter
      PROVE  /\ letter[m].sends <= 1 /\ (letter[m].fate = "dropped" => letter[m].late)
             /\ letter[m].fate = "buffered" <=> m \in PL!RangeOf(buffer)
             /\ letter[m].fate = "buffered" => letter[m].sends = 0 /\ m \notin took
             /\ letter[m].fate = "sent" => \E r \in Hosted : m \in PL!Underway(r)
  <2>1. m \in took => letter[m].fate \in {"sent", "filed", "failed"}
    BY <1>1 DEF PL!IInv, PL!LettersKept, PL!Underway
  <2>. QED BY <2>1 DEF PL!IInv, PL!MessagesOnce, PL!LettersKept
<1>10. PL!MessagesOnce'
  <2>1. ASSUME NEW m \in DOMAIN letter
        PROVE  /\ letter'[m].sends <= 1 /\ (letter'[m].fate = "dropped" => letter'[m].late)
               /\ letter'[m].fate = "buffered" <=> m \in PL!RangeOf(buffer)
    BY <1>7, <1>9
  <2>. QED BY <1>3, <1>7, <2>1 DEF PL!MessagesOnce
<1>11. PL!LettersKept'
  <2>1. ASSUME NEW m \in DOMAIN letter
        PROVE  /\ letter'[m].fate = "buffered" => letter'[m].sends = 0
               /\ letter'[m].fate = "sent" => \E r \in Hosted : m \in PL!Underway(r)'
    <3>1. CASE m \in took
      BY <1>7, <3>1
    <3>2. CASE m \notin took
      <4>1. m \in PL!Underway(s) => m \in PL!Underway(s)'
        BY <1>1, <1>8, <3>2 DEF PL!Underway
      <4>. QED BY <1>7, <1>8, <1>9, <3>2, <4>1
    <3>. QED BY <3>1, <3>2
  <2>2. ASSUME NEW r \in Hosted, NEW m \in PL!Underway(r)'
        PROVE  m \in DOMAIN letter /\ letter'[m].fate \in {"sent", "filed", "failed"}
    <3>1. m \in PL!Underway(r)
      BY <1>8, <2>2 DEF PL!Underway
    <3>2. m \in DOMAIN letter /\ letter[m].fate \in {"sent", "filed", "failed"}
      BY <3>1 DEF PL!IInv, PL!LettersKept
    <3>. QED BY <1>7, <3>2
  <2>3. ASSUME NEW r \in Hosted, closing'[r] # {}, NEW m \in PL!RangeOf(buffer)'
        PROVE  letter'[m].late
    <3>1. m \in PL!RangeOf(buffer) /\ m \in DOMAIN letter /\ closing[r] # {}
      BY <1>3, <2>3, PluginFacts DEF PL!RangeOf
    <3>2. letter[m].late
      BY <3>1 DEF PL!IInv, PL!LettersKept
    <3>. QED BY <1>7, <3>1, <3>2
  <2>. QED BY <1>7, <2>1, <2>2, <2>3 DEF PL!LettersKept
<1>12. (~overlapping => PL!Alone)' /\ PL!RunsApart'
  <2>1. turn[s].pc # "idle"
    BY <1>4
  <2>2. ASSUME ~overlapping
        PROVE  \A m \in DOMAIN letter' :
                /\ ~letter'[m].late /\ letter'[m].of \in Hosted
                /\ letter'[m].under \in {NoSession, letter'[m].of}
                /\ letter'[m].fate \in {"filed", "failed"} \/ letter'[m].of = s
    BY <1>7, <2>1, <2>2, AloneFacts
  <2>3. ASSUME ~overlapping
        PROVE   /\ hooks'.key = s /\ crossed' = {}
                /\ x.pc \in {"started", "running"} /\ x.n = 1 => hooks'.id = s
                /\ x.pc \in {"running", "ended"} => engine' = s
                /\ x.pc = "ended" /\ ~x.after => lastTurn' = <<s, x.n>>
                /\ x.pc = "ended" /\ x.disposed => buffer' = <<>>
                /\ reported' => x.pc \in {"running", "ended"} /\ ~x.disposed
    BY <1>3, <1>5, <2>1, <2>3, AloneFacts
  <2>. QED BY <1>3, <1>5, <2>1, <2>2, <2>3, ApartStep
<1>13. PL!TypeInv'
  <2>1. buffer' \in Seq(DOMAIN letter')
    BY <1>3, <1>7 DEF PL!IInv, PL!TypeInv
  <2>. QED BY <1>3, <1>6, <1>7, <2>1 DEF PL!IInv, PL!TypeInv
<1>. QED BY <1>6, <1>10, <1>11, <1>12, <1>13 DEF PL!IInv

LEMMA WiderSeq ==
  ASSUME NEW S, NEW T, S \subseteq T, NEW q \in Seq(S) PROVE q \in Seq(T)
OBVIOUS

LEMMA DisposeSound ==
  ASSUME PL!IInv, NEW s \in Hosted, PL!Dispose(s) PROVE PL!IInv'
<1>1. /\ turn[s].pc = "ended" /\ ~turn[s].disposed /\ closing[s] = {}
      /\ UNCHANGED <<engine, hooks, lastTurn, flow, crossed, overlapping>>
      /\ turn[s] \in PL!TurnType /\ turn \in [Hosted -> PL!TurnType]
      /\ flow \in [Hosted -> PL!FlowType] /\ closing \in [Hosted -> SUBSET Nat]
  BY DEF PL!Dispose, PL!IInv, PL!TypeInv
<1>2. CASE /\ buffer = <<>> /\ turn' = [turn EXCEPT ![s].disposed = TRUE] /\ reported' = FALSE
           /\ UNCHANGED <<buffer, letter, closing>>
  <2>1. PICK x : x = [turn[s] EXCEPT !.disposed = TRUE]
    OBVIOUS
  <2>2. turn' = [turn EXCEPT ![s] = x]
    BY <1>2, <2>1
  <2>3. /\ x \in PL!TurnType /\ x.pc = "ended" /\ x.n = turn[s].n /\ x.disposed
        /\ x.after = turn[s].after
    BY <1>1, <2>1 DEF PL!TurnType
  <2>4. /\ flow[s].op \notin {"ingest", "assemble"}
        /\ flow[s].op \in {"given", "kept"} => ~turn[s].after
    BY <1>1, PluginFacts DEF PL!Waiting
  <2>5. PL!TypeInv' /\ PL!MessagesOnce' /\ PL!LettersKept' /\ \A r \in Hosted : PL!Waiting(r)'
    BY <1>1, <1>2, <2>2, <2>3, <2>4, PluginFacts, QuietStep
  <2>6. (~overlapping => PL!Alone)' /\ PL!RunsApart'
    <3>1. ASSUME ~overlapping
          PROVE /\ hooks'.key = s /\ crossed' = {}
                /\ x.pc \in {"started", "running"} /\ x.n = 1 => hooks'.id = s
                /\ x.pc \in {"running", "ended"} => engine' = s
                /\ x.pc = "ended" /\ ~x.after => lastTurn' = <<s, x.n>>
                /\ x.pc = "ended" /\ x.disposed => buffer' = <<>>
                /\ reported' => x.pc \in {"running", "ended"} /\ ~x.disposed
                /\ \A m \in DOMAIN letter' :
                     /\ ~letter'[m].late /\ letter'[m].of \in Hosted
                     /\ letter'[m].under \in {NoSession, letter'[m].of}
                     /\ letter'[m].fate \in {"filed", "failed"} \/ letter'[m].of = s
      BY <1>1, <1>2, <2>3, <3>1, AloneFacts
    <3>. QED BY <1>1, <2>2, <2>3, <3>1, ApartStep
  <2>. QED BY <2>5, <2>6 DEF PL!IInv
<1>3. CASE /\ PL!FlushBuffer /\ closing' = [closing EXCEPT ![s] = PL!RangeOf(buffer)]
           /\ UNCHANGED <<turn, reported>>
  <2>1. PICK x, f, cl : x = turn[s] /\ f = flow[s] /\ cl = PL!RangeOf(buffer)
    OBVIOUS
  <2>2. /\ turn' = [turn EXCEPT ![s] = x] /\ flow' = [flow EXCEPT ![s] = f]
        /\ closing' = [closing EXCEPT ![s] = cl]
    BY <1>1, <1>3, <2>1
  <2>3. cl \in SUBSET Nat
    BY <2>1, PluginFacts DEF PL!RangeOf
  <2>4. /\ x \in PL!TurnType /\ f \in PL!FlowType
        /\ f.op \notin {"ingest", "assemble"}
        /\ f.op \in {"given", "kept"} => ~x.after
        /\ f.op = "none" => f.took = {}
    BY <1>1, <2>1, PluginFacts DEF PL!Waiting
  <2>5. /\ turn' \in [Hosted -> PL!TurnType] /\ flow' \in [Hosted -> PL!FlowType]
        /\ closing' \in [Hosted -> SUBSET Nat] /\ \A r \in Hosted : PL!Waiting(r)'
    BY <1>1, <2>1, <2>2, <2>3, <2>4, WaitingStep
  <2>6. \A r \in Hosted : flow'[r].took \cup closing'[r] =
          IF r = s THEN PL!Underway(r) \cup PL!RangeOf(buffer) ELSE PL!Underway(r)
    BY <1>1, <2>1, <2>2 DEF PL!Underway
  <2>7. /\ letter' \in Seq(PL!LetterType) /\ buffer' \in Seq(DOMAIN letter')
        /\ PL!MessagesOnce' /\ PL!LettersKept' /\ buffer' = <<>>
        /\ ~overlapping =>
             \A m \in DOMAIN letter' :
               /\ ~letter'[m].late /\ letter'[m].of \in Hosted
               /\ letter'[m].under \in {NoSession, letter'[m].of}
               /\ letter'[m].fate \in {"filed", "failed"} \/ letter'[m].of = s
    BY <1>1, <1>3, <2>6, FlushLetters
  <2>8. (~overlapping => PL!Alone)' /\ PL!RunsApart'
    <3>1. turn[s].pc = "ended"
      BY <1>1
    <3>2. ASSUME ~overlapping
          PROVE /\ hooks'.key = s /\ crossed' = {}
                /\ x.pc \in {"started", "running"} /\ x.n = 1 => hooks'.id = s
                /\ x.pc \in {"running", "ended"} => engine' = s
                /\ x.pc = "ended" /\ ~x.after => lastTurn' = <<s, x.n>>
                /\ x.pc = "ended" /\ x.disposed => buffer' = <<>>
                /\ reported' => x.pc \in {"running", "ended"} /\ ~x.disposed
      BY <1>1, <1>3, <2>1, <2>7, <3>1, <3>2, AloneFacts
    <3>. QED BY <1>1, <2>1, <2>2, <2>7, <3>1, <3>2, ApartStep
  <2>9. PL!TypeInv'
    BY <1>1, <2>5, <2>7 DEF PL!IInv, PL!TypeInv
  <2>. QED BY <2>5, <2>7, <2>8, <2>9 DEF PL!IInv
<1>. QED BY <1>2, <1>3 DEF PL!Dispose

\* Only messages that came while the dispose was waiting are in the buffer it clears.
LEMMA DisposedSound ==
  ASSUME PL!IInv, NEW s \in Hosted, PL!Disposed(s) PROVE PL!IInv'
<1>1. /\ closing[s] # {} /\ buffer' = <<>> /\ reported' = FALSE
      /\ closing' = [closing EXCEPT ![s] = {}]
      /\ UNCHANGED <<engine, hooks, lastTurn, flow, crossed, overlapping>>
      /\ turn[s] \in PL!TurnType /\ turn \in [Hosted -> PL!TurnType]
      /\ flow \in [Hosted -> PL!FlowType] /\ closing \in [Hosted -> SUBSET Nat]
  BY DEF PL!Disposed, PL!IInv, PL!TypeInv
<1>2. PICK left0, gone0 : left0 = closing[s] /\ gone0 = PL!RangeOf(buffer)
  OBVIOUS
<1>3. PICK ok \in BOOLEAN :
        letter' = [m \in DOMAIN letter |->
                    IF m \in gone0 THEN [letter[m] EXCEPT !.fate = "dropped"]
                    ELSE PL!Settled(left0, ok)[m]]
  BY <1>2 DEF PL!Disposed
<1>4. PICK x : x = [turn[s] EXCEPT !.disposed = TRUE]
  OBVIOUS
<1>5. /\ turn' = [turn EXCEPT ![s] = x] /\ turn[s].pc = "ended"
      /\ flow[s].op \notin {"ingest", "assemble"}
      /\ flow[s].op \in {"given", "kept"} => ~turn[s].after
      /\ flow[s].op = "none" => flow[s].took = {}
  BY <1>1, <1>4, PluginFacts DEF PL!Disposed, PL!Waiting
<1>6. /\ x \in PL!TurnType /\ x.pc = "ended" /\ x.n = turn[s].n /\ x.disposed
      /\ x.after = turn[s].after
  BY <1>1, <1>4, <1>5 DEF PL!TurnType
<1>7. /\ turn' \in [Hosted -> PL!TurnType] /\ flow' \in [Hosted -> PL!FlowType]
      /\ closing' \in [Hosted -> SUBSET Nat] /\ \A r \in Hosted : PL!Waiting(r)'
  <2>1. PICK f, cl : f = flow[s] /\ cl = {}
    OBVIOUS
  <2>2. /\ flow' = [flow EXCEPT ![s] = f] /\ closing' = [closing EXCEPT ![s] = cl]
        /\ f \in PL!FlowType /\ cl \in SUBSET Nat
    BY <1>1, <2>1
  <2>. QED BY <1>5, <1>6, <2>1, <2>2, WaitingStep
<1>8. \A m \in DOMAIN letter : letter[m] \in PL!LetterType
  BY PluginFacts, LetterFacts
<1>9. /\ DOMAIN PL!Settled(left0, ok) = DOMAIN letter
      /\ \A m \in DOMAIN letter :
           /\ m \notin left0 => PL!Settled(left0, ok)[m] = letter[m]
           /\ m \in left0 => PL!Settled(left0, ok)[m].fate \in {"filed", "failed"}
           /\ PL!Settled(left0, ok)[m].under = letter[m].under
           /\ PL!Settled(left0, ok)[m].sends = letter[m].sends
           /\ PL!Settled(left0, ok)[m].of = letter[m].of
           /\ PL!Settled(left0, ok)[m].late = letter[m].late
           /\ PL!Settled(left0, ok)[m] \in PL!LetterType
  BY PluginFacts, SettledFacts, LetterFacts
<1>10. /\ DOMAIN letter' = DOMAIN letter
       /\ \A m \in DOMAIN letter :
            letter'[m] = IF m \in gone0 THEN [letter[m] EXCEPT !.fate = "dropped"]
                         ELSE PL!Settled(left0, ok)[m]
  BY <1>3
<1>11. ASSUME NEW m \in DOMAIN letter
       PROVE  /\ letter'[m] \in PL!LetterType
              /\ m \in gone0 => letter'[m].fate = "dropped"
              /\ m \notin gone0 /\ m \notin left0 => letter'[m].fate = letter[m].fate
              /\ m \notin gone0 /\ m \in left0 => letter'[m].fate \in {"filed", "failed"}
              /\ letter'[m].under = letter[m].under /\ letter'[m].sends = letter[m].sends
              /\ letter'[m].of = letter[m].of /\ letter'[m].late = letter[m].late
  <2>1. CASE m \in gone0
    <3>1. letter'[m] = [letter[m] EXCEPT !.fate = "dropped"] /\ letter[m] \in PL!LetterType
      BY <1>8, <1>10, <2>1
    <3>. QED BY <2>1, <3>1 DEF PL!LetterType, PL!Fates
  <2>2. CASE m \notin gone0
    <3>1. letter'[m] = PL!Settled(left0, ok)[m]
      BY <1>10, <2>2
    <3>. QED BY <1>9, <2>2, <3>1
  <2>. QED BY <2>1, <2>2
<1>12. letter' \in Seq(PL!LetterType)
  <2>1. PICK k \in Nat : DOMAIN letter = 1..k
    BY PluginFacts
  <2>2. letter' \in [1..k -> PL!LetterType]
    BY <1>3, <1>11, <2>1
  <2>. QED BY <2>2
<1>13. ASSUME NEW m \in DOMAIN letter
       PROVE  /\ letter[m].sends <= 1 /\ (letter[m].fate = "dropped" => letter[m].late)
              /\ letter[m].fate = "buffered" <=> m \in gone0
              /\ letter[m].fate = "sent" => \E r \in Hosted : m \in PL!Underway(r)
              /\ m \in gone0 => letter[m].late
  BY <1>1, <1>2 DEF PL!IInv, PL!MessagesOnce, PL!LettersKept
<1>14. PL!RangeOf(buffer)' = {}
  BY <1>1 DEF PL!RangeOf
<1>15. PL!MessagesOnce'
  <2>1. ASSUME NEW m \in DOMAIN letter
        PROVE  /\ letter'[m].sends <= 1 /\ (letter'[m].fate = "dropped" => letter'[m].late)
               /\ letter'[m].fate # "buffered"
    BY <1>11, <1>13
  <2>. QED BY <1>10, <1>14, <2>1 DEF PL!MessagesOnce
<1>16. PL!LettersKept'
  <2>1. \A r \in Hosted : PL!Underway(r)' = IF r = s THEN flow[s].took ELSE PL!Underway(r)
    BY <1>1 DEF PL!Underway
  <2>2. ASSUME NEW m \in DOMAIN letter
        PROVE  /\ letter'[m].fate # "buffered"
               /\ letter'[m].fate = "sent" => \E r \in Hosted : m \in PL!Underway(r)'
    <3>1. letter'[m].fate = "sent" => m \notin left0 /\ m \notin gone0
      BY <1>11
    <3>2. m \in PL!Underway(s) /\ m \notin left0 => m \in PL!Underway(s)'
      BY <1>2, <2>1 DEF PL!Underway
    <3>. QED BY <1>11, <1>13, <2>1, <3>1, <3>2
  <2>3. ASSUME NEW r \in Hosted, NEW m \in PL!Underway(r)'
        PROVE  m \in DOMAIN letter /\ letter'[m].fate \in {"sent", "filed", "failed"}
    <3>1. m \in PL!Underway(r)
      BY <2>1, <2>3 DEF PL!Underway
    <3>2. m \in DOMAIN letter /\ letter[m].fate \in {"sent", "filed", "failed"}
      BY <3>1 DEF PL!IInv, PL!LettersKept
    <3>. QED BY <1>11, <1>13, <3>2
  <2>. QED BY <1>10, <1>14, <2>2, <2>3 DEF PL!LettersKept
<1>17. (~overlapping => PL!Alone)' /\ PL!RunsApart'
  <2>1. ASSUME ~overlapping
        PROVE  \A m \in DOMAIN letter' :
                /\ ~letter'[m].late /\ letter'[m].of \in Hosted
                /\ letter'[m].under \in {NoSession, letter'[m].of}
                /\ letter'[m].fate \in {"filed", "failed"} \/ letter'[m].of = s
    <3>1. \A m \in DOMAIN letter :
            /\ ~letter[m].late /\ letter[m].of \in Hosted
            /\ letter[m].under \in {NoSession, letter[m].of}
            /\ letter[m].fate \in {"filed", "failed"} \/ letter[m].of = s
      BY <1>5, <2>1, AloneFacts
    <3>. QED BY <1>10, <1>11, <1>13, <3>1
  <2>2. ASSUME ~overlapping
        PROVE   /\ hooks'.key = s /\ crossed' = {}
                /\ x.pc \in {"started", "running"} /\ x.n = 1 => hooks'.id = s
                /\ x.pc \in {"running", "ended"} => engine' = s
                /\ x.pc = "ended" /\ ~x.after => lastTurn' = <<s, x.n>>
                /\ x.pc = "ended" /\ x.disposed => buffer' = <<>>
                /\ reported' => x.pc \in {"running", "ended"} /\ ~x.disposed
    BY <1>1, <1>5, <1>6, <2>2, AloneFacts
  <2>. QED BY <1>1, <1>5, <1>6, <2>1, <2>2, ApartStep
<1>18. PL!TypeInv'
  BY <1>1, <1>7, <1>12 DEF PL!IInv, PL!TypeInv
<1>. QED BY <1>7, <1>15, <1>16, <1>17, <1>18 DEF PL!IInv

LEMMA AppendFacts ==
  ASSUME NEW T, NEW q \in Seq(T), NEW y \in T, NEW m, m = Len(q) + 1
  PROVE  /\ Append(q, y) \in Seq(T) /\ m \notin DOMAIN q /\ m \in Nat
         /\ DOMAIN Append(q, y) = DOMAIN q \cup {m}
         /\ \A k \in DOMAIN q : Append(q, y)[k] = q[k]
         /\ Append(q, y)[m] = y
<1>1. Append(q, y) \in Seq(T) /\ Len(q) \in Nat /\ DOMAIN q = 1..Len(q)
  OBVIOUS
<1>2. Len(Append(q, y)) = m /\ DOMAIN Append(q, y) = 1..m
  OBVIOUS
<1>3. 1..m = 1..Len(q) \cup {m} /\ m \notin 1..Len(q) /\ m \in Nat
  BY <1>1
<1>4. Append(q, y)[m] = y /\ \A k \in 1..Len(q) : Append(q, y)[k] = q[k]
  BY <1>1
<1>. QED BY <1>1, <1>2, <1>3, <1>4

LEMMA SaidFacts ==
  ASSUME PL!IInv, NEW s \in Hosted
  PROVE  \E m, d :
    /\ m = Len(letter) + 1 /\ d = PL!Said(s)
    /\ d \in Seq(PL!LetterType) /\ m \notin DOMAIN letter /\ m \in Nat
    /\ DOMAIN d = DOMAIN letter \cup {m}
    /\ \A k \in DOMAIN letter : d[k] = letter[k]
    /\ d[m].of = s /\ d[m].fate = "buffered" /\ d[m].under = NoSession /\ d[m].sends = 0
    /\ (\E r \in Hosted : closing[r] # {}) => d[m].late
    /\ (\A r \in Hosted : closing[r] = {}) => ~d[m].late
<1>0. PICK m, d : m = Len(letter) + 1 /\ d = PL!Said(s)
  OBVIOUS
<1>1. letter \in Seq(PL!LetterType)
  BY PluginFacts
<1>2. PICK y : y = [of |-> s, fate |-> "buffered", under |-> NoSession, sends |-> 0,
                    late |-> \E r \in Hosted : closing[r] # {}]
  OBVIOUS
<1>3. y \in PL!LetterType
  <2>1. (\E r \in Hosted : closing[r] # {}) \in BOOLEAN
    OBVIOUS
  <2>. QED BY <1>2, <2>1 DEF PL!LetterType, PL!Fates
<1>4. d = Append(letter, y)
  BY <1>0, <1>2 DEF PL!Said
<1>5. /\ Append(letter, y) \in Seq(PL!LetterType) /\ m \notin DOMAIN letter /\ m \in Nat
      /\ DOMAIN Append(letter, y) = DOMAIN letter \cup {m}
      /\ \A k \in DOMAIN letter : Append(letter, y)[k] = letter[k]
      /\ Append(letter, y)[m] = y
  BY <1>0, <1>1, <1>3, AppendFacts
<1>6. /\ y.of = s /\ y.fate = "buffered" /\ y.under = NoSession /\ y.sends = 0
      /\ (\E r \in Hosted : closing[r] # {}) => y.late
      /\ (\A r \in Hosted : closing[r] = {}) => ~y.late
  BY <1>2
<1>7. WITNESS m, d
<1>. QED BY <1>0, <1>4, <1>5, <1>6

\* What is true of the messages once s has said one more, which is not yet sent.
Spoken(s, m, d, B) ==
    /\ m = Len(letter) + 1 /\ d = PL!Said(s) /\ B = PL!RangeOf(buffer)
    /\ d \in Seq(PL!LetterType) /\ m \in Nat
    /\ B \subseteq DOMAIN letter /\ DOMAIN d = DOMAIN letter \cup {m}
    /\ m \notin B
    /\ \A k \in DOMAIN d :
         /\ d[k].sends <= 1 /\ (d[k].fate = "dropped" => d[k].late)
         /\ d[k].fate = "buffered" <=> k \in B \cup {m}
         /\ d[k].fate = "buffered" => d[k].sends = 0
         /\ d[k].fate = "sent" => \E r \in Hosted : k \in PL!Underway(r)
    /\ \A r \in Hosted :
         /\ \A k \in PL!Underway(r) : k \in DOMAIN d /\ d[k].fate \in {"sent", "filed", "failed"}
         /\ closing[r] # {} => \A k \in B \cup {m} : d[k].late
    /\ ~overlapping => \A k \in DOMAIN d :
         /\ ~d[k].late /\ d[k].of \in Hosted /\ d[k].under \in {NoSession, d[k].of}
         /\ d[k].fate \in {"filed", "failed"} \/ d[k].of = s

LEMMA SaidSound ==
  ASSUME PL!IInv, NEW s \in Hosted, turn[s].pc = "running"
  PROVE  \E m, d, B : Spoken(s, m, d, B)
<1>0. PICK m, d :
        /\ m = Len(letter) + 1 /\ d = PL!Said(s)
        /\ d \in Seq(PL!LetterType) /\ m \notin DOMAIN letter /\ m \in Nat
        /\ DOMAIN d = DOMAIN letter \cup {m}
        /\ \A k \in DOMAIN letter : d[k] = letter[k]
        /\ d[m].of = s /\ d[m].fate = "buffered" /\ d[m].under = NoSession /\ d[m].sends = 0
        /\ (\E r \in Hosted : closing[r] # {}) => d[m].late
        /\ (\A r \in Hosted : closing[r] = {}) => ~d[m].late
  BY SaidFacts
<1>1. PICK B : B = PL!RangeOf(buffer)
  OBVIOUS
<1>2. B \subseteq DOMAIN letter
  BY <1>0, <1>1, PluginFacts DEF PL!RangeOf
<1>3. \A k \in DOMAIN letter :
        /\ letter[k].sends <= 1 /\ (letter[k].fate = "dropped" => letter[k].late)
        /\ letter[k].fate = "buffered" <=> k \in B
        /\ letter[k].fate = "buffered" => letter[k].sends = 0
        /\ letter[k].fate = "sent" => \E r \in Hosted : k \in PL!Underway(r)
  BY <1>1 DEF PL!IInv, PL!MessagesOnce, PL!LettersKept
<1>4. \A r \in Hosted :
        /\ \A k \in PL!Underway(r) :
             k \in DOMAIN letter /\ letter[k].fate \in {"sent", "filed", "failed"}
        /\ closing[r] # {} => \A k \in B : letter[k].late
  BY <1>1 DEF PL!IInv, PL!LettersKept
<1>5. ASSUME NEW k \in DOMAIN d
      PROVE  /\ d[k].sends <= 1 /\ (d[k].fate = "dropped" => d[k].late)
             /\ d[k].fate = "buffered" <=> k \in B \cup {m}
             /\ d[k].fate = "buffered" => d[k].sends = 0
             /\ d[k].fate = "sent" => \E r \in Hosted : k \in PL!Underway(r)
  <2>1. CASE k = m
    BY <1>0, <1>1, <2>1
  <2>2. CASE k # m
    BY <1>0, <1>1, <1>3, <2>2
  <2>. QED BY <2>1, <2>2
<1>6. ASSUME NEW r \in Hosted
      PROVE  /\ \A k \in PL!Underway(r) :
                  k \in DOMAIN d /\ d[k].fate \in {"sent", "filed", "failed"}
             /\ closing[r] # {} => \A k \in B \cup {m} : d[k].late
  <2>1. closing[r] # {} => d[m].late
    BY <1>0
  <2>. QED BY <1>0, <1>1, <1>2, <1>4, <2>1
<1>7. ASSUME ~overlapping, NEW k \in DOMAIN d
      PROVE  /\ ~d[k].late /\ d[k].of \in Hosted /\ d[k].under \in {NoSession, d[k].of}
             /\ d[k].fate \in {"filed", "failed"} \/ d[k].of = s
  <2>1. CASE k = m
    <3>1. closing[s] = {}
      BY PluginFacts DEF PL!Waiting
    <3>2. \A r \in Hosted : closing[r] = {}
      BY <1>7, <3>1, AloneFacts
    <3>. QED BY <1>0, <1>1, <2>1, <3>2
  <2>2. CASE k # m
    BY <1>0, <1>1, <1>7, <2>2, AloneFacts
  <2>. QED BY <2>1, <2>2
<1>8. Spoken(s, m, d, B)
  BY <1>0, <1>1, <1>2, <1>5, <1>6, <1>7 DEF Spoken
<1>. QED BY <1>8

\* The rest of the state, when s ingests.
LEMMA IngestRest ==
  ASSUME PL!IInv, NEW s \in Hosted, PL!At(s, "running"),
         UNCHANGED <<engine, hooks, lastTurn, reported, turn, closing, crossed, overlapping>>,
         NEW took \in SUBSET Nat, NEW op \in {"none", "ingest"}, op = "none" => took = {},
         flow' = [flow EXCEPT ![s] = [op |-> op, took |-> took]],
         letter' \in Seq(PL!LetterType), buffer' \in Seq(DOMAIN letter'),
         PL!MessagesOnce', PL!LettersKept',
         ~overlapping => \A m \in DOMAIN letter' :
           /\ ~letter'[m].late /\ letter'[m].of \in Hosted
           /\ letter'[m].under \in {NoSession, letter'[m].of}
           /\ letter'[m].fate \in {"filed", "failed"} \/ letter'[m].of = s
  PROVE  PL!IInv'
<1>1. turn[s].pc = "running" /\ turn \in [Hosted -> PL!TurnType] /\ turn[s] \in PL!TurnType
      /\ closing \in [Hosted -> SUBSET Nat]
  BY DEF PL!At, PL!IInv, PL!TypeInv
<1>2. PICK x, f, cl : x = turn[s] /\ f = [op |-> op, took |-> took] /\ cl = closing[s]
  OBVIOUS
<1>3. /\ turn' = [turn EXCEPT ![s] = x] /\ flow' = [flow EXCEPT ![s] = f]
      /\ closing' = [closing EXCEPT ![s] = cl]
  BY <1>1, <1>2
<1>4. /\ x \in PL!TurnType /\ x.pc = "running" /\ ~x.disposed /\ cl = {}
      /\ f \in PL!FlowType /\ f.op = op /\ f.took = took /\ cl \in SUBSET Nat
  BY <1>1, <1>2, PluginFacts DEF PL!FlowType, PL!Waiting
<1>5. /\ turn' \in [Hosted -> PL!TurnType] /\ flow' \in [Hosted -> PL!FlowType]
      /\ closing' \in [Hosted -> SUBSET Nat] /\ \A r \in Hosted : PL!Waiting(r)'
  <2>1. x \in PL!TurnType /\ f \in PL!FlowType /\ cl \in SUBSET Nat
    BY <1>4
  <2>2. /\ f.op \in {"ingest", "assemble"} => x.pc = "running"
        /\ f.op \in {"given", "kept"} => x.pc = "ended" /\ ~x.after
        /\ f.op = "none" => f.took = {}
        /\ cl # {} => x.pc = "ended" /\ ~x.disposed
        /\ x.pc \in {"hooked", "started", "running"} => ~x.disposed
    BY <1>4
  <2>3. turn' \in [Hosted -> PL!TurnType] /\ flow' \in [Hosted -> PL!FlowType]
        /\ closing' \in [Hosted -> SUBSET Nat]
    BY <1>1, <1>3, <2>1 DEF PL!IInv, PL!TypeInv
  <2>4. ASSUME NEW r \in Hosted PROVE PL!Waiting(r)'
    <3>1. CASE r = s
      <4>1. turn'[s] = x /\ flow'[s] = f /\ closing'[s] = cl
        BY <1>1, <1>2, <1>3 DEF PL!IInv, PL!TypeInv
      <4>. QED BY <2>2, <3>1, <4>1 DEF PL!Waiting
    <3>2. CASE r # s
      <4>1. turn'[r] = turn[r] /\ flow'[r] = flow[r] /\ closing'[r] = closing[r]
        BY <1>3, <3>2 DEF PL!IInv, PL!TypeInv
      <4>. QED BY <4>1, PluginFacts DEF PL!Waiting
    <3>. QED BY <3>1, <3>2
  <2>. QED BY <2>3, <2>4
<1>6. PL!TypeInv'
  BY <1>5 DEF PL!IInv, PL!TypeInv
<1>7. (~overlapping => PL!Alone)' /\ PL!RunsApart'
  <2>1. ASSUME ~overlapping
        PROVE   /\ hooks'.key = s /\ crossed' = {}
                /\ x.pc \in {"started", "running"} /\ x.n = 1 => hooks'.id = s
                /\ x.pc \in {"running", "ended"} => engine' = s
                /\ x.pc = "ended" /\ ~x.after => lastTurn' = <<s, x.n>>
                /\ x.pc = "ended" /\ x.disposed => buffer' = <<>>
                /\ reported' => x.pc \in {"running", "ended"} /\ ~x.disposed
    BY <1>1, <1>2, <1>4, <2>1, AloneFacts
  <2>2. overlapping' = overlapping /\ turn[s].pc # "idle" /\ x.pc # "idle"
    BY <1>1, <1>4
  <2>. QED BY <1>3, <2>1, <2>2, ApartStep
<1>. QED BY <1>5, <1>6, <1>7 DEF PL!IInv

\* The request takes along the new message and, from the buffer, all or nothing.
LEMMA NewSentSound ==
  ASSUME PL!IInv, NEW s \in Hosted, PL!At(s, "running"), NEW m, m = Len(letter) + 1,
         UNCHANGED <<engine, hooks, lastTurn, reported, turn, closing, crossed, overlapping>>,
         NEW took, m \in took, took \subseteq PL!RangeOf(buffer) \cup {m},
         letter' = PL!Sent(PL!Said(s), took),
         PL!RangeOf(buffer') = PL!RangeOf(buffer) \ took, buffer' \in {buffer, <<>>},
         flow' = [flow EXCEPT ![s] = [op |-> "ingest", took |-> took]]
  PROVE  PL!IInv'
<1>1. turn[s].pc = "running" /\ flow[s] = PL!NoFlow
  BY DEF PL!At
<1>0. PICK n, d, B : Spoken(s, n, d, B)
  BY <1>1, SaidSound
<1>2. /\ n = Len(letter) + 1 /\ d = PL!Said(s) /\ B = PL!RangeOf(buffer)
      /\ d \in Seq(PL!LetterType) /\ n \in Nat
      /\ B \subseteq DOMAIN letter /\ DOMAIN d = DOMAIN letter \cup {n}
      /\ n \notin B
      /\ \A k \in DOMAIN d :
           /\ d[k].sends <= 1 /\ (d[k].fate = "dropped" => d[k].late)
           /\ d[k].fate = "buffered" <=> k \in B \cup {n}
           /\ d[k].fate = "buffered" => d[k].sends = 0
           /\ d[k].fate = "sent" => \E r \in Hosted : k \in PL!Underway(r)
      /\ \A r \in Hosted :
           /\ \A k \in PL!Underway(r) : k \in DOMAIN d /\ d[k].fate \in {"sent", "filed", "failed"}
           /\ closing[r] # {} => \A k \in B \cup {n} : d[k].late
      /\ ~overlapping => \A k \in DOMAIN d :
           /\ ~d[k].late /\ d[k].of \in Hosted /\ d[k].under \in {NoSession, d[k].of}
           /\ d[k].fate \in {"filed", "failed"} \/ d[k].of = s
  BY <1>0 DEF Spoken
<1>3. n = m
  BY <1>2
<1>4. took \subseteq DOMAIN d /\ took \in SUBSET Nat
  <2>1. took \subseteq DOMAIN d
    BY <1>2, <1>3
  <2>. QED BY <1>2, <1>3, <2>1
<1>5. /\ letter' \in Seq(PL!LetterType) /\ DOMAIN letter' = DOMAIN d
      /\ \A k \in DOMAIN d :
           /\ k \notin took => letter'[k] = d[k]
           /\ k \in took =>
                /\ letter'[k].fate = "sent" /\ letter'[k].under = engine
                /\ letter'[k].sends = d[k].sends + 1
                /\ letter'[k].of = d[k].of /\ letter'[k].late = d[k].late
  <2>1. engine \in Hosted \cup {NoSession} /\ letter' = PL!Sent(d, took)
    BY <1>2, PluginFacts
  <2>. QED BY <1>2, <1>3, <2>1, SentFacts
<1>6. \A r \in Hosted : PL!Underway(r)' = IF r = s THEN took \cup closing[s] ELSE PL!Underway(r)
  <2>1. flow \in [Hosted -> PL!FlowType]
    BY DEF PL!IInv, PL!TypeInv
  <2>. QED BY <2>1 DEF PL!Underway
<1>7. PL!Underway(s) = closing[s]
  BY <1>1, PluginFacts DEF PL!Underway
<1>8. PL!MessagesOnce'
  <2>1. ASSUME NEW k \in DOMAIN d
        PROVE  /\ letter'[k].sends <= 1 /\ (letter'[k].fate = "dropped" => letter'[k].late)
               /\ letter'[k].fate = "buffered" <=> k \in B \ took
    <3>1. CASE k \in took
      <4>1. d[k].fate = "buffered" /\ d[k].sends = 0
        BY <1>2, <1>3, <3>1
      <4>2. letter'[k].fate = "sent" /\ letter'[k].sends = d[k].sends + 1
        BY <1>5, <3>1
      <4>. QED BY <3>1, <4>1, <4>2
    <3>2. CASE k \notin took
      BY <1>2, <1>3, <1>5, <3>2
    <3>. QED BY <3>1, <3>2
  <2>. QED BY <1>2, <1>5, <2>1 DEF PL!MessagesOnce
<1>9. PL!LettersKept'
  <2>1. ASSUME NEW k \in DOMAIN d
        PROVE  /\ letter'[k].fate = "buffered" => letter'[k].sends = 0
               /\ letter'[k].fate = "sent" => \E r \in Hosted : k \in PL!Underway(r)'
    <3>1. CASE k \in took
      BY <1>5, <1>6, <3>1
    <3>2. CASE k \notin took
      BY <1>2, <1>3, <1>5, <1>6, <1>7, <3>2
    <3>. QED BY <3>1, <3>2
  <2>2. ASSUME NEW r \in Hosted, NEW k \in PL!Underway(r)'
        PROVE  k \in DOMAIN d /\ letter'[k].fate \in {"sent", "filed", "failed"}
    <3>1. k \in PL!Underway(r) \/ k \in took
      BY <1>6, <1>7, <2>2
    <3>. QED BY <1>2, <1>3, <1>4, <1>5, <3>1
  <2>3. ASSUME NEW r \in Hosted, closing'[r] # {}, NEW k \in PL!RangeOf(buffer)'
        PROVE  letter'[k].late
    <3>1. k \in B /\ k \notin took /\ closing[r] # {}
      BY <1>2, <2>3
    <3>. QED BY <1>2, <1>3, <1>5, <3>1
  <2>. QED BY <1>5, <2>1, <2>2, <2>3 DEF PL!LettersKept
<1>10. buffer' \in Seq(DOMAIN letter')
  <2>1. buffer \in Seq(DOMAIN letter) /\ DOMAIN letter \subseteq DOMAIN letter'
    BY <1>2, <1>3, <1>5, PluginFacts
  <2>2. buffer \in Seq(DOMAIN letter')
    BY <2>1, WiderSeq
  <2>3. <<>> \in Seq(DOMAIN letter')
    OBVIOUS
  <2>. QED BY <2>2, <2>3
<1>11. ASSUME ~overlapping, NEW k \in DOMAIN letter'
       PROVE  /\ ~letter'[k].late /\ letter'[k].of \in Hosted
              /\ letter'[k].under \in {NoSession, letter'[k].of}
              /\ letter'[k].fate \in {"filed", "failed"} \/ letter'[k].of = s
  <2>1. engine = s
    BY <1>1, <1>11, AloneFacts
  <2>2. k \in took => d[k].fate = "buffered"
    BY <1>2, <1>3, <1>4
  <2>. QED BY <1>2, <1>3, <1>5, <1>11, <2>1, <2>2
<1>. QED BY <1>4, <1>5, <1>8, <1>9, <1>10, <1>11, IngestRest

LEMMA PluginIngestSound ==
  ASSUME PL!IInv, NEW s \in Hosted, PL!Ingest(s) \/ PL!IngestBatch(s) PROVE PL!IInv'
<1>1. PICK m, kept : m = Len(letter) + 1 /\ kept = Append(buffer, m)
  OBVIOUS
<1>2. /\ PL!At(s, "running")
      /\ UNCHANGED <<engine, hooks, lastTurn, reported, turn, closing, crossed, overlapping>>
  BY DEF PL!Ingest, PL!IngestBatch
<1>3. /\ buffer \in Seq(DOMAIN letter) /\ letter \in Seq(PL!LetterType) /\ turn[s].pc = "running"
      /\ flow[s] = PL!NoFlow /\ m \in Nat /\ m \notin DOMAIN letter
  BY <1>1, <1>2, PluginFacts, SaidFacts DEF PL!At
<1>4. /\ PL!RangeOf(kept) = PL!RangeOf(buffer) \cup {m} /\ m \notin PL!RangeOf(buffer)
      /\ kept \in Seq(DOMAIN letter \cup {m}) /\ PL!RangeOf(<<>>) = {}
  <2>1. buffer \in Seq(DOMAIN letter \cup {m})
    BY <1>3, WiderSeq
  <2>2. /\ kept \in Seq(DOMAIN letter \cup {m})
        /\ DOMAIN kept = DOMAIN buffer \cup {Len(buffer) + 1}
        /\ kept[Len(buffer) + 1] = m /\ \A k \in DOMAIN buffer : kept[k] = buffer[k]
    BY <1>1, <2>1
  <2>. QED BY <1>3, <2>2 DEF PL!RangeOf
<1>5. CASE /\ letter' = PL!Sent(PL!Said(s), PL!RangeOf(kept)) /\ buffer' = <<>>
           /\ flow' = [flow EXCEPT ![s] = [op |-> "ingest", took |-> PL!RangeOf(kept)]]
  <2>1. PICK took : took = PL!RangeOf(kept)
    OBVIOUS
  <2>2. PL!RangeOf(buffer') = PL!RangeOf(buffer) \ took
    BY <1>4, <1>5, <2>1
  <2>. QED BY <1>1, <1>2, <1>4, <1>5, <2>1, <2>2, NewSentSound
<1>6. CASE /\ letter' = PL!Sent(PL!Said(s), {m}) /\ buffer' = buffer
           /\ flow' = [flow EXCEPT ![s] = [op |-> "ingest", took |-> {m}]]
  <2>1. PL!RangeOf(buffer') = PL!RangeOf(buffer) \ {m}
    BY <1>4, <1>6
  <2>. QED BY <1>1, <1>2, <1>6, <2>1, NewSentSound
<1>7. CASE letter' = PL!Said(s) /\ buffer' = kept /\ flow' = flow
  <2>0. PICK n, d, B : Spoken(s, n, d, B)
    BY <1>3, SaidSound
  <2>1. /\ n = Len(letter) + 1 /\ d = PL!Said(s) /\ B = PL!RangeOf(buffer)
        /\ d \in Seq(PL!LetterType) /\ n \in Nat
        /\ B \subseteq DOMAIN letter /\ DOMAIN d = DOMAIN letter \cup {n}
        /\ n \notin B
        /\ \A k \in DOMAIN d :
             /\ d[k].sends <= 1 /\ (d[k].fate = "dropped" => d[k].late)
             /\ d[k].fate = "buffered" <=> k \in B \cup {n}
             /\ d[k].fate = "buffered" => d[k].sends = 0
             /\ d[k].fate = "sent" => \E r \in Hosted : k \in PL!Underway(r)
        /\ \A r \in Hosted :
             /\ \A k \in PL!Underway(r) :
                  k \in DOMAIN d /\ d[k].fate \in {"sent", "filed", "failed"}
             /\ closing[r] # {} => \A k \in B \cup {n} : d[k].late
        /\ ~overlapping => \A k \in DOMAIN d :
             /\ ~d[k].late /\ d[k].of \in Hosted /\ d[k].under \in {NoSession, d[k].of}
             /\ d[k].fate \in {"filed", "failed"} \/ d[k].of = s
    BY <2>0 DEF Spoken
  <2>2. n = m
    BY <1>1, <2>1
  <2>3. letter' = d /\ PL!RangeOf(buffer)' = B \cup {m}
    BY <1>4, <1>7, <2>1, <2>2
  <2>4. PL!MessagesOnce'
    BY <2>1, <2>2, <2>3 DEF PL!MessagesOnce
  <2>5. PL!LettersKept'
    <3>1. \A r \in Hosted : PL!Underway(r)' = PL!Underway(r)
      BY <1>2, <1>7 DEF PL!Underway
    <3>. QED BY <1>2, <2>1, <2>2, <2>3, <3>1 DEF PL!LettersKept
  <2>6. buffer' \in Seq(DOMAIN letter')
    BY <1>4, <1>7, <2>1, <2>2, <2>3
  <2>7. flow' = [flow EXCEPT ![s] = [op |-> "none", took |-> {}]]
    BY <1>3, <1>7 DEF PL!NoFlow, PL!IInv, PL!TypeInv
  <2>8. ~overlapping => \A k \in DOMAIN letter' :
          /\ ~letter'[k].late /\ letter'[k].of \in Hosted
          /\ letter'[k].under \in {NoSession, letter'[k].of}
          /\ letter'[k].fate \in {"filed", "failed"} \/ letter'[k].of = s
    BY <2>1, <2>3
  <2>9. PICK op, took : op = "none" /\ took = {}
    OBVIOUS
  <2>10. op \in {"none", "ingest"} /\ took \in SUBSET Nat /\ (op = "none" => took = {})
    BY <2>9
  <2>11. letter' \in Seq(PL!LetterType) /\ flow' = [flow EXCEPT ![s] = [op |-> op, took |-> took]]
    BY <2>1, <2>3, <2>7, <2>9
  <2>. QED BY <1>2, <2>4, <2>5, <2>6, <2>8, <2>10, <2>11, IngestRest
<1>. QED BY <1>1, <1>5, <1>6, <1>7 DEF PL!Ingest, PL!IngestBatch

LEMMA PluginsStep == PL!IInv /\ PL!PluginsNext => PL!IInv'
<1>. SUFFICES ASSUME PL!IInv, PL!PluginsNext PROVE PL!IInv'
  OBVIOUS
<1>1. PICK s \in Hosted :
        \/ PL!BeforeAgentStart(s) \/ PL!SessionStart(s) \/ PL!Bootstrap(s)
        \/ PL!Ingest(s) \/ PL!IngestBatch(s) \/ PL!LlmInput(s)
        \/ \E op \in {"assemble", "given", "kept"} : PL!FlushFirst(s, op)
        \/ PL!Resume(s) \/ PL!AgentEnd(s) \/ PL!Abort(s) \/ PL!Dispose(s) \/ PL!Disposed(s)
        \/ PL!Over(s)
  BY DEF PL!PluginsNext
<1>. QED BY <1>1, BeforeAgentStartSound, SessionStartSound, BootstrapSound, PluginIngestSound,
            LlmInputSound, FlushFirstSound, ResumeSound, AgentEndSound, AbortSound,
            DisposeSound, DisposedSound, OverSound

LEMMA PluginsInitSound == PL!PluginsInit => PL!IInv
<1>. SUFFICES ASSUME PL!PluginsInit PROVE PL!IInv
  OBVIOUS
<1>1. /\ engine = NoSession /\ hooks = [key |-> NoSession, id |-> NoSession]
      /\ buffer = <<>> /\ reported = FALSE /\ letter = <<>> /\ crossed = {}
      /\ turn = [s \in Hosted |-> [pc |-> "idle", n |-> 0, after |-> TRUE, disposed |-> TRUE]]
      /\ flow = [s \in Hosted |-> PL!NoFlow] /\ closing = [s \in Hosted |-> {}]
  BY DEF PL!PluginsInit
<1>2. PL!TypeInv
  BY <1>1 DEF PL!TypeInv, PL!TurnType, PL!FlowType, PL!NoFlow, PL!HooksType
<1>3. PL!MessagesOnce /\ PL!LettersKept
  BY <1>1 DEF PL!MessagesOnce, PL!LettersKept, PL!RangeOf, PL!Underway, PL!NoFlow
<1>4. \A s \in Hosted : PL!Waiting(s)
  BY <1>1 DEF PL!Waiting, PL!NoFlow
<1>5. PL!Alone /\ PL!RunsApart
  BY <1>1 DEF PL!Alone, PL!RunsApart
<1>. QED BY <1>2, <1>3, <1>4, <1>5 DEF PL!IInv

PluginsInv == part = "plugins" => PL!IInv

LEMMA PluginsStutters ==
  ASSUME PluginsInv, UNCHANGED <<part, pluginsVars>> PROVE PluginsInv'
BY DEF PluginsInv, pluginsVars, PL!IInv, PL!TypeInv, PL!MessagesOnce, PL!LettersKept,
       PL!Underway, PL!Waiting,
       PL!Alone, PL!RunsApart, PL!ThisRun

LEMMA PluginsKept ==
  ASSUME PluginsInv, [PartsNext]_allVars PROVE PluginsInv'
<1>1. CASE part = "plugins" /\ PL!PluginsNext /\ Others
  BY <1>1, PluginsStep DEF PluginsInv, Others
<1>2. CASE part # "plugins" /\ UNCHANGED part
  BY <1>2 DEF PluginsInv
<1>3. CASE UNCHANGED allVars
  BY <1>3, PluginsStutters DEF allVars
<1>. QED BY <1>1, <1>2, <1>3 DEF PartsNext, Others

\* However the runs of several sessions interleave, a message goes out at most once and is
\* lost only with its request, or behind a dispose that was waiting; and as long as one
\* session runs at a time, no run takes anything of another (PluginsServe of Plugins.tla:
\* the context engine and the memory hooks of openclaw-plugins/).
THEOREM PluginsServeTheirSessions == PartsSpec => []PluginsServe
<1>1. PartsInit => PluginsInv
  BY PluginsInitSound DEF PartsInit, PluginsInv
<1>2. PluginsInv /\ [PartsNext]_allVars => PluginsInv'
  BY PluginsKept
<1>3. PluginsInv => PluginsServe
  BY DEF PluginsInv, PluginsServe, PL!IInv, PL!PluginsServe
<1>. QED BY <1>1, <1>2, <1>3, PTL DEF PartsSpec

------------------------------------------------------------------------------
(* The clusters of a consolidation run                                     *)

LEMMA RecurrenceAssumed ==
  /\ MaxFacts \in Nat /\ SessionsNeeded \in Nat \ {0, 1}
  /\ \A kind \in SaidKinds : kind.goal \in BOOLEAN /\ kind.uses \in Nat
BY PartsAssumption DEF RE!RecurrenceAssumption

\* The union-find as a forest on S: R is the root of each element, d falls on the way
\* up, and no closed set cuts a tree.
Rooted(p, S, R, d) ==
  /\ p \in [S -> S] /\ R \in [S -> S] /\ d \in [S -> Nat]
  /\ \A y \in S : /\ R[y] = IF p[y] = y THEN y ELSE R[p[y]]
                  /\ p[y] # y => d[p[y]] < d[y]
                  /\ p[R[y]] = R[y]
  /\ \A T \in SUBSET S : RE!Closed(T, S) => \A y \in S : y \in T <=> R[y] \in T

Forests(S) == {p \in [S -> S] : \E R, d : Rooted(p, S, R, d)}

\* What find returns.
LEMMA RootIs ==
  ASSUME NEW S, NEW p, NEW R, NEW d, Rooted(p, S, R, d), NEW x \in S
  PROVE  RE!Root(p, x) = R[x]
<1>. DEFINE Is(f) == f = [y \in DOMAIN p |-> IF p[y] = y THEN y ELSE f[p[y]]]
            up == CHOOSE f : Is(f)
<1>1. DOMAIN p = S /\ p \in [S -> S] /\ R \in [S -> S] /\ d \in [S -> Nat]
  BY DEF Rooted
<1>2. \A y \in S : R[y] = (IF p[y] = y THEN y ELSE R[p[y]]) /\ (p[y] # y => d[p[y]] < d[y])
  BY DEF Rooted
<1>3. Is(R)
  BY <1>1, <1>2
<1>4. Is(up)
  BY <1>3
<1>5. RE!Root(p, x) = up[x]
  BY DEF RE!Root
<1>. HIDE DEF up
<1>6. \A y \in S : up[y] = IF p[y] = y THEN y ELSE up[p[y]]
  BY <1>1, <1>4
<1>. DEFINE T == {n \in 0..d[x] : \A y \in S : d[y] <= n => up[y] = R[y]}
<1>7. d[x] \in Nat
  BY <1>1
<1>8. 0 \in T
  <2>1. ASSUME NEW y \in S, d[y] <= 0 PROVE up[y] = R[y]
    <3>1. p[y] = y
      BY <1>1, <1>2, <2>1
    <3>. QED BY <1>2, <1>6, <3>1
  <2>. QED BY <1>7, <2>1
<1>9. ASSUME NEW n \in 0..d[x], n < d[x], n \in T PROVE n + 1 \in T
  <2>1. ASSUME NEW y \in S, d[y] <= n + 1 PROVE up[y] = R[y]
    <3>1. p[y] # y => up[p[y]] = R[p[y]]
      BY <1>1, <1>2, <1>9, <2>1
    <3>. QED BY <1>2, <1>6, <3>1
  <2>. QED BY <1>7, <1>9, <2>1
<1>10. \A n \in 0..d[x] : n \in T
  <2>. HIDE DEF T
  <2>. QED BY <1>7, <1>8, <1>9, UpTo
<1>11. d[x] \in T
  BY <1>7, <1>10
<1>. QED BY <1>5, <1>7, <1>11

\* q joins what p joins.
Joins(q, p, S) == \A u, v \in S : RE!Root(p, u) = RE!Root(p, v) => RE!Root(q, u) = RE!Root(q, v)

LEMMA JoinsOn ==
  ASSUME NEW S, NEW p, NEW q, NEW r, Joins(q, p, S), Joins(r, q, S)
  PROVE  Joins(r, p, S)
BY DEF Joins

\* union hangs one tree under the root of the other.
LEMMA UnionSound ==
  ASSUME NEW S, NEW p \in Forests(S), NEW x \in S, NEW y \in S, <<x, y>> \in near
  PROVE  /\ RE!Union2(p, x, y) \in Forests(S)
         /\ Joins(RE!Union2(p, x, y), p, S)
         /\ RE!Root(RE!Union2(p, x, y), x) = RE!Root(RE!Union2(p, x, y), y)
<1>1. PICK R, d : Rooted(p, S, R, d)
  BY DEF Forests
<1>2. \A z \in S : RE!Root(p, z) = R[z]
  BY <1>1, RootIs
<1>3. p \in [S -> S] /\ R \in [S -> S] /\ d \in [S -> Nat]
  BY <1>1 DEF Rooted
<1>4. \A z \in S : /\ R[z] = IF p[z] = z THEN z ELSE R[p[z]]
                   /\ p[z] # z => d[p[z]] < d[z]
                   /\ p[R[z]] = R[z]
  BY <1>1 DEF Rooted
<1>5. PICK rx \in S : rx = R[x]
  BY <1>3
<1>6. PICK ry \in S : ry = R[y]
  BY <1>3
<1>. DEFINE q == [p EXCEPT ![rx] = ry]
            Q == [z \in S |-> IF R[z] = rx THEN ry ELSE R[z]]
            e == [z \in S |-> IF R[z] = rx /\ rx # ry THEN d[z] + d[ry] + 1 ELSE d[z]]
<1>7. RE!Union2(p, x, y) = q
  BY <1>2, <1>5, <1>6 DEF RE!Union2
<1>8. p[rx] = rx /\ p[ry] = ry /\ R[rx] = rx /\ R[ry] = ry
  BY <1>4, <1>5, <1>6
<1>9. q \in [S -> S] /\ Q \in [S -> S] /\ e \in [S -> Nat]
  BY <1>3
<1>10. /\ q[rx] = ry /\ \A z \in S \ {rx} : q[z] = p[z]
       /\ \A z \in S : Q[z] = IF R[z] = rx THEN ry ELSE R[z]
       /\ \A z \in S : e[z] = IF R[z] = rx /\ rx # ry THEN d[z] + d[ry] + 1 ELSE d[z]
  BY <1>3
<1>. HIDE DEF q, Q, e
<1>11. ASSUME NEW z \in S
       PROVE  /\ Q[z] = IF q[z] = z THEN z ELSE Q[q[z]]
              /\ q[z] # z => e[q[z]] < e[z]
              /\ q[Q[z]] = Q[z]
  <2>1. /\ R[z] \in S /\ p[z] \in S /\ d[z] \in Nat /\ d[ry] \in Nat /\ d[p[z]] \in Nat
        /\ R[z] = IF p[z] = z THEN z ELSE R[p[z]]
        /\ p[z] # z => d[p[z]] < d[z]
        /\ p[R[z]] = R[z]
    BY <1>3, <1>4
  <2>2. CASE z = rx
    BY <2>1, <2>2, <1>8, <1>10
  <2>3. CASE z # rx
    <3>1. q[z] = p[z]
      BY <2>3, <1>10
    <3>2. p[z] # z => R[p[z]] = R[z]
      BY <2>1
    <3>3. p[z] # z => Q[p[z]] = Q[z] /\ e[p[z]] < e[z]
      BY <2>1, <3>2, <1>10
    <3>4. p[z] = z => Q[z] = z
      BY <2>1, <2>3, <1>10
    <3>5. q[Q[z]] = Q[z]
      BY <2>1, <1>8, <1>10
    <3>. QED BY <3>1, <3>3, <3>4, <3>5
  <2>. QED BY <2>2, <2>3
<1>12. ASSUME NEW T \in SUBSET S, RE!Closed(T, S), NEW z \in S PROVE z \in T <=> Q[z] \in T
  <2>1. \A u \in S : u \in T <=> R[u] \in T
    BY <1>1, <1>12 DEF Rooted
  <2>2. x \in T <=> y \in T
    BY <1>12 DEF RE!Closed
  <2>3. rx \in T <=> ry \in T
    BY <2>1, <2>2, <1>5, <1>6
  <2>. QED BY <2>1, <2>3, <1>10
<1>13. Rooted(q, S, Q, e)
  BY <1>9, <1>11, <1>12 DEF Rooted
<1>14. \A z \in S : RE!Root(q, z) = Q[z]
  BY <1>13, RootIs
<1>15. q \in Forests(S)
  BY <1>9, <1>13 DEF Forests
<1>16. Joins(q, p, S)
  BY <1>2, <1>10, <1>14 DEF Joins
<1>17. Q[x] = Q[y]
  BY <1>5, <1>6, <1>10
<1>. QED BY <1>7, <1>14, <1>15, <1>16, <1>17

\* One comparison of the inner loop.
Compared(p, S, i, j) ==
  IF {i, j} \subseteq S /\ <<i, j>> \in near THEN RE!Union2(p, i, j) ELSE p

LEMMA ComparedSound ==
  ASSUME NEW S, NEW p \in Forests(S), NEW i, NEW j
  PROVE  /\ Compared(p, S, i, j) \in Forests(S) /\ Joins(Compared(p, S, i, j), p, S)
         /\ {i, j} \subseteq S /\ <<i, j>> \in near =>
              RE!Root(Compared(p, S, i, j), i) = RE!Root(Compared(p, S, i, j), j)
<1>1. CASE {i, j} \subseteq S /\ <<i, j>> \in near
  <2>1. i \in S /\ j \in S /\ Compared(p, S, i, j) = RE!Union2(p, i, j)
    BY <1>1 DEF Compared
  <2>. QED BY <1>1, <2>1, UnionSound
<1>2. CASE ~({i, j} \subseteq S /\ <<i, j>> \in near)
  <2>1. Compared(p, S, i, j) = p
    BY <1>2 DEF Compared
  <2>2. Joins(p, p, S)
    BY DEF Joins
  <2>. QED BY <1>2, <2>1, <2>2
<1>. QED BY <1>1, <1>2

\* The inner loop joins i with every later near duplicate.
LEMMA RowSound ==
  ASSUME NEW S, NEW p \in Forests(S), NEW i
  PROVE  LET q == RE!Row(S, p, i)
         IN  /\ q \in Forests(S) /\ Joins(q, p, S)
             /\ \A j \in RE!Ids : {i, j} \subseteq S /\ <<i, j>> \in near =>
                                    RE!Root(q, i) = RE!Root(q, j)
<1>. DEFINE b == MaxFacts
            W == Forests(S)
            F == [j \in 1..b |-> [r \in W |-> Compared(r, S, i, j)]]
            Is(f) == f = [j \in 0..b |->
                            IF j = 0 THEN p
                            ELSE IF {i, j} \subseteq S /\ <<i, j>> \in near
                                 THEN RE!Union2(f[j - 1], i, j)
                            ELSE f[j - 1]]
            row == CHOOSE f : Is(f)
<1>1. b \in Nat
  BY RecurrenceAssumed
<1>2. F \in [1..b -> [W -> W]] /\ \A j \in 1..b, r \in W : F[j][r] = Compared(r, S, i, j)
  <2>. HIDE DEF W
  <2>1. \A j \in 1..b, r \in W : Compared(r, S, i, j) \in W
    BY ComparedSound DEF W
  <2>. QED BY <2>1
<1>. HIDE DEF F, W
<1>3. p \in W
  BY DEF W
<1>4. PICK g \in [0..b -> W] : Steps(g, b, p, F)
  BY <1>1, <1>2, <1>3, StepsExist
<1>5. Is(g)
  <2>1. ASSUME NEW j \in 0..b, j # 0 PROVE g[j] = Compared(g[j - 1], S, i, j)
    <3>1. j \in 1..b /\ g[j - 1] \in W
      BY <1>1, <1>4, <2>1
    <3>2. g[j] = F[j][g[j - 1]]
      BY <1>4, <2>1 DEF Steps
    <3>. QED BY <1>2, <3>1, <3>2
  <2>2. 0 \in 0..b
    BY <1>1
  <2>3. g[0] = p
    BY <1>4, <2>2 DEF Steps
  <2>. QED BY <1>4, <2>1, <2>3 DEF Compared
<1>6. Is(row)
  BY <1>5
<1>7. RE!Row(S, p, i) = row[b]
  BY DEF RE!Row
<1>. HIDE DEF row
<1>8. row[0] = p /\ \A j \in 1..b : row[j] = Compared(row[j - 1], S, i, j)
  BY <1>1, <1>6 DEF Compared
<1>. DEFINE T == {n \in 0..b :
       /\ row[n] \in W /\ Joins(row[n], p, S)
       /\ \A j \in 1..n : {i, j} \subseteq S /\ <<i, j>> \in near =>
                            RE!Root(row[n], i) = RE!Root(row[n], j)}
<1>9. 0 \in T
  <2>1. Joins(p, p, S)
    BY DEF Joins
  <2>. QED BY <1>1, <1>3, <1>8, <2>1
<1>10. ASSUME NEW n \in 0..b, n < b, n \in T PROVE n + 1 \in T
  <2>1. n + 1 \in 1..b /\ (n + 1) - 1 = n /\ n + 1 \in 0..b
    BY <1>1, <1>10
  <2>2. PICK r \in Forests(S) : r = row[n]
    BY <1>10 DEF W
  <2>3. PICK q : q = Compared(r, S, i, n + 1)
    OBVIOUS
  <2>4. row[n + 1] = q
    BY <1>8, <2>1, <2>2, <2>3
  <2>5. /\ q \in Forests(S) /\ Joins(q, r, S)
        /\ {i, n + 1} \subseteq S /\ <<i, n + 1>> \in near => RE!Root(q, i) = RE!Root(q, n + 1)
    BY <2>2, <2>3, ComparedSound
  <2>6. Joins(q, p, S)
    BY <1>10, <2>2, <2>5, JoinsOn
  <2>7. ASSUME NEW j \in 1..(n + 1), {i, j} \subseteq S, <<i, j>> \in near
        PROVE  RE!Root(q, i) = RE!Root(q, j)
    <3>1. CASE j = n + 1
      BY <2>5, <2>7, <3>1
    <3>2. CASE j # n + 1
      <4>1. j \in 1..n
        BY <1>1, <1>10, <3>2
      <4>2. RE!Root(r, i) = RE!Root(r, j)
        BY <1>10, <2>2, <2>7, <4>1
      <4>. QED BY <2>5, <2>7, <4>2 DEF Joins
    <3>. QED BY <3>1, <3>2
  <2>. QED BY <2>1, <2>4, <2>5, <2>6, <2>7 DEF W
<1>11. \A n \in 0..b : n \in T
  <2>. HIDE DEF T
  <2>. QED BY <1>1, <1>9, <1>10, UpTo
<1>12. b \in T
  BY <1>1, <1>11
<1>. QED BY <1>7, <1>12 DEF W, RE!Ids

\* All near duplicates are in one tree, and no tree has anything else.
LEMMA ForestSound ==
  ASSUME NEW S \in SUBSET RE!Ids
  PROVE  LET q == RE!Forest(S)
         IN  /\ q \in Forests(S)
             /\ \A i, j \in S : <<i, j>> \in near => RE!Root(q, i) = RE!Root(q, j)
<1>. DEFINE b == MaxFacts
            W == Forests(S)
            first == [f \in S |-> f]
            F == [i \in 1..b |-> [r \in W |-> RE!Row(S, r, i)]]
            Is(f) == f = [i \in 0..b |-> IF i = 0 THEN first ELSE RE!Row(S, f[i - 1], i)]
            rows == CHOOSE f : Is(f)
<1>1. b \in Nat
  BY RecurrenceAssumed
<1>2. F \in [1..b -> [W -> W]] /\ \A i \in 1..b, r \in W : F[i][r] = RE!Row(S, r, i)
  <2>. HIDE DEF W
  <2>1. \A i \in 1..b, r \in W : RE!Row(S, r, i) \in W
    BY RowSound DEF W
  <2>. QED BY <2>1
<1>3. first \in W
  <2>. DEFINE d == [f \in S |-> 0]
  <2>1. Rooted(first, S, first, d)
    BY DEF Rooted
  <2>. QED BY <2>1 DEF Forests
<1>. HIDE DEF F, W, first
<1>4. PICK g \in [0..b -> W] : Steps(g, b, first, F)
  BY <1>1, <1>2, <1>3, StepsExist
<1>5. Is(g)
  <2>1. ASSUME NEW i \in 0..b, i # 0 PROVE g[i] = RE!Row(S, g[i - 1], i)
    <3>1. i \in 1..b /\ g[i - 1] \in W
      BY <1>1, <1>4, <2>1
    <3>2. g[i] = F[i][g[i - 1]]
      BY <1>4, <2>1 DEF Steps
    <3>. QED BY <1>2, <3>1, <3>2
  <2>2. 0 \in 0..b
    BY <1>1
  <2>3. g[0] = first
    BY <1>4, <2>2 DEF Steps
  <2>. QED BY <1>4, <2>1, <2>3
<1>6. Is(rows)
  BY <1>5
<1>7. RE!Forest(S) = rows[b]
  BY DEF RE!Forest, first
<1>. HIDE DEF rows
<1>8. rows[0] = first /\ \A i \in 1..b : rows[i] = RE!Row(S, rows[i - 1], i)
  BY <1>1, <1>6
<1>. DEFINE T == {n \in 0..b :
       /\ rows[n] \in W
       /\ \A i \in 1..n, j \in RE!Ids : {i, j} \subseteq S /\ <<i, j>> \in near =>
            RE!Root(rows[n], i) = RE!Root(rows[n], j)}
<1>9. 0 \in T
  BY <1>1, <1>3, <1>8
<1>10. ASSUME NEW n \in 0..b, n < b, n \in T PROVE n + 1 \in T
  <2>1. n + 1 \in 1..b /\ (n + 1) - 1 = n /\ n + 1 \in 0..b
    BY <1>1, <1>10
  <2>2. PICK r \in Forests(S) : r = rows[n]
    BY <1>10 DEF W
  <2>3. PICK q : q = RE!Row(S, r, n + 1)
    OBVIOUS
  <2>4. rows[n + 1] = q
    BY <1>8, <2>1, <2>2, <2>3
  <2>5. /\ q \in Forests(S) /\ Joins(q, r, S)
        /\ \A j \in RE!Ids : {n + 1, j} \subseteq S /\ <<n + 1, j>> \in near =>
             RE!Root(q, n + 1) = RE!Root(q, j)
    BY <2>2, <2>3, RowSound
  <2>6. ASSUME NEW i \in 1..(n + 1), NEW j \in RE!Ids, {i, j} \subseteq S, <<i, j>> \in near
        PROVE  RE!Root(q, i) = RE!Root(q, j)
    <3>1. CASE i = n + 1
      BY <2>5, <2>6, <3>1
    <3>2. CASE i # n + 1
      <4>1. i \in 1..n
        BY <1>1, <1>10, <3>2
      <4>2. RE!Root(r, i) = RE!Root(r, j)
        BY <1>10, <2>2, <2>6, <4>1
      <4>. QED BY <2>5, <2>6, <4>2 DEF Joins
    <3>. QED BY <3>1, <3>2
  <2>. QED BY <2>1, <2>4, <2>5, <2>6 DEF W
<1>11. \A n \in 0..b : n \in T
  <2>. HIDE DEF T
  <2>. QED BY <1>1, <1>9, <1>10, UpTo
<1>12. b \in T
  BY <1>1, <1>11
<1>13. ASSUME NEW i \in S, NEW j \in S, <<i, j>> \in near
       PROVE  RE!Root(rows[b], i) = RE!Root(rows[b], j)
  <2>1. i \in 1..b /\ j \in RE!Ids /\ {i, j} \subseteq S
    BY DEF RE!Ids
  <2>. QED BY <1>12, <1>13, <2>1
<1>. QED BY <1>7, <1>12, <1>13 DEF W

\* The module Recurrence counts as this one does.
LEMMA SameClusterSize ==
  ASSUME NEW S PROVE (RE!IsFiniteSet(S) <=> IsFiniteSet(S)) /\ RE!Cardinality(S) = Cardinality(S)
BY DEF IsFiniteSet, RE!IsFiniteSet, Cardinality, RE!Cardinality

\* A tree is what is connected.
LEMMA TreesAreLinked ==
  ASSUME NEW S, NEW p \in Forests(S),
         \A i, j \in S : <<i, j>> \in near => RE!Root(p, i) = RE!Root(p, j),
         NEW x \in S
  PROVE  /\ RE!Root(p, x) \in S
         /\ {f \in S : RE!Root(p, f) = RE!Root(p, x)} = RE!Alike(x, S)
<1>1. PICK R, d : Rooted(p, S, R, d)
  BY DEF Forests
<1>2. R \in [S -> S] /\ \A z \in S : RE!Root(p, z) = R[z]
  BY <1>1, RootIs DEF Rooted
<1>. DEFINE Tree == {f \in S : RE!Root(p, f) = RE!Root(p, x)}
<1>3. RE!Closed(Tree, S) /\ x \in Tree /\ Tree \in SUBSET S
  BY DEF RE!Closed
<1>4. ASSUME NEW y \in RE!Alike(x, S) PROVE y \in Tree
  <2>. HIDE DEF Tree
  <2>. QED BY <1>3 DEF RE!Alike
<1>5. ASSUME NEW y \in Tree PROVE y \in RE!Alike(x, S)
  <2>1. ASSUME NEW T \in SUBSET S, x \in T, RE!Closed(T, S) PROVE y \in T
    <3>1. \A z \in S : z \in T <=> R[z] \in T
      BY <1>1, <2>1 DEF Rooted
    <3>2. y \in S /\ R[y] = R[x]
      BY <1>2
    <3>. QED BY <2>1, <3>1, <3>2
  <2>. QED BY <2>1 DEF RE!Alike
<1>. QED BY <1>2, <1>4, <1>5

\* Stage 1 finds the clusters of the facts, whatever the order of its comparisons.
LEMMA ClustersSound ==
  ASSUME NEW S \in SUBSET RE!Ids PROVE RE!ClustersOf(S) = RE!Linked(S)
<1>1. PICK p : p = RE!Forest(S)
  OBVIOUS
<1>. DEFINE of(r) == {f \in S : RE!Root(p, f) = r}
            Trees == {of(f) : f \in S}
            Components == {RE!Alike(f, S) : f \in S}
<1>2. p \in Forests(S) /\ \A i, j \in S : <<i, j>> \in near => RE!Root(p, i) = RE!Root(p, j)
  BY <1>1, ForestSound
<1>3. \A f \in S : RE!Root(p, f) \in S /\ of(RE!Root(p, f)) = RE!Alike(f, S)
  BY <1>2, TreesAreLinked
<1>4. ASSUME NEW C \in Trees, RE!Cardinality(C) >= 2 PROVE C \in Components
  <2>1. C # {}
    BY <1>4, SameClusterSize, FS_EmptySet
  <2>2. PICK r \in S : C = of(r)
    OBVIOUS
  <2>3. PICK f \in S : RE!Root(p, f) = r
    BY <2>1, <2>2
  <2>. QED BY <1>3, <2>2, <2>3
<1>5. ASSUME NEW C \in Components PROVE C \in Trees
  <2>1. PICK f \in S : C = RE!Alike(f, S)
    OBVIOUS
  <2>2. C = of(RE!Root(p, f)) /\ RE!Root(p, f) \in S
    BY <1>3, <2>1
  <2>. QED BY <2>2
<1>6. RE!ClustersOf(S) = {C \in Trees : RE!Cardinality(C) >= 2}
  BY <1>1 DEF RE!ClustersOf
<1>7. RE!Linked(S) = {C \in Components : RE!Cardinality(C) >= 2}
  BY DEF RE!Linked
<1>. HIDE DEF Trees, Components
<1>. QED BY <1>4, <1>5, <1>6, <1>7

LEMMA AlikeShared ==
  ASSUME NEW S, NEW f \in S, NEW g \in RE!Alike(f, S)
  PROVE  f \in RE!Alike(f, S) /\ RE!Alike(f, S) = RE!Alike(g, S)
<1>1. f \in RE!Alike(f, S) /\ g \in S
  BY DEF RE!Alike
<1>2. ASSUME NEW T \in SUBSET S, RE!Closed(T, S), g \in T PROVE f \in T
  <2>1. S \ T \in SUBSET S /\ RE!Closed(S \ T, S)
    BY <1>2 DEF RE!Closed
  <2>. QED BY <1>2, <2>1 DEF RE!Alike
<1>3. \A T \in SUBSET S : RE!Closed(T, S) => (f \in T <=> g \in T)
  BY <1>2 DEF RE!Alike
<1>. QED BY <1>1, <1>3 DEF RE!Alike

\* The facts that are in one set with f over the clusters.
LEMMA SeenAlike ==
  ASSUME NEW S, NEW f \in S, NEW D \in SUBSET RE!Linked(S)
  PROVE  {f} \cup UNION {C \in D : f \in C} \subseteq RE!Alike(f, S)
<1>1. ASSUME NEW C \in D, f \in C PROVE C = RE!Alike(f, S)
  <2>1. PICK g \in S : C = RE!Alike(g, S)
    BY DEF RE!Linked
  <2>. QED BY <1>1, <2>1, AlikeShared
<1>2. f \in RE!Alike(f, S)
  BY DEF RE!Alike
<1>. QED BY <1>1, <1>2

LEMMA ClusterOfCopies ==
  ASSUME RE!IInv, NEW C \in run.todo
  PROVE  C \subseteq DOMAIN run.copies /\ C \subseteq DOMAIN facts /\ C \subseteq RE!Ids
<1>1. C \in RE!Linked(DOMAIN run.copies)
  BY DEF RE!IInv, RE!ClustersAreLinked
<1>2. C \subseteq DOMAIN run.copies
  BY <1>1 DEF RE!Linked, RE!Alike
<1>3. DOMAIN facts \subseteq RE!Ids
  BY RecurrenceAssumed DEF RE!IInv, RE!Ids
<1>. QED BY <1>2, <1>3 DEF RE!IInv, RE!RunTyped

\* What the merge makes of a cluster: the sum of the uses, the highest of the ranks.
LEMMA UsesSum ==
  ASSUME NEW C \in SUBSET RE!Ids, \A f \in C : run.copies[f].uses \in Nat
  PROVE  RE!Uses(C) \in Nat /\ \A f \in C : run.copies[f].uses <= RE!Uses(C)
<1>. DEFINE b == MaxFacts
            gain(n) == IF n \in C THEN run.copies[n].uses ELSE 0
            F == [n \in 1..b |-> [t \in Nat |-> t + gain(n)]]
            Is(f) == f = [n \in 0..b |-> IF n = 0 THEN 0
                            ELSE f[n - 1] + (IF n \in C THEN run.copies[n].uses ELSE 0)]
            sum == CHOOSE f : Is(f)
<1>1. b \in Nat /\ \A n \in 1..b : gain(n) \in Nat
  BY RecurrenceAssumed
<1>2. F \in [1..b -> [Nat -> Nat]] /\ \A n \in 1..b, t \in Nat : F[n][t] = t + gain(n)
  <2>. HIDE DEF gain
  <2>. QED BY <1>1
<1>. HIDE DEF F
<1>3. PICK g \in [0..b -> Nat] : Steps(g, b, 0, F)
  BY <1>1, <1>2, StepsExist
<1>4. Is(g)
  <2>1. ASSUME NEW n \in 0..b, n # 0 PROVE g[n] = g[n - 1] + gain(n)
    <3>1. n \in 1..b /\ g[n - 1] \in Nat
      BY <1>1, <1>3, <2>1
    <3>2. g[n] = F[n][g[n - 1]]
      BY <1>3, <2>1 DEF Steps
    <3>. QED BY <1>2, <3>1, <3>2
  <2>2. 0 \in 0..b
    BY <1>1
  <2>3. g[0] = 0
    BY <1>3, <2>2 DEF Steps
  <2>. QED BY <1>3, <2>1, <2>3
<1>5. Is(sum)
  BY <1>4
<1>6. RE!Uses(C) = sum[b]
  BY DEF RE!Uses
<1>. HIDE DEF sum
<1>7. sum[0] = 0 /\ \A n \in 1..b : sum[n] = sum[n - 1] + gain(n)
  BY <1>1, <1>5
<1>. DEFINE T == {n \in 0..b : sum[n] \in Nat /\ \A f \in C : f <= n => run.copies[f].uses <= sum[n]}
<1>8. 0 \in T
  BY <1>1, <1>7 DEF RE!Ids
<1>9. ASSUME NEW n \in 0..b, n < b, n \in T PROVE n + 1 \in T
  <2>1. n + 1 \in 1..b /\ (n + 1) - 1 = n /\ n + 1 \in 0..b
    BY <1>1, <1>9
  <2>2. sum[n + 1] = sum[n] + gain(n + 1) /\ gain(n + 1) \in Nat /\ sum[n] \in Nat
    BY <1>1, <1>7, <1>9, <2>1
  <2>3. ASSUME NEW f \in C, f <= n + 1 PROVE run.copies[f].uses <= sum[n + 1]
    <3>1. CASE f = n + 1
      BY <2>2, <3>1
    <3>2. CASE f # n + 1
      <4>1. f \in Int /\ n \in Int
        <5>1. f \in 1..b
          BY DEF RE!Ids
        <5>2. n \in 0..b
          BY <1>9
        <5>. QED BY <1>1, <5>1, <5>2
      <4>2. f <= n
        BY <2>3, <3>2, <4>1
      <4>3. run.copies[f].uses <= sum[n] /\ run.copies[f].uses \in Nat
        BY <1>9, <4>2
      <4>. QED BY <2>2, <4>3
    <3>. QED BY <3>1, <3>2
  <2>. QED BY <2>1, <2>2, <2>3
<1>10. \A n \in 0..b : n \in T
  <2>. HIDE DEF T
  <2>. QED BY <1>1, <1>8, <1>9, UpTo
<1>11. b \in T
  BY <1>1, <1>10
<1>. QED BY <1>1, <1>6, <1>11 DEF RE!Ids

Ranks(order) == \A x \in DOMAIN order : order[x] \in 0..4

LEMMA RankBounded == ASSUME NEW order, Ranks(order), NEW x PROVE RE!Rank(order, x) \in 0..4
BY DEF RE!Rank, Ranks

LEMMA OrdersRank == Ranks(RE!ClassOrder) /\ Ranks(RE!ScopeOrder)
BY DEF Ranks, RE!ClassOrder, RE!ScopeOrder

LEMMA HighestIs ==
  ASSUME NEW order, Ranks(order), NEW values, values # {}
  PROVE  /\ RE!Highest(order, values) \in values
         /\ \A w \in values : RE!Rank(order, w) <= RE!Rank(order, RE!Highest(order, values))
<1>. DEFINE Top(v) == v \in values /\ \A w \in values : RE!Rank(order, w) <= RE!Rank(order, v)
<1>1. \A w \in values : RE!Rank(order, w) \in 0..4
  BY RankBounded
<1>2. \E v : Top(v)
  <2>1. CASE \E v \in values : RE!Rank(order, v) = 4
    BY <1>1, <2>1
  <2>2. CASE /\ ~\E v \in values : RE!Rank(order, v) = 4
             /\ \E v \in values : RE!Rank(order, v) = 3
    BY <1>1, <2>2
  <2>3. CASE /\ \A v \in values : RE!Rank(order, v) \in 0..2
             /\ \E v \in values : RE!Rank(order, v) = 2
    BY <1>1, <2>3
  <2>4. CASE /\ \A v \in values : RE!Rank(order, v) \in 0..1
             /\ \E v \in values : RE!Rank(order, v) = 1
    BY <1>1, <2>4
  <2>5. CASE \A v \in values : RE!Rank(order, v) = 0
    BY <1>1, <2>5
  <2>. QED BY <1>1, <2>1, <2>2, <2>3, <2>4, <2>5
<1>3. Top(CHOOSE v : Top(v))
  BY <1>2
<1>4. RE!Highest(order, values) = CHOOSE v : Top(v)
  BY DEF RE!Highest
<1>. QED BY <1>3, <1>4

LEMMA MergedFact ==
  ASSUME RE!IInv, NEW C \in run.todo
  PROVE  /\ RE!Canonical(C) \in RE!FactType /\ ~RE!Canonical(C).archived
         /\ \A f \in C :
              /\ RE!Rank(RE!ClassOrder, run.copies[f].class) <= RE!Rank(RE!ClassOrder, RE!Canonical(C).class)
              /\ RE!Rank(RE!ScopeOrder, run.copies[f].scope) <= RE!Rank(RE!ScopeOrder, RE!Canonical(C).scope)
              /\ run.copies[f].goal => RE!Canonical(C).goal
              /\ run.copies[f].uses <= RE!Canonical(C).uses
<1>1. C \in SUBSET RE!Ids /\ \A f \in C : run.copies[f] \in RE!FactType
  BY ClusterOfCopies DEF RE!IInv, RE!RunTyped
<1>2. C # {}
  <2>1. RE!Cardinality(C) >= 2
    BY DEF RE!IInv, RE!ClustersAreLinked, RE!Linked
  <2>. QED BY <2>1, SameClusterSize, FS_EmptySet
<1>3. \A f \in C : run.copies[f].uses \in Nat
  BY <1>1 DEF RE!FactType
<1>4. RE!Uses(C) \in Nat /\ \A f \in C : run.copies[f].uses <= RE!Uses(C)
  BY <1>1, <1>3, UsesSum
<1>. DEFINE classes == {run.copies[f].class : f \in C}
            scopes == {run.copies[f].scope : f \in C}
<1>5. /\ RE!Highest(RE!ClassOrder, classes) \in classes
      /\ \A w \in classes : RE!Rank(RE!ClassOrder, w)
                              <= RE!Rank(RE!ClassOrder, RE!Highest(RE!ClassOrder, classes))
  <2>1. classes # {}
    BY <1>2
  <2>. HIDE DEF classes
  <2>. QED BY <2>1, OrdersRank, HighestIs
<1>6. /\ RE!Highest(RE!ScopeOrder, scopes) \in scopes
      /\ \A w \in scopes : RE!Rank(RE!ScopeOrder, w)
                             <= RE!Rank(RE!ScopeOrder, RE!Highest(RE!ScopeOrder, scopes))
  <2>1. scopes # {}
    BY <1>2
  <2>. HIDE DEF scopes
  <2>. QED BY <2>1, OrdersRank, HighestIs
<1>7. PICK class : class = RE!Highest(RE!ClassOrder, classes)
  OBVIOUS
<1>8. PICK scope : scope = RE!Highest(RE!ScopeOrder, scopes)
  OBVIOUS
<1>9. PICK goal \in BOOLEAN : goal <=> \E f \in C : run.copies[f].goal
  <2>1. (\E f \in C : run.copies[f].goal) \in BOOLEAN
    OBVIOUS
  <2>. QED BY <2>1
<1>10. RE!Canonical(C) = [session |-> None, class |-> class, scope |-> scope, goal |-> goal,
                          uses |-> RE!Uses(C), archived |-> FALSE]
  <2>1. goal = (\E f \in C : run.copies[f].goal)
    BY <1>9
  <2>. QED BY <1>7, <1>8, <2>1 DEF RE!Canonical
<1>11. class \in {kind.class : kind \in SaidKinds} \cup {"semantic"}
  <2>1. PICK f \in C : class = run.copies[f].class
    BY <1>5, <1>7
  <2>. QED BY <1>1, <2>1 DEF RE!FactType
<1>12. scope \in {kind.scope : kind \in SaidKinds} \cup {"actor"}
  <2>1. PICK f \in C : scope = run.copies[f].scope
    BY <1>6, <1>8
  <2>. QED BY <1>1, <2>1 DEF RE!FactType
<1>13. RE!Canonical(C) \in RE!FactType /\ ~RE!Canonical(C).archived
  BY <1>4, <1>10, <1>11, <1>12 DEF RE!FactType
<1>14. ASSUME NEW f \in C
       PROVE  /\ RE!Rank(RE!ClassOrder, run.copies[f].class) <= RE!Rank(RE!ClassOrder, class)
              /\ RE!Rank(RE!ScopeOrder, run.copies[f].scope) <= RE!Rank(RE!ScopeOrder, scope)
              /\ run.copies[f].goal => goal
              /\ run.copies[f].uses <= RE!Uses(C)
  BY <1>4, <1>5, <1>6, <1>7, <1>8, <1>9
<1>. QED BY <1>10, <1>13, <1>14

RecurrenceInv == part = "recurrence" => RE!IInv

LEMMA RecurrenceStarts == RE!RecurrenceInit => RE!IInv
BY RecurrenceAssumed DEF RE!RecurrenceInit, RE!IInv, RE!Resting, RE!RunTyped, RE!CopiesFresh,
   RE!ClustersAreLinked

\* The invariant with a name for the facts of the run, which stays when they are primed.
LinkedNow == \A S : S = DOMAIN run.copies /\ run.clusters # {} => run.clusters = RE!Linked(S)

LEMMA LinkedOf == RE!ClustersAreLinked <=> LinkedNow
<1>1. \A S : S = DOMAIN run.copies => RE!Linked(S) = RE!Linked(DOMAIN run.copies)
  OBVIOUS
<1>. QED BY <1>1 DEF RE!ClustersAreLinked, LinkedNow

LEMMA LinkedOfNext == RE!ClustersAreLinked' <=> LinkedNow'
BY LinkedOf, PTL

LEMMA LinkedKept == ASSUME near' = near, NEW S PROVE RE!Linked(S)' = RE!Linked(S)
BY DEF RE!Linked, RE!Alike, RE!Closed

\* The clusters stay those of the copies, whatever else the step does.
LEMMA ClustersKept ==
  ASSUME near' = near, NEW S, S = DOMAIN run'.copies,
         run'.clusters # {} => run'.clusters = RE!Linked(S)
  PROVE  RE!ClustersAreLinked'
BY LinkedOfNext, LinkedKept DEF LinkedNow

LEMMA StoreFactSound ==
  ASSUME RE!IInv, NEW kind \in SaidKinds, RE!StoreFact(kind) PROVE RE!IInv'
<1>. DEFINE new == [session |-> kind.session, class |-> kind.class, scope |-> kind.scope,
                    goal |-> kind.goal, uses |-> kind.uses, archived |-> FALSE]
<1>1. new \in RE!FactType
  BY RecurrenceAssumed DEF RE!FactType
<1>2. facts' = Append(facts, new) /\ Len(facts) < MaxFacts /\ UNCHANGED <<near, run, loads, slips>>
  BY DEF RE!StoreFact
<1>. HIDE DEF new
<1>3. /\ facts' \in Seq(RE!FactType) /\ Len(facts') <= MaxFacts
      /\ DOMAIN facts \subseteq DOMAIN facts' /\ \A f \in DOMAIN facts : facts'[f] = facts[f]
  BY <1>1, <1>2, RecurrenceAssumed DEF RE!IInv
<1>4. RE!RunTyped' /\ RE!CopiesFresh'
  BY <1>2, <1>3 DEF RE!IInv, RE!RunTyped, RE!CopiesFresh
<1>5. RE!ClustersAreLinked'
  BY <1>2, ClustersKept DEF RE!IInv, RE!ClustersAreLinked
<1>. QED BY <1>2, <1>3, <1>4, <1>5 DEF RE!IInv

LEMMA SlipTyped == ASSUME slips \in Nat, NEW bad, RE!Slip(bad) PROVE slips' \in Nat
BY DEF RE!Slip

LEMMA LoadAndClusterSound == ASSUME RE!IInv, RE!LoadAndCluster PROVE RE!IInv'
<1>1. PICK embedded \in BOOLEAN :
        /\ RE!Slip(~embedded)
        /\ run' = [at |-> "merge", copies |-> [f \in RE!Live |-> facts[f]],
                   clusters |-> IF embedded THEN RE!ClustersOf(RE!Live) ELSE {},
                   todo |-> IF embedded THEN RE!ClustersOf(RE!Live) ELSE {}, calls |-> 0]
  BY DEF RE!LoadAndCluster
<1>2. UNCHANGED <<near, facts>> /\ loads' = loads + 1 /\ loads \in Nat /\ slips \in Nat
  BY DEF RE!LoadAndCluster, RE!IInv
<1>3. RE!Live \subseteq DOMAIN facts /\ RE!Live \in SUBSET RE!Ids
  BY RecurrenceAssumed DEF RE!Live, RE!IInv, RE!Ids
<1>4. RE!ClustersOf(RE!Live) = RE!Linked(RE!Live)
  BY <1>3, ClustersSound
<1>5. /\ DOMAIN run' = DOMAIN RE!Resting /\ run'.at = "merge" /\ run'.calls = 0
      /\ DOMAIN run'.copies = RE!Live /\ \A f \in RE!Live : run'.copies[f] = facts[f]
      /\ run'.clusters = {} \/ run'.clusters = RE!Linked(RE!Live)
      /\ run'.todo = run'.clusters
  BY <1>1, <1>4 DEF RE!Resting
<1>6. \A f \in DOMAIN facts : facts[f] \in RE!FactType
  BY DEF RE!IInv
<1>7. RE!RunTyped' /\ RE!CopiesFresh'
  BY <1>2, <1>3, <1>5, <1>6 DEF RE!RunTyped, RE!CopiesFresh, RE!Resting
<1>8. PICK S : S = RE!Live
  OBVIOUS
<1>9. RE!ClustersAreLinked'
  BY <1>2, <1>5, <1>8, ClustersKept
<1>10. slips' \in Nat
  BY <1>1, <1>2, SlipTyped
<1>. QED BY <1>2, <1>5, <1>7, <1>9, <1>10 DEF RE!IInv

LEMMA SkipSound == ASSUME RE!IInv, NEW C \in run.todo, RE!SkipCluster(C) PROVE RE!IInv'
<1>1. PICK spent \in {0, 1} :
        /\ RE!Slip(spent = 1 \/ run.calls < CallCap)
        /\ run' = [run EXCEPT !.todo = @ \ {C}, !.calls = @ + spent]
  BY DEF RE!SkipCluster
<1>2. UNCHANGED <<near, facts, loads>> /\ slips \in Nat /\ run.calls \in Nat
  BY DEF RE!SkipCluster, RE!IInv, RE!RunTyped
<1>3. slips' \in Nat
  BY <1>1, <1>2, SlipTyped
<1>4. /\ DOMAIN run' = DOMAIN run /\ run'.at = run.at /\ run'.calls = run.calls + spent
      /\ run'.copies = run.copies /\ run'.clusters = run.clusters /\ run'.todo \subseteq run.todo
  BY <1>1 DEF RE!IInv, RE!RunTyped, RE!Resting
<1>5. RE!RunTyped' /\ RE!CopiesFresh'
  BY <1>2, <1>4 DEF RE!IInv, RE!RunTyped, RE!CopiesFresh, RE!Resting
<1>6. RE!ClustersAreLinked'
  BY <1>2, <1>4, ClustersKept DEF RE!IInv, RE!ClustersAreLinked
<1>. QED BY <1>2, <1>3, <1>4, <1>5, <1>6 DEF RE!IInv

LEMMA ArchivedTyped ==
  ASSUME NEW x \in RE!FactType PROVE [x EXCEPT !.archived = TRUE] \in RE!FactType
BY DEF RE!FactType

\* What a merge makes of the stored facts and of the list of the run.
LEMMA MergeStep ==
  ASSUME RE!IInv, NEW C \in run.todo, RE!MergeCluster(C)
  PROVE  /\ UNCHANGED <<near, loads, slips>> /\ DOMAIN run' = DOMAIN run
         /\ run'.at = run.at /\ run'.calls \in Nat
         /\ run'.clusters = run.clusters /\ run'.todo \subseteq run.todo
         /\ DOMAIN run'.copies = DOMAIN run.copies
         /\ \A f \in DOMAIN run.copies :
              /\ run'.copies[f] \in RE!FactType
              /\ f \notin C => run'.copies[f] = run.copies[f]
              /\ facts'[f] = run'.copies[f]
         /\ Len(facts') = Len(facts) + 1 /\ facts' \in Seq(RE!FactType)
         /\ \A f \in DOMAIN facts :
              /\ f \in C => facts'[f] = [facts[f] EXCEPT !.archived = TRUE]
              /\ f \notin C => facts'[f] = facts[f]
         /\ facts'[Len(facts) + 1] = RE!Canonical(C)
<1>. DEFINE new == [f \in DOMAIN facts |-> IF f \in C THEN RE!Archived(C)[f] ELSE facts[f]]
<1>1. PICK spent \in BOOLEAN :
        run' = [run EXCEPT !.todo = @ \ {C}, !.calls = IF spent THEN @ + 1 ELSE @,
                           !.copies = RE!Archived(C)]
  BY DEF RE!MergeCluster
<1>2. facts' = Append(new, RE!Canonical(C)) /\ UNCHANGED <<near, loads, slips>>
  BY DEF RE!MergeCluster
<1>3. DOMAIN run = {"at", "copies", "clusters", "todo", "calls"} /\ run.calls \in Nat
  BY DEF RE!IInv, RE!RunTyped, RE!Resting
<1>4. /\ DOMAIN run' = DOMAIN run /\ run'.at = run.at /\ run'.calls \in Nat
      /\ run'.clusters = run.clusters /\ run'.todo \subseteq run.todo
      /\ run'.copies = RE!Archived(C)
  BY <1>1, <1>3
<1>5. /\ facts \in Seq(RE!FactType) /\ C \subseteq DOMAIN run.copies /\ run.at = "merge"
      /\ DOMAIN run.copies \subseteq DOMAIN facts
      /\ \A f \in DOMAIN run.copies : run.copies[f] \in RE!FactType /\ facts[f] = run.copies[f]
  BY ClusterOfCopies DEF RE!IInv, RE!RunTyped, RE!CopiesFresh, RE!MergeCluster
<1>. DEFINE A == RE!Archived(C)
<1>6. DOMAIN A = DOMAIN run.copies /\ \A f \in DOMAIN run.copies : A[f] \in RE!FactType
  BY <1>5, ArchivedTyped DEF RE!Archived
<1>15. \A f \in C : A[f] = [run.copies[f] EXCEPT !.archived = TRUE]
  BY <1>5 DEF RE!Archived
<1>16. \A f \in DOMAIN run.copies : f \notin C => A[f] = run.copies[f]
  BY DEF RE!Archived
<1>14. run'.copies = A
  BY <1>4
<1>7. new = [f \in DOMAIN facts |-> new[f]]
  OBVIOUS
<1>17. \A f \in DOMAIN facts : f \in C => new[f] = A[f]
  OBVIOUS
<1>18. \A f \in DOMAIN facts : f \notin C => new[f] = facts[f]
  OBVIOUS
<1>. HIDE DEF new, A
<1>8. new \in Seq(RE!FactType) /\ Len(new) = Len(facts)
  <2>1. ASSUME NEW f \in DOMAIN facts PROVE new[f] \in RE!FactType
    <3>1. CASE f \in C
      <4>1. f \in DOMAIN run.copies
        BY <1>5, <3>1
      <4>2. A[f] \in RE!FactType
        BY <1>6, <4>1
      <4>3. new[f] = A[f]
        BY <1>17, <3>1
      <4>. QED BY <4>2, <4>3
    <3>2. CASE f \notin C
      <4>1. facts[f] \in RE!FactType
        BY <1>5
      <4>. QED BY <1>18, <3>2, <4>1
    <3>. QED BY <3>1, <3>2
  <2>2. DOMAIN new = 1..Len(facts) /\ Len(facts) \in Nat
    BY <1>5, <1>7
  <2>3. new \in [1..Len(facts) -> RE!FactType]
    BY <1>7, <2>1, <2>2
  <2>. QED BY <2>2, <2>3
<1>9. RE!Canonical(C) \in RE!FactType
  BY MergedFact
<1>10. /\ Len(facts') = Len(facts) + 1 /\ facts' \in Seq(RE!FactType)
       /\ \A f \in DOMAIN facts : facts'[f] = new[f]
       /\ facts'[Len(facts) + 1] = RE!Canonical(C)
  BY <1>2, <1>5, <1>7, <1>8, <1>9
<1>11. ASSUME NEW f \in DOMAIN run.copies
       PROVE  /\ run'.copies[f] \in RE!FactType
              /\ f \notin C => run'.copies[f] = run.copies[f]
              /\ facts'[f] = run'.copies[f]
  <2>1. f \in DOMAIN facts /\ facts[f] = run.copies[f] /\ facts'[f] = new[f]
    BY <1>5, <1>10
  <2>2. run'.copies[f] = A[f]
    BY <1>14
  <2>3. CASE f \in C
    BY <1>6, <1>17, <2>1, <2>2, <2>3
  <2>4. CASE f \notin C
    BY <1>6, <1>16, <1>18, <2>1, <2>2, <2>4
  <2>. QED BY <2>3, <2>4
<1>12. ASSUME NEW f \in DOMAIN facts
       PROVE  /\ f \in C => facts'[f] = [facts[f] EXCEPT !.archived = TRUE]
              /\ f \notin C => facts'[f] = facts[f]
  <2>1. CASE f \in C
    <3>1. facts[f] = run.copies[f] /\ facts'[f] = A[f]
      BY <1>5, <1>10, <1>17, <2>1
    <3>. QED BY <1>15, <2>1, <3>1
  <2>2. CASE f \notin C
    BY <1>10, <1>18, <2>2
  <2>. QED BY <2>1, <2>2
<1>13. DOMAIN run'.copies = DOMAIN run.copies
  BY <1>6, <1>14
<1>. QED BY <1>2, <1>4, <1>10, <1>11, <1>12, <1>13

LEMMA MergeSound == ASSUME RE!IInv, NEW C \in run.todo, RE!MergeCluster(C) PROVE RE!IInv'
<1>1. /\ UNCHANGED <<near, loads, slips>> /\ DOMAIN run' = DOMAIN run
      /\ run'.at = run.at /\ run'.calls \in Nat
      /\ run'.clusters = run.clusters /\ run'.todo \subseteq run.todo
      /\ DOMAIN run'.copies = DOMAIN run.copies
      /\ \A f \in DOMAIN run.copies :
           run'.copies[f] \in RE!FactType /\ facts'[f] = run'.copies[f]
      /\ Len(facts') = Len(facts) + 1 /\ facts' \in Seq(RE!FactType)
  BY MergeStep
<1>2. /\ facts \in Seq(RE!FactType) /\ Len(facts) < MaxFacts /\ run.at = "merge"
      /\ DOMAIN run.copies \subseteq DOMAIN facts
  BY DEF RE!IInv, RE!RunTyped, RE!MergeCluster
<1>3. DOMAIN facts \subseteq DOMAIN facts' /\ Len(facts') <= MaxFacts
  BY <1>1, <1>2, RecurrenceAssumed
<1>4. RE!RunTyped' /\ RE!CopiesFresh'
  BY <1>1, <1>2, <1>3 DEF RE!IInv, RE!RunTyped, RE!CopiesFresh, RE!Resting
<1>5. RE!ClustersAreLinked'
  BY <1>1, ClustersKept DEF RE!IInv, RE!ClustersAreLinked
<1>. QED BY <1>1, <1>3, <1>4, <1>5 DEF RE!IInv

LEMMA PromotedTyped ==
  ASSUME NEW f, run.copies[f] \in RE!FactType PROVE RE!Promoted(f) \in RE!FactType
<1>1. PICK x \in RE!FactType : x = run.copies[f]
  OBVIOUS
<1>2. \E class \in {x.class, "semantic"}, scope \in {x.scope, "actor"} :
        RE!Promoted(f) = [x EXCEPT !.class = class, !.scope = scope]
  BY <1>1 DEF RE!Promoted
<1>. QED BY <1>2 DEF RE!FactType

LEMMA PromoteSound == ASSUME RE!IInv, RE!PromoteAndWrite PROVE RE!IInv'
<1>1. PICK ok \in BOOLEAN, certain \in SUBSET {f \in DOMAIN run.copies : run.copies[f].goal} :
        LET flagged == {f \in certain : RE!SessionsSeen(f) >= SessionsNeeded}
            after(f) == IF run.copies[f].archived \/ f \in flagged THEN run.copies[f]
                        ELSE RE!Promoted(f)
        IN  /\ RE!Slip(~ok)
            /\ facts' = IF ok THEN [f \in DOMAIN facts |->
                                      IF f \in DOMAIN run.copies THEN after(f) ELSE facts[f]]
                        ELSE facts
  BY DEF RE!PromoteAndWrite
<1>2. run' = [run EXCEPT !.at = "written"] /\ UNCHANGED <<near, loads>> /\ slips' \in Nat
  BY <1>1, SlipTyped DEF RE!PromoteAndWrite, RE!IInv
<1>3. /\ DOMAIN run' = DOMAIN run /\ run'.at = "written" /\ run'.calls = run.calls
      /\ run'.copies = run.copies /\ run'.clusters = run.clusters /\ run'.todo = run.todo
  BY <1>2 DEF RE!IInv, RE!RunTyped, RE!Resting
<1>4. facts \in Seq(RE!FactType) /\ \A f \in DOMAIN run.copies : run.copies[f] \in RE!FactType
  BY DEF RE!IInv, RE!RunTyped
<1>5. DOMAIN facts' = DOMAIN facts /\ \A f \in DOMAIN facts : facts'[f] \in RE!FactType
  BY <1>1, <1>4, PromotedTyped
<1>6. facts' \in Seq(RE!FactType) /\ Len(facts') = Len(facts)
  <2>1. \/ facts' = facts
        \/ facts' = [f \in DOMAIN facts |-> facts'[f]]
    BY <1>1
  <2>2. CASE facts' = facts
    BY <2>2, <1>4
  <2>3. CASE facts' = [f \in DOMAIN facts |-> facts'[f]]
    <3>1. facts' \in [1..Len(facts) -> RE!FactType] /\ Len(facts) \in Nat
      BY <1>4, <1>5, <2>3
    <3>. QED BY <3>1, <1>5
  <2>. QED BY <2>1, <2>2, <2>3
<1>7. RE!RunTyped' /\ RE!CopiesFresh'
  BY <1>3, <1>5 DEF RE!IInv, RE!RunTyped, RE!CopiesFresh, RE!Resting
<1>8. RE!ClustersAreLinked'
  BY <1>2, <1>3, ClustersKept DEF RE!IInv, RE!ClustersAreLinked
<1>. QED BY <1>2, <1>3, <1>6, <1>7, <1>8 DEF RE!IInv

LEMMA EndRunSound == ASSUME RE!IInv, RE!EndRun PROVE RE!IInv'
<1>1. run' = RE!Resting /\ UNCHANGED <<near, facts, loads, slips>>
  BY DEF RE!EndRun
<1>2. /\ run'.at = "rest" /\ run'.copies = <<>> /\ run'.clusters = {} /\ run'.todo = {}
      /\ run'.calls = 0
  BY <1>1 DEF RE!Resting
<1>3. RE!RunTyped' /\ RE!CopiesFresh' /\ RE!ClustersAreLinked'
  BY <1>1, <1>2 DEF RE!RunTyped, RE!CopiesFresh, RE!ClustersAreLinked, RE!Resting
<1>. QED BY <1>1, <1>2, <1>3 DEF RE!IInv

LEMMA RecurrenceStepSound == ASSUME RE!IInv, RE!RecurrenceNext PROVE RE!IInv'
BY StoreFactSound, LoadAndClusterSound, SkipSound, MergeSound, PromoteSound, EndRunSound
DEF RE!RecurrenceNext

LEMMA RecurrenceStays == ASSUME RE!IInv, UNCHANGED recurrenceVars PROVE RE!IInv'
<1>1. UNCHANGED <<near, facts, run, loads, slips>>
  BY DEF recurrenceVars
<1>2. RE!RunTyped' /\ RE!CopiesFresh'
  BY <1>1 DEF RE!IInv, RE!RunTyped, RE!CopiesFresh, RE!Resting
<1>3. RE!ClustersAreLinked'
  BY <1>1, ClustersKept DEF RE!IInv, RE!ClustersAreLinked
<1>. QED BY <1>1, <1>2, <1>3 DEF RE!IInv

LEMMA RecurrenceKept ==
  ASSUME RecurrenceInv, [PartsNext]_allVars PROVE RecurrenceInv'
<1>1. CASE part = "recurrence" /\ RE!RecurrenceNext /\ Others
  BY <1>1, RecurrenceStepSound DEF RecurrenceInv, Others
<1>2. CASE part # "recurrence" /\ UNCHANGED part
  BY <1>2 DEF RecurrenceInv
<1>3. CASE UNCHANGED allVars
  <2>1. UNCHANGED part /\ UNCHANGED recurrenceVars
    BY <1>3 DEF allVars
  <2>. QED BY <2>1, RecurrenceStays DEF RecurrenceInv
<1>. QED BY <1>1, <1>2, <1>3 DEF PartsNext, Others

\* Whatever is near what, and whatever was stored, merged and skipped before: the clusters
\* of a consolidation run are the connected components of the near-duplicate relation on
\* the facts it loaded, those of two facts or more (cluster_duplicates.py: the union-find
\* with its path halving and its two loops; ClustersAreLinked of Recurrence.tla).
THEOREM DuplicatesAreFound == PartsSpec => []ClustersAreLinked
<1>1. PartsInit => RecurrenceInv
  BY RecurrenceStarts DEF PartsInit, RecurrenceInv
<1>2. RecurrenceInv /\ [PartsNext]_allVars => RecurrenceInv'
  BY RecurrenceKept
<1>3. RecurrenceInv => ClustersAreLinked
  BY DEF RecurrenceInv, ClustersAreLinked, RE!IInv
<1>. QED BY <1>1, <1>2, <1>3, PTL DEF PartsSpec

LEMMA NothingChanged ==
  ASSUME \A f \in DOMAIN facts : facts'[f] = facts[f] PROVE RE!ChangesJustified
BY DEF RE!ChangesJustified, RE!PromotedOnlyIfRecurring, RE!MergeLosesNothing

LEMMA MergeChanges ==
  ASSUME RE!IInv, NEW C \in run.todo, RE!MergeCluster(C) PROVE RE!ChangesJustified
<1>. DEFINE c == Len(facts) + 1
<1>1. /\ Len(facts') = c /\ facts' \in Seq(RE!FactType) /\ facts'[c] = RE!Canonical(C)
      /\ \A f \in DOMAIN facts : f \notin C => facts'[f] = facts[f]
  BY MergeStep
<1>2. \A f \in DOMAIN facts : f \in C => facts'[f] = [facts[f] EXCEPT !.archived = TRUE]
  BY MergeStep
<1>3. facts \in Seq(RE!FactType) /\ \A f \in DOMAIN facts : facts[f] \in RE!FactType
  BY DEF RE!IInv
<1>4. \A f \in C : facts[f] = run.copies[f]
  BY ClusterOfCopies DEF RE!IInv, RE!CopiesFresh, RE!MergeCluster
<1>5. c \in DOMAIN facts'
  BY <1>1, <1>3
<1>6. RE!PromotedOnlyIfRecurring
  <2>1. ASSUME NEW f \in DOMAIN facts PROVE facts'[f].class = facts[f].class
    <3>1. CASE f \in C
      <4>1. facts'[f] = [facts[f] EXCEPT !.archived = TRUE] /\ facts[f] \in RE!FactType
        BY <1>2, <1>3, <3>1
      <4>. QED BY <4>1 DEF RE!FactType
    <3>2. CASE f \notin C
      BY <1>1, <3>2
    <3>. QED BY <3>1, <3>2
  <2>. QED BY <2>1 DEF RE!PromotedOnlyIfRecurring
<1>7. ASSUME NEW f \in DOMAIN facts, ~facts[f].archived, facts'[f].archived
      PROVE  /\ ~facts'[c].archived
             /\ RE!Rank(RE!ClassOrder, facts'[c].class) >= RE!Rank(RE!ClassOrder, facts[f].class)
             /\ RE!Rank(RE!ScopeOrder, facts'[c].scope) >= RE!Rank(RE!ScopeOrder, facts[f].scope)
             /\ facts[f].goal => facts'[c].goal
             /\ facts'[c].uses >= facts[f].uses
  <2>1. f \in C
    BY <1>1, <1>7
  <2>2. facts[f] = run.copies[f] /\ facts'[c] = RE!Canonical(C)
    BY <1>1, <1>4, <2>1
  <2>3. PICK x, y : x = facts[f] /\ y = facts'[c]
    OBVIOUS
  <2>4. /\ ~y.archived
        /\ RE!Rank(RE!ClassOrder, x.class) <= RE!Rank(RE!ClassOrder, y.class)
        /\ RE!Rank(RE!ScopeOrder, x.scope) <= RE!Rank(RE!ScopeOrder, y.scope)
        /\ x.goal => y.goal
        /\ x.uses <= y.uses
    BY <2>1, <2>2, <2>3, MergedFact
  <2>. QED BY <2>3, <2>4
<1>8. RE!MergeLosesNothing
  BY <1>5, <1>7 DEF RE!MergeLosesNothing
<1>. QED BY <1>6, <1>8 DEF RE!ChangesJustified

\* What a run counts is seen in what the fact is linked to.
LEMMA SeenLinked ==
  ASSUME RE!IInv, run.at = "merge", NEW f \in DOMAIN run.copies, RE!SessionsSeen(f) >= SessionsNeeded
  PROVE  RE!Cardinality({facts[g].session : g \in RE!Alike(f, DOMAIN run.copies)} \ {None})
           >= SessionsNeeded
<1>. DEFINE S == DOMAIN run.copies
            alike == {f} \cup UNION {C \in run.clusters : f \in C}
            counted == {run.copies[g].session : g \in alike} \ {None}
            linked == {facts[g].session : g \in RE!Alike(f, S)} \ {None}
<1>1. alike \subseteq RE!Alike(f, S)
  <2>1. run.clusters \in SUBSET RE!Linked(S)
    BY DEF RE!IInv, RE!ClustersAreLinked
  <2>. QED BY <2>1, SeenAlike
<1>2. RE!Alike(f, S) \subseteq S /\ \A g \in S : facts[g] = run.copies[g]
  BY DEF RE!Alike, RE!IInv, RE!CopiesFresh
<1>3. counted \subseteq linked
  <2>. HIDE DEF alike
  <2>. QED BY <1>1, <1>2
<1>4. IsFiniteSet(linked)
  <2>1. S \subseteq 1..Len(facts) /\ Len(facts) \in Nat
    BY DEF RE!IInv, RE!RunTyped
  <2>2. IsFiniteSet(RE!Alike(f, S))
    <3>1. PICK n \in Nat : S \subseteq 1..n
      BY <2>1
    <3>2. RE!Alike(f, S) \subseteq 1..n
      BY <1>2, <3>1
    <3>3. IsFiniteSet(1..n)
      BY FS_Interval
    <3>. QED BY <3>2, <3>3, FS_Subset
  <2>. DEFINE sessions == [g \in RE!Alike(f, S) |-> facts[g].session]
  <2>3. sessions \in Surjection(RE!Alike(f, S), {facts[g].session : g \in RE!Alike(f, S)})
    BY DEF Surjection
  <2>4. IsFiniteSet({facts[g].session : g \in RE!Alike(f, S)})
    BY <2>2, <2>3, FS_Surjection
  <2>. QED BY <2>4, FS_Subset
<1>5. RE!SessionsSeen(f) = RE!Cardinality(counted)
  BY DEF RE!SessionsSeen
<1>. HIDE DEF counted, linked
<1>6. Cardinality(counted) <= Cardinality(linked) /\ Cardinality(counted) \in Nat
      /\ Cardinality(linked) \in Nat
  BY <1>3, <1>4, FS_Subset, FS_CardinalityType
<1>7. RE!Cardinality(linked) >= SessionsNeeded
  BY <1>5, <1>6, SameClusterSize, RecurrenceAssumed
<1>. QED BY <1>7 DEF linked

LEMMA PromoteChanges ==
  ASSUME RE!IInv, RE!PromoteAndWrite PROVE RE!ChangesJustified
<1>1. /\ run.at = "merge" /\ DOMAIN run.copies \subseteq DOMAIN facts
      /\ \A f \in DOMAIN run.copies : facts[f] = run.copies[f] /\ run.copies[f] \in RE!FactType
  BY DEF RE!IInv, RE!RunTyped, RE!CopiesFresh, RE!PromoteAndWrite
<1>2. ASSUME NEW f \in DOMAIN facts
      PROVE  \/ facts'[f] = facts[f]
             \/ f \in DOMAIN run.copies /\ facts'[f] = RE!Promoted(f)
  BY <1>1 DEF RE!PromoteAndWrite
<1>3. ASSUME NEW f \in DOMAIN run.copies
      PROVE  /\ RE!Promoted(f).archived = facts[f].archived
             /\ RE!Promoted(f).class # facts[f].class => RE!SessionsSeen(f) >= SessionsNeeded
  <2>1. PICK x \in RE!FactType : x = run.copies[f] /\ x = facts[f]
    BY <1>1
  <2>2. PICK often \in BOOLEAN : often <=> RE!SessionsSeen(f) >= SessionsNeeded
    <3>1. (RE!SessionsSeen(f) >= SessionsNeeded) \in BOOLEAN
      OBVIOUS
    <3>. QED BY <3>1
  <2>3. \E scope \in {x.scope, "actor"} :
          RE!Promoted(f) = [x EXCEPT !.class = IF often /\ @ = "episodic" THEN "semantic" ELSE @,
                                     !.scope = scope]
    BY <2>1, <2>2 DEF RE!Promoted
  <2>4. /\ RE!Promoted(f).archived = x.archived
        /\ RE!Promoted(f).class # x.class => often
    BY <2>3 DEF RE!FactType
  <2>. QED BY <2>1, <2>2, <2>4
<1>4. RE!PromotedOnlyIfRecurring
  <2>1. ASSUME NEW f \in DOMAIN facts, facts[f].class = "episodic", facts'[f].class = "semantic"
        PROVE  RE!Cardinality({facts[g].session : g \in RE!Alike(f, DOMAIN run.copies)} \ {None})
                 >= SessionsNeeded
    <3>1. f \in DOMAIN run.copies /\ RE!SessionsSeen(f) >= SessionsNeeded
      BY <1>2, <1>3, <2>1
    <3>. QED BY <1>1, <3>1, SeenLinked
  <2>. QED BY <2>1 DEF RE!PromotedOnlyIfRecurring
<1>5. RE!MergeLosesNothing
  BY <1>2, <1>3 DEF RE!MergeLosesNothing
<1>. QED BY <1>4, <1>5 DEF RE!ChangesJustified

LEMMA ChangesSound == ASSUME RE!IInv, RE!RecurrenceNext PROVE RE!ChangesJustified
<1>1. CASE \E kind \in SaidKinds : RE!StoreFact(kind)
  <2>1. PICK x : facts' = Append(facts, x)
    BY <1>1 DEF RE!StoreFact
  <2>2. facts \in Seq(RE!FactType)
    BY DEF RE!IInv
  <2>3. \A f \in DOMAIN facts : facts'[f] = facts[f]
    BY <2>1, <2>2
  <2>. QED BY <2>3, NothingChanged
<1>2. CASE RE!LoadAndCluster \/ RE!EndRun
  BY <1>2, NothingChanged DEF RE!LoadAndCluster, RE!EndRun
<1>3. CASE RE!PromoteAndWrite
  BY <1>3, PromoteChanges
<1>4. CASE \E C \in run.todo : RE!SkipCluster(C)
  BY <1>4, NothingChanged DEF RE!SkipCluster
<1>5. CASE \E C \in run.todo : RE!MergeCluster(C)
  BY <1>5, MergeChanges
<1>. QED BY <1>1, <1>2, <1>3, <1>4, <1>5 DEF RE!RecurrenceNext

\* Whatever a consolidation run does to a fact has its reason, in every step: it becomes
\* semantic only when the facts linked to it were said in as many sessions as the
\* threshold asks for (promote.py), and it is archived as a duplicate only when a live
\* canonical fact has at least its class, its scope, its goal and its uses
\* (canonicalize.py; ChangesJustified of Recurrence.tla).
THEOREM FactsChangeForAReason == PartsSpec => ChangesJustified
<1>1. PartsInit => RecurrenceInv
  BY RecurrenceStarts DEF PartsInit, RecurrenceInv
<1>2. RecurrenceInv /\ [PartsNext]_allVars => RecurrenceInv'
  BY RecurrenceKept
<1>3. RecurrenceInv /\ [PartsNext]_allVars
        => [part = "recurrence" => RE!ChangesJustified]_recurrenceVars
  <2>. SUFFICES ASSUME RecurrenceInv, [PartsNext]_allVars
                PROVE  [part = "recurrence" => RE!ChangesJustified]_recurrenceVars
    OBVIOUS
  <2>1. CASE part = "recurrence" /\ RE!RecurrenceNext
    BY <2>1, ChangesSound DEF RecurrenceInv
  <2>2. CASE UNCHANGED allVars
    BY <2>2 DEF allVars
  <2>. QED BY <2>1, <2>2 DEF PartsNext
<1>. QED BY <1>1, <1>2, <1>3, PTL DEF PartsSpec, ChangesJustified
=============================================================================

-------------------------- MODULE TurnIngestProofs --------------------------
(***************************************************************************)
(* TurnIngest keeps its promises for all messages, facts, tasks and        *)
(* bounds: a message is read by one run or dropped for one known reason,   *)
(* the list of recent facts is true, and decay hits what the LLM was shown. *)
(*                                                                         *)
(* IInv, at the end of TurnIngest, is the inductive invariant.  Its parts  *)
(* are proved one after the other, each with one step per action.          *)
(*                                                                         *)
(* The first part are facts about lists: what Kept keeps, what a list      *)
(* contains, and that its entries are different (IsInjective).             *)
(***************************************************************************)
EXTENDS TurnIngest, Functions, SequenceTheorems, FiniteSetTheorems,
        WellFoundedInduction, TLAPS

\* Induction on the numbers up to a bound, for a set of numbers.
LEMMA UpTo ==
  ASSUME NEW b \in Nat, NEW T, 0 \in T, \A n \in 0..b : n < b /\ n \in T => n + 1 \in T
  PROVE  \A n \in 0..b : n \in T
<1>. DEFINE Out == {n \in Nat : n <= b /\ n \notin T}
<1>. SUFFICES ASSUME Out # {} PROVE FALSE
  OBVIOUS
<1>1. IsWellFoundedOn(OpToRel(<, Nat), Nat)
  BY NatLessThanWellFounded
<1>2. Out \subseteq Nat
  OBVIOUS
<1>. HIDE DEF Out
<1>3. PICK n \in Out : \A m \in Out : ~(<<m, n>> \in OpToRel(<, Nat))
  BY <1>1, <1>2, WFMin, Zenon
<1>4. \A m \in Out : ~ (m < n)
  BY <1>2, <1>3 DEF OpToRel
<1>. USE DEF Out
<1>5. n \in Nat /\ n <= b /\ n \notin T
  BY <1>3
<1>6. n # 0
  BY <1>5, Zenon
<1>7. n - 1 \in T
  BY <1>4, <1>5, <1>6
<1>. QED BY <1>5, <1>6, <1>7

\* g fills in the first n steps of Kept.
Filling(g, n, s, I) ==
  /\ DOMAIN g = 0..n
  /\ \A i \in 0..n :
       g[i] = IF i = 0 THEN <<>> ELSE IF i \in I THEN Append(g[i - 1], s[i]) ELSE g[i - 1]

\* The recursive function of Kept exists.
LEMMA FillingExists ==
  ASSUME NEW S, NEW s \in Seq(S), NEW I
  PROVE  \E g : g = [i \in 0..Len(s) |-> IF i = 0 THEN <<>>
             ELSE IF i \in I THEN Append(g[i - 1], s[i]) ELSE g[i - 1]]
<1>. DEFINE T == {n \in 0..Len(s) : \E g \in [0..n -> Seq(S)] : Filling(g, n, s, I)}
<1>0. Len(s) \in Nat
  OBVIOUS
<1>1. 0 \in T
  <2>1. [i \in 0..0 |-> <<>>] \in [0..0 -> Seq(S)] /\ Filling([i \in 0..0 |-> <<>>], 0, s, I)
    BY DEF Filling
  <2>. QED BY <1>0, <2>1
<1>2. ASSUME NEW n \in 0..Len(s), n < Len(s), n \in T
      PROVE  n + 1 \in T
  <2>1. PICK g \in [0..n -> Seq(S)] : Filling(g, n, s, I)
    BY <1>2
  <2>. DEFINE x == IF n + 1 \in I THEN Append(g[n], s[n + 1]) ELSE g[n]
              h == [i \in 0..(n + 1) |-> IF i <= n THEN g[i] ELSE x]
  <2>2. x \in Seq(S)
    BY <1>2
  <2>3. h \in [0..(n + 1) -> Seq(S)]
    BY <2>2
  <2>4. Filling(h, n + 1, s, I)
    <3>1. \A i \in 0..n : h[i] = g[i]
      BY <1>2
    <3>2. h[n + 1] = x /\ DOMAIN h = 0..(n + 1)
      BY <1>2
    <3>. HIDE DEF h
    <3>3. ASSUME NEW i \in 0..(n + 1)
          PROVE  h[i] = IF i = 0 THEN <<>> ELSE IF i \in I THEN Append(h[i - 1], s[i]) ELSE h[i - 1]
      <4>1. CASE i = n + 1
        <5>1. i # 0 /\ h[i - 1] = g[n]
          BY <4>1, <3>1, <1>2
        <5>. QED BY <4>1, <5>1, <3>2
      <4>2. CASE i # n + 1
        <5>1. i \in 0..n /\ (i # 0 => i - 1 \in 0..n)
          BY <4>2, <1>2
        <5>2. g[i] = IF i = 0 THEN <<>> ELSE IF i \in I THEN Append(g[i - 1], s[i]) ELSE g[i - 1]
          BY <5>1, <2>1 DEF Filling
        <5>. QED BY <5>1, <5>2, <3>1
      <4>. QED BY <4>1, <4>2
    <3>. QED BY <3>2, <3>3 DEF Filling
  <2>. HIDE DEF h
  <2>. QED BY <1>2, <2>3, <2>4
<1>3. Len(s) \in T
  <2>. HIDE DEF T
  <2>1. \A n \in 0..Len(s) : n < Len(s) /\ n \in T => n + 1 \in T
    BY <1>2
  <2>2. \A n \in 0..Len(s) : n \in T
    BY <1>0, <1>1, <2>1, UpTo
  <2>. QED BY <1>0, <2>2
<1>4. PICK g \in [0..Len(s) -> Seq(S)] : Filling(g, Len(s), s, I)
  BY <1>3
<1>. QED BY <1>4 DEF Filling

\* The entries of a list that grows, and whether they stay apart.
LEMMA AppendRange ==
  ASSUME NEW S, NEW s \in Seq(S), NEW x \in S
  PROVE  /\ Range(Append(s, x)) = Range(s) \cup {x}
         /\ IsInjective(s) /\ x \notin Range(s) => IsInjective(Append(s, x))
<1>1. /\ DOMAIN Append(s, x) = 1..(Len(s) + 1) /\ DOMAIN s = 1..Len(s)
      /\ \A i \in 1..Len(s) : Append(s, x)[i] = s[i]
      /\ Append(s, x)[Len(s) + 1] = x /\ Len(s) \in Nat
  OBVIOUS
<1>. DEFINE t == Append(s, x)
<1>. HIDE DEF t
<1>2. Range(t) = Range(s) \cup {x}
  <2>1. ASSUME NEW y \in Range(t)
        PROVE  y \in Range(s) \cup {x}
    <3>1. PICK i \in DOMAIN t : y = t[i]
      BY DEF Range
    <3>2. i = Len(s) + 1 \/ i \in 1..Len(s)
      BY <1>1, <3>1 DEF t
    <3>. QED BY <3>1, <3>2, <1>1 DEF Range, t
  <2>2. ASSUME NEW y \in Range(s) \cup {x}
        PROVE  y \in Range(t)
    BY <1>1, <2>2 DEF Range, t
  <2>. QED BY <2>1, <2>2
<1>3. IsInjective(s) /\ x \notin Range(s) => IsInjective(t)
  BY <1>1 DEF IsInjective, Range, t
<1>. QED BY <1>2, <1>3 DEF t

\* What a comprehension keeps: entries of the list, at most as many, apart if
\* they were.
LEMMA KeptLemma ==
  ASSUME NEW S, NEW s \in Seq(S), NEW I
  PROVE  /\ Kept(s, I) \in Seq(S)
         /\ Len(Kept(s, I)) <= Len(s)
         /\ Range(Kept(s, I)) = {s[i] : i \in DOMAIN s \cap I}
         /\ IsInjective(s) => IsInjective(Kept(s, I))
<1>. DEFINE kept == CHOOSE k : k = [i \in 0..Len(s) |-> IF i = 0 THEN <<>>
             ELSE IF i \in I THEN Append(k[i - 1], s[i]) ELSE k[i - 1]]
<1>1. kept = [i \in 0..Len(s) |-> IF i = 0 THEN <<>>
             ELSE IF i \in I THEN Append(kept[i - 1], s[i]) ELSE kept[i - 1]]
  <2>. DEFINE P(k) == k = [i \in 0..Len(s) |-> IF i = 0 THEN <<>>
             ELSE IF i \in I THEN Append(k[i - 1], s[i]) ELSE k[i - 1]]
  <2>1. \E k : P(k)
    BY FillingExists
  <2>2. P(CHOOSE k : P(k))
    BY <2>1, Zenon
  <2>. QED BY <2>2
<1>2. Kept(s, I) = kept[Len(s)]
  BY DEF Kept
<1>. HIDE DEF kept
<1>. DEFINE Fine(n) == /\ kept[n] \in Seq(S)
                       /\ Len(kept[n]) <= n
                       /\ Range(kept[n]) = {s[i] : i \in (1..n) \cap I}
                       /\ IsInjective(s) => IsInjective(kept[n])
            T == {n \in 0..Len(s) : Fine(n)}
<1>3. 0 \in T
  <2>1. kept[0] = <<>>
    BY <1>1, Len(s) \in Nat
  <2>2. Range(<<>>) = {} /\ IsInjective(<<>>) /\ <<>> \in Seq(S) /\ Len(<<>>) = 0
    BY DEF Range, IsInjective
  <2>3. {s[i] : i \in (1..0) \cap I} = {}
    OBVIOUS
  <2>4. Len(kept[0]) <= 0
    BY <2>1
  <2>5. Fine(0)
    BY <2>1, <2>2, <2>3, <2>4, Zenon
  <2>. HIDE DEF Fine
  <2>. QED BY <2>5, Len(s) \in Nat
<1>4. ASSUME NEW n \in 0..Len(s), n < Len(s), n \in T
      PROVE  n + 1 \in T
  <2>1. kept[n + 1] = IF n + 1 \in I THEN Append(kept[n], s[n + 1]) ELSE kept[n]
    <3>1. n + 1 \in 0..Len(s) /\ n + 1 # 0 /\ (n + 1) - 1 = n
      BY <1>4
    <3>. QED BY <1>1, <3>1
  <2>2. Fine(n) /\ s[n + 1] \in S
    BY <1>4
  <2>3. CASE n + 1 \notin I
    BY <2>1, <2>2, <2>3, <1>4
  <2>4. CASE n + 1 \in I
    <3>. DEFINE k == kept[n]
    <3>1. kept[n + 1] = Append(k, s[n + 1]) /\ k \in Seq(S)
      BY <2>1, <2>2, <2>4
    <3>. HIDE DEF k
    <3>2. Range(Append(k, s[n + 1])) = Range(k) \cup {s[n + 1]}
      BY <3>1, <2>2, AppendRange
    <3>3. Range(kept[n + 1]) = {s[i] : i \in (1..(n + 1)) \cap I}
      BY <3>1, <3>2, <2>2, <2>4 DEF k
    <3>4. ASSUME IsInjective(s)
          PROVE  IsInjective(kept[n + 1])
      <4>1. s[n + 1] \notin Range(k)
        BY <3>4, <2>2, <1>4 DEF k, IsInjective
      <4>2. IsInjective(k)
        BY <3>4, <2>2 DEF k
      <4>. QED BY <3>1, <4>1, <4>2, <2>2, AppendRange
    <3>5. Len(kept[n + 1]) <= n + 1 /\ kept[n + 1] \in Seq(S)
      BY <3>1, <2>2 DEF k
    <3>. QED BY <3>3, <3>4, <3>5, <1>4
  <2>. QED BY <2>3, <2>4
<1>5. Len(s) \in T
  <2>. HIDE DEF T
  <2>1. \A n \in 0..Len(s) : n < Len(s) /\ n \in T => n + 1 \in T
    BY <1>4
  <2>2. Len(s) \in Nat
    OBVIOUS
  <2>3. \A n \in 0..Len(s) : n \in T
    BY <1>3, <2>1, <2>2, UpTo
  <2>. QED BY <2>2, <2>3
<1>6. Fine(Len(s))
  BY <1>5
<1>7. {s[i] : i \in (1..Len(s)) \cap I} = {s[i] : i \in DOMAIN s \cap I}
  OBVIOUS
<1>. QED BY <1>2, <1>6, <1>7

\* One list after another.
LEMMA ConcatRange ==
  ASSUME NEW S, NEW s \in Seq(S), NEW t \in Seq(S)
  PROVE  /\ s \o t \in Seq(S) /\ Len(s \o t) = Len(s) + Len(t)
         /\ Range(s \o t) = Range(s) \cup Range(t)
         /\ IsInjective(s) /\ IsInjective(t) /\ Range(s) \cap Range(t) = {} => IsInjective(s \o t)
<1>. DEFINE u == s \o t
<1>1. /\ DOMAIN u = 1..(Len(s) + Len(t)) /\ DOMAIN s = 1..Len(s) /\ DOMAIN t = 1..Len(t)
      /\ \A i \in 1..Len(s) : u[i] = s[i]
      /\ \A i \in 1..Len(t) : u[Len(s) + i] = t[i]
      /\ Len(s) \in Nat /\ Len(t) \in Nat /\ u \in Seq(S) /\ Len(u) = Len(s) + Len(t)
  OBVIOUS
<1>. HIDE DEF u
<1>2. ASSUME NEW i \in DOMAIN u
      PROVE  \/ i \in DOMAIN s /\ u[i] = s[i]
             \/ i - Len(s) \in DOMAIN t /\ u[i] = t[i - Len(s)]
  <2>1. i \in 1..Len(s) \/ i - Len(s) \in 1..Len(t)
    BY <1>1
  <2>2. i = Len(s) + (i - Len(s))
    BY <1>1
  <2>. QED BY <1>1, <2>1, <2>2
<1>3. Range(u) = Range(s) \cup Range(t)
  <2>1. Range(u) \subseteq Range(s) \cup Range(t)
    BY <1>2 DEF Range
  <2>2. Range(s) \subseteq Range(u)
    BY <1>1 DEF Range
  <2>3. Range(t) \subseteq Range(u)
    <3>1. ASSUME NEW i \in DOMAIN t
          PROVE  Len(s) + i \in DOMAIN u /\ u[Len(s) + i] = t[i]
      BY <1>1
    <3>. QED BY <3>1 DEF Range
  <2>. QED BY <2>1, <2>2, <2>3
<1>4. ASSUME IsInjective(s), IsInjective(t), Range(s) \cap Range(t) = {},
             NEW i \in DOMAIN u, NEW j \in DOMAIN u, u[i] = u[j]
      PROVE  i = j
  <2>1. CASE i \in DOMAIN s /\ u[i] = s[i] /\ j \in DOMAIN s /\ u[j] = s[j]
    BY <1>4, <2>1 DEF IsInjective
  <2>2. CASE i - Len(s) \in DOMAIN t /\ u[i] = t[i - Len(s)] /\ j - Len(s) \in DOMAIN t /\ u[j] = t[j - Len(s)]
    <3>1. i - Len(s) = j - Len(s)
      BY <1>4, <2>2 DEF IsInjective
    <3>. QED BY <1>1, <3>1
  <2>3. CASE i \in DOMAIN s /\ u[i] = s[i] /\ j - Len(s) \in DOMAIN t /\ u[j] = t[j - Len(s)]
    BY <1>4, <2>3 DEF Range
  <2>4. CASE i - Len(s) \in DOMAIN t /\ u[i] = t[i - Len(s)] /\ j \in DOMAIN s /\ u[j] = s[j]
    BY <1>4, <2>4 DEF Range
  <2>. QED BY <1>2, <2>1, <2>2, <2>3, <2>4
<1>5. IsInjective(s) /\ IsInjective(t) /\ Range(s) \cap Range(t) = {} => IsInjective(u)
  BY <1>4 DEF IsInjective
<1>. QED BY <1>1, <1>3, <1>5 DEF u

\* A slice.
LEMMA SubSeqRange ==
  ASSUME NEW S, NEW s \in Seq(S), NEW a \in 1..(Len(s) + 1), NEW b \in 0..Len(s)
  PROVE  /\ SubSeq(s, a, b) \in Seq(S)
         /\ Len(SubSeq(s, a, b)) = IF a <= b THEN b - a + 1 ELSE 0
         /\ Range(SubSeq(s, a, b)) \subseteq Range(s)
         /\ IsInjective(s) => IsInjective(SubSeq(s, a, b))
<1>. DEFINE u == SubSeq(s, a, b)
            n == IF a <= b THEN b - a + 1 ELSE 0
<1>1. Len(s) \in Nat /\ DOMAIN s = 1..Len(s)
  OBVIOUS
<1>2. n \in Nat
  BY <1>1
<1>3. /\ u \in Seq(S) /\ Len(u) = n
      /\ \A i \in 1..n : u[i] = s[a + i - 1]
  BY <1>1, SubSeqProperties
<1>4. DOMAIN u = 1..n
  BY <1>3, LenProperties
<1>. HIDE DEF u
<1>5. ASSUME NEW i \in DOMAIN u
      PROVE  i \in Int /\ a + i - 1 \in DOMAIN s /\ u[i] = s[a + i - 1]
  BY <1>1, <1>3, <1>4
<1>6. Range(u) \subseteq Range(s)
  BY <1>5 DEF Range
<1>7. ASSUME IsInjective(s), NEW i \in DOMAIN u, NEW j \in DOMAIN u, u[i] = u[j]
      PROVE  i = j
  <2>1. a + i - 1 = a + j - 1
    BY <1>5, <1>7 DEF IsInjective
  <2>. QED BY <1>5, <2>1
<1>8. IsInjective(s) => IsInjective(u)
  BY <1>7 DEF IsInjective
<1>. QED BY <1>3, <1>6, <1>8 DEF u

------------------------------------------------------------------------------
(* Lists and task records.                                                 *)

LEMMA RangeOfEmpty == Range(<<>>) = {} /\ IsInjective(<<>>)
  BY DEF Range, IsInjective

LEMMA RangeIn ==
  ASSUME NEW S, NEW s \in Seq(S)
  PROVE  Range(s) \subseteq S /\ (s # <<>> => Range(s) # {})
  BY DEF Range

\* The last n entries of a list are entries of it, in their order.
LEMMA LastOfLemma ==
  ASSUME NEW S, NEW s \in Seq(S), NEW n \in Nat
  PROVE  /\ LastOf(n, s) \in Seq(S)
         /\ Len(LastOf(n, s)) <= n
         /\ Range(LastOf(n, s)) \subseteq Range(s)
         /\ IsInjective(s) => IsInjective(LastOf(n, s))
<1>. DEFINE a == IF Len(s) > n THEN Len(s) - n + 1 ELSE 1
<1>1. a \in 1..(Len(s) + 1) /\ Len(s) \in 0..Len(s)
  OBVIOUS
<1>2. LastOf(n, s) = SubSeq(s, a, Len(s))
  BY DEF LastOf
<1>3. (IF a <= Len(s) THEN Len(s) - a + 1 ELSE 0) <= n
  OBVIOUS
<1>. HIDE DEF a
<1>. QED BY <1>1, <1>2, <1>3, SubSeqRange

LEMMA FirstOfType ==
  ASSUME NEW S, NEW s \in Seq(S), NEW n \in Nat
  PROVE  FirstOf(n, s) \in Seq(S)
<1>1. (IF Len(s) > n THEN n ELSE Len(s)) \in 0..Len(s) /\ 1 \in 1..(Len(s) + 1)
  OBVIOUS
<1>. QED BY <1>1, SubSeqRange DEF FirstOf

LEMMA WindowLemma ==
  ASSUME NEW S, NEW s \in Seq(S)
  PROVE  /\ Window(s) \in Seq(S)
         /\ Range(Window(s)) \subseteq Range(s)
         /\ IsInjective(s) => IsInjective(Window(s))
         /\ RecentMax > 0 => Len(Window(s)) <= RecentMax
<1>1. RecentMax \in Nat
  BY ConstantsAssumption
<1>. QED BY <1>1, LastOfLemma DEF Window

LEMMA IdleType == Idle \in TaskStates
  BY ConstantsAssumption DEF Idle, TaskStates, PCs

\* An index names an entry of the list or nothing.
LEMMA AtType ==
  ASSUME NEW seen \in Seq(Facts), NEW idx \in Int
  PROVE  /\ At(seen, idx) \in Facts \cup {None}
         /\ At(seen, idx) # None => At(seen, idx) \in Range(seen)
<1>1. CASE idx >= 0 /\ idx < Len(seen)
  <2>1. idx + 1 \in DOMAIN seen
    BY <1>1
  <2>. QED BY <1>1, <2>1 DEF At, Range
<1>2. CASE ~ (idx >= 0 /\ idx < Len(seen))
  BY <1>2 DEF At
<1>. QED BY <1>1, <1>2

LEMMA MaxSizeType ==
  ASSUME NEW size \in BatchSizes
  PROVE  MaxSize(size) \in Nat
<1>1. size \in Nat /\ Headroom \in Nat
  BY ConstantsAssumption
<1>. QED BY <1>1 DEF MaxSize

LEMMA RequestsLemma ==
  ASSUME NEW ms \in Requests
  PROVE  /\ ms \in Seq(Messages) /\ ms # <<>> /\ IsInjective(ms)
         /\ Range(ms) \subseteq Messages \ sent
<1>1. PICK n \in 1..Cardinality(Messages) : ms \in [1..n -> Messages \ sent]
  BY DEF Requests
<1>2. n \in Nat /\ n >= 1
  BY <1>1
<1>. QED BY <1>1, <1>2 DEF Requests, Range

\* What an extraction returns.
LEMMA ExtractionsLemma ==
  ASSUME NEW t \in Tasks, NEW raw \in Extractions(t), task[t].seen \in Seq(Facts)
  PROVE  /\ raw \in Seq(Extracted)
         /\ \A i \in DOMAIN raw : raw[i].fact \in FreshFacts
         /\ \A i, j \in DOMAIN raw : raw[i].fact = raw[j].fact => i = j
<1>. DEFINE R == [fact : FreshFacts, sup : 0..Len(task[t].seen), con : 0..Len(task[t].seen),
                  decision : BOOLEAN]
<1>1. PICK n \in 0..RunFacts : raw \in [1..n -> R]
  BY DEF Extractions
<1>2. n \in Nat
  BY <1>1
<1>3. R \subseteq Extracted
  BY DEF Extracted, FreshFacts
<1>4. \A r \in R : r.fact \in FreshFacts
  OBVIOUS
<1>. HIDE DEF R
<1>5. raw \in Seq(Extracted)
  BY <1>1, <1>2, <1>3
<1>6. \A i \in DOMAIN raw : raw[i].fact \in FreshFacts
  BY <1>1, <1>4
<1>7. \A i, j \in DOMAIN raw : raw[i].fact = raw[j].fact => i = j
  BY DEF Extractions
<1>. QED BY <1>5, <1>6, <1>7

LEMMA OutcomeType ==
  ASSUME NEW ok, faults \in 0..MaxFaults, Outcome(ok)
  PROVE  faults' \in 0..MaxFaults
  BY ConstantsAssumption DEF Outcome

LEMMA BecomeType ==
  ASSUME NEW t \in Tasks, NEW rec \in TaskStates, task \in [Tasks -> TaskStates],
         Become(t, rec)
  PROVE  task' \in [Tasks -> TaskStates]
  BY DEF Become

LEMMA EndType ==
  ASSUME NEW t \in Tasks, task \in [Tasks -> TaskStates], End(t)
  PROVE  task' \in [Tasks -> TaskStates]
  BY IdleType, BecomeType DEF End

\* The fields of a task, one at a time.
LEMMA TaskFields ==
  ASSUME TypeOK, NEW t \in Tasks
  PROVE  /\ task[t] \in TaskStates
         /\ task[t].pc \in PCs /\ task[t].size \in BatchSizes \cup {1}
         /\ task[t].msgs \in Seq(Messages) /\ task[t].seen \in Seq(Facts)
         /\ task[t].raw \in Seq(Extracted) /\ task[t].at \in Nat \ {0}
         /\ task[t].stored \in Seq(Facts) /\ task[t].fact \in Facts \cup {None}
         /\ \A i \in DOMAIN task[t].raw : task[t].raw[i] \in Extracted
         /\ \A i \in DOMAIN task[t].raw : task[t].raw[i].fact \in Facts
         /\ \A i \in DOMAIN task[t].raw : task[t].raw[i].sup \in Int
<1>1. task[t] \in TaskStates
  BY DEF TypeOK
<1>2. task[t].raw \in Seq(Extracted)
  BY <1>1 DEF TaskStates
<1>3. \A i \in DOMAIN task[t].raw : task[t].raw[i] \in Extracted
  BY <1>2
<1>. QED BY <1>1, <1>2, <1>3 DEF TaskStates, Extracted

LEMMA AdvanceType ==
  ASSUME TypeOK, NEW t \in Tasks, NEW pc \in PCs, NEW next \in PCs
  PROVE  Advance(t, pc, next).pc \in PCs /\ Advance(t, pc, next).at \in Nat \ {0}
<1>1. task[t].at + 1 \in Nat \ {0}
  BY TaskFields
<1>. QED BY <1>1 DEF Advance

\* The fact being treated, and the one it supersedes.
LEMMA CurrentLemma ==
  ASSUME TypeOK, NEW t \in Tasks, Progress(t), task[t].pc \in {"store", "decay"}
  PROVE  /\ task[t].at \in DOMAIN task[t].raw
         /\ Current(t) = task[t].raw[task[t].at]
         /\ Current(t).fact \in Facts /\ OldFact(t) \in Facts \cup {None}
<1>1. task[t].at \in DOMAIN task[t].raw
  BY DEF Progress
<1>2. Current(t).fact \in Facts /\ Current(t).sup \in Int
  BY <1>1, TaskFields DEF Current
<1>. QED BY <1>1, <1>2, AtType, TaskFields DEF Current, OldFact

LEMMA EdgesType ==
  ASSUME TypeOK, NEW t \in Tasks
  PROVE  EdgesOf(t) \subseteq {"SUPERSEDES", "CONTRADICTS"} \X Facts \X Facts
<1>1. ASSUME NEW i \in DOMAIN task[t].raw
      PROVE  /\ At(task[t].seen, task[t].raw[i].sup) \in Facts \cup {None}
             /\ At(task[t].seen, task[t].raw[i].con) \in Facts \cup {None}
  <2>1. task[t].raw[i].sup \in Int /\ task[t].raw[i].con \in Int
    BY TaskFields DEF Extracted
  <2>. QED BY <2>1, AtType, TaskFields
<1>. QED BY <1>1, TaskFields DEF EdgesOf

------------------------------------------------------------------------------
(* Type correctness.                                                       *)

LEMMA InitType == Init => TypeOK
<1>. SUFFICES ASSUME Init PROVE TypeOK
  OBVIOUS
<1>1. task \in [Tasks -> TaskStates]
  BY IdleType DEF Init
<1>. QED BY <1>1, ConstantsAssumption DEF Init, TypeOK

LEMMA StepType ==
  ASSUME TypeOK, NEW t \in Tasks, Progress(t), IngestStep(t)
  PROVE  TypeOK'
<1>. DEFINE k == task[t]
<1>0. /\ k \in TaskStates
      /\ k.pc \in PCs /\ k.size \in BatchSizes \cup {1}
      /\ k.msgs \in Seq(Messages) /\ k.seen \in Seq(Facts)
      /\ k.raw \in Seq(Extracted) /\ k.at \in Nat \ {0}
      /\ k.stored \in Seq(Facts) /\ k.fact \in Facts \cup {None}
      /\ \A i \in DOMAIN k.raw : k.raw[i].fact \in Facts
      /\ task \in [Tasks -> TaskStates]
  BY TaskFields DEF TypeOK
<1>. HIDE DEF k
<1>1. CASE AddMessages(t)
  <2>1. PICK ms \in Requests, size \in BatchSizes :
          LET all == buffer \o ms
              kept == LastOf(MaxSize(size), all)
          IN /\ buffer'  = kept
             /\ sent'    = sent \cup Range(ms)
             /\ trimmed' = trimmed \cup (Range(all) \ Range(kept))
             /\ Become(t, [Idle EXCEPT !.pc = "llen", !.size = size])
    BY <1>1 DEF AddMessages
  <2>2. ms \in Seq(Messages) /\ Range(ms) \subseteq Messages
    BY RequestsLemma
  <2>3. /\ buffer \o ms \in Seq(Messages) /\ Range(buffer \o ms) \subseteq Messages
        /\ MaxSize(size) \in Nat
    <3>1. buffer \o ms \in Seq(Messages)
      BY <2>2 DEF TypeOK
    <3>. QED BY <3>1, RangeIn, MaxSizeType
  <2>4. buffer' \in Seq(Messages)
    BY <2>1, <2>3, LastOfLemma
  <2>5. sent' \subseteq Messages /\ trimmed' \subseteq Messages
    BY <2>1, <2>2, <2>3 DEF TypeOK
  <2>6. [Idle EXCEPT !.pc = "llen", !.size = size] \in TaskStates
    BY IdleType DEF TaskStates, PCs
  <2>7. task' \in [Tasks -> TaskStates]
    BY <2>1, <2>6, <1>0, BecomeType
  <2>8. age' \in 0..(BufferTtl - 1)
    BY <1>1, ConstantsAssumption DEF AddMessages
  <2>. QED BY <2>4, <2>5, <2>7, <2>8, <1>1 DEF AddMessages, TypeOK, stores
<1>2. CASE MeasureBuffer(t)
  <2>1. [task[t] EXCEPT !.pc = "flush"] \in TaskStates
    BY <1>0 DEF TaskStates, PCs, k
  <2>2. task' \in [Tasks -> TaskStates]
    BY <2>1, <1>0, <1>2, BecomeType, EndType DEF MeasureBuffer
  <2>. QED BY <2>2, <1>2 DEF MeasureBuffer, TypeOK, lists, stores, history
<1>3. CASE Flush(t)
  <2>1. [task[t] EXCEPT !.pc = "load", !.msgs = buffer] \in TaskStates
    BY <1>0 DEF TaskStates, PCs, k, TypeOK
  <2>2. task' \in [Tasks -> TaskStates]
    BY <2>1, <1>0, <1>3, BecomeType, EndType DEF Flush
  <2>3. buffer' \in Seq(Messages) /\ age' \in 0..(BufferTtl - 1)
    BY <1>3, ConstantsAssumption DEF Flush
  <2>. QED BY <2>2, <2>3, <1>3 DEF Flush, TypeOK, stores, history
<1>4. CASE EndSession(t)
  <2>1. [Idle EXCEPT !.pc = "flush"] \in TaskStates
    BY IdleType DEF TaskStates, PCs
  <2>2. task' \in [Tasks -> TaskStates]
    BY <2>1, <1>0, <1>4, BecomeType DEF EndSession
  <2>. QED BY <2>2, <1>4 DEF EndSession, TypeOK, lists, stores, history
<1>5. CASE IngestTurn(t)
  <2>1. PICK ms \in Requests : /\ sent' = sent \cup Range(ms)
                               /\ Become(t, [Idle EXCEPT !.pc = "load", !.msgs = ms])
    BY <1>5 DEF IngestTurn
  <2>2. ms \in Seq(Messages) /\ Range(ms) \subseteq Messages
    BY RequestsLemma
  <2>3. [Idle EXCEPT !.pc = "load", !.msgs = ms] \in TaskStates
    BY <2>2, IdleType DEF TaskStates, PCs
  <2>4. task' \in [Tasks -> TaskStates]
    BY <2>1, <2>3, <1>0, BecomeType
  <2>5. sent' \subseteq Messages
    BY <2>1, <2>2 DEF TypeOK
  <2>. QED BY <2>4, <2>5, <1>5 DEF IngestTurn, TypeOK, lists, stores
<1>6. CASE RunFails(t)
  <2>1. task' \in [Tasks -> TaskStates] /\ faults' \in 0..MaxFaults
    BY <1>0, <1>6, EndType, OutcomeType DEF RunFails, TypeOK
  <2>2. failed' \subseteq Messages
    BY <1>0, <1>6, RangeIn DEF RunFails, TypeOK, k
  <2>. QED BY <2>1, <2>2, <1>6 DEF RunFails, TypeOK, lists, stores
<1>7. CASE LoadRecentFacts(t)
  <2>1. [task[t] EXCEPT !.pc = "extract", !.seen = recent] \in TaskStates
    BY <1>0 DEF TaskStates, PCs, k, TypeOK
  <2>2. task' \in [Tasks -> TaskStates]
    BY <2>1, <1>0, <1>7, BecomeType DEF LoadRecentFacts
  <2>. QED BY <2>2, <1>7 DEF LoadRecentFacts, TypeOK, lists, stores, history
<1>8. CASE ExtractFacts(t)
  <2>1. PICK raw \in Extractions(t) :
       IF raw = <<>> THEN RunEnds(t) /\ UNCHANGED meant
       ELSE /\ Become(t, [task[t] EXCEPT !.pc = "store", !.raw = raw])
            /\ meant' = [f \in Facts |->
                 IF \E i \in DOMAIN raw : raw[i].fact = f
                 THEN At(task[t].seen, raw[CHOOSE i \in DOMAIN raw : raw[i].fact = f].sup)
                 ELSE meant[f]]
            /\ UNCHANGED read
    BY <1>8 DEF ExtractFacts
  <2>2. raw \in Seq(Extracted)
    BY <1>0, ExtractionsLemma DEF k
  <2>3. CASE raw = <<>>
    <3>1. task' \in [Tasks -> TaskStates] /\ read' \subseteq Messages
      BY <2>1, <2>3, <1>0, EndType, RangeIn DEF RunEnds, TypeOK, k
    <3>. QED BY <3>1, <2>1, <2>3, <1>8 DEF ExtractFacts, TypeOK, lists, stores
  <2>4. CASE raw # <<>>
    <3>1. [task[t] EXCEPT !.pc = "store", !.raw = raw] \in TaskStates
      BY <1>0, <2>2 DEF TaskStates, PCs, k
    <3>2. task' \in [Tasks -> TaskStates]
      BY <3>1, <2>1, <2>4, <1>0, BecomeType
    <3>3. ASSUME NEW f \in Facts, \E i \in DOMAIN raw : raw[i].fact = f
          PROVE  At(k.seen, raw[CHOOSE i \in DOMAIN raw : raw[i].fact = f].sup)
                   \in Facts \cup {None}
      <4>. DEFINE j == CHOOSE i \in DOMAIN raw : raw[i].fact = f
      <4>1. j \in DOMAIN raw
        BY <3>3
      <4>. HIDE DEF j
      <4>2. raw[j] \in Extracted
        BY <4>1, <2>2
      <4>3. raw[j].sup \in Int
        BY <4>2 DEF Extracted
      <4>4. At(k.seen, raw[j].sup) \in Facts \cup {None}
        BY <4>3, <1>0, AtType
      <4>. QED BY <4>4 DEF j
    <3>4. \A f \in Facts : meant[f] \in Facts \cup {None}
      BY DEF TypeOK
    <3>5. meant' \in [Facts -> Facts \cup {None}]
      BY <3>3, <3>4, <2>1, <2>4 DEF k
    <3>. QED BY <3>2, <3>5, <2>1, <2>4, <1>8 DEF ExtractFacts, TypeOK, lists, stores
  <2>. QED BY <2>3, <2>4
<1>9. CASE StoreFact(t)
  <2>. DEFINE go == Advance(t, "store", "decay")
  <2>1. PICK out \in {"stored", "duplicate", "error"} :
       /\ Outcome(out # "error")
       /\ node' = IF out = "stored" THEN [node EXCEPT ![Current(t).fact] = "stored"]
                  ELSE node
       /\ Become(t, [task[t] EXCEPT !.pc = go.pc, !.at = go.at,
            !.stored = IF out = "stored" THEN Append(@, Current(t).fact) ELSE @])
    BY <1>9 DEF StoreFact
  <2>2. faults' \in 0..MaxFaults
    BY <2>1, OutcomeType DEF TypeOK
  <2>3. go.pc \in PCs /\ go.at \in Nat \ {0} /\ Current(t).fact \in Facts
    BY <1>9, AdvanceType, CurrentLemma DEF StoreFact, PCs
  <2>. HIDE DEF go
  <2>4. [task[t] EXCEPT !.pc = go.pc, !.at = go.at,
            !.stored = IF out = "stored" THEN Append(@, Current(t).fact) ELSE @] \in TaskStates
    <3>. DEFINE st == IF out = "stored" THEN Append(k.stored, Current(t).fact) ELSE k.stored
    <3>1. st \in Seq(Facts)
      BY <1>0, <2>3
    <3>. HIDE DEF st
    <3>2. [k EXCEPT !.pc = go.pc, !.at = go.at, !.stored = st] \in TaskStates
      BY <1>0, <2>3, <3>1 DEF TaskStates
    <3>. QED BY <3>2 DEF k, st
  <2>5. task' \in [Tasks -> TaskStates]
    BY <2>1, <2>4, <1>0, BecomeType
  <2>6. node' \in [Facts -> {"none", "stored", "deleted"}]
    BY <2>1, <2>3 DEF TypeOK
  <2>. QED BY <2>2, <2>5, <2>6, <1>9 DEF StoreFact, TypeOK, lists
<1>10. CASE DecaySuperseded(t)
  <2>. DEFINE go == Advance(t, "decay", "relate")
  <2>1. go.pc \in PCs /\ go.at \in Nat \ {0} /\ Current(t).fact \in Facts
        /\ OldFact(t) \in Facts \cup {None}
    BY <1>10, AdvanceType, CurrentLemma DEF DecaySuperseded, PCs
  <2>2. Become(t, [task[t] EXCEPT !.pc = go.pc, !.at = go.at])
    BY <1>10 DEF DecaySuperseded
  <2>. HIDE DEF go
  <2>3. [task[t] EXCEPT !.pc = go.pc, !.at = go.at] \in TaskStates
    BY <1>0, <2>1 DEF TaskStates, k
  <2>4. task' \in [Tasks -> TaskStates]
    BY <2>2, <2>3, <1>0, BecomeType
  <2>5. decayed' \subseteq Facts \X Facts
    BY <2>1, <1>10 DEF DecaySuperseded, Replaced, Decay, TypeOK
  <2>. QED BY <2>4, <2>5, <1>10 DEF DecaySuperseded, TypeOK, lists, history
<1>11. CASE Relate(t)
  <2>1. [task[t] EXCEPT !.pc = "remember"] \in TaskStates
    BY <1>0 DEF TaskStates, PCs, k
  <2>2. task' \in [Tasks -> TaskStates]
    BY <2>1, <1>0, <1>11, BecomeType DEF Relate
  <2>3. edges' \subseteq {"SUPERSEDES", "CONTRADICTS"} \X Facts \X Facts
    BY <1>11, EdgesType DEF Relate, TypeOK
  <2>. QED BY <2>2, <2>3, <1>11 DEF Relate, TypeOK, lists, history
<1>12. CASE UpdateRecentFacts(t)
  <2>1. [task[t] EXCEPT !.pc = "domains"] \in TaskStates
    BY <1>0 DEF TaskStates, PCs, k
  <2>2. task' \in [Tasks -> TaskStates]
    BY <2>1, <1>0, <1>12, BecomeType DEF UpdateRecentFacts
  <2>3. NewRecent(t) \in Seq(Facts)
    BY <1>0 DEF NewRecent, k
  <2>4. recent' \in Seq(Facts)
    BY <2>3, <1>12, WindowLemma DEF UpdateRecentFacts
  <2>. QED BY <2>2, <2>4, <1>12 DEF UpdateRecentFacts, TypeOK, stores, history
<1>13. CASE WriteDomains(t)
  <2>. DEFINE raw == task[t].raw
              all == [i \in DOMAIN raw |-> raw[Len(raw) + 1 - i]]
              ds  == Kept(all, {i \in DOMAIN all : all[i].decision})
              fs  == [i \in DOMAIN ds |-> ds[i].fact]
  <2>1. domains' = FirstOf(DomainsKept, fs \o domains)
    BY <1>13 DEF WriteDomains
  <2>2. all \in Seq(Extracted)
    <3>1. raw \in Seq(Extracted) /\ Len(raw) \in Nat /\ DOMAIN raw = 1..Len(raw)
      BY <1>0 DEF k
    <3>2. \A i \in 1..Len(raw) : raw[Len(raw) + 1 - i] \in Extracted
      BY <3>1
    <3>. HIDE DEF raw
    <3>. QED BY <3>1, <3>2
  <2>. HIDE DEF all
  <2>3. ds \in Seq(Extracted)
    BY <2>2, KeptLemma
  <2>. HIDE DEF ds
  <2>4. fs \in Seq(Facts)
    <3>1. \A i \in 1..Len(ds) : ds[i].fact \in Facts
      <4>1. \A i \in 1..Len(ds) : ds[i] \in Extracted
        BY <2>3
      <4>. QED BY <4>1 DEF Extracted
    <3>. QED BY <2>3, <3>1
  <2>. HIDE DEF fs
  <2>5. domains' \in Seq(Facts)
    <3>1. fs \o domains \in Seq(Facts) /\ DomainsKept \in Nat
      BY <2>4, ConstantsAssumption DEF TypeOK
    <3>. QED BY <2>1, <3>1, FirstOfType
  <2>6. task' \in [Tasks -> TaskStates] /\ read' \subseteq Messages
    BY <1>0, <1>13, EndType, RangeIn DEF WriteDomains, RunEnds, TypeOK, k
  <2>. QED BY <2>5, <2>6, <1>13 DEF WriteDomains, TypeOK, stores
<1>14. CASE Delete(t)
  <2>1. PICK f \in Facts : Become(t, [Idle EXCEPT !.pc = "scrub", !.fact = f])
    BY <1>14 DEF Delete
  <2>2. [Idle EXCEPT !.pc = "scrub", !.fact = f] \in TaskStates
    BY IdleType DEF TaskStates, PCs
  <2>3. task' \in [Tasks -> TaskStates]
    BY <2>1, <2>2, <1>0, BecomeType
  <2>. QED BY <2>3, <1>14 DEF Delete, TypeOK, lists, stores, history
<1>15. CASE Scrub(t)
  <2>. DEFINE f == task[t].fact
              I == {i \in DOMAIN recent : recent[i] # f}
  <2>1. PICK ok \in BOOLEAN :
       /\ Outcome(ok)
       /\ recent' = IF ok THEN Kept(recent, I) ELSE recent
       /\ racing' = IF ~ok \/ \E u \in Tasks : f \in Known(u)
                    THEN racing \cup {f} ELSE racing
    BY <1>15 DEF Scrub
  <2>2. faults' \in 0..MaxFaults
    BY <2>1, OutcomeType DEF TypeOK
  <2>3. f \in Facts
    BY <1>15 DEF Scrub, Progress
  <2>. HIDE DEF f, I
  <2>4. recent' \in Seq(Facts)
    BY <2>1, KeptLemma DEF TypeOK
  <2>5. racing' \subseteq Facts
    BY <2>1, <2>3 DEF TypeOK
  <2>6. [task[t] EXCEPT !.pc = "remove"] \in TaskStates
    BY <1>0 DEF TaskStates, PCs, k
  <2>7. task' \in [Tasks -> TaskStates]
    BY <2>6, <1>0, <1>15, BecomeType DEF Scrub
  <2>. QED BY <2>2, <2>4, <2>5, <2>7, <1>15 DEF Scrub, TypeOK, stores
<1>16. CASE Remove(t)
  <2>1. PICK ok \in BOOLEAN :
       /\ Outcome(ok)
       /\ IF ok THEN /\ node' = [node EXCEPT ![task[t].fact] = "deleted"]
                     /\ edges' = {e \in edges : task[t].fact \notin {e[2], e[3]}}
          ELSE UNCHANGED <<node, edges>>
    BY <1>16 DEF Remove
  <2>2. faults' \in 0..MaxFaults
    BY <2>1, OutcomeType DEF TypeOK
  <2>3. node' \in [Facts -> {"none", "stored", "deleted"}]
    BY <2>1 DEF TypeOK
  <2>4. edges' \subseteq edges
    BY <2>1
  <2>5. task' \in [Tasks -> TaskStates]
    BY <1>0, <1>16, EndType DEF Remove
  <2>. QED BY <2>2, <2>3, <2>4, <2>5, <1>16 DEF Remove, TypeOK, lists
<1>. QED BY <1>1, <1>2, <1>3, <1>4, <1>5, <1>6, <1>7, <1>8, <1>9, <1>10, <1>11, <1>12,
            <1>13, <1>14, <1>15, <1>16 DEF IngestStep

\* The two steps of the clock.
LEMMA ClockType ==
  ASSUME TypeOK, Tick \/ RecentExpires
  PROVE  TypeOK'
<1>1. CASE Tick
  <2>1. age' \in 0..(BufferTtl - 1) /\ buffer' \in Seq(Messages)
    <3>1. buffer \in Seq(Messages) /\ age \in 0..(BufferTtl - 1) /\ BufferTtl \in Nat \ {0}
      BY ConstantsAssumption DEF TypeOK
    <3>2. CASE age + 1 = BufferTtl
      BY <1>1, <3>1, <3>2 DEF Tick
    <3>3. CASE age + 1 # BufferTtl
      BY <1>1, <3>1, <3>3 DEF Tick
    <3>. QED BY <3>2, <3>3
  <2>2. expired' \subseteq Messages
    BY <1>1, RangeIn DEF Tick, TypeOK
  <2>. QED BY <2>1, <2>2, <1>1 DEF Tick, TypeOK, stores
<1>2. CASE RecentExpires
  BY <1>2 DEF RecentExpires, TypeOK, stores, history
<1>. QED BY <1>1, <1>2

------------------------------------------------------------------------------
(* Where the messages are.                                                 *)

LEMMA OthersStay ==
  ASSUME TypeOK, NEW t \in Tasks, IngestStep(t)
  PROVE  /\ \A u \in Tasks \ {t} : task'[u] = task[u]
         /\ DOMAIN task' = Tasks
<1>1. ASSUME NEW rec, Become(t, rec)
      PROVE  (\A u \in Tasks \ {t} : task'[u] = task[u]) /\ DOMAIN task' = Tasks
  BY <1>1 DEF Become, TypeOK
<1>2. \E rec : Become(t, rec)
  BY DEF IngestStep, AddMessages, MeasureBuffer, Flush, EndSession, IngestTurn, RunFails,
         LoadRecentFacts, ExtractFacts, StoreFact, DecaySuperseded, Relate,
         UpdateRecentFacts, WriteDomains, Delete, Scrub, Remove, RunEnds, End
<1>. QED BY <1>1, <1>2

\* The record that a step leaves in its task.
LEMMA BecomeThis ==
  ASSUME TypeOK, NEW t \in Tasks, NEW rec, Become(t, rec)
  PROVE  task'[t] = rec
  BY DEF Become, TypeOK

LEMMA IdleFields ==
  /\ Idle.pc = "idle" /\ Idle.msgs = <<>> /\ Idle.seen = <<>> /\ Idle.raw = <<>>
  /\ Idle.stored = <<>> /\ Idle.at = 1 /\ Idle.fact = None
  BY DEF Idle

\* A step of a run on its way moves no message.
LEMMA NothingMoves ==
  ASSUME TypeOK, Whereabouts, UNCHANGED <<buffer, sent, trimmed, expired, read, failed>>,
         \A u \in Tasks : task'[u].msgs = task[u].msgs
  PROVE  Whereabouts'
  BY DEF Whereabouts, Done

\* The messages of a run go with it.
LEMMA RunLeaves ==
  ASSUME TypeOK, Whereabouts, NEW t \in Tasks,
         UNCHANGED <<buffer, sent, trimmed, expired>>,
         task'[t].msgs = <<>>, \A u \in Tasks \ {t} : task'[u] = task[u],
         \/ read' = read \cup Range(task[t].msgs) /\ failed' = failed
         \/ failed' = failed \cup Range(task[t].msgs) /\ read' = read
  PROVE  Whereabouts'
<1>. DEFINE M == Range(task[t].msgs)
            Mine(u) == Range(task[u].msgs)
            Next_(u) == Range(task'[u].msgs)
<1>1. Next_(t) = {} /\ \A u \in Tasks \ {t} : Next_(u) = Mine(u)
  BY RangeOfEmpty
<1>2. /\ M \subseteq Messages /\ M \cap (Range(buffer) \cup Done) = {}
      /\ \A u \in Tasks \ {t} : M \cap Mine(u) = {}
  BY TaskFields, RangeIn DEF Whereabouts
<1>3. Done' = Done \cup M
  BY DEF Done
<1>4. /\ trimmed' \cap (expired' \cup read' \cup failed') = {}
      /\ expired' \cap (read' \cup failed') = {} /\ read' \cap failed' = {}
  BY <1>2 DEF Whereabouts, Done
<1>5. \A m \in Messages : m \in sent' <=>
       m \in Range(buffer') \cup Done' \/ \E u \in Tasks : m \in Next_(u)
  <2>. SUFFICES ASSUME NEW m \in Messages
                PROVE  m \in sent' <=> m \in Range(buffer') \cup Done' \/ \E u \in Tasks : m \in Next_(u)
    OBVIOUS
  <2>1. m \in sent <=> m \in Range(buffer) \cup Done \/ \E u \in Tasks : m \in Mine(u)
    BY DEF Whereabouts
  <2>2. (\E u \in Tasks : m \in Mine(u)) <=> m \in M \/ \E u \in Tasks : m \in Next_(u)
    BY <1>1
  <2>. QED BY <2>1, <2>2, <1>3
<1>6. Range(buffer') \cap Done' = {}
  BY <1>2, <1>3 DEF Whereabouts
<1>7. \A u \in Tasks : Next_(u) \cap (Range(buffer') \cup Done') = {}
  <2>1. \A u \in Tasks : Mine(u) \cap (Range(buffer) \cup Done) = {}
    BY DEF Whereabouts
  <2>. QED BY <2>1, <1>1, <1>2, <1>3
<1>8. \A u, v \in Tasks : u # v => Next_(u) \cap Next_(v) = {}
  <2>1. \A u, v \in Tasks : u # v => Mine(u) \cap Mine(v) = {}
    BY DEF Whereabouts
  <2>. QED BY <2>1, <1>1
<1>9. IsInjective(buffer')
  BY DEF Whereabouts
<1>. HIDE DEF Mine, Next_
<1>. QED BY <1>4, <1>5, <1>6, <1>7, <1>8, <1>9 DEF Whereabouts, Next_

\* New messages join the buffer; what does not fit any more is trimmed.
LEMMA MessagesJoin ==
  ASSUME TypeOK, Whereabouts, NEW t \in Tasks, Progress(t), AddMessages(t)
  PROVE  Whereabouts'
<1>1. PICK ms \in Requests, size \in BatchSizes :
        LET all == buffer \o ms
            kept == LastOf(MaxSize(size), all)
        IN /\ buffer'  = kept
           /\ sent'    = sent \cup Range(ms)
           /\ trimmed' = trimmed \cup (Range(all) \ Range(kept))
           /\ Become(t, [Idle EXCEPT !.pc = "llen", !.size = size])
  BY DEF AddMessages
<1>. DEFINE B == Range(buffer)
            R == Range(ms)
            K == Range(buffer')
            Mine(u) == Range(task[u].msgs)
<1>2. ms \in Seq(Messages) /\ R \subseteq Messages \ sent /\ IsInjective(ms)
  BY RequestsLemma
<1>3. buffer \in Seq(Messages) /\ IsInjective(buffer) /\ MaxSize(size) \in Nat
  BY MaxSizeType DEF TypeOK, Whereabouts
<1>4. B \subseteq Messages /\ B \subseteq sent /\ B \cap Done = {}
  BY <1>3, RangeIn DEF Whereabouts
<1>5. /\ buffer \o ms \in Seq(Messages) /\ Range(buffer \o ms) = B \cup R
      /\ IsInjective(buffer \o ms)
  BY <1>2, <1>3, <1>4, ConcatRange
<1>6. K \subseteq B \cup R /\ IsInjective(buffer')
  BY <1>1, <1>3, <1>5, LastOfLemma
<1>7. trimmed' = trimmed \cup ((B \cup R) \ K) /\ sent' = sent \cup R
      /\ UNCHANGED <<expired, read, failed>>
  BY <1>1, <1>5 DEF AddMessages
<1>8. \A u \in Tasks : task'[u].msgs = task[u].msgs
  <2>1. task'[t].msgs = <<>>
    BY <1>1, BecomeThis, IdleFields DEF Idle
  <2>2. task[t].msgs = <<>>
    BY DEF Progress, AddMessages, Begin
  <2>3. \A u \in Tasks \ {t} : task'[u] = task[u]
    BY OthersStay DEF IngestStep
  <2>. QED BY <2>1, <2>2, <2>3
<1>9. Done' = Done \cup ((B \cup R) \ K)
  BY <1>7 DEF Done
<1>10. /\ Done \subseteq sent /\ \A u \in Tasks : Mine(u) \subseteq sent
  BY TaskFields, RangeIn DEF Whereabouts, Done, TypeOK
<1>11. \A u \in Tasks : Range(task'[u].msgs) = Mine(u)
  BY <1>8
<1>. HIDE DEF B, R, K, Mine
<1>12. /\ trimmed' \cap (expired' \cup read' \cup failed') = {}
       /\ expired' \cap (read' \cup failed') = {} /\ read' \cap failed' = {}
  BY <1>2, <1>4, <1>7, <1>10 DEF Whereabouts, Done
<1>13. \A m \in Messages : m \in sent <=> m \in B \cup Done \/ \E u \in Tasks : m \in Mine(u)
  BY DEF Whereabouts, B, Mine
<1>14. \A m \in Messages : m \in sent' <=> m \in K \cup Done' \/ \E u \in Tasks : m \in Mine(u)
  BY <1>6, <1>7, <1>9, <1>13
<1>15. K \cap Done' = {}
  BY <1>2, <1>4, <1>6, <1>9, <1>10
<1>16. \A u \in Tasks : Mine(u) \cap (K \cup Done') = {}
  <2>1. \A u \in Tasks : Mine(u) \cap (B \cup Done) = {}
    BY DEF Whereabouts, B, Mine
  <2>. QED BY <2>1, <1>2, <1>6, <1>9, <1>10
<1>17. \A u, v \in Tasks : u # v => Mine(u) \cap Mine(v) = {}
  BY DEF Whereabouts, Mine
<1>. QED BY <1>6, <1>11, <1>12, <1>14, <1>15, <1>16, <1>17 DEF Whereabouts, K

\* The buffer becomes the messages of a run.
LEMMA BufferDrained ==
  ASSUME TypeOK, Whereabouts, NEW t \in Tasks, Progress(t), Flush(t)
  PROVE  Whereabouts'
<1>. DEFINE B == Range(buffer)
            Mine(u) == Range(task[u].msgs)
            Next_(u) == Range(task'[u].msgs)
<1>1. task[t].msgs = <<>>
  BY DEF Flush, Progress
<1>2. task'[t].msgs = buffer
  <2>1. CASE buffer = <<>>
    BY <2>1, BecomeThis, IdleFields DEF Flush, End
  <2>2. CASE buffer # <<>>
    <3>1. task'[t] = [task[t] EXCEPT !.pc = "load", !.msgs = buffer]
      BY <2>2, BecomeThis DEF Flush
    <3>. QED BY <3>1, TaskFields DEF TaskStates
  <2>. QED BY <2>1, <2>2
<1>3. \A u \in Tasks \ {t} : task'[u] = task[u]
  BY OthersStay DEF IngestStep
<1>4. Mine(t) = {} /\ Next_(t) = B /\ \A u \in Tasks \ {t} : Next_(u) = Mine(u)
  BY <1>1, <1>2, <1>3, RangeOfEmpty
<1>5. Range(buffer') = {} /\ IsInjective(buffer')
  BY RangeOfEmpty DEF Flush
<1>6. UNCHANGED <<sent, trimmed, expired, read, failed>> /\ Done' = Done
  BY DEF Flush, history, Done
<1>. HIDE DEF B, Mine, Next_
<1>7. \A m \in Messages : m \in sent <=> m \in B \cup Done \/ \E u \in Tasks : m \in Mine(u)
  BY DEF Whereabouts, B, Mine
<1>8. \A m \in Messages : m \in sent' <=> m \in Done' \/ \E u \in Tasks : m \in Next_(u)
  BY <1>4, <1>6, <1>7
<1>9. \A u \in Tasks : Next_(u) \cap Done' = {}
  <2>1. B \cap Done = {} /\ \A u \in Tasks : Mine(u) \cap Done = {}
    BY DEF Whereabouts, B, Mine
  <2>. QED BY <2>1, <1>4, <1>6
<1>10. \A u, v \in Tasks : u # v => Next_(u) \cap Next_(v) = {}
  <2>1. \A u, v \in Tasks : u # v => Mine(u) \cap Mine(v) = {}
    BY DEF Whereabouts, Mine
  <2>2. \A u \in Tasks : Mine(u) \cap B = {}
    BY DEF Whereabouts, B, Mine
  <2>. QED BY <2>1, <2>2, <1>4
<1>. QED BY <1>5, <1>6, <1>8, <1>9, <1>10 DEF Whereabouts, Next_

\* A run on the messages of a request.
LEMMA RunBegins ==
  ASSUME TypeOK, Whereabouts, NEW t \in Tasks, Progress(t), IngestTurn(t)
  PROVE  Whereabouts'
<1>1. PICK ms \in Requests : /\ sent' = sent \cup Range(ms)
                             /\ Become(t, [Idle EXCEPT !.pc = "load", !.msgs = ms])
  BY DEF IngestTurn
<1>. DEFINE R == Range(ms)
            Mine(u) == Range(task[u].msgs)
            Next_(u) == Range(task'[u].msgs)
<1>2. R \subseteq Messages \ sent
  BY RequestsLemma
<1>3. task[t].msgs = <<>>
  BY DEF Progress, IngestTurn, Begin
<1>4. task'[t].msgs = ms
  <2>1. task'[t] = [Idle EXCEPT !.pc = "load", !.msgs = ms]
    BY <1>1, BecomeThis
  <2>. QED BY <2>1 DEF Idle
<1>5. \A u \in Tasks \ {t} : task'[u] = task[u]
  BY OthersStay DEF IngestStep
<1>6. Mine(t) = {} /\ Next_(t) = R /\ \A u \in Tasks \ {t} : Next_(u) = Mine(u)
  BY <1>3, <1>4, <1>5, RangeOfEmpty
<1>7. UNCHANGED <<buffer, trimmed, expired, read, failed>> /\ Done' = Done
  BY DEF IngestTurn, lists, Done
<1>8. /\ Done \subseteq sent /\ Range(buffer) \subseteq sent
      /\ \A u \in Tasks : Mine(u) \subseteq sent
  BY TaskFields, RangeIn DEF Whereabouts, Done, TypeOK
<1>. HIDE DEF R, Mine, Next_
<1>9. \A m \in Messages : m \in sent <=>
        m \in Range(buffer) \cup Done \/ \E u \in Tasks : m \in Mine(u)
  BY DEF Whereabouts, Mine
<1>10. \A m \in Messages : m \in sent' <=>
         m \in Range(buffer') \cup Done' \/ \E u \in Tasks : m \in Next_(u)
  <2>1. sent' = sent \cup R
    BY <1>1 DEF R
  <2>. QED BY <2>1, <1>6, <1>7, <1>9
<1>11. \A u \in Tasks : Next_(u) \cap (Range(buffer') \cup Done') = {}
  <2>1. \A u \in Tasks : Mine(u) \cap (Range(buffer) \cup Done) = {}
    BY DEF Whereabouts, Mine
  <2>. QED BY <2>1, <1>2, <1>6, <1>7, <1>8
<1>12. \A u, v \in Tasks : u # v => Next_(u) \cap Next_(v) = {}
  <2>1. \A u, v \in Tasks : u # v => Mine(u) \cap Mine(v) = {}
    BY DEF Whereabouts, Mine
  <2>. QED BY <2>1, <1>2, <1>6, <1>8
<1>. QED BY <1>7, <1>10, <1>11, <1>12 DEF Whereabouts, Next_

\* The buffer expires.
LEMMA BufferExpires ==
  ASSUME TypeOK, Whereabouts, Tick
  PROVE  Whereabouts'
<1>. DEFINE B == Range(buffer)
<1>1. CASE age + 1 # BufferTtl
  BY <1>1, NothingMoves DEF Tick
<1>2. CASE age + 1 = BufferTtl
  <2>1. expired' = expired \cup B /\ Range(buffer') = {} /\ IsInjective(buffer')
    BY <1>2, RangeOfEmpty DEF Tick
  <2>2. UNCHANGED <<sent, trimmed, read, failed, task>>
    BY DEF Tick
  <2>3. Done' = Done \cup B
    BY <2>1, <2>2 DEF Done
  <2>4. B \cap Done = {} /\ \A u \in Tasks : Range(task[u].msgs) \cap B = {}
    BY DEF Whereabouts
  <2>. HIDE DEF B
  <2>5. /\ trimmed' \cap (expired' \cup read' \cup failed') = {}
        /\ expired' \cap (read' \cup failed') = {} /\ read' \cap failed' = {}
    BY <2>1, <2>2, <2>4 DEF Whereabouts, Done
  <2>6. \A m \in Messages : m \in sent' <=>
          m \in Range(buffer') \cup Done' \/ \E u \in Tasks : m \in Range(task'[u].msgs)
    BY <2>1, <2>2, <2>3 DEF Whereabouts, B
  <2>7. \A u \in Tasks : Range(task'[u].msgs) \cap (Range(buffer') \cup Done') = {}
    BY <2>1, <2>2, <2>3, <2>4 DEF Whereabouts
  <2>. QED BY <2>1, <2>2, <2>5, <2>6, <2>7 DEF Whereabouts
<1>. QED BY <1>1, <1>2

------------------------------------------------------------------------------
(* What a run has in its hands.                                            *)

\* A fact that was stored once is known to the store for good.
LEMMA NodeGrows ==
  ASSUME TypeOK, NEW t \in Tasks, Progress(t), IngestStep(t), NEW f \in Facts, node[f] # "none"
  PROVE  node'[f] # "none"
<1>1. CASE StoreFact(t)
  BY <1>1, CurrentLemma DEF StoreFact, TypeOK
<1>2. CASE Remove(t)
  BY <1>2 DEF Remove, TypeOK
<1>3. CASE ~ StoreFact(t) /\ ~ Remove(t)
  <2>1. node' = node
    BY <1>3 DEF IngestStep, AddMessages, MeasureBuffer, Flush, EndSession, IngestTurn,
            RunFails, LoadRecentFacts, ExtractFacts, DecaySuperseded, Relate,
            UpdateRecentFacts, WriteDomains, Delete, Scrub, stores
  <2>. QED BY <2>1
<1>. QED BY <1>1, <1>2, <1>3

\* What a known fact was meant to supersede stays.
LEMMA MeantStays ==
  ASSUME TypeOK, NEW t \in Tasks, IngestStep(t), NEW f \in Facts, f \notin FreshFacts
  PROVE  meant'[f] = meant[f]
<1>1. CASE ExtractFacts(t)
  <2>1. PICK raw \in Extractions(t) :
       IF raw = <<>> THEN UNCHANGED meant
       ELSE meant' = [g \in Facts |->
                 IF \E i \in DOMAIN raw : raw[i].fact = g
                 THEN At(task[t].seen, raw[CHOOSE i \in DOMAIN raw : raw[i].fact = g].sup)
                 ELSE meant[g]]
    BY <1>1 DEF ExtractFacts
  <2>2. \A i \in DOMAIN raw : raw[i].fact \in FreshFacts
    BY ExtractionsLemma, TaskFields
  <2>3. ~ \E i \in DOMAIN raw : raw[i].fact = f
    BY <2>2
  <2>. QED BY <2>1, <2>3
<1>2. CASE ~ ExtractFacts(t)
  <2>1. meant' = meant
    BY <1>2 DEF IngestStep, AddMessages, MeasureBuffer, Flush, EndSession, IngestTurn,
            RunFails, LoadRecentFacts, StoreFact, DecaySuperseded, Relate,
            UpdateRecentFacts, WriteDomains, Delete, Scrub, Remove, history
  <2>. QED BY <2>1
<1>. QED BY <1>1, <1>2

\* A run whose task a step leaves alone stays as it was.
LEMMA OtherRuns ==
  ASSUME TypeOK, NEW u \in Tasks, Progress(u), RunSound(u), task'[u] = task[u],
         \A f \in Facts : node[f] # "none" => node'[f] # "none",
         \A f \in Known(u) : meant'[f] = meant[f]
  PROVE  Progress(u)' /\ RunSound(u)'
<1>1. Progress(u)'
  BY DEF Progress
<1>2. /\ Range(task[u].seen) \subseteq Facts /\ Range(task[u].stored) \subseteq Facts
  BY TaskFields, RangeIn
<1>3. \A i \in DOMAIN task[u].raw : meant'[task[u].raw[i].fact] = meant[task[u].raw[i].fact]
  BY DEF Known
<1>4. RunSound(u)'
  BY <1>2, <1>3 DEF RunSound
<1>. QED BY <1>1, <1>4

\* Nothing is in the hands of a task that has ended, or only begun.
LEMMA EmptyHands ==
  ASSUME NEW t \in Tasks, task'[t].seen = <<>>, task'[t].raw = <<>>, task'[t].stored = <<>>
  PROVE  RunSound(t)'
<1>1. DOMAIN <<>> = {}
  OBVIOUS
<1>. QED BY <1>1, RangeOfEmpty DEF RunSound

LEMMA EndedRun ==
  ASSUME NEW t \in Tasks, task'[t] = Idle
  PROVE  Progress(t)' /\ RunSound(t)'
  BY IdleFields, EmptyHands DEF Progress

\* A step that changes nothing of a run but its pc.
LEMMA SamePlace ==
  ASSUME TypeOK, NEW t \in Tasks, RunSound(t), NEW pc \in PCs \ {"store"},
         task'[t] = [task[t] EXCEPT !.pc = pc], node' = node, meant' = meant
  PROVE  RunSound(t)'
<1>1. /\ task'[t].seen = task[t].seen /\ task'[t].raw = task[t].raw
      /\ task'[t].stored = task[t].stored /\ task'[t].pc # "store"
  BY TaskFields DEF TaskStates
<1>. QED BY <1>1 DEF RunSound

LEMMA OwnRun ==
  ASSUME TypeOK, NEW t \in Tasks, Progress(t), RunSound(t), RecentFactsStored,
         IngestStep(t)
  PROVE  Progress(t)' /\ RunSound(t)'
<1>. DEFINE k == task[t]
<1>0. /\ k \in TaskStates
      /\ k.pc \in PCs /\ k.seen \in Seq(Facts)
      /\ k.raw \in Seq(Extracted) /\ k.at \in Nat \ {0}
      /\ k.stored \in Seq(Facts) /\ k.fact \in Facts \cup {None}
  BY TaskFields
<1>. HIDE DEF k
<1>1. CASE AddMessages(t) \/ EndSession(t)
  <2>1. /\ AddMessages(t) => \E size \in BatchSizes :
             task'[t] = [Idle EXCEPT !.pc = "llen", !.size = size]
        /\ EndSession(t) => task'[t] = [Idle EXCEPT !.pc = "flush"]
    BY BecomeThis DEF AddMessages, EndSession
  <2>2. /\ task'[t].pc \in {"llen", "flush"} /\ task'[t].msgs = <<>> /\ task'[t].seen = <<>>
        /\ task'[t].raw = <<>> /\ task'[t].stored = <<>> /\ task'[t].at = 1
    BY <2>1, <1>1 DEF Idle
  <2>. QED BY <2>2, EmptyHands DEF Progress
<1>2. CASE MeasureBuffer(t)
  <2>1. CASE task'[t] = Idle
    BY <2>1, EndedRun
  <2>2. CASE task'[t] = [task[t] EXCEPT !.pc = "flush"]
    <3>1. Progress(t)'
      BY <1>0, <1>2, <2>2 DEF Progress, MeasureBuffer, TaskStates, k
    <3>2. UNCHANGED <<node, meant>>
      BY <1>2 DEF MeasureBuffer, stores, history
    <3>. QED BY <3>1, <3>2, <2>2, SamePlace DEF PCs
  <2>. QED BY <2>1, <2>2, <1>2, BecomeThis DEF MeasureBuffer, End
<1>3. CASE Flush(t)
  <2>1. CASE buffer = <<>>
    BY <2>1, <1>3, BecomeThis, EndedRun DEF Flush, End
  <2>2. CASE buffer # <<>>
    <3>1. task'[t] = [task[t] EXCEPT !.pc = "load", !.msgs = buffer]
      BY <2>2, <1>3, BecomeThis DEF Flush
    <3>2. /\ task'[t].pc = "load" /\ task'[t].seen = <<>> /\ task'[t].raw = <<>>
          /\ task'[t].stored = <<>> /\ task'[t].at = 1
      BY <3>1, <1>0, <1>3 DEF Progress, Flush, TaskStates, k
    <3>. QED BY <3>2, EmptyHands DEF Progress
  <2>. QED BY <2>1, <2>2
<1>5. CASE IngestTurn(t)
  <2>1. PICK ms \in Requests : task'[t] = [Idle EXCEPT !.pc = "load", !.msgs = ms]
    BY <1>5, BecomeThis DEF IngestTurn
  <2>2. /\ task'[t].pc = "load" /\ task'[t].seen = <<>> /\ task'[t].raw = <<>>
        /\ task'[t].stored = <<>> /\ task'[t].at = 1
    BY <2>1 DEF Idle
  <2>. QED BY <2>2, EmptyHands DEF Progress
<1>6. CASE RunFails(t) \/ WriteDomains(t) \/ Remove(t)
  <2>1. task'[t] = Idle
    BY <1>6, BecomeThis DEF RunFails, WriteDomains, Remove, RunEnds, End
  <2>. QED BY <2>1, EndedRun
<1>7. CASE LoadRecentFacts(t)
  <2>1. task'[t] = [task[t] EXCEPT !.pc = "extract", !.seen = recent]
    BY <1>7, BecomeThis DEF LoadRecentFacts
  <2>2. /\ task'[t].pc = "extract" /\ task'[t].seen = recent /\ task'[t].raw = <<>>
        /\ task'[t].stored = <<>> /\ task'[t].at = 1
    BY <2>1, <1>0, <1>7 DEF Progress, LoadRecentFacts, TaskStates, k
  <2>3. node' = node
    BY <1>7 DEF LoadRecentFacts, stores
  <2>4. Range(<<>>) = {} /\ IsInjective(<<>>) /\ DOMAIN <<>> = {}
    BY RangeOfEmpty
  <2>5. RunSound(t)'
    BY <2>2, <2>3, <2>4 DEF RunSound, RecentFactsStored
  <2>. QED BY <2>2, <2>5 DEF Progress
<1>8. CASE ExtractFacts(t)
  <2>1. PICK raw \in Extractions(t) :
       IF raw = <<>> THEN RunEnds(t)
       ELSE /\ Become(t, [task[t] EXCEPT !.pc = "store", !.raw = raw])
            /\ meant' = [f \in Facts |->
                 IF \E i \in DOMAIN raw : raw[i].fact = f
                 THEN At(task[t].seen, raw[CHOOSE i \in DOMAIN raw : raw[i].fact = f].sup)
                 ELSE meant[f]]
    BY <1>8 DEF ExtractFacts
  <2>2. CASE raw = <<>>
    BY <2>1, <2>2, BecomeThis, EndedRun DEF RunEnds, End
  <2>3. CASE raw # <<>>
    <3>1. /\ raw \in Seq(Extracted)
          /\ \A i \in DOMAIN raw : raw[i].fact \in FreshFacts
          /\ \A i, j \in DOMAIN raw : raw[i].fact = raw[j].fact => i = j
      BY <1>0, ExtractionsLemma DEF k
    <3>2. task'[t] = [task[t] EXCEPT !.pc = "store", !.raw = raw]
      BY <2>1, <2>3, BecomeThis
    <3>3. /\ task'[t].pc = "store" /\ task'[t].raw = raw /\ task'[t].seen = k.seen
          /\ task'[t].stored = <<>> /\ task'[t].at = 1
      BY <3>2, <1>0, <1>8 DEF Progress, ExtractFacts, TaskStates, k
    <3>4. node' = node
      BY <1>8 DEF ExtractFacts, stores
    <3>5. Range(<<>>) = {} /\ IsInjective(<<>>)
      BY RangeOfEmpty
    <3>6. \A i \in DOMAIN raw : meant'[raw[i].fact] = At(k.seen, raw[i].sup)
      <4>. SUFFICES ASSUME NEW i \in DOMAIN raw
                    PROVE  meant'[raw[i].fact] = At(k.seen, raw[i].sup)
        OBVIOUS
      <4>. DEFINE j == CHOOSE j \in DOMAIN raw : raw[j].fact = raw[i].fact
      <4>1. j \in DOMAIN raw /\ raw[j].fact = raw[i].fact
        OBVIOUS
      <4>2. j = i
        BY <4>1, <3>1
      <4>3. raw[i].fact \in Facts
        BY <3>1 DEF FreshFacts
      <4>4. meant'[raw[i].fact] = At(k.seen, raw[j].sup)
        BY <2>1, <2>3, <4>3 DEF k
      <4>. QED BY <4>2, <4>4
    <3>7. \A i \in DOMAIN raw : raw[i].fact \notin Range(k.seen)
      BY <3>1 DEF FreshFacts, Known, k
    <3>8. /\ IsInjective(k.seen) /\ \A f \in Range(k.seen) : node[f] # "none"
      BY DEF RunSound, k
    <3>9. RunSound(t)'
      BY <3>1, <3>3, <3>4, <3>5, <3>6, <3>7, <3>8 DEF RunSound
    <3>10. 1 \in DOMAIN raw
      BY <3>1, <2>3
    <3>. QED BY <3>3, <3>9, <3>10 DEF Progress
  <2>. QED BY <2>2, <2>3
<1>9. CASE StoreFact(t)
  <2>. DEFINE go == Advance(t, "store", "decay")
  <2>1. PICK out \in {"stored", "duplicate", "error"} :
       /\ node' = IF out = "stored" THEN [node EXCEPT ![Current(t).fact] = "stored"]
                  ELSE node
       /\ Become(t, [task[t] EXCEPT !.pc = go.pc, !.at = go.at,
            !.stored = IF out = "stored" THEN Append(@, Current(t).fact) ELSE @])
    BY <1>9 DEF StoreFact
  <2>. DEFINE c == Current(t).fact
              st == IF out = "stored" THEN Append(k.stored, c) ELSE k.stored
  <2>2. task'[t] = [k EXCEPT !.pc = go.pc, !.at = go.at, !.stored = st]
    BY <2>1, BecomeThis DEF k
  <2>3. /\ k.at \in DOMAIN k.raw /\ c = k.raw[k.at].fact /\ c \in Facts /\ k.pc = "store"
    BY <1>9, CurrentLemma DEF StoreFact, k
  <2>4. \/ go.pc = "store" /\ k.at < Len(k.raw) /\ go.at = k.at + 1
        \/ go.pc = "decay" /\ go.at = 1
    BY DEF Advance, k
  <2>. HIDE DEF go, st, c
  <2>5. /\ task'[t].pc = go.pc /\ task'[t].at = go.at /\ task'[t].stored = st
        /\ task'[t].raw = k.raw /\ task'[t].seen = k.seen
    BY <2>2, <1>0 DEF TaskStates
  <2>6. go.at \in DOMAIN k.raw
    BY <1>0, <2>3, <2>4
  <2>7. Progress(t)'
    BY <2>4, <2>5, <2>6 DEF Progress
  <2>8. /\ \A i, j \in DOMAIN k.raw : k.raw[i].fact = k.raw[j].fact => i = j
        /\ IsInjective(k.stored)
        /\ \A f \in Range(k.stored) : \E i \in DOMAIN k.raw : k.raw[i].fact = f /\ i < k.at
    BY <2>3 DEF RunSound, k
  <2>9. c \notin Range(k.stored)
    BY <2>3, <2>8, <1>0
  <2>10. /\ IsInjective(st)
         /\ Range(st) \subseteq Range(k.stored) \cup (IF out = "stored" THEN {c} ELSE {})
    BY <1>0, <2>3, <2>8, <2>9, AppendRange DEF st
  <2>11. \A f \in Facts : node[f] # "none" => node'[f] # "none"
    BY NodeGrows
  <2>12. out = "stored" => node'[c] # "none"
    BY <2>1, <2>3 DEF TypeOK, c
  <2>13. Range(k.stored) \subseteq Facts /\ Range(k.seen) \subseteq Facts
    BY <1>0, RangeIn
  <2>14. \A f \in Range(st) :
           /\ node'[f] # "none"
           /\ \E i \in DOMAIN k.raw : k.raw[i].fact = f /\ (go.pc = "store" => i < go.at)
    <3>. SUFFICES ASSUME NEW f \in Range(st)
                  PROVE  /\ node'[f] # "none"
                         /\ \E i \in DOMAIN k.raw : k.raw[i].fact = f /\ (go.pc = "store" => i < go.at)
      OBVIOUS
    <3>1. CASE f \in Range(k.stored)
      <4>1. node'[f] # "none"
        BY <3>1, <2>11, <2>13 DEF RunSound, k
      <4>2. PICK i \in DOMAIN k.raw : k.raw[i].fact = f /\ i < k.at
        BY <3>1, <2>8
      <4>3. go.pc = "store" => i < go.at
        BY <4>2, <2>4, <1>0
      <4>. QED BY <4>1, <4>2, <4>3
    <3>2. CASE f = c /\ out = "stored"
      <4>1. go.pc = "store" => k.at < go.at
        BY <2>4, <1>0
      <4>. QED BY <3>2, <2>3, <2>12, <4>1
    <3>. QED BY <3>1, <3>2, <2>10
  <2>15. meant' = meant
    BY <1>9 DEF StoreFact
  <2>16. /\ IsInjective(k.seen) /\ \A f \in Range(k.seen) : node'[f] # "none"
         /\ \A i \in DOMAIN k.raw : /\ k.raw[i].fact \notin Range(k.seen)
                                    /\ meant'[k.raw[i].fact] = At(k.seen, k.raw[i].sup)
    BY <2>11, <2>13, <2>15 DEF RunSound, k
  <2>17. RunSound(t)'
    BY <2>5, <2>8, <2>10, <2>14, <2>16 DEF RunSound
  <2>. QED BY <2>7, <2>17
<1>10. CASE DecaySuperseded(t)
  <2>. DEFINE go == Advance(t, "decay", "relate")
  <2>1. task'[t] = [k EXCEPT !.pc = go.pc, !.at = go.at]
    BY <1>10, BecomeThis DEF DecaySuperseded, k
  <2>2. \/ go.pc = "decay" /\ k.at < Len(k.raw) /\ go.at = k.at + 1
        \/ go.pc = "relate" /\ go.at = 1
    BY DEF Advance, k
  <2>. HIDE DEF go
  <2>3. /\ task'[t].pc = go.pc /\ task'[t].at = go.at /\ task'[t].stored = k.stored
        /\ task'[t].raw = k.raw /\ task'[t].seen = k.seen
    BY <2>1, <1>0 DEF TaskStates
  <2>4. UNCHANGED <<node, meant>>
    BY <1>10 DEF DecaySuperseded, history
  <2>5. Progress(t)'
    BY <1>0, <2>2, <2>3 DEF Progress
  <2>6. RunSound(t)'
    BY <2>2, <2>3, <2>4 DEF RunSound, k
  <2>. QED BY <2>5, <2>6
<1>11. CASE Relate(t) \/ UpdateRecentFacts(t)
  <2>1. \E pc \in {"remember", "domains"} : task'[t] = [task[t] EXCEPT !.pc = pc]
    BY <1>11, BecomeThis DEF Relate, UpdateRecentFacts
  <2>2. UNCHANGED <<node, meant>>
    BY <1>11 DEF Relate, UpdateRecentFacts, stores, history
  <2>3. RunSound(t)'
    BY <2>1, <2>2, SamePlace DEF PCs
  <2>4. task'[t].pc \in {"remember", "domains"}
    BY <2>1, <1>0 DEF TaskStates, k
  <2>. QED BY <2>3, <2>4 DEF Progress
<1>14. CASE Delete(t)
  <2>1. PICK f \in Facts : /\ node[f] = "stored"
                           /\ Become(t, [Idle EXCEPT !.pc = "scrub", !.fact = f])
    BY <1>14 DEF Delete
  <2>2. task'[t] = [Idle EXCEPT !.pc = "scrub", !.fact = f]
    BY <2>1, BecomeThis
  <2>3. /\ task'[t].pc = "scrub" /\ task'[t].msgs = <<>> /\ task'[t].seen = <<>>
        /\ task'[t].raw = <<>> /\ task'[t].stored = <<>> /\ task'[t].at = 1
        /\ task'[t].fact = f
    BY <2>2 DEF Idle
  <2>4. node' = node
    BY <1>14 DEF Delete, stores
  <2>. QED BY <2>1, <2>3, <2>4, EmptyHands DEF Progress
<1>15. CASE Scrub(t)
  <2>1. task'[t] = [task[t] EXCEPT !.pc = "remove"]
    BY <1>15, BecomeThis DEF Scrub
  <2>2. UNCHANGED <<node, meant>>
    BY <1>15 DEF Scrub, stores
  <2>3. RunSound(t)'
    BY <2>1, <2>2, SamePlace DEF PCs
  <2>4. Progress(t)'
    BY <1>0, <1>15, <2>1, <2>2 DEF Progress, Scrub, TaskStates, k
  <2>. QED BY <2>3, <2>4
<1>. QED BY <1>1, <1>2, <1>3, <1>5, <1>6, <1>7, <1>8, <1>9, <1>10, <1>11, <1>14, <1>15
         DEF IngestStep

------------------------------------------------------------------------------
(* The list of recent facts, and decay.                                    *)

LEMMA KnownIn ==
  ASSUME TypeOK, NEW t \in Tasks, RunSound(t)
  PROVE  /\ Known(t) \subseteq Facts
         /\ Range(task[t].seen) \subseteq Known(t) /\ Range(task[t].stored) \subseteq Known(t)
<1>1. Known(t) \subseteq Facts
  BY TaskFields, RangeIn DEF Known
<1>. QED BY <1>1 DEF Known, RunSound

\* What a run writes back: facts it knows, each once, all stored.
LEMMA NewRecentLemma ==
  ASSUME TypeOK, NEW t \in Tasks, RunSound(t)
  PROVE  /\ NewRecent(t) \in Seq(Facts) /\ IsInjective(NewRecent(t))
         /\ Range(NewRecent(t)) \subseteq Known(t)
         /\ \A f \in Range(NewRecent(t)) : node[f] # "none"
<1>1. task[t].seen \in Seq(Facts) /\ task[t].stored \in Seq(Facts)
  BY TaskFields
<1>2. Range(task[t].seen) \cap Range(task[t].stored) = {}
  BY DEF RunSound
<1>3. /\ IsInjective(NewRecent(t))
      /\ Range(NewRecent(t)) = Range(task[t].seen) \cup Range(task[t].stored)
  BY <1>1, <1>2, ConcatRange DEF NewRecent, RunSound
<1>. QED BY <1>1, <1>3, KnownIn DEF NewRecent, RunSound

LEMMA RecentStep ==
  ASSUME TypeOK, NEW t \in Tasks, Progress(t), RunSound(t), RecentFactsStored,
         RecentMax > 0 => Len(recent) <= RecentMax, IngestStep(t)
  PROVE  /\ RecentFactsStored'
         /\ RecentMax > 0 => Len(recent') <= RecentMax
         /\ UpdateRecentFacts(t) \/ Range(recent') \subseteq Range(recent)
<1>0. /\ \A f \in Facts : node[f] # "none" => node'[f] # "none"
      /\ Range(recent) \subseteq Facts
  BY NodeGrows, RangeIn DEF TypeOK
<1>1. CASE UpdateRecentFacts(t)
  <2>1. recent' = Window(NewRecent(t)) /\ node' = node
    BY <1>1 DEF UpdateRecentFacts, stores
  <2>2. /\ Range(recent') \subseteq Range(NewRecent(t)) /\ IsInjective(recent')
        /\ RecentMax > 0 => Len(recent') <= RecentMax
    BY <2>1, NewRecentLemma, WindowLemma
  <2>. QED BY <1>1, <2>1, <2>2, NewRecentLemma DEF RecentFactsStored
<1>2. CASE Scrub(t)
  <2>. DEFINE I == {i \in DOMAIN recent : recent[i] # task[t].fact}
  <2>1. (recent' = Kept(recent, I) \/ recent' = recent) /\ node' = node
    BY <1>2 DEF Scrub, stores
  <2>2. recent \in Seq(Facts) /\ Len(recent) \in Nat
    BY DEF TypeOK
  <2>. HIDE DEF I
  <2>3. /\ Len(Kept(recent, I)) <= Len(recent) /\ Len(Kept(recent, I)) \in Nat
        /\ IsInjective(recent) => IsInjective(Kept(recent, I))
        /\ Range(Kept(recent, I)) \subseteq Range(recent)
    <3>1. /\ Kept(recent, I) \in Seq(Facts) /\ Len(Kept(recent, I)) <= Len(recent)
          /\ Range(Kept(recent, I)) = {recent[i] : i \in DOMAIN recent \cap I}
          /\ IsInjective(recent) => IsInjective(Kept(recent, I))
      BY <2>2, KeptLemma
    <3>2. Range(Kept(recent, I)) \subseteq Range(recent)
      BY <3>1 DEF Range
    <3>. QED BY <3>1, <3>2
  <2>4. RecentMax > 0 => Len(recent') <= RecentMax
    BY <2>1, <2>2, <2>3, ConstantsAssumption
  <2>. QED BY <2>1, <2>3, <2>4 DEF RecentFactsStored
<1>3. CASE ~ UpdateRecentFacts(t) /\ ~ Scrub(t)
  <2>1. recent' = recent
    BY <1>3 DEF IngestStep, AddMessages, MeasureBuffer, Flush, EndSession, IngestTurn,
            RunFails, LoadRecentFacts, ExtractFacts, StoreFact, DecaySuperseded, Relate,
            WriteDomains, Delete, Remove, lists
  <2>. QED BY <2>1, <1>0 DEF RecentFactsStored
<1>. QED BY <1>1, <1>2, <1>3

LEMMA DecayStep ==
  ASSUME TypeOK, NEW t \in Tasks, Progress(t), RunSound(t), DecayHitsWhatWasShown,
         IngestStep(t)
  PROVE  DecayHitsWhatWasShown'
<1>1. ASSUME NEW d \in decayed
      PROVE  meant'[d[1]] = d[2] /\ node'[d[1]] # "none"
  <2>1. d[1] \in Facts /\ meant[d[1]] = d[2] /\ node[d[1]] # "none"
    BY DEF TypeOK, DecayHitsWhatWasShown
  <2>2. d[1] \notin FreshFacts
    BY <2>1 DEF FreshFacts
  <2>. QED BY <2>1, <2>2, NodeGrows, MeantStays
<1>2. CASE DecaySuperseded(t)
  <2>1. decayed' = decayed \cup (IF Replaced(t) THEN Decay(OldFact(t), Current(t).fact) ELSE {})
        /\ UNCHANGED <<node, meant>>
    BY <1>2 DEF DecaySuperseded, history
  <2>2. ASSUME NEW d \in decayed' \ decayed
        PROVE  meant'[d[1]] = d[2] /\ node'[d[1]] # "none"
    <3>1. Replaced(t) /\ d = <<Current(t).fact, OldFact(t)>>
      BY <2>1, <2>2 DEF Decay
    <3>2. Current(t) = task[t].raw[task[t].at] /\ task[t].at \in DOMAIN task[t].raw
      BY <1>2, CurrentLemma DEF DecaySuperseded
    <3>3. meant[Current(t).fact] = OldFact(t)
      BY <3>2 DEF RunSound, OldFact
    <3>4. node[Current(t).fact] # "none"
      BY <3>1 DEF Replaced, RunSound
    <3>. QED BY <3>1, <3>3, <3>4, <2>1
  <2>. QED BY <1>1, <2>2 DEF DecayHitsWhatWasShown
<1>3. CASE ~ DecaySuperseded(t)
  <2>1. decayed' = decayed
    BY <1>3 DEF IngestStep, AddMessages, MeasureBuffer, Flush, EndSession, IngestTurn,
            RunFails, LoadRecentFacts, ExtractFacts, StoreFact, Relate,
            UpdateRecentFacts, WriteDomains, Delete, Scrub, Remove, stores
  <2>. QED BY <1>1, <2>1 DEF DecayHitsWhatWasShown
<1>. QED BY <1>2, <1>3

\* A run comes to know a fact from the list, or a fresh one from the LLM.
LEMMA KnownStep ==
  ASSUME TypeOK, NEW t \in Tasks, Progress(t), RunSound(t), IngestStep(t)
  PROVE  Known(t)' \subseteq Known(t) \cup Range(recent) \cup FreshFacts
<1>. DEFINE k == task[t]
<1>0. k \in TaskStates /\ k.seen \in Seq(Facts) /\ k.raw \in Seq(Extracted)
  BY TaskFields
<1>1. DOMAIN <<>> = {} /\ Range(<<>>) = {}
  BY RangeOfEmpty
<1>. HIDE DEF k
<1>2. ASSUME task'[t].raw = <<>>, task'[t].seen = <<>>
      PROVE  Known(t)' = {}
  BY <1>1, <1>2 DEF Known
<1>3. ASSUME task'[t].raw = k.raw, task'[t].seen = k.seen
      PROVE  Known(t)' = Known(t)
  BY <1>3 DEF Known, k
<1>4. CASE AddMessages(t) \/ EndSession(t) \/ IngestTurn(t) \/ Delete(t)
  <2>1. /\ AddMessages(t) => \E size \in BatchSizes :
             task'[t] = [Idle EXCEPT !.pc = "llen", !.size = size]
        /\ EndSession(t) => task'[t] = [Idle EXCEPT !.pc = "flush"]
        /\ IngestTurn(t) => \E ms \in Requests :
             task'[t] = [Idle EXCEPT !.pc = "load", !.msgs = ms]
        /\ Delete(t) => \E f \in Facts : task'[t] = [Idle EXCEPT !.pc = "scrub", !.fact = f]
    BY BecomeThis DEF AddMessages, EndSession, IngestTurn, Delete
  <2>2. task'[t].raw = <<>> /\ task'[t].seen = <<>>
    BY <1>4, <2>1 DEF Idle
  <2>. QED BY <1>2, <2>2
<1>5. CASE task'[t] = Idle
  BY <1>2, <1>5, IdleFields
<1>6. CASE MeasureBuffer(t) \/ Flush(t) \/ StoreFact(t) \/ DecaySuperseded(t) \/ Relate(t)
           \/ UpdateRecentFacts(t) \/ Scrub(t)
  <2>1. CASE MeasureBuffer(t)
    <3>1. task'[t] = Idle \/ task'[t] = [k EXCEPT !.pc = "flush"]
      BY <2>1, BecomeThis DEF MeasureBuffer, End, k
    <3>. QED BY <3>1, <1>0, <1>3, <1>5 DEF TaskStates
  <2>2. CASE Flush(t)
    <3>1. task'[t] = Idle \/ task'[t] = [k EXCEPT !.pc = "load", !.msgs = buffer]
      BY <2>2, BecomeThis DEF Flush, End, k
    <3>. QED BY <3>1, <1>0, <1>3, <1>5 DEF TaskStates
  <2>3. CASE StoreFact(t)
    <3>. DEFINE go == Advance(t, "store", "decay")
    <3>1. PICK st : task'[t] = [k EXCEPT !.pc = go.pc, !.at = go.at, !.stored = st]
      BY <2>3, BecomeThis DEF StoreFact, k
    <3>. HIDE DEF go
    <3>. QED BY <3>1, <1>0, <1>3 DEF TaskStates
  <2>4. CASE DecaySuperseded(t)
    <3>1. PICK pc, at : task'[t] = [k EXCEPT !.pc = pc, !.at = at]
      BY <2>4, BecomeThis DEF DecaySuperseded, k
    <3>. QED BY <3>1, <1>0, <1>3 DEF TaskStates
  <2>5. CASE Relate(t) \/ UpdateRecentFacts(t) \/ Scrub(t)
    <3>1. \E pc \in PCs : task'[t] = [k EXCEPT !.pc = pc]
      BY <2>5, BecomeThis DEF Relate, UpdateRecentFacts, Scrub, k, PCs
    <3>. QED BY <3>1, <1>0, <1>3 DEF TaskStates
  <2>. QED BY <1>6, <2>1, <2>2, <2>3, <2>4, <2>5
<1>7. CASE LoadRecentFacts(t)
  <2>1. task'[t] = [k EXCEPT !.pc = "extract", !.seen = recent]
    BY <1>7, BecomeThis DEF LoadRecentFacts, k
  <2>2. task'[t].raw = <<>> /\ task'[t].seen = recent
    BY <2>1, <1>0, <1>7 DEF TaskStates, Progress, LoadRecentFacts, k
  <2>. QED BY <2>2, <1>1 DEF Known
<1>8. CASE ExtractFacts(t)
  <2>1. PICK raw \in Extractions(t) :
       IF raw = <<>> THEN RunEnds(t)
       ELSE Become(t, [task[t] EXCEPT !.pc = "store", !.raw = raw])
    BY <1>8 DEF ExtractFacts
  <2>2. CASE raw = <<>>
    BY <2>1, <2>2, <1>5, BecomeThis DEF RunEnds, End
  <2>3. CASE raw # <<>>
    <3>1. task'[t] = [k EXCEPT !.pc = "store", !.raw = raw]
      BY <2>1, <2>3, BecomeThis DEF k
    <3>2. task'[t].raw = raw /\ task'[t].seen = k.seen
      BY <3>1, <1>0 DEF TaskStates
    <3>3. \A i \in DOMAIN raw : raw[i].fact \in FreshFacts
      BY <1>0, ExtractionsLemma DEF k
    <3>. QED BY <3>2, <3>3 DEF Known, k
  <2>. QED BY <2>2, <2>3
<1>9. CASE RunFails(t) \/ WriteDomains(t) \/ Remove(t)
  BY <1>5, <1>9, BecomeThis DEF RunFails, WriteDomains, Remove, RunEnds, End
<1>. QED BY <1>4, <1>6, <1>7, <1>8, <1>9 DEF IngestStep

LEMMA OnlyScrubLeadsToRemove ==
  ASSUME TypeOK, NEW t \in Tasks, IngestStep(t), task'[t].pc = "remove"
  PROVE  Scrub(t)
<1>. DEFINE k == task[t]
<1>0. k \in TaskStates
  BY TaskFields
<1>. HIDE DEF k
<1>1. CASE AddMessages(t) \/ EndSession(t) \/ IngestTurn(t) \/ Delete(t)
  <2>1. /\ AddMessages(t) => \E size \in BatchSizes :
             task'[t] = [Idle EXCEPT !.pc = "llen", !.size = size]
        /\ EndSession(t) => task'[t] = [Idle EXCEPT !.pc = "flush"]
        /\ IngestTurn(t) => \E ms \in Requests :
             task'[t] = [Idle EXCEPT !.pc = "load", !.msgs = ms]
        /\ Delete(t) => \E f \in Facts : task'[t] = [Idle EXCEPT !.pc = "scrub", !.fact = f]
    BY BecomeThis DEF AddMessages, EndSession, IngestTurn, Delete
  <2>. QED BY <1>1, <2>1 DEF Idle
<1>2. CASE RunFails(t) \/ WriteDomains(t) \/ Remove(t)
  <2>1. task'[t] = Idle
    BY <1>2, BecomeThis DEF RunFails, WriteDomains, Remove, RunEnds, End
  <2>. QED BY <2>1, IdleFields
<1>3. CASE MeasureBuffer(t)
  <2>1. task'[t] = Idle \/ task'[t] = [k EXCEPT !.pc = "flush"]
    BY <1>3, BecomeThis DEF MeasureBuffer, End, k
  <2>. QED BY <2>1, <1>0, IdleFields DEF TaskStates
<1>4. CASE Flush(t)
  <2>1. task'[t] = Idle \/ task'[t] = [k EXCEPT !.pc = "load", !.msgs = buffer]
    BY <1>4, BecomeThis DEF Flush, End, k
  <2>. QED BY <2>1, <1>0, IdleFields DEF TaskStates
<1>5. CASE StoreFact(t)
  <2>1. \E pc \in {"store", "decay"} : \E at, stored :
          task'[t] = [k EXCEPT !.pc = pc, !.at = at, !.stored = stored]
    BY <1>5, BecomeThis DEF StoreFact, Advance, k
  <2>. QED BY <2>1, <1>0 DEF TaskStates
<1>6. CASE DecaySuperseded(t)
  <2>1. \E pc \in {"decay", "relate"} : \E at : task'[t] = [k EXCEPT !.pc = pc, !.at = at]
    BY <1>6, BecomeThis DEF DecaySuperseded, Advance, k
  <2>. QED BY <2>1, <1>0 DEF TaskStates
<1>7. CASE Relate(t) \/ UpdateRecentFacts(t)
  <2>1. \E pc \in {"remember", "domains"} : task'[t] = [k EXCEPT !.pc = pc]
    BY <1>7, BecomeThis DEF Relate, UpdateRecentFacts, k
  <2>. QED BY <2>1, <1>0 DEF TaskStates
<1>8. CASE LoadRecentFacts(t)
  <2>1. task'[t] = [k EXCEPT !.pc = "extract", !.seen = recent]
    BY <1>8, BecomeThis DEF LoadRecentFacts, k
  <2>. QED BY <2>1, <1>0 DEF TaskStates
<1>9. CASE ExtractFacts(t)
  <2>1. task'[t] = Idle \/ \E raw : task'[t] = [k EXCEPT !.pc = "store", !.raw = raw]
    BY <1>9, BecomeThis DEF ExtractFacts, RunEnds, End, k
  <2>. QED BY <2>1, <1>0, IdleFields DEF TaskStates
<1>. QED BY <1>1, <1>2, <1>3, <1>4, <1>5, <1>6, <1>7, <1>8, <1>9 DEF IngestStep

\* The scrub takes the fact out of the list, unless it fails.
LEMMA ScrubRemoves ==
  ASSUME TypeOK, NEW t \in Tasks, Scrub(t)
  PROVE  /\ racing \subseteq racing' /\ node' = node
         /\ \/ task[t].fact \in racing'
            \/ /\ task[t].fact \notin Range(recent')
               /\ \A u \in Tasks : task[t].fact \notin Known(u)
<1>. DEFINE f == task[t].fact
            I == {i \in DOMAIN recent : recent[i] # f}
<1>1. PICK ok \in BOOLEAN :
       /\ recent' = IF ok THEN Kept(recent, I) ELSE recent
       /\ racing' = IF ~ok \/ \E u \in Tasks : f \in Known(u)
                    THEN racing \cup {f} ELSE racing
  BY DEF Scrub
<1>2. Range(Kept(recent, I)) = {recent[i] : i \in DOMAIN recent \cap I}
  BY KeptLemma DEF TypeOK
<1>3. f \notin Range(Kept(recent, I))
  BY <1>2
<1>. HIDE DEF I
<1>. QED BY <1>1, <1>3 DEF Scrub, stores

LEMMA ForgottenStep ==
  ASSUME TypeOK, Forgotten, NEW t \in Tasks, IngestStep(t), RecentFactsStored,
         \A u \in Tasks : Progress(u) /\ RunSound(u),
         RecentMax > 0 => Len(recent) <= RecentMax
  PROVE  Forgotten'
<1>. DEFINE Going(f) == node[f] = "deleted" \/
              \E u \in Tasks : task[u].pc = "remove" /\ task[u].fact = f
            Out(f) == f \in racing \/
              (f \notin Range(recent) /\ \A u \in Tasks : f \notin Known(u))
<1>1. \A u \in Tasks \ {t} : task'[u] = task[u] /\ Known(u)' = Known(u)
  BY OthersStay DEF Known
<1>2. \A f \in Facts : Going(f) => node[f] # "none"
  BY DEF Progress
<1>3. CASE Scrub(t)
  <2>1. /\ node' = node /\ racing \subseteq racing'
        /\ \/ task[t].fact \in racing'
           \/ /\ task[t].fact \notin Range(recent')
              /\ \A u \in Tasks : task[t].fact \notin Known(u)
    BY <1>3, ScrubRemoves
  <2>2. task'[t] = [task[t] EXCEPT !.pc = "remove"]
    BY <1>3, BecomeThis DEF Scrub
  <2>3. /\ task'[t].fact = task[t].fact /\ task'[t].seen = task[t].seen
        /\ task'[t].raw = task[t].raw
    BY <2>2, TaskFields DEF TaskStates
  <2>4. \A u \in Tasks : Known(u)' = Known(u)
    BY <1>1, <2>3 DEF Known
  <2>5. Range(recent') \subseteq Range(recent)
    BY <1>3, RecentStep DEF Scrub, UpdateRecentFacts
  <2>. SUFFICES ASSUME NEW f \in Facts, Going(f)' PROVE Out(f)'
    BY DEF Forgotten
  <2>6. CASE f = task[t].fact
    BY <2>1, <2>4, <2>6
  <2>7. CASE f # task[t].fact
    <3>1. Going(f)
      BY <1>1, <2>1, <2>3, <2>7
    <3>2. Out(f)
      BY <3>1 DEF Forgotten
    <3>. QED BY <3>2, <2>1, <2>4, <2>5
  <2>. QED BY <2>6, <2>7
<1>4. CASE ~ Scrub(t)
  <2>. SUFFICES ASSUME NEW f \in Facts, Going(f)' PROVE Out(f)'
    BY DEF Forgotten
  <2>1. racing' = racing
    BY <1>4 DEF IngestStep, AddMessages, MeasureBuffer, Flush, EndSession, IngestTurn,
         RunFails, LoadRecentFacts, ExtractFacts, StoreFact, DecaySuperseded, Relate,
         UpdateRecentFacts, WriteDomains, Delete, Remove, history
  <2>2. ASSUME node'[f] = "deleted", node[f] # "deleted"
        PROVE  task[t].pc = "remove" /\ task[t].fact = f
    <3>1. CASE StoreFact(t)
      BY <2>2, <3>1 DEF StoreFact, TypeOK
    <3>2. CASE Remove(t)
      BY <2>2, <3>2 DEF Remove, TypeOK
    <3>3. CASE ~ StoreFact(t) /\ ~ Remove(t)
      <4>1. node' = node
        BY <3>3, <1>4 DEF IngestStep, AddMessages, MeasureBuffer, Flush, EndSession,
             IngestTurn, RunFails, LoadRecentFacts, ExtractFacts, DecaySuperseded, Relate,
             UpdateRecentFacts, WriteDomains, Delete, stores
      <4>. QED BY <4>1, <2>2
    <3>. QED BY <3>1, <3>2, <3>3
  <2>3. task'[t].pc # "remove"
    BY <1>4, OnlyScrubLeadsToRemove
  <2>4. Going(f)
    <3>1. CASE node'[f] = "deleted"
      BY <2>2, <3>1
    <3>2. CASE node'[f] # "deleted"
      <4>1. PICK u \in Tasks : task'[u].pc = "remove" /\ task'[u].fact = f
        BY <3>2
      <4>. QED BY <4>1, <2>3, <1>1
    <3>. QED BY <3>1, <3>2
  <2>5. Out(f)
    BY <2>4 DEF Forgotten
  <2>6. f \notin FreshFacts
    BY <2>4, <1>2 DEF FreshFacts
  <2>7. CASE f \in racing
    BY <2>1, <2>7
  <2>8. CASE f \notin Range(recent) /\ \A u \in Tasks : f \notin Known(u)
    <3>1. f \notin Known(t)'
      BY <2>6, <2>8, KnownStep
    <3>2. f \notin Range(recent')
      <4>1. CASE UpdateRecentFacts(t)
        <5>1. recent' = Window(NewRecent(t))
          BY <4>1 DEF UpdateRecentFacts
        <5>. QED BY <5>1, <2>8, NewRecentLemma, WindowLemma
      <4>2. CASE ~ UpdateRecentFacts(t)
        BY <4>2, <2>8, RecentStep
      <4>. QED BY <4>1, <4>2
    <3>. QED BY <3>1, <3>2, <2>8, <1>1
  <2>. QED BY <2>5, <2>7, <2>8
<1>. QED BY <1>3, <1>4

------------------------------------------------------------------------------
(* The inductive invariant.                                                *)

LEMMA InitIInv == Init => IInv
<1>. SUFFICES ASSUME Init PROVE IInv
  OBVIOUS
<1>1. TypeOK
  BY InitType
<1>2. /\ buffer = <<>> /\ recent = <<>> /\ decayed = {} /\ sent = {} /\ Done = {}
      /\ \A t \in Tasks : task[t] = Idle
      /\ \A f \in Facts : node[f] = "none"
      /\ trimmed = {} /\ expired = {} /\ read = {}
  BY DEF Init, Done
<1>3. Range(<<>>) = {} /\ IsInjective(<<>>) /\ DOMAIN <<>> = {} /\ Len(<<>>) = 0
  BY RangeOfEmpty
<1>4. Whereabouts
  BY <1>2, <1>3, IdleFields DEF Whereabouts
<1>5. \A t \in Tasks : Progress(t) /\ RunSound(t)
  BY <1>2, <1>3, IdleFields DEF Progress, RunSound
<1>6. RecentFactsStored /\ DecayHitsWhatWasShown /\ Forgotten
  BY <1>2, <1>3, IdleFields DEF RecentFactsStored, DecayHitsWhatWasShown, Forgotten
<1>7. RecentMax > 0 => Len(recent) <= RecentMax
  BY <1>2, <1>3, ConstantsAssumption
<1>. QED BY <1>1, <1>4, <1>5, <1>6, <1>7 DEF IInv

LEMMA WhereaboutsStep ==
  ASSUME IInv, NEW t \in Tasks, IngestStep(t)
  PROVE  Whereabouts'
<1>0. TypeOK /\ Whereabouts /\ Progress(t)
  BY DEF IInv
<1>1. \A u \in Tasks \ {t} : task'[u] = task[u]
  BY <1>0, OthersStay
<1>2. CASE AddMessages(t)
  BY <1>0, <1>2, MessagesJoin
<1>3. CASE Flush(t)
  BY <1>0, <1>3, BufferDrained
<1>4. CASE IngestTurn(t)
  BY <1>0, <1>4, RunBegins
<1>5. CASE RunFails(t)
  <2>1. task'[t].msgs = <<>>
    BY <1>0, <1>5, BecomeThis, IdleFields DEF RunFails, End
  <2>2. failed' = failed \cup Range(task[t].msgs) /\ UNCHANGED <<buffer, sent, trimmed, expired, read>>
    BY <1>5 DEF RunFails, lists
  <2>. QED BY <2>1, <2>2, <1>0, <1>1, RunLeaves
<1>6. CASE RunEnds(t) /\ UNCHANGED <<buffer, sent, trimmed, expired, failed>>
  <2>1. task'[t].msgs = <<>>
    BY <1>0, <1>6, BecomeThis, IdleFields DEF RunEnds, End
  <2>. QED BY <2>1, <1>0, <1>1, <1>6, RunLeaves DEF RunEnds
<1>7. CASE EndSession(t) \/ Delete(t) \/ Remove(t)
  <2>1. task'[t].msgs = <<>>
    <3>1. /\ EndSession(t) => task'[t] = [Idle EXCEPT !.pc = "flush"]
          /\ Delete(t) => \E f \in Facts : task'[t] = [Idle EXCEPT !.pc = "scrub", !.fact = f]
          /\ Remove(t) => task'[t] = Idle
      BY <1>0, BecomeThis DEF EndSession, Delete, Remove, End
    <3>2. [Idle EXCEPT !.pc = "flush"].msgs = <<>>
      BY DEF Idle
    <3>3. \A f \in Facts : [Idle EXCEPT !.pc = "scrub", !.fact = f].msgs = <<>>
      BY DEF Idle
    <3>. QED BY <3>1, <3>2, <3>3, <1>7, IdleFields
  <2>2. task[t].msgs = <<>>
    BY <1>0, <1>7 DEF Progress, EndSession, Delete, Remove, Begin
  <2>3. UNCHANGED <<buffer, sent, trimmed, expired, read, failed>>
    BY <1>7 DEF EndSession, Delete, Remove, lists, history
  <2>. QED BY <2>1, <2>2, <2>3, <1>0, <1>1, NothingMoves
<1>8. CASE MeasureBuffer(t)
  <2>1. task[t].msgs = <<>>
    BY <1>0, <1>8 DEF Progress, MeasureBuffer
  <2>2. task'[t] = Idle \/ task'[t] = [task[t] EXCEPT !.pc = "flush"]
    BY <1>0, <1>8, BecomeThis DEF MeasureBuffer, End
  <2>3. task'[t].msgs = <<>>
    BY <1>0, <2>1, <2>2, TaskFields, IdleFields DEF TaskStates
  <2>4. UNCHANGED <<buffer, sent, trimmed, expired, read, failed>>
    BY <1>8 DEF MeasureBuffer, lists, history
  <2>. QED BY <2>1, <2>3, <2>4, <1>0, <1>1, NothingMoves
<1>9. CASE LoadRecentFacts(t) \/ StoreFact(t) \/ DecaySuperseded(t) \/ Relate(t)
           \/ UpdateRecentFacts(t) \/ Scrub(t)
           \/ (\E raw : Become(t, [task[t] EXCEPT !.pc = "store", !.raw = raw])
               /\ UNCHANGED <<buffer, sent, trimmed, expired, read, failed>>)
  <2>1. task'[t].msgs = task[t].msgs
    <3>. DEFINE k == task[t]
    <3>0. k \in TaskStates
      BY <1>0, TaskFields
    <3>. HIDE DEF k
    <3>1. CASE LoadRecentFacts(t)
      <4>1. task'[t] = [k EXCEPT !.pc = "extract", !.seen = recent]
        BY <1>0, <3>1, BecomeThis DEF LoadRecentFacts, k
      <4>. QED BY <4>1, <3>0 DEF TaskStates, k
    <3>2. CASE StoreFact(t)
      <4>. DEFINE go == Advance(t, "store", "decay")
      <4>1. PICK st : task'[t] = [k EXCEPT !.pc = go.pc, !.at = go.at, !.stored = st]
        BY <1>0, <3>2, BecomeThis DEF StoreFact, k
      <4>. HIDE DEF go
      <4>. QED BY <4>1, <3>0 DEF TaskStates, k
    <3>3. CASE DecaySuperseded(t)
      <4>. DEFINE go == Advance(t, "decay", "relate")
      <4>1. task'[t] = [k EXCEPT !.pc = go.pc, !.at = go.at]
        BY <1>0, <3>3, BecomeThis DEF DecaySuperseded, k
      <4>. HIDE DEF go
      <4>. QED BY <4>1, <3>0 DEF TaskStates, k
    <3>4. CASE Relate(t) \/ UpdateRecentFacts(t) \/ Scrub(t)
      <4>1. \E pc \in PCs : task'[t] = [k EXCEPT !.pc = pc]
        BY <1>0, <3>4, BecomeThis DEF Relate, UpdateRecentFacts, Scrub, k, PCs
      <4>. QED BY <4>1, <3>0 DEF TaskStates, k
    <3>5. CASE \E raw : Become(t, [task[t] EXCEPT !.pc = "store", !.raw = raw])
      <4>1. PICK raw : task'[t] = [k EXCEPT !.pc = "store", !.raw = raw]
        BY <1>0, <3>5, BecomeThis DEF k
      <4>. QED BY <4>1, <3>0 DEF TaskStates, k
    <3>. QED BY <1>9, <3>1, <3>2, <3>3, <3>4, <3>5
  <2>2. UNCHANGED <<buffer, sent, trimmed, expired, read, failed>>
    BY <1>9 DEF LoadRecentFacts, StoreFact, DecaySuperseded, Relate, UpdateRecentFacts,
         Scrub, lists, history
  <2>. QED BY <2>1, <2>2, <1>0, <1>1, NothingMoves
<1>10. CASE ExtractFacts(t)
  <2>1. UNCHANGED <<buffer, sent, trimmed, expired, failed>>
    BY <1>10 DEF ExtractFacts, lists
  <2>2. \/ RunEnds(t)
        \/ \E raw : Become(t, [task[t] EXCEPT !.pc = "store", !.raw = raw]) /\ read' = read
    BY <1>10 DEF ExtractFacts
  <2>. QED BY <2>1, <2>2, <1>6, <1>9
<1>11. CASE WriteDomains(t)
  BY <1>6, <1>11 DEF WriteDomains
<1>. QED BY <1>2, <1>3, <1>4, <1>5, <1>7, <1>8, <1>9, <1>10, <1>11 DEF IngestStep

LEMMA StepIInv ==
  ASSUME IInv, [Next]_vars
  PROVE  IInv'
<1>0. /\ TypeOK /\ Whereabouts /\ \A t \in Tasks : Progress(t) /\ RunSound(t)
      /\ RecentFactsStored /\ Forgotten /\ DecayHitsWhatWasShown
      /\ RecentMax > 0 => Len(recent) <= RecentMax
  BY DEF IInv
<1>1. CASE UNCHANGED vars
  <2>1. UNCHANGED <<buffer, age, recent, domains, node, decayed, edges, sent, trimmed,
                    expired, read, failed, meant, racing, faults, task>>
    BY <1>1 DEF vars, lists, stores, history
  <2>2. TypeOK'
    BY <1>0, <2>1 DEF TypeOK
  <2>3. Whereabouts'
    BY <1>0, <2>1, NothingMoves
  <2>4. \A t \in Tasks : Progress(t)' /\ RunSound(t)'
    BY <1>0, <2>1, OtherRuns
  <2>5. RecentFactsStored' /\ DecayHitsWhatWasShown'
    BY <1>0, <2>1 DEF RecentFactsStored, DecayHitsWhatWasShown
  <2>6. Forgotten'
    BY <1>0, <2>1 DEF Forgotten, Known
  <2>. QED BY <1>0, <2>1, <2>2, <2>3, <2>4, <2>5, <2>6 DEF IInv
<1>2. CASE Tick
  <2>1. TypeOK' /\ Whereabouts'
    BY <1>0, <1>2, ClockType, BufferExpires
  <2>2. UNCHANGED <<recent, node, decayed, meant, racing, task>>
    BY <1>2 DEF Tick, stores
  <2>. QED BY <1>0, <2>1, <2>2 DEF IInv, Progress, RunSound, RecentFactsStored, Forgotten,
              Known, DecayHitsWhatWasShown
<1>3. CASE RecentExpires
  <2>1. TypeOK'
    BY <1>0, <1>3, ClockType
  <2>2. recent' = <<>> /\ UNCHANGED <<buffer, sent, trimmed, expired, read, failed, node,
                                     decayed, meant, racing, task>>
    BY <1>3 DEF RecentExpires, stores, history
  <2>3. Range(<<>>) = {} /\ IsInjective(<<>>) /\ Len(<<>>) = 0
    BY RangeOfEmpty
  <2>4. Whereabouts'
    BY <1>0, <2>2, NothingMoves
  <2>5. \A t \in Tasks : Progress(t)' /\ RunSound(t)'
    BY <1>0, <2>2, OtherRuns
  <2>6. RecentFactsStored' /\ DecayHitsWhatWasShown'
    BY <1>0, <2>2, <2>3 DEF RecentFactsStored, DecayHitsWhatWasShown
  <2>7. Forgotten'
    BY <1>0, <2>2, <2>3 DEF Forgotten, Known
  <2>8. RecentMax > 0 => Len(recent') <= RecentMax
    BY <2>2, <2>3, ConstantsAssumption
  <2>. QED BY <2>1, <2>4, <2>5, <2>6, <2>7, <2>8 DEF IInv
<1>4. ASSUME NEW t \in Tasks, IngestStep(t)
      PROVE  IInv'
  <2>1. TypeOK' /\ Whereabouts'
    BY <1>0, <1>4, StepType, WhereaboutsStep
  <2>2. /\ RecentFactsStored' /\ (RecentMax > 0 => Len(recent') <= RecentMax)
        /\ DecayHitsWhatWasShown' /\ Forgotten'
    BY <1>0, <1>4, RecentStep, DecayStep, ForgottenStep
  <2>3. ASSUME NEW u \in Tasks
        PROVE  Progress(u)' /\ RunSound(u)'
    <3>1. CASE u = t
      BY <1>0, <1>4, <3>1, OwnRun
    <3>2. CASE u # t
      <4>1. task'[u] = task[u]
        BY <1>0, <1>4, <3>2, OthersStay
      <4>2. \A f \in Facts : node[f] # "none" => node'[f] # "none"
        BY <1>0, <1>4, NodeGrows
      <4>3. \A f \in Known(u) : meant'[f] = meant[f]
        <5>1. \A f \in Known(u) : f \in Facts /\ f \notin FreshFacts
          BY <1>0, KnownIn DEF FreshFacts
        <5>. QED BY <5>1, <1>0, <1>4, MeantStays
      <4>. QED BY <1>0, <4>1, <4>2, <4>3, OtherRuns
    <3>. QED BY <3>1, <3>2
  <2>. QED BY <2>1, <2>2, <2>3 DEF IInv
<1>. QED BY <1>1, <1>2, <1>3, <1>4 DEF Next

THEOREM InvariantHolds == Spec => []IInv
<1>1. Init => IInv
  BY InitIInv
<1>2. IInv /\ [Next]_vars => IInv'
  BY StepIInv
<1>. QED BY <1>1, <1>2, PTL DEF Spec

------------------------------------------------------------------------------
(* What follows from it.                                                   *)

\* The state of the turn ingest pipeline has its types (buffer.py, pipeline.py).
THEOREM TypeCorrect == Spec => []TypeOK
<1>1. IInv => TypeOK
  BY DEF IInv
<1>. QED BY <1>1, InvariantHolds, PTL

\* A message that is in exactly one place is in one place.
LEMMA OnePlace ==
  ASSUME IInv, NEW m \in sent
  PROVE  \E p : Places(m) = {p}
<1>. DEFINE InBuffer == {<<"buffer", i>> : i \in {j \in DOMAIN buffer : buffer[j] = m}}
            InRun == {<<"run", t>> : t \in {u \in Tasks : m \in Range(task[u].msgs)}}
            Gone == {<<"gone", d>> : d \in {k \in {"trimmed", "expired", "read", "failed"} :
                       m \in CASE k = "trimmed" -> trimmed [] k = "expired" -> expired
                               [] k = "read" -> read [] k = "failed" -> failed}}
<1>0. Places(m) = InBuffer \cup InRun \cup Gone
  BY DEF Places
<1>1. /\ TypeOK /\ Whereabouts /\ m \in Messages
  BY DEF IInv, TypeOK
<1>2. m \in Range(buffer) \cup Done \/ \E t \in Tasks : m \in Range(task[t].msgs)
  BY <1>1 DEF Whereabouts
<1>3. m \notin Range(buffer) => InBuffer = {}
  BY DEF Range
<1>4. (\A t \in Tasks : m \notin Range(task[t].msgs)) => InRun = {}
  OBVIOUS
<1>5. m \notin Done => Gone = {}
  BY DEF Done
<1>6. CASE m \in Range(buffer)
  <2>1. PICK i \in DOMAIN buffer : buffer[i] = m
    BY <1>6 DEF Range
  <2>2. InBuffer = {<<"buffer", i>>}
    BY <2>1, <1>1 DEF Whereabouts, IsInjective
  <2>3. InRun = {} /\ Gone = {}
    <3>1. m \notin Done /\ \A t \in Tasks : m \notin Range(task[t].msgs)
      BY <1>1, <1>6 DEF Whereabouts
    <3>. QED BY <3>1, <1>4, <1>5
  <2>. QED BY <1>0, <2>2, <2>3
<1>7. CASE m \notin Range(buffer) /\ \E t \in Tasks : m \in Range(task[t].msgs)
  <2>1. PICK t \in Tasks : m \in Range(task[t].msgs)
    BY <1>7
  <2>2. \A u \in Tasks : m \in Range(task[u].msgs) => u = t
    BY <2>1, <1>1 DEF Whereabouts
  <2>3. InRun = {<<"run", t>>}
    BY <2>1, <2>2
  <2>4. InBuffer = {} /\ Gone = {}
    <3>1. m \notin Done
      BY <2>1, <1>1 DEF Whereabouts
    <3>. QED BY <3>1, <1>3, <1>5, <1>7
  <2>. QED BY <1>0, <2>3, <2>4
<1>8. CASE m \in Done /\ m \notin Range(buffer) /\ \A t \in Tasks : m \notin Range(task[t].msgs)
  <2>1. InBuffer = {} /\ InRun = {}
    BY <1>3, <1>4, <1>8
  <2>2. /\ m \in trimmed => m \notin expired /\ m \notin read /\ m \notin failed
        /\ m \in expired => m \notin read /\ m \notin failed
        /\ m \in read => m \notin failed
    BY <1>1 DEF Whereabouts
  <2>3. CASE m \in trimmed
    <3>1. Gone = {<<"gone", "trimmed">>}
      BY <2>2, <2>3
    <3>. QED BY <3>1, <2>1, <1>0
  <2>4. CASE m \in expired
    <3>1. Gone = {<<"gone", "expired">>}
      BY <2>2, <2>4
    <3>. QED BY <3>1, <2>1, <1>0
  <2>5. CASE m \in read
    <3>1. Gone = {<<"gone", "read">>}
      BY <2>2, <2>5
    <3>. QED BY <3>1, <2>1, <1>0
  <2>6. CASE m \in failed
    <3>1. Gone = {<<"gone", "failed">>}
      BY <2>2, <2>6
    <3>. QED BY <3>1, <2>1, <1>0
  <2>. QED BY <1>8, <2>3, <2>4, <2>5, <2>6 DEF Done
<1>. QED BY <1>2, <1>6, <1>7, <1>8

\* Whatever requests fill, drain and run at the same time, each message sent is
\* waiting, in one run, or gone for one reason (buffer.py, pipeline.run).
THEOREM EveryMessageOnceHolds == Spec => []EveryMessageOnce
<1>1. IInv => EveryMessageOnce
  <2>. SUFFICES ASSUME IInv, NEW m \in sent PROVE Cardinality(Places(m)) = 1
    BY DEF EveryMessageOnce
  <2>1. PICK p : Places(m) = {p}
    BY OnePlace
  <2>. QED BY <2>1, FS_Singleton
<1>. QED BY <1>1, InvariantHolds, PTL

\* The list of recent facts an extraction is shown (update_recent_facts,
\* scrub_fact_from_recent): stored facts, each once, no deleted one that was
\* scrubbed in time; and not too long, unless extraction_context_facts is 0, when
\* the slice [-0:] keeps the whole list.
THEOREM RecentListHolds ==
  /\ RecentMax > 0 => (Spec => []RecentListTrue)
  /\ Spec => [](RecentFactsStored /\ ScrubHolds)
<1>1. IInv => RecentFactsStored /\ ScrubHolds
  <2>. SUFFICES ASSUME IInv PROVE ScrubHolds
    BY DEF IInv
  <2>1. Range(recent) \subseteq Facts
    BY RangeIn DEF IInv, TypeOK
  <2>. QED BY <2>1 DEF IInv, Forgotten, ScrubHolds
<1>2. ASSUME RecentMax > 0
      PROVE  IInv => RecentListTrue
  BY <1>1, <1>2 DEF RecentListTrue, IInv
<1>3. Spec => [](RecentFactsStored /\ ScrubHolds)
  BY <1>1, InvariantHolds, PTL
<1>4. ASSUME RecentMax > 0
      PROVE  Spec => []RecentListTrue
  BY <1>2, <1>4, InvariantHolds, PTL
<1>. QED BY <1>3, <1>4

\* The confidence of a fact is lowered only for the stored fact that was said to
\* supersede it (pipeline.run, facade.decay).
THEOREM DecayHolds == Spec => []DecayHitsWhatWasShown
<1>1. IInv => DecayHitsWhatWasShown
  BY DEF IInv
<1>. QED BY <1>1, InvariantHolds, PTL

=============================================================================

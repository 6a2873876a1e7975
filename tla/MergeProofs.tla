------------------------------ MODULE MergeProofs -------------------------------
(***************************************************************************)
(* Theorems about StatusMerge for any sequence of results.  The merge folds *)
(* over sequences: a fold is expanded to the function it is defined by, by  *)
(* recursion on the greatest index, and followed from the first index to    *)
(* the last.                                                                *)
(***************************************************************************)
EXTENDS StatusMerge, FiniteSetTheorems, WellFoundedInduction, TLAPS

--------------------------------------------------------------------------------
(***************************************************************************)
(* What a fold over a sequence computes.                                    *)
(***************************************************************************)

LEMMA LeastNatural ==
    ASSUME NEW S \in SUBSET Nat, S # {}
    PROVE  \E n \in S : \A m \in S : n <= m
<1> DEFINE R == OpToRel(<, Nat)
<1>1. IsWellFoundedOn(R, Nat)
  BY NatLessThanWellFounded
<1>2. \A x, y \in Nat : x < y => <<x, y>> \in R
  BY DEF OpToRel
<1> HIDE DEF R
<1>3. PICK n \in S : \A m \in S : ~(<<m, n>> \in R)
  BY <1>1, WFMin
<1>4. \A m \in S : ~(m < n)
  BY <1>2, <1>3
<1>5. \A m \in S : n <= m
  BY <1>4
<1> QED
  BY <1>5

\* Induction up to k, over a set.
LEMMA UpTo ==
    ASSUME NEW k \in Nat, NEW S, 0 \in S, \A n \in 1..k : n - 1 \in S => n \in S
    PROVE  \A n \in 0..k : n \in S
<1> SUFFICES ASSUME NEW n \in 0..k, n \notin S PROVE FALSE
  OBVIOUS
<1> DEFINE bad == {m \in 0..k : m \notin S}
<1>1. bad \in SUBSET Nat /\ bad # {}
  OBVIOUS
<1>2. PICK least \in bad : \A m \in bad : least <= m
  <2> HIDE DEF bad
  <2> QED
    BY <1>1, LeastNatural
<1>3. least # 0 /\ least \in 0..k
  OBVIOUS
<1>4. least - 1 \in 0..k /\ least \in 1..k /\ ~(least <= least - 1)
  BY <1>3
<1>5. least - 1 \in S
  BY <1>2, <1>4
<1> QED
  BY <1>4, <1>5

LEMMA MaxIsGreatest ==
    ASSUME NEW k \in Nat, NEW S \in SUBSET (1..k), S # {}
    PROVE  Max(S) \in S /\ \A m \in S : Max(S) >= m
<1> DEFINE T == {k - s : s \in S}
<1>1. T \in SUBSET Nat
  <2> SUFFICES ASSUME NEW s \in S PROVE k - s \in Nat
    OBVIOUS
  <2>1. s \in 1..k
    OBVIOUS
  <2> QED
    BY <2>1
<1>2. T # {}
  OBVIOUS
<1>3. PICK n \in T : \A m \in T : n <= m
  <2> HIDE DEF T
  <2> QED
    BY <1>1, <1>2, LeastNatural
<1>4. PICK x \in S : n = k - x
  BY <1>3
<1>5. ASSUME NEW y \in S PROVE x >= y
  <2>1. x \in 1..k /\ y \in 1..k
    OBVIOUS
  <2>2. k - x <= k - y
    BY <1>3, <1>4
  <2> QED
    BY <2>1, <2>2
<1> QED
  BY <1>5 DEF Max

LEMMA LastOfInterval ==
    ASSUME NEW n \in Nat, NEW S \in SUBSET (1..n), n \in S
    PROVE  Max(S) = n /\ S \ {n} = S \cap (1..(n - 1))
<1>1. Max(S) \in S /\ Max(S) >= n
  BY MaxIsGreatest
<1>2. Max(S) \in 1..n
  BY <1>1
<1>3. \A m \in S : m # n <=> m \in 1..(n - 1)
  <2> SUFFICES ASSUME NEW m \in S PROVE m # n <=> m \in 1..(n - 1)
    OBVIOUS
  <2>1. m \in 1..n
    OBVIOUS
  <2> QED
    BY <2>1
<1>4. Max(S) = n
  <2> DEFINE x == Max(S)
  <2>1. x \in 1..n /\ x >= n
    BY <1>1, <1>2
  <2> HIDE DEF x
  <2>2. x = n
    BY <2>1
  <2> QED
    BY <2>2 DEF x
<1>5. S \ {n} = S \cap (1..(n - 1))
  BY <1>3
<1> QED
  BY <1>4, <1>5

LEMMA Interval ==
    ASSUME NEW k \in Nat, NEW n \in 1..k
    PROVE  /\ Max(1..n) = n /\ (1..n) \ {n} = 1..(n - 1)
           /\ (1..n) \in SUBSET (1..k) /\ (1..n) # {}
<1>1. n \in Nat /\ n \in 1..n /\ (1..n) \in SUBSET (1..k)
  OBVIOUS
<1>2. (1..n) \cap (1..(n - 1)) = 1..(n - 1)
  OBVIOUS
<1>3. Max(1..n) = n /\ (1..n) \ {n} = (1..n) \cap (1..(n - 1))
  BY <1>1, LastOfInterval
<1> QED
  BY <1>1, <1>2, <1>3

\* h is defined by recursion on the greatest element.
Recurses(h, k, T, base, step) ==
    /\ h \in [SUBSET (1..k) -> T]
    /\ \A s \in SUBSET (1..k) :
          h[s] = IF s = {} THEN base ELSE step[<<h[s \ {Max(s)}], Max(s)>>]

LEMMA FoldExists ==
    ASSUME NEW k \in Nat, NEW T, NEW base \in T, NEW step \in [T \X (1..k) -> T]
    PROVE  \E h : Recurses(h, k, T, base, step)
<1> DEFINE Computes(h, n) ==
        /\ h \in [SUBSET (1..n) -> T]
        /\ \A s \in SUBSET (1..n) :
              h[s] = IF s = {} THEN base ELSE step[<<h[s \ {Max(s)}], Max(s)>>]
      good == {n \in 0..k : \E h : Computes(h, n)}
<1>1. 0 \in good
  <2> DEFINE h == [s \in SUBSET (1..0) |-> base]
  <2>1. \A s \in SUBSET (1..0) : s = {}
    OBVIOUS
  <2>2. Computes(h, 0)
    BY <2>1
  <2>3. \E f : Computes(f, 0)
    <3> HIDE DEF Computes, h
    <3> QED
      BY <2>2
  <2>4. 0 \in 0..k
    OBVIOUS
  <2> HIDE DEF Computes
  <2> QED
    BY <2>3, <2>4
<1>2. ASSUME NEW n \in 1..k, n - 1 \in good PROVE n \in good
  <2>1. PICK h : Computes(h, n - 1)
    BY <1>2
  <2> DEFINE g == [s \in SUBSET (1..n) |-> IF n \in s THEN step[<<h[s \ {n}], n>>] ELSE h[s]]
  <2>2. ASSUME NEW s \in SUBSET (1..n), n \in s
        PROVE  Max(s) = n /\ s \ {n} \in SUBSET (1..(n - 1))
    BY <2>2, LastOfInterval
  <2>3. ASSUME NEW s \in SUBSET (1..n), n \notin s
        PROVE  s \in SUBSET (1..(n - 1))
    <3> SUFFICES ASSUME NEW m \in s PROVE m \in 1..(n - 1)
      OBVIOUS
    <3>1. m \in 1..n /\ m # n
      BY <2>3
    <3> QED
      BY <3>1
  <2>4. g \in [SUBSET (1..n) -> T]
    <3> SUFFICES ASSUME NEW s \in SUBSET (1..n) PROVE g[s] \in T
      OBVIOUS
    <3>1. CASE n \in s
      <4>1. h[s \ {n}] \in T
        BY <2>1, <2>2, <3>1
      <4> QED
        BY <3>1, <4>1
    <3>2. CASE n \notin s
      BY <2>1, <2>3, <3>2
    <3> QED
      BY <3>1, <3>2
  <2>5. ASSUME NEW s \in SUBSET (1..n)
        PROVE  g[s] = IF s = {} THEN base ELSE step[<<g[s \ {Max(s)}], Max(s)>>]
    <3>1. CASE n \in s
      <4>1. Max(s) = n /\ s \ {n} \in SUBSET (1..n) /\ n \notin s \ {n}
        BY <2>2, <3>1
      <4>2. g[s \ {n}] = h[s \ {n}]
        BY <4>1
      <4> QED
        BY <3>1, <4>1, <4>2
    <3>2. CASE n \notin s /\ s # {}
      <4>1. s \in SUBSET (1..(n - 1)) /\ s \ {Max(s)} \in SUBSET (1..n)
        BY <2>3, <3>2
      <4>2. g[s] = h[s] /\ g[s \ {Max(s)}] = h[s \ {Max(s)}]
        BY <3>2, <4>1
      <4>3. h[s] = step[<<h[s \ {Max(s)}], Max(s)>>]
        BY <2>1, <3>2, <4>1
      <4> QED
        BY <3>2, <4>2, <4>3
    <3>3. CASE s = {}
      <4>1. g[s] = h[s] /\ {} \in SUBSET (1..(n - 1))
        BY <3>3
      <4> QED
        BY <2>1, <3>3, <4>1
    <3> QED
      BY <3>1, <3>2, <3>3
  <2>6. Computes(g, n)
    <3> HIDE DEF g
    <3> QED
      BY <2>4, <2>5
  <2>7. \E f : Computes(f, n)
    <3> HIDE DEF Computes, g
    <3> QED
      BY <2>6
  <2>8. n \in 0..k
    OBVIOUS
  <2> HIDE DEF Computes
  <2> QED
    BY <2>7, <2>8
<1>3. k \in good
  <2> HIDE DEF good
  <2> QED
    BY <1>1, <1>2, UpTo
<1> QED
  BY <1>3 DEF Recurses

\* The selection of members appends them one after the other.
LEMMA SelectFolds ==
    ASSUME NEW R, NEW seq \in Seq(R), NEW S
    PROVE  \E f : /\ f[0] = <<>>
                  /\ \A n \in 1..Len(seq) : f[n - 1] \in Seq(R) /\ f[n] = (IF seq[n] \in S THEN Append(f[n - 1], seq[n]) ELSE f[n - 1])
                  /\ Select(S, seq) = f[Len(seq)] /\ f[Len(seq)] \in Seq(R)
<1> DEFINE k == Len(seq)
      T == Seq(R)
      step == [p \in T \X (1..k) |-> (IF seq[p[2]] \in S THEN Append(p[1], seq[p[2]]) ELSE p[1])]
      Solves(h) == h = [s \in SUBSET DOMAIN seq |->
          IF s = {} THEN <<>> ELSE (IF seq[Max(s)] \in S THEN Append(h[s \ {Max(s)}], seq[Max(s)]) ELSE h[s \ {Max(s)}])]
<1>1. k \in Nat /\ DOMAIN seq = 1..k /\ \A i \in 1..k : seq[i] \in R
  OBVIOUS
<1>2. <<>> \in T /\ step \in [T \X (1..k) -> T]
  BY <1>1
<1>3. PICK h : Recurses(h, k, T, <<>>, step)
  <2> HIDE DEF k, T, step
  <2> QED
    BY <1>1, <1>2, FoldExists
<1>4. Solves(h)
  <2>1. ASSUME NEW s \in SUBSET (1..k)
        PROVE  h[s] = IF s = {} THEN <<>> ELSE (IF seq[Max(s)] \in S THEN Append(h[s \ {Max(s)}], seq[Max(s)]) ELSE h[s \ {Max(s)}])
    <3>1. CASE s = {}
      BY <1>3, <3>1 DEF Recurses
    <3>2. CASE s # {}
      <4>1. Max(s) \in 1..k /\ h[s \ {Max(s)}] \in T
        BY <1>1, <1>3, <3>2, MaxIsGreatest DEF Recurses
      <4> QED
        BY <1>3, <3>2, <4>1 DEF Recurses
    <3> QED
      BY <3>1, <3>2
  <2> QED
    BY <1>1, <1>3, <2>1 DEF Recurses
<1> DEFINE g == CHOOSE h1 : Solves(h1)
      f == [n \in 0..k |-> g[1..n]]
<1>5. Solves(g)
  BY <1>4
<1>6. Select(S, seq) = g[1..k]
  <2>1. Select(S, seq) = g[DOMAIN seq]
    BY DEF FoldLeft, MapThenFoldSet, Select
  <2> HIDE DEF g, k
  <2> QED
    BY <1>1, <2>1
<1>7. g[{}] = <<>> /\ \A n \in 1..k : g[1..n] = (IF seq[n] \in S THEN Append(g[1..(n - 1)], seq[n]) ELSE g[1..(n - 1)])
  <2> HIDE DEF g
  <2>1. g = [s \in SUBSET (1..k) |-> IF s = {} THEN <<>> ELSE (IF seq[Max(s)] \in S THEN Append(g[s \ {Max(s)}], seq[Max(s)]) ELSE g[s \ {Max(s)}])]
    BY <1>1, <1>5
  <2>2. g[{}] = <<>>
    BY <2>1
  <2>3. ASSUME NEW n \in 1..k PROVE g[1..n] = (IF seq[n] \in S THEN Append(g[1..(n - 1)], seq[n]) ELSE g[1..(n - 1)])
    <3> HIDE DEF k
    <3>1. Max(1..n) = n /\ (1..n) \ {n} = 1..(n - 1) /\ (1..n) \in SUBSET (1..k) /\ (1..n) # {}
      BY <1>1, Interval
    <3> QED
      BY <2>1, <3>1
  <2> QED
    BY <2>2, <2>3
<1>8. \A n \in 0..k : f[n] = g[1..n]
  OBVIOUS
<1> HIDE DEF f, g, k
<1>9. f[0] = <<>> /\ Select(S, seq) = f[k]
  <2>1. 0 \in 0..k /\ k \in 0..k /\ 1..0 = {}
    BY <1>1
  <2> QED
    BY <1>6, <1>7, <1>8, <2>1
<1>10. ASSUME NEW n \in 1..k
      PROVE  f[n] = (IF seq[n] \in S THEN Append(f[n - 1], seq[n]) ELSE f[n - 1])
  <2>1. n \in 0..k /\ n - 1 \in 0..k
    BY <1>1
  <2> QED
    BY <1>7, <1>8, <2>1
<1>C. \A a \in T, n \in 1..k : (IF seq[n] \in S THEN Append(a, seq[n]) ELSE a) \in T
  BY <1>1
<1> HIDE DEF T, step, Solves
<1>11. \A n \in 0..k : f[n] \in T
  <2> DEFINE Good == {i \in 0..k : f[i] \in T}
  <2>1. 0 \in Good
    <3>1. 0 \in 0..k
      BY <1>1
    <3>2. f[0] \in T
      BY <1>2, <1>9
    <3> QED
      BY <3>1, <3>2
  <2>2. ASSUME NEW n \in 1..k, n - 1 \in Good PROVE n \in Good
    <3>1. f[n - 1] \in T /\ n \in 0..k
      BY <1>1, <2>2
    <3>2. f[n] \in T
      BY <1>10, <1>C, <3>1
    <3> QED
      BY <3>1, <3>2
  <2>3. \A n \in 0..k : n \in Good
    <3> HIDE DEF Good
    <3> QED
      BY <1>1, <2>1, <2>2, UpTo
  <2> QED
    BY <2>3
<1>12. \A n \in 1..k : f[n - 1] \in T
  <2> SUFFICES ASSUME NEW n \in 1..k PROVE f[n - 1] \in T
    OBVIOUS
  <2>1. n - 1 \in 0..k
    BY <1>1
  <2> HIDE DEF T
  <2> QED
    BY <1>11, <2>1
<1>13. f[k] \in T
  <2>1. k \in 0..k
    BY <1>1
  <2> QED
    BY <1>11, <2>1
<1>14. k = Len(seq)
  BY DEF k
<1> QED
  BY <1>9, <1>10, <1>12, <1>13, <1>14 DEF T

\* The worst status of the first n results.
LEMMA WorstFolds ==
    ASSUME NEW R, NEW seq \in Seq(R)
    PROVE  \E f : /\ f[0] = "Healthy"
                  /\ \A n \in 1..Len(seq) : f[n - 1] \in ({"Healthy"} \cup {r.status : r \in R}) /\ f[n] = MoreCritical(f[n - 1], seq[n])
                  /\ FoldLeft(MoreCritical, "Healthy", seq) = f[Len(seq)] /\ f[Len(seq)] \in ({"Healthy"} \cup {r.status : r \in R})
<1> DEFINE k == Len(seq)
      T == ({"Healthy"} \cup {r.status : r \in R})
      step == [p \in T \X (1..k) |-> MoreCritical(p[1], seq[p[2]])]
      Solves(h) == h = [s \in SUBSET DOMAIN seq |->
          IF s = {} THEN "Healthy" ELSE MoreCritical(h[s \ {Max(s)}], seq[Max(s)])]
<1>1. k \in Nat /\ DOMAIN seq = 1..k /\ \A i \in 1..k : seq[i] \in R
  OBVIOUS
<1>2. "Healthy" \in T /\ step \in [T \X (1..k) -> T]
  BY <1>1 DEF MoreCritical
<1>3. PICK h : Recurses(h, k, T, "Healthy", step)
  <2> HIDE DEF k, T, step
  <2> QED
    BY <1>1, <1>2, FoldExists
<1>4. Solves(h)
  <2>1. ASSUME NEW s \in SUBSET (1..k)
        PROVE  h[s] = IF s = {} THEN "Healthy" ELSE MoreCritical(h[s \ {Max(s)}], seq[Max(s)])
    <3>1. CASE s = {}
      BY <1>3, <3>1 DEF Recurses
    <3>2. CASE s # {}
      <4>1. Max(s) \in 1..k /\ h[s \ {Max(s)}] \in T
        BY <1>1, <1>3, <3>2, MaxIsGreatest DEF Recurses
      <4> QED
        BY <1>3, <3>2, <4>1 DEF Recurses
    <3> QED
      BY <3>1, <3>2
  <2> QED
    BY <1>1, <1>3, <2>1 DEF Recurses
<1> DEFINE g == CHOOSE h1 : Solves(h1)
      f == [n \in 0..k |-> g[1..n]]
<1>5. Solves(g)
  BY <1>4
<1>6. FoldLeft(MoreCritical, "Healthy", seq) = g[1..k]
  <2>1. FoldLeft(MoreCritical, "Healthy", seq) = g[DOMAIN seq]
    BY DEF FoldLeft, MapThenFoldSet
  <2> HIDE DEF g, k
  <2> QED
    BY <1>1, <2>1
<1>7. g[{}] = "Healthy" /\ \A n \in 1..k : g[1..n] = MoreCritical(g[1..(n - 1)], seq[n])
  <2> HIDE DEF g
  <2>1. g = [s \in SUBSET (1..k) |-> IF s = {} THEN "Healthy" ELSE MoreCritical(g[s \ {Max(s)}], seq[Max(s)])]
    BY <1>1, <1>5
  <2>2. g[{}] = "Healthy"
    BY <2>1
  <2>3. ASSUME NEW n \in 1..k PROVE g[1..n] = MoreCritical(g[1..(n - 1)], seq[n])
    <3> HIDE DEF k
    <3>1. Max(1..n) = n /\ (1..n) \ {n} = 1..(n - 1) /\ (1..n) \in SUBSET (1..k) /\ (1..n) # {}
      BY <1>1, Interval
    <3> QED
      BY <2>1, <3>1
  <2> QED
    BY <2>2, <2>3
<1>8. \A n \in 0..k : f[n] = g[1..n]
  OBVIOUS
<1> HIDE DEF f, g, k
<1>9. f[0] = "Healthy" /\ FoldLeft(MoreCritical, "Healthy", seq) = f[k]
  <2>1. 0 \in 0..k /\ k \in 0..k /\ 1..0 = {}
    BY <1>1
  <2> QED
    BY <1>6, <1>7, <1>8, <2>1
<1>10. ASSUME NEW n \in 1..k
      PROVE  f[n] = MoreCritical(f[n - 1], seq[n])
  <2>1. n \in 0..k /\ n - 1 \in 0..k
    BY <1>1
  <2> QED
    BY <1>7, <1>8, <2>1
<1>C. \A a \in T, n \in 1..k : MoreCritical(a, seq[n]) \in T
  BY <1>1 DEF MoreCritical
<1> HIDE DEF T, step, Solves
<1>11. \A n \in 0..k : f[n] \in T
  <2> DEFINE Good == {i \in 0..k : f[i] \in T}
  <2>1. 0 \in Good
    <3>1. 0 \in 0..k
      BY <1>1
    <3>2. f[0] \in T
      BY <1>2, <1>9
    <3> QED
      BY <3>1, <3>2
  <2>2. ASSUME NEW n \in 1..k, n - 1 \in Good PROVE n \in Good
    <3>1. f[n - 1] \in T /\ n \in 0..k
      BY <1>1, <2>2
    <3>2. f[n] \in T
      BY <1>10, <1>C, <3>1
    <3> QED
      BY <3>1, <3>2
  <2>3. \A n \in 0..k : n \in Good
    <3> HIDE DEF Good
    <3> QED
      BY <1>1, <2>1, <2>2, UpTo
  <2> QED
    BY <2>3
<1>12. \A n \in 1..k : f[n - 1] \in T
  <2> SUFFICES ASSUME NEW n \in 1..k PROVE f[n - 1] \in T
    OBVIOUS
  <2>1. n - 1 \in 0..k
    BY <1>1
  <2> HIDE DEF T
  <2> QED
    BY <1>11, <2>1
<1>13. f[k] \in T
  <2>1. k \in 0..k
    BY <1>1
  <2> QED
    BY <1>11, <2>1
<1>14. k = Len(seq)
  BY DEF k
<1> QED
  BY <1>9, <1>10, <1>12, <1>13, <1>14 DEF T

\* The reasons of the first n results.
LEMMA ReasonsFold ==
    ASSUME NEW C, NEW R, \A r \in R : r.reasons \in Seq(C), NEW seq \in Seq(R)
    PROVE  \E f : /\ f[0] = <<>>
                  /\ \A n \in 1..Len(seq) : f[n - 1] \in Seq(C) /\ f[n] = AddReasons(f[n - 1], seq[n])
                  /\ FoldLeft(AddReasons, <<>>, seq) = f[Len(seq)] /\ f[Len(seq)] \in Seq(C)
<1> DEFINE k == Len(seq)
      T == Seq(C)
      step == [p \in T \X (1..k) |-> AddReasons(p[1], seq[p[2]])]
      Solves(h) == h = [s \in SUBSET DOMAIN seq |->
          IF s = {} THEN <<>> ELSE AddReasons(h[s \ {Max(s)}], seq[Max(s)])]
<1>1. k \in Nat /\ DOMAIN seq = 1..k /\ \A i \in 1..k : seq[i] \in R
  OBVIOUS
<1>2. <<>> \in T /\ step \in [T \X (1..k) -> T]
  BY <1>1 DEF AddReasons
<1>3. PICK h : Recurses(h, k, T, <<>>, step)
  <2> HIDE DEF k, T, step
  <2> QED
    BY <1>1, <1>2, FoldExists
<1>4. Solves(h)
  <2>1. ASSUME NEW s \in SUBSET (1..k)
        PROVE  h[s] = IF s = {} THEN <<>> ELSE AddReasons(h[s \ {Max(s)}], seq[Max(s)])
    <3>1. CASE s = {}
      BY <1>3, <3>1 DEF Recurses
    <3>2. CASE s # {}
      <4>1. Max(s) \in 1..k /\ h[s \ {Max(s)}] \in T
        BY <1>1, <1>3, <3>2, MaxIsGreatest DEF Recurses
      <4> QED
        BY <1>3, <3>2, <4>1 DEF Recurses
    <3> QED
      BY <3>1, <3>2
  <2> QED
    BY <1>1, <1>3, <2>1 DEF Recurses
<1> DEFINE g == CHOOSE h1 : Solves(h1)
      f == [n \in 0..k |-> g[1..n]]
<1>5. Solves(g)
  BY <1>4
<1>6. FoldLeft(AddReasons, <<>>, seq) = g[1..k]
  <2>1. FoldLeft(AddReasons, <<>>, seq) = g[DOMAIN seq]
    BY DEF FoldLeft, MapThenFoldSet
  <2> HIDE DEF g, k
  <2> QED
    BY <1>1, <2>1
<1>7. g[{}] = <<>> /\ \A n \in 1..k : g[1..n] = AddReasons(g[1..(n - 1)], seq[n])
  <2> HIDE DEF g
  <2>1. g = [s \in SUBSET (1..k) |-> IF s = {} THEN <<>> ELSE AddReasons(g[s \ {Max(s)}], seq[Max(s)])]
    BY <1>1, <1>5
  <2>2. g[{}] = <<>>
    BY <2>1
  <2>3. ASSUME NEW n \in 1..k PROVE g[1..n] = AddReasons(g[1..(n - 1)], seq[n])
    <3> HIDE DEF k
    <3>1. Max(1..n) = n /\ (1..n) \ {n} = 1..(n - 1) /\ (1..n) \in SUBSET (1..k) /\ (1..n) # {}
      BY <1>1, Interval
    <3> QED
      BY <2>1, <3>1
  <2> QED
    BY <2>2, <2>3
<1>8. \A n \in 0..k : f[n] = g[1..n]
  OBVIOUS
<1> HIDE DEF f, g, k
<1>9. f[0] = <<>> /\ FoldLeft(AddReasons, <<>>, seq) = f[k]
  <2>1. 0 \in 0..k /\ k \in 0..k /\ 1..0 = {}
    BY <1>1
  <2> QED
    BY <1>6, <1>7, <1>8, <2>1
<1>10. ASSUME NEW n \in 1..k
      PROVE  f[n] = AddReasons(f[n - 1], seq[n])
  <2>1. n \in 0..k /\ n - 1 \in 0..k
    BY <1>1
  <2> QED
    BY <1>7, <1>8, <2>1
<1>C. \A a \in T, n \in 1..k : AddReasons(a, seq[n]) \in T
  BY <1>1 DEF AddReasons
<1> HIDE DEF T, step, Solves
<1>11. \A n \in 0..k : f[n] \in T
  <2> DEFINE Good == {i \in 0..k : f[i] \in T}
  <2>1. 0 \in Good
    <3>1. 0 \in 0..k
      BY <1>1
    <3>2. f[0] \in T
      BY <1>2, <1>9
    <3> QED
      BY <3>1, <3>2
  <2>2. ASSUME NEW n \in 1..k, n - 1 \in Good PROVE n \in Good
    <3>1. f[n - 1] \in T /\ n \in 0..k
      BY <1>1, <2>2
    <3>2. f[n] \in T
      BY <1>10, <1>C, <3>1
    <3> QED
      BY <3>1, <3>2
  <2>3. \A n \in 0..k : n \in Good
    <3> HIDE DEF Good
    <3> QED
      BY <1>1, <2>1, <2>2, UpTo
  <2> QED
    BY <2>3
<1>12. \A n \in 1..k : f[n - 1] \in T
  <2> SUFFICES ASSUME NEW n \in 1..k PROVE f[n - 1] \in T
    OBVIOUS
  <2>1. n - 1 \in 0..k
    BY <1>1
  <2> HIDE DEF T
  <2> QED
    BY <1>11, <2>1
<1>13. f[k] \in T
  <2>1. k \in 0..k
    BY <1>1
  <2> QED
    BY <1>11, <2>1
<1>14. k = Len(seq)
  BY DEF k
<1> QED
  BY <1>9, <1>10, <1>12, <1>13, <1>14 DEF T

LEMMA RangeOfAppend ==
    ASSUME NEW R, NEW s \in Seq(R), NEW x \in R
    PROVE  Range(Append(s, x)) = Range(s) \cup {x}
<1> DEFINE t == Append(s, x)
<1>1. Len(t) = Len(s) + 1 /\ t \in Seq(R) /\ Len(s) \in Nat
  OBVIOUS
<1>2. DOMAIN t = 1..(Len(s) + 1) /\ DOMAIN s = 1..Len(s)
  OBVIOUS
<1>3. t[Len(s) + 1] = x /\ \A i \in 1..Len(s) : t[i] = s[i]
  OBVIOUS
<1> HIDE DEF t
<1>4. \A i \in 1..(Len(s) + 1) : i \in 1..Len(s) \/ i = Len(s) + 1
  BY <1>1
<1>5. Len(s) + 1 \in 1..(Len(s) + 1) /\ \A i \in 1..Len(s) : i \in 1..(Len(s) + 1)
  BY <1>1
<1>6. Range(t) \subseteq Range(s) \cup {x}
  BY <1>2, <1>3, <1>4 DEF Range
<1>7. Range(s) \cup {x} \subseteq Range(t)
  BY <1>2, <1>3, <1>5 DEF Range
<1> QED
  BY <1>6, <1>7 DEF t

\* What is selected are the members that are in the set.
LEMMA SelectedMembers ==
    ASSUME NEW R, NEW seq \in Seq(R), NEW S
    PROVE  Select(S, seq) \in Seq(R) /\ Range(Select(S, seq)) = Range(seq) \cap S
<1> DEFINE k == Len(seq)
      First(n) == {seq[i] : i \in 1..n}
<1>1. PICK f : /\ f[0] = <<>>
               /\ \A n \in 1..k : f[n - 1] \in Seq(R) /\ f[n] = (IF seq[n] \in S THEN Append(f[n - 1], seq[n]) ELSE f[n - 1])
               /\ Select(S, seq) = f[k] /\ f[k] \in Seq(R)
  BY SelectFolds
<1>2. k \in Nat /\ DOMAIN seq = 1..k /\ \A i \in 1..k : seq[i] \in R
  OBVIOUS
<1> HIDE DEF k
<1> DEFINE Good == {n \in 0..k : Range(f[n]) = First(n) \cap S}
<1>3. 0 \in Good
  <2>1. Range(f[0]) = {} /\ First(0) = {}
    BY <1>1 DEF Range
  <2>2. 0 \in 0..k
    BY <1>2
  <2> QED
    BY <2>1, <2>2
<1>4. ASSUME NEW n \in 1..k, n - 1 \in Good PROVE n \in Good
  <2>1. Range(f[n - 1]) = First(n - 1) \cap S /\ n \in 0..k
    BY <1>2, <1>4
  <2>2. First(n) = First(n - 1) \cup {seq[n]}
    <3>1. \A i \in 1..n : i \in 1..(n - 1) \/ i = n
      BY <1>2
    <3>2. n \in 1..n /\ \A i \in 1..(n - 1) : i \in 1..n
      BY <1>2
    <3> QED
      BY <3>1, <3>2
  <2> HIDE DEF First
  <2>3. CASE seq[n] \in S
    <3>1. Range(f[n]) = Range(f[n - 1]) \cup {seq[n]}
      BY <1>1, <1>2, <2>3, RangeOfAppend
    <3>2. Range(f[n]) = First(n) \cap S
      BY <2>1, <2>2, <2>3, <3>1
    <3> QED
      BY <2>1, <3>2
  <2>4. CASE seq[n] \notin S
    <3>1. f[n] = f[n - 1]
      BY <1>1, <2>4
    <3>2. Range(f[n]) = First(n) \cap S
      BY <2>1, <2>2, <2>4, <3>1
    <3> QED
      BY <2>1, <3>2
  <2> QED
    BY <2>3, <2>4
<1>5. \A n \in 0..k : n \in Good
  <2> HIDE DEF Good
  <2> QED
    BY <1>2, <1>3, <1>4, UpTo
<1>6. Range(f[k]) = First(k) \cap S
  <2>1. k \in 0..k
    BY <1>2
  <2> QED
    BY <1>5, <2>1
<1>7. Range(seq) = First(k)
  BY <1>2 DEF Range
<1> QED
  BY <1>1, <1>6, <1>7

LEMMA Levels ==
    /\ \A s : GetSeverityLevel(s) \in 0..4
    /\ \A s : GetSeverityLevel(s) > 0 <=> s \in Severities
    /\ \A s : Level(s) \in 0..4
    /\ \A s : Level(s) > 0 <=> s \in Severities
    /\ \A s \in Severities : Level(s) = GetSeverityLevel(s)
<1>1. \A s : GetSeverityLevel(s) \in 0..4
  BY DEF GetSeverityLevel
<1>2. \A s : GetSeverityLevel(s) > 0 <=> s \in Severities
  BY DEF GetSeverityLevel, Severities
<1>3. \A s \in Severities : ToSeverity(s) = s
  BY DEF ToSeverity
<1>4. \A s : s \notin Severities => ToSeverity(s) = ""
  BY DEF ToSeverity
<1>5. GetSeverityLevel("") = 0
  BY DEF GetSeverityLevel
<1>6. \A s : Level(s) \in 0..4
  <2> SUFFICES ASSUME NEW s PROVE Level(s) \in 0..4
    OBVIOUS
  <2>1. GetSeverityLevel(ToSeverity(s)) \in 0..4
    BY <1>1
  <2> QED
    BY <2>1 DEF Level
<1>7. ASSUME NEW s \in Severities PROVE Level(s) = GetSeverityLevel(s)
  BY <1>3 DEF Level
<1>8. ASSUME NEW s, s \notin Severities PROVE Level(s) = 0
  BY <1>4, <1>5, <1>8 DEF Level
<1>9. \A s : Level(s) > 0 <=> s \in Severities
  <2> SUFFICES ASSUME NEW s PROVE Level(s) > 0 <=> s \in Severities
    OBVIOUS
  <2>1. CASE s \in Severities
    BY <1>2, <1>7, <2>1
  <2>2. CASE s \notin Severities
    BY <1>8, <2>2
  <2> QED
    BY <2>1, <2>2
<1> QED
  BY <1>1, <1>2, <1>6, <1>7, <1>9

\* The merge starts from Healthy and takes the worst of the statuses.
LEMMA WorstIsWorst ==
    ASSUME NEW R, NEW seq \in Seq(R)
    PROVE  LET worst == FoldLeft(MoreCritical, "Healthy", seq)
           IN  /\ \A r \in Range(seq) : Level(worst) >= Level(r.status)
               /\ \/ worst = "Healthy"
                  \/ worst \in Severities /\ \E r \in Range(seq) : r.status = worst
<1> DEFINE k == Len(seq)
      worst == FoldLeft(MoreCritical, "Healthy", seq)
<1>1. PICK f : /\ f[0] = "Healthy"
               /\ \A n \in 1..k : f[n] = MoreCritical(f[n - 1], seq[n])
               /\ worst = f[k]
  BY WorstFolds
<1>2. k \in Nat /\ DOMAIN seq = 1..k
  OBVIOUS
<1> HIDE DEF k, worst
<1> DEFINE Covers(n) ==
        /\ \A i \in 1..n : Level(f[n]) >= Level(seq[i].status)
        /\ \/ f[n] = "Healthy"
           \/ f[n] \in Severities /\ \E i \in 1..n : seq[i].status = f[n]
      Good == {n \in 0..k : Covers(n)}
<1>3. 0 \in Good
  <2>1. 0 \in 0..k /\ 1..0 = {}
    BY <1>2
  <2> QED
    BY <1>1, <2>1
<1>4. ASSUME NEW n \in 1..k, n - 1 \in Good PROVE n \in Good
  <2>1. Covers(n - 1) /\ n \in 0..k
    BY <1>2, <1>4
  <2>2. \A i \in 1..n : i \in 1..(n - 1) \/ i = n
    BY <1>2
  <2>3. n \in 1..n /\ \A i \in 1..(n - 1) : i \in 1..n
    BY <1>2
  <2>4. f[n] = IF Level(seq[n].status) > Level(f[n - 1]) THEN seq[n].status ELSE f[n - 1]
    BY <1>1 DEF MoreCritical
  <2>5. CASE Level(seq[n].status) > Level(f[n - 1])
    <3>1. f[n] = seq[n].status
      BY <2>4, <2>5
    <3>2. \A i \in 1..n : Level(f[n]) >= Level(seq[i].status)
      BY <2>1, <2>2, <2>5, <3>1, Levels
    <3>3. f[n] \in Severities
      BY <2>5, <3>1, Levels
    <3> QED
      BY <2>1, <2>3, <3>1, <3>2, <3>3
  <2>6. CASE ~(Level(seq[n].status) > Level(f[n - 1]))
    <3>1. f[n] = f[n - 1]
      BY <2>4, <2>6
    <3>2. \A i \in 1..n : Level(f[n]) >= Level(seq[i].status)
      BY <2>1, <2>2, <2>6, <3>1, Levels
    <3> QED
      BY <2>1, <2>3, <3>1, <3>2
  <2> QED
    BY <2>5, <2>6
<1>5. \A n \in 0..k : n \in Good
  <2> HIDE DEF Good
  <2> QED
    BY <1>2, <1>3, <1>4, UpTo
<1>6. Covers(k)
  <2>1. k \in 0..k
    BY <1>2
  <2> QED
    BY <1>5, <2>1
<1> QED
  BY <1>1, <1>2, <1>6 DEF Range, worst

LEMMA RangeOfConcat ==
    ASSUME NEW C, NEW s \in Seq(C), NEW t \in Seq(C)
    PROVE  Range(s \o t) = Range(s) \cup Range(t)
<1> DEFINE u == s \o t
      n == Len(s)
      l == Len(t)
<1>1. n \in Nat /\ l \in Nat /\ DOMAIN s = 1..n /\ DOMAIN t = 1..l /\ DOMAIN u = 1..(n + l)
  OBVIOUS
<1>2. (\A i \in 1..n : u[i] = s[i]) /\ (\A i \in 1..l : u[n + i] = t[i])
  OBVIOUS
<1> HIDE DEF u, n, l
<1>3. \A i \in 1..(n + l) : i \in 1..n \/ (i - n \in 1..l /\ i = n + (i - n))
  BY <1>1
<1>4. (\A i \in 1..n : i \in 1..(n + l)) /\ (\A i \in 1..l : n + i \in 1..(n + l))
  BY <1>1
<1>5. Range(u) \subseteq Range(s) \cup Range(t)
  <2> SUFFICES ASSUME NEW i \in 1..(n + l) PROVE u[i] \in Range(s) \cup Range(t)
    BY <1>1 DEF Range
  <2>1. CASE i \in 1..n
    BY <1>1, <1>2, <2>1 DEF Range
  <2>2. CASE i - n \in 1..l /\ i = n + (i - n)
    BY <1>1, <1>2, <2>2 DEF Range
  <2> QED
    BY <1>3, <2>1, <2>2
<1>6. Range(s) \cup Range(t) \subseteq Range(u)
  <2>1. ASSUME NEW i \in 1..n PROVE s[i] \in Range(u)
    BY <1>1, <1>2, <1>4 DEF Range
  <2>2. ASSUME NEW i \in 1..l PROVE t[i] \in Range(u)
    BY <1>1, <1>2, <1>4 DEF Range
  <2> QED
    BY <1>1, <2>1, <2>2 DEF Range
<1> QED
  BY <1>5, <1>6 DEF u

\* The reasons of a merged status are those of the unhealthy results, and all of them.
LEMMA AllReasons ==
    ASSUME NEW C, NEW R, \A r \in R : r.reasons \in Seq(C), NEW seq \in Seq(R)
    PROVE  /\ FoldLeft(AddReasons, <<>>, seq) \in Seq(C)
           /\ Range(FoldLeft(AddReasons, <<>>, seq)) =
                UNION {Range(r.reasons) : r \in {x \in Range(seq) : Unhealthy(x)}}
<1> DEFINE k == Len(seq)
      all == FoldLeft(AddReasons, <<>>, seq)
      Of(n) == UNION {Range(seq[i].reasons) : i \in {j \in 1..n : Unhealthy(seq[j])}}
<1>1. PICK f : /\ f[0] = <<>>
               /\ \A n \in 1..k : f[n - 1] \in Seq(C) /\ f[n] = AddReasons(f[n - 1], seq[n])
               /\ all = f[k] /\ f[k] \in Seq(C)
  BY ReasonsFold
<1>2. k \in Nat /\ DOMAIN seq = 1..k /\ \A i \in 1..k : seq[i] \in R
  OBVIOUS
<1> HIDE DEF k, all
<1> DEFINE Good == {n \in 0..k : Range(f[n]) = Of(n)}
<1>3. 0 \in Good
  <2>1. 0 \in 0..k /\ 1..0 = {}
    BY <1>2
  <2>2. Of(0) = {}
    BY <2>1
  <2>3. Range(f[0]) = {}
    BY <1>1 DEF Range
  <2> QED
    BY <2>1, <2>2, <2>3
<1>4. ASSUME NEW n \in 1..k, n - 1 \in Good PROVE n \in Good
  <2>1. Range(f[n - 1]) = Of(n - 1) /\ n \in 0..k
    BY <1>2, <1>4
  <2>2. \A i \in 1..n : i \in 1..(n - 1) \/ i = n
    BY <1>2
  <2>3. n \in 1..n /\ \A i \in 1..(n - 1) : i \in 1..n
    BY <1>2
  <2>4. f[n] = IF Unhealthy(seq[n]) THEN f[n - 1] \o seq[n].reasons ELSE f[n - 1]
    BY <1>1 DEF AddReasons
  <2>5. f[n - 1] \in Seq(C) /\ seq[n].reasons \in Seq(C)
    BY <1>1, <1>2
  <2>6. CASE Unhealthy(seq[n])
    <3>1. Range(f[n]) = Range(f[n - 1]) \cup Range(seq[n].reasons)
      BY <2>4, <2>5, <2>6, RangeOfConcat
    <3>2. Of(n) = Of(n - 1) \cup Range(seq[n].reasons)
      BY <2>2, <2>3, <2>6
    <3> QED
      BY <2>1, <3>1, <3>2
  <2>7. CASE ~Unhealthy(seq[n])
    <3>1. Of(n) = Of(n - 1)
      BY <2>2, <2>3, <2>7
    <3>2. f[n] = f[n - 1]
      BY <2>4, <2>7
    <3> QED
      BY <2>1, <3>1, <3>2
  <2> QED
    BY <2>6, <2>7
<1>5. \A n \in 0..k : n \in Good
  <2> HIDE DEF Good
  <2> QED
    BY <1>2, <1>3, <1>4, UpTo
<1>6. Range(f[k]) = Of(k)
  <2>1. k \in 0..k
    BY <1>2
  <2> QED
    BY <1>5, <2>1
<1>7. Of(k) = UNION {Range(r.reasons) : r \in {x \in Range(seq) : Unhealthy(x)}}
  BY <1>2 DEF Range
<1> QED
  BY <1>1, <1>6, <1>7 DEF all

--------------------------------------------------------------------------------
(***************************************************************************)
(* The merge.                                                               *)
(***************************************************************************)

\* mergeStatusesForSubComponent: what is merged is at least as severe as every answer and has the
\* reasons of all that are not healthy, a failing status is one of the answers, healthy means that
\* no answer has a severity, and the sub-component is left out for lack of answers or for an
\* error beside nothing but health.
THEOREM MergeTells ==
    ASSUME NEW C, NEW R, \A r \in R : r.error \in BOOLEAN /\ r.reasons \in Seq(C),
           NEW group \in Seq(R)
    PROVE  LET said == MergeStatusesForSubComponent(group)
               Answers == {r \in Range(group) : ~r.error}
           IN  /\ \A r \in Answers : r.status \in Severities =>
                     /\ said.status \in Severities
                     /\ Level(said.status) >= Level(r.status)
                     /\ Range(r.reasons) \subseteq Range(said.reasons)
               /\ said.status \notin {"omitted", "Healthy"} =>
                     /\ said.status \in Severities /\ \E r \in Answers : r.status = said.status
                     /\ said.reasons \in Seq(C)
                     /\ Range(said.reasons) = UNION {Range(r.reasons) : r \in {x \in Answers : Unhealthy(x)}}
               /\ said.status = "Healthy" =>
                     /\ \A r \in Answers : r.status \notin Severities
                     /\ (\E r \in Range(group) : r.error) => \E r \in Answers : Unhealthy(r)
               /\ said.status = "omitted" <=>
                     \/ Answers = {}
                     \/ (\E r \in Range(group) : r.error) /\ \A r \in Answers : ~Unhealthy(r)
<1> DEFINE Answers == {r \in Range(group) : ~r.error}
      answers == NonErrored(group)
      worst == FoldLeft(MoreCritical, "Healthy", answers)
      reasons == FoldLeft(AddReasons, <<>>, answers)
      hasError == \E i \in DOMAIN group : group[i].error
      allHealthy == \A i \in DOMAIN answers : ~Unhealthy(answers[i])
      said == MergeStatusesForSubComponent(group)
<1>1. answers \in Seq(R) /\ Range(answers) = Answers
  BY SelectedMembers DEF NonErrored
<1>2. said = IF (hasError /\ allHealthy) \/ answers = <<>> THEN Omitted
             ELSE [status |-> worst, reasons |-> IF worst = "Healthy" THEN <<>> ELSE reasons]
  BY DEF MergeStatusesForSubComponent
<1>3. hasError <=> \E r \in Range(group) : r.error
  BY DEF Range
<1>4. /\ \A r \in Answers : Level(worst) >= Level(r.status)
      /\ worst = "Healthy" \/ (worst \in Severities /\ \E r \in Answers : r.status = worst)
  <2> HIDE DEF answers
  <2> QED
    BY <1>1, WorstIsWorst
<1>5. reasons \in Seq(C) /\ Range(reasons) = UNION {Range(r.reasons) : r \in {x \in Answers : Unhealthy(x)}}
  <2> HIDE DEF answers, Answers
  <2> QED
    BY <1>1, AllReasons
<1>6. answers = <<>> <=> Answers = {}
  <2> HIDE DEF answers, Answers
  <2>1. answers = <<>> => Range(answers) = {}
    BY DEF Range
  <2>2. Range(answers) = {} => DOMAIN answers = {}
    BY DEF Range
  <2>3. DOMAIN answers = {} => answers = <<>>
    BY <1>1
  <2> QED
    BY <1>1, <2>1, <2>2, <2>3
<1>7. allHealthy <=> \A r \in Answers : ~Unhealthy(r)
  <2> HIDE DEF answers, Answers
  <2> QED
    BY <1>1 DEF Range
<1>8. "omitted" \notin Severities /\ "Healthy" \notin Severities
  BY DEF Severities
<1>9. Level("Healthy") = 0 /\ \A s : Level(s) \in 0..4 /\ (Level(s) > 0 <=> s \in Severities)
  <2>1. Level("Healthy") \in 0..4 /\ ~(Level("Healthy") > 0)
    BY <1>8, Levels
  <2>2. Level("Healthy") = 0
    BY <2>1
  <2> QED
    BY <2>2, Levels
<1> HIDE DEF Answers, answers, worst, reasons, hasError, allHealthy, said
<1>10. ASSUME NEW r \in Answers, r.status \in Severities
       PROVE  /\ said.status \in Severities
              /\ Level(said.status) >= Level(r.status)
              /\ Range(r.reasons) \subseteq Range(said.reasons)
  <2>1. Unhealthy(r)
    BY <1>8, <1>10 DEF Unhealthy
  <2>2. Level(worst) > 0
    <3>1. Level(r.status) > 0 /\ Level(r.status) \in 0..4 /\ Level(worst) \in 0..4
      BY <1>9, <1>10
    <3> QED
      BY <1>4, <3>1
  <2>3. worst \in Severities
    BY <1>9, <2>2
  <2>4. said = [status |-> worst, reasons |-> reasons]
    BY <1>2, <1>6, <1>7, <1>8, <2>1, <2>3
  <2> QED
    BY <1>4, <1>5, <2>1, <2>3, <2>4
<1>11. ASSUME said.status \notin {"omitted", "Healthy"}
       PROVE  /\ said.status \in Severities /\ \E r \in Answers : r.status = said.status
              /\ said.reasons \in Seq(C)
              /\ Range(said.reasons) = UNION {Range(r.reasons) : r \in {x \in Answers : Unhealthy(x)}}
  <2>1. said = [status |-> worst, reasons |-> IF worst = "Healthy" THEN <<>> ELSE reasons]
    BY <1>2, <1>11 DEF Omitted
  <2>2. worst # "Healthy"
    BY <1>11, <2>1
  <2> QED
    BY <1>4, <1>5, <2>1, <2>2
<1>12. ASSUME said.status = "Healthy"
       PROVE  /\ \A r \in Answers : r.status \notin Severities
              /\ (\E r \in Range(group) : r.error) => \E r \in Answers : Unhealthy(r)
  <2>1. ~((hasError /\ allHealthy) \/ answers = <<>>)
    BY <1>2, <1>12 DEF Omitted
  <2>2. worst = "Healthy"
    BY <1>2, <1>12, <2>1
  <2>3. \A r \in Answers : r.status \notin Severities
    BY <1>8, <1>10, <1>12
  <2> QED
    BY <1>3, <1>7, <2>1, <2>3
<1>13. said.status = "omitted" <=> (hasError /\ allHealthy) \/ answers = <<>>
  <2>1. worst # "omitted"
    BY <1>4, <1>8
  <2> QED
    BY <1>2, <2>1 DEF Omitted
<1>14. said.status = "omitted" <=>
         \/ Answers = {}
         \/ (\E r \in Range(group) : r.error) /\ \A r \in Answers : ~Unhealthy(r)
  BY <1>3, <1>6, <1>7, <1>13
<1> QED
  BY <1>10, <1>11, <1>12, <1>14 DEF Answers, said
================================================================================

---------------------------- MODULE ProofLemmas ----------------------------
(***************************************************************************)
(* Lemmas that the proofs about several components need: how the threads   *)
(* that are at a statement are counted (the read/write locks), induction   *)
(* on the numbers, functions defined by recursion, linked sequences, the   *)
(* order in them, sequences in a row, and sequences as arrangements of     *)
(* their elements (the containers).                                        *)
(***************************************************************************)
EXTENDS Integers, Sequences, FiniteSetTheorems, WellFoundedInduction, TLAPS

(* The elements of T that f puts into P: with f = pc, the threads that are  *)
(* at one of the statements P.                                              *)
Where(T, f, P) == {u \in T : f[u] \in P}

(* Such sets are finite, and empty when they count zero. *)
LEMMA WhereCount ==
    ASSUME NEW T, IsFiniteSet(T), NEW f, NEW P
    PROVE  /\ IsFiniteSet(Where(T, f, P))
           /\ Cardinality(Where(T, f, P)) \in Nat
           /\ Cardinality(Where(T, f, P)) = 0 <=> \A u \in T : f[u] \notin P
<1>1. IsFiniteSet(Where(T, f, P))
  BY FS_Subset DEF Where
<1>2. Cardinality(Where(T, f, P)) = 0 <=> Where(T, f, P) = {}
  BY <1>1, FS_EmptySet
<1>3. Cardinality(Where(T, f, P)) \in Nat
  BY <1>1, FS_CardinalityType
<1> QED
  BY <1>1, <1>2, <1>3 DEF Where

(* Only t moves into or out of P when f becomes g: how the count changes. *)
LEMMA MoveCount ==
    ASSUME NEW T, IsFiniteSet(T), NEW f, NEW g, NEW P, NEW t \in T,
           \A u \in T \ {t} : g[u] \in P <=> f[u] \in P
    PROVE  Cardinality(Where(T, g, P)) =
              IF g[t] \in P
                THEN IF f[t] \in P THEN Cardinality(Where(T, f, P))
                                   ELSE Cardinality(Where(T, f, P)) + 1
                ELSE IF f[t] \in P THEN Cardinality(Where(T, f, P)) - 1
                                   ELSE Cardinality(Where(T, f, P))
<1>1. Where(T, g, P) = IF g[t] \in P THEN Where(T, f, P) \cup {t}
                                     ELSE Where(T, f, P) \ {t}
  BY DEF Where
<1>2. IsFiniteSet(Where(T, f, P))
  BY WhereCount
<1>3. /\ Cardinality(Where(T, f, P) \cup {t}) =
             IF t \in Where(T, f, P) THEN Cardinality(Where(T, f, P))
                                     ELSE Cardinality(Where(T, f, P)) + 1
      /\ Cardinality(Where(T, f, P) \ {t}) =
             IF t \in Where(T, f, P) THEN Cardinality(Where(T, f, P)) - 1
                                     ELSE Cardinality(Where(T, f, P))
  BY <1>2, FS_AddElement, FS_RemoveElement, Zenon
<1>4. f[t] \in P <=> t \in Where(T, f, P)
  BY DEF Where
<1> QED
  BY <1>1, <1>3, <1>4
-----------------------------------------------------------------------------
(* Induction, said of a set: the least number missing from S, were there    *)
(* one, is neither 0 nor the successor of another.                          *)
LEMMA Induction ==
    ASSUME NEW S, 0 \in S, \A n \in Nat : n \in S => n + 1 \in S
    PROVE  Nat \subseteq S
<1> SUFFICES ASSUME NEW k \in Nat, k \notin S PROVE FALSE
  OBVIOUS
<1> DEFINE missing == {n \in Nat : n \notin S}
           T == {0 .. n : n \in missing}
<1>1. T \subseteq FiniteSubsetsOf(Nat)
  <2>1. ASSUME NEW n \in Nat PROVE 0 .. n \in FiniteSubsetsOf(Nat)
    <3>1. IsFiniteSet(0 .. n)
      BY FS_Interval
    <3> QED
      BY <3>1 DEF FiniteSubsetsOf
  <2> QED
    BY <2>1
<1>2. T # {}
  OBVIOUS
<1>3. IsWellFoundedOn(StrictSubsetOrdering(Nat), FiniteSubsetsOf(Nat))
  BY FS_StrictSubsetOrderingWellFounded
<1>4. PICK m \in T : \A y \in T : ~(<<y, m>> \in StrictSubsetOrdering(Nat))
  <2> HIDE DEF T
  <2> QED
    BY <1>1, <1>2, <1>3, WFMin
<1>5. PICK n \in Nat : m = 0 .. n /\ n \notin S
  OBVIOUS
<1>6. n # 0
  BY <1>5
<1>7. n - 1 \in Nat /\ n - 1 \notin S
  BY <1>5, <1>6
<1>8. 0 .. n - 1 \in T
  BY <1>7
<1>9. <<0 .. n - 1, 0 .. n>> \in StrictSubsetOrdering(Nat)
  <2>1. 0 .. n - 1 \in SUBSET Nat /\ 0 .. n \in SUBSET Nat
    BY <1>7
  <2>2. 0 .. n - 1 \subseteq 0 .. n /\ n \in 0 .. n /\ n \notin 0 .. n - 1
    BY <1>7
  <2> QED
    BY <2>1, <2>2 DEF StrictSubsetOrdering
<1> QED
  BY <1>4, <1>5, <1>8, <1>9

(* A set of numbers that is not empty has a least element. *)
LEMMA LeastNumber ==
    ASSUME NEW S, S \subseteq Nat, S # {}
    PROVE  \E m \in S : \A n \in S : m <= n
<1> SUFFICES ASSUME \A m \in S : \E n \in S : n < m PROVE FALSE
  OBVIOUS
<1> DEFINE T == {n \in Nat : \A k \in 0 .. n : k \notin S}
<1>1. 0 \in T
  OBVIOUS
<1>2. \A n \in Nat : n \in T => n + 1 \in T
  <2> SUFFICES ASSUME NEW n \in Nat, \A k \in 0 .. n : k \notin S
               PROVE  n + 1 \notin S
    OBVIOUS
  <2> SUFFICES ASSUME n + 1 \in S PROVE FALSE
    OBVIOUS
  <2>1. PICK k \in S : k < n + 1
    OBVIOUS
  <2>2. k \in 0 .. n
    BY <2>1
  <2> QED
    BY <2>2
<1> HIDE DEF T
<1>3. Nat \subseteq T
  BY <1>1, <1>2, Induction
<1>4. \A n \in Nat : n \notin S
  BY <1>3 DEF T
<1> QED
  BY <1>4

(* There are k numbers below k. *)
LEMMA CountBelow ==
    ASSUME NEW k \in Nat
    PROVE  Cardinality(0 .. k - 1) = k
<1>1. Cardinality(0 .. k - 1) = IF 0 > k - 1 THEN 0 ELSE (k - 1) - 0 + 1
  BY FS_Interval
<1> QED
  BY <1>1

(* A set of numbers with a bound has a greatest element. *)
LEMMA GreatestNumber ==
    ASSUME NEW n \in Nat, NEW S, S \subseteq 0 .. n, S # {}
    PROVE  \E m \in S : \A k \in S : m >= k
<1> DEFINE T == {n - k : k \in S}
<1>1. T \subseteq Nat /\ T # {}
  <2>1. \A k \in S : n - k \in Nat
    OBVIOUS
  <2>2. T \subseteq Nat
    BY <2>1
  <2>3. PICK k \in S : TRUE
    OBVIOUS
  <2>4. n - k \in T
    BY <2>3
  <2> QED
    BY <2>2, <2>4
<1>2. PICK t \in T : \A u \in T : t <= u
  <2> HIDE DEF T
  <2> QED
    BY <1>1, LeastNumber
<1>3. PICK m \in S : t = n - m
  BY <1>2
<1>4. ASSUME NEW k \in S PROVE m >= k
  <2>1. n - k \in T
    OBVIOUS
  <2>2. n - m <= n - k
    BY <1>2, <1>3, <2>1
  <2>3. k \in Nat /\ m \in Nat
    OBVIOUS
  <2> QED
    BY <2>2, <2>3
<1> QED
  BY <1>4

(* Steps can be made one after the other: the functions that the modules    *)
(* define by recursion on a number exist.  F[j][x] is what follows x in     *)
(* step j.                                                                  *)
StaysIn(S, F) == \A j \in Nat : \A x \in S : F[j][x] \in S
Runs(g, n, start, F) == g[0] = start /\ \A j \in 0 .. n - 1 : g[j + 1] = F[j][g[j]]

(* It can be applied any number of times. *)
LEMMA Iterate ==
    ASSUME NEW S, NEW n \in Nat, NEW start \in S, NEW F, StaysIn(S, F)
    PROVE  \E g \in [0 .. n -> S] : Runs(g, n, start, F)
<1> DEFINE All(m) == {g \in [0 .. m -> S] : Runs(g, m, start, F)}
           M == {m \in Nat : All(m) # {}}
<1>1. 0 \in M
  <2>1. [j \in 0 .. 0 |-> start] \in All(0)
    BY DEF Runs
  <2> QED
    BY <2>1
<1>2. \A m \in Nat : m \in M => m + 1 \in M
  <2> SUFFICES ASSUME NEW m \in Nat, All(m) # {} PROVE All(m + 1) # {}
    OBVIOUS
  <2>1. PICK g \in [0 .. m -> S] : g[0] = start /\ \A j \in 0 .. m - 1 : g[j + 1] = F[j][g[j]]
    BY DEF Runs
  <2> DEFINE e == [j \in 0 .. m + 1 |-> IF j = m + 1 THEN F[m][g[m]] ELSE g[j]]
  <2>2. e \in [0 .. m + 1 -> S]
    <3>1. F[m][g[m]] \in S
      BY <2>1 DEF StaysIn
    <3> QED
      BY <2>1, <3>1
  <2>3. e[0] = start
    <3>1. 0 \in 0 .. m + 1 /\ 0 # m + 1
      OBVIOUS
    <3> QED
      BY <2>1, <3>1
  <2>4. \A j \in 0 .. (m + 1) - 1 : e[j + 1] = F[j][e[j]]
    <3> SUFFICES ASSUME NEW j \in 0 .. m PROVE e[j + 1] = F[j][e[j]]
      OBVIOUS
    <3>0. j \in 0 .. m + 1 /\ j # m + 1 /\ j + 1 \in 0 .. m + 1 /\ (j + 1 = m + 1 <=> j = m)
      <4> SUFFICES \A k \in 0 .. m : /\ k \in 0 .. m + 1 /\ k # m + 1
                                     /\ k + 1 \in 0 .. m + 1 /\ (k + 1 = m + 1 <=> k = m)
        OBVIOUS
      <4> HIDE DEF e, All, M
      <4> QED
        OBVIOUS
    <3>1. e[j] = g[j]
      BY <3>0
    <3>2. j # m => e[j + 1] = g[j + 1] /\ j \in 0 .. m - 1
      BY <3>0
    <3>3. j = m => e[j + 1] = F[m][g[m]]
      BY <3>0
    <3> HIDE DEF e
    <3> QED
      BY <2>1, <3>1, <3>2, <3>3
  <2> HIDE DEF e
  <2>5. Runs(e, m + 1, start, F)
    BY <2>3, <2>4 DEF Runs
  <2> QED
    BY <2>2, <2>5
<1>3. Nat \subseteq M
  <2> HIDE DEF M
  <2> QED
    BY <1>1, <1>2, Induction
<1> QED
  BY <1>3
-----------------------------------------------------------------------------
(* A function on 1 .. n is a sequence of length n. *)
LEMMA FunctionIsSeq ==
    ASSUME NEW n \in Nat, NEW C, NEW f \in [1 .. n -> C]
    PROVE  f \in Seq(C) /\ Len(f) = n /\ DOMAIN f = 1 .. n
OBVIOUS

(* Sequences without repetition. *)
Distinct(s) == \A p, q \in 1 .. Len(s) : s[p] = s[q] => p = q

(* A sequence without repetition has as many elements as it is long. *)
LEMMA DistinctCount ==
    ASSUME NEW C, IsFiniteSet(C), NEW s \in Seq(C), Distinct(s)
    PROVE  /\ Len(s) \in Nat
           /\ Len(s) <= Cardinality(C)
           /\ Cardinality({s[p] : p \in 1 .. Len(s)}) = Len(s)
<1> DEFINE R == {s[p] : p \in 1 .. Len(s)}
<1>1. /\ Len(s) \in Nat /\ R \subseteq C /\ s \in [1 .. Len(s) -> R]
      /\ \A p \in 1 .. Len(s) : s[p] \in R
  OBVIOUS
<1>2. IsFiniteSet(1 .. Len(s)) /\ Cardinality(1 .. Len(s)) = Len(s)
  <2>1. ASSUME NEW n \in Nat PROVE IsFiniteSet(1 .. n) /\ Cardinality(1 .. n) = n
    <3>1. /\ IsFiniteSet(1 .. n)
          /\ Cardinality(1 .. n) = IF 1 > n THEN 0 ELSE n - 1 + 1
      BY FS_Interval
    <3> QED
      BY <3>1
  <2> QED
    BY <1>1, <2>1
<1>3. s \in Bijection(1 .. Len(s), R)
  BY <1>1 DEF Distinct, Bijection, Injection, Surjection, IsInjective
<1>4. Cardinality(R) = Len(s)
  BY <1>2, <1>3, FS_Bijection DEF ExistsBijection
<1>5. Cardinality(R) <= Cardinality(C)
  BY <1>1, FS_Subset
<1> QED
  BY <1>1, <1>4, <1>5

-----------------------------------------------------------------------------
(* The elements of s follow each other from first on along link. *)
Follows(s, first, link, null) ==
    /\ first = IF Len(s) = 0 THEN null ELSE s[1]
    /\ \A p \in 1 .. Len(s) : link[s[p]] = IF p = Len(s) THEN null ELSE s[p + 1]

(* The walk from first on along link, as the modules define it. *)
WalkStep(walk, n, first, link, null) ==
    [i \in 0 .. n + 1 |-> IF i = 0 THEN first
                          ELSE IF walk[i - 1] = null THEN null ELSE link[walk[i - 1]]]

Walk(n, first, link, null) == CHOOSE walk : walk = WalkStep(walk, n, first, link, null)

(* It passes through the sequence and then stays at its end: one function   *)
(* satisfies the recursive equation, and, by induction, no other does.      *)
LEMMA WalkAlong ==
    ASSUME NEW C, NEW null, null \notin C, NEW s \in Seq(C), NEW n \in Nat, Len(s) <= n,
           NEW first, NEW link, Follows(s, first, link, null)
    PROVE  Walk(n, first, link, null) =
               [i \in 0 .. n + 1 |-> IF i < Len(s) THEN s[i + 1] ELSE null]
<1> DEFINE g == [i \in 0 .. n + 1 |-> IF i < Len(s) THEN s[i + 1] ELSE null]
           step(w) == WalkStep(w, n, first, link, null)
<1>1. Len(s) \in Nat /\ \A p \in 1 .. Len(s) : s[p] \in C
  OBVIOUS
<1>2. \A i \in 0 .. n + 1 : g[i] = IF i = 0 THEN first
                                   ELSE IF g[i - 1] = null THEN null ELSE link[g[i - 1]]
  <2> SUFFICES ASSUME NEW i \in 0 .. n + 1
               PROVE  g[i] = IF i = 0 THEN first
                             ELSE IF g[i - 1] = null THEN null ELSE link[g[i - 1]]
    OBVIOUS
  <2>1. CASE i = 0
    BY <1>1, <2>1 DEF Follows
  <2>2. CASE i # 0 /\ i <= Len(s)
    <3>1. g[i - 1] = s[i] /\ s[i] # null
      BY <1>1, <2>2
    <3>2. link[s[i]] = IF i = Len(s) THEN null ELSE s[i + 1]
      BY <2>2 DEF Follows
    <3> QED
      BY <1>1, <2>2, <3>1, <3>2
  <2>3. CASE i > Len(s)
    <3>1. g[i - 1] = null /\ g[i] = null
      BY <1>1, <2>3
    <3> QED
      BY <1>1, <2>3, <3>1
  <2> QED
    BY <1>1, <2>1, <2>2, <2>3
<1>3. g = step(g)
  <2>1. g = [i \in 0 .. n + 1 |-> g[i]]
    OBVIOUS
  <2> HIDE DEF g
  <2> QED
    BY <1>2, <2>1 DEF WalkStep
<1>4. ASSUME NEW w, w = step(w) PROVE w = g
  <2> DEFINE S == {i \in Nat : i <= n + 1 => w[i] = g[i]}
  <2>1. \A i \in 0 .. n + 1 : w[i] = IF i = 0 THEN first
                                    ELSE IF w[i - 1] = null THEN null ELSE link[w[i - 1]]
    BY <1>4 DEF WalkStep
  <2> HIDE DEF g
  <2>2. 0 \in S
    BY <1>2, <2>1
  <2>3. \A i \in Nat : i \in S => i + 1 \in S
    <3> SUFFICES ASSUME NEW i \in Nat, i \in S, i + 1 <= n + 1 PROVE w[i + 1] = g[i + 1]
      OBVIOUS
    <3>1. w[i] = g[i]
      OBVIOUS
    <3>2. i + 1 \in 0 .. n + 1 /\ i + 1 # 0 /\ (i + 1) - 1 = i
      OBVIOUS
    <3> QED
      BY <1>2, <2>1, <3>1, <3>2
  <2>4. Nat \subseteq S
    <3> HIDE DEF S
    <3> QED
      BY <2>2, <2>3, Induction
  <2>5. \A i \in 0 .. n + 1 : w[i] = g[i]
    BY <2>4
  <2>6. w = [i \in 0 .. n + 1 |-> w[i]] /\ g = [i \in 0 .. n + 1 |-> g[i]]
    BY <1>4 DEF WalkStep, g
  <2> QED
    BY <2>5, <2>6
<1> HIDE DEF g
<1> QED
  BY <1>3, <1>4 DEF Walk, g

(* The items it passes through, as the modules count them. *)
Along(n, first, link, null) ==
    LET walk == Walk(n, first, link, null)
        len  == Cardinality({i \in 0 .. n : walk[i] # null})
    IN  [i \in 1 .. len |-> walk[i - 1]]

(* These are the elements of a sequence that follow each other. *)
LEMMA AlongIs ==
    ASSUME NEW C, IsFiniteSet(C), NEW null, null \notin C, NEW s \in Seq(C), Distinct(s), NEW first, NEW link,
           Follows(s, first, link, null)
    PROVE  Along(Cardinality(C), first, link, null) = s
<1> DEFINE n   == Cardinality(C)
           w   == Walk(n, first, link, null)
           len == Cardinality({i \in 0 .. n : w[i] # null})
<1>1. n \in Nat /\ Len(s) \in Nat /\ Len(s) <= n /\ null \notin C
  BY FS_CardinalityType, DistinctCount
<1>2. \A p \in 1 .. Len(s) : s[p] \in C
  OBVIOUS
<1>3. Along(Cardinality(C), first, link, null) = [i \in 1 .. len |-> w[i - 1]]
  BY DEF Along
<1>4. w = [i \in 0 .. n + 1 |-> IF i < Len(s) THEN s[i + 1] ELSE null]
  <2> HIDE DEF n
  <2> QED
    BY <1>1, WalkAlong
<1> HIDE DEF w, n
<1>5. {i \in 0 .. n : w[i] # null} = 0 .. Len(s) - 1
  BY <1>1, <1>2, <1>4
<1>6. len = Len(s)
  <2>1. Cardinality(0 .. Len(s) - 1) = Len(s)
    BY <1>1, CountBelow
  <2> QED
    BY <1>5, <2>1
<1>7. \A i \in 1 .. Len(s) : w[i - 1] = s[i]
  BY <1>1, <1>4
<1> HIDE DEF len
<1>8. [i \in 1 .. len |-> w[i - 1]] = [i \in 1 .. Len(s) |-> s[i]]
  BY <1>6, <1>7
<1>9. s = [i \in 1 .. Len(s) |-> s[i]]
  OBVIOUS
<1> QED
  BY <1>3, <1>8, <1>9

(* From one of its elements on they are those behind. *)
LEMMA TailFollows ==
    ASSUME NEW C, NEW null, NEW s \in Seq(C), Distinct(s), NEW first, NEW link,
           Follows(s, first, link, null), NEW q \in 1 .. Len(s)
    PROVE  \E t \in Seq(C) :
               /\ Distinct(t) /\ Follows(t, s[q], link, null)
               /\ \A r \in 1 .. Len(s) : r >= q => \E k \in 1 .. Len(t) : t[k] = s[r]
               /\ \A k \in 1 .. Len(t) : \E r \in 1 .. Len(s) : r >= q /\ s[r] = t[k]
<1> DEFINE m == (Len(s) - q) + 1
           t == [p \in 1 .. m |-> s[(p + q) - 1]]
<1>1. /\ Len(s) \in Nat /\ m \in Nat /\ m >= 1
      /\ \A p \in 1 .. Len(s) : s[p] \in C
      /\ \A p \in 1 .. m : (p + q) - 1 \in 1 .. Len(s)
  OBVIOUS
<1>2. /\ \A p, r \in 1 .. Len(s) : s[p] = s[r] => p = r
      /\ \A p \in 1 .. Len(s) : link[s[p]] = IF p = Len(s) THEN null ELSE s[p + 1]
  BY DEF Distinct, Follows
<1>3. t \in [1 .. m -> C]
  BY <1>1
<1> HIDE DEF t
<1>4. t \in Seq(C) /\ Len(t) = m /\ DOMAIN t = 1 .. m
  BY <1>1, <1>3, FunctionIsSeq
<1>5. \A p \in 1 .. m : t[p] = s[(p + q) - 1]
  BY DEF t
<1>6. Distinct(t)
  <2> SUFFICES ASSUME NEW a \in 1 .. m, NEW b \in 1 .. m, t[a] = t[b] PROVE a = b
    BY <1>4 DEF Distinct
  <2>1. s[(a + q) - 1] = s[(b + q) - 1]
    BY <1>5
  <2>2. (a + q) - 1 = (b + q) - 1
    BY <1>1, <1>2, <2>1
  <2> QED
    BY <2>2
<1>7. Follows(t, s[q], link, null)
  <2>1. s[q] = IF Len(t) = 0 THEN null ELSE t[1]
    BY <1>1, <1>4, <1>5
  <2>2. ASSUME NEW p \in 1 .. Len(t)
        PROVE  link[t[p]] = IF p = Len(t) THEN null ELSE t[p + 1]
    <3>1. t[p] = s[(p + q) - 1] /\ (p + q) - 1 \in 1 .. Len(s)
      BY <1>1, <1>4, <1>5
    <3>2. link[t[p]] = IF (p + q) - 1 = Len(s) THEN null ELSE s[((p + q) - 1) + 1]
      BY <1>2, <3>1
    <3>3. p # Len(t) => t[p + 1] = s[((p + q) - 1) + 1]
      <4>1. p # m => p + 1 \in 1 .. m /\ ((p + 1) + q) - 1 = ((p + q) - 1) + 1
        BY <1>1, <1>4
      <4> HIDE DEF m
      <4> QED
        BY <1>4, <1>5, <4>1
    <3>4. p = Len(t) <=> (p + q) - 1 = Len(s)
      BY <1>1, <1>4
    <3> QED
      BY <3>2, <3>3, <3>4
  <2> QED
    BY <2>1, <2>2 DEF Follows
<1>8. ASSUME NEW r \in 1 .. Len(s), r >= q PROVE \E k \in 1 .. Len(t) : t[k] = s[r]
  <2>1. (r - q) + 1 \in 1 .. m /\ (((r - q) + 1) + q) - 1 = r
    BY <1>1, <1>8
  <2>2. t[(r - q) + 1] = s[r]
    BY <1>5, <2>1
  <2> QED
    BY <1>4, <2>1, <2>2
<1>9. ASSUME NEW k \in 1 .. Len(t)
      PROVE  \E r \in 1 .. Len(s) : r >= q /\ s[r] = t[k]
  <2>1. (k + q) - 1 \in 1 .. Len(s) /\ (k + q) - 1 >= q
    BY <1>1, <1>4
  <2> QED
    BY <1>4, <1>5, <2>1
<1> QED
  BY <1>4, <1>6, <1>7, <1>8, <1>9

-----------------------------------------------------------------------------
(* A doubly linked chain of the elements of s, each once. *)
Linked(s, first, last, next, prev, null) ==
    /\ Distinct(s)
    /\ Follows(s, first, next, null)
    /\ last = IF Len(s) = 0 THEN null ELSE s[Len(s)]
    /\ \A p \in 1 .. Len(s) : prev[s[p]] = IF p = 1 THEN null ELSE s[p - 1]

(* s with i put in at place q, and without its element at place q. *)
InsertedAt(s, q, i) == [p \in 1 .. Len(s) + 1 |-> IF p < q THEN s[p]
                                                  ELSE IF p = q THEN i ELSE s[p - 1]]
RemovedAt(s, q)     == [p \in 1 .. Len(s) - 1 |-> IF p < q THEN s[p] ELSE s[p + 1]]

(* They are sequences, with the elements one expects.                       *)
LEMMA InsertedSeq ==
    ASSUME NEW C, NEW s \in Seq(C), NEW q \in 1 .. Len(s) + 1, NEW i \in C
    PROVE  /\ InsertedAt(s, q, i) \in Seq(C)
           /\ Len(InsertedAt(s, q, i)) = Len(s) + 1
           /\ \A p \in 1 .. Len(s) + 1 : InsertedAt(s, q, i)[p] =
                  IF p < q THEN s[p] ELSE IF p = q THEN i ELSE s[p - 1]
<1>1. Len(s) \in Nat /\ Len(s) + 1 \in Nat /\ \A p \in 1 .. Len(s) : s[p] \in C
  OBVIOUS
<1>2. InsertedAt(s, q, i) \in [1 .. Len(s) + 1 -> C]
  BY <1>1 DEF InsertedAt
<1>3. InsertedAt(s, q, i) \in Seq(C) /\ Len(InsertedAt(s, q, i)) = Len(s) + 1
  BY <1>1, <1>2, FunctionIsSeq
<1> QED
  BY <1>3 DEF InsertedAt

(* ... and of one item less. *)
LEMMA RemovedSeq ==
    ASSUME NEW C, NEW s \in Seq(C), NEW q \in 1 .. Len(s)
    PROVE  /\ RemovedAt(s, q) \in Seq(C)
           /\ Len(RemovedAt(s, q)) = Len(s) - 1
           /\ \A p \in 1 .. Len(s) - 1 : RemovedAt(s, q)[p] = IF p < q THEN s[p] ELSE s[p + 1]
<1>1. Len(s) \in Nat /\ Len(s) - 1 \in Nat /\ \A p \in 1 .. Len(s) : s[p] \in C
  OBVIOUS
<1>2. RemovedAt(s, q) \in [1 .. Len(s) - 1 -> C]
  BY <1>1 DEF RemovedAt
<1>3. RemovedAt(s, q) \in Seq(C) /\ Len(RemovedAt(s, q)) = Len(s) - 1
  BY <1>1, <1>2, FunctionIsSeq
<1> QED
  BY <1>3 DEF RemovedAt

(* The links (2) with i put in at place q of s, and those without the       *)
(* element at place q, given the links (1) before.                          *)
LinksIn(s, q, i, f1, l1, n1, p1, f2, l2, n2, p2, null) ==
    /\ \A p \in 1 .. Len(s) : s[p] # i
    /\ f2 = IF q = 1 THEN i ELSE f1
    /\ l2 = IF q = Len(s) + 1 THEN i ELSE l1
    /\ n2[i] = IF q = Len(s) + 1 THEN null ELSE s[q]
    /\ p2[i] = IF q = 1 THEN null ELSE s[q - 1]
    /\ \A p \in 1 .. Len(s) : /\ n2[s[p]] = IF p = q - 1 THEN i ELSE n1[s[p]]
                              /\ p2[s[p]] = IF p = q THEN i ELSE p1[s[p]]

LinksOut(s, q, f1, l1, n1, p1, f2, l2, n2, p2) ==
    /\ f2 = IF q = 1 THEN n1[s[q]] ELSE f1
    /\ l2 = IF q = Len(s) THEN p1[s[q]] ELSE l1
    /\ \A p \in 1 .. Len(s) : p # q =>
          /\ n2[s[p]] = IF p = q - 1 THEN n1[s[q]] ELSE n1[s[p]]
          /\ p2[s[p]] = IF p = q + 1 THEN p1[s[q]] ELSE p1[s[p]]

(* A new element is linked in: its links, and the two that lead to it, are  *)
(* set, and the others stay.                                                *)
LEMMA LinkIn ==
    ASSUME NEW C, NEW null, NEW s \in Seq(C), NEW q \in 1 .. Len(s) + 1, NEW i \in C,
           NEW f1, NEW l1, NEW n1, NEW p1, Linked(s, f1, l1, n1, p1, null),
           NEW f2, NEW l2, NEW n2, NEW p2,
           LinksIn(s, q, i, f1, l1, n1, p1, f2, l2, n2, p2, null)
    PROVE  Linked(InsertedAt(s, q, i), f2, l2, n2, p2, null)
<1> USE DEF LinksIn
<1> DEFINE t == InsertedAt(s, q, i)
<1>1. /\ Len(s) \in Nat /\ Len(t) = Len(s) + 1
      /\ \A p \in 1 .. Len(s) + 1 : t[p] = IF p < q THEN s[p] ELSE IF p = q THEN i ELSE s[p - 1]
  <2>1. Len(s) \in Nat
    OBVIOUS
  <2>2. /\ Len(t) = Len(s) + 1
        /\ \A p \in 1 .. Len(s) + 1 : t[p] = IF p < q THEN s[p] ELSE IF p = q THEN i ELSE s[p - 1]
    BY InsertedSeq
  <2> QED
    BY <2>1, <2>2
<1>2. /\ Distinct(s)
      /\ f1 = IF Len(s) = 0 THEN null ELSE s[1]
      /\ l1 = IF Len(s) = 0 THEN null ELSE s[Len(s)]
      /\ \A p \in 1 .. Len(s) : n1[s[p]] = IF p = Len(s) THEN null ELSE s[p + 1]
      /\ \A p \in 1 .. Len(s) : p1[s[p]] = IF p = 1 THEN null ELSE s[p - 1]
  BY DEF Linked, Follows
<1> HIDE DEF t
<1>3. Distinct(t)
  <2> SUFFICES ASSUME NEW p \in 1 .. Len(t), NEW r \in 1 .. Len(t), t[p] = t[r], p < r
               PROVE  FALSE
    BY <1>1 DEF Distinct
  <2> DEFINE from(k) == IF k < q THEN k ELSE k - 1
  <2>1. CASE p = q \/ r = q
    BY <1>1, <2>1
  <2>2. CASE p # q /\ r # q
    <3>1. /\ t[p] = s[from(p)] /\ t[r] = s[from(r)] /\ from(p) # from(r)
          /\ from(p) \in 1 .. Len(s) /\ from(r) \in 1 .. Len(s)
      BY <1>1, <2>2
    <3> HIDE DEF from
    <3>2. s[from(p)] = s[from(r)]
      BY <3>1
    <3> QED
      BY <1>2, <3>1, <3>2 DEF Distinct
  <2> QED
    BY <2>1, <2>2
<1>4. f2 = IF Len(t) = 0 THEN null ELSE t[1]
  BY <1>1, <1>2
<1>5. l2 = IF Len(t) = 0 THEN null ELSE t[Len(t)]
  BY <1>1, <1>2
<1>6. \A p \in 1 .. Len(t) : n2[t[p]] = IF p = Len(t) THEN null ELSE t[p + 1]
  <2> SUFFICES ASSUME NEW p \in 1 .. Len(t)
               PROVE  n2[t[p]] = IF p = Len(t) THEN null ELSE t[p + 1]
    OBVIOUS
  <2>1. CASE p < q
    <3>1. t[p] = s[p] /\ p \in 1 .. Len(s) /\ p # Len(t)
      BY <1>1, <2>1
    <3>2. CASE p = q - 1
      BY <1>1, <3>1, <3>2
    <3>3. CASE p # q - 1
      <4>1. t[p + 1] = s[p + 1] /\ p # Len(s)
        BY <1>1, <2>1, <3>3
      <4> QED
        BY <1>1, <1>2, <3>1, <3>3, <4>1
    <3> QED
      BY <3>2, <3>3
  <2>2. CASE p = q
    BY <1>1, <2>2
  <2>3. CASE p > q
    BY <1>1, <1>2, <2>3
  <2> QED
    BY <1>1, <2>1, <2>2, <2>3
<1>7. \A p \in 1 .. Len(t) : p2[t[p]] = IF p = 1 THEN null ELSE t[p - 1]
  <2> SUFFICES ASSUME NEW p \in 1 .. Len(t)
               PROVE  p2[t[p]] = IF p = 1 THEN null ELSE t[p - 1]
    OBVIOUS
  <2>1. CASE p < q
    BY <1>1, <1>2, <2>1
  <2>2. CASE p = q
    BY <1>1, <2>2
  <2>3. CASE p > q
    BY <1>1, <1>2, <2>3
  <2> QED
    BY <1>1, <2>1, <2>2, <2>3
<1> QED
  BY <1>3, <1>4, <1>5, <1>6, <1>7 DEF Linked, Follows, t

(* An element is linked out: its neighbours are linked to each other. *)
LEMMA LinkOut ==
    ASSUME NEW C, NEW null, NEW s \in Seq(C), NEW q \in 1 .. Len(s),
           NEW f1, NEW l1, NEW n1, NEW p1, Linked(s, f1, l1, n1, p1, null),
           NEW f2, NEW l2, NEW n2, NEW p2,
           LinksOut(s, q, f1, l1, n1, p1, f2, l2, n2, p2)
    PROVE  Linked(RemovedAt(s, q), f2, l2, n2, p2, null)
<1> USE DEF LinksOut
<1> DEFINE t == RemovedAt(s, q)
<1>1. /\ Len(s) \in Nat /\ Len(t) = Len(s) - 1
      /\ \A p \in 1 .. Len(s) - 1 : t[p] = IF p < q THEN s[p] ELSE s[p + 1]
  <2>1. Len(s) \in Nat
    OBVIOUS
  <2> QED
    BY <2>1, RemovedSeq, Zenon
<1>2. /\ Distinct(s)
      /\ f1 = IF Len(s) = 0 THEN null ELSE s[1]
      /\ l1 = IF Len(s) = 0 THEN null ELSE s[Len(s)]
      /\ \A p \in 1 .. Len(s) : n1[s[p]] = IF p = Len(s) THEN null ELSE s[p + 1]
      /\ \A p \in 1 .. Len(s) : p1[s[p]] = IF p = 1 THEN null ELSE s[p - 1]
  BY DEF Linked, Follows
<1> HIDE DEF t
<1>3. Distinct(t)
  BY <1>1, <1>2 DEF Distinct
<1>4. f2 = IF Len(t) = 0 THEN null ELSE t[1]
  BY <1>1, <1>2
<1>5. l2 = IF Len(t) = 0 THEN null ELSE t[Len(t)]
  BY <1>1, <1>2
<1>6. \A p \in 1 .. Len(t) : n2[t[p]] = IF p = Len(t) THEN null ELSE t[p + 1]
  <2> SUFFICES ASSUME NEW p \in 1 .. Len(t)
               PROVE  n2[t[p]] = IF p = Len(t) THEN null ELSE t[p + 1]
    OBVIOUS
  <2>1. CASE p < q - 1
    BY <1>1, <1>2, <2>1
  <2>2. CASE p = q - 1
    BY <1>1, <1>2, <2>2
  <2>3. CASE p >= q
    <3>1. t[p] = s[p + 1] /\ p + 1 \in 1 .. Len(s) /\ p + 1 # q /\ p + 1 # q - 1
      BY <1>1, <2>3
    <3>2. n2[s[p + 1]] = n1[s[p + 1]]
      BY <3>1
    <3>3. n1[s[p + 1]] = IF p + 1 = Len(s) THEN null ELSE s[(p + 1) + 1]
      BY <1>2, <3>1
    <3>4. p # Len(t) => t[p + 1] = s[(p + 1) + 1]
      BY <1>1, <2>3
    <3> QED
      BY <1>1, <3>1, <3>2, <3>3, <3>4
  <2> QED
    BY <1>1, <2>1, <2>2, <2>3
<1>7. \A p \in 1 .. Len(t) : p2[t[p]] = IF p = 1 THEN null ELSE t[p - 1]
  <2> SUFFICES ASSUME NEW p \in 1 .. Len(t)
               PROVE  p2[t[p]] = IF p = 1 THEN null ELSE t[p - 1]
    OBVIOUS
  <2>1. CASE p < q
    BY <1>1, <1>2, <2>1
  <2>2. CASE p = q
    BY <1>1, <1>2, <2>2
  <2>3. CASE p > q
    BY <1>1, <1>2, <2>3
  <2> QED
    BY <1>1, <2>1, <2>2, <2>3
<1> QED
  BY <1>3, <1>4, <1>5, <1>6, <1>7 DEF Linked, Follows, t

(* x comes before y in s. *)
Precedes(s, x, y) == \E p, q \in 1 .. Len(s) : p < q /\ s[p] = x /\ s[q] = y

(* The order of two elements outlives the insertion of another ... *)
LEMMA InsertKeepsOrder ==
    ASSUME NEW C, NEW s \in Seq(C), NEW q \in 1 .. Len(s) + 1, NEW i \in C,
           NEW x, NEW y, Precedes(s, x, y)
    PROVE  Precedes(InsertedAt(s, q, i), x, y)
<1> DEFINE t == InsertedAt(s, q, i)
           to(p) == IF p < q THEN p ELSE p + 1
<1>1. /\ Len(t) = Len(s) + 1
      /\ \A p \in 1 .. Len(s) + 1 : t[p] = IF p < q THEN s[p] ELSE IF p = q THEN i ELSE s[p - 1]
  <2>1. Len(t) = Len(s) + 1
    BY InsertedSeq
  <2> QED
    BY <2>1 DEF InsertedAt
<1>2. Len(s) \in Nat
  OBVIOUS
<1> HIDE DEF t
<1>3. PICK a, b \in 1 .. Len(s) : a < b /\ s[a] = x /\ s[b] = y
  BY DEF Precedes
<1>4. /\ to(a) \in 1 .. Len(t) /\ to(b) \in 1 .. Len(t) /\ to(a) < to(b)
      /\ t[to(a)] = s[a] /\ t[to(b)] = s[b]
  BY <1>1, <1>2, <1>3
<1> HIDE DEF to
<1> QED
  BY <1>3, <1>4 DEF Precedes, t

(* ... and the removal of another. *)
LEMMA RemoveKeepsOrder ==
    ASSUME NEW C, NEW s \in Seq(C), NEW q \in 1 .. Len(s),
           NEW x, NEW y, Precedes(s, x, y), x # s[q], y # s[q]
    PROVE  Precedes(RemovedAt(s, q), x, y)
<1> DEFINE t == RemovedAt(s, q)
           to(p) == IF p < q THEN p ELSE p - 1
<1>1. /\ Len(t) = Len(s) - 1
      /\ \A p \in 1 .. Len(s) - 1 : t[p] = IF p < q THEN s[p] ELSE s[p + 1]
  BY RemovedSeq
<1>2. Len(s) \in Nat
  OBVIOUS
<1> HIDE DEF t
<1>3. PICK a, b \in 1 .. Len(s) : a < b /\ s[a] = x /\ s[b] = y
  BY DEF Precedes
<1>4. a # q /\ b # q
  BY <1>3
<1>5. /\ to(a) \in 1 .. Len(t) /\ to(b) \in 1 .. Len(t) /\ to(a) < to(b)
      /\ t[to(a)] = s[a] /\ t[to(b)] = s[b]
  BY <1>1, <1>2, <1>3, <1>4
<1> HIDE DEF to
<1> QED
  BY <1>3, <1>5 DEF Precedes, t

-----------------------------------------------------------------------------
(* Sequences in a row, as FlattenSeq of the community modules puts them.    *)
FlatStep(f, s) == [i \in 1 .. Len(s) |-> IF i = 1 THEN s[i] ELSE f[i - 1] \o s[i]]

Flat(s) == CHOOSE f : f = FlatStep(f, s)

(* In s are c[0] to c[n - 1], one after the other; c[b] begins behind       *)
(* place off[b].                                                            *)
Places(s, c, n, off) ==
    /\ \A b \in 0 .. n : off[b] \in Nat
    /\ off[0] = 0 /\ \A b \in 0 .. n - 1 : off[b + 1] = off[b] + Len(c[b])
    /\ Len(s) = off[n]
    /\ \A b \in 0 .. n - 1 : \A q \in 1 .. Len(c[b]) :
           off[b] + q <= Len(s) /\ s[off[b] + q] = c[b][q]
    /\ \A p \in 1 .. Len(s) : \E b \in 0 .. n - 1 : \E q \in 1 .. Len(c[b]) : p = off[b] + q

(* One more of them. *)
LEMMA PlacesMore ==
    ASSUME NEW C, NEW n \in Nat, NEW c, \A b \in 0 .. n : c[b] \in Seq(C),
           NEW s \in Seq(C), NEW off, Places(s, c, n, off), off[n + 1] = off[n] + Len(c[n])
    PROVE  Places(s \o c[n], c, n + 1, off)
<1> DEFINE t == s \o c[n]
<1>1. n \in 0 .. n /\ c[n] \in Seq(C) /\ Len(c[n]) \in Nat /\ Len(s) \in Nat
  OBVIOUS
<1>2. Len(t) = Len(s) + Len(c[n])
  BY <1>1
<1>3. \A p \in 1 .. Len(s) : t[p] = s[p]
  BY <1>1
<1>4. \A q \in 1 .. Len(c[n]) : t[Len(s) + q] = c[n][q]
  BY <1>1
<1> HIDE DEF t
<1>5. \A b \in 0 .. n + 1 : off[b] \in Nat
  <2> SUFFICES ASSUME NEW b \in 0 .. n + 1 PROVE off[b] \in Nat
    OBVIOUS
  <2>1. off[n] \in Nat
    BY <1>1 DEF Places
  <2>2. CASE b = n + 1
    BY <1>1, <2>1, <2>2
  <2>3. CASE b # n + 1
    <3>1. b \in 0 .. n
      BY <2>3
    <3> QED
      BY <3>1 DEF Places
  <2> QED
    BY <2>2, <2>3
<1>6. \A b \in 0 .. (n + 1) - 1 : off[b + 1] = off[b] + Len(c[b])
  <2> SUFFICES ASSUME NEW b \in 0 .. n PROVE off[b + 1] = off[b] + Len(c[b])
    OBVIOUS
  <2>1. CASE b = n
    BY <2>1
  <2>2. CASE b # n
    <3>1. b \in 0 .. n - 1
      BY <2>2
    <3> QED
      BY <3>1 DEF Places
  <2> QED
    BY <2>1, <2>2
<1>7. Len(t) = off[n + 1]
  BY <1>2 DEF Places
<1>8. \A b \in 0 .. (n + 1) - 1 : \A q \in 1 .. Len(c[b]) :
           off[b] + q <= Len(t) /\ t[off[b] + q] = c[b][q]
  <2> SUFFICES ASSUME NEW b \in 0 .. n, NEW q \in 1 .. Len(c[b])
               PROVE  off[b] + q <= Len(t) /\ t[off[b] + q] = c[b][q]
    OBVIOUS
  <2>1. CASE b = n
    <3>1. off[n] = Len(s)
      BY DEF Places
    <3>2. q \in 1 .. Len(c[n]) /\ q <= Len(c[n])
      BY <2>1
    <3>3. Len(s) + q <= Len(s) + Len(c[n])
      BY <1>1, <3>2
    <3> QED
      BY <1>2, <1>4, <2>1, <3>1, <3>2, <3>3
  <2>2. CASE b # n
    <3>1. b \in 0 .. n - 1 /\ b \in 0 .. n
      BY <2>2
    <3>2. off[b] + q <= Len(s) /\ s[off[b] + q] = c[b][q] /\ off[b] \in Nat
      BY <3>1 DEF Places
    <3>3. off[b] + q \in 1 .. Len(s)
      BY <1>1, <3>2
    <3>4. Len(s) <= Len(t)
      BY <1>1, <1>2
    <3> QED
      BY <1>1, <1>2, <1>3, <3>2, <3>3, <3>4
  <2> QED
    BY <2>1, <2>2
<1>9. \A p \in 1 .. Len(t) : \E b \in 0 .. (n + 1) - 1 : \E q \in 1 .. Len(c[b]) : p = off[b] + q
  <2> SUFFICES ASSUME NEW p \in 1 .. Len(t)
               PROVE  \E b \in 0 .. n : \E q \in 1 .. Len(c[b]) : p = off[b] + q
    OBVIOUS
  <2>1. CASE p <= Len(s)
    <3>1. p \in 1 .. Len(s)
      BY <1>1, <2>1
    <3>2. PICK b \in 0 .. n - 1 : \E q \in 1 .. Len(c[b]) : p = off[b] + q
      BY <3>1 DEF Places
    <3>3. b \in 0 .. n
      OBVIOUS
    <3> QED
      BY <3>2, <3>3
  <2>2. CASE p > Len(s)
    <3>1. p - Len(s) \in 1 .. Len(c[n]) /\ p = Len(s) + (p - Len(s))
      BY <1>1, <1>2, <2>2
    <3>2. off[n] = Len(s)
      BY DEF Places
    <3> QED
      BY <1>1, <3>1, <3>2
  <2> QED
    BY <1>1, <2>1, <2>2
<1>10. off[0] = 0
  BY DEF Places
<1> QED
  BY <1>5, <1>6, <1>7, <1>8, <1>9, <1>10 DEF Places, t

(* All of them. *)
LEMMA FlatPlaces ==
    ASSUME NEW C, NEW n \in Nat, n # 0, NEW c \in [0 .. n - 1 -> Seq(C)],
           NEW cs, cs = [b \in 1 .. n |-> c[b - 1]]
    PROVE  Flat(cs)[n] \in Seq(C) /\ \E off : Places(Flat(cs)[n], c, n, off)
<1> DEFINE F == [j \in Nat |-> [x \in Seq(C) |-> IF j < n THEN x \o c[j] ELSE x]]
<1>1. StaysIn(Seq(C), F)
  <2> SUFFICES ASSUME NEW j \in Nat, NEW x \in Seq(C) PROVE F[j][x] \in Seq(C)
    BY DEF StaysIn
  <2>1. CASE j < n
    <3>1. j \in 0 .. n - 1
      BY <2>1
    <3>2. c[j] \in Seq(C)
      BY <3>1
    <3>3. x \o c[j] \in Seq(C)
      BY <3>2
    <3> QED
      BY <2>1, <3>3
  <2>2. CASE ~(j < n)
    BY <2>2
  <2> QED
    BY <2>1, <2>2
<1>2. PICK g \in [0 .. n -> Seq(C)] : Runs(g, n, <<>>, F)
  <2>1. <<>> \in Seq(C)
    OBVIOUS
  <2> HIDE DEF F
  <2> QED
    BY <1>1, <2>1, Iterate
<1>3. g[0] = <<>> /\ \A j \in 0 .. n - 1 : g[j + 1] = g[j] \o c[j]
  <2>1. g[0] = <<>>
    BY <1>2 DEF Runs
  <2>2. ASSUME NEW j \in 0 .. n - 1 PROVE g[j + 1] = g[j] \o c[j]
    <3>1. g[j + 1] = F[j][g[j]]
      BY <1>2 DEF Runs
    <3>2. j \in Nat /\ j < n /\ j \in 0 .. n
      OBVIOUS
    <3>3. g[j] \in Seq(C)
      BY <3>2
    <3> QED
      BY <3>1, <3>2, <3>3
  <2> QED
    BY <2>1, <2>2
<1> HIDE DEF F
<1>4. \A i \in 1 .. n : cs[i] = c[i - 1] /\ i - 1 \in 0 .. n - 1 /\ c[i - 1] \in Seq(C)
  OBVIOUS
<1>5. Len(cs) = n
  OBVIOUS
<1>6. \A i \in 1 .. n : g[i] = IF i = 1 THEN cs[i] ELSE g[i - 1] \o cs[i]
  <2> SUFFICES ASSUME NEW i \in 1 .. n PROVE g[i] = IF i = 1 THEN cs[i] ELSE g[i - 1] \o cs[i]
    OBVIOUS
  <2>1. i - 1 \in 0 .. n - 1 /\ (i - 1) + 1 = i
    OBVIOUS
  <2>2. g[i] = g[i - 1] \o c[i - 1]
    BY <1>3, <2>1
  <2>3. <<>> \o c[i - 1] = c[i - 1]
    BY <1>4
  <2>4. cs[i] = c[i - 1]
    BY <1>4
  <2>5. i = 1 => g[i - 1] = <<>>
    BY <1>3
  <2> QED
    BY <2>2, <2>3, <2>4, <2>5
<1> DEFINE h == [i \in 1 .. n |-> g[i]]
<1>7. h = FlatStep(h, cs)
  <2>1. \A i \in 1 .. n : i # 1 => i - 1 \in 1 .. n
    OBVIOUS
  <2>2. \A i \in 1 .. n : h[i] = IF i = 1 THEN cs[i] ELSE h[i - 1] \o cs[i]
    BY <1>6, <2>1
  <2>3. h = [i \in 1 .. n |-> h[i]]
    OBVIOUS
  <2> HIDE DEF h
  <2> QED
    BY <1>5, <2>2, <2>3 DEF FlatStep
<1>8. PICK f : f = FlatStep(f, cs) /\ f = Flat(cs)
  <2> HIDE DEF h
  <2> QED
    BY <1>7 DEF Flat
<1>9. \A i \in 1 .. n : f[i] = IF i = 1 THEN cs[i] ELSE f[i - 1] \o cs[i]
  BY <1>5, <1>8 DEF FlatStep
<1> DEFINE M == {m \in Nat : m + 1 <= n => f[m + 1] = g[m + 1]}
<1>10. Nat \subseteq M
  <2>1. 0 \in M
    <3>1. 1 \in 1 .. n
      OBVIOUS
    <3> QED
      BY <1>6, <1>9, <3>1
  <2>2. \A m \in Nat : m \in M => m + 1 \in M
    <3> SUFFICES ASSUME NEW m \in Nat, m \in M, (m + 1) + 1 <= n
                 PROVE  f[(m + 1) + 1] = g[(m + 1) + 1]
      OBVIOUS
    <3>1. f[m + 1] = g[m + 1]
      OBVIOUS
    <3>2. (m + 1) + 1 \in 1 .. n /\ (m + 1) + 1 # 1 /\ ((m + 1) + 1) - 1 = m + 1
      OBVIOUS
    <3> QED
      BY <1>6, <1>9, <3>1, <3>2
  <2> HIDE DEF M
  <2> QED
    BY <2>1, <2>2, Induction
<1>11. f[n] = g[n]
  <2>1. n - 1 \in Nat /\ (n - 1) + 1 = n
    OBVIOUS
  <2>2. n - 1 \in M
    <3> HIDE DEF M
    <3> QED
      BY <1>10, <2>1
  <2> QED
    BY <2>1, <2>2
<1> HIDE DEF M, h
<1>12. PICK off : \A b \in 0 .. n : off[b] = Len(g[b]) /\ off[b] \in Nat /\ g[b] \in Seq(C)
  <2>1. \A b \in 0 .. n : /\ [k \in 0 .. n |-> Len(g[k])][b] = Len(g[b])
                           /\ Len(g[b]) \in Nat /\ g[b] \in Seq(C)
    OBVIOUS
  <2> QED
    BY <2>1
<1> DEFINE K == {m \in Nat : m <= n => Places(g[m], c, m, off)}
<1>13. Nat \subseteq K
  <2>1. 0 \in K
    <3>1. off[0] = 0 /\ Len(g[0]) = 0
      <4>1. Len(<<>>) = 0 /\ 0 \in 0 .. n
        OBVIOUS
      <4>2. off[0] = Len(g[0])
        BY <1>12, <4>1
      <4> QED
        BY <1>3, <4>1, <4>2
    <3>2. Places(g[0], c, 0, off)
      <4>1. \A b \in 0 .. 0 : off[b] \in Nat
        <5>1. 0 \in 0 .. n
          OBVIOUS
        <5>2. off[0] \in Nat
          BY <1>12, <5>1
        <5> SUFFICES ASSUME NEW b \in 0 .. 0 PROVE off[b] \in Nat
          OBVIOUS
        <5>3. b = 0
          OBVIOUS
        <5> QED
          BY <5>2, <5>3
      <4>2. 0 .. 0 - 1 = {} /\ 1 .. Len(g[0]) = {}
        <5>1. 1 .. 0 = {} /\ 0 .. -1 = {} /\ 0 - 1 = -1
          OBVIOUS
        <5> QED
          BY <3>1, <5>1
      <4> QED
        BY <3>1, <4>1, <4>2 DEF Places
    <3> QED
      BY <3>2
  <2>2. ASSUME NEW m \in Nat, m \in K PROVE m + 1 \in K
    <3> SUFFICES ASSUME m + 1 <= n PROVE Places(g[m + 1], c, m + 1, off)
      BY m + 1 \in Nat
    <3>1. Places(g[m], c, m, off)
      BY <2>2
    <3>2. m \in 0 .. n - 1 /\ m \in 0 .. n /\ m + 1 \in 0 .. n /\ \A b \in 0 .. m : c[b] \in Seq(C)
      OBVIOUS
    <3>3. g[m + 1] = g[m] \o c[m] /\ g[m] \in Seq(C) /\ c[m] \in Seq(C)
      BY <1>3, <1>12, <3>2
    <3>4. off[m + 1] = off[m] + Len(c[m])
      <4>1. Len(g[m + 1]) = Len(g[m]) + Len(c[m])
        BY <3>3
      <4> QED
        BY <1>12, <3>2, <4>1
    <3> HIDE DEF K
    <3> QED
      BY <3>1, <3>2, <3>3, <3>4, PlacesMore
  <2> HIDE DEF K
  <2> QED
    BY <2>1, <2>2, Induction
<1>14. Places(g[n], c, n, off)
  BY <1>13
<1>15. g[n] \in Seq(C)
  BY <1>12
<1> QED
  BY <1>8, <1>11, <1>14, <1>15

(* Where there is nothing between them, two begin at one place. *)
LEMMA NothingBetween ==
    ASSUME NEW n \in Nat, NEW s, NEW c, NEW off, Places(s, c, n, off),
           NEW a \in 0 .. n, NEW j \in a .. n, \A k \in a .. j - 1 : Len(c[k]) = 0
    PROVE  off[j] = off[a]
<1> DEFINE M == {m \in Nat : a + m <= j => off[a + m] = off[a]}
<1>1. 0 \in M
  OBVIOUS
<1>2. ASSUME NEW m \in Nat, m \in M PROVE m + 1 \in M
  <2> SUFFICES ASSUME a + (m + 1) <= j PROVE off[a + (m + 1)] = off[a]
    BY m + 1 \in Nat
  <2>1. off[a + m] = off[a]
    BY <1>2
  <2>2. a + m \in a .. j - 1 /\ a + m \in 0 .. n - 1 /\ a + m \in 0 .. n /\ a + (m + 1) = (a + m) + 1
    OBVIOUS
  <2> HIDE DEF M
  <2>3. off[(a + m) + 1] = off[a + m] + Len(c[a + m]) /\ off[a + m] \in Nat
    BY <2>2 DEF Places
  <2>4. Len(c[a + m]) = 0
    BY <2>2
  <2> QED
    BY <2>1, <2>2, <2>3, <2>4
<1>3. Nat \subseteq M
  <2> HIDE DEF M
  <2> QED
    BY <1>1, <1>2, Induction
<1>4. j - a \in M /\ a + (j - a) = j
  BY <1>3
<1> QED
  BY <1>4

(* A sequence with one more element in front. *)
LEMMA PutInFront ==
    ASSUME NEW C, NEW s \in Seq(C), NEW i \in C
    PROVE  \E t \in Seq(C) : /\ Len(t) = Len(s) + 1
                             /\ t[1] = i /\ \A p \in 1 .. Len(s) : t[p + 1] = s[p]
<1> DEFINE t == [p \in 1 .. Len(s) + 1 |-> IF p = 1 THEN i ELSE s[p - 1]]
<1>1. Len(s) \in Nat /\ Len(s) + 1 \in Nat /\ \A p \in 1 .. Len(s) : s[p] \in C
  OBVIOUS
<1>2. t \in [1 .. Len(s) + 1 -> C]
  BY <1>1
<1>3. t[1] = i /\ \A p \in 1 .. Len(s) : t[p + 1] = s[p]
  BY <1>1
<1> HIDE DEF t
<1>4. t \in Seq(C) /\ Len(t) = Len(s) + 1
  BY <1>1, <1>2, FunctionIsSeq
<1> QED
  BY <1>3, <1>4

(* A set of places, the greatest first. *)
Downwards(e, P) ==
    /\ \A k, l \in 1 .. Len(e) : k < l => e[k] > e[l]
    /\ \A k \in 1 .. Len(e) : e[k] \in P
    /\ \A p \in P : \E k \in 1 .. Len(e) : e[k] = p

(* They can be put in this order. *)
LEMMA PutDownwards ==
    ASSUME NEW m \in Nat, NEW P, P \subseteq 1 .. m
    PROVE  \E e \in Seq(Nat) : Downwards(e, P)
<1> DEFINE M == {n \in Nat : \A S \in SUBSET (1 .. n) : \E e \in Seq(Nat) : Downwards(e, S)}
<1>1. 0 \in M
  <2>1. <<>> \in Seq(Nat) /\ Downwards(<<>>, {})
    BY DEF Downwards
  <2>2. \A S \in SUBSET (1 .. 0) : S = {}
    OBVIOUS
  <2> QED
    BY <2>1, <2>2
<1>2. ASSUME NEW n \in Nat, n \in M PROVE n + 1 \in M
  <2> SUFFICES ASSUME NEW S \in SUBSET (1 .. n + 1)
               PROVE  \E e \in Seq(Nat) : Downwards(e, S)
    BY n + 1 \in Nat
  <2>1. S \ {n + 1} \in SUBSET (1 .. n)
    OBVIOUS
  <2>2. PICK e \in Seq(Nat) : Downwards(e, S \ {n + 1})
    BY <1>2, <2>1
  <2> HIDE DEF M
  <2>3. CASE n + 1 \notin S
    <3>1. S = S \ {n + 1}
      BY <2>3
    <3> QED
      BY <2>2, <3>1
  <2>4. CASE n + 1 \in S
    <3>1. PICK N, x : N = Nat /\ x = n + 1
      OBVIOUS
    <3>2. PICK t \in Seq(Nat) : /\ Len(t) = Len(e) + 1
                                /\ t[1] = x /\ \A p \in 1 .. Len(e) : t[p + 1] = e[p]
      <4>1. PICK d \in Seq(N) : d = e
        BY <3>1
      <4>2. x \in N
        BY <3>1
      <4>3. \E t \in Seq(N) : /\ Len(t) = Len(d) + 1
                              /\ t[1] = x /\ \A p \in 1 .. Len(d) : t[p + 1] = d[p]
        BY <4>2, PutInFront
      <4> QED
        BY <3>1, <4>1, <4>3
    <3>3. Len(e) \in Nat /\ 1 \in 1 .. Len(e) + 1
      OBVIOUS
    <3>4. t[1] = n + 1 /\ \A p \in 1 .. Len(e) : t[p + 1] = e[p]
      BY <3>1, <3>2
    <3>5. \A p \in 1 .. Len(t) : p = 1 \/ (p - 1 \in 1 .. Len(e) /\ (p - 1) + 1 = p)
      BY <3>2, <3>3
    <3>6. \A p \in 1 .. Len(e) : e[p] \in S \ {n + 1} /\ e[p] < n + 1
      BY <2>2 DEF Downwards
    <3>7. ASSUME NEW k \in 1 .. Len(t), NEW l \in 1 .. Len(t), k < l PROVE t[k] > t[l]
      <4>1. l - 1 \in 1 .. Len(e) /\ t[l] = e[l - 1]
        BY <3>4, <3>5, <3>7
      <4>2. CASE k = 1
        BY <3>4, <3>6, <4>1, <4>2
      <4>3. CASE k # 1
        <5>1. k - 1 \in 1 .. Len(e) /\ t[k] = e[k - 1] /\ k - 1 < l - 1
          BY <3>4, <3>5, <3>7, <4>3
        <5> QED
          BY <2>2, <4>1, <5>1 DEF Downwards
      <4> QED
        BY <4>2, <4>3
    <3>8. ASSUME NEW k \in 1 .. Len(t) PROVE t[k] \in S
      <4>1. CASE k = 1
        BY <2>4, <3>4, <4>1
      <4>2. CASE k # 1
        <5>1. k - 1 \in 1 .. Len(e) /\ t[k] = e[k - 1]
          BY <3>4, <3>5, <4>2
        <5> QED
          BY <3>6, <5>1
      <4> QED
        BY <4>1, <4>2
    <3>9. ASSUME NEW p \in S PROVE \E k \in 1 .. Len(t) : t[k] = p
      <4>1. CASE p = n + 1
        BY <3>2, <3>3, <3>4, <4>1
      <4>2. CASE p # n + 1
        <5>1. PICK k \in 1 .. Len(e) : e[k] = p
          BY <2>2, <4>2 DEF Downwards
        <5>2. k + 1 \in 1 .. Len(t)
          BY <3>2, <3>3
        <5> QED
          BY <3>4, <5>1, <5>2
      <4> QED
        BY <4>1, <4>2
    <3> QED
      BY <3>2, <3>7, <3>8, <3>9 DEF Downwards
  <2> QED
    BY <2>3, <2>4
<1>3. Nat \subseteq M
  <2> HIDE DEF M
  <2> QED
    BY <1>1, <1>2, Induction
<1>4. m \in M
  BY <1>3
<1> QED
  BY <1>4

(* A chain does not notice what becomes of the links of others. *)
LEMMA LinkedSame ==
    ASSUME NEW s, NEW f, NEW l, NEW n1, NEW p1, NEW n2, NEW p2, NEW null,
           Linked(s, f, l, n1, p1, null),
           \A p \in 1 .. Len(s) : n2[s[p]] = n1[s[p]] /\ p2[s[p]] = p1[s[p]]
    PROVE  Linked(s, f, l, n2, p2, null)
BY DEF Linked, Follows
-----------------------------------------------------------------------------
(* Sequences with the same elements in another order.                      *)

(* Whoever maps 1 .. n into itself and no two numbers to one, reaches all. *)
OneToOne(b) == \A p, q \in DOMAIN b : b[p] = b[q] => p = q

(* A number left out would have two others share one. *)
LEMMA OntoItself ==
    ASSUME NEW n \in Nat, NEW b \in [1 .. n -> 1 .. n], OneToOne(b)
    PROVE  \A q \in 1 .. n : \E p \in 1 .. n : b[p] = q
<1>1. PICK S : S = 1 .. n
  OBVIOUS
<1>2. IsFiniteSet(S)
  BY <1>1, FS_Interval
<1>3. b \in Injection(S, S)
  BY <1>1 DEF Injection, IsInjective, OneToOne
<1>4. b \in Surjection(S, S)
  BY <1>2, <1>3, FS_Injection
<1> QED
  BY <1>1, <1>4 DEF Surjection

(* How often x is in a sequence. *)
Count(s, x) == Cardinality({i \in 1 .. Len(s) : s[i] = x})

(* It is not there when it is there no times. *)
LEMMA CountType ==
    ASSUME NEW s, Len(s) \in Nat, NEW x
    PROVE  /\ Count(s, x) \in Nat
           /\ Count(s, x) = 0 <=> \A i \in 1 .. Len(s) : s[i] # x
           /\ IsFiniteSet({i \in 1 .. Len(s) : s[i] = x})
<1> DEFINE I == {i \in 1 .. Len(s) : s[i] = x}
<1>1. IsFiniteSet(1 .. Len(s)) /\ I \in SUBSET (1 .. Len(s))
  BY FS_Interval
<1>2. IsFiniteSet(I)
  <2> HIDE DEF I
  <2> QED
    BY <1>1, FS_Subset
<1>3. Cardinality(I) \in Nat /\ (Cardinality(I) = 0 <=> I = {})
  <2> HIDE DEF I
  <2> QED
    BY <1>2, FS_CardinalityType, FS_EmptySet
<1> QED
  BY <1>2, <1>3 DEF Count

(* g has the elements of h in another order. *)
Rearranged(g, h, b) ==
    /\ b \in [1 .. Len(h) -> 1 .. Len(h)] /\ OneToOne(b)
    /\ \A p \in 1 .. Len(h) : g[p] = h[b[p]]

SameElements(g, h) == Len(g) = Len(h) /\ \E b : Rearranged(g, h, b)

(* This is an equivalence, ... *)
LEMMA SameRefl ==
    ASSUME NEW C, NEW h \in Seq(C)
    PROVE  SameElements(h, h)
<1> DEFINE b == [p \in 1 .. Len(h) |-> p]
<1>1. Rearranged(h, h, b)
  BY DEF Rearranged, OneToOne
<1> QED
  BY <1>1 DEF SameElements

(* ... *)
LEMMA SameTrans ==
    ASSUME NEW f, NEW g, NEW h, SameElements(f, g), SameElements(g, h)
    PROVE  SameElements(f, h)
<1>1. PICK a : Rearranged(f, g, a)
  BY DEF SameElements
<1>2. PICK b : Rearranged(g, h, b)
  BY DEF SameElements
<1>3. Len(f) = Len(g) /\ Len(g) = Len(h)
  BY DEF SameElements
<1> DEFINE c == [p \in 1 .. Len(h) |-> b[a[p]]]
<1>4. Rearranged(f, h, c)
  BY <1>1, <1>2, <1>3 DEF Rearranged, OneToOne
<1> QED
  BY <1>3, <1>4 DEF SameElements

(* Then each element is in both equally often. *)
LEMMA SameCount ==
    ASSUME NEW g, NEW h, Len(h) \in Nat, SameElements(g, h), NEW x
    PROVE  Count(g, x) = Count(h, x)
<1>1. PICK b : Rearranged(g, h, b)
  BY DEF SameElements
<1>2. Len(g) = Len(h)
  BY DEF SameElements
<1>3. PICK G, H : G = {i \in 1 .. Len(g) : g[i] = x} /\ H = {i \in 1 .. Len(h) : h[i] = x}
  OBVIOUS
<1> DEFINE c == [i \in G |-> b[i]]
<1>4. c \in [G -> H] /\ OneToOne(c)
  BY <1>1, <1>2, <1>3 DEF Rearranged, OneToOne
<1>5. ASSUME NEW q \in H PROVE \E p \in G : c[p] = q
  <2>1. \A r \in 1 .. Len(h) : \E p \in 1 .. Len(h) : b[p] = r
    BY <1>1, OntoItself DEF Rearranged
  <2>2. PICK p \in 1 .. Len(h) : b[p] = q
    BY <1>3, <2>1
  <2>3. p \in G
    BY <1>1, <1>2, <1>3, <2>2 DEF Rearranged
  <2> QED
    BY <2>2, <2>3
<1>6. c \in Bijection(G, H)
  <2> HIDE DEF c
  <2>1. c \in Injection(G, H)
    BY <1>4 DEF Injection, IsInjective, OneToOne
  <2>2. c \in Surjection(G, H)
    BY <1>4, <1>5 DEF Surjection
  <2> QED
    BY <2>1, <2>2 DEF Bijection
<1>7. IsFiniteSet(G)
  BY <1>2, <1>3, CountType
<1>8. Cardinality(H) = Cardinality(G)
  <2> HIDE DEF c
  <2>1. ExistsBijection(G, H)
    BY <1>6 DEF ExistsBijection
  <2> QED
    BY <1>7, <2>1, FS_Bijection
<1> QED
  BY <1>3, <1>8 DEF Count

(* The beginning of a sequence has nothing more often than all of it. *)
LEMMA CountPrefix ==
    ASSUME NEW g, NEW h, Len(g) \in Nat, Len(h) \in Nat, Len(g) <= Len(h),
           \A i \in 1 .. Len(g) : g[i] = h[i], NEW x
    PROVE  Count(g, x) <= Count(h, x)
<1>1. PICK G, H : G = {i \in 1 .. Len(g) : g[i] = x} /\ H = {i \in 1 .. Len(h) : h[i] = x}
  OBVIOUS
<1>2. G \in SUBSET H
  BY <1>1
<1>3. IsFiniteSet(H)
  BY <1>1, CountType
<1>4. Cardinality(G) <= Cardinality(H)
  BY <1>2, <1>3, FS_Subset
<1> QED
  BY <1>1, <1>4 DEF Count

(* One more element counts once. *)
LEMMA CountAppend ==
    ASSUME NEW C, NEW s \in Seq(C), NEW e \in C, NEW x
    PROVE  Count(Append(s, e), x) = Count(s, x) + (IF e = x THEN 1 ELSE 0)
<1>1. PICK n, t : n = Len(s) /\ t = Append(s, e)
  OBVIOUS
<1>2. n \in Nat /\ Len(t) = n + 1 /\ t[n + 1] = e /\ \A i \in 1 .. n : t[i] = s[i]
  BY <1>1
<1>3. PICK I : I = {i \in 1 .. n : s[i] = x}
  OBVIOUS
<1>4. {i \in 1 .. n + 1 : t[i] = x} = IF e = x THEN I \cup {n + 1} ELSE I
  BY <1>2, <1>3
<1>5. IsFiniteSet(I) /\ Cardinality(I) \in Nat /\ n + 1 \notin I
  <2>1. IsFiniteSet(I)
    BY <1>1, <1>2, <1>3, CountType
  <2>2. Cardinality(I) \in Nat
    BY <2>1, FS_CardinalityType
  <2>3. n + 1 \notin I
    BY <1>2, <1>3
  <2> QED
    BY <2>1, <2>2, <2>3
<1>6. Cardinality(I \cup {n + 1}) = Cardinality(I) + 1
  BY <1>5, FS_AddElement
<1>7. Count(s, x) = Cardinality(I)
  BY <1>1, <1>3 DEF Count
<1>8. Count(t, x) = Cardinality({i \in 1 .. n + 1 : t[i] = x})
  BY <1>2 DEF Count
<1>9. Count(t, x) = Cardinality(IF e = x THEN I \cup {n + 1} ELSE I)
  BY <1>4, <1>8
<1> QED
  BY <1>1, <1>5, <1>6, <1>7, <1>9
-----------------------------------------------------------------------------
(* The number of keys in a bag adds up what the elements of its domain      *)
(* count, in whatever order.                                                *)
AnyOf(S) == CHOOSE k \in S : TRUE
Sums(f, b) == [s \in SUBSET DOMAIN b |-> IF s = {} THEN 0 ELSE b[AnyOf(s)] + f[s \ {AnyOf(s)}]]
SumOf(b) == CHOOSE f : f = Sums(f, b)

(* If b counts the elements of h, all of them. *)
LEMMA SumsUp ==
    ASSUME NEW C, NEW h \in Seq(C), NEW b, DOMAIN b = {h[i] : i \in 1 .. Len(h)},
           \A k \in DOMAIN b : b[k] = Count(h, k)
    PROVE  SumOf(b)[DOMAIN b] = Len(h)
<1>1. PICK n, D : n = Len(h) /\ D = DOMAIN b
  OBVIOUS
<1>2. n \in Nat /\ IsFiniteSet(1 .. n) /\ Cardinality(1 .. n) = n
  <2>1. n \in Nat
    BY <1>1
  <2> QED
    BY <2>1, FS_Interval
<1>3. /\ \A k : k \in D <=> \E i \in 1 .. n : h[i] = k
      /\ \A k \in D : b[k] = Cardinality({i \in 1 .. n : h[i] = k})
  BY <1>1 DEF Count
<1> DEFINE P(s) == {i \in 1 .. n : h[i] \in s}
           G == [s \in SUBSET D |-> Cardinality(P(s))]
<1>4. \A s : IsFiniteSet(P(s)) /\ Cardinality(P(s)) \in Nat
  <2> SUFFICES ASSUME NEW s PROVE IsFiniteSet(P(s)) /\ Cardinality(P(s)) \in Nat
    OBVIOUS
  <2>1. P(s) \in SUBSET (1 .. n)
    OBVIOUS
  <2> HIDE DEF P
  <2>2. IsFiniteSet(P(s))
    BY <1>2, <2>1, FS_Subset
  <2> QED
    BY <2>2, FS_CardinalityType
<1>5. ASSUME NEW s \in SUBSET D, NEW k \in s
      PROVE  Cardinality(P(s)) = b[k] + Cardinality(P(s \ {k}))
  <2>1. PICK A, B, E : A = P(s) /\ B = P(s \ {k}) /\ E = {i \in 1 .. n : h[i] = k}
    OBVIOUS
  <2>2. A = B \cup E /\ B \cap E = {}
    BY <2>1
  <2>3. IsFiniteSet(B) /\ IsFiniteSet(E)
    <3>1. E = P({k})
      BY <2>1
    <3> HIDE DEF P
    <3> QED
      BY <1>4, <2>1, <3>1
  <2>4. Cardinality(B \cup E) = Cardinality(B) + Cardinality(E) - Cardinality(B \cap E)
    BY <2>3, FS_Union
  <2>5. Cardinality(B) \in Nat /\ Cardinality(E) \in Nat /\ Cardinality(B \cap E) = 0
    BY <2>2, <2>3, FS_CardinalityType, FS_EmptySet
  <2>6. b[k] = Cardinality(E)
    BY <1>3, <2>1
  <2> HIDE DEF P
  <2>7. Cardinality(A) = Cardinality(E) + Cardinality(B)
    BY <2>2, <2>4, <2>5
  <2> QED
    BY <2>1, <2>6, <2>7
<1>6. Cardinality(P({})) = 0
  BY FS_EmptySet
<1>7. Cardinality(P(D)) = n
  <2>1. P(D) = 1 .. n
    BY <1>3
  <2> QED
    BY <1>2, <2>1
<1> HIDE DEF P
<1>8. \A s \in SUBSET D : s # {} => AnyOf(s) \in s
  BY DEF AnyOf
<1>9. G = Sums(G, b)
  <2>1. \A s \in SUBSET D : G[s] = IF s = {} THEN 0 ELSE b[AnyOf(s)] + G[s \ {AnyOf(s)}]
    <3> SUFFICES ASSUME NEW s \in SUBSET D
                 PROVE  G[s] = IF s = {} THEN 0 ELSE b[AnyOf(s)] + G[s \ {AnyOf(s)}]
      OBVIOUS
    <3>1. CASE s = {}
      BY <1>6, <3>1
    <3>2. CASE s # {}
      <4>1. AnyOf(s) \in s
        BY <1>8, <3>2
      <4> QED
        BY <1>5, <3>2, <4>1
    <3> QED
      BY <3>1, <3>2
  <2>2. G = [s \in SUBSET D |-> G[s]]
    OBVIOUS
  <2> HIDE DEF G
  <2> QED
    BY <1>1, <2>1, <2>2 DEF Sums
<1>10. PICK f : f = Sums(f, b) /\ f = SumOf(b)
  <2> HIDE DEF G
  <2> QED
    BY <1>9 DEF SumOf
<1>11. \A s \in SUBSET D : f[s] = IF s = {} THEN 0 ELSE b[AnyOf(s)] + f[s \ {AnyOf(s)}]
  BY <1>1, <1>10 DEF Sums
<1> DEFINE M == {m \in Nat : \A s \in SUBSET D : Cardinality(s) = m => f[s] = G[s]}
<1>12. IsFiniteSet(D)
  <2>1. PICK hs : hs = [i \in 1 .. n |-> h[i]]
    OBVIOUS
  <2>2. hs \in Surjection(1 .. n, D)
    BY <1>3, <2>1 DEF Surjection
  <2> QED
    BY <1>2, <2>2, FS_Surjection
<1>13. \A s \in SUBSET D : IsFiniteSet(s)
  BY <1>12, FS_Subset
<1>14. 0 \in M
  <2> SUFFICES ASSUME NEW s \in SUBSET D, Cardinality(s) = 0 PROVE f[s] = G[s]
    OBVIOUS
  <2>1. s = {}
    BY <1>13, FS_EmptySet
  <2> QED
    BY <1>6, <1>11, <2>1
<1>15. ASSUME NEW m \in Nat, m \in M PROVE m + 1 \in M
  <2> HIDE DEF G
  <2> SUFFICES ASSUME NEW s \in SUBSET D, Cardinality(s) = m + 1 PROVE f[s] = G[s]
    BY m + 1 \in Nat
  <2> HIDE DEF M
  <2>1. s # {}
    <3>1. m + 1 # 0
      OBVIOUS
    <3>2. Cardinality(s) # 0
      BY <3>1
    <3>3. Cardinality({}) = 0
      BY FS_EmptySet
    <3> QED
      BY <3>2, <3>3
  <2>2. PICK k : k = AnyOf(s) /\ k \in s
    BY <1>8, <2>1
  <2>3. Cardinality(s \ {k}) = m
    <3>1. Cardinality(s \ {k}) = Cardinality(s) - 1
      BY <1>13, <2>2, FS_RemoveElement
    <3> QED
      BY <3>1
  <2>4. s \ {k} \in SUBSET D
    OBVIOUS
  <2>5. f[s \ {k}] = G[s \ {k}]
    BY <1>15, <2>3, <2>4 DEF M
  <2>6. f[s] = b[k] + f[s \ {k}]
    BY <1>11, <2>1, <2>2
  <2>7. G[s] = b[k] + G[s \ {k}]
    BY <1>5, <2>2, <2>4 DEF G
  <2> QED
    BY <2>5, <2>6, <2>7
<1>16. Nat \subseteq M
  <2> HIDE DEF M
  <2> QED
    BY <1>14, <1>15, Induction
<1>17. f[D] = G[D]
  <2>1. Cardinality(D) \in M /\ D \in SUBSET D
    <3> HIDE DEF M
    <3> QED
      BY <1>12, <1>16, FS_CardinalityType
  <2> HIDE DEF G
  <2> QED
    BY <2>1
<1>18. G[D] = n
  BY <1>7
<1> HIDE DEF G, M
<1> QED
  BY <1>1, <1>10, <1>17, <1>18
=============================================================================

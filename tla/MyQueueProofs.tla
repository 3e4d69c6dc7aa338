--------------------------- MODULE MyQueueProofs ---------------------------
(***************************************************************************)
(* my_queue for every set of keys and every size: as long as queue_remove  *)
(* has left no element below its place the array is a heap, so that its    *)
(* top is the best element; and whatever is called it is a priority queue. *)
(*                                                                         *)
(* The way up from a position and the way down are sequences of positions, *)
(* found by recursion in the model; the lemmas say first what these ways   *)
(* are, then what moving elements along them does to the order.            *)
(***************************************************************************)
EXTENDS MyQueue, ProofLemmas

(* a may be above b. *)
Leq(a, b) == Compare(a, b) <= 0

(* Whichever element is to be on top, this is a total order of the keys.    *)
LEMMA Comparing ==
    ASSUME max_at_top \in {1, -1}
    PROVE  /\ \A a, b \in Keys : Leq(a, b) \/ Leq(b, a)
           /\ \A a, b, c \in Keys : Leq(a, b) /\ Leq(b, c) => Leq(a, c)
           /\ \A a, b \in Keys : /\ Compare(a, b) < 0 <=> ~Leq(b, a)
                                 /\ Compare(a, b) > 0 <=> ~Leq(a, b)
                                 /\ Compare(a, b) >= 0 <=> Leq(b, a)
<1>1. Keys \subseteq Int
  BY MyQueueAssumption
<1>2. CASE max_at_top = 1
  BY <1>1, <1>2 DEF Leq, Compare
<1>3. CASE max_at_top = -1
  BY <1>1, <1>3 DEF Leq, Compare
<1> QED
  BY <1>2, <1>3

(* Half of a position is the one above it. *)
LEMMA Halves ==
    \A x \in Nat : /\ x \div 2 \in Nat /\ x \div 2 <= x
                   /\ x > 0 => x \div 2 < x
                   /\ x > 1 => x \div 2 >= 1
                   /\ x = 2 * (x \div 2) \/ x = 2 * (x \div 2) + 1
OBVIOUS

-----------------------------------------------------------------------------
(* The way up. *)
UpStep(up, idx) == [k \in 0 .. idx |-> IF k = 0 THEN idx ELSE up[k - 1] \div 2]
Up(idx) == CHOOSE up : up = UpStep(up, idx)

(* It begins at idx and halves. *)
LEMMA UpIs ==
    ASSUME NEW idx \in Nat
    PROVE  /\ Up(idx)[0] = idx
           /\ \A k \in 0 .. idx : Up(idx)[k] \in Nat
           /\ \A k \in 0 .. idx - 1 : Up(idx)[k + 1] = Up(idx)[k] \div 2
<1> DEFINE F == [j \in Nat |-> [x \in Nat |-> x \div 2]]
<1>1. \A j \in Nat : \A x \in Nat : F[j][x] = x \div 2 /\ F[j][x] \in Nat
  BY Halves
<1> HIDE DEF F
<1>2. PICK g \in [0 .. idx -> Nat] : g[0] = idx /\ \A j \in 0 .. idx - 1 : g[j + 1] = F[j][g[j]]
  <2>1. PICK S : S = Nat
    OBVIOUS
  <2>2. StaysIn(S, F) /\ idx \in S
    BY <1>1, <2>1 DEF StaysIn
  <2>3. \E g \in [0 .. idx -> S] : Runs(g, idx, idx, F)
    BY <2>2, Iterate
  <2> QED
    BY <2>1, <2>3 DEF Runs
<1>3. g = UpStep(g, idx)
  <2>1. ASSUME NEW k \in 0 .. idx PROVE g[k] = IF k = 0 THEN idx ELSE g[k - 1] \div 2
    <3>1. CASE k = 0
      BY <1>2, <3>1
    <3>2. CASE k # 0
      <4>1. k - 1 \in 0 .. idx - 1 /\ k - 1 \in Nat /\ k - 1 \in 0 .. idx /\ (k - 1) + 1 = k
        BY <3>2
      <4>2. g[(k - 1) + 1] = F[k - 1][g[k - 1]] /\ g[k - 1] \in Nat
        BY <1>2, <4>1
      <4> QED
        BY <1>1, <3>2, <4>1, <4>2
    <3> QED
      BY <3>1, <3>2
  <2>2. g = [k \in 0 .. idx |-> g[k]]
    OBVIOUS
  <2> QED
    BY <2>1, <2>2 DEF UpStep
<1>4. Up(idx) = UpStep(Up(idx), idx)
  BY <1>3 DEF Up
<1> DEFINE u == Up(idx)
<1> HIDE DEF u
<1>5. \A k \in 0 .. idx : u[k] = IF k = 0 THEN idx ELSE u[k - 1] \div 2
  BY <1>4 DEF UpStep, u
<1>6. u[0] = idx
  BY <1>5
<1>7. ASSUME NEW k \in 0 .. idx - 1 PROVE u[k + 1] = u[k] \div 2
  <2>1. k + 1 \in 0 .. idx /\ k + 1 # 0 /\ (k + 1) - 1 = k
    OBVIOUS
  <2> QED
    BY <1>5, <2>1
<1>8. \A k \in 0 .. idx : u[k] \in Nat
  <2> DEFINE S == {k \in Nat : k <= idx => u[k] \in Nat}
  <2>1. 0 \in S
    BY <1>6
  <2>2. \A k \in Nat : k \in S => k + 1 \in S
    BY <1>7, Halves
  <2>3. Nat \subseteq S
    <3> HIDE DEF S
    <3> QED
      BY <2>1, <2>2, Induction
  <2> QED
    BY <2>3
<1> QED
  BY <1>6, <1>7, <1>8 DEF u

(* The positions above idx, and idx itself: each one's half is the next.    *)
LEMMA AboveIs ==
    ASSUME NEW idx \in Nat, idx > 0
    PROVE  /\ idx \in Above(idx) /\ Above(idx) \subseteq 1 .. idx
           /\ \A p \in Above(idx) : p = 1 \/ p \div 2 \in Above(idx)
           /\ \A p, q \in Above(idx) : p < q => p <= q \div 2
<1> DEFINE u == Up(idx)
<1>1. /\ u[0] = idx
      /\ \A k \in 0 .. idx : u[k] \in Nat
      /\ \A k \in 0 .. idx - 1 : u[k + 1] = u[k] \div 2
  BY UpIs
<1>2. Above(idx) = {u[k] : k \in 0 .. idx} \ {0}
  BY DEF Above, Up, UpStep
<1> HIDE DEF u
<1>3. \A k \in 0 .. idx : u[k] <= idx - k
  <2> DEFINE S == {k \in Nat : k <= idx => u[k] <= idx - k}
  <2>1. 0 \in S
    BY <1>1
  <2>2. ASSUME NEW k \in Nat, k \in S PROVE k + 1 \in S
    <3> SUFFICES ASSUME k + 1 <= idx PROVE u[k + 1] <= idx - (k + 1)
      OBVIOUS
    <3>1. u[k] <= idx - k /\ u[k] \in Nat /\ u[k + 1] = u[k] \div 2
      BY <1>1, <2>2
    <3>2. PICK x \in Nat : x = u[k]
      BY <3>1
    <3>3. x <= idx - k /\ (x > 0 => x \div 2 < x) /\ x \div 2 <= x /\ x \div 2 \in Nat
      BY <3>1, <3>2, Halves
    <3>4. x \div 2 <= idx - (k + 1)
      BY <3>3
    <3> QED
      BY <3>1, <3>2, <3>4
  <2>3. Nat \subseteq S
    <3> HIDE DEF S
    <3> QED
      BY <2>1, <2>2, Induction
  <2> QED
    BY <2>3
<1>4. \A k, l \in 0 .. idx : k <= l => u[l] <= u[k]
  <2> SUFFICES ASSUME NEW k \in 0 .. idx, NEW l \in 0 .. idx, k <= l PROVE u[l] <= u[k]
    OBVIOUS
  <2> DEFINE S == {d \in Nat : k + d <= idx => u[k + d] <= u[k]}
  <2>1. 0 \in S
    BY <1>1
  <2>2. ASSUME NEW d \in Nat, d \in S PROVE d + 1 \in S
    <3> SUFFICES ASSUME k + (d + 1) <= idx PROVE u[k + (d + 1)] <= u[k]
      OBVIOUS
    <3>1. k + d \in 0 .. idx - 1 /\ k + d \in 0 .. idx /\ (k + d) + 1 = k + (d + 1)
      OBVIOUS
    <3>2. u[k + (d + 1)] = u[k + d] \div 2 /\ u[k + d] \in Nat /\ u[k] \in Nat
      BY <1>1, <3>1
    <3>3. u[k + d] <= u[k]
      BY <2>2, <3>1
    <3>4. u[k + d] \div 2 <= u[k + d] /\ u[k + d] \div 2 \in Nat
      BY <3>2, Halves
    <3> QED
      BY <3>2, <3>3, <3>4
  <2>3. Nat \subseteq S
    <3> HIDE DEF S
    <3> QED
      BY <2>1, <2>2, Induction
  <2>4. l - k \in S /\ k + (l - k) = l
    BY <2>3
  <2> QED
    BY <2>4
<1>5. idx \in Above(idx) /\ Above(idx) \subseteq 1 .. idx
  <2>1. \A k \in 0 .. idx : u[k] # 0 => u[k] \in 1 .. idx
    BY <1>1, <1>3
  <2> QED
    BY <1>1, <1>2, <2>1
<1>6. ASSUME NEW p \in Above(idx) PROVE p = 1 \/ p \div 2 \in Above(idx)
  <2> SUFFICES ASSUME p # 1 PROVE p \div 2 \in Above(idx)
    OBVIOUS
  <2>1. PICK k \in 0 .. idx : p = u[k] /\ p \in 1 .. idx
    BY <1>2, <1>5
  <2>2. k \in 0 .. idx - 1
    BY <1>3, <2>1
  <2>3. u[k + 1] = p \div 2 /\ k + 1 \in 0 .. idx
    BY <1>1, <2>1, <2>2
  <2>4. p \div 2 # 0
    BY <2>1, Halves
  <2> QED
    BY <1>2, <2>3, <2>4
<1>7. ASSUME NEW p \in Above(idx), NEW q \in Above(idx), p < q PROVE p <= q \div 2
  <2>1. PICK k \in 0 .. idx, l \in 0 .. idx : p = u[k] /\ q = u[l] /\ p \in 1 .. idx /\ q \in 1 .. idx
    BY <1>2, <1>5
  <2>2. l < k
    <3> SUFFICES ASSUME k <= l PROVE FALSE
      OBVIOUS
    <3>1. u[l] <= u[k]
      BY <1>4
    <3> QED
      BY <1>7, <2>1, <3>1
  <2>3. l + 1 \in 0 .. idx /\ l \in 0 .. idx - 1 /\ l + 1 <= k
    BY <2>2
  <2>4. u[k] <= u[l + 1] /\ u[l + 1] = u[l] \div 2
    BY <1>1, <1>4, <2>3
  <2> QED
    BY <2>1, <2>4
<1> QED
  BY <1>5, <1>6, <1>7

(* The least of some numbers. *)
LEMMA LeastOf ==
    ASSUME NEW n \in Nat, NEW S, S \subseteq 0 .. n, S # {}
    PROVE  Min(S) \in S /\ \A k \in S : Min(S) <= k
<1>1. \E m \in S : \A k \in S : m <= k
  <2>1. S \subseteq Nat
    OBVIOUS
  <2> QED
    BY <2>1, LeastNumber
<1> QED
  BY <1>1 DEF Min

(* ... and the greatest. *)
LEMMA GreatestOf ==
    ASSUME NEW n \in Nat, NEW S, S \subseteq 0 .. n, S # {}
    PROVE  Max(S) \in S /\ \A k \in S : Max(S) >= k
<1>1. \E m \in S : \A k \in S : m >= k
  BY GreatestNumber
<1> QED
  BY <1>1 DEF Max

-----------------------------------------------------------------------------
(* The order of a heap. *)
Ordered(h) == \A i \in 2 .. Len(h) : Leq(h[i \div 2], h[i])

(* queue_insert keeps it: the elements that the new one passes move down    *)
(* one place each, and above it only those remain that may be above it.     *)
LEMMA ClimbOrders ==
    ASSUME max_at_top \in {1, -1}, NEW h \in Seq(Keys), NEW element \in Keys
    PROVE  /\ Climb(h, element) \in Seq(Keys)
           /\ Len(Climb(h, element)) = Len(h) + 1
           /\ Ordered(h) => Ordered(Climb(h, element))
<1> DEFINE idx    == Len(h) + 1
           path   == Above(idx)
           passed == {p \in path \ {idx} :
                        \A q \in path \ {idx} : q >= p => Compare(element, h[q]) < 0}
           rest   == IF passed = {} THEN idx ELSE Min(passed)
           g      == Climb(h, element)
<1>1. idx \in Nat /\ idx > 0 /\ Len(h) = idx - 1 /\ \A p \in 1 .. idx - 1 : h[p] \in Keys
  OBVIOUS
<1>2. g = [p \in 1 .. idx |-> IF p = rest THEN element
                              ELSE IF p \in path /\ p > rest THEN h[p \div 2]
                              ELSE h[p]]
  BY DEF Climb
<1> HIDE DEF idx, g
<1>3. /\ idx \in path /\ path \subseteq 1 .. idx
      /\ \A p \in path : p = 1 \/ p \div 2 \in path
      /\ \A p, q \in path : p < q => p <= q \div 2
  BY <1>1, AboveIs
<1> HIDE DEF path
<1>4. passed # {} => rest \in passed /\ \A p \in passed : rest <= p
  <2>1. passed \subseteq 0 .. idx
    <3>1. passed \subseteq path
      OBVIOUS
    <3>2. 1 .. idx \subseteq 0 .. idx
      BY <1>1
    <3> HIDE DEF passed
    <3> QED
      BY <1>3, <3>1, <3>2
  <2> HIDE DEF passed
  <2> QED
    BY <1>1, <2>1, LeastOf
<1>5. /\ rest \in path
      /\ rest # idx => \A q \in path \ {idx} : q >= rest => ~Leq(h[q], element)
  <2>1. \A q \in path \ {idx} : h[q] \in Keys
    BY <1>1, <1>3
  <2> QED
    BY <1>3, <1>4, <2>1, Comparing
<1>6. ASSUME NEW p \in path, p < rest
      PROVE  \E q \in path \ {idx} : q >= p /\ Leq(h[q], element)
  <2>0. p \in 1 .. idx /\ rest \in 1 .. idx
    BY <1>3, <1>5
  <2>1. p \in path \ {idx}
    BY <1>1, <1>6, <2>0
  <2>2. p \notin passed
    <3> SUFFICES ASSUME p \in passed PROVE FALSE
      OBVIOUS
    <3> HIDE DEF passed, rest
    <3>1. rest <= p
      BY <1>4
    <3> QED
      BY <1>6, <2>0, <3>1
  <2>3. PICK q \in path \ {idx} : q >= p /\ ~(Compare(element, h[q]) < 0)
    BY <2>1, <2>2
  <2>4. h[q] \in Keys
    BY <1>1, <1>3
  <2> QED
    BY <2>3, <2>4, Comparing
<1> HIDE DEF rest, passed
<1>7. \A p \in 1 .. idx : g[p] = IF p = rest THEN element
                                 ELSE IF p \in path /\ p > rest THEN h[p \div 2] ELSE h[p]
  BY <1>2
<1>8. \A p \in path : p > rest => p \div 2 \in path /\ p \div 2 >= rest /\ p \div 2 \in 1 .. idx - 1
  <2> SUFFICES ASSUME NEW p \in path, p > rest
               PROVE  p \div 2 \in path /\ p \div 2 >= rest /\ p \div 2 \in 1 .. idx - 1
    OBVIOUS
  <2>1. p \in 1 .. idx /\ rest \in 1 .. idx /\ p # 1
    BY <1>3, <1>5
  <2>2. p \div 2 \in path /\ p \div 2 >= rest
    BY <1>3, <1>5, <2>1
  <2>3. p \div 2 < p
    BY <2>1, Halves
  <2> QED
    BY <1>1, <1>3, <2>1, <2>2, <2>3
<1>9. \A p \in 1 .. idx : p # rest /\ ~(p \in path /\ p > rest) => p \in 1 .. idx - 1
  BY <1>1, <1>3, <1>5
<1>10. g \in Seq(Keys) /\ Len(g) = idx
  <2>1. \A p \in 1 .. idx : g[p] \in Keys
    BY <1>1, <1>7, <1>8, <1>9
  <2>2. g \in [1 .. idx -> Keys]
    BY <1>2, <2>1
  <2> QED
    BY <1>1, <2>2, FunctionIsSeq
<1>11. ASSUME Ordered(h) PROVE Ordered(g)
  <2>1. \A i \in 2 .. idx - 1 : Leq(h[i \div 2], h[i])
    BY <1>1, <1>11 DEF Ordered
  <2>2. \A a, b, c \in Keys : Leq(a, b) /\ Leq(b, c) => Leq(a, c)
    BY Comparing
  <2>3. \A a, b \in Keys : ~Leq(b, a) => Leq(a, b)
    BY Comparing
  <2> SUFFICES ASSUME NEW i \in 2 .. idx PROVE Leq(g[i \div 2], g[i])
    BY <1>10 DEF Ordered
  <2> DEFINE j == i \div 2
  <2> SUFFICES Leq(g[j], g[i])
    OBVIOUS
  <2>4. j \in 1 .. idx - 1 /\ j < i /\ i \in 1 .. idx /\ j \in 1 .. idx
    BY <1>1, Halves
  <2>5. i \in path => j \in path
    BY <1>3
  <2>6. i \in 2 .. idx - 1 => Leq(h[j], h[i])
    BY <2>1
  <2>7. j >= 2 => Leq(h[j \div 2], h[j])
    BY <2>1, <2>4
  <2> HIDE DEF j
  <2>8. h[j] \in Keys /\ (i # idx => h[i] \in Keys)
    BY <1>1, <2>4
  <2>9. CASE i \notin path
    <3>1. i # idx /\ i # rest /\ g[i] = h[i] /\ i \in 2 .. idx - 1
      BY <1>3, <1>5, <1>7, <2>4, <2>9
    <3>2. Leq(h[j], h[i])
      BY <2>6, <3>1
    <3>3. CASE j = rest
      <4>1. ~Leq(h[j], element) /\ g[j] = element
        BY <1>5, <1>7, <2>4, <3>3
      <4> QED
        BY <2>2, <2>3, <2>8, <3>1, <3>2, <4>1
    <3>4. CASE j # rest /\ j \in path /\ j > rest
      <4>1. g[j] = h[j \div 2] /\ h[j \div 2] \in Keys /\ j >= 2
        BY <1>1, <1>3, <1>5, <1>7, <1>8, <2>4, <3>4
      <4> QED
        BY <2>2, <2>7, <2>8, <3>1, <3>2, <4>1
    <3>5. CASE j # rest /\ ~(j \in path /\ j > rest)
      BY <1>7, <2>4, <3>1, <3>2, <3>5
    <3> QED
      BY <3>3, <3>4, <3>5
  <2>10. CASE i \in path /\ i > rest
    <3>1. g[i] = h[j] /\ j \in path /\ j >= rest
      BY <1>7, <1>8, <2>4, <2>10 DEF j
    <3>2. CASE j = rest
      <4>1. ~Leq(h[j], element) /\ g[j] = element
        BY <1>5, <1>7, <2>4, <3>1, <3>2
      <4> QED
        BY <2>3, <2>8, <3>1, <4>1
    <3>3. CASE j > rest
      <4>1. g[j] = h[j \div 2] /\ j >= 2
        BY <1>3, <1>5, <1>7, <2>4, <3>1, <3>3
      <4> QED
        BY <2>7, <3>1, <4>1
    <3> QED
      BY <1>3, <1>5, <2>4, <3>1, <3>2, <3>3
  <2>11. CASE i = rest
    <3>1. j \in path /\ j < rest /\ g[i] = element /\ g[j] = h[j]
      BY <1>5, <1>7, <2>4, <2>5, <2>11
    <3>2. PICK q \in path \ {idx} : q >= j /\ Leq(h[q], element)
      BY <1>6, <3>1
    <3>3. q < rest
      <4>1. q \in 1 .. idx /\ rest \in 1 .. idx /\ q # idx
        BY <1>3, <1>5, <3>2
      <4>2. CASE rest = idx
        BY <1>1, <4>1, <4>2
      <4>3. CASE rest # idx
        BY <1>5, <3>2, <4>1, <4>3
      <4> QED
        BY <4>2, <4>3
    <3>4. q <= j
      BY <1>3, <1>5, <2>11, <3>3 DEF j
    <3>5. q = j
      BY <1>3, <2>4, <3>2, <3>4
    <3> QED
      BY <3>1, <3>2, <3>5
  <2>12. CASE i \in path /\ i < rest
    <3>1. j < rest /\ i \in 2 .. idx - 1
      BY <1>3, <1>5, <2>4, <2>12
    <3>2. g[i] = h[i] /\ g[j] = h[j]
      BY <1>3, <1>5, <1>7, <2>4, <2>12, <3>1
    <3> QED
      BY <2>6, <3>1, <3>2
  <2> QED
    BY <1>3, <1>5, <2>4, <2>9, <2>10, <2>11, <2>12 DEF j
<1> QED
  BY <1>10, <1>11 DEF g, idx

-----------------------------------------------------------------------------
(* The way down. *)

(* The better child of an inner node may be above all its children.         *)
LEMMA BetterIs ==
    ASSUME max_at_top \in {1, -1}, NEW h \in Seq(Keys), NEW i \in 1 .. Len(h) \div 2
    PROVE  LET c == BetterChild(h, Len(h), i) IN
             /\ c \in 2 .. Len(h) /\ c \div 2 = i /\ c > i
             /\ \A d \in 2 .. Len(h) : d \div 2 = i => Leq(h[c], h[d])
<1> DEFINE n == Len(h)
           c == BetterChild(h, n, i)
<1>1. n \in Nat /\ n = Len(h) /\ \A p \in 1 .. n : h[p] \in Keys
  OBVIOUS
<1>2. c = IF 2 * i < n /\ Compare(h[2 * i], h[2 * i + 1]) > 0 THEN 2 * i + 1 ELSE 2 * i
  BY DEF BetterChild
<1> HIDE DEF n, c
<1>3. i \in Nat /\ i >= 1 /\ 2 * i <= n
  BY <1>1
<1>4. c \in {2 * i, 2 * i + 1} /\ c \in 2 .. n
  BY <1>1, <1>2, <1>3
<1>5. c \div 2 = i /\ c > i
  BY <1>3, <1>4
<1>6. ASSUME NEW d \in 2 .. n, d \div 2 = i PROVE Leq(h[c], h[d])
  <2>1. d = 2 * i \/ d = 2 * i + 1
    BY <1>3, <1>6
  <2>2. h[d] \in Keys /\ h[2 * i] \in Keys /\ h[c] \in Keys
    BY <1>1, <1>3, <1>4
  <2>3. CASE d = c
    BY <2>2, <2>3, Comparing
  <2>4. CASE d # c
    <3>1. 2 * i < n /\ h[2 * i + 1] \in Keys
      BY <1>1, <1>2, <1>3, <2>1, <2>4
    <3>2. CASE c = 2 * i
      <4>1. d = 2 * i + 1 /\ ~(Compare(h[2 * i], h[2 * i + 1]) > 0)
        BY <1>2, <1>3, <2>1, <2>4, <3>1, <3>2
      <4> QED
        BY <2>2, <3>1, <3>2, <4>1, Comparing
    <3>3. CASE c = 2 * i + 1
      <4>1. d = 2 * i /\ Compare(h[2 * i], h[2 * i + 1]) > 0
        BY <1>2, <1>3, <2>1, <2>4, <3>1, <3>3
      <4> QED
        BY <2>2, <3>1, <3>3, <4>1, Comparing
    <3> QED
      BY <1>4, <3>2, <3>3
  <2> QED
    BY <2>3, <2>4
<1> QED
  BY <1>4, <1>5, <1>6 DEF n, c

(* The way as the model defines it: 0 stands for its end. *)
DownStep(at, h, n, idx) ==
    [k \in 0 .. n |-> IF k = 0 THEN idx
                      ELSE IF at[k - 1] \in 1 .. n \div 2 THEN BetterChild(h, n, at[k - 1]) ELSE 0]
Down(h, n, idx) == CHOOSE at : at = DownStep(at, h, n, idx)

GoesDown(u, h, n, idx) ==
    /\ u[0] = idx
    /\ \A k \in 0 .. n : u[k] \in 0 .. n
    /\ \A k \in 0 .. n - 1 : u[k + 1] = IF u[k] \in 1 .. n \div 2
                                        THEN BetterChild(h, n, u[k]) ELSE 0

(* The recursion can be carried out. *)
LEMMA DownIs ==
    ASSUME max_at_top \in {1, -1}, NEW h \in Seq(Keys), NEW n, n = Len(h), NEW idx \in 1 .. n
    PROVE  GoesDown(Down(h, n, idx), h, n, idx)
<1>1. n \in Nat
  OBVIOUS
<1> DEFINE F == [j \in Nat |-> [x \in 0 .. n |-> IF x \in 1 .. n \div 2
                                                 THEN BetterChild(h, n, x) ELSE 0]]
<1>2. ASSUME NEW x \in 1 .. n \div 2 PROVE BetterChild(h, n, x) \in 0 .. n
  <2>1. BetterChild(h, Len(h), x) \in 2 .. Len(h)
    BY BetterIs
  <2> QED
    BY <2>1
<1>3. \A j \in Nat : \A x \in 0 .. n :
          /\ F[j][x] = IF x \in 1 .. n \div 2 THEN BetterChild(h, n, x) ELSE 0
          /\ F[j][x] \in 0 .. n
  BY <1>1, <1>2
<1> HIDE DEF F
<1>4. PICK g \in [0 .. n -> 0 .. n] : g[0] = idx /\ \A j \in 0 .. n - 1 : g[j + 1] = F[j][g[j]]
  <2>1. PICK S : S = 0 .. n
    OBVIOUS
  <2>2. StaysIn(S, F) /\ idx \in S
    BY <1>1, <1>3, <2>1 DEF StaysIn
  <2>3. \E g \in [0 .. n -> S] : Runs(g, n, idx, F)
    BY <1>1, <2>2, Iterate
  <2> QED
    BY <2>1, <2>3 DEF Runs
<1>5. g = DownStep(g, h, n, idx)
  <2>1. ASSUME NEW k \in 0 .. n
        PROVE  g[k] = IF k = 0 THEN idx
                      ELSE IF g[k - 1] \in 1 .. n \div 2 THEN BetterChild(h, n, g[k - 1]) ELSE 0
    <3>1. CASE k = 0
      BY <1>4, <3>1
    <3>2. CASE k # 0
      <4>1. k - 1 \in 0 .. n - 1 /\ k - 1 \in Nat /\ k - 1 \in 0 .. n /\ (k - 1) + 1 = k
        BY <1>1, <3>2
      <4>2. g[(k - 1) + 1] = F[k - 1][g[k - 1]] /\ g[k - 1] \in 0 .. n
        BY <1>4, <4>1
      <4> QED
        BY <1>3, <3>2, <4>1, <4>2
    <3> QED
      BY <3>1, <3>2
  <2>2. g = [k \in 0 .. n |-> g[k]]
    BY <1>4
  <2> QED
    BY <2>1, <2>2 DEF DownStep
<1>6. Down(h, n, idx) = DownStep(Down(h, n, idx), h, n, idx)
  BY <1>5 DEF Down
<1> DEFINE u == Down(h, n, idx)
<1> HIDE DEF u
<1>7. \A k \in 0 .. n : u[k] = IF k = 0 THEN idx
                               ELSE IF u[k - 1] \in 1 .. n \div 2
                                    THEN BetterChild(h, n, u[k - 1]) ELSE 0
  BY <1>6 DEF DownStep, u
<1>8. u[0] = idx
  BY <1>1, <1>7
<1>9. ASSUME NEW k \in 0 .. n - 1
      PROVE  u[k + 1] = IF u[k] \in 1 .. n \div 2 THEN BetterChild(h, n, u[k]) ELSE 0
  <2>1. k + 1 \in 0 .. n /\ k + 1 # 0 /\ (k + 1) - 1 = k
    BY <1>1
  <2> QED
    BY <1>7, <2>1
<1>10. ASSUME NEW k \in 0 .. n PROVE u[k] \in 0 .. n
  <2>1. CASE k = 0
    BY <1>1, <1>8, <2>1
  <2>2. CASE k # 0
    <3>1. u[k] = IF u[k - 1] \in 1 .. n \div 2 THEN BetterChild(h, n, u[k - 1]) ELSE 0
      BY <1>7, <2>2
    <3> QED
      BY <1>1, <1>2, <3>1
  <2> QED
    BY <2>1, <2>2
<1> QED
  BY <1>8, <1>9, <1>10 DEF u, GoesDown

(* The way from idx to a leaf, from each position to its better child.      *)
IsWay(way, len, h, n, idx) ==
    /\ len \in Nat \ {0} /\ way \in [1 .. len -> idx .. n] /\ Len(way) = len
    /\ way[1] = idx
    /\ \A k \in 1 .. len - 1 : /\ way[k] \in 1 .. n \div 2
                               /\ way[k + 1] = BetterChild(h, n, way[k])
    /\ ~(way[len] \in 1 .. n \div 2)
    /\ \A k, l \in 1 .. len : k < l => way[k] < way[l]

(* WayDown gives such a way. *)
LEMMA WayIs ==
    ASSUME max_at_top \in {1, -1}, NEW h \in Seq(Keys), NEW n, n = Len(h), NEW idx \in 1 .. n
    PROVE  \E len, way : WayDown(h, n, idx) = way /\ IsWay(way, len, h, n, idx)
<1>1. n \in Nat /\ n >= 1 /\ idx >= 1
  OBVIOUS
<1> DEFINE u == Down(h, n, idx)
<1>2. /\ u[0] = idx
      /\ \A k \in 0 .. n : u[k] \in 0 .. n
      /\ \A k \in 0 .. n - 1 : u[k + 1] = IF u[k] \in 1 .. n \div 2
                                          THEN BetterChild(h, n, u[k]) ELSE 0
  <2>1. GoesDown(Down(h, n, idx), h, n, idx)
    BY DownIs
  <2> QED
    BY <2>1 DEF GoesDown
<1>3. WayDown(h, n, idx) = [k \in 1 .. Cardinality({j \in 0 .. n : u[j] # 0}) |-> u[k - 1]]
  BY DEF WayDown, Down, DownStep
<1> HIDE DEF u
<1>4. ASSUME NEW k \in 0 .. n - 1
      PROVE  IF u[k] \in 1 .. n \div 2
             THEN u[k + 1] = BetterChild(h, n, u[k]) /\ u[k + 1] > u[k]
             ELSE u[k + 1] = 0
  <2>1. CASE u[k] \in 1 .. n \div 2
    <3>1. PICK x \in 1 .. Len(h) \div 2 : x = u[k]
      BY <2>1
    <3>2. BetterChild(h, Len(h), x) > x
      BY BetterIs
    <3>3. u[k + 1] = BetterChild(h, n, u[k])
      BY <1>2, <2>1
    <3> QED
      BY <2>1, <3>1, <3>2, <3>3
  <2>2. CASE ~(u[k] \in 1 .. n \div 2)
    BY <1>2, <2>2
  <2> QED
    BY <2>1, <2>2
<1>5. \A k, l \in 0 .. n : k <= l => u[l] = 0 \/ u[l] >= u[k] + (l - k)
  <2> SUFFICES ASSUME NEW k \in 0 .. n, NEW l \in 0 .. n, k <= l
               PROVE  u[l] = 0 \/ u[l] >= u[k] + (l - k)
    OBVIOUS
  <2> DEFINE S == {d \in Nat : k + d <= n => u[k + d] = 0 \/ u[k + d] >= u[k] + d}
  <2>1. 0 \in S
    <3>1. u[k] \in Nat /\ k + 0 = k
      BY <1>1, <1>2
    <3> QED
      BY <3>1
  <2>2. ASSUME NEW d \in Nat, d \in S PROVE d + 1 \in S
    <3> SUFFICES ASSUME k + (d + 1) <= n
                 PROVE  u[k + (d + 1)] = 0 \/ u[k + (d + 1)] >= u[k] + (d + 1)
      OBVIOUS
    <3>1. k + d \in 0 .. n - 1 /\ k + d \in 0 .. n /\ (k + d) + 1 = k + (d + 1) /\ (k + d) + 1 \in 0 .. n
      BY <1>1
    <3>2. u[k + d] = 0 \/ u[k + d] >= u[k] + d
      BY <1>1, <2>2, <3>1
    <3>3. u[k + d] \in Nat /\ u[k] \in Nat /\ u[(k + d) + 1] \in Nat
      BY <1>1, <1>2, <3>1
    <3>4. u[(k + d) + 1] = 0 \/ (u[k + d] \in 1 .. n \div 2 /\ u[(k + d) + 1] > u[k + d])
      BY <1>4, <3>1
    <3>5. u[(k + d) + 1] = 0 \/ u[(k + d) + 1] >= u[k] + (d + 1)
      BY <1>1, <3>2, <3>3, <3>4
    <3> QED
      BY <3>1, <3>5
  <2>3. Nat \subseteq S
    <3> HIDE DEF S
    <3> QED
      BY <2>1, <2>2, Induction
  <2>4. l - k \in Nat /\ k + (l - k) = l
    BY <1>1
  <2>5. l - k \in S
    BY <2>3, <2>4
  <2> QED
    BY <1>1, <2>4, <2>5
<1> DEFINE Z == {k \in 0 .. n : u[k] = 0}
<1>6. n \in Z
  <2>1. u[n] = 0 \/ u[n] >= u[0] + (n - 0)
    BY <1>1, <1>5
  <2>2. u[n] \in 0 .. n /\ u[0] = idx
    BY <1>1, <1>2
  <2> QED
    BY <1>1, <2>1, <2>2
<1>7. PICK m \in Z : \A k \in Z : m <= k
  <2>1. Z \subseteq Nat /\ Z # {}
    BY <1>6
  <2> HIDE DEF Z
  <2> QED
    BY <2>1, LeastNumber
<1>8. m \in 0 .. n /\ u[m] = 0 /\ \A k \in 0 .. n : k < m => u[k] # 0
  <2>1. m \in 0 .. n /\ u[m] = 0
    BY <1>7
  <2>2. ASSUME NEW k \in 0 .. n, k < m, u[k] = 0 PROVE FALSE
    <3>1. m <= k
      BY <1>7, <2>2
    <3> QED
      BY <1>1, <2>1, <2>2, <3>1
  <2> QED
    BY <2>1, <2>2
<1>9. \A k \in 0 .. n : k >= m => u[k] = 0
  <2> DEFINE S == {d \in Nat : m + d <= n => u[m + d] = 0}
  <2>1. 0 \in S
    BY <1>1, <1>8
  <2>2. ASSUME NEW d \in Nat, d \in S PROVE d + 1 \in S
    <3> SUFFICES ASSUME m + (d + 1) <= n PROVE u[m + (d + 1)] = 0
      OBVIOUS
    <3>1. m + d \in 0 .. n - 1 /\ (m + d) + 1 = m + (d + 1) /\ m + d <= n
      BY <1>1, <1>8
    <3>2. u[m + d] = 0
      BY <2>2, <3>1
    <3>3. u[(m + d) + 1] = 0
      BY <1>4, <3>1, <3>2
    <3> QED
      BY <3>1, <3>3
  <2>3. Nat \subseteq S
    <3> HIDE DEF S
    <3> QED
      BY <2>1, <2>2, Induction
  <2> SUFFICES ASSUME NEW k \in 0 .. n, k >= m PROVE u[k] = 0
    OBVIOUS
  <2>4. k - m \in Nat /\ m + (k - m) = k /\ m + (k - m) <= n
    BY <1>1, <1>8
  <2>5. k - m \in S
    BY <2>3, <2>4
  <2> QED
    BY <2>4, <2>5
<1>10. m \in Nat \ {0}
  BY <1>1, <1>2, <1>8
<1>11. Cardinality({j \in 0 .. n : u[j] # 0}) = m
  <2>1. {j \in 0 .. n : u[j] # 0} = 0 .. m - 1
    BY <1>1, <1>8, <1>9
  <2>2. Cardinality(0 .. m - 1) = m
    BY <1>10, CountBelow
  <2> QED
    BY <2>1, <2>2
<1>12. PICK way : way = [k \in 1 .. m |-> u[k - 1]]
  OBVIOUS
<1>13. WayDown(h, n, idx) = way
  BY <1>3, <1>11, <1>12
<1>14. \A k \in 1 .. m : way[k] = u[k - 1] /\ k - 1 \in 0 .. n /\ k - 1 < m
  BY <1>1, <1>8, <1>10, <1>12
<1>15. \A k \in 1 .. m : way[k] \in idx .. n
  <2> SUFFICES ASSUME NEW k \in 1 .. m PROVE way[k] \in idx .. n
    OBVIOUS
  <2>1. u[k - 1] \in 0 .. n /\ u[k - 1] # 0 /\ way[k] = u[k - 1] /\ 0 <= k - 1
    BY <1>2, <1>8, <1>10, <1>14
  <2>2. u[k - 1] >= u[0] + ((k - 1) - 0)
    BY <1>1, <1>5, <1>14, <2>1
  <2> QED
    BY <1>1, <1>2, <1>10, <2>1, <2>2
<1>16. way \in [1 .. m -> idx .. n]
  BY <1>12, <1>15
<1>17. Len(way) = m
  BY <1>10, <1>16, FunctionIsSeq
<1>18. way[1] = idx
  BY <1>2, <1>10, <1>14
<1>19. ASSUME NEW k \in 1 .. m - 1
       PROVE  way[k] \in 1 .. n \div 2 /\ way[k + 1] = BetterChild(h, n, way[k])
  <2>1. /\ k \in 1 .. m /\ k + 1 \in 1 .. m /\ (k + 1) - 1 = (k - 1) + 1 /\ k - 1 \in 0 .. n - 1
        /\ (k - 1) + 1 \in 0 .. n /\ (k - 1) + 1 < m
    BY <1>1, <1>8, <1>10
  <2>2. way[k] = u[k - 1] /\ way[k + 1] = u[(k - 1) + 1]
    BY <1>14, <2>1
  <2>3. u[(k - 1) + 1] # 0
    BY <1>8, <2>1
  <2>4. IF u[k - 1] \in 1 .. n \div 2
        THEN u[(k - 1) + 1] = BetterChild(h, n, u[k - 1]) /\ u[(k - 1) + 1] > u[k - 1]
        ELSE u[(k - 1) + 1] = 0
    BY <1>4, <2>1
  <2> QED
    BY <2>2, <2>3, <2>4
<1>20. ~(way[m] \in 1 .. n \div 2)
  <2> SUFFICES ASSUME way[m] \in 1 .. n \div 2 PROVE FALSE
    OBVIOUS
  <2>1. way[m] = u[m - 1] /\ m - 1 \in 0 .. n - 1 /\ (m - 1) + 1 = m
    BY <1>1, <1>8, <1>10, <1>14
  <2>2. u[(m - 1) + 1] > u[m - 1]
    BY <1>4, <2>1
  <2> QED
    BY <1>8, <2>1, <2>2
<1>21. ASSUME NEW k \in 1 .. m, NEW l \in 1 .. m, k < l PROVE way[k] < way[l]
  <2>1. k - 1 \in 0 .. n /\ l - 1 \in 0 .. n /\ k - 1 <= l - 1 /\ way[k] = u[k - 1] /\ way[l] = u[l - 1]
    BY <1>10, <1>14, <1>21
  <2>2. u[l - 1] # 0
    BY <1>8, <1>14
  <2>3. u[l - 1] >= u[k - 1] + ((l - 1) - (k - 1))
    BY <1>5, <2>1, <2>2
  <2>4. u[l - 1] \in Nat /\ u[k - 1] \in Nat
    BY <1>1, <1>2, <2>1
  <2> QED
    BY <1>10, <1>21, <2>1, <2>3, <2>4
<1>22. IsWay(way, m, h, n, idx)
  BY <1>10, <1>16, <1>17, <1>18, <1>19, <1>20, <1>21 DEF IsWay
<1> QED
  BY <1>13, <1>22

-----------------------------------------------------------------------------
(* h is in order from lo on: below position lo and those after it.          *)
OrderedFrom(h, lo) == \A i \in 2 .. Len(h) : i \div 2 >= lo => Leq(h[i \div 2], h[i])

(* It is, but for position idx, whose element may belong further down.      *)
OrderedBut(h, lo, idx) ==
    /\ \A i \in 2 .. Len(h) : i \div 2 >= lo /\ i \div 2 # idx => Leq(h[i \div 2], h[i])
    /\ idx \div 2 >= lo => \A c \in 2 .. Len(h) : c \div 2 = idx => Leq(h[idx \div 2], h[c])

(* _downheap moves elements along the way down: those from its second       *)
(* position to position stop go up by one place, and the first goes to      *)
(* stop.                                                                    *)
MovedDown(g, h, n, way, stop) ==
    /\ g \in [1 .. n -> Keys]
    /\ g[way[stop]] = h[way[1]]
    /\ \A k \in 1 .. stop - 1 : g[way[k]] = h[way[k + 1]]
    /\ \A p \in 1 .. n : (\A k \in 1 .. stop : way[k] # p) => g[p] = h[p]

(* Nothing moves when no child belongs above the first element; otherwise   *)
(* it stops below the last one that does, and not before the second.        *)
Settles(g, h, n, idx) ==
    \E way, len : /\ IsWay(way, len, h, n, idx)
                  /\ \/ /\ g = h
                        /\ len = 1 \/ Leq(h[idx], h[way[2]])
                     \/ \E stop \in 2 .. len :
                          /\ MovedDown(g, h, n, way, stop)
                          /\ Leq(h[way[stop]], h[idx])
                          /\ \A k \in stop + 1 .. len : Leq(h[idx], h[way[k]])

(* That is what Downheap does. *)
LEMMA DownheapSettles ==
    ASSUME max_at_top \in {1, -1}, NEW h \in Seq(Keys), NEW idx \in 1 .. Len(h)
    PROVE  Settles(Downheap(h, idx), h, Len(h), idx)
<1> DEFINE n == Len(h)
           way == WayDown(h, n, idx)
           element == h[idx]
           stops == {k \in 2 .. Len(way) : k = 2 \/ Compare(h[way[k]], element) < 0}
           stop == Max(stops)
           g == Downheap(h, idx)
<1>1. n \in Nat /\ n = Len(h) /\ idx \in 1 .. n /\ \A p \in 1 .. n : h[p] \in Keys
  OBVIOUS
<1>2. g = IF Len(way) = 1 \/ Compare(h[way[2]], element) >= 0
            THEN h
            ELSE [p \in 1 .. n |->
                    IF p = way[stop] THEN element
                    ELSE IF \E k \in 1 .. stop - 1 : way[k] = p
                           THEN h[way[(CHOOSE k \in 1 .. stop - 1 : way[k] = p) + 1]]
                    ELSE h[p]]
  BY DEF Downheap
<1>3. PICK len : IsWay(way, len, h, n, idx)
  BY <1>1, WayIs
<1> HIDE DEF g, way, n
<1>4. /\ len \in Nat \ {0} /\ Len(way) = len /\ way[1] = idx
      /\ \A k \in 1 .. len : way[k] \in 1 .. n /\ h[way[k]] \in Keys
      /\ \A k, l \in 1 .. len : k < l => way[k] < way[l]
  BY <1>1, <1>3 DEF IsWay
<1>5. element \in Keys
  BY <1>1
<1> HIDE DEF element
<1>6. \A k, l \in 1 .. len : way[k] = way[l] => k = l
  <2> SUFFICES ASSUME NEW k \in 1 .. len, NEW l \in 1 .. len, way[k] = way[l], k # l PROVE FALSE
    OBVIOUS
  <2>1. k < l \/ l < k
    BY <1>4
  <2>2. way[k] \in 1 .. n /\ way[l] \in 1 .. n
    BY <1>4
  <2> QED
    BY <1>4, <2>1, <2>2
<1>7. CASE len = 1 \/ Compare(h[way[2]], element) >= 0
  <2>1. g = h
    BY <1>2, <1>4, <1>7
  <2>2. len = 1 \/ Leq(element, h[way[2]])
    <3>1. len # 1 => h[way[2]] \in Keys
      BY <1>4
    <3> QED
      BY <1>5, <1>7, <3>1, Comparing
  <2> QED
    BY <1>3, <2>1, <2>2 DEF Settles, g, n, element
<1>8. CASE ~(len = 1 \/ Compare(h[way[2]], element) >= 0)
  <2>1. 2 \in stops /\ stops \subseteq 0 .. len
    BY <1>4, <1>8
  <2>2. stop \in stops /\ \A k \in stops : stop >= k
    <3> HIDE DEF stops
    <3> QED
      BY <1>4, <2>1, GreatestOf
  <2>3. stop \in 2 .. len
    BY <1>4, <2>2
  <2>4. Leq(h[way[stop]], element)
    <3>1. h[way[stop]] \in Keys /\ h[way[2]] \in Keys
      BY <1>4, <2>3
    <3>2. CASE stop = 2
      <4>1. ~(Compare(h[way[2]], element) >= 0)
        BY <1>8
      <4> QED
        BY <1>5, <3>1, <3>2, <4>1, Comparing
    <3>3. CASE stop # 2
      <4>1. Compare(h[way[stop]], element) < 0
        BY <2>2, <3>3
      <4> QED
        BY <1>5, <3>1, <4>1, Comparing
    <3> QED
      BY <3>2, <3>3
  <2>5. ASSUME NEW k \in stop + 1 .. len PROVE Leq(element, h[way[k]])
    <3>1. k \in 2 .. len /\ k # 2 /\ k > stop /\ k \in 1 .. len
      BY <1>4, <2>3
    <3>2. k \notin stops
      <4> HIDE DEF stop, stops
      <4> QED
        BY <2>2, <2>3, <3>1
    <3>3. ~(Compare(h[way[k]], element) < 0)
      BY <1>4, <3>1, <3>2
    <3>4. h[way[k]] \in Keys
      BY <1>4, <3>1
    <3> QED
      BY <1>5, <3>3, <3>4, Comparing
  <2>6. g = [p \in 1 .. n |->
                    IF p = way[stop] THEN element
                    ELSE IF \E k \in 1 .. stop - 1 : way[k] = p
                           THEN h[way[(CHOOSE k \in 1 .. stop - 1 : way[k] = p) + 1]]
                    ELSE h[p]]
    BY <1>2, <1>4, <1>8
  <2> HIDE DEF stop, stops
  <2>7. g[way[stop]] = element
    <3>1. way[stop] \in 1 .. n
      BY <1>4, <2>3
    <3> QED
      BY <2>6, <3>1
  <2>8. ASSUME NEW k \in 1 .. stop - 1 PROVE g[way[k]] = h[way[k + 1]]
    <3>1. k \in 1 .. len /\ stop \in 1 .. len /\ k # stop
      BY <1>4, <2>3
    <3>2. way[k] \in 1 .. n /\ way[k] # way[stop]
      BY <1>4, <1>6, <3>1
    <3>3. (CHOOSE l \in 1 .. stop - 1 : way[l] = way[k]) = k
      <4>1. \A l \in 1 .. stop - 1 : way[l] = way[k] => l = k
        BY <1>4, <1>6, <2>3, <3>1
      <4> QED
        BY <4>1
    <3> QED
      BY <2>6, <3>2, <3>3
  <2>9. ASSUME NEW p \in 1 .. n, \A k \in 1 .. stop : way[k] # p PROVE g[p] = h[p]
    <3>1. p # way[stop] /\ ~ \E k \in 1 .. stop - 1 : way[k] = p
      BY <2>3, <2>9
    <3> QED
      BY <2>6, <3>1
  <2>10. \A p \in 1 .. n : g[p] \in Keys
    <3> SUFFICES ASSUME NEW p \in 1 .. n PROVE g[p] \in Keys
      OBVIOUS
    <3>1. CASE \E k \in 1 .. stop - 1 : way[k] = p
      <4>1. PICK k \in 1 .. stop - 1 : way[k] = p
        BY <3>1
      <4>2. k + 1 \in 1 .. len
        BY <1>4, <2>3
      <4> QED
        BY <1>4, <2>8, <4>1, <4>2
    <3>2. CASE p = way[stop]
      BY <1>5, <2>7, <3>2
    <3>3. CASE p # way[stop] /\ ~ \E k \in 1 .. stop - 1 : way[k] = p
      BY <1>1, <2>6, <3>3
    <3> QED
      BY <3>1, <3>2, <3>3
  <2>11. g \in [1 .. n -> Keys]
    BY <2>6, <2>10
  <2>12. MovedDown(g, h, n, way, stop)
    BY <1>4, <2>7, <2>8, <2>9, <2>11 DEF MovedDown, element
  <2> QED
    BY <1>3, <2>3, <2>4, <2>5, <2>12 DEF Settles, g, n, element
<1> QED
  BY <1>7, <1>8

(* The array stays as long as it is. *)
LEMMA SettledSeq ==
    ASSUME NEW h \in Seq(Keys), NEW idx \in 1 .. Len(h), NEW g, Settles(g, h, Len(h), idx)
    PROVE  g \in Seq(Keys) /\ Len(g) = Len(h)
<1>1. Len(h) \in Nat
  OBVIOUS
<1>2. CASE g = h
  BY <1>2
<1>3. CASE g \in [1 .. Len(h) -> Keys]
  BY <1>1, <1>3, FunctionIsSeq
<1> QED
  BY <1>2, <1>3 DEF Settles, MovedDown

(* What is in order but for position idx is in order then. *)
LEMMA SettledInOrder ==
    ASSUME max_at_top \in {1, -1}, NEW h \in Seq(Keys), NEW idx \in 1 .. Len(h),
           NEW lo \in 1 .. idx, OrderedBut(h, lo, idx), NEW g, Settles(g, h, Len(h), idx)
    PROVE  OrderedFrom(g, lo)
<1>1. PICK n : n = Len(h)
  OBVIOUS
<1>2. n \in Nat /\ idx \in 1 .. n /\ \A p \in 1 .. n : h[p] \in Keys
  BY <1>1
<1>3. Len(g) = n
  BY <1>1, SettledSeq
<1>4. PICK way, len : /\ IsWay(way, len, h, n, idx)
                      /\ \/ /\ g = h
                            /\ len = 1 \/ Leq(h[idx], h[way[2]])
                         \/ \E stop \in 2 .. len :
                              /\ MovedDown(g, h, n, way, stop)
                              /\ Leq(h[way[stop]], h[idx])
                              /\ \A k \in stop + 1 .. len : Leq(h[idx], h[way[k]])
  BY <1>1 DEF Settles
<1>5. /\ \A i \in 2 .. n : i \div 2 >= lo /\ i \div 2 # idx => Leq(h[i \div 2], h[i])
      /\ idx \div 2 >= lo => \A c \in 2 .. n : c \div 2 = idx => Leq(h[idx \div 2], h[c])
  BY <1>1 DEF OrderedBut
<1>6. /\ len \in Nat \ {0} /\ way \in [1 .. len -> idx .. n] /\ way[1] = idx
      /\ \A k \in 1 .. len - 1 : /\ way[k] \in 1 .. n \div 2
                                 /\ way[k + 1] = BetterChild(h, n, way[k])
      /\ ~(way[len] \in 1 .. n \div 2)
      /\ \A k, l \in 1 .. len : k < l => way[k] < way[l]
  BY <1>4 DEF IsWay
<1>7. \A k \in 1 .. len : way[k] \in idx .. n
  BY <1>6
<1>8. ASSUME NEW k \in 1 .. len - 1
      PROVE  /\ way[k + 1] \in 2 .. n /\ way[k + 1] \div 2 = way[k]
             /\ \A d \in 2 .. n : d \div 2 = way[k] => Leq(h[way[k + 1]], h[d])
  <2>1. PICK x \in 1 .. Len(h) \div 2 : x = way[k]
    BY <1>1, <1>6
  <2>2. LET c == BetterChild(h, Len(h), x) IN
          /\ c \in 2 .. Len(h) /\ c \div 2 = x /\ c > x
          /\ \A d \in 2 .. Len(h) : d \div 2 = x => Leq(h[c], h[d])
    BY BetterIs
  <2>3. way[k + 1] = BetterChild(h, Len(h), x)
    BY <1>1, <1>6, <2>1
  <2> QED
    BY <1>1, <2>1, <2>2, <2>3
<1>9. ASSUME NEW d \in 2 .. n PROVE d \div 2 # way[len]
  <2>1. d \div 2 \in 1 .. n \div 2
    BY <1>2
  <2> QED
    BY <1>6, <2>1
<1>10. /\ \A a, b, c \in Keys : Leq(a, b) /\ Leq(b, c) => Leq(a, c)
  BY Comparing
<1> SUFFICES ASSUME NEW i \in 2 .. n, i \div 2 >= lo PROVE Leq(g[i \div 2], g[i])
  BY <1>3 DEF OrderedFrom
<1>11. PICK j : j = i \div 2
  OBVIOUS
<1>12. j \in 1 .. n /\ j < i /\ i \in 1 .. n /\ h[i] \in Keys /\ h[j] \in Keys
  BY <1>2, <1>11, Halves
<1>13. j # idx => Leq(h[j], h[i])
  BY <1>5, <1>11
<1>14. CASE g = h /\ (len = 1 \/ Leq(h[idx], h[way[2]]))
  <2>1. CASE j # idx
    BY <1>11, <1>13, <1>14, <2>1
  <2>2. CASE j = idx
    <3>1. len # 1
      BY <1>6, <1>9, <1>11, <2>2
    <3>2. 1 \in 1 .. len - 1 /\ 2 \in 1 .. len
      BY <1>6, <3>1
    <3>3. Leq(h[way[1 + 1]], h[i])
      BY <1>6, <1>8, <1>11, <2>2, <3>2
    <3>4. Leq(h[idx], h[way[2]])
      BY <1>14, <3>1
    <3>5. h[way[2]] \in Keys /\ h[idx] \in Keys
      <4>1. way[2] \in 1 .. n
        BY <1>2, <1>7, <3>2
      <4> QED
        BY <1>2, <4>1
    <3> QED
      BY <1>10, <1>11, <1>12, <1>14, <2>2, <3>3, <3>4, <3>5
  <2> QED
    BY <2>1, <2>2
<1>15. ASSUME NEW stop \in 2 .. len,
              MovedDown(g, h, n, way, stop),
              Leq(h[way[stop]], h[idx]),
              \A k \in stop + 1 .. len : Leq(h[idx], h[way[k]])
       PROVE  Leq(g[j], g[i])
  <2>1. /\ g[way[stop]] = h[idx]
        /\ \A k \in 1 .. stop - 1 : g[way[k]] = h[way[k + 1]]
        /\ \A p \in 1 .. n : (\A k \in 1 .. stop : way[k] # p) => g[p] = h[p]
    BY <1>6, <1>15 DEF MovedDown
  <2>2. \A k \in 1 .. len : way[k] \in 1 .. n /\ h[way[k]] \in Keys
    BY <1>2, <1>7
  <2>3. h[idx] \in Keys
    BY <1>2
  <2>4. CASE \E k \in 1 .. stop : way[k] = i
    <3>1. PICK k \in 1 .. stop : way[k] = i
      BY <2>4
    <3>2. CASE k = 1
      <4>1. i = idx /\ idx \div 2 >= lo
        BY <1>6, <3>1, <3>2
      <4>2. \A l \in 1 .. stop : way[l] # j
        <5> SUFFICES ASSUME NEW l \in 1 .. stop, way[l] = j PROVE FALSE
          OBVIOUS
        <5>1. l \in 1 .. len
          BY <1>6, <1>15
        <5>2. way[l] \in idx .. n
          BY <1>7, <5>1
        <5> QED
          BY <1>2, <1>12, <4>1, <5>2
      <4>3. g[j] = h[j]
        BY <1>12, <2>1, <4>2
      <4>4. 1 \in 1 .. stop - 1 /\ 1 \in 1 .. len - 1
        BY <1>6, <1>15
      <4>5. g[i] = h[way[1 + 1]]
        BY <1>6, <2>1, <4>1, <4>4
      <4>6. way[1 + 1] \in 2 .. n /\ way[1 + 1] \div 2 = idx
        BY <1>6, <1>8, <4>4
      <4>7. Leq(h[idx \div 2], h[way[1 + 1]])
        BY <1>5, <4>1, <4>6
      <4> QED
        BY <1>11, <4>1, <4>3, <4>5, <4>7
    <3>3. CASE k # 1
      <4>1. /\ k - 1 \in 1 .. stop - 1 /\ k - 1 \in 1 .. len - 1 /\ (k - 1) + 1 = k /\ k \in 1 .. len
            /\ k - 1 \in 1 .. len
        BY <1>6, <1>15, <3>3
      <4>2. j = way[k - 1]
        BY <1>8, <1>11, <3>1, <4>1
      <4>3. g[j] = h[way[k]]
        BY <2>1, <4>1, <4>2
      <4>4. CASE k = stop
        BY <1>15, <2>1, <3>1, <4>3, <4>4
      <4>5. CASE k # stop
        <5>1. k \in 1 .. stop - 1 /\ k \in 1 .. len - 1
          BY <1>6, <1>15, <4>1, <4>5
        <5>2. g[i] = h[way[k + 1]]
          BY <2>1, <3>1, <5>1
        <5>3. way[k + 1] \in 2 .. n /\ way[k + 1] \div 2 = way[k]
          BY <1>8, <5>1
        <5>4. way[k] # idx /\ way[k] >= lo
          <6>1. way[1] < way[k] /\ way[k] \in idx .. n
            BY <1>6, <1>7, <3>3, <4>1
          <6> QED
            BY <1>2, <1>6, <6>1
        <5>5. Leq(h[way[k]], h[way[k + 1]])
          BY <1>5, <5>3, <5>4
        <5> QED
          BY <4>3, <5>2, <5>5
      <4> QED
        BY <4>4, <4>5
    <3> QED
      BY <3>2, <3>3
  <2>5. CASE \A k \in 1 .. stop : way[k] # i
    <3>1. g[i] = h[i]
      BY <1>12, <2>1, <2>5
    <3>2. CASE \E k \in 1 .. stop : way[k] = j
      <4>1. PICK k \in 1 .. stop : way[k] = j
        BY <3>2
      <4>2. k # len /\ k \in 1 .. len
        BY <1>6, <1>9, <1>11, <1>15, <4>1
      <4>3. k \in 1 .. len - 1 /\ k + 1 \in 1 .. len
        BY <1>6, <4>2
      <4>4. Leq(h[way[k + 1]], h[i])
        BY <1>8, <1>11, <4>1, <4>3
      <4>5. CASE k = stop
        <5>1. k + 1 \in stop + 1 .. len
          BY <1>6, <1>15, <4>3, <4>5
        <5>2. Leq(h[idx], h[way[k + 1]])
          BY <1>15, <5>1
        <5>3. g[j] = h[idx]
          BY <2>1, <4>1, <4>5
        <5> QED
          BY <1>10, <1>12, <2>2, <2>3, <3>1, <4>3, <4>4, <5>2, <5>3
      <4>6. CASE k # stop
        <5>1. k \in 1 .. stop - 1
          BY <1>6, <1>15, <4>6
        <5>2. g[j] = h[way[k + 1]]
          BY <2>1, <4>1, <5>1
        <5> QED
          BY <3>1, <4>4, <5>2
      <4> QED
        BY <4>5, <4>6
    <3>3. CASE \A k \in 1 .. stop : way[k] # j
      <4>1. g[j] = h[j]
        BY <1>12, <2>1, <3>3
      <4>2. j # idx
        BY <1>6, <1>15, <3>3
      <4> QED
        BY <1>13, <3>1, <4>1, <4>2
    <3> QED
      BY <3>2, <3>3
  <2> QED
    BY <2>4, <2>5
<1> QED
  BY <1>4, <1>11, <1>14, <1>15

(* Both together. *)
LEMMA DownheapOrders ==
    ASSUME max_at_top \in {1, -1}, NEW h \in Seq(Keys), NEW idx \in 1 .. Len(h)
    PROVE  /\ Downheap(h, idx) \in Seq(Keys) /\ Len(Downheap(h, idx)) = Len(h)
           /\ \A lo \in 1 .. idx : OrderedBut(h, lo, idx) => OrderedFrom(Downheap(h, idx), lo)
<1>1. PICK g : g = Downheap(h, idx)
  OBVIOUS
<1>2. Settles(g, h, Len(h), idx)
  BY <1>1, DownheapSettles
<1>3. g \in Seq(Keys) /\ Len(g) = Len(h)
  BY <1>2, SettledSeq
<1>4. ASSUME NEW lo \in 1 .. idx, OrderedBut(h, lo, idx) PROVE OrderedFrom(g, lo)
  BY <1>2, <1>4, SettledInOrder
<1> QED
  BY <1>1, <1>3, <1>4

(* In order from the first position on is in order. *)
LEMMA OrderedIs ==
    ASSUME NEW h \in Seq(Keys)
    PROVE  Ordered(h) <=> OrderedFrom(h, 1)
<1>1. \A i \in 2 .. Len(h) : i \div 2 >= 1
  OBVIOUS
<1> QED
  BY <1>1 DEF Ordered, OrderedFrom

-----------------------------------------------------------------------------
(* queue_fix, from the last inner node to the first. *)
FixStep(f, h, half) ==
    [i \in 1 .. half + 1 |-> IF i = half + 1 THEN h ELSE Downheap(f[i + 1], i)]
Fixed(h, half) == CHOOSE f : f = FixStep(f, h, half)

(* The nodes can be put right one after the other. *)
LEMMA FixedIs ==
    ASSUME max_at_top \in {1, -1}, NEW h \in Seq(Keys)
    PROVE  Fixed(h, Len(h) \div 2) = FixStep(Fixed(h, Len(h) \div 2), h, Len(h) \div 2)
<1>1. PICK n, half : n = Len(h) /\ half = n \div 2
  OBVIOUS
<1>2. n \in Nat /\ half \in Nat /\ half <= n
  BY <1>1, Halves
<1> DEFINE S == {x \in Seq(Keys) : Len(x) = n}
           F == [j \in Nat |-> [x \in S |-> IF j < half THEN Downheap(x, half - j) ELSE x]]
<1>3. ASSUME NEW x \in S, NEW i \in 1 .. half PROVE Downheap(x, i) \in S
  <2>1. x \in Seq(Keys) /\ i \in 1 .. Len(x) /\ Len(x) = n
    BY <1>2
  <2> QED
    BY <2>1, DownheapOrders
<1>4. h \in S
  BY <1>1
<1> HIDE DEF S
<1>5. \A j \in Nat : \A x \in S : /\ j < half => F[j][x] = Downheap(x, half - j)
                                  /\ F[j][x] \in S
  <2> SUFFICES ASSUME NEW j \in Nat, NEW x \in S
               PROVE  /\ j < half => F[j][x] = Downheap(x, half - j)
                      /\ F[j][x] \in S
    OBVIOUS
  <2>1. F[j][x] = IF j < half THEN Downheap(x, half - j) ELSE x
    OBVIOUS
  <2>2. j < half => half - j \in 1 .. half
    BY <1>2
  <2> HIDE DEF F
  <2> QED
    BY <1>3, <2>1, <2>2
<1> HIDE DEF F
<1>6. PICK g \in [0 .. half -> S] : g[0] = h /\ \A j \in 0 .. half - 1 : g[j + 1] = F[j][g[j]]
  <2>1. StaysIn(S, F)
    BY <1>5 DEF StaysIn
  <2>2. \E g \in [0 .. half -> S] : Runs(g, half, h, F)
    BY <1>2, <1>4, <2>1, Iterate
  <2> QED
    BY <2>2 DEF Runs
<1>7. PICK w : w = [i \in 1 .. half + 1 |-> g[(half + 1) - i]]
  OBVIOUS
<1>8. ASSUME NEW i \in 1 .. half + 1
      PROVE  w[i] = IF i = half + 1 THEN h ELSE Downheap(w[i + 1], i)
  <2>1. CASE i = half + 1
    <3>1. (half + 1) - i = 0
      BY <1>2, <2>1
    <3> QED
      BY <1>6, <1>7, <2>1, <3>1
  <2>2. CASE i # half + 1
    <3>1. /\ i + 1 \in 1 .. half + 1 /\ (half + 1) - (i + 1) = half - i
          /\ half - i \in 0 .. half - 1 /\ half - i \in Nat /\ half - i < half
          /\ (half - i) + 1 = (half + 1) - i /\ half - (half - i) = i /\ half - i \in 0 .. half
      BY <1>2, <2>2
    <3>2. w[i] = g[(half - i) + 1] /\ w[i + 1] = g[half - i]
      BY <1>7, <3>1
    <3>3. g[half - i] \in S
      BY <1>6, <3>1
    <3>4. g[(half - i) + 1] = Downheap(g[half - i], half - (half - i))
      BY <1>5, <1>6, <3>1, <3>3
    <3> QED
      BY <2>2, <3>1, <3>2, <3>4
  <2> QED
    BY <2>1, <2>2
<1>9. w = [i \in 1 .. half + 1 |-> w[i]]
  BY <1>7
<1>10. w = FixStep(w, h, half)
  BY <1>8, <1>9 DEF FixStep
<1> QED
  BY <1>1, <1>10 DEF Fixed

(* Then the whole heap is in order, whatever it was before. *)
LEMMA HeapifyOrders ==
    ASSUME max_at_top \in {1, -1}, NEW h \in Seq(Keys)
    PROVE  Heapify(h) \in Seq(Keys) /\ Len(Heapify(h)) = Len(h) /\ Ordered(Heapify(h))
<1>1. PICK n, half, f : n = Len(h) /\ half = n \div 2 /\ f = Fixed(h, half)
  OBVIOUS
<1>2. n \in Nat /\ half \in Nat /\ half <= n
  BY <1>1, Halves
<1>3. Heapify(h) = f[1]
  BY <1>1 DEF Heapify, Fixed, FixStep
<1>4. \A i \in 1 .. half + 1 : f[i] = IF i = half + 1 THEN h ELSE Downheap(f[i + 1], i)
  <2>1. f = FixStep(f, h, half)
    BY <1>1, FixedIs
  <2> QED
    BY <2>1 DEF FixStep
<1> DEFINE Right(x, i) == x \in Seq(Keys) /\ Len(x) = n /\ OrderedFrom(x, i)
           M == {k \in Nat : k <= half => Right(f[(half + 1) - k], (half + 1) - k)}
<1>5. 0 \in M
  <2>1. (half + 1) - 0 = half + 1 /\ half + 1 \in 1 .. half + 1
    BY <1>2
  <2>2. f[half + 1] = h
    BY <1>4, <2>1
  <2>3. \A i \in 2 .. n : ~(i \div 2 >= half + 1)
    BY <1>1, <1>2
  <2>4. Right(h, half + 1)
    BY <1>1, <2>3 DEF OrderedFrom
  <2> QED
    BY <2>1, <2>2, <2>4
<1>6. ASSUME NEW k \in Nat, k \in M PROVE k + 1 \in M
  <2> SUFFICES ASSUME k + 1 <= half
               PROVE  Right(f[(half + 1) - (k + 1)], (half + 1) - (k + 1))
    OBVIOUS
  <2>1. PICK i : i = (half + 1) - (k + 1)
    OBVIOUS
  <2>2. i \in 1 .. half /\ (half + 1) - k = i + 1 /\ i \in 1 .. half + 1 /\ i # half + 1
    BY <1>2, <2>1
  <2>3. Right(f[i + 1], i + 1)
    <3>1. k <= half
      BY <1>2
    <3> QED
      BY <1>6, <2>2, <3>1
  <2>4. PICK x : x = f[i + 1]
    OBVIOUS
  <2>5. x \in Seq(Keys) /\ Len(x) = n /\ OrderedFrom(x, i + 1)
    BY <2>3, <2>4
  <2>6. i \in 1 .. Len(x)
    BY <1>2, <2>2, <2>5
  <2>7. OrderedBut(x, i, i)
    <3>1. ASSUME NEW c \in 2 .. Len(x), c \div 2 >= i, c \div 2 # i
          PROVE  Leq(x[c \div 2], x[c])
      <4>1. c \div 2 >= i + 1
        BY <2>2, <3>1
      <4> QED
        BY <2>5, <4>1 DEF OrderedFrom
    <3>2. ~(i \div 2 >= i)
      BY <2>2, Halves
    <3> QED
      BY <3>1, <3>2 DEF OrderedBut
  <2>8. i \in 1 .. i
    BY <2>2
  <2>9. Downheap(x, i) \in Seq(Keys) /\ Len(Downheap(x, i)) = n /\ OrderedFrom(Downheap(x, i), i)
    BY <2>5, <2>6, <2>7, <2>8, DownheapOrders
  <2>10. f[i] = Downheap(x, i)
    BY <1>4, <2>2, <2>4
  <2> QED
    BY <2>1, <2>9, <2>10
<1>7. Nat \subseteq M
  <2> HIDE DEF M
  <2> QED
    BY <1>5, <1>6, Induction
<1>8. half \in M /\ (half + 1) - half = 1
  BY <1>2, <1>7
<1>9. Right(f[1], 1)
  BY <1>2, <1>8
<1> QED
  BY <1>1, <1>3, <1>9, OrderedIs

-----------------------------------------------------------------------------
(* The other operations. *)

(* The last element takes the place of the one at idx. *)
LEMMA ShortIs ==
    ASSUME NEW h \in Seq(Keys), NEW idx \in 1 .. Len(h)
    PROVE  LET short == Front([h EXCEPT ![idx] = h[Len(h)]]) IN
             /\ short \in Seq(Keys) /\ Len(short) = Len(h) - 1
             /\ \A p \in 1 .. Len(h) - 1 : short[p] = IF p = idx THEN h[Len(h)] ELSE h[p]
<1> DEFINE n == Len(h)
           e == [h EXCEPT ![idx] = h[n]]
           short == Front(e)
<1>1. n \in Nat /\ n >= 1 /\ n - 1 \in Nat /\ \A p \in 1 .. n : h[p] \in Keys
  OBVIOUS
<1>2. Len(e) = n /\ \A p \in 1 .. n : e[p] = IF p = idx THEN h[n] ELSE h[p]
  OBVIOUS
<1> HIDE DEF e
<1>3. short = [p \in 1 .. n - 1 |-> e[p]]
  <2>1. short = SubSeq(e, 1, n - 1)
    BY <1>2 DEF Front
  <2>2. SubSeq(e, 1, n - 1) = [p \in 1 .. (1 + (n - 1)) - 1 |-> e[(p + 1) - 1]]
    BY <1>1
  <2> QED
    BY <1>1, <2>1, <2>2
<1> HIDE DEF n, short
<1>4. short \in [1 .. n - 1 -> Keys]
  <2>1. ASSUME NEW p \in 1 .. n - 1 PROVE e[p] \in Keys
    <3>1. p \in 1 .. n /\ n \in 1 .. n
      BY <1>1
    <3> QED
      BY <1>1, <1>2, <3>1
  <2> QED
    BY <1>3, <2>1
<1>5. short \in Seq(Keys) /\ Len(short) = n - 1
  BY <1>1, <1>4, FunctionIsSeq
<1>6. \A p \in 1 .. n - 1 : short[p] = IF p = idx THEN h[n] ELSE h[p]
  <2>1. \A p \in 1 .. n - 1 : p \in 1 .. n
    BY <1>1
  <2> QED
    BY <1>2, <1>3, <2>1
<1> QED
  BY <1>5, <1>6 DEF short, n, e

(* queue_remove keeps the order unless the last element belongs above the   *)
(* parent of the removed one.                                               *)
LEMMA RemovedOrders ==
    ASSUME max_at_top \in {1, -1}, NEW h \in Seq(Keys), NEW idx \in 1 .. Len(h)
    PROVE  /\ Removed(h, idx) \in Seq(Keys) /\ Len(Removed(h, idx)) = Len(h) - 1
           /\ \/ ~Ordered(h)
              \/ idx \in 2 .. Len(h) - 1 /\ Compare(h[Len(h)], h[idx \div 2]) < 0
              \/ Ordered(Removed(h, idx))
<1>1. PICK n, short : n = Len(h) /\ short = Front([h EXCEPT ![idx] = h[n]])
  OBVIOUS
<1>2. n \in Nat /\ n >= 1 /\ \A p \in 1 .. n : h[p] \in Keys
  BY <1>1
<1>3. /\ short \in Seq(Keys) /\ Len(short) = n - 1
      /\ \A p \in 1 .. n - 1 : short[p] = IF p = idx THEN h[n] ELSE h[p]
  BY <1>1, ShortIs
<1>4. Removed(h, idx) = IF idx = n THEN short ELSE Downheap(short, idx)
  BY <1>1 DEF Removed
<1>5. CASE idx = n
  <2>1. ASSUME Ordered(h) PROVE Ordered(short)
    <3> SUFFICES ASSUME NEW i \in 2 .. n - 1 PROVE Leq(short[i \div 2], short[i])
      BY <1>3 DEF Ordered
    <3>1. i \in 1 .. n - 1 /\ i \in 2 .. n /\ i \div 2 \in 1 .. n - 1 /\ i # n /\ i \div 2 # n
      BY <1>2
    <3>2. short[i] = h[i] /\ short[i \div 2] = h[i \div 2]
      BY <1>3, <1>5, <3>1
    <3> QED
      BY <1>1, <2>1, <3>1, <3>2 DEF Ordered
  <2> QED
    BY <1>1, <1>3, <1>4, <1>5, <2>1
<1>6. CASE idx # n
  <2>1. idx \in 1 .. Len(short)
    BY <1>1, <1>2, <1>3, <1>6
  <2>2. /\ Downheap(short, idx) \in Seq(Keys) /\ Len(Downheap(short, idx)) = n - 1
        /\ \A lo \in 1 .. idx : OrderedBut(short, lo, idx) => OrderedFrom(Downheap(short, idx), lo)
    BY <1>3, <2>1, DownheapOrders
  <2>3. ASSUME Ordered(h), ~(idx \in 2 .. n - 1 /\ Compare(h[n], h[idx \div 2]) < 0)
        PROVE  OrderedBut(short, 1, idx)
    <3>1. \A i \in 2 .. n : Leq(h[i \div 2], h[i])
      BY <1>1, <2>3 DEF Ordered
    <3>2. ASSUME NEW i \in 2 .. n - 1, i \div 2 # idx PROVE Leq(short[i \div 2], short[i])
      <4>1. i \in 1 .. n - 1 /\ i \in 2 .. n /\ i \div 2 \in 1 .. n - 1 /\ i \div 2 \in 1 .. n /\ n \in 1 .. n
        BY <1>2
      <4>2. short[i \div 2] = h[i \div 2]
        BY <1>3, <3>2, <4>1
      <4>3. CASE i = idx
        <5>1. short[i] = h[n] /\ h[n] \in Keys /\ h[i \div 2] \in Keys
          BY <1>2, <1>3, <4>1, <4>3
        <5>2. ~(Compare(h[n], h[i \div 2]) < 0)
          BY <2>3, <4>3
        <5> QED
          BY <4>2, <5>1, <5>2, Comparing
      <4>4. CASE i # idx
        <5>1. short[i] = h[i]
          BY <1>3, <4>1, <4>4
        <5> QED
          BY <3>1, <4>1, <4>2, <5>1
      <4> QED
        BY <4>3, <4>4
    <3>3. ASSUME idx \div 2 >= 1, NEW c \in 2 .. n - 1, c \div 2 = idx
          PROVE  Leq(short[idx \div 2], short[c])
      <4>1. /\ c \in 1 .. n - 1 /\ c \in 2 .. n /\ c # idx /\ idx \in 2 .. n /\ idx \div 2 \in 1 .. n - 1
            /\ idx \div 2 # idx /\ idx \div 2 \in 1 .. n /\ c \in 1 .. n
        BY <1>1, <1>2, <3>3
      <4>2. short[c] = h[c] /\ short[idx \div 2] = h[idx \div 2]
        BY <1>3, <4>1
      <4>3. Leq(h[idx \div 2], h[idx]) /\ Leq(h[c \div 2], h[c])
        BY <3>1, <4>1
      <4>4. h[idx] \in Keys /\ h[c] \in Keys /\ h[idx \div 2] \in Keys
        BY <1>1, <1>2, <4>1
      <4> QED
        BY <3>3, <4>2, <4>3, <4>4, Comparing
    <3> QED
      BY <1>3, <3>2, <3>3 DEF OrderedBut
  <2>4. 1 \in 1 .. idx
    BY <1>1, <1>2
  <2>5. OrderedFrom(Downheap(short, idx), 1) => Ordered(Downheap(short, idx))
    BY <2>2, OrderedIs
  <2> QED
    BY <1>1, <1>4, <1>6, <2>2, <2>3, <2>4, <2>5
<1> QED
  BY <1>5, <1>6

(* queue_replaced *)
LEMMA ReplacedOrders ==
    ASSUME max_at_top \in {1, -1}, NEW h \in Seq(Keys), h # <<>>, NEW k \in Keys
    PROVE  LET g == Downheap([h EXCEPT ![1] = k], 1) IN
             /\ g \in Seq(Keys) /\ Len(g) = Len(h)
             /\ Ordered(h) => Ordered(g)
<1>1. PICK n, e, g : n = Len(h) /\ e = [h EXCEPT ![1] = k] /\ g = Downheap(e, 1)
  OBVIOUS
<1>2. n \in Nat /\ n >= 1
  BY <1>1
<1>3. e \in Seq(Keys) /\ Len(e) = n /\ \A p \in 1 .. n : p # 1 => e[p] = h[p]
  BY <1>1
<1>4. 1 \in 1 .. Len(e) /\ 1 \in 1 .. 1
  BY <1>2, <1>3
<1>5. /\ g \in Seq(Keys) /\ Len(g) = n
      /\ OrderedBut(e, 1, 1) => OrderedFrom(g, 1)
  BY <1>1, <1>3, <1>4, DownheapOrders
<1>6. ASSUME Ordered(h) PROVE OrderedBut(e, 1, 1)
  <2>1. ASSUME NEW i \in 2 .. n, i \div 2 # 1 PROVE Leq(e[i \div 2], e[i])
    <3>1. i \in 1 .. n /\ i # 1 /\ i \div 2 \in 1 .. n
      BY <1>2
    <3>2. e[i] = h[i] /\ e[i \div 2] = h[i \div 2]
      BY <1>3, <2>1, <3>1
    <3> QED
      BY <1>1, <1>6, <3>2 DEF Ordered
  <2>2. ~(1 \div 2 >= 1)
    OBVIOUS
  <2> QED
    BY <1>3, <2>1, <2>2 DEF OrderedBut
<1>7. Ordered(g) <=> OrderedFrom(g, 1)
  BY <1>5, OrderedIs
<1> QED
  BY <1>1, <1>5, <1>6, <1>7

(* The elements that still fit. *)
LEMMA ResizedOrders ==
    ASSUME NEW h \in Seq(Keys), NEW n \in Nat
    PROVE  /\ Resized(h, n) \in Seq(Keys) /\ Len(Resized(h, n)) <= n
           /\ Ordered(h) => Ordered(Resized(h, n))
<1>1. PICK m, g : m = (IF n < Len(h) THEN n ELSE Len(h)) /\ g = Resized(h, n)
  OBVIOUS
<1>2. m \in Nat /\ m <= n /\ m <= Len(h) /\ Len(h) \in Nat
  BY <1>1
<1>3. g = [p \in 1 .. m |-> h[p]]
  <2>1. g = SubSeq(h, 1, m)
    BY <1>1 DEF Resized
  <2>2. SubSeq(h, 1, m) = [p \in 1 .. (1 + m) - 1 |-> h[(p + 1) - 1]]
    BY <1>2
  <2> QED
    BY <1>2, <2>1, <2>2
<1>4. g \in [1 .. m -> Keys]
  BY <1>2, <1>3
<1>5. g \in Seq(Keys) /\ Len(g) = m
  BY <1>2, <1>4, FunctionIsSeq
<1>6. ASSUME Ordered(h) PROVE Ordered(g)
  <2> SUFFICES ASSUME NEW i \in 2 .. m PROVE Leq(g[i \div 2], g[i])
    BY <1>5 DEF Ordered
  <2>1. i \in 1 .. m /\ i \div 2 \in 1 .. m /\ i \in 2 .. Len(h)
    BY <1>2
  <2>2. g[i] = h[i] /\ g[i \div 2] = h[i \div 2]
    BY <1>3, <2>1
  <2> QED
    BY <1>6, <2>1, <2>2 DEF Ordered
<1> QED
  BY <1>1, <1>2, <1>5, <1>6

-----------------------------------------------------------------------------
(* HeapOrder is inductive as it stands: what a call leaves behind is only   *)
(* put in order by the next one if it found the heap in order.              *)
LEMMA HeapOrderIs ==
    HeapOrder <=> TypeOK /\ (~disturbed => Ordered(heap))
BY DEF HeapOrder, Ordered, Leq, elements

(* A new queue is empty. *)
LEMMA InitOrdered == Init => HeapOrder
<1> SUFFICES ASSUME Init PROVE HeapOrder
  OBVIOUS
<1>1. heap = <<>> /\ Len(heap) = 0 /\ heap \in Seq(Keys)
  BY DEF Init
<1>2. max_elements \in 0 .. Capacity
  BY MyQueueAssumption DEF Init
<1>3. TypeOK
  BY <1>1, <1>2 DEF Init, TypeOK, elements
<1> QED
  BY <1>1, <1>3, HeapOrderIs DEF Ordered

(* What a call that leaves the queue empty has to see to. *)
LEMMA EmptiedIsOrdered ==
    ASSUME heap' = <<>>, root' \in BOOLEAN, max_elements' \in 0 .. Capacity,
           max_at_top' \in {1, -1}, auto_extent' \in Extents, disturbed' = FALSE
    PROVE  HeapOrder'
<1>1. Len(heap') = 0 /\ heap' \in Seq(Keys)
  OBVIOUS
<1>2. TypeOK'
  BY <1>1 DEF TypeOK, elements
<1>3. \A i \in 2 .. elements' : FALSE
  BY <1>1 DEF elements
<1> QED
  BY <1>2, <1>3 DEF HeapOrder

(* ... and one that changes the elements in place, or their number. *)
LEMMA ChangedIsOrdered ==
    ASSUME TypeOK, UNCHANGED <<root, max_at_top, auto_extent>>, disturbed' \in BOOLEAN,
           NEW g, g \in Seq(Keys), heap' = g, max_elements' \in Len(g) .. Capacity,
           ~disturbed' => Ordered(g)
    PROVE  HeapOrder'
<1>1. TypeOK'
  BY DEF TypeOK, elements
<1>2. ASSUME ~disturbed', NEW i \in 2 .. Len(g)
      PROVE  (g[i \div 2] - g[i]) * max_at_top <= 0
  BY <1>2 DEF Ordered, Leq, Compare
<1> QED
  BY <1>1, <1>2 DEF HeapOrder, Compare, elements

(* Every call keeps the order. *)
LEMMA NextOrdered == HeapOrder /\ [Next]_vars => HeapOrder'
<1> SUFFICES ASSUME HeapOrder, [Next]_vars PROVE HeapOrder'
  OBVIOUS
<1>1. TypeOK /\ (~disturbed => Ordered(heap))
  BY HeapOrderIs
<1>2. /\ root \in BOOLEAN /\ heap \in Seq(Keys) /\ max_elements \in Len(heap) .. Capacity
      /\ max_at_top \in {1, -1} /\ auto_extent \in Extents /\ disturbed \in BOOLEAN
      /\ Len(heap) \in Nat
  BY <1>1 DEF TypeOK, elements
<1>3. /\ Capacity \in Int /\ max_elements \in 0 .. Capacity
      /\ \A n \in Sizes : n \in 1 .. Capacity /\ n \in 0 .. Capacity /\ n \in Nat
      /\ auto_extent \in Nat
  BY <1>2, MyQueueAssumption
<1>4. ASSUME NEW n \in Sizes, QueueInit(n) PROVE HeapOrder'
  BY <1>3, <1>4, EmptiedIsOrdered DEF QueueInit
<1>5. ASSUME NEW n \in Sizes, QueueResize(n) PROVE HeapOrder'
  <2>1. PICK g : g = Resized(heap, n)
    OBVIOUS
  <2>2. g \in Seq(Keys) /\ Len(g) <= n /\ (Ordered(heap) => Ordered(g))
    BY <1>2, <1>3, <2>1, ResizedOrders
  <2>3. n \in Len(g) .. Capacity
    BY <1>3, <2>2
  <2> QED
    BY <1>1, <1>2, <1>5, <2>1, <2>2, <2>3, ChangedIsOrdered DEF QueueResize
<1>6. ASSUME NEW n \in Sizes, QueueReinit(n) PROVE HeapOrder'
  BY <1>2, <1>3, <1>6, EmptiedIsOrdered DEF QueueReinit
<1>7. CASE QueueDelete
  BY <1>2, <1>3, <1>7, EmptiedIsOrdered DEF QueueDelete
<1>8. CASE RemoveAll
  BY <1>2, <1>3, <1>8, EmptiedIsOrdered DEF RemoveAll
<1>9. ASSUME NEW k \in Keys, QueueInsert(k) \/ QueueInsertExtending(k) PROVE HeapOrder'
  <2>1. PICK g : g = Climb(heap, k)
    OBVIOUS
  <2>2. g \in Seq(Keys) /\ Len(g) = Len(heap) + 1 /\ (Ordered(heap) => Ordered(g))
    BY <1>2, <2>1, ClimbOrders
  <2>3. CASE QueueInsert(k)
    <3>1. max_elements \in Len(g) .. Capacity
      BY <1>2, <1>3, <2>2, <2>3 DEF QueueInsert, elements
    <3> QED
      BY <1>1, <1>2, <2>1, <2>2, <2>3, <3>1, ChangedIsOrdered DEF QueueInsert
  <2>4. CASE QueueInsertExtending(k)
    <3>1. max_elements' \in Len(g) .. Capacity
      BY <1>2, <1>3, <2>2, <2>4 DEF QueueInsertExtending, elements
    <3> QED
      BY <1>1, <1>2, <2>1, <2>2, <2>4, <3>1, ChangedIsOrdered DEF QueueInsertExtending
  <2> QED
    BY <1>9, <2>3, <2>4
<1>10. ASSUME NEW k \in Keys, QueueReplaced(k) PROVE HeapOrder'
  <2>1. PICK g : g = Downheap([heap EXCEPT ![1] = k], 1)
    OBVIOUS
  <2>2. g \in Seq(Keys) /\ Len(g) = Len(heap) /\ (Ordered(heap) => Ordered(g))
    BY <1>2, <1>10, <2>1, ReplacedOrders DEF QueueReplaced
  <2> QED
    BY <1>1, <1>2, <1>10, <2>1, <2>2, ChangedIsOrdered DEF QueueReplaced
<1>11. ASSUME NEW idx \in 1 .. elements, QueueRemove(idx) PROVE HeapOrder'
  <2>1. PICK g : g = Removed(heap, idx)
    OBVIOUS
  <2>2. /\ g \in Seq(Keys) /\ Len(g) = Len(heap) - 1
        /\ ~LeftBelow(idx) /\ Ordered(heap) => Ordered(g)
    <3>1. idx \in 1 .. Len(heap)
      BY DEF elements
    <3> QED
      BY <1>2, <2>1, <3>1, RemovedOrders DEF LeftBelow, elements
  <2>3. max_elements \in Len(g) .. Capacity
    BY <1>2, <1>3, <2>2
  <2>4. LeftBelow(idx) \in BOOLEAN
    BY DEF LeftBelow
  <2>5. disturbed' \in BOOLEAN /\ (~disturbed' => ~disturbed /\ ~LeftBelow(idx))
    BY <1>2, <1>11, <2>4 DEF QueueRemove
  <2> QED
    BY <1>1, <1>2, <1>11, <2>1, <2>2, <2>3, <2>5, ChangedIsOrdered DEF QueueRemove
<1>12. CASE QueueFix
  <2>1. PICK changed \in [1 .. elements -> Keys] : heap' = Heapify(changed)
    BY <1>12 DEF QueueFix
  <2>2. changed \in Seq(Keys) /\ Len(changed) = Len(heap)
    BY <1>2, <2>1, FunctionIsSeq DEF elements
  <2>3. PICK g : g = Heapify(changed)
    OBVIOUS
  <2>4. g \in Seq(Keys) /\ Len(g) = Len(heap) /\ Ordered(g)
    BY <1>2, <2>2, <2>3, HeapifyOrders
  <2> QED
    BY <1>1, <1>2, <1>12, <2>1, <2>3, <2>4, ChangedIsOrdered DEF QueueFix
<1>13. CASE UNCHANGED vars
  BY <1>1, <1>2, <1>13, ChangedIsOrdered DEF vars
<1> QED
  BY <1>4, <1>5, <1>6, <1>7, <1>8, <1>9, <1>10, <1>11, <1>12, <1>13 DEF Next

(* my_queue never holds more than it has room for, and unless queue_remove  *)
(* has disturbed it no element belongs above its parent: whatever the keys, *)
(* the sizes and the extent, after any calls in any order.                  *)
THEOREM HeapOrdered == Spec => []HeapOrder
<1>1. Init => HeapOrder
  BY InitOrdered
<1>2. HeapOrder /\ [Next]_vars => HeapOrder'
  BY NextOrdered
<1> QED
  BY <1>1, <1>2, PTL DEF Spec

(* In a heap in order the first element belongs above every other: each one *)
(* is below its parent, and so on up.                                       *)
LEMMA OrderedTop ==
    ASSUME max_at_top \in {1, -1}, NEW h \in Seq(Keys), Ordered(h)
    PROVE  \A i \in 1 .. Len(h) : Leq(h[1], h[i])
<1> DEFINE S == {n \in Nat : \A i \in 1 .. Len(h) : i <= n => Leq(h[1], h[i])}
<1>1. S \subseteq Nat /\ 0 \in S
  OBVIOUS
<1>2. ASSUME NEW n \in S PROVE n + 1 \in S
  <2> SUFFICES ASSUME NEW i \in 1 .. Len(h), i <= n + 1 PROVE Leq(h[1], h[i])
    OBVIOUS
  <2>1. CASE i = 1
    BY <2>1, Comparing
  <2>2. CASE i \in 2 .. Len(h)
    <3>1. i \div 2 \in 1 .. Len(h) /\ i \div 2 <= n
      BY <2>2
    <3>2. Leq(h[1], h[i \div 2]) /\ Leq(h[i \div 2], h[i])
      BY <2>2, <3>1 DEF Ordered
    <3>3. h[1] \in Keys /\ h[i \div 2] \in Keys /\ h[i] \in Keys
      BY <2>2, <3>1
    <3> QED
      BY <3>2, <3>3, Comparing
  <2> QED
    BY <2>1, <2>2
<1> HIDE DEF S
<1>3. S = Nat
  BY <1>1, <1>2, Induction
<1>4. Len(h) \in S
  BY <1>3
<1> QED
  BY <1>4 DEF S

(* queue_top gives the best element, as long as queue_remove has not        *)
(* disturbed the order.                                                     *)
THEOREM TopWhileUndisturbed == Spec => [](~disturbed => TopIsBest)
<1>1. HeapOrder => (~disturbed => TopIsBest)
  <2> SUFFICES ASSUME HeapOrder, ~disturbed PROVE TopIsBest
    OBVIOUS
  <2>1. max_at_top \in {1, -1} /\ heap \in Seq(Keys) /\ Ordered(heap)
    BY HeapOrderIs DEF TypeOK
  <2> QED
    BY <2>1, OrderedTop DEF TopIsBest, Leq, elements
<1> QED
  BY <1>1, HeapOrdered, PTL

-----------------------------------------------------------------------------
(* What the operations do to the keys as a bag. *)

(* queue_insert takes the new element in and loses none. *)
LEMMA ClimbKeeps ==
    ASSUME NEW h \in Seq(Keys), NEW element \in Keys
    PROVE  SameElements(Climb(h, element), Append(h, element))
<1> DEFINE idx    == Len(h) + 1
           path   == Above(idx)
           passed == {p \in path \ {idx} :
                        \A q \in path \ {idx} : q >= p => Compare(element, h[q]) < 0}
           rest   == IF passed = {} THEN idx ELSE Min(passed)
           g      == Climb(h, element)
           a      == Append(h, element)
           b      == [p \in 1 .. idx |-> IF p = rest THEN idx
                                         ELSE IF p \in path /\ p > rest THEN p \div 2
                                         ELSE p]
<1>1. idx \in Nat /\ idx > 0 /\ Len(h) = idx - 1
  OBVIOUS
<1>2. g = [p \in 1 .. idx |-> IF p = rest THEN element
                              ELSE IF p \in path /\ p > rest THEN h[p \div 2]
                              ELSE h[p]]
  BY DEF Climb
<1>3. Len(a) = idx /\ a[idx] = element /\ \A p \in 1 .. idx - 1 : a[p] = h[p]
  OBVIOUS
<1>4. b = [p \in 1 .. idx |-> IF p = rest THEN idx
                              ELSE IF p \in path /\ p > rest THEN p \div 2 ELSE p]
  OBVIOUS
<1> HIDE DEF idx, g, a, b
<1>5. /\ idx \in path /\ path \subseteq 1 .. idx
      /\ \A p \in path : p = 1 \/ p \div 2 \in path
      /\ \A p, q \in path : p < q => p <= q \div 2
  BY <1>1, AboveIs
<1> HIDE DEF path
<1>6. rest \in path
  <2>1. passed \subseteq 0 .. idx /\ passed \subseteq path
    <3>1. passed \subseteq path
      OBVIOUS
    <3>2. 1 .. idx \subseteq 0 .. idx
      BY <1>1
    <3> HIDE DEF passed
    <3> QED
      BY <1>5, <3>1, <3>2
  <2>2. passed # {} => Min(passed) \in passed
    <3> HIDE DEF passed
    <3> QED
      BY <1>1, <2>1, LeastOf
  <2> HIDE DEF passed
  <2> QED
    BY <1>5, <2>1, <2>2
<1> HIDE DEF rest
<1>7. rest \in 1 .. idx /\ rest \in Nat
  BY <1>1, <1>5, <1>6
<1>8. ASSUME NEW p \in 1 .. idx
      PROVE  /\ p = rest => b[p] = idx
             /\ p # rest /\ p \in path /\ p > rest =>
                   /\ b[p] = p \div 2 /\ b[p] \in path /\ b[p] >= rest /\ b[p] \in 1 .. idx - 1
             /\ p # rest /\ ~(p \in path /\ p > rest) => b[p] = p /\ p \in 1 .. idx - 1
             /\ b[p] \in 1 .. idx
  <2>1. CASE p = rest
    BY <1>1, <1>4, <2>1
  <2>2. CASE p # rest /\ p \in path /\ p > rest
    <3>1. b[p] = p \div 2 /\ p > 1
      BY <1>4, <1>7, <2>2
    <3>2. p \div 2 \in path /\ rest <= p \div 2
      BY <1>5, <1>6, <2>2, <3>1
    <3>3. p \div 2 \in 1 .. idx - 1
      BY <1>1, <3>1
    <3> QED
      BY <1>1, <1>7, <2>2, <3>1, <3>2, <3>3
  <2>3. CASE p # rest /\ ~(p \in path /\ p > rest)
    <3>1. p # idx
      BY <1>1, <1>5, <1>7, <2>3
    <3>2. b[p] = p
      BY <1>4, <2>3
    <3> QED
      BY <1>1, <2>3, <3>1, <3>2
  <2> QED
    BY <2>1, <2>2, <2>3
<1>9. ASSUME NEW p \in 1 .. idx, NEW q \in 1 .. idx, b[p] = b[q], p # q, p < q PROVE FALSE
  <2>1. CASE p = rest \/ q = rest
    BY <1>1, <1>8, <1>9, <2>1
  <2>2. CASE p \in path /\ p > rest /\ q \in path /\ q > rest
    <3>1. p <= q \div 2 /\ p \div 2 < p
      BY <1>5, <1>7, <1>9, <2>2
    <3>2. b[p] = p \div 2 /\ b[q] = q \div 2
      BY <1>7, <1>8, <2>2
    <3>3. p \div 2 # q \div 2
      BY <1>1, <3>1
    <3> QED
      BY <1>9, <3>2, <3>3
  <2>3. CASE p # rest /\ q # rest /\ p \in path /\ p > rest /\ ~(q \in path /\ q > rest)
    <3>1. b[p] \in path /\ b[p] >= rest /\ b[q] = q
      BY <1>8, <2>3
    <3> QED
      BY <1>1, <1>7, <1>9, <2>3, <3>1
  <2>4. CASE p # rest /\ q # rest /\ ~(p \in path /\ p > rest) /\ q \in path /\ q > rest
    <3>1. b[q] \in path /\ b[q] >= rest /\ b[p] = p
      BY <1>8, <2>4
    <3> QED
      BY <1>7, <1>9, <2>4, <3>1
  <2>5. CASE p # rest /\ q # rest /\ ~(p \in path /\ p > rest) /\ ~(q \in path /\ q > rest)
    <3>1. b[p] = p /\ b[q] = q
      BY <1>8, <2>5
    <3> QED
      BY <1>9, <3>1
  <2> QED
    BY <1>7, <2>1, <2>2, <2>3, <2>4, <2>5
<1>10. b \in [1 .. idx -> 1 .. idx] /\ OneToOne(b)
  <2>1. b \in [1 .. idx -> 1 .. idx]
    BY <1>4, <1>8
  <2>2. ASSUME NEW p \in 1 .. idx, NEW q \in 1 .. idx, b[p] = b[q], p # q PROVE FALSE
    <3>1. p < q \/ q < p
      BY <1>1, <2>2
    <3> QED
      BY <1>9, <2>2, <3>1
  <2> QED
    BY <2>1, <2>2 DEF OneToOne
<1>11. ASSUME NEW p \in 1 .. idx PROVE g[p] = a[b[p]]
  BY <1>2, <1>3, <1>8
<1>12. Len(g) = idx
  BY <1>1, <1>2
<1>13. Rearranged(g, a, b)
  BY <1>3, <1>10, <1>11 DEF Rearranged
<1>14. SameElements(g, a)
  BY <1>3, <1>12, <1>13 DEF SameElements
<1> QED
  BY <1>14 DEF g, a

(* _downheap only moves elements. *)
LEMMA DownheapKeeps ==
    ASSUME max_at_top \in {1, -1}, NEW h \in Seq(Keys), NEW idx \in 1 .. Len(h)
    PROVE  SameElements(Downheap(h, idx), h)
<1>1. PICK n, g : n = Len(h) /\ g = Downheap(h, idx)
  OBVIOUS
<1>2. n \in Nat
  BY <1>1
<1>3. Settles(g, h, n, idx)
  BY <1>1, DownheapSettles
<1>4. Len(g) = n
  BY <1>1, <1>3, SettledSeq
<1>5. PICK way, len : /\ IsWay(way, len, h, n, idx)
                      /\ \/ g = h
                         \/ \E stop \in 2 .. len : MovedDown(g, h, n, way, stop)
  BY <1>3 DEF Settles
<1>6. /\ len \in Nat \ {0}
      /\ \A k \in 1 .. len : way[k] \in 1 .. n
      /\ \A k, l \in 1 .. len : way[k] = way[l] => k = l
  <2>1. /\ len \in Nat \ {0} /\ way \in [1 .. len -> idx .. n]
        /\ \A k, l \in 1 .. len : k < l => way[k] < way[l]
    BY <1>5 DEF IsWay
  <2>2. \A k \in 1 .. len : way[k] \in 1 .. n
    BY <1>1, <1>2, <2>1
  <2>3. ASSUME NEW k \in 1 .. len, NEW l \in 1 .. len, way[k] = way[l], k # l PROVE FALSE
    <3>1. k < l \/ l < k
      BY <2>1, <2>3
    <3> QED
      BY <2>1, <2>2, <2>3, <3>1
  <2> QED
    BY <2>1, <2>2, <2>3
<1>7. CASE g = h
  BY <1>1, <1>7, SameRefl
<1>8. ASSUME NEW stop \in 2 .. len, MovedDown(g, h, n, way, stop) PROVE SameElements(g, h)
  <2> DEFINE at(p) == CHOOSE k \in 1 .. stop : way[k] = p
             b == [p \in 1 .. n |-> IF \E k \in 1 .. stop : way[k] = p
                                      THEN IF at(p) = stop THEN way[1] ELSE way[at(p) + 1]
                                      ELSE p]
  <2>1. /\ g[way[stop]] = h[way[1]]
        /\ \A k \in 1 .. stop - 1 : g[way[k]] = h[way[k + 1]]
        /\ \A p \in 1 .. n : (\A k \in 1 .. stop : way[k] # p) => g[p] = h[p]
    BY <1>8 DEF MovedDown
  <2>2. stop \in Nat /\ stop >= 2 /\ stop <= len /\ \A k \in 1 .. stop : k \in 1 .. len
    BY <1>6, <1>8
  <2>3. \A k \in 1 .. stop : at(way[k]) = k
    BY <1>6, <2>2
  <2>4. b = [p \in 1 .. n |-> IF \E k \in 1 .. stop : way[k] = p
                                THEN IF at(p) = stop THEN way[1] ELSE way[at(p) + 1]
                                ELSE p]
    OBVIOUS
  <2> HIDE DEF at, b
  <2>5. \A k \in 1 .. stop : b[way[k]] = IF k = stop THEN way[1] ELSE way[k + 1]
    <3> SUFFICES ASSUME NEW k \in 1 .. stop
                 PROVE  b[way[k]] = IF k = stop THEN way[1] ELSE way[k + 1]
      OBVIOUS
    <3>1. way[k] \in 1 .. n /\ at(way[k]) = k
      BY <1>6, <2>2, <2>3
    <3> QED
      BY <2>4, <3>1
  <2>6. \A p \in 1 .. n : (\A k \in 1 .. stop : way[k] # p) => b[p] = p
    BY <2>4
  <2> DEFINE to(k) == IF k = stop THEN 1 ELSE k + 1
  <2>7. \A k \in 1 .. stop : to(k) \in 1 .. stop /\ b[way[k]] = way[to(k)]
    BY <2>2, <2>5
  <2>8. \A k, l \in 1 .. stop : to(k) = to(l) => k = l
    BY <2>2
  <2> HIDE DEF to
  <2>9. \A p \in 1 .. n : b[p] \in 1 .. n
    <3> SUFFICES ASSUME NEW p \in 1 .. n PROVE b[p] \in 1 .. n
      OBVIOUS
    <3>1. CASE \E k \in 1 .. stop : way[k] = p
      BY <1>6, <2>2, <2>7, <3>1
    <3>2. CASE \A k \in 1 .. stop : way[k] # p
      BY <2>6, <3>2
    <3> QED
      BY <3>1, <3>2
  <2>10. ASSUME NEW p \in 1 .. n, NEW q \in 1 .. n, b[p] = b[q] PROVE p = q
    <3>1. CASE /\ \E k \in 1 .. stop : way[k] = p
               /\ \E k \in 1 .. stop : way[k] = q
      <4>1. PICK k \in 1 .. stop, l \in 1 .. stop : way[k] = p /\ way[l] = q
        BY <3>1
      <4>2. way[to(k)] = way[to(l)] /\ to(k) \in 1 .. len /\ to(l) \in 1 .. len
        BY <2>2, <2>7, <2>10, <4>1
      <4>3. to(k) = to(l)
        BY <1>6, <4>2
      <4> QED
        BY <2>8, <4>1, <4>3
    <3>2. CASE \A k \in 1 .. stop : way[k] # p
      <4>1. b[p] = p
        BY <2>6, <3>2
      <4>2. CASE \E k \in 1 .. stop : way[k] = q
        BY <2>7, <2>10, <3>2, <4>1, <4>2
      <4>3. CASE \A k \in 1 .. stop : way[k] # q
        BY <2>6, <2>10, <4>1, <4>3
      <4> QED
        BY <4>2, <4>3
    <3>3. CASE /\ \E k \in 1 .. stop : way[k] = p
               /\ \A k \in 1 .. stop : way[k] # q
      <4>1. PICK k \in 1 .. stop : way[k] = p
        BY <3>3
      <4>2. b[q] = q /\ b[p] = way[to(k)] /\ to(k) \in 1 .. stop
        BY <2>6, <2>7, <3>3, <4>1
      <4> QED
        BY <2>10, <3>3, <4>2
    <3> QED
      BY <3>1, <3>2, <3>3
  <2>11. b \in [1 .. n -> 1 .. n] /\ OneToOne(b)
    BY <2>4, <2>9, <2>10 DEF OneToOne
  <2>12. ASSUME NEW p \in 1 .. n PROVE g[p] = h[b[p]]
    <3>1. CASE \A k \in 1 .. stop : way[k] # p
      BY <2>1, <2>6, <3>1
    <3>2. ASSUME NEW k \in 1 .. stop, way[k] = p PROVE g[p] = h[b[p]]
      <4>1. CASE k = stop
        BY <2>1, <2>5, <3>2, <4>1
      <4>2. CASE k # stop
        <5>1. k \in 1 .. stop - 1
          BY <2>2, <4>2
        <5> QED
          BY <2>1, <2>5, <3>2, <4>2, <5>1
      <4> QED
        BY <4>1, <4>2
    <3> QED
      BY <3>1, <3>2
  <2>13. Rearranged(g, h, b)
    BY <1>1, <2>11, <2>12 DEF Rearranged
  <2> QED
    BY <1>1, <1>4, <2>13 DEF SameElements
<1> QED
  BY <1>1, <1>5, <1>7, <1>8

(* A bag of keys, by how often each key is there. *)
BagOf(c) == [k \in {j \in Keys : c[j] > 0} |-> c[k]]
Counts(h) == [k \in Keys |-> Count(h, k)]

(* KeyBag is this. *)
LEMMA KeyBagIs ==
    ASSUME NEW h \in Seq(Keys)
    PROVE  /\ KeyBag(h) = BagOf(Counts(h)) /\ Counts(h) \in [Keys -> Nat]
           /\ \A k \in Keys : Counts(h)[k] = Count(h, k)
           /\ \A k : k \in DOMAIN KeyBag(h) <=> \E i \in 1 .. Len(h) : h[i] = k
<1>1. DOMAIN h = 1 .. Len(h) /\ Len(h) \in Nat /\ \A i \in 1 .. Len(h) : h[i] \in Keys
  OBVIOUS
<1>2. KeyBag(h) = [k \in {h[i] : i \in 1 .. Len(h)} |-> Count(h, k)]
  BY <1>1 DEF KeyBag, ToSet, Count
<1>3. \A k \in Keys : /\ Count(h, k) \in Nat
                      /\ Count(h, k) = 0 <=> \A i \in 1 .. Len(h) : h[i] # k
  BY <1>1, CountType
<1>4. {h[i] : i \in 1 .. Len(h)} = {k \in Keys : Counts(h)[k] > 0}
  BY <1>1, <1>3 DEF Counts
<1> QED
  BY <1>2, <1>3, <1>4 DEF BagOf, Counts

(* d has x once more than c. *)
OneMore(c, d, x) == \A k \in Keys : d[k] = c[k] + (IF k = x THEN 1 ELSE 0)

(* Adding and taking away one key. *)
LEMMA BagPlus ==
    ASSUME NEW c \in [Keys -> Nat], NEW d \in [Keys -> Nat], NEW x \in Keys, OneMore(c, d, x)
    PROVE  /\ BagOf(d) = Queue!(+)(BagOf(c), Queue!One(x))
           /\ BagOf(c) = Queue!(-)(BagOf(d), Queue!One(x))
           /\ x \in DOMAIN BagOf(d)
<1>1. \A k \in Keys : c[k] \in Nat /\ d[k] \in Nat /\ d[k] = c[k] + (IF k = x THEN 1 ELSE 0)
  BY DEF OneMore
<1>2. PICK C, D : C = {k \in Keys : c[k] > 0} /\ D = {k \in Keys : d[k] > 0}
  OBVIOUS
<1>3. D = C \cup {x}
  BY <1>1, <1>2
<1>4. PICK bc, bd : /\ bc = [k \in C |-> c[k]] /\ bd = [k \in D |-> d[k]]
                    /\ bc = BagOf(c) /\ bd = BagOf(d)
  BY <1>2 DEF BagOf
<1>5. PICK one : one = [k \in {x} |-> 1] /\ one = Queue!One(x)
  BY DEF Queue!One, Queue!SetToBag
<1>6. Queue!(+)(bc, one) = [k \in C \cup {x} |-> (IF k \in C THEN c[k] ELSE 0)
                                                + (IF k \in {x} THEN 1 ELSE 0)]
  BY <1>4, <1>5 DEF Queue!(+)
<1>7. \A k \in D : d[k] = (IF k \in C THEN c[k] ELSE 0) + (IF k \in {x} THEN 1 ELSE 0)
  BY <1>1, <1>2
<1>8. bd = Queue!(+)(bc, one)
  BY <1>3, <1>4, <1>6, <1>7
<1> DEFINE less == [k \in DOMAIN bd |-> IF k \in DOMAIN one THEN bd[k] - one[k] ELSE bd[k]]
<1>9. Queue!(-)(bd, one) = [k \in {j \in DOMAIN less : less[j] > 0} |-> less[k]]
  BY DEF Queue!(-)
<1>10. less = [k \in D |-> c[k]]
  <2>1. \A k \in D : (IF k \in DOMAIN one THEN bd[k] - one[k] ELSE bd[k]) = c[k]
    BY <1>1, <1>2, <1>4, <1>5
  <2>2. DOMAIN bd = D
    BY <1>4
  <2> QED
    BY <2>1, <2>2
<1> HIDE DEF less
<1>11. {j \in DOMAIN less : less[j] > 0} = C
  BY <1>2, <1>3, <1>10, <1>1
<1>12. bc = Queue!(-)(bd, one)
  BY <1>3, <1>4, <1>9, <1>10, <1>11
<1>13. x \in DOMAIN bd
  BY <1>3, <1>4
<1> QED
  BY <1>4, <1>5, <1>8, <1>12, <1>13

(* A key counted less often than another bag has it. *)
LEMMA BagBelow ==
    ASSUME NEW c \in [Keys -> Nat], NEW d \in [Keys -> Nat], \A k \in Keys : c[k] <= d[k]
    PROVE  Queue!\sqsubseteq(BagOf(c), BagOf(d))
<1>1. \A k \in Keys : c[k] \in Nat /\ d[k] \in Nat
  OBVIOUS
<1>2. /\ DOMAIN BagOf(c) = {k \in Keys : c[k] > 0} /\ DOMAIN BagOf(d) = {k \in Keys : d[k] > 0}
      /\ \A k \in DOMAIN BagOf(c) : BagOf(c)[k] = c[k]
      /\ \A k \in DOMAIN BagOf(d) : BagOf(d)[k] = d[k]
  BY DEF BagOf
<1>3. \A k \in DOMAIN BagOf(c) : k \in DOMAIN BagOf(d) /\ BagOf(c)[k] <= BagOf(d)[k]
  BY <1>1, <1>2
<1> QED
  BY <1>3 DEF Queue!\sqsubseteq

(* Nothing in an empty queue. *)
LEMMA BagEmpty == KeyBag(<<>>) = Queue!EmptyBag
<1>1. DOMAIN KeyBag(<<>>) = {}
  BY DEF KeyBag, ToSet
<1>2. KeyBag(<<>>) = [k \in {} |-> 1]
  BY <1>1 DEF KeyBag, ToSet
<1> QED
  BY <1>2 DEF Queue!EmptyBag, Queue!SetToBag

-----------------------------------------------------------------------------
(* Number is defined that way. *)
LEMMA NumberSums == \A b : Queue!Number(b) = SumOf(b)[DOMAIN b]
BY DEF Queue!Number, Queue!MapThenFoldSet, Queue!BagToSet, SumOf, Sums, AnyOf

(* The number of keys in the bag is the number of elements. *)
LEMMA NumberIs ==
    ASSUME NEW h \in Seq(Keys)
    PROVE  Queue!Number(KeyBag(h)) = Len(h)
<1>1. PICK b : b = KeyBag(h)
  OBVIOUS
<1>2. DOMAIN b = {h[i] : i \in 1 .. Len(h)} /\ \A k \in DOMAIN b : b[k] = Count(h, k)
  <2>1. DOMAIN h = 1 .. Len(h)
    OBVIOUS
  <2> QED
    BY <1>1, <2>1 DEF KeyBag, ToSet, Count
<1>3. SumOf(b)[DOMAIN b] = Len(h)
  BY <1>2, SumsUp
<1> QED
  BY <1>1, <1>3, NumberSums

(* What the bag of keys becomes.  An element is put in, ... *)
LEMMA PutBag ==
    ASSUME NEW h \in Seq(Keys), NEW g \in Seq(Keys), NEW k \in Keys, SameElements(g, Append(h, k))
    PROVE  KeyBag(g) = Queue!(+)(KeyBag(h), Queue!One(k))
<1>1. Append(h, k) \in Seq(Keys) /\ Len(Append(h, k)) \in Nat
  OBVIOUS
<1>2. \A x : Count(g, x) = Count(h, x) + (IF k = x THEN 1 ELSE 0)
  BY <1>1, SameCount, CountAppend
<1>3. OneMore(Counts(h), Counts(g), k)
  BY <1>2 DEF OneMore, Counts
<1> QED
  BY <1>3, KeyBagIs, BagPlus

(* taken out (its place is taken by the last one), or replaced, ... *)
LEMMA ShortAppended ==
    ASSUME NEW h \in Seq(Keys), NEW idx \in 1 .. Len(h), NEW short, NEW e, NEW x \in Keys,
           short = Front([h EXCEPT ![idx] = h[Len(h)]]), e = [h EXCEPT ![idx] = x]
    PROVE  SameElements(Append(short, x), e)
<1>1. PICK n, a : n = Len(h) /\ a = Append(short, x)
  OBVIOUS
<1>2. n \in Nat /\ n >= 1 /\ Len(e) = n /\ \A p \in 1 .. n : e[p] = IF p = idx THEN x ELSE h[p]
  BY <1>1
<1>3. /\ short \in Seq(Keys) /\ Len(short) = n - 1
      /\ \A p \in 1 .. n - 1 : short[p] = IF p = idx THEN h[n] ELSE h[p]
  BY <1>1, ShortIs
<1>4. Len(a) = n /\ a[n] = x /\ \A p \in 1 .. n - 1 : a[p] = short[p]
  <2>1. /\ Len(a) = Len(short) + 1 /\ a[Len(short) + 1] = x
        /\ \A p \in 1 .. Len(short) : a[p] = short[p]
    BY <1>1, <1>3
  <2>2. Len(short) + 1 = n
    BY <1>2, <1>3
  <2> QED
    BY <1>3, <2>1, <2>2
<1>5. PICK b : b = [p \in 1 .. n |-> IF p = n THEN idx ELSE IF p = idx THEN n ELSE p]
  OBVIOUS
<1>6. b \in [1 .. n -> 1 .. n] /\ OneToOne(b)
  BY <1>1, <1>2, <1>5 DEF OneToOne
<1>7. ASSUME NEW p \in 1 .. n PROVE a[p] = e[b[p]]
  <2>1. CASE p = n
    BY <1>1, <1>2, <1>4, <1>5, <2>1
  <2>2. CASE p # n
    <3>1. p \in 1 .. n - 1 /\ n \in 1 .. n
      BY <1>2, <2>2
    <3>2. CASE p = idx
      <4>1. b[p] = n /\ e[n] = h[n]
        BY <1>2, <1>5, <2>2, <3>1, <3>2
      <4>2. a[p] = h[n]
        BY <1>3, <1>4, <3>1, <3>2
      <4> QED
        BY <4>1, <4>2
    <3>3. CASE p # idx
      BY <1>2, <1>3, <1>4, <1>5, <2>2, <3>1, <3>3
    <3> QED
      BY <3>2, <3>3
  <2> QED
    BY <2>1, <2>2
<1>8. Rearranged(a, e, b)
  BY <1>2, <1>6, <1>7 DEF Rearranged
<1>9. SameElements(a, e)
  BY <1>2, <1>4, <1>8 DEF SameElements
<1> QED
  BY <1>1, <1>9

(* (queue_remove) *)
LEMMA TakeBag ==
    ASSUME max_at_top \in {1, -1}, NEW h \in Seq(Keys), NEW idx \in 1 .. Len(h)
    PROVE  /\ KeyBag(Removed(h, idx)) = Queue!(-)(KeyBag(h), Queue!One(h[idx]))
           /\ h[idx] \in DOMAIN KeyBag(h)
<1>1. PICK n, short, g, x : /\ n = Len(h) /\ short = Front([h EXCEPT ![idx] = h[n]])
                            /\ g = Removed(h, idx) /\ x = h[idx]
  OBVIOUS
<1>2. n \in Nat /\ x \in Keys /\ h = [h EXCEPT ![idx] = x]
  BY <1>1
<1>3. SameElements(Append(short, x), h)
  BY <1>1, <1>2, ShortAppended
<1>4. short \in Seq(Keys) /\ Len(short) = n - 1
  BY <1>1, ShortIs
<1>5. g \in Seq(Keys) /\ SameElements(g, short)
  <2>1. g = IF idx = n THEN short ELSE Downheap(short, idx)
    BY <1>1 DEF Removed
  <2>2. CASE idx = n
    BY <1>4, <2>1, <2>2, SameRefl
  <2>3. CASE idx # n
    <3>1. idx \in 1 .. Len(short)
      BY <1>1, <1>2, <1>4, <2>3
    <3> QED
      BY <1>4, <2>1, <2>3, <3>1, DownheapOrders, DownheapKeeps
  <2> QED
    BY <2>2, <2>3
<1>6. \A k : Count(h, k) = Count(g, k) + (IF x = k THEN 1 ELSE 0)
  <2>1. Len(short) \in Nat /\ Len(h) \in Nat
    BY <1>1, <1>2, <1>4
  <2>2. \A k : Count(Append(short, x), k) = Count(h, k) /\ Count(g, k) = Count(short, k)
    BY <1>3, <1>5, <2>1, SameCount
  <2>3. \A k : Count(Append(short, x), k) = Count(short, k) + (IF x = k THEN 1 ELSE 0)
    BY <1>2, <1>4, CountAppend
  <2> QED
    BY <2>2, <2>3
<1>7. OneMore(Counts(g), Counts(h), x)
  BY <1>6 DEF OneMore, Counts
<1>8. KeyBag(g) = Queue!(-)(KeyBag(h), Queue!One(x)) /\ x \in DOMAIN KeyBag(h)
  <2>1. /\ KeyBag(g) = BagOf(Counts(g)) /\ Counts(g) \in [Keys -> Nat]
        /\ KeyBag(h) = BagOf(Counts(h)) /\ Counts(h) \in [Keys -> Nat]
    BY <1>5, KeyBagIs
  <2>2. PICK c, d : c = Counts(g) /\ d = Counts(h)
    OBVIOUS
  <2>3. c \in [Keys -> Nat] /\ d \in [Keys -> Nat] /\ OneMore(c, d, x)
    BY <1>7, <2>1, <2>2
  <2>4. BagOf(c) = Queue!(-)(BagOf(d), Queue!One(x)) /\ x \in DOMAIN BagOf(d)
    BY <1>2, <2>3, BagPlus
  <2> QED
    BY <2>1, <2>2, <2>4
<1> QED
  BY <1>1, <1>8

(* (queue_replaced) *)
LEMMA ReplaceBag ==
    ASSUME max_at_top \in {1, -1}, NEW h \in Seq(Keys), h # <<>>, NEW k \in Keys
    PROVE  /\ KeyBag(Downheap([h EXCEPT ![1] = k], 1)) =
                Queue!(+)(Queue!(-)(KeyBag(h), Queue!One(h[1])), Queue!One(k))
           /\ h[1] \in DOMAIN KeyBag(h)
<1>1. PICK n, short, e, g, x : /\ n = Len(h) /\ short = Front([h EXCEPT ![1] = h[n]])
                               /\ e = [h EXCEPT ![1] = k] /\ g = Downheap(e, 1) /\ x = h[1]
  OBVIOUS
<1>2. /\ n \in Nat /\ 1 \in 1 .. n /\ x \in Keys /\ h = [h EXCEPT ![1] = x]
      /\ e \in Seq(Keys) /\ Len(e) = n
  BY <1>1
<1>3. SameElements(Append(short, x), h) /\ SameElements(Append(short, k), e)
  BY <1>1, <1>2, ShortAppended
<1>4. short \in Seq(Keys) /\ Len(short) = n - 1 /\ Len(short) \in Nat
  <2>1. short \in Seq(Keys) /\ Len(short) = n - 1
    BY <1>1, <1>2, ShortIs
  <2> QED
    BY <2>1
<1>5. g \in Seq(Keys) /\ SameElements(g, e)
  BY <1>1, <1>2, DownheapOrders, DownheapKeeps
<1>6. \A j : /\ Count(h, j) = Count(short, j) + (IF x = j THEN 1 ELSE 0)
             /\ Count(g, j) = Count(short, j) + (IF k = j THEN 1 ELSE 0)
  <2>1. Len(h) \in Nat /\ Len(e) \in Nat
    BY <1>1, <1>2
  <2>2. \A j : /\ Count(Append(short, x), j) = Count(h, j)
               /\ Count(Append(short, k), j) = Count(e, j) /\ Count(g, j) = Count(e, j)
    BY <1>3, <1>5, <2>1, SameCount
  <2>3. \A j : /\ Count(Append(short, x), j) = Count(short, j) + (IF x = j THEN 1 ELSE 0)
               /\ Count(Append(short, k), j) = Count(short, j) + (IF k = j THEN 1 ELSE 0)
    BY <1>2, <1>4, CountAppend
  <2> QED
    BY <2>2, <2>3
<1>7. OneMore(Counts(short), Counts(h), x) /\ OneMore(Counts(short), Counts(g), k)
  BY <1>6 DEF OneMore, Counts
<1>8. KeyBag(short) = Queue!(-)(KeyBag(h), Queue!One(x)) /\ x \in DOMAIN KeyBag(h)
  <2>1. /\ KeyBag(short) = BagOf(Counts(short)) /\ Counts(short) \in [Keys -> Nat]
        /\ KeyBag(h) = BagOf(Counts(h)) /\ Counts(h) \in [Keys -> Nat]
    BY <1>4, KeyBagIs
  <2>2. PICK c, d : c = Counts(short) /\ d = Counts(h)
    OBVIOUS
  <2>3. c \in [Keys -> Nat] /\ d \in [Keys -> Nat] /\ OneMore(c, d, x)
    BY <1>7, <2>1, <2>2
  <2>4. BagOf(c) = Queue!(-)(BagOf(d), Queue!One(x)) /\ x \in DOMAIN BagOf(d)
    BY <1>2, <2>3, BagPlus
  <2> QED
    BY <2>1, <2>2, <2>4
<1>9. KeyBag(g) = Queue!(+)(KeyBag(short), Queue!One(k))
  <2>1. /\ KeyBag(short) = BagOf(Counts(short)) /\ Counts(short) \in [Keys -> Nat]
        /\ KeyBag(g) = BagOf(Counts(g)) /\ Counts(g) \in [Keys -> Nat]
    BY <1>4, <1>5, KeyBagIs
  <2> QED
    BY <1>7, <2>1, BagPlus
<1> QED
  BY <1>1, <1>8, <1>9

(* or what does not fit is dropped. *)
LEMMA ResizeBag ==
    ASSUME NEW h \in Seq(Keys), NEW n \in Nat
    PROVE  Queue!\sqsubseteq(KeyBag(Resized(h, n)), KeyBag(h))
<1>1. PICK m, g : m = (IF n < Len(h) THEN n ELSE Len(h)) /\ g = Resized(h, n)
  OBVIOUS
<1>2. m \in Nat /\ m <= n /\ m <= Len(h) /\ Len(h) \in Nat
  BY <1>1
<1>3. g = [p \in 1 .. m |-> h[p]]
  <2>1. g = SubSeq(h, 1, m)
    BY <1>1 DEF Resized
  <2>2. SubSeq(h, 1, m) = [p \in 1 .. (1 + m) - 1 |-> h[(p + 1) - 1]]
    BY <1>2
  <2> QED
    BY <1>2, <2>1, <2>2
<1>4. g \in Seq(Keys) /\ Len(g) = m
  <2>1. g \in [1 .. m -> Keys]
    BY <1>2, <1>3
  <2> QED
    BY <1>2, <2>1, FunctionIsSeq
<1>5. \A k : Count(g, k) <= Count(h, k)
  <2>1. \A i \in 1 .. Len(g) : g[i] = h[i]
    BY <1>3, <1>4
  <2> QED
    BY <1>2, <1>4, <2>1, CountPrefix
<1>6. \A k \in Keys : Counts(g)[k] <= Counts(h)[k]
  BY <1>5 DEF Counts
<1>7. Queue!\sqsubseteq(KeyBag(g), KeyBag(h))
  <2>1. /\ KeyBag(g) = BagOf(Counts(g)) /\ Counts(g) \in [Keys -> Nat]
        /\ KeyBag(h) = BagOf(Counts(h)) /\ Counts(h) \in [Keys -> Nat]
    BY <1>4, KeyBagIs
  <2> QED
    BY <1>6, <2>1, BagBelow
<1> QED
  BY <1>1, <1>7

-----------------------------------------------------------------------------
(* Every call is one of a priority queue. *)

(* What is found on top can be trusted to be the best as long as nothing    *)
(* has been disturbed.                                                      *)
LEMMA TopBag ==
    ASSUME HeapOrder, heap # <<>>
    PROVE  Queue!OnTop(heap[1])
<1>1. heap \in Seq(Keys) /\ max_at_top \in {1, -1} /\ (~disturbed => Ordered(heap))
  BY HeapOrderIs DEF TypeOK
<1>2. heap[1] \in DOMAIN KeyBag(heap)
  <2>1. 1 \in 1 .. Len(heap)
    BY <1>1
  <2> QED
    BY <1>1, <2>1, KeyBagIs
<1>3. ASSUME ~disturbed, NEW j \in DOMAIN KeyBag(heap)
      PROVE  IF max_at_top = -1 THEN heap[1] >= j ELSE heap[1] <= j
  <2>1. PICK i \in 1 .. Len(heap) : heap[i] = j
    BY <1>1, KeyBagIs
  <2>2. (heap[1] - j) * max_at_top <= 0
    BY <1>1, <1>3, <2>1, OrderedTop DEF Leq, Compare
  <2>3. heap[1] \in Int /\ j \in Int
    <3>1. 1 \in 1 .. Len(heap)
      BY <1>1
    <3>2. heap[1] \in Keys /\ j \in Keys
      BY <1>1, <2>1, <3>1
    <3> QED
      BY <3>2, MyQueueAssumption
  <2> QED
    BY <1>1, <2>2, <2>3
<1> QED
  BY <1>2, <1>3 DEF Queue!OnTop, Queue!Best, Queue!BagIn, Queue!BagToSet

(* An empty queue starts. *)
LEMMA InitQueue == Init => Queue!QueueStart
<1> SUFFICES ASSUME Init PROVE Queue!QueueStart
  OBVIOUS
<1>1. KeyBag(heap) = Queue!EmptyBag
  BY BagEmpty DEF Init
<1> QED
  BY <1>1 DEF Init, Queue!QueueStart

(* Emptied, whichever call does it. *)
LEMMA StartOverIs ==
    ASSUME heap' = <<>>, ~disturbed', did' = <<"init">> \/ \E n : did' = <<"reinit", n>>
    PROVE  Queue!StartOver
<1>1. KeyBag(heap)' = Queue!EmptyBag
  BY BagEmpty
<1>2. (IF did[1] = "reinit" THEN <<"init">> ELSE did)' = <<"init">>
  OBVIOUS
<1>3. (max_at_top = -1)' \in BOOLEAN
  OBVIOUS
<1> QED
  BY <1>1, <1>2, <1>3 DEF Queue!StartOver

(* So each step is one of the abstract queue, or none. *)
LEMMA NextQueue ==
    ASSUME HeapOrder, HeapOrder', [Next]_vars
    PROVE  [Queue!QueueNext]_(Queue!queueVars)
<1>1. /\ heap \in Seq(Keys) /\ heap' \in Seq(Keys) /\ max_at_top \in {1, -1}
      /\ disturbed \in BOOLEAN
  BY DEF HeapOrder, TypeOK
<1>2. PICK h, g : h = heap /\ g = heap' /\ KeyBag(heap) = KeyBag(h) /\ KeyBag(heap)' = KeyBag(g)
  OBVIOUS
<1>3. ASSUME NEW n \in Sizes, QueueInit(n) \/ QueueReinit(n) PROVE Queue!StartOver
  BY <1>3, StartOverIs DEF QueueInit, QueueReinit
<1>4. CASE QueueDelete \/ RemoveAll
  <2>1. Queue!StartOver
    BY <1>4, StartOverIs DEF QueueDelete, RemoveAll
  <2> QED
    BY <2>1 DEF Queue!QueueNext
<1>5. ASSUME NEW n \in Sizes, QueueResize(n) PROVE Queue!Drop
  <2>1. n \in Nat
    BY MyQueueAssumption
  <2>2. g = Resized(h, n)
    BY <1>2, <1>5 DEF QueueResize
  <2>3. Queue!\sqsubseteq(KeyBag(g), KeyBag(h))
    BY <1>1, <1>2, <2>1, <2>2, ResizeBag
  <2>4. did' = <<"resize">> /\ UNCHANGED <<max_at_top, disturbed>>
    BY <1>5 DEF QueueResize
  <2>5. (IF did[1] = "reinit" THEN <<"init">> ELSE did)' = <<"resize">>
    BY <2>4
  <2>6. UNCHANGED <<max_at_top = -1, ~disturbed>>
    BY <2>4
  <2> QED
    BY <1>2, <2>3, <2>5, <2>6 DEF Queue!Drop
<1>6. ASSUME NEW k \in Keys, QueueInsert(k) \/ QueueInsertExtending(k) PROVE Queue!Put(k)
  <2>1. /\ g = Climb(h, k) /\ did' = <<"insert", k>> /\ UNCHANGED <<max_at_top, disturbed>>
    BY <1>2, <1>6 DEF QueueInsert, QueueInsertExtending
  <2>2. KeyBag(g) = Queue!(+)(KeyBag(h), Queue!One(k))
    <3>1. SameElements(g, Append(h, k))
      BY <1>1, <1>2, <2>1, ClimbKeeps
    <3> QED
      BY <1>1, <1>2, <3>1, PutBag
  <2>3. (IF did[1] = "reinit" THEN <<"init">> ELSE did)' = <<"insert", k>>
    BY <2>1
  <2>4. UNCHANGED <<max_at_top = -1, ~disturbed>>
    BY <2>1
  <2> QED
    BY <1>2, <2>2, <2>3, <2>4 DEF Queue!Put
<1>7. ASSUME NEW k \in Keys, QueueReplaced(k) PROVE Queue!Replace(heap[1], k) /\ heap[1] \in Keys
  <2>1. /\ h # <<>> /\ g = Downheap([h EXCEPT ![1] = k], 1)
        /\ did' = <<"replaced", k>> /\ UNCHANGED <<max_at_top, disturbed>>
    BY <1>2, <1>7 DEF QueueReplaced
  <2>2. KeyBag(g) = Queue!(+)(Queue!(-)(KeyBag(h), Queue!One(h[1])), Queue!One(k))
    BY <1>1, <1>2, <2>1, ReplaceBag
  <2>3. Queue!OnTop(heap[1])
    BY <1>2, <2>1, TopBag
  <2>4. (IF did[1] = "reinit" THEN <<"init">> ELSE did)' = <<"replaced", k>>
    BY <2>1
  <2>5. UNCHANGED <<max_at_top = -1, ~disturbed>>
    BY <2>1
  <2>6. heap[1] \in Keys
    BY <1>1, <1>2, <2>1
  <2> QED
    BY <1>2, <2>2, <2>3, <2>4, <2>5, <2>6 DEF Queue!Replace
<1>8. ASSUME NEW idx \in 1 .. elements, QueueRemove(idx)
      PROVE  heap[idx] \in Keys /\ (Queue!TakeTop(heap[idx]) \/ Queue!TakeInner(heap[idx]))
  <2>1. /\ idx \in 1 .. Len(h) /\ g = Removed(h, idx) /\ UNCHANGED max_at_top
        /\ disturbed' = (disturbed \/ LeftBelow(idx))
        /\ did' = <<IF idx = 1 THEN "remove" ELSE "remove inner", heap[idx]>>
    BY <1>2, <1>8 DEF QueueRemove, elements
  <2>2. /\ KeyBag(g) = Queue!(-)(KeyBag(h), Queue!One(h[idx]))
        /\ h[idx] \in DOMAIN KeyBag(h)
    BY <1>1, <1>2, <2>1, TakeBag
  <2>3. heap[idx] \in Keys
    <3>1. h \in Seq(Keys)
      BY <1>1, <1>2
    <3>2. PICK i : i = idx /\ i \in 1 .. Len(h)
      BY <2>1
    <3>3. h[i] \in Keys
      BY <3>1, <3>2
    <3> QED
      BY <1>2, <3>2, <3>3
  <2>4. UNCHANGED (max_at_top = -1)
    BY <2>1
  <2>5. CASE idx = 1
    <3>1. (IF did[1] = "reinit" THEN <<"init">> ELSE did)' = <<"remove", heap[idx]>>
      BY <2>1, <2>5
    <3>2. disturbed' = disturbed
      BY <1>1, <2>1, <2>5 DEF LeftBelow
    <3>3. UNCHANGED <<max_at_top = -1, ~disturbed>>
      BY <2>4, <3>2
    <3>4. Queue!OnTop(heap[idx])
      <4>1. heap # <<>>
        <5>1. PICK i : i \in 1 .. Len(h)
          BY <2>1
        <5>2. h # <<>>
          BY <5>1
        <5> QED
          BY <1>2, <5>2
      <4> QED
        BY <2>5, <4>1, TopBag
    <3>5. Queue!TakeTop(heap[idx])
      BY <1>2, <2>2, <3>1, <3>3, <3>4 DEF Queue!TakeTop
    <3> QED
      BY <2>3, <3>5
  <2>6. CASE idx # 1
    <3>1. (IF did[1] = "reinit" THEN <<"init">> ELSE did)' = <<"remove inner", heap[idx]>>
      BY <2>1, <2>6
    <3>2. (~disturbed)' => ~disturbed
      BY <2>1
    <3>3. Queue!TakeInner(heap[idx])
      BY <1>2, <2>2, <2>4, <3>1, <3>2 DEF Queue!TakeInner, Queue!BagIn, Queue!BagToSet
    <3> QED
      BY <2>3, <3>3
  <2> QED
    BY <2>5, <2>6
<1>9. CASE QueueFix
  <2>1. PICK changed \in [1 .. elements -> Keys] : heap' = Heapify(changed)
    BY <1>9 DEF QueueFix
  <2>2. changed \in Seq(Keys) /\ Len(changed) = Len(heap)
    BY <1>1, <2>1, FunctionIsSeq DEF elements
  <2>3. Len(g) = Len(h)
    BY <1>1, <1>2, <2>1, <2>2, HeapifyOrders
  <2>4. Queue!Number(KeyBag(heap)') = Queue!Number(KeyBag(heap))
    BY <1>1, <1>2, <2>3, NumberIs
  <2>5. did' = <<"fix">> /\ UNCHANGED max_at_top /\ ~disturbed'
    BY <1>9 DEF QueueFix
  <2>6. (IF did[1] = "reinit" THEN <<"init">> ELSE did)' = <<"fix">>
    BY <2>5
  <2>7. UNCHANGED (max_at_top = -1) /\ (~disturbed)'
    BY <2>5
  <2>8. Queue!ChangeAll
    BY <2>4, <2>6, <2>7 DEF Queue!ChangeAll
  <2> QED
    BY <2>8 DEF Queue!QueueNext
<1>10. CASE UNCHANGED vars
  <2>1. UNCHANGED <<heap, max_at_top, disturbed, did>>
    BY <1>10 DEF vars
  <2>2. UNCHANGED Queue!queueVars
    BY <2>1 DEF Queue!queueVars
  <2> QED
    BY <2>2
<1>11. CASE \E n \in Sizes : QueueInit(n) \/ QueueResize(n) \/ QueueReinit(n)
  <2>1. Queue!StartOver \/ Queue!Drop
    BY <1>3, <1>5, <1>11
  <2> QED
    BY <2>1 DEF Queue!QueueNext
<1>12. CASE \E k \in Keys : QueueInsert(k) \/ QueueInsertExtending(k) \/ QueueReplaced(k)
  <2>1. PICK k \in Keys : QueueInsert(k) \/ QueueInsertExtending(k) \/ QueueReplaced(k)
    BY <1>12
  <2>2. Queue!Put(k) \/ \E j \in Keys : Queue!Replace(j, k)
    BY <1>6, <1>7, <2>1
  <2> QED
    BY <2>2 DEF Queue!QueueNext
<1>13. CASE \E idx \in 1 .. elements : QueueRemove(idx)
  <2>1. \E k \in Keys : Queue!TakeTop(k) \/ Queue!TakeInner(k)
    BY <1>8, <1>13
  <2> QED
    BY <2>1 DEF Queue!QueueNext
<1> QED
  BY <1>4, <1>9, <1>10, <1>11, <1>12, <1>13 DEF Next

(* my_queue is a priority queue, whatever the keys and the sizes: no call   *)
(* loses, duplicates or invents a key, and what is on top is the best as    *)
(* long as queue_remove has not disturbed the order.                        *)
THEOREM QueueRefinement == Spec => ImplementsPriorityQueue
<1>1. HeapOrder /\ HeapOrder' /\ [Next]_vars => [Queue!QueueNext]_(Queue!queueVars)
  BY NextQueue
<1> QED
  BY <1>1, InitQueue, HeapOrdered, PTL DEF Spec, ImplementsPriorityQueue, Queue!QueueSpec
=============================================================================

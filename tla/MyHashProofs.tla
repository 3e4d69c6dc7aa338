---------------------------- MODULE MyHashProofs ----------------------------
(***************************************************************************)
(* my_hash for every memory, every table and every set of keys: all items  *)
(* stay in the chains of their buckets, linked both ways, through          *)
(* insertions, deletions and rehashes, also those made under a traversal;  *)
(* the traversal neither stands on freed memory nor passes over an item;   *)
(* the iterators agree with the buckets; and the table is a map.           *)
(*                                                                         *)
(* The inductive invariant speaks of one sequence of items for each        *)
(* bucket.                                                                 *)
(***************************************************************************)
EXTENDS MyHash, ProofLemmas

-----------------------------------------------------------------------------
(* The buckets. *)

(* Chain finds a sequence whose elements follow each other. *)
LEMMA ChainIs ==
    ASSUME NEW s \in Seq(Cells), Distinct(s), NEW first, NEW link,
           Follows(s, first, link, Null)
    PROVE  Chain(first, link) = s
<1>1. Chain(first, link) = Along(Cardinality(Cells), first, link, Null)
  BY DEF Chain, Along, Walk, WalkStep
<1>2. IsFiniteSet(Cells) /\ Null \notin Cells
  BY MyHashAssumption
<1> QED
  BY <1>1, <1>2, AlongIs

(* A number has a bucket in every table. *)
LEMMA IndexIs ==
    ASSUME NEW m \in Nat, NEW n \in Nat, n # 0
    PROVE  Index(m, n) \in 0 .. n - 1
BY DEF Index

(* So has a key. *)
LEMMA HashIs == \A k \in Keys : Hash(k) \in Nat
BY MyHashAssumption DEF Hash

(* s is linked from first on; no pointer leads to its end. *)
LastOf(s) == IF Len(s) = 0 THEN Null ELSE s[Len(s)]

ChainOf(s, first, nx, pv) == Linked(s, first, LastOf(s), nx, pv, Null)

(* c has the chains of a table of n buckets it, for the items U with the    *)
(* numbers nr: each item is in that of its number.                          *)
Chains(c, n, it, nx, pv, nr, U) ==
    /\ n \in Nat /\ c \in [0 .. n - 1 -> Seq(Cells)] /\ U \subseteq Cells
    /\ \A b \in 0 .. n - 1 :
          /\ ChainOf(c[b], it[b], nx, pv)
          /\ \A p \in 1 .. Len(c[b]) : /\ c[b][p] \in U /\ nr[c[b][p]] \in Nat
                                       /\ Index(nr[c[b][p]], n) = b
    /\ \A i \in U : \E b \in 0 .. n - 1 : \E p \in 1 .. Len(c[b]) : c[b][p] = i

(* What this says of one bucket, in other words. *)
LEMMA BucketIs ==
    ASSUME NEW c, NEW n, NEW it, NEW nx, NEW pv, NEW nr, NEW U,
           Chains(c, n, it, nx, pv, nr, U), NEW b \in 0 .. n - 1
    PROVE  /\ Chain(it[b], nx) = c[b] /\ c[b] \in Seq(Cells) /\ Len(c[b]) \in Nat
           /\ \A p, q \in 1 .. Len(c[b]) : c[b][p] = c[b][q] => p = q
           /\ it[b] = IF Len(c[b]) = 0 THEN Null ELSE c[b][1]
           /\ it[b] = Null <=> Len(c[b]) = 0
           /\ \A p \in 1 .. Len(c[b]) :
                 /\ c[b][p] \in Cells /\ c[b][p] # Null
                 /\ nx[c[b][p]] = IF p = Len(c[b]) THEN Null ELSE c[b][p + 1]
                 /\ pv[c[b][p]] = IF p = 1 THEN Null ELSE c[b][p - 1]
<1>1. c[b] \in Seq(Cells) /\ Linked(c[b], it[b], LastOf(c[b]), nx, pv, Null)
  BY DEF Chains, ChainOf
<1>2. PICK s \in Seq(Cells) : s = c[b]
  BY <1>1
<1>3. /\ Distinct(s) /\ Follows(s, it[b], nx, Null)
      /\ \A p \in 1 .. Len(s) : pv[s[p]] = IF p = 1 THEN Null ELSE s[p - 1]
  BY <1>1, <1>2 DEF Linked
<1>4. Chain(it[b], nx) = s
  BY <1>3, ChainIs
<1>5. /\ Len(s) \in Nat
      /\ \A p \in 1 .. Len(s) : s[p] \in Cells /\ s[p] # Null
  BY MyHashAssumption
<1>6. /\ it[b] = IF Len(s) = 0 THEN Null ELSE s[1]
      /\ \A p \in 1 .. Len(s) : nx[s[p]] = IF p = Len(s) THEN Null ELSE s[p + 1]
  BY <1>3 DEF Follows
<1>7. it[b] = Null <=> Len(s) = 0
  <2>1. Len(s) # 0 => 1 \in 1 .. Len(s)
    BY <1>5
  <2> QED
    BY <1>5, <1>6, <2>1
<1>8. \A p, q \in 1 .. Len(s) : s[p] = s[q] => p = q
  BY <1>3 DEF Distinct
<1> QED
  BY <1>2, <1>3, <1>4, <1>5, <1>6, <1>7, <1>8

(* Each item is in the bucket of its number. *)
LEMMA ItemIn ==
    ASSUME NEW c, NEW n, NEW it, NEW nx, NEW pv, NEW nr, NEW U,
           Chains(c, n, it, nx, pv, nr, U), NEW i \in U
    PROVE  /\ nr[i] \in Nat /\ Index(nr[i], n) \in 0 .. n - 1
           /\ \E p \in 1 .. Len(c[Index(nr[i], n)]) : c[Index(nr[i], n)][p] = i
<1>1. PICK b \in 0 .. n - 1 : \E p \in 1 .. Len(c[b]) : c[b][p] = i
  BY DEF Chains
<1>2. PICK p \in 1 .. Len(c[b]) : c[b][p] = i
  BY <1>1
<1>3. nr[c[b][p]] \in Nat /\ Index(nr[c[b][p]], n) = b
  BY DEF Chains
<1> QED
  BY <1>2, <1>3

-----------------------------------------------------------------------------
(* The items, bucket after bucket. *)

(* Where the chains are in them. *)
LEMMA ItemsPlaces ==
    ASSUME NEW c, Chains(c, size, iter, next, prev, number, used)
    PROVE  Items \in Seq(Cells) /\ \E off : Places(Items, c, size, off)
<1>1. size \in Nat /\ c \in [0 .. size - 1 -> Seq(Cells)]
  BY DEF Chains
<1>2. PICK cs : cs = [b \in 1 .. size |-> c[b - 1]]
  OBVIOUS
<1>3. Items = FlattenSeq(cs)
  <2>1. \A b \in 1 .. size : b - 1 \in 0 .. size - 1
    BY <1>1
  <2>2. \A b \in 0 .. size - 1 : Bucket(b) = c[b]
    BY BucketIs DEF Bucket
  <2>3. \A b \in 1 .. size : Bucket(b - 1) = c[b - 1]
    BY <2>1, <2>2
  <2>4. [b \in 1 .. size |-> Bucket(b - 1)] = [b \in 1 .. size |-> c[b - 1]]
    BY <2>3
  <2> QED
    BY <1>2, <2>4 DEF Items
<1>4. Len(cs) = size
  BY <1>1, <1>2
<1>5. CASE size = 0
  <2>1. FlattenSeq(cs) = cs
    BY <1>4, <1>5 DEF FlattenSeq
  <2>2. cs = <<>>
    BY <1>2, <1>5
  <2>3. \A off : off[0] = 0 => Places(<<>>, c, 0, off)
    <3>1. Len(<<>>) = 0 /\ 0 .. 0 - 1 = {} /\ 1 .. 0 = {} /\ \A b \in 0 .. 0 : b = 0
      OBVIOUS
    <3> QED
      BY <3>1 DEF Places
  <2>4. [b \in 0 .. 0 |-> 0][0] = 0
    OBVIOUS
  <2>5. \E off : Places(<<>>, c, 0, off)
    BY <2>3, <2>4
  <2> QED
    BY <1>3, <1>5, <2>1, <2>2, <2>5
<1>6. CASE size # 0
  <2>1. FlattenSeq(cs) = Flat(cs)[size]
    BY <1>4, <1>6 DEF FlattenSeq, Flat, FlatStep
  <2>2. Flat(cs)[size] \in Seq(Cells) /\ \E off : Places(Flat(cs)[size], c, size, off)
    BY <1>1, <1>2, <1>6, FlatPlaces
  <2> QED
    BY <1>3, <2>1, <2>2
<1> QED
  BY <1>5, <1>6

(* Each item is among them once. *)
LEMMA ItemsAre ==
    ASSUME NEW c, Chains(c, size, iter, next, prev, number, used)
    PROVE  /\ Items \in Seq(Cells) /\ Len(Items) \in Nat /\ Distinct(Items)
           /\ Elements = used /\ Elements = {Items[p] : p \in 1 .. Len(Items)}
           /\ Len(Items) = Cardinality(used) /\ IsFiniteSet(used)
<1>1. PICK s \in Seq(Cells) : s = Items
  BY ItemsPlaces
<1>2. PICK off : Places(s, c, size, off)
  BY <1>1, ItemsPlaces
<1>3. /\ \A b \in 0 .. size - 1 : \A q \in 1 .. Len(c[b]) :
             off[b] + q <= Len(s) /\ s[off[b] + q] = c[b][q]
      /\ \A p \in 1 .. Len(s) : \E b \in 0 .. size - 1 : \E q \in 1 .. Len(c[b]) : p = off[b] + q
      /\ \A b \in 0 .. size - 1 : off[b] \in Nat /\ Len(c[b]) \in Nat
  <2>1. \A b \in 0 .. size - 1 : b \in 0 .. size
    BY DEF Chains
  <2> QED
    BY <1>2, <2>1, BucketIs DEF Places
<1>4. Distinct(s)
  <2> SUFFICES ASSUME NEW p \in 1 .. Len(s), NEW r \in 1 .. Len(s), s[p] = s[r] PROVE p = r
    BY DEF Distinct
  <2>1. PICK b \in 0 .. size - 1 : \E q \in 1 .. Len(c[b]) : p = off[b] + q
    BY <1>3
  <2>2. PICK q \in 1 .. Len(c[b]) : p = off[b] + q
    BY <2>1
  <2>3. PICK d \in 0 .. size - 1 : \E t \in 1 .. Len(c[d]) : r = off[d] + t
    BY <1>3
  <2>4. PICK t \in 1 .. Len(c[d]) : r = off[d] + t
    BY <2>3
  <2>5. c[b][q] = c[d][t]
    BY <1>3, <2>2, <2>4
  <2>6. Index(number[c[b][q]], size) = b /\ Index(number[c[d][t]], size) = d
    BY DEF Chains
  <2>7. b = d
    BY <2>5, <2>6
  <2>8. q = t
    BY <2>5, <2>7, BucketIs
  <2> QED
    BY <2>2, <2>4, <2>7, <2>8
<1>5. {s[p] : p \in 1 .. Len(s)} = used
  <2>1. ASSUME NEW p \in 1 .. Len(s) PROVE s[p] \in used
    <3>1. PICK b \in 0 .. size - 1 : \E q \in 1 .. Len(c[b]) : p = off[b] + q
      BY <1>3
    <3>2. PICK q \in 1 .. Len(c[b]) : p = off[b] + q
      BY <3>1
    <3>3. c[b][q] \in used
      BY DEF Chains
    <3> QED
      BY <1>3, <3>2, <3>3
  <2>2. ASSUME NEW i \in used PROVE \E p \in 1 .. Len(s) : s[p] = i
    <3>1. PICK b \in 0 .. size - 1 : \E q \in 1 .. Len(c[b]) : c[b][q] = i
      BY DEF Chains
    <3>2. PICK q \in 1 .. Len(c[b]) : c[b][q] = i
      BY <3>1
    <3>3. off[b] + q \in 1 .. Len(s) /\ s[off[b] + q] = i
      <4>1. off[b] \in Nat /\ Len(c[b]) \in Nat /\ off[b] + q <= Len(s) /\ s[off[b] + q] = c[b][q]
        BY <1>3
      <4>2. Len(s) \in Nat
        OBVIOUS
      <4> QED
        BY <3>2, <4>1, <4>2
    <3> QED
      BY <3>3
  <2> QED
    BY <2>1, <2>2
<1>6. Len(s) \in Nat /\ Cardinality({s[p] : p \in 1 .. Len(s)}) = Len(s)
  BY <1>4, MyHashAssumption, DistinctCount
<1>7. Elements = {s[p] : p \in 1 .. Len(s)}
  <2>1. DOMAIN s = 1 .. Len(s)
    OBVIOUS
  <2> QED
    BY <1>1, <2>1 DEF Elements, ToSet
<1>8. IsFiniteSet(used)
  <2>1. used \in SUBSET Cells /\ IsFiniteSet(Cells)
    BY MyHashAssumption DEF Chains
  <2> QED
    BY <2>1, FS_Subset
<1> QED
  BY <1>1, <1>4, <1>5, <1>6, <1>7, <1>8
-----------------------------------------------------------------------------
(* The first bucket that is not empty. *)
LEMMA AheadLeast ==
    ASSUME NEW b \in Nat, NEW heads, NEW n, Ahead(b, heads, n) # {}
    PROVE  /\ Min(Ahead(b, heads, n)) \in b .. n - 1
           /\ heads[Min(Ahead(b, heads, n))] # Null
           /\ \A j \in Ahead(b, heads, n) : Min(Ahead(b, heads, n)) <= j
<1>1. PICK S : S = Ahead(b, heads, n)
  OBVIOUS
<1>2. S \subseteq Nat
  BY <1>1 DEF Ahead
<1>3. \E m \in S : \A k \in S : m <= k
  BY <1>1, <1>2, LeastNumber
<1>4. Min(S) \in S /\ \A k \in S : Min(S) <= k
  BY <1>3 DEF Min
<1> QED
  BY <1>1, <1>4 DEF Ahead

(* Its first item follows, in the order of all items. *)
LEMMA FirstFromIs ==
    ASSUME NEW c, Chains(c, size, iter, next, prev, number, used),
           NEW off, Places(Items, c, size, off), NEW a \in 0 .. size
    PROVE  FirstFrom(a) = IF off[a] = Len(Items) THEN Null ELSE Items[off[a] + 1]
<1>1. size \in Nat /\ a \in Nat /\ off[a] \in Nat /\ size \in a .. size
  BY DEF Chains, Places
<1>2. \A b \in a .. size - 1 : b \in 0 .. size - 1
  BY <1>1
<1>3. CASE Ahead(a, iter, size) = {}
  <2>1. \A k \in a .. size - 1 : iter[k] = Null
    BY <1>3 DEF Ahead
  <2>2. \A k \in a .. size - 1 : Len(c[k]) = 0
    BY <1>2, <2>1, BucketIs
  <2>3. off[size] = off[a]
    BY <1>1, <2>2, NothingBetween
  <2>4. Len(Items) = off[a]
    BY <2>3 DEF Places
  <2> QED
    BY <1>3, <2>4 DEF FirstFrom
<1>4. CASE Ahead(a, iter, size) # {}
  <2>1. PICK j : j = Min(Ahead(a, iter, size))
    OBVIOUS
  <2>2. j \in a .. size - 1 /\ iter[j] # Null /\ \A k \in Ahead(a, iter, size) : j <= k
    BY <1>1, <1>4, <2>1, AheadLeast
  <2>3. j \in 0 .. size - 1 /\ j \in a .. size
    BY <1>1, <2>2
  <2>4. ASSUME NEW k \in a .. j - 1 PROVE Len(c[k]) = 0
    <3>1. k \in a .. size - 1 /\ k < j
      BY <1>1, <2>3
    <3>2. iter[k] = Null
      BY <2>2, <3>1 DEF Ahead
    <3> QED
      BY <1>2, <3>1, <3>2, BucketIs
  <2>5. off[j] = off[a]
    BY <1>1, <2>3, <2>4, NothingBetween
  <2>6. Len(c[j]) \in Nat /\ Len(c[j]) # 0 /\ iter[j] = c[j][1]
    BY <2>2, <2>3, BucketIs
  <2>7. 1 \in 1 .. Len(c[j])
    BY <2>6
  <2>8. off[j] + 1 <= Len(Items) /\ Items[off[j] + 1] = c[j][1]
    BY <2>3, <2>7 DEF Places
  <2>9. FirstFrom(a) = iter[j]
    BY <1>4, <2>1 DEF FirstFrom
  <2>10. off[a] # Len(Items)
    <3>1. off[a] + 1 <= Len(Items) /\ off[a] \in Nat
      BY <1>1, <2>5, <2>8
    <3>2. Len(Items) \in Nat
      BY ItemsAre
    <3> QED
      BY <3>1, <3>2
  <2> QED
    BY <2>5, <2>6, <2>8, <2>9, <2>10
<1> QED
  BY <1>3, <1>4

(* my_hash_next leads from each item to the one after it. *)
LEMMA NextIs ==
    ASSUME NEW c, Chains(c, size, iter, next, prev, number, used),
           NEW off, Places(Items, c, size, off),
           NEW b \in 0 .. size - 1, NEW q \in 1 .. Len(c[b])
    PROVE  LET p == off[b] + q
           IN  /\ p \in 1 .. Len(Items) /\ Items[p] = c[b][q]
               /\ IterNext(c[b][q]) = IF p = Len(Items) THEN Null ELSE Items[p + 1]
<1>1. /\ size \in Nat /\ b + 1 \in 0 .. size /\ b \in 0 .. size
      /\ off[b] \in Nat /\ Len(c[b]) \in Nat /\ off[b + 1] = off[b] + Len(c[b])
      /\ Len(Items) \in Nat
  <2>1. size \in Nat
    BY DEF Chains
  <2>2. b + 1 \in 0 .. size /\ b \in 0 .. size
    BY <2>1
  <2>3. off[b] \in Nat /\ off[b + 1] = off[b] + Len(c[b])
    BY <2>2 DEF Places
  <2>4. Len(c[b]) \in Nat
    BY BucketIs
  <2>5. Len(Items) \in Nat
    BY ItemsAre
  <2> QED
    BY <2>1, <2>2, <2>3, <2>4, <2>5
<1>2. \A r \in 1 .. Len(c[b]) : off[b] + r <= Len(Items) /\ Items[off[b] + r] = c[b][r]
  BY DEF Places
<1>3. off[b] + q \in 1 .. Len(Items) /\ off[b] + (q + 1) = (off[b] + q) + 1
  <2>1. PICK o, l : o = off[b] /\ l = Len(Items)
    OBVIOUS
  <2>2. o \in Nat /\ l \in Nat /\ q \in Nat /\ q >= 1 /\ o + q <= l
    BY <1>1, <1>2, <2>1
  <2>3. o + q \in 1 .. l /\ o + (q + 1) = (o + q) + 1
    BY <2>2
  <2> QED
    BY <2>1, <2>3
<1>4. next[c[b][q]] = IF q = Len(c[b]) THEN Null ELSE c[b][q + 1]
  BY BucketIs
<1>5. CASE q # Len(c[b])
  <2>1. q + 1 \in 1 .. Len(c[b])
    BY <1>1, <1>5
  <2>2. c[b][q + 1] # Null
    BY <2>1, BucketIs
  <2>3. off[b] + (q + 1) <= Len(Items) /\ Items[off[b] + (q + 1)] = c[b][q + 1]
    BY <1>2, <2>1
  <2>4. IterNext(c[b][q]) = c[b][q + 1]
    BY <1>4, <1>5, <2>2 DEF IterNext
  <2>5. off[b] + q # Len(Items)
    <3>1. PICK x, l : x = off[b] + q /\ l = Len(Items)
      OBVIOUS
    <3>2. x \in Nat /\ l \in Nat /\ x + 1 <= l
      BY <1>1, <1>3, <2>3, <3>1
    <3> QED
      BY <3>1, <3>2
  <2> QED
    BY <1>2, <1>3, <2>3, <2>4, <2>5
<1>6. CASE q = Len(c[b])
  <2>1. Index(number[c[b][q]], size) = b
    BY DEF Chains
  <2>2. IterNext(c[b][q]) = FirstFrom(b + 1)
    BY <1>4, <1>6, <2>1 DEF IterNext
  <2>3. FirstFrom(b + 1) = IF off[b + 1] = Len(Items) THEN Null ELSE Items[off[b + 1] + 1]
    BY <1>1, FirstFromIs
  <2> QED
    BY <1>1, <1>2, <1>3, <1>6, <2>2, <2>3
<1> QED
  BY <1>5, <1>6

(* The iterators agree with the order of the items. *)
LEMMA IteratorsAre ==
    ASSUME NEW c, Chains(c, size, iter, next, prev, number, used)
    PROVE  IteratorsAgree
<1>1. PICK off : Places(Items, c, size, off)
  BY ItemsPlaces
<1>2. Items \in Seq(Cells) /\ Len(Items) \in Nat /\ size \in Nat
  BY ItemsAre DEF Chains
<1>3. IterBegin = IF Items = <<>> THEN Null ELSE Head(Items)
  <2>1. 0 \in 0 .. size /\ off[0] = 0
    BY <1>1, <1>2 DEF Places
  <2>2. FirstFrom(0) = IF 0 = Len(Items) THEN Null ELSE Items[0 + 1]
    BY <1>1, <2>1, FirstFromIs
  <2>3. Len(Items) = 0 <=> Items = <<>>
    BY <1>2
  <2>4. Items # <<>> => Head(Items) = Items[1]
    BY <1>2
  <2> QED
    BY <2>2, <2>3, <2>4 DEF IterBegin
<1>4. ASSUME NEW p \in 1 .. Len(Items)
      PROVE  /\ IterNext(Items[p]) = IF p = Len(Items) THEN Null ELSE Items[p + 1]
             /\ \A j \in IterPre(Items[p]) \ {Null} : IterNext(j) = Items[p]
  <2>1. PICK b \in 0 .. size - 1 : \E q \in 1 .. Len(c[b]) : p = off[b] + q
    BY <1>1 DEF Places
  <2>2. PICK q \in 1 .. Len(c[b]) : p = off[b] + q
    BY <2>1
  <2>3. /\ Items[p] = c[b][q]
        /\ IterNext(c[b][q]) = IF p = Len(Items) THEN Null ELSE Items[p + 1]
    BY <1>1, <2>2, NextIs
  <2>4. /\ prev[c[b][q]] = IF q = 1 THEN Null ELSE c[b][q - 1]
        /\ Len(c[b]) \in Nat /\ Index(number[c[b][q]], size) = b
    <3>1. /\ prev[c[b][q]] = IF q = 1 THEN Null ELSE c[b][q - 1]
          /\ Len(c[b]) \in Nat
      BY BucketIs
    <3>2. Index(number[c[b][q]], size) = b
      BY DEF Chains
    <3> QED
      BY <3>1, <3>2
  <2>5. ASSUME NEW j \in IterPre(c[b][q]) \ {Null} PROVE IterNext(j) = c[b][q]
    <3>1. CASE q # 1
      <4>1. q - 1 \in 1 .. Len(c[b]) /\ (q - 1) + 1 = q /\ q - 1 # Len(c[b])
        BY <2>4, <3>1
      <4>2. c[b][q - 1] # Null /\ next[c[b][q - 1]] = c[b][q] /\ c[b][q] # Null
        <5>1. PICK r \in 1 .. Len(c[b]) : r = q - 1 /\ r + 1 = q /\ r # Len(c[b])
          BY <4>1
        <5>2. c[b][r] # Null /\ c[b][q] # Null /\ next[c[b][r]] = c[b][r + 1]
          BY <5>1, BucketIs
        <5> QED
          BY <5>1, <5>2
      <4>3. j = c[b][q - 1]
        BY <2>4, <2>5, <3>1, <4>2 DEF IterPre
      <4> QED
        BY <4>2, <4>3 DEF IterNext
    <3>2. CASE q = 1
      <4> DEFINE behind == {d \in 1 .. b - 1 : iter[d] # Null}
      <4>1. behind # {} /\ j = iter[Max(behind)] /\ next[j] = Null
        BY <2>4, <2>5, <3>2 DEF IterPre
      <4>2. PICK m \in behind : m = Max(behind) /\ \A d \in behind : m >= d
        <5>1. behind \subseteq 0 .. b /\ b \in Nat
          BY <1>2
        <5>2. \E m \in behind : \A d \in behind : m >= d
          <6>1. PICK B : B = behind
            OBVIOUS
          <6>2. B \subseteq 0 .. b /\ B # {}
            BY <4>1, <5>1, <6>1
          <6>3. \E m \in B : \A d \in B : m >= d
            BY <5>1, <6>2, GreatestNumber
          <6> QED
            BY <6>1, <6>3
        <5> QED
          BY <5>2 DEF Max
      <4>3. /\ m \in 0 .. size - 1 /\ m + 1 \in 0 .. size /\ m + 1 \in Nat /\ m < b
            /\ b \in m + 1 .. size /\ iter[m] # Null
        BY <1>2, <4>2
      <4>4. ASSUME NEW k \in m + 1 .. b - 1 PROVE Len(c[k]) = 0
        <5>1. k \in 0 .. size - 1 /\ ~(m >= k) /\ k \in 1 .. b - 1
          BY <1>2, <4>3
        <5>2. iter[k] = Null
          BY <4>2, <5>1
        <5> QED
          BY <5>1, <5>2, BucketIs
      <4> HIDE DEF behind
      <4>5. off[b] = off[m + 1]
        BY <1>1, <1>2, <4>3, <4>4, NothingBetween
      <4>6. Len(c[m]) \in Nat /\ Len(c[m]) # 0 /\ iter[m] = c[m][1]
        BY <4>3, BucketIs
      <4>7. 1 \in 1 .. Len(c[m]) /\ j = c[m][1]
        BY <4>1, <4>2, <4>6
      <4>8. Index(number[j], size) = m
        BY <4>3, <4>7 DEF Chains
      <4>9. IterNext(j) = FirstFrom(m + 1)
        BY <4>1, <4>8 DEF IterNext
      <4>10. FirstFrom(m + 1) = IF off[m + 1] = Len(Items) THEN Null ELSE Items[off[m + 1] + 1]
        BY <1>1, <4>3, FirstFromIs
      <4>11. off[m + 1] + 1 = p /\ p \in 1 .. Len(Items) /\ off[m + 1] \in Nat
        <5>1. off[m + 1] \in Nat
          BY <1>1, <4>3 DEF Places
        <5> QED
          BY <2>2, <3>2, <4>5, <5>1
      <4>12. off[m + 1] # Len(Items)
        BY <1>2, <4>11
      <4> QED
        BY <2>3, <4>9, <4>10, <4>11, <4>12
    <3> QED
      BY <3>1, <3>2
  <2> QED
    BY <2>3, <2>5
<1>5. DOMAIN Items = 1 .. Len(Items)
  BY <1>2
<1> QED
  BY <1>3, <1>4, <1>5 DEF IteratorsAgree
-----------------------------------------------------------------------------
(* What becomes of the chains. *)

(* Items of different buckets are different. *)
LEMMA Apart ==
    ASSUME NEW c, NEW n, NEW it, NEW nx, NEW pv, NEW nr, NEW U,
           Chains(c, n, it, nx, pv, nr, U), NEW b \in 0 .. n - 1, NEW d \in 0 .. n - 1, d # b,
           NEW q \in 1 .. Len(c[b]), NEW p \in 1 .. Len(c[d])
    PROVE  c[d][p] # c[b][q]
<1>1. Index(nr[c[b][q]], n) = b /\ Index(nr[c[d][p]], n) = d
  BY DEF Chains
<1> QED
  BY <1>1

(* Bucket b has the chain t, and all of V are there or in the others, ...   *)
Becomes(c, n, b, t, it, nx, pv, nr, V) ==
    /\ ChainOf(t, it[b], nx, pv)
    /\ \A p \in 1 .. Len(t) : t[p] \in V /\ nr[t[p]] \in Nat /\ Index(nr[t[p]], n) = b
    /\ \A i \in V : \/ \E p \in 1 .. Len(t) : t[p] = i
                    \/ \E d \in (0 .. n - 1) \ {b} : \E p \in 1 .. Len(c[d]) : c[d][p] = i

(* ... which notice nothing. *)
Remain(c, n, b, it1, nx1, pv1, nr1, it2, nx2, pv2, nr2, V) ==
    \A d \in (0 .. n - 1) \ {b} :
       /\ it2[d] = it1[d]
       /\ \A p \in 1 .. Len(c[d]) :
             /\ c[d][p] \in V /\ nx2[c[d][p]] = nx1[c[d][p]]
             /\ pv2[c[d][p]] = pv1[c[d][p]] /\ nr2[c[d][p]] = nr1[c[d][p]]

(* Then the chains are right. *)
LEMMA OneChanged ==
    ASSUME NEW c, NEW n, NEW it, NEW nx, NEW pv, NEW nr, NEW U,
           Chains(c, n, it, nx, pv, nr, U), NEW b \in 0 .. n - 1,
           NEW t \in Seq(Cells), NEW it2, NEW nx2, NEW pv2, NEW nr2, NEW V, V \subseteq Cells,
           Becomes(c, n, b, t, it2, nx2, pv2, nr2, V), Remain(c, n, b, it, nx, pv, nr, it2, nx2, pv2, nr2, V)
    PROVE  Chains([c EXCEPT ![b] = t], n, it2, nx2, pv2, nr2, V)
<1>1. PICK e : e = [c EXCEPT ![b] = t]
  OBVIOUS
<1>2. c \in [0 .. n - 1 -> Seq(Cells)] /\ n \in Nat
  BY DEF Chains
<1>3. /\ e \in [0 .. n - 1 -> Seq(Cells)] /\ e[b] = t
      /\ \A d \in (0 .. n - 1) \ {b} : e[d] = c[d]
  BY <1>1, <1>2
<1>4. ASSUME NEW d \in (0 .. n - 1) \ {b}
      PROVE  /\ ChainOf(e[d], it2[d], nx2, pv2)
             /\ \A p \in 1 .. Len(e[d]) : /\ e[d][p] \in V /\ nr2[e[d][p]] \in Nat
                                          /\ Index(nr2[e[d][p]], n) = d
  <2>1. Linked(c[d], it[d], LastOf(c[d]), nx, pv, Null)
    BY DEF Chains, ChainOf
  <2>2. /\ it2[d] = it[d]
        /\ \A p \in 1 .. Len(c[d]) :
              /\ c[d][p] \in V /\ nx2[c[d][p]] = nx[c[d][p]]
              /\ pv2[c[d][p]] = pv[c[d][p]] /\ nr2[c[d][p]] = nr[c[d][p]]
    BY DEF Remain
  <2>3. Linked(c[d], it2[d], LastOf(c[d]), nx2, pv2, Null)
    BY <2>1, <2>2, LinkedSame
  <2>4. \A p \in 1 .. Len(c[d]) : nr[c[d][p]] \in Nat /\ Index(nr[c[d][p]], n) = d
    BY DEF Chains
  <2>5. e[d] = c[d]
    BY <1>3
  <2>6. \A p \in 1 .. Len(c[d]) : /\ c[d][p] \in V /\ nr2[c[d][p]] \in Nat
                                  /\ Index(nr2[c[d][p]], n) = d
    BY <2>2, <2>4
  <2> QED
    BY <2>3, <2>5, <2>6 DEF ChainOf
<1>5. ASSUME NEW i \in V PROVE \E d \in 0 .. n - 1 : \E p \in 1 .. Len(e[d]) : e[d][p] = i
  <2>1. CASE \E p \in 1 .. Len(t) : t[p] = i
    BY <1>3, <2>1
  <2>2. CASE \E d \in (0 .. n - 1) \ {b} : \E p \in 1 .. Len(c[d]) : c[d][p] = i
    BY <1>3, <2>2
  <2>3. \/ \E p \in 1 .. Len(t) : t[p] = i
        \/ \E d \in (0 .. n - 1) \ {b} : \E p \in 1 .. Len(c[d]) : c[d][p] = i
    BY DEF Becomes
  <2> QED
    BY <2>1, <2>2, <2>3
<1>6. \A d \in 0 .. n - 1 : d = b \/ d \in (0 .. n - 1) \ {b}
  OBVIOUS
<1>7. ASSUME NEW d \in 0 .. n - 1
      PROVE  /\ ChainOf(e[d], it2[d], nx2, pv2)
             /\ \A p \in 1 .. Len(e[d]) : /\ e[d][p] \in V /\ nr2[e[d][p]] \in Nat
                                          /\ Index(nr2[e[d][p]], n) = d
  <2>1. CASE d = b
    BY <1>3, <2>1 DEF Becomes
  <2>2. CASE d # b
    BY <1>4, <2>2
  <2> QED
    BY <2>1, <2>2
<1>8. Chains(e, n, it2, nx2, pv2, nr2, V)
  BY <1>2, <1>3, <1>5, <1>7 DEF Chains
<1> QED
  BY <1>1, <1>8

(* The links 2 are the links with item i in front of bucket b. *)
WithFirst(i, b, n, it, nx, pv, nr, it2, nx2, pv2, nr2) ==
    /\ nx2[i] = it[b] /\ pv2[i] = Null /\ nr2[i] \in Nat /\ Index(nr2[i], n) = b
    /\ \A x \in Cells \ {i} : /\ nx2[x] = nx[x] /\ nr2[x] = nr[x]
                              /\ pv2[x] = IF x = it[b] THEN i ELSE pv[x]
    /\ it2[b] = i /\ \A d \in (0 .. n - 1) \ {b} : it2[d] = it[d]

(* my_hash_lookadd: an item is put in front of the chain of its bucket. *)
LEMMA FrontChains ==
    ASSUME NEW c, NEW n, NEW it, NEW nx, NEW pv, NEW nr, NEW U,
           Chains(c, n, it, nx, pv, nr, U), NEW i \in Cells, i \notin U, NEW b \in 0 .. n - 1,
           NEW it2, NEW nx2, NEW pv2, NEW nr2,
           WithFirst(i, b, n, it, nx, pv, nr, it2, nx2, pv2, nr2)
    PROVE  Chains([c EXCEPT ![b] = InsertedAt(c[b], 1, i)], n, it2, nx2, pv2, nr2, U \cup {i})
<1>1. n \in Nat /\ U \subseteq Cells /\ b \in 0 .. n - 1 /\ Null \notin Cells
  BY MyHashAssumption DEF Chains
<1>2. PICK s \in Seq(Cells) : s = c[b]
  BY <1>1 DEF Chains
<1>3. /\ Linked(s, it[b], LastOf(s), nx, pv, Null) /\ Len(s) \in Nat
      /\ \A p \in 1 .. Len(s) : s[p] \in U /\ nr[s[p]] \in Nat /\ Index(nr[s[p]], n) = b
  BY <1>1, <1>2 DEF Chains, ChainOf
<1>5. /\ it[b] = IF Len(s) = 0 THEN Null ELSE s[1]
      /\ \A p, q \in 1 .. Len(s) : s[p] = s[q] => p = q
      /\ \A p \in 1 .. Len(s) : s[p] # i /\ s[p] # Null
  BY <1>1, <1>3 DEF Linked, Follows, Distinct
<1>6. /\ nx2[i] = it[b] /\ \A x \in Cells : x # i => nx2[x] = nx[x]
      /\ pv2[i] = Null /\ \A x \in Cells : x # i /\ x # it[b] => pv2[x] = pv[x]
      /\ it[b] # Null => pv2[it[b]] = i
      /\ nr2[i] \in Nat /\ Index(nr2[i], n) = b /\ \A x \in Cells : x # i => nr2[x] = nr[x]
      /\ it2[b] = i /\ \A d \in (0 .. n - 1) \ {b} : it2[d] = it[d]
  <2>1. it[b] # Null => it[b] \in Cells \ {i}
    <3>1. Len(s) # 0 => 1 \in 1 .. Len(s)
      BY <1>3
    <3> QED
      BY <1>1, <1>5, <3>1
  <2> QED
    BY <2>1 DEF WithFirst
<1>7. PICK t : t = InsertedAt(s, 1, i)
  OBVIOUS
<1>8. /\ t \in Seq(Cells) /\ Len(t) = Len(s) + 1
      /\ \A p \in 1 .. Len(s) + 1 : t[p] = IF p < 1 THEN s[p] ELSE IF p = 1 THEN i ELSE s[p - 1]
  <2>1. 1 \in 1 .. Len(s) + 1
    BY <1>3
  <2> QED
    BY <1>7, <2>1, InsertedSeq
<1>9. ChainOf(t, it2[b], nx2, pv2)
  <2>1. PICK l2 : l2 = IF 1 = Len(s) + 1 THEN i ELSE LastOf(s)
    OBVIOUS
  <2>2. 1 \in 1 .. Len(s) + 1 /\ (1 = Len(s) + 1 <=> Len(s) = 0)
    BY <1>3
  <2>3. ASSUME NEW p \in 1 .. Len(s)
        PROVE  /\ nx2[s[p]] = IF p = 1 - 1 THEN i ELSE nx[s[p]]
               /\ pv2[s[p]] = IF p = 1 THEN i ELSE pv[s[p]]
    <3>1. s[p] \in Cells /\ s[p] # i /\ p # 1 - 1 /\ Len(s) # 0 /\ 1 \in 1 .. Len(s)
      BY <1>3, <1>5
    <3>2. p # 1 => s[p] # s[1]
      BY <1>5, <3>1
    <3>3. it[b] = s[1] /\ it[b] # Null
      BY <1>5, <3>1
    <3> QED
      BY <1>6, <3>1, <3>2, <3>3
  <2>4. LinksIn(s, 1, i, it[b], LastOf(s), nx, pv, it2[b], l2, nx2, pv2, Null)
    BY <1>5, <1>6, <2>1, <2>2, <2>3 DEF LinksIn
  <2>5. Linked(t, it2[b], l2, nx2, pv2, Null)
    BY <1>1, <1>3, <1>7, <2>2, <2>4, LinkIn
  <2>6. l2 = LastOf(t)
    BY <2>5 DEF Linked, LastOf
  <2> QED
    BY <2>5, <2>6 DEF ChainOf
<1>10. \A p \in 1 .. Len(t) : t[p] = i \/ \E q \in 1 .. Len(s) : t[p] = s[q]
  <2> SUFFICES ASSUME NEW p \in 1 .. Len(t), p # 1 PROVE \E q \in 1 .. Len(s) : t[p] = s[q]
    BY <1>3, <1>8
  <2>1. p - 1 \in 1 .. Len(s) /\ p \in 1 .. Len(s) + 1 /\ ~(p < 1)
    BY <1>3, <1>8
  <2> QED
    BY <1>8, <2>1
<1>11. /\ \E p \in 1 .. Len(t) : t[p] = i
       /\ \A q \in 1 .. Len(s) : \E p \in 1 .. Len(t) : t[p] = s[q]
  <2>1. 1 \in 1 .. Len(t) /\ t[1] = i
    BY <1>3, <1>8
  <2>2. ASSUME NEW q \in 1 .. Len(s) PROVE \E p \in 1 .. Len(t) : t[p] = s[q]
    <3>1. q + 1 \in 1 .. Len(s) + 1 /\ ~(q + 1 < 1) /\ q + 1 # 1 /\ (q + 1) - 1 = q
      BY <1>3
    <3> QED
      BY <1>8, <3>1
  <2> QED
    BY <2>1, <2>2
<1>12. \A p \in 1 .. Len(t) : /\ t[p] \in U \cup {i} /\ nr2[t[p]] \in Nat
                              /\ Index(nr2[t[p]], n) = b
  <2>1. \A q \in 1 .. Len(s) : nr2[s[q]] = nr[s[q]]
    BY <1>5, <1>6
  <2>2. \A q \in 1 .. Len(s) : /\ s[q] \in U \cup {i} /\ nr2[s[q]] \in Nat
                                /\ Index(nr2[s[q]], n) = b
    BY <1>3, <2>1
  <2>3. i \in U \cup {i} /\ nr2[i] \in Nat /\ Index(nr2[i], n) = b
    BY <1>6
  <2> SUFFICES ASSUME NEW p \in 1 .. Len(t)
               PROVE  t[p] \in U \cup {i} /\ nr2[t[p]] \in Nat /\ Index(nr2[t[p]], n) = b
    OBVIOUS
  <2>4. CASE t[p] = i
    BY <2>3, <2>4
  <2>5. CASE \E q \in 1 .. Len(s) : t[p] = s[q]
    BY <2>2, <2>5
  <2> QED
    BY <1>10, <2>4, <2>5
<1>13. ASSUME NEW d \in (0 .. n - 1) \ {b}
       PROVE  /\ it2[d] = it[d]
              /\ \A p \in 1 .. Len(c[d]) :
                    /\ c[d][p] \in U \cup {i} /\ nx2[c[d][p]] = nx[c[d][p]]
                    /\ pv2[c[d][p]] = pv[c[d][p]] /\ nr2[c[d][p]] = nr[c[d][p]]
  <2> SUFFICES ASSUME NEW p \in 1 .. Len(c[d])
               PROVE  c[d][p] \in U /\ c[d][p] # i /\ c[d][p] # it[b]
    BY <1>1, <1>6
  <2>1. c[d][p] \in U /\ d \in 0 .. n - 1
    BY DEF Chains
  <2>2. c[d][p] # it[b]
    <3>1. CASE Len(s) = 0
      BY <1>1, <1>5, <2>1, <3>1
    <3>2. CASE Len(s) # 0
      <4>1. 1 \in 1 .. Len(c[b]) /\ it[b] = c[b][1]
        BY <1>2, <1>3, <1>5, <3>2
      <4>2. c[d][p] # c[b][1]
        <5>1. Index(nr[c[b][1]], n) = b /\ Index(nr[c[d][p]], n) = d /\ d # b
          BY <1>1, <2>1, <4>1 DEF Chains
        <5> QED
          BY <5>1
      <4> QED
        BY <4>1, <4>2
    <3> QED
      BY <3>1, <3>2
  <2> QED
    BY <2>1, <2>2
<1>14. \A x \in U \cup {i} :
          \/ \E p \in 1 .. Len(t) : t[p] = x
          \/ \E d \in (0 .. n - 1) \ {b} : \E p \in 1 .. Len(c[d]) : c[d][p] = x
  <2> SUFFICES ASSUME NEW x \in U \cup {i}
               PROVE  \/ \E p \in 1 .. Len(t) : t[p] = x
                      \/ \E d \in (0 .. n - 1) \ {b} : \E p \in 1 .. Len(c[d]) : c[d][p] = x
    OBVIOUS
  <2>1. CASE x = i
    BY <1>11, <2>1
  <2>2. CASE x \in U
    <3>1. PICK d \in 0 .. n - 1 : \E p \in 1 .. Len(c[d]) : c[d][p] = x
      BY <2>2 DEF Chains
    <3> QED
      BY <1>2, <1>11, <3>1
  <2> QED
    BY <2>1, <2>2
<1>15. Chains([c EXCEPT ![b] = t], n, it2, nx2, pv2, nr2, U \cup {i})
  <2>1. U \cup {i} \subseteq Cells
    BY <1>1
  <2>2. Becomes(c, n, b, t, it2, nx2, pv2, nr2, U \cup {i})
    BY <1>9, <1>12, <1>14 DEF Becomes
  <2>3. Remain(c, n, b, it, nx, pv, nr, it2, nx2, pv2, nr2, U \cup {i})
    BY <1>13 DEF Remain
  <2> QED
    BY <1>1, <1>8, <2>1, <2>2, <2>3, OneChanged
<1> QED
  BY <1>2, <1>7, <1>15
(* The links 2 are the links without item i of bucket b. *)
Without(i, b, n, it, nx, pv, nr, it2, nx2, pv2, nr2) ==
    /\ \A x \in Cells \ {i} : /\ nx2[x] = IF x = pv[i] THEN nx[i] ELSE nx[x]
                              /\ pv2[x] = IF x = nx[i] THEN pv[i] ELSE pv[x]
                              /\ nr2[x] = nr[x]
    /\ it2[b] = IF pv[i] = Null THEN nx[i] ELSE it[b]
    /\ \A d \in (0 .. n - 1) \ {b} : it2[d] = it[d]

(* my_hash_iter_delete: an item leaves the chain of its bucket. *)
LEMMA OutChains ==
    ASSUME NEW c, NEW n, NEW it, NEW nx, NEW pv, NEW nr, NEW U,
           Chains(c, n, it, nx, pv, nr, U), NEW i \in U,
           NEW b \in 0 .. n - 1, NEW q \in 1 .. Len(c[b]), c[b][q] = i,
           NEW it2, NEW nx2, NEW pv2, NEW nr2,
           Without(i, b, n, it, nx, pv, nr, it2, nx2, pv2, nr2)
    PROVE  Chains([c EXCEPT ![b] = RemovedAt(c[b], q)], n, it2, nx2, pv2, nr2, U \ {i})
<1>1. n \in Nat /\ U \subseteq Cells /\ b \in 0 .. n - 1 /\ Null \notin Cells /\ i \in Cells
  BY MyHashAssumption DEF Chains
<1>2. PICK s \in Seq(Cells) : s = c[b]
  BY <1>1 DEF Chains
<1>3. /\ Linked(s, it[b], LastOf(s), nx, pv, Null) /\ Len(s) \in Nat
      /\ \A p \in 1 .. Len(s) : s[p] \in U /\ nr[s[p]] \in Nat /\ Index(nr[s[p]], n) = b
      /\ q \in 1 .. Len(s) /\ s[q] = i
  BY <1>1, <1>2 DEF Chains, ChainOf
<1>4. /\ \A p, r \in 1 .. Len(s) : s[p] = s[r] => p = r
      /\ \A p \in 1 .. Len(s) : s[p] \in Cells /\ s[p] # Null
      /\ \A p \in 1 .. Len(s) : nx[s[p]] = IF p = Len(s) THEN Null ELSE s[p + 1]
      /\ \A p \in 1 .. Len(s) : pv[s[p]] = IF p = 1 THEN Null ELSE s[p - 1]
      /\ it[b] = IF Len(s) = 0 THEN Null ELSE s[1]
  BY <1>1, <1>3 DEF Linked, Follows, Distinct
<1>5. /\ nx[i] = IF q = Len(s) THEN Null ELSE s[q + 1]
      /\ pv[i] = IF q = 1 THEN Null ELSE s[q - 1]
  BY <1>3, <1>4
<1>6. (q # Len(s) => q + 1 \in 1 .. Len(s)) /\ (q # 1 => q - 1 \in 1 .. Len(s))
  BY <1>3
<1>7. ASSUME NEW p \in 1 .. Len(s)
      PROVE  (s[p] = i <=> p = q) /\ (s[p] = nx[i] <=> p = q + 1) /\ (s[p] = pv[i] <=> p = q - 1)
  <2>1. s[p] = i <=> p = q
    BY <1>3, <1>4
  <2>2. s[p] = nx[i] <=> p = q + 1
    <3>1. CASE q = Len(s)
      <4>1. p # q + 1
        BY <1>3, <3>1
      <4> QED
        BY <1>4, <1>5, <3>1, <4>1
    <3>2. CASE q # Len(s)
      BY <1>4, <1>5, <1>6, <3>2
    <3> QED
      BY <3>1, <3>2
  <2>3. s[p] = pv[i] <=> p = q - 1
    <3>1. CASE q = 1
      BY <1>4, <1>5, <3>1
    <3>2. CASE q # 1
      BY <1>4, <1>5, <1>6, <3>2
    <3> QED
      BY <3>1, <3>2
  <2> QED
    BY <2>1, <2>2, <2>3
<1>8. pv[i] = Null <=> q = 1
  BY <1>4, <1>5, <1>6
<1>9. /\ \A x \in Cells : x # i /\ x # pv[i] => nx2[x] = nx[x]
      /\ \A x \in Cells : x # i /\ x # nx[i] => pv2[x] = pv[x]
      /\ \A x \in Cells : x # i => nr2[x] = nr[x]
      /\ it2[b] = IF q = 1 THEN nx[i] ELSE it[b]
      /\ \A d \in (0 .. n - 1) \ {b} : it2[d] = it[d]
  BY <1>8 DEF Without
<1>10. PICK t : t = RemovedAt(s, q)
  OBVIOUS
<1>11. /\ t \in Seq(Cells) /\ Len(t) = Len(s) - 1
       /\ \A p \in 1 .. Len(s) - 1 : t[p] = IF p < q THEN s[p] ELSE s[p + 1]
  BY <1>3, <1>10, RemovedSeq
<1>12. ChainOf(t, it2[b], nx2, pv2)
  <2>1. PICK l2 : l2 = IF q = Len(s) THEN pv[s[q]] ELSE LastOf(s)
    OBVIOUS
  <2>2. ASSUME NEW p \in 1 .. Len(s), p # q
        PROVE  /\ nx2[s[p]] = IF p = q - 1 THEN nx[s[q]] ELSE nx[s[p]]
               /\ pv2[s[p]] = IF p = q + 1 THEN pv[s[q]] ELSE pv[s[p]]
    <3>1. PICK x \in Cells : x = s[p]
      BY <1>4
    <3>2. x # i /\ (x = nx[i] <=> p = q + 1) /\ (x = pv[i] <=> p = q - 1)
      BY <1>7, <2>2, <3>1
    <3>3. nx2[x] = IF p = q - 1 THEN nx[i] ELSE nx[x]
      BY <3>2 DEF Without
    <3>4. pv2[x] = IF p = q + 1 THEN pv[i] ELSE pv[x]
      BY <3>2 DEF Without
    <3> QED
      BY <1>3, <3>1, <3>3, <3>4
  <2>3. LinksOut(s, q, it[b], LastOf(s), nx, pv, it2[b], l2, nx2, pv2)
    BY <1>3, <1>9, <2>1, <2>2 DEF LinksOut
  <2>4. Linked(t, it2[b], l2, nx2, pv2, Null)
    BY <1>1, <1>3, <1>10, <2>3, LinkOut
  <2>5. l2 = LastOf(t)
    BY <2>4 DEF Linked, LastOf
  <2> QED
    BY <2>4, <2>5 DEF ChainOf
<1>13. \A p \in 1 .. Len(t) : \E r \in 1 .. Len(s) : r # q /\ t[p] = s[r]
  <2> SUFFICES ASSUME NEW p \in 1 .. Len(t) PROVE \E r \in 1 .. Len(s) : r # q /\ t[p] = s[r]
    OBVIOUS
  <2>1. CASE p < q
    BY <1>3, <1>11, <2>1
  <2>2. CASE ~(p < q)
    <3>1. p + 1 \in 1 .. Len(s) /\ p + 1 # q /\ t[p] = s[p + 1]
      BY <1>3, <1>11, <2>2
    <3> QED
      BY <3>1
  <2> QED
    BY <2>1, <2>2
<1>14. \A r \in 1 .. Len(s) : r # q => \E p \in 1 .. Len(t) : t[p] = s[r]
  <2> SUFFICES ASSUME NEW r \in 1 .. Len(s), r # q PROVE \E p \in 1 .. Len(t) : t[p] = s[r]
    OBVIOUS
  <2>1. CASE r < q
    <3>1. r \in 1 .. Len(t) /\ t[r] = s[r]
      BY <1>3, <1>11, <2>1
    <3> QED
      BY <3>1
  <2>2. CASE ~(r < q)
    <3>1. r - 1 \in 1 .. Len(t) /\ ~(r - 1 < q) /\ (r - 1) + 1 = r
      BY <1>3, <1>11, <2>2
    <3>2. t[r - 1] = s[r]
      BY <1>11, <3>1
    <3> QED
      BY <3>1, <3>2
  <2> QED
    BY <2>1, <2>2
<1>15. Becomes(c, n, b, t, it2, nx2, pv2, nr2, U \ {i})
  <2>1. ASSUME NEW p \in 1 .. Len(t)
        PROVE  t[p] \in U \ {i} /\ nr2[t[p]] \in Nat /\ Index(nr2[t[p]], n) = b
    <3>1. PICK r \in 1 .. Len(s) : r # q /\ t[p] = s[r]
      BY <1>13
    <3>2. s[r] # i /\ s[r] \in U /\ s[r] \in Cells /\ nr[s[r]] \in Nat /\ Index(nr[s[r]], n) = b
      BY <1>3, <1>4, <1>7, <3>1
    <3> QED
      BY <1>9, <3>1, <3>2
  <2>2. ASSUME NEW x \in U \ {i}
        PROVE  \/ \E p \in 1 .. Len(t) : t[p] = x
               \/ \E d \in (0 .. n - 1) \ {b} : \E p \in 1 .. Len(c[d]) : c[d][p] = x
    <3>1. PICK d \in 0 .. n - 1 : \E p \in 1 .. Len(c[d]) : c[d][p] = x
      BY DEF Chains
    <3>2. CASE d = b
      <4>1. PICK r \in 1 .. Len(s) : s[r] = x
        BY <1>2, <3>1, <3>2
      <4>2. r # q
        BY <1>3, <4>1
      <4> QED
        BY <1>14, <4>1, <4>2
    <3>3. CASE d # b
      BY <3>1, <3>3
    <3> QED
      BY <3>2, <3>3
  <2> QED
    BY <1>12, <2>1, <2>2 DEF Becomes
<1>16. Remain(c, n, b, it, nx, pv, nr, it2, nx2, pv2, nr2, U \ {i})
  <2>1. ASSUME NEW d \in (0 .. n - 1) \ {b}, NEW p \in 1 .. Len(c[d])
        PROVE  /\ c[d][p] \in U \ {i} /\ nx2[c[d][p]] = nx[c[d][p]]
               /\ pv2[c[d][p]] = pv[c[d][p]] /\ nr2[c[d][p]] = nr[c[d][p]]
    <3>1. d \in 0 .. n - 1 /\ d # b /\ c[d][p] \in U /\ Index(nr[c[d][p]], n) = d
      BY DEF Chains
    <3>2. PICK x \in Cells : x = c[d][p]
      BY <1>1, <3>1
    <3>3. \A r \in 1 .. Len(s) : x # s[r]
      BY <1>3, <3>1, <3>2
    <3>4. x # i /\ x # pv[i] /\ x # nx[i]
      BY <1>1, <1>3, <1>5, <1>6, <3>3
    <3> QED
      BY <1>9, <3>1, <3>2, <3>4
  <2> QED
    BY <1>9, <2>1 DEF Remain
<1>17. Chains([c EXCEPT ![b] = t], n, it2, nx2, pv2, nr2, U \ {i})
  <2>1. U \ {i} \subseteq Cells
    BY <1>1
  <2> QED
    BY <1>1, <1>11, <1>15, <1>16, <2>1, OneChanged
<1> QED
  BY <1>2, <1>10, <1>17
-----------------------------------------------------------------------------
(* rehash. *)

(* The greatest and the least of a set of numbers, when they are known.     *)
LEMMA MaxIs ==
    ASSUME NEW S, S \subseteq Nat, NEW x \in S, \A y \in S : y <= x
    PROVE  Max(S) = x
<1>1. PICK z : z = Max(S)
  OBVIOUS
<1>2. z \in S /\ \A y \in S : z >= y
  BY <1>1 DEF Max
<1>3. z >= x /\ z <= x /\ z \in Nat /\ x \in Nat
  BY <1>2
<1>4. z = x
  BY <1>3
<1> QED
  BY <1>1, <1>4

(* ... *)
LEMMA MinIs ==
    ASSUME NEW S, S \subseteq Nat, NEW x \in S, \A y \in S : x <= y
    PROVE  Min(S) = x
<1>1. PICK z : z = Min(S)
  OBVIOUS
<1>2. z \in S /\ \A y \in S : z <= y
  BY <1>1 DEF Min
<1>3. x <= z /\ z <= x /\ z \in Nat /\ x \in Nat
  BY <1>2
<1>4. z = x
  BY <1>3
<1> QED
  BY <1>1, <1>4

(* Places put downwards: the first is the greatest, and each is the next    *)
(* below the one before it.                                                 *)
LEMMA DownwardsAre ==
    ASSUME NEW m \in Nat, NEW P, P \subseteq 1 .. m, NEW e \in Seq(Nat), Downwards(e, P)
    PROVE  /\ P = {} <=> Len(e) = 0
           /\ Len(e) # 0 => Max(P) = e[1]
           /\ \A k \in 1 .. Len(e) :
                 /\ k = Len(e) => P \cap 1 .. e[k] - 1 = {}
                 /\ k # Len(e) => P \cap 1 .. e[k] - 1 # {} /\ Max(P \cap 1 .. e[k] - 1) = e[k + 1]
                 /\ k = 1 => P \ 1 .. e[k] = {}
                 /\ k # 1 => P \ 1 .. e[k] # {} /\ Min(P \ 1 .. e[k]) = e[k - 1]
<1>1. /\ \A k, l \in 1 .. Len(e) : k < l => e[k] > e[l]
      /\ \A k \in 1 .. Len(e) : e[k] \in P /\ e[k] \in Nat /\ e[k] >= 1
      /\ \A p \in P : p \in Nat /\ p >= 1 /\ \E k \in 1 .. Len(e) : e[k] = p
      /\ Len(e) \in Nat
  <2>1. \A p \in P : p \in Nat /\ p >= 1
    OBVIOUS
  <2> QED
    BY <2>1 DEF Downwards
<1>2. P = {} <=> Len(e) = 0
  <2>1. Len(e) # 0 => 1 \in 1 .. Len(e)
    BY <1>1
  <2>2. Len(e) = 0 => 1 .. Len(e) = {}
    OBVIOUS
  <2> QED
    BY <1>1, <2>1, <2>2
<1>3. ASSUME Len(e) # 0 PROVE Max(P) = e[1]
  <2>1. 1 \in 1 .. Len(e)
    BY <1>1, <1>3
  <2>2. ASSUME NEW p \in P PROVE p <= e[1]
    <3>1. PICK k \in 1 .. Len(e) : e[k] = p
      BY <1>1
    <3>2. CASE k = 1
      BY <1>1, <2>1, <3>1, <3>2
    <3>3. CASE k # 1
      <4>1. 1 < k
        BY <3>3
      <4> QED
        BY <1>1, <2>1, <3>1, <4>1
    <3> QED
      BY <3>2, <3>3
  <2>3. P \subseteq Nat /\ e[1] \in P
    BY <1>1, <2>1
  <2> QED
    BY <2>2, <2>3, MaxIs
<1>4. ASSUME NEW k \in 1 .. Len(e)
      PROVE  /\ k = Len(e) => P \cap 1 .. e[k] - 1 = {}
             /\ k # Len(e) => P \cap 1 .. e[k] - 1 # {} /\ Max(P \cap 1 .. e[k] - 1) = e[k + 1]
  <2>1. PICK S : S = P \cap 1 .. e[k] - 1
    OBVIOUS
  <2>2. S \subseteq Nat /\ \A p : p \in S <=> p \in P /\ p < e[k]
    <3>1. PICK x \in Nat : x = e[k]
      BY <1>1
    <3>2. \A p \in P : p \in 1 .. x - 1 <=> p < x
      BY <1>1
    <3> QED
      BY <1>1, <2>1, <3>1, <3>2
  <2>3. ASSUME NEW p \in S PROVE \E l \in 1 .. Len(e) : l > k /\ e[l] = p
    <3>1. PICK l \in 1 .. Len(e) : e[l] = p
      BY <1>1, <2>2
    <3>2. e[l] < e[k] /\ e[l] \in Nat /\ e[k] \in Nat
      BY <1>1, <2>2, <3>1
    <3>3. l # k /\ ~(l < k)
      BY <1>1, <3>2
    <3> QED
      BY <3>1, <3>3
  <2>4. k = Len(e) => S = {}
    BY <1>1, <2>3
  <2>5. ASSUME k # Len(e) PROVE S # {} /\ Max(S) = e[k + 1]
    <3>1. k + 1 \in 1 .. Len(e) /\ k < k + 1
      BY <1>1, <2>5
    <3>2. e[k + 1] \in S
      BY <1>1, <2>2, <3>1
    <3>3. ASSUME NEW p \in S PROVE p <= e[k + 1]
      <4>1. PICK l \in 1 .. Len(e) : l > k /\ e[l] = p
        BY <2>3
      <4>2. l = k + 1 \/ k + 1 < l
        BY <4>1
      <4> QED
        BY <1>1, <3>1, <4>1, <4>2
    <3> QED
      BY <2>2, <3>2, <3>3, MaxIs
  <2> QED
    BY <2>1, <2>4, <2>5
<1>5. ASSUME NEW k \in 1 .. Len(e)
      PROVE  /\ k = 1 => P \ 1 .. e[k] = {}
             /\ k # 1 => P \ 1 .. e[k] # {} /\ Min(P \ 1 .. e[k]) = e[k - 1]
  <2>1. PICK S : S = P \ 1 .. e[k]
    OBVIOUS
  <2>2. S \subseteq Nat /\ \A p : p \in S <=> p \in P /\ p > e[k]
    <3>1. PICK x \in Nat : x = e[k]
      BY <1>1
    <3>2. \A p \in P : p \in 1 .. x <=> ~(p > x)
      BY <1>1
    <3> QED
      BY <1>1, <2>1, <3>1, <3>2
  <2>3. ASSUME NEW p \in S PROVE \E l \in 1 .. Len(e) : l < k /\ e[l] = p
    <3>1. PICK l \in 1 .. Len(e) : e[l] = p
      BY <1>1, <2>2
    <3>2. e[l] > e[k] /\ e[l] \in Nat /\ e[k] \in Nat
      BY <1>1, <2>2, <3>1
    <3>3. l # k /\ ~(k < l)
      BY <1>1, <3>2
    <3> QED
      BY <3>1, <3>3
  <2>4. k = 1 => S = {}
    BY <1>1, <2>3
  <2>5. ASSUME k # 1 PROVE S # {} /\ Min(S) = e[k - 1]
    <3>1. PICK j \in 1 .. Len(e) : j = k - 1 /\ j < k
      BY <1>1, <2>5
    <3>2. e[j] \in S
      BY <1>1, <2>2, <3>1
    <3>3. ASSUME NEW p \in S PROVE e[j] <= p
      <4>1. PICK l \in 1 .. Len(e) : l < k /\ e[l] = p
        BY <2>3
      <4>2. l = j \/ l < j
        BY <3>1, <4>1
      <4> QED
        BY <1>1, <4>1, <4>2
    <3>4. Min(S) = e[j]
      BY <2>2, <3>2, <3>3, MinIs
    <3> QED
      BY <3>1, <3>2, <3>4
  <2> QED
    BY <2>1, <2>4, <2>5
<1> QED
  BY <1>2, <1>3, <1>4, <1>5

(* The new buckets, with the names of Moved: which places of the items o    *)
(* are of bucket b, and where an item is.                                   *)
There(o, nr, n, b) == {p \in DOMAIN o : Index(nr[o[p]], n) = b}
MostOf(o, P)       == IF P = {} THEN Null ELSE o[Max(P)]
LeastOf(o, P)      == IF P = {} THEN Null ELSE o[Min(P)]
PlaceOf(o, i)      == CHOOSE p \in DOMAIN o : o[p] = i

(* The links of the items. *)
NewLinks(o, nr, n, nx, pv) ==
    \A p \in 1 .. Len(o) :
       LET same == There(o, nr, n, Index(nr[o[p]], n))
       IN  /\ nx[o[p]] = MostOf(o, same \cap 1 .. p - 1)
           /\ pv[o[p]] = LeastOf(o, same \ 1 .. p)

(* t is the chain of bucket b in the new table. *)
NewChain(o, nr, n, b, t, first, nx, pv) ==
    /\ ChainOf(t, first, nx, pv)
    /\ \A k \in 1 .. Len(t) : \E p \in 1 .. Len(o) : t[k] = o[p] /\ Index(nr[o[p]], n) = b
    /\ \A p \in 1 .. Len(o) : Index(nr[o[p]], n) = b => \E k \in 1 .. Len(t) : t[k] = o[p]

(* There is one. *)
LEMMA NewBucket ==
    ASSUME NEW o \in Seq(Cells), Distinct(o), NEW nr, NEW n, NEW b,
           NEW it, it = MostOf(o, There(o, nr, n, b)), NEW nx, NEW pv,
           NewLinks(o, nr, n, nx, pv)
    PROVE  \E t \in Seq(Cells) : NewChain(o, nr, n, b, t, it, nx, pv)
<1>1. PICK P : P = There(o, nr, n, b)
  OBVIOUS
<1>2. /\ Len(o) \in Nat /\ P \subseteq 1 .. Len(o)
      /\ \A p \in 1 .. Len(o) : o[p] \in Cells /\ (p \in P <=> Index(nr[o[p]], n) = b)
  <2>1. DOMAIN o = 1 .. Len(o) /\ Len(o) \in Nat /\ \A p \in 1 .. Len(o) : o[p] \in Cells
    OBVIOUS
  <2> QED
    BY <1>1, <2>1 DEF There
<1>3. PICK e \in Seq(Nat) : Downwards(e, P)
  BY <1>2, PutDownwards
<1>4. /\ \A k, l \in 1 .. Len(e) : k < l => e[k] > e[l]
      /\ \A k \in 1 .. Len(e) : e[k] \in P /\ e[k] \in 1 .. Len(o) /\ e[k] \in Nat
      /\ \A p \in P : \E k \in 1 .. Len(e) : e[k] = p
      /\ Len(e) \in Nat
  BY <1>2, <1>3 DEF Downwards
<1>5. /\ P = {} <=> Len(e) = 0
      /\ Len(e) # 0 => Max(P) = e[1]
      /\ \A k \in 1 .. Len(e) :
            /\ k = Len(e) => P \cap 1 .. e[k] - 1 = {}
            /\ k # Len(e) => P \cap 1 .. e[k] - 1 # {} /\ Max(P \cap 1 .. e[k] - 1) = e[k + 1]
            /\ k = 1 => P \ 1 .. e[k] = {}
            /\ k # 1 => P \ 1 .. e[k] # {} /\ Min(P \ 1 .. e[k]) = e[k - 1]
  BY <1>2, <1>3, DownwardsAre
<1> DEFINE t == [k \in 1 .. Len(e) |-> o[e[k]]]
<1>6. t \in [1 .. Len(e) -> Cells] /\ \A k \in 1 .. Len(e) : t[k] = o[e[k]]
  BY <1>2, <1>4
<1> HIDE DEF t
<1>7. t \in Seq(Cells) /\ Len(t) = Len(e)
  BY <1>4, <1>6, FunctionIsSeq
<1>8. Distinct(t)
  <2> SUFFICES ASSUME NEW k \in 1 .. Len(e), NEW l \in 1 .. Len(e), t[k] = t[l] PROVE k = l
    BY <1>7 DEF Distinct
  <2>1. e[k] = e[l]
    BY <1>4, <1>6 DEF Distinct
  <2>2. ~(k < l) /\ ~(l < k)
    BY <1>4, <2>1
  <2> QED
    BY <2>2
<1>9. it = IF Len(t) = 0 THEN Null ELSE t[1]
  <2>1. CASE Len(e) = 0
    BY <1>1, <1>5, <1>7, <2>1 DEF MostOf
  <2>2. CASE Len(e) # 0
    <3>1. 1 \in 1 .. Len(e) /\ P # {} /\ Max(P) = e[1]
      BY <1>4, <1>5, <2>2
    <3> QED
      BY <1>1, <1>6, <1>7, <2>2, <3>1 DEF MostOf
  <2> QED
    BY <2>1, <2>2
<1>10. ASSUME NEW k \in 1 .. Len(e)
       PROVE  /\ nx[t[k]] = MostOf(o, P \cap 1 .. e[k] - 1)
              /\ pv[t[k]] = LeastOf(o, P \ 1 .. e[k])
  <2>1. e[k] \in 1 .. Len(o) /\ Index(nr[o[e[k]]], n) = b /\ t[k] = o[e[k]]
    BY <1>2, <1>4, <1>6
  <2>2. /\ nx[o[e[k]]] = MostOf(o, There(o, nr, n, Index(nr[o[e[k]]], n)) \cap 1 .. e[k] - 1)
        /\ pv[o[e[k]]] = LeastOf(o, There(o, nr, n, Index(nr[o[e[k]]], n)) \ 1 .. e[k])
    BY <2>1 DEF NewLinks
  <2> QED
    BY <1>1, <2>1, <2>2
<1>11. ASSUME NEW k \in 1 .. Len(e)
       PROVE  nx[t[k]] = IF k = Len(e) THEN Null ELSE t[k + 1]
  <2>1. CASE k = Len(e)
    BY <1>5, <1>10, <2>1 DEF MostOf
  <2>2. CASE k # Len(e)
    <3>1. k + 1 \in 1 .. Len(e)
      BY <1>4, <2>2
    <3>2. nx[t[k]] = o[e[k + 1]]
      <4>1. P \cap 1 .. e[k] - 1 # {} /\ Max(P \cap 1 .. e[k] - 1) = e[k + 1]
        BY <1>5, <2>2
      <4>2. MostOf(o, P \cap 1 .. e[k] - 1) = o[e[k + 1]]
        BY <4>1 DEF MostOf
      <4> QED
        BY <1>10, <4>2
    <3> QED
      BY <1>6, <2>2, <3>1, <3>2
  <2> QED
    BY <2>1, <2>2
<1>12. ASSUME NEW k \in 1 .. Len(e)
       PROVE  pv[t[k]] = IF k = 1 THEN Null ELSE t[k - 1]
  <2>1. CASE k = 1
    BY <1>5, <1>10, <2>1 DEF LeastOf
  <2>2. CASE k # 1
    <3>1. k - 1 \in 1 .. Len(e)
      BY <1>4, <2>2
    <3>2. pv[t[k]] = o[e[k - 1]]
      <4>1. P \ 1 .. e[k] # {} /\ Min(P \ 1 .. e[k]) = e[k - 1]
        BY <1>5, <2>2
      <4>2. LeastOf(o, P \ 1 .. e[k]) = o[e[k - 1]]
        BY <4>1 DEF LeastOf
      <4> QED
        BY <1>10, <4>2
    <3> QED
      BY <1>6, <2>2, <3>1, <3>2
  <2> QED
    BY <2>1, <2>2
<1>13. ChainOf(t, it, nx, pv)
  BY <1>7, <1>8, <1>9, <1>11, <1>12 DEF ChainOf, Linked, Follows, LastOf
<1>14. \A k \in 1 .. Len(t) : \E p \in 1 .. Len(o) : t[k] = o[p] /\ Index(nr[o[p]], n) = b
  BY <1>2, <1>4, <1>6, <1>7
<1>15. \A p \in 1 .. Len(o) : Index(nr[o[p]], n) = b => \E k \in 1 .. Len(t) : t[k] = o[p]
  <2> SUFFICES ASSUME NEW p \in 1 .. Len(o), Index(nr[o[p]], n) = b
               PROVE  \E k \in 1 .. Len(t) : t[k] = o[p]
    OBVIOUS
  <2>1. PICK k \in 1 .. Len(e) : e[k] = p
    BY <1>2, <1>4
  <2> QED
    BY <1>6, <1>7, <2>1
<1> QED
  BY <1>7, <1>13, <1>14, <1>15 DEF NewChain

(* The links of the chains lead from items to items. *)
LEMMA ChainsPoint ==
    ASSUME NEW c, NEW n, NEW it, NEW nx, NEW pv, NEW nr, NEW U,
           Chains(c, n, it, nx, pv, nr, U)
    PROVE  /\ \A b \in 0 .. n - 1 : it[b] # Null => it[b] \in U
           /\ \A i \in U : nx[i] # Null => nx[i] \in U
           /\ \A i \in U : pv[i] # Null => pv[i] \in U
<1>1. \A b \in 0 .. n - 1 : \A p \in 1 .. Len(c[b]) : c[b][p] \in U
  BY DEF Chains
<1>2. ASSUME NEW b \in 0 .. n - 1, it[b] # Null PROVE it[b] \in U
  <2>1. Len(c[b]) \in Nat /\ Len(c[b]) # 0 /\ it[b] = c[b][1]
    BY <1>2, BucketIs
  <2>2. 1 \in 1 .. Len(c[b])
    BY <2>1
  <2> QED
    BY <1>1, <2>1, <2>2
<1>3. ASSUME NEW i \in U
      PROVE  (nx[i] # Null => nx[i] \in U) /\ (pv[i] # Null => pv[i] \in U)
  <2>1. PICK b \in 0 .. n - 1 : \E p \in 1 .. Len(c[b]) : c[b][p] = i
    BY DEF Chains
  <2>2. PICK p \in 1 .. Len(c[b]) : c[b][p] = i
    BY <2>1
  <2>3. /\ nx[i] = IF p = Len(c[b]) THEN Null ELSE c[b][p + 1]
        /\ pv[i] = IF p = 1 THEN Null ELSE c[b][p - 1]
        /\ Len(c[b]) \in Nat
    BY <2>2, BucketIs
  <2>4. (p # Len(c[b]) => p + 1 \in 1 .. Len(c[b])) /\ (p # 1 => p - 1 \in 1 .. Len(c[b]))
    BY <2>3
  <2> QED
    BY <1>1, <2>3, <2>4
<1> QED
  BY <1>2, <1>3

(* What rehash makes of the table, with the names above. *)
LEMMA MovedIs ==
    ASSUME NEW n
    PROVE  LET there(b) == There(Items, number, n, b)
               same(i)  == There(Items, number, n, Index(number[i], n))
           IN  /\ Moved(n).size = n
               /\ Moved(n).iter = [b \in 0 .. n - 1 |-> MostOf(Items, there(b))]
               /\ Moved(n).next =
                     [i \in Cells |-> IF i \in used
                                      THEN MostOf(Items, same(i) \cap 1 .. PlaceOf(Items, i) - 1)
                                      ELSE next[i]]
               /\ Moved(n).prev =
                     [i \in Cells |-> IF i \in used
                                      THEN LeastOf(Items, same(i) \ 1 .. PlaceOf(Items, i))
                                      ELSE prev[i]]
BY DEF Moved, There, MostOf, LeastOf, PlaceOf

(* All items have a place in the new table. *)
LEMMA MovedChains ==
    ASSUME NEW c, Chains(c, size, iter, next, prev, number, used), NEW n \in Nat, n # 0,
           NEW t, t = Moved(n)
    PROVE  /\ t.size = n
           /\ \E d : Chains(d, n, t.iter, t.next, t.prev, number, used)
           /\ DOMAIN t.iter = 0 .. n - 1 /\ DOMAIN t.next = Cells /\ DOMAIN t.prev = Cells
           /\ t.iter = [b \in 0 .. n - 1 |-> t.iter[b]]
           /\ t.next = [i \in Cells |-> t.next[i]] /\ t.prev = [i \in Cells |-> t.prev[i]]
           /\ \A i \in Cells \ used : t.next[i] = next[i] /\ t.prev[i] = prev[i]
<1>1. PICK o \in Seq(Cells) : o = Items
  BY ItemsAre
<1>2. PICK it, nx, pv : it = t.iter /\ nx = t.next /\ pv = t.prev
  OBVIOUS
<1>3. /\ t.size = n
      /\ \A b \in 0 .. n - 1 : it[b] = MostOf(o, There(o, number, n, b))
      /\ \A i \in used \cap Cells :
            LET same == There(o, number, n, Index(number[i], n))
            IN  /\ nx[i] = MostOf(o, same \cap 1 .. PlaceOf(o, i) - 1)
                /\ pv[i] = LeastOf(o, same \ 1 .. PlaceOf(o, i))
  <2>1. /\ \A b \in 0 .. n - 1 : t.iter[b] = MostOf(Items, There(Items, number, n, b))
        /\ \A i \in used \cap Cells :
              LET same == There(Items, number, n, Index(number[i], n))
              IN  /\ t.next[i] = MostOf(Items, same \cap 1 .. PlaceOf(Items, i) - 1)
                  /\ t.prev[i] = LeastOf(Items, same \ 1 .. PlaceOf(Items, i))
    <3>1. \A b \in 0 .. n - 1 : t.iter[b] = MostOf(Items, There(Items, number, n, b))
      <4>1. t.iter = [b \in 0 .. n - 1 |-> MostOf(Items, There(Items, number, n, b))]
        BY MovedIs, Zenon
      <4> QED
        BY <4>1
    <3>2. \A i \in used \cap Cells :
             t.next[i] = MostOf(Items, There(Items, number, n, Index(number[i], n))
                                          \cap 1 .. PlaceOf(Items, i) - 1)
      <4>1. t.next = [i \in Cells |->
                        IF i \in used
                        THEN MostOf(Items, There(Items, number, n, Index(number[i], n))
                                              \cap 1 .. PlaceOf(Items, i) - 1)
                        ELSE next[i]]
        BY MovedIs, Zenon
      <4> QED
        BY <4>1
    <3>3. \A i \in used \cap Cells :
             t.prev[i] = LeastOf(Items, There(Items, number, n, Index(number[i], n))
                                           \ 1 .. PlaceOf(Items, i))
      <4>1. t.prev = [i \in Cells |->
                        IF i \in used
                        THEN LeastOf(Items, There(Items, number, n, Index(number[i], n))
                                               \ 1 .. PlaceOf(Items, i))
                        ELSE prev[i]]
        BY MovedIs, Zenon
      <4> QED
        BY <4>1
    <3> QED
      BY <3>1, <3>2, <3>3
  <2>2. t.size = n
    BY MovedIs
  <2> QED
    BY <1>1, <1>2, <2>1, <2>2
<1>4. /\ Len(o) \in Nat /\ Distinct(o) /\ used = {o[p] : p \in 1 .. Len(o)}
      /\ used \subseteq Cells /\ DOMAIN o = 1 .. Len(o)
  <2>1. Len(o) \in Nat /\ Distinct(o) /\ used = {o[p] : p \in 1 .. Len(o)}
    BY <1>1, ItemsAre
  <2>2. DOMAIN o = 1 .. Len(o) /\ used \subseteq Cells
    BY DEF Chains
  <2> QED
    BY <2>1, <2>2
<1>5. \A i \in used : number[i] \in Nat
  BY ItemIn
<1>6. \A p \in 1 .. Len(o) : PlaceOf(o, o[p]) = p
  <2> SUFFICES ASSUME NEW p \in 1 .. Len(o) PROVE PlaceOf(o, o[p]) = p
    OBVIOUS
  <2>1. PICK r : r = PlaceOf(o, o[p])
    OBVIOUS
  <2>2. r \in DOMAIN o /\ o[r] = o[p]
    BY <1>4, <2>1 DEF PlaceOf
  <2> QED
    BY <1>4, <2>1, <2>2 DEF Distinct
<1>7. NewLinks(o, number, n, nx, pv)
  <2> SUFFICES ASSUME NEW p \in 1 .. Len(o)
               PROVE  LET same == There(o, number, n, Index(number[o[p]], n))
                      IN  /\ nx[o[p]] = MostOf(o, same \cap 1 .. p - 1)
                          /\ pv[o[p]] = LeastOf(o, same \ 1 .. p)
    BY DEF NewLinks
  <2>1. o[p] \in used \cap Cells /\ PlaceOf(o, o[p]) = p
    BY <1>4, <1>6
  <2> QED
    BY <1>3, <2>1
<1> DEFINE Good(b, s) == NewChain(o, number, n, b, s, it[b], nx, pv)
           d == [b \in 0 .. n - 1 |-> CHOOSE s \in Seq(Cells) : Good(b, s)]
<1>8. ASSUME NEW b \in 0 .. n - 1 PROVE \E s \in Seq(Cells) : Good(b, s)
  <2>1. it[b] = MostOf(o, There(o, number, n, b))
    BY <1>3
  <2> QED
    BY <1>4, <1>7, <2>1, NewBucket
<1>9. ASSUME NEW b \in 0 .. n - 1 PROVE d[b] \in Seq(Cells) /\ Good(b, d[b])
  <2> HIDE DEF Good
  <2> QED
    BY <1>8
<1>10. d = [b \in 0 .. n - 1 |-> d[b]]
  <2> HIDE DEF Good
  <2> QED
    OBVIOUS
<1> HIDE DEF d
<1>11. d \in [0 .. n - 1 -> Seq(Cells)]
  BY <1>9, <1>10
<1>12. ASSUME NEW b \in 0 .. n - 1
       PROVE  /\ ChainOf(d[b], it[b], nx, pv)
              /\ \A p \in 1 .. Len(d[b]) : /\ d[b][p] \in used /\ number[d[b][p]] \in Nat
                                           /\ Index(number[d[b][p]], n) = b
  <2>1. NewChain(o, number, n, b, d[b], it[b], nx, pv)
    BY <1>9
  <2>2. ASSUME NEW k \in 1 .. Len(d[b])
        PROVE  /\ d[b][k] \in used /\ number[d[b][k]] \in Nat
               /\ Index(number[d[b][k]], n) = b
    <3>1. PICK p \in 1 .. Len(o) : d[b][k] = o[p] /\ Index(number[o[p]], n) = b
      BY <2>1 DEF NewChain
    <3> QED
      BY <1>4, <1>5, <3>1
  <2> QED
    BY <2>1, <2>2 DEF NewChain
<1>13. ASSUME NEW i \in used
       PROVE  \E b \in 0 .. n - 1 : \E p \in 1 .. Len(d[b]) : d[b][p] = i
  <2>1. PICK p \in 1 .. Len(o) : o[p] = i
    BY <1>4
  <2>2. PICK b \in 0 .. n - 1 : b = Index(number[i], n)
    BY <1>5, IndexIs
  <2>3. NewChain(o, number, n, b, d[b], it[b], nx, pv)
    BY <1>9
  <2>4. \E k \in 1 .. Len(d[b]) : d[b][k] = o[p]
    BY <2>1, <2>2, <2>3 DEF NewChain
  <2> QED
    BY <2>1, <2>4
<1> HIDE DEF Good
<1>14. Chains(d, n, it, nx, pv, number, used)
  BY <1>4, <1>11, <1>12, <1>13 DEF Chains
<1>15. /\ DOMAIN it = 0 .. n - 1 /\ DOMAIN nx = Cells /\ DOMAIN pv = Cells
       /\ it = [b \in 0 .. n - 1 |-> it[b]]
       /\ nx = [i \in Cells |-> nx[i]] /\ pv = [i \in Cells |-> pv[i]]
       /\ \A i \in Cells \ used : nx[i] = next[i] /\ pv[i] = prev[i]
  <2>1. DOMAIN it = 0 .. n - 1 /\ it = [b \in 0 .. n - 1 |-> it[b]]
    <3>1. t.iter = [b \in 0 .. n - 1 |-> MostOf(Items, There(Items, number, n, b))]
      BY MovedIs, Zenon
    <3> QED
      BY <1>2, <3>1
  <2>2. /\ DOMAIN nx = Cells /\ nx = [i \in Cells |-> nx[i]]
        /\ \A i \in Cells \ used : nx[i] = next[i]
    <3>1. t.next = [i \in Cells |->
                      IF i \in used
                      THEN MostOf(Items, There(Items, number, n, Index(number[i], n))
                                            \cap 1 .. PlaceOf(Items, i) - 1)
                      ELSE next[i]]
      BY MovedIs, Zenon
    <3> QED
      BY <1>2, <3>1
  <2>3. /\ DOMAIN pv = Cells /\ pv = [i \in Cells |-> pv[i]]
        /\ \A i \in Cells \ used : pv[i] = prev[i]
    <3>1. t.prev = [i \in Cells |->
                      IF i \in used
                      THEN LeastOf(Items, There(Items, number, n, Index(number[i], n))
                                             \ 1 .. PlaceOf(Items, i))
                      ELSE prev[i]]
      BY MovedIs, Zenon
    <3> QED
      BY <1>2, <3>1
  <2> QED
    BY <2>1, <2>2, <2>3
<1> QED
  BY <1>2, <1>3, <1>14, <1>15
-----------------------------------------------------------------------------
(* The inductive invariant. *)

(* The types: of the table, ... *)
StoreInv == /\ num \in Nat /\ size \in Nat /\ iter \in [0 .. size - 1 -> Pointers]
            /\ key \in [Cells -> Keys \cup {Null}] /\ value \in [Cells -> Values \cup {Null}]
            /\ next \in [Cells -> Pointers] /\ prev \in [Cells -> Pointers]
            /\ number \in [Cells -> Nat \cup {Null}] /\ used \subseteq Cells

(* ... and of the loop. *)
LoopInv == /\ foreach \in [Cells -> {0, 1}] /\ at \in Pointers
           /\ bucket \in Nat /\ todo \subseteq used

(* The items are in the chains of their buckets, and num counts them. *)
TableInv == /\ \E c : Chains(c, size, iter, next, prev, number, used)
            /\ num = Cardinality(used)

(* The number of an item is that of its key, which no other item has. *)
KeyInv == \A i \in used \ Dead : /\ number[i] = Hash(key[i])
                                 /\ \A j \in used : key[j] = key[i] => j = i

(* What is allocated has no item before it. *)
FreeInv == \A i \in Cells \ used : prev[i] = Null

(* Only the item the loop is at is marked, or dead. *)
CursorInv == /\ \A i \in Cells : foreach[i] = 1 => i = at
             /\ \A i \in Dead : i = at
             /\ at # Null => at \in used /\ (foreach[at] = 1 <=> key[at] # Null)

(* The items to come lie ahead. *)
TodoInv == /\ at = Null => todo = {}
           /\ \A x \in todo :
                 /\ bucket = Index(number[at], size)
                 /\ \/ Index(number[x], size) > bucket
                    \/ Index(number[x], size) = bucket /\ Precedes(Bucket(bucket), at, x)

IInv == StoreInv /\ LoopInv /\ TableInv /\ KeyInv /\ FreeInv /\ CursorInv /\ TodoInv

(* At the beginning. *)
LEMMA InitIInv == Init => IInv
<1> SUFFICES ASSUME Init PROVE IInv
  OBVIOUS
<1> USE DEF Init
<1>1. StoreInv /\ LoopInv
  BY MyHashAssumption DEF StoreInv, LoopInv, Pointers
<1>2. TableInv
  <2>1. Cardinality({}) = 0
    BY FS_EmptySet
  <2>2. \A c : c \in [0 .. 0 - 1 -> Seq(Cells)] => Chains(c, size, iter, next, prev, number, used)
    BY DEF Chains
  <2>3. [b \in 0 .. 0 - 1 |-> <<>>] \in [0 .. 0 - 1 -> Seq(Cells)]
    OBVIOUS
  <2>4. \E c : Chains(c, size, iter, next, prev, number, used)
    BY <2>2, <2>3
  <2> QED
    BY <2>1, <2>4 DEF TableInv
<1>3. KeyInv /\ FreeInv /\ CursorInv /\ TodoInv
  BY DEF KeyInv, FreeInv, CursorInv, TodoInv, Dead
<1> QED
  BY <1>1, <1>2, <1>3 DEF IInv

-----------------------------------------------------------------------------
(* my_hash_lookup. *)

(* What is found is an item with the key; what is not found is not there.   *)
LEMMA LookupIs ==
    ASSUME NEW c, Chains(c, size, iter, next, prev, number, used), KeyInv, size # 0, NEW k \in Keys
    PROVE  /\ Lookup(k) # Null => Lookup(k) \in used /\ key[Lookup(k)] = k
           /\ \A i \in used : key[i] = k => Lookup(k) = i
<1>1. PICK b \in 0 .. size - 1 : b = Index(Hash(k), size)
  <2>1. Hash(k) \in Nat /\ size \in Nat
    BY HashIs DEF Chains
  <2> QED
    BY <2>1, IndexIs
<1>2. PICK s \in Seq(Cells) : s = c[b] /\ Bucket(b) = s
  BY BucketIs DEF Bucket
<1>3. PICK found : found = {p \in DOMAIN s : key[s[p]] = k}
  OBVIOUS
<1>4. Lookup(k) = IF found = {} THEN Null ELSE s[Min(found)]
  BY <1>1, <1>2, <1>3 DEF Lookup
<1>5. \A p \in DOMAIN s : s[p] \in used
  <2>1. \A p \in 1 .. Len(c[b]) : c[b][p] \in used
    BY DEF Chains
  <2> QED
    BY <1>2, <2>1
<1>6. found # {} => Min(found) \in found
  <2> SUFFICES ASSUME found # {} PROVE Min(found) \in found
    OBVIOUS
  <2>1. found \subseteq Nat
    BY <1>3
  <2>2. \E m \in found : \A n \in found : m <= n
    BY <2>1, LeastNumber
  <2> QED
    BY <2>2 DEF Min
<1>7. found # {} => Lookup(k) \in used /\ key[Lookup(k)] = k
  BY <1>3, <1>4, <1>5, <1>6
<1>8. ASSUME NEW i \in used, key[i] = k PROVE Lookup(k) = i
  <2>1. i \in used \ Dead
    BY <1>8, MyHashAssumption DEF Dead
  <2>2. number[i] = Hash(k) /\ \A j \in used : key[j] = k => j = i
    BY <1>8, <2>1 DEF KeyInv
  <2>3. PICK p \in 1 .. Len(s) : s[p] = i
    BY <1>1, <1>2, <2>2, ItemIn
  <2>4. p \in found
    BY <1>3, <1>8, <2>3
  <2> QED
    BY <1>7, <2>2, <2>4
<1> QED
  BY <1>4, <1>7, <1>8

-----------------------------------------------------------------------------
(* my_hash_foreach goes on: from item i or, when there is none, from the    *)
(* bucket behind b on.                                                      *)

(* L lies from there on. *)
From(d, n, nr, i, b, L) ==
    \A x \in L : \/ Index(nr[x], n) > b
                 \/ /\ i # Null /\ Index(nr[x], n) = b
                    /\ x = i \/ Precedes(d[b], i, x)

(* It comes to the next item, and the others then lie behind that. *)
LEMMA ReachIs ==
    ASSUME NEW d, NEW n, NEW heads, NEW nx, NEW pv, NEW nr, NEW U,
           Chains(d, n, heads, nx, pv, nr, U), NEW L, L \subseteq U,
           NEW i, NEW b \in Int, b + 1 \in Nat, i # Null => i \in U /\ b \in Nat,
           \A x \in L : i # Null => Index(nr[i], n) = b,
           From(d, n, nr, i, b, L), NEW marks, Reach(i, b, heads, n, marks, L)
    PROVE  /\ bucket' \in Nat /\ todo' \subseteq L /\ at' \notin todo'
           /\ at' = Null => todo' = {} /\ foreach' = marks
           /\ at' # Null => at' \in U /\ foreach' = [marks EXCEPT ![at'] = 1]
           /\ \A x \in todo' :
                 /\ bucket' = Index(nr[at'], n) /\ bucket' \in 0 .. n - 1
                 /\ \/ Index(nr[x], n) > bucket'
                    \/ Index(nr[x], n) = bucket' /\ Precedes(d[bucket'], at', x)
<1>1. n \in Nat /\ U \subseteq Cells /\ Null \notin Cells
  BY MyHashAssumption DEF Chains
<1>2. \A x \in U : /\ Index(nr[x], n) \in 0 .. n - 1
                   /\ \E p \in 1 .. Len(d[Index(nr[x], n)]) : d[Index(nr[x], n)][p] = x
  BY ItemIn
<1>3. CASE i # Null
  <2>1. at' = i /\ bucket' = b /\ foreach' = [marks EXCEPT ![i] = 1] /\ todo' = L \ {i}
    BY <1>3 DEF Reach
  <2>2. i \in U /\ b \in Nat
    BY <1>3
  <2>3. ASSUME NEW x \in L \ {i}
        PROVE  /\ b = Index(nr[i], n) /\ b \in 0 .. n - 1
               /\ \/ Index(nr[x], n) > b
                  \/ Index(nr[x], n) = b /\ Precedes(d[b], i, x)
    <3>1. b = Index(nr[i], n) /\ b \in 0 .. n - 1
      BY <1>2, <1>3, <2>2
    <3> QED
      BY <3>1 DEF From
  <2> QED
    BY <1>3, <2>1, <2>2, <2>3
<1>4. CASE i = Null
  <2>1. \A x \in L : Index(nr[x], n) > b
    BY <1>4 DEF From
  <2>2. ASSUME NEW x \in L PROVE Index(nr[x], n) \in Ahead(b + 1, heads, n)
    <3>1. PICK j \in 0 .. n - 1 : j = Index(nr[x], n) /\ j > b /\ \E p \in 1 .. Len(d[j]) : d[j][p] = x
      BY <1>2, <2>1
    <3>2. Len(d[j]) # 0
      BY <3>1
    <3>3. heads[j] # Null
      BY <3>2, BucketIs
    <3>4. j \in b + 1 .. n - 1
      BY <1>1, <3>1
    <3> QED
      BY <3>1, <3>3, <3>4 DEF Ahead
  <2>3. CASE Ahead(b + 1, heads, n) = {}
    <3>1. at' = Null /\ bucket' = 0 /\ foreach' = marks /\ todo' = L
      BY <1>4, <2>3 DEF Reach
    <3>2. L = {}
      BY <2>2, <2>3
    <3> QED
      BY <3>1, <3>2
  <2>4. CASE Ahead(b + 1, heads, n) # {}
    <3>1. PICK j : j = Min(Ahead(b + 1, heads, n))
      OBVIOUS
    <3>2. j \in b + 1 .. n - 1 /\ heads[j] # Null /\ \A k \in Ahead(b + 1, heads, n) : j <= k
      BY <2>4, <3>1, AheadLeast
    <3>3. j \in 0 .. n - 1 /\ j \in Nat
      BY <1>1, <3>2
    <3>4. /\ at' = heads[j] /\ bucket' = j /\ foreach' = [marks EXCEPT ![heads[j]] = 1]
          /\ todo' = L \ {heads[j]}
      BY <1>4, <2>4, <3>1 DEF Reach
    <3>5. Len(d[j]) \in Nat /\ Len(d[j]) # 0 /\ heads[j] = d[j][1]
      BY <3>2, <3>3, BucketIs
    <3>6. 1 \in 1 .. Len(d[j]) /\ heads[j] \in U /\ Index(nr[heads[j]], n) = j
      <4>1. 1 \in 1 .. Len(d[j])
        BY <3>5
      <4>2. d[j][1] \in U /\ Index(nr[d[j][1]], n) = j
        BY <3>3, <4>1 DEF Chains
      <4> QED
        BY <3>5, <4>1, <4>2
    <3>7. ASSUME NEW x \in L \ {heads[j]}
          PROVE  \/ Index(nr[x], n) > j
                 \/ Index(nr[x], n) = j /\ Precedes(d[j], heads[j], x)
      <4>1. PICK a \in 0 .. n - 1 : a = Index(nr[x], n) /\ \E p \in 1 .. Len(d[a]) : d[a][p] = x
        BY <1>2
      <4>2. j <= a
        BY <2>2, <3>2, <4>1
      <4>3. CASE a = j
        <5>1. PICK p \in 1 .. Len(d[j]) : d[j][p] = x
          BY <4>1, <4>3
        <5>2. p # 1
          BY <3>5, <5>1
        <5>3. 1 < p
          BY <5>2
        <5>4. Precedes(d[j], heads[j], x)
          BY <3>5, <3>6, <5>1, <5>3 DEF Precedes
        <5> QED
          BY <4>1, <4>3, <5>4
      <4>4. CASE a # j
        BY <3>3, <4>1, <4>2, <4>4
      <4> QED
        BY <4>3, <4>4
    <3> QED
      BY <1>1, <3>2, <3>3, <3>4, <3>6, <3>7
  <2> QED
    BY <2>3, <2>4
<1> QED
  BY <1>3, <1>4
-----------------------------------------------------------------------------
(* The steps. *)

(* What comes after an item in its bucket is the next, or after that. *)
LEMMA AfterIs ==
    ASSUME NEW c, NEW n, NEW it, NEW nx, NEW pv, NEW nr, NEW U,
           Chains(c, n, it, nx, pv, nr, U), NEW b \in 0 .. n - 1,
           NEW i, NEW x, Precedes(c[b], i, x)
    PROVE  /\ i \in U /\ x \in U /\ x # i /\ nx[i] \in U /\ nx[i] # Null /\ nx[i] # i
           /\ x = nx[i] \/ Precedes(c[b], nx[i], x)
<1>1. PICK p, q \in 1 .. Len(c[b]) : p < q /\ c[b][p] = i /\ c[b][q] = x
  BY DEF Precedes
<1>2. /\ \A r, l \in 1 .. Len(c[b]) : c[b][r] = c[b][l] => r = l
      /\ nx[i] = IF p = Len(c[b]) THEN Null ELSE c[b][p + 1]
      /\ Len(c[b]) \in Nat
  BY <1>1, BucketIs
<1>3. \A r \in 1 .. Len(c[b]) : c[b][r] \in U /\ c[b][r] # Null
  <2>1. \A r \in 1 .. Len(c[b]) : c[b][r] \in U
    BY DEF Chains
  <2>2. \A r \in 1 .. Len(c[b]) : c[b][r] # Null
    BY BucketIs
  <2> QED
    BY <2>1, <2>2
<1>4. p # Len(c[b]) /\ p + 1 \in 1 .. Len(c[b]) /\ p + 1 # p /\ (q = p + 1 \/ p + 1 < q)
  BY <1>1, <1>2
<1>5. /\ nx[i] = c[b][p + 1] /\ nx[i] \in U /\ nx[i] # Null /\ nx[i] # i
      /\ i \in U /\ x \in U /\ x # i
  BY <1>1, <1>2, <1>3, <1>4
<1>6. x = nx[i] \/ Precedes(c[b], nx[i], x)
  <2>1. CASE q = p + 1
    BY <1>1, <1>5, <2>1
  <2>2. CASE p + 1 < q
    BY <1>1, <1>4, <1>5, <2>2 DEF Precedes
  <2> QED
    BY <1>4, <2>1, <2>2
<1> QED
  BY <1>5, <1>6

(* An item is linked out and freed: the table stays right, and the other    *)
(* items stay in their order.                                               *)
LEMMA UnlinkIs ==
    ASSUME StoreInv, TableInv, KeyInv, FreeInv,
           NEW c, Chains(c, size, iter, next, prev, number, used), NEW i \in used, Unlink(i)
    PROVE  /\ StoreInv' /\ KeyInv' /\ FreeInv' /\ num' = Cardinality(used') /\ Dead' = Dead \ {i}
           /\ size' = size /\ used' = used \ {i}
           /\ \A x \in Cells \ {i} : number'[x] = number[x] /\ key'[x] = key[x]
           /\ \E d : /\ Chains(d, size, iter', next', prev', number', used')
                     /\ \A b \in 0 .. size - 1 : \A x, y \in used \ {i} :
                           Precedes(c[b], x, y) => Precedes(d[b], x, y)
<1>1. /\ next' = NextWithout(i) /\ prev' = PrevWithout(i)
      /\ iter' = IF prev[i] # Null THEN iter
                 ELSE [iter EXCEPT ![Index(number[i], size)] = next[i]]
      /\ num' = num - 1 /\ used' = used \ {i} /\ size' = size
      /\ key' = [key EXCEPT ![i] = Null] /\ number' = [number EXCEPT ![i] = Null]
      /\ value' = [value EXCEPT ![i] = Null]
  BY DEF Unlink
<1>2. /\ num \in Nat /\ size \in Nat /\ iter \in [0 .. size - 1 -> Pointers]
      /\ key \in [Cells -> Keys \cup {Null}] /\ value \in [Cells -> Values \cup {Null}]
      /\ next \in [Cells -> Pointers] /\ prev \in [Cells -> Pointers]
      /\ number \in [Cells -> Nat \cup {Null}] /\ used \subseteq Cells
      /\ i \in Cells /\ Null \notin Cells /\ Null \in Pointers
  BY MyHashAssumption DEF StoreInv, Pointers
<1>3. PICK b \in 0 .. size - 1 : /\ b = Index(number[i], size)
                                 /\ \E q \in 1 .. Len(c[b]) : c[b][q] = i
  BY ItemIn
<1>4. PICK q \in 1 .. Len(c[b]) : c[b][q] = i
  BY <1>3
<1>5. PICK d : d = [c EXCEPT ![b] = RemovedAt(c[b], q)]
  OBVIOUS
<1>6. Chains(d, size, iter', next', prev', number', used')
  <2>1. \A x \in Cells \ {i} : /\ next'[x] = IF x = prev[i] THEN next[i] ELSE next[x]
                               /\ prev'[x] = IF x = next[i] THEN prev[i] ELSE prev[x]
                               /\ number'[x] = number[x]
    BY <1>1, <1>2 DEF NextWithout, PrevWithout
  <2>2. /\ iter'[b] = IF prev[i] = Null THEN next[i] ELSE iter[b]
        /\ \A a \in (0 .. size - 1) \ {b} : iter'[a] = iter[a]
    BY <1>1, <1>2, <1>3
  <2>3. Without(i, b, size, iter, next, prev, number, iter', next', prev', number')
    BY <2>1, <2>2 DEF Without
  <2>4. Chains([c EXCEPT ![b] = RemovedAt(c[b], q)], size, iter', next', prev', number',
               used \ {i})
    BY <1>4, <2>3, OutChains
  <2> QED
    BY <1>1, <1>5, <2>4
<1>7. ASSUME NEW a \in 0 .. size - 1, NEW x \in used \ {i}, NEW y \in used \ {i}, Precedes(c[a], x, y)
      PROVE  Precedes(d[a], x, y)
  <2>1. c \in [0 .. size - 1 -> Seq(Cells)]
    BY DEF Chains
  <2>2. CASE a = b
    <3>1. PICK s \in Seq(Cells) : s = c[b]
      BY <2>1
    <3>2. Precedes(RemovedAt(s, q), x, y)
      BY <1>4, <1>7, <2>2, <3>1, RemoveKeepsOrder
    <3> QED
      BY <1>5, <2>1, <2>2, <3>1, <3>2
  <2>3. CASE a # b
    BY <1>5, <1>7, <2>1, <2>3
  <2> QED
    BY <2>2, <2>3
<1>8. Dead' = Dead \ {i} /\ \A x \in Cells \ {i} : number'[x] = number[x] /\ key'[x] = key[x]
  <2>1. \A x \in Cells \ {i} : number'[x] = number[x] /\ key'[x] = key[x]
    BY <1>1, <1>2
  <2> QED
    BY <1>1, <1>2, <2>1 DEF Dead
<1>9. KeyInv'
  <2> SUFFICES ASSUME NEW x \in used' \ Dead'
               PROVE  /\ number'[x] = Hash(key'[x])
                      /\ \A j \in used' : key'[j] = key'[x] => j = x
    BY DEF KeyInv, Hash
  <2>1. x \in used \ Dead /\ x \in Cells \ {i}
    BY <1>1, <1>2, <1>8
  <2>2. number[x] = Hash(key[x]) /\ \A j \in used : key[j] = key[x] => j = x
    BY <2>1 DEF KeyInv
  <2>3. \A j \in used' : j \in used /\ j \in Cells \ {i}
    BY <1>1, <1>2
  <2> QED
    BY <1>8, <2>1, <2>2, <2>3
<1>10. num' = Cardinality(used') /\ num' \in Nat
  <2>1. IsFiniteSet(used)
    BY ItemsAre
  <2>2. Cardinality(used \ {i}) = Cardinality(used) - 1
    BY <2>1, FS_RemoveElement
  <2>3. Cardinality(used \ {i}) \in Nat
    BY <2>1, FS_RemoveElement, FS_CardinalityType
  <2> QED
    BY <1>1, <2>2, <2>3 DEF TableInv
<1>11. StoreInv'
  <2>1. iter' \in [0 .. size - 1 -> Pointers]
    BY <1>1, <1>2, <1>3
  <2>2. next' \in [Cells -> Pointers] /\ prev' \in [Cells -> Pointers]
    BY <1>1, <1>2 DEF NextWithout, PrevWithout
  <2>3. /\ key' \in [Cells -> Keys \cup {Null}] /\ value' \in [Cells -> Values \cup {Null}]
        /\ used' \subseteq Cells
    BY <1>1, <1>2
  <2>4. number' \in [Cells -> Nat \cup {Null}]
    BY <1>1, <1>2
  <2> QED
    BY <1>1, <1>2, <1>10, <2>1, <2>2, <2>3, <2>4 DEF StoreInv, Pointers
<1>12. FreeInv'
  <2> SUFFICES ASSUME NEW j \in Cells, j \notin used' PROVE prev'[j] = Null
    BY DEF FreeInv
  <2>1. CASE j = i
    BY <1>1, <2>1 DEF PrevWithout
  <2>2. CASE j # i
    <3>1. j \notin used /\ prev[j] = Null
      BY <1>1, <2>2 DEF FreeInv
    <3>2. next[i] # j
      BY <1>2, <3>1, ChainsPoint
    <3> QED
      BY <1>1, <2>2, <3>1, <3>2 DEF PrevWithout
  <2> QED
    BY <2>1, <2>2
<1> QED
  BY <1>1, <1>6, <1>7, <1>8, <1>9, <1>10, <1>11, <1>12
(* The table an item is put into: the one there is, or a larger one. *)
LEMMA InsertableIs ==
    ASSUME StoreInv, FreeInv, NEW c, Chains(c, size, iter, next, prev, number, used), size # 0,
           NEW t \in Insertable
    PROVE  /\ t.size \in Nat /\ t.size # 0 /\ t.iter \in [0 .. t.size - 1 -> Pointers]
           /\ t.next \in [Cells -> Pointers] /\ t.prev \in [Cells -> Pointers]
           /\ \A j \in Cells \ used : t.prev[j] = Null
           /\ \E d : Chains(d, t.size, t.iter, t.next, t.prev, number, used)
           /\ t = Current => /\ t.size = size
                             /\ Chains(c, t.size, t.iter, t.next, t.prev, number, used)
<1>1. t = Current \/ t = Moved(HASH_GROW_STEP * size)
  BY DEF Insertable, Rehashed
<1>2. /\ Current.size = size /\ Current.iter = iter
      /\ Current.next = next /\ Current.prev = prev
  BY DEF Current
<1>3. CASE t = Current
  <2>1. t.size = size /\ t.iter = iter /\ t.next = next /\ t.prev = prev
    BY <1>2, <1>3
  <2> QED
    BY <2>1 DEF StoreInv, FreeInv
<1>4. CASE t = Moved(HASH_GROW_STEP * size) /\ t # Current
  <2>1. PICK n \in Nat : n = HASH_GROW_STEP * size /\ n # 0
    <3>1. HASH_GROW_STEP \in Nat /\ HASH_GROW_STEP # 0 /\ size \in Nat
      BY MyHashAssumption DEF StoreInv
    <3>2. \A x, y \in Nat : x # 0 /\ y # 0 => x * y \in Nat /\ x * y # 0
      OBVIOUS
    <3> QED
      BY <3>1, <3>2
  <2>2. /\ t.size = n
        /\ \E d : Chains(d, n, t.iter, t.next, t.prev, number, used)
        /\ t.iter = [b \in 0 .. n - 1 |-> t.iter[b]]
        /\ t.next = [i \in Cells |-> t.next[i]] /\ t.prev = [i \in Cells |-> t.prev[i]]
        /\ \A i \in Cells \ used : t.next[i] = next[i] /\ t.prev[i] = prev[i]
    BY <1>4, <2>1, MovedChains
  <2>3. PICK d : Chains(d, n, t.iter, t.next, t.prev, number, used)
    BY <2>2
  <2>4. /\ \A b \in 0 .. n - 1 : t.iter[b] # Null => t.iter[b] \in used
        /\ \A i \in used : t.next[i] # Null => t.next[i] \in used
        /\ \A i \in used : t.prev[i] # Null => t.prev[i] \in used
    BY <2>3, ChainsPoint
  <2>5. used \subseteq Cells /\ next \in [Cells -> Pointers] /\ prev \in [Cells -> Pointers]
    BY DEF StoreInv
  <2>6. \A b \in 0 .. n - 1 : t.iter[b] \in Pointers
    BY <2>4, <2>5 DEF Pointers
  <2>7. \A i \in Cells : t.next[i] \in Pointers /\ t.prev[i] \in Pointers
    BY <2>2, <2>4, <2>5 DEF Pointers
  <2>8. t.iter \in [0 .. n - 1 -> Pointers]
    BY <2>2, <2>6
  <2>9. t.next \in [Cells -> Pointers] /\ t.prev \in [Cells -> Pointers]
    BY <2>2, <2>7
  <2>10. \A j \in Cells \ used : t.prev[j] = Null
    BY <2>2 DEF FreeInv
  <2> QED
    BY <1>4, <2>1, <2>2, <2>8, <2>9, <2>10
<1> QED
  BY <1>1, <1>3, <1>4

(* my_hash_lookadd, my_hash_add: a new item. *)
LEMMA AddItemIs ==
    ASSUME IInv, size # 0, NEW k \in Keys, NEW v \in Values \cup {Null}, Lookup(k) = Null,
           NEW i \in Cells, NEW t \in Insertable, AddItem(k, v, i, t)
    PROVE  IInv'
<1>1. StoreInv /\ LoopInv /\ TableInv /\ KeyInv /\ FreeInv /\ CursorInv /\ TodoInv
  BY DEF IInv
<1>2. PICK c : Chains(c, size, iter, next, prev, number, used)
  BY <1>1 DEF TableInv
<1>3. PICK n, it, nx, pv : n = t.size /\ it = t.iter /\ nx = t.next /\ pv = t.prev
  OBVIOUS
<1>4. /\ n \in Nat /\ n # 0 /\ it \in [0 .. n - 1 -> Pointers]
      /\ nx \in [Cells -> Pointers] /\ pv \in [Cells -> Pointers]
      /\ \A j \in Cells \ used : pv[j] = Null
      /\ \E d : Chains(d, n, it, nx, pv, number, used)
      /\ t = Current => n = size /\ Chains(c, n, it, nx, pv, number, used)
  BY <1>1, <1>2, <1>3, InsertableIs
<1>5. PICK d : /\ Chains(d, n, it, nx, pv, number, used)
               /\ t = Current => d = c /\ n = size
  BY <1>4
<1>6. PICK b \in 0 .. n - 1 : b = Index(Hash(k), n)
  BY <1>4, HashIs, IndexIs
<1>7. /\ i \notin used /\ used' = used \cup {i}
      /\ key' = [key EXCEPT ![i] = k] /\ number' = [number EXCEPT ![i] = Hash(k)]
      /\ value' = [value EXCEPT ![i] = v] /\ size' = n /\ iter' = [it EXCEPT ![b] = i]
      /\ next' = [nx EXCEPT ![i] = it[b]]
      /\ prev' = IF it[b] = Null THEN pv ELSE [pv EXCEPT ![it[b]] = i]
      /\ num' = num + 1
      /\ todo' = IF t # Current THEN {} ELSE todo
      /\ foreach' = foreach /\ at' = at /\ bucket' = bucket
  BY <1>3, <1>6 DEF AddItem
<1>8. /\ num \in Nat /\ key \in [Cells -> Keys \cup {Null}]
      /\ value \in [Cells -> Values \cup {Null}]
      /\ number \in [Cells -> Nat \cup {Null}] /\ used \subseteq Cells
      /\ Null \notin Cells /\ Null \in Pointers /\ i \in Pointers /\ k # Null /\ k \in Nat
      /\ Hash(k) \in Nat
  BY <1>1, MyHashAssumption, HashIs DEF StoreInv, Pointers
<1>9. it[b] # Null => it[b] \in Cells /\ it[b] # i
  BY <1>5, <1>7, <1>8, ChainsPoint
<1>10. /\ next'[i] = it[b] /\ prev'[i] = Null /\ number'[i] = Hash(k) /\ key'[i] = k
       /\ \A x \in Cells \ {i} : /\ next'[x] = nx[x] /\ number'[x] = number[x]
                                 /\ prev'[x] = IF x = it[b] THEN i ELSE pv[x]
                                 /\ key'[x] = key[x]
       /\ iter'[b] = i /\ \A a \in (0 .. n - 1) \ {b} : iter'[a] = it[a]
  <2>1. next'[i] = it[b] /\ \A x \in Cells \ {i} : next'[x] = nx[x]
    BY <1>4, <1>7
  <2>2. prev'[i] = Null /\ \A x \in Cells \ {i} : prev'[x] = IF x = it[b] THEN i ELSE pv[x]
    BY <1>4, <1>7, <1>8, <1>9
  <2>3. /\ number'[i] = Hash(k) /\ key'[i] = k
        /\ \A x \in Cells \ {i} : number'[x] = number[x] /\ key'[x] = key[x]
    BY <1>7, <1>8
  <2>4. iter'[b] = i /\ \A a \in (0 .. n - 1) \ {b} : iter'[a] = it[a]
    BY <1>4, <1>7
  <2> QED
    BY <2>1, <2>2, <2>3, <2>4
<1>11. PICK e : e = [d EXCEPT ![b] = InsertedAt(d[b], 1, i)]
  OBVIOUS
<1>12. Chains(e, size', iter', next', prev', number', used')
  <2>1. WithFirst(i, b, n, it, nx, pv, number, iter', next', prev', number')
    BY <1>6, <1>8, <1>10 DEF WithFirst
  <2>2. Chains([d EXCEPT ![b] = InsertedAt(d[b], 1, i)], n, iter', next', prev', number',
               used \cup {i})
    BY <1>5, <1>7, <2>1, FrontChains
  <2> QED
    BY <1>7, <1>11, <2>2
<1>13. num' = Cardinality(used') /\ num' \in Nat
  <2>1. IsFiniteSet(used)
    BY <1>2, ItemsAre
  <2>2. Cardinality(used \cup {i}) = Cardinality(used) + 1
    BY <1>7, <2>1, FS_AddElement
  <2> QED
    BY <1>1, <1>7, <1>8, <2>2 DEF TableInv
<1>14. TableInv'
  BY <1>12, <1>13 DEF TableInv
<1>15. StoreInv'
  <2>1. iter' \in [0 .. n - 1 -> Pointers]
    BY <1>4, <1>7, <1>8
  <2>2. next' \in [Cells -> Pointers]
    BY <1>4, <1>7
  <2>3. prev' \in [Cells -> Pointers]
    BY <1>4, <1>7, <1>8
  <2>4. /\ key' \in [Cells -> Keys \cup {Null}] /\ value' \in [Cells -> Values \cup {Null}]
        /\ used' \subseteq Cells
    BY <1>7, <1>8
  <2>5. number' \in [Cells -> Nat \cup {Null}]
    BY <1>7, <1>8
  <2> QED
    BY <1>4, <1>7, <1>13, <2>1, <2>2, <2>3, <2>4, <2>5 DEF StoreInv, Pointers
<1>16. LoopInv'
  BY <1>1, <1>7 DEF LoopInv, Pointers
<1>17. KeyInv'
  <2> SUFFICES ASSUME NEW x \in used' \ Dead'
               PROVE  /\ number'[x] = Hash(key'[x])
                      /\ \A j \in used' : key'[j] = key'[x] => j = x
    BY DEF KeyInv, Hash
  <2>1. \A j \in used : key[j] # k /\ j \in Cells \ {i}
    <3>1. \A j \in used : key[j] = k => Lookup(k) = j
      BY <1>1, <1>2, LookupIs
    <3> QED
      BY <1>7, <1>8, <3>1
  <2>2. CASE x = i
    BY <1>7, <1>10, <2>1, <2>2
  <2>3. CASE x # i
    <3>1. x \in used /\ x \in Cells \ {i} /\ key[x] # k /\ key'[x] # Null /\ key[x] # Null
      BY <1>7, <1>10, <2>1, <2>3 DEF Dead
    <3>2. number[x] = Hash(key[x]) /\ \A j \in used : key[j] = key[x] => j = x
      BY <1>1, <3>1 DEF KeyInv, Dead
    <3> QED
      BY <1>7, <1>10, <2>1, <3>1, <3>2
  <2> QED
    BY <2>2, <2>3
<1>18. FreeInv'
  <2> SUFFICES ASSUME NEW j \in Cells, j \notin used' PROVE prev'[j] = Null
    BY DEF FreeInv
  <2>1. j \notin used /\ j \in Cells \ {i} /\ pv[j] = Null
    BY <1>4, <1>7
  <2>2. j # it[b]
    BY <1>5, <1>8, <2>1, ChainsPoint
  <2> QED
    BY <1>10, <2>1, <2>2
<1>19. CursorInv'
  <2>1. Dead' \subseteq Dead
    <3> SUFFICES ASSUME NEW j \in Dead' PROVE j \in Dead
      OBVIOUS
    <3>1. j \in used' /\ key'[j] = Null
      BY DEF Dead
    <3>2. j \in used /\ j \in Cells \ {i}
      BY <1>7, <1>8, <1>10, <3>1
    <3> QED
      BY <1>10, <3>1, <3>2 DEF Dead
  <2>2. at # Null => at \in used /\ at \in Cells \ {i} /\ key'[at] = key[at]
    BY <1>1, <1>7, <1>8, <1>10 DEF CursorInv
  <2> QED
    BY <1>1, <1>7, <2>1, <2>2 DEF CursorInv
<1>20. TodoInv'
  <2>1. at' = Null => todo' = {}
    BY <1>1, <1>7 DEF TodoInv
  <2>2. ASSUME NEW x \in todo'
        PROVE  /\ bucket' = Index(number'[at'], size')
               /\ \/ Index(number'[x], size') > bucket'
                  \/ Index(number'[x], size') = bucket' /\ Precedes(Bucket(bucket)', at', x)
    <3>1. t = Current /\ x \in todo /\ d = c /\ n = size
      BY <1>5, <1>7, <2>2
    <3>2. x \in used /\ at \in used /\ x \in Cells \ {i} /\ at \in Cells \ {i}
      BY <1>1, <1>7, <1>8, <3>1 DEF LoopInv, TodoInv, CursorInv
    <3>3. /\ bucket = Index(number[at], size)
          /\ \/ Index(number[x], size) > bucket
             \/ Index(number[x], size) = bucket /\ Precedes(Bucket(bucket), at, x)
      BY <1>1, <3>1 DEF TodoInv
    <3>4. bucket \in 0 .. size - 1
      BY <1>2, <3>2, <3>3, ItemIn
    <3>5. Bucket(bucket) = c[bucket] /\ Bucket(bucket)' = e[bucket]
      <4>1. Bucket(bucket) = c[bucket]
        BY <1>2, <3>4, BucketIs DEF Bucket
      <4>2. Chain(iter'[bucket'], next') = e[bucket']
        <5>1. bucket' \in 0 .. size' - 1
          BY <1>7, <3>1, <3>4
        <5> QED
          BY <1>12, <5>1, BucketIs
      <4>3. Bucket(bucket)' = Chain(iter'[bucket'], next')
        BY DEF Bucket, Chain
      <4> QED
        BY <1>7, <4>1, <4>2, <4>3
    <3>6. Precedes(c[bucket], at, x) => Precedes(e[bucket], at, x)
      <4>1. c \in [0 .. size - 1 -> Seq(Cells)]
        BY <1>2 DEF Chains
      <4>2. CASE bucket = b
        <5>1. PICK s \in Seq(Cells) : s = c[b]
          BY <3>4, <4>1, <4>2
        <5>2. 1 \in 1 .. Len(s) + 1
          OBVIOUS
        <5>3. Precedes(s, at, x) => Precedes(InsertedAt(s, 1, i), at, x)
          BY <5>2, InsertKeepsOrder
        <5>4. e[b] = InsertedAt(s, 1, i)
          BY <1>11, <3>1, <4>1, <4>2, <3>4, <5>1
        <5> QED
          BY <4>2, <5>1, <5>3, <5>4
      <4>3. CASE bucket # b
        BY <1>11, <3>1, <3>4, <4>1, <4>3
      <4> QED
        BY <4>2, <4>3
    <3> QED
      BY <1>7, <1>10, <3>1, <3>2, <3>3, <3>5, <3>6
  <2> QED
    BY <2>1, <2>2 DEF TodoInv, Index
<1> QED
  BY <1>14, <1>15, <1>16, <1>17, <1>18, <1>19, <1>20 DEF IInv
(* What the links are after a step, of a bucket that is there. *)
LEMMA BucketThen ==
    ASSUME NEW d, Chains(d, size', iter', next', prev', number', used'),
           bucket' \in 0 .. size' - 1
    PROVE  Bucket(bucket)' = d[bucket']
<1>1. Chain(iter'[bucket'], next') = d[bucket']
  BY BucketIs
<1>2. Bucket(bucket)' = Chain(iter'[bucket'], next')
  BY DEF Bucket, Chain
<1> QED
  BY <1>1, <1>2

(* What was still to come lies ahead when another item is gone. *)
LEMMA TodoWithout ==
    ASSUME IInv, NEW c, Chains(c, size, iter, next, prev, number, used), NEW i \in used, i # at,
           NEW d, Chains(d, size, iter', next', prev', number', used'), size' = size,
           \A b \in 0 .. size - 1 : \A x, y \in used \ {i} :
              Precedes(c[b], x, y) => Precedes(d[b], x, y),
           \A x \in Cells \ {i} : number'[x] = number[x],
           todo' = todo \ {i}, at' = at, bucket' = bucket
    PROVE  TodoInv'
<1>1. StoreInv /\ LoopInv /\ CursorInv /\ TodoInv
  BY DEF IInv
<1>2. ASSUME NEW x \in todo'
      PROVE  /\ bucket' = Index(number'[at'], size')
             /\ \/ Index(number'[x], size') > bucket'
                \/ Index(number'[x], size') = bucket' /\ Precedes(Bucket(bucket)', at', x)
  <2>1. /\ x \in todo /\ x \in used \ {i} /\ at \in used \ {i}
        /\ x \in Cells \ {i} /\ at \in Cells \ {i}
    BY <1>1 DEF StoreInv, LoopInv, CursorInv, TodoInv
  <2>2. /\ bucket = Index(number[at], size)
        /\ \/ Index(number[x], size) > bucket
           \/ Index(number[x], size) = bucket /\ Precedes(Bucket(bucket), at, x)
    BY <1>1, <2>1 DEF TodoInv
  <2>3. bucket \in 0 .. size - 1
    BY <2>1, <2>2, ItemIn
  <2>4. Bucket(bucket) = c[bucket]
    BY <2>3, BucketIs DEF Bucket
  <2>5. Bucket(bucket)' = d[bucket]
    BY <2>3, BucketThen
  <2>6. Precedes(c[bucket], at, x) => Precedes(d[bucket], at, x)
    BY <2>1, <2>3
  <2> QED
    BY <2>1, <2>2, <2>4, <2>5, <2>6
<1>3. at' = Null => todo' = {}
  BY <1>1 DEF TodoInv
<1> QED
  BY <1>2, <1>3 DEF TodoInv, Index

(* my_hash_iter_delete, my_hash_delete *)
LEMMA DeleteItemIs ==
    ASSUME IInv, NEW i \in used, key[i] # Null, DeleteItem(i)
    PROVE  IInv'
<1>1. StoreInv /\ LoopInv /\ TableInv /\ KeyInv /\ FreeInv /\ CursorInv /\ TodoInv
  BY DEF IInv
<1>2. PICK c : Chains(c, size, iter, next, prev, number, used)
  BY <1>1 DEF TableInv
<1>3. todo' = todo \ {i} /\ i \in Cells
  BY <1>1 DEF DeleteItem, StoreInv
<1>4. CASE Bury(i)
  <2>1. /\ foreach[i] = 1 /\ key' = [key EXCEPT ![i] = Null]
        /\ value' = [value EXCEPT ![i] = Null] /\ foreach' = [foreach EXCEPT ![i] = 0]
        /\ num' = num /\ size' = size /\ iter' = iter /\ used' = used /\ next' = next
        /\ prev' = prev /\ number' = number /\ at' = at /\ bucket' = bucket
    BY <1>4 DEF Bury, table
  <2>2. at = i
    BY <1>1, <1>3, <2>1 DEF CursorInv
  <2>3. key'[i] = Null /\ foreach'[i] = 0
    BY <1>1, <1>3, <2>1 DEF StoreInv, LoopInv
  <2>4. \A x \in Cells \ {i} : key'[x] = key[x] /\ foreach'[x] = foreach[x]
    BY <1>1, <2>1 DEF StoreInv, LoopInv
  <2>5. Dead' = Dead \cup {i}
    BY <1>1, <2>1, <2>3, <2>4 DEF Dead, StoreInv
  <2>6. StoreInv' /\ LoopInv' /\ TableInv' /\ FreeInv'
    <3>1. StoreInv'
      BY <1>1, <2>1 DEF StoreInv, Pointers
    <3>2. LoopInv'
      BY <1>1, <1>3, <2>1 DEF LoopInv, Pointers
    <3>3. TableInv'
      BY <1>1, <1>2, <2>1 DEF TableInv
    <3>4. FreeInv'
      BY <1>1, <2>1 DEF FreeInv
    <3> QED
      BY <3>1, <3>2, <3>3, <3>4
  <2>7. KeyInv'
    <3> SUFFICES ASSUME NEW x \in used' \ Dead'
                 PROVE  /\ number'[x] = Hash(key'[x])
                        /\ \A j \in used' : key'[j] = key'[x] => j = x
      BY DEF KeyInv, Hash
    <3>1. x \in used \ Dead /\ x \in Cells \ {i} /\ key[x] # Null
      BY <1>1, <2>1, <2>5 DEF StoreInv, Dead
    <3>2. number[x] = Hash(key[x]) /\ \A j \in used : key[j] = key[x] => j = x
      BY <1>1, <3>1 DEF KeyInv
    <3>3. ASSUME NEW j \in used', key'[j] = key'[x] PROVE j = x
      <4>1. j # i /\ j \in used /\ j \in Cells
        BY <1>1, <2>1, <2>3, <2>4, <3>1, <3>3 DEF StoreInv
      <4> QED
        BY <2>4, <3>1, <3>2, <3>3, <4>1
    <3> QED
      BY <2>1, <2>4, <3>1, <3>2, <3>3
  <2>8. CursorInv'
    <3>1. \A x \in Cells : foreach'[x] = 1 => x = at'
      BY <1>1, <2>1, <2>2, <2>3, <2>4 DEF CursorInv
    <3>2. \A x \in Dead' : x = at'
      BY <1>1, <2>1, <2>2, <2>5 DEF CursorInv
    <3> QED
      BY <2>1, <2>2, <2>3, <3>1, <3>2 DEF CursorInv
  <2>9. TodoInv'
    <3>1. Bucket(bucket)' = Bucket(bucket)
      BY <2>1 DEF Bucket, Chain
    <3>2. at' = Null => todo' = {}
      BY <1>1, <1>3, <2>1 DEF TodoInv
    <3>3. ASSUME NEW x \in todo'
          PROVE  /\ bucket' = Index(number'[at'], size')
                 /\ \/ Index(number'[x], size') > bucket'
                    \/ Index(number'[x], size') = bucket' /\ Precedes(Bucket(bucket)', at', x)
      <4>1. x \in todo
        BY <1>3
      <4> QED
        BY <1>1, <2>1, <3>1, <4>1 DEF TodoInv
    <3> QED
      BY <3>2, <3>3 DEF TodoInv, Index
  <2> QED
    BY <2>6, <2>7, <2>8, <2>9 DEF IInv
<1>5. CASE foreach[i] # 1 /\ Unlink(i) /\ UNCHANGED <<foreach, at, bucket>>
  <2>1. foreach' = foreach /\ at' = at /\ bucket' = bucket
    BY <1>5
  <2>2. i # at
    <3>1. at # Null => (foreach[at] = 1 <=> key[at] # Null)
      BY <1>1 DEF CursorInv
    <3>2. i # Null
      BY <1>3, MyHashAssumption
    <3> QED
      BY <1>5, <3>1, <3>2
  <2>3. /\ StoreInv' /\ KeyInv' /\ FreeInv' /\ num' = Cardinality(used') /\ Dead' = Dead \ {i}
        /\ size' = size /\ used' = used \ {i}
        /\ \A x \in Cells \ {i} : number'[x] = number[x] /\ key'[x] = key[x]
        /\ \E d : /\ Chains(d, size, iter', next', prev', number', used')
                  /\ \A b \in 0 .. size - 1 : \A x, y \in used \ {i} :
                        Precedes(c[b], x, y) => Precedes(d[b], x, y)
    BY <1>1, <1>2, <1>5, UnlinkIs
  <2>4. PICK d : /\ Chains(d, size, iter', next', prev', number', used')
                 /\ \A b \in 0 .. size - 1 : \A x, y \in used \ {i} :
                       Precedes(c[b], x, y) => Precedes(d[b], x, y)
    BY <2>3
  <2>5. TableInv'
    BY <2>3, <2>4 DEF TableInv
  <2>6. LoopInv'
    BY <1>1, <1>3, <2>1, <2>3 DEF LoopInv, Pointers
  <2>7. CursorInv'
    <3>1. at # Null => at \in used' /\ at \in Cells \ {i} /\ key'[at] = key[at]
      BY <1>1, <2>2, <2>3 DEF CursorInv, StoreInv
    <3> QED
      BY <1>1, <2>1, <2>3, <3>1 DEF CursorInv
  <2>8. TodoInv'
    BY <1>2, <1>3, <2>1, <2>2, <2>3, <2>4, TodoWithout
  <2> QED
    BY <2>3, <2>5, <2>6, <2>7, <2>8 DEF IInv
<1> QED
  BY <1>4, <1>5 DEF DeleteItem
(* my_hash_foreach goes on when the table has the chains d: LoopInv,        *)
(* CursorInv and TodoInv hold where the loop comes to.                      *)
LEMMA GoesOn ==
    ASSUME StoreInv', NEW d, Chains(d, size, iter', next', prev', number', used'), size' = size,
           NEW L, L \subseteq used' \ Dead',
           NEW i, NEW b \in Int, b + 1 \in Nat, i # Null => i \in used' /\ b \in Nat,
           \A x \in L : i # Null => Index(number'[i], size) = b,
           From(d, size, number', i, b, L),
           Dead' = {}, NEW marks \in [Cells -> {0, 1}], \A x \in Cells : marks[x] = 0,
           Reach(i, b, iter', size, marks, L)
    PROVE  LoopInv' /\ CursorInv' /\ TodoInv'
<1>1. L \subseteq used'
  OBVIOUS
<1>2. /\ bucket' \in Nat /\ todo' \subseteq L /\ at' \notin todo'
      /\ at' = Null => todo' = {} /\ foreach' = marks
      /\ at' # Null => at' \in used' /\ foreach' = [marks EXCEPT ![at'] = 1]
      /\ \A x \in todo' :
            /\ bucket' = Index(number'[at'], size) /\ bucket' \in 0 .. size - 1
            /\ \/ Index(number'[x], size) > bucket'
               \/ Index(number'[x], size) = bucket' /\ Precedes(d[bucket'], at', x)
  BY <1>1, ReachIs
<1>3. used' \subseteq Cells /\ \A x \in used' : key'[x] # Null
  BY DEF StoreInv, Dead
<1>4. at' # Null => at' \in Cells
  BY <1>2, <1>3
<1>5. /\ foreach' \in [Cells -> {0, 1}]
      /\ \A x \in Cells : foreach'[x] = 1 => x = at'
      /\ at' # Null => foreach'[at'] = 1
  BY <1>2, <1>4
<1>6. LoopInv'
  BY <1>1, <1>2, <1>4, <1>5 DEF LoopInv, Pointers
<1>7. CursorInv'
  <2>1. at' # Null => at' \in used' /\ (foreach'[at'] = 1 <=> key'[at'] # Null)
    BY <1>2, <1>3, <1>5
  <2> QED
    BY <1>5, <2>1 DEF CursorInv
<1>8. TodoInv'
  <2>1. ASSUME NEW x \in todo'
        PROVE  /\ bucket' = Index(number'[at'], size')
               /\ \/ Index(number'[x], size') > bucket'
                  \/ Index(number'[x], size') = bucket' /\ Precedes(Bucket(bucket)', at', x)
    <3>1. /\ bucket' = Index(number'[at'], size) /\ bucket' \in 0 .. size - 1
          /\ \/ Index(number'[x], size) > bucket'
             \/ Index(number'[x], size) = bucket' /\ Precedes(d[bucket'], at', x)
      BY <1>2
    <3>2. Bucket(bucket)' = d[bucket']
      BY <3>1, BucketThen
    <3> QED
      BY <3>1, <3>2
  <2> QED
    BY <1>2, <2>1 DEF TodoInv, Index
<1> QED
  BY <1>6, <1>7, <1>8

(* my_hash_foreach begins. *)
LEMMA ForeachIs == ASSUME IInv, Foreach PROVE IInv'
<1>1. StoreInv /\ LoopInv /\ TableInv /\ KeyInv /\ FreeInv /\ CursorInv /\ TodoInv
  BY DEF IInv
<1>2. PICK c : Chains(c, size, iter, next, prev, number, used)
  BY <1>1 DEF TableInv
<1>3. /\ size # 0 /\ at = Null /\ Reach(Null, -1, iter, size, foreach, Elements)
      /\ num' = num /\ size' = size /\ iter' = iter /\ used' = used /\ next' = next /\ prev' = prev
      /\ key' = key /\ number' = number /\ value' = value
  BY DEF Foreach, table, content
<1>4. Elements = used
  BY <1>2, ItemsAre
<1>5. Dead' = Dead /\ Dead = {}
  <2>1. Dead' = Dead
    BY <1>3 DEF Dead
  <2>2. \A j \in Dead : j \in Cells /\ j = Null
    BY <1>1, <1>3 DEF Dead, CursorInv, StoreInv
  <2> QED
    BY <2>1, <2>2, MyHashAssumption
<1>6. foreach \in [Cells -> {0, 1}] /\ \A x \in Cells : foreach[x] = 0
  <2>1. \A x \in Cells : foreach[x] # 1 /\ foreach[x] \in {0, 1}
    BY <1>1, <1>3, MyHashAssumption DEF LoopInv, CursorInv
  <2> QED
    BY <1>1, <2>1 DEF LoopInv
<1>7. StoreInv' /\ TableInv' /\ KeyInv' /\ FreeInv'
  <2>1. StoreInv'
    BY <1>1, <1>3 DEF StoreInv, Pointers
  <2>2. TableInv'
    BY <1>1, <1>3 DEF TableInv
  <2>3. KeyInv'
    BY <1>1, <1>3, <1>5 DEF KeyInv, Hash
  <2>4. FreeInv'
    BY <1>1, <1>3 DEF FreeInv
  <2> QED
    BY <2>1, <2>2, <2>3, <2>4
<1>8. LoopInv' /\ CursorInv' /\ TodoInv'
  <2>1. From(c, size, number', Null, -1, used)
    <3>1. \A x \in used : Index(number[x], size) \in 0 .. size - 1
      BY <1>2, ItemIn
    <3>2. \A x \in used : Index(number[x], size) > -1
      BY <3>1
    <3> QED
      BY <1>3, <3>2 DEF From
  <2>2. Reach(Null, -1, iter', size, foreach, used)
    BY <1>3, <1>4
  <2>3. Chains(c, size, iter', next', prev', number', used')
    BY <1>2, <1>3
  <2>4. -1 \in Int /\ -1 + 1 \in Nat /\ used \subseteq used' \ Dead'
    BY <1>3, <1>5
  <2> QED
    BY <1>3, <1>5, <1>6, <1>7, <2>1, <2>2, <2>3, <2>4, GoesOn
<1> QED
  BY <1>7, <1>8 DEF IInv
(* The next item of a bucket is another of it. *)
LEMMA NextOther ==
    ASSUME NEW c, NEW n, NEW it, NEW nx, NEW pv, NEW nr, NEW U,
           Chains(c, n, it, nx, pv, nr, U), NEW i \in U, nx[i] # Null
    PROVE  nx[i] \in U /\ nx[i] # i /\ Index(nr[nx[i]], n) = Index(nr[i], n)
<1>1. PICK b \in 0 .. n - 1 : b = Index(nr[i], n) /\ \E p \in 1 .. Len(c[b]) : c[b][p] = i
  BY ItemIn
<1>2. PICK p \in 1 .. Len(c[b]) : c[b][p] = i
  BY <1>1
<1>3. /\ \A r, l \in 1 .. Len(c[b]) : c[b][r] = c[b][l] => r = l
      /\ nx[i] = IF p = Len(c[b]) THEN Null ELSE c[b][p + 1]
      /\ Len(c[b]) \in Nat
  BY <1>2, BucketIs
<1>4. p + 1 \in 1 .. Len(c[b]) /\ p + 1 # p /\ nx[i] = c[b][p + 1]
  BY <1>3
<1>5. \A r \in 1 .. Len(c[b]) : c[b][r] \in U /\ Index(nr[c[b][r]], n) = b
  BY DEF Chains
<1> QED
  BY <1>1, <1>2, <1>3, <1>4, <1>5

(* Behind the item the loop is at lie those still to come, also when this   *)
(* item itself leaves.                                                      *)
LEMMA TodoAfter ==
    ASSUME IInv, at # Null, NEW c, Chains(c, size, iter, next, prev, number, used), NEW d,
           \A b \in 0 .. size - 1 : \A x, y \in used \ {at} :
              Precedes(c[b], x, y) => Precedes(d[b], x, y),
           \A x \in Cells \ {at} : number'[x] = number[x]
    PROVE  /\ todo \subseteq used \ {at} /\ From(d, size, number', next[at], bucket, todo)
           /\ next[at] # Null => next[at] \in used \ {at}
           /\ \A x \in todo : next[at] # Null => Index(number'[next[at]], size) = bucket
<1>1. /\ todo \subseteq used /\ used \subseteq Cells /\ at \in used /\ bucket \in Nat
      /\ \A x \in todo :
            /\ bucket = Index(number[at], size)
            /\ \/ Index(number[x], size) > bucket
               \/ Index(number[x], size) = bucket /\ Precedes(Bucket(bucket), at, x)
  BY DEF IInv, StoreInv, LoopInv, CursorInv, TodoInv
<1>2. next[at] # Null => /\ next[at] \in used \ {at}
                         /\ Index(number[next[at]], size) = Index(number[at], size)
  BY <1>1, NextOther
<1>3. ASSUME NEW x \in todo
      PROVE  /\ x # at
             /\ \/ Index(number[x], size) > bucket
                \/ /\ next[at] # Null /\ Index(number[x], size) = bucket
                   /\ x = next[at] \/ Precedes(d[bucket], next[at], x)
  <2>1. bucket \in 0 .. size - 1
    BY <1>1, ItemIn
  <2>2. Bucket(bucket) = c[bucket]
    BY <2>1, BucketIs DEF Bucket
  <2>3. CASE Index(number[x], size) > bucket
    <3>1. bucket = Index(number[at], size)
      BY <1>1
    <3> QED
      BY <1>1, <2>3, <3>1
  <2>4. CASE Index(number[x], size) = bucket /\ Precedes(c[bucket], at, x)
    <3>1. x # at /\ next[at] # Null /\ (x = next[at] \/ Precedes(c[bucket], next[at], x))
      BY <2>1, <2>4, AfterIs
    <3>2. Precedes(c[bucket], next[at], x) => Precedes(d[bucket], next[at], x)
      BY <1>1, <1>2, <2>1, <3>1
    <3> QED
      BY <2>4, <3>1, <3>2
  <2> QED
    BY <1>1, <2>2, <2>3, <2>4
<1>4. \A x \in used \ {at} : number'[x] = number[x]
  BY <1>1
<1>5. From(d, size, number', next[at], bucket, todo)
  BY <1>1, <1>3, <1>4 DEF From
<1> QED
  BY <1>1, <1>2, <1>3, <1>4, <1>5

(* The function has returned 0, and the loop goes on. *)
LEMMA ContinueIs == ASSUME IInv, Continue PROVE IInv'
<1>1. StoreInv /\ LoopInv /\ TableInv /\ KeyInv /\ FreeInv /\ CursorInv /\ TodoInv
  BY DEF IInv
<1>2. PICK c : Chains(c, size, iter, next, prev, number, used)
  BY <1>1 DEF TableInv
<1>3. /\ at # Null /\ at \in used /\ at \in Cells /\ bucket \in Int /\ bucket + 1 \in Nat
      /\ bucket \in Nat
      /\ \A x \in Cells : foreach[x] = 1 => x = at
      /\ foreach \in [Cells -> {0, 1}] /\ Dead \subseteq {at} /\ used \subseteq Cells
  BY <1>1 DEF Continue, LoopInv, CursorInv, StoreInv
<1>4. CASE /\ foreach[at] = 0 /\ Unlink(at)
           /\ Reach(next[at], bucket, iter', size, foreach, todo)
  <2>1. /\ StoreInv' /\ KeyInv' /\ FreeInv' /\ num' = Cardinality(used') /\ Dead' = Dead \ {at}
        /\ size' = size /\ used' = used \ {at}
        /\ \A x \in Cells \ {at} : number'[x] = number[x] /\ key'[x] = key[x]
        /\ \E d : /\ Chains(d, size, iter', next', prev', number', used')
                  /\ \A b \in 0 .. size - 1 : \A x, y \in used \ {at} :
                        Precedes(c[b], x, y) => Precedes(d[b], x, y)
    BY <1>1, <1>2, <1>3, <1>4, UnlinkIs
  <2>2. PICK d : /\ Chains(d, size, iter', next', prev', number', used')
                 /\ \A b \in 0 .. size - 1 : \A x, y \in used \ {at} :
                       Precedes(c[b], x, y) => Precedes(d[b], x, y)
    BY <2>1
  <2>3. /\ todo \subseteq used \ {at} /\ From(d, size, number', next[at], bucket, todo)
        /\ next[at] # Null => next[at] \in used \ {at}
        /\ \A x \in todo : next[at] # Null => Index(number'[next[at]], size) = bucket
    BY <1>2, <1>3, <2>1, <2>2, TodoAfter
  <2>4. Dead' = {} /\ \A x \in Cells : foreach[x] = 0
    BY <1>3, <1>4, <2>1
  <2>5. todo \subseteq used' \ Dead' /\ (next[at] # Null => next[at] \in used' /\ bucket \in Nat)
    BY <1>3, <2>1, <2>3, <2>4
  <2>6. LoopInv' /\ CursorInv' /\ TodoInv'
    BY <1>3, <1>4, <2>1, <2>2, <2>3, <2>4, <2>5, GoesOn
  <2>7. TableInv'
    BY <2>1, <2>2 DEF TableInv
  <2> QED
    BY <2>1, <2>6, <2>7 DEF IInv
<1>5. CASE /\ foreach[at] = 1
           /\ Reach(next[at], bucket, iter, size, [foreach EXCEPT ![at] = 0], todo)
           /\ UNCHANGED <<table, content>>
  <2>1. /\ num' = num /\ size' = size /\ iter' = iter /\ used' = used /\ next' = next
        /\ prev' = prev /\ key' = key /\ number' = number /\ value' = value
    BY <1>5 DEF table, content
  <2>2. Dead' = Dead /\ Dead = {}
    <3>1. key[at] # Null
      BY <1>1, <1>3, <1>5 DEF CursorInv
    <3> QED
      BY <1>3, <2>1, <3>1 DEF Dead
  <2>3. StoreInv' /\ TableInv' /\ KeyInv' /\ FreeInv'
    <3>1. StoreInv'
      BY <1>1, <2>1 DEF StoreInv, Pointers
    <3>2. TableInv'
      BY <1>1, <2>1 DEF TableInv
    <3>3. KeyInv'
      BY <1>1, <2>1, <2>2 DEF KeyInv, Hash
    <3>4. FreeInv'
      BY <1>1, <2>1 DEF FreeInv
    <3> QED
      BY <3>1, <3>2, <3>3, <3>4
  <2>4. /\ todo \subseteq used \ {at} /\ From(c, size, number', next[at], bucket, todo)
        /\ next[at] # Null => next[at] \in used \ {at}
        /\ \A x \in todo : next[at] # Null => Index(number'[next[at]], size) = bucket
    BY <1>2, <1>3, <2>1, TodoAfter
  <2>5. PICK marks : marks = [foreach EXCEPT ![at] = 0]
    OBVIOUS
  <2>6. marks \in [Cells -> {0, 1}] /\ \A x \in Cells : marks[x] = 0
    BY <1>3, <2>5
  <2>7. Reach(next[at], bucket, iter', size, marks, todo)
    BY <1>5, <2>1, <2>5
  <2>8. Chains(c, size, iter', next', prev', number', used')
    BY <1>2, <2>1
  <2>9. todo \subseteq used' \ Dead' /\ (next[at] # Null => next[at] \in used' /\ bucket \in Nat)
    BY <1>3, <2>1, <2>2, <2>4
  <2>10. LoopInv' /\ CursorInv' /\ TodoInv'
    BY <1>3, <2>1, <2>2, <2>3, <2>4, <2>6, <2>7, <2>8, <2>9, GoesOn
  <2> QED
    BY <2>3, <2>10 DEF IInv
<1> QED
  BY <1>4, <1>5 DEF Continue

(* The loop ends. *)
LEMMA BreakIs == ASSUME IInv, Break PROVE IInv'
<1>1. StoreInv /\ LoopInv /\ TableInv /\ KeyInv /\ FreeInv /\ CursorInv /\ TodoInv
  BY DEF IInv
<1>2. PICK c : Chains(c, size, iter, next, prev, number, used)
  BY <1>1 DEF TableInv
<1>3. /\ at # Null /\ at \in used /\ at \in Cells
      /\ \A x \in Cells : foreach[x] = 1 => x = at
      /\ foreach \in [Cells -> {0, 1}] /\ Dead \subseteq {at} /\ used \subseteq Cells
      /\ at' = Null /\ bucket' = 0 /\ todo' = {} /\ Null \in Pointers
  BY <1>1 DEF Break, LoopInv, CursorInv, StoreInv, Pointers
<1>4. CASE foreach[at] = 0 /\ Unlink(at) /\ UNCHANGED foreach
  <2>1. /\ StoreInv' /\ KeyInv' /\ FreeInv' /\ num' = Cardinality(used') /\ Dead' = Dead \ {at}
        /\ size' = size
        /\ \E d : Chains(d, size, iter', next', prev', number', used')
    BY <1>1, <1>2, <1>3, <1>4, UnlinkIs
  <2>2. TableInv'
    BY <2>1 DEF TableInv
  <2>3. LoopInv' /\ TodoInv'
    BY <1>3, <1>4 DEF LoopInv, TodoInv, Pointers
  <2>4. CursorInv'
    BY <1>3, <1>4, <2>1 DEF CursorInv
  <2> QED
    BY <2>1, <2>2, <2>3, <2>4 DEF IInv
<1>5. CASE foreach[at] = 1 /\ foreach' = [foreach EXCEPT ![at] = 0] /\ UNCHANGED <<table, content>>
  <2>1. /\ num' = num /\ size' = size /\ iter' = iter /\ used' = used /\ next' = next
        /\ prev' = prev /\ key' = key /\ number' = number /\ value' = value
    BY <1>5 DEF table, content
  <2>2. Dead' = Dead /\ Dead = {}
    <3>1. key[at] # Null
      BY <1>1, <1>3, <1>5 DEF CursorInv
    <3> QED
      BY <1>3, <2>1, <3>1 DEF Dead
  <2>3. StoreInv' /\ TableInv' /\ KeyInv' /\ FreeInv'
    <3>1. StoreInv'
      BY <1>1, <2>1 DEF StoreInv, Pointers
    <3>2. TableInv'
      BY <1>1, <2>1 DEF TableInv
    <3>3. KeyInv'
      BY <1>1, <2>1, <2>2 DEF KeyInv, Hash
    <3>4. FreeInv'
      BY <1>1, <2>1 DEF FreeInv
    <3> QED
      BY <3>1, <3>2, <3>3, <3>4
  <2>4. foreach' \in [Cells -> {0, 1}] /\ \A x \in Cells : foreach'[x] = 0
    BY <1>3, <1>5
  <2>5. LoopInv' /\ TodoInv' /\ CursorInv'
    BY <1>3, <2>2, <2>4 DEF LoopInv, TodoInv, CursorInv, Pointers
  <2> QED
    BY <2>3, <2>5 DEF IInv
<1> QED
  BY <1>4, <1>5 DEF Break
(* my_hash_init *)
LEMMA HashInitIs == ASSUME IInv, NEW s \in Sizes, HashInit(s) PROVE IInv'
<1>1. StoreInv /\ LoopInv /\ TableInv /\ KeyInv /\ FreeInv /\ CursorInv /\ TodoInv
  BY DEF IInv
<1>2. /\ size = 0 /\ size' = IF s = 0 THEN SD_HASH_DEFAULT_SIZE ELSE s
      /\ iter' = [b \in 0 .. size' - 1 |-> Null] /\ num' = 0
      /\ used' = used /\ key' = key /\ number' = number /\ value' = value
      /\ next' = next /\ prev' = prev /\ foreach' = foreach
      /\ at' = at /\ bucket' = bucket /\ todo' = todo
  BY DEF HashInit, content, loop
<1>3. used = {}
  <2>1. PICK c : Chains(c, size, iter, next, prev, number, used)
    BY <1>1 DEF TableInv
  <2>2. \A i \in used : \E b \in 0 .. size - 1 : TRUE
    BY <2>1 DEF Chains
  <2> QED
    BY <1>2, <2>2
<1>4. size' \in Nat
  BY <1>2, MyHashAssumption
<1>5. at = Null /\ todo = {}
  BY <1>1, <1>3 DEF CursorInv, LoopInv
<1>6. TableInv'
  <2>1. PICK d : d = [b \in 0 .. size' - 1 |-> <<>>]
    OBVIOUS
  <2>2. d \in [0 .. size' - 1 -> Seq(Cells)] /\ \A b \in 0 .. size' - 1 : d[b] = <<>>
    BY <2>1
  <2>3. \A b \in 0 .. size' - 1 : Len(d[b]) = 0 /\ 1 .. Len(d[b]) = {} /\ iter'[b] = Null
    BY <1>2, <2>2
  <2>4. \A b \in 0 .. size' - 1 : ChainOf(d[b], iter'[b], next', prev')
    BY <2>3 DEF ChainOf, Linked, Follows, Distinct, LastOf
  <2>5. Chains(d, size', iter', next', prev', number', used')
    BY <1>2, <1>3, <1>4, <2>2, <2>3, <2>4 DEF Chains
  <2>6. Cardinality({}) = 0
    BY FS_EmptySet
  <2> QED
    BY <1>2, <1>3, <2>5, <2>6 DEF TableInv
<1>7. StoreInv'
  BY <1>1, <1>2, <1>4 DEF StoreInv, Pointers
<1>8. LoopInv' /\ FreeInv'
  BY <1>1, <1>2 DEF LoopInv, FreeInv, Pointers
<1>9. Dead' = {} /\ KeyInv'
  BY <1>2, <1>3 DEF Dead, KeyInv
<1>10. CursorInv' /\ TodoInv'
  BY <1>1, <1>2, <1>5, <1>9 DEF CursorInv, TodoInv
<1> QED
  BY <1>6, <1>7, <1>8, <1>9, <1>10 DEF IInv

(* my_hash_uninit *)
LEMMA UninitIs == ASSUME IInv, Uninit PROVE IInv'
<1>1. StoreInv /\ LoopInv /\ TableInv /\ KeyInv /\ FreeInv /\ CursorInv /\ TodoInv
  BY DEF IInv
<1>2. /\ at = Null /\ size' = 0 /\ num' = 0 /\ iter' = <<>> /\ used' = {}
      /\ key' = Scrub(key, Elements) /\ number' = Scrub(number, Elements)
      /\ value' = Scrub(value, Elements)
      /\ next' = Scrub(next, Elements) /\ prev' = Scrub(prev, Elements)
      /\ foreach' = foreach /\ at' = at /\ bucket' = bucket /\ todo' = todo
  BY DEF Uninit, loop
<1>3. Elements = used
  BY <1>1, ItemsAre DEF TableInv
<1>4. TableInv'
  <2>1. \A c : c \in [0 .. 0 - 1 -> Seq(Cells)] => Chains(c, 0, iter', next', prev', number', {})
    BY DEF Chains
  <2>2. [b \in 0 .. 0 - 1 |-> <<>>] \in [0 .. 0 - 1 -> Seq(Cells)]
    OBVIOUS
  <2>3. \E c : Chains(c, 0, iter', next', prev', number', {})
    BY <2>1, <2>2
  <2>4. Cardinality({}) = 0
    BY FS_EmptySet
  <2> QED
    BY <1>2, <2>3, <2>4 DEF TableInv
<1>5. StoreInv'
  <2>1. iter' \in [0 .. 0 - 1 -> Pointers]
    BY <1>2
  <2>2. /\ key' \in [Cells -> Keys \cup {Null}] /\ value' \in [Cells -> Values \cup {Null}]
        /\ next' \in [Cells -> Pointers] /\ prev' \in [Cells -> Pointers]
    BY <1>1, <1>2 DEF StoreInv, Scrub, Pointers
  <2>3. number' \in [Cells -> Nat \cup {Null}]
    BY <1>1, <1>2 DEF StoreInv, Scrub
  <2> QED
    BY <1>2, <2>1, <2>2, <2>3 DEF StoreInv, Pointers
<1>6. FreeInv'
  BY <1>1, <1>2, <1>3 DEF FreeInv, Scrub
<1>7. todo = {} /\ LoopInv'
  BY <1>1, <1>2 DEF LoopInv, TodoInv, Pointers
<1>8. Dead' = {} /\ KeyInv'
  BY <1>2 DEF Dead, KeyInv
<1>9. CursorInv' /\ TodoInv'
  BY <1>1, <1>2, <1>7, <1>8 DEF CursorInv, TodoInv
<1> QED
  BY <1>4, <1>5, <1>6, <1>7, <1>8, <1>9 DEF IInv

(* Nothing that the invariant speaks of changes. *)
LEMMA LeaveIs ==
    ASSUME IInv, UNCHANGED <<table, content, foreach, loop>>
    PROVE  IInv'
<1>1. /\ num' = num /\ size' = size /\ iter' = iter /\ used' = used /\ next' = next
      /\ prev' = prev /\ key' = key /\ number' = number /\ value' = value
      /\ foreach' = foreach /\ at' = at /\ bucket' = bucket /\ todo' = todo
  BY DEF table, content, loop
<1>2. Dead' = Dead /\ Bucket(bucket)' = Bucket(bucket)
  BY <1>1 DEF Dead, Bucket, Chain
<1>3. StoreInv' /\ LoopInv' /\ TableInv' /\ FreeInv'
  <2>1. StoreInv'
    BY <1>1 DEF IInv, StoreInv, Pointers
  <2>2. LoopInv'
    BY <1>1 DEF IInv, LoopInv, Pointers
  <2>3. TableInv'
    BY <1>1 DEF IInv, TableInv
  <2>4. FreeInv'
    BY <1>1 DEF IInv, FreeInv
  <2> QED
    BY <2>1, <2>2, <2>3, <2>4
<1>4. KeyInv'
  BY <1>1, <1>2 DEF IInv, KeyInv, Hash
<1>5. CursorInv'
  BY <1>1, <1>2 DEF IInv, CursorInv
<1>6. TodoInv'
  BY <1>1, <1>2 DEF IInv, TodoInv, Index
<1> QED
  BY <1>3, <1>4, <1>5, <1>6 DEF IInv

(* my_hash_add of a key that is there changes its value. *)
LEMMA ReplaceIs ==
    ASSUME IInv, NEW k \in Keys, NEW v \in Values, size # 0, Lookup(k) # Null,
           value' = [value EXCEPT ![Lookup(k)] = v],
           UNCHANGED <<table, key, number, foreach, loop>>
    PROVE  IInv'
<1>1. /\ num' = num /\ size' = size /\ iter' = iter /\ used' = used /\ next' = next
      /\ prev' = prev /\ key' = key /\ number' = number
      /\ foreach' = foreach /\ at' = at /\ bucket' = bucket /\ todo' = todo
  BY DEF table, loop
<1>2. Dead' = Dead /\ Bucket(bucket)' = Bucket(bucket)
  BY <1>1 DEF Dead, Bucket, Chain
<1>3. StoreInv' /\ LoopInv' /\ TableInv' /\ FreeInv'
  <2>1. StoreInv'
    BY <1>1 DEF IInv, StoreInv, Pointers
  <2>2. LoopInv'
    BY <1>1 DEF IInv, LoopInv, Pointers
  <2>3. TableInv'
    BY <1>1 DEF IInv, TableInv
  <2>4. FreeInv'
    BY <1>1 DEF IInv, FreeInv
  <2> QED
    BY <2>1, <2>2, <2>3, <2>4
<1>4. KeyInv'
  BY <1>1, <1>2 DEF IInv, KeyInv, Hash
<1>5. CursorInv'
  BY <1>1, <1>2 DEF IInv, CursorInv
<1>6. TodoInv'
  BY <1>1, <1>2 DEF IInv, TodoInv, Index
<1> QED
  BY <1>3, <1>4, <1>5, <1>6 DEF IInv

(* Every step. *)
LEMMA NextIInv == IInv /\ [Next]_vars => IInv'
<1> SUFFICES ASSUME IInv, [Next]_vars PROVE IInv'
  OBVIOUS
<1>1. PICK c : KeyInv /\ Chains(c, size, iter, next, prev, number, used)
  BY DEF IInv, TableInv
<1>2. ASSUME NEW k \in Keys, NEW v \in Values, size # 0, Add(k, v) PROVE IInv'
  <2>1. CASE /\ Lookup(k) # Null /\ value' = [value EXCEPT ![Lookup(k)] = v]
             /\ UNCHANGED <<table, key, number, foreach, loop>>
    BY <1>2, <2>1, ReplaceIs
  <2>2. CASE Lookup(k) = Null /\ \E i \in Cells, t \in Insertable : AddItem(k, v, i, t)
    <3>1. PICK i \in Cells, t \in Insertable : AddItem(k, v, i, t)
      BY <2>2
    <3>2. v \in Values \cup {Null}
      OBVIOUS
    <3> QED
      BY <1>2, <2>2, <3>1, <3>2, AddItemIs
  <2>3. CASE Refused
    BY <2>3, LeaveIs DEF Refused
  <2> QED
    BY <1>2, <2>1, <2>2, <2>3 DEF Add
<1>3. ASSUME NEW k \in Keys, size # 0, LookAdd(k) PROVE IInv'
  <2>1. CASE UNCHANGED <<table, content, foreach, loop>>
    BY <2>1, LeaveIs
  <2>2. CASE Lookup(k) = Null /\ \E i \in Cells, t \in Insertable : AddItem(k, Null, i, t)
    <3>1. PICK i \in Cells, t \in Insertable : AddItem(k, Null, i, t)
      BY <2>2
    <3>2. Null \in Values \cup {Null}
      OBVIOUS
    <3> QED
      BY <1>3, <2>2, <3>1, <3>2, AddItemIs
  <2>3. CASE Refused
    BY <2>3, LeaveIs DEF Refused
  <2> QED
    BY <1>3, <2>1, <2>2, <2>3 DEF LookAdd
<1>4. ASSUME NEW k \in Keys, size # 0, Delete(k) PROVE IInv'
  <2>1. CASE Lookup(k) # Null /\ DeleteItem(Lookup(k))
    <3>1. Lookup(k) \in used /\ key[Lookup(k)] = k
      BY <1>1, <1>4, <2>1, LookupIs
    <3>2. key[Lookup(k)] # Null
      BY <3>1, MyHashAssumption
    <3> QED
      BY <2>1, <3>1, <3>2, DeleteItemIs
  <2>2. CASE Refused
    BY <2>2, LeaveIs DEF Refused
  <2> QED
    BY <1>4, <2>1, <2>2 DEF Delete
<1>5. ASSUME NEW i \in used, IterDelete(i) PROVE IInv'
  BY <1>5, DeleteItemIs DEF IterDelete
<1>6. ASSUME NEW s \in Sizes, HashInit(s) PROVE IInv'
  BY <1>6, HashInitIs
<1>7. CASE Clear
  BY <1>7, LeaveIs DEF Clear
<1>8. CASE Uninit
  BY <1>8, UninitIs
<1>9. CASE Foreach
  BY <1>9, ForeachIs
<1>10. CASE Continue
  BY <1>10, ContinueIs
<1>11. CASE Break
  BY <1>11, BreakIs
<1>12. CASE UNCHANGED vars
  <2>1. UNCHANGED <<table, content, foreach, loop>>
    BY <1>12 DEF vars, table, content, loop
  <2> QED
    BY <2>1, LeaveIs
<1>13. CASE HashInitFails
  BY <1>13, LeaveIs DEF HashInitFails, Refused
<1> QED
  BY <1>2, <1>3, <1>4, <1>5, <1>6, <1>7, <1>8, <1>9, <1>10, <1>11, <1>12, <1>13 DEF Next

(* The invariant holds always: each bucket is a sequence that both chains   *)
(* follow, whatever is inserted, deleted or moved under a traversal.        *)
THEOREM HashInvariant == Spec => []IInv
BY InitIInv, NextIInv, PTL DEF Spec
-----------------------------------------------------------------------------
(* my_hash_begin, my_hash_next and my_hash_pre agree on one order of the    *)
(* items, which my_hash_next goes through completely.                       *)
THEOREM HashIteratorsAgree == Spec => []IteratorsAgree
<1>1. IInv => IteratorsAgree
  BY IteratorsAre DEF IInv, TableInv
<1> QED
  BY HashInvariant, <1>1, PTL

(* The item my_hash_foreach is at is allocated when the function returns.   *)
THEOREM HashCursorAlive == Spec => []CursorAlive
<1>1. IInv => CursorAlive
  BY DEF IInv, CursorInv, CursorAlive
<1> QED
  BY HashInvariant, <1>1, PTL

(* From one of its elements on, Chain finds those behind. *)
LEMMA ChainFrom ==
    ASSUME NEW s \in Seq(Cells), Distinct(s), NEW first, NEW link,
           Follows(s, first, link, Null), NEW a \in 1 .. Len(s)
    PROVE  \A r \in 1 .. Len(s) : r >= a => s[r] \in ToSet(Chain(s[a], link))
<1>1. PICK t \in Seq(Cells) : /\ Distinct(t) /\ Follows(t, s[a], link, Null)
                              /\ \A r \in 1 .. Len(s) : r >= a => \E k \in 1 .. Len(t) : t[k] = s[r]
  BY TailFollows
<1>2. Chain(s[a], link) = t
  BY <1>1, ChainIs
<1> QED
  BY <1>1, <1>2 DEF ToSet

(* What lies behind an item is among the items that follow from its link.   *)
LEMMA BehindIs ==
    ASSUME NEW c, Chains(c, size, iter, next, prev, number, used), NEW b \in 0 .. size - 1,
           NEW i, NEW x, Precedes(c[b], i, x)
    PROVE  x \in ToSet(Chain(next[i], next))
<1>1. PICK s \in Seq(Cells) : s = c[b]
  BY BucketIs
<1>2. PICK p, q \in 1 .. Len(s) : p < q /\ s[p] = i /\ s[q] = x
  BY <1>1 DEF Precedes
<1>3. /\ Len(s) \in Nat /\ Distinct(s) /\ Follows(s, iter[b], next, Null)
      /\ next[i] = IF p = Len(s) THEN Null ELSE s[p + 1]
  <2>1. \A r \in 1 .. Len(s) : next[s[r]] = IF r = Len(s) THEN Null ELSE s[r + 1]
    BY <1>1, BucketIs
  <2>2. Linked(s, iter[b], LastOf(s), next, prev, Null)
    BY <1>1 DEF Chains, ChainOf
  <2> QED
    BY <1>1, <1>2, <2>1, <2>2 DEF Linked
<1>4. p + 1 \in 1 .. Len(s) /\ next[i] = s[p + 1] /\ q >= p + 1
  BY <1>2, <1>3
<1>5. \A a \in 1 .. Len(s) : \A r \in 1 .. Len(s) : r >= a => s[r] \in ToSet(Chain(s[a], next))
  BY <1>3, ChainFrom
<1> QED
  BY <1>2, <1>4, <1>5

(* Unless a callback made the table larger, what was there when the         *)
(* traversal began and still is lies ahead of it: my_hash_foreach passes    *)
(* over nothing.                                                            *)
THEOREM HashNothingSkipped == Spec => []NothingSkipped
<1>1. ASSUME IInv PROVE NothingSkipped
  <2>1. PICK c : Chains(c, size, iter, next, prev, number, used)
    BY <1>1 DEF IInv, TableInv
  <2>2. todo \subseteq used /\ bucket \in Nat /\ size \in Nat /\ (at = Null => todo = {})
        /\ (at # Null => at \in used)
    BY <1>1 DEF IInv, StoreInv, LoopInv, CursorInv, TodoInv
  <2>3. ASSUME NEW x \in todo
        PROVE  x \in ToSet(Chain(next[at], next)) \cup
                     UNION {ToSet(Bucket(b)) : b \in bucket + 1 .. size - 1}
    <3>1. at \in used /\ bucket = Index(number[at], size)
      BY <1>1, <2>2 DEF IInv, TodoInv
    <3>2. bucket \in 0 .. size - 1
      BY <2>1, <3>1, ItemIn
    <3>3. Bucket(bucket) = c[bucket]
      BY <2>1, <3>2, BucketIs DEF Bucket
    <3>4. CASE Index(number[x], size) > bucket
      <4>1. PICK b \in 0 .. size - 1 : /\ b = Index(number[x], size)
                                       /\ \E p \in 1 .. Len(c[b]) : c[b][p] = x
        BY <2>1, <2>2, ItemIn
      <4>2. Bucket(b) = c[b] /\ c[b] \in Seq(Cells)
        BY <2>1, BucketIs DEF Bucket
      <4>3. x \in ToSet(Bucket(b))
        BY <4>1, <4>2 DEF ToSet
      <4>4. b \in bucket + 1 .. size - 1
        BY <2>2, <3>4, <4>1
      <4> QED
        BY <4>3, <4>4
    <3>5. CASE Precedes(Bucket(bucket), at, x)
      <4>1. PICK b \in 0 .. size - 1 : b = bucket
        BY <3>2
      <4>2. Precedes(c[b], at, x)
        BY <3>3, <3>5, <4>1
      <4>3. x \in ToSet(Chain(next[at], next))
        BY <2>1, <4>2, BehindIs
      <4> QED
        BY <4>3
    <3> QED
      BY <1>1, <3>4, <3>5 DEF IInv, TodoInv
  <2> QED
    BY <2>2, <2>3 DEF NothingSkipped
<1> QED
  BY HashInvariant, <1>1, PTL

(* Every item that is allocated is once in the chain of its bucket, linked  *)
(* both ways, and found under its key; num counts them; and only the item   *)
(* a traversal is at is marked or waits for its deletion.                   *)
THEOREM HashWellLinked == Spec => []WellLinked
<1>1. ASSUME IInv PROVE WellLinked
  <2>1. PICK c : Chains(c, size, iter, next, prev, number, used)
    BY <1>1 DEF IInv, TableInv
  <2>2. TypeOK
    BY <1>1 DEF IInv, StoreInv, LoopInv, TypeOK
  <2>3. used = Elements /\ num = Len(Items) /\ num = Cardinality(used)
    BY <1>1, <2>1, ItemsAre DEF IInv, TableInv
  <2>4. ASSUME NEW b \in DOMAIN iter, NEW p \in DOMAIN Bucket(b)
        PROVE  /\ Index(number[Bucket(b)[p]], size) = b
               /\ prev[Bucket(b)[p]] = IF p = 1 THEN Null ELSE Bucket(b)[p - 1]
    <3>1. b \in 0 .. size - 1
      BY <2>2 DEF TypeOK
    <3>2. Bucket(b) = c[b] /\ c[b] \in Seq(Cells)
      BY <2>1, <3>1, BucketIs DEF Bucket
    <3>3. p \in 1 .. Len(c[b])
      BY <3>2
    <3>4. Index(number[c[b][p]], size) = b
      BY <2>1, <3>1, <3>3 DEF Chains
    <3>5. prev[c[b][p]] = IF p = 1 THEN Null ELSE c[b][p - 1]
      BY <2>1, <3>1, <3>3, BucketIs
    <3> QED
      BY <3>2, <3>4, <3>5
  <2>5. \A i \in used : foreach[i] = 1 \/ key[i] = Null => i = at
    BY <1>1 DEF IInv, CursorInv, StoreInv, Dead
  <2>6. ASSUME NEW i \in used \ Dead PROVE Lookup(key[i]) = i
    <3>1. key[i] \in Keys
      BY <1>1 DEF IInv, StoreInv, Dead
    <3>2. size # 0
      <4>1. \E b \in 0 .. size - 1 : TRUE
        BY <2>1, ItemIn
      <4> QED
        BY <4>1, <2>2 DEF TypeOK
    <3> QED
      BY <1>1, <2>1, <3>1, <3>2, LookupIs DEF IInv
  <2> QED
    BY <2>2, <2>3, <2>4, <2>5, <2>6 DEF WellLinked
<1> QED
  BY HashInvariant, <1>1, PTL
-----------------------------------------------------------------------------
(* The table as a map, for the allocated items u with the keys ky and the   *)
(* values va.                                                               *)
Live(u, ky) == {i \in u : ky[i] # Null}

MapOf(u, ky, va) == [k \in {ky[i] : i \in Live(u, ky)} |-> va[CHOOSE i \in u : ky[i] = k]]

OnePerKey(u, ky) == \A i, j \in u : ky[i] # Null /\ ky[j] = ky[i] => j = i

(* f holds the value of every key. *)
Holds(f, u, ky, va) == /\ f = [k \in DOMAIN f |-> f[k]]
                       /\ DOMAIN f = {ky[i] : i \in Live(u, ky)}
                       /\ \A i \in Live(u, ky) : f[ky[i]] = va[i]

(* Map is this. *)
LEMMA MapIs == Map = MapOf(used, key, value) /\ Map' = MapOf(used', key', value')
<1>1. used \ Dead = Live(used, key)
  BY DEF Dead, Live
<1>2. used' \ Dead' = Live(used', key')
  BY DEF Dead, Live
<1> QED
  BY <1>1, <1>2 DEF Map, MapOf

(* It holds the values of the keys, and nothing else does.                  *)
LEMMA MapHolds ==
    ASSUME NEW u, NEW ky, NEW va, OnePerKey(u, ky)
    PROVE  /\ Holds(MapOf(u, ky, va), u, ky, va)
           /\ \A f : Holds(f, u, ky, va) => MapOf(u, ky, va) = f
<1> DEFINE D == {ky[i] : i \in Live(u, ky)}
           m == MapOf(u, ky, va)
<1>1. m = [k \in D |-> va[CHOOSE i \in u : ky[i] = k]]
  BY DEF MapOf
<1>2. ASSUME NEW i \in Live(u, ky) PROVE m[ky[i]] = va[i]
  <2>1. i \in u /\ ky[i] # Null /\ ky[i] \in D
    BY DEF Live
  <2>2. PICK j : j = CHOOSE x \in u : ky[x] = ky[i]
    OBVIOUS
  <2>3. j \in u /\ ky[j] = ky[i]
    BY <2>1, <2>2
  <2>4. j = i
    BY <2>1, <2>3 DEF OnePerKey
  <2> QED
    BY <1>1, <2>1, <2>2, <2>4
<1>3. DOMAIN m = D /\ m = [k \in D |-> m[k]]
  BY <1>1
<1> HIDE DEF m
<1>4. ASSUME NEW f, Holds(f, u, ky, va) PROVE m = f
  <2>1. DOMAIN f = D /\ f = [k \in D |-> f[k]]
    BY <1>4 DEF Holds
  <2>2. \A k \in D : m[k] = f[k]
    BY <1>2, <1>4 DEF Holds
  <2>3. [k \in D |-> m[k]] = [k \in D |-> f[k]]
    BY <2>2
  <2> QED
    BY <1>3, <2>1, <2>3
<1> QED
  BY <1>2, <1>3, <1>4 DEF Holds, m
(* On the items L nothing is different. *)
Alike(L, ky, va, ky2, va2) == \A j \in L : ky2[j] = ky[j] /\ va2[j] = va[j]

(* A map that holds the values still does when no item with a key changed, ... *)
LEMMA SameHolds ==
    ASSUME NEW m, NEW u, NEW ky, NEW va, Holds(m, u, ky, va), NEW u2, NEW ky2, NEW va2,
           Live(u2, ky2) = Live(u, ky), Alike(Live(u, ky), ky, va, ky2, va2)
    PROVE  Holds(m, u2, ky2, va2)
<1>1. {ky2[i] : i \in Live(u, ky)} = {ky[i] : i \in Live(u, ky)}
  BY DEF Alike
<1> QED
  BY <1>1 DEF Holds, Alike

(* ... with another value when one item got the key or the value, ... *)
WithOf(m, k, v) == [x \in DOMAIN m \cup {k} |-> IF x = k THEN v ELSE m[x]]

LEMMA WithHolds ==
    ASSUME NEW m, NEW u, NEW ky, NEW va, Holds(m, u, ky, va), NEW u2, NEW ky2, NEW va2,
           NEW i, NEW k, NEW v, ky2[i] = k, va2[i] = v, OnePerKey(u2, ky2),
           Live(u2, ky2) = Live(u, ky) \cup {i}, Alike(Live(u, ky) \ {i}, ky, va, ky2, va2),
           i \in Live(u, ky) => ky[i] = k
    PROVE  Holds(WithOf(m, k, v), u2, ky2, va2)
<1> DEFINE f == WithOf(m, k, v)
           L == Live(u, ky)
<1>1. /\ f = [x \in DOMAIN f |-> f[x]] /\ DOMAIN f = DOMAIN m \cup {k}
      /\ f[k] = v /\ \A x \in DOMAIN m : x # k => f[x] = m[x]
  BY DEF WithOf
<1> HIDE DEF f
<1>2. DOMAIN m = {ky[j] : j \in L} /\ \A j \in L : m[ky[j]] = va[j]
  BY DEF Holds
<1>3. \A j \in L \ {i} : ky2[j] = ky[j] /\ va2[j] = va[j]
  BY DEF Alike
<1>4. DOMAIN f = {ky2[j] : j \in L \cup {i}}
  <2>1. {ky[j] : j \in L} \cup {k} = {ky2[j] : j \in L \cup {i}}
    BY <1>3
  <2> QED
    BY <1>1, <1>2, <2>1
<1>5. ASSUME NEW j \in L \cup {i} PROVE f[ky2[j]] = va2[j]
  <2>1. CASE j = i
    BY <1>1, <2>1
  <2>2. CASE j # i
    <3>1. j \in u2 /\ i \in u2 /\ ky2[i] # Null
      BY <1>5 DEF Live
    <3>2. ky2[j] # k
      BY <2>2, <3>1 DEF OnePerKey
    <3>3. j \in L /\ ky2[j] = ky[j] /\ va2[j] = va[j]
      BY <1>3, <1>5, <2>2
    <3> QED
      BY <1>1, <1>2, <3>2, <3>3
  <2> QED
    BY <2>1, <2>2
<1> QED
  BY <1>1, <1>4, <1>5 DEF Holds, f

(* ... and without a key when its item left. *)
LEMMA OutHolds ==
    ASSUME NEW m, NEW u, NEW ky, NEW va, Holds(m, u, ky, va), OnePerKey(u, ky),
           NEW i \in Live(u, ky), NEW u2, NEW ky2, NEW va2,
           Live(u2, ky2) = Live(u, ky) \ {i}, Alike(Live(u, ky) \ {i}, ky, va, ky2, va2)
    PROVE  Holds(Restrict(m, DOMAIN m \ {ky[i]}), u2, ky2, va2)
<1> DEFINE f == Restrict(m, DOMAIN m \ {ky[i]})
           L == Live(u, ky)
<1>1. /\ f = [x \in DOMAIN f |-> f[x]] /\ DOMAIN f = DOMAIN m \ {ky[i]}
      /\ \A x \in DOMAIN m \ {ky[i]} : f[x] = m[x]
  BY DEF Restrict
<1> HIDE DEF f
<1>2. DOMAIN m = {ky[j] : j \in L} /\ \A j \in L : m[ky[j]] = va[j]
  BY DEF Holds
<1>3. \A j \in L \ {i} : ky2[j] = ky[j] /\ va2[j] = va[j]
  BY DEF Alike
<1>4. \A j \in L \ {i} : ky[j] # ky[i]
  BY DEF OnePerKey, Live
<1>5. DOMAIN f = {ky2[j] : j \in L \ {i}}
  <2>1. {ky[j] : j \in L} \ {ky[i]} = {ky[j] : j \in L \ {i}}
    BY <1>4
  <2>2. {ky[j] : j \in L \ {i}} = {ky2[j] : j \in L \ {i}}
    BY <1>3
  <2> QED
    BY <1>1, <1>2, <2>1, <2>2
<1>6. \A j \in L \ {i} : f[ky2[j]] = va2[j]
  BY <1>1, <1>2, <1>3, <1>4
<1> QED
  BY <1>1, <1>5, <1>6 DEF Holds, f

(* The map is what holds the values of the keys, before a step and after.   *)
LEMMA MapSteps ==
    ASSUME KeyInv, KeyInv'
    PROVE  /\ OnePerKey(used, key) /\ OnePerKey(used', key')
           /\ Holds(Map, used, key, value)
           /\ \A f : Holds(f, used', key', value') => Map' = f
<1>1. OnePerKey(used, key)
  BY DEF KeyInv, OnePerKey, Dead
<1>2. OnePerKey(used', key')
  BY DEF KeyInv, OnePerKey, Dead
<1> QED
  BY <1>1, <1>2, MapHolds, MapIs
(* An item that is new gives its key the value; it was not there. *)
LEMMA AddItemMap ==
    ASSUME IInv, IInv', size # 0, NEW k \in Keys, NEW v, NEW i \in Cells, NEW t,
           AddItem(k, v, i, t), Lookup(k) = Null
    PROVE  Map' = WithOf(Map, k, v) /\ k \notin DOMAIN Map
<1>1. PICK c : KeyInv /\ KeyInv' /\ StoreInv /\ Chains(c, size, iter, next, prev, number, used)
  BY DEF IInv, TableInv
<1>2. /\ i \notin used /\ used' = used \cup {i}
      /\ key' = [key EXCEPT ![i] = k] /\ value' = [value EXCEPT ![i] = v]
  BY DEF AddItem
<1>3. /\ key'[i] = k /\ value'[i] = v /\ k # Null
      /\ \A j \in used : key'[j] = key[j] /\ value'[j] = value[j]
  BY <1>1, <1>2, MyHashAssumption DEF StoreInv
<1>4. Live(used', key') = Live(used, key) \cup {i} /\ i \notin Live(used, key)
  BY <1>2, <1>3 DEF Live
<1>5. Alike(Live(used, key) \ {i}, key, value, key', value')
  BY <1>3 DEF Alike, Live
<1>6. Holds(Map, used, key, value) /\ OnePerKey(used', key')
      /\ \A f : Holds(f, used', key', value') => Map' = f
  BY <1>1, MapSteps
<1>7. Holds(WithOf(Map, k, v), used', key', value')
  BY <1>3, <1>4, <1>5, <1>6, WithHolds
<1>8. k \notin DOMAIN Map
  <2>1. \A j \in used : key[j] # k
    BY <1>1, MyHashAssumption, LookupIs DEF StoreInv
  <2> QED
    BY <1>6, <2>1 DEF Holds, Live
<1> QED
  BY <1>6, <1>7, <1>8

(* A value takes the place of another. *)
LEMMA ReplaceMap ==
    ASSUME IInv, IInv', NEW k \in Keys, NEW v, NEW i \in used, key[i] = k,
           value' = [value EXCEPT ![i] = v], used' = used, key' = key
    PROVE  Map' = WithOf(Map, k, v)
<1>1. KeyInv /\ KeyInv' /\ StoreInv
  BY DEF IInv
<1>2. /\ key'[i] = k /\ value'[i] = v /\ k # Null
      /\ \A j \in used \ {i} : key'[j] = key[j] /\ value'[j] = value[j]
  BY <1>1, MyHashAssumption DEF StoreInv
<1>3. Live(used', key') = Live(used, key) \cup {i} /\ (i \in Live(used, key) => key[i] = k)
  BY <1>2 DEF Live
<1>4. Alike(Live(used, key) \ {i}, key, value, key', value')
  BY <1>2 DEF Alike, Live
<1>5. Holds(Map, used, key, value) /\ OnePerKey(used', key')
      /\ \A f : Holds(f, used', key', value') => Map' = f
  BY <1>1, MapSteps
<1>6. Holds(WithOf(Map, k, v), used', key', value')
  <2>1. PICK u2, ky2, va2 : u2 = used' /\ ky2 = key' /\ va2 = value'
    OBVIOUS
  <2>2. /\ ky2[i] = k /\ va2[i] = v /\ OnePerKey(u2, ky2)
        /\ Live(u2, ky2) = Live(used, key) \cup {i} /\ (i \in Live(used, key) => key[i] = k)
        /\ Alike(Live(used, key) \ {i}, key, value, ky2, va2)
    BY <1>2, <1>3, <1>4, <1>5, <2>1
  <2>3. Holds(WithOf(Map, k, v), u2, ky2, va2)
    BY <1>5, <2>2, WithHolds
  <2> QED
    BY <2>1, <2>3
<1> QED
  BY <1>5, <1>6

(* A deletion takes the key away at once, also when it is put off. *)
LEMMA DeleteItemMap ==
    ASSUME IInv, IInv', NEW i \in used, key[i] # Null, DeleteItem(i)
    PROVE  /\ Map' = Restrict(Map, DOMAIN Map \ {key[i]})
           /\ key[i] \in DOMAIN Map /\ key[i] \in Keys
<1>1. KeyInv /\ KeyInv' /\ StoreInv
  BY DEF IInv
<1>2. /\ used' = used \/ used' = used \ {i}
      /\ key' = [key EXCEPT ![i] = Null] /\ value' = [value EXCEPT ![i] = Null]
  BY DEF DeleteItem, Bury, Unlink, table
<1>3. /\ key'[i] = Null /\ key[i] \in Keys
      /\ \A j \in used \ {i} : key'[j] = key[j] /\ value'[j] = value[j]
  BY <1>1, <1>2 DEF StoreInv
<1>4. Live(used', key') = Live(used, key) \ {i} /\ i \in Live(used, key)
  BY <1>2, <1>3 DEF Live
<1>5. Alike(Live(used, key) \ {i}, key, value, key', value')
  BY <1>3 DEF Alike, Live
<1>6. Holds(Map, used, key, value) /\ OnePerKey(used, key)
      /\ \A f : Holds(f, used', key', value') => Map' = f
  BY <1>1, MapSteps
<1>7. Holds(Restrict(Map, DOMAIN Map \ {key[i]}), used', key', value')
  BY <1>4, <1>5, <1>6, OutHolds
<1>8. key[i] \in DOMAIN Map
  BY <1>4, <1>6 DEF Holds
<1> QED
  BY <1>3, <1>6, <1>7, <1>8

(* The map stays when no item comes, or changes, and none but a dead one    *)
(* leaves.                                                                  *)
LEMMA StillMap ==
    ASSUME IInv, IInv',
           \/ UNCHANGED <<used, key, value>>
           \/ \E i \in Dead : Unlink(i)
    PROVE  Map' = Map
<1>1. KeyInv /\ KeyInv' /\ StoreInv
  BY DEF IInv
<1>2. Live(used', key') = Live(used, key) /\ Alike(Live(used, key), key, value, key', value')
  <2>1. CASE UNCHANGED <<used, key, value>>
    BY <2>1 DEF Live, Alike
  <2>2. CASE \E i \in Dead : Unlink(i)
    <3>1. PICK i \in Dead : Unlink(i)
      BY <2>2
    <3>2. /\ i \in used /\ key[i] = Null /\ used' = used \ {i}
          /\ key' = [key EXCEPT ![i] = Null] /\ value' = [value EXCEPT ![i] = Null]
      BY <3>1 DEF Unlink, Dead
    <3>3. \A j \in used \ {i} : key'[j] = key[j] /\ value'[j] = value[j]
      BY <1>1, <3>2 DEF StoreInv
    <3> QED
      BY <3>2, <3>3 DEF Live, Alike
  <2> QED
    BY <2>1, <2>2
<1>3. Holds(Map, used, key, value) /\ \A f : Holds(f, used', key', value') => Map' = f
  BY <1>1, MapSteps
<1>4. Holds(Map, used', key', value')
  BY <1>2, <1>3, SameHolds
<1> QED
  BY <1>3, <1>4

(* Without items the map is empty. *)
LEMMA EmptyMap == (used = {} => Map = <<>>) /\ (used' = {} => Map' = <<>>)
BY MapIs DEF MapOf, Live

(* The table does what the abstract map promises. *)
THEOREM HashImplementsKeyValue == Spec => ImplementsKeyValue
<1>1. Init => Abstract!KeyValueStart
  BY EmptyMap DEF Init, Abstract!KeyValueStart
<1>2. ASSUME IInv, IInv', [Next]_vars PROVE [Abstract!KeyValueNext]_<<Map, did>>
  <2>1. PICK c : KeyInv /\ Chains(c, size, iter, next, prev, number, used)
    BY <1>2 DEF IInv, TableInv
  <2>2. \A k, v : Abstract!With(k, v) = WithOf(Map, k, v)
    BY DEF Abstract!With, WithOf
  <2>3. ASSUME NEW k \in Keys, NEW v \in Values, size # 0, Add(k, v)
        PROVE  Abstract!KeyValueNext
    <3>1. CASE Refused
      BY <1>2, <3>1, StillMap DEF Refused, content, table, Abstract!KeyValueNext, Abstract!Leave
    <3>2. CASE ~Refused
      <4>1. did' = <<"add", k>>
        BY <2>3, <3>2 DEF Add
      <4>2. Map' = WithOf(Map, k, v)
        <5>1. CASE Lookup(k) = Null
          BY <1>2, <2>3, <3>2, <5>1, AddItemMap DEF Add
        <5>2. CASE Lookup(k) # Null
          <6>1. Lookup(k) \in used /\ key[Lookup(k)] = k
            BY <2>1, <2>3, <5>2, LookupIs
          <6>2. value' = [value EXCEPT ![Lookup(k)] = v] /\ used' = used /\ key' = key
            BY <2>3, <5>2 DEF Add, table
          <6> QED
            BY <1>2, <6>1, <6>2, ReplaceMap
        <5> QED
          BY <5>1, <5>2
      <4>3. Abstract!Add(k, v)
        BY <2>2, <4>1, <4>2 DEF Abstract!Add
      <4> QED
        BY <4>3 DEF Abstract!KeyValueNext
    <3> QED
      BY <3>1, <3>2
  <2>4. ASSUME NEW k \in Keys, size # 0, LookAdd(k) PROVE Abstract!KeyValueNext
    <3>1. CASE Refused
      BY <1>2, <3>1, StillMap DEF Refused, content, table, Abstract!KeyValueNext, Abstract!Leave
    <3>2. CASE ~Refused
      <4>1. did' = <<"lookadd", k>>
        BY <2>4, <3>2 DEF LookAdd
      <4>2. Map' = IF k \in DOMAIN Map THEN Map ELSE WithOf(Map, k, Null)
        <5>1. CASE Lookup(k) = Null
          BY <1>2, <2>4, <3>2, <5>1, AddItemMap DEF LookAdd
        <5>2. CASE Lookup(k) # Null
          <6>1. Lookup(k) \in used /\ key[Lookup(k)] = k /\ k # Null
            BY <2>1, <2>4, <5>2, LookupIs, MyHashAssumption
          <6>2. k \in DOMAIN Map
            BY <6>1, MapIs DEF MapOf, Live
          <6>3. Map' = Map
            BY <1>2, <2>4, <5>2, StillMap DEF LookAdd, content, table
          <6> QED
            BY <6>2, <6>3
        <5> QED
          BY <5>1, <5>2
      <4>3. Abstract!LookAdd(k)
        BY <2>2, <4>1, <4>2 DEF Abstract!LookAdd
      <4> QED
        BY <4>3 DEF Abstract!KeyValueNext
    <3> QED
      BY <3>1, <3>2
  <2>5. ASSUME NEW i \in used, key[i] # Null, DeleteItem(i), did' = <<"delete", key[i]>>
        PROVE  Abstract!KeyValueNext
    <3>1. Abstract!Delete(key[i]) /\ key[i] \in Keys
      BY <1>2, <2>5, DeleteItemMap DEF Abstract!Delete, Abstract!Restrict, Restrict
    <3> QED
      BY <3>1 DEF Abstract!KeyValueNext
  <2>6. ASSUME NEW k \in Keys, size # 0, Delete(k) PROVE Abstract!KeyValueNext
    <3>1. CASE Refused
      BY <1>2, <3>1, StillMap DEF Refused, content, table, Abstract!KeyValueNext, Abstract!Leave
    <3>2. CASE Lookup(k) # Null /\ DeleteItem(Lookup(k)) /\ did' = <<"delete", k>>
      <4>1. Lookup(k) \in used /\ key[Lookup(k)] = k /\ k # Null
        BY <2>1, <2>6, <3>2, LookupIs, MyHashAssumption
      <4> QED
        BY <2>5, <3>2, <4>1
    <3> QED
      BY <2>6, <3>1, <3>2 DEF Delete
  <2>7. ASSUME NEW s \in Sizes, HashInit(s) PROVE Abstract!KeyValueNext
    <3>1. used' = {} /\ did' = <<"init">>
      <4>1. size = 0 /\ used' = used /\ did' = <<"init">>
        BY <2>7 DEF HashInit
      <4>2. used = {}
        BY <2>1, <4>1, ItemIn
      <4> QED
        BY <4>1, <4>2
    <3> QED
      BY <3>1, EmptyMap DEF Abstract!KeyValueNext, Abstract!StartAgain
  <2>8. CASE Clear
    BY <1>2, <2>8, StillMap DEF Clear, content, table, Abstract!KeyValueNext, Abstract!Leave
  <2>9. CASE Uninit
    <3>1. used' = {} /\ did' = <<"uninit">>
      BY <2>9 DEF Uninit
    <3> QED
      BY <3>1, EmptyMap DEF Abstract!KeyValueNext, Abstract!StartAgain
  <2>10. CASE Foreach
    BY <1>2, <2>10, StillMap DEF Foreach, content, table, Abstract!KeyValueNext, Abstract!Leave
  <2>11. CASE Continue \/ Break
    <3>1. UNCHANGED <<used, key, value>> \/ \E i \in Dead : Unlink(i)
      <4>1. at # Null /\ foreach[at] # 1 => at \in Dead
        BY <1>2 DEF IInv, CursorInv, Dead
      <4>2. at # Null /\ \/ foreach[at] = 0 /\ Unlink(at)
                         \/ UNCHANGED <<used, key, value>>
        BY <2>11 DEF Continue, Break, content, table
      <4> QED
        BY <4>1, <4>2
    <3>2. did' = <<"foreach">>
      BY <2>11 DEF Continue, Break
    <3> QED
      BY <1>2, <3>1, <3>2, StillMap DEF Abstract!KeyValueNext, Abstract!Leave
  <2>12. CASE UNCHANGED vars
    BY <1>2, <2>12, StillMap DEF vars
  <2>13. CASE HashInitFails
    <3>1. did' = <<"refused">> /\ UNCHANGED <<used, key, value>>
      BY <2>13 DEF HashInitFails, Refused, table, content
    <3> QED
      BY <1>2, <3>1, StillMap DEF Abstract!KeyValueNext, Abstract!Leave
  <2> QED
    BY <1>2, <2>3, <2>4, <2>5, <2>6, <2>7, <2>8, <2>9, <2>10, <2>11, <2>12, <2>13
    DEF Next, IterDelete
<1> QED
  BY HashInvariant, <1>1, <1>2, PTL DEF Spec, ImplementsKeyValue, Abstract!KeyValueSpec
=============================================================================

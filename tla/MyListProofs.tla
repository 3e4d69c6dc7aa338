---------------------------- MODULE MyListProofs ----------------------------
(***************************************************************************)
(* my_list for every memory and every data, with one traversal at a time:  *)
(* the structure stays a doubly linked list, a traversal neither stands on *)
(* freed memory nor passes over an element, and nothing leaves the list    *)
(* unasked.  (With a second traversal inside a callback of the first TLC   *)
(* finds a counterexample to each of these; run MyListNested shows one.)   *)
(*                                                                         *)
(* The inductive invariant speaks of the sequence of items rather than of  *)
(* links; the lemmas of ProofLemmas say what linking in and out does to    *)
(* it, and WalkAlong that Chain finds it.                                  *)
(***************************************************************************)
EXTENDS MyList, ProofLemmas

-----------------------------------------------------------------------------
(* The sequences that links lead through. *)

(* Chain finds a sequence whose elements follow each other. *)
LEMMA ChainIs ==
    ASSUME NEW s \in Seq(Cells), Distinct(s), NEW first, NEW link,
           Follows(s, first, link, Null)
    PROVE  Chain(first, link) = s
<1>1. Chain(first, link) = Along(Cardinality(Cells), first, link, Null)
  BY DEF Chain, Along, Walk, WalkStep
<1>2. IsFiniteSet(Cells) /\ Null \notin Cells
  BY MyListAssumption
<1> QED
  BY <1>1, <1>2, AlongIs

(* From one of its elements on it finds those behind. *)
LEMMA ChainFrom ==
    ASSUME NEW s \in Seq(Cells), Distinct(s), NEW first, NEW link,
           Follows(s, first, link, Null), NEW q \in 1 .. Len(s)
    PROVE  \A r \in 1 .. Len(s) : r > q => s[r] \in ToSet(Chain(s[q], link)) \ {s[q]}
<1>1. PICK t \in Seq(Cells) : /\ Distinct(t) /\ Follows(t, s[q], link, Null)
                              /\ \A r \in 1 .. Len(s) : r >= q => \E k \in 1 .. Len(t) : t[k] = s[r]
  BY TailFollows
<1>2. Chain(s[q], link) = t
  BY <1>1, ChainIs
<1>3. ASSUME NEW r \in 1 .. Len(s), r > q PROVE s[r] \in ToSet(t) \ {s[q]}
  <2>1. PICK k \in 1 .. Len(t) : t[k] = s[r]
    BY <1>1, <1>3
  <2>2. s[r] # s[q]
    BY <1>3 DEF Distinct
  <2> QED
    BY <2>1, <2>2 DEF ToSet
<1> QED
  BY <1>2, <1>3

(* A list, seen from its other end. *)
LEMMA FollowsBack ==
    ASSUME NEW s \in Seq(Cells), NEW f, NEW l, NEW n, NEW p, Linked(s, f, l, n, p, Null)
    PROVE  /\ Reverse(s) \in Seq(Cells) /\ Distinct(Reverse(s))
           /\ Follows(Reverse(s), l, p, Null)
           /\ Reverse(Reverse(s)) = s
<1> DEFINE r == Reverse(s)
<1>1. Len(s) \in Nat /\ \A k \in 1 .. Len(s) : s[k] \in Cells
  OBVIOUS
<1>2. r \in [1 .. Len(s) -> Cells]
  BY <1>1 DEF Reverse
<1>3. r \in Seq(Cells) /\ Len(r) = Len(s)
  BY <1>1, <1>2, FunctionIsSeq
<1>4. \A k \in 1 .. Len(s) : r[k] = s[(Len(s) - k) + 1]
  BY DEF Reverse
<1> HIDE DEF r
<1>5. Distinct(r)
  <2> SUFFICES ASSUME NEW a \in 1 .. Len(s), NEW b \in 1 .. Len(s), r[a] = r[b]
               PROVE  a = b
    BY <1>3 DEF Distinct
  <2>1. (Len(s) - a) + 1 \in 1 .. Len(s) /\ (Len(s) - b) + 1 \in 1 .. Len(s)
    BY <1>1
  <2>2. s[(Len(s) - a) + 1] = s[(Len(s) - b) + 1]
    BY <1>4
  <2>3. \A x, y \in 1 .. Len(s) : s[x] = s[y] => x = y
    BY DEF Linked, Distinct
  <2>4. (Len(s) - a) + 1 = (Len(s) - b) + 1
    BY <2>1, <2>2, <2>3
  <2> QED
    BY <1>1, <2>4
<1>6. Follows(r, l, p, Null)
  <2>1. l = IF Len(r) = 0 THEN Null ELSE r[1]
    BY <1>1, <1>3, <1>4 DEF Linked
  <2>2. ASSUME NEW k \in 1 .. Len(r)
        PROVE  p[r[k]] = IF k = Len(r) THEN Null ELSE r[k + 1]
    <3>1. r[k] = s[(Len(s) - k) + 1] /\ (Len(s) - k) + 1 \in 1 .. Len(s)
      BY <1>1, <1>3, <1>4
    <3>2. p[r[k]] = IF (Len(s) - k) + 1 = 1 THEN Null ELSE s[((Len(s) - k) + 1) - 1]
      BY <3>1 DEF Linked
    <3>3. k # Len(r) => r[k + 1] = s[((Len(s) - k) + 1) - 1]
      BY <1>1, <1>3, <1>4
    <3> QED
      BY <1>1, <1>3, <3>2, <3>3
  <2> QED
    BY <2>1, <2>2 DEF Follows
<1>7. Reverse(r) = s
  <2>1. Reverse(r) = [k \in 1 .. Len(s) |-> r[(Len(s) - k) + 1]]
    BY <1>3 DEF Reverse
  <2>2. \A k \in 1 .. Len(s) : r[(Len(s) - k) + 1] = s[k]
    BY <1>1, <1>4
  <2>3. Reverse(r) = [k \in 1 .. Len(s) |-> s[k]]
    BY <2>1, <2>2
  <2> QED
    BY <2>3
<1> QED
  BY <1>3, <1>5, <1>6, <1>7 DEF r

(* y lies ahead of x in the direction dir. *)
Ahead(dir, s, x, y) == IF dir = "next" THEN Precedes(s, x, y) ELSE Precedes(s, y, x)

-----------------------------------------------------------------------------
(* The inductive invariant. *)
ListInv == /\ Items \in Seq(Cells)
           /\ Linked(Items, head, tail, next, prev, Null)
           /\ length = Len(Items)

MemoryInv == used = Elements \cup lost /\ Elements \cap lost = {}

(* The traversal of frame f, if there is one, is at an item of the list,    *)
(* marked unless its deletion has been asked for, and what it still has to  *)
(* do lies ahead.                                                           *)
FrameInv(f) ==
    /\ f.cur = Null => asked = {} /\ f.todo = {}
    /\ f.cur # Null => /\ f.cur \in Elements
                       /\ asked = IF foreach[f.cur] = 1 THEN {} ELSE {f.cur}
                       /\ \A x \in f.todo : Ahead(f.dir, Items, f.cur, x)

TravInv == \/ trav = <<>> /\ asked = {}
           \/ Len(trav) = 1 /\ FrameInv(trav[1])

IInv == TypeOK /\ ListInv /\ MemoryInv /\ TravInv

(* The variables the invariant speaks of. *)
core == <<structure, memory, lost, trav, asked>>

(* What Items passes through. *)
LEMMA ElementsAre == Elements = {Items[p] : p \in DOMAIN Items}
BY DEF Elements, ToSet

(* A new state has the list t when t is linked in it. *)
LEMMA NewList ==
    ASSUME NEW t \in Seq(Cells), Linked(t, head', tail', next', prev', Null), length' = Len(t)
    PROVE  /\ ListInv' /\ Items' = t
           /\ Elements' = {t[p] : p \in 1 .. Len(t)}
           /\ length' \in 0 .. Cardinality(Cells)
<1>1. Items' = t
  BY ChainIs DEF Items, Linked
<1>2. Elements' = {t[p] : p \in 1 .. Len(t)}
  BY <1>1 DEF Elements, ToSet
<1>3. Len(t) \in 0 .. Cardinality(Cells)
  <2>1. Len(t) \in Nat /\ Len(t) <= Cardinality(Cells)
    BY MyListAssumption, DistinctCount DEF Linked
  <2>2. Cardinality(Cells) \in Nat
    BY MyListAssumption, FS_CardinalityType
  <2> QED
    BY <2>1, <2>2
<1> QED
  BY <1>1, <1>2, <1>3 DEF ListInv

(* The empty list. *)
LEMMA EmptyList ==
    /\ <<>> \in Seq(Cells)
    /\ \A n, p : Linked(<<>>, Null, Null, n, p, Null)
    /\ Len(<<>>) = 0
BY DEF Linked, Distinct, Follows

(* Initially there is no item. *)
LEMMA InitIInv == Init => IInv
<1> SUFFICES ASSUME Init PROVE IInv
  OBVIOUS
<1>1. Items = <<>>
  <2>1. Distinct(<<>>) /\ Follows(<<>>, head, next, Null)
    BY EmptyList DEF Linked, Init
  <2> QED
    BY <2>1, EmptyList, ChainIs DEF Items
<1>2. Elements = {}
  BY <1>1 DEF Elements, ToSet
<1>3. ListInv
  BY <1>1, EmptyList DEF ListInv, Init
<1>4. MemoryInv /\ TravInv
  BY <1>2 DEF MemoryInv, TravInv, Init
<1>5. TypeOK
  <2>1. Cardinality(Cells) \in Nat
    BY MyListAssumption, FS_CardinalityType
  <2>2. trav \in Seq(Traversals) /\ Len(trav) <= MaxDepth
    BY MyListAssumption DEF Init
  <2> QED
    BY <2>1, <2>2 DEF TypeOK, Init, Pointers
<1> QED
  BY <1>3, <1>4, <1>5 DEF IInv

-----------------------------------------------------------------------------
(* A new item. *)

(* The fields that an item put in at place q of the list leaves behind.     *)
PutAt(q, d, i) ==
    LET n == Len(Items) IN
      /\ NewItem(i, d, IF q = n + 1 THEN Null ELSE Items[q], IF q = 1 THEN Null ELSE Items[q - 1],
                 IF q = 1     THEN next ELSE [next EXCEPT ![Items[q - 1]] = i],
                 IF q = n + 1 THEN prev ELSE [prev EXCEPT ![Items[q]] = i])
      /\ head' = IF q = 1 THEN i ELSE head
      /\ tail' = IF q = n + 1 THEN i ELSE tail

(* What ListInv says of the list, with short names for it. *)
LEMMA ListMeaning ==
    ASSUME ListInv
    PROVE  LET n == Len(Items) IN
             /\ n \in Nat /\ Items \in Seq(Cells)
             /\ \A p \in 1 .. n : Items[p] \in Cells /\ Items[p] # Null
             /\ \A p, q \in 1 .. n : Items[p] = Items[q] => p = q
             /\ head = IF n = 0 THEN Null ELSE Items[1]
             /\ tail = IF n = 0 THEN Null ELSE Items[n]
             /\ \A p \in 1 .. n : /\ next[Items[p]] = IF p = n THEN Null ELSE Items[p + 1]
                                  /\ prev[Items[p]] = IF p = 1 THEN Null ELSE Items[p - 1]
             /\ length = n
             /\ Elements = {Items[p] : p \in 1 .. n}
<1>1. Items \in Seq(Cells)
  BY DEF ListInv
<1>2. /\ Len(Items) \in Nat /\ DOMAIN Items = 1 .. Len(Items)
      /\ \A p \in 1 .. Len(Items) : Items[p] \in Cells /\ Items[p] # Null
  BY <1>1, MyListAssumption
<1>3. Elements = {Items[p] : p \in 1 .. Len(Items)}
  BY <1>2 DEF Elements, ToSet
<1> QED
  BY <1>1, <1>2, <1>3 DEF ListInv, Linked, Distinct, Follows

(* The list grows by it, and everything else is as before. *)
LEMMA PutStep ==
    ASSUME IInv, NEW d \in Data, NEW i \in Cells, NEW q \in 1 .. Len(Items) + 1, PutAt(q, d, i)
    PROVE  IInv' /\ Elements \subseteq Elements'
<1> DEFINE n == Len(Items)
           t == InsertedAt(Items, q, i)
<1>1. /\ n \in Nat /\ Items \in Seq(Cells)
      /\ \A p \in 1 .. n : Items[p] \in Cells /\ Items[p] # Null
      /\ \A p, r \in 1 .. n : Items[p] = Items[r] => p = r
      /\ length = n
      /\ Elements = {Items[p] : p \in 1 .. n}
  BY ListMeaning DEF IInv
<1>2. i \notin used /\ Elements \subseteq used /\ lost \subseteq used
  BY DEF IInv, MemoryInv, PutAt, NewItem
<1>3. \A p \in 1 .. n : Items[p] # i
  BY <1>1, <1>2
<1>4. next \in [Cells -> Pointers] /\ prev \in [Cells -> Pointers] /\ foreach \in [Cells -> {0, 1}]
  BY DEF IInv, TypeOK
<1>5. /\ next' = [IF q = 1     THEN next ELSE [next EXCEPT ![Items[q - 1]] = i]
                    EXCEPT ![i] = IF q = n + 1 THEN Null ELSE Items[q]]
      /\ prev' = [IF q = n + 1 THEN prev ELSE [prev EXCEPT ![Items[q]] = i]
                    EXCEPT ![i] = IF q = 1 THEN Null ELSE Items[q - 1]]
      /\ head' = IF q = 1 THEN i ELSE head
      /\ tail' = IF q = n + 1 THEN i ELSE tail
      /\ length' = length + 1
      /\ used' = used \cup {i}
      /\ data' = [data EXCEPT ![i] = d]
      /\ UNCHANGED <<lost, trav, asked>>
  BY DEF PutAt, NewItem
<1>6. PICK garbage \in {0, 1} : foreach' = [foreach EXCEPT ![i] = garbage]
  BY DEF PutAt, NewItem
<1> HIDE DEF n, t
<1>7. /\ next'[i] = IF q = n + 1 THEN Null ELSE Items[q]
      /\ prev'[i] = IF q = 1 THEN Null ELSE Items[q - 1]
  BY <1>4, <1>5
<1>8. \A p \in 1 .. n : /\ next'[Items[p]] = IF p = q - 1 THEN i ELSE next[Items[p]]
                        /\ prev'[Items[p]] = IF p = q THEN i ELSE prev[Items[p]]
  <2> SUFFICES ASSUME NEW p \in 1 .. n
               PROVE  /\ next'[Items[p]] = IF p = q - 1 THEN i ELSE next[Items[p]]
                      /\ prev'[Items[p]] = IF p = q THEN i ELSE prev[Items[p]]
    OBVIOUS
  <2>1. Items[p] # i /\ Items[p] \in Cells
    BY <1>1, <1>3
  <2>2. q # 1 => (Items[p] = Items[q - 1] <=> p = q - 1)
    BY <1>1 DEF n
  <2>3. q # n + 1 => (Items[p] = Items[q] <=> p = q)
    BY <1>1 DEF n
  <2>4. next'[Items[p]] = IF p = q - 1 THEN i ELSE next[Items[p]]
    BY <1>1, <1>4, <1>5, <2>1, <2>2
  <2>5. prev'[Items[p]] = IF p = q THEN i ELSE prev[Items[p]]
    BY <1>1, <1>4, <1>5, <2>1, <2>3
  <2> QED
    BY <2>4, <2>5
<1>9. /\ t \in Seq(Cells) /\ Len(t) = n + 1
      /\ \A p \in 1 .. n + 1 : t[p] = IF p < q THEN Items[p] ELSE IF p = q THEN i ELSE Items[p - 1]
  <2>1. Items \in Seq(Cells)
    BY <1>1
  <2>2. /\ InsertedAt(Items, q, i) \in Seq(Cells)
        /\ Len(InsertedAt(Items, q, i)) = Len(Items) + 1
        /\ \A p \in 1 .. Len(Items) + 1 : InsertedAt(Items, q, i)[p] =
               IF p < q THEN Items[p] ELSE IF p = q THEN i ELSE Items[p - 1]
    BY <2>1, InsertedSeq
  <2> QED
    BY <2>2 DEF t, n
<1>10. Linked(t, head', tail', next', prev', Null)
  <2>1. Items \in Seq(Cells) /\ Linked(Items, head, tail, next, prev, Null)
    BY DEF IInv, ListInv
  <2>2. LinksIn(Items, q, i, head, tail, next, prev, head', tail', next', prev', Null)
    BY <1>3, <1>5, <1>7, <1>8 DEF n, LinksIn
  <2>3. Linked(InsertedAt(Items, q, i), head', tail', next', prev', Null)
    BY <2>1, <2>2, LinkIn
  <2> QED
    BY <2>3 DEF t
<1>11. ListInv' /\ Items' = t /\ length' \in 0 .. Cardinality(Cells)
  <2>1. length' = Len(t)
    BY <1>1, <1>5, <1>9
  <2> QED
    BY <1>9, <1>10, <2>1, NewList
<1>12. Elements' = Elements \cup {i}
  <2>1. Elements' = {t[p] : p \in 1 .. n + 1}
    BY <1>9, <1>11 DEF Elements, ToSet
  <2>2. \A p \in 1 .. n + 1 : t[p] = IF p < q THEN Items[p] ELSE IF p = q THEN i ELSE Items[p - 1]
    BY <1>9
  <2>3. ASSUME NEW p \in 1 .. n + 1 PROVE t[p] \in Elements \cup {i}
    <3>1. CASE p < q
      <4>1. p \in 1 .. n
        BY <1>1, <3>1 DEF n
      <4> QED
        BY <1>1, <2>2, <3>1, <4>1
    <3>2. CASE p = q
      BY <2>2, <3>2
    <3>3. CASE p > q
      <4>1. p - 1 \in 1 .. n
        BY <1>1, <3>3 DEF n
      <4>2. t[p] = Items[p - 1]
        BY <1>1, <2>2, <3>3 DEF n
      <4> QED
        BY <1>1, <4>1, <4>2
    <3> QED
      BY <1>1, <3>1, <3>2, <3>3 DEF n
  <2>4. \A p \in 1 .. n : Items[p] = t[IF p < q THEN p ELSE p + 1]
    BY <1>1, <2>2
  <2>5. \A p \in 1 .. n : (IF p < q THEN p ELSE p + 1) \in 1 .. n + 1
    BY <1>1
  <2>6. i = t[q] /\ q \in 1 .. n + 1
    BY <1>1, <2>2 DEF n
  <2>7. Elements' \subseteq Elements \cup {i}
    BY <2>1, <2>3
  <2>8. ASSUME NEW x \in Elements PROVE x \in Elements'
    <3>1. PICK p \in 1 .. n : x = Items[p]
      BY <1>1
    <3> DEFINE r == IF p < q THEN p ELSE p + 1
    <3>2. r \in 1 .. n + 1 /\ Items[p] = t[r]
      BY <2>4, <2>5
    <3> HIDE DEF r
    <3> QED
      BY <2>1, <3>1, <3>2
  <2>9. i \in Elements'
    BY <2>1, <2>6
  <2> QED
    BY <2>7, <2>8, <2>9
<1>13. MemoryInv'
  BY <1>2, <1>5, <1>12 DEF IInv, MemoryInv
<1>14. TypeOK'
  <2>1. Pointers = Cells \cup {Null}
    BY DEF Pointers
  <2>2. (IF q = n + 1 THEN Null ELSE Items[q]) \in Pointers
    BY <1>1, <2>1 DEF n
  <2>3. (IF q = 1 THEN Null ELSE Items[q - 1]) \in Pointers
    BY <1>1, <2>1 DEF n
  <2>4. next' \in [Cells -> Pointers] /\ prev' \in [Cells -> Pointers]
    BY <1>4, <1>5, <2>1, <2>2, <2>3
  <2>5. /\ head' \in Pointers /\ tail' \in Pointers /\ data' \in [Cells -> Data \cup {Null}]
        /\ foreach' \in [Cells -> {0, 1}]
        /\ used' \subseteq Cells /\ lost' \subseteq used' /\ asked' \subseteq used'
    BY <1>4, <1>5, <1>6, <2>1 DEF IInv, TypeOK
  <2>6. trav' \in Seq(Traversals) /\ Len(trav') <= MaxDepth
    BY <1>5 DEF IInv, TypeOK
  <2> QED
    BY <1>11, <2>4, <2>5, <2>6 DEF TypeOK
<1>15. TravInv'
  <2>1. CASE trav = <<>> /\ asked = {}
    BY <1>5, <2>1 DEF TravInv
  <2>2. CASE Len(trav) = 1 /\ FrameInv(trav[1])
    <3> DEFINE f == trav[1]
    <3>1. f = trav'[1] /\ Len(trav') = 1 /\ asked' = asked
      BY <1>5, <2>2
    <3>2. CASE f.cur = Null
      BY <2>2, <3>1, <3>2 DEF TravInv, FrameInv
    <3>3. CASE f.cur # Null
      <4>1. /\ f.cur \in Elements
            /\ asked = IF foreach[f.cur] = 1 THEN {} ELSE {f.cur}
            /\ \A x \in f.todo : Ahead(f.dir, Items, f.cur, x)
        BY <2>2, <3>3 DEF FrameInv
      <4>2. f.cur \in Elements' /\ foreach'[f.cur] = foreach[f.cur]
        BY <1>2, <1>4, <1>6, <1>12, <4>1
      <4>3. \A x \in f.todo : Ahead(f.dir, t, f.cur, x)
        BY <1>1, <4>1, InsertKeepsOrder DEF Ahead, t, n
      <4> HIDE DEF f
      <4>4. FrameInv(f)'
        BY <1>5, <1>11, <3>3, <4>1, <4>2, <4>3 DEF FrameInv, f
      <4> QED
        BY <3>1, <4>4 DEF TravInv, f
    <3> QED
      BY <3>2, <3>3
  <2> QED
    BY <2>1, <2>2 DEF IInv, TravInv
<1> QED
  BY <1>11, <1>12, <1>13, <1>14, <1>15 DEF IInv

(* Every operation puts its item somewhere: at the head, ...                *)
LEMMA HeadPut ==
    ASSUME ListInv, NEW d, NEW i, AddItem(d, i) \/ PrependItem(d, i)
    PROVE  1 \in 1 .. Len(Items) + 1 /\ PutAt(1, d, i)
<1> DEFINE n == Len(Items)
<1>1. /\ n \in Nat /\ \A p \in 1 .. n : Items[p] # Null
      /\ head = IF n = 0 THEN Null ELSE Items[1]
      /\ tail = IF n = 0 THEN Null ELSE Items[n]
  BY ListMeaning
<1>2. /\ (head = Null <=> 1 = n + 1) /\ (tail = Null <=> 1 = n + 1)
      /\ head = IF 1 = n + 1 THEN Null ELSE Items[1]
  BY <1>1
<1>3. /\ NewItem(i, d, head, Null, next, IF head # Null THEN [prev EXCEPT ![head] = i] ELSE prev)
      /\ head' = i
      /\ tail' = IF 1 = n + 1 THEN i ELSE tail
  BY <1>2 DEF AddItem, PrependItem
<1>4. (IF head # Null THEN [prev EXCEPT ![head] = i] ELSE prev)
         = IF 1 = n + 1 THEN prev ELSE [prev EXCEPT ![Items[1]] = i]
  BY <1>2
<1>5. NewItem(i, d, IF 1 = n + 1 THEN Null ELSE Items[1], Null, next,
              IF 1 = n + 1 THEN prev ELSE [prev EXCEPT ![Items[1]] = i])
  BY <1>2, <1>3, <1>4
<1> QED
  BY <1>1, <1>3, <1>5 DEF PutAt

(* ... at the end, ... *)
LEMMA TailPut ==
    ASSUME ListInv, NEW d, NEW i, AppendItem(d, i)
    PROVE  Len(Items) + 1 \in 1 .. Len(Items) + 1 /\ PutAt(Len(Items) + 1, d, i)
<1> DEFINE n == Len(Items)
           q == n + 1
<1>1. /\ n \in Nat /\ \A p \in 1 .. n : Items[p] # Null
      /\ head = IF n = 0 THEN Null ELSE Items[1]
      /\ tail = IF n = 0 THEN Null ELSE Items[n]
  BY ListMeaning
<1>2. /\ (tail = Null <=> q = 1)
      /\ tail = IF q = 1 THEN Null ELSE Items[q - 1]
  BY <1>1
<1>3. /\ NewItem(i, d, Null, tail, IF tail # Null THEN [next EXCEPT ![tail] = i] ELSE next, prev)
      /\ tail' = i
      /\ head' = IF q = 1 THEN i ELSE head
  BY <1>2 DEF AppendItem
<1>4. (IF tail # Null THEN [next EXCEPT ![tail] = i] ELSE next)
         = IF q = 1 THEN next ELSE [next EXCEPT ![Items[q - 1]] = i]
  BY <1>2
<1>5. NewItem(i, d, Null, IF q = 1 THEN Null ELSE Items[q - 1],
              IF q = 1 THEN next ELSE [next EXCEPT ![Items[q - 1]] = i], prev)
  BY <1>2, <1>3, <1>4
<1> QED
  BY <1>1, <1>3, <1>5 DEF PutAt

(* ... or before an item that is there. *)
LEMMA InsertPut ==
    ASSUME ListInv, NEW d, NEW i, NEW q \in 1 .. Len(Items), InsertItem(Items[q], d, i)
    PROVE  q \in 1 .. Len(Items) + 1 /\ PutAt(q, d, i)
<1> DEFINE n == Len(Items)
<1>1. /\ n \in Nat /\ \A p \in 1 .. n : Items[p] # Null
      /\ \A p, r \in 1 .. n : Items[p] = Items[r] => p = r
      /\ head = IF n = 0 THEN Null ELSE Items[1]
      /\ \A p \in 1 .. n : prev[Items[p]] = IF p = 1 THEN Null ELSE Items[p - 1]
  BY ListMeaning
<1>2. Items[q] = head <=> q = 1
  BY <1>1
<1>3. CASE q = 1
  BY <1>2, <1>3, HeadPut DEF InsertItem
<1>4. CASE q # 1
  <2>1. /\ NewItem(i, d, Items[q], prev[Items[q]],
                   [next EXCEPT ![prev[Items[q]]] = i], [prev EXCEPT ![Items[q]] = i])
        /\ UNCHANGED <<head, tail>>
    BY <1>2, <1>4 DEF InsertItem
  <2>2. prev[Items[q]] = Items[q - 1] /\ q # n + 1
    BY <1>1, <1>4
  <2>3. /\ NewItem(i, d, Items[q], Items[q - 1],
                   [next EXCEPT ![Items[q - 1]] = i], [prev EXCEPT ![Items[q]] = i])
        /\ UNCHANGED <<head, tail>>
    BY <2>1, <2>2
  <2> QED
    BY <1>1, <1>4, <2>2, <2>3 DEF PutAt
<1> QED
  BY <1>3, <1>4

(* The first of some positions. *)
LEMMA FirstOf ==
    ASSUME NEW n \in Nat, NEW S, S \subseteq 1 .. n, S # {}
    PROVE  Min(S) \in S
<1>1. S \subseteq Nat
  OBVIOUS
<1>2. \E m \in S : \A k \in S : m <= k
  BY <1>1, LeastNumber
<1> QED
  BY <1>2 DEF Min

(* The item that my_list_lookup finds is one of the list. *)
LEMMA LookupIn ==
    ASSUME ListInv, NEW d
    PROVE  Lookup(d) # Null => \E q \in 1 .. Len(Items) : Lookup(d) = Items[q]
<1> DEFINE found == {p \in DOMAIN Items : data[Items[p]] = d}
<1>1. Len(Items) \in Nat /\ DOMAIN Items = 1 .. Len(Items)
  BY DEF ListInv
<1>2. found \subseteq 1 .. Len(Items)
  BY <1>1
<1>3. Lookup(d) = IF found # {} THEN Items[Min(found)] ELSE Null
  BY DEF Lookup
<1> HIDE DEF found
<1>4. found # {} => Min(found) \in found
  BY <1>1, <1>2, FirstOf
<1> QED
  BY <1>2, <1>3, <1>4

(* SortAddItem puts it somewhere, too. *)
LEMMA SortPut ==
    ASSUME ListInv, NEW d, NEW i, SortAddItem(d, i)
    PROVE  \E q \in 1 .. Len(Items) + 1 : PutAt(q, d, i)
<1> DEFINE greater == {p \in DOMAIN Items : data[Items[p]] > d}
<1>1. Len(Items) \in Nat /\ DOMAIN Items = 1 .. Len(Items)
  BY DEF ListInv
<1>2. greater \subseteq 1 .. Len(Items)
  BY <1>1
<1>3. IF greater # {} THEN InsertItem(Items[Min(greater)], d, i) ELSE AppendItem(d, i)
  BY DEF SortAddItem
<1> HIDE DEF greater
<1>4. greater # {} => Min(greater) \in 1 .. Len(Items)
  BY <1>1, <1>2, FirstOf
<1>5. CASE greater = {}
  BY <1>3, <1>5, TailPut
<1>6. CASE greater # {}
  BY <1>3, <1>4, <1>6, InsertPut
<1> QED
  BY <1>5, <1>6

(* Item i, new in the memory, takes some place in the list with datum d. *)
Puts(d, i) == \E q \in 1 .. Len(Items) + 1 : PutAt(q, d, i)

(* All the calls that add do that, or change nothing. *)
LEMMA CallsPut ==
    ASSUME ListInv, NEW d,
           \/ Add(d) \/ Prepend(d) \/ PutLast(d) \/ SortAdd(d) \/ LookAdd(d)
           \/ \E at \in Elements : IterInsert(at, d)
    PROVE  (\E i \in Cells : Puts(d, i)) \/ UNCHANGED core
<1>1. \A at \in Elements : \E q \in 1 .. Len(Items) : at = Items[q]
  BY ListMeaning
<1>2. \A at \in Elements, i \in Cells : InsertItem(at, d, i) => Puts(d, i)
  BY <1>1, InsertPut DEF Puts
<1>3. \A i \in Cells : AddItem(d, i) \/ PrependItem(d, i) => Puts(d, i)
  BY HeadPut DEF Puts
<1>4. \A i \in Cells : AppendItem(d, i) => Puts(d, i)
  BY TailPut DEF Puts
<1>5. \A i \in Cells : SortAddItem(d, i) => Puts(d, i)
  BY SortPut DEF Puts
<1> QED
  BY <1>2, <1>3, <1>4, <1>5
     DEF Add, Prepend, PutLast, SortAdd, LookAdd, IterInsert, OutOfMemory, core

-----------------------------------------------------------------------------
(* An item that leaves. *)

(* The list is as before without it, and its memory is free. *)
LEMMA UnlinkStep ==
    ASSUME IInv, NEW q \in 1 .. Len(Items), Unlink(Items[q])
    PROVE  /\ ListInv' /\ MemoryInv'
           /\ Items' = RemovedAt(Items, q)
           /\ Elements' = Elements \ {Items[q]}
           /\ head' \in Pointers /\ tail' \in Pointers
           /\ length' \in 0 .. Cardinality(Cells)
           /\ used' \subseteq Cells /\ lost' \subseteq used' /\ asked' \subseteq used'
           /\ data' \in [Cells -> Data \cup {Null}]
           /\ next' \in [Cells -> Pointers] /\ prev' \in [Cells -> Pointers]
           /\ asked' = asked \ {Items[q]}
<1> DEFINE n == Len(Items)
           i == Items[q]
           t == RemovedAt(Items, q)
<1>1. /\ n \in Nat /\ Items \in Seq(Cells)
      /\ \A p \in 1 .. n : Items[p] \in Cells /\ Items[p] # Null
      /\ \A p, r \in 1 .. n : Items[p] = Items[r] => p = r
      /\ \A p \in 1 .. n : /\ next[Items[p]] = IF p = n THEN Null ELSE Items[p + 1]
                           /\ prev[Items[p]] = IF p = 1 THEN Null ELSE Items[p - 1]
      /\ length = n
      /\ Elements = {Items[p] : p \in 1 .. n}
  BY ListMeaning DEF IInv
<1>2. q \in 1 .. n /\ i = Items[q] /\ i \in Cells
  BY <1>1
<1>3. next \in [Cells -> Pointers] /\ prev \in [Cells -> Pointers]
  BY DEF IInv, TypeOK
<1>4. /\ next[i] = IF q = n THEN Null ELSE Items[q + 1]
      /\ prev[i] = IF q = 1 THEN Null ELSE Items[q - 1]
  BY <1>1, <1>2
<1>5. /\ next' = [NextWithout(i) EXCEPT ![i] = Null]
      /\ prev' = [PrevWithout(i) EXCEPT ![i] = Null]
      /\ tail' = IF next[i] = Null THEN prev[i] ELSE tail
      /\ head' = IF prev[i] = Null THEN next[i] ELSE head
      /\ length' = length - 1
      /\ used' = used \ {i}
      /\ data' = [data EXCEPT ![i] = Null]
      /\ asked' = asked \ {i}
      /\ UNCHANGED lost
  BY DEF Unlink
<1> HIDE DEF n, i, t
<1>6. /\ (prev[i] = Null <=> q = 1) /\ (q # 1 => prev[i] = Items[q - 1] /\ q - 1 \in 1 .. n)
      /\ (next[i] = Null <=> q = n) /\ (q # n => next[i] = Items[q + 1] /\ q + 1 \in 1 .. n)
  BY <1>1, <1>2, <1>4
<1>7. /\ NextWithout(i) = IF q # 1 THEN [next EXCEPT ![Items[q - 1]] = next[i]] ELSE next
      /\ PrevWithout(i) = IF q # n THEN [prev EXCEPT ![Items[q + 1]] = prev[i]] ELSE prev
  BY <1>6 DEF NextWithout, PrevWithout
<1>8. ASSUME NEW p \in 1 .. n, p # q
      PROVE  /\ next'[Items[p]] = IF p = q - 1 THEN next[i] ELSE next[Items[p]]
             /\ prev'[Items[p]] = IF p = q + 1 THEN prev[i] ELSE prev[Items[p]]
  <2>1. Items[p] # i /\ Items[p] \in Cells
    BY <1>1, <1>2, <1>8
  <2>2. q # 1 => (Items[p] = Items[q - 1] <=> p = q - 1)
    BY <1>1, <1>6
  <2>3. q # n => (Items[p] = Items[q + 1] <=> p = q + 1)
    BY <1>1, <1>6
  <2>4. q = 1 => p # q - 1
    OBVIOUS
  <2>5. q = n => p # q + 1
    BY <1>1
  <2>6. next'[Items[p]] = IF p = q - 1 THEN next[i] ELSE next[Items[p]]
    BY <1>2, <1>3, <1>5, <1>7, <2>1, <2>2, <2>4
  <2>7. prev'[Items[p]] = IF p = q + 1 THEN prev[i] ELSE prev[Items[p]]
    BY <1>2, <1>3, <1>5, <1>7, <2>1, <2>3, <2>5
  <2> QED
    BY <2>6, <2>7
<1>9. Linked(t, head', tail', next', prev', Null)
  <2>1. Items \in Seq(Cells) /\ Linked(Items, head, tail, next, prev, Null)
    BY DEF IInv, ListInv
  <2>2. LinksOut(Items, q, head, tail, next, prev, head', tail', next', prev')
    BY <1>5, <1>6, <1>8 DEF LinksOut, n, i
  <2>3. Linked(RemovedAt(Items, q), head', tail', next', prev', Null)
    BY <2>1, <2>2, LinkOut
  <2> QED
    BY <2>3 DEF t
<1>10. /\ t \in Seq(Cells) /\ Len(t) = n - 1
       /\ \A p \in 1 .. n - 1 : t[p] = IF p < q THEN Items[p] ELSE Items[p + 1]
  <2>1. Items \in Seq(Cells)
    BY <1>1
  <2>2. /\ RemovedAt(Items, q) \in Seq(Cells)
        /\ Len(RemovedAt(Items, q)) = Len(Items) - 1
        /\ \A p \in 1 .. Len(Items) - 1 : RemovedAt(Items, q)[p] =
               IF p < q THEN Items[p] ELSE Items[p + 1]
    BY <2>1, RemovedSeq
  <2> QED
    BY <2>2 DEF t, n
<1>11. ListInv' /\ Items' = t /\ length' \in 0 .. Cardinality(Cells)
  <2>1. length' = Len(t)
    BY <1>1, <1>5, <1>10 DEF n
  <2> QED
    BY <1>9, <1>10, <2>1, NewList
<1>12. Elements' = Elements \ {i}
  <2>1. Elements' = {t[p] : p \in 1 .. n - 1}
    BY <1>10, <1>11 DEF Elements, ToSet
  <2>2. ASSUME NEW p \in 1 .. n - 1 PROVE t[p] \in Elements \ {i}
    <3>1. p \in 1 .. n /\ p + 1 \in 1 .. n
      BY <1>1
    <3>2. CASE p < q
      <4>1. t[p] = Items[p] /\ p # q
        BY <1>10, <3>2
      <4> QED
        BY <1>1, <1>2, <3>1, <4>1
    <3>3. CASE p >= q
      <4>1. t[p] = Items[p + 1] /\ p + 1 # q
        BY <1>10, <3>3
      <4> QED
        BY <1>1, <1>2, <3>1, <4>1
    <3> QED
      BY <1>1, <3>2, <3>3
  <2>3. ASSUME NEW x \in Elements \ {i} PROVE x \in Elements'
    <3>1. PICK p \in 1 .. n : x = Items[p] /\ p # q
      BY <1>1, <1>2
    <3>2. CASE p < q
      <4>1. p \in 1 .. n - 1
        BY <1>1, <1>2, <3>2
      <4>2. t[p] = Items[p]
        BY <1>10, <3>2, <4>1
      <4> QED
        BY <2>1, <3>1, <4>1, <4>2
    <3>3. CASE p > q
      <4>1. p - 1 \in 1 .. n - 1 /\ ~(p - 1 < q) /\ (p - 1) + 1 = p
        BY <1>1, <1>2, <3>3
      <4>2. t[p - 1] = Items[p]
        BY <1>10, <4>1
      <4> QED
        BY <2>1, <3>1, <4>1, <4>2
    <3> QED
      BY <1>1, <1>2, <3>1, <3>2, <3>3
  <2> QED
    BY <2>1, <2>2, <2>3
<1>13. i \in Elements /\ i \notin lost
  BY <1>1, <1>2 DEF IInv, MemoryInv
<1>14. MemoryInv'
  BY <1>5, <1>12, <1>13 DEF IInv, MemoryInv
<1>15. /\ head' \in Pointers /\ tail' \in Pointers
       /\ used' \subseteq Cells /\ lost' \subseteq used' /\ asked' \subseteq used'
       /\ data' \in [Cells -> Data \cup {Null}]
  <2>1. next[i] \in Pointers /\ prev[i] \in Pointers
    BY <1>2, <1>3
  <2> QED
    BY <1>2, <1>5, <1>13, <2>1 DEF IInv, TypeOK
<1>16. next' \in [Cells -> Pointers] /\ prev' \in [Cells -> Pointers]
  <2>1. next[i] \in Pointers /\ prev[i] \in Pointers /\ Null \in Pointers
    BY <1>2, <1>3 DEF Pointers
  <2>2. NextWithout(i) \in [Cells -> Pointers] /\ PrevWithout(i) \in [Cells -> Pointers]
    BY <1>3, <2>1 DEF NextWithout, PrevWithout
  <2> QED
    BY <1>5, <2>1, <2>2
<1> QED
  BY <1>5, <1>11, <1>12, <1>14, <1>15, <1>16 DEF t, i

-----------------------------------------------------------------------------
(* The traversal. *)

(* The only frame, when there is one. *)
LEMMA OneFrame ==
    ASSUME IInv, trav # <<>>
    PROVE  /\ Len(trav) = 1 /\ DOMAIN trav = {1}
           /\ Top = trav[1] /\ Top \in Traversals /\ FrameInv(Top)
           /\ Front(trav) = <<>>
           /\ \A i : Forget(Front(trav), i) = <<>>
           /\ Cursors = {Top.cur} \ {Null}
           /\ MaxDepth >= 1
<1>1. trav \in Seq(Traversals) /\ Len(trav) = 1 /\ FrameInv(trav[1])
  BY DEF IInv, TypeOK, TravInv
<1>2. DOMAIN trav = {1} /\ Top = trav[1] /\ Top \in Traversals
  BY <1>1 DEF Top
<1>3. Front(trav) = <<>>
  BY <1>1 DEF Front
<1>4. \A i : Forget(<<>>, i) = <<>>
  BY DEF Forget
<1>5. Cursors = {Top.cur} \ {Null}
  BY <1>2 DEF Cursors
<1>6. MaxDepth >= 1
  BY <1>1, MyListAssumption DEF IInv, TypeOK
<1> QED
  BY <1>1, <1>2, <1>3, <1>4, <1>5, <1>6

(* A new frame is fine when what it has left to do lies ahead. *)
LEMMA NewFrame ==
    ASSUME IInv, NEW i \in Pointers, NEW dir \in {"next", "prev"}, NEW todo \in SUBSET Cells,
           NEW mem \in [Cells -> {0, 1}], MaxDepth >= 1,
           Reach(i, <<>>, mem, dir, todo),
           asked' = {},
           i = Null => todo = {},
           i # Null => i \in Elements' /\ \A x \in todo \ {i} : Ahead(dir, Items', i, x)
    PROVE  /\ TravInv'
           /\ trav' \in Seq(Traversals) /\ Len(trav') <= MaxDepth
           /\ foreach' \in [Cells -> {0, 1}]
<1> DEFINE f == [cur |-> i, dir |-> dir, todo |-> todo \ {i}]
<1>1. f \in Traversals
  BY DEF Traversals
<1>2. trav' = Append(<<>>, f) /\ foreach' = IF i # Null THEN [mem EXCEPT ![i] = 1] ELSE mem
  BY DEF Reach
<1>3. f.cur = i /\ f.dir = dir /\ f.todo = todo \ {i}
  OBVIOUS
<1> HIDE DEF f
<1>4. trav' = <<f>>
  BY <1>2
<1>5. trav' \in Seq(Traversals) /\ Len(trav') = 1 /\ trav'[1] = f
  BY <1>1, <1>4
<1>6. foreach' \in [Cells -> {0, 1}] /\ (i # Null => foreach'[i] = 1)
  BY <1>2 DEF Pointers
<1>7. FrameInv(f)'
  BY <1>3, <1>6 DEF FrameInv
<1>8. FrameInv(trav[1])'
  BY <1>5, <1>7
<1> QED
  BY <1>5, <1>6, <1>8, MyListAssumption DEF TravInv

(* The next item comes before everything that lies ahead of the current one. *)
LEMMA AheadOfNext ==
    ASSUME ListInv, NEW q \in 1 .. Len(Items), NEW dir \in {"next", "prev"}, NEW todo,
           \A x \in todo : Ahead(dir, Items, Items[q], x)
    PROVE  LET to == Follow(Items[q], dir) IN
             /\ to \in Pointers
             /\ Items[q] \notin todo
             /\ to = Null => todo = {}
             /\ to # Null => /\ to \in Elements /\ to # Items[q]
                             /\ \A x \in todo \ {to} : Ahead(dir, Items, to, x)
<1> DEFINE n == Len(Items)
           to == Follow(Items[q], dir)
<1>1. /\ n \in Nat
      /\ \A p \in 1 .. n : Items[p] \in Cells /\ Items[p] # Null
      /\ \A p, r \in 1 .. n : Items[p] = Items[r] => p = r
      /\ \A p \in 1 .. n : /\ next[Items[p]] = IF p = n THEN Null ELSE Items[p + 1]
                           /\ prev[Items[p]] = IF p = 1 THEN Null ELSE Items[p - 1]
      /\ Elements = {Items[p] : p \in 1 .. n}
  BY ListMeaning
<1> HIDE DEF to, n
<1>2. CASE dir = "next"
  <2>1. to = IF q = n THEN Null ELSE Items[q + 1]
    BY <1>1, <1>2 DEF Follow, to, n
  <2>2. ASSUME NEW x \in todo PROVE \E r \in 1 .. n : r > q /\ x = Items[r]
    <3>1. PICK p \in 1 .. n, r \in 1 .. n : p < r /\ Items[p] = Items[q] /\ Items[r] = x
      BY <1>2 DEF Ahead, Precedes, n
    <3> QED
      BY <1>1, <3>1 DEF n
  <2>3. ASSUME to # Null
        PROVE  /\ to \in Elements /\ to # Items[q]
               /\ \A x \in todo \ {to} : Ahead(dir, Items, to, x)
    <3>1. q + 1 \in 1 .. n /\ to = Items[q + 1] /\ q # q + 1 /\ q \in 1 .. n
      BY <1>1, <2>1, <2>3 DEF n
    <3>2. to \in Elements /\ to # Items[q]
      BY <1>1, <3>1
    <3>3. ASSUME NEW x \in todo \ {to} PROVE Precedes(Items, to, x)
      <4>1. PICK r \in 1 .. n : r > q /\ x = Items[r]
        BY <2>2
      <4>2. q + 1 < r
        BY <3>1, <4>1
      <4> QED
        BY <3>1, <4>1, <4>2 DEF Precedes, n
    <3> QED
      BY <1>2, <3>2, <3>3 DEF Ahead
  <2>4. to = Null => todo = {}
    <3> SUFFICES ASSUME to = Null, NEW x \in todo PROVE FALSE
      OBVIOUS
    <3>1. q = n
      <4>1. q # n => q + 1 \in 1 .. n
        BY <1>1 DEF n
      <4> QED
        BY <1>1, <2>1, <4>1
    <3>2. PICK r \in 1 .. n : r > q
      BY <2>2
    <3> QED
      BY <1>1, <3>1, <3>2
  <2>5. Items[q] \notin todo
    <3> SUFFICES ASSUME Items[q] \in todo PROVE FALSE
      OBVIOUS
    <3>1. PICK r \in 1 .. n : r > q /\ Items[q] = Items[r]
      BY <2>2
    <3>2. r = q
      BY <1>1, <3>1 DEF n
    <3> QED
      BY <3>1, <3>2
  <2>6. to \in Pointers
    BY <1>1, <2>1, <2>3 DEF Pointers
  <2> QED
    BY <2>3, <2>4, <2>5, <2>6 DEF to
<1>3. CASE dir = "prev"
  <2>1. to = IF q = 1 THEN Null ELSE Items[q - 1]
    BY <1>1, <1>3 DEF Follow, to, n
  <2>2. ASSUME NEW x \in todo PROVE \E r \in 1 .. n : r < q /\ x = Items[r]
    <3>1. PICK p \in 1 .. n, r \in 1 .. n : p < r /\ Items[p] = x /\ Items[r] = Items[q]
      BY <1>3 DEF Ahead, Precedes, n
    <3> QED
      BY <1>1, <3>1 DEF n
  <2>3. ASSUME to # Null
        PROVE  /\ to \in Elements /\ to # Items[q]
               /\ \A x \in todo \ {to} : Ahead(dir, Items, to, x)
    <3>1. q - 1 \in 1 .. n /\ to = Items[q - 1] /\ q # q - 1 /\ q \in 1 .. n
      BY <1>1, <2>1, <2>3 DEF n
    <3>2. to \in Elements /\ to # Items[q]
      BY <1>1, <3>1
    <3>3. ASSUME NEW x \in todo \ {to} PROVE Precedes(Items, x, to)
      <4>1. PICK r \in 1 .. n : r < q /\ x = Items[r]
        BY <2>2
      <4>2. r < q - 1
        BY <3>1, <4>1
      <4> QED
        BY <3>1, <4>1, <4>2 DEF Precedes, n
    <3> QED
      BY <1>3, <3>2, <3>3 DEF Ahead
  <2>4. to = Null => todo = {}
    <3> SUFFICES ASSUME to = Null, NEW x \in todo PROVE FALSE
      OBVIOUS
    <3>1. q = 1
      <4>1. q # 1 => q - 1 \in 1 .. n
        BY <1>1 DEF n
      <4> QED
        BY <1>1, <2>1, <4>1
    <3>2. PICK r \in 1 .. n : r < q
      BY <2>2
    <3> QED
      BY <1>1, <3>1, <3>2
  <2>5. Items[q] \notin todo
    <3> SUFFICES ASSUME Items[q] \in todo PROVE FALSE
      OBVIOUS
    <3>1. PICK r \in 1 .. n : r < q /\ Items[q] = Items[r]
      BY <2>2
    <3>2. r = q
      BY <1>1, <3>1 DEF n
    <3> QED
      BY <3>1, <3>2
  <2>6. to \in Pointers
    BY <1>1, <2>1, <2>3 DEF Pointers
  <2> QED
    BY <2>3, <2>4, <2>5, <2>6 DEF to
<1> QED
  BY <1>2, <1>3

(* The first item comes before all others. *)
LEMMA AheadOfFirst ==
    ASSUME ListInv, NEW dir \in {"next", "prev"}
    PROVE  LET first == IF dir = "next" THEN head ELSE tail IN
             /\ first \in Pointers
             /\ first = Null => Elements = {}
             /\ first # Null => /\ first \in Elements
                                /\ \A x \in Elements \ {first} : Ahead(dir, Items, first, x)
<1> DEFINE n == Len(Items)
<1>1. /\ n \in Nat
      /\ \A p \in 1 .. n : Items[p] \in Cells /\ Items[p] # Null
      /\ head = IF n = 0 THEN Null ELSE Items[1]
      /\ tail = IF n = 0 THEN Null ELSE Items[n]
      /\ Elements = {Items[p] : p \in 1 .. n}
  BY ListMeaning
<1> HIDE DEF n
<1>2. CASE n = 0
  BY <1>1, <1>2 DEF Pointers
<1>3. CASE n # 0
  <2>1. /\ 1 \in 1 .. n /\ n \in 1 .. n
        /\ head = Items[1] /\ tail = Items[n] /\ head # Null /\ tail # Null
        /\ head \in Cells /\ tail \in Cells
    BY <1>1, <1>3
  <2>2. ASSUME NEW x \in Elements PROVE /\ x # head => Precedes(Items, head, x)
                                        /\ x # tail => Precedes(Items, x, tail)
    <3>1. PICK p \in 1 .. n : x = Items[p]
      BY <1>1
    <3>2. x # head => 1 < p
      BY <2>1, <3>1
    <3>3. x # tail => p < n
      BY <1>1, <2>1, <3>1
    <3> QED
      BY <2>1, <3>1, <3>2, <3>3 DEF Precedes, n
  <2> QED
    BY <1>1, <2>1, <2>2 DEF Ahead, Pointers
<1> QED
  BY <1>2, <1>3

-----------------------------------------------------------------------------
(* Every step preserves the invariant. *)

(* A step that leaves everything alone; Items is a matter of head and next. *)
LEMMA QuietStep ==
    ASSUME IInv, UNCHANGED core
    PROVE  IInv' /\ Elements' = Elements
<1>1. /\ UNCHANGED <<head, tail, length, used, data, next, prev, foreach, lost, trav, asked>>
  BY DEF core, structure, memory
<1>2. Items' = Items
  BY <1>1 DEF Items
<1>3. Elements' = Elements
  BY <1>2 DEF Elements
<1>4. TypeOK' /\ ListInv' /\ MemoryInv'
  BY <1>1, <1>2, <1>3 DEF IInv, TypeOK, ListInv, MemoryInv
<1>5. TravInv'
  BY <1>1, <1>2, <1>3 DEF IInv, TravInv, FrameInv
<1> QED
  BY <1>3, <1>4, <1>5 DEF IInv

(* A deletion takes no other item out of the list. *)
LEMMA DeleteTakes ==
    ASSUME IInv, NEW q \in 1 .. Len(Items), DeleteItem(Items[q])
    PROVE  Elements \ Elements' \subseteq {Items[q]}
<1>1. CASE MarkDeleted(Items[q])
  <2>1. head' = head /\ next' = next
    BY <1>1 DEF MarkDeleted, structure
  <2> QED
    BY <2>1 DEF Elements, Items
<1>2. CASE Unlink(Items[q])
  BY <1>2, UnlinkStep
<1> QED
  BY <1>1, <1>2 DEF DeleteItem

(* A deletion: the mark comes off, or the item goes. *)
LEMMA DeleteStep ==
    ASSUME IInv, NEW q \in 1 .. Len(Items), Items[q] \notin asked, DeleteItem(Items[q])
    PROVE  IInv'
<1> DEFINE i == Items[q]
<1>1. i \in Elements /\ i \in Cells /\ i # Null
  BY ListMeaning DEF IInv
<1>2. foreach \in [Cells -> {0, 1}] /\ trav \in Seq(Traversals) /\ Len(trav) <= MaxDepth
  BY DEF IInv, TypeOK
<1>3. TravInv
  BY DEF IInv
<1>4. CASE MarkDeleted(i)
  <2>1. /\ foreach[i] = 1
        /\ foreach' = [foreach EXCEPT ![i] = 0]
        /\ asked' = asked \cup ({i} \cap Cursors)
        /\ UNCHANGED <<structure, used, data, next, prev, lost, trav>>
    BY <1>4 DEF MarkDeleted
  <2> HIDE DEF i
  <2>2. Items' = Items
    BY <2>1 DEF Items, structure
  <2>3. Elements' = Elements
    BY <2>2 DEF Elements
  <2>4. ListInv' /\ MemoryInv'
    BY <2>1, <2>2, <2>3 DEF IInv, ListInv, MemoryInv, structure
  <2>5. i \in used
    BY <1>1 DEF IInv, MemoryInv
  <2>6. TypeOK'
    BY <1>1, <1>2, <2>1, <2>5 DEF IInv, TypeOK, structure
  <2>7. CASE trav = <<>>
    <3>1. asked = {} /\ Cursors = {}
      BY <1>3, <2>7 DEF TravInv, Cursors
    <3> QED
      BY <2>1, <2>4, <2>6, <2>7, <3>1 DEF IInv, TravInv
  <2>8. CASE trav # <<>>
    <3>0. PICK f : f = trav[1]
      OBVIOUS
    <3>1. Len(trav) = 1 /\ f = trav[1] /\ FrameInv(f) /\ Cursors = {f.cur} \ {Null}
      BY <2>8, <3>0, OneFrame
    <3>2. FrameInv(f)'
      <4>1. CASE f.cur = Null
        BY <2>1, <3>1, <4>1 DEF FrameInv
      <4>2. CASE f.cur # Null
        <5>1. /\ f.cur \in Elements
              /\ asked = IF foreach[f.cur] = 1 THEN {} ELSE {f.cur}
              /\ \A x \in f.todo : Ahead(f.dir, Items, f.cur, x)
          BY <3>1, <4>2 DEF FrameInv
        <5>2. CASE f.cur = i
          <6>1. foreach'[i] = 0 /\ asked' = {i}
            BY <1>1, <1>2, <2>1, <3>1, <5>1, <5>2
          <6> QED
            BY <2>2, <2>3, <4>2, <5>1, <5>2, <6>1 DEF FrameInv
        <5>3. CASE f.cur # i
          <6>1. foreach'[f.cur] = foreach[f.cur] /\ asked' = asked
            BY <1>1, <1>2, <2>1, <3>1, <5>1, <5>3
          <6> QED
            BY <2>2, <2>3, <4>2, <5>1, <6>1 DEF FrameInv
        <5> QED
          BY <5>2, <5>3
      <4> QED
        BY <4>1, <4>2
    <3>3. trav' = trav
      BY <2>1
    <3>4. FrameInv(trav[1])'
      BY <3>1, <3>2, <3>3
    <3> QED
      BY <2>4, <2>6, <3>1, <3>3, <3>4 DEF IInv, TravInv
  <2> QED
    BY <2>7, <2>8
<1>5. CASE foreach[i] # 1 /\ Unlink(i) /\ foreach' = [foreach EXCEPT ![i] = 0] /\ trav' = Forget(trav, i)
  <2>1. /\ ListInv' /\ MemoryInv'
        /\ Items' = RemovedAt(Items, q)
        /\ Elements' = Elements \ {Items[q]}
        /\ head' \in Pointers /\ tail' \in Pointers
        /\ length' \in 0 .. Cardinality(Cells)
        /\ used' \subseteq Cells /\ lost' \subseteq used' /\ asked' \subseteq used'
        /\ data' \in [Cells -> Data \cup {Null}]
        /\ next' \in [Cells -> Pointers] /\ prev' \in [Cells -> Pointers]
        /\ asked' = asked \ {Items[q]}
    BY <1>5, UnlinkStep
  <2>2. asked' = asked
    BY <2>1
  <2>3. foreach' \in [Cells -> {0, 1}]
    BY <1>1, <1>2, <1>5
  <2>4. CASE trav = <<>>
    <3>1. trav' = <<>> /\ asked' = {}
      BY <1>3, <1>5, <2>2, <2>4 DEF TravInv, Forget
    <3> QED
      BY <1>2, <2>1, <2>3, <2>4, <3>1 DEF IInv, TypeOK, TravInv
  <2>5. CASE trav # <<>>
    <3>0. PICK f, g : f = trav[1] /\ g = [f EXCEPT !.todo = @ \ {i}]
      OBVIOUS
    <3>1. /\ Len(trav) = 1 /\ DOMAIN trav = {1} /\ f = trav[1] /\ f \in Traversals
          /\ FrameInv(f)
      BY <2>5, <3>0, OneFrame
    <3>2. trav' = [k \in {1} |-> [trav[k] EXCEPT !.todo = @ \ {i}]]
      BY <1>5, <3>1 DEF Forget
    <3>3. trav'[1] = g
      BY <3>0, <3>1, <3>2
    <3>4. /\ g \in Traversals /\ g.cur = f.cur /\ g.dir = f.dir /\ g.todo = f.todo \ {i}
          /\ f.dir \in {"next", "prev"}
      BY <3>0, <3>1 DEF Traversals
    <3>5. trav' \in Seq(Traversals) /\ Len(trav') = 1
      <4>1. trav' = [k \in 1 .. 1 |-> g]
        BY <3>2, <3>3
      <4>2. trav' \in [1 .. 1 -> Traversals]
        BY <3>4, <4>1
      <4> QED
        BY <4>2, FunctionIsSeq
    <3>6. FrameInv(g)'
      <4>1. CASE f.cur = Null
        BY <2>2, <3>1, <3>4, <4>1 DEF FrameInv
      <4>2. CASE f.cur # Null
        <5>1. /\ f.cur \in Elements
              /\ asked = IF foreach[f.cur] = 1 THEN {} ELSE {f.cur}
              /\ \A x \in f.todo : Ahead(f.dir, Items, f.cur, x)
          BY <3>1, <4>2 DEF FrameInv
        <5>2. f.cur # i
          BY <1>5, <5>1
        <5>3. f.cur \in Elements' /\ foreach'[f.cur] = foreach[f.cur]
          BY <1>1, <1>2, <1>5, <2>1, <5>1, <5>2
        <5>4. \A x \in g.todo : Ahead(g.dir, Items', g.cur, x)
          <6>1. ASSUME NEW x \in g.todo, Precedes(Items, f.cur, x) PROVE Precedes(Items', f.cur, x)
            <7>1. f.cur # Items[q] /\ x # Items[q] /\ Items \in Seq(Cells)
              BY <3>4, <5>2 DEF IInv, ListInv
            <7>2. Precedes(RemovedAt(Items, q), f.cur, x)
              BY <6>1, <7>1, RemoveKeepsOrder
            <7> QED
              BY <2>1, <7>2
          <6>2. ASSUME NEW x \in g.todo, Precedes(Items, x, f.cur) PROVE Precedes(Items', x, f.cur)
            <7>1. f.cur # Items[q] /\ x # Items[q] /\ Items \in Seq(Cells)
              BY <3>4, <5>2 DEF IInv, ListInv
            <7>2. Precedes(RemovedAt(Items, q), x, f.cur)
              BY <6>2, <7>1, RemoveKeepsOrder
            <7> QED
              BY <2>1, <7>2
          <6>3. g.todo \subseteq f.todo
            BY <3>4
          <6> QED
            BY <3>4, <5>1, <6>1, <6>2, <6>3 DEF Ahead
        <5> QED
          BY <2>2, <3>4, <4>2, <5>1, <5>3, <5>4 DEF FrameInv
      <4> QED
        BY <4>1, <4>2
    <3>7. MaxDepth >= 1
      BY <2>5, OneFrame
    <3>8. FrameInv(trav[1])'
      BY <3>3, <3>6
    <3>9. TravInv'
      BY <3>5, <3>8 DEF TravInv
    <3> QED
      BY <1>2, <2>1, <2>3, <3>1, <3>5, <3>7, <3>9 DEF IInv, TypeOK
  <2> QED
    BY <2>4, <2>5
<1> QED
  BY <1>4, <1>5 DEF DeleteItem

(* A traversal begins. *)
LEMMA ForeachStep ==
    ASSUME MaxDepth <= 1, IInv, NEW dir \in {"next", "prev"}, Foreach(dir)
    PROVE  IInv' /\ Elements' = Elements
<1> DEFINE first == IF dir = "next" THEN head ELSE tail
<1>1. trav = <<>> /\ asked = {} /\ MaxDepth >= 1
  BY MyListAssumption DEF IInv, TypeOK, TravInv, Foreach
<1>2. /\ Reach(first, <<>>, foreach, dir, Elements)
      /\ UNCHANGED <<structure, used, data, next, prev, lost, asked>>
  BY <1>1 DEF Foreach
<1>3. Items' = Items
  BY <1>2 DEF Items, structure
<1>4. Elements' = Elements
  BY <1>3 DEF Elements
<1>5. ListInv' /\ MemoryInv'
  BY <1>2, <1>3, <1>4 DEF IInv, ListInv, MemoryInv, structure
<1>6. /\ first \in Pointers
      /\ first = Null => Elements = {}
      /\ first # Null => /\ first \in Elements
                         /\ \A x \in Elements \ {first} : Ahead(dir, Items, first, x)
  BY AheadOfFirst DEF IInv
<1> HIDE DEF first
<1>7. Elements \in SUBSET Cells /\ foreach \in [Cells -> {0, 1}]
  BY DEF IInv, TypeOK, MemoryInv
<1>8. first # Null => first \in Elements' /\ \A x \in Elements \ {first} : Ahead(dir, Items', first, x)
  BY <1>3, <1>4, <1>6
<1>9. /\ TravInv'
      /\ trav' \in Seq(Traversals) /\ Len(trav') <= MaxDepth
      /\ foreach' \in [Cells -> {0, 1}]
  BY <1>1, <1>2, <1>6, <1>7, <1>8, NewFrame
<1>10. TypeOK'
  BY <1>2, <1>9 DEF IInv, TypeOK, structure
<1> QED
  BY <1>4, <1>5, <1>9, <1>10 DEF IInv

(* What the current frame says when its callback is running. *)
LEMMA CurrentFrame ==
    ASSUME IInv, trav # <<>>, Top.cur # Null
    PROVE  \E q \in 1 .. Len(Items), dir \in {"next", "prev"}, todo \in SUBSET Cells :
             /\ Top.cur = Items[q] /\ Top.dir = dir /\ Top.todo = todo
             /\ Items[q] \in Cells /\ Items[q] # Null
             /\ foreach[Items[q]] = 0 => asked = {Items[q]}
             /\ foreach[Items[q]] # 0 => asked = {}
             /\ \A x \in todo : Ahead(dir, Items, Items[q], x)
<1>1. Top \in Traversals /\ FrameInv(Top)
  BY OneFrame
<1>2. /\ Top.cur \in Elements /\ Top.dir \in {"next", "prev"} /\ Top.todo \in SUBSET Cells
      /\ asked = IF foreach[Top.cur] = 1 THEN {} ELSE {Top.cur}
      /\ \A x \in Top.todo : Ahead(Top.dir, Items, Top.cur, x)
  BY <1>1 DEF FrameInv, Traversals
<1>3. PICK q \in 1 .. Len(Items) : Top.cur = Items[q] /\ Items[q] \in Cells /\ Items[q] # Null
  BY <1>2, ListMeaning DEF IInv
<1>4. foreach[Items[q]] \in {0, 1}
  BY <1>3 DEF IInv, TypeOK
<1>5. /\ foreach[Items[q]] = 0 => asked = {Items[q]}
      /\ foreach[Items[q]] # 0 => asked = {}
  BY <1>2, <1>3, <1>4
<1>6. \A x \in Top.todo : Ahead(Top.dir, Items, Items[q], x)
  BY <1>2, <1>3
<1> HIDE DEF Top
<1> QED
  BY <1>2, <1>3, <1>5, <1>6

(* The loop goes on. *)
LEMMA ContinueStep ==
    ASSUME IInv, Continue
    PROVE  IInv' /\ (Elements \ Elements' \subseteq asked)
<1>1. trav # <<>> /\ Top.cur # Null
  BY DEF Continue
<1>2. PICK q \in 1 .. Len(Items), dir \in {"next", "prev"}, todo \in SUBSET Cells :
             /\ Top.cur = Items[q] /\ Top.dir = dir /\ Top.todo = todo
             /\ Items[q] \in Cells /\ Items[q] # Null
             /\ foreach[Items[q]] = 0 => asked = {Items[q]}
             /\ foreach[Items[q]] # 0 => asked = {}
             /\ \A x \in todo : Ahead(dir, Items, Items[q], x)
  BY <1>1, CurrentFrame
<1>3. PICK i, to : i = Items[q] /\ to = Follow(Items[q], dir)
  OBVIOUS
<1>4. /\ Front(trav) = <<>> /\ Forget(Front(trav), i) = <<>> /\ MaxDepth >= 1
  BY <1>1, OneFrame
<1>5. \/ /\ foreach[i] = 0
         /\ Unlink(i)
         /\ Reach(to, <<>>, foreach, dir, todo)
      \/ /\ foreach[i] # 0
         /\ Reach(to, <<>>, [foreach EXCEPT ![i] = 0], dir, todo)
         /\ UNCHANGED <<structure, used, data, next, prev, lost, asked>>
  BY <1>2, <1>3, <1>4 DEF Continue
<1>6. /\ to \in Pointers
      /\ i \notin todo
      /\ to = Null => todo = {}
      /\ to # Null => /\ to \in Elements /\ to # i
                      /\ \A x \in todo \ {to} : Ahead(dir, Items, to, x)
  <2>1. \A x \in todo : Ahead(dir, Items, Items[q], x)
    BY <1>2
  <2>2. LET after == Follow(Items[q], dir) IN
          /\ after \in Pointers
          /\ Items[q] \notin todo
          /\ after = Null => todo = {}
          /\ after # Null => /\ after \in Elements /\ after # Items[q]
                             /\ \A x \in todo \ {after} : Ahead(dir, Items, after, x)
    BY <2>1, AheadOfNext DEF IInv
  <2> QED
    BY <1>3, <2>2
<1>7. foreach \in [Cells -> {0, 1}] /\ i \in Cells
  BY <1>2, <1>3 DEF IInv, TypeOK
<1>8. CASE foreach[i] = 0 /\ Unlink(i) /\ Reach(to, <<>>, foreach, dir, todo)
  <2>1. /\ ListInv' /\ MemoryInv'
        /\ Items' = RemovedAt(Items, q)
        /\ Elements' = Elements \ {Items[q]}
        /\ head' \in Pointers /\ tail' \in Pointers
        /\ length' \in 0 .. Cardinality(Cells)
        /\ used' \subseteq Cells /\ lost' \subseteq used' /\ asked' \subseteq used'
        /\ data' \in [Cells -> Data \cup {Null}]
        /\ next' \in [Cells -> Pointers] /\ prev' \in [Cells -> Pointers]
        /\ asked' = asked \ {Items[q]}
    BY <1>3, <1>8, UnlinkStep
  <2>2. asked = {i} /\ asked' = {}
    BY <1>2, <1>3, <1>8, <2>1
  <2>3. ASSUME to # Null
        PROVE  to \in Elements' /\ \A x \in todo \ {to} : Ahead(dir, Items', to, x)
    <3>1. to \in Elements'
      BY <1>3, <1>6, <2>1, <2>3
    <3>2. Items \in Seq(Cells) /\ to # Items[q] /\ Items[q] \notin todo
      BY <1>3, <1>6, <2>3 DEF IInv, ListInv
    <3>3. ASSUME NEW x \in todo \ {to}, Precedes(Items, to, x)
          PROVE  Precedes(RemovedAt(Items, q), to, x)
      <4>1. x # Items[q]
        BY <3>2
      <4> QED
        BY <3>2, <3>3, <4>1, RemoveKeepsOrder
    <3>4. ASSUME NEW x \in todo \ {to}, Precedes(Items, x, to)
          PROVE  Precedes(RemovedAt(Items, q), x, to)
      <4>1. x # Items[q]
        BY <3>2
      <4> QED
        BY <3>2, <3>4, <4>1, RemoveKeepsOrder
    <3> QED
      BY <1>6, <2>1, <2>3, <3>1, <3>3, <3>4 DEF Ahead
  <2>4. /\ TravInv'
        /\ trav' \in Seq(Traversals) /\ Len(trav') <= MaxDepth
        /\ foreach' \in [Cells -> {0, 1}]
    BY <1>4, <1>6, <1>7, <1>8, <2>2, <2>3, NewFrame
  <2>5. TypeOK'
    BY <2>1, <2>4 DEF TypeOK
  <2> QED
    BY <1>3, <2>1, <2>2, <2>4, <2>5 DEF IInv
<1>9. CASE /\ foreach[i] # 0
           /\ Reach(to, <<>>, [foreach EXCEPT ![i] = 0], dir, todo)
           /\ UNCHANGED <<structure, used, data, next, prev, lost, asked>>
  <2>1. asked' = {}
    BY <1>2, <1>3, <1>9
  <2>2. Items' = Items
    BY <1>9 DEF Items, structure
  <2>3. Elements' = Elements
    BY <2>2 DEF Elements
  <2>4. ListInv' /\ MemoryInv'
    BY <1>9, <2>2, <2>3 DEF IInv, ListInv, MemoryInv, structure
  <2>5. PICK mem \in [Cells -> {0, 1}] : mem = [foreach EXCEPT ![i] = 0]
    BY <1>7
  <2>6. to # Null => to \in Elements' /\ \A x \in todo \ {to} : Ahead(dir, Items', to, x)
    BY <1>6, <2>2, <2>3
  <2>7. Reach(to, <<>>, mem, dir, todo)
    BY <1>9, <2>5
  <2>8. /\ TravInv'
        /\ trav' \in Seq(Traversals) /\ Len(trav') <= MaxDepth
        /\ foreach' \in [Cells -> {0, 1}]
    BY <1>4, <1>6, <2>1, <2>6, <2>7, NewFrame
  <2>9. TypeOK'
    BY <1>9, <2>8 DEF IInv, TypeOK, structure
  <2> QED
    BY <2>3, <2>4, <2>8, <2>9 DEF IInv
<1> QED
  BY <1>5, <1>8, <1>9

(* The loop is left. *)
LEMMA BreakStep ==
    ASSUME IInv, Break
    PROVE  IInv' /\ (Elements \ Elements' \subseteq asked)
<1>1. trav # <<>> /\ Top.cur # Null
  BY DEF Break
<1>2. PICK q \in 1 .. Len(Items), dir \in {"next", "prev"}, todo \in SUBSET Cells :
             /\ Top.cur = Items[q] /\ Top.dir = dir /\ Top.todo = todo
             /\ Items[q] \in Cells /\ Items[q] # Null
             /\ foreach[Items[q]] = 0 => asked = {Items[q]}
             /\ foreach[Items[q]] # 0 => asked = {}
             /\ \A x \in todo : Ahead(dir, Items, Items[q], x)
  BY <1>1, CurrentFrame
<1>3. PICK i : i = Items[q]
  OBVIOUS
<1>4. Front(trav) = <<>> /\ Forget(Front(trav), i) = <<>>
  BY <1>1, OneFrame
<1>5. \/ foreach[i] = 0 /\ Unlink(i) /\ trav' = <<>> /\ UNCHANGED foreach
      \/ /\ foreach[i] # 0
         /\ trav' = <<>>
         /\ foreach' = [foreach EXCEPT ![i] = 0]
         /\ UNCHANGED <<structure, used, data, next, prev, lost, asked>>
  BY <1>2, <1>3, <1>4 DEF Break
<1>6. foreach \in [Cells -> {0, 1}] /\ i \in Cells
  BY <1>2, <1>3 DEF IInv, TypeOK
<1>7. trav' = <<>> /\ foreach' \in [Cells -> {0, 1}]
  BY <1>5, <1>6
<1>8. trav' \in Seq(Traversals) /\ Len(trav') <= MaxDepth
  BY <1>7, MyListAssumption
<1>9. CASE foreach[i] = 0 /\ Unlink(i)
  <2>1. /\ ListInv' /\ MemoryInv'
        /\ Items' = RemovedAt(Items, q)
        /\ Elements' = Elements \ {Items[q]}
        /\ head' \in Pointers /\ tail' \in Pointers
        /\ length' \in 0 .. Cardinality(Cells)
        /\ used' \subseteq Cells /\ lost' \subseteq used' /\ asked' \subseteq used'
        /\ data' \in [Cells -> Data \cup {Null}]
        /\ next' \in [Cells -> Pointers] /\ prev' \in [Cells -> Pointers]
        /\ asked' = asked \ {Items[q]}
    BY <1>3, <1>9, UnlinkStep
  <2>2. asked = {i} /\ asked' = {}
    BY <1>2, <1>3, <1>9, <2>1
  <2> QED
    BY <1>3, <1>7, <1>8, <2>1, <2>2 DEF IInv, TypeOK, TravInv
<1>10. CASE foreach[i] # 0 /\ UNCHANGED <<structure, used, data, next, prev, lost, asked>>
  <2>1. asked' = {}
    BY <1>2, <1>3, <1>10
  <2>2. Items' = Items
    BY <1>10 DEF Items, structure
  <2>3. Elements' = Elements
    BY <2>2 DEF Elements
  <2>4. ListInv' /\ MemoryInv'
    BY <1>10, <2>2, <2>3 DEF IInv, ListInv, MemoryInv, structure
  <2>5. TypeOK'
    BY <1>7, <1>8, <1>10 DEF IInv, TypeOK, structure
  <2> QED
    BY <1>7, <2>1, <2>3, <2>4, <2>5 DEF IInv, TravInv
<1> QED
  BY <1>5, <1>9, <1>10

(* The loop has come to its end. *)
LEMMA FinishStep ==
    ASSUME IInv, Finish
    PROVE  IInv' /\ Elements' = Elements
<1>1. /\ trav # <<>> /\ Top.cur = Null /\ trav' = Front(trav)
      /\ UNCHANGED <<structure, memory, lost, asked>>
  BY DEF Finish
<1>2. trav' = <<>> /\ asked = {}
  BY <1>1, OneFrame DEF FrameInv
<1>3. trav' \in Seq(Traversals) /\ Len(trav') <= MaxDepth
  BY <1>2, MyListAssumption
<1>4. Items' = Items
  BY <1>1 DEF Items, structure, memory
<1>5. Elements' = Elements
  BY <1>4 DEF Elements
<1>6. ListInv' /\ MemoryInv'
  BY <1>1, <1>4, <1>5 DEF IInv, ListInv, MemoryInv, structure, memory
<1>7. TypeOK'
  BY <1>1, <1>3 DEF IInv, TypeOK, structure, memory
<1> QED
  BY <1>1, <1>2, <1>5, <1>6, <1>7 DEF IInv, TravInv

(* The list becomes empty. *)
LEMMA EmptyStep ==
    ASSUME IInv, Clear \/ Uninit
    PROVE  IInv'
<1>1. /\ trav = <<>> /\ trav' = <<>>
      /\ head' = Null /\ tail' = Null /\ length' = 0
      /\ Scrub(Elements)
      /\ asked' = asked
  BY DEF Clear, Uninit
<1>2. asked' = {}
  BY <1>1 DEF IInv, TravInv
<1>3. ListInv' /\ Elements' = {} /\ length' \in 0 .. Cardinality(Cells)
  <2>1. Linked(<<>>, head', tail', next', prev', Null) /\ length' = Len(<<>>)
    BY <1>1, EmptyList
  <2>2. <<>> \in Seq(Cells)
    BY EmptyList
  <2>3. /\ ListInv' /\ Elements' = {(<<>>)[p] : p \in 1 .. Len(<<>>)}
        /\ length' \in 0 .. Cardinality(Cells)
    BY <2>1, <2>2, NewList
  <2> QED
    BY <2>3
<1>4. /\ next' \in [Cells -> Pointers] /\ prev' \in [Cells -> Pointers]
      /\ data' \in [Cells -> Data \cup {Null}] /\ foreach' \in [Cells -> {0, 1}]
  BY <1>1 DEF IInv, TypeOK, Scrub, Pointers
<1>5. MemoryInv' /\ used' \subseteq Cells /\ lost' \subseteq used'
  <2>1. used = Elements \cup lost /\ Elements \cap lost = {} /\ used \subseteq Cells
    BY DEF IInv, MemoryInv, TypeOK
  <2>2. CASE Clear
    BY <1>3, <2>1, <2>2 DEF Clear, MemoryInv
  <2>3. CASE Uninit
    <3>1. length = 0 => Elements = {}
      BY ListMeaning DEF IInv
    <3>2. length > 0 \/ length = 0
      BY DEF IInv, TypeOK
    <3>3. used' = lost /\ lost' = lost
      BY <2>1, <2>3, <3>1, <3>2 DEF Uninit
    <3> QED
      BY <1>3, <2>1, <3>3 DEF MemoryInv
  <2> QED
    BY <2>2, <2>3
<1>6. TypeOK'
  <2>1. trav' \in Seq(Traversals) /\ Len(trav') <= MaxDepth
    BY <1>1, MyListAssumption
  <2> QED
    BY <1>1, <1>2, <1>3, <1>4, <1>5, <2>1 DEF TypeOK, Pointers
<1> QED
  BY <1>1, <1>2, <1>3, <1>5, <1>6 DEF IInv, TravInv

(* So does every step of the specification. *)
LEMMA NextIInv == ASSUME MaxDepth <= 1, IInv, [Next]_vars PROVE IInv'
<1>1. ASSUME NEW d \in Data,
             \/ Add(d) \/ Prepend(d) \/ PutLast(d) \/ SortAdd(d) \/ LookAdd(d)
             \/ \E at \in Elements : IterInsert(at, d)
      PROVE  IInv'
  <2>1. (\E i \in Cells : Puts(d, i)) \/ UNCHANGED core
    BY <1>1, CallsPut DEF IInv
  <2>2. ASSUME NEW i \in Cells, Puts(d, i) PROVE IInv'
    BY <2>2, PutStep DEF Puts
  <2> QED
    BY <2>1, <2>2, QuietStep
<1>2. ASSUME NEW i \in Elements, i \notin asked, DeleteItem(i) PROVE IInv'
  <2>1. PICK q \in 1 .. Len(Items) : i = Items[q]
    BY ListMeaning DEF IInv
  <2> QED
    BY <1>2, <2>1, DeleteStep
<1>3. ASSUME NEW d \in Data, Delete(d) PROVE IInv'
  <2>1. CASE Lookup(d) = Null
    <3>1. UNCHANGED core
      BY <1>3, <2>1 DEF Delete, core
    <3> QED
      BY <3>1, QuietStep
  <2>2. CASE Lookup(d) # Null
    <3>1. Lookup(d) \in Elements
      BY <2>2, LookupIn, ListMeaning DEF IInv
    <3>2. Lookup(d) \notin asked /\ DeleteItem(Lookup(d))
      BY <1>3, <2>2 DEF Delete, MayDelete
    <3> QED
      BY <1>2, <3>1, <3>2
  <2> QED
    BY <2>1, <2>2
<1>4. ASSUME NEW i \in Elements, IterDelete(i) PROVE IInv'
  BY <1>2, <1>4 DEF IterDelete, MayDelete
<1>5. CASE UNCHANGED vars
  BY <1>5, QuietStep DEF vars, core, structure, memory
<1> QED
  BY <1>1, <1>3, <1>4, <1>5, EmptyStep, ForeachStep, ContinueStep, BreakStep, FinishStep
     DEF Next

-----------------------------------------------------------------------------
(* The theorems, for lists of any length. *)

(* The invariant holds for every memory and every data, whatever a callback *)
(* does to the list.                                                        *)
THEOREM ListInvariant == MaxDepth <= 1 => (Spec => []IInv)
<1> SUFFICES ASSUME MaxDepth <= 1 PROVE Spec => []IInv
  OBVIOUS
<1>1. Init => IInv
  BY InitIInv
<1>2. IInv /\ [Next]_vars => IInv'
  BY NextIInv
<1> QED
  BY <1>1, <1>2, PTL DEF Spec

(* The structure is a doubly linked list, none of its items is freed, no    *)
(* other item is left over and no deletion that was put off is forgotten.   *)
THEOREM ListWellLinked == MaxDepth <= 1 => (Spec => []WellLinked)
<1> SUFFICES ASSUME MaxDepth <= 1 PROVE Spec => []WellLinked
  OBVIOUS
<1>1. IInv => WellLinked
  <2> SUFFICES ASSUME IInv PROVE WellLinked
    OBVIOUS
  <2>1. Items \in Seq(Cells) /\ Linked(Items, head, tail, next, prev, Null) /\ length = Len(Items)
    BY DEF IInv, ListInv
  <2>2. /\ Reverse(Items) \in Seq(Cells) /\ Distinct(Reverse(Items))
        /\ Follows(Reverse(Items), tail, prev, Null)
        /\ Reverse(Reverse(Items)) = Items
    BY <2>1, FollowsBack
  <2>3. Chain(tail, prev) = Reverse(Items)
    BY <2>2, ChainIs
  <2>4. Items = Reverse(Chain(tail, prev))
    BY <2>2, <2>3
  <2>5. Cardinality(Elements) = Len(Items)
    <3>1. Cardinality({Items[p] : p \in 1 .. Len(Items)}) = Len(Items)
      BY <2>1, MyListAssumption, DistinctCount DEF Linked
    <3>2. Elements = {Items[p] : p \in 1 .. Len(Items)}
      BY ListMeaning DEF IInv
    <3> QED
      BY <3>1, <3>2
  <2>6. trav = <<>> => asked = {}
    BY DEF IInv, TravInv
  <2> QED
    BY <2>1, <2>4, <2>5, <2>6 DEF IInv, MemoryInv, WellLinked
<1>2. Spec => []IInv
  BY ListInvariant
<1> QED
  BY <1>1, <1>2, PTL

(* A traversal never stands on freed memory. *)
THEOREM ListCursorAlive == MaxDepth <= 1 => (Spec => []CursorAlive)
<1> SUFFICES ASSUME MaxDepth <= 1 PROVE Spec => []CursorAlive
  OBVIOUS
<1>1. IInv => CursorAlive
  <2> SUFFICES ASSUME IInv PROVE CursorAlive
    OBVIOUS
  <2>1. CASE trav = <<>>
    BY <2>1 DEF CursorAlive, Cursors
  <2>2. CASE trav # <<>>
    <3>1. FrameInv(Top) /\ Cursors = {Top.cur} \ {Null}
      BY <2>2, OneFrame
    <3> QED
      BY <3>1 DEF CursorAlive, FrameInv
  <2> QED
    BY <2>1, <2>2
<1>2. Spec => []IInv
  BY ListInvariant
<1> QED
  BY <1>1, <1>2, PTL

(* The function is called for every element: what a traversal has not come  *)
(* to yet is still found from its current item on.                          *)
THEOREM ListNothingSkipped == MaxDepth <= 1 => (Spec => []NothingSkipped)
<1> SUFFICES ASSUME MaxDepth <= 1 PROVE Spec => []NothingSkipped
  OBVIOUS
<1>1. IInv => NothingSkipped
  <2> SUFFICES ASSUME IInv, NEW k \in DOMAIN trav
               PROVE  trav[k].todo \subseteq
                        IF trav[k].cur = Null THEN {}
                        ELSE ToSet(Chain(trav[k].cur, IF trav[k].dir = "next" THEN next ELSE prev))
                                 \ {trav[k].cur}
    BY DEF NothingSkipped
  <2>1. trav # <<>>
    OBVIOUS
  <2>2. trav[k] = Top /\ Top \in Traversals /\ FrameInv(Top)
    BY <2>1, OneFrame
  <2>3. CASE Top.cur = Null
    BY <2>2, <2>3 DEF FrameInv
  <2>4. CASE Top.cur # Null
    <3>1. PICK q \in 1 .. Len(Items), dir \in {"next", "prev"}, todo \in SUBSET Cells :
             /\ Top.cur = Items[q] /\ Top.dir = dir /\ Top.todo = todo
             /\ \A x \in todo : Ahead(dir, Items, Items[q], x)
      BY <2>1, <2>4, CurrentFrame
    <3>2. /\ Items \in Seq(Cells) /\ Linked(Items, head, tail, next, prev, Null)
          /\ Distinct(Items) /\ Follows(Items, head, next, Null)
          /\ \A p, r \in 1 .. Len(Items) : Items[p] = Items[r] => p = r
      BY DEF IInv, ListInv, Linked, Distinct
    <3>3. CASE dir = "next"
      <4>1. \A r \in 1 .. Len(Items) : r > q => Items[r] \in ToSet(Chain(Items[q], next)) \ {Items[q]}
        BY <3>2, ChainFrom
      <4>2. ASSUME NEW x \in todo PROVE \E r \in 1 .. Len(Items) : r > q /\ x = Items[r]
        <5>1. PICK p \in 1 .. Len(Items), r \in 1 .. Len(Items) :
                  p < r /\ Items[p] = Items[q] /\ Items[r] = x
          BY <3>1, <3>3 DEF Ahead, Precedes
        <5> QED
          BY <3>2, <5>1
      <4>3. todo \subseteq ToSet(Chain(Items[q], next)) \ {Items[q]}
        BY <4>1, <4>2
      <4> QED
        BY <2>2, <2>4, <3>1, <3>3, <4>3
    <3>4. CASE dir = "prev"
      <4>1. PICK s : s = Reverse(Items)
        OBVIOUS
      <4>2. s \in Seq(Cells) /\ Distinct(s) /\ Follows(s, tail, prev, Null)
        BY <3>2, <4>1, FollowsBack
      <4>3. /\ Len(Items) \in Nat /\ Len(s) = Len(Items)
            /\ \A p \in 1 .. Len(Items) : s[p] = Items[(Len(Items) - p) + 1]
        <5>1. s = [p \in 1 .. Len(Items) |-> Items[(Len(Items) - p) + 1]]
          BY <4>1 DEF Reverse
        <5>2. Len(Items) \in Nat
          BY <3>2
        <5> QED
          BY <5>1, <5>2
      <4>4. PICK m : m = (Len(Items) - q) + 1
        OBVIOUS
      <4>5. m \in 1 .. Len(s) /\ s[m] = Items[q]
        <5>1. m \in 1 .. Len(Items) /\ (Len(Items) - m) + 1 = q
          BY <4>3, <4>4
        <5> QED
          BY <4>3, <5>1
      <4>6. \A r \in 1 .. Len(s) : r > m => s[r] \in ToSet(Chain(s[m], prev)) \ {s[m]}
        BY <4>2, <4>5, ChainFrom
      <4>7. ASSUME NEW x \in todo PROVE \E r \in 1 .. Len(s) : r > m /\ x = s[r]
        <5>1. PICK p \in 1 .. Len(Items), r \in 1 .. Len(Items) :
                  p < r /\ Items[p] = x /\ Items[r] = Items[q]
          BY <3>1, <3>4 DEF Ahead, Precedes
        <5>2. p < q
          BY <3>2, <5>1
        <5>3. /\ (Len(Items) - p) + 1 \in 1 .. Len(s) /\ (Len(Items) - p) + 1 > m
              /\ s[(Len(Items) - p) + 1] = Items[p]
          <6>1. PICK l : l = (Len(Items) - p) + 1
            OBVIOUS
          <6>2. l \in 1 .. Len(Items) /\ l > m /\ (Len(Items) - l) + 1 = p
            BY <4>3, <4>4, <5>2, <6>1
          <6> QED
            BY <4>3, <6>1, <6>2
        <5> QED
          BY <5>1, <5>3
      <4>8. todo \subseteq ToSet(Chain(Items[q], prev)) \ {Items[q]}
        BY <4>5, <4>6, <4>7
      <4> QED
        BY <2>2, <2>4, <3>1, <3>4, <4>8
    <3> QED
      BY <3>3, <3>4
  <2> QED
    BY <2>3, <2>4
<1>2. Spec => []IInv
  BY ListInvariant
<1> QED
  BY <1>1, <1>2, PTL

(* No item leaves the list but the one a call deletes and those whose       *)
(* deletion was put off.                                                    *)
THEOREM ListOnlyAskedLeave == MaxDepth <= 1 => (Spec => OnlyAskedLeave)
<1> SUFFICES ASSUME MaxDepth <= 1 PROVE Spec => OnlyAskedLeave
  OBVIOUS
<1> DEFINE May(i) == \/ i \in asked
                     \/ last'.op = "iter_delete" /\ i = last'.res
                     \/ last'.op = "delete" /\ i = Lookup(last'.data)
                     \/ last'.op \in {"clear", "uninit"}
           Leaves == \A i \in Elements \ Elements' : May(i)
<1>1. ASSUME IInv, Next PROVE Leaves
  <2>1. ASSUME NEW d \in Data,
               \/ Add(d) \/ Prepend(d) \/ PutLast(d) \/ SortAdd(d) \/ LookAdd(d)
               \/ \E at \in Elements : IterInsert(at, d)
        PROVE  Elements \subseteq Elements'
    <3>1. (\E i \in Cells : Puts(d, i)) \/ UNCHANGED core
      BY <1>1, <2>1, CallsPut DEF IInv
    <3>2. ASSUME NEW i \in Cells, Puts(d, i) PROVE Elements \subseteq Elements'
      BY <1>1, <3>2, PutStep DEF Puts
    <3> QED
      BY <1>1, <3>1, <3>2, QuietStep
  <2>2. ASSUME NEW d \in Data, Delete(d) PROVE Leaves
    <3>1. CASE UNCHANGED <<structure, memory, lost, trav, asked>>
      <4>1. head' = head /\ next' = next
        BY <3>1 DEF structure, memory
      <4> QED
        BY <4>1 DEF Elements, Items
    <3>2. CASE Lookup(d) # Null /\ DeleteItem(Lookup(d)) /\ Called("delete", d, 0)
      <4>1. PICK q \in 1 .. Len(Items) : Lookup(d) = Items[q]
        BY <1>1, <3>2, LookupIn DEF IInv
      <4>2. Elements \ Elements' \subseteq {Lookup(d)}
        BY <1>1, <3>2, <4>1, DeleteTakes
      <4>3. last'.op = "delete" /\ last'.data = d
        BY <3>2 DEF Called
      <4> QED
        BY <4>2, <4>3
    <3> QED
      BY <2>2, <3>1, <3>2 DEF Delete
  <2>3. ASSUME NEW e \in Elements, IterDelete(e) PROVE Leaves
    <3>1. PICK q \in 1 .. Len(Items) : e = Items[q]
      BY <1>1, <2>3, ListMeaning DEF IInv
    <3>2. Elements \ Elements' \subseteq {e}
      BY <1>1, <2>3, <3>1, DeleteTakes DEF IterDelete
    <3>3. last'.op = "iter_delete" /\ last'.res = e
      BY <2>3 DEF IterDelete, Called
    <3> QED
      BY <3>2, <3>3
  <2>4. ASSUME Clear \/ Uninit PROVE last'.op \in {"clear", "uninit"}
    BY <2>4 DEF Clear, Uninit, Called
  <2>5. ASSUME NEW dir \in {"next", "prev"}, Foreach(dir) PROVE Elements' = Elements
    BY <1>1, <2>5, ForeachStep
  <2>6. ASSUME Continue \/ Break PROVE Elements \ Elements' \subseteq asked
    BY <1>1, <2>6, ContinueStep, BreakStep
  <2>7. ASSUME Finish PROVE Elements' = Elements
    BY <1>1, <2>7, FinishStep
  <2> QED
    BY <1>1, <2>1, <2>2, <2>3, <2>4, <2>5, <2>6, <2>7 DEF Next
<1>2. IInv /\ [Next]_vars => [Leaves]_vars
  BY <1>1
<1>3. Spec => []IInv
  BY ListInvariant
<1> QED
  BY <1>2, <1>3, PTL DEF Spec, OnlyAskedLeave
=============================================================================

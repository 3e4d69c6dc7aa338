------------------------------- MODULE RbTree -------------------------------
(***************************************************************************)
(* my_rbtree (my_rbtree.c): a red-black tree of keys with a count each,    *)
(* whose leaves are one shared sentinel, null_element.  A tree holds a key *)
(* at most once, so that an element is named by its key.                   *)
(*                                                                         *)
(* The tree is a record: the root, the children of every element on its    *)
(* two sides, and the elements whose colour is RED.  The code is written   *)
(* out twice, mirrored; here side s stands for left or right.              *)
(***************************************************************************)
EXTENDS Integers, Sequences, SequencesExt, FiniteSetsExt

CONSTANTS Keys,            \* a set of positive integers, compared as such
          CountBits,       \* the width of the bit field count (31 in the code)
          Options,         \* how trees may be made
          Repeated,        \* bound: the keys that are inserted again
          RefusalBound     \* bound: elements accounted for, but refused

ASSUME RbTreeAssumption == /\ Keys \subseteq Nat \ {0}
                           /\ CountBits \in Nat \ {0}
                           /\ Options \subseteq [is_delete : BOOLEAN, free : BOOLEAN,
                                              no_duplicates : BOOLEAN, memory_limit : Nat]
                           /\ Repeated \subseteq Keys
                           /\ RefusalBound \in Nat

Nil   == 0                 \* &tree->null_element
NULL  == -1
Nodes == Keys \union {Nil}
Sides == {"left", "right"}
Other(s) == CHOOSE o \in Sides : o # s

VARIABLES options,         \* how the tree has been made
          tree,
          count,           \* of every element
          elements,
          allocated,       \* in elements, as all keys have one size here
          kept,            \* the keys the tree has taken and not yet freed
          cursor,          \* parents[0 .. last_pos] of a search, <<>> after changes
          found,           \* the key the search came to, or NULL
          did              \* the last call, its key and whether it succeeded

vars == <<options, tree, count, elements, allocated, kept, cursor, found, did>>

IsDelete     == options.is_delete       \* elements are allocated one by one
HasFree      == options.free            \* there is a function to free keys
NoDuplicates == options.no_duplicates   \* rbtree_NO_DUPLICATES in flag
MemoryLimit  == options.memory_limit    \* in elements; 0 when there is none

TypeOK == /\ options \in Options
          /\ tree.root \in Nodes
          /\ tree.kid \in [Nodes -> [Sides -> Nodes \union {NULL}]]
          /\ tree.red \subseteq Nodes
          /\ count \in [Keys -> 0 .. 2 ^ CountBits - 1]
          /\ elements \in 0 .. Cardinality(Keys)
          /\ allocated \in 0 .. Cardinality(Keys) + RefusalBound
          /\ kept \subseteq Keys
          /\ cursor \in Seq(Nodes)
          /\ found \in Keys \union {NULL}
-----------------------------------------------------------------------------
EmptyTree == [root |-> Nil, red |-> {},
              kid  |-> [n \in Nodes |-> [s \in Sides |-> NULL]],
              used |-> 1]  \* entries of parents used by the last change

(* A slot is where a pointer to an element is stored: &tree->root or the    *)
(* address of a child pointer; parents is a sequence of slots.              *)
RootSlot   == <<NULL, "left">>
At(t, p)   == IF p = RootSlot THEN t.root ELSE t.kid[p[1]][p[2]]
Put(t, p, n) == IF p = RootSlot THEN [t EXCEPT !.root = n]
                ELSE [t EXCEPT !.kid[p[1]][p[2]] = n]

Blacken(t, n) == [t EXCEPT !.red = @ \ {n}]
Redden(t, n)  == [t EXCEPT !.red = @ \union {n}]
IsRed(t, n)   == n \in t.red

(* The side of element n on which key k is to be looked for. *)
Toward(n, k) == IF n < k THEN "right" ELSE "left"

(* The slots from the root to where k is, or to where it would be. *)
RECURSIVE WayTo(_, _, _)
WayTo(t, parents, k) ==
    LET n == At(t, Last(parents))
    IN  IF n \in {Nil, k} THEN parents
        ELSE WayTo(t, Append(parents, <<n, Toward(n, k)>>), k)

(* rbtree_left_rotate and rbtree_right_rotate: leaf, in slot p, moves down  *)
(* to side s and its child on the other side takes its place.               *)
Rotate(t, p, leaf, s) ==
    LET y == t.kid[leaf][Other(s)]
        z == t.kid[y][s]
    IN  [Put([t EXCEPT !.kid[leaf][Other(s)] = z], p, y) EXCEPT !.kid[y][s] = leaf]

SideOf(t, n, par) == IF t.kid[par]["left"] = n THEN "left" ELSE "right"

(* The loop of rb_insert, for a red leaf in the last slot of parents. *)
RECURSIVE Rebalance(_, _, _)
Rebalance(t, parents, leaf) ==
    LET n    == Len(parents)
        par  == At(t, parents[n - 1])
        par2 == At(t, parents[n - 2])
        s    == SideOf(t, par, par2)
        y    == t.kid[par2][Other(s)]
        inner == leaf = t.kid[par][Other(s)]
        t1   == IF inner THEN Rotate(t, parents[n - 1], par, s) ELSE t
    IN  IF leaf = t.root \/ ~IsRed(t, par) THEN t
        ELSE IF IsRed(t, y)
          THEN Rebalance(Redden(Blacken(Blacken(t, par), y), par2),
                         SubSeq(parents, 1, n - 2), par2)
        ELSE Rotate(Redden(Blacken(t1, IF inner THEN leaf ELSE par), par2),
                    parents[n - 2], par2, Other(s))

(* rbtree_insert, for a key that is not there: the new element takes the    *)
(* place of the sentinel, and rb_insert.                                    *)
Grow(t, k) ==
    LET parents == WayTo(t, <<RootSlot>>, k)
        leafed  == [Put(t, Last(parents), k) EXCEPT !.kid[k] = [s \in Sides |-> Nil],
                                                    !.used = Len(parents)]
        done    == Rebalance(Redden(leafed, k), parents, k)
    IN  Blacken(done, done.root)

(* rb_delete_fixup: the element x in the last slot lacks one black. *)
RECURSIVE Fixup(_, _, _)
Fixup(t, parents, x) ==
    LET up    == parents[Len(parents) - 1]
        par   == At(t, up)
        s     == SideOf(t, x, par)
        o     == Other(s)
        v     == t.kid[par][o]
        pushed == IsRed(t, v)
        \* the sibling is made black, its old place is one more entry of parents
        t1    == IF pushed
                   THEN [Rotate(Redden(Blacken(t, v), par), up, par, s)
                            EXCEPT !.used = IF @ > Len(parents) THEN @ ELSE Len(parents) + 1]
                   ELSE t
        way   == IF pushed THEN Front(parents) \o << <<v, s>>, <<par, s>> >> ELSE parents
        over  == way[Len(way) - 1]
        w     == t1.kid[par][o]
        near  == t1.kid[w][s]
        far   == t1.kid[w][o]
        t2    == IF IsRed(t1, far) THEN t1
                 ELSE Rotate(Redden(Blacken(t1, near), w), <<par, o>>, w, o)
        w2    == t2.kid[par][o]
        t3    == IF IsRed(t2, par) THEN Redden(t2, w2) ELSE Blacken(t2, w2)
        t4    == Rotate(Blacken(Blacken(t3, par), t3.kid[w2][o]), over, par, s)
    IN  IF x = t.root \/ IsRed(t, x) THEN Blacken(t, x)
        ELSE IF ~IsRed(t1, near) /\ ~IsRed(t1, far)
          THEN Fixup(Redden(t1, w), Front(way), par)
        ELSE Blacken(t4, t4.root)

(* The slots from the last of parents on, down to the leftmost element. *)
RECURSIVE Leftmost(_, _)
Leftmost(t, parents) ==
    LET n == At(t, Last(parents))
    IN  IF t.kid[n]["left"] = Nil THEN parents ELSE Leftmost(t, Append(parents, <<n, "left">>))

(* Fault: the colour is that of the element, not of the one unlinked. *)
LostColourOfElement(t, element, nod) == IsRed(t, element)

(* remove_colour, of the element nod that is unlinked from its place. *)
LostColour(t, element, nod) == IsRed(t, nod)

(* rbtree_delete of the element k: it is replaced by its only child, or by  *)
(* the next element nod, unlinked from where it was.                        *)
Prune(t, k) ==
    LET parents == WayTo(t, <<RootSlot>>, k)
        d       == Len(parents)
        only    == IF t.kid[k]["left"] = Nil THEN t.kid[k]["right"] ELSE t.kid[k]["left"]
        two     == Nil \notin {t.kid[k]["left"], t.kid[k]["right"]}
        down    == Leftmost(t, Append(parents, <<k, "right">>))
        nod     == At(t, Last(down))
        t1      == Put(t, Last(down), t.kid[nod]["right"])
        t2      == [Put(t1, Last(parents), nod) EXCEPT !.kid[nod] = t1.kid[k]]
        t3      == IF IsRed(t, k) THEN Redden(t2, nod) ELSE Blacken(t2, nod)
        moved   == IF two THEN t3 ELSE Put(t, Last(parents), only)
        way     == IF two THEN [down EXCEPT ![d + 1] = <<nod, "right">>] ELSE parents
        lost    == LostColour(t, k, IF two THEN nod ELSE k)
        start   == [moved EXCEPT !.used = Len(way)]
        done    == IF lost THEN start ELSE Fixup(start, way, At(start, Last(way)))
    IN  [Blacken(done, k) EXCEPT !.kid[k] = [s \in Sides |-> NULL]]
-----------------------------------------------------------------------------
(* The elements of the tree, as walking it from the root finds them. *)
RECURSIVE Under(_, _)
Under(t, n) == IF t.kid[n]["left"] = NULL THEN {}
               ELSE {n} \union Under(t, t.kid[n]["left"]) \union Under(t, t.kid[n]["right"])

InTree == Under(tree, tree.root)

(* rbtree_search, and the search every change begins with: a way down by    *)
(* comparisons only.                                                        *)
Present(k) == At(tree, Last(WayTo(tree, <<RootSlot>>, k))) = k

Init == /\ options \in Options
        /\ tree = EmptyTree
        /\ count = [k \in Keys |-> 0]
        /\ elements = 0
        /\ allocated = 0
        /\ kept = {}
        /\ cursor = <<>> /\ found = NULL
        /\ did = <<"init">>

(* What a change of the tree leaves: no position of a search, and the options. *)
Forgotten == cursor' = <<>> /\ found' = NULL /\ UNCHANGED options

(* rbtree_uninit_element: whose keys the free function is called for. *)
FreedByUninit == IF HasFree THEN InTree ELSE {}

(* rbtree_free: all elements are freed, one by one or as a memory root. *)
Uninit == /\ tree' = EmptyTree
          /\ count' = [k \in Keys |-> 0]
          /\ elements' = 0
          /\ allocated' = 0
          /\ kept' = kept \ FreedByUninit
          /\ did' = <<"init">>
          /\ Forgotten

(* Fault: a full counter starts again from nought. *)
InsertAgainWrapping(k) ==
    /\ Present(k)
    /\ k \in Repeated
    /\ did' = <<"insert", k, ~NoDuplicates>>
    /\ count' = IF NoDuplicates THEN count
                ELSE [count EXCEPT ![k] = (@ + 1) % 2 ^ CountBits]
    /\ Forgotten
    /\ UNCHANGED <<tree, elements, allocated, kept>>

(* rbtree_insert of a key the tree has. *)
InsertAgain(k) ==
    /\ Present(k)
    /\ k \in Repeated
    /\ did' = <<"insert", k, ~NoDuplicates>>
    /\ count' = IF NoDuplicates THEN count
                ELSE [count EXCEPT ![k] = IF (@ + 1) % 2 ^ CountBits = 0 THEN @ ELSE @ + 1]
    /\ Forgotten
    /\ UNCHANGED <<tree, elements, allocated, kept>>

(* Fault: only the elements already there count for the limit. *)
OverLimitLate == MemoryLimit > 0 /\ elements > 0 /\ allocated > MemoryLimit

(* Whether one more element, counted beforehand, is too much. *)
OverLimit == MemoryLimit > 0 /\ elements > 0 /\ allocated + 1 > MemoryLimit

(* rbtree_insert of a new key; got is whether memory is found for it.  A    *)
(* tree that has become too large is emptied first.                         *)
InsertNew(k, got) ==
    LET freed == IF OverLimit THEN FreedByUninit ELSE {}
        base  == IF OverLimit THEN EmptyTree ELSE tree
        old   == IF OverLimit THEN [j \in Keys |-> 0] ELSE count
        size  == IF OverLimit THEN 0 ELSE elements
        grown == IF OverLimit THEN 1 ELSE allocated + 1
    IN  /\ ~Present(k)
        /\ grown - (IF got THEN size + 1 ELSE size) <= RefusalBound
        /\ allocated' = grown
        /\ tree' = IF got THEN Grow(base, k) ELSE base
        /\ count' = IF got THEN [old EXCEPT ![k] = 1] ELSE old
        /\ elements' = IF got THEN size + 1 ELSE size
        /\ kept' = (kept \ freed) \union (IF got /\ HasFree THEN {k} ELSE {})
        /\ did' = <<"insert", k, got>>
        /\ Forgotten


(* rbtree_delete, which needs elements allocated one by one. *)
Delete(k) ==
    /\ IsDelete
    /\ Present(k)
    /\ tree' = Prune(tree, k)
    /\ count' = [count EXCEPT ![k] = 0]
    /\ elements' = elements - 1
    /\ allocated' = allocated - 1
    /\ kept' = kept \ {k}
    /\ did' = <<"delete", k, TRUE>>
    /\ Forgotten

DeleteAbsent(k) == /\ ~IsDelete \/ ~Present(k)
                   /\ did' = <<"delete", k, FALSE>>
                   /\ UNCHANGED <<options, tree, count, elements, allocated, kept,
                                  cursor, found>>
-----------------------------------------------------------------------------
(* A search keeps the elements on its way in parents, below them the        *)
(* sentinel, and last_pos shows where in them it is.  What lies above       *)
(* last_pos is never read, and left out here.                               *)
RECURSIVE Downward(_, _)
Downward(path, s) == LET n == tree.kid[Last(path)][s]
                     IN  IF n = Nil THEN path ELSE Downward(Append(path, n), s)

KeyAt(path) == IF path = <<>> \/ Last(path) = Nil THEN NULL ELSE Last(path)

GoTo(path) == /\ cursor' = path
              /\ found' = KeyAt(path)
              /\ did' = <<"search">>
              /\ UNCHANGED <<options, tree, count, elements, allocated, kept>>

(* rbtree_search_edge: the least key (s = "left") or the greatest. *)
Edge(s) == IF tree.root = Nil THEN <<Nil>> ELSE Downward(<<Nil, tree.root>>, s)

SearchEdge(s) == GoTo(Edge(s))

(* Fault: the element one came from is not skipped when going up. *)
UpOnce(path, s) == Front(path)

(* Up to the first element that is left on another side than s. *)
Upward(path, s) ==
    SubSeq(path, 1, Max({i \in 1 .. Len(path) - 1 :
                            i = 1 \/ tree.kid[path[i]][s] # path[i + 1]}))

(* rbtree_search_next, with r_offs the offset of the child on side s. *)
SearchNext(s) ==
    LET below == tree.kid[Last(cursor)][s]
    IN  /\ found # NULL
        /\ GoTo(IF below # Nil THEN Downward(Append(cursor, below), Other(s))
                ELSE Upward(cursor, s))

(* rbtree_search_key.  With an equal key the way goes on, to the left or to *)
(* the right depending on the flag; other flags give up.                    *)
GoOnLeft  == {"HA_READ_KEY_EXACT", "HA_READ_KEY_OR_NEXT", "HA_READ_BEFORE_KEY"}
GoOnRight == {"HA_READ_AFTER_KEY", "HA_READ_PREFIX_LAST", "HA_READ_PREFIX_LAST_OR_PREV"}
Flags     == GoOnLeft \union GoOnRight \union {"HA_READ_KEY_OR_PREV"}

StepFrom(n, k, flag) == IF n = k THEN IF flag \in GoOnLeft THEN "left" ELSE "right"
                        ELSE Toward(n, k)

RECURSIVE WholeWay(_, _, _)
WholeWay(path, k, flag) ==
    LET n == IF path = <<Nil>> THEN tree.root
             ELSE tree.kid[Last(path)][StepFrom(Last(path), k, flag)]
    IN  IF n = Nil THEN path ELSE WholeWay(Append(path, n), k, flag)

(* Fault: an equal element is passed over, not remembered. *)
EqualElementForgotten(path, k, flag) == {}

(* Positions in parents: the equal element, and where steps were taken. *)
EqualElement(path, k, flag) ==
    IF flag = "HA_READ_AFTER_KEY" THEN {} ELSE {i \in 2 .. Len(path) : path[i] = k}

SearchPath(k, flag) ==
    LET path  == WholeWay(<<Nil>>, k, flag)
        equal == EqualElement(path, k, flag)
        stepped(s) == {i \in 2 .. Len(path) : StepFrom(path[i], k, flag) = s}
        or(i, j) == IF i # {} THEN i ELSE j
        pos   == CASE flag \in {"HA_READ_KEY_EXACT", "HA_READ_PREFIX_LAST"} -> equal
                   [] flag = "HA_READ_KEY_OR_NEXT" -> or(equal, stepped("left"))
                   [] flag = "HA_READ_AFTER_KEY" -> stepped("left")
                   [] flag = "HA_READ_PREFIX_LAST_OR_PREV" -> or(equal, stepped("right"))
                   [] flag = "HA_READ_BEFORE_KEY" -> stepped("right")
                   [] OTHER -> {}
    IN  IF pos = {} THEN <<>> ELSE SubSeq(path, 1, Max(pos))

SearchKey(k, flag) == GoTo(SearchPath(k, flag))

(* rbtree_record_pos, after or before the records of key k: an interval is  *)
(* halved at every step down (its ends are doubles; here they are counted   *)
(* in parts of 1 / Scale).                                                  *)
Scale == 2 ^ 10

RECURSIVE Halve(_, _, _, _, _)
Halve(n, left, right, k, after) ==
    LET mid == (left + right) \div 2
        s   == IF n = k THEN IF after THEN "right" ELSE "left" ELSE Toward(n, k)
    IN  IF n = Nil THEN (IF after THEN left ELSE right) \div Scale
        ELSE IF s = "right" THEN Halve(tree.kid[n][s], mid, right, k, after)
        ELSE Halve(tree.kid[n][s], left, mid, k, after)

RecordPos(k, after) == Halve(tree.root, Scale, elements * Scale, k, after)
-----------------------------------------------------------------------------
Next == \/ \E k \in Keys : \/ InsertAgain(k)
                           \/ \E got \in BOOLEAN : InsertNew(k, got)
                           \/ Delete(k)
                           \/ DeleteAbsent(k)
                           \/ \E flag \in Flags : SearchKey(k, flag)
        \/ \E s \in Sides : SearchEdge(s) \/ SearchNext(s)
        \/ Uninit

Spec == Init /\ [][Next]_vars
-----------------------------------------------------------------------------
(* test_rb_tree, the code's own check: the number of black elements on      *)
(* every way down, or -1 when two differ or a red one follows a red one.    *)
RECURSIVE TestRbTree(_)
TestRbTree(n) ==
    IF tree.kid[n]["left"] = NULL THEN 0
    ELSE LET l == TestRbTree(tree.kid[n]["left"])
             r == TestRbTree(tree.kid[n]["right"])
             twoRed == IsRed(tree, n) /\ \E s \in Sides : IsRed(tree, tree.kid[n][s])
         IN  IF twoRed \/ l < 0 \/ l # r THEN -1 ELSE IF IsRed(tree, n) THEN l ELSE l + 1

(* After every insertion and deletion the tree is a red-black tree, as      *)
(* test_rb_tree has it, with a black root, and the sentinel all leaves      *)
(* share, though rotations and recolourings write to it, is black and       *)
(* without children.  No insertion or deletion, with what rb_delete_fixup   *)
(* pushes, has used more of parents than the header reckons with: n entries *)
(* for 2^(n/2) leaves (a deletion has had one leaf more).                   *)
RedBlack == /\ TestRbTree(tree.root) >= 0
            /\ ~IsRed(tree, tree.root)
            /\ ~IsRed(tree, Nil)
            /\ \A s \in Sides : tree.kid[Nil][s] = NULL
            /\ 2 ^ tree.used <= (elements + 2) ^ 2

(* How often each key is in the tree. *)
Occurrences == LET held == InTree
               IN  [k \in Keys |-> IF k \in held THEN count[k] ELSE 0]

(* Keys are counted as KeyCounts says, elements are as many as keys, and    *)
(* neither rebalancing nor a tree emptied for its size confuses a key.      *)
Counts == INSTANCE KeyCounts
              WITH rules       <- [unique    |-> NoDuplicates,
                                  limited   |-> MemoryLimit > 0,
                                  removable |-> IsDelete],
                   times       <- Occurrences,
                   MostCounted <- 2 ^ CountBits - 1

ImplementsKeyCounts == Counts!CountsSpec

(* elements and allocated follow what the tree holds: allocated may be too  *)
(* large (when memory was refused) but never too small, so that subtracting *)
(* from it does not wrap; no tree of several elements is over the limit;    *)
(* and the free function has been called for every key that is not in the   *)
(* tree any more, and for none that is.  All variables have their types.    *)
Accounted == /\ TypeOK
             /\ elements = Cardinality(InTree)
             /\ allocated >= elements
             /\ MemoryLimit > 0 /\ elements > 1 => allocated <= MemoryLimit
             /\ kept = IF HasFree THEN InTree ELSE {}

(* Stepping from a found key, in either direction and after any search,     *)
(* leads to the next key there is, or to none when it was the last.         *)
Beyond(k, s) == {j \in InTree : IF s = "right" THEN j > k ELSE j < k}
Nearest(S, s) == IF S = {} THEN NULL ELSE IF s = "right" THEN Min(S) ELSE Max(S)

NextIsNeighbour ==
    [][\A s \in Sides : SearchNext(s) => found' = Nearest(Beyond(found, s), s)]_vars

(* The key rbtree_search_key is to find for each flag. *)
Asked(k, flag) ==
    LET same == {k} \cap InTree
    IN  CASE flag \in {"HA_READ_KEY_EXACT", "HA_READ_PREFIX_LAST"} -> Nearest(same, "right")
          [] flag = "HA_READ_KEY_OR_NEXT" -> Nearest(same \union Beyond(k, "right"), "right")
          [] flag = "HA_READ_AFTER_KEY" -> Nearest(Beyond(k, "right"), "right")
          [] flag = "HA_READ_PREFIX_LAST_OR_PREV" -> Nearest(same \union Beyond(k, "left"), "left")
          [] flag = "HA_READ_BEFORE_KEY" -> Nearest(Beyond(k, "left"), "left")
          [] OTHER -> NULL

(* The estimates of rbtree_record_pos are ordered as the keys are, so that  *)
(* the number of records between two keys never comes out negative.         *)
RecordPosOrdered ==
    \A k \in InTree :
        /\ 1 <= RecordPos(k, FALSE) /\ RecordPos(k, TRUE) <= elements
        /\ RecordPos(k, FALSE) <= RecordPos(k, TRUE)
        /\ \A j \in Beyond(k, "right") : RecordPos(k, TRUE) <= RecordPos(j, FALSE)

(* What callers learn of positions: rbtree_search_key finds what each flag  *)
(* asks for, and rbtree_record_pos never contradicts the order of the keys. *)
SearchKeyFinds ==
    /\ \A k \in Keys, flag \in Flags : KeyAt(SearchPath(k, flag)) = Asked(k, flag)
    /\ RecordPosOrdered
=============================================================================

------------------------------ MODULE MyQueue ------------------------------
(***************************************************************************)
(* my_queue (my_queue.c): a priority queue in a heap, the array root of    *)
(* which root[1] .. root[elements] are in use (root[0] is only a sentinel  *)
(* of queue_insert).  Here heap is that part of root, and an element is    *)
(* its key.                                                                *)
(***************************************************************************)
EXTENDS Integers, Sequences, SequencesExt, BagsExt

CONSTANTS Keys,            \* what is compared
          Sizes,           \* the values of max_elements callers ask for
          Extents,         \* the values auto_extent may have
          Capacity,        \* bound: queues are not extended beyond it
          FixBound         \* bound: queue_fix is called for at most so many elements

ASSUME MyQueueAssumption == /\ Keys \subseteq Int
                            /\ Sizes \subseteq 1 .. Capacity
                            /\ Extents \subseteq 0 .. Capacity
                            /\ Capacity \in Nat
                            /\ FixBound \in Nat

VARIABLES root,            \* FALSE when root is NULL: nothing is allocated
          heap,
          max_elements,
          max_at_top,      \* -1 when the greatest element is on top, else 1
          auto_extent,
          disturbed,       \* whether a removal has left an element below its place
          did              \* the last call, with the key put in or taken out

vars == <<root, heap, max_elements, max_at_top, auto_extent, disturbed, did>>

elements == Len(heap)

TypeOK == /\ root \in BOOLEAN
          /\ heap \in Seq(Keys)
          /\ max_elements \in elements .. Capacity
          /\ max_at_top \in {1, -1}
          /\ auto_extent \in Extents
          /\ disturbed \in BOOLEAN
-----------------------------------------------------------------------------
(* compare(a, b) * max_at_top: negative when a belongs above b. *)
Compare(a, b) == (a - b) * max_at_top

(* Fault: an element is only compared with its parent, not with those above. *)
ClimbOnce(h, element) ==
    LET idx == Len(h) + 1
        up  == idx \div 2
    IN  IF up > 0 /\ Compare(element, h[up]) < 0
          THEN Append([h EXCEPT ![up] = element], h[up])
          ELSE Append(h, element)

(* queue_insert: element moves up from position idx, past every ancestor it *)
(* belongs above; the sentinel stops it at the top.                         *)
Above(idx) ==
    LET up[k \in 0 .. idx] == IF k = 0 THEN idx ELSE up[k - 1] \div 2
    IN  {up[k] : k \in 0 .. idx} \ {0}

Climb(h, element) ==
    LET idx     == Len(h) + 1
        path    == Above(idx)
        passed  == {p \in path \ {idx} :
                       \A q \in path \ {idx} : q >= p => Compare(element, h[q]) < 0}
        rest    == IF passed = {} THEN idx ELSE Min(passed)
    IN  [p \in 1 .. idx |-> IF p = rest THEN element
                            ELSE IF p \in path /\ p > rest THEN h[p \div 2]
                            ELSE h[p]]

(* Fault: the last element is never taken for a right child. *)
BetterChildOffByOne(h, n, i) ==
    IF 2 * i + 1 < n /\ Compare(h[2 * i], h[2 * i + 1]) > 0 THEN 2 * i + 1 ELSE 2 * i

(* _downheap.  The better one of the children of i among n elements: *)
BetterChild(h, n, i) ==
    IF 2 * i < n /\ Compare(h[2 * i], h[2 * i + 1]) > 0 THEN 2 * i + 1 ELSE 2 * i

(* the way down from idx, always to the better child, to a leaf:            *)
WayDown(h, n, idx) ==
    LET at[k \in 0 .. n] ==
            IF k = 0 THEN idx
            ELSE IF at[k - 1] \in 1 .. n \div 2 THEN BetterChild(h, n, at[k - 1]) ELSE 0
    IN  [k \in 1 .. Cardinality({j \in 0 .. n : at[j] # 0}) |-> at[k - 1]]

(* the element at idx stays if no child belongs above it.  Otherwise its    *)
(* descendants move up one by one, all the way down, and from the leaf the  *)
(* element climbs back to below the last one that belongs above it.         *)
Downheap(h, idx) ==
    LET n       == Len(h)
        way     == WayDown(h, n, idx)
        element == h[idx]
        stops   == {k \in 2 .. Len(way) : k = 2 \/ Compare(h[way[k]], element) < 0}
        stop    == Max(stops)
    IN  IF Len(way) = 1 \/ Compare(h[way[2]], element) >= 0
          THEN h
          ELSE [p \in 1 .. n |->
                   IF p = way[stop] THEN element
                   ELSE IF \E k \in 1 .. stop - 1 : way[k] = p
                          THEN h[way[(CHOOSE k \in 1 .. stop - 1 : way[k] = p) + 1]]
                   ELSE h[p]]

(* queue_fix: _downheap for every inner node, the last one first. *)
Heapify(h) ==
    LET half == Len(h) \div 2
        fixed[i \in 1 .. half + 1] ==
            IF i = half + 1 THEN h ELSE Downheap(fixed[i + 1], i)
    IN  fixed[1]

-----------------------------------------------------------------------------
(* queue_init, which leaves auto_extent as it is in memory, and             *)
(* queue_init_ex, which sets it.                                            *)
Init == /\ root = TRUE
        /\ heap = <<>>
        /\ max_elements \in Sizes
        /\ max_at_top \in {1, -1}
        /\ auto_extent \in Extents
        /\ disturbed = FALSE
        /\ did = <<"init">>

QueueInit(n) == /\ ~root
                /\ root' = TRUE
                /\ heap' = <<>>
                /\ max_elements' = n
                /\ max_at_top' \in {1, -1}
                /\ auto_extent' \in Extents
                /\ disturbed' = FALSE
                /\ did' = <<"init">>

(* queue_resize, when my_realloc succeeds. *)
Resized(h, n) == SubSeq(h, 1, IF n < Len(h) THEN n ELSE Len(h))

QueueResize(n) == /\ root
                  /\ max_elements' = n
                  /\ heap' = Resized(heap, n)
                  /\ did' = <<"resize">>
                  /\ UNCHANGED <<root, max_at_top, auto_extent, disturbed>>

(* queue_reinit; the resize in it may fail, which goes unnoticed. *)
QueueReinit(n) == /\ root
                  /\ heap' = <<>>
                  /\ max_at_top' \in {1, -1}
                  /\ max_elements' \in {n, max_elements}
                  /\ disturbed' = FALSE
                  /\ did' = <<"reinit", n>>
                  /\ UNCHANGED <<root, auto_extent>>

QueueDelete == /\ root
               /\ root' = FALSE
               /\ heap' = <<>>
               /\ disturbed' = FALSE
               /\ did' = <<"init">>
               /\ UNCHANGED <<max_elements, max_at_top, auto_extent>>

(* queue_remove_all *)
RemoveAll == /\ root
             /\ heap' = <<>>
             /\ disturbed' = FALSE
             /\ did' = <<"init">>
             /\ UNCHANGED <<root, max_elements, max_at_top, auto_extent>>

(* queue_insert, where the caller sees to it that there is room. *)
QueueInsert(k) == /\ root
                  /\ elements < max_elements
                  /\ heap' = Climb(heap, k)
                  /\ did' = <<"insert", k>>
                  /\ UNCHANGED <<root, max_elements, max_at_top, auto_extent, disturbed>>

(* queue_insert_safe on a full queue: it is extended, or nothing is done    *)
(* (returning 2, or 1 when there is no memory).                             *)
QueueInsertExtending(k) ==
    /\ root
    /\ elements = max_elements
    /\ auto_extent # 0
    /\ max_elements + auto_extent <= Capacity
    /\ max_elements' = max_elements + auto_extent
    /\ heap' = Climb(heap, k)
    /\ did' = <<"insert", k>>
    /\ UNCHANGED <<root, max_at_top, auto_extent, disturbed>>

(* queue_remove: the last element takes the place of the removed one. *)
Removed(h, idx) == LET n == Len(h)
                       short == Front([h EXCEPT ![idx] = h[n]])
                   IN  IF idx = n THEN short ELSE Downheap(short, idx)

(* ... where it may belong above the parent: _downheap does not look up.     *)
LeftBelow(idx) == /\ idx \in 2 .. elements - 1
                  /\ Compare(heap[elements], heap[idx \div 2]) < 0

QueueRemove(idx) ==
    /\ root
    /\ idx \in 1 .. elements
    /\ heap' = Removed(heap, idx)
    /\ disturbed' = (disturbed \/ LeftBelow(idx))
    /\ did' = <<IF idx = 1 THEN "remove" ELSE "remove inner", heap[idx]>>
    /\ UNCHANGED <<root, max_elements, max_at_top, auto_extent>>

(* The element on top is replaced and queue_replaced called; all keys are   *)
(* changed and queue_fix called.                                            *)
QueueReplaced(k) == /\ root
                    /\ heap # <<>>
                    /\ heap' = Downheap([heap EXCEPT ![1] = k], 1)
                    /\ did' = <<"replaced", k>>
                    /\ UNCHANGED <<root, max_elements, max_at_top, auto_extent, disturbed>>

QueueFix == /\ root
            /\ elements <= FixBound
            /\ \E changed \in [1 .. elements -> Keys] : heap' = Heapify(changed)
            /\ disturbed' = FALSE
            /\ did' = <<"fix">>
            /\ UNCHANGED <<root, max_elements, max_at_top, auto_extent>>

Next == \/ \E n \in Sizes : QueueInit(n) \/ QueueResize(n) \/ QueueReinit(n)
        \/ QueueDelete
        \/ RemoveAll
        \/ \E k \in Keys : QueueInsert(k) \/ QueueInsertExtending(k) \/ QueueReplaced(k)
        \/ \E idx \in 1 .. elements : QueueRemove(idx)
        \/ QueueFix

Spec == Init /\ [][Next]_vars
-----------------------------------------------------------------------------
(* No more elements than there is room for, and the heap order: no element  *)
(* belongs above its parent, as long as queue_remove has not put one there. *)
HeapOrder ==
    /\ TypeOK
    /\ ~disturbed => \A i \in 2 .. elements : Compare(heap[i \div 2], heap[i]) <= 0

(* queue_top gives the best element. *)
TopIsBest == \A i \in 1 .. elements : Compare(heap[1], heap[i]) <= 0

(* The keys in the queue, as a bag. *)
KeyBag(h) == [k \in ToSet(h) |-> Cardinality({i \in DOMAIN h : h[i] = k})]

(* As a priority queue: insertion and removal, of whichever element,        *)
(* neither lose nor duplicate a key, what is removed from the top is the    *)
(* best of all (unless disturbed), and resizing only drops what does not    *)
(* fit.                                                                     *)
Queue == INSTANCE PriorityQueue
             WITH bag      <- KeyBag(heap),
                  greatest <- max_at_top = -1,
                  trusted  <- ~disturbed,
                  did      <- IF did[1] = "reinit" THEN <<"init">> ELSE did

ImplementsPriorityQueue == Queue!QueueSpec
=============================================================================

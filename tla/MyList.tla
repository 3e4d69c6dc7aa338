------------------------------- MODULE MyList -------------------------------
(***************************************************************************)
(* my_list (my_list.c): a doubly linked list, and its two traversals,      *)
(* my_list_foreach and my_list_rforeach, which call a function of the      *)
(* caller for every element.  That function may call the list again: it    *)
(* may insert anywhere and delete any element, its own one included (the   *)
(* deletion of the current element is put off until the function returns). *)
(*                                                                         *)
(* The items are cells of memory, linked by next and prev as in the code.  *)
(* my_malloc does not clear them and no function of the list initialises   *)
(* __foreach: a new item has either value.                                 *)
(***************************************************************************)
EXTENDS Integers, FiniteSets, FiniteSetsExt, Sequences, SequencesExt

CONSTANTS Cells,         \* the memory items are made of
          Data,          \* what is put into the list, some numbers
          Null,
          MaxDepth       \* how deep traversals are nested

ASSUME MyListAssumption == /\ IsFiniteSet(Cells)
                           /\ Data \subseteq Int
                           /\ Null \notin Cells
                           /\ MaxDepth \in Nat

VARIABLES head, tail, length,
          used,                \* the cells that are allocated
          data, next, prev,    \* the fields of the items,
          foreach,             \* __foreach being the last one
          lost,                \* allocated cells that my_list_clear let go of
          trav,                \* the traversals under way, the innermost last
          asked,               \* current elements whose deletion is put off
          last                 \* the last call: its name, its data, its result

structure == <<head, tail, length>>
memory    == <<used, data, next, prev, foreach>>
vars == <<head, tail, length, used, data, next, prev, foreach,
          lost, trav, asked, last>>

Pointers == Cells \cup {Null}

(* A traversal is at item cur (Null: past the last one); todo are the items *)
(* of its beginning that are still there and have not had their turn.       *)
Traversals == [cur : Pointers, dir : {"next", "prev"}, todo : SUBSET Cells]

TypeOK == /\ head \in Pointers /\ tail \in Pointers
          /\ length \in 0 .. Cardinality(Cells)
          /\ used \subseteq Cells /\ lost \subseteq used /\ asked \subseteq used
          /\ data \in [Cells -> Data \cup {Null}]
          /\ next \in [Cells -> Pointers] /\ prev \in [Cells -> Pointers]
          /\ foreach \in [Cells -> {0, 1}]
          /\ trav \in Seq(Traversals) /\ Len(trav) <= MaxDepth

(* The items from first on along a link, as a sequence; in a cycle it is    *)
(* longer than there are cells.                                             *)
Chain(first, link) ==
    LET n == Cardinality(Cells)
        walk[i \in 0 .. n + 1] ==
            IF i = 0 THEN first
            ELSE IF walk[i - 1] = Null THEN Null ELSE link[walk[i - 1]]
        len == Cardinality({i \in 0 .. n : walk[i] # Null})
    IN  [i \in 1 .. len |-> walk[i - 1]]

Items    == Chain(head, next)
Elements == ToSet(Items)
-----------------------------------------------------------------------------
(* my_list_init *)
Init == /\ head = Null /\ tail = Null /\ length = 0
        /\ used = {}
        /\ data = [c \in Cells |-> Null]
        /\ next = [c \in Cells |-> Null] /\ prev = [c \in Cells |-> Null]
        /\ foreach = [c \in Cells |-> 0]
        /\ lost = {} /\ trav = <<>> /\ asked = {}
        /\ last = [op |-> "init", data |-> Null, res |-> Null]

Called(op, d, res) == last' = [op |-> op, data |-> d, res |-> res]

(* my_malloc, with the data and the links the caller stores in the new item *)
(* i; nxt and prv are the links of all other items by then.                 *)
NewItem(i, d, n, p, nxt, prv) ==
    /\ i \notin used
    /\ used' = used \cup {i}
    /\ data' = [data EXCEPT ![i] = d]
    /\ next' = [nxt EXCEPT ![i] = n]
    /\ prev' = [prv EXCEPT ![i] = p]
    /\ \E garbage \in {0, 1} : foreach' = [foreach EXCEPT ![i] = garbage]
    /\ length' = length + 1
    /\ UNCHANGED <<lost, trav, asked>>

(* my_malloc returns NULL, and so does the call. *)
OutOfMemory(op, d) == /\ Called(op, d, Null)
                      /\ UNCHANGED <<structure, memory, lost, trav, asked>>

(* Fault: the item that was the first one does not learn of the new one. *)
AddItemOneWay(d, i) == /\ NewItem(i, d, head, Null, next, prev)
                       /\ head' = i
                       /\ tail' = IF tail = Null THEN i ELSE tail

(* my_list_add *)
AddItem(d, i) ==
    /\ NewItem(i, d, head, Null, next,
               IF head # Null THEN [prev EXCEPT ![head] = i] ELSE prev)
    /\ head' = i
    /\ tail' = IF tail = Null THEN i ELSE tail

(* my_list_prepend *)
PrependItem(d, i) ==
    /\ NewItem(i, d, head, Null, next,
               IF head # Null THEN [prev EXCEPT ![head] = i] ELSE prev)
    /\ head' = i
    /\ tail' = IF head = Null THEN i ELSE tail

(* my_list_append *)
AppendItem(d, i) ==
    /\ NewItem(i, d, Null, tail,
               IF tail # Null THEN [next EXCEPT ![tail] = i] ELSE next, prev)
    /\ tail' = i
    /\ head' = IF tail = Null THEN i ELSE head

(* my_list_iter_insert: before item at, and my_list_prepend at the head. *)
InsertItem(at, d, i) ==
    \/ at = head /\ PrependItem(d, i)
    \/ /\ at # head
       /\ NewItem(i, d, at, prev[at],
                  [next EXCEPT ![prev[at]] = i], [prev EXCEPT ![at] = i])
       /\ UNCHANGED <<head, tail>>

(* my_list_sortadd with a function that tells whether an element is greater *)
(* than the data: before the first one that is, or at the end.              *)
SortAddItem(d, i) ==
    LET greater == {p \in DOMAIN Items : data[Items[p]] > d}
    IN  IF greater # {} THEN InsertItem(Items[Min(greater)], d, i)
                        ELSE AppendItem(d, i)

(* my_list_lookup *)
Lookup(d) == LET found == {p \in DOMAIN Items : data[Items[p]] = d}
             IN  IF found # {} THEN Items[Min(found)] ELSE Null

-----------------------------------------------------------------------------
(* my_list_iter_delete.  An item a traversal is at is marked instead; the   *)
(* mark is __foreach turned back from 1 to 0.                               *)
Cursors == {trav[k].cur : k \in DOMAIN trav} \ {Null}

MarkDeleted(i) == /\ foreach[i] = 1
                  /\ foreach' = [foreach EXCEPT ![i] = 0]
                  /\ asked' = asked \cup ({i} \cap Cursors)
                  /\ UNCHANGED <<structure, used, data, next, prev, lost, trav>>

(* The item leaves the chain and its memory is freed. *)
NextWithout(i) == IF prev[i] # Null THEN [next EXCEPT ![prev[i]] = next[i]] ELSE next
PrevWithout(i) == IF next[i] # Null THEN [prev EXCEPT ![next[i]] = prev[i]] ELSE prev

Unlink(i) == /\ next' = [NextWithout(i) EXCEPT ![i] = Null]
             /\ prev' = [PrevWithout(i) EXCEPT ![i] = Null]
             /\ tail' = IF next[i] = Null THEN prev[i] ELSE tail
             /\ head' = IF prev[i] = Null THEN next[i] ELSE head
             /\ length' = length - 1
             /\ used' = used \ {i}
             /\ data' = [data EXCEPT ![i] = Null]
             /\ asked' = asked \ {i}
             /\ UNCHANGED lost

(* What the traversals still have to do once item i is gone. *)
Forget(frames, i) ==
    [k \in DOMAIN frames |-> [frames[k] EXCEPT !.todo = @ \ {i}]]

(* Fault: the current item of a traversal is deleted like any other. *)
DeleteItemAtOnce(i) == /\ Unlink(i)
                       /\ foreach' = [foreach EXCEPT ![i] = 0]
                       /\ trav' = Forget(trav, i)

DeleteItem(i) == \/ MarkDeleted(i)
                 \/ /\ foreach[i] # 1
                    /\ Unlink(i)
                    /\ foreach' = [foreach EXCEPT ![i] = 0]
                    /\ trav' = Forget(trav, i)

-----------------------------------------------------------------------------
(* The calls, from the caller or from inside a callback. *)
Add(d)     == \/ \E i \in Cells : AddItem(d, i) /\ Called("add", d, i)
              \/ OutOfMemory("add", d)
Prepend(d) == \/ \E i \in Cells : PrependItem(d, i) /\ Called("prepend", d, i)
              \/ OutOfMemory("prepend", d)
PutLast(d) == \/ \E i \in Cells : AppendItem(d, i) /\ Called("append", d, i)
              \/ OutOfMemory("append", d)
SortAdd(d) == \/ \E i \in Cells : SortAddItem(d, i) /\ Called("sortadd", d, i)
              \/ OutOfMemory("sortadd", d)

IterInsert(at, d) == \/ \E i \in Cells : InsertItem(at, d, i) /\ Called("insert", d, i)
                     \/ OutOfMemory("insert", d)

LookAdd(d) == \/ /\ Lookup(d) # Null
                 /\ Called("lookadd", d, Lookup(d))
                 /\ UNCHANGED <<structure, memory, lost, trav, asked>>
              \/ /\ Lookup(d) = Null
                 /\ \E i \in Cells : AddItem(d, i) /\ Called("lookadd", d, i)
              \/ /\ Lookup(d) = Null
                 /\ OutOfMemory("lookadd", d)

(* A callback asks for the deletion of its own element once: the second time *)
(* it would be freed under the loop.                                        *)
MayDelete(i) == i \notin asked

Delete(d) == \/ /\ Lookup(d) = Null
                /\ Called("delete", d, -1)
                /\ UNCHANGED <<structure, memory, lost, trav, asked>>
             \/ /\ Lookup(d) # Null
                /\ MayDelete(Lookup(d))
                /\ DeleteItem(Lookup(d))
                /\ Called("delete", d, 0)

IterDelete(i) == /\ MayDelete(i)
                 /\ DeleteItem(i)
                 /\ Called("iter_delete", Null, i)

(* What cells out of the list hold does not matter any more. *)
Scrub(cells) ==
    /\ next' = [c \in Cells |-> IF c \in cells THEN Null ELSE next[c]]
    /\ prev' = [c \in Cells |-> IF c \in cells THEN Null ELSE prev[c]]
    /\ data' = [c \in Cells |-> IF c \in cells THEN Null ELSE data[c]]
    /\ foreach' = [c \in Cells |-> IF c \in cells THEN 0 ELSE foreach[c]]

(* my_list_clear lets the items go without freeing them; my_list_uninit     *)
(* frees them (and my_list_init makes another list).                        *)
Clear == /\ trav = <<>>
         /\ head' = Null /\ tail' = Null /\ length' = 0
         /\ lost' = lost \cup Elements
         /\ Scrub(Elements)
         /\ Called("clear", Null, Null)
         /\ UNCHANGED <<used, trav, asked>>

Uninit == /\ trav = <<>>
          /\ used' = IF length > 0 THEN used \ Elements ELSE used
          /\ head' = Null /\ tail' = Null /\ length' = 0
          /\ Scrub(Elements)
          /\ Called("uninit", Null, Null)
          /\ UNCHANGED <<lost, trav, asked>>

-----------------------------------------------------------------------------
(* my_list_foreach (dir is "next") and my_list_rforeach ("prev"), the items *)
(* that cur passes through; the callback of the innermost one is running.   *)
Top == trav[Len(trav)]

(* Fault: my_list_rforeach, copied from my_list_foreach, goes forwards. *)
FollowNext(i, dir) == next[i]

Follow(i, dir) == IF dir = "next" THEN next[i] ELSE prev[i]

(* Fault: the current item is not marked. *)
ReachUnmarked(i, frames, mem, dir, todo) ==
    /\ trav' = Append(frames, [cur |-> i, dir |-> dir, todo |-> todo \ {i}])
    /\ foreach' = mem

(* The loop reaches item i, marks it and calls the function; or it ends.    *)
Reach(i, frames, mem, dir, todo) ==
    /\ trav' = Append(frames, [cur |-> i, dir |-> dir, todo |-> todo \ {i}])
    /\ foreach' = IF i # Null THEN [mem EXCEPT ![i] = 1] ELSE mem

Foreach(dir) == /\ Len(trav) < MaxDepth
                /\ trav # <<>> => Top.cur # Null
                /\ Reach(IF dir = "next" THEN head ELSE tail, trav, foreach, dir, Elements)
                /\ Called("foreach", Null, Null)
                /\ UNCHANGED <<structure, used, data, next, prev, lost, asked>>

(* The function has returned 0: the next item is read, the current one is   *)
(* deleted if its mark is gone, and the loop goes on.                       *)
Continue ==
    /\ trav # <<>>
    /\ Top.cur # Null
    /\ LET i    == Top.cur
           to   == Follow(i, Top.dir)
           rest == Front(trav)
       IN  \/ /\ foreach[i] = 0
              /\ Unlink(i)
              /\ Reach(to, Forget(rest, i), foreach, Top.dir, Top.todo)
           \/ /\ foreach[i] # 0
              /\ Reach(to, rest, [foreach EXCEPT ![i] = 0], Top.dir, Top.todo)
              /\ UNCHANGED <<structure, used, data, next, prev, lost, asked>>
    /\ Called("continue", Null, Null)

(* The function has returned something else: the same, but the loop ends.   *)
Break ==
    /\ trav # <<>>
    /\ Top.cur # Null
    /\ LET i == Top.cur IN
          \/ /\ foreach[i] = 0
             /\ Unlink(i)
             /\ trav' = Forget(Front(trav), i)
             /\ UNCHANGED foreach
          \/ /\ foreach[i] # 0
             /\ trav' = Front(trav)
             /\ foreach' = [foreach EXCEPT ![i] = 0]
             /\ UNCHANGED <<structure, used, data, next, prev, lost, asked>>
    /\ Called("break", Null, Null)

(* The loop has come to its end. *)
Finish == /\ trav # <<>>
          /\ Top.cur = Null
          /\ trav' = Front(trav)
          /\ Called("finish", Null, Null)
          /\ UNCHANGED <<structure, memory, lost, asked>>

(* Calls are made by the caller or by the callback that is running. *)
MayCall == trav # <<>> => Top.cur # Null

Next == \/ /\ MayCall
           /\ \/ \E d \in Data : \/ Add(d) \/ Prepend(d) \/ PutLast(d) \/ SortAdd(d)
                                 \/ LookAdd(d) \/ Delete(d)
                                 \/ \E at \in Elements : IterInsert(at, d)
              \/ \E i \in Elements : IterDelete(i)
        \/ Clear
        \/ Uninit
        \/ \E dir \in {"next", "prev"} : Foreach(dir)
        \/ Continue
        \/ Break
        \/ Finish

Spec == Init /\ [][Next]_vars
-----------------------------------------------------------------------------
(* The structure is a doubly linked list at any time, also while callbacks  *)
(* insert and delete: the chain from head along __next is the one from tail *)
(* along __prev, backwards, and length counts it.  None of its items is     *)
(* freed, and no other item is left but those my_list_clear drops.  A       *)
(* deletion that was put off is made up for: when no traversal is under way *)
(* nothing is left of it, whichever way the traversal ended.                *)
WellLinked == /\ TypeOK
              /\ Items = Reverse(Chain(tail, prev))
              /\ length = Len(Items)
              /\ Cardinality(Elements) = Len(Items)
              /\ used = Elements \cup lost
              /\ Elements \cap lost = {}
              /\ trav = <<>> => asked = {}

(* A traversal never stands on freed memory: the function has returned and  *)
(* the loop reads the links of the current item.                            *)
CursorAlive == Cursors \subseteq Elements

(* my_list_foreach calls the function for every element: an item that was   *)
(* there at the beginning and still is lies ahead of the current one.  At   *)
(* the end (cur is Null) nothing is left.                                   *)
NothingSkipped ==
    \A k \in DOMAIN trav :
        trav[k].todo \subseteq
            IF trav[k].cur = Null THEN {}
            ELSE ToSet(Chain(trav[k].cur, IF trav[k].dir = "next" THEN next ELSE prev))
                     \ {trav[k].cur}

(* No item leaves the list but the one a call deletes at once, and those    *)
(* whose deletion was put off before.                                       *)
OnlyAskedLeave ==
    [][\A i \in Elements \ Elements' :
           \/ i \in asked
           \/ last'.op = "iter_delete" /\ i = last'.res
           \/ last'.op = "delete" /\ i = Lookup(last'.data)
           \/ last'.op \in {"clear", "uninit"}]_vars

-----------------------------------------------------------------------------
(* What my_list.h says and the code does not do. *)

(* my_list_delete "removes an iterator from the list object": when it       *)
(* returns 0 outside of a traversal the item it found is gone.              *)
DeleteRemoves ==
    [][trav = <<>> /\ last'.op = "delete" /\ last'.res = 0
           => Lookup(last'.data) \notin Elements']_vars
=============================================================================

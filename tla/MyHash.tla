------------------------------- MODULE MyHash -------------------------------
(***************************************************************************)
(* my_hash (my_hash.c): a table of buckets, each a doubly linked chain of  *)
(* items.  An insertion into a full table moves all items to a larger one. *)
(* my_hash_foreach calls a function of the caller for every item; this may *)
(* call the table again: add (and so move everything), and delete any      *)
(* item.  The deletion of the item the loop is at is put off until the     *)
(* function returns.                                                       *)
(*                                                                         *)
(* An item has two fields called key: the caller's key, a pointer, and the *)
(* number it is hashed to, called number here.  prev and pre are one.      *)
(***************************************************************************)
EXTENDS Integers, Sequences, SequencesExt, FiniteSets, FiniteSetsExt

CONSTANTS Cells,           \* the memory items are made of
          Keys,            \* a set of naturals
          HashSpan,        \* keys that differ by a multiple of it have one number
          Values,
          Null,
          Sizes,           \* what my_hash_init is asked for
          SD_HASH_DEFAULT_SIZE,
          HASH_FULL_ITERATE,
          HASH_GROW_STEP

ASSUME MyHashAssumption == /\ IsFiniteSet(Cells) /\ Null \notin Cells
                           /\ Keys \subseteq Nat /\ HashSpan \in Nat \ {0}
                           /\ Null \notin Keys /\ Null \notin Values
                           /\ Sizes \subseteq Nat
                           /\ {SD_HASH_DEFAULT_SIZE, HASH_FULL_ITERATE, HASH_GROW_STEP}
                                  \subseteq Nat \ {0}

VARIABLES num, size,       \* size 0: there is no table
          iter,            \* the first item of each bucket
          used,            \* the cells that are allocated
          key, number, value, next, prev, foreach,     \* the fields of the items
          at, bucket,      \* the item and the bucket my_hash_foreach is at
          todo,            \* items of its beginning that have not had their turn
          did              \* the last call, with its key

content == <<key, number, value>>
table   == <<num, size, iter, used, next, prev>>
loop    == <<at, bucket, todo>>
vars    == <<num, size, iter, used, key, number, value, next, prev, foreach,
             at, bucket, todo, did>>

Pointers == Cells \union {Null}

(* HASH_INDEX and the function ops->hash. *)
Hash(k)     == k % HashSpan
Index(n, s) == n % s

(* The items from first on, as a sequence; in a cycle it is longer than     *)
(* there are cells.                                                         *)
Chain(first, link) ==
    LET n == Cardinality(Cells)
        walk[i \in 0 .. n + 1] ==
            IF i = 0 THEN first
            ELSE IF walk[i - 1] = Null THEN Null ELSE link[walk[i - 1]]
        len == Cardinality({i \in 0 .. n : walk[i] # Null})
    IN  [i \in 1 .. len |-> walk[i - 1]]

Bucket(b) == Chain(iter[b], next)
Items     == FlattenSeq([b \in 1 .. size |-> Bucket(b - 1)])
Elements  == ToSet(Items)

(* An item whose deletion has been put off; its key is freed already. *)
Dead == {i \in used : key[i] = Null}

-----------------------------------------------------------------------------
(* No table yet. *)
Init == /\ num = 0 /\ size = 0 /\ iter = <<>>
        /\ used = {}
        /\ key = [c \in Cells |-> Null] /\ number = key /\ value = key
        /\ next = key /\ prev = key
        /\ foreach = [c \in Cells |-> 0]
        /\ at = Null /\ bucket = 0 /\ todo = {}
        /\ did = <<"init">>

Refused == did' = <<"refused">> /\ UNCHANGED <<table, content, foreach, loop>>

(* my_hash_init *)
HashInit(s) == /\ size = 0
               /\ size' = IF s = 0 THEN SD_HASH_DEFAULT_SIZE ELSE s
               /\ iter' = [b \in 0 .. size' - 1 |-> Null]
               /\ num' = 0
               /\ did' = <<"init">>
               /\ UNCHANGED <<used, content, next, prev, foreach, loop>>

(* It returns NULL when there is no memory for the buckets.  (When there is *)
(* none for the table itself, it frees iter before it has a value.)         *)
HashInitFails == size = 0 /\ Refused

(* my_hash_clear returns at once whenever there is a table. *)
Clear == size # 0 /\ did' = <<"clear">> /\ UNCHANGED <<table, content, foreach, loop>>

(* What the cells that are no longer in the table hold does not matter. *)
Scrub(f, cells) == [c \in Cells |-> IF c \in cells THEN Null ELSE f[c]]

(* my_hash_uninit: so that the buckets are freed and the items are not.     *)
(* They are out of reach from then on, and Cells are other memory.          *)
Uninit == /\ size # 0 /\ at = Null
          /\ size' = 0 /\ num' = 0 /\ iter' = <<>>
          /\ used' = {}
          /\ key' = Scrub(key, Elements) /\ number' = Scrub(number, Elements)
          /\ value' = Scrub(value, Elements)
          /\ next' = Scrub(next, Elements) /\ prev' = Scrub(prev, Elements)
          /\ did' = <<"uninit">>
          /\ UNCHANGED <<foreach, loop>>

-----------------------------------------------------------------------------
(* my_hash_lookup: the first item of the bucket that has the key. *)
Lookup(k) == LET c     == Bucket(Index(Hash(k), size))
                 found == {p \in DOMAIN c : key[c[p]] = k}
             IN  IF found = {} THEN Null ELSE c[Min(found)]

(* Comparing with the freed key of a dead item has no meaning: no caller    *)
(* searches a chain past one.                                               *)
Searchable(k) ==
    LET c == Bucket(Index(Hash(k), size))
    IN  \A p \in DOMAIN c : key[c[p]] = Null => \E q \in 1 .. p - 1 : key[c[q]] = k

(* The buckets, and the links between the items in them, as they are ...    *)
Current == [size |-> size, iter |-> iter, next |-> next, prev |-> prev]

(* ... and as rehash leaves them: item by item, bucket by bucket, each was  *)
(* put in front of its new chain, which is in the opposite order therefore. *)
Moved(n) ==
    LET order    == Items
        place(i) == CHOOSE p \in DOMAIN order : order[p] = i
        same(i)  == {p \in DOMAIN order : Index(number[order[p]], n) = Index(number[i], n)}
        there(b) == {p \in DOMAIN order : Index(number[order[p]], n) = b}
        least(P) == IF P = {} THEN Null ELSE order[Min(P)]
        most(P)  == IF P = {} THEN Null ELSE order[Max(P)]
    IN  [size |-> n,
         iter |-> [b \in 0 .. n - 1 |-> most(there(b))],
         next |-> [i \in Cells |-> IF i \in used THEN most(same(i) \intersect 1 .. place(i) - 1)
                                   ELSE next[i]],
         prev |-> [i \in Cells |-> IF i \in used THEN least(same(i) \ 1 .. place(i)) ELSE prev[i]]]

(* rehash, which does nothing when there is no memory for the new buckets. *)
Rehashed == {Current, Moved(HASH_GROW_STEP * size)}

Insertable == IF num > HASH_FULL_ITERATE * size THEN Rehashed ELSE {Current}

(* my_hash_lookadd when the key is not there: item i is made for it, with   *)
(* value v, and goes to the front of its bucket.                            *)
AddItem(k, v, i, t) ==
    LET b == Index(Hash(k), t.size)
        first == t.iter[b]
    IN  /\ i \notin used
        /\ used' = used \union {i}
        /\ key' = [key EXCEPT ![i] = k]
        /\ number' = [number EXCEPT ![i] = Hash(k)]
        /\ value' = [value EXCEPT ![i] = v]
        /\ size' = t.size
        /\ iter' = [t.iter EXCEPT ![b] = i]
        /\ next' = [t.next EXCEPT ![i] = first]
        /\ prev' = IF first = Null THEN t.prev ELSE [t.prev EXCEPT ![first] = i]
        /\ num' = num + 1
        /\ todo' = IF t # Current THEN {} ELSE todo
        /\ UNCHANGED <<foreach, at, bucket>>

LookAdd(k) == /\ Searchable(k)
              /\ \/ /\ Lookup(k) # Null
                    /\ did' = <<"lookadd", k>>
                    /\ UNCHANGED <<table, content, foreach, loop>>
                 \/ /\ Lookup(k) = Null
                    /\ \E i \in Cells, t \in Insertable : AddItem(k, Null, i, t)
                    /\ did' = <<"lookadd", k>>
                 \/ Lookup(k) = Null /\ Refused

(* my_hash_add *)
Add(k, v) == /\ Searchable(k)
             /\ \/ /\ Lookup(k) # Null
                   /\ value' = [value EXCEPT ![Lookup(k)] = v]
                   /\ did' = <<"add", k>>
                   /\ UNCHANGED <<table, key, number, foreach, loop>>
                \/ /\ Lookup(k) = Null
                   /\ \E i \in Cells, t \in Insertable : AddItem(k, v, i, t)
                   /\ did' = <<"add", k>>
                \/ Lookup(k) = Null /\ Refused

-----------------------------------------------------------------------------
(* Fault: the freed key stays in the item. *)
BuryKeepingKey(i) == /\ foreach[i] = 1
                     /\ value' = [value EXCEPT ![i] = Null]
                     /\ foreach' = [foreach EXCEPT ![i] = 0]
                     /\ UNCHANGED <<table, key, number, at, bucket>>

(* my_hash_iter_delete.  The key and the value go at once; the item the     *)
(* loop is at stays, with its mark __foreach turned back.                   *)
Bury(i) == /\ foreach[i] = 1
           /\ key' = [key EXCEPT ![i] = Null]
           /\ value' = [value EXCEPT ![i] = Null]
           /\ foreach' = [foreach EXCEPT ![i] = 0]
           /\ UNCHANGED <<table, number, at, bucket>>

(* Fault: the item after the one that leaves is not told. *)
PrevUntold(i) == [prev EXCEPT ![i] = Null]

(* The links without item i, which is freed then. *)
PrevWithout(i) == [c \in Cells |-> IF c = i THEN Null
                                   ELSE IF c = next[i] THEN prev[i] ELSE prev[c]]
NextWithout(i) == [c \in Cells |-> IF c = i THEN Null
                                   ELSE IF c = prev[i] THEN next[i] ELSE next[c]]

Unlink(i) ==
    /\ next' = NextWithout(i)
    /\ prev' = PrevWithout(i)
    /\ iter' = IF prev[i] # Null THEN iter
               ELSE [iter EXCEPT ![Index(number[i], size)] = next[i]]
    /\ num' = num - 1
    /\ used' = used \ {i}
    /\ key' = [key EXCEPT ![i] = Null]
    /\ number' = [number EXCEPT ![i] = Null]
    /\ value' = [value EXCEPT ![i] = Null]
    /\ UNCHANGED size

(* Fault: the item the loop is at is freed like any other. *)
DeleteItemAtOnce(i) == /\ Unlink(i)
                       /\ foreach' = [foreach EXCEPT ![i] = 0]
                       /\ todo' = todo \ {i}
                       /\ UNCHANGED <<at, bucket>>

DeleteItem(i) == /\ todo' = todo \ {i}
                 /\ \/ Bury(i)
                    \/ /\ foreach[i] # 1
                       /\ Unlink(i)
                       /\ UNCHANGED <<foreach, at, bucket>>

(* A dead item is not deleted a second time by its callback: this would     *)
(* free it under the loop.                                                  *)
IterDelete(i) == key[i] # Null /\ DeleteItem(i) /\ did' = <<"delete", key[i]>>

(* my_hash_delete *)
Delete(k) == /\ Searchable(k)
             /\ \/ Lookup(k) # Null /\ DeleteItem(Lookup(k)) /\ did' = <<"delete", k>>
                \/ Lookup(k) = Null /\ Refused

-----------------------------------------------------------------------------
(* my_hash_foreach; at is the item whose callback is running.  The loop     *)
(* goes on to item i or, when this is Null, to the first item of a bucket   *)
(* from b on, and marks it.                                                 *)
Ahead(b, heads, n) == {j \in b .. n - 1 : heads[j] # Null}

Reach(i, b, heads, n, marks, left) ==
    LET j  == IF i # Null THEN b ELSE Min(Ahead(b + 1, heads, n))
        to == IF i # Null THEN i ELSE heads[j]
    IN  IF i = Null /\ Ahead(b + 1, heads, n) = {}
          THEN at' = Null /\ bucket' = 0 /\ foreach' = marks /\ todo' = left
          ELSE /\ at' = to /\ bucket' = j
               /\ foreach' = [marks EXCEPT ![to] = 1]
               /\ todo' = left \ {to}

Foreach == /\ size # 0 /\ at = Null
           /\ Reach(Null, -1, iter, size, foreach, Elements)
           /\ did' = <<"foreach">>
           /\ UNCHANGED <<table, content>>

(* Fault: the next item is read from the one just freed. *)
ContinueReadingLate ==
    /\ at # Null
    /\ \/ /\ foreach[at] = 0
          /\ Unlink(at)
          /\ Reach(next'[at], bucket, iter', size, foreach, todo)
       \/ /\ foreach[at] = 1
          /\ Reach(next[at], bucket, iter, size, [foreach EXCEPT ![at] = 0], todo)
          /\ UNCHANGED <<table, content>>
    /\ did' = <<"foreach">>

(* The function has returned 0: the item is deleted if this was put off,    *)
(* and the loop goes on.                                                    *)
Continue ==
    /\ at # Null
    /\ \/ /\ foreach[at] = 0
          /\ Unlink(at)
          /\ Reach(next[at], bucket, iter', size, foreach, todo)
       \/ /\ foreach[at] = 1
          /\ Reach(next[at], bucket, iter, size, [foreach EXCEPT ![at] = 0], todo)
          /\ UNCHANGED <<table, content>>
    /\ did' = <<"foreach">>

(* The function has returned something else, and the loop ends there. *)
Break ==
    /\ at # Null
    /\ \/ foreach[at] = 0 /\ Unlink(at) /\ UNCHANGED foreach
       \/ foreach[at] = 1 /\ foreach' = [foreach EXCEPT ![at] = 0] /\ UNCHANGED <<table, content>>
    /\ at' = Null /\ bucket' = 0 /\ todo' = {}
    /\ did' = <<"foreach">>

-----------------------------------------------------------------------------
(* my_hash_begin, my_hash_next *)
FirstFrom(b) == IF Ahead(b, iter, size) = {} THEN Null ELSE iter[Min(Ahead(b, iter, size))]

IterBegin == FirstFrom(0)

(* Fault: the search for the next bucket begins at the item's own. *)
IterNextSame(i) == IF next[i] # Null THEN next[i] ELSE FirstFrom(Index(number[i], size))

IterNext(i) == IF next[i] # Null THEN next[i] ELSE FirstFrom(Index(number[i], size) + 1)

(* my_hash_pre: the last item of the bucket before, unless it is bucket 0.  *)
(* With two items or more in that bucket the loop does not come to an end.  *)
IterPre(i) ==
    LET behind == {j \in 1 .. Index(number[i], size) - 1 : iter[j] # Null}
    IN  IF prev[i] # Null THEN {prev[i]}
        ELSE IF behind = {} THEN {Null}
        ELSE {c \in {iter[Max(behind)]} : next[c] = Null}

(* Calls are made by the caller or by the callback that is running. *)
Next == \/ \E s \in Sizes : HashInit(s)
        \/ HashInitFails
        \/ /\ size # 0
           /\ \/ \E k \in Keys : \/ \E v \in Values : Add(k, v)
                                 \/ LookAdd(k)
                                 \/ Delete(k)
              \/ \E i \in used : IterDelete(i)
        \/ Clear
        \/ Uninit
        \/ Foreach
        \/ Continue
        \/ Break

Spec == Init /\ [][Next]_vars
-----------------------------------------------------------------------------
TypeOK == /\ num \in Nat /\ size \in Nat /\ iter \in [0 .. size - 1 -> Pointers]
          /\ key \in [Cells -> Keys \union {Null}]
          /\ value \in [Cells -> Values \union {Null}]
          /\ next \in [Cells -> Pointers] /\ prev \in [Cells -> Pointers]
          /\ foreach \in [Cells -> {0, 1}]
          /\ at \in Pointers /\ todo \subseteq used

(* Every item that is allocated is once in the chain of its number's        *)
(* bucket, linked both ways, and found under its key; num counts them.  A   *)
(* mark or a dead item is where the loop is and nowhere else: a deletion    *)
(* put off is made up for, however the traversal ends.                      *)
WellLinked ==
    /\ TypeOK
    /\ used = Elements /\ num = Len(Items) /\ num = Cardinality(used)
    /\ \A b \in DOMAIN iter :
           LET c == Bucket(b) IN
             \A p \in DOMAIN c : /\ Index(number[c[p]], size) = b
                                 /\ prev[c[p]] = IF p = 1 THEN Null ELSE c[p - 1]
    /\ \A i \in used : foreach[i] = 1 \/ key[i] = Null => i = at
    /\ \A i \in used \ Dead : Searchable(key[i]) => Lookup(key[i]) = i

(* The loop of my_hash_foreach never stands on freed memory, when the       *)
(* function has returned and its links are read: neither after deletions in *)
(* the callback nor after a rehash.                                         *)
CursorAlive == at # Null => at \in used

(* Unless a callback made the table larger, my_hash_foreach passes over     *)
(* nothing: what was there at its beginning and still is lies ahead.        *)
NothingSkipped ==
    LET ahead == IF at = Null THEN {}
                 ELSE ToSet(Chain(next[at], next)) \union
                      UNION {ToSet(Bucket(b)) : b \in bucket + 1 .. size - 1}
    IN  todo \subseteq ahead

(* my_hash_begin and my_hash_next go through all items, each once, in one   *)
(* order; and my_hash_pre, as far as it finds an item, goes back in it.     *)
IteratorsAgree ==
    /\ IterBegin = IF Items = <<>> THEN Null ELSE Head(Items)
    /\ \A p \in DOMAIN Items :
           /\ IterNext(Items[p]) = IF p = Len(Items) THEN Null ELSE Items[p + 1]
           /\ \A j \in IterPre(Items[p]) \ {Null} : IterNext(j) = Items[p]

(* The table is a map.  A deletion that is put off counts at once. *)
Map == [k \in {key[i] : i \in used \ Dead} |-> value[CHOOSE i \in used : key[i] = k]]

Abstract == INSTANCE KeyValue WITH map <- Map, NoValue <- Null

ImplementsKeyValue == Abstract!KeyValueSpec
=============================================================================

------------------------------ MODULE DynHash ------------------------------
(***************************************************************************)
(* my_dyn_hash (my_dyn_hash.c): hashing that grows by one bucket at a      *)
(* time.  The table is one array of links, a record and the index of the   *)
(* next link of its chain each.  A chain begins at the index its records   *)
(* are hashed to, their home; wherever else a chain happens to have links, *)
(* these make way for the chain whose home that is.  The links are the     *)
(* elements of a my_array.                                                 *)
(***************************************************************************)
EXTENDS MyArray, Sequences, SequencesExt, FiniteSetsExt, Functions

CONSTANTS Records,         \* what callers insert
          Keys,            \* a set of naturals
          HashSpan,        \* keys that differ by a multiple of it have one hash number
          NoRecord,        \* no record at all
          MaxRecords       \* bound: nothing is inserted into a table of so many

ASSUME DynHashAssumption == /\ Keys \subseteq Nat /\ HashSpan \in Nat \ {0}
                            /\ NoRecord \notin Records
                            /\ MaxRecords \in Nat

NO_RECORD == -1

VARIABLES unique,          \* my_hash_UNIQUE in flags
          data,            \* the links in use, at 0 .. records - 1
          blength,         \* the number of buckets is at most this power of two
          keyOf,           \* the keys in the records (the caller's memory)
          current,         \* current_record of a search for key sought
          sought,
          did              \* the last call, with its record

vars == <<arrayVars, unique, data, blength, keyOf, current, sought, did>>

records == Cardinality(DOMAIN data)

Link(r, n) == [rec |-> r, next |-> n]
Links == [rec : Records, next : 0 .. MaxRecords - 1 \union {NO_RECORD}]

-----------------------------------------------------------------------------
Hash(k) == k % HashSpan

(* my_hash_mask: the home of a hash number (buffmax is a power of two). *)
Mask(hashnr, buffmax, maxlength) ==
    IF hashnr % buffmax < maxlength THEN hashnr % buffmax ELSE hashnr % (buffmax \div 2)

(* rec_hashnr and my_hash_rec_mask *)
RecHash(r) == Hash(keyOf[r])
Home(r)    == Mask(RecHash(r), blength, records)

(* The indices of a chain from idx on (were it a cycle, only once round). *)
RECURSIVE ChainUpTo(_, _, _)
ChainUpTo(d, idx, n) == IF n = 0 \/ idx \notin DOMAIN d THEN <<>>
                        ELSE <<idx>> \o ChainUpTo(d, d[idx].next, n - 1)

Chain(d, idx) == ChainUpTo(d, idx, Cardinality(DOMAIN d))

(* movelink: where the chain from next_link on leads to find, it leads to   *)
(* newlink instead.  (If it leads nowhere the code runs off the array.)     *)
MoveLink(d, find, next_link, newlink) ==
    LET olds == {i \in ToSet(Chain(d, next_link)) : d[i].next = find}
    IN  IF olds = {} THEN [d EXCEPT ![newlink].rec = NoRecord]
        ELSE [d EXCEPT ![CHOOSE i \in olds : TRUE].next = newlink]
-----------------------------------------------------------------------------
(* my_hash_first_from_hash_value: the first link of the chain with the key, *)
(* unless the chain at idx is not one whose home that is.                   *)
(* (keys are the keys the records have; my_hash_update finds one changed.)  *)
FirstOf(keys, chain, k) ==
    LET same == {i \in DOMAIN chain : keys[data[chain[i]].rec] = k}
    IN  IF same = {} THEN NO_RECORD ELSE chain[Min(same)]

First(keys, k) ==
    LET idx  == Mask(Hash(k), blength, records)
        head == keys[data[idx].rec]
    IN  IF records = 0 THEN NO_RECORD
        ELSE IF head = k THEN idx
        ELSE IF Mask(Hash(head), blength, records) # idx THEN NO_RECORD
        ELSE FirstOf(keys, Chain(data, idx), k)

(* Fault: the next link is the answer, whatever its key. *)
NextLink(keys, k, idx) == data[idx].next

(* The next link of a chain with the key. *)
NextOf(keys, k, idx) == FirstOf(keys, Tail(Chain(data, idx)), k)

(* All records a loop of my_hash_first and my_hash_next goes through. *)
RECURSIVE FromOn(_, _, _, _)
FromOn(keys, k, idx, n) ==
    IF idx = NO_RECORD \/ n = 0 THEN <<>>
    ELSE <<data[idx].rec>> \o FromOn(keys, k, NextOf(keys, k, idx), n - 1)

AllOf(keys, k) == FromOn(keys, k, First(keys, k), records + 1)

Found(idx, k) == current' = idx /\ sought' = IF idx = NO_RECORD THEN NO_RECORD ELSE k

Look == did' = <<"look">> /\ UNCHANGED <<arrayVars, unique, data, blength, keyOf>>

(* my_hash_first; without buckets, after my_hash_free, current_record is    *)
(* left as it was.                                                          *)
SearchFirst(k) == Look /\ IF blength = 0 THEN UNCHANGED <<current, sought>>
                          ELSE Found(First(keyOf, k), k)

(* my_hash_next *)
SearchNext == current # NO_RECORD /\ Found(NextOf(keyOf, sought, current), sought) /\ Look

Unsought == Found(NO_RECORD, NO_RECORD)
-----------------------------------------------------------------------------
Init == /\ ArrayInit(elements, number)
        /\ unique \in BOOLEAN
        /\ data = <<>>
        /\ blength = 1
        /\ keyOf = [r \in Records |-> NO_RECORD]
        /\ current = NO_RECORD /\ sought = NO_RECORD
        /\ did = <<"init">>

(* The loop of my_hash_insert takes a chain apart whose records have, from  *)
(* now on, two homes: "LOW", where they have been, and "HIGH", half a table *)
(* further on, which is the link just allocated.  Of either kind it knows   *)
(* the last link found and its record, and whether that link is used, that  *)
(* is, has its contents already.                                            *)
FindLow(s, pos) ==
    LET rec == s.d[pos].rec
        link == [s.d EXCEPT ![s.gpos] = Link(s.ptr, pos)]
    IN  IF "LOWFIND" \notin s.flag
          THEN IF "HIGHFIND" \in s.flag
                 THEN [s EXCEPT !.flag = {"LOWFIND", "HIGHFIND"}, !.gpos = s.empty,
                                !.ptr = rec, !.empty = pos]
                 ELSE [s EXCEPT !.flag = {"LOWFIND", "LOWUSED"}, !.gpos = pos, !.ptr = rec]
        ELSE IF "LOWUSED" \notin s.flag
          THEN [s EXCEPT !.d = link, !.gpos = pos, !.ptr = rec,
                         !.flag = (@ \cap {"HIGHFIND"}) \union {"LOWFIND", "LOWUSED"}]
        ELSE [s EXCEPT !.gpos = pos, !.ptr = rec]

(* Fault: that the low key's link is used is remembered when it no longer is. *)
FindHighLowUsed(s, pos) ==
    LET rec == s.d[pos].rec
        link == [s.d EXCEPT ![s.gpos2] = Link(s.ptr2, pos)]
    IN  IF "HIGHFIND" \notin s.flag
          THEN [s EXCEPT !.flag = @ \union {"HIGHFIND"}, !.gpos2 = s.empty,
                         !.ptr2 = rec, !.empty = pos]
        ELSE IF "HIGHUSED" \notin s.flag
          THEN [s EXCEPT !.d = link, !.gpos2 = pos, !.ptr2 = rec,
                         !.flag = @ \union {"HIGHUSED"}]
        ELSE [s EXCEPT !.gpos2 = pos, !.ptr2 = rec]

FindHigh(s, pos) ==
    LET rec == s.d[pos].rec
        link == [s.d EXCEPT ![s.gpos2] = Link(s.ptr2, pos)]
    IN  IF "HIGHFIND" \notin s.flag
          THEN [s EXCEPT !.flag = (@ \cap {"LOWFIND"}) \union {"HIGHFIND"}, !.gpos2 = s.empty,
                         !.ptr2 = rec, !.empty = pos]
        ELSE IF "HIGHUSED" \notin s.flag
          THEN [s EXCEPT !.d = link, !.gpos2 = pos, !.ptr2 = rec,
                         !.flag = (@ \cap {"LOWFIND"}) \union {"HIGHFIND", "HIGHUSED"}]
        ELSE [s EXCEPT !.gpos2 = pos, !.ptr2 = rec]

RECURSIVE SplitFrom(_, _)
SplitFrom(s, pos) ==
    LET half == blength \div 2
        low  == (RecHash(s.d[pos].rec) \div half) % 2 = 0
        done == IF low THEN FindLow(s, pos) ELSE FindHigh(s, pos)
        next == done.d[pos].next
    IN  IF next = NO_RECORD THEN done ELSE SplitFrom(done, next)

(* The first part of my_hash_insert, with one more link: the table after    *)
(* the split and the link that is empty then.                               *)
Split ==
    LET first == records - blength \div 2
        start == [d     |-> [i \in 0 .. records |-> IF i = records THEN Link(NoRecord, NO_RECORD)
                                                    ELSE data[i]],
                  empty |-> records, flag |-> {},
                  gpos  |-> records, ptr  |-> NoRecord,
                  gpos2 |-> records, ptr2 |-> NoRecord]
        split == IF first = records \/ Home(data[first].rec) # first
                   THEN start ELSE SplitFrom(start, first)
        low   == IF "LOWFIND" \in split.flag /\ "LOWUSED" \notin split.flag
                   THEN [split.d EXCEPT ![split.gpos] = Link(split.ptr, NO_RECORD)] ELSE split.d
        high  == IF "HIGHFIND" \in split.flag /\ "HIGHUSED" \notin split.flag
                   THEN [low EXCEPT ![split.gpos2] = Link(split.ptr2, NO_RECORD)] ELSE low
    IN  [d |-> high, empty |-> split.empty]

(* The second part: the new record goes home.  A link of another chain that *)
(* has been there makes way, one of the same chain becomes the second.      *)
Place(s, r, k) ==
    LET pos  == Mask(Hash(k), blength, records + 1)
        home == Mask(RecHash(s.d[pos].rec), blength, records + 1)
        d1   == [s.d EXCEPT ![s.empty] = s.d[pos]]
    IN  IF pos = s.empty THEN [s.d EXCEPT ![pos] = Link(r, NO_RECORD)]
        ELSE IF pos = home THEN [d1 EXCEPT ![pos] = Link(r, s.empty)]
        ELSE MoveLink([d1 EXCEPT ![pos] = Link(r, NO_RECORD)], pos, home, s.empty)

Stored == {data[i].rec : i \in DOMAIN data}

Usable == blength # 0

(* A call returns 1; nothing has changed. *)
Refused(why) == /\ did' = why
                /\ UNCHANGED <<arrayVars, unique, data, blength, keyOf, current, sought>>

(* my_hash_insert of record r with key k, which is refused as a duplicate,  *)
(* or because the array is full and there is no memory.                     *)
HashInsert(r, k) ==
    /\ Usable /\ r \notin Stored /\ records < MaxRecords
    /\ IF unique /\ First(keyOf, k) # NO_RECORD THEN Refused(<<"taken", r, k>>)
       ELSE \/ Full /\ Refused(<<"refused">>)
            \/ /\ Alloc
               /\ data' = Place(Split, r, k)
               /\ blength' = IF records + 1 = blength THEN 2 * blength ELSE blength
               /\ keyOf' = [keyOf EXCEPT ![r] = k]
               /\ did' = <<"insert", r>>
               /\ Unsought
               /\ UNCHANGED unique

(* How my_hash_delete and my_hash_update take the link at a place of its    *)
(* chain out: the link after the first one moves to the front for it.       *)
Unlink(d, chain, at) ==
    LET pos == chain[at]
    IN  IF at > 1
          THEN [d |-> [d EXCEPT ![chain[at - 1]].next = d[pos].next], empty |-> pos]
        ELSE IF Len(chain) > 1
          THEN [d |-> [d EXCEPT ![pos] = d[chain[2]]], empty |-> chain[2]]
        ELSE [d |-> d, empty |-> pos]

(* The last link of d moves to the empty one, or to its home when that has  *)
(* become another one by the table being shorter; bl and n are the new size.*)
MoveLast(d, empty, bl, n) ==
    LET lasthash == RecHash(d[n].rec)
        pos      == Mask(lasthash, bl, n)
        poshash  == RecHash(d[pos].rec)
        pos3     == Mask(poshash, bl, n)
        pos2     == Mask(lasthash, blength, n + 1)
        same     == pos2 = Mask(poshash, blength, n + 1)
        moved    == [d EXCEPT ![empty] = d[n]]
        merged   == MoveLink(moved, IF same THEN pos ELSE NO_RECORD, empty, moved[pos].next)
    IN  IF empty = n THEN d
        ELSE IF pos = empty THEN moved
        ELSE IF pos # pos3
          THEN MoveLink([d EXCEPT ![empty] = d[pos], ![pos] = d[n]], pos, pos3, empty)
        ELSE IF same /\ pos2 # n THEN MoveLink(moved, n, pos, empty)
        ELSE [merged EXCEPT ![pos].next = empty]

(* blength for a table of n records, one less than before. *)
Shrunk(n) == IF n < blength \div 2 THEN blength \div 2 ELSE blength

(* my_hash_delete *)
HashDelete(r) ==
    LET chain == Chain(data, Home(r))
        at    == CHOOSE i \in DOMAIN chain : data[chain[i]].rec = r
        cut   == Unlink(data, chain, at)
        n     == records - 1
    IN  /\ Usable
        /\ IF r \notin Stored THEN Refused(<<"missing", r>>)
           ELSE /\ Pop
                /\ data' = Restrict(MoveLast(cut.d, cut.empty, Shrunk(n), n), 0 .. n - 1)
                /\ blength' = Shrunk(n)
                /\ keyOf' = [keyOf EXCEPT ![r] = NO_RECORD]
                /\ did' = <<"delete", r>>
                /\ Unsought
                /\ UNCHANGED unique

(* Fault: only the first record found is looked at. *)
TakenFirst(r, k) == LET keys == [keyOf EXCEPT ![r] = k]
                    IN  First(keys, k) # NO_RECORD /\ data[First(keys, k)].rec # r

(* Whether my_hash_update finds another record with the new key. *)
Taken(r, k) == \E o \in ToSet(AllOf([keyOf EXCEPT ![r] = k], k)) : o # r

(* The links after my_hash_update: the record leaves its chain and joins    *)
(* the one of its new key, behind the first link of it.                     *)
Relinked(r, k) ==
    LET chain == Chain(data, Home(r))
        at    == CHOOSE i \in DOMAIN chain : data[chain[i]].rec = r
        cut   == Unlink(data, chain, at)
        d     == cut.d
        new   == Mask(Hash(k), blength, records)
        home  == Home(d[new].rec)
    IN  IF new = Home(r) THEN data
        ELSE IF new = cut.empty THEN [d EXCEPT ![new] = Link(r, NO_RECORD)]
        ELSE IF new # home
          THEN [MoveLink([d EXCEPT ![cut.empty] = d[new]], new, home, cut.empty)
                   EXCEPT ![new] = Link(r, NO_RECORD)]
        ELSE [d EXCEPT ![cut.empty] = Link(r, d[new].next), ![new].next = cut.empty]

(* The caller changes the key of a record and calls my_hash_update.  When   *)
(* this refuses the new key the caller has to put the old one back.         *)
HashUpdate(r, k) ==
    /\ Usable /\ r \in Stored
    /\ IF unique /\ Taken(r, k) THEN Refused(<<"taken", r, k>>)
       ELSE /\ data' = Relinked(r, k)
            /\ keyOf' = [keyOf EXCEPT ![r] = k]
            /\ did' = <<"update", r>>
            /\ Unsought
            /\ UNCHANGED <<arrayVars, unique, blength>>

(* my_hash_replace of the record found, by another one with the same key. *)
HashReplace(o) ==
    /\ current # NO_RECORD /\ o \notin Stored
    /\ data' = [data EXCEPT ![current].rec = o]
    /\ keyOf' = [keyOf EXCEPT ![o] = sought, ![data[current].rec] = NO_RECORD]
    /\ did' = <<"replace", o>>
    /\ UNCHANGED <<arrayVars, unique, blength, current, sought>>

(* my_hash_reset, my_hash_free, and my_hash_init after the latter. *)
Emptied(b) == /\ data' = <<>>
              /\ blength' = b
              /\ keyOf' = [r \in Records |-> NO_RECORD]
              /\ did' = <<"init">>
              /\ Unsought

HashReset == Usable /\ Emptied(1) /\ Reset /\ UNCHANGED unique
HashFree  == Usable /\ Emptied(0) /\ Uninit /\ UNCHANGED unique
HashInit  == ~Usable /\ Emptied(1) /\ ArrayInit(elements', number') /\ unique' \in BOOLEAN

Next == \/ \E r \in Records : \/ \E k \in Keys : HashInsert(r, k) \/ HashUpdate(r, k)
                              \/ HashDelete(r)
                              \/ HashReplace(r)
        \/ \E k \in Keys : SearchFirst(k)
        \/ SearchNext
        \/ HashReset \/ HashFree \/ HashInit

Spec == Init /\ [][Next]_vars
-----------------------------------------------------------------------------
(* A link that is in use is in memory, as the array counts as the table     *)
(* does, and blength fits the number of records.                            *)
TypeOK == /\ unique \in BOOLEAN
          /\ \E n \in 0 .. MaxRecords : data \in [0 .. n - 1 -> Links]
          /\ blength \in {0} \union {2 ^ i : i \in 0 .. MaxRecords}
          /\ elements = records /\ records <= number
          /\ blength # 0 => records \in blength \div 2 .. blength - 1  \* as my_hash_mask needs it
          /\ keyOf \in [Records -> Keys \union {NO_RECORD}]
          /\ current \in DOMAIN data \union {NO_RECORD}
          /\ sought \in Keys \union {NO_RECORD}

(* Every record is in the chain that begins at its home, that chain is all  *)
(* of one home, and it ends: whichever links the splitting of a chain, the  *)
(* evicted links and the moved last ones have overwritten.                  *)
HomeChains ==
    /\ TypeOK
    /\ \A i \in DOMAIN data :
           LET chain == Chain(data, Home(data[i].rec))
           IN  /\ i \in ToSet(chain)
               /\ \A j \in ToSet(chain) : Home(data[j].rec) = Home(data[i].rec)
               /\ data[Last(chain)].next = NO_RECORD

(* my_hash_first and my_hash_next together give every record with a key,    *)
(* and none twice.                                                          *)
AllFound ==
    \A k \in Keys : /\ ToSet(AllOf(keyOf, k)) = {r \in Stored : keyOf[r] = k}
                    /\ Len(AllOf(keyOf, k)) = Cardinality(ToSet(AllOf(keyOf, k)))

(* For all the moving about, the records in the table are those inserted,   *)
(* deleted, updated and replaced, and a UNIQUE table has no key twice; only *)
(* a key that another record has is refused as a duplicate, and only a      *)
(* record that is not there as missing.                                     *)
Abstract == INSTANCE KeyedRecords
                WITH keyed <- [r \in Stored |-> keyOf[r]],
                     did   <- IF did = <<"look">> THEN <<"refused">> ELSE did

ImplementsKeyedRecords == Abstract!KeyedSpec
=============================================================================

----------------------------- MODULE KeyCounts -----------------------------
(***************************************************************************)
(* What my_rbtree promises to those who put keys into it: how often each   *)
(* key has been put in, up to the most a counter can hold.  How the keys   *)
(* are arranged is not part of it.                                         *)
(***************************************************************************)
EXTENDS Integers

CONSTANTS Keys,
          MostCounted      \* a counter stays there

VARIABLES rules,           \* what has been agreed on for this tree
          times,           \* how often each key is in the tree
          did              \* the last call, with its key and whether it succeeded

Unique    == rules.unique       \* a key is only taken once
Removable == rules.removable    \* keys can be taken out again
Limited   == rules.limited      \* the tree starts anew when it gets too large

Nowhere == [k \in Keys |-> 0]

Start == /\ rules \in [unique : BOOLEAN, removable : BOOLEAN, limited : BOOLEAN]
         /\ times = Nowhere
         /\ did = <<"init">>

Put(k) == /\ did' = <<"insert", k, TRUE>>
          /\ ~(Unique /\ times[k] > 0)
          /\ times' = [times EXCEPT ![k] = IF @ = MostCounted THEN @ ELSE @ + 1]

(* A key is refused for being there already, or for want of memory. *)
Refuse(k) == /\ did' = <<"insert", k, FALSE>>
             /\ (Unique /\ times[k] > 0) \/ times[k] = 0
             /\ UNCHANGED times

(* The tree is emptied to make room for a key it did not have. *)
PutAnew(k) == /\ did'[1] = "insert" /\ did'[2] = k
              /\ Limited
              /\ times[k] = 0
              /\ times' = IF did'[3] THEN [Nowhere EXCEPT ![k] = 1] ELSE Nowhere

(* All of a key goes, however often it has been put in. *)
Remove(k) == /\ did'[1] = "delete" /\ did'[2] = k
             /\ did'[3] <=> Removable /\ times[k] > 0
             /\ times' = IF did'[3] THEN [times EXCEPT ![k] = 0] ELSE times

Look == did' = <<"search">> /\ UNCHANGED times

Clear == did' = <<"init">> /\ times' = Nowhere

CountsNext == \/ \E k \in Keys : Put(k) \/ Refuse(k) \/ PutAnew(k) \/ Remove(k)
              \/ Look \/ Clear

CountsSpec == Start /\ [][CountsNext /\ UNCHANGED rules]_<<rules, times, did>>
=============================================================================

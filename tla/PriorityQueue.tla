--------------------------- MODULE PriorityQueue ---------------------------
(***************************************************************************)
(* What my_queue promises: a bag of keys of which the best one, the least  *)
(* or the greatest, can be removed.  How the keys are arranged is not part *)
(* of it.  did tells which call has been made, so that no call can pass    *)
(* for another one.                                                        *)
(***************************************************************************)
EXTENDS Integers, Bags, Folds

CONSTANT Keys

VARIABLES bag,       \* the keys in the queue
          greatest,  \* whether the best key is the greatest one
          trusted,   \* whether the best key is promised to come first
          did        \* the last call, with the key put in or taken out

queueVars == <<bag, greatest, trusted, did>>

One(k) == SetToBag({k})

(* How many keys there are, each as often as it is in b. *)
Number(b) ==
    MapThenFoldSet(+, 0, LAMBDA k : b[k], LAMBDA S : CHOOSE k \in S : TRUE, BagToSet(b))

Best(k) == \A j \in BagToSet(bag) : IF greatest THEN k >= j ELSE k <= j

OnTop(k) == BagIn(k, bag) /\ (trusted => Best(k))

QueueStart == /\ bag = EmptyBag
              /\ greatest \in BOOLEAN
              /\ trusted = TRUE
              /\ did = <<"init">>

Put(k) == /\ did' = <<"insert", k>>
          /\ bag' = bag (+) One(k)
          /\ UNCHANGED <<greatest, trusted>>

TakeTop(k) == /\ did' = <<"remove", k>>
              /\ OnTop(k)
              /\ bag' = bag (-) One(k)
              /\ UNCHANGED <<greatest, trusted>>

(* Taking an element out that is not on top may disturb the order. *)
TakeInner(k) == /\ did' = <<"remove inner", k>>
                /\ BagIn(k, bag)
                /\ bag' = bag (-) One(k)
                /\ trusted' => trusted
                /\ UNCHANGED greatest

(* The key of the element on top changes. *)
Replace(k, new) == /\ did' = <<"replaced", new>>
                   /\ OnTop(k)
                   /\ bag' = (bag (-) One(k)) (+) One(new)
                   /\ UNCHANGED <<greatest, trusted>>

(* The keys of all elements change, only their number stays; the order is   *)
(* made anew.                                                               *)
ChangeAll == /\ did' = <<"fix">>
             /\ Number(bag') = Number(bag)
             /\ trusted'
             /\ UNCHANGED greatest

(* Elements that no longer fit are dropped. *)
Drop == /\ did' = <<"resize">>
        /\ bag' \sqsubseteq bag
        /\ UNCHANGED <<greatest, trusted>>

StartOver == /\ did' = <<"init">>
             /\ bag' = EmptyBag
             /\ greatest' \in BOOLEAN
             /\ trusted'

QueueNext == \/ \E k \in Keys : \/ Put(k) \/ TakeTop(k) \/ TakeInner(k)
                                \/ \E new \in Keys : Replace(k, new)
             \/ ChangeAll
             \/ Drop
             \/ StartOver

QueueSpec == QueueStart /\ [][QueueNext]_queueVars
=============================================================================

----------------------------- MODULE KeyValue -----------------------------
(***************************************************************************)
(* What my_hash promises: a map from keys to values, of which a call       *)
(* changes no key but its own, whatever becomes of the table behind it and *)
(* whether or not it is made while the table is walked through.            *)
(***************************************************************************)
EXTENDS Functions

CONSTANTS Keys, Values, NoValue

VARIABLES map,     \* the value of every key that is there
          did      \* the last call, with its key

KeyValueStart == map = <<>> /\ did = <<"init">>

(* The map with value v at key k. *)
With(k, v) == [x \in DOMAIN map \union {k} |-> IF x = k THEN v ELSE map[x]]

Add(k, v) == did' = <<"add", k>> /\ map' = With(k, v)

LookAdd(k) == /\ did' = <<"lookadd", k>>
              /\ map' = IF k \in DOMAIN map THEN map ELSE With(k, NoValue)

Delete(k) == /\ did' = <<"delete", k>>
             /\ k \in DOMAIN map
             /\ map' = Restrict(map, DOMAIN map \ {k})

(* A call that refuses, or only looks. *)
Leave == did' \in {<<"refused">>, <<"clear">>, <<"foreach">>} /\ UNCHANGED map

StartAgain == did' \in {<<"uninit">>, <<"init">>} /\ map' = <<>>

KeyValueNext == \/ \E k \in Keys : \/ \E v \in Values : Add(k, v)
                                   \/ LookAdd(k)
                                   \/ Delete(k)
                \/ Leave
                \/ StartAgain

KeyValueSpec == KeyValueStart /\ [][KeyValueNext]_<<map, did>>
=============================================================================

---------------------------- MODULE KeyedRecords ----------------------------
(***************************************************************************)
(* What my_dyn_hash promises: a set of records, each with a key, in which  *)
(* a call changes no record but the one it is made for.                    *)
(***************************************************************************)
EXTENDS Functions, TLC

CONSTANTS Records, Keys

VARIABLES unique,         \* whether no two records may have the same key
          keyed,          \* the key of every record in the set
          did             \* the last call, with its record

Start == /\ unique \in BOOLEAN
         /\ keyed = <<>>
         /\ did = <<"init">>

(* Another record than r has the key. *)
Taken(r, k) == \E o \in DOMAIN keyed \ {r} : keyed[o] = k

Without(r) == Restrict(keyed, DOMAIN keyed \ {r})

Insert(r, k) == /\ did' = <<"insert", r>>
                /\ ~(unique /\ Taken(r, k))
                /\ keyed' = (r :> k) @@ keyed
                /\ UNCHANGED unique

Delete(r) == /\ did' = <<"delete", r>>
             /\ r \in DOMAIN keyed
             /\ keyed' = Without(r)
             /\ UNCHANGED unique

Update(r, k) == /\ did' = <<"update", r>>
                /\ r \in DOMAIN keyed
                /\ ~(unique /\ Taken(r, k))
                /\ keyed' = [keyed EXCEPT ![r] = k]
                /\ UNCHANGED unique

(* Another record with the same key takes the place of r. *)
Replace(r, o) == /\ did' = <<"replace", o>>
                 /\ r \in DOMAIN keyed
                 /\ keyed' = (o :> keyed[r]) @@ Without(r)
                 /\ UNCHANGED unique

(* The set is emptied, possibly to be set up anew. *)
Clear == did' = <<"init">> /\ keyed' = <<>> /\ unique' \in BOOLEAN

(* A call changes nothing: it only looks, or there is no memory, or the key *)
(* it has for a record is taken, or the record is not in the set.           *)
Refuse == /\ UNCHANGED <<unique, keyed>>
          /\ \/ did' = <<"refused">>
             \/ \E r \in Records, k \in Keys : /\ did' = <<"taken", r, k>>
                                             /\ unique /\ Taken(r, k)
             \/ \E r \in Records \ DOMAIN keyed : did' = <<"missing", r>>

KeyedNext == \/ \E r \in Records : \/ \E k \in Keys : Insert(r, k) \/ Update(r, k)
                                   \/ Delete(r)
                                   \/ \E o \in Records : Replace(r, o)
             \/ Clear
             \/ Refuse

KeyedSpec == Start /\ [][KeyedNext]_<<unique, keyed, did>>
=============================================================================

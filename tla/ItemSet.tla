------------------------------ MODULE ItemSet ------------------------------
(***************************************************************************)
(* What HashTable promises: a set of items, one for a key, whatever the    *)
(* number of buckets.                                                      *)
(***************************************************************************)
CONSTANTS Item, Key, NULL, ABORT, getKey
VARIABLES set, result

itemSetVars == <<set, result>>

Init == set = {} /\ result = <<"new", NULL, NULL>>

Call(op, arg, allowed, value, next) ==
  /\ result[3] # ABORT
  /\ IF allowed THEN set' = next /\ result' = <<op, arg, value>>
     ELSE result' = <<op, arg, ABORT>> /\ UNCHANGED set

With(k) == {i \in set : getKey[i] = k}
ItemOf(k) == CHOOSE i \in With(k) : TRUE

Next ==
  \/ \E i \in Item : Call("Insert", i, With(getKey[i]) = {}, NULL, set \union {i})
  \/ \E k \in Key :
       \/ Call("Remove", k, With(k) # {}, ItemOf(k), set \ With(k))
       \/ Call("Find", k, TRUE, IF With(k) = {} THEN NULL ELSE ItemOf(k), set)

Spec == Init /\ [][Next]_itemSetVars
=============================================================================

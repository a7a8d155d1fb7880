------------------------------ MODULE ItemList ------------------------------
(***************************************************************************)
(* What List and SortedList promise: a sequence of different items.  It is *)
(* why the other modules have a sequence where the code has a List.        *)
(***************************************************************************)
EXTENDS Integers, Sequences, SequencesExt
CONSTANTS
  Item, NULL, ABORT,
  key            (* sorted lists are in the order of the keys              *)
VARIABLES
  seq,
  sorted,        (* TRUE: Insert is how to put items, FALSE: at the ends   *)
  result         (* the last call, its argument and what it returned       *)

itemListVars == <<seq, sorted, result>>

Init == seq = <<>> /\ result = <<"new", NULL, NULL>>

(* A call that its client may make only if allowed                         *)
Call(op, arg, allowed, value, then) ==
  /\ result[3] # ABORT
  /\ UNCHANGED sorted
  /\ IF allowed THEN then /\ result' = <<op, arg, value>>
     ELSE result' = <<op, arg, ABORT>> /\ UNCHANGED seq

Put(op, n, i) ==
  Call(op, i, i \notin Range(seq), NULL, seq' = InsertAt(seq, n, i))

(* Behind the items that are not larger: equal ones keep their order       *)
PutSorted(i) ==
  \E n \in 1 .. Len(seq) + 1 :
    /\ \A k \in DOMAIN seq : k < n <=> key[seq[k]] <= key[i]
    /\ Put("Insert", n, i)

Next ==
  \/ ~sorted /\ \E i \in Item : Put("Append", Len(seq) + 1, i) \/ Put("Prepend", 1, i)
  \/ sorted /\ \E i \in Item : PutSorted(i)
  \/ Call("RemoveFront", NULL, seq # <<>>, Head(seq), seq' = Tail(seq))
  \/ \E i \in Item :
       Call("Remove", i, i \in Range(seq), NULL, seq' = SelectSeq(seq, LAMBDA x : x # i))

Spec == Init /\ [][Next]_itemListVars
=============================================================================

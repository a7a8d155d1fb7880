------------------------------- MODULE Stacks -------------------------------
(***************************************************************************)
(* The two stacks of c++example/inheritstack.cc: ArrayStack, an array and  *)
(* the index of its next free cell, and ListStack, a linked list without a *)
(* count (c++example/list.cc).  A call returns a value, or ABORT where an  *)
(* ASSERT fails.                                                           *)
(***************************************************************************)
EXTENDS Integers, Sequences, FiniteSets, Functions, TLC
CONSTANTS
  Value, Element, NULL, ABORT,
  size           (* of the array; the list is given that many elements too *)
VARIABLES
  stack,         (* the array and top, or the heap, first and last         *)
  result         (* the last call, its argument and what it returned       *)

ArrayStack == [array |-> [n \in 0 .. size - 1 |-> NULL], top |-> 0]
ListStack == [heap |-> <<>>, first |-> NULL, last |-> NULL]

Init == stack \in {ArrayStack, ListStack} /\ result = <<"new", NULL, NULL>>

IsArray == "array" \in DOMAIN stack

Full == IsArray /\ stack.top = size
Empty == IF IsArray THEN stack.top = 0 ELSE stack.first = NULL

Call(op, arg, assert, value, next) ==
  /\ result[3] # ABORT
  /\ IF assert THEN stack' = next /\ result' = <<op, arg, value>>
     ELSE result' = <<op, arg, ABORT>> /\ UNCHANGED stack

(* stack[top++] = value                                                    *)
ArrayPush(v) == [stack EXCEPT !.array[stack.top] = v, !.top = @ + 1]

(* List::Prepend, with a new element                                       *)
Prepend(v) ==
  LET e == CHOOSE x \in Element : x \notin DOMAIN stack.heap
  IN  [heap |-> stack.heap @@ (e :> [item |-> v, next |-> stack.first]),
       first |-> e,
       last |-> IF Empty THEN e ELSE stack.last]

(* List::Remove                                                            *)
RemoveFirst ==
  LET e == stack.first
      one == e = stack.last
  IN  [heap |-> Restrict(stack.heap, DOMAIN stack.heap \ {e}),
       first |-> IF one THEN NULL ELSE stack.heap[e].next,
       last |-> IF one THEN NULL ELSE stack.last]

(* A ListStack is never Full; it is followed while there are elements      *)
Push(v) ==
  /\ ~IsArray => DOMAIN stack.heap # Element
  /\ Call("Push", v, ~Full, NULL, IF IsArray THEN ArrayPush(v) ELSE Prepend(v))

Pop ==
  Call("Pop", NULL, ~Empty,
       IF IsArray THEN stack.array[stack.top - 1] ELSE stack.heap[stack.first].item,
       IF IsArray THEN [stack EXCEPT !.top = @ - 1] ELSE RemoveFirst)

Next == Pop \/ \E v \in Value : Push(v)

-----------------------------------------------------------------------------
(* The values from the top down                                            *)
RECURSIVE Listed(_)
Listed(e) ==
  IF e \notin DOMAIN stack.heap THEN <<>>
  ELSE <<stack.heap[e].item>> \o Listed(stack.heap[e].next)

Pushed ==
  IF IsArray THEN [n \in 1 .. stack.top |-> stack.array[stack.top - n]]
  ELSE Listed(stack.first)

(* No element is lost, and last is one exactly when first is              *)
NoLeak ==
  ~IsArray => /\ Len(Listed(stack.first)) = Cardinality(DOMAIN stack.heap)
              /\ (stack.first = NULL) = (stack.last = NULL)
=============================================================================

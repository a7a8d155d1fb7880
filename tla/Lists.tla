------------------------------- MODULE Lists -------------------------------
(***************************************************************************)
(* List and SortedList (lib/list.h, lib/list.cc): elements on the heap,    *)
(* linked by next, with pointers to the first and the last one and a       *)
(* count.  A call returns a value, or ABORT where an ASSERT fails.         *)
(***************************************************************************)
EXTENDS Integers, Sequences, Functions, TLC
CONSTANTS
  Item, Element, NULL, ABORT,
  key            (* what compare looks at, for each item                   *)
VARIABLES
  list,          (* its heap, first, last and numInList                    *)
  sorted,        (* it is a SortedList                                     *)
  result         (* the last call, its argument and what it returned       *)

List == [heap |-> <<>>, first |-> NULL, last |-> NULL, numInList |-> 0]

Init ==
  /\ list = List
  /\ sorted \in BOOLEAN
  /\ result = <<"new", NULL, NULL>>

(* The elements that a ListIterator passes from e on                       *)
RECURSIVE Iterate(_)
Iterate(e) ==
  IF e \notin DOMAIN list.heap THEN <<>> ELSE <<e>> \o Iterate(list.heap[e].next)

Elements == Iterate(list.first)
Items == [n \in DOMAIN Elements |-> list.heap[Elements[n]].item]

IsInList(i) == i \in Range(Items)
IsEmpty == list.numInList = 0

compare(x, y) == IF key[x] < key[y] THEN -1 ELSE IF key[x] = key[y] THEN 0 ELSE 1

(* A call with an ASSERT at its start                                      *)
Call(op, arg, assert, value, next) ==
  /\ result[3] # ABORT
  /\ UNCHANGED sorted
  /\ IF assert THEN list' = next /\ result' = <<op, arg, value>>
     ELSE result' = <<op, arg, ABORT>> /\ UNCHANGED list

(* The address of a new ListElement, and the element                       *)
New == CHOOSE e \in Element : e \notin DOMAIN list.heap
ListElement(i, next) == New :> [item |-> i, next |-> next]
Delete(heap, e) == Restrict(heap, DOMAIN heap \ {e})

(* The list is empty: the element is its first and last one                *)
Only(i) ==
  [heap |-> ListElement(i, NULL), first |-> New, last |-> New, numInList |-> 1]

(* last->next = element, last = element                                    *)
AtEnd(i) ==
  [list EXCEPT !.heap = [@ EXCEPT ![list.last].next = New] @@ ListElement(i, NULL),
               !.last = New, !.numInList = @ + 1]

(* element->next = first, first = element                                  *)
AtFront(i) ==
  [list EXCEPT !.heap = @ @@ ListElement(i, list.first),
               !.first = New, !.numInList = @ + 1]

(* element->next = ptr->next, ptr->next = element                          *)
Behind(ptr, i) ==
  [list EXCEPT !.heap = [@ EXCEPT ![ptr].next = New]
                          @@ ListElement(i, list.heap[ptr].next),
               !.numInList = @ + 1]

AppendItem(i) ==
  Call("Append", i, ~IsInList(i), NULL, IF IsEmpty THEN Only(i) ELSE AtEnd(i))

Prepend(i) ==
  Call("Prepend", i, ~IsInList(i), NULL, IF IsEmpty THEN Only(i) ELSE AtFront(i))

(* The first ptr that has an element with a larger item behind it, if any  *)
BeforeLarger(i) ==
  LET larger == {n \in 2 .. Len(Items) : compare(i, Items[n]) < 0}
  IN  {Elements[n - 1] : n \in {m \in larger : \A k \in larger : m <= k}}

Insert(i) ==
  Call("Insert", i, ~IsInList(i), NULL,
    CASE IsEmpty -> Only(i)
      [] ~IsEmpty /\ compare(i, Items[1]) < 0 -> AtFront(i)
      [] OTHER -> IF BeforeLarger(i) = {} THEN AtEnd(i)
                  ELSE Behind(CHOOSE ptr \in BeforeLarger(i) : TRUE, i))

(* What RemoveFront leaves                                                 *)
Rest ==
  [list EXCEPT !.heap = Delete(@, list.first),
               !.first = IF @ = list.last THEN NULL ELSE list.heap[@].next,
               !.last = IF @ = list.first THEN NULL ELSE @,
               !.numInList = @ - 1]

RemoveFront == Call("RemoveFront", NULL, ~IsEmpty, list.heap[list.first].item, Rest)

(* Mutant: last stays where it is                                          *)
UnlinkKeepsLast(prev) ==
  LET ptr == list.heap[prev].next IN
  [list EXCEPT !.heap = Delete([@ EXCEPT ![prev].next = list.heap[ptr].next], ptr),
               !.numInList = @ - 1]

(* prev->next = ptr->next, and prev is the last one if that is NULL        *)
Unlink(prev) ==
  LET ptr == list.heap[prev].next
      next == list.heap[ptr].next
  IN  [list EXCEPT !.heap = Delete([@ EXCEPT ![prev].next = next], ptr),
                   !.last = IF next = NULL THEN prev ELSE @,
                   !.numInList = @ - 1]

Remove(i) ==
  Call("Remove", i, IsInList(i), NULL,
    IF i = Items[1] THEN Rest
    ELSE Unlink(CHOOSE prev \in DOMAIN list.heap :
                  /\ list.heap[prev].next # NULL
                  /\ list.heap[list.heap[prev].next].item = i))

(* Append and Prepend of a SortedList are private                          *)
Next ==
  \/ ~sorted /\ \E i \in Item : AppendItem(i) \/ Prepend(i)
  \/ sorted /\ \E i \in Item : Insert(i)
  \/ RemoveFront
  \/ \E i \in Item : Remove(i)

-----------------------------------------------------------------------------
(* SanityCheck of List and SortedList                                      *)
SanityCheck ==
  /\ IF list.first = NULL THEN list.numInList = 0 /\ list.last = NULL
     ELSE /\ Len(Elements) = list.numInList
          /\ Elements[Len(Elements)] = list.last
  /\ sorted => \A n \in 2 .. Len(Items) : compare(Items[n - 1], Items[n]) <= 0

(* No element is lost: the ones allocated are the ones linked              *)
NoLeak == DOMAIN list.heap = Range(Elements)
=============================================================================

------------------------------ MODULE Bitmaps ------------------------------
(***************************************************************************)
(* Bitmap (lib/bitmap.h, lib/bitmap.cc): numBits bits in words of          *)
(* BitsInWord.  A call returns a value, or ABORT where an ASSERT fails.    *)
(***************************************************************************)
EXTENDS Integers, FiniteSets
CONSTANTS
  numBits, BitsInWord,
  Which,         (* the arguments of the calls                             *)
  NULL, ABORT
VARIABLES
  map,           (* the words                                              *)
  result         (* the last call, its argument and what it returned       *)

divRoundUp(n, s) == (n \div s) + (IF n % s > 0 THEN 1 ELSE 0)
numWords == divRoundUp(numBits, BitsInWord)

Init ==
  /\ map = [w \in 0 .. numWords - 1 |-> 0]
  /\ result = <<"new", NULL, NULL>>

InRange(which) == which >= 0 /\ which < numBits

(* 1 << (which % BitsInWord), and whether a word has that bit              *)
Bit(which) == 2 ^ (which % BitsInWord)
Has(word, which) == (word \div Bit(which)) % 2 = 1

Tested(which) == Has(map[which \div BitsInWord], which)

(* map[which / BitsInWord] |= and &= ~                                     *)
Marked(which) ==
  [map EXCEPT ![which \div BitsInWord] = IF Has(@, which) THEN @ ELSE @ + Bit(which)]

Cleared(which) ==
  [map EXCEPT ![which \div BitsInWord] = IF Has(@, which) THEN @ - Bit(which) ELSE @]

Call(op, arg, assert, value, next) ==
  /\ result[3] # ABORT
  /\ IF assert THEN map' = next /\ result' = <<op, arg, value>>
     ELSE result' = <<op, arg, ABORT>> /\ UNCHANGED map

Mark(which) == Call("Mark", which, InRange(which), NULL, Marked(which))
Clear(which) == Call("Clear", which, InRange(which), NULL, Cleared(which))
Test(which) == Call("Test", which, InRange(which), Tested(which), map)

(* The loop over the bits, from i on, up to the first clear one            *)
RECURSIVE FirstClear(_)
FirstClear(i) ==
  IF i >= numBits THEN -1 ELSE IF ~Tested(i) THEN i ELSE FirstClear(i + 1)

FindAndSet ==
  LET i == FirstClear(0)
  IN  Call("FindAndSet", NULL, TRUE, i, IF i = -1 THEN map ELSE Marked(i))

NumClear ==
  Call("NumClear", NULL, TRUE, Cardinality({i \in 0 .. numBits - 1 : ~Tested(i)}), map)

Next ==
  \/ \E which \in Which : Mark(which) \/ Clear(which) \/ Test(which)
  \/ FindAndSet
  \/ NumClear

-----------------------------------------------------------------------------
(* The bits past numBits of the last word stay clear, so that the words    *)
(* can be written to and fetched from the disk as they are                 *)
TailClear ==
  \A w \in DOMAIN map : \A n \in 0 .. BitsInWord - 1 :
    w * BitsInWord + n >= numBits => ~Has(map[w], n)
=============================================================================

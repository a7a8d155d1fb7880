------------------------------- MODULE BitSet -------------------------------
(***************************************************************************)
(* What Bitmap promises: a set of numbers, of which FindAndSet adds the    *)
(* least that is missing.  Frames, process slots and sectors are kept so.  *)
(***************************************************************************)
EXTENDS Integers, FiniteSets, FiniteSetsExt
CONSTANTS numBits, Which, NULL, ABORT
VARIABLES marked, result

bitSetVars == <<marked, result>>

Bits == 0 .. numBits - 1
Clear == Bits \ marked

Init == marked = {} /\ result = <<"new", NULL, NULL>>

Call(op, arg, allowed, value, next) ==
  /\ result[3] # ABORT
  /\ IF allowed THEN marked' = next /\ result' = <<op, arg, value>>
     ELSE result' = <<op, arg, ABORT>> /\ UNCHANGED marked

Next ==
  \/ \E n \in Which :
       \/ Call("Mark", n, n \in Bits, NULL, marked \union {n})
       \/ Call("Clear", n, n \in Bits, NULL, marked \ {n})
       \/ Call("Test", n, n \in Bits, n \in marked, marked)
  \/ Call("FindAndSet", NULL, TRUE,
          IF Clear = {} THEN -1 ELSE Min(Clear),
          IF Clear = {} THEN marked ELSE marked \union {Min(Clear)})
  \/ Call("NumClear", NULL, TRUE, Cardinality(Clear), marked)

Spec == Init /\ [][Next]_bitSetVars
=============================================================================

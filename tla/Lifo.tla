-------------------------------- MODULE Lifo --------------------------------
(***************************************************************************)
(* What a Stack of c++example/ promises: the last integer pushed is the    *)
(* first popped, and a stack that can be full refuses more.                *)
(***************************************************************************)
EXTENDS Integers, Sequences
CONSTANTS Value, NULL, ABORT
VARIABLES pushed, room, result

lifoVars == <<pushed, room, result>>

Init == pushed = <<>> /\ result = <<"new", NULL, NULL>>

Call(op, arg, allowed, value, next) ==
  /\ result[3] # ABORT
  /\ UNCHANGED room
  /\ IF allowed THEN pushed' = next /\ result' = <<op, arg, value>>
     ELSE result' = <<op, arg, ABORT>> /\ UNCHANGED pushed

Next ==
  \/ \E v \in Value : Call("Push", v, Len(pushed) < room, NULL, <<v>> \o pushed)
  \/ Call("Pop", NULL, pushed # <<>>, Head(pushed), Tail(pushed))

Spec == Init /\ [][Next]_lifoVars
=============================================================================

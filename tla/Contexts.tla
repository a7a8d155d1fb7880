------------------------------ MODULE Contexts ------------------------------
(***************************************************************************)
(* What switching promises to threads.  Each has registers of its own,     *)
(* which only it changes; it starts by ThreadBegin, calls what it was      *)
(* forked to call with its argument, then ThreadFinish; and after it has   *)
(* overrun its stack no other thread runs.                                 *)
(***************************************************************************)
EXTENDS Integers, Sequences
CONSTANTS Thread, main, NULL
VARIABLES current, own, job, calls, overran, aborted

contextVars == <<current, own, job, calls, overran, aborted>>

Init ==
  /\ current = main
  /\ job = [t \in Thread |-> NULL]
  /\ calls = [t \in Thread |-> <<>>]
  /\ overran = {}
  /\ ~aborted

Due(t) == <<<<"ThreadBegin", NULL>>, job[t], <<"ThreadFinish", NULL>>>>

(* The current thread uses its registers, makes its next call, or forks    *)
Act ==
  /\ UNCHANGED <<current, aborted>>
  /\ \A t \in Thread \ {current} : own'[t] = own[t] /\ calls'[t] = calls[t]
  /\ \/ calls'[current] = calls[current]
     \/ \E n \in 1 .. 3 : Len(calls[current]) = n - 1 /\ calls'[current] = SubSeq(Due(current), 1, n)
  /\ \A t \in Thread : job[t] # NULL => job'[t] = job[t]
  /\ overran' \in {overran, overran \cup {current}}

(* It gives the processor to another, and may be gone                      *)
Give ==
  /\ current' # current
  /\ current \notin overran
  /\ \A t \in Thread : own'[t] = own[t] \/ (t = current /\ own'[t] = NULL)
  /\ UNCHANGED <<job, calls, overran, aborted>>

Stop ==
  /\ current \in overran
  /\ aborted'
  /\ UNCHANGED <<current, own, job, calls, overran>>

Spec == Init /\ [][~aborted /\ (Act \/ Give \/ Stop)]_contextVars
=============================================================================

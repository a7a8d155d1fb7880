----------------------------- MODULE Semaphores -----------------------------
(***************************************************************************)
(* What the semaphores of threads/synch.cc promise to the code that uses   *)
(* them, with no scheduler, ready list or queue of sleepers: a semaphore   *)
(* is a number, and a thread is or is not inside a P() that found 0.       *)
(* Threads implements this specification (Threads!Promise), and the        *)
(* devices and services above the kernel are written against it.           *)
(*                                                                         *)
(* P promises no order: a thread that calls it may take the unit a sleeper *)
(* was woken for.                                                          *)
(***************************************************************************)
EXTENDS Integers

CONSTANTS
  Thread,         (* the threads that call P                               *)
  Sem,            (* semaphore objects                                     *)
  NoSem,          (* "not inside P()"                                      *)
  InitialValues   (* what new Semaphore is called with                     *)

VARIABLES
  sems,           (* the semaphores that exist                             *)
  value,          (* Semaphore::value                                      *)
  waits           (* the semaphore whose P() the thread sleeps in          *)

semaphoreVars == <<sems, value, waits>>

Init ==
  /\ sems = {}
  /\ value = [s \in Sem |-> 0]
  /\ waits = [t \in Thread |-> NoSem]

(* Semaphore::P finds 0 and goes to sleep.  To be woken and to find 0      *)
(* again changes nothing here.                                             *)
Block(t, s) ==
  /\ s \in sems
  /\ waits[t] = NoSem
  /\ value[s] = 0
  /\ waits' = [waits EXCEPT ![t] = s]
  /\ UNCHANGED <<sems, value>>

(* Semaphore::P takes a unit, at the call or after it slept.               *)
Take(t, s) ==
  /\ s \in sems
  /\ waits[t] \in {NoSem, s}
  /\ value[s] # 0
  /\ value' = [value EXCEPT ![s] = @ - 1]
  /\ waits' = [waits EXCEPT ![t] = NoSem]
  /\ UNCHANGED sems

(* Semaphore::V, by a thread or by an interrupt handler                    *)
Release(s) ==
  /\ s \in sems
  /\ value' = [value EXCEPT ![s] = @ + 1]
  /\ UNCHANGED <<sems, waits>>

(* new Semaphore                                                           *)
Create(s, v) ==
  /\ s \notin sems
  /\ sems' = sems \cup {s}
  /\ value' = [value EXCEPT ![s] = v]
  /\ UNCHANGED waits

(* delete of a semaphore no thread is inside                               *)
Delete(s) ==
  /\ s \in sems
  /\ \A t \in Thread : waits[t] # s
  /\ sems' = sems \ {s}
  /\ value' = [value EXCEPT ![s] = 0]
  /\ UNCHANGED waits

Next ==
  \/ \E t \in Thread, s \in Sem : Block(t, s) \/ Take(t, s)
  \/ \E s \in Sem : Release(s) \/ Delete(s)
  \/ \E s \in Sem, v \in InitialValues : Create(s, v)

Spec == Init /\ [][Next]_semaphoreVars
=============================================================================

------------------------- MODULE ThreadsRefinement -------------------------
(***************************************************************************)
(* The thread kernel of module Threads implements the semaphores of module *)
(* Semaphores, for any number of threads and semaphores.                   *)
(***************************************************************************)
EXTENDS ThreadsProofs

-----------------------------------------------------------------------------
(* The kernel implements the abstract semaphores                           *)

(* A turn of the loop of P is the abstract P, or changes nothing there     *)
(* when a woken thread finds 0 again.                                      *)
LEMMA PSimulates ==
  ASSUME IInv, NEW s \in sems, PLoop(s), UNCHANGED sems,
         waits[current] \in {NoSem, s}
  PROVE  Abstract!Next \/ UNCHANGED Abstract!semaphoreVars
<1>1. current \in Thread /\ s \in Sem /\ waits \in [Thread -> Sem \cup {NoSem}]
  BY DEF IInv, TypeOK
<1>2. CASE value[s] # 0
  <2>1. Abstract!Take(current, s)
    BY <1>2 DEF PLoop, Abstract!Take
  <2>2. QED
    BY <1>1, <2>1 DEF Abstract!Next
<1>3. CASE value[s] = 0 /\ waits[current] = NoSem
  <2>1. Abstract!Block(current, s)
    BY <1>3 DEF PLoop, Abstract!Block
  <2>2. QED
    BY <1>1, <2>1 DEF Abstract!Next
<1>4. CASE value[s] = 0 /\ waits[current] = s
  BY <1>1, <1>4 DEF PLoop, Abstract!semaphoreVars
<1>5. QED
  BY <1>2, <1>3, <1>4

(* Every step of the kernel is a step of the abstract semaphores or leaves *)
(* them alone.                                                             *)
LEMMA NextSimulates ==
  IInv /\ [Next]_vars => [Abstract!Next]_(Abstract!semaphoreVars)
<1> SUFFICES ASSUME IInv, [Next]_vars
             PROVE  Abstract!Next \/ UNCHANGED Abstract!semaphoreVars
  OBVIOUS
<1>1. CASE PRetest
  <2>1. waits[current] \in sems
    BY <1>1, ThreadAssumption DEF PRetest, IInv, TypeOK, ContextsMatch
  <2>2. QED
    BY <1>1, <2>1, PSimulates DEF PRetest
<1>2. ASSUME NEW s \in Sem, P(s)
      PROVE  Abstract!Next \/ UNCHANGED Abstract!semaphoreVars
  <2>1. waits[current] = NoSem
    BY <1>2 DEF P, IInv, TypeOK, ContextsMatch
  <2>2. QED
    BY <1>2, <2>1, PSimulates DEF P
<1>3. ASSUME NEW s \in Sem, V(s) \/ HandlerV(s)
      PROVE  Abstract!Next
  <2>1. Abstract!Release(s)
    BY <1>3 DEF V, HandlerV, VBody, Abstract!Release
  <2>2. QED
    BY <2>1 DEF Abstract!Next
<1>4. ASSUME NEW s \in Sem, DeleteSemaphore(s)
      PROVE  Abstract!Next
  <2>1. Abstract!Delete(s)
    BY <1>4 DEF DeleteSemaphore, Abstract!Delete, schedVars
  <2>2. QED
    BY <2>1 DEF Abstract!Next
<1>5. ASSUME NEW s \in Sem, NEW v \in InitialValues, NewSemaphore(s, v)
      PROVE  Abstract!Next
  <2>1. Abstract!Create(s, v)
    BY <1>5 DEF NewSemaphore, Abstract!Create, schedVars
  <2>2. QED
    BY <2>1 DEF Abstract!Next
<1>6. ASSUME NEW t \in Thread, Fork(t)
      PROVE  UNCHANGED Abstract!semaphoreVars
  BY <1>6 DEF Fork, semVars, Abstract!semaphoreVars
<1>7. CASE \/ Dispatch \/ Idle \/ IdleReturn \/ SwitchIn \/ EndTick \/ Yield
           \/ Finish \/ UserInstruction \/ Halt \/ TimerInterrupt
           \/ UNCHANGED vars
  BY <1>7 DEF Dispatch, Idle, IdleReturn, SwitchIn, EndTick, Yield, Finish,
              FinishBody, UserInstruction, Halt, TimerInterrupt, vars,
              schedVars, semVars, Abstract!semaphoreVars
<1>8. QED
  BY <1>1, <1>2, <1>3, <1>4, <1>5, <1>6, <1>7
     DEF Next, KernelStep, Client, Call, Halted

(* The thread kernel, with its ready list, queues, preemption and          *)
(* interrupt handlers, implements the abstract semaphores (synch.cc).      *)
THEOREM KernelKeepsPromise == Spec => Promise
<1>1. Init => Abstract!Init
  BY DEF Init, Abstract!Init
<1>2. QED
  BY <1>1, NextSimulates, KernelInvariant, PTL DEF Spec, Promise, Abstract!Spec
=============================================================================

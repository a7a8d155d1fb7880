--------------------------- MODULE ThreadsProofs ---------------------------
(***************************************************************************)
(* Proofs about the thread kernel of module Threads, for any number of     *)
(* threads and semaphores.                                                 *)
(***************************************************************************)
EXTENDS Threads, FiniteSetTheorems, SequenceTheorems, TLAPS

-----------------------------------------------------------------------------
(* Lists without repetition                                                *)

(* List::Append of an element that is not on the list                      *)
LEMMA AppendRange ==
  ASSUME NEW S, NEW q \in Seq(S), NEW x \in S
  PROVE  /\ Append(q, x) \in Seq(S)
         /\ Append(q, x) # <<>>
         /\ Range(Append(q, x)) = Range(q) \cup {x}
         /\ IsInjective(q) /\ x \notin Range(q) => IsInjective(Append(q, x))
  BY DEF Range, IsInjective

(* List::RemoveFront                                                       *)
LEMMA TailRange ==
  ASSUME NEW S, NEW q \in Seq(S), q # <<>>, IsInjective(q)
  PROVE  /\ Head(q) \in S
         /\ Head(q) \in Range(q)
         /\ Tail(q) \in Seq(S)
         /\ IsInjective(Tail(q))
         /\ Range(Tail(q)) = Range(q) \ {Head(q)}
<1>1. /\ Head(q) \in S
      /\ Head(q) = q[1]
      /\ Tail(q) \in Seq(S)
      /\ Len(q) \in Nat \ {0}
      /\ DOMAIN q = 1 .. Len(q)
      /\ DOMAIN Tail(q) = 1 .. (Len(q) - 1)
      /\ \A i \in 1 .. (Len(q) - 1) : Tail(q)[i] = q[i + 1]
  OBVIOUS
<1>2. Head(q) \in Range(q)
  BY <1>1 DEF Range
<1>3. IsInjective(Tail(q))
  BY <1>1 DEF IsInjective
<1>4. Range(Tail(q)) \subseteq Range(q) \ {Head(q)}
  BY <1>1 DEF Range, IsInjective
<1>5. ASSUME NEW x \in Range(q), x # Head(q)
      PROVE  x \in Range(Tail(q))
  <2>1. PICK i \in 1 .. Len(q) : x = q[i]
    BY <1>1 DEF Range
  <2>2. i - 1 \in 1 .. (Len(q) - 1) /\ Tail(q)[i - 1] = x
    BY <1>1, <1>5, <2>1
  <2>3. QED
    BY <1>1, <2>2 DEF Range
<1>6. QED
  BY <1>1, <1>2, <1>3, <1>4, <1>5

-----------------------------------------------------------------------------
(* Every thread is in one place                                            *)

(* The state after Kernel::Initialize satisfies the invariant.             *)
LEMMA InitIInv == Init => IInv
<1> SUFFICES ASSUME Init PROVE IInv
  OBVIOUS
<1> USE ThreadAssumption
<1>1. TypeOK
  <2>1. /\ readyList \in Seq(Thread)
        /\ queue \in [Sem -> Seq(Thread)]
        /\ sems \subseteq Sem
    BY EmptySeq DEF Init
  <2>2. yieldOnReturn \in BOOLEAN
    BY Zenon DEF Init
  <2>3. QED
    BY <2>1, <2>2 DEF Init, TypeOK, Phase, Status, Label
<1>2. OnePlace
  BY DEF Init, OnePlace, ReadyListExact, QueuesExact, OneRunning, Sleeping,
         Range, IsInjective
<1>3. ContextsMatch
  BY DEF Init, ContextsMatch, Sleeping
<1>4. QED
  BY <1>1, <1>2, <1>3 DEF IInv

(* Sleep switching to the front of the ready list keeps the invariant.     *)
LEMMA DispatchIInv == IInv /\ Dispatch => IInv'
<1> SUFFICES ASSUME IInv, Dispatch PROVE IInv'
  OBVIOUS
<1> USE ThreadAssumption DEF IInv, TypeOK, OnePlace, Dispatch, Run, semVars
<1>1. /\ Head(readyList) \in Thread
      /\ status[Head(readyList)] = "READY"
      /\ readyList' \in Seq(Thread)
      /\ IsInjective(readyList')
      /\ Range(readyList') = Range(readyList) \ {Head(readyList)}
  BY TailRange DEF ReadyListExact
<1>2. TypeOK'
  BY <1>1 DEF Phase, Status, Label
<1>3. ReadyListExact'
  BY <1>1 DEF ReadyListExact
<1>4. QueuesExact'
  BY <1>1 DEF QueuesExact
<1>5. OneRunning'
  BY <1>1 DEF OneRunning, Sleeping, ContextsMatch
<1>6. ContextsMatch'
  BY <1>1 DEF OneRunning, ContextsMatch, Sleeping
<1>7. QED
  BY <1>2, <1>3, <1>4, <1>5, <1>6

(* Steps that only move the machine keep the invariant.                    *)
LEMMA IdleIInv ==
  IInv /\ (Idle \/ IdleReturn \/ UserInstruction \/ Halt) => IInv'
<1> SUFFICES ASSUME IInv, Idle \/ IdleReturn \/ UserInstruction \/ Halt
             PROVE  IInv'
  OBVIOUS
<1> USE DEF IInv, TypeOK, OnePlace, Idle, IdleReturn, UserInstruction, Halt,
            semVars
<1>1. TypeOK' /\ ReadyListExact' /\ QueuesExact'
  BY DEF Phase, ReadyListExact, QueuesExact
<1>2. OneRunning' /\ ContextsMatch'
  BY DEF OneRunning, ContextsMatch, Sleeping
<1>3. QED
  BY <1>1, <1>2

(* The timer handler keeps the invariant.                                  *)
LEMMA TimerIInv == IInv /\ TimerInterrupt => IInv'
<1> SUFFICES ASSUME IInv, TimerInterrupt PROVE IInv'
  OBVIOUS
<1> USE DEF IInv, TypeOK, OnePlace, TimerInterrupt, semVars
<1>1. yieldOnReturn' \in BOOLEAN
  BY Zenon
<1>2. TypeOK' /\ ReadyListExact' /\ QueuesExact'
  BY <1>1 DEF ReadyListExact, QueuesExact
<1>3. OneRunning' /\ ContextsMatch'
  BY DEF OneRunning, ContextsMatch, Sleeping
<1>4. QED
  BY <1>2, <1>3

(* The far side of SWITCH, CheckToBeDestroyed included, keeps the          *)
(* invariant.                                                              *)
LEMMA SwitchInIInv == IInv /\ SwitchIn => IInv'
<1> SUFFICES ASSUME IInv, SwitchIn PROVE IInv'
  OBVIOUS
<1> USE ThreadAssumption DEF IInv, TypeOK, OnePlace, SwitchIn, semVars
<1>1. /\ status[current] = "RUNNING"
      /\ toBeDestroyed # current
      /\ toBeDestroyed \in Thread => /\ status[toBeDestroyed] = "BLOCKED"
                                     /\ waits[toBeDestroyed] = NoSem
  BY DEF OneRunning, Sleeping, ContextsMatch
<1>2. TypeOK'
  BY DEF Phase, Status, Label
<1>3. ReadyListExact'
  BY <1>1 DEF ReadyListExact
<1>4. QueuesExact'
  BY <1>1 DEF QueuesExact
<1>5. OneRunning'
  BY <1>1 DEF OneRunning, Sleeping
<1>6. ContextsMatch'
  BY <1>1 DEF ContextsMatch, OneRunning, Sleeping
<1>7. QED
  BY <1>2, <1>3, <1>4, <1>5, <1>6

(* The yield of the current thread, by its own call or after a tick        *)
LEMMA YieldIInv == IInv /\ (Yield \/ EndTick) => IInv'
<1> SUFFICES ASSUME IInv, Yield \/ EndTick PROVE IInv'
  OBVIOUS
<1> USE ThreadAssumption DEF IInv, TypeOK, OnePlace, Yield, EndTick, semVars
<1>1. /\ yieldOnReturn' \in BOOLEAN
      /\ cpu \in {"run", "tick"}
      /\ UNCHANGED <<waits, sems, value, queue>>
  BY Zenon
<1>2. /\ status[current] = "RUNNING"
      /\ pc[current] = "run"
      /\ toBeDestroyed = NoThread
      /\ waits[current] = NoSem
  BY <1>1 DEF OneRunning, Sleeping, ContextsMatch
<1>3. CASE UNCHANGED <<current, status, readyList, toBeDestroyed, pc>>
  <2>1. cpu' \in {"run", "tick"}
    BY <1>1, <1>3, <1>2 DEF YieldBody, Run
  <2>2. TypeOK' /\ ReadyListExact' /\ QueuesExact'
    BY <1>1, <1>3, <2>1 DEF ReadyListExact, QueuesExact, Phase
  <2>3. OneRunning' /\ ContextsMatch'
    BY <1>1, <1>3, <2>1 DEF OneRunning, ContextsMatch, Sleeping
  <2>4. QED
    BY <2>2, <2>3
<1>4. CASE /\ readyList # <<>>
           /\ readyList' = Append(Tail(readyList), current)
           /\ pc' = [pc EXCEPT ![current] = "yield"]
           /\ Run(Head(readyList), FALSE, [status EXCEPT ![current] = "READY"])
  <2> USE DEF Run
  <2>1. /\ Head(readyList) \in Thread
        /\ status[Head(readyList)] = "READY"
        /\ Tail(readyList) \in Seq(Thread)
        /\ IsInjective(Tail(readyList))
        /\ Range(Tail(readyList)) = Range(readyList) \ {Head(readyList)}
    BY <1>4, TailRange DEF ReadyListExact
  <2>2. /\ readyList' \in Seq(Thread)
        /\ IsInjective(readyList')
        /\ Range(readyList') = (Range(readyList) \ {Head(readyList)}) \cup {current}
    <3>1. current \in Thread /\ current \notin Range(Tail(readyList))
      BY <1>2, <2>1 DEF ReadyListExact
    <3>2. DEFINE q == Tail(readyList)
    <3>3. /\ Append(q, current) \in Seq(Thread)
          /\ IsInjective(Append(q, current))
          /\ Range(Append(q, current)) = Range(q) \cup {current}
      <4> HIDE DEF q, Run, Yield, EndTick
      <4>1. q \in Seq(Thread) /\ IsInjective(q) /\ current \notin Range(q)
        BY <2>1, <3>1 DEF q
      <4>2. QED
        BY <3>1, <4>1, AppendRange
    <3>4. QED
      BY <1>4, <2>1, <3>3
  <2>3. TypeOK'
    BY <1>1, <1>4, <2>1, <2>2 DEF Phase, Status, Label
  <2>4. ReadyListExact'
    BY <1>2, <1>4, <2>1, <2>2 DEF ReadyListExact
  <2>5. QueuesExact'
    BY <1>1, <1>2, <1>4, <2>1 DEF QueuesExact
  <2>6. OneRunning'
    BY <1>1, <1>2, <1>4, <2>1 DEF OneRunning, Sleeping
  <2>7. ContextsMatch'
    BY <1>1, <1>2, <1>4, <2>1 DEF ContextsMatch, OneRunning, Sleeping
  <2>8. QED
    BY <2>3, <2>4, <2>5, <2>6, <2>7
<1>5. QED
  BY <1>3, <1>4 DEF YieldBody

(* A turn of the loop of P, at the call or after a wakeup                  *)
LEMMA PIInv ==
  ASSUME IInv, NEW s \in sems, PLoop(s),
         cpu \in {"run", "retest"},
         cpu = "retest" => s = waits[current],
         UNCHANGED <<current, readyList, toBeDestroyed, yieldOnReturn, sems>>
  PROVE  IInv'
<1> USE ThreadAssumption DEF IInv, TypeOK, OnePlace
<1>1. /\ status[current] = "RUNNING"
      /\ toBeDestroyed = NoThread
      /\ waits[current] \in {NoSem, s}
      /\ s \in Sem
  BY DEF OneRunning, Sleeping, ContextsMatch
<1>2. CASE value[s] = 0
  <2>1. /\ queue' = [queue EXCEPT ![s] = Append(@, current)]
        /\ status' = [status EXCEPT ![current] = "BLOCKED"]
        /\ pc' = [pc EXCEPT ![current] = "P"]
        /\ waits' = [waits EXCEPT ![current] = s]
        /\ cpu' = "sleep"
        /\ UNCHANGED value
    BY <1>2 DEF PLoop
  <2>2. queue[s] \in Seq(Thread) /\ IsInjective(queue[s])
        /\ current \notin Range(queue[s])
    BY <1>1 DEF QueuesExact
  <2>3. /\ Append(queue[s], current) \in Seq(Thread)
        /\ IsInjective(Append(queue[s], current))
        /\ Range(Append(queue[s], current)) = Range(queue[s]) \cup {current}
    BY <2>2, AppendRange
  <2>4. TypeOK'
    BY <1>1, <2>1, <2>3 DEF Phase, Status, Label
  <2>5. ReadyListExact'
    BY <1>1, <2>1 DEF ReadyListExact
  <2>6. QueuesExact'
    BY <1>1, <2>1, <2>3 DEF QueuesExact
  <2>7. OneRunning' /\ ContextsMatch'
    BY <1>1, <2>1 DEF OneRunning, ContextsMatch, Sleeping
  <2>8. QED
    BY <2>4, <2>5, <2>6, <2>7
<1>3. CASE value[s] # 0
  <2>1. /\ value' = [value EXCEPT ![s] = @ - 1]
        /\ pc' = [pc EXCEPT ![current] = "run"]
        /\ waits' = [waits EXCEPT ![current] = NoSem]
        /\ cpu' = "tick"
        /\ UNCHANGED <<queue, status>>
    BY <1>3 DEF PLoop
  <2>2. TypeOK' /\ ReadyListExact'
    BY <1>1, <2>1 DEF Phase, Label, ReadyListExact
  <2>3. QueuesExact'
    BY <1>1, <2>1 DEF QueuesExact
  <2>4. OneRunning' /\ ContextsMatch'
    BY <1>1, <2>1 DEF OneRunning, ContextsMatch, Sleeping
  <2>5. QED
    BY <2>2, <2>3, <2>4
<1>4. QED
  BY <1>2, <1>3

(* V, called by a thread or by an interrupt handler                        *)
LEMMA VIInv ==
  ASSUME IInv, NEW s \in sems, VBody(s),
         \/ cpu = "run" /\ cpu' = "tick"
         \/ cpu \in {"tick", "idle"} /\ cpu' = cpu,
         UNCHANGED <<current, toBeDestroyed, yieldOnReturn, pc, waits, sems>>
  PROVE  IInv'
<1> USE ThreadAssumption DEF IInv, TypeOK, OnePlace
<1>1. s \in Sem /\ value' = [value EXCEPT ![s] = @ + 1] /\ value' \in [Sem -> Int]
      /\ cpu' \in Phase
  BY DEF VBody, Phase
<1>2. CASE queue[s] = <<>>
  <2>1. UNCHANGED <<queue, status, readyList>>
    BY <1>2 DEF VBody
  <2>2. TypeOK' /\ ReadyListExact' /\ QueuesExact'
    BY <1>1, <2>1 DEF ReadyListExact, QueuesExact
  <2>3. OneRunning' /\ ContextsMatch'
    BY <2>1 DEF OneRunning, ContextsMatch, Sleeping
  <2>4. QED
    BY <2>2, <2>3
<1>3. CASE queue[s] # <<>>
  <2> DEFINE t == Head(queue[s])
  <2>1. /\ readyList' = Append(readyList, t)
        /\ status' = [status EXCEPT ![t] = "READY"]
        /\ queue' = [queue EXCEPT ![s] = Tail(queue[s])]
    BY <1>1, <1>3 DEF VBody, ReadyToRun
  <2>2. /\ t \in Thread
        /\ t \in Range(queue[s])
        /\ Tail(queue[s]) \in Seq(Thread)
        /\ IsInjective(Tail(queue[s]))
        /\ Range(Tail(queue[s])) = Range(queue[s]) \ {t}
    BY <1>1, <1>3, TailRange DEF QueuesExact
  <2> HIDE DEF t
  <2>3. status[t] = "BLOCKED" /\ waits[t] = s
    BY <1>1, <2>2 DEF QueuesExact
  <2>4. t \notin Range(readyList)
    BY <2>3 DEF ReadyListExact
  <2>5. /\ readyList' \in Seq(Thread)
        /\ IsInjective(readyList')
        /\ Range(readyList') = Range(readyList) \cup {t}
    BY <2>1, <2>2, <2>4, AppendRange DEF ReadyListExact
  <2>6. TypeOK'
    BY <1>1, <2>1, <2>2, <2>5 DEF Status
  <2>7. ReadyListExact'
    BY <2>1, <2>2, <2>5 DEF ReadyListExact
  <2>8. QueuesExact'
    BY <1>1, <2>1, <2>2, <2>3 DEF QueuesExact
  <2>9. OneRunning' /\ ContextsMatch'
    BY <1>1, <2>1, <2>2, <2>3 DEF OneRunning, ContextsMatch, Sleeping
  <2>10. QED
    BY <2>6, <2>7, <2>8, <2>9
<1>4. QED
  BY <1>2, <1>3

(* new Semaphore keeps the invariant.                                      *)
LEMMA NewSemaphoreIInv ==
  ASSUME IInv, NEW s \in Sem, NEW v \in InitialValues, NewSemaphore(s, v)
  PROVE  IInv'
<1> USE ThreadAssumption DEF IInv, TypeOK, OnePlace, NewSemaphore, schedVars
<1>1. \A t \in Thread : waits[t] # s
  BY DEF ContextsMatch
<1>2. <<>> \in Seq(Thread) /\ IsInjective(<<>>) /\ Range(<<>>) = {}
  BY EmptySeq DEF IsInjective, Range
<1>3. TypeOK' /\ ReadyListExact'
  BY <1>2 DEF ReadyListExact
<1>4. QueuesExact'
  BY <1>1, <1>2 DEF QueuesExact
<1>5. OneRunning' /\ ContextsMatch'
  BY DEF OneRunning, ContextsMatch, Sleeping
<1>6. QED
  BY <1>3, <1>4, <1>5

(* Deleting a semaphore that no P() is inside keeps the invariant.         *)
LEMMA DeleteSemaphoreIInv ==
  ASSUME IInv, NEW s \in Sem, DeleteSemaphore(s)
  PROVE  IInv'
<1> USE DEF IInv, TypeOK, OnePlace, DeleteSemaphore, schedVars
<1>1. TypeOK' /\ ReadyListExact' /\ QueuesExact'
  BY DEF ReadyListExact, QueuesExact
<1>2. OneRunning' /\ ContextsMatch'
  BY DEF OneRunning, ContextsMatch, Sleeping
<1>3. QED
  BY <1>1, <1>2

(* Fork of a new thread keeps the invariant.                               *)
LEMMA ForkIInv ==
  ASSUME IInv, NEW t \in Thread, Fork(t)
  PROVE  IInv'
<1> USE ThreadAssumption DEF IInv, TypeOK, OnePlace
<1>1. /\ cpu = "run" /\ cpu' = "tick"
      /\ status[t] = "none"
      /\ status' = [status EXCEPT ![t] = "READY"]
      /\ readyList' = Append(readyList, t)
      /\ pc' = [pc EXCEPT ![t] = "begin"]
      /\ UNCHANGED <<current, toBeDestroyed, yieldOnReturn, waits,
                     sems, value, queue>>
  BY DEF Fork, ReadyToRun, semVars
<1>2. t \notin Range(readyList)
  BY <1>1 DEF ReadyListExact
<1>3. /\ readyList' \in Seq(Thread)
      /\ IsInjective(readyList')
      /\ Range(readyList') = Range(readyList) \cup {t}
  BY <1>1, <1>2, AppendRange DEF ReadyListExact
<1>4. TypeOK'
  BY <1>1, <1>3 DEF Phase, Status, Label
<1>5. ReadyListExact' /\ QueuesExact'
  BY <1>1, <1>3 DEF ReadyListExact, QueuesExact
<1>6. OneRunning' /\ ContextsMatch'
  BY <1>1 DEF OneRunning, ContextsMatch, Sleeping
<1>7. QED
  BY <1>4, <1>5, <1>6

(* Finish keeps the invariant.                                             *)
LEMMA FinishIInv == IInv /\ Finish => IInv'
<1> SUFFICES ASSUME IInv, Finish PROVE IInv'
  OBVIOUS
<1> USE ThreadAssumption DEF IInv, TypeOK, OnePlace, Finish, FinishBody,
                             semVars
<1>1. status[current] = "RUNNING" /\ waits[current] = NoSem
  BY DEF OneRunning, Sleeping, ContextsMatch
<1>2. TypeOK'
  BY DEF Phase, Status, Label
<1>3. ReadyListExact' /\ QueuesExact'
  BY <1>1 DEF ReadyListExact, QueuesExact
<1>4. OneRunning' /\ ContextsMatch'
  BY <1>1 DEF OneRunning, ContextsMatch, Sleeping
<1>5. QED
  BY <1>2, <1>3, <1>4

-----------------------------------------------------------------------------
(* Main theorems                                                           *)

(* Every step of the kernel and of its clients keeps the invariant.        *)
LEMMA NextIInv == IInv /\ [Next]_vars => IInv'
<1> SUFFICES ASSUME IInv, [Next]_vars PROVE IInv'
  OBVIOUS
<1>1. CASE KernelStep
  <2>1. CASE PRetest
    <3>1. waits[current] \in sems
      BY <2>1, ThreadAssumption DEF PRetest, IInv, TypeOK, ContextsMatch
    <3>2. QED
      BY <2>1, <3>1, PIInv DEF PRetest
  <2>2. QED
    BY <1>1, <2>1, DispatchIInv, IdleIInv, SwitchInIInv, YieldIInv DEF KernelStep
<1>2. ASSUME NEW s \in Sem, P(s) PROVE IInv'
  BY <1>2, PIInv DEF P
<1>3. ASSUME NEW s \in Sem, V(s) PROVE IInv'
  BY <1>3, VIInv DEF V
<1>4. ASSUME NEW s \in Sem, HandlerV(s) PROVE IInv'
  BY <1>4, VIInv DEF HandlerV
<1>5. CASE Client
  BY <1>2, <1>3, <1>5, ForkIInv, YieldIInv, FinishIInv, IdleIInv,
     NewSemaphoreIInv, DeleteSemaphoreIInv DEF Client, Call
<1>6. CASE UNCHANGED vars
  BY <1>6 DEF vars, schedVars, semVars, IInv, TypeOK, OnePlace, ReadyListExact,
              QueuesExact, OneRunning, ContextsMatch, Sleeping
<1>7. QED
  BY <1>1, <1>4, <1>5, <1>6, TimerIInv DEF Next, Halted

(* In every behaviour of the kernel each thread object is in exactly one   *)
(* place, and its stack agrees with it (scheduler.cc, thread.cc, synch.cc).*)
THEOREM KernelInvariant == Spec => []IInv
  BY InitIInv, NextIInv, PTL DEF Spec

(* Every variable of the kernel keeps its type, the queues and the ready   *)
(* list hold only threads (thread.cc, scheduler.cc, synch.cc).             *)
THEOREM TypeCorrect == Spec => []TypeOK
<1>1. IInv => TypeOK
  BY DEF IInv
<1>2. QED
  BY <1>1, KernelInvariant, PTL

(* No thread is lost or scheduled twice.                                   *)
THEOREM ThreadsInOnePlace == Spec => []OnePlace
<1>1. IInv => OnePlace
  BY DEF IInv
<1>2. QED
  BY <1>1, KernelInvariant, PTL

(* No ASSERT of Run, ~Thread or List::Append fails, whatever the threads   *)
(* do.                                                                     *)
THEOREM NoAssertionFails == Spec => []AssertionsHold
<1>1. IInv => AssertionsHold
  <2> SUFFICES ASSUME IInv PROVE AssertionsHold
    OBVIOUS
  <2> USE ThreadAssumption DEF IInv, TypeOK, OnePlace, OneRunning, Sleeping
  <2>1. \A s \in Sem : queue[s] # <<>> => Head(queue[s]) \in Range(queue[s])
    BY TailRange DEF QueuesExact
  <2>2. \A s \in Sem : queue[s] # <<>> => Head(queue[s]) \notin Range(readyList)
    BY <2>1 DEF QueuesExact, ReadyListExact
  <2>3. cpu = "switch" => toBeDestroyed # current
    BY DEF ContextsMatch
  <2>4. \A s \in Sem : ~Sleeping => current \notin Range(queue[s])
    BY DEF QueuesExact
  <2>5. QED
    BY <2>2, <2>3, <2>4 DEF AssertionsHold, ContextsMatch, ReadyListExact
<1>2. QED
  BY <1>1, KernelInvariant, PTL

-----------------------------------------------------------------------------
(* No wakeup is lost                                                       *)

(* The woken threads of a semaphore are finitely many.                     *)
LEMMA WokenFinite ==
  ASSUME NEW s
  PROVE  IsFiniteSet(Woken(s)) /\ Cardinality(Woken(s)) \in Nat
<1>1. IsFiniteSet(Woken(s))
  BY ThreadAssumption, FS_Subset DEF Woken
<1>2. QED
  BY <1>1, FS_CardinalityType

(* Steps other than P and V leave alone who is on the way to take a unit.  *)
LEMMA WokenSame ==
  ASSUME NoLostWakeup, sems' \subseteq sems,
         \A s \in sems' : /\ Woken(s)' = Woken(s)
                          /\ value'[s] = value[s]
                          /\ queue'[s] = queue[s]
  PROVE  NoLostWakeup'
  BY DEF NoLostWakeup

(* A turn of P takes a unit and leaves the woken, or goes to sleep at 0.   *)
LEMMA WokenP ==
  ASSUME IInv, NoLostWakeup, NEW s \in sems, PLoop(s),
         cpu \in {"run", "retest"},
         cpu = "retest" => s = waits[current],
         UNCHANGED <<current, sems>>
  PROVE  NoLostWakeup'
<1> USE ThreadAssumption DEF IInv, TypeOK
<1>1. /\ status[current] = "RUNNING"
      /\ waits[current] \in {NoSem, s}
      /\ s \in Sem
  BY DEF OnePlace, OneRunning, Sleeping, ContextsMatch
<1>2. \A r \in sems : r # s => /\ Woken(r)' = Woken(r)
                               /\ value'[r] = value[r]
                               /\ queue'[r] = queue[r]
  BY <1>1 DEF PLoop, Woken
<1>3. queue'[s] # <<>> => value'[s] <= Cardinality(Woken(s)')
  <2>0. IsFiniteSet(Woken(s)') /\ Cardinality(Woken(s)') \in Nat
    <3>1. Woken(s)' \in SUBSET Thread
      BY DEF Woken
    <3>2. QED
      BY <3>1, ThreadAssumption, FS_Subset, FS_CardinalityType
  <2>1. CASE value[s] = 0
    <3>1. value'[s] = 0
      BY <1>1, <2>1 DEF PLoop
    <3>2. QED
      BY <2>0, <3>1
  <2>2. CASE value[s] # 0
    <3>1. /\ value'[s] = value[s] - 1
          /\ queue'[s] = queue[s]
          /\ Woken(s)' = Woken(s) \ {current}
      BY <1>1, <2>2 DEF PLoop, Woken
    <3>2. Cardinality(Woken(s)') >= Cardinality(Woken(s)) - 1
      <4>1. Cardinality(Woken(s) \ {current}) =
              IF current \in Woken(s) THEN Cardinality(Woken(s)) - 1
                                      ELSE Cardinality(Woken(s))
        BY WokenFinite, FS_RemoveElement, Zenon
      <4>2. Cardinality(Woken(s)) \in Nat
        BY WokenFinite
      <4>3. QED
        BY <3>1, <4>1, <4>2
    <3>3. queue[s] # <<>> => value[s] <= Cardinality(Woken(s))
      BY DEF NoLostWakeup
    <3>4. QED
      BY <1>1, <2>0, <3>1, <3>2, <3>3, WokenFinite
  <2>3. QED
    BY <2>1, <2>2
<1>4. QED
  BY <1>2, <1>3 DEF NoLostWakeup

(* V adds a unit and, if a thread sleeps, one woken thread.                *)
LEMMA WokenV ==
  ASSUME IInv, NoLostWakeup, NEW s \in sems, VBody(s),
         UNCHANGED <<waits, sems>>
  PROVE  NoLostWakeup'
<1> USE ThreadAssumption DEF IInv, TypeOK, OnePlace
<1>1. s \in Sem /\ value' = [value EXCEPT ![s] = @ + 1]
  BY DEF VBody
<1>2. CASE queue[s] = <<>>
  BY <1>1, <1>2 DEF VBody, NoLostWakeup, Woken
<1>3. CASE queue[s] # <<>>
  <2> DEFINE t == Head(queue[s])
  <2>1. t \in Thread /\ status[t] = "BLOCKED" /\ waits[t] = s
    BY <1>1, <1>3, TailRange DEF QueuesExact
  <2>2. /\ status' = [status EXCEPT ![t] = "READY"]
        /\ queue' = [queue EXCEPT ![s] = Tail(queue[s])]
    BY <1>1, <1>3 DEF VBody, ReadyToRun
  <2> HIDE DEF t
  <2>3. \A r \in sems : r # s => /\ Woken(r)' = Woken(r)
                                 /\ value'[r] = value[r]
                                 /\ queue'[r] = queue[r]
    BY <1>1, <2>1, <2>2 DEF Woken
  <2>4. Woken(s)' = Woken(s) \cup {t} /\ t \notin Woken(s)
    BY <2>1, <2>2 DEF Woken
  <2>5. Cardinality(Woken(s)') = Cardinality(Woken(s)) + 1
    BY <2>4, WokenFinite, FS_AddElement
  <2>6. value'[s] = value[s] + 1 /\ value[s] <= Cardinality(Woken(s))
    BY <1>1, <1>3 DEF NoLostWakeup
  <2>7. value'[s] <= Cardinality(Woken(s)')
    BY <1>1, <2>5, <2>6, WokenFinite
  <2>8. QED
    BY <2>3, <2>7 DEF NoLostWakeup
<1>4. QED
  BY <1>2, <1>3

(* Every step keeps the wakeups.                                           *)
LEMMA NextNoLostWakeup == IInv /\ NoLostWakeup /\ [Next]_vars => NoLostWakeup'
<1> SUFFICES ASSUME IInv, NoLostWakeup, [Next]_vars PROVE NoLostWakeup'
  OBVIOUS
<1> USE ThreadAssumption DEF IInv, TypeOK, OnePlace
<1>1. CASE Dispatch
  <2>1. Head(readyList) \in Thread /\ status[Head(readyList)] = "READY"
    BY <1>1, TailRange DEF Dispatch, ReadyListExact
  <2>2. QED
    BY <1>1, <2>1, WokenSame DEF Dispatch, Run, Woken, semVars
<1>2. CASE Idle \/ IdleReturn \/ UserInstruction \/ Halt \/ TimerInterrupt
  BY <1>2, WokenSame DEF Idle, IdleReturn, UserInstruction, Halt,
                         TimerInterrupt, Woken, semVars
<1>3. CASE SwitchIn
  <2>1. toBeDestroyed \in Thread => waits[toBeDestroyed] = NoSem
    BY DEF ContextsMatch
  <2>2. QED
    BY <1>3, <2>1, WokenSame DEF SwitchIn, Woken, semVars
<1>4. CASE Yield \/ EndTick
  <2>1. /\ UNCHANGED <<waits, sems, value, queue>>
        /\ cpu \in {"run", "tick"}
    BY <1>4 DEF Yield, EndTick, semVars
  <2>2. status[current] = "RUNNING"
    BY <2>1 DEF OneRunning, Sleeping
  <2>3. CASE UNCHANGED status
    BY <2>1, <2>3, WokenSame DEF Woken
  <2>4. CASE readyList # <<>> /\ Run(Head(readyList), FALSE,
                                     [status EXCEPT ![current] = "READY"])
    <3>1. Head(readyList) \in Thread /\ status[Head(readyList)] = "READY"
      BY <2>4, TailRange DEF ReadyListExact
    <3>2. QED
      BY <2>1, <2>2, <2>4, <3>1, WokenSame DEF Run, Woken
  <2>5. QED
    BY <1>4, <2>3, <2>4 DEF Yield, EndTick, YieldBody
<1>5. CASE PRetest
  <2>1. waits[current] \in sems
    BY <1>5 DEF PRetest, ContextsMatch
  <2>2. QED
    BY <1>5, <2>1, WokenP DEF PRetest
<1>6. ASSUME NEW s \in Sem, P(s) PROVE NoLostWakeup'
  BY <1>6, WokenP DEF P
<1>7. ASSUME NEW s \in Sem, V(s) \/ HandlerV(s) PROVE NoLostWakeup'
  BY <1>7, WokenV DEF V, HandlerV
<1>8. ASSUME NEW s \in Sem, NEW v \in InitialValues, NewSemaphore(s, v)
      PROVE  NoLostWakeup'
  BY <1>8 DEF NewSemaphore, schedVars, NoLostWakeup, Woken
<1>9. ASSUME NEW s \in Sem, DeleteSemaphore(s) PROVE NoLostWakeup'
  BY <1>9, WokenSame DEF DeleteSemaphore, schedVars, Woken
<1>10. ASSUME NEW t \in Thread, Fork(t) PROVE NoLostWakeup'
  <2>1. waits[t] = NoSem
    BY <1>10 DEF Fork, ContextsMatch
  <2>2. QED
    BY <1>10, <2>1, WokenSame DEF Fork, ReadyToRun, Woken, semVars
<1>11. CASE Finish
  <2>1. waits[current] = NoSem
    BY <1>11 DEF Finish, ContextsMatch
  <2>2. QED
    BY <1>11, <2>1, WokenSame DEF Finish, FinishBody, Woken, semVars
<1>12. CASE UNCHANGED vars
  BY <1>12, WokenSame DEF vars, schedVars, semVars, Woken
<1>13. QED
  BY <1>1, <1>2, <1>3, <1>4, <1>5, <1>6, <1>7, <1>8, <1>9, <1>10, <1>11, <1>12
     DEF Next, KernelStep, Client, Call, Halted

(* While threads sleep in the P() of a semaphore, there are at least as    *)
(* many woken threads on their way to it as its value (synch.cc:75-117).   *)
THEOREM NoWakeupIsLost == Spec => []NoLostWakeup
<1>1. Init => NoLostWakeup
  BY DEF Init, NoLostWakeup
<1>2. QED
  BY <1>1, NextNoLostWakeup, KernelInvariant, PTL DEF Spec

(* One step keeps a value at least 0: P takes a unit only where one is, V  *)
(* adds one (synch.cc:84-88, 113).                                         *)
LEMMA NextStaysNonNegative ==
  ASSUME IInv, [Next]_vars PROVE StaysNonNegative
<1> USE DEF StaysNonNegative
<1>1. value \in [Sem -> Int] /\ sems \subseteq Sem
  BY DEF IInv, TypeOK
<1>2. ASSUME NEW s \in sems, PLoop(s) PROVE StaysNonNegative
  BY <1>1, <1>2 DEF PLoop
<1>3. CASE PRetest
  <2>1. waits[current] \in sems
    BY <1>3, ThreadAssumption DEF PRetest, IInv, TypeOK, ContextsMatch
  <2>2. QED
    BY <1>2, <1>3, <2>1 DEF PRetest
<1>4. ASSUME NEW s \in Sem, P(s) PROVE StaysNonNegative
  BY <1>2, <1>4 DEF P
<1>5. ASSUME NEW s \in Sem, V(s) \/ HandlerV(s) PROVE StaysNonNegative
  BY <1>1, <1>5 DEF V, HandlerV, VBody
<1>6. ASSUME NEW s \in Sem, NEW v \in InitialValues, NewSemaphore(s, v)
      PROVE  StaysNonNegative
  BY <1>1, <1>6 DEF NewSemaphore
<1>7. ASSUME NEW s \in Sem, DeleteSemaphore(s) PROVE StaysNonNegative
  BY <1>1, <1>7 DEF DeleteSemaphore
<1>8. CASE UNCHANGED semVars
  BY <1>8 DEF semVars
<1>9. ASSUME NEW t \in Thread, Fork(t) PROVE UNCHANGED semVars
  BY <1>9 DEF Fork
<1>10. CASE \/ Dispatch \/ Idle \/ IdleReturn \/ SwitchIn \/ EndTick \/ Yield
            \/ Finish \/ UserInstruction \/ Halt \/ TimerInterrupt
  BY <1>8, <1>10 DEF Dispatch, Idle, IdleReturn, SwitchIn, EndTick, Yield,
                     Finish, UserInstruction, Halt, TimerInterrupt
<1>11. CASE UNCHANGED vars
  BY <1>8, <1>11 DEF vars
<1>12. QED
  BY <1>3, <1>4, <1>5, <1>6, <1>7, <1>8, <1>9, <1>10, <1>11
     DEF Next, KernelStep, Client, Call, Halted

(* Whatever values semaphores are created with, the negative ones of       *)
(* CreateSemaphore included (exception.cc:868-885), P() and V() never take *)
(* a value below 0: "semaphore value, always >= 0" (synch.h:52) can fail   *)
(* only by the number the semaphore was made with.                         *)
THEOREM ValuesStayNonNegative == Spec => [][StaysNonNegative]_vars
<1>1. IInv /\ [Next]_vars => [StaysNonNegative]_vars
  BY NextStaysNonNegative
<1>2. QED
  BY <1>1, KernelInvariant, PTL DEF Spec
=============================================================================

----------------------------- MODULE SelfTests -----------------------------
(***************************************************************************)
(* Kernel::ThreadSelfTest: Thread::SelfTest, in which two threads yield to *)
(* each other, Semaphore::SelfTest, in which they play ping-pong with two  *)
(* semaphores, and SynchList::SelfTest, in which they pass a value through *)
(* two synchronized lists.  The semaphores and the lists are deleted when  *)
(* the main thread is through, with the helper still running.  Thread and  *)
(* List are the threads and the lists named below.                         *)
(***************************************************************************)
EXTENDS SynchList
CONSTANTS
  Loops,         (* 5 in SimpleThread                                      *)
  Rounds         (* 10 in the other two                                    *)
VARIABLES
  round,         (* the loop variable of each thread                       *)
  item           (* what RemoveFront returned last                         *)

testVars == <<sems, value, waits, list, waitQueue, at, round, item>>

mainThread == "main"
simple == "forked thread"
pinger == "ping"
lister == "list ping"

ping == <<"ping">>
test == <<"test">>
this == "this"
selfTestPing == "selfTestPing"

val == 9
Done == <<"done">>
Unforked == <<"unforked">>

TestInit ==
  /\ Init
  /\ ListInit
  /\ at = [t \in Thread |-> IF t = mainThread THEN <<"thread test">> ELSE Unforked]
  /\ round = [t \in Thread |-> 0]
  /\ item = [t \in Thread |-> NoSem]

Round(t) == round' = [round EXCEPT ![t] = @ + 1]

(* The place of a thread when one more round is over                       *)
Again(t, bound, first, next) == IF round[t] + 1 < bound THEN first ELSE next

(* Thread::SelfTest                                                        *)
ThreadTest ==
  /\ at[mainThread] = <<"thread test">>
  /\ at' = [at EXCEPT ![mainThread] = <<"loop">>, ![simple] = <<"loop">>]
  /\ UNCHANGED <<semaphoreVars, listVars, round, item>>

(* One turn of SimpleThread, after which another thread may run            *)
SimpleThread(t) ==
  /\ at[t] = <<"loop">>
  /\ Round(t)
  /\ Goto(t, Again(t, Loops, <<"loop">>, IF t = mainThread THEN <<"semaphore test">> ELSE Done))
  /\ UNCHANGED <<semaphoreVars, listVars, item>>

-----------------------------------------------------------------------------
(* Semaphore::SelfTest up to the loop, with the semaphore it is called on  *)
SemaphoreTest ==
  /\ at[mainThread] = <<"semaphore test">>
  /\ sems' = sems \cup {ping, test}
  /\ value' = [value EXCEPT ![ping] = 0, ![test] = 0]
  /\ at' = [at EXCEPT ![mainThread] = <<"V", ping>>, ![pinger] = <<"P", ping>>]
  /\ round' = [round EXCEPT ![mainThread] = 0]
  /\ UNCHANGED <<waits, listVars, item>>

VPing ==
  /\ at[mainThread] = <<"V", ping>>
  /\ Release(ping)
  /\ Goto(mainThread, <<"P", test>>)
  /\ UNCHANGED <<listVars, round, item>>

(* Mutant: the helper is not waited for                                    *)
PTestNot ==
  /\ at[mainThread] = <<"P", test>>
  /\ Goto(mainThread, Again(mainThread, Rounds, <<"V", ping>>, <<"list test">>)) /\ Round(mainThread)
  /\ UNCHANGED <<semaphoreVars, listVars, item>>

PTest ==
  /\ at[mainThread] = <<"P", test>>
  /\ \/ Block(mainThread, test) /\ UNCHANGED <<at, round>>
     \/ Take(mainThread, test) /\ Goto(mainThread, Again(mainThread, Rounds, <<"V", ping>>, <<"list test">>)) /\ Round(mainThread)
  /\ UNCHANGED <<listVars, item>>

(* SelfTestHelper                                                          *)
PPing ==
  /\ at[pinger] = <<"P", ping>>
  /\ PThen(pinger, ping, <<"V", test>>)
  /\ UNCHANGED <<listVars, round, item>>

VPong ==
  /\ at[pinger] = <<"V", test>>
  /\ Release(test)
  /\ Round(pinger)
  /\ Goto(pinger, Again(pinger, Rounds, <<"P", ping>>, Done))
  /\ UNCHANGED <<listVars, item>>

-----------------------------------------------------------------------------
(* The deletes after the semaphore test and SynchList::SelfTest up to the  *)
(* loop                                                                    *)
ListTest ==
  /\ at[mainThread] = <<"list test">>
  /\ sems' = (sems \ {ping, test}) \cup {LockOf(l) : l \in List}
  /\ value' = [s \in Sem |-> IF s \in {LockOf(l) : l \in List} THEN 1 ELSE value[s]]
  /\ at' = [at EXCEPT ![mainThread] = <<"acquire", selfTestPing>>, ![lister] = <<"remove", selfTestPing>>]
  /\ round' = [round EXCEPT ![mainThread] = 0]
  /\ UNCHANGED <<waits, listVars, item>>

(* SynchList::Append, by the main thread to one list and by the helper to  *)
(* the other                                                               *)
AppendTo(t) == IF t = mainThread THEN selfTestPing ELSE this
RemoveFrom(t) == IF t = mainThread THEN this ELSE selfTestPing

AppendLock(t) ==
  /\ at[t] = <<"acquire", AppendTo(t)>>
  /\ PThen(t, LockOf(AppendTo(t)), <<"append", AppendTo(t)>>)
  /\ UNCHANGED <<listVars, round, item>>

AppendPing ==
  /\ at[mainThread] = <<"append", selfTestPing>>
  /\ AppendItem(mainThread, selfTestPing, val, <<"remove", this>>)
  /\ UNCHANGED <<round, item>>

AppendPong ==
  /\ at[lister] = <<"append", this>>
  /\ AppendItem(lister, this, item[lister], Again(lister, Rounds, <<"remove", selfTestPing>>, Done))
  /\ Round(lister)
  /\ UNCHANGED item

AppendUnlock(t) ==
  /\ \E place \in {<<"remove", RemoveFrom(t)>>, Done} : Unlock(t, AppendTo(t), place)
  /\ UNCHANGED <<round, item>>

(* SynchList::RemoveFront                                                  *)
RemoveFrontWaits(t) ==
  /\ RemoveLock(t, RemoveFrom(t)) \/ RemoveWait(t, RemoveFrom(t)) \/ RemoveSleep(t, RemoveFrom(t))
  /\ UNCHANGED <<round, item>>

RemoveFront(t) ==
  /\ RemoveTake(t, RemoveFrom(t), IF t = mainThread THEN <<"compare">> ELSE <<"acquire", this>>)
  /\ item' = [item EXCEPT ![t] = Head(list[RemoveFrom(t)])]
  /\ UNCHANGED round

(* The ASSERT, and after the last round the deletes                        *)
Compare ==
  /\ at[mainThread] = <<"compare">>
  /\ item[mainThread] = val
  /\ Round(mainThread)
  /\ Goto(mainThread, Again(mainThread, Rounds, <<"acquire", selfTestPing>>, Done))
  /\ sems' = IF round[mainThread] + 1 < Rounds THEN sems ELSE sems \ {LockOf(l) : l \in List}
  /\ UNCHANGED <<value, waits, listVars, item>>

TestNext ==
  \/ ThreadTest \/ \E t \in {mainThread, simple} : SimpleThread(t)
  \/ SemaphoreTest \/ VPing \/ PTest \/ PPing \/ VPong
  \/ ListTest \/ AppendPing \/ AppendPong \/ Compare
  \/ \E t \in {mainThread, lister} :
       AppendLock(t) \/ AppendUnlock(t) \/ RemoveFrontWaits(t) \/ RemoveFront(t)

Over == \A t \in Thread : at[t] = Done

-----------------------------------------------------------------------------
(* The semaphore a thread is about to use, or sleeps in                    *)
Using(t) ==
  ({waits[t]} \ {NoSem})
  \cup (IF at[t][1] \in {"P", "V"} THEN {at[t][2]}
        ELSE IF at[t][1] \in {"acquire", "append", "unlock", "remove", "test"} THEN {LockOf(at[t][2])}
        ELSE IF at[t][1] = "sleep" THEN {WaiterOf(t)} ELSE {})

(* Whichever thread runs, each test ends, gets the value it sent, and      *)
(* deletes semaphores and lists only when the helper is through with them. *)
SelfTestsPass ==
  /\ \A t \in Thread : Using(t) \subseteq sems
  /\ at[mainThread] = <<"compare">> => item[mainThread] = val
=============================================================================

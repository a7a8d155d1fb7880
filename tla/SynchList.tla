----------------------------- MODULE SynchList -----------------------------
(***************************************************************************)
(* Locks and condition variables (threads/synch.cc) as the synchronized    *)
(* list uses them (threads/synchlist.cc).  A list has a lock and a         *)
(* condition; Condition::Wait makes a semaphore for each wait, here named  *)
(* after the thread that waits.  The steps are those between two points    *)
(* where P or V turn interrupts on.                                        *)
(***************************************************************************)
EXTENDS Semaphores, Sequences, FiniteSets

CONSTANTS List      (* the lists                                           *)

VARIABLES
  list,             (* SynchList::list, the items of each                  *)
  waitQueue,        (* Condition::waitQueue of each                        *)
  at                (* where each thread is                                *)

listVars == <<list, waitQueue>>

LockOf(l)   == <<"lock", l>>
WaiterOf(t) == <<"waiter", t>>
ListSems    == {LockOf(l) : l \in List} \cup {WaiterOf(t) : t \in Thread}

(* SynchList::SynchList, Lock::Lock, Condition::Condition                  *)
ListInit ==
  /\ list = [l \in List |-> <<>>]
  /\ waitQueue = [l \in List |-> <<>>]

Goto(t, place) == at' = [at EXCEPT ![t] = place]

(* Semaphore::P, with which a thread goes on to `place'                    *)
PThen(t, s, place) ==
  \/ Block(t, s) /\ UNCHANGED at
  \/ Take(t, s) /\ Goto(t, place)

-----------------------------------------------------------------------------
(* SynchList::Append of `item' by a thread that has the lock               *)

(* Mutant: the signal leaves the waiter on the queue                       *)
SignalKeepsWaiter(l) == Release(Head(waitQueue[l])) /\ UNCHANGED waitQueue

(* Condition::Signal, with a waiter                                        *)
Signal(l) ==
  /\ Release(Head(waitQueue[l]))
  /\ waitQueue' = [waitQueue EXCEPT ![l] = Tail(@)]

(* Mutant: Append signals only if the list was empty                       *)
AppendItemIfEmpty(t, l, item, done) ==
  /\ list' = [list EXCEPT ![l] = Append(@, item)]
  /\ IF waitQueue[l] = <<>> \/ list[l] # <<>>
     THEN Release(LockOf(l)) /\ Goto(t, done) /\ UNCHANGED waitQueue
     ELSE Signal(l) /\ Goto(t, <<"unlock", l, done>>)

(* list->Append and Condition::Signal, whose V lets others run before the  *)
(* lock is released; with no waiter, Lock::Release too                     *)
AppendItem(t, l, item, done) ==
  /\ list' = [list EXCEPT ![l] = Append(@, item)]
  /\ IF waitQueue[l] = <<>>
     THEN Release(LockOf(l)) /\ Goto(t, done) /\ UNCHANGED waitQueue
     ELSE Signal(l) /\ Goto(t, <<"unlock", l, done>>)

(* Lock::Release                                                           *)
Unlock(t, l, done) ==
  /\ at[t] = <<"unlock", l, done>>
  /\ Release(LockOf(l))
  /\ Goto(t, done)
  /\ UNCHANGED listVars

-----------------------------------------------------------------------------
(* SynchList::RemoveFront                                                  *)

(* Lock::Acquire                                                           *)
RemoveLock(t, l) ==
  /\ at[t] = <<"remove", l>>
  /\ PThen(t, LockOf(l), <<"test", l>>)
  /\ UNCHANGED listVars

(* The test of the while, after the delete of the semaphore of a wait that *)
(* is over: on an empty list Condition::Wait up to its Lock::Release       *)
RemoveWait(t, l) ==
  /\ at[t] = <<"test", l>>
  /\ list[l] = <<>>
  /\ sems' = sems \cup {WaiterOf(t)}
  /\ value' = [value EXCEPT ![WaiterOf(t)] = 0, ![LockOf(l)] = @ + 1]
  /\ waitQueue' = [waitQueue EXCEPT ![l] = Append(@, WaiterOf(t))]
  /\ Goto(t, <<"sleep", l>>)
  /\ UNCHANGED <<waits, list>>

(* list->RemoveFront and Lock::Release on one that is not                  *)
RemoveTake(t, l, done) ==
  /\ at[t] = <<"test", l>>
  /\ list[l] # <<>>
  /\ list' = [list EXCEPT ![l] = Tail(@)]
  /\ sems' = sems \ {WaiterOf(t)}
  /\ value' = [value EXCEPT ![WaiterOf(t)] = 0, ![LockOf(l)] = @ + 1]
  /\ Goto(t, done)
  /\ UNCHANGED <<waits, waitQueue>>

(* Condition::Wait: P on the semaphore of this wait; then Lock::Acquire    *)
RemoveSleep(t, l) ==
  /\ at[t] = <<"sleep", l>>
  /\ PThen(t, WaiterOf(t), <<"remove", l>>)
  /\ UNCHANGED listVars

-----------------------------------------------------------------------------
(* Properties                                                              *)

HasLock(t, l) == at[t][1] \in {"test", "append", "unlock"} /\ at[t][2] = l

(* One thread at a time is between Acquire and Release of the lock of a    *)
(* list, also while the V of Signal lets others run (synch.cc:181-203).    *)
ListLocked ==
  \A l \in List :
    /\ \A t, u \in Thread : HasLock(t, l) /\ HasLock(u, l) => t = u
    /\ value[LockOf(l)] = IF \E t \in Thread : HasLock(t, l) THEN 0 ELSE 1

(* The threads a Signal was for, or that look at the list again            *)
Signalled(l) ==
  {t \in Thread : \/ at[t] = <<"sleep", l>> /\ value[WaiterOf(t)] = 1
                  \/ at[t] \in {<<"remove", l>>, <<"test", l>>}
                     /\ WaiterOf(t) \in sems}

(* No signal is lost: "there is no chance the waiter will miss the signal, *)
(* even though the lock is released before calling P()" (synch.cc:225).    *)
(* While threads wait for items, each item has a thread on its way to it,  *)
(* whichever thread takes the lock in between.                             *)
NoLostSignal ==
  \A l \in List : waitQueue[l] # <<>> => Len(list[l]) <= Cardinality(Signalled(l))

(* A wait is queued once, by a thread that has released the lock, and the  *)
(* semaphore made for it exists until that thread deletes it               *)
(* (synch.cc:244-256).                                                     *)
WaitersSleep ==
  \A l \in List :
    /\ \A i, j \in 1 .. Len(waitQueue[l]) : waitQueue[l][i] = waitQueue[l][j] => i = j
    /\ \A i \in 1 .. Len(waitQueue[l]) :
         \E t \in Thread : /\ waitQueue[l][i] = WaiterOf(t)
                           /\ WaiterOf(t) \in sems
                           /\ at[t] = <<"sleep", l>>
                           /\ value[WaiterOf(t)] = 0

(* SynchList is a monitor: its list is used under its lock, each item has  *)
(* a thread on its way while threads wait, and each wait is signalled at   *)
(* most once (synchlist.cc:48-83, synch.cc:244-281).                       *)
MonitorKept == ListLocked /\ NoLostSignal /\ WaitersSleep
=============================================================================

------------------------------- MODULE STable -------------------------------
(***************************************************************************)
(* The semaphores of user programs: the table of threads/stable.cc and the *)
(* calls SC_CreateSemaphore, SC_Wait and SC_Signal of                      *)
(* userprog/exception.cc.  A program names a semaphore; the table finds    *)
(* the slot.  Slots are never given back, and a slot is its semaphore      *)
(* (Sem of Semaphores).  Results go to the same register as those of the   *)
(* file calls.                                                             *)
(***************************************************************************)
EXTENDS Semaphores, Files

CONSTANTS
  MAX_SEMAPHORE,  (* slots of the table                                    *)
  SemName         (* names programs use                                    *)

VARIABLE semTab   (* slot -> name or NULL                                  *)

semVars == <<sems, value, waits, semTab>>

SemSlot == 0..MAX_SEMAPHORE - 1
Taken   == {i \in SemSlot : semTab[i] # NULL}
Named(name) == {i \in Taken : semTab[i] = name}

(* STable::STable, and the semaphores earlier programs have left           *)
STableInit(earlier) ==
  /\ semTab = [i \in SemSlot |-> IF i < Len(earlier) THEN earlier[i + 1] ELSE NULL]
  /\ sems = Taken
  /\ value = [i \in SemSlot |-> 0]
  /\ waits = [p \in Process |-> NoSem]

(* Mutant: a name that is there already gets a second slot                 *)
TableCreateTwice(name, init, result) ==
  /\ Taken # SemSlot
  /\ result = 0
  /\ LET id == Min(SemSlot \ Taken)
     IN  Create(id, init) /\ semTab' = [semTab EXCEPT ![id] = name]

(* STable::Create *)
TableCreate(name, init, result) ==
  \/ /\ Named(name) # {} \/ Taken = SemSlot
     /\ result = -1
     /\ UNCHANGED semVars
  \/ /\ Named(name) = {}
     /\ Taken # SemSlot
     /\ result = 0
     /\ LET id == Min(SemSlot \ Taken)
        IN  Create(id, init) /\ semTab' = [semTab EXCEPT ![id] = name]

(* STable::Wait that returns: no such semaphore, or P got a unit           *)
TableWait(p, name, result) ==
  \/ /\ Named(name) = {}
     /\ result = -1
     /\ UNCHANGED semVars
  \/ /\ Named(name) # {}
     /\ result = 0
     /\ Take(p, Min(Named(name)))
     /\ UNCHANGED semTab

(* STable::Signal *)
TableSignal(name, result) ==
  \/ /\ Named(name) = {}
     /\ result = -1
     /\ UNCHANGED semVars
  \/ /\ Named(name) # {}
     /\ result = 0
     /\ Release(Min(Named(name)))
     /\ UNCHANGED semTab

Results == {0, -1}

(* SC_CreateSemaphore *)
CreateSemaphore(p, name, semval) ==
  \E res \in Results : TableCreate(name, semval, res) /\ Answer(p, res)

(* SC_Wait returns                                                         *)
Wait(p, name) == \E res \in Results : TableWait(p, name, res) /\ Answer(p, res)

(* SC_Wait sleeps in P                                                     *)
WaitBlocks(p, name) ==
  /\ Named(name) # {}
  /\ Block(p, Min(Named(name)))
  /\ UNCHANGED <<semTab, fileVars>>

(* SC_Signal *)
Signal(p, name) == \E res \in Results : TableSignal(name, res) /\ Answer(p, res)
-----------------------------------------------------------------------------
STableTypeOK ==
  /\ semTab \in [SemSlot -> SemName \cup {NULL}]
  /\ sems = Taken
  /\ value \in [SemSlot -> Int]
  /\ waits \in [Process -> SemSlot \cup {NoSem}]

(* A name stands for one semaphore for as long as the kernel runs: what    *)
(* one process signals is what another one waits for, whoever created it   *)
(* and however often it was asked for.                                     *)
OneSemaphorePerName == \A name \in SemName : Cardinality(Named(name)) <= 1
=============================================================================

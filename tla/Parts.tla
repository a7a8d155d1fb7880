------------------------------ MODULE Parts -------------------------------
(***************************************************************************)
(* The library classes of lib/, the stacks of c++example/ and the context  *)
(* switch, each under clients that make any calls in any order, and each   *)
(* an implementation of what it promises; the start and end of the kernel; *)
(* the test of the network by two machines; and the self tests.  One       *)
(* behaviour is the life of one of them.                                   *)
(***************************************************************************)
EXTENDS Integers, Sequences, FiniteSets
CONSTANTS
  NULL, ABORT,
  Item, Element, key,
  Key, getKey, hash, InitialBuckets, ResizeRatio, IncreaseSizeBy,
  numBits, BitsInWord, Which,
  Value, size,
  Thread, main, Func, Arg, HostName,
  Word, Command, Reliability, MaxTries,
  TestThread, TestList, TestSem, Loops, Rounds,
  Number, MaxSize, Dim
VARIABLES
  object, list, sorted, table, map, stack, result, hostName, current, cpu, thread, machine,
  boot, net, program, sems, value, waits, lists, waitQueue, at, round, item

classVars == <<list, sorted, table, map, stack>>
hostVars == <<hostName, current, cpu, thread, machine>>
testVars == <<sems, value, waits, lists, waitQueue, at, round, item>>
runVars == <<boot, net, program, testVars>>
vars == <<object, classVars, hostVars, runVars, result>>

L == INSTANCE Lists
H == INSTANCE HashTables
B == INSTANCE Bitmaps
S == INSTANCE Stacks
W == INSTANCE Switch
K == INSTANCE Boot
N == INSTANCE NetworkTest
P == INSTANCE Programs
T == INSTANCE SelfTests WITH
  list <- lists, Thread <- TestThread, List <- TestList, Sem <- TestSem,
  NoSem <- NULL, InitialValues <- {0}

Init ==
  /\ object \in {"list", "table", "map", "stack", "switch", "boot", "net", "tests", "program"}
  /\ L!Init /\ H!Init /\ B!Init /\ S!Init /\ W!Init
  /\ sorted => object = "list"
  /\ stack = S!ListStack => object = "stack"
  /\ object # "switch" => hostName = CHOOSE h \in HostName : TRUE
  /\ IF object = "boot" THEN K!BootInit ELSE boot = NULL
  /\ IF object = "net" THEN N!NetInit ELSE net = NULL
  /\ IF object = "program" THEN P!ProgramInit ELSE program = NULL
  /\ IF object = "tests" THEN T!TestInit
     ELSE /\ sems = NULL /\ value = NULL /\ waits = NULL /\ lists = NULL
          /\ waitQueue = NULL /\ at = NULL /\ round = NULL /\ item = NULL

UseList == object = "list" /\ L!Next /\ UNCHANGED <<object, table, map, stack, hostVars, runVars>>
UseTable == object = "table" /\ H!Next /\ UNCHANGED <<object, list, sorted, map, stack, hostVars, runVars>>
UseMap == object = "map" /\ B!Next /\ UNCHANGED <<object, list, sorted, table, stack, hostVars, runVars>>
UseStack == object = "stack" /\ S!Next /\ UNCHANGED <<object, list, sorted, table, map, hostVars, runVars>>
UseSwitch == object = "switch" /\ W!Next /\ UNCHANGED <<object, classVars, runVars>>

StartUp == object = "boot" /\ K!BootNext /\ UNCHANGED <<object, classVars, hostVars, net, program, testVars, result>>
UseNet == object = "net" /\ N!NetNext /\ UNCHANGED <<object, classVars, hostVars, boot, program, testVars, result>>

RunTests == object = "tests" /\ T!TestNext /\ UNCHANGED <<object, classVars, hostVars, boot, net, program, result>>
RunProgram == object = "program" /\ P!Run /\ UNCHANGED <<object, classVars, hostVars, boot, net, testVars, result>>

(* An ASSERT failed and Abort ended the program; or the kernel is gone; or *)
(* the machines have halted, or wait for what was lost; or the tests or    *)
(* the program are over                                                    *)
Ended ==
  /\ \/ result[3] = ABORT
     \/ object = "boot" /\ boot.at \in {"aborted", "exited"}
     \/ object = "net" /\ ~ ENABLED N!NetNext
     \/ object = "tests" /\ T!Over
     \/ object = "program" /\ ~ P!Runs
  /\ UNCHANGED vars

Next ==
  \/ UseList \/ UseTable \/ UseMap \/ UseStack \/ UseSwitch \/ StartUp \/ UseNet \/ RunTests
  \/ RunProgram \/ Ended

Spec == Init /\ [][Next]_vars

-----------------------------------------------------------------------------
(* Each class and its promise: of the object that this behaviour is about, *)
(* the promise sees what the calls returned, and of the others nothing     *)
ResultOf(o) == IF object = o THEN result ELSE <<"new", NULL, NULL>>

AsItemList == INSTANCE ItemList WITH seq <- L!Items, result <- ResultOf("list")
AsItemSet == INSTANCE ItemSet WITH
  set <- {H!Apply(table)[n] : n \in 1 .. Len(H!Apply(table))}, result <- ResultOf("table")
AsBitSet == INSTANCE BitSet WITH
  marked <- {n \in 0 .. numBits - 1 : B!Tested(n)}, result <- ResultOf("map")
AsLifo == INSTANCE Lifo WITH
  pushed <- S!Pushed, result <- ResultOf("stack"),
  room <- IF S!IsArray THEN size ELSE Cardinality(Element)
AsContexts == INSTANCE Contexts WITH
  own <- [t \in Thread |-> W!Own(t)], job <- [t \in Thread |-> thread[t].job],
  calls <- [t \in Thread |-> thread[t].calls],
  overran <- {t \in Thread : thread[t].fence = "broken"},
  aborted <- ResultOf("switch")[3] = ABORT

(* Every sequence of calls on a List or SortedList (first, last and next   *)
(* pointers), a HashTable (rehashed as it grows), a Bitmap (words) or a    *)
(* stack returns what a sequence, a set with keys or a set of numbers      *)
(* would, and aborts exactly when the client breaks the contract.  However *)
(* SWITCH takes the processor from thread to thread, on every host, each   *)
(* has its own registers, user registers and page table when it has it     *)
(* again, and calls what it was forked to call.                            *)
PartsPromise ==
  AsItemList!Spec /\ AsItemSet!Spec /\ AsBitSet!Spec /\ AsLifo!Spec /\ AsContexts!Spec

(* After every call the SanityChecks of lib/ hold: from first one gets to  *)
(* last in numInList steps, sorted lists are in order, items are in the    *)
(* bucket of their key.  Besides no list element is leaked, a HashIterator *)
(* passes every item once, the bits past the end stay clear, and SWITCH    *)
(* keeps every register in a word of its own.  The command line means what *)
(* it says, and from start to halt or ctl-C nothing is used that is not    *)
(* there.  Two machines that test the network do not wait for each other   *)
(* unless a packet was lost, and the self tests pass in every schedule.    *)
(* The user programs that sort and multiply do so.                         *)
PartsSane ==
  /\ L!SanityCheck /\ L!NoLeak
  /\ H!SanityCheck /\ H!IteratesAll
  /\ B!TailClear
  /\ S!NoLeak
  /\ W!WordsApart
  /\ K!ParsesRight
  /\ object = "boot" => K!BootOrder
  /\ object = "net" => N!NoStandstill
  /\ object = "tests" => T!SelfTestsPass
  /\ object = "program" => P!ProgramsRight
=============================================================================

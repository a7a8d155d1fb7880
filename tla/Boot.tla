-------------------------------- MODULE Boot --------------------------------
(***************************************************************************)
(* From the command line to the end of the process: main of                *)
(* threads/main.cc, the constructor, Initialize and the destructor of      *)
(* class Kernel, and ctl-C.  The tests, the file commands and the user     *)
(* program that main starts are single steps here.                         *)
(***************************************************************************)
EXTENDS Integers, Sequences, FiniteSets, SequencesExt, TLC
CONSTANTS
  Word,          (* arguments that are not options                         *)
  Command,       (* command lines of several groups that are followed to   *)
                 (* the end, besides those of one group                    *)
  ABORT
VARIABLES
  boot           (* where main is, what exists, and what was done          *)

-----------------------------------------------------------------------------
(* The command line.  main and the constructor of Kernel each go over all  *)
(* of it; these are the options each of them knows, with the number of     *)
(* arguments that follow.  An option of the other, like any other word, is *)
(* passed over, and so are its arguments, one by one.                      *)
FileOptions == "-cp" :> 2 @@ "-p" :> 1 @@ "-r" :> 1 @@ "-l" :> 0 @@ "-D" :> 0

MainOptions(stub) ==
  "-d" :> 1 @@ "-z" :> 0 @@ "-x" :> 1 @@ "-K" :> 0 @@ "-C" :> 0 @@ "-N" :> 0 @@ "-u" :> 0
    @@ (IF stub THEN <<>> ELSE FileOptions)

KernelOptions(stub) ==
  "-rs" :> 1 @@ "-s" :> 0 @@ "-ci" :> 1 @@ "-co" :> 1 @@ "-n" :> 1 @@ "-m" :> 1 @@ "-u" :> 0
    @@ (IF stub THEN <<>> ELSE "-f" :> 0)

(* Mutant: the arguments of an option are not passed over                  *)
ParseNoSkip(argv, options) ==
  LET from[i \in 1 .. Len(argv) + 1] ==
        IF i > Len(argv) THEN <<>>
        ELSE IF argv[i] \notin DOMAIN options THEN from[i + 1]
        ELSE IF i + options[argv[i]] > Len(argv) THEN ABORT
        ELSE LET rest == from[i + 1]
             IN  IF rest = ABORT THEN ABORT
                 ELSE rest @@ argv[i] :> SubSeq(argv, i + 1, i + options[argv[i]])
  IN  from[1]

(* The two loops: for each option that was met its arguments, those of the *)
(* last if it was met again, or ABORT if an ASSERT found too few           *)
Parse(argv, options) ==
  LET from[i \in 1 .. Len(argv) + 1] ==
        IF i > Len(argv) THEN <<>>
        ELSE IF argv[i] \notin DOMAIN options THEN from[i + 1]
        ELSE IF i + options[argv[i]] > Len(argv) THEN ABORT
        ELSE LET rest == from[i + 1 + options[argv[i]]]
             IN  IF rest = ABORT THEN ABORT
                 ELSE rest @@ argv[i] :> SubSeq(argv, i + 1, i + options[argv[i]])
  IN  from[1]

-----------------------------------------------------------------------------
(* What exists when Initialize is done, in the order it is made, each with *)
(* what its constructor uses.  The devices schedule an interrupt, or name  *)
(* a file after the host; the Nachos file system reads the disk and sleeps *)
(* meanwhile, and CheckIfDue then looks at machine, which nothing sets     *)
(* before.                                                                 *)
Device == {"kernel", "debug", "interrupt", "stats"}
Sleeping == Device \cup {"currentThread", "scheduler", "machine"}

Makes(part, uses) == [does |-> "make", what |-> part, uses |-> uses]
Does(task, uses) == [does |-> "do", what |-> task, uses |-> uses]

Initialize(stub) ==
  <<Makes("currentThread", {}), Makes("stats", {}), Makes("interrupt", {}), Makes("scheduler", {}),
    Makes("alarm", Device), Makes("machine", {}), Makes("synchConsoleIn", Device),
    Makes("synchConsoleOut", {}), Makes("synchDisk", {"kernel", "debug"}),
    Makes("fileSystem", IF stub THEN {} ELSE Sleeping \cup {"synchDisk"}),
    Makes("postOfficeIn", Device \cup {"scheduler"}), Makes("postOfficeOut", {}),
    Does("Enable", Sleeping)>>

(* What main makes itself, and when the handler of ctl-C is in place       *)
Before == <<Makes("debug", {}), Makes("kernel", {"debug"})>>
After ==
  <<Makes("addrLock", {}), Makes("gPhysPageBitmap", {}), Makes("pTab", {}), Makes("sTab", {}),
    Does("CallOnUserAbort", {})>>

(* What main does if it is asked to, in this order                         *)
Tasks ==
  <<Does("-K", {"kernel", "currentThread"}), Does("-C", {"synchConsoleIn", "synchConsoleOut"}),
    Does("-N", {"postOfficeIn", "postOfficeOut"}),
    Does("-r", {"fileSystem"}), Does("-cp", {"fileSystem"}), Does("-D", {"fileSystem"}),
    Does("-l", {"fileSystem"}), Does("-p", {"fileSystem"}),
    Does("-x", {"machine", "addrLock", "gPhysPageBitmap", "pTab"})>>

Steps(stub, set) ==
  LET Asked(step) == step.what \in DOMAIN set
  IN  Before \o Initialize(stub) \o After \o SelectSeq(Tasks, Asked)

(* Kernel::~Kernel.  The main thread is not deleted.                       *)
Deletes ==
  <<"stats", "interrupt", "scheduler", "alarm", "machine", "synchConsoleIn", "synchConsoleOut",
    "synchDisk", "fileSystem", "postOfficeIn", "postOfficeOut">>

-----------------------------------------------------------------------------
(* A command line is made of groups, an option with its arguments or a     *)
(* word                                                                    *)
Arity == MainOptions(FALSE) @@ KernelOptions(FALSE)
Group(Args) ==
  [1 .. 1 -> Word] \cup UNION {{<<o>> \o args : args \in [1 .. Arity[o] -> Args]} : o \in DOMAIN Arity}

(* Each group alone, with one word for all arguments, and the Commands     *)
BootInit ==
  boot \in [groups : [1 .. 1 -> Group({CHOOSE w \in Word : TRUE})] \cup Command, stub : BOOLEAN,
            pc : {0}, at : {"parse"}, made : {{}}, done : {<<>>}, deleting : {0},
            program : {"none"}, stray : {FALSE}, again : {FALSE}]

argv == FlattenSeq(boot.groups)
mainArgs == Parse(argv, MainOptions(boot.stub))
kernelArgs == Parse(argv, KernelOptions(boot.stub))
steps == Steps(boot.stub, mainArgs)

(* The loop of main, before anything is made                               *)
ParseArgs ==
  /\ boot.at = "parse"
  /\ boot' = [boot EXCEPT !.at = IF mainArgs = ABORT THEN "aborted" ELSE "main"]

(* The next thing main does, and for the kernel object its loop            *)
Step ==
  /\ boot.at = "main"
  /\ boot.pc < Len(steps)
  /\ LET step == steps[boot.pc + 1] IN
     IF step.what = "kernel" /\ kernelArgs = ABORT THEN boot' = [boot EXCEPT !.at = "aborted"]
     ELSE boot' = [boot EXCEPT
            !.pc = @ + 1,
            !.stray = @ \/ ~ step.uses \subseteq boot.made,
            !.made = IF step.does = "make" THEN @ \cup {step.what} ELSE @,
            !.done = IF step.does = "do" THEN Append(@, step.what) ELSE @]

(* AddrSpace::Load succeeds and Execute does not return; the program halts *)
(* the machine, or its last process exits                                  *)
Execute ==
  /\ boot.at = "main"
  /\ boot.pc = Len(steps)
  /\ "-x" \in DOMAIN mainArgs
  /\ boot' = [boot EXCEPT !.at = "execute", !.program = "run"]

(* Interrupt::Halt: the statistics, and delete kernel                      *)
Halt ==
  /\ \/ boot.at = "execute"
     \/ boot.at = "main" /\ boot.pc = Len(steps)
  /\ boot' = [boot EXCEPT !.at = "delete", !.deleting = 1, !.stray = @ \/ "stats" \notin boot.made]

Delete ==
  /\ boot.at = "delete"
  /\ IF boot.deleting > Len(Deletes) THEN boot' = [boot EXCEPT !.at = "exited"]
     ELSE LET part == Deletes[boot.deleting]
          IN  boot' = [boot EXCEPT !.made = @ \ {part}, !.stray = @ \/ part \notin boot.made,
                                   !.deleting = @ + 1]

(* Cleanup, when the user hits ctl-C: delete kernel, from which there is   *)
(* no return.  Meanwhile the host holds another ctl-C back.                *)
Cleanup ==
  /\ boot.at \in {"main", "execute", "delete"}
  /\ "CallOnUserAbort" \in Range(boot.done)
  /\ boot.program # "killed"
  /\ boot' = [boot EXCEPT !.at = "delete", !.deleting = 1, !.program = "killed",
                          !.again = boot.deleting > 0]

BootNext == ParseArgs \/ Step \/ Execute \/ Halt \/ Delete \/ Cleanup

-----------------------------------------------------------------------------
(* What an argument list made of groups means                              *)
Meaning(groups, options) ==
  [o \in {groups[i][1] : i \in DOMAIN groups} \cap DOMAIN options |->
     Tail(groups[Max({i \in DOMAIN groups : groups[i][1] = o})])]

(* Each of the two loops finds the options that are there with their       *)
(* arguments, the last where one is repeated, also if an argument is       *)
(* itself the name of an option; and aborts if the arguments of the last   *)
(* option are cut off.  Only an argument of an option of the other loop    *)
(* must not be the name of an option of this one.                          *)
Apart(groups, options) ==
  \A i \in DOMAIN groups :
    groups[i][1] \in DOMAIN options \/ Range(Tail(groups[i])) \cap DOMAIN options = {}

ParsesRight ==
  LET Some == Group(Word \cup {"-K", "-s"}) IN
  \A groups \in [1 .. 1 -> Some] \cup [1 .. 2 -> Some], stub \in BOOLEAN :
    \A options \in {MainOptions(stub), KernelOptions(stub)} :
      Apart(groups, options) =>
        LET all == FlattenSeq(groups) last == groups[Len(groups)] IN
        /\ Parse(all, options) = Meaning(groups, options)
        /\ (last[1] \in DOMAIN options /\ Len(last) > 1) => Parse(Front(all), options) = ABORT

(* Nothing is used before it is made or after it is deleted, and nothing   *)
(* is deleted twice, unless ctl-C comes when the kernel is being deleted   *)
(* already.  At the end nothing that Initialize made is left but the main  *)
(* thread, and what the user asked for was done in order, unless ctl-C     *)
(* cut it short.                                                           *)
BootOrder ==
  LET Asked(o) == o \in DOMAIN Meaning(boot.groups, MainOptions(boot.stub))
      due == <<"Enable", "CallOnUserAbort">>
               \o SelectSeq(<<"-K", "-C", "-N", "-r", "-cp", "-D", "-l", "-p", "-x">>, Asked)
  IN  /\ ~ boot.again => ~ boot.stray
      /\ boot.at = "exited" =>
           /\ boot.made = {"debug", "kernel", "currentThread", "addrLock", "gPhysPageBitmap", "pTab", "sTab"}
           /\ boot.program # "killed" => boot.done = due
      /\ IsPrefix(boot.done, due)
=============================================================================

---------------------------- MODULE WaterSystem ----------------------------
(***************************************************************************)
(* The programs of test/watersystem_main.c, student.c and watertap.c on    *)
(* the file calls and the user semaphores.  The main process hands one     *)
(* line of input.txt (the volumes of the bottles of a queue of students)   *)
(* after the other to the student process in student.txt; that one hands   *)
(* each volume to the water tap process in watertap.txt; which chooses a   *)
(* tap and writes its number to result.txt; from where the main process    *)
(* copies the line of answers to output.txt.  All files are shared, and    *)
(* four semaphores are to keep the processes off each other's files.       *)
(*                                                                         *)
(* A step is one system call and the instructions after it up to the next. *)
(* Error paths the programs have and the calls never take (CreateFile and  *)
(* a failed Open do not return -1) are left out.                           *)
(*                                                                         *)
(* For the calls' other uses the first process may also run any program    *)
(* ("files": file calls, by it and one child; "semaphores": semaphore      *)
(* calls).                                                                 *)
(***************************************************************************)
EXTENDS STable

CONSTANTS
  Inputs,         (* what input.txt may hold: <<number of lines, lines>>   *)
  Programs,       (* what the first process may run                        *)
  Leaked,         (* descriptors "files" finds used by processes that left *)
  Earlier,        (* semaphores "semaphores" finds in the table            *)
  MaxLength,      (* bound: length of a file "files" writes                *)
  MaxValue        (* bound: semaphore values "semaphores" reaches          *)

ASSUME WaterAssumption == Programs \subseteq {"water", "files", "semaphores"}

VARIABLES
  program,        (* what the first process runs                           *)
  input,          (* the member of Inputs that input.txt holds             *)
  resultThere,    (* result.txt was there when the machine was started     *)
  pc,             (* the next call of each process                         *)
  ids,            (* the OpenFileId variables, by the file's name          *)
  loc             (* the other local variables                             *)

waterVars == <<program, input, resultThere>>
vars == <<fileVars, semVars, waterVars, pc, ids, loc>>

Main     == 0
Student  == 1
Watertap == 2

Space   == 10
Star    == 11
NewLine == 12
CarriageReturn == 13

Text(in) == <<in[1], NewLine>> \o FlattenSeq([i \in 1..Len(in[2]) |-> Append(in[2][i], NewLine)])

Locals == [num |-> 0, pos |-> 0, length |-> 0, volume |-> 0, end |-> FALSE, tap1 |-> 0, tap2 |-> 0]

WInit ==
  /\ program \in Programs
  /\ STableInit(IF program = "semaphores" THEN Earlier ELSE <<>>)
  /\ input \in IF program = "water" THEN Inputs ELSE {<<0, <<>>>>}
  /\ resultThere \in BOOLEAN
  /\ host = [n \in Name |-> CASE n = "input.txt"  -> IF program = "water" THEN Text(input) ELSE Absent
                              [] n = "result.txt" -> IF resultThere THEN <<Star>> ELSE Absent
                              [] OTHER            -> Absent]
  /\ fileTable = [p \in Process |-> IF p = Main THEN FreshTable ELSE NoTable]
  /\ descriptors = IF program = "files" THEN 2 + Leaked ELSE 2
  /\ r2 = [p \in Process |-> 0]
  /\ buf = [p \in Process |-> <<>>]
  /\ machine = "running"
  /\ pc = [p \in Process |->
             IF program # "water" THEN "any"
             ELSE IF p = Main THEN "create" ELSE IF p = Student THEN "hello" ELSE "waitRound"]
  /\ ids = [p \in Process |-> [n \in Name |-> 0]]
  /\ loc = [p \in Process |-> Locals]

-----------------------------------------------------------------------------
(* The forms of a step *)
At(p, label) ==
  /\ machine = "running"
  /\ Exists(p)
  /\ pc[p] = label

Goto(p, label) == pc' = [pc EXCEPT ![p] = label]

(* A call that changes no local variable, then label                       *)
Then(p, label) == Goto(p, label) /\ UNCHANGED <<ids, loc, waterVars>>

FileStep(p, call, from, to) == At(p, from) /\ call /\ Then(p, to) /\ UNCHANGED semVars

(* id = Open(name, type)                                                   *)
OpenStep(p, n, type, from, to) ==
  /\ At(p, from)
  /\ Open(p, n, type)
  /\ ids' = [ids EXCEPT ![p][n] = r2'[p]]
  /\ Goto(p, to)
  /\ UNCHANGED <<loc, waterVars, semVars>>

WaitStep(p, name, from, to) ==
  /\ At(p, from)
  /\ \/ Wait(p, name) /\ Then(p, to)
     \/ WaitBlocks(p, name) /\ Then(p, from)

SignalStep(p, name, from, to) == At(p, from) /\ Signal(p, name) /\ Then(p, to)

(* Read(&c, 1, id) and what the program does with the result and c         *)
ReadStep(p, n, from, next, local) ==
  /\ At(p, from)
  /\ Read(p, 1, ids[p][n])
  /\ Goto(p, next)
  /\ loc' = [loc EXCEPT ![p] = local]
  /\ UNCHANGED <<ids, waterVars, semVars>>

c(p) == buf'[p][1]

-----------------------------------------------------------------------------
(* test/watersystem_main.c *)
FourNames == <<"main", "student", "watertap", "main_watertap">>

(* Create4Semaphore *)
Create4Semaphore ==
  /\ At(Main, "create")
  /\ LET k == loc[Main].num + 1
     IN  /\ CreateSemaphore(Main, FourNames[k], 0)
         /\ loc' = [loc EXCEPT ![Main].num = k % 4]
         /\ Goto(Main, IF k = 4 THEN "createOutput" ELSE "create")
  /\ UNCHANGED <<ids, waterVars>>

ReadNumber ==
  ReadStep(Main, "input.txt", "readNum",
    IF c(Main) = NewLine THEN "execStudent" ELSE "readNum",
    IF c(Main) = NewLine THEN loc[Main] ELSE [loc[Main] EXCEPT !.num = 10 * @ + c(Main)])

(* while (num--) *)
NextRound ==
  /\ At(Main, "loop")
  /\ loc' = [loc EXCEPT ![Main].num = @ - 1]
  /\ Goto(Main, IF loc[Main].num = 0 THEN "closeInput" ELSE "createStudent")
  /\ UNCHANGED <<ids, waterVars, fileVars, semVars>>

(* WriteToStudent *)
WriteToStudent ==
  \/ FileStep(Main, CreateFile(Main, "student.txt"), "createStudent", "openStudent")
  \/ OpenStep(Main, "student.txt", READWRITE_TYPE, "openStudent", "copy")
  \/ ReadStep(Main, "input.txt", "copy",
       IF r2'[Main] < 1 \/ c(Main) = NewLine THEN "closeStudent" ELSE "put", loc[Main])
  \/ FileStep(Main, Write(Main, buf[Main], ids[Main]["student.txt"]), "put", "copy")
  \/ FileStep(Main, Close(Main, ids[Main]["student.txt"]), "closeStudent", "signalStudent")

(* Mutant: the next round is not announced to the water tap                *)
WriteToOutputNoSignal ==
  \/ OpenStep(Main, "result.txt", READONLY_TYPE, "openResult", "readResult")
  \/ ReadStep(Main, "result.txt", "readResult",
       IF r2'[Main] < 1 THEN "writeEnd" ELSE "writeTap", loc[Main])
  \/ FileStep(Main, Write(Main, buf[Main], ids[Main]["output.txt"]), "writeTap", "writeSpace")
  \/ FileStep(Main, Write(Main, <<Space>>, ids[Main]["output.txt"]), "writeSpace", "readResult")
  \/ FileStep(Main, Write(Main, <<CarriageReturn, NewLine>>, ids[Main]["output.txt"]),
              "writeEnd", "closeResult")
  \/ FileStep(Main, Close(Main, ids[Main]["result.txt"]), "closeResult", "loop")

(* WriteToOutput *)
WriteToOutput ==
  \/ OpenStep(Main, "result.txt", READONLY_TYPE, "openResult", "readResult")
  \/ ReadStep(Main, "result.txt", "readResult",
       IF r2'[Main] < 1 THEN "writeEnd" ELSE "writeTap", loc[Main])
  \/ FileStep(Main, Write(Main, buf[Main], ids[Main]["output.txt"]), "writeTap", "writeSpace")
  \/ FileStep(Main, Write(Main, <<Space>>, ids[Main]["output.txt"]), "writeSpace", "readResult")
  \/ FileStep(Main, Write(Main, <<CarriageReturn, NewLine>>, ids[Main]["output.txt"]),
              "writeEnd", "closeResult")
  \/ FileStep(Main, Close(Main, ids[Main]["result.txt"]), "closeResult", "signalRound")
  \/ SignalStep(Main, "main_watertap", "signalRound", "closeAgain")
  \/ FileStep(Main, Close(Main, ids[Main]["result.txt"]), "closeAgain", "loop")

MainStep ==
  \/ Create4Semaphore
  \/ FileStep(Main, CreateFile(Main, "output.txt"), "createOutput", "openInput")
  \/ OpenStep(Main, "input.txt", READONLY_TYPE, "openInput", "openOutput")
  \/ OpenStep(Main, "output.txt", READWRITE_TYPE, "openOutput", "readNum")
  \/ ReadNumber
  \/ FileStep(Main, Exec(Main, Student), "execStudent", "execWatertap")
  \/ FileStep(Main, Exec(Main, Watertap), "execWatertap", "loop")
  \/ NextRound
  \/ WriteToStudent
  \/ SignalStep(Main, "student", "signalStudent", "waitMain")
  \/ WaitStep(Main, "main", "waitMain", "openResult")
  \/ WriteToOutput
  \/ FileStep(Main, Close(Main, ids[Main]["input.txt"]), "closeInput", "closeOutput")
  \/ FileStep(Main, Close(Main, ids[Main]["output.txt"]), "closeOutput", "exit")
  \/ FileStep(Main, Exit(Main), "exit", "gone")

-----------------------------------------------------------------------------
(* test/student.c *)
LastChar == loc[Student].pos = loc[Student].length - 1

(* file_length = Seek(-1, fID_student) *)
StudentLength ==
  /\ At(Student, "seekEnd")
  /\ Seek(Student, -1, ids[Student]["student.txt"])
  /\ loc' = [loc EXCEPT ![Student].length = r2'[Student], ![Student].pos = 0]
  /\ Goto(Student, "seekStart")
  /\ UNCHANGED <<ids, waterVars, semVars>>

(* pos++ at the end of the loop, which is entered again or left            *)
Advance(from, call) ==
  /\ At(Student, from)
  /\ call
  /\ loc' = [loc EXCEPT ![Student].pos = @ + 1]
  /\ Goto(Student, IF LastChar THEN "closeTap2" ELSE "readChar")
  /\ UNCHANGED <<waterVars, semVars>>

WriteChar ==
  LET call == Write(Student, buf[Student], ids[Student]["watertap.txt"])
  IN  \/ LastChar /\ FileStep(Student, call, "writeChar", "writeStar")
      \/ ~ LastChar /\ Advance("writeChar", call /\ UNCHANGED ids)

ReopenTap ==
  Advance("openTap2", /\ Open(Student, "watertap.txt", READWRITE_TYPE)
                      /\ ids' = [ids EXCEPT ![Student]["watertap.txt"] = r2'[Student]])

(* The water tap process gets watertap.txt and gives it back.              *)
HandVolume ==
  \/ SignalStep(Student, "watertap", "signalTap", "waitServed")
  \/ WaitStep(Student, "student", "waitServed", "createTap2")

StudentStep ==
  \/ SignalStep(Student, "main_watertap", "hello", "createTap")
  \/ FileStep(Student, CreateFile(Student, "watertap.txt"), "createTap", "waitLine")
  \/ WaitStep(Student, "student", "waitLine", "createResult")
  \/ FileStep(Student, CreateFile(Student, "result.txt"), "createResult", "openLine")
  \/ OpenStep(Student, "student.txt", READONLY_TYPE, "openLine", "seekEnd")
  \/ StudentLength
  \/ FileStep(Student, Seek(Student, 0, ids[Student]["student.txt"]), "seekStart", "openTap")
  \/ OpenStep(Student, "watertap.txt", READWRITE_TYPE, "openTap",
              IF loc[Student].length = 0 THEN "closeTap2" ELSE "readChar")
  \/ ReadStep(Student, "student.txt", "readChar",
              IF c(Student) # Space THEN "writeChar"
              ELSE IF LastChar THEN "writeStar" ELSE "closeTap", loc[Student])
  \/ WriteChar
  \/ FileStep(Student, Write(Student, <<Star>>, ids[Student]["watertap.txt"]), "writeStar", "closeTap")
  \/ FileStep(Student, Close(Student, ids[Student]["watertap.txt"]), "closeTap", "signalTap")
  \/ HandVolume
  \/ FileStep(Student, CreateFile(Student, "watertap.txt"), "createTap2", "openTap2")
  \/ ReopenTap
  \/ FileStep(Student, Close(Student, ids[Student]["watertap.txt"]), "closeTap2", "closeLine")
  \/ FileStep(Student, Close(Student, ids[Student]["student.txt"]), "closeLine", "signalMain")
  \/ SignalStep(Student, "main", "signalMain", "waitLine")

-----------------------------------------------------------------------------
(* test/watertap.c *)
tap == loc[Watertap]

ReadVolume ==
  ReadStep(Watertap, "watertap.txt", "readTap",
    IF r2'[Watertap] = RW_END_FILE \/ c(Watertap) = Star THEN "closeTap" ELSE "readTap",
    IF r2'[Watertap] = RW_END_FILE THEN tap
    ELSE IF c(Watertap) = Star THEN [tap EXCEPT !.end = TRUE]
    ELSE [tap EXCEPT !.volume = 10 * @ + c(Watertap)])

OpenVolume ==
  /\ At(Watertap, "openTap")
  /\ Open(Watertap, "watertap.txt", READONLY_TYPE)
  /\ ids' = [ids EXCEPT ![Watertap]["watertap.txt"] = r2'[Watertap]]
  /\ loc' = [loc EXCEPT ![Watertap].volume = 0, ![Watertap].end = FALSE]
  /\ Goto(Watertap, "readTap")
  /\ UNCHANGED <<waterVars, semVars>>

AfterServing == IF tap.end THEN "closeResult" ELSE "signalServed"

(* Mutant: the taps keep what they gave to the last queue                  *)
ServeNoReset ==
  /\ At(Watertap, "serve")
  /\ Write(Watertap, <<IF tap.tap1 <= tap.tap2 THEN 1 ELSE 2>>, ids[Watertap]["result.txt"])
  /\ loc' = [loc EXCEPT ![Watertap] =
               IF tap.tap1 <= tap.tap2 THEN [tap EXCEPT !.tap1 = @ + tap.volume]
               ELSE [tap EXCEPT !.tap2 = @ + tap.volume]]
  /\ Goto(Watertap, AfterServing)
  /\ UNCHANGED <<ids, waterVars, semVars>>

(* The student's tap is the one that has given less; at the end of the     *)
(* queue both start again.                                                 *)
Serve ==
  /\ At(Watertap, "serve")
  /\ Write(Watertap, <<IF tap.tap1 <= tap.tap2 THEN 1 ELSE 2>>, ids[Watertap]["result.txt"])
  /\ loc' = [loc EXCEPT ![Watertap] =
               IF tap.end THEN [tap EXCEPT !.tap1 = 0, !.tap2 = 0]
               ELSE IF tap.tap1 <= tap.tap2 THEN [tap EXCEPT !.tap1 = @ + tap.volume]
               ELSE [tap EXCEPT !.tap2 = @ + tap.volume]]
  /\ Goto(Watertap, AfterServing)
  /\ UNCHANGED <<ids, waterVars, semVars>>

(* Nothing was in front of the mark: no student is served.                 *)
CloseVolume ==
  /\ At(Watertap, "closeTap")
  /\ Close(Watertap, ids[Watertap]["watertap.txt"])
  /\ loc' = [loc EXCEPT ![Watertap] =
               IF tap.volume = 0 /\ tap.end THEN [tap EXCEPT !.tap1 = 0, !.tap2 = 0] ELSE tap]
  /\ Goto(Watertap, IF tap.volume # 0 THEN "serve" ELSE AfterServing)
  /\ UNCHANGED <<ids, waterVars, semVars>>

WatertapStep ==
  \/ WaitStep(Watertap, "main_watertap", "waitRound", "openResult")
  \/ OpenStep(Watertap, "result.txt", READWRITE_TYPE, "openResult", "waitTap")
  \/ WaitStep(Watertap, "watertap", "waitTap", "openTap")
  \/ OpenVolume
  \/ ReadVolume
  \/ CloseVolume
  \/ Serve
  \/ FileStep(Watertap, Close(Watertap, ids[Watertap]["result.txt"]), "closeResult", "signalEnd")
  \/ SignalStep(Watertap, "student", "signalEnd", "waitRound")
  \/ SignalStep(Watertap, "student", "signalServed", "waitTap")

-----------------------------------------------------------------------------
(* Any calls, with the ids, positions and lengths around the ends of their *)
(* ranges                                                                  *)
AnyFileCall(p) ==
  /\ program = "files"
  /\ \/ CreateFile(p, "result.txt")
     \/ Exit(p)
     \/ /\ p = Main
        /\ \/ \E n \in {"output.txt", "result.txt"}, type \in OUTPUT_TYPE..READONLY_TYPE :
                Open(p, n, type)
           \/ \E id \in -1..MAX_FILE_OPEN + 1 :
                \/ Close(p, id)
                \/ \E position \in -1..MaxLength : Seek(p, position, id)
                \/ \E charcount \in 0..1 : Read(p, charcount, id)
                \/ \E bytes \in {<<>>, <<Star>>} : Write(p, bytes, id)
           \/ Exec(p, Student)
  /\ \A n \in {name \in Name : host'[name] # Absent} : Len(host'[n]) <= MaxLength
  /\ UNCHANGED semVars

AnySemaphoreCall(p) ==
  /\ program = "semaphores"
  /\ \/ /\ waits[p] = NoSem
        /\ \/ \E name \in SemName \ {"student", "watertap"}, semval \in InitialValues : CreateSemaphore(p, name, semval)
           \/ \E name \in SemName \ {"student", "watertap"} : Signal(p, name)
           \/ p = Main /\ Exec(p, Student) /\ UNCHANGED semVars
     \/ \E name \in SemName \ {"student", "watertap"} :
          /\ \A i \in Named(name) : waits[p] \in {NoSem, i}
          /\ waits[p] # NoSem => Named(name) # {}
          /\ Wait(p, name) \/ WaitBlocks(p, name)
  /\ \A i \in SemSlot : value'[i] \in -MaxValue..MaxValue

AnyStep(p) ==
  /\ At(p, "any")
  /\ AnyFileCall(p) \/ AnySemaphoreCall(p)
  /\ UNCHANGED <<pc, ids, loc, waterVars>>

WNext == MainStep \/ StudentStep \/ WatertapStep \/ \E p \in {Main, Student} : AnyStep(p)

WSpec == WInit /\ [][WNext]_vars

(* Each process gets the CPU again while it is ready (Threads!ReadyRuns),  *)
(* and each of the four semaphores is waited for by one process only, so   *)
(* nobody passes a sleeper.                                                *)
WFairSpec == WSpec /\ WF_vars(MainStep) /\ WF_vars(StudentStep) /\ WF_vars(WatertapStep)

-----------------------------------------------------------------------------
WTypeOK ==
  /\ FilesTypeOK
  /\ STableTypeOK
  /\ ids \in [Process -> [Name -> Int]]
  /\ loc \in [Process -> [num : Int, pos : Nat, length : Nat, volume : Nat, end : BOOLEAN,
                          tap1 : Nat, tap2 : Nat]]

(* The places of each process between the Wait that lets it at the shared  *)
(* files and the Signal that hands them on                                 *)
Holding ==
  {p \in Process :
     \/ p = Main /\ pc[p] \notin {"any", "waitMain"}
     \/ p = Student /\ pc[p] \notin {"any", "hello", "createTap", "waitLine", "waitServed"}
     \/ p = Watertap /\ pc[p] \notin {"any", "waitRound", "openResult", "waitTap"}}

Units(name) == IF Named(name) = {} THEN 0 ELSE value[Min(Named(name))]

(* One process at a time is at the shared files: the right to them is with *)
(* one process or in one semaphore, in every interleaving, though two      *)
(* processes signal "student" and the student waits for it at two places.  *)
OneBaton ==
  program = "water" =>
    Cardinality(Holding) + Units("main") + Units("student") + Units("watertap") = 1

(* What a queue should get: a bottle goes to the tap that has given less   *)
Volumes(line) ==
  LET add(acc, ch) == IF ch = Space THEN Append(acc, 0)
                      ELSE [acc EXCEPT ![Len(acc)] = 10 * @ + ch]
  IN  SelectSeq(FoldLeft(add, <<0>>, line), LAMBDA v : v # 0)

Answers(line) ==
  LET give(acc, v) ==
        IF acc.t1 <= acc.t2 THEN [acc EXCEPT !.t1 = @ + v, !.out = @ \o <<1, Space>>]
        ELSE [acc EXCEPT !.t2 = @ + v, !.out = @ \o <<2, Space>>]
  IN  FoldLeft(give, [t1 |-> 0, t2 |-> 0, out |-> <<>>], Volumes(line)).out

(* The rounds whose line has been ended in output.txt                      *)
Lines(text) == Cardinality({i \in 1..Len(text) : text[i] = NewLine})

RightOutput(answers, n) ==
  FlattenSeq([i \in 1..n |-> answers[i] \o <<CarriageReturn, NewLine>>])

(* output.txt is right: line by line it says which tap each student of the *)
(* queue goes to, the partial last line included.  One queue may be        *)
(* missing: when result.txt was not there before, the water tap process    *)
(* may open it before the student process creates it, and the answers to   *)
(* the first queue that has students are written to no file.               *)
OutputRight ==
  LET text    == host["output.txt"]
      right   == [i \in 1..Len(input[2]) |-> Answers(input[2][i])]
      queues  == {i \in 1..Len(input[2]) : right[i] # <<>>}
      without == [i \in 1..Len(input[2]) |->
                    IF queues # {} /\ i = Min(queues) THEN <<>> ELSE right[i]]
      told(answers) == IsPrefix(text, RightOutput(answers, Len(input[2])))
  IN  program = "water" /\ text # Absent => told(right) \/ (~ resultThere /\ told(without))

(* The three programs never run into an ASSERT of the kernel: they close   *)
(* nothing but slots of files (an id of a failed Open and an id closed     *)
(* twice among them) and never fill a table.                               *)
ProgramsSafe == program = "water" => machine # "aborted"

(* All lines of input.txt are answered and the main process exits.         *)
MainEnds ==
  (program = "water") ~>
    (program = "water" /\ machine = "halted" /\ Lines(host["output.txt"]) = Len(input[2]))

(* Whatever programs call: every open file has a descriptor of its own and *)
(* every name one semaphore (exception.cc:488-960, stable.cc:24-79).       *)
TablesKept == WTypeOK /\ OwnDescriptor /\ OneSemaphorePerName

(* The water system works: its processes take turns at the shared files,   *)
(* run into no ASSERT, and output.txt says what it should.                 *)
WaterRight == OneBaton /\ ProgramsSafe /\ OutputRight
=============================================================================

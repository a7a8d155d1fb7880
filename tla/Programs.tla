----------------------------- MODULE Programs ------------------------------
(***************************************************************************)
(* The user programs that compute: test/my_sort.c, test/sort.c and         *)
(* test/matmult.c.  Arrays are functions on 0 .. n-1.                      *)
(***************************************************************************)
EXTENDS Integers, Sequences, Functions, FiniteSetsExt
CONSTANTS
  Number,        (* what is typed at the prompts                           *)
  MaxSize,       (* the arrays checked have up to this many elements; the  *)
                 (* bound of my_sort is then the same, which is 100 there  *)
  Dim,           (* of the matrices, 20 in the code                        *)
  NULL           (* not there yet                                          *)
VARIABLES
  program        (* its name, what is typed or its size, and what it put   *)
                 (* out                                                    *)

Swap(arr, j) == [arr EXCEPT ![j] = arr[j + 1], ![j + 1] = arr[j]]

(* One pass over the pairs j, j+1 with j < end, upwards or downwards       *)
Pass(arr, end, up) ==
  LET upTo[j \in 0 .. end] ==
        IF j = 0 THEN arr
        ELSE LET a == upTo[j - 1]
             IN  IF (up /\ a[j - 1] > a[j]) \/ (~ up /\ a[j - 1] < a[j]) THEN Swap(a, j - 1) ELSE a
  IN  upTo[end]

(* Mutant: the last pair of every pass is left out                         *)
bubbleSortShort(arr, n, isIncrease) ==
  LET after[i \in 0 .. n - 1] ==
        IF i = 0 THEN arr ELSE Pass(after[i - 1], Max({n - i - 1, 0}), isIncrease = 1)
  IN  IF isIncrease \in {1, 2} THEN after[n - 1] ELSE arr

(* bubbleSort of my_sort: the passes get shorter                           *)
bubbleSort(arr, n, isIncrease) ==
  LET after[i \in 0 .. n - 1] ==
        IF i = 0 THEN arr ELSE Pass(after[i - 1], n - i, isIncrease = 1)
  IN  IF isIncrease \in {1, 2} THEN after[n - 1] ELSE arr

(* The loops of main that ask again: the first number typed that will do,  *)
(* and where it was                                                        *)
Accepted(typed, good) == Min({i \in DOMAIN typed : typed[i] \in good})

(* main of my_sort: what it prints the second time, if enough is typed     *)
MySort(typed) ==
  LET n == Accepted(typed, 1 .. MaxSize)
      Arr == [i \in 0 .. typed[n] - 1 |-> typed[n + 1 + i]]
      rest == SubSeq(typed, n + typed[n] + 1, Len(typed))
  IN  bubbleSort(Arr, typed[n], rest[Accepted(rest, {1, 2})])

(* main of sort: as many full passes as there are elements, and what Exit  *)
(* is called with                                                          *)
SortExit(SIZE) ==
  LET after[i \in 0 .. SIZE] ==
        IF i = 0 THEN [k \in 0 .. SIZE - 1 |-> SIZE - 1 - k] ELSE Pass(after[i - 1], SIZE - 1, TRUE)
  IN  IF \E i \in 0 .. SIZE - 1 : after[SIZE][i] # i THEN 1 ELSE 0

(* main of matmult: what Exit is called with                               *)
MatMultExit ==
  LET A == [i, j \in 0 .. Dim - 1 |-> i]
      B == [i, j \in 0 .. Dim - 1 |-> j]
      C[i, j \in 0 .. Dim - 1, k \in 0 .. Dim] ==
        IF k = 0 THEN 0 ELSE C[i, j, k - 1] + A[i, k - 1] * B[k - 1, j]
  IN  C[Dim - 1, Dim - 1, Dim]

-----------------------------------------------------------------------------
(* Numbers typed: some that a prompt refuses, the amount, the elements,    *)
(* some the other prompt refuses, and the order                            *)
Refused == {<<>>, <<0>>, <<MaxSize + 1, -1>>}
Sorts == UNION {[refused : Refused, arr : [1 .. n -> Number], order : {1, 2}] : n \in 1 .. MaxSize}
Typed(in) == in.refused \o <<Len(in.arr)>> \o in.arr \o in.refused \o <<in.order>>

ProgramInit ==
  program \in [name : {"my_sort"}, in : Sorts, out : {NULL}]
       \cup [name : {"sort"}, in : 1 .. MaxSize, out : {NULL}]
       \cup [name : {"matmult"}, in : {Dim}, out : {NULL}]

Runs == program.out = NULL

Run ==
  /\ Runs
  /\ program' = [program EXCEPT !.out =
       CASE program.name = "my_sort" -> MySort(Typed(program.in))
         [] program.name = "sort" -> SortExit(program.in)
         [] program.name = "matmult" -> MatMultExit]

-----------------------------------------------------------------------------
IsSortOf(sorted, arr, up) ==
  /\ DOMAIN sorted = 0 .. Len(arr) - 1
  /\ \A i, j \in DOMAIN sorted : i < j => IF up THEN sorted[i] <= sorted[j] ELSE sorted[i] >= sorted[j]
  /\ \A v \in Range(arr) : Cardinality({i \in DOMAIN arr : arr[i] = v})
                             = Cardinality({i \in DOMAIN sorted : sorted[i] = v})

(* my_sort prints the numbers typed in the order asked for, whatever was   *)
(* typed before a prompt got an answer it takes; sort exits with 0; and    *)
(* matmult with the sum of (Dim-1) * (Dim-1), Dim times.                   *)
ProgramsRight ==
  ~ Runs =>
    CASE program.name = "my_sort" -> IsSortOf(program.out, program.in.arr, program.in.order = 1)
      [] program.name = "sort" -> program.out = 0
      [] program.name = "matmult" -> program.out = Dim * (Dim - 1) * (Dim - 1)
=============================================================================

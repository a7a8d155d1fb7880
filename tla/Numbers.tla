------------------------------ MODULE Numbers ------------------------------
(***************************************************************************)
(* The integers of the machine, and the two system calls of                *)
(* userprog/exception.cc that turn them into characters and back.  An int  *)
(* has W bits and is kept as its unsigned value; a long long has 2 * W.    *)
(* Numbers are written in base Base (ten, in the code) and a character is  *)
(* a byte.                                                                 *)
(***************************************************************************)
EXTENDS Integers, Sequences, SequencesExt

CONSTANTS
  ByteBits,                            (* bits of a byte                   *)
  Base,                                (* the base numbers are written in  *)
  Zero, NewLine, Space, Minus          (* character codes                  *)

ASSUME NumbersAssumption ==
  /\ ByteBits \in Nat \ {0}
  /\ Base \in Nat \ {0, 1}
  /\ {Zero, NewLine, Space, Minus} \subseteq 1 .. 2^ByteBits - 1
  /\ \A c \in {NewLine, Space, Minus} : c \notin Zero .. Zero + Base - 1

W == 4 * ByteBits
Word == 0 .. 2^W - 1
SIGN_BIT == 2^(W - 1)
Negative(w) == w >= SIGN_BIT

(* An int holds a sum modulo 2^W; what it is as a signed number            *)
Trunc(n) == n % 2^W
Signed(w) == IF Negative(w) THEN w - 2^W ELSE w

LongLong(n) == ((n + 2^(2 * W - 1)) % 2^(2 * W)) - 2^(2 * W - 1)

INT_MAX == SIGN_BIT - 1
INT_MIN == -INT_MAX

IsDigit(c) == c \in Zero .. Zero + Base - 1

(* Mutant: the loop goes on to take digits behind a space                  *)
ReadDigitBehindSpace(p, c) ==
  IF p.bad THEN p
  ELSE IF IsDigit(c) THEN [p EXCEPT !.res = LongLong(@ * Base + (c - Zero))]
       ELSE IF c = Space THEN [p EXCEPT !.isEnd = TRUE]
       ELSE [p EXCEPT !.bad = TRUE]

(* One turn of the loop of SC_ReadNum: p holds res and isEnd; once a       *)
(* character is refused the rest of the line is skipped                    *)
ReadDigit(p, c) ==
  IF p.bad THEN p
  ELSE IF IsDigit(c) /\ ~p.isEnd
         THEN [p EXCEPT !.res = LongLong(@ * Base + (c - Zero))]
       ELSE IF c = Space THEN [p EXCEPT !.isEnd = TRUE]
       ELSE [p EXCEPT !.bad = TRUE]

(* SC_ReadNum of a line, which ends with its only NewLine                  *)
ReadNum(line) ==
  LET first == CHOOSE i \in 1 .. Len(line) :
                 line[i] # Space /\ \A j \in 1 .. i - 1 : line[j] = Space
      c == line[first]
      p == FoldLeft(ReadDigit,
                    [res |-> IF IsDigit(c) THEN c - Zero ELSE 0,
                     isEnd |-> FALSE, bad |-> ~IsDigit(c) /\ c # Minus],
                    SubSeq(line, first + 1, Len(line) - 1))
      res == IF c = Minus THEN -p.res ELSE p.res
  IN  IF p.bad \/ res > INT_MAX \/ res < INT_MIN THEN 0 ELSE Trunc(res)

(* SC_PrintNum: the number is made positive, its digits are counted and    *)
(* then written from the last to the first                                 *)
PrintNum(number) ==
  LET n == Signed(IF Negative(number) THEN Trunc(-number) ELSE number)
      count == Len(SelectSeq([k \in 1 .. W |-> k],
                             LAMBDA k : n \div Base^(k - 1) > 0))
      digits == [k \in 1 .. count |-> Zero + ((n \div Base^(count - k)) % Base)]
  IN  IF n = 0 THEN <<Zero>>
      ELSE IF Negative(number) THEN <<Minus>> \o digits ELSE digits

-----------------------------------------------------------------------------
(* What a line says, for comparison: blanks, a sign, digits, blanks        *)
Blank(s) == \A i \in DOMAIN s : s[i] = Space

Value[s \in Seq(Zero .. Zero + Base - 1)] ==
  IF s = <<>> THEN 0 ELSE Base * Value[Front(s)] + (Last(s) - Zero)

Numerals(line) ==
  {<<sign, digits>> \in {<<>>, <<Minus>>} \X
     {SubSeq(line, i, j) : i, j \in 1 .. Len(line)} :
     /\ digits # <<>> /\ \A k \in DOMAIN digits : IsDigit(digits[k])
     /\ \E i \in 0 .. Len(line), j \in 1 .. Len(line) :
          /\ Blank(SubSeq(line, 1, i)) /\ Blank(SubSeq(line, j, Len(line) - 1))
          /\ SubSeq(line, i + 1, j - 1) = sign \o digits}

Said(line) ==
  {IF num[1] = <<>> THEN Value[num[2]] ELSE -Value[num[2]] :
     num \in Numerals(line)}
=============================================================================

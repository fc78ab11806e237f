-------------------------------- MODULE Text --------------------------------
(***************************************************************************)
(* The functions of klib that cut a string at its ends: the trim functions  *)
(* and the code points of src/unicode.cpp, make_file_name_legal() of        *)
(* src/util.cpp.  A client assigns a string and calls them, in any order.   *)
(*                                                                          *)
(* A string is a sequence of bytes, and a byte is told apart as far as the  *)
(* functions tell it.  utfcpp and Boost's trim() are external.              *)
(***************************************************************************)
EXTENDS Integers, SequencesExt

CONSTANT MaxLength  \* bound: the bytes of a string

Bytes == {"letter", "space", "dot",
          "slash",    \* what no file name may hold
          "control",  \* neither that nor white space
          "white",    \* leads a code point of two bytes that is white space
          "lead",     \* leads another of two bytes
          "trail"}    \* the second of those two
Texts == UNION {[1 .. n -> Bytes] : n \in 0 .. MaxLength}

VARIABLES
  text,    \* the client's string
  given,   \* ghost: what it was when the last function was called
  op,      \* that function, "none" since the string was assigned
  outcome, \* "half" in trim() between its ends, then "returned" or "threw"
  result   \* what it returned, or left in the string

vars == <<text, given, op, outcome, result>>

Ops == {"trim_left", "trim_right", "trim", "trim_left_copy", "trim_right_copy", "trim_copy",
        "first_code_point", "last_code_point", "make_file_name_legal"}

TypeOK ==
  /\ text \in Texts /\ given \in Texts /\ result \in Texts
  /\ op \in Ops \cup {"none"}
  /\ outcome \in {"returned", "threw", "half"}

Init ==
  /\ text = <<>> /\ given = <<>> /\ result = <<>>
  /\ op = "none"
  /\ outcome = "returned"

-----------------------------------------------------------------------------
(* utfcpp, and Boost *)

\* utf8::next() at i: how many bytes it reads, none when it throws.
NextSize(s, i) ==
  IF s[i] \in {"white", "lead"}
    THEN IF i < Len(s) /\ s[i + 1] = "trail" THEN 2 ELSE 0
    ELSE IF s[i] = "trail" THEN 0 ELSE 1

\* utf8::prior() at the end of s: back over all the trail bytes there are, then
\* next() from the byte before them, which need not read them all.  0: it throws.
PriorAt(s) ==
  LET heads == {i \in DOMAIN s : s[i] # "trail"}
      i == IF heads = {} THEN 0 ELSE Max(heads)
  IN  IF i # 0 /\ NextSize(s, i) # 0 THEN i ELSE 0

\* is_whitespace() of the code point at i.
is_whitespace(s, i) == s[i] \in {"space", "white"}

\* boost::trim() knows the white space of ASCII only.
TrimSpaces(s) ==
  LET other == {i \in DOMAIN s : s[i] # "space"}
  IN  IF other = {} THEN <<>> ELSE SubSeq(s, Min(other), Max(other))

-----------------------------------------------------------------------------
(* src/unicode.cpp *)

Thrown == -1

trim_left_erase_num(s) ==
  LET from[i \in 1 .. Len(s) + 1] ==
        IF i = Len(s) + 1 THEN i - 1
        ELSE IF NextSize(s, i) = 0 THEN Thrown
        ELSE IF is_whitespace(s, i) THEN from[i + NextSize(s, i)] ELSE i - 1
  IN  from[1]

\* Mutant: counts the first byte of what it removes.
trim_right_by_bytes(s) ==
  LET to[n \in 0 .. Len(s)] ==
        LET i == PriorAt(SubSeq(s, 1, n))
        IN  IF n = 0 THEN 0
            ELSE IF i = 0 THEN Thrown
            ELSE IF is_whitespace(s, i) THEN 1 + to[n - 1] ELSE 0
  IN  to[Len(s)]

trim_right_erase_num(s) ==
  LET to[n \in 0 .. Len(s)] ==
        LET i == PriorAt(SubSeq(s, 1, n))
        IN  IF n = 0 THEN Len(s)
            ELSE IF i = 0 THEN Thrown
            ELSE IF is_whitespace(s, i) THEN to[i - 1] ELSE Len(s) - n
  IN  to[Len(s)]

EraseHead(s, n) == SubSeq(s, n + 1, Len(s))
EraseTail(s, n) == SubSeq(s, 1, Len(s) - n)

\* A new string.
Assign(s) ==
  /\ op = "none" /\ text = <<>>
  /\ text' = s
  /\ UNCHANGED <<given, op, outcome, result>>

\* Mutant of LeftThrows: erases as it goes.
LeftThrowsErasing(name) ==
  /\ outcome # "half"
  /\ name \in {"trim_left", "trim", "trim_left_copy", "trim_copy"}
  /\ trim_left_erase_num(text) = Thrown
  /\ op' = name /\ outcome' = "threw" /\ given' = text /\ result' = <<>>
  /\ text' = IF text[1] = "space" THEN EraseHead(text, 1) ELSE text

\* The left end: it throws and nothing is erased, or it is erased.
LeftThrows(name) ==
  /\ outcome # "half"
  /\ name \in {"trim_left", "trim", "trim_left_copy", "trim_copy"}
  /\ trim_left_erase_num(text) = Thrown
  /\ op' = name /\ outcome' = "threw" /\ given' = text /\ result' = <<>>
  /\ UNCHANGED text

\* Mutant of Left: one code point and no loop.
LeftOnce(name) ==
  /\ outcome # "half"
  /\ name \in {"trim_left", "trim", "trim_left_copy", "trim_copy"}
  /\ trim_left_erase_num(text) # Thrown
  /\ result' = IF text # <<>> /\ is_whitespace(text, 1)
                 THEN EraseHead(text, NextSize(text, 1)) ELSE text
  /\ text' = IF name \in {"trim_left", "trim"} THEN result' ELSE text
  /\ op' = name /\ given' = text
  /\ outcome' = IF name \in {"trim", "trim_copy"} THEN "half" ELSE "returned"

Left(name) ==
  /\ outcome # "half"
  /\ name \in {"trim_left", "trim", "trim_left_copy", "trim_copy"}
  /\ trim_left_erase_num(text) # Thrown
  /\ result' = EraseHead(text, trim_left_erase_num(text))
  /\ text' = IF name \in {"trim_left", "trim"} THEN result' ELSE text
  /\ op' = name /\ given' = text
  /\ outcome' = IF name \in {"trim", "trim_copy"} THEN "half" ELSE "returned"

\* The right end of trim() and trim_copy(): what the left end left in place, or
\* in a copy.
RightOfBoth ==
  LET n == trim_right_erase_num(result)
  IN  /\ outcome = "half"
      /\ outcome' = IF n = Thrown THEN "threw" ELSE "returned"
      /\ result' = IF n = Thrown THEN result ELSE EraseTail(result, n)
      /\ text' = IF op = "trim" THEN result' ELSE text
      /\ UNCHANGED <<given, op>>

Right(name) ==
  LET n == trim_right_erase_num(text)
  IN  /\ outcome # "half"
      /\ name \in {"trim_right", "trim_right_copy"}
      /\ op' = name /\ given' = text
      /\ outcome' = IF n = Thrown THEN "threw" ELSE "returned"
      /\ result' = IF n = Thrown THEN <<>> ELSE EraseTail(text, n)
      /\ text' = IF name = "trim_right" /\ n # Thrown THEN result' ELSE text

\* Of the code point, its first byte: all is_whitespace() looks at here.  An
\* empty string ends the process (Expects()).
CodePoint(name) ==
  LET i == IF name = "last_code_point" THEN PriorAt(text)
           ELSE IF NextSize(text, 1) = 0 THEN 0 ELSE 1
  IN  /\ outcome # "half"
      /\ name \in {"first_code_point", "last_code_point"}
      /\ text # <<>>
      /\ op' = name /\ given' = text
      /\ outcome' = IF i = 0 THEN "threw" ELSE "returned"
      /\ result' = IF i = 0 THEN <<>> ELSE <<text[i]>>
      /\ UNCHANGED text

-----------------------------------------------------------------------------
(* make_file_name_legal(), src/util.cpp *)

\* s without the bytes of drop.
Without(s, drop) ==
  LET kept[n \in 0 .. Len(s)] ==
        IF n = 0 THEN <<>>
        ELSE IF s[n] \in drop THEN kept[n - 1] ELSE Append(kept[n - 1], s[n])
  IN  kept[Len(s)]

Cleaned(s) ==
  Without([i \in DOMAIN s |-> IF s[i] = "slash" THEN "space" ELSE s[i]], {"control"})

EndsWith(s, b) == s # <<>> /\ s[Len(s)] = b

\* Mutant of Legal: the last dot is dropped before the control characters.
LegalDotFirst(s) ==
  TrimSpaces(Cleaned(IF EndsWith(s, "dot") THEN EraseTail(s, 1) ELSE s))

Legal(s) ==
  LET c == Cleaned(s)
  IN  TrimSpaces(IF EndsWith(c, "dot") THEN EraseTail(c, 1) ELSE c)

make_file_name_legal ==
  /\ outcome # "half"
  /\ op' = "make_file_name_legal" /\ given' = text /\ outcome' = "returned"
  /\ result' = Legal(text)
  /\ UNCHANGED text

-----------------------------------------------------------------------------

Next ==
  \/ \E s \in Texts : Assign(s)
  \/ \E name \in Ops : LeftThrows(name) \/ Left(name) \/ Right(name) \/ CodePoint(name)
  \/ RightOfBoth
  \/ make_file_name_legal

Spec == Init /\ [][Next]_vars

-----------------------------------------------------------------------------
(* Correctness *)

\* Every byte belongs to a code point.
Valid(s) ==
  \A i \in DOMAIN s : IF s[i] = "trail" THEN i > 1 /\ s[i - 1] \in {"white", "lead"}
                                        ELSE NextSize(s, i) # 0

Called(names) == op \in names /\ outcome # "half"
Lefts == {"trim_left", "trim", "trim_left_copy", "trim_copy"}
Rights == {"trim_right", "trim", "trim_right_copy", "trim_copy"}

\* Of valid text exactly the white space at the ends asked for goes, of one byte
\* or of two, and nothing throws.
TrimExact ==
  Called(Lefts \cup Rights) /\ Valid(given) =>
    LET other == {i \in DOMAIN given : given[i] \notin {"space", "white", "trail"}}
        first == IF op \notin Lefts THEN 1
                 ELSE IF other = {} THEN Len(given) + 1 ELSE Min(other)
        last == IF op \notin Rights THEN Len(given)
                ELSE IF other = {} THEN 0
                ELSE Max(other) + NextSize(given, Max(other)) - 1
    IN  outcome = "returned" /\ result = SubSeq(given, first, last)

\* Of any text, also of text that is not valid, only white space goes, and trail
\* bytes that nothing leads; when the right end throws, trim() has removed the
\* left end's from the string for good, and the others have removed nothing.
NothingElseLost ==
  /\ Called(Lefts \cup Rights) /\ outcome = "returned" =>
       \E i, j \in 0 .. Len(given) :
         /\ result = SubSeq(given, i + 1, j)
         /\ \A k \in (1 .. i) \cup (j + 1 .. Len(given)) :
              given[k] \in {"space", "white", "trail"}
  /\ Called(Ops) /\ outcome = "threw" =>
       text = IF op = "trim" /\ trim_left_erase_num(given) # Thrown
                THEN EraseHead(given, trim_left_erase_num(given)) ELSE given

\* What trim() returned from begins and ends with a code point that is not white
\* space, valid or not what is between: trimming it again changes nothing, and
\* first_code_point() and last_code_point() do not throw.
TrimIsStable ==
  Called({"trim", "trim_copy"}) /\ outcome = "returned" =>
    /\ trim_left_erase_num(result) = 0
    /\ trim_right_erase_num(result) = 0

\* A legal name holds nothing illegal and no outer space, all of the letters, and a
\* dot at its end only if two dots, or a dot and a space, ended the name.
NameIsLegal ==
  op = "make_file_name_legal" =>
    /\ \A i \in DOMAIN result : result[i] \notin {"slash", "control"}
    /\ result # <<>> => result[1] # "space" /\ ~ EndsWith(result, "space")
    /\ LET letters(s) == Without(s, {"space", "slash", "control", "dot"})
       IN  letters(result) = letters(given)
    /\ EndsWith(result, "dot") =>
         LET c == Cleaned(given)
         IN  \E i \in 1 .. Len(c) - 1 :
               /\ c[i] = "dot" /\ c[Len(c)] \in {"dot", "space"}
               /\ \A k \in i + 1 .. Len(c) - 1 : c[k] = "space"
=============================================================================

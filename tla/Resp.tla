-------------------------------- MODULE Resp --------------------------------
(***************************************************************************)
(* The byte-level conversions of RESP2: integers from and to text          *)
(* (string_to_int64, format_int), the reply encoders of src/resp/writer.cpp*)
(* and the words of an inline command (split_inline).                      *)
(*                                                                         *)
(* A byte is its code.  Integers have a width of w bits for 64, with       *)
(* IntMax = 2^(w-1) - 1, and MaxDigits for 20, the length of the longest   *)
(* text that can denote one.  A conversion that can refuse its argument    *)
(* returns the set of its results: empty, or of one element.               *)
(***************************************************************************)
EXTENDS Integers, Sequences

CONSTANTS
  IntMax,    \* INT64_MAX, scaled down
  MaxDigits  \* 20, scaled down

IntMin == -IntMax - 1
UIntMax == 2 * IntMax + 1

ASSUME RespAssumption == IntMax \in Nat /\ MaxDigits \in Nat

LF == 10
CR == 13
Space == 32
DoubleQuote == 34
Dollar == 36
SingleQuote == 39
Star == 42
Minus == 45
Zero == 48
Backslash == 92
Crlf == <<CR, LF>>

Digits == Zero..(Zero + 9)
DigitValue(c) == c - Zero

\* is_space is isspace(3) in the "C" locale.
IsSpace(c) == c \in (9..13) \cup {Space}

-----------------------------------------------------------------------------
(* Integers.                                                               *)

\* Mutant: the accumulator may wrap around.
TakeDigitWraps(acc, c) ==
  {(v * 10 + DigitValue(c)) % (UIntMax + 1) : v \in {u \in acc : c \in Digits}}
\* One turn of string_to_int64's loop: a digit that still fits the unsigned accumulator.
TakeDigit(acc, c) ==
  {v * 10 + DigitValue(c) :
     v \in {u \in acc : c \in Digits /\ u <= (UIntMax - DigitValue(c)) \div 10}}

\* Mutant: the most negative integer is refused.
StringToInt64Symmetric(p) ==
  LET negative == p # <<>> /\ p[1] = Minus
      read[i \in 0..Len(p)] ==
        IF i = 0 \/ (i = 1 /\ negative) THEN {0} ELSE TakeDigit(read[i - 1], p[i])
  IN  IF Len(p) \in 1..MaxDigits /\ p # <<Minus>>
      THEN {IF negative THEN -v ELSE v : v \in read[Len(p)] \cap (0..IntMax)}
      ELSE {}
StringToInt64(p) ==
  LET negative == p # <<>> /\ p[1] = Minus
      limit == IF negative THEN IntMax + 1 ELSE IntMax
      read[i \in 0..Len(p)] ==
        IF i = 0 \/ (i = 1 /\ negative) THEN {0} ELSE TakeDigit(read[i - 1], p[i])
  IN  IF Len(p) \in 1..MaxDigits /\ p # <<Minus>>
      THEN {IF negative THEN -v ELSE v : v \in read[Len(p)] \cap (0..limit)}
      ELSE {}

\* Mutant: 0 has no digits.
FormatIntNoZero(n) ==
  LET v == IF n < 0 THEN UIntMax - (n % (UIntMax + 1)) + 1 ELSE n
      text[u \in 0..v] == IF u = 0 THEN <<>> ELSE Append(text[u \div 10], Zero + (u % 10))
  IN  (IF n < 0 THEN <<Minus>> ELSE <<>>) \o text[v]
\* format_int negates in unsigned space, where ~u + 1 is 2^w - u.
FormatInt(n) ==
  LET v == IF n < 0 THEN UIntMax - (n % (UIntMax + 1)) + 1 ELSE n
      text[u \in 0..v] == IF u = 0 THEN <<>> ELSE Append(text[u \div 10], Zero + (u % 10))
  IN  IF n = 0 THEN <<Zero>> ELSE (IF n < 0 THEN <<Minus>> ELSE <<>>) \o text[v]

-----------------------------------------------------------------------------
(* Encoders.                                                               *)

ArrayHeader(n) == <<Star>> \o FormatInt(n) \o Crlf
Bulk(s) == <<Dollar>> \o FormatInt(Len(s)) \o Crlf \o s \o Crlf

-----------------------------------------------------------------------------
(* Inline commands.                                                        *)

IsHex(c) == c \in Digits \cup (65..70) \cup (97..102)
HexValue(c) == IF c \in Digits THEN DigitValue(c) ELSE IF c >= 97 THEN c - 87 ELSE c - 55

\* What follows a backslash in double quotes: \n \r \t \b \a, or the byte itself.
Escaped(c) ==
  CASE c = 110 -> LF [] c = 114 -> CR [] c = 116 -> 9 [] c = 98 -> 8 [] c = 97 -> 7
    [] OTHER -> c

\* A closing quote must be followed by a space or by the end of the line.
Closes(p, i) == i = Len(p) \/ IsSpace(p[i + 1])

\* The word being read has c before what is left of it; it ends here.
WithByte(c, rest) == {<<<<c>> \o Head(ws)>> \o Tail(ws) : ws \in rest}
EndWord(rest) == {<<<<>>>> \o ws : ws \in rest}

\* The words left to read at position i inside a word, of which the first is the rest
\* of that word; words[j] has what is left at a later position, by mode.
InWord(p, words, mode, i) ==
  LET n == Len(p)
      left(m, j) == words[j][m]
      hex == i + 3 <= n /\ p[i + 1] = 120 /\ IsHex(p[i + 2]) /\ IsHex(p[i + 3])
  IN  CASE mode = "bare" /\ i > n -> {<<<<>>>>}
        [] mode = "bare" /\ i <= n ->
             IF IsSpace(p[i]) THEN EndWord(left("gap", i + 1))
             ELSE IF p[i] = DoubleQuote THEN left("double", i + 1)
             ELSE IF p[i] = SingleQuote THEN left("single", i + 1)
             ELSE WithByte(p[i], left("bare", i + 1))
        [] mode \in {"double", "single"} /\ i > n -> {}
        [] mode = "double" /\ i <= n ->
             IF p[i] = Backslash /\ hex
             THEN WithByte(HexValue(p[i + 2]) * 16 + HexValue(p[i + 3]), left("double", i + 4))
             ELSE IF p[i] = Backslash /\ i < n
             THEN WithByte(Escaped(p[i + 1]), left("double", i + 2))
             ELSE IF p[i] # DoubleQuote THEN WithByte(p[i], left("double", i + 1))
             ELSE IF Closes(p, i) THEN EndWord(left("gap", i + 1)) ELSE {}
        [] mode = "single" /\ i <= n ->
             IF p[i] = Backslash /\ i < n /\ p[i + 1] = SingleQuote
             THEN WithByte(SingleQuote, left("single", i + 2))
             ELSE IF p[i] # SingleQuote THEN WithByte(p[i], left("single", i + 1))
             ELSE IF Closes(p, i) THEN EndWord(left("gap", i + 1)) ELSE {}

\* Between two words.
InGap(p, words, i) ==
  IF i > Len(p) THEN {<<>>}
  ELSE IF IsSpace(p[i]) THEN words[i + 1]["gap"] ELSE InWord(p, words, "bare", i)

\* split_inline: the words of a line, unless a quote is left open.
SplitInline(p) ==
  LET words[i \in 1..(Len(p) + 1)] ==
        [mode \in {"gap", "bare", "double", "single"} |->
           IF mode = "gap" THEN InGap(p, words, i) ELSE InWord(p, words, mode, i)]
  IN  words[1]["gap"]
=============================================================================

------------------------------- MODULE Strings -------------------------------
(***************************************************************************)
(* The string functions of the software.  A string is the sequence of its  *)
(* characters, without the terminating NUL that ends it in memory; a       *)
(* character is a string of length one.                                    *)
(*                                                                         *)
(* A definition marked "slip" is not the code's: it is a mistake the       *)
(* definition after it could have had, kept to try the properties on.      *)
(***************************************************************************)
EXTENDS Integers, SequencesExt, FiniteSetsExt

CONSTANT IntMod   \* values of an int, and of a uint32_t (2^32)

ASSUME IntModAssumption == IntMod \in Nat \ {0}

Digits    == <<"0", "1", "2", "3", "4", "5", "6", "7", "8", "9">>
HexDigits == <<"0", "1", "2", "3", "4", "5", "6", "7", "8", "9",
               "a", "b", "c", "d", "e", "f">>

\* The number a digit stands for, *str - '0'.
DigitValue(char) == CHOOSE n \in 0 .. 9 : Digits[n + 1] = char

\* A string can be put in a buffer: its NUL takes a place too.
Fits(str, size) == Len(str) + 1 <= size

-----------------------------------------------------------------------------
(* Copying and comparing. *)

Strcpy(src) == src

Strcat(dest, src) == dest \o src

\* strcmp() gives zero.
Equal(str1, str2) == str1 = str2

-----------------------------------------------------------------------------
(* Conversions. *)

\* What the divider is set to and divided down to, by the bytes of a word.
Dividers(bytes_number) ==
  CASE bytes_number = 1 -> <<100, 10, 1>>
    [] bytes_number = 2 -> <<10000, 1000, 100, 10, 1>>
    [] bytes_number = 4 -> <<1000000000, 100000000, 10000000, 1000000, 100000,
                             10000, 1000, 100, 10, 1>>
    [] OTHER -> <<>>

\* What is left of the word after each digit.
Remainders(word, dividers) ==
  LET left[k \in 0 .. Len(dividers)] ==
        IF k = 0 THEN word ELSE left[k - 1] % dividers[k]
  IN  left

ToDecString(word, bytes_number) ==
  LET dividers == Dividers(bytes_number)
      left     == Remainders(word, dividers)
  IN  [k \in 1 .. Len(dividers) |-> Digits[(left[k - 1] \div dividers[k]) + 1]]

\* (slip) Every leading zero goes, also the last digit of 0.
FindFirstNonZeroDigitAll(str) ==
  SubSeq(str, Min({k \in DOMAIN str : str[k] # "0"} \union {Len(str) + 1}), Len(str))

\* Past the leading zeros, but not past the last digit.
FindFirstNonZeroDigit(str) ==
  SubSeq(str, Min({k \in DOMAIN str : str[k] # "0"} \union {Len(str)}), Len(str))

\* The buffer a word is converted in before its leading zeros are dropped.
DecBuffer(word) == ToDecString(word, 4)

ToDecWord(word) == Strcpy(FindFirstNonZeroDigit(DecBuffer(word)))

\* The word after each nibble is shifted out.
Shifted(word, nibbles) ==
  LET left[k \in 0 .. nibbles] == IF k = 0 THEN word ELSE left[k - 1] \div 16
  IN  left

\* The nibbles come least significant first and are put in from the end.
ToHexString(word, bytes_number) ==
  LET nibbles == 2 * bytes_number
      left    == Shifted(word, nibbles)
  IN  <<"0", "x">> \o [i \in 1 .. nibbles |-> HexDigits[(left[nibbles - i] % 16) + 1]]

\* The first character is looked at even if it is the NUL.
IsNumber(str) == str # <<>> /\ \A k \in DOMAIN str : \E n \in 1 .. 10 : str[k] = Digits[n]

\* An int wraps as the build wraps it (two's complement).
ToInt(str) ==
  LET neg == str # <<>> /\ Head(str) = "-"
      val == FoldLeft(LAMBDA acc, char : (acc * 10 + DigitValue(char)) % IntMod,
                      0, IF neg THEN Tail(str) ELSE str)
  IN  IF neg THEN (IntMod - val) % IntMod ELSE val

=============================================================================

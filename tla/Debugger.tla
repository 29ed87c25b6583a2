------------------------------ MODULE Debugger ------------------------------
(***************************************************************************)
(* The debug output: a word, with or without its name and address, as one  *)
(* line on the UART.  The conversions and the line go through buffers on   *)
(* the stack, of NumberSize and BufferSize characters, whose ends nothing  *)
(* checks.                                                                 *)
(***************************************************************************)
EXTENDS Strings

CONSTANTS
  Names,        \* what the macros make of the parameters printed
  PrintedWords, \* values and addresses
  NumberSize,   \* size of the buffers of the conversions (11)
  BufferSize    \* size of the line buffer (100)

Nul == "NUL"

ASSUME PrintedWordsAssumption ==   \* a uint32_t
  \A w \in PrintedWords : w \in Nat /\ w \div 65536 < 65536

\* The names are identifiers; with the longest address and value they fit.
ASSUME NamesAssumption ==
  \A name \in Names :
    /\ name \in Seq(STRING) /\ Len(name) + 27 <= BufferSize
    /\ \A k \in DOMAIN name : name[k] \notin {"\n", Nul}

ASSUME SizesAssumption ==
  NumberSize \in Nat /\ NumberSize >= 11 /\ BufferSize \in Nat /\ BufferSize >= 12

VARIABLES
  call,      \* the last call: its kind and arguments
  buffers,   \* what it put in its buffers, with their sizes
  sent       \* the characters it gave to the UART

debuggerVars == <<call, buffers, sent>>

Number(text) == [text |-> text, size |-> NumberSize]
Line(text)   == [text |-> text, size |-> BufferSize]

\* Uart::write(src) also sends the character that ends the string.
UartWrite(src) == Append(src, Nul)

PrintLine(value) == Strcat(Strcpy(value), <<"\n">>)

PrintNamed(name, value) ==
  Strcat(Strcat(Strcat(Strcpy(name), <<":", " ">>), value), <<"\n">>)

PrintNamedAt(name, address, value) ==
  Strcat(Strcat(Strcat(Strcat(Strcat(Strcpy(name), <<" ", "(">>), address),
                       <<")", ":", " ">>), value), <<"\n">>)

Prints(line, numbers) ==
  /\ buffers' = {Number(n) : n \in numbers} \union {Line(line)}
  /\ sent' = UartWrite(line)

PrintDecWord(value) ==
  /\ call' = [base |-> 10, value |-> value]
  /\ Prints(PrintLine(ToDecWord(value)), {DecBuffer(value), ToDecWord(value)})

PrintDecWordNamed(name, value) ==
  /\ call' = [base |-> 10, name |-> name, value |-> value]
  /\ Prints(PrintNamed(name, ToDecWord(value)), {DecBuffer(value), ToDecWord(value)})

PrintDecWordNamedAt(name, address, value) ==
  /\ call' = [base |-> 10, name |-> name, address |-> address, value |-> value]
  /\ Prints(PrintNamedAt(name, ToHexString(address, 4), ToDecWord(value)),
            {ToHexString(address, 4), DecBuffer(value), ToDecWord(value)})

PrintHexWord(value) ==
  /\ call' = [base |-> 16, value |-> value]
  /\ Prints(PrintLine(ToHexString(value, 4)), {ToHexString(value, 4)})

PrintHexWordNamed(name, value) ==
  /\ call' = [base |-> 16, name |-> name, value |-> value]
  /\ Prints(PrintNamed(name, ToHexString(value, 4)), {ToHexString(value, 4)})

PrintHexWordNamedAt(name, address, value) ==
  /\ call' = [base |-> 16, name |-> name, address |-> address, value |-> value]
  /\ Prints(PrintNamedAt(name, ToHexString(address, 4), ToHexString(value, 4)),
            {ToHexString(address, 4), ToHexString(value, 4)})

DebuggerInit == call = [base |-> 0] /\ buffers = {} /\ sent = <<>>

\* One call at a time: when it returns its buffers are gone.
Calls ==
  /\ call.base = 0
  /\ \E value \in PrintedWords :
       \/ PrintDecWord(value) \/ PrintHexWord(value)
       \/ \E name \in Names :
            \/ PrintDecWordNamed(name, value) \/ PrintHexWordNamed(name, value)
            \/ \E address \in PrintedWords :
                 \/ PrintDecWordNamedAt(name, address, value)
                 \/ PrintHexWordNamedAt(name, address, value)

Returns ==
  /\ call.base # 0
  /\ call' = [base |-> 0] /\ buffers' = {} /\ sent' = <<>>

DebuggerNext == Calls \/ Returns

DebuggerSpec == DebuggerInit /\ [][DebuggerNext]_debuggerVars

-----------------------------------------------------------------------------
(* Reading the output back, as a person or a script does: fields separated *)
(* by spaces, numbers in the base their prefix tells.                      *)

\* The NUL does not show.
Shown == Front(sent)

Fields ==
  LET text == Front(Shown)
      ends == {k \in DOMAIN text : text[k] = " "} \union {Len(text) + 1}
      Before(k) == {j \in ends : j < k} \union {0}
  IN  {SubSeq(text, Max(Before(k)) + 1, k - 1) : k \in ends}

DigitOf(char) == CHOOSE n \in 0 .. 15 : HexDigits[n + 1] = char

\* The numbers the first digits stand for.
Accumulated(base, digits) ==
  LET acc[k \in 0 .. Len(digits)] ==
        IF k = 0 THEN 0 ELSE acc[k - 1] * base + DigitOf(digits[k])
  IN  acc

InBase(base, digits) == Accumulated(base, digits)[Len(digits)]

Denotes(field, base, value) ==
  LET digits == IF base = 16 THEN SubSeq(field, 3, Len(field)) ELSE field
  IN  /\ digits # <<>>
      /\ \A k \in DOMAIN digits : \E n \in 1 .. base : digits[k] = HexDigits[n]
      /\ InBase(base, digits) = value
      /\ IF base = 16 THEN SubSeq(field, 1, 2) = <<"0", "x">> /\ Len(digits) = 8
         ELSE Head(digits) = "0" => Len(digits) = 1

(* No buffer is written past its end: ten digits or nibbles and a NUL just *)
(* fit in a number, and the longest line in the line buffer.               *)
BuffersSuffice == \A b \in buffers : Fits(b.text, b.size)

(* What is printed can be read back: it is one line, whose last field is   *)
(* the value, digit by digit and without leading zeros or with all of      *)
(* them, after the name and the address the caller gave; and no buffer     *)
(* overflows on the way.  This is about the conversions of string.cpp and  *)
(* the way debug.cpp puts lines together.                                  *)
ReadsBack ==
  call.base # 0 =>
    /\ BuffersSuffice
    /\ Last(sent) = Nul /\ Last(Shown) = "\n"
    /\ \A k \in 1 .. Len(Shown) - 1 : Shown[k] \notin {"\n", Nul}
    /\ \E f \in Fields :
         Denotes(f, call.base, call.value) /\ IsSuffix(Append(f, "\n"), Shown)
    /\ "name" \in DOMAIN call => IsPrefix(call.name, Shown)
    /\ "address" \in DOMAIN call =>
         \E f \in Fields : /\ Len(f) > 3
                           /\ Denotes(SubSeq(f, 2, Len(f) - 2), 16, call.address)

=============================================================================

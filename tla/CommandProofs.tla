--------------------------- MODULE CommandProofs ---------------------------
(***************************************************************************)
(* The command interpreter reads what is typed and obeys it, for any       *)
(* characters, command names, size of the line buffer and columns.         *)
(***************************************************************************)
EXTENDS CommandInterpreter, SequenceTheorems, TLAPS

\* The texts, and the work done between them.
Texts ==
  {Nul, "prompt", "colon", "help_message", "counter", "set_din", "read_counters",
   "readout_finished", "readout_time", "set_dc", "calibrate", "calibration_done",
   "calibration_time", "unrecognized_command", "incorrect_value", "pin", "state"}

(* What is printed for an answer: texts of which the last is a NUL, with   *)
(* another before it.                                                      *)
Dialogue(s) == s \in Seq(Texts) /\ Len(s) >= 2 /\ s[Len(s)] = Nul

(* What was received is what was typed or, of a peer that types ahead,     *)
(* follows one character that was there before the prompt.                 *)
Catches ==
  \/ Received = typed
  \/ ahead /\ Received # <<>> /\ Tail(Received) = typed

CommandInv ==
  /\ todo \in Seq(Texts)
  /\ todo # <<>> => todo[Len(todo)] = Nul /\ line = <<>>
  /\ line \in Seq(Chars) /\ Len(line) < LineLength
  /\ typed \in Seq(Chars)
  /\ rxne \in BOOLEAN /\ ahead \in BOOLEAN
  /\ rxne => rdr \in Chars
  /\ ~ahead /\ ~Prompted => ~rxne
  /\ Prompted => Catches

-----------------------------------------------------------------------------
(* What is printed. *)

LEMMA WriteIsDialogue ==
  ASSUME NEW text \in Texts
  PROVE  Dialogue(Write(text))
<1> DEFINE s == <<text, Nul>>
<1>1. Nul \in Texts
  BY DEF Nul, Texts
<1>2. s \in Seq(Texts) /\ Len(s) = 2 /\ s[2] = Nul
  BY <1>1
<1> HIDE DEF s
<1>3. Dialogue(s)
  BY <1>2 DEF Dialogue
<1>4. QED
  BY <1>3 DEF Write, s

LEMMA DialogueEnds ==
  ASSUME NEW s \in Seq(Texts), NEW t, Dialogue(t)
  PROVE  Dialogue(s \o t)
<1>1. t \in Seq(Texts) /\ Len(t) >= 2 /\ t[Len(t)] = Nul
  BY DEF Dialogue
<1>2. Len(s) \in Nat /\ Len(t) \in Nat
  BY <1>1, LenProperties
<1>3. /\ s \o t \in Seq(Texts) /\ Len(s \o t) = Len(s) + Len(t)
      /\ \A i \in 1 .. Len(s) + Len(t) :
           (s \o t)[i] = IF i <= Len(s) THEN s[i] ELSE t[i - Len(s)]
  BY <1>1, ConcatProperties
<1>4. (s \o t)[Len(s) + Len(t)] = t[Len(t)]
  BY <1>1, <1>2, <1>3
<1>5. QED
  BY <1>1, <1>2, <1>3, <1>4 DEF Dialogue

LEMMA IsSequence ==
  ASSUME NEW s, Dialogue(s)
  PROVE  s \in Seq(Texts)
  BY DEF Dialogue

LEMMA PromptIsDialogue == Dialogue(Prompt)
<1>1. "prompt" \in Texts
  BY DEF Texts
<1>2. QED
  BY <1>1, WriteIsDialogue DEF Prompt

LEMMA AskIsDialogue ==
  ASSUME NEW parameter \in Texts
  PROVE  Dialogue(Ask(parameter))
<1>1. "colon" \in Texts
  BY DEF Texts
<1>2. Dialogue(Write("colon")) /\ Dialogue(Write(parameter))
  BY <1>1, WriteIsDialogue
<1>3. QED
  BY <1>2, DialogueEnds, IsSequence DEF Ask

LEMMA CountersAreTexts == Counters \in Seq(Texts)
<1>1. "counter" \in Texts /\ Nul \in Texts
  BY DEF Texts, Nul
<1>2. 2 * Cols \in Nat
  BY LineAssumption
<1>3. Counters \in [1 .. 2 * Cols -> Texts]
  BY <1>1 DEF Counters
<1>4. QED
  BY <1>2, <1>3, SeqDef

LEMMA CommandsAreDialogues ==
  /\ Dialogue(Help \o Prompt)
  /\ Dialogue(ReadMatrix \o Prompt)
  /\ Dialogue(CalibrateMatrix \o Prompt)
  /\ Dialogue(Write("unrecognized_command") \o Prompt)
<1>1. {"help_message", "set_din", "read_counters", "readout_finished", "readout_time", "set_dc",
       "calibrate", "calibration_done", "calibration_time", "unrecognized_command"} \subseteq Texts
  BY DEF Texts
<1>2. <<"set_din", "read_counters">> \in Seq(Texts)
  BY <1>1
<1>3. <<"set_dc", "set_din", "calibrate">> \in Seq(Texts)
  BY <1>1
<1>4. \A text \in Texts : Write(text) \in Seq(Texts)
  BY WriteIsDialogue, IsSequence
<1>5. \A s, t \in Seq(Texts) : s \o t \in Seq(Texts)
  BY ConcatProperties
<1>6. Help \in Seq(Texts)
  BY <1>1, <1>4 DEF Help
<1>7. ReadMatrix \in Seq(Texts)
  <2>1. <<"set_din", "read_counters">> \o Write("readout_finished") \in Seq(Texts)
    BY <1>1, <1>2, <1>4, <1>5
  <2>2. <<"set_din", "read_counters">> \o Write("readout_finished") \o Write("readout_time")
          \in Seq(Texts)
    BY <1>1, <1>4, <1>5, <2>1
  <2>3. QED
    BY <1>5, <2>2, CountersAreTexts DEF ReadMatrix
<1>8. CalibrateMatrix \in Seq(Texts)
  <2>1. <<"set_dc", "set_din", "calibrate">> \o Write("calibration_done") \in Seq(Texts)
    BY <1>1, <1>3, <1>4, <1>5
  <2>2. QED
    BY <1>1, <1>4, <1>5, <2>1 DEF CalibrateMatrix
<1>9. Write("unrecognized_command") \in Seq(Texts)
  BY <1>1, <1>4
<1>10. QED
  BY <1>6, <1>7, <1>8, <1>9, PromptIsDialogue, DialogueEnds

LEMMA AnswerIsDialogue ==
  ASSUME NEW text, Answer(text)
  PROVE  Dialogue(todo')
<1>1. asks \in {"command", "pin", "state"}
  BY DEF Answer, Obeys, ObeysCommand, TakesPin, TakesState
<1>2. "pin" \in Texts /\ "state" \in Texts /\ "incorrect_value" \in Texts
  BY DEF Texts
<1>3. Dialogue(Ask("pin")) /\ Dialogue(Ask("state"))
  BY <1>2, AskIsDialogue
<1>4. \A command : Dialogue(Run(command))
  BY <1>3, CommandsAreDialogues DEF Run
<1>5. Write("incorrect_value") \in Seq(Texts)
  BY <1>2, WriteIsDialogue, IsSequence
<1>6. /\ Dialogue(Write("incorrect_value") \o Ask("pin"))
      /\ Dialogue(Write("incorrect_value") \o Ask("state"))
  BY <1>3, <1>5, DialogueEnds
<1>7. CASE asks = "command"
  BY <1>4, <1>7 DEF Answer
<1>8. CASE asks = "pin"
  <2>1. todo' = GetInteger("pin", text, Ask("state"))
    BY <1>8 DEF Answer
  <2>2. QED
    BY <1>3, <1>6, <2>1 DEF GetInteger
<1>9. CASE asks = "state"
  <2>1. todo' = GetInteger("state", text, Prompt)
    BY <1>9 DEF Answer
  <2>2. QED
    BY <1>6, <2>1, PromptIsDialogue DEF GetInteger
<1>10. QED
  BY <1>1, <1>7, <1>8, <1>9

-----------------------------------------------------------------------------
(* What was received. *)

LEMMA OneText ==
  ASSUME NEW s \in Seq(Texts), Len(s) = 1, s[1] = Nul
  PROVE  s = <<Nul>>
<1> DEFINE t == <<Nul>>
<1>1. Nul \in Texts
  BY DEF Texts
<1>2. t \in Seq(Texts) /\ Len(t) = 1 /\ t[1] = Nul
  BY <1>1
<1> HIDE DEF t
<1>3. s = t
  BY <1>2, SeqEqual
<1>4. QED
  BY <1>3 DEF t

LEMMA ReceivedIs ==
  ASSUME CommandInv
  PROVE  /\ ~rxne => Received = line
         /\ rxne => Received = Append(line, rdr)
<1>1. line \in Seq(Chars) /\ (rxne => rdr \in Chars)
  BY DEF CommandInv
<1>2. line \o <<>> = line
  BY <1>1, ConcatEmptySeq
<1>3. rxne => line \o <<rdr>> = Append(line, rdr)
  BY <1>1, AppendIsConcat
<1>4. QED
  BY <1>2, <1>3 DEF Received

LEMMA ReceivedIsNext ==
  ASSUME line' \in Seq(Chars), rxne' => rdr' \in Chars
  PROVE  /\ ~rxne' => Received' = line'
         /\ rxne' => Received' = Append(line', rdr')
<1>1. line' \o <<>> = line'
  BY ConcatEmptySeq
<1>2. rxne' => line' \o <<rdr'>> = Append(line', rdr')
  BY AppendIsConcat
<1>3. QED
  BY <1>1, <1>2 DEF Received

LEMMA InitEstablishes == Init => CommandInv
<1> SUFFICES ASSUME Init PROVE CommandInv
  OBVIOUS
<1>1. todo \in Seq(Texts) /\ Len(todo) >= 2 /\ todo[Len(todo)] = Nul
  BY PromptIsDialogue DEF Init, Dialogue
<1>2. line = <<>> /\ typed = <<>> /\ rxne = FALSE /\ ahead \in BOOLEAN
  BY DEF Init, Link!LinkInit
<1>3. <<>> \in Seq(Chars) /\ Len(<<>>) = 0
  BY EmptySeq
<1>4. line \in Seq(Chars) /\ Len(line) < LineLength /\ typed \in Seq(Chars)
  BY <1>2, <1>3, LineAssumption
<1>5. Received = typed
  BY <1>2, <1>4, ConcatEmptySeq DEF Received
<1>6. QED
  BY <1>1, <1>2, <1>4, <1>5 DEF CommandInv, Catches

LEMMA PrintInv == CommandInv /\ Prints => CommandInv'
<1> SUFFICES ASSUME CommandInv, Prints PROVE CommandInv'
  OBVIOUS
<1>1. /\ todo # <<>> /\ todo' = Tail(todo) /\ UNCHANGED <<rdr, rxne, line, ahead>>
      /\ typed' = IF todo' = <<Nul>> THEN <<>> ELSE typed
  BY DEF Prints
<1>2. todo \in Seq(Texts) /\ todo[Len(todo)] = Nul /\ line = <<>>
  BY <1>1 DEF CommandInv
<1>3. /\ todo' \in Seq(Texts) /\ Len(todo') = Len(todo) - 1
      /\ \A i \in 1 .. Len(todo') : todo'[i] = todo[i + 1]
      /\ Len(todo) \in Nat
  BY <1>1, <1>2, HeadTailProperties, LenProperties
<1>4. todo' # <<>> => todo'[Len(todo')] = Nul
  <2> SUFFICES ASSUME todo' # <<>> PROVE todo'[Len(todo')] = Nul
    OBVIOUS
  <2>1. Len(todo') \in Nat \ {0}
    BY <1>3, EmptySeq
  <2>2. QED
    BY <1>2, <1>3, <2>1
<1>5. <<>> \in Seq(Chars) /\ typed' \in Seq(Chars)
  BY <1>1, EmptySeq DEF CommandInv
<1>6. /\ line' \in Seq(Chars) /\ Len(line') < LineLength
      /\ rxne' \in BOOLEAN /\ ahead' \in BOOLEAN
      /\ rxne' => rdr' \in Chars
  BY <1>1 DEF CommandInv
<1>7. ~ahead => ~rxne \/ Prompted
  BY DEF CommandInv
<1>8. CASE todo' = <<Nul>>
  <2>1. ~Prompted
    <3>1. Len(<<>>) = 0 /\ Len(<<Nul>>) = 1
      OBVIOUS
    <3>2. Len(todo) = 2
      BY <1>3, <1>8, <3>1
    <3>3. QED
      BY <3>1, <3>2 DEF Prompted
  <2>2. typed' = <<>> /\ line' = <<>>
    BY <1>1, <1>2, <1>8
  <2>3. CASE rxne
    <3>1. ahead'
      BY <1>1, <1>7, <2>1, <2>3 DEF CommandInv
    <3>2. Received' = Append(<<>>, rdr')
      BY <1>1, <1>6, <2>2, <2>3, ReceivedIsNext
    <3>3. Received' # <<>> /\ Tail(Received') = <<>>
      BY <1>1, <1>5, <1>6, <2>3, <3>2, AppendProperties, HeadTailAppend
    <3>4. Catches'
      BY <2>2, <3>1, <3>3 DEF Catches
    <3>5. QED
      BY <1>1, <1>2, <1>3, <1>4, <1>5, <1>6, <1>8, <3>1, <3>4 DEF CommandInv, Prompted
  <2>4. CASE ~rxne
    <3>1. Received' = <<>>
      BY <1>1, <1>6, <2>2, <2>4, ReceivedIsNext
    <3>2. Catches'
      BY <2>2, <3>1 DEF Catches
    <3>3. QED
      BY <1>1, <1>2, <1>3, <1>4, <1>5, <1>6, <1>8, <3>2 DEF CommandInv, Prompted
  <2>5. QED
    BY <2>3, <2>4
<1>9. CASE todo' # <<Nul>>
  <2>1. typed' = typed /\ (Received' = Received)
    BY <1>1, <1>9 DEF Received
  <2>2. CASE Prompted
    <3>1. Catches
      BY <2>2 DEF CommandInv
    <3>2. todo' = <<>>
      <4>1. Len(todo) = 1
        BY <1>1, <2>2 DEF Prompted
      <4>2. QED
        BY <1>3, <4>1, EmptySeq
    <3>3. Catches' /\ Prompted'
      BY <1>1, <2>1, <3>1, <3>2 DEF Catches, Prompted
    <3>4. QED
      BY <1>1, <1>2, <1>3, <1>4, <1>5, <1>6, <3>3 DEF CommandInv
  <2>3. CASE ~Prompted
    <3>1. ~Prompted'
      <4>1. Len(todo) # 1
        <5>1. Len(todo) = 1 => todo[1] = Nul
          BY <1>2
        <5>2. Len(todo) = 1 => todo = <<Nul>>
          BY <1>2, <5>1, OneText
        <5>3. QED
          BY <2>3, <5>2 DEF Prompted
      <4>2. Len(todo) # 0
        BY <1>1, <1>2, EmptySeq
      <4>3. Len(todo') # 0
        BY <1>3, <4>1, <4>2
      <4>4. QED
        BY <1>9, <4>3, EmptySeq DEF Prompted
    <3>2. ~ahead' => ~rxne'
      BY <1>1, <2>3 DEF CommandInv
    <3>3. QED
      BY <1>1, <1>2, <1>3, <1>4, <1>5, <1>6, <3>1, <3>2 DEF CommandInv
  <2>4. QED
    BY <2>2, <2>3
<1>10. QED
  BY <1>8, <1>9

\* After an answer nothing has been received, and nothing is read for a while.
LEMMA AnswerInv ==
  ASSUME CommandInv, NEW text, Answer(text), line' = <<>>, rxne' = FALSE,
         UNCHANGED <<rdr, typed, ahead>>
  PROVE  CommandInv'
<1>1. todo' \in Seq(Texts) /\ Len(todo') >= 2 /\ todo'[Len(todo')] = Nul
  BY AnswerIsDialogue DEF Dialogue
<1>2. <<>> \in Seq(Chars) /\ Len(<<>>) = 0 /\ Len(<<Nul>>) = 1
  BY EmptySeq
<1>3. ~Prompted'
  BY <1>1, <1>2 DEF Prompted
<1>4. line' \in Seq(Chars) /\ Len(line') < LineLength
  BY <1>2, LineAssumption
<1>5. QED
  BY <1>1, <1>3, <1>4 DEF CommandInv

LEMMA ReadInv == CommandInv /\ Reads => CommandInv'
<1> SUFFICES ASSUME CommandInv, Reads PROVE CommandInv'
  OBVIOUS
<1>1. todo = <<>> /\ rxne /\ rxne' = FALSE /\ UNCHANGED <<rdr, typed, ahead>>
  BY DEF Reads, Reading, Link!Takes
<1>2. rdr \in Chars /\ line \in Seq(Chars) /\ Len(line) \in Nat
  BY <1>1, LenProperties DEF CommandInv
<1>3. CASE EndsLine(rdr) /\ Answer(Ended(line, rdr)) /\ line' = <<>>
  BY <1>1, <1>3, AnswerInv
<1>4. CASE /\ ~EndsLine(rdr) /\ Len(line) < LineLength - 1
           /\ line' = Append(line, rdr) /\ UNCHANGED <<consoleVars, todo>>
  <2>1. line' \in Seq(Chars) /\ Len(line') = Len(line) + 1
    BY <1>2, <1>4, AppendProperties
  <2>2. Len(line') < LineLength
    BY <1>2, <1>4, <2>1, LineAssumption
  <2>3. Received' = Append(line, rdr) /\ Received = Append(line, rdr)
    BY <1>1, <1>4, <2>1, ReceivedIs, ReceivedIsNext
  <2>4. Catches'
    BY <1>1, <2>3 DEF CommandInv, Prompted, Catches
  <2>5. todo' = <<>> /\ todo' \in Seq(Texts)
    BY <1>1, <1>4 DEF CommandInv
  <2>6. QED
    BY <1>1, <2>1, <2>2, <2>4, <2>5 DEF CommandInv
<1>5. CASE /\ ~EndsLine(rdr) /\ Len(line) = LineLength - 1
           /\ \E tail \in StackTails : Answer(Append(line, rdr) \o tail)
           /\ line' = <<>>
  BY <1>1, <1>5, AnswerInv
<1>6. QED
  BY <1>3, <1>4, <1>5 DEF Reads

LEMMA TypeInvariance ==
  ASSUME CommandInv, NEW char \in Chars, Types(char)
  PROVE  CommandInv'
<1>1. /\ UNCHANGED <<todo, line, ahead>> /\ rxne' = TRUE /\ rdr' = char
      /\ Prompted \/ ahead
      /\ todo = <<Nul>> => typed = <<>>
      /\ todo = <<>> => ~rxne
      /\ typed' = IF Prompted THEN Append(typed, char) ELSE typed
  BY DEF Types, Link!Delivers, Reading
<1>2. typed \in Seq(Chars) /\ line \in Seq(Chars) /\ typed' \in Seq(Chars)
  BY <1>1, AppendProperties DEF CommandInv
<1>3. Received' = Append(line, char)
  BY <1>1, <1>2, ReceivedIsNext
<1>4. Prompted => Catches'
  <2> SUFFICES ASSUME Prompted PROVE Catches'
    OBVIOUS
  <2>1. typed' = Append(typed, char) /\ Catches
    BY <1>1 DEF CommandInv
  <2>2. CASE todo = <<Nul>>
    <3>1. line = <<>>
      <4>1. <<Nul>> # <<>>
        OBVIOUS
      <4>2. QED
        BY <2>2, <4>1 DEF CommandInv
    <3>2. QED
      BY <1>1, <1>3, <2>1, <2>2, <3>1 DEF Catches
  <2>3. CASE todo = <<>>
    <3>1. Received = line
      BY <1>1, <2>3, ReceivedIs
    <3>2. CASE line = typed
      BY <1>3, <2>1, <3>2 DEF Catches
    <3>3. CASE ahead /\ line # <<>> /\ Tail(line) = typed
      <4>1. Tail(Append(line, char)) = Append(Tail(line), char) /\ Append(line, char) # <<>>
        BY <1>2, <3>3, HeadTailAppend, AppendProperties
      <4>2. QED
        BY <1>1, <1>3, <2>1, <3>3, <4>1 DEF Catches
    <3>4. QED
      BY <2>1, <3>1, <3>2, <3>3 DEF Catches
  <2>4. QED
    BY <2>2, <2>3 DEF Prompted
<1>5. Prompted' <=> Prompted
  BY <1>1 DEF Prompted
<1>6. QED
  BY <1>1, <1>2, <1>4, <1>5 DEF CommandInv

LEMMA NextPreserves == CommandInv /\ [Next]_vars => CommandInv'
<1> SUFFICES ASSUME CommandInv, [Next]_vars PROVE CommandInv'
  OBVIOUS
<1>1. CASE UNCHANGED vars
  <2>1. UNCHANGED <<todo, line, typed, rdr, rxne, ahead>>
    BY <1>1 DEF vars
  <2>2. QED
    BY <2>1 DEF CommandInv, Catches, Prompted, Received
<1>2. CASE \E char \in Chars : Types(char)
  BY <1>2, TypeInvariance
<1>3. QED
  BY <1>1, <1>2, PrintInv, ReadInv DEF Next

-----------------------------------------------------------------------------
(* What is obeyed. *)

\* The whole line but for its newline, if it has one, is what was typed.
LEMMA LineIsTyped ==
  ASSUME CommandInv, Reads, ~ahead
  PROVE  /\ EndsLine(rdr) => TypedLine = line
         /\ ~EndsLine(rdr) => TypedLine = Append(line, rdr)
<1>1. todo = <<>> /\ rxne
  BY DEF Reads, Reading, Link!Takes
<1>2. rdr \in Chars /\ line \in Seq(Chars) /\ Len(line) \in Nat
  BY <1>1, LenProperties DEF CommandInv
<1>3. typed = Append(line, rdr)
  BY <1>1, ReceivedIs DEF CommandInv, Prompted, Catches
<1>4. Len(typed) = Len(line) + 1 /\ typed[Len(line) + 1] = rdr
  BY <1>2, <1>3, AppendProperties
<1>5. Last(typed) = rdr
  BY <1>4 DEF Last
<1>6. Front(typed) = line
  <2>1. typed \in Seq(Chars) /\ \A i \in 1 .. Len(line) : typed[i] = line[i]
    BY <1>2, <1>3, AppendProperties
  <2>2. Front(typed) = SubSeq(typed, 1, Len(line))
    BY <1>2, <1>4 DEF Front
  <2>3. 1 \in 1 .. Len(typed) + 1 /\ Len(line) \in 0 .. Len(typed)
    BY <1>2, <1>4
  <2>4. /\ SubSeq(typed, 1, Len(line)) \in Seq(Chars)
        /\ Len(SubSeq(typed, 1, Len(line))) = IF 1 <= Len(line) THEN Len(line) - 1 + 1 ELSE 0
        /\ \A i \in 1 .. Len(line) - 1 + 1 : SubSeq(typed, 1, Len(line))[i] = typed[1 + i - 1]
    BY <2>1, <2>3, SubSeqProperties
  <2>5. Len(SubSeq(typed, 1, Len(line))) = Len(line)
    BY <1>2, <2>4
  <2>6. \A i \in 1 .. Len(line) : SubSeq(typed, 1, Len(line))[i] = line[i]
    BY <1>2, <2>1, <2>4
  <2>7. QED
    BY <1>2, <2>2, <2>4, <2>5, <2>6, SeqEqual
<1>7. QED
  BY <1>3, <1>5, <1>6 DEF TypedLine

(* What a step does to the dialogue.                                       *)
ObeyStep ==
  \/ ahead
  \/ UNCHANGED consoleVars /\ (Reading => Reading')
  \/ \E tail \in StackTails \union {<<>>} :
       Obeys(TypedLine \o tail) /\ (tail # <<>> => Len(TypedLine) = LineLength)

LEMMA StepsObey == CommandInv /\ [Next]_vars => ObeyStep \/ UNCHANGED vars
<1> SUFFICES ASSUME CommandInv, Next PROVE ObeyStep
  OBVIOUS
<1>1. CASE Prints
  BY <1>1 DEF Prints, ObeyStep, Reading
<1>2. CASE \E char \in Chars : Types(char)
  BY <1>2 DEF Types, ObeyStep, Reading
<1>3. CASE Reads
  <2> SUFFICES ASSUME ~ahead PROVE ObeyStep
    BY DEF ObeyStep
  <2>1. /\ line \in Seq(Chars) /\ rdr \in Chars /\ Len(line) \in Nat
        /\ Append(line, rdr) \in Seq(Chars) /\ Len(Append(line, rdr)) = Len(line) + 1
    BY <1>3, LenProperties, AppendProperties DEF CommandInv, Reads, Link!Takes
  <2>2. CASE EndsLine(rdr) /\ Answer(Ended(line, rdr))
    <3>1. TypedLine = line /\ Obeys(line)
      BY <1>3, <2>2, LineIsTyped DEF Answer, Ended
    <3>2. TypedLine \o <<>> = line
      BY <2>1, <3>1, ConcatEmptySeq
    <3>3. QED
      BY <3>1, <3>2 DEF ObeyStep
  <2>3. CASE UNCHANGED <<consoleVars, todo>>
    BY <2>3 DEF ObeyStep, Reading
  <2>4. CASE /\ ~EndsLine(rdr) /\ Len(line) = LineLength - 1
             /\ \E tail \in StackTails : Answer(Append(line, rdr) \o tail)
    <3>1. PICK tail \in StackTails : Answer(Append(line, rdr) \o tail)
      BY <2>4
    <3>2. TypedLine = Append(line, rdr)
      BY <1>3, <2>4, LineIsTyped
    <3>3. Obeys(TypedLine \o tail)
      BY <3>1, <3>2 DEF Answer
    <3>4. Len(TypedLine) = LineLength
      BY <2>1, <2>4, <3>2, LineAssumption
    <3>5. QED
      BY <3>3, <3>4 DEF ObeyStep
  <2>5. QED
    BY <1>3, <2>2, <2>3, <2>4 DEF Reads
<1>4. QED
  BY <1>1, <1>2, <1>3 DEF Next

(* A peer that waits for its prompt loses no character, one that types     *)
(* ahead keeps the last it typed before the prompt; nothing is swapped.    *)
THEOREM LineIsAsTyped == Spec => []LineAsTyped
<1>1. CommandInv => LineAsTyped
  BY DEF CommandInv, Catches, LineAsTyped, Reading, Prompted
<1>2. QED
  BY InitEstablishes, NextPreserves, <1>1, PTL DEF Spec

(* Each line a peer types that waits is obeyed whole, as the answer to the *)
(* question it was asked, and nothing else is obeyed.                      *)
THEOREM TypedLinesAreObeyed == Spec => ObeysTypedLines
<1>1. CommandInv /\ [Next]_vars =>
        [ ahead \/ (UNCHANGED consoleVars /\ (Reading => Reading'))
               \/ \E tail \in StackTails \union {<<>>} :
                    /\ Obeys(TypedLine \o tail)
                    /\ tail # <<>> => Len(TypedLine) = LineLength ]_vars
  BY StepsObey DEF ObeyStep
<1>2. QED
  BY InitEstablishes, NextPreserves, <1>1, PTL DEF Spec, ObeysTypedLines

-----------------------------------------------------------------------------
(* Every line is answered. *)

\* No answer has more texts, and pieces of work between them, than this.
MostTexts == 9 + 2 * Cols

\* A peer that waits has ended a line, and has seen no prompt since.
LineOwed == ~ahead /\ "\n" \in ToSet(typed)

\* The steps of the software to the next prompt.
StepsToPrompt == IF Prompted THEN MostTexts + 1 + Len(todo) ELSE Len(todo)

\* Whatever step is made while a line is owed an answer is one of those.
AnswerNears ==
  LineOwed => \/ LineOwed' /\ StepsToPrompt' < StepsToPrompt
              \/ ~LineOwed' /\ typed' = <<>> /\ Prompted'

\* The software waits for nobody meanwhile: the newline has come.
OwesSoon ==
  LineOwed => StepsToPrompt \in 1 .. MostTexts + 2 /\ (Reading => rxne)

OwedInv == Len(todo) <= MostTexts /\ "\n" \notin ToSet(line)

Long(s, n) == s \in Seq(Texts) /\ Len(s) = n

LEMMA JoinedLong ==
  ASSUME NEW s, NEW t, NEW m \in Nat, NEW n \in Nat, NEW k, k = m + n, Long(s, m), Long(t, n)
  PROVE  Long(s \o t, k)
  BY ConcatProperties DEF Long

LEMMA WriteLong ==
  ASSUME NEW text \in Texts
  PROVE  Long(Write(text), 2)
<1>1. Len(Write(text)) = 2
  BY DEF Write
<1>2. QED
  BY <1>1, WriteIsDialogue, IsSequence DEF Long

LEMMA CountersLong == Long(Counters, 2 * Cols)
<1>1. DOMAIN Counters = 1 .. 2 * Cols /\ 2 * Cols \in Nat
  BY LineAssumption DEF Counters
<1>2. Len(Counters) = 2 * Cols
  BY <1>1, CountersAreTexts, LenProperties
<1>3. QED
  BY <1>2, CountersAreTexts DEF Long

LEMMA CommandsAreShort ==
  /\ Len(Help \o Prompt) <= MostTexts /\ Len(Ask("pin")) <= MostTexts
  /\ Len(ReadMatrix \o Prompt) <= MostTexts
  /\ Len(CalibrateMatrix \o Prompt) <= MostTexts
  /\ Len(Write("unrecognized_command") \o Prompt) <= MostTexts
  /\ \A p \in {"pin", "state"} :
       Len(Ask(p)) <= MostTexts /\ Len(Write("incorrect_value") \o Ask(p)) <= MostTexts
  /\ Len(Prompt) <= MostTexts
<1> DEFINE c == 2 * Cols
<1>1. {"prompt", "colon", "help_message", "set_din", "read_counters", "readout_finished",
       "readout_time", "set_dc", "calibrate", "calibration_done", "calibration_time",
       "unrecognized_command", "incorrect_value", "pin", "state"} \subseteq Texts
  BY DEF Texts
<1>2. c \in Nat /\ MostTexts = 9 + c /\ Long(Counters, c)
  BY CountersLong, LineAssumption DEF MostTexts
<1> HIDE DEF c
<1>3. Long(Prompt, 2) /\ Long(Help, 2)
  BY <1>1, WriteLong DEF Prompt, Help
<1>4. \A p \in {"pin", "state"} : Long(Ask(p), 4)
  <2> SUFFICES ASSUME NEW p \in {"pin", "state"} PROVE Long(Ask(p), 4)
    OBVIOUS
  <2>1. Long(Write(p), 2) /\ Long(Write("colon"), 2) /\ 4 = 2 + 2
    BY <1>1, WriteLong
  <2>2. Long(Write(p) \o Write("colon"), 4)
    BY <2>1, JoinedLong
  <2>3. QED
    BY <2>2 DEF Ask
<1>5. Long(ReadMatrix, 6 + c)
  <2>1. Long(<<"set_din", "read_counters">>, 2)
    BY <1>1 DEF Long
  <2>2. Long(Write("readout_finished"), 2) /\ Long(Write("readout_time"), 2)
    BY <1>1, WriteLong
  <2>3. Long(<<"set_din", "read_counters">> \o Write("readout_finished"), 4)
    BY <2>1, <2>2, JoinedLong
  <2>4. Long(<<"set_din", "read_counters">> \o Write("readout_finished")
             \o Write("readout_time"), 6)
    BY <2>2, <2>3, JoinedLong
  <2>5. Long(<<"set_din", "read_counters">> \o Write("readout_finished")
             \o Write("readout_time") \o Counters, 6 + c)
    BY <1>2, <2>4, JoinedLong
  <2>6. QED
    BY <2>5 DEF ReadMatrix
<1>6. Long(CalibrateMatrix, 7)
  <2>1. Long(<<"set_dc", "set_din", "calibrate">>, 3)
    BY <1>1 DEF Long
  <2>2. Long(Write("calibration_done"), 2) /\ Long(Write("calibration_time"), 2)
    BY <1>1, WriteLong
  <2>3. Long(<<"set_dc", "set_din", "calibrate">> \o Write("calibration_done"), 5)
    BY <2>1, <2>2, JoinedLong
  <2>4. Long(<<"set_dc", "set_din", "calibrate">> \o Write("calibration_done")
             \o Write("calibration_time"), 7)
    BY <2>2, <2>3, JoinedLong
  <2>5. QED
    BY <2>4 DEF CalibrateMatrix
<1>7. Long(Write("unrecognized_command"), 2) /\ Long(Write("incorrect_value"), 2)
  BY <1>1, WriteLong
<1>8. Long(Help \o Prompt, 4) /\ Long(Write("unrecognized_command") \o Prompt, 4)
  BY <1>3, <1>7, JoinedLong
<1>9. Long(ReadMatrix \o Prompt, 8 + c)
  <2>1. 6 + c \in Nat /\ 8 + c = (6 + c) + 2
    BY <1>2
  <2>2. QED
    BY <1>3, <1>5, <2>1, JoinedLong
<1>10. Long(CalibrateMatrix \o Prompt, 9)
  BY <1>3, <1>6, JoinedLong
<1>11. \A p \in {"pin", "state"} : Long(Write("incorrect_value") \o Ask(p), 6)
  BY <1>4, <1>7, JoinedLong
<1>12. \A s, n : Long(s, n) => Len(s) = n
  BY DEF Long
<1>13. \A s, n : Long(s, n) /\ n <= MostTexts => Len(s) <= MostTexts
  BY <1>12
<1>14. 2 <= MostTexts /\ 4 <= MostTexts /\ 6 <= MostTexts /\ 8 + c <= MostTexts /\ 9 <= MostTexts
  BY <1>2
<1>15. QED
  BY <1>3, <1>4, <1>8, <1>9, <1>10, <1>11, <1>13, <1>14

LEMMA AnswerIsShort ==
  ASSUME NEW text, Answer(text)
  PROVE  Len(todo') <= MostTexts
<1>1. asks \in {"command", "pin", "state"}
  BY DEF Answer, Obeys, ObeysCommand, TakesPin, TakesState
<1>2. \A command : Len(Run(command)) <= MostTexts
  BY CommandsAreShort DEF Run
<1>3. CASE asks = "command"
  BY <1>2, <1>3 DEF Answer
<1>4. CASE asks = "pin"
  <2>1. todo' = GetInteger("pin", text, Ask("state"))
    BY <1>4 DEF Answer
  <2>2. QED
    BY <2>1, CommandsAreShort DEF GetInteger
<1>5. CASE asks = "state"
  <2>1. todo' = GetInteger("state", text, Prompt)
    BY <1>5 DEF Answer
  <2>2. QED
    BY <2>1, CommandsAreShort DEF GetInteger
<1>6. QED
  BY <1>1, <1>3, <1>4, <1>5

LEMMA AppendedSet ==
  ASSUME NEW S, NEW s \in Seq(S), NEW x \in S
  PROVE  ToSet(Append(s, x)) = ToSet(s) \union {x} /\ ToSet(<<>>) = {}
<1>1. /\ Append(s, x) \in Seq(S) /\ Len(Append(s, x)) = Len(s) + 1
      /\ \A i \in 1 .. Len(s) : Append(s, x)[i] = s[i]
      /\ Append(s, x)[Len(s) + 1] = x
  BY AppendProperties
<1>2. DOMAIN s = 1 .. Len(s) /\ Len(s) \in Nat /\ DOMAIN Append(s, x) = 1 .. Len(s) + 1
  BY <1>1, LenProperties
<1>3. ToSet(Append(s, x)) = {Append(s, x)[i] : i \in 1 .. Len(s) + 1}
  BY <1>2 DEF ToSet
<1>4. ToSet(s) = {s[i] : i \in 1 .. Len(s)}
  BY <1>2 DEF ToSet
<1>5. 1 .. Len(s) + 1 = (1 .. Len(s)) \union {Len(s) + 1}
  BY <1>2
<1>6. ToSet(<<>>) = {}
  BY DEF ToSet
<1>7. QED
  BY <1>1, <1>3, <1>4, <1>5, <1>6

\* At a prompt the newline that is owed an answer is in RDR.
LEMMA NewlineHasCome ==
  ASSUME CommandInv, OwedInv, LineOwed, Prompted
  PROVE  rxne /\ rdr = "\n"
<1>1. Received = typed /\ line \in Seq(Chars) /\ "\n" \notin ToSet(line)
  BY DEF CommandInv, OwedInv, LineOwed, Catches
<1>2. "\n" \in ToSet(Received)
  BY <1>1 DEF LineOwed
<1>3. rxne
  BY <1>1, <1>2, ReceivedIs
<1>4. rdr \in Chars /\ Received = Append(line, rdr)
  BY <1>3, ReceivedIs DEF CommandInv
<1>5. "\n" \in ToSet(line) \union {rdr}
  BY <1>1, <1>2, <1>4, AppendedSet
<1>6. QED
  BY <1>1, <1>3, <1>5

\* What is printed ends in a NUL: before a prompt there are two texts at least.
LEMMA TextsLeft ==
  ASSUME CommandInv
  PROVE  /\ Len(todo) \in Nat
         /\ ~Prompted => Len(todo) >= 2
         /\ todo # <<>> => Len(Tail(todo)) = Len(todo) - 1 /\ Tail(todo) \in Seq(Texts)
         /\ Prompted => Len(todo) <= 1
<1>1. todo \in Seq(Texts) /\ Len(todo) \in Nat
  BY LenProperties DEF CommandInv
<1>2. todo # <<>> => todo[Len(todo)] = Nul /\ Len(todo) # 0
  BY <1>1, EmptySeq DEF CommandInv
<1>3. Len(todo) = 1 => todo = <<Nul>>
  <2> SUFFICES ASSUME Len(todo) = 1 PROVE todo = <<Nul>>
    OBVIOUS
  <2>1. todo # <<>>
    BY EmptySeq
  <2>2. todo[1] = Nul
    BY <1>2, <2>1
  <2>3. QED
    BY <1>1, <2>2, OneText
<1>4. ~Prompted => Len(todo) >= 2
  <2>1. ~Prompted => todo # <<>> /\ todo # <<Nul>>
    BY DEF Prompted
  <2>2. QED
    BY <1>1, <1>2, <1>3, <2>1
<1>5. todo # <<>> => Len(Tail(todo)) = Len(todo) - 1 /\ Tail(todo) \in Seq(Texts)
  BY <1>1, HeadTailProperties
<1>6. Prompted => Len(todo) <= 1
  <2>1. Len(<<>>) = 0 /\ Len(<<Nul>>) = 1
    OBVIOUS
  <2>2. QED
    BY <2>1 DEF Prompted
<1>7. QED
  BY <1>1, <1>4, <1>5, <1>6

LEMMA InitOwedInv == Init => OwedInv
<1> SUFFICES ASSUME Init PROVE OwedInv
  OBVIOUS
<1>1. todo = Prompt /\ line = <<>>
  BY DEF Init
<1>2. ToSet(<<>>) = {}
  BY DEF ToSet
<1>3. QED
  BY <1>1, <1>2, CommandsAreShort DEF OwedInv

LEMMA NextOwedInv == CommandInv /\ OwedInv /\ [Next]_vars => OwedInv'
<1> SUFFICES ASSUME CommandInv, OwedInv, [Next]_vars PROVE OwedInv'
  OBVIOUS
<1>1. ToSet(<<>>) = {} /\ MostTexts \in Nat
  BY LineAssumption DEF ToSet, MostTexts
<1>2. CASE UNCHANGED <<todo, line>>
  BY <1>2 DEF OwedInv
<1>3. CASE Prints
  <2>1. todo # <<>> /\ todo' = Tail(todo) /\ line' = line
    BY <1>3 DEF Prints
  <2>2. QED
    BY <1>1, <2>1, TextsLeft DEF OwedInv
<1>4. CASE Reads
  <2>1. todo = <<>> /\ rdr \in Chars /\ line \in Seq(Chars)
    BY <1>4 DEF Reads, Reading, Link!Takes, CommandInv
  <2>2. ASSUME NEW text, Answer(text), line' = <<>> PROVE OwedInv'
    BY <1>1, <2>2, AnswerIsShort DEF OwedInv
  <2>3. ASSUME ~EndsLine(rdr), line' = Append(line, rdr), UNCHANGED todo PROVE OwedInv'
    BY <2>1, <2>3, AppendedSet DEF OwedInv, EndsLine
  <2>4. QED
    BY <1>4, <2>2, <2>3 DEF Reads
<1>5. CASE \E char \in Chars : Types(char)
  BY <1>2, <1>5 DEF Types
<1>6. CASE UNCHANGED vars
  BY <1>2, <1>6 DEF vars
<1>7. QED
  BY <1>3, <1>4, <1>5, <1>6 DEF Next

LEMMA NextAnswerNears ==
  ASSUME CommandInv, OwedInv, CommandInv', OwedInv', Next
  PROVE  AnswerNears
<1> SUFFICES ASSUME LineOwed
             PROVE  \/ LineOwed' /\ StepsToPrompt' < StepsToPrompt
                    \/ ~LineOwed' /\ typed' = <<>> /\ Prompted'
  BY DEF AnswerNears
<1>1. MostTexts \in Nat /\ Len(todo) \in Nat /\ Len(todo) <= MostTexts
  BY TextsLeft, LineAssumption DEF MostTexts, OwedInv
<1>2. ToSet(<<>>) = {}
  BY DEF ToSet
<1>3. CASE Prints
  <2>1. todo # <<>> /\ todo' = Tail(todo) /\ UNCHANGED <<rxne, rdr, line, ahead>>
        /\ typed' = IF todo' = <<Nul>> THEN <<>> ELSE typed
    BY <1>3 DEF Prints
  <2>2. Len(todo') = Len(todo) - 1
    BY <2>1, TextsLeft
  <2>3. CASE todo' = <<Nul>>
    BY <1>2, <2>1, <2>3 DEF LineOwed, Prompted
  <2>4. CASE todo' # <<Nul>>
    <3>1. LineOwed'
      BY <2>1, <2>4 DEF LineOwed
    <3>2. CASE Prompted
      <4>1. Len(todo) <= 1
        BY <3>2, TextsLeft
      <4>2. Len(todo') = 0
        BY <1>1, <2>1, <2>2, <4>1, EmptySeq DEF CommandInv
      <4>3. todo' = <<>>
        BY <4>2, EmptySeq DEF CommandInv
      <4>4. Prompted'
        BY <4>3 DEF Prompted
      <4>5. StepsToPrompt' = MostTexts + 1 + Len(todo') /\ StepsToPrompt = MostTexts + 1 + Len(todo)
        BY <3>2, <4>4 DEF StepsToPrompt, MostTexts
      <4>6. QED
        BY <1>1, <2>2, <3>1, <4>5
    <3>3. CASE ~Prompted
      <4>1. Len(todo) >= 2
        BY <3>3, TextsLeft
      <4>2. todo' # <<>>
        BY <1>1, <2>2, <4>1, EmptySeq
      <4>3. ~Prompted'
        BY <2>4, <4>2 DEF Prompted
      <4>4. StepsToPrompt' = Len(todo') /\ StepsToPrompt = Len(todo)
        BY <3>3, <4>3 DEF StepsToPrompt
      <4>5. QED
        BY <1>1, <2>2, <3>1, <4>4
    <3>4. QED
      BY <3>2, <3>3
  <2>5. QED
    BY <2>3, <2>4
<1>4. CASE Reads
  <2>1. todo = <<>> /\ Prompted /\ UNCHANGED <<typed, ahead>>
    BY <1>4 DEF Reads, Reading, Prompted
  <2>2. EndsLine(rdr)
    BY <2>1, NewlineHasCome DEF EndsLine
  <2>3. Answer(Ended(line, rdr))
    BY <1>4, <2>2 DEF Reads
  <2>4. Len(todo') <= MostTexts /\ Len(todo') >= 2
    BY <2>3, AnswerIsShort, AnswerIsDialogue DEF Dialogue
  <2>5. ~Prompted'
    <3>1. Len(<<>>) = 0 /\ Len(<<Nul>>) = 1
      OBVIOUS
    <3>2. todo' # <<>> /\ todo' # <<Nul>>
      BY <2>4, <3>1
    <3>3. QED
      BY <3>2 DEF Prompted
  <2>6. LineOwed'
    BY <2>1 DEF LineOwed
  <2>7. StepsToPrompt' = Len(todo') /\ StepsToPrompt = MostTexts + 1 + Len(todo)
    BY <2>1, <2>5 DEF StepsToPrompt
  <2>8. Len(todo') \in Nat
    BY LenProperties DEF CommandInv
  <2>9. QED
    BY <1>1, <2>4, <2>6, <2>7, <2>8
<1>5. CASE \E char \in Chars : Types(char)
  BY <1>5 DEF Types, LineOwed
<1>6. QED
  BY <1>3, <1>4, <1>5 DEF Next

LEMMA OwedIsSoon == CommandInv /\ OwedInv => OwesSoon
<1> SUFFICES ASSUME CommandInv, OwedInv, LineOwed
             PROVE  StepsToPrompt \in 1 .. MostTexts + 2 /\ (Reading => rxne)
  BY DEF OwesSoon
<1>1. MostTexts \in Nat /\ Len(todo) \in Nat /\ Len(todo) <= MostTexts
      /\ (Prompted => Len(todo) <= 1) /\ (~Prompted => Len(todo) >= 2)
  BY TextsLeft, LineAssumption DEF MostTexts, OwedInv
<1>2. StepsToPrompt \in 1 .. MostTexts + 2
  BY <1>1 DEF StepsToPrompt
<1>3. Reading => rxne
  BY NewlineHasCome DEF Reading, Prompted
<1>4. QED
  BY <1>2, <1>3

(* A line that a peer ends that waits for its prompt is answered with      *)
(* another prompt, whether it was understood or not: the next step is      *)
(* always the software's, and each one takes it nearer to the prompt, of   *)
(* which no answer is further away than nine texts and two for each        *)
(* column.  It is EveryLineAnswered without the fairness of the software.  *)
THEOREM LinesAreAnswered == Spec => []OwesSoon /\ [][AnswerNears]_vars
<1>1. CommandInv /\ OwedInv /\ CommandInv' /\ OwedInv' /\ [Next]_vars => [AnswerNears]_vars
  BY NextAnswerNears
<1>2. QED
  BY <1>1, InitEstablishes, NextPreserves, InitOwedInv, NextOwedInv, OwedIsSoon, PTL DEF Spec

=============================================================================

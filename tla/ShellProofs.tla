----------------------------- MODULE ShellProofs -----------------------------
(***************************************************************************)
(* For buffers of any size, any alphabet and any command words: the shell  *)
(* never reads outside ex_buffer and never acts on a line twice, however   *)
(* keyboard interrupts fall between its reads.                             *)
(***************************************************************************)
EXTENDS Shell, SequenceTheorems, TLAPS

ShellInv == TypeOK /\ ReadsStayInBuffer /\ NoPhantomCommand

USE ShellAssumption

\* The initial state satisfies the invariant.
LEMMA InitInv == Init => ShellInv
<1> SUFFICES ASSUME Init PROVE ShellInv
  OBVIOUS
<1>1. TypeOK
  <2>1. Len(<<>>) = 0 /\ <<>> \in Seq(Char)
    OBVIOUS
  <2>2. ex_buffer \in [Cells -> Char \cup {NUL}]
    BY DEF Init
  <2>3. input \in Seq(Char) /\ Len(input) < BufSize /\ line \in Seq(Char)
    BY <2>1 DEF Init
  <2> QED
    BY <2>2, <2>3 DEF Init, TypeOK, PC
<1>2. ReadsStayInBuffer
  BY DEF Init, ReadsStayInBuffer, Cells, FromStart, FromSuffix
<1>3. NoPhantomCommand
  BY DEF Init, NoPhantomCommand, Deciding
<1> QED
  BY <1>1, <1>2, <1>3 DEF ShellInv

\* A key press preserves it: the line that Enter copies is shorter than the
\* buffer, so the last cell keeps its NUL.
LEMMA KeyInv == ShellInv /\ int21h_handler => ShellInv'
<1> SUFFICES ASSUME ShellInv, int21h_handler PROVE ShellInv'
  OBVIOUS
<1> USE DEF ShellInv
<1>1. CASE Backspace
  <2>1. input' \in Seq(Char) /\ Len(input') < BufSize
    BY <1>1 DEF Backspace, TypeOK
  <2>2. TypeOK'
    BY <1>1, <2>1 DEF Backspace, TypeOK, shell
  <2>3. ReadsStayInBuffer' /\ NoPhantomCommand'
    BY <1>1 DEF Backspace, ReadsStayInBuffer, NoPhantomCommand, shell
  <2> QED
    BY <2>2, <2>3
<1>2. CASE Enter
  <2>1. \A i \in Cells : i < Len(input) => input[i + 1] \in Char
    BY DEF TypeOK, Cells
  <2>2. ex_buffer' \in [Cells -> Char \cup {NUL}]
    BY <1>2, <2>1 DEF Enter, SetExecBuffer, strcpy, TypeOK
  <2>3. TypeOK'
    BY <1>2, <2>2 DEF Enter, SetExecBuffer, TypeOK, shell
  <2>4. ex_buffer'[BufSize - 1] = NUL
    BY <1>2 DEF Enter, SetExecBuffer, strcpy, TypeOK, Cells, ReadsStayInBuffer
  <2>5. ReadsStayInBuffer'
    BY <1>2, <2>4 DEF Enter, ReadsStayInBuffer, shell
  <2>6. NoPhantomCommand'
    BY <1>2 DEF Enter, NoPhantomCommand, shell
  <2> QED
    BY <2>3, <2>5, <2>6
<1>3. ASSUME NEW c \in Char, Type(c) PROVE ShellInv'
  <2>1. input' \in Seq(Char) /\ Len(input') < BufSize
    BY <1>3 DEF Type, TypeOK
  <2>2. TypeOK'
    BY <1>3, <2>1 DEF Type, TypeOK, shell
  <2>3. ReadsStayInBuffer' /\ NoPhantomCommand'
    BY <1>3 DEF Type, ReadsStayInBuffer, NoPhantomCommand, shell
  <2> QED
    BY <2>2, <2>3
<1> QED
  BY <1>1, <1>2, <1>3 DEF int21h_handler

\* So does every step of the loop and of IsBatFile.
LEMMA IsBatFileInv ==
  ShellInv /\ (Poll \/ Strlen \/ IsBatFile \/ IsBatFileResult) => ShellInv'
<1> SUFFICES ASSUME ShellInv, Poll \/ Strlen \/ IsBatFile \/ IsBatFileResult PROVE ShellInv'
  OBVIOUS
<1> USE DEF ShellInv, Goto, kbd, Cells, FromStart, FromSuffix, Deciding
<1>1. CASE Poll
  <2>1. TypeOK'
    BY <1>1 DEF Poll, TypeOK, PC
  <2> QED
    BY <1>1, <2>1 DEF Poll, ReadsStayInBuffer, NoPhantomCommand
<1>2. CASE Strlen
  <2>1. Len(BatSuffix) \in Nat
    OBVIOUS
  <2>4. NoPhantomCommand'
    BY <1>2 DEF Strlen, NoPhantomCommand
  <2>2. CASE ex_buffer[k] # NUL
    <3>1. pc = "strlen" /\ pc' = pc /\ k' = k + 1 /\ UNCHANGED <<input, line, early, ex_buffer, exec, len, isBat, fresh>>
      BY <1>2, <2>2 DEF Strlen
    <3>2. TypeOK'
      BY <3>1 DEF TypeOK
    <3>3. k \in Cells /\ k # BufSize - 1
      BY <3>1, <2>2 DEF ReadsStayInBuffer
    <3>4. k' \in Cells
      BY <3>1, <3>3
    <3>5. ReadsStayInBuffer'
      BY <3>1, <3>4 DEF ReadsStayInBuffer
    <3> QED
      BY <2>4, <3>2, <3>5
  <2>3. CASE ex_buffer[k] = NUL
    <3>1. /\ pc = "strlen" /\ k' = 0
          /\ \/ pc' = "cls" /\ len' = len
             \/ pc' = "suffix" /\ len' = k /\ ~(k < Len(BatSuffix))
          /\ UNCHANGED <<input, line, early, ex_buffer, exec, isBat, fresh>>
      BY <1>2, <2>3 DEF Strlen
    <3>2. TypeOK'
      BY <3>1 DEF TypeOK, PC
    <3>3. ReadsStayInBuffer'
      BY <2>1, <3>1 DEF TypeOK, ReadsStayInBuffer
    <3> QED
      BY <2>4, <3>2, <3>3
  <2> QED
    BY <2>2, <2>3
<1>3. CASE IsBatFile
  <2>2. TypeOK'
    BY <1>3 DEF IsBatFile, strcmp_loop, TypeOK, PC
  <2>3. ReadsStayInBuffer'
    <3> DEFINE at == len - Len(BatSuffix) + k
    <3>1. /\ len \in Nat /\ k \in Nat /\ Len(BatSuffix) \in Nat
          /\ len >= Len(BatSuffix) /\ at \in Cells /\ ex_buffer[BufSize - 1] = NUL
      BY <1>3 DEF IsBatFile, strcmp_loop, TypeOK, ReadsStayInBuffer
    <3>2. /\ UNCHANGED <<ex_buffer, len>>
          /\ pc' \in {"suffix", "suffix_ret"}
          /\ k' = k \/ (ex_buffer[at] # NUL /\ k' = k + 1)
      BY <1>3 DEF IsBatFile, strcmp_loop
    <3>3. CASE k' = k
      BY <3>1, <3>2, <3>3 DEF ReadsStayInBuffer
    <3>4. CASE ex_buffer[at] # NUL /\ k' = k + 1
      <4>1. at # BufSize - 1
        BY <3>1, <3>4
      <4>2. at + 1 \in Cells
        <5> HIDE DEF at
        <5> QED
          BY <3>1, <4>1
      <4>3. len - Len(BatSuffix) + k' \in Cells
        BY <3>1, <3>4, <4>2
      <4> QED
        BY <3>1, <3>2, <4>3 DEF ReadsStayInBuffer
    <3> QED
      BY <3>2, <3>3, <3>4
  <2>4. NoPhantomCommand'
    BY <1>3 DEF IsBatFile, strcmp_loop, NoPhantomCommand
  <2> QED
    BY <2>2, <2>3, <2>4
<1>4. CASE IsBatFileResult
  <2>1. TypeOK'
    BY <1>4 DEF IsBatFileResult, strcmp_equal, TypeOK, PC
  <2> QED
    BY <1>4, <2>1 DEF IsBatFileResult, ReadsStayInBuffer, NoPhantomCommand
<1> QED
  BY <1>1, <1>2, <1>3, <1>4

\* And every step of NsExec.
LEMMA NsExecInv == ShellInv /\ NsExec => ShellInv'
<1> SUFFICES ASSUME ShellInv, NsExec PROVE ShellInv'
  OBVIOUS
<1> USE DEF ShellInv, Goto, kbd, Cells, FromStart, FromSuffix, Deciding
<1>1. CASE CompareCls
  <2>1. TypeOK'
    BY <1>1 DEF CompareCls, strcmp_loop, TypeOK, PC
  <2>2. ReadsStayInBuffer'
    <3>1. /\ k \in Cells /\ ex_buffer[BufSize - 1] = NUL
          /\ UNCHANGED <<ex_buffer, len>>
          /\ pc' \in {"cls", "cls_ret"}
          /\ k' = k \/ (ex_buffer[0 + k] # NUL /\ k' = k + 1)
      BY <1>1 DEF CompareCls, strcmp_loop, ReadsStayInBuffer
    <3>2. k' \in Cells
      BY <3>1
    <3> QED
      BY <3>1, <3>2 DEF ReadsStayInBuffer
  <2>3. NoPhantomCommand'
    BY <1>1 DEF CompareCls, strcmp_loop, NoPhantomCommand
  <2> QED
    BY <2>1, <2>2, <2>3
<1>2. CASE CommandCls
  <2>1. TypeOK'
    BY <1>2 DEF CommandCls, TypeOK, PC
  <2>2. ReadsStayInBuffer'
    BY <1>2 DEF CommandCls, TypeOK, ReadsStayInBuffer
  <2>3. NoPhantomCommand'
    BY <1>2 DEF CommandCls, NoPhantomCommand
  <2> QED
    BY <2>1, <2>2, <2>3
<1>3. CASE CompareHelp
  <2>1. TypeOK'
    BY <1>3 DEF CompareHelp, strcmp_loop, TypeOK, PC
  <2>2. ReadsStayInBuffer'
    <3>1. /\ k \in Cells /\ ex_buffer[BufSize - 1] = NUL
          /\ UNCHANGED <<ex_buffer, len>>
          /\ pc' \in {"help", "help_ret"}
          /\ k' = k \/ (ex_buffer[0 + k] # NUL /\ k' = k + 1)
      BY <1>3 DEF CompareHelp, strcmp_loop, ReadsStayInBuffer
    <3>2. k' \in Cells
      BY <3>1
    <3> QED
      BY <3>1, <3>2 DEF ReadsStayInBuffer
  <2>3. NoPhantomCommand'
    BY <1>3 DEF CompareHelp, strcmp_loop, NoPhantomCommand
  <2> QED
    BY <2>1, <2>2, <2>3
<1>4. CASE CommandHelp
  <2>1. TypeOK'
    BY <1>4 DEF CommandHelp, TypeOK, PC
  <2>2. ReadsStayInBuffer'
    BY <1>4 DEF CommandHelp, TypeOK, ReadsStayInBuffer
  <2>3. NoPhantomCommand'
    BY <1>4 DEF CommandHelp, NoPhantomCommand
  <2> QED
    BY <2>1, <2>2, <2>3
<1>5. CASE First
  BY <1>5 DEF First, TypeOK, PC, ReadsStayInBuffer, NoPhantomCommand
<1>6. CASE Empty
  BY <1>6 DEF Empty, TypeOK, PC, ReadsStayInBuffer, NoPhantomCommand
<1>7. CASE Syscall
  <2>1. CASE LdrLoadPe
    BY <1>7, <2>1 DEF Syscall, LdrLoadPe, TypeOK, PC, ReadsStayInBuffer, NoPhantomCommand
  <2>2. CASE LdrExecBat
    BY <1>7, <2>2 DEF Syscall, LdrExecBat, TypeOK, PC, ReadsStayInBuffer, NoPhantomCommand
  <2> QED
    BY <1>7, <2>1, <2>2 DEF Syscall
<1>8. CASE ProgramReturns \/ ProgramHalts \/ Report
  BY <1>8 DEF ProgramReturns, ProgramHalts, Report, TypeOK, PC, ReadsStayInBuffer, NoPhantomCommand
<1>9. CASE ClearExec
  BY <1>9 DEF ClearExec, TypeOK, PC, ReadsStayInBuffer, NoPhantomCommand
<1>10. CASE Prompt
  BY <1>10 DEF Prompt, TypeOK, PC, ReadsStayInBuffer, NoPhantomCommand
<1> QED
  BY <1>1, <1>2, <1>3, <1>4, <1>5, <1>6, <1>7, <1>8, <1>9, <1>10 DEF NsExec

\* Every step preserves the invariant.
LEMMA StepInv == ShellInv /\ [Next]_vars => ShellInv'
<1>1. ShellInv /\ UNCHANGED vars => ShellInv'
  BY DEF ShellInv, vars, TypeOK, ReadsStayInBuffer, NoPhantomCommand
<1> QED
  BY <1>1, KeyInv, IsBatFileInv, NsExecInv DEF Next, KiUserInit

\* The invariant holds throughout.
LEMMA Invariance == Spec => []ShellInv
BY InitInv, StepInv, PTL DEF Spec

\* The shell's variables keep their types: the input never fills its buffer.
THEOREM ShellTypeOK == Spec => []TypeOK
<1>1. ShellInv => TypeOK
  BY DEF ShellInv
<1> QED
  BY <1>1, Invariance, PTL

\* strlen and strcmp never read outside ex_buffer, whatever lines arrive
\* between two of their reads.
THEOREM ReadsInBuffer == Spec => []ReadsStayInBuffer
<1>1. ShellInv => ReadsStayInBuffer
  BY DEF ShellInv
<1> QED
  BY <1>1, Invariance, PTL

\* No line is acted on twice and none is acted on that was not submitted.
THEOREM NoPhantom == Spec => []NoPhantomCommand
<1>1. ShellInv => NoPhantomCommand
  BY DEF ShellInv
<1> QED
  BY <1>1, Invariance, PTL

-----------------------------------------------------------------------------
(* What the shell does with a line *)

\* ex_buffer holds the line submitted last.
HoldsLine == /\ Len(line) < BufSize
             /\ \A i \in Cells : i < Len(line) => ex_buffer[i] = line[i + 1]
             /\ ex_buffer[Len(line)] = NUL

\* The first n characters of s are those of the line from base on.
Matched(base, s, n) == /\ n <= Len(s) /\ base + n <= Len(line)
                       /\ \A i \in 1 .. n : line[base + i] = s[i]

\* strcmp's loop has come to character k; it has left the loop there.
Comparing(base, s) == base \in Nat /\ Matched(base, s, k)
Compared(base, s)  == /\ Comparing(base, s)
                      /\ Literal(s, k) = NUL \/ ex_buffer[base + k] # Literal(s, k)

Suffix == len - Len(BatSuffix)

\* How far a line submitted at the prompt, and not replaced since, is understood.
Understood ==
  /\ pc = "strlen" => k <= Len(line)
  /\ pc \in FromSuffix => len = Len(line) /\ Comparing(Suffix, BatSuffix)
  /\ pc = "suffix_ret" => Compared(Suffix, BatSuffix)
  /\ pc \in {"cls", "cls_ret"} => Comparing(0, Cls)
  /\ pc = "cls_ret" => Compared(0, Cls)
  /\ pc \in {"help", "help_ret"} => Comparing(0, Help)
  /\ pc = "help_ret" => Compared(0, Help)
  /\ pc \in {"cls", "cls_ret", "help", "help_ret", "first", "empty", "syscall"} => (isBat <=> IsBatLine)
  /\ pc \in {"help", "help_ret", "first", "empty", "syscall"} => line # Cls
  /\ pc \in {"first", "empty", "syscall"} => line # Help
  /\ pc = "syscall" => line # <<>>

LineInv == /\ HoldsLine
           /\ pc \in {"poll", "strlen", "suffix", "suffix_ret"} => isBat = FALSE
           /\ ~early => Understood

\* The k-th character of a literal is none of the NULs but at its end.
LEMMA LiteralChars ==
  ASSUME NEW s \in Seq(Letters), NEW i \in Nat, i <= Len(s)
  PROVE  /\ Literal(s, i) = NUL <=> i = Len(s)
         /\ i < Len(s) => Literal(s, i) = s[i + 1]
BY DEF Literal

\* The characters of the line that lie in ex_buffer.
LEMMA LineChars ==
  ASSUME TypeOK, HoldsLine, NEW i \in Nat, i <= Len(line)
  PROVE  /\ ex_buffer[i] = NUL <=> i = Len(line)
         /\ i < Len(line) => ex_buffer[i] = line[i + 1]
<1>1. Len(line) \in Nat /\ Len(line) < BufSize /\ ex_buffer[Len(line)] = NUL
  BY DEF TypeOK, HoldsLine
<1>2. ASSUME i < Len(line) PROVE ex_buffer[i] = line[i + 1] /\ line[i + 1] # NUL
  <2>1. i \in Cells
    BY <1>1, <1>2 DEF Cells
  <2>2. line[i + 1] \in Char
    BY <1>1, <1>2 DEF TypeOK
  <2>3. line[i + 1] # NUL
    BY <2>2 DEF Char, NUL, BS
  <2> QED
    BY <1>2, <2>1, <2>3 DEF HoldsLine
<1> QED
  BY <1>1, <1>2

\* strcmp's loop goes on with one more character matched.
LEMMA OneMore ==
  ASSUME TypeOK, HoldsLine, NEW s \in Seq(Letters), NEW base, Comparing(base, s),
         Literal(s, k) # NUL, ex_buffer[base + k] = Literal(s, k)
  PROVE  Matched(base, s, k + 1)
<1>1. /\ k \in Nat /\ base \in Nat /\ k <= Len(s) /\ base + k <= Len(line) /\ Len(line) \in Nat
      /\ Len(s) \in Nat
      /\ \A i \in 1 .. k : line[base + i] = s[i]
  BY DEF TypeOK, Comparing, Matched
<1>2. k < Len(s) /\ Literal(s, k) = s[k + 1]
  BY <1>1, LiteralChars
<1>3. base + k < Len(line) /\ ex_buffer[base + k] = line[base + k + 1]
  BY <1>1, LineChars
<1>4. line[base + (k + 1)] = s[k + 1]
  BY <1>1, <1>2, <1>3
<1>5. \A i \in 1 .. k + 1 : i \in 1 .. k \/ i = k + 1
  BY <1>1
<1> QED
  BY <1>1, <1>2, <1>3, <1>4, <1>5 DEF Matched

\* What strcmp returns: equality with the rest of the line.
LEMMA Equality ==
  ASSUME TypeOK, HoldsLine, NEW s \in Seq(Letters), NEW base, Compared(base, s)
  PROVE  strcmp_equal(base, s) <=>
            Len(line) = base + Len(s) /\ \A i \in 1 .. Len(s) : line[base + i] = s[i]
<1>1. /\ k \in Nat /\ base \in Nat /\ k <= Len(s) /\ base + k <= Len(line) /\ Len(line) \in Nat
      /\ Len(s) \in Nat
      /\ \A i \in 1 .. k : line[base + i] = s[i]
      /\ Literal(s, k) = NUL \/ ex_buffer[base + k] # Literal(s, k)
  BY DEF TypeOK, Compared, Comparing, Matched
<1>2. /\ ex_buffer[base + k] = NUL <=> base + k = Len(line)
      /\ base + k < Len(line) => ex_buffer[base + k] = line[base + k + 1]
  BY <1>1, LineChars
<1>3. CASE k = Len(s)
  <2>1. Literal(s, k) = NUL
    BY <1>1, <1>3, LiteralChars
  <2> QED
    BY <1>1, <1>2, <1>3, <2>1 DEF strcmp_equal
<1>4. CASE k < Len(s)
  <2>1. Literal(s, k) # NUL /\ Literal(s, k) = s[k + 1]
    BY <1>1, <1>4, LiteralChars
  <2>2. ~strcmp_equal(base, s)
    BY <1>1, <2>1 DEF strcmp_equal
  <2>3. ASSUME Len(line) = base + Len(s), line[base + (k + 1)] = s[k + 1] PROVE FALSE
    BY <1>1, <1>2, <1>4, <2>1, <2>3
  <2>4. k + 1 \in 1 .. Len(s)
    BY <1>1, <1>4
  <2> QED
    BY <2>2, <2>3, <2>4
<1> QED
  BY <1>1, <1>3, <1>4

\* The same for a comparison with the whole line,
LEMMA WholeLine ==
  ASSUME TypeOK, HoldsLine, NEW s \in Seq(Letters), Compared(0, s)
  PROVE  strcmp_equal(0, s) <=> line = s
<1>1. line \in Seq(Char) /\ s \in Seq(Char)
  BY DEF TypeOK, Char
<1>2. strcmp_equal(0, s) <=>
         Len(line) = 0 + Len(s) /\ \A i \in 1 .. Len(s) : line[0 + i] = s[i]
  BY Equality
<1>3. (Len(line) = Len(s) /\ \A i \in 1 .. Len(s) : line[i] = s[i]) => line = s
  BY <1>1, SeqEqual
<1>4. Len(s) \in Nat
  BY <1>1
<1> QED
  BY <1>2, <1>3, <1>4

\* and for IsBatFile's comparison with its end.
LEMMA EndOfLine ==
  ASSUME TypeOK, HoldsLine, len = Len(line), Compared(Suffix, BatSuffix)
  PROVE  strcmp_equal(Suffix, BatSuffix) <=> IsBatLine
<1> DEFINE tail == SubSeq(line, Len(line) - Len(BatSuffix) + 1, Len(line))
<1>1. /\ line \in Seq(Char) /\ BatSuffix \in Seq(Char) /\ Len(line) \in Nat /\ Len(BatSuffix) \in Nat
      /\ Len(line) >= Len(BatSuffix) /\ Suffix = Len(line) - Len(BatSuffix)
  BY DEF TypeOK, Char, Compared, Comparing, Suffix
<1>2. strcmp_equal(Suffix, BatSuffix) <=>
         Len(line) = Suffix + Len(BatSuffix)
         /\ \A i \in 1 .. Len(BatSuffix) : line[Suffix + i] = BatSuffix[i]
  BY Equality
<1>3. /\ tail \in Seq(Char) /\ Len(tail) = Len(BatSuffix)
      /\ \A i \in 1 .. Len(BatSuffix) : tail[i] = line[Suffix + i]
  BY <1>1, SubSeqProperties
<1> HIDE DEF tail
<1>4. (\A i \in 1 .. Len(BatSuffix) : tail[i] = BatSuffix[i]) => tail = BatSuffix
  BY <1>1, <1>3, SeqEqual
<1>5. IsBatLine <=> tail = BatSuffix
  BY <1>1 DEF IsBatLine, tail
<1> QED
  BY <1>1, <1>2, <1>3, <1>4, <1>5

\* In the initial state nothing has been submitted.
LEMMA InitLine == Init => LineInv
<1> SUFFICES ASSUME Init PROVE LineInv
  OBVIOUS
<1>1. HoldsLine
  <2>1. Len(line) = 0
    BY DEF Init
  <2> QED
    BY <2>1 DEF Init, HoldsLine, Cells
<1>2. Understood
  BY DEF Init, Understood, FromSuffix
<1> QED
  BY <1>1, <1>2 DEF Init, LineInv

\* A key leaves a line that is being understood alone; Enter replaces it, and
\* while the shell is at work says so in early.
LEMMA KeyLine == ShellInv /\ LineInv /\ int21h_handler => LineInv'
<1> SUFFICES ASSUME ShellInv, LineInv, int21h_handler PROVE LineInv'
  OBVIOUS
<1>1. CASE UNCHANGED <<ex_buffer, exec, shell, line, fresh, early>>
  BY <1>1 DEF LineInv, HoldsLine, Understood, Comparing, Compared, Matched, Suffix, IsBatLine, shell
<1>2. CASE Enter
  <2>1. HoldsLine'
    <3>1. /\ line' = input /\ Len(input) < BufSize /\ Len(input) \in Nat
          /\ ex_buffer' = strcpy(ex_buffer, input)
      BY <1>2 DEF Enter, SetExecBuffer, ShellInv, TypeOK
    <3> QED
      BY <3>1 DEF strcpy, HoldsLine, Cells
  <2>2. ~early' => Understood'
    BY <1>2 DEF Enter, Understood, FromSuffix, shell
  <2> QED
    BY <1>2, <2>1, <2>2 DEF Enter, LineInv, shell
<1> QED
  BY <1>1, <1>2 DEF int21h_handler, Backspace, Type

\* A step of strcmp's loop in the comparison with s from base on.
LEMMA LoopStep ==
  ASSUME TypeOK, HoldsLine, NEW s \in Seq(Letters), NEW base, NEW here, NEW ret,
         here # ret, Comparing(base, s), strcmp_loop(base, s, here, ret)
  PROVE  /\ UNCHANGED <<ex_buffer, line, early, len, isBat>>
         /\ pc = here /\ pc' \in {here, ret}
         /\ base \in Nat /\ Matched(base, s, k)'
         /\ pc' = ret => k' = k /\ Compared(base, s)
<1>1. UNCHANGED <<ex_buffer, line, early, len, isBat>> /\ pc = here
  BY DEF strcmp_loop, kbd
<1>2. CASE Literal(s, k) # NUL /\ ex_buffer[base + k] = Literal(s, k)
  <2>1. k' = k + 1 /\ pc' = here
    BY <1>2 DEF strcmp_loop
  <2>2. Matched(base, s, k + 1)
    BY <1>2, OneMore
  <2> QED
    BY <1>1, <2>1, <2>2 DEF Matched, Comparing
<1>3. CASE ~(Literal(s, k) # NUL /\ ex_buffer[base + k] = Literal(s, k))
  <2>1. k' = k /\ pc' = ret
    BY <1>3 DEF strcmp_loop
  <2> QED
    BY <1>1, <1>3, <2>1 DEF Matched, Comparing, Compared
<1> QED
  BY <1>2, <1>3

\* A comparison begins with nothing matched.
LEMMA Begins ==
  ASSUME TypeOK, NEW s \in Seq(Letters), NEW base \in Nat, base <= Len(line)
  PROVE  Matched(base, s, 0)
BY DEF Matched, TypeOK

\* IsBatFile understands the line,
LEMMA IsBatFileLine ==
  ShellInv /\ LineInv /\ (Poll \/ Strlen \/ IsBatFile \/ IsBatFileResult) => LineInv'
<1> SUFFICES ASSUME ShellInv, LineInv, Poll \/ Strlen \/ IsBatFile \/ IsBatFileResult
             PROVE  LineInv'
  OBVIOUS
<1>1. TypeOK /\ HoldsLine /\ (~early => Understood)
  BY DEF ShellInv, LineInv
<1>2. UNCHANGED <<ex_buffer, line, early>>
  BY DEF Poll, Strlen, IsBatFile, IsBatFileResult, strcmp_loop, kbd
<1>3. HoldsLine'
  BY <1>1, <1>2 DEF HoldsLine
<1>4. (pc \in {"poll", "strlen", "suffix", "suffix_ret"} => isBat = FALSE)'
  BY DEF LineInv, Poll, Strlen, IsBatFile, IsBatFileResult, strcmp_loop, Goto
<1> SUFFICES ASSUME ~early PROVE Understood'
  BY <1>2, <1>3, <1>4 DEF LineInv
<1>5. Len(line) \in Nat /\ Len(BatSuffix) \in Nat /\ k \in Nat
  BY <1>1 DEF TypeOK
<1>6. CASE Poll
  BY <1>2, <1>5, <1>6 DEF Poll, Goto, Understood, FromSuffix
<1>7. CASE Strlen
  <2>1. pc = "strlen" /\ k <= Len(line)
    BY <1>1, <1>7 DEF Strlen, Understood
  <2>2. ex_buffer[k] = NUL <=> k = Len(line)
    BY <1>1, <1>5, <2>1, LineChars
  <2>3. CASE ex_buffer[k] # NUL
    <3>1. k' = k + 1 /\ pc' = "strlen"
      BY <1>7, <2>3 DEF Strlen
    <3> QED
      BY <1>2, <1>5, <2>1, <2>2, <2>3, <3>1 DEF Understood, FromSuffix
  <2>4. CASE ex_buffer[k] = NUL /\ k < Len(BatSuffix)
    <3>1. k' = 0 /\ pc' = "cls" /\ isBat' = isBat /\ isBat = FALSE
      BY <1>7, <2>1, <2>4 DEF Strlen, LineInv
    <3>2. ~IsBatLine'
      BY <1>2, <1>5, <2>2, <2>4 DEF IsBatLine
    <3>3. Comparing(0, Cls)'
      BY <1>1, <1>2, <1>5, <3>1, Begins DEF Comparing, Matched
    <3> QED
      BY <3>1, <3>2, <3>3 DEF Understood, FromSuffix
  <2>5. CASE ex_buffer[k] = NUL /\ ~(k < Len(BatSuffix))
    <3>1. k' = 0 /\ pc' = "suffix" /\ len' = k /\ k = Len(line)
      BY <1>7, <2>2, <2>5 DEF Strlen
    <3>2. k - Len(BatSuffix) \in Nat /\ k - Len(BatSuffix) <= Len(line)
      BY <1>5, <2>1, <2>5
    <3>3. Matched(k - Len(BatSuffix), BatSuffix, 0)
      BY <1>1, <3>2, Begins
    <3>4. Comparing(Suffix, BatSuffix)'
      BY <1>2, <3>1, <3>2, <3>3 DEF Comparing, Matched, Suffix
    <3> QED
      BY <1>2, <3>1, <3>4 DEF Understood, FromSuffix
  <2> QED
    BY <2>3, <2>4, <2>5
<1>8. CASE IsBatFile
  <2>1. pc = "suffix" /\ len = Len(line) /\ Comparing(Suffix, BatSuffix)
    BY <1>1, <1>8 DEF IsBatFile, strcmp_loop, Understood, FromSuffix
  <2>2. PICK base : base = Suffix
    OBVIOUS
  <2>3. strcmp_loop(base, BatSuffix, "suffix", "suffix_ret") /\ Comparing(base, BatSuffix)
    BY <1>8, <2>1, <2>2 DEF IsBatFile, Suffix
  <2>4. /\ UNCHANGED <<ex_buffer, line, early, len, isBat>>
        /\ pc' \in {"suffix", "suffix_ret"}
        /\ base \in Nat /\ Matched(base, BatSuffix, k)'
        /\ pc' = "suffix_ret" => k' = k /\ Compared(base, BatSuffix)
    BY <1>1, <2>3, LoopStep
  <2>5. Suffix' = base
    BY <2>2, <2>4 DEF Suffix
  <2>6. Comparing(Suffix, BatSuffix)'
    BY <2>4, <2>5 DEF Comparing, Matched
  <2>7. (pc = "suffix_ret" => Compared(Suffix, BatSuffix))'
    BY <2>4, <2>5, <2>6 DEF Compared
  <2> QED
    BY <2>1, <2>4, <2>6, <2>7 DEF Understood, FromSuffix
<1>9. CASE IsBatFileResult
  <2>1. pc = "suffix_ret" /\ len = Len(line) /\ Compared(Suffix, BatSuffix)
    BY <1>1, <1>9 DEF IsBatFileResult, Goto, Understood, FromSuffix
  <2>2. strcmp_equal(Suffix, BatSuffix) <=> IsBatLine
    BY <1>1, <2>1, EndOfLine
  <2>3. pc' = "cls" /\ k' = 0 /\ isBat' = strcmp_equal(Suffix, BatSuffix)
    BY <1>9 DEF IsBatFileResult, Goto, Suffix
  <2>4. IsBatLine' <=> IsBatLine
    BY <1>2 DEF IsBatLine
  <2>5. isBat' <=> IsBatLine'
    BY <2>2, <2>3, <2>4
  <2>6. Comparing(0, Cls)'
    BY <1>1, <1>2, <1>5, <2>3, Begins DEF Comparing, Matched
  <2> QED
    BY <2>3, <2>5, <2>6 DEF Understood, FromSuffix
<1> QED
  BY <1>6, <1>7, <1>8, <1>9

\* and NsExec acts on it.
LEMMA NsExecLine == ShellInv /\ LineInv /\ NsExec => LineInv'
<1> SUFFICES ASSUME ShellInv, LineInv, NsExec PROVE LineInv'
  OBVIOUS
<1>1. TypeOK /\ HoldsLine /\ (~early => Understood)
  BY DEF ShellInv, LineInv
<1> DEFINE Later == ProgramReturns \/ ProgramHalts \/ Report \/ ClearExec \/ Prompt
<1>2. UNCHANGED <<ex_buffer, line, early>>
  <2>1. CASE CompareCls \/ CompareHelp
    BY <2>1 DEF CompareCls, CompareHelp, strcmp_loop, kbd
  <2>2. CASE CommandCls \/ CommandHelp \/ First \/ Empty \/ Syscall
    BY <2>2 DEF CommandCls, CommandHelp, First, Empty, Syscall, kbd
  <2>3. CASE Later
    BY <2>3 DEF ProgramReturns, ProgramHalts, Report, ClearExec, Prompt, kbd
  <2> QED
    BY <2>1, <2>2, <2>3 DEF NsExec
<1>3. HoldsLine' /\ (IsBatLine' <=> IsBatLine)
  BY <1>1, <1>2 DEF HoldsLine, IsBatLine
<1>4. (pc \in {"poll", "strlen", "suffix", "suffix_ret"} => isBat = FALSE)'
  <2>1. CASE CompareCls \/ CompareHelp
    BY <2>1 DEF CompareCls, CompareHelp, strcmp_loop
  <2>2. CASE CommandCls \/ CommandHelp \/ First \/ Empty
    BY <2>2 DEF CommandCls, CommandHelp, First, Empty, Goto
  <2>3. CASE Syscall
    BY <2>3 DEF Syscall, LdrLoadPe, LdrExecBat, Goto
  <2>4. CASE Later
    BY <2>4 DEF ProgramReturns, ProgramHalts, Report, ClearExec, Prompt, Goto
  <2> QED
    BY <2>1, <2>2, <2>3, <2>4 DEF NsExec
<1> SUFFICES ASSUME ~early PROVE Understood'
  BY <1>2, <1>3, <1>4 DEF LineInv
<1>5. Len(line) \in Nat
  BY <1>1 DEF TypeOK
<1>6. CASE CompareCls
  <2>1. pc = "cls" /\ Comparing(0, Cls) /\ (isBat <=> IsBatLine)
    BY <1>1, <1>6 DEF CompareCls, strcmp_loop, Understood
  <2>2. /\ UNCHANGED <<ex_buffer, line, early, len, isBat>>
        /\ pc' \in {"cls", "cls_ret"}
        /\ Matched(0, Cls, k)'
        /\ pc' = "cls_ret" => k' = k /\ Compared(0, Cls)
    BY <1>1, <1>6, <2>1, LoopStep DEF CompareCls
  <2>3. Comparing(0, Cls)'
    BY <2>2 DEF Comparing
  <2>4. (pc = "cls_ret" => Compared(0, Cls))'
    BY <2>2, <2>3 DEF Compared
  <2> QED
    BY <1>3, <2>1, <2>2, <2>3, <2>4 DEF Understood, FromSuffix
<1>7. CASE CommandCls
  <2>1. pc = "cls_ret" /\ Compared(0, Cls) /\ (isBat <=> IsBatLine) /\ isBat' = isBat /\ k' = 0
    BY <1>1, <1>7 DEF CommandCls, Goto, Understood
  <2>2. strcmp_equal(0, Cls) <=> line = Cls
    BY <1>1, <2>1, WholeLine
  <2>3. pc' = "clear" \/ (pc' = "help" /\ line' # Cls)
    BY <1>2, <1>7, <2>2 DEF CommandCls, Goto
  <2>4. Comparing(0, Help)'
    BY <1>1, <1>2, <1>5, <2>1, Begins DEF Comparing, Matched
  <2> QED
    BY <1>3, <2>1, <2>3, <2>4 DEF Understood, FromSuffix
<1>8. CASE CompareHelp
  <2>1. pc = "help" /\ Comparing(0, Help) /\ (isBat <=> IsBatLine) /\ line # Cls
    BY <1>1, <1>8 DEF CompareHelp, strcmp_loop, Understood
  <2>2. /\ UNCHANGED <<ex_buffer, line, early, len, isBat>>
        /\ pc' \in {"help", "help_ret"}
        /\ Matched(0, Help, k)'
        /\ pc' = "help_ret" => k' = k /\ Compared(0, Help)
    BY <1>1, <1>8, <2>1, LoopStep DEF CompareHelp
  <2>3. Comparing(0, Help)'
    BY <2>2 DEF Comparing
  <2>4. (pc = "help_ret" => Compared(0, Help))'
    BY <2>2, <2>3 DEF Compared
  <2> QED
    BY <1>3, <2>1, <2>2, <2>3, <2>4 DEF Understood, FromSuffix
<1>9. CASE CommandHelp
  <2>1. pc = "help_ret" /\ Compared(0, Help) /\ (isBat <=> IsBatLine) /\ isBat' = isBat /\ line # Cls
    BY <1>1, <1>9 DEF CommandHelp, Goto, Understood
  <2>2. strcmp_equal(0, Help) <=> line = Help
    BY <1>1, <2>1, WholeLine
  <2>3. pc' = "clear" \/ (pc' = "first" /\ line' # Help)
    BY <1>2, <1>9, <2>2 DEF CommandHelp, Goto
  <2> QED
    BY <1>2, <1>3, <2>1, <2>3 DEF Understood, FromSuffix
<1>10. CASE First
  <2>1. pc = "first" /\ (isBat <=> IsBatLine) /\ isBat' = isBat /\ line \notin {Cls, Help}
    BY <1>1, <1>10 DEF First, Goto, Understood
  <2>2. ex_buffer[0] = NUL <=> 0 = Len(line)
    BY <1>1, <1>5, LineChars
  <2>3. pc' = "empty" \/ (pc' = "syscall" /\ line # <<>>)
    BY <1>10, <2>2 DEF First, Goto
  <2> QED
    BY <1>2, <1>3, <2>1, <2>3 DEF Understood, FromSuffix
<1>11. CASE Empty \/ Syscall \/ Later
  <2>1. pc' \in {"clear", "prompt", "running", "report", "halted", "poll"}
    BY <1>11 DEF Empty, Syscall, LdrLoadPe, LdrExecBat, ProgramReturns, ProgramHalts, Report,
                 ClearExec, Prompt, Goto
  <2> QED
    BY <2>1 DEF Understood, FromSuffix
<1> QED
  BY <1>6, <1>7, <1>8, <1>9, <1>10, <1>11 DEF NsExec

\* The line is understood throughout.
LEMMA LineInvariance == Spec => []LineInv
<1>1. ShellInv /\ LineInv /\ [Next]_vars => LineInv'
  <2>1. LineInv /\ UNCHANGED vars => LineInv'
    BY DEF LineInv, vars, HoldsLine, Understood, Comparing, Compared, Matched, Suffix, IsBatLine
  <2> QED
    BY <2>1, KeyLine, IsBatFileLine, NsExecLine DEF Next, KiUserInit
<1> QED
  BY <1>1, InitLine, Invariance, PTL DEF Spec

\* A line submitted while the shell waits is taken for what the help text says,
\* whatever is typed until the next Enter (NsExec, IsBatFile, strcmp).
THEOREM LineDecidesTheAct == Spec => ActsOnTheLine
<1> DEFINE Acts ==
       ~early =>
       /\ pc = "cls_ret" /\ pc' = "clear" => line = Cls
       /\ pc = "help_ret" /\ pc' = "clear" => line = Help
       /\ pc = "syscall" /\ pc' # "syscall" =>
             line \notin {<<>>, Cls, Help} /\ (isBat <=> IsBatLine)
<1>1. ShellInv /\ LineInv /\ [Next]_vars => [Acts]_vars
  <2> SUFFICES ASSUME ShellInv, LineInv, Next, ~early PROVE Acts
    BY DEF Acts
  <2>1. TypeOK /\ HoldsLine /\ Understood
    BY DEF ShellInv, LineInv
  <2>2. pc = "syscall" => line \notin {<<>>, Cls, Help} /\ (isBat <=> IsBatLine)
    BY <2>1 DEF Understood
  <2>3. ASSUME pc = "cls_ret", pc' = "clear" PROVE line = Cls
    <3>1. CommandCls
      BY <2>3 DEF Next, int21h_handler, Backspace, Enter, Type, shell, KiUserInit, NsExec, Poll, Strlen,
                  IsBatFile, IsBatFileResult, CompareCls, CompareHelp, CommandHelp, First, Empty,
                  Syscall, LdrLoadPe, LdrExecBat, ProgramReturns, ProgramHalts, Report, ClearExec,
                  Prompt, strcmp_loop, Goto
    <3>2. strcmp_equal(0, Cls)
      BY <2>3, <3>1 DEF CommandCls, Goto
    <3>3. Compared(0, Cls)
      BY <2>1, <2>3 DEF Understood
    <3> QED
      BY <2>1, <3>2, <3>3, WholeLine
  <2>4. ASSUME pc = "help_ret", pc' = "clear" PROVE line = Help
    <3>1. CommandHelp
      BY <2>4 DEF Next, int21h_handler, Backspace, Enter, Type, shell, KiUserInit, NsExec, Poll, Strlen,
                  IsBatFile, IsBatFileResult, CompareCls, CommandCls, CompareHelp, First, Empty,
                  Syscall, LdrLoadPe, LdrExecBat, ProgramReturns, ProgramHalts, Report, ClearExec,
                  Prompt, strcmp_loop, Goto
    <3>2. strcmp_equal(0, Help)
      BY <2>4, <3>1 DEF CommandHelp, Goto
    <3>3. Compared(0, Help)
      BY <2>1, <2>4 DEF Understood
    <3> QED
      BY <2>1, <3>2, <3>3, WholeLine
  <2> QED
    BY <2>2, <2>3, <2>4 DEF Acts
<1> QED
  BY <1>1, Invariance, LineInvariance, PTL DEF Spec, ActsOnTheLine, Acts
=============================================================================

-------------------------------- MODULE Shell --------------------------------
(***************************************************************************)
(* The native shell and the keyboard interrupt that feeds it.              *)
(*                                                                         *)
(* int21h_handler (ke/idt/idt.c) collects characters and, on Enter, copies *)
(* the line into ex_buffer and sets exec (SetExecBuffer, init/kernel.c).   *)
(* KiUserInit polls exec and gives ex_buffer to NsExec.  Interrupts are    *)
(* enabled in the shell and in the programs it runs, and the code between  *)
(* two reads of ex_buffer is interruptible: each character that strlen and *)
(* strcmp read is a step (the build is -O0, so every read in the source is *)
(* a read of memory).  int 0x2e goes through an interrupt gate: a system   *)
(* call, and all that LdrExecBat runs inside it, is one step.              *)
(*                                                                         *)
(* What the shell draws is not part of this module.                        *)
(***************************************************************************)
EXTENDS Integers, Sequences

CONSTANTS BufSize,      \* sizeof(input_buffer) and sizeof(ex_buffer)
          Letters,      \* the characters keys give, "\b", "\n" and 0 apart
          Cls,          \* "cls"
          Help,         \* "help"
          BatSuffix     \* ".bat"

NUL == "NUL"
BS  == "BS"             \* the character '\b'

Char == Letters \cup {BS}

ASSUME ShellAssumption ==
    /\ BufSize \in Nat \ {0}
    /\ NUL \notin Letters
    /\ BS \notin Letters
    /\ Cls \in Seq(Letters) /\ Help \in Seq(Letters) /\ BatSuffix \in Seq(Letters)

VARIABLES input,        \* input_buffer up to input_pos
          ex_buffer,    \* the line handed to the shell
          exec,         \* the flag SetExecBuffer raises
          pc,           \* where the shell is
          k,            \* the character strlen or strcmp is about to read
          len,          \* IsBatFile's len
          isBat,        \* NsExec's parameter
          line,         \* auxiliary: the line last submitted
          fresh,        \* auxiliary: it has not been acted on yet
          early         \* auxiliary: it was submitted while the shell was at work

kbd   == <<input, line, early>>
shell == <<pc, k, len, isBat>>
vars  == <<input, ex_buffer, exec, pc, k, len, isBat, line, fresh, early>>

Cells == 0 .. BufSize - 1

PC == {"poll", "strlen", "suffix", "suffix_ret", "cls", "cls_ret", "help", "help_ret",
       "first", "empty", "syscall", "running", "report", "clear", "prompt", "halted"}

Init == /\ input = <<>>
        /\ ex_buffer = [i \in Cells |-> NUL]
        /\ exec = 0
        /\ pc = "poll"
        /\ k = 0 /\ len = 0 /\ isBat = FALSE
        /\ line = <<>> /\ fresh = FALSE /\ early = FALSE

-----------------------------------------------------------------------------
(* The keyboard interrupt *)

\* The machine takes interrupts until it stops in KeBugCheck or is turned off.
Interruptible == pc # "halted"

\* '\b' removes a character.  On an empty line it is stored like any other.
Backspace == /\ Interruptible
             /\ input # <<>>
             /\ input' = SubSeq(input, 1, Len(input) - 1)
             /\ UNCHANGED <<ex_buffer, exec, shell, line, fresh, early>>

strcpy(dest, src) == [i \in Cells |-> IF i < Len(src) THEN src[i + 1]
                                      ELSE IF i = Len(src) THEN NUL
                                      ELSE dest[i]]

\* Slip: the line is copied, the flag left alone.
SetExecBuffer_NoFlag(b) == ex_buffer' = strcpy(ex_buffer, b) /\ UNCHANGED exec

SetExecBuffer(b) == /\ ex_buffer' = strcpy(ex_buffer, b)
                    /\ exec' = 1

Enter == /\ Interruptible
         /\ SetExecBuffer(input)
         /\ input' = <<>>
         /\ line' = input
         /\ fresh' = TRUE
         /\ early' = (pc # "poll")
         /\ UNCHANGED shell

\* Slip: no room is kept for the NUL.
Type_Full(c) == /\ Interruptible
                /\ c = BS => input = <<>>
                /\ Len(input) < BufSize
                /\ input' = Append(input, c)
                /\ UNCHANGED <<ex_buffer, exec, shell, line, fresh, early>>

Type(c) == /\ Interruptible
           /\ c = BS => input = <<>>
           /\ Len(input) < BufSize - 1
           /\ input' = Append(input, c)
           /\ UNCHANGED <<ex_buffer, exec, shell, line, fresh, early>>

\* A key's release reads kb past its end: any character may come of it, or
\* none, as from a key that has none.
int21h_handler == Backspace \/ Enter \/ \E c \in Char : Type(c)

-----------------------------------------------------------------------------
(* strlen and strcmp *)

\* The k-th character of a string literal.
Literal(s, i) == IF i < Len(s) THEN s[i + 1] ELSE NUL

Goto(from, to) == pc = from /\ pc' = to

\* Slip: the pointers are not moved.
strcmp_loop_Stays(base, s, here, ret) ==
    /\ pc = here
    /\ IF Literal(s, k) # NUL /\ ex_buffer[base + k] = Literal(s, k)
       THEN UNCHANGED <<k, pc>>
       ELSE UNCHANGED k /\ pc' = ret
    /\ UNCHANGED <<kbd, ex_buffer, exec, len, isBat, fresh>>

\* strcmp(ex_buffer + base, s): the loop, and the two reads its result is
\* computed from, made after the loop has ended.
strcmp_loop(base, s, here, ret) ==
    /\ pc = here
    /\ IF Literal(s, k) # NUL /\ ex_buffer[base + k] = Literal(s, k)
       THEN k' = k + 1 /\ UNCHANGED pc
       ELSE UNCHANGED k /\ pc' = ret
    /\ UNCHANGED <<kbd, ex_buffer, exec, len, isBat, fresh>>

\* Slip: a prefix counts as equal.
strcmp_equal_Prefix(base, s) == Literal(s, k) = NUL

strcmp_equal(base, s) == ex_buffer[base + k] = Literal(s, k)

-----------------------------------------------------------------------------
(* KiUserInit *)

\* KiUserInit's loop sees exec set and calls IsBatFile.
Poll == /\ Goto("poll", "strlen")
        /\ exec = 1
        /\ k' = 0
        /\ UNCHANGED <<kbd, ex_buffer, exec, len, isBat, fresh>>

\* Slip: IsBatFile without its early return.
Strlen_NoEarlyReturn == /\ pc = "strlen"
                        /\ \/ ex_buffer[k] # NUL /\ k' = k + 1 /\ UNCHANGED <<pc, len>>
                           \/ ex_buffer[k] = NUL /\ k' = 0 /\ pc' = "suffix" /\ len' = k
                        /\ UNCHANGED <<kbd, ex_buffer, exec, isBat, fresh>>

\* IsBatFile's strlen, and its early return for a short line.  len is 0 where
\* it is not in scope, and isBat FALSE.
Strlen == /\ pc = "strlen"
          /\ \/ ex_buffer[k] # NUL /\ k' = k + 1 /\ UNCHANGED <<pc, len>>
             \/ /\ ex_buffer[k] = NUL /\ k' = 0
                /\ IF k < Len(BatSuffix) THEN pc' = "cls" /\ UNCHANGED len
                                        ELSE pc' = "suffix" /\ len' = k
          /\ UNCHANGED <<kbd, ex_buffer, exec, isBat, fresh>>

IsBatFile == strcmp_loop(len - Len(BatSuffix), BatSuffix, "suffix", "suffix_ret")

IsBatFileResult == /\ Goto("suffix_ret", "cls")
                   /\ isBat' = strcmp_equal(len - Len(BatSuffix), BatSuffix)
                   /\ k' = 0 /\ len' = 0
                   /\ UNCHANGED <<kbd, ex_buffer, exec, fresh>>

-----------------------------------------------------------------------------
(* NsExec *)

CompareCls == strcmp_loop(0, Cls, "cls", "cls_ret")

\* cls clears the screen, help prints its message; both go on to exec = 0.
CommandCls == /\ Goto("cls_ret", IF strcmp_equal(0, Cls) THEN "clear" ELSE "help")
              /\ fresh' = (fresh /\ ~strcmp_equal(0, Cls))
              /\ k' = 0
              /\ UNCHANGED <<kbd, ex_buffer, exec, len, isBat>>

CompareHelp == strcmp_loop(0, Help, "help", "help_ret")

CommandHelp == /\ Goto("help_ret", IF strcmp_equal(0, Help) THEN "clear" ELSE "first")
               /\ fresh' = (fresh /\ ~strcmp_equal(0, Help))
               /\ k' = 0
               /\ UNCHANGED <<kbd, ex_buffer, exec, len, isBat>>

\* else if (ex_buffer[0] != '\0')
First == /\ Goto("first", IF ex_buffer[0] # NUL THEN "syscall" ELSE "empty")
         /\ UNCHANGED <<kbd, ex_buffer, exec, k, len, isBat, fresh>>

\* else if (ex_buffer[0] == '\0'), read again: when a line has come in
\* between, exec is left alone.
Empty == /\ Goto("empty", IF ex_buffer[0] = NUL THEN "clear" ELSE "prompt")
         /\ fresh' = (fresh /\ ex_buffer[0] # NUL)
         /\ UNCHANGED <<kbd, ex_buffer, exec, k, len, isBat>>

\* LdrLoadPe finds a program, finds none, or stops the machine.
LdrLoadPe == /\ ~isBat
             /\ \E to \in {"running", "report", "halted"} : Goto("syscall", to)
             /\ UNCHANGED exec

\* LdrExecBat runs the script's lines through NsExec, which resets exec, or
\* finds no script; a line may stop the machine.
LdrExecBat == /\ isBat
              /\ \/ Goto("syscall", "clear") /\ exec' \in {exec, 0}
                 \/ Goto("syscall", "report") /\ UNCHANGED exec
                 \/ Goto("syscall", "halted") /\ UNCHANGED exec

\* int $0x2e with the address of ex_buffer.
Syscall == /\ LdrLoadPe \/ LdrExecBat
           /\ fresh' = FALSE
           /\ UNCHANGED <<kbd, ex_buffer, k, len, isBat>>

\* The program returns, or faults or shuts the machine down.
ProgramReturns == Goto("running", "clear") /\ UNCHANGED <<kbd, ex_buffer, exec, k, len, isBat, fresh>>
ProgramHalts   == Goto("running", "halted") /\ UNCHANGED <<kbd, ex_buffer, exec, k, len, isBat, fresh>>

\* "... is not recognized as an internal or external command ..."
Report == Goto("report", "clear") /\ UNCHANGED <<kbd, ex_buffer, exec, k, len, isBat, fresh>>

\* Slip: a branch of NsExec without exec = 0.
ClearExec_Forgotten == Goto("clear", "prompt")
                       /\ UNCHANGED <<kbd, ex_buffer, exec, k, len, isBat, fresh>>

\* exec = 0, whether or not a line has come in since the poll.
ClearExec == Goto("clear", "prompt") /\ exec' = 0
             /\ UNCHANGED <<kbd, ex_buffer, k, len, isBat, fresh>>

Prompt == Goto("prompt", "poll") /\ isBat' = FALSE
          /\ UNCHANGED <<kbd, ex_buffer, exec, k, len, fresh>>

NsExec == \/ CompareCls \/ CommandCls \/ CompareHelp \/ CommandHelp
          \/ First \/ Empty \/ Syscall \/ ProgramReturns \/ ProgramHalts
          \/ Report \/ ClearExec \/ Prompt

KiUserInit == Poll \/ Strlen \/ IsBatFile \/ IsBatFileResult \/ NsExec

Next == int21h_handler \/ KiUserInit

\* The processor keeps executing the shell, and a program returns or stops
\* the machine.
Spec == Init /\ [][Next]_vars /\ WF_vars(KiUserInit)

-----------------------------------------------------------------------------
(* Properties *)

TypeOK == /\ input \in Seq(Char) /\ Len(input) < BufSize
          /\ ex_buffer \in [Cells -> Char \cup {NUL}]
          /\ exec \in {0, 1}
          /\ pc \in PC
          /\ k \in Nat /\ len \in Nat
          /\ isBat \in BOOLEAN
          /\ line \in Seq(Char)
          /\ fresh \in BOOLEAN /\ early \in BOOLEAN

\* Every character strlen or strcmp reads lies in ex_buffer, although the line
\* may be replaced between any two of them by a shorter or a longer one: the
\* last cell always holds a NUL.
FromStart  == {"strlen", "cls", "cls_ret", "help", "help_ret"}
FromSuffix == {"suffix", "suffix_ret"}

ReadsStayInBuffer ==
    /\ ex_buffer[BufSize - 1] = NUL
    /\ pc \in FromStart => k \in Cells
    /\ pc \in FromSuffix => len >= Len(BatSuffix) /\ len - Len(BatSuffix) + k \in Cells

\* NsExec runs only for a line that was submitted and not yet acted on: none
\* is run twice, and exec is never seen set without one.
Deciding == {"strlen", "suffix", "suffix_ret", "cls", "cls_ret", "help", "help_ret",
             "first", "empty", "syscall"}

NoPhantomCommand == /\ pc \in Deciding => fresh
                    /\ pc \in {"poll", "prompt"} /\ exec = 1 => fresh

\* Whatever is typed meanwhile, the shell comes back to its loop or the
\* machine has stopped.
ReturnsToPrompt == pc # "poll" ~> pc \in {"poll", "halted"}

\* A line submitted while the shell waits for one is acted on, or another is
\* submitted before it is ("If you do not see a command on this list, it is
\* treated as an executable or batch script", init/kernel.c:472).
LineIsActedOn == fresh /\ ~early ~> ~fresh \/ early

\* The shell never waits for a line while one that was submitted has not been
\* acted on (the same sentence, init/kernel.c:472).
LineNotLost == pc = "poll" /\ fresh => exec = 1

\* What the shell does with a line submitted while it waits for one, and not
\* replaced since, is what the help text says: cls and help for these words, a
\* batch script for a name ending in .bat, an executable for any other name.
\* What is typed meanwhile makes no difference until Enter.
IsBatLine == /\ Len(line) >= Len(BatSuffix)
             /\ SubSeq(line, Len(line) - Len(BatSuffix) + 1, Len(line)) = BatSuffix

ActsOnTheLine ==
    [][~early =>
       /\ pc = "cls_ret" /\ pc' = "clear" => line = Cls
       /\ pc = "help_ret" /\ pc' = "clear" => line = Help
       /\ pc = "syscall" /\ pc' # "syscall" =>
             line \notin {<<>>, Cls, Help} /\ (isBat <=> IsBatLine)]_vars
=============================================================================

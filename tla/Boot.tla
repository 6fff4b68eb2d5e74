-------------------------------- MODULE Boot --------------------------------
(***************************************************************************)
(* The running kernel: kernel_main from power on to user mode and the      *)
(* shell's loop (init/kernel.c), with the interrupts that reach it         *)
(* (ke/idt/idt.asm, the controllers as kernel.asm sets them up), the       *)
(* system calls of module Syscall and the terminal of module Terminal.     *)
(*                                                                         *)
(* kernel.asm puts the slave controller at vector 0x28 and masks nothing,  *)
(* so the disk's IRQ14 is vector 0x2e: the system call.  int2eh sends no   *)
(* end of interrupt, and nobody ever sends the slave one.                  *)
(*                                                                         *)
(* What the shell makes of a line is module Shell's; here a command is     *)
(* some calls.  Heap, paging, files and font have their own modules: the   *)
(* boot steps that only prepare them are one step.  The timer is left out: *)
(* its handler changes nothing but its own in-service bit, and clears it.  *)
(***************************************************************************)
EXTENDS Syscall

CONSTANTS BootInis,    \* what 0:/boot.ini may be: a record, or NoFile
          NoFile,
          Word,        \* 2^32: ints wrap
          Greetings,   \* the strings KiUserInit displays
          MaxCalls     \* bound: calls of one command

ASSUME GreetingsAssumption == /\ Greetings \in Seq(Range(Greetings))
                              /\ \A s \in Range(Greetings) : s \in Seq(Range(s))

VARIABLES kpc,         \* the step of kernel_main or of the shell that is next
          irr, isr,    \* the interrupt controllers: lines requested and in service
          exec,        \* kernel.c's exec
          res,         \* w and h
          mode,        \* nWidth and nHeight, the mode BgaSetVideoMode has set
          buffer,      \* the bytes of the double buffer, or NULL
          font,        \* fontdata holds a font
          wild,        \* auxiliary: what was drawn through buffer while it was NULL
          asked,       \* auxiliary: the resolution boot.ini asks for
          unasked,     \* auxiliary: system calls nobody made, at most 2 are counted
          bootLine,    \* auxiliary: a line submitted before the shell's loop waits
          budget       \* strings left to display, or calls left to a command

bootVars == <<syscallVars, kpc, irr, isr, exec, res, mode, buffer, font, wild, unasked,
              asked, bootLine, budget>>

Screen == <<res, mode, buffer, font, asked>>

NULL == -1
Size(w, h) == [w |-> w, h |-> h]

BootInit == /\ SyscallInit
            /\ kpc = "early"
            /\ irr = {} /\ isr = {}
            /\ exec = FALSE
            /\ res = Size(640, 480) /\ asked = Size(640, 480)
            /\ mode = Size(320, 200)
            /\ buffer = NULL
            /\ font = FALSE
            /\ wild = {}
            /\ unasked = 0
            /\ bootLine = FALSE
            /\ budget = 0

-----------------------------------------------------------------------------
(* The interrupt controllers (external: two 8259 in cascade) *)

KEYBOARD == 1
CASCADE  == 2
DISK     == 14

\* The vectors kernel.asm gives the two controllers, from 0x20 and from 0x28.
Vector(irq) == IF irq < 8 THEN 32 + irq ELSE 40 + irq - 8

Master(lines) == {i \in lines : i < 8}
Line(irq)     == IF irq < 8 THEN irq ELSE CASCADE

\* A request is passed on unless one of the same or a higher priority is in
\* service, on the controller it comes in at and on the master.
Pending(irq) == /\ irq \in irr
                /\ \A i \in Master(isr) : i > Line(irq)
                /\ irq >= 8 => \A i \in isr \ Master(isr) : i > irq

\* outb(0x20, 0x20) ends the master's most urgent interrupt in service.
Eoi(lines) == IF Master(lines) = {} THEN lines ELSE lines \ {Min(Master(lines))}

\* The lines in service once irq is.
Acknowledged(irq) == isr \cup {irq, Line(irq)}

PressKey == /\ power = "on" /\ KEYBOARD \notin irr
            /\ irr' = irr \cup {KEYBOARD}
            /\ UNCHANGED <<syscallVars, kpc, isr, exec, Screen, wild, unasked, bootLine, budget>>

-----------------------------------------------------------------------------
(* Interrupts *)

\* RenderChar draws once there is a font, PrintChar('\b') at once.
Draws(what) == IF buffer = NULL /\ (what = "text" => font) THEN wild \cup {what} ELSE wild

\* SetExecBuffer, for the key '\n'.
Submit == /\ exec' = TRUE
          /\ bootLine' = (bootLine \/ kpc \notin {"user", "command"})
          /\ UNCHANGED wild

\* What int21h_handler does with the key.
Handle(key) == CASE key = "enter" -> Submit
                 [] key = "bs"    -> wild' = Draws("erasure") /\ UNCHANGED <<exec, bootLine>>
                 [] key = "char"  -> wild' = Draws("text")    /\ UNCHANGED <<exec, bootLine>>

\* Slip: the handler returns without its outb.
int21h_NoEoi ==
    /\ power = "on" /\ ints /\ Pending(KEYBOARD) /\ Handler(Vector(KEYBOARD)) = "int21h"
    /\ irr' = irr \ {KEYBOARD}
    /\ isr' = Acknowledged(KEYBOARD)
    /\ \E key \in {"enter", "bs", "char"} : Handle(key)
    /\ UNCHANGED <<syscallVars, kpc, Screen, unasked, budget>>

int21h == /\ power = "on" /\ ints /\ Pending(KEYBOARD) /\ Handler(Vector(KEYBOARD)) = "int21h"
          /\ irr' = irr \ {KEYBOARD}
          /\ isr' = Eoi(Acknowledged(KEYBOARD))
          /\ \E key \in {"enter", "bs", "char"} : Handle(key)
          /\ UNCHANGED <<syscallVars, kpc, Screen, unasked, budget>>

\* Slip: the entry ends the interrupt on both controllers.
DiskInterrupt_Ended ==
    /\ power = "on" /\ ints /\ Pending(DISK) /\ Handler(Vector(DISK)) = "int2eh"
    /\ irr' = irr \ {DISK}
    /\ isr' = Eoi(Acknowledged(DISK)) \ {DISK}
    /\ int2eh(stack, 0, 0)
    /\ unasked' = IF unasked < 2 THEN unasked + 1 ELSE unasked
    /\ UNCHANGED <<terminalVars, tmp_res, power, own, kpc, exec, Screen, wild, bootLine, budget>>

\* The drive's interrupt enters the kernel as a system call.  It is taken in
\* enable_interrupts, DiskInit having read the disk before; eax is what
\* DbgPrint left there, the NUL that ended its string.
DiskInterrupt ==
    /\ power = "on" /\ ints /\ Pending(DISK) /\ Handler(Vector(DISK)) = "int2eh"
    /\ irr' = irr \ {DISK}
    /\ isr' = Acknowledged(DISK)
    /\ int2eh(stack, 0, 0)
    /\ unasked' = IF unasked < 2 THEN unasked + 1 ELSE unasked
    /\ UNCHANGED <<terminalVars, tmp_res, power, own, kpc, exec, Screen, wild, bootLine, budget>>

\* An exception without a handler of its own, or a software interrupt no one
\* serves: no_interrupt ends an interrupt of the master that may not be its.
no_interrupt == /\ power = "on" /\ kpc = "command" /\ stack = <<>>
                /\ \E vector \in Exceptions : Handler(vector) = "no_interrupt"
                /\ isr' = Eoi(isr)
                /\ UNCHANGED <<syscallVars, kpc, irr, exec, Screen, wild, unasked, bootLine, budget>>

\* A system call goes on; its service may read the disk and display text.
SystemCall ==
    /\ CallStep
    /\ LET serving == stack # <<>> /\ Top.pc = "serve" IN
       /\ irr' = IF serving /\ UsesDisk(Top.num) THEN irr \cup {DISK} ELSE irr
       /\ wild' = IF serving /\ UsesConsole(Top.num) THEN Draws("text") ELSE wild
    /\ UNCHANGED <<kpc, isr, exec, Screen, unasked, bootLine, budget>>

-----------------------------------------------------------------------------
(* boot.ini *)

Digits  == 48 .. 57
LetterX == 120

\* A 32-bit int.
Signed(n) == ((n + Word \div 2) % Word) - Word \div 2

\* The int that fetchwh's loops make of a string of digits,
Number(s) ==
    LET v[i \in 0 .. Len(s)] == IF i = 0 THEN 0 ELSE Signed(10 * v[i - 1] + (s[i] - 48))
    IN  v[Len(s)]

\* and the number it stands for.
Decimal(s) ==
    LET v[i \in 0 .. Len(s)] == IF i = 0 THEN 0 ELSE 10 * v[i - 1] + (s[i] - 48)
    IN  v[Len(s)]

\* The first character from i on that is no digit; a NUL ends every string.
EndOfDigits(s, i) == Min({j \in i .. Len(s) : s[j] \notin Digits})

\* The digits of a width, and those of a height behind its 'x'.
WidthOf(s)  == SubSeq(s, 1, EndOfDigits(s, 1) - 1)
HasHeight(s) == s[EndOfDigits(s, 1)] = LetterX
HeightOf(s) == LET x == EndOfDigits(s, 1) IN SubSeq(s, x + 1, EndOfDigits(s, x + 1) - 1)

\* What fetchwh leaves in its width and height, also where it returns 0: the
\* caller only chooses a message by that.
fetchwh(s) == Size(Number(WidthOf(s)), IF HasHeight(s) THEN Number(HeightOf(s)) ELSE 0)

\* boot.ini has the section and the key, with a string for its value, or not.
ASSUME BootInisAssumption ==
    /\ Word \in Nat \ {0}
    /\ \A ini \in BootInis \ {NoFile} :
          ini.settings /\ ini.res # <<>> =>
              ini.res \in Seq(0 .. 255) /\ ini.res[Len(ini.res)] = 0

\* The resolution boot.ini asks for; none where the value is no WIDTHxHEIGHT.
Asked(ini) == IF ~(ini.settings /\ ini.res # <<>>) THEN Size(640, 480)
              ELSE IF HasHeight(ini.res)
                   THEN Size(Decimal(WidthOf(ini.res)), Decimal(HeightOf(ini.res)))
                   ELSE Size(NULL, NULL)

\* w * h * 32 / 8 as a size_t.  Where the product is no int the behaviour is
\* undefined: it wraps, or the compiler has divided the factors first.
BufferBytes(r) == {(Signed(32 * (r.w * r.h)) \div 8) % Word, (4 * (r.w * r.h)) % Word}

-----------------------------------------------------------------------------
(* kernel_main *)

\* Slip: the font is loaded before there is a buffer to draw in.
Order_FontFirst == <<"early", "disk", "sti", "font", "bootini", "clear", "mode", "buffer", "cpu", "jump">>

\* Slip: the mode is set before the settings are read.
Order_ModeFirst == <<"early", "disk", "sti", "mode", "bootini", "clear", "buffer", "cpu", "font", "jump">>

Order == <<"early", "disk", "sti", "bootini", "clear", "mode", "buffer", "cpu", "font", "jump">>

After(step) == LET i == CHOOSE i \in DOMAIN Order : Order[i] = step IN
               IF i < Len(Order) THEN Order[i + 1] ELSE "greet"

\* Kernel and shell run when no call is in progress; the drive's interrupt is
\* taken before their next instruction.
Runs(step) == /\ power = "on" /\ kpc = step /\ stack = <<>>
              /\ ~(ints /\ Pending(DISK))

\* FirstTimeBootInit and its message, descriptor tables, heap, file system
\* table, task state segment and paging.
EarlyInit == /\ Runs("early")
             /\ print(<<"s", NL>>)
             /\ kpc' = After("early")
             /\ UNCHANGED <<ints, stack, tmp_res, power, own, irr, isr, exec, Screen, wild,
                            unasked, bootLine, budget>>

\* The file system is resolved by reading it.
DiskInit == /\ Runs("disk")
            /\ irr' = irr \cup {DISK}
            /\ kpc' = After("disk")
            /\ UNCHANGED <<syscallVars, isr, exec, Screen, wild, unasked, bootLine, budget>>

enable_interrupts == /\ Runs("sti")
                     /\ ints' = TRUE
                     /\ kpc' = After("sti")
                     /\ UNCHANGED <<terminalVars, stack, tmp_res, power, own, irr, isr, exec,
                                    Screen, wild, unasked, bootLine, budget>>

\* Without the file kernel_main returns, to an endless loop.
ReadBootIni ==
    /\ Runs("bootini")
    /\ irr' = irr \cup {DISK}
    /\ \E ini \in BootInis :
          \/ /\ ini = NoFile
             /\ print(<<"f", NL>>)
             /\ kpc' = "failed"
             /\ UNCHANGED <<res, asked>>
          \/ /\ ini # NoFile
             /\ asked' = Asked(ini)
             /\ res' = IF ini.settings /\ ini.res # <<>> THEN fetchwh(ini.res) ELSE res
             /\ kpc' = After("bootini")
             /\ UNCHANGED terminalVars
    /\ UNCHANGED <<ints, stack, tmp_res, power, own, isr, exec, mode, buffer, font, wild,
                   unasked, bootLine, budget>>

ClearTerminal == /\ Runs("clear")
                 /\ terminal_initialize
                 /\ kpc' = After("clear")
                 /\ UNCHANGED <<ints, stack, tmp_res, power, own, irr, isr, exec, Screen, wild,
                                unasked, bootLine, budget>>

\* VdiSetScreenRes and VdiInit
SetMode == /\ Runs("mode")
           /\ mode' = res
           /\ kpc' = After("mode")
           /\ UNCHANGED <<syscallVars, irr, isr, exec, res, buffer, font, asked, wild, unasked,
                          bootLine, budget>>

\* kmalloc's answer is NULL in a heap without a free block (module Heap).
AllocateBuffer == /\ Runs("buffer")
                  /\ \/ buffer' \in BufferBytes(res) /\ kpc' = After("buffer")
                     \/ buffer' = NULL /\ kpc' = "failed"
                  /\ UNCHANGED <<syscallVars, irr, isr, exec, res, mode, font, asked, wild, unasked,
                                 bootLine, budget>>

\* "CPU Model: ", get_cpu_info and two line ends.
PrintCpu == /\ Runs("cpu")
            /\ print(<<"m", NL>>)
            /\ kpc' = After("cpu")
            /\ UNCHANGED <<ints, stack, tmp_res, power, own, irr, isr, exec, Screen, wild,
                           unasked, bootLine, budget>>

\* The boot goes on without a font, too.
LoadPsfFont == /\ Runs("font")
               /\ irr' = irr \cup {DISK}
               /\ font' \in BOOLEAN
               /\ kpc' = After("font")
               /\ UNCHANGED <<syscallVars, isr, exec, res, mode, buffer, asked, wild, unasked,
                              bootLine, budget>>

\* Slip: the shell starts with exec cleared.
KiUserInit_ClearsExec ==
    /\ Runs("jump")
    /\ kpc' = After("jump")
    /\ budget' = Len(Greetings)
    /\ exec' = FALSE
    /\ UNCHANGED <<syscallVars, irr, isr, Screen, wild, unasked, bootLine>>

\* jump_usermode, and the shell clears the buffer.
KiUserInit == /\ Runs("jump")
              /\ kpc' = After("jump")
              /\ budget' = Len(Greetings)
              /\ UNCHANGED <<syscallVars, irr, isr, exec, Screen, wild, unasked, bootLine>>

-----------------------------------------------------------------------------
(* The shell *)

\* PrintString, once for each greeting and the prompt.
Greet == /\ Runs("greet")
         /\ \/ /\ budget > 0
               /\ int2eh(stack, 46, Greetings[Len(Greetings) + 1 - budget])
               /\ budget' = budget - 1
               /\ UNCHANGED kpc
            \/ /\ budget = 0
               /\ kpc' = "user"
               /\ UNCHANGED <<stack, ints, budget>>
         /\ UNCHANGED <<terminalVars, tmp_res, power, own, irr, isr, exec, Screen, wild,
                        unasked, bootLine>>

Poll == /\ Runs("user") /\ exec
        /\ kpc' = "command"
        /\ budget' = MaxCalls
        /\ bootLine' = FALSE
        /\ UNCHANGED <<syscallVars, irr, isr, exec, Screen, wild, unasked>>

\* The command, or a line of the script it runs, calls the kernel.
RunCommand == /\ kpc = "command"
              /\ Program
              /\ \/ InScript /\ UNCHANGED budget
                 \/ Runs("command") /\ budget > 0 /\ budget' = budget - 1
              /\ UNCHANGED <<kpc, irr, isr, exec, Screen, wild, unasked, bootLine>>

\* ... or makes a mistake.
Crash == /\ kpc = "command" /\ KeBugCheck
         /\ UNCHANGED <<kpc, irr, isr, exec, Screen, wild, unasked, bootLine, budget>>

CommandEnds == /\ Runs("command")
               /\ kpc' = "user"
               /\ exec' = FALSE
               /\ budget' = 0
               /\ UNCHANGED <<syscallVars, irr, isr, Screen, wild, unasked, bootLine>>

-----------------------------------------------------------------------------
kernel_main == \/ EarlyInit \/ DiskInit \/ enable_interrupts \/ ReadBootIni \/ ClearTerminal
               \/ SetMode \/ AllocateBuffer \/ PrintCpu \/ LoadPsfFont \/ KiUserInit

Shell == Greet \/ Poll \/ CommandEnds

BootNext == kernel_main \/ Shell \/ RunCommand \/ Crash \/ SystemCall
            \/ PressKey \/ int21h \/ DiskInterrupt \/ no_interrupt

\* The processor goes on, and takes the interrupts it is asked for when they
\* are enabled; a command ends at last.
BootSpec == /\ BootInit /\ [][BootNext]_bootVars
            /\ WF_bootVars(kernel_main) /\ WF_bootVars(Shell) /\ WF_bootVars(SystemCall)
            /\ WF_bootVars(int21h) /\ WF_bootVars(DiskInterrupt)

-----------------------------------------------------------------------------
(* Properties *)

\* However many times the disk is read, vector 0x2e is entered unasked once: the
\* interrupt that is never ended keeps the next ones out, also when a stray
\* no_interrupt ends the cascade's (int2eh, no_interrupt_handler).
OneUnaskedCall == unasked <= 1

\* No glyph is drawn through buffer before it is allocated, although keys are
\* echoed, and a system call is taken, as soon as interrupts are enabled
\* (RenderChar needs the font, which kernel_main loads last).
TextWaitsForBuffer == "text" \notin wild

\* In user mode w and h, the display and the double buffer have the size that
\* boot.ini asks for, whatever it holds, as long as width, height and the bits of
\* the screen are ints: PutPixel, FillRectangle and memcpy go by w, h and nWidth.
BufferMatchesScreen ==
    /\ kpc \in {"greet", "user", "command"}
    /\ {asked.w, asked.h} \subseteq 0 .. (Word \div 2) - 1
    /\ 32 * (asked.w * asked.h) < Word \div 2
    => res = asked /\ mode = asked /\ buffer = 4 * (asked.w * asked.h)

\* A key that is pressed comes to be handled while the machine runs: the disk's
\* interrupt, left in service for ever, does not keep the keyboard's out.
KeyIsHandled == KEYBOARD \in irr ~> (KEYBOARD \notin irr \/ power # "on")

\* A line submitted while the kernel boots is acted on once the shell's loop
\* runs, if it comes to run (exec is set by the interrupt, KiUserInit keeps it).
BootLineRuns == bootLine ~> (~bootLine \/ kpc = "failed" \/ power # "on")
=============================================================================

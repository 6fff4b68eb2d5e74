------------------------------ MODULE Syscall -------------------------------
(***************************************************************************)
(* System calls: the entry int2eh (ke/idt/idt.asm), the dispatcher and its *)
(* services (ke/idt/idt.c), faults, and the calls ntdll.c makes.           *)
(*                                                                         *)
(* A call in progress is a frame of the stack.  The gate clears the        *)
(* interrupt flag and iretd restores it.  A batch script runs inside the   *)
(* call that asked for it, and its lines make calls of their own: frames   *)
(* nest, while the result of every call goes through the one variable      *)
(* tmp_res.                                                                *)
(*                                                                         *)
(* What the file layer and the loaders do is left to modules Vfs and       *)
(* Loader: here a file is found or not.  Text goes to the terminal; what   *)
(* is drawn on the framebuffer is module Console's.                        *)
(***************************************************************************)
EXTENDS Terminal

CONSTANTS Numbers,      \* what callers put in eax
          MaxDepth,     \* bound: calls inside one another
          MaxLines,     \* bound: calls the lines of a script make
          Processors    \* what GetSystemInfo says

ASSUME SyscallAssumption == Processors \in Nat \ {0} /\ MaxDepth \in Nat /\ MaxLines \in Nat

VARIABLES ints,         \* the interrupt flag
          stack,        \* the system calls in progress, innermost last
          tmp_res,      \* idt.asm's variable
          power,        \* "on", "off", "reset", or "stop" after KeBugCheck
          own           \* auxiliary: every caller so far got its own call's result

syscallVars == <<terminalVars, ints, stack, tmp_res, power, own>>

\* NTSTATUS values, and an entry point that is not NULL.
STATUS_SUCCESS == 0
NULL_ENTRY     == 0
ENTRY          == 1
STATUS_INVALID_SYSTEM_SERVICE == -1
STATUS_NOT_SUPPORTED          == -2
STATUS_INVALID_PARAMETER      == -3
STATUS_OBJECT_NAME_NOT_FOUND  == -4

SyscallInit == /\ TerminalInit
               /\ ints = FALSE
               /\ stack = <<>>
               /\ tmp_res = 0
               /\ power = "on"
               /\ own = TRUE

-----------------------------------------------------------------------------
(* Entry and return *)

Top == stack[Len(stack)]

\* Where a call can come from: code outside any call, or a line of a script.
InScript == stack # <<>> /\ Top.pc = "script"

Frame(n, arg) == [num |-> n, arg |-> arg, pc |-> "serve", lines |-> 0, res |-> 0, ints |-> ints]

\* Vector 0x2e is taken: an interrupt gate, pushad and the call of
\* syscall_handler.
int2eh(frames, n, arg) == /\ stack' = Append(frames, Frame(n, arg))
                          /\ ints' = FALSE

\* int $0x2e, in a program or in the line of a script: one line less to come.
Trap(n, arg) ==
    /\ power = "on"
    /\ Len(stack) < MaxDepth
    /\ \/ stack = <<>> /\ int2eh(stack, n, arg)
       \/ InScript /\ Top.lines > 0
             /\ int2eh([stack EXCEPT ![Len(stack)].lines = @ - 1], n, arg)

\* mov [tmp_res], eax
StoreResult == /\ stack # <<>> /\ Top.pc = "store"
               /\ tmp_res' = Top.res
               /\ stack' = [stack EXCEPT ![Len(stack)].pc = "load"]
               /\ UNCHANGED <<terminalVars, ints, power, own>>

\* Slip: eax is loaded before popad, which puts the number of the call back.
Return_PopadLast ==
    /\ stack # <<>> /\ Top.pc = "load"
    /\ own' = (own /\ Top.num = Top.res)
    /\ ints' = Top.ints
    /\ stack' = Front(stack)
    /\ UNCHANGED <<terminalVars, tmp_res, power>>

\* popad, mov eax, [tmp_res] and iretd.
Return == /\ stack # <<>> /\ Top.pc = "load"
          /\ own' = (own /\ tmp_res = Top.res)
          /\ ints' = Top.ints
          /\ stack' = Front(stack)
          /\ UNCHANGED <<terminalVars, tmp_res, power>>

-----------------------------------------------------------------------------
(* The services *)

\* The numbers syscall_dispatcher has a case for.  The case of 0x03 is empty.
Service(n) == CASE n = 1   -> "Test"
                [] n = 2   -> "LdrLoadPe"
                [] n = 3   -> "Empty"
                [] n = 4   -> "LdrExecBat"
                [] n = 46  -> "NtDisplayString"      \* 0x2e
                [] n = 79  -> "NtOpenFile"           \* 0x4f
                [] n = 180 -> "NtShutdownSystem"     \* 0xb4
                [] OTHER   -> "none"

\* The services that read the disk, and those that draw on the framebuffer.
UsesDisk(n)     == Service(n) \in {"LdrLoadPe", "LdrExecBat", "NtOpenFile"}
UsesConsole(n)  == Service(n) \in {"NtDisplayString", "NtShutdownSystem", "none"}

Serving(name) == stack # <<>> /\ Top.pc = "serve" /\ Service(Top.num) = name

\* The service returns res to int2eh.
Finish(res) == stack' = [stack EXCEPT ![Len(stack)].pc = "store", ![Len(stack)].res = res]

\* The text of service 0x01, by its argument.
ExampleText == <<"e", NL>>
TestText    == <<"t", NL>>
TestOutput(arg) == IF arg = 5 THEN ExampleText ELSE TestText

TestSyscall == /\ Serving("Test")
               /\ print(TestOutput(Top.arg))
               /\ Finish(STATUS_SUCCESS)
               /\ UNCHANGED <<ints, tmp_res, power, own>>

NtDisplayStringSyscall == /\ Serving("NtDisplayString")
                          /\ print(Top.arg)
                          /\ Finish(STATUS_SUCCESS)
                          /\ UNCHANGED <<ints, tmp_res, power, own>>

LdrLoadPe == /\ Serving("LdrLoadPe")
             /\ \E entry \in {NULL_ENTRY, ENTRY} : Finish(entry)
             /\ UNCHANGED <<terminalVars, ints, tmp_res, power, own>>

\* The script is opened, or not found.
LdrExecBat == /\ Serving("LdrExecBat")
              /\ \/ Finish(STATUS_OBJECT_NAME_NOT_FOUND)
                 \/ \E n \in 0 .. MaxLines :
                       stack' = [stack EXCEPT ![Len(stack)].pc = "script", ![Len(stack)].lines = n]
              /\ UNCHANGED <<terminalVars, ints, tmp_res, power, own>>

\* Its last line has run; the others made no calls.
ScriptEnds == /\ InScript
              /\ Finish(STATUS_SUCCESS)
              /\ UNCHANGED <<terminalVars, ints, tmp_res, power, own>>

\* The handle stays in the kernel: only the status tells whether fopen found
\* the file.
NtOpenFileSyscall == /\ Serving("NtOpenFile")
                     /\ \E res \in {STATUS_SUCCESS, STATUS_OBJECT_NAME_NOT_FOUND} : Finish(res)
                     /\ UNCHANGED <<terminalVars, ints, tmp_res, power, own>>

\* SHUTDOWN_ACTION
ShutdownNoReboot == 0
ShutdownReboot   == 1
ShutdownPowerOff == 2

NtShutdownSystemSyscall ==
    /\ Serving("NtShutdownSystem")
    /\ CASE Top.arg = ShutdownPowerOff -> power' = "off"   /\ Finish(STATUS_SUCCESS)
         [] Top.arg = ShutdownNoReboot -> power' = power   /\ Finish(STATUS_NOT_SUPPORTED)
         [] Top.arg = ShutdownReboot   -> power' = "reset" /\ Finish(STATUS_SUCCESS)
         [] OTHER                      -> power' = power   /\ Finish(STATUS_INVALID_PARAMETER)
    /\ UNCHANGED <<terminalVars, ints, tmp_res, own>>

\* The empty case and the default.
NoService == /\ Serving("Empty") \/ Serving("none")
             /\ Finish(STATUS_INVALID_SYSTEM_SERVICE)
             /\ UNCHANGED <<terminalVars, ints, tmp_res, power, own>>

syscall_dispatcher == \/ TestSyscall \/ NtDisplayStringSyscall \/ LdrLoadPe \/ LdrExecBat
                      \/ NtOpenFileSyscall \/ NtShutdownSystemSyscall \/ NoService

\* A call goes on, until the machine stops.
CallStep == power = "on" /\ (syscall_dispatcher \/ ScriptEnds \/ StoreResult \/ Return)

\* What idt_init sets each vector to.
Handler(vector) == CASE vector \in {0, 6, 8, 11, 13, 14} -> "KeBugCheck"
                     [] vector = 33 -> "int21h"              \* 0x21
                     [] vector = 46 -> "int2eh"              \* 0x2e
                     [] OTHER       -> "no_interrupt"

Exceptions == 0 .. 31

\* An exception with a handler of its own: KeBugCheck draws the stop screen and
\* loops, in an interrupt gate.
KeBugCheck == /\ power = "on" /\ (stack = <<>> \/ InScript)
              /\ \E vector \in Exceptions : Handler(vector) = "KeBugCheck"
              /\ power' = "stop"
              /\ ints' = FALSE
              /\ UNCHANGED <<terminalVars, stack, tmp_res, own>>

-----------------------------------------------------------------------------
(* ntdll *)

\* The arguments a call of number n is made with.
Args(n) == CASE n = 1   -> {5, 0}
             [] n = 46  -> Strings
             [] n = 180 -> 0 .. 3
             [] OTHER   -> {0}

\* bound: the text of the call still fits the log.
Room(n, arg) == Len(log) + (CASE n = 1  -> Len(TestOutput(arg))
                              [] n = 46 -> Len(arg)
                              [] OTHER  -> 0) <= MaxLog

\* The bytes NtQuerySystemInformation asks a buffer to have, by its class.
KernelInformation ==
    [SystemExceptionInformation      |-> 16,
     SystemLeapSecondInformation     |-> 16,
     SystemLookasideInformation      |-> 0,
     SystemCodeIntegrityInformation  |-> 8,
     SystemKernelVaShadowInformation |-> 4,
     SystemPerformanceInformation    |-> 296,
     SystemInterruptInformation      |-> 0]

ProcessInformation ==
    [SystemPolicyInformation                  |-> 16,
     SystemProcessInformation                 |-> 32,
     SystemProcessorPerformanceInformation    |-> 48 * Processors,
     SystemQueryPerformanceCounterInformation |-> 16,
     SystemRegistryQuotaInformation           |-> 16,
     SystemSpeculationControlInformation      |-> 4,
     SystemTimeOfDayInformation               |-> 40]

InfoClass == [c \in DOMAIN KernelInformation \cup DOMAIN ProcessInformation |->
                 IF c \in DOMAIN KernelInformation THEN KernelInformation[c]
                 ELSE ProcessInformation[c]]

TooShort(class, length) == class \in DOMAIN InfoClass /\ length < InfoClass[class]

Lengths == {0} \cup UNION {{InfoClass[c] - 1, InfoClass[c]} : c \in DOMAIN InfoClass}

\* The string SystemPrint gives to NtDisplayString is of wide characters, the
\* kernel's of single bytes: it ends after the first, '['.
SystemPrint == Trap(46, <<"[">>)

\* A length that is too short, and a NULL buffer, are refused without a word.
\* What is put in the caller's buffer is left out.
NtQuerySystemInformation(class, length) ==
    /\ (stack = <<>> \/ InScript) /\ Room(46, <<"[">>)
    /\ IF TooShort(class, length) THEN UNCHANGED <<stack, ints>> ELSE SystemPrint
    /\ UNCHANGED <<terminalVars, tmp_res, power, own>>

\* A stub pushes its arguments, which the kernel does not look for on the
\* caller's stack, and traps with whatever is in ebx.
Stub(n) == Room(n, 0) /\ Trap(n, 0)

NtAcceptConnectPort              == Stub(0)
NtAccessCheckAndAuditAlarm       == Stub(2)
NtAccessCheckByType              == Stub(3)
NtAccessCheckByTypeAndAuditAlarm == Stub(4)
NtAccessCheckByTypeResultList    == Stub(5)

\* A program calls the kernel itself, or a function of ntdll.
Program ==
    \/ \E n \in Numbers : \E arg \in Args(n) :
          Room(n, arg) /\ Trap(n, arg)
             /\ UNCHANGED <<terminalVars, tmp_res, power, own>>
    \/ /\ \/ NtAcceptConnectPort \/ NtAccessCheckAndAuditAlarm \/ NtAccessCheckByType
          \/ NtAccessCheckByTypeAndAuditAlarm \/ NtAccessCheckByTypeResultList
       /\ UNCHANGED <<terminalVars, tmp_res, power, own>>
    \/ \E class \in DOMAIN InfoClass \cup {"SystemBasicInformation"}, length \in Lengths :
          NtQuerySystemInformation(class, length)

-----------------------------------------------------------------------------
(* Properties *)

\* Every call's caller gets in eax what the dispatcher returned for that call,
\* however many calls the lines of a script made in between (idt.asm keeps the
\* result in one variable for all of them).
ResultIsOwn == own
=============================================================================

---------------------------- MODULE KernelProofs ----------------------------
(***************************************************************************)
(* The invariants of the running kernel, of modules Terminal, Syscall and  *)
(* Boot, for any depth of calls inside one another, any scripts, strings   *)
(* and boot.ini, and any moment an interrupt comes: inductive invariants   *)
(* on different parts of the state:                                        *)
(*   - CallInv: only the innermost call is between storing and loading     *)
(*     tmp_res, because the calls around it run scripts and interrupts are *)
(*     off inside a call;                                                  *)
(*   - UnaskedInv: the disk's line stays in service;                       *)
(*   - ScreenInv: what kernel_main has done when it reaches each step;     *)
(*   - TextInv: the terminal shows the end of the page its text makes, and *)
(*     whatever waits to be displayed is text.                             *)
(***************************************************************************)
EXTENDS Boot, NumberLemmas, SequenceTheorems, TLAPS

-----------------------------------------------------------------------------
(* Calls inside calls *)

\* A call's number and argument may be anything, here.
Frames(A) == [num : A, arg : A, pc : {"serve", "script", "store", "load"},
              lines : Int, res : Int, ints : BOOLEAN]

CallInv ==
  /\ \E A : stack \in Seq(Frames(A))
  /\ ints \in BOOLEAN
  /\ stack # <<>> => ints = FALSE
  /\ \A i \in 1 .. Len(stack) - 1 : stack[i].pc = "script"
  /\ \A i \in 2 .. Len(stack) : stack[i].ints = FALSE
  /\ stack # <<>> /\ Top.pc = "load" => tmp_res = Top.res
  /\ own = TRUE

\* Only the innermost frame changes, and keeps the interrupt flag it saved.
LEMMA TopChanges ==
  ASSUME CallInv, stack # <<>>, NEW A, stack \in Seq(Frames(A)), NEW f \in Frames(A),
         stack' = [stack EXCEPT ![Len(stack)] = f], f.ints = Top.ints,
         f.pc = "load" => tmp_res' = f.res, UNCHANGED <<ints, own>>
  PROVE  CallInv'
<1>1. PICK n \in Nat \ {0} : n = Len(stack) /\ DOMAIN stack = 1 .. n
  OBVIOUS
<1>2. /\ stack' \in Seq(Frames(A)) /\ Len(stack') = n
      /\ stack'[n] = f /\ \A i \in 1 .. n - 1 : stack'[i] = stack[i]
  BY <1>1, ExceptSeq
<1>3. \A i \in 1 .. n : stack'[i].ints = stack[i].ints
  BY <1>1, <1>2 DEF Top
<1>4. stack' # <<>> /\ Top' = f
  BY <1>1, <1>2 DEF Top
<1> QED
  BY <1>1, <1>2, <1>3, <1>4 DEF CallInv

\* A call enters: from outside any, or from a script.
LEMMA CallEnters ==
  ASSUME CallInv, NEW num, NEW arg, UNCHANGED <<tmp_res, own>>,
         \/ stack = <<>> /\ int2eh(stack, num, arg)
         \/ InScript /\ int2eh([stack EXCEPT ![Len(stack)].lines = @ - 1], num, arg)
  PROVE  CallInv'
<1>1. PICK A0 : stack \in Seq(Frames(A0))
  BY DEF CallInv
<1> DEFINE A == A0 \cup {num, arg}
<1>2. stack \in Seq(Frames(A))
  <2>1. Frames(A0) \subseteq Frames(A)
    BY DEF Frames
  <2> QED
    BY <1>1, <2>1, SeqMonotonic
<1>3. PICK f : f = Frame(num, arg)
  OBVIOUS
<1>4. f \in Frames(A) /\ f.pc = "serve" /\ f.ints = ints
  BY <1>3 DEF Frame, Frames, CallInv
<1> HIDE DEF A
<1>5. ints' = FALSE /\ ints' \in BOOLEAN /\ own' = TRUE
  BY Zenon DEF CallInv, int2eh
<1>6. CASE stack = <<>> /\ int2eh(stack, num, arg)
  <2>1. stack' = Append(stack, f) /\ ints' = FALSE
    BY <1>3, <1>6 DEF int2eh
  <2>2. /\ stack' \in Seq(Frames(A)) /\ Len(stack') = 1 /\ stack'[1] = f
    BY <1>2, <1>4, <1>6, <2>1
  <2>3. \E B : stack' \in Seq(Frames(B))
    BY <2>2
  <2>4. stack' # <<>> /\ Top' = f
    BY <2>2 DEF Top
  <2> QED
    BY <1>4, <1>5, <2>1, <2>2, <2>3, <2>4 DEF CallInv
<1>7. CASE InScript /\ int2eh([stack EXCEPT ![Len(stack)].lines = @ - 1], num, arg)
  <2>1. PICK n \in Nat \ {0} : n = Len(stack) /\ DOMAIN stack = 1 .. n
    BY <1>2, <1>7 DEF InScript
  <2>2. stack[n] \in Frames(A) /\ stack[n].pc = "script" /\ ints = FALSE
    BY <1>2, <1>7, <2>1 DEF InScript, Top, CallInv
  <2>3. PICK g : g = [stack[n] EXCEPT !.lines = @ - 1]
    OBVIOUS
  <2>4. g \in Frames(A) /\ g.pc = "script" /\ g.ints = stack[n].ints
    BY <2>2, <2>3 DEF Frames
  <2>5. PICK s : s = [stack EXCEPT ![Len(stack)].lines = @ - 1]
    OBVIOUS
  <2>6. s = [stack EXCEPT ![n] = g]
    BY <1>2, <2>1, <2>3, <2>5
  <2>7. /\ s \in Seq(Frames(A)) /\ Len(s) = n /\ s[n] = g
        /\ \A i \in 1 .. n - 1 : s[i] = stack[i]
    BY <1>2, <2>1, <2>4, <2>6, ExceptSeq
  <2>8. stack' = Append(s, f) /\ ints' = FALSE
    BY <1>3, <1>7, <2>5 DEF int2eh
  <2>9. /\ stack' \in Seq(Frames(A)) /\ Len(stack') = n + 1 /\ stack'[n + 1] = f
        /\ stack'[n] = g /\ \A i \in 1 .. n - 1 : stack'[i] = stack[i]
    BY <1>4, <2>1, <2>7, <2>8, AppendProperties
  <2>10. \A i \in 1 .. n : stack'[i].pc = "script"
    BY <2>1, <2>4, <2>9 DEF CallInv
  <2>11. \A i \in 2 .. n + 1 : stack'[i].ints = FALSE
    BY <1>4, <2>1, <2>2, <2>4, <2>9 DEF CallInv
  <2>12. Top' = f /\ stack' # <<>>
    BY <2>1, <2>9 DEF Top
  <2>13. \E B : stack' \in Seq(Frames(B))
    BY <2>9
  <2> QED
    BY <1>4, <1>5, <2>1, <2>8, <2>9, <2>10, <2>11, <2>12, <2>13 DEF CallInv
<1> QED
  BY <1>6, <1>7

\* A service, or the last line of a script, gives its result.
LEMMA CallFinishes ==
  ASSUME CallInv, stack # <<>>, NEW r \in Int, Finish(r), UNCHANGED <<ints, tmp_res, own>>
  PROVE  CallInv'
<1>1. PICK A : stack \in Seq(Frames(A))
  BY DEF CallInv
<1>2. PICK f : f = [Top EXCEPT !.pc = "store", !.res = r]
  OBVIOUS
<1>3. Top \in Frames(A) /\ Len(stack) \in DOMAIN stack
  BY <1>1 DEF Top
<1>4. f \in Frames(A) /\ f.ints = Top.ints /\ f.pc = "store"
  BY <1>2, <1>3 DEF Frames
<1>5. stack' = [stack EXCEPT ![Len(stack)] = f]
  BY <1>1, <1>2, <1>3 DEF Finish, Top
<1> QED
  BY <1>1, <1>4, <1>5, TopChanges

\* Every step of a call.
LEMMA CallGoesOn ==
  ASSUME CallInv, CallStep
  PROVE  CallInv'
<1>1. PICK A : stack \in Seq(Frames(A))
  BY DEF CallInv
<1>2. CASE syscall_dispatcher \/ ScriptEnds
  <2>1. CASE LdrExecBat /\ \E n \in 0 .. MaxLines :
                stack' = [stack EXCEPT ![Len(stack)].pc = "script", ![Len(stack)].lines = n]
    <3>1. PICK n \in 0 .. MaxLines :
                stack' = [stack EXCEPT ![Len(stack)].pc = "script", ![Len(stack)].lines = n]
      BY <2>1
    <3>2. n \in Int
      BY SyscallAssumption
    <3>3. stack # <<>> /\ UNCHANGED <<ints, tmp_res, own>>
      BY <2>1 DEF LdrExecBat, Serving
    <3>4. PICK f : f = [Top EXCEPT !.pc = "script", !.lines = n]
      OBVIOUS
    <3>5. Top \in Frames(A) /\ Len(stack) \in DOMAIN stack
      BY <1>1, <3>3 DEF Top
    <3>6. f \in Frames(A) /\ f.ints = Top.ints /\ f.pc = "script"
      BY <3>4, <3>5, <3>2 DEF Frames
    <3>7. stack' = [stack EXCEPT ![Len(stack)] = f]
      BY <1>1, <3>1, <3>4, <3>5 DEF Top
    <3> QED
      BY <1>1, <3>3, <3>6, <3>7, TopChanges
  <2>2. CASE ~(LdrExecBat /\ \E n \in 0 .. MaxLines :
                stack' = [stack EXCEPT ![Len(stack)].pc = "script", ![Len(stack)].lines = n])
    <3>1. stack # <<>> /\ UNCHANGED <<ints, tmp_res, own>>
      BY <1>2
         DEF syscall_dispatcher, ScriptEnds, InScript, Serving, TestSyscall,
             NtDisplayStringSyscall, LdrLoadPe, LdrExecBat, NtOpenFileSyscall,
             NtShutdownSystemSyscall, NoService
    <3>2. \E r \in Int : Finish(r)
      BY <1>2, <2>2
         DEF syscall_dispatcher, ScriptEnds, TestSyscall,
             NtDisplayStringSyscall, LdrLoadPe, LdrExecBat, NtOpenFileSyscall,
             NtShutdownSystemSyscall, NoService, STATUS_SUCCESS, NULL_ENTRY, ENTRY,
             STATUS_INVALID_SYSTEM_SERVICE, STATUS_NOT_SUPPORTED, STATUS_INVALID_PARAMETER,
             STATUS_OBJECT_NAME_NOT_FOUND
    <3> QED
      BY <3>1, <3>2, CallFinishes
  <2> QED
    BY <2>1, <2>2
<1>3. CASE StoreResult
  <2>1. /\ stack # <<>> /\ tmp_res' = Top.res /\ UNCHANGED <<ints, own>>
        /\ stack' = [stack EXCEPT ![Len(stack)].pc = "load"]
    BY <1>3 DEF StoreResult
  <2>2. PICK f : f = [Top EXCEPT !.pc = "load"]
    OBVIOUS
  <2>3. Top \in Frames(A) /\ Len(stack) \in DOMAIN stack
    BY <1>1, <2>1 DEF Top
  <2>4. f \in Frames(A) /\ f.ints = Top.ints /\ f.res = Top.res
    BY <2>2, <2>3 DEF Frames
  <2>5. stack' = [stack EXCEPT ![Len(stack)] = f]
    BY <1>1, <2>1, <2>2, <2>3 DEF Top
  <2> QED
    BY <1>1, <2>1, <2>4, <2>5, TopChanges
<1>4. CASE Return
  <2>1. /\ stack # <<>> /\ Top.pc = "load" /\ ints' = Top.ints /\ stack' = Front(stack)
        /\ own' = (own /\ tmp_res = Top.res)
    BY <1>4 DEF Return
  <2>2. PICK n \in Nat \ {0} : n = Len(stack) /\ DOMAIN stack = 1 .. n
    BY <1>1, <2>1
  <2>3. own' = TRUE
    BY <2>1 DEF CallInv
  <2>4. stack[n] \in Frames(A) /\ Top = stack[n]
    BY <1>1, <2>2 DEF Top
  <2>5. ints' \in BOOLEAN /\ (n > 1 => ints' = FALSE)
    BY <2>1, <2>2, <2>4 DEF Frames, CallInv
  <2>6. /\ stack' \in Seq(Frames(A)) /\ Len(stack') = n - 1
        /\ \A i \in 1 .. n - 1 : stack'[i] = stack[i]
    <3>1. stack' = SubSeq(stack, 1, n - 1) /\ \A i \in 1 .. n - 1 : stack[i] \in Frames(A)
      BY <1>1, <2>1, <2>2 DEF Front
    <3>2. /\ stack' \in Seq(Frames(A))
          /\ Len(stack') = IF 1 <= n - 1 THEN (n - 1) - 1 + 1 ELSE 0
          /\ \A i \in 1 .. (n - 1) - 1 + 1 : stack'[i] = stack[1 + i - 1]
      BY <3>1, SubSeqProperties
    <3> QED
      BY <3>2
  <2>7. stack' # <<>> => n > 1 /\ Top' = stack[n - 1]
    BY <2>6 DEF Top
  <2>8. stack' # <<>> => Top'.pc = "script"
    BY <2>2, <2>7 DEF CallInv
  <2>9. /\ \A i \in 1 .. Len(stack') - 1 : stack'[i].pc = "script"
        /\ \A i \in 2 .. Len(stack') : stack'[i].ints = FALSE
    BY <2>2, <2>6 DEF CallInv
  <2> QED
    BY <2>3, <2>5, <2>6, <2>7, <2>8, <2>9 DEF CallInv
<1> QED
  BY <1>2, <1>3, <1>4 DEF CallStep

\* A command's calls.
LEMMA ProgramCalls ==
  ASSUME CallInv, Program
  PROVE  CallInv'
<1>1. UNCHANGED <<tmp_res, own>>
  BY DEF Program, NtQuerySystemInformation
<1>2. UNCHANGED <<stack, ints>> \/ \E n, arg : Trap(n, arg)
  BY DEF Program, NtQuerySystemInformation, SystemPrint, Stub, NtAcceptConnectPort,
         NtAccessCheckAndAuditAlarm, NtAccessCheckByType, NtAccessCheckByTypeAndAuditAlarm,
         NtAccessCheckByTypeResultList
<1>3. CASE UNCHANGED <<stack, ints>>
  BY <1>1, <1>3 DEF CallInv, Top
<1>4. CASE \E n, arg : Trap(n, arg)
  BY <1>1, <1>4, CallEnters DEF Trap
<1> QED
  BY <1>2, <1>3, <1>4

\* Every step keeps the calls in this order,
LEMMA CallInvStep == CallInv /\ [BootNext]_bootVars => CallInv'
<1> SUFFICES ASSUME CallInv, [BootNext]_bootVars PROVE CallInv'
  OBVIOUS
<1>1. CASE UNCHANGED <<stack, ints, tmp_res, own>>
  BY <1>1 DEF CallInv, Top
<1>2. CASE UNCHANGED bootVars
  BY <1>1, <1>2 DEF bootVars, syscallVars
<1>3. CASE kernel_main
  <2>1. CASE enable_interrupts
    <3>1. stack = <<>> /\ stack' = stack /\ UNCHANGED <<tmp_res, own>> /\ ints' = TRUE
      BY <2>1 DEF enable_interrupts, Runs
    <3> QED
      BY <3>1 DEF CallInv
  <2> QED
    BY <1>1, <1>3, <2>1
       DEF kernel_main, EarlyInit, DiskInit, ReadBootIni, ClearTerminal, SetMode, AllocateBuffer,
           PrintCpu, LoadPsfFont, KiUserInit, syscallVars
<1>4. CASE Shell
  <2>1. CASE \E arg : stack = <<>> /\ int2eh(stack, 46, arg) /\ UNCHANGED <<tmp_res, own>>
    BY <2>1, CallEnters
  <2> QED
    BY <1>1, <1>4, <2>1 DEF Shell, Greet, Poll, CommandEnds, Runs, syscallVars
<1>5. CASE RunCommand
  BY <1>5, ProgramCalls DEF RunCommand
<1>6. CASE Crash
  BY <1>6 DEF Crash, KeBugCheck, CallInv, Top
<1>7. CASE SystemCall
  BY <1>7, CallGoesOn DEF SystemCall
<1>8. CASE PressKey \/ int21h \/ no_interrupt
  BY <1>1, <1>8 DEF PressKey, int21h, no_interrupt, syscallVars
<1>9. CASE DiskInterrupt
  <2>1. stack = <<>> /\ int2eh(stack, 0, 0) /\ UNCHANGED <<tmp_res, own>>
    BY <1>9 DEF DiskInterrupt, CallInv
  <2> QED
    BY <2>1, CallEnters
<1> QED
  BY <1>2, <1>3, <1>4, <1>5, <1>6, <1>7, <1>8, <1>9 DEF BootNext

\* and at first there are none.
LEMMA CallInvHolds == BootInit => CallInv
<1> SUFFICES ASSUME BootInit PROVE CallInv
  OBVIOUS
<1>1. stack = <<>> /\ ints = FALSE /\ own = TRUE
  BY DEF BootInit, SyscallInit
<1>2. stack \in Seq(Frames({})) /\ Len(stack) = 0
  BY <1>1
<1>3. \E A : stack \in Seq(Frames(A))
  BY <1>2
<1>4. /\ \A i \in 1 .. Len(stack) - 1 : stack[i].pc = "script"
      /\ \A i \in 2 .. Len(stack) : stack[i].ints = FALSE
  BY <1>2
<1> QED
  BY <1>1, <1>3, <1>4, Zenon DEF CallInv

\* Every caller gets the result of its own call, however deep scripts nest and
\* although tmp_res is one variable for all (int2eh in idt.asm).
THEOREM CallersGetTheirResults == BootSpec => []ResultIsOwn
<1>1. CallInv => ResultIsOwn
  BY DEF CallInv, ResultIsOwn
<1> QED
  BY <1>1, CallInvHolds, CallInvStep, PTL DEF BootSpec

-----------------------------------------------------------------------------
(* The interrupt controllers *)

\* Once the disk's interrupt has entered the kernel it stays in service.
UnaskedInv == /\ isr \subseteq {KEYBOARD, CASCADE, DISK}
              /\ unasked = 0 \/ (unasked = 1 /\ DISK \in isr)

\* Ending an interrupt of the master leaves the slave's in service.
LEMMA EoiKeepsDisk ==
  ASSUME NEW lines \in SUBSET {KEYBOARD, CASCADE, DISK}
  PROVE  Eoi(lines) \subseteq lines /\ (DISK \in lines => DISK \in Eoi(lines))
<1>1. lines \subseteq {1, 2, 14}
  BY DEF KEYBOARD, CASCADE, DISK
<1>2. CASE Master(lines) # {}
  <2>1. Master(lines) \in SUBSET Nat /\ 14 \notin Master(lines)
    <3>1. \A x \in lines : x \in Nat
      BY <1>1
    <3>2. \A x \in Master(lines) : x \in lines /\ x < 8
      BY DEF Master
    <3> QED
      BY <3>1, <3>2
  <2>2. \E x \in Master(lines) : \A y \in Master(lines) : x <= y
    BY <1>2, <2>1, LeastNumber
  <2>3. Min(Master(lines)) \in Master(lines)
    BY <2>2 DEF Min
  <2> QED
    BY <1>2, <2>1, <2>3 DEF Eoi, DISK
<1>3. CASE Master(lines) = {}
  BY <1>3 DEF Eoi
<1> QED
  BY <1>2, <1>3

\* Every step leaves an interrupt that was dispatched in service.
LEMMA UnaskedInvStep == UnaskedInv /\ [BootNext]_bootVars => UnaskedInv'
<1> SUFFICES ASSUME UnaskedInv, [BootNext]_bootVars PROVE UnaskedInv'
  OBVIOUS
<1>1. CASE int21h
  <2>1. Acknowledged(KEYBOARD) \in SUBSET {KEYBOARD, CASCADE, DISK}
        /\ isr \subseteq Acknowledged(KEYBOARD)
    BY DEF UnaskedInv, Acknowledged, Line, KEYBOARD, CASCADE, DISK
  <2>2. isr' = Eoi(Acknowledged(KEYBOARD)) /\ unasked' = unasked
    BY <1>1 DEF int21h
  <2>3. PICK lines : lines = Acknowledged(KEYBOARD)
    OBVIOUS
  <2> QED
    BY <2>1, <2>2, <2>3, EoiKeepsDisk DEF UnaskedInv
<1>2. CASE DiskInterrupt
  <2>1. DISK \notin isr
    BY <1>2 DEF DiskInterrupt, Pending, Master, UnaskedInv, DISK, KEYBOARD, CASCADE
  <2>2. isr' = isr \cup {DISK, CASCADE} /\ unasked' = IF unasked < 2 THEN unasked + 1 ELSE unasked
    BY <1>2 DEF DiskInterrupt, Acknowledged, Line, DISK
  <2> QED
    BY <2>1, <2>2 DEF UnaskedInv
<1>3. CASE no_interrupt
  <2>1. isr' = Eoi(isr) /\ unasked' = unasked
    BY <1>3 DEF no_interrupt
  <2>2. PICK lines : lines = isr
    OBVIOUS
  <2> QED
    BY <2>1, <2>2, EoiKeepsDisk DEF UnaskedInv
<1>4. CASE UNCHANGED <<isr, unasked>>
  BY <1>4 DEF UnaskedInv
<1>5. CASE kernel_main
  BY <1>4, <1>5 DEF kernel_main, EarlyInit, DiskInit, enable_interrupts, ReadBootIni,
                    ClearTerminal, SetMode, AllocateBuffer, PrintCpu, LoadPsfFont, KiUserInit
<1>6. CASE Shell \/ RunCommand \/ Crash \/ SystemCall \/ PressKey \/ UNCHANGED bootVars
  BY <1>4, <1>6 DEF Shell, Greet, Poll, CommandEnds, RunCommand, Crash, SystemCall, PressKey,
                    bootVars
<1> QED
  BY <1>1, <1>2, <1>3, <1>5, <1>6 DEF BootNext

\* The disk's interrupt enters the kernel as a system call once at most
\* (int2eh sends no end of interrupt, no_interrupt only the master's).
THEOREM OneCallUnasked == BootSpec => []OneUnaskedCall
<1>1. BootInit => UnaskedInv
  BY DEF BootInit, UnaskedInv
<1>2. UnaskedInv => OneUnaskedCall
  BY DEF UnaskedInv, OneUnaskedCall
<1> QED
  BY <1>1, <1>2, UnaskedInvStep, PTL DEF BootSpec

-----------------------------------------------------------------------------
(* The screen *)

\* The order of the steps of kernel_main.
LEMMA StepsInOrder ==
  /\ After("early") = "disk" /\ After("disk") = "sti" /\ After("sti") = "bootini"
  /\ After("bootini") = "clear" /\ After("clear") = "mode" /\ After("mode") = "buffer"
  /\ After("buffer") = "cpu" /\ After("cpu") = "font" /\ After("font") = "jump"
  /\ After("jump") = "greet"
BY DEF After, Order

\* A number that is an int stays itself.
LEMMA SignedSmall ==
  ASSUME NEW n \in Nat, n < Word \div 2
  PROVE  Signed(n) = n
<1>1. Word \in Nat \ {0}
  BY BootInisAssumption
<1>2. PICK half \in Nat : half = Word \div 2 /\ half + half <= Word
  BY <1>1, SMT
<1>3. n + half \in Nat /\ n + half < Word
  BY <1>1, <1>2
<1>4. (n + half) % Word = n + half
  BY <1>1, <1>3, Small
<1>5. (n + half) - half = n
  BY <1>2
<1> QED
  BY <1>2, <1>4, <1>5 DEF Signed

\* An int is a number.
LEMMA SignedIsInt == ASSUME NEW n \in Int PROVE Signed(n) \in Int
<1>1. Word \in Nat \ {0} /\ Word \div 2 \in Int
  BY BootInisAssumption, SMT
<1>2. (n + Word \div 2) % Word \in Nat
  BY <1>1, IntDivided
<1> QED
  BY <1>1, <1>2 DEF Signed

\* The digits of a string.
Numeral(s) == s \in Seq(Int) /\ \A i \in 1 .. Len(s) : s[i] \in Digits

\* What the loop of fetchwh holds after each digit.
LEMMA NumberRuns ==
  ASSUME NEW s, Numeral(s)
  PROVE  \E v : /\ Number(s) = v[Len(s)] /\ v[0] = 0
                /\ \A i \in 1 .. Len(s) : v[i] = Signed(10 * v[i - 1] + (s[i] - 48))
<1> DEFINE Step(u, i) == Signed(10 * u + (s[i] - 48))
           F(g) == [i \in 0 .. Len(s) |-> IF i = 0 THEN 0 ELSE Step(g[i - 1], i)]
           Loop == CHOOSE g : g = F(g)
<1>1. PICK m \in Nat : m = Len(s)
  BY DEF Numeral
<1>2. \A i \in 1 .. m, u \in Int : Step(u, i) \in Int
  <2> SUFFICES ASSUME NEW i \in 1 .. m, NEW u \in Int PROVE Step(u, i) \in Int
    OBVIOUS
  <2>1. 10 * u + (s[i] - 48) \in Int
    BY <1>1 DEF Numeral
  <2> QED
    BY <2>1, SignedIsInt
<1> HIDE DEF Step
<1> DEFINE body == [i \in 1 .. m |-> [u \in Int |-> Step(u, i)]]
<1>3. body \in Bodies(m, Int)
  BY <1>2 DEF Bodies
<1>4. PICK g \in States(m, Int) : g[0] = 0 /\ \A i \in 1 .. m : g[i] = body[i][g[i - 1]]
  <2> HIDE DEF body
  <2>0. PICK T : T = Int
    OBVIOUS
  <2>1. PICK zero \in T : zero = 0
    BY <2>0
  <2>2. body \in Bodies(m, T)
    BY <1>3, <2>0
  <2>3. \E g \in States(m, T) : g[0] = zero /\ \A i \in 1 .. m : g[i] = body[i][g[i - 1]]
    BY <2>2, LoopExists
  <2> QED
    BY <2>0, <2>1, <2>3
<1>5. g = F(g)
  <2>1. g \in [0 .. m -> Int]
    BY <1>4 DEF States
  <2>2. ASSUME NEW i \in 0 .. m PROVE g[i] = IF i = 0 THEN 0 ELSE Step(g[i - 1], i)
    <3>1. CASE i = 0
      BY <1>4, <3>1
    <3>2. CASE i # 0
      <4>1. i \in 1 .. m /\ i - 1 \in 0 .. m
        BY <3>2
      <4>2. g[i - 1] \in Int
        BY <2>1, <4>1
      <4> QED
        BY <1>4, <3>2, <4>1, <4>2, Zenon
    <3> QED
      BY <3>1, <3>2
  <2> QED
    BY <1>1, <2>1, <2>2
<1>6. Loop = F(Loop)
  BY <1>5, Zenon
<1>7. Number(s) = Loop[Len(s)]
  BY Zenon DEF Number, Step
<1> HIDE DEF Loop
<1>8. Loop[0] = 0 /\ \A i \in 1 .. m : Loop[i] = Step(Loop[i - 1], i)
  <2>1. 0 \in 0 .. Len(s) /\ \A i \in 1 .. m : i \in 0 .. Len(s) /\ i # 0
    BY <1>1
  <2> QED
    BY <1>6, <2>1, Zenon
<1> QED
  BY <1>1, <1>7, <1>8, Zenon DEF Step

\* The number the digits so far stand for.
LEMMA DecimalRuns ==
  ASSUME NEW s, Numeral(s)
  PROVE  \E v : /\ Decimal(s) = v[Len(s)] /\ v[0] = 0
                /\ \A i \in 1 .. Len(s) : v[i] = 10 * v[i - 1] + (s[i] - 48)
<1> DEFINE Step(u, i) == 10 * u + (s[i] - 48)
           F(g) == [i \in 0 .. Len(s) |-> IF i = 0 THEN 0 ELSE Step(g[i - 1], i)]
           Loop == CHOOSE g : g = F(g)
<1>1. PICK m \in Nat : m = Len(s)
  BY DEF Numeral
<1>2. \A i \in 1 .. m, u \in Int : Step(u, i) \in Int
  <2> SUFFICES ASSUME NEW i \in 1 .. m, NEW u \in Int PROVE Step(u, i) \in Int
    OBVIOUS
  <2> QED
    BY <1>1 DEF Numeral
<1> HIDE DEF Step
<1> DEFINE body == [i \in 1 .. m |-> [u \in Int |-> Step(u, i)]]
<1>3. body \in Bodies(m, Int)
  BY <1>2 DEF Bodies
<1>4. PICK g \in States(m, Int) : g[0] = 0 /\ \A i \in 1 .. m : g[i] = body[i][g[i - 1]]
  <2> HIDE DEF body
  <2>0. PICK T : T = Int
    OBVIOUS
  <2>1. PICK zero \in T : zero = 0
    BY <2>0
  <2>2. body \in Bodies(m, T)
    BY <1>3, <2>0
  <2>3. \E g \in States(m, T) : g[0] = zero /\ \A i \in 1 .. m : g[i] = body[i][g[i - 1]]
    BY <2>2, LoopExists
  <2> QED
    BY <2>0, <2>1, <2>3
<1>5. g = F(g)
  <2>1. g \in [0 .. m -> Int]
    BY <1>4 DEF States
  <2>2. ASSUME NEW i \in 0 .. m PROVE g[i] = IF i = 0 THEN 0 ELSE Step(g[i - 1], i)
    <3>1. CASE i = 0
      BY <1>4, <3>1
    <3>2. CASE i # 0
      <4>1. i \in 1 .. m /\ i - 1 \in 0 .. m
        BY <3>2
      <4>2. g[i - 1] \in Int
        BY <2>1, <4>1
      <4> QED
        BY <1>4, <3>2, <4>1, <4>2, Zenon
    <3> QED
      BY <3>1, <3>2
  <2> QED
    BY <1>1, <2>1, <2>2
<1>6. Loop = F(Loop)
  BY <1>5, Zenon
<1>7. Decimal(s) = Loop[Len(s)]
  BY Zenon DEF Decimal, Step
<1> HIDE DEF Loop
<1>8. Loop[0] = 0 /\ \A i \in 1 .. m : Loop[i] = Step(Loop[i - 1], i)
  <2>1. 0 \in 0 .. Len(s) /\ \A i \in 1 .. m : i \in 0 .. Len(s) /\ i # 0
    BY <1>1
  <2> QED
    BY <1>6, <2>1, Zenon
<1> QED
  BY <1>1, <1>7, <1>8, Zenon DEF Step

\* While a number is an int fetchwh reads it: no number before its last digit
\* is larger.
LEMMA NumberIsDecimal ==
  ASSUME NEW s, Numeral(s)
  PROVE  /\ Number(s) \in Int /\ Decimal(s) \in Nat
         /\ Decimal(s) < Word \div 2 => Number(s) = Decimal(s)
<1>1. PICK m \in Nat : m = Len(s)
  BY DEF Numeral
<1>2. PICK v : /\ Number(s) = v[m] /\ v[0] = 0
               /\ \A i \in 1 .. m : v[i] = Signed(10 * v[i - 1] + (s[i] - 48))
  BY <1>1, NumberRuns
<1>3. PICK d : /\ Decimal(s) = d[m] /\ d[0] = 0
               /\ \A i \in 1 .. m : d[i] = 10 * d[i - 1] + (s[i] - 48)
  BY <1>1, DecimalRuns
<1>4. PICK half \in Int : half = Word \div 2
  BY BootInisAssumption, SMT
<1> DEFINE S == {i \in 0 .. m : v[i] \in Int /\ d[i] \in Nat /\ (d[i] < half => v[i] = d[i])}
<1>5. 0 \in S
  BY <1>2, <1>3
<1>6. ASSUME NEW i \in 1 .. m, i - 1 \in S PROVE i \in S
  <2>1. s[i] - 48 \in 0 .. 9
    BY <1>1 DEF Numeral, Digits
  <2>2. d[i] = 10 * d[i - 1] + (s[i] - 48) /\ v[i] = Signed(10 * v[i - 1] + (s[i] - 48))
    BY <1>2, <1>3
  <2>3. d[i] \in Nat /\ d[i - 1] <= d[i]
    BY <1>6, <2>1, <2>2
  <2>4. v[i] \in Int
    <3>1. 10 * v[i - 1] + (s[i] - 48) \in Int
      BY <1>6, <2>1
    <3> QED
      BY <2>2, <3>1, SignedIsInt
  <2>5. ASSUME d[i] < half PROVE v[i] = d[i]
    <3>1. v[i - 1] = d[i - 1]
      BY <1>4, <1>6, <2>3, <2>5
    <3> QED
      BY <1>4, <2>2, <2>3, <2>5, <3>1, SignedSmall
  <2> QED
    BY <2>3, <2>4, <2>5
<1> HIDE DEF S
<1>7. \A i \in 0 .. m : i \in S
  BY <1>5, <1>6, Induction, Zenon
<1>8. m \in S
  BY <1>7
<1> QED
  BY <1>2, <1>3, <1>4, <1>8 DEF S

\* The digits end somewhere before the NUL.
LEMMA DigitsEnd ==
  ASSUME NEW s \in Seq(0 .. 255), NEW i \in 1 .. Len(s), s[Len(s)] = 0
  PROVE  /\ EndOfDigits(s, i) \in i .. Len(s) /\ s[EndOfDigits(s, i)] \notin Digits
         /\ \A j \in i .. EndOfDigits(s, i) - 1 : s[j] \in Digits
<1> DEFINE E == {j \in i .. Len(s) : s[j] \notin Digits}
<1>1. E \in SUBSET Nat /\ Len(s) \in E
  BY DEF Digits
<1>2. PICK x \in E : \A y \in E : x <= y
  BY <1>1, LeastNumber
<1>3. Min(E) \in E /\ \A y \in E : Min(E) <= y
  BY <1>2, Zenon DEF Min
<1>4. EndOfDigits(s, i) = Min(E)
  BY DEF EndOfDigits
<1> HIDE DEF E
<1>5. PICK e \in Int : e = Min(E)
  <2>1. Min(E) \in Int
    BY <1>3 DEF E
  <2> QED
    BY <2>1
<1>6. e \in i .. Len(s) /\ s[e] \notin Digits /\ \A j \in i .. Len(s) : s[j] \notin Digits => e <= j
  BY <1>3, <1>5 DEF E
<1> QED
  BY <1>4, <1>5, <1>6

\* A part of a string that has only digits.
LEMMA PartIsNumeral ==
  ASSUME NEW s \in Seq(0 .. 255), NEW a \in 1 .. Len(s) + 1, NEW b \in a - 1 .. Len(s),
         \A j \in a .. b : s[j] \in Digits
  PROVE  Numeral(SubSeq(s, a, b))
<1> DEFINE n == b - a + 1
<1>1. a \in Int /\ b \in Int /\ \A i \in 1 .. n : a + i - 1 \in a .. b
  OBVIOUS
<1>2. \A i \in a .. b : s[i] \in Int
  BY DEF Digits
<1>3. /\ SubSeq(s, a, b) \in Seq(Int) /\ Len(SubSeq(s, a, b)) = n
      /\ \A i \in 1 .. n : SubSeq(s, a, b)[i] = s[a + i - 1]
  <2>1. Len(SubSeq(s, a, b)) = IF a <= b THEN b - a + 1 ELSE 0
    BY <1>1, <1>2, SubSeqProperties
  <2>2. Len(SubSeq(s, a, b)) = n
    BY <2>1
  <2>3. /\ SubSeq(s, a, b) \in Seq(Int)
        /\ \A i \in 1 .. n : SubSeq(s, a, b)[i] = s[a + i - 1]
    BY <1>1, <1>2, SubSeqProperties
  <2> QED
    BY <2>2, <2>3
<1> HIDE DEF n
<1> QED
  BY <1>1, <1>3 DEF Numeral

\* What fetchwh leaves are ints, and what boot.ini asks for where that is ints.
LEMMA FetchedIsAsked ==
  ASSUME NEW ini \in BootInis \ {NoFile}, ini.settings, ini.res # <<>>
  PROVE  /\ fetchwh(ini.res) \in [w : Int, h : Int] /\ Asked(ini) \in [w : Int, h : Int]
         /\ {Asked(ini).w, Asked(ini).h} \subseteq 0 .. (Word \div 2) - 1
               => fetchwh(ini.res) = Asked(ini)
<1> DEFINE s == ini.res
<1>1. s \in Seq(0 .. 255) /\ s[Len(s)] = 0 /\ Len(s) \in Nat /\ 1 \in 1 .. Len(s)
  BY BootInisAssumption
<1>2. PICK half \in Int : half = Word \div 2
  BY BootInisAssumption, SMT
<1> HIDE DEF s
<1>3. PICK x \in 1 .. Len(s) : /\ x = EndOfDigits(s, 1) /\ s[x] \notin Digits
                               /\ \A j \in 1 .. x - 1 : s[j] \in Digits
  BY <1>1, DigitsEnd
<1>4. Numeral(WidthOf(s))
  <2>1. 1 \in 1 .. Len(s) + 1 /\ x - 1 \in 1 - 1 .. Len(s)
    BY <1>1
  <2> QED
    BY <1>1, <1>3, <2>1, PartIsNumeral DEF WidthOf
<1>5. /\ Number(WidthOf(s)) \in Int /\ Decimal(WidthOf(s)) \in Nat
      /\ Decimal(WidthOf(s)) < half => Number(WidthOf(s)) = Decimal(WidthOf(s))
  BY <1>2, <1>4, NumberIsDecimal
<1>6. CASE HasHeight(s)
  <2>1. x < Len(s)
    BY <1>1, <1>3, <1>6 DEF HasHeight, LetterX
  <2>2. x + 1 \in 1 .. Len(s)
    BY <1>1, <2>1
  <2>3. PICK e \in x + 1 .. Len(s) : /\ e = EndOfDigits(s, x + 1)
                                     /\ \A j \in x + 1 .. e - 1 : s[j] \in Digits
    BY <1>1, <2>2, DigitsEnd
  <2>4. Numeral(HeightOf(s))
    <3>1. x + 1 \in 1 .. Len(s) + 1 /\ e - 1 \in (x + 1) - 1 .. Len(s)
      BY <1>1, <2>2
    <3> QED
      BY <1>1, <1>3, <2>3, <3>1, PartIsNumeral DEF HeightOf
  <2>5. /\ Number(HeightOf(s)) \in Int /\ Decimal(HeightOf(s)) \in Nat
        /\ Decimal(HeightOf(s)) < half => Number(HeightOf(s)) = Decimal(HeightOf(s))
    BY <1>2, <2>4, NumberIsDecimal
  <2>6. /\ fetchwh(s) = [w |-> Number(WidthOf(s)), h |-> Number(HeightOf(s))]
        /\ Asked(ini) = [w |-> Decimal(WidthOf(s)), h |-> Decimal(HeightOf(s))]
    BY <1>6 DEF fetchwh, Asked, Size, s
  <2> QED
    BY <1>2, <1>5, <2>5, <2>6 DEF s
<1>7. CASE ~HasHeight(s)
  <2>1. fetchwh(s) = [w |-> Number(WidthOf(s)), h |-> 0] /\ Asked(ini) = [w |-> -1, h |-> -1]
    BY <1>7 DEF fetchwh, Asked, Size, NULL, s
  <2> QED
    BY <1>5, <2>1 DEF s
<1> QED
  BY <1>6, <1>7

\* The size of a buffer is never what stands for NULL, and is the screen's while
\* its bits are an int.
LEMMA BufferSize ==
  ASSUME NEW r \in [w : Int, h : Int]
  PROVE  /\ NULL \notin BufferBytes(r)
         /\ r.w \in Nat /\ r.h \in Nat /\ 32 * (r.w * r.h) < Word \div 2
               => BufferBytes(r) = {4 * (r.w * r.h)}
<1>1. PICK n \in Int : n = r.w * r.h
  OBVIOUS
<1>2. Word \in Nat \ {0}
  BY BootInisAssumption
<1>3. PICK a \in Int : a = Signed(32 * n) \div 8
  BY SignedIsInt, SMT
<1>4. BufferBytes(r) = {a % Word, (4 * n) % Word}
  BY <1>1, <1>3 DEF BufferBytes
<1>5. a % Word \in Nat /\ (4 * n) % Word \in Nat
  BY <1>2, IntDivided
<1>6. NULL \notin BufferBytes(r)
  BY <1>4, <1>5 DEF NULL
<1>7. ASSUME r.w \in Nat, r.h \in Nat, 32 * n < Word \div 2 PROVE BufferBytes(r) = {4 * n}
  <2>1. n \in Nat
    BY <1>1, <1>7
  <2>2. Signed(32 * n) = 32 * n
    BY <1>7, <2>1, SignedSmall
  <2>3. a = 4 * n
    BY <1>3, <2>1, <2>2
  <2>4. 4 * n \in Nat /\ 4 * n < Word
    <3>1. Word \div 2 <= Word
      BY <1>2, SMT
    <3> QED
      BY <1>2, <1>7, <2>1, <3>1
  <2>5. (4 * n) % Word = 4 * n
    BY <1>2, <2>4, Small
  <2> QED
    BY <1>4, <2>3, <2>5
<1> QED
  BY <1>1, <1>6, <1>7

Running == {"greet", "user", "command"}

\* What has been done when kernel_main comes to each step.
ScreenInv ==
  /\ res \in [w : Int, h : Int] /\ asked \in [w : Int, h : Int]
  /\ {asked.w, asked.h} \subseteq 0 .. (Word \div 2) - 1 => res = asked
  /\ kpc \in {"early", "disk", "sti", "bootini"} => res = Size(640, 480)
  /\ kpc \in {"buffer", "cpu", "font", "jump"} \cup Running => mode = res
  /\ kpc \in {"cpu", "font", "jump"} \cup Running => buffer \in BufferBytes(res)
  /\ font = TRUE => kpc \in {"jump"} \cup Running
  /\ font \in BOOLEAN
  /\ "text" \notin wild

\* Text is not drawn through NULL: a font means a buffer.
LEMMA NoWildText ==
  ASSUME ScreenInv, NEW what, wild' = Draws(what)
  PROVE  "text" \notin wild'
<1>1. font = TRUE => buffer # NULL
  <2>1. NULL \notin BufferBytes(res)
    BY BufferSize DEF ScreenInv
  <2> QED
    BY <2>1, Zenon DEF ScreenInv
<1>2. "text" \notin wild
  BY DEF ScreenInv
<1>3. CASE what = "text"
  BY <1>1, <1>2, <1>3 DEF Draws, ScreenInv
<1>4. CASE what # "text"
  BY <1>2, <1>4 DEF Draws
<1> QED
  BY <1>3, <1>4

\* Every step of the boot finds what the ones before it made,
LEMMA ScreenInvStep == ScreenInv /\ [BootNext]_bootVars => ScreenInv'
<1> SUFFICES ASSUME ScreenInv, [BootNext]_bootVars PROVE ScreenInv'
  OBVIOUS
<1>1. ASSUME UNCHANGED Screen, "text" \notin wild', kpc' = kpc PROVE ScreenInv'
  BY <1>1 DEF ScreenInv, Screen
<1>2. "text" \notin wild
  BY DEF ScreenInv
<1>3. CASE kernel_main
  <2> USE StepsInOrder
  <2>1. CASE EarlyInit \/ DiskInit \/ enable_interrupts \/ ClearTerminal
    <3>1. /\ UNCHANGED <<res, mode, buffer, font, asked, wild>>
          /\ kpc' \in {"disk", "sti", "bootini", "mode"}
          /\ kpc \in {"early", "disk", "sti", "clear"}
          /\ kpc = "clear" => kpc' = "mode"
      BY <2>1 DEF EarlyInit, DiskInit, enable_interrupts, ClearTerminal, Screen, Runs
    <3> QED
      BY <3>1 DEF ScreenInv, Running
  <2>2. CASE ReadBootIni
    <3>1. /\ UNCHANGED <<mode, buffer, font, wild>> /\ kpc' \in {"failed", "clear"}
          /\ kpc = "bootini"
      BY <2>2 DEF ReadBootIni, Runs
    <3>2. /\ res' \in [w : Int, h : Int] /\ asked' \in [w : Int, h : Int]
          /\ {asked'.w, asked'.h} \subseteq 0 .. (Word \div 2) - 1 => res' = asked'
      <4>1. CASE UNCHANGED <<res, asked>>
        BY <4>1 DEF ScreenInv
      <4>2. ASSUME NEW ini \in BootInis \ {NoFile}, asked' = Asked(ini),
                   ini.settings, ini.res # <<>>, res' = fetchwh(ini.res)
            PROVE  <3>2!:
        BY <4>2, FetchedIsAsked
      <4>3. ASSUME NEW ini \in BootInis \ {NoFile}, asked' = Asked(ini),
                   ~(ini.settings /\ ini.res # <<>>), res' = res
            PROVE  <3>2!:
        <5>1. asked' = Size(640, 480) /\ res' = Size(640, 480)
          BY <3>1, <4>3 DEF ScreenInv, Asked
        <5> QED
          BY <5>1, <4>3 DEF ScreenInv
      <4> QED
        BY <2>2, <4>1, <4>2, <4>3 DEF ReadBootIni
    <3> QED
      BY <3>1, <3>2 DEF ScreenInv, Running
  <2>3. CASE SetMode
    BY <2>3 DEF SetMode, Runs, ScreenInv, Running
  <2>4. CASE AllocateBuffer
    <3>1. /\ UNCHANGED <<res, mode, font, asked, wild>> /\ kpc = "buffer"
          /\ \/ kpc' = "cpu" /\ buffer' \in BufferBytes(res)
             \/ kpc' = "failed"
      BY <2>4 DEF AllocateBuffer, Runs
    <3> QED
      BY <3>1, Zenon DEF ScreenInv, Running
  <2>5. CASE PrintCpu \/ KiUserInit
    BY <2>5 DEF PrintCpu, KiUserInit, Screen, Runs, ScreenInv, Running
  <2>6. CASE LoadPsfFont
    BY <2>6 DEF LoadPsfFont, Runs, ScreenInv, Running
  <2> QED
    BY <1>3, <2>1, <2>2, <2>3, <2>4, <2>5, <2>6 DEF kernel_main
<1>4. CASE Shell
  <2>1. UNCHANGED Screen /\ wild' = wild /\ kpc \in Running /\ kpc' \in Running
    BY <1>4 DEF Shell, Greet, Poll, CommandEnds, Runs, Running
  <2> QED
    BY <2>1 DEF ScreenInv, Screen, Running
<1>5. CASE SystemCall
  <2>1. UNCHANGED Screen /\ kpc' = kpc /\ (wild' = wild \/ wild' = Draws("text"))
    BY <1>5 DEF SystemCall
  <2> QED
    BY <1>1, <1>2, <2>1, NoWildText
<1>6. CASE int21h
  <2>1. UNCHANGED Screen /\ kpc' = kpc /\ (wild' = wild \/ \E what : wild' = Draws(what))
    BY <1>6 DEF int21h, Handle, Submit
  <2> QED
    BY <1>1, <1>2, <2>1, NoWildText
<1>7. CASE RunCommand \/ Crash \/ PressKey \/ DiskInterrupt \/ no_interrupt \/ UNCHANGED bootVars
  BY <1>1, <1>2, <1>7 DEF RunCommand, Crash, PressKey, DiskInterrupt, no_interrupt, bootVars, Screen
<1> QED
  BY <1>3, <1>4, <1>5, <1>6, <1>7 DEF BootNext

\* and so the invariant holds throughout.
LEMMA ScreenInvariance == BootSpec => []ScreenInv
<1>1. BootInit => ScreenInv
  <2> SUFFICES ASSUME BootInit PROVE ScreenInv
    OBVIOUS
  <2>1. /\ kpc = "early" /\ font = FALSE /\ wild = {} /\ buffer = NULL
        /\ res = Size(640, 480) /\ asked = Size(640, 480)
    BY DEF BootInit
  <2>2. Size(640, 480) \in [w : Int, h : Int]
    BY SMT DEF Size
  <2> QED
    BY <2>1, <2>2 DEF ScreenInv, Running
<1> QED
  BY <1>1, ScreenInvStep, PTL DEF BootSpec

\* No glyph is drawn before there is a buffer to draw in, at whatever moment of
\* the boot a key or the disk interrupts (RenderChar, int21h_handler).
THEOREM NoTextBeforeBuffer == BootSpec => []TextWaitsForBuffer
<1>1. ScreenInv => TextWaitsForBuffer
  BY DEF ScreenInv, TextWaitsForBuffer
<1> QED
  BY <1>1, ScreenInvariance, PTL

\* In user mode w and h, display and buffer have the size boot.ini asks for, for
\* every boot.ini whose width, height and bits are ints (fetchwh's loops, and
\* kernel_main's order of reading, setting and allocating).
THEOREM BufferIsTheScreens == BootSpec => []BufferMatchesScreen
<1>1. ScreenInv => BufferMatchesScreen
  <2> SUFFICES ASSUME ScreenInv, kpc \in Running,
                      {asked.w, asked.h} \subseteq 0 .. (Word \div 2) - 1,
                      32 * (asked.w * asked.h) < Word \div 2
               PROVE  res = asked /\ mode = asked /\ buffer = 4 * (asked.w * asked.h)
    BY Zenon DEF BufferMatchesScreen, Running
  <2>1. res = asked /\ mode = asked /\ buffer \in BufferBytes(asked)
    BY Zenon DEF ScreenInv
  <2>2. asked.w \in Nat /\ asked.h \in Nat /\ asked \in [w : Int, h : Int]
    BY SMT DEF ScreenInv
  <2>3. BufferBytes(asked) = {4 * (asked.w * asked.h)}
    BY <2>2, BufferSize
  <2> QED
    BY <2>1, <2>3
<1> QED
  BY <1>1, ScreenInvariance, PTL

-----------------------------------------------------------------------------
(* The text terminal *)

\* The characters that can come to be printed.
StringChars   == UNION {Range(s) : s \in Strings}
GreetingChars == UNION {Range(s) : s \in Range(Greetings)}
Chars == {Blank, NL, "s", "f", "m", "e", "t", "["} \cup StringChars \cup GreetingChars

Spots == Nat \X Cols

Terminals == [mem : [Rows -> [Cols -> Chars]], row : Rows, col : Cols]

\* A place is a row and a column of the screen.
LEMMA SpotsAre == \A p \in Spots : p[1] \in Nat /\ p[2] \in Nat /\ p[2] < VGA_WIDTH /\ p = <<p[1], p[2]>>
BY TerminalAssumption DEF Spots, Cols

\* Behind a place is a place.
LEMMA NextSpot == \A p \in Spots : \A c : NextPlace(p, c) \in Spots
<1> SUFFICES ASSUME NEW p \in Spots, NEW c PROVE NextPlace(p, c) \in Spots
  OBVIOUS
<1>1. PICK a \in Nat, b \in Cols : p = <<a, b>>
  BY DEF Spots
<1>2. a + 1 \in Nat /\ 0 \in Cols /\ (b # VGA_WIDTH - 1 => b + 1 \in Cols)
  BY TerminalAssumption DEF Cols
<1> QED
  BY <1>1, <1>2 DEF NextPlace, Spots

\* p comes before q on the page.
Before(p, q) == p[1] < q[1] \/ (p[1] = q[1] /\ p[2] < q[2])

\* The places of a text, one after the other.
LEMMA PlacesAre ==
  ASSUME NEW text \in Seq(Chars), NEW n \in Nat, n = Len(text)
  PROVE  /\ Places(text)[0] = <<0, 0>>
         /\ \A i \in 1 .. n : Places(text)[i] = NextPlace(Places(text)[i - 1], text[i])
         /\ \A i \in 0 .. n : Places(text)[i] \in Spots
<1> DEFINE base == <<0, 0>>
           F(g) == [i \in 0 .. Len(text) |-> IF i = 0 THEN base ELSE NextPlace(g[i - 1], text[i])]
           Place == CHOOSE g : g = F(g)
           body == [i \in 1 .. n |-> [p \in Spots |-> NextPlace(p, text[i])]]
<1>1. base \in Spots
  BY TerminalAssumption DEF Spots, Cols
<1>2. body \in Bodies(n, Spots)
  BY NextSpot DEF Bodies
<1>3. PICK g \in States(n, Spots) : g[0] = base /\ \A i \in 1 .. n : g[i] = body[i][g[i - 1]]
  <2> HIDE DEF body, base
  <2> QED
    BY <1>1, <1>2, LoopExists
<1>4. g = F(g)
  <2>1. g \in [0 .. n -> Spots]
    BY <1>3 DEF States
  <2>2. ASSUME NEW i \in 0 .. n PROVE g[i] = IF i = 0 THEN base ELSE NextPlace(g[i - 1], text[i])
    <3>1. CASE i = 0
      BY <1>3, <3>1
    <3>2. CASE i # 0
      <4>1. i \in 1 .. n /\ i - 1 \in 0 .. n
        BY <3>2
      <4>2. g[i - 1] \in Spots
        BY <2>1, <4>1
      <4> QED
        BY <1>3, <3>2, <4>1, <4>2, Zenon
    <3> QED
      BY <3>1, <3>2
  <2> QED
    BY <2>1, <2>2
<1>5. Place = F(Place)
  BY <1>4, Zenon
<1>6. Places(text) = Place
  BY Zenon DEF Places
<1> HIDE DEF Place
<1>7. Place[0] = base /\ \A i \in 1 .. n : Place[i] = NextPlace(Place[i - 1], text[i])
  <2>1. 0 \in 0 .. Len(text) /\ \A i \in 1 .. n : i \in 0 .. Len(text) /\ i # 0
    OBVIOUS
  <2> QED
    BY <1>5, <2>1, Zenon
<1> DEFINE S == {i \in 0 .. n : Place[i] \in Spots}
<1> HIDE DEF base
<1>8. 0 \in S
  <2>1. Place[0] \in Spots /\ 0 \in 0 .. n
    BY <1>1, <1>7
  <2> QED
    BY <2>1
<1>9. \A i \in 1 .. n : i - 1 \in S => i \in S
  <2> SUFFICES ASSUME NEW i \in 1 .. n, i - 1 \in S PROVE i \in S
    OBVIOUS
  <2>1. Place[i] \in Spots
    BY <1>7, NextSpot
  <2> QED
    BY <2>1
<1> HIDE DEF S
<1>10. \A i \in 0 .. n : i \in S
  BY <1>8, <1>9, Induction, Zenon
<1> QED
  BY <1>6, <1>7, <1>10 DEF S, base

\* A character moves the text on.
LEMMA NextIsBehind == \A p \in Spots : \A c : Before(p, NextPlace(p, c))
<1> SUFFICES ASSUME NEW p \in Spots, NEW c PROVE Before(p, NextPlace(p, c))
  OBVIOUS
<1>1. PICK a \in Nat, b \in Nat : p = <<a, b>>
  BY TerminalAssumption DEF Spots, Cols
<1> QED
  BY <1>1 DEF NextPlace, Before

\* Later characters stand behind earlier ones.
LEMMA PlacesAscend ==
  ASSUME NEW text \in Seq(Chars), NEW n \in Nat, n = Len(text), NEW j \in 0 .. n
  PROVE  \A i \in 0 .. n : j < i => Before(Places(text)[j], Places(text)[i])
<1> DEFINE P == Places(text)
           S == {i \in 0 .. n : j < i => Before(P[j], P[i])}
<1>1. /\ \A i \in 1 .. n : P[i] = NextPlace(P[i - 1], text[i])
      /\ \A i \in 0 .. n : P[i] \in Spots
  BY PlacesAre
<1> HIDE DEF P
<1>2. 0 \in S
  OBVIOUS
<1>3. ASSUME NEW i \in 1 .. n, i - 1 \in S PROVE i \in S
  <2>1. i - 1 \in 0 .. n /\ i \in 0 .. n
    OBVIOUS
  <2>2. P[i - 1] \in Spots /\ P[i] \in Spots /\ P[j] \in Spots
    BY <1>1, <2>1
  <2>3. Before(P[i - 1], P[i])
    BY <1>1, <2>2, NextIsBehind
  <2>4. CASE j < i - 1
    <3>1. Before(P[j], P[i - 1])
      BY <1>3, <2>4
    <3>2. Before(P[j], P[i])
      BY <2>2, <2>3, <3>1, SpotsAre DEF Before
    <3> QED
      BY <2>1, <3>2
  <2>5. CASE ~(j < i - 1)
    <3>1. j < i => j = i - 1
      BY <2>5
    <3> QED
      BY <2>1, <2>3, <3>1
  <2> QED
    BY <2>4, <2>5
<1> HIDE DEF S
<1>4. \A i \in 1 .. n : i - 1 \in S => i \in S
  BY <1>3
<1>5. \A i \in 0 .. n : i \in S
  BY <1>2, <1>4, Induction, Zenon
<1> QED
  BY <1>5 DEF S, P

\* A text that goes on keeps its places.
LEMMA PlacesKept ==
  ASSUME NEW text \in Seq(Chars), NEW n \in Nat, n = Len(text), NEW c \in Chars
  PROVE  /\ \A i \in 0 .. n : Places(Append(text, c))[i] = Places(text)[i]
         /\ Places(Append(text, c))[n + 1] = NextPlace(Places(text)[n], c)
<1> DEFINE P == Places(text)
           more == Append(text, c)
           Q == Places(more)
           S == {i \in 0 .. n : Q[i] = P[i]}
<1>1. /\ more \in Seq(Chars) /\ Len(more) = n + 1 /\ more[n + 1] = c
      /\ \A i \in 1 .. n : more[i] = text[i]
  OBVIOUS
<1>2. P[0] = <<0, 0>> /\ \A i \in 1 .. n : P[i] = NextPlace(P[i - 1], text[i])
  BY PlacesAre
<1>3. Q[0] = <<0, 0>> /\ \A i \in 1 .. n + 1 : Q[i] = NextPlace(Q[i - 1], more[i])
  <2> HIDE DEF more
  <2> QED
    BY <1>1, PlacesAre
<1> HIDE DEF P, Q, more
<1>4. 0 \in S
  BY <1>2, <1>3
<1>5. ASSUME NEW i \in 1 .. n, i - 1 \in S PROVE i \in S
  <2>1. Q[i] = NextPlace(Q[i - 1], more[i]) /\ P[i] = NextPlace(P[i - 1], text[i])
    BY <1>2, <1>3
  <2>2. Q[i - 1] = P[i - 1] /\ more[i] = text[i] /\ i \in 0 .. n
    BY <1>1, <1>5
  <2> QED
    BY <2>1, <2>2
<1> HIDE DEF S
<1>6. \A i \in 1 .. n : i - 1 \in S => i \in S
  BY <1>5
<1>7. \A i \in 0 .. n : i \in S
  BY <1>4, <1>6, Induction, Zenon
<1>8. \A i \in 0 .. n : Q[i] = P[i]
  BY <1>7 DEF S
<1>9. Q[n + 1] = NextPlace(Q[(n + 1) - 1], more[n + 1])
  BY <1>3
<1>10. Q[n + 1] = NextPlace(P[n], c)
  <2>1. (n + 1) - 1 = n
    OBVIOUS
  <2> QED
    BY <1>1, <1>8, <1>9, <2>1
<1> QED
  BY <1>8, <1>10 DEF P, Q, more

\* The characters of a text at a place.
At(text, place) == {i \in DOMAIN text : text[i] # NL /\ Places(text)[i - 1] = place}

\* Where the text goes on, and behind it, the page is blank.
LEMMA BlankBehind ==
  ASSUME NEW text \in Seq(Chars), NEW n \in Nat, n = Len(text), NEW place \in Spots,
         place = Places(text)[n] \/ Before(Places(text)[n], place)
  PROVE  At(text, place) = {} /\ OnPage(text, place) = Blank
<1> DEFINE P == Places(text)
<1>1. ASSUME NEW i \in At(text, place) PROVE FALSE
  <2>1. i \in 1 .. n /\ P[i - 1] = place
    BY <1>1 DEF At
  <2>2. i - 1 \in 0 .. n /\ n \in 0 .. n /\ i - 1 < n
    BY <2>1
  <2>3. Before(P[i - 1], P[n])
    BY <2>2, PlacesAscend
  <2>4. P[n] \in Spots
    BY <2>2, PlacesAre
  <2> HIDE DEF P
  <2>5. Before(place, P[n]) /\ (place = P[n] \/ Before(P[n], place))
    BY <2>1, <2>3 DEF P
  <2> QED
    BY <2>4, <2>5, SpotsAre DEF Before
<1> QED
  BY <1>1 DEF At, OnPage

\* A character goes where the text goes on, and changes no other place.
LEMMA PageGrows ==
  ASSUME NEW text \in Seq(Chars), NEW n \in Nat, n = Len(text), NEW c \in Chars, NEW place \in Spots
  PROVE  OnPage(Append(text, c), place) = IF c # NL /\ place = Places(text)[n] THEN c
                                          ELSE OnPage(text, place)
<1> DEFINE P == Places(text)
           more == Append(text, c)
<1>1. /\ DOMAIN more = 1 .. n + 1 /\ more[n + 1] = c /\ DOMAIN text = 1 .. n
      /\ \A i \in 1 .. n : more[i] = text[i]
  OBVIOUS
<1>2. \A i \in 0 .. n : Places(more)[i] = P[i]
  BY PlacesKept
<1> HIDE DEF more
<1>3. CASE c # NL /\ place = P[n]
  <2>1. At(text, place) = {}
    BY <1>3, BlankBehind
  <2> HIDE DEF P
  <2>2. ASSUME NEW i PROVE i \in At(more, place) <=> i = n + 1
    <3>1. CASE i \in 1 .. n
      <4>1. i - 1 \in 0 .. n /\ i # n + 1 /\ i \in DOMAIN more /\ i \in DOMAIN text
        BY <1>1, <3>1
      <4> QED
        BY <1>1, <1>2, <2>1, <3>1, <4>1 DEF At, P
    <3>2. CASE i = n + 1
      <4>1. i - 1 = n /\ n \in 0 .. n /\ i \in DOMAIN more
        BY <1>1, <3>2
      <4> QED
        BY <1>1, <1>2, <1>3, <3>2, <4>1 DEF At
    <3>3. CASE i \notin 1 .. n /\ i # n + 1
      BY <1>1, <3>3 DEF At
    <3> QED
      BY <3>1, <3>2, <3>3
  <2>3. At(more, place) = {n + 1}
    BY <2>2
  <2>4. OnPage(more, place) = more[n + 1]
    BY <2>3 DEF OnPage, At
  <2> QED
    BY <1>1, <1>3, <2>4 DEF more, P
<1>4. CASE ~(c # NL /\ place = P[n])
  <2> HIDE DEF P
  <2>1. ASSUME NEW i PROVE i \in At(more, place) <=> i \in At(text, place)
    <3>1. CASE i \in 1 .. n
      <4>1. i - 1 \in 0 .. n /\ i \in DOMAIN more /\ i \in DOMAIN text
        BY <1>1, <3>1
      <4> QED
        BY <1>1, <1>2, <3>1, <4>1 DEF At, P
    <3>2. CASE i = n + 1
      <4>1. i - 1 = n /\ n \in 0 .. n /\ i \in DOMAIN more /\ i \notin DOMAIN text
        BY <1>1, <3>2
      <4> QED
        BY <1>1, <1>2, <1>4, <3>2, <4>1 DEF At
    <3>3. CASE i \notin 1 .. n /\ i # n + 1
      BY <1>1, <3>3 DEF At
    <3> QED
      BY <3>1, <3>2, <3>3
  <2>2. At(more, place) = At(text, place)
    BY <2>1
  <2>3. CASE At(text, place) = {}
    BY <1>4, <2>2, <2>3 DEF OnPage, At, more, P
  <2>4. CASE At(text, place) # {}
    <3>1. PICK i : i = CHOOSE j \in At(text, place) : TRUE
      OBVIOUS
    <3>2. i \in At(text, place)
      BY <2>4, <3>1
    <3>3. more[i] = text[i]
      BY <1>1, <3>2 DEF At
    <3>4. OnPage(text, place) = text[i]
      BY <2>4, <3>1, Zenon DEF OnPage, At
    <3>5. OnPage(more, place) = more[i]
      <4>1. OnPage(more, place) = IF At(more, place) = {} THEN Blank
                                  ELSE more[CHOOSE j \in At(more, place) : TRUE]
        BY Zenon DEF OnPage, At
      <4> QED
        BY <2>2, <2>4, <3>1, <4>1, Zenon
    <3> QED
      BY <1>4, <3>3, <3>4, <3>5 DEF more, P
  <2> QED
    BY <2>3, <2>4
<1> QED
  BY <1>3, <1>4

\* The place and the lines a terminal that shows a text has.
LEMMA ShowsAre ==
  ASSUME NEW t \in Terminals, NEW text \in Seq(Chars), NEW n \in Nat, n = Len(text),
         NEW row \in Nat, NEW col \in Cols, Places(text)[n] = <<row, col>>,
         NEW top \in Nat, top = TopLine(row)
  PROVE  Shows(t, text) <=> /\ t.row + top = row /\ t.col = col
                            /\ \A y \in Rows, x \in Cols : t.mem[y][x] = OnPage(text, <<top + y, x>>)
<1>1. <<row, col>>[1] = row
  OBVIOUS
<1>2. Shows(t, text) <=> /\ <<t.row + top, t.col>> = <<row, col>>
                         /\ \A y \in Rows, x \in Cols : t.mem[y][x] = OnPage(text, <<top + y, x>>)
  BY <1>1, Zenon DEF Shows
<1>3. <<t.row + top, t.col>> = <<row, col>> <=> t.row + top = row /\ t.col = col
  OBVIOUS
<1> QED
  BY <1>2, <1>3, Zenon

\* The next row begins at column 0.
LEMMA NextRowIs ==
  ASSUME NEW mem, NEW row, NEW col
  PROVE  NextRow([mem |-> mem, row |-> row, col |-> col]) = [mem |-> mem, row |-> row + 1, col |-> 0]
<1>1. PICK t : t = [mem |-> mem, row |-> row, col |-> col]
  OBVIOUS
<1>2. PICK u : u = NextRow(t)
  OBVIOUS
<1>3. u \in [mem : {mem}, row : {row + 1}, col : {0}]
  BY <1>1, <1>2 DEF NextRow
<1>4. u = [mem |-> mem, row |-> row + 1, col |-> 0]
  BY <1>3
<1> QED
  BY <1>1, <1>2, <1>4

\* A terminal that shows a text shows it with a character more once that is
\* written.
LEMMA WriteShows ==
  ASSUME NEW t \in Terminals, NEW text \in Seq(Chars), NEW c \in Chars, Shows(t, text)
  PROVE  /\ terminal_writechar(t, c) \in Terminals
         /\ Shows(terminal_writechar(t, c), Append(text, c))
<1>1. PICK n \in Nat : n = Len(text)
  OBVIOUS
<1>2. PICK row \in Nat, col \in Cols : Places(text)[n] = <<row, col>>
  BY <1>1, PlacesAre DEF Spots
<1>3. PICK h \in Nat : h = VGA_HEIGHT /\ h > 0
  BY TerminalAssumption
<1>4. PICK w \in Nat : w = VGA_WIDTH /\ w > 0
  BY TerminalAssumption
<1>5. PICK top \in Nat : top = TopLine(row)
  <2>1. TopLine(row) = IF row < h THEN 0 ELSE row - (h - 1)
    BY <1>3 DEF TopLine
  <2>2. TopLine(row) \in Nat
    BY <1>3, <2>1
  <2> QED
    BY <2>2
<1>6. t.row \in Rows /\ t.col \in Cols /\ t.mem \in [Rows -> [Cols -> Chars]]
  BY DEF Terminals
<1>7. /\ t.row + top = row /\ t.col = col
      /\ \A y \in Rows, x \in Cols : t.mem[y][x] = OnPage(text, <<top + y, x>>)
  BY <1>1, <1>2, <1>5, ShowsAre
<1>8. PICK more : more = Append(text, c)
  OBVIOUS
<1>9. PICK m \in Nat : /\ more \in Seq(Chars) /\ m = Len(more)
                       /\ Places(more)[m] = NextPlace(<<row, col>>, c)
  <2>1. more \in Seq(Chars) /\ n + 1 = Len(more)
    BY <1>1, <1>8
  <2>2. Places(more)[n + 1] = NextPlace(Places(text)[n], c)
    BY <1>1, <1>8, PlacesKept
  <2>3. PICK m : m = n + 1
    OBVIOUS
  <2> QED
    BY <1>2, <2>1, <2>2, <2>3
\* What the terminal's memory is once c is put, and what the page has then.
<1> DEFINE mem == IF c = NL THEN t.mem ELSE [t.mem EXCEPT ![t.row][t.col] = c]
<1>10. mem \in [Rows -> [Cols -> Chars]]
  BY <1>6
<1>11. \A y \in Rows, x \in Cols : mem[y][x] = OnPage(more, <<top + y, x>>)
  <2> SUFFICES ASSUME NEW y \in Rows, NEW x \in Cols PROVE mem[y][x] = OnPage(more, <<top + y, x>>)
    OBVIOUS
  <2>1. <<top + y, x>> \in Spots
    BY <1>3 DEF Spots, Rows
  <2>2. OnPage(more, <<top + y, x>>) = IF c # NL /\ <<top + y, x>> = <<row, col>> THEN c
                                       ELSE OnPage(text, <<top + y, x>>)
    <3>1. PICK place \in Spots : place = <<top + y, x>>
      BY <2>1
    <3>2. OnPage(more, place) = IF c # NL /\ place = Places(text)[n] THEN c
                                ELSE OnPage(text, place)
      BY <1>1, <1>8, PageGrows
    <3> QED
      BY <1>2, <3>1, <3>2, Zenon
  <2>3. <<top + y, x>> = <<row, col>> <=> y = t.row /\ x = t.col
    <3>1. y \in Int /\ t.row \in Int /\ top \in Int /\ row \in Int
      BY <1>3, <1>6 DEF Rows
    <3>2. top + y = row <=> y = t.row
      BY <1>7, <3>1
    <3> QED
      BY <1>7, <3>2
  <2>4. mem[y][x] = IF c # NL /\ y = t.row /\ x = t.col THEN c ELSE t.mem[y][x]
    BY <1>6
  <2> QED
    BY <1>7, <2>2, <2>3, <2>4, Zenon
<1>12. CASE ~(c = NL \/ col = w - 1)
  <2>1. col + 1 \in Cols
    BY <1>4, <1>12 DEF Cols
  <2>2. terminal_writechar(t, c) = [mem |-> mem, row |-> t.row, col |-> col + 1]
    <3>1. t = [mem |-> t.mem, row |-> t.row, col |-> t.col]
      BY DEF Terminals
    <3>2. ~(t.col + 1 >= VGA_WIDTH) /\ ~(t.row >= VGA_HEIGHT) /\ c # NL
      BY <1>3, <1>4, <1>6, <1>7, <1>12 DEF Cols, Rows
    <3>3. PICK u : u = [mem |-> mem, row |-> t.row, col |-> t.col + 1]
      OBVIOUS
    <3>4. PICK put : put = terminal_putchar(t, c)
      OBVIOUS
    <3>5. put = [mem |-> mem, row |-> t.row, col |-> t.col]
      BY <3>1, <3>2, <3>4 DEF terminal_putchar
    <3>6. terminal_writechar(t, c) = ScrollIfBelow([put EXCEPT !.col = @ + 1])
      <4>1. ~(put.col + 1 >= VGA_WIDTH)
        BY <3>2, <3>5
      <4> QED
        BY <3>2, <3>4, <4>1, Zenon DEF terminal_writechar
    <3>7. [put EXCEPT !.col = @ + 1] = u
      BY <3>3, <3>5
    <3> QED
      BY <1>7, <3>2, <3>3, <3>6, <3>7 DEF ScrollIfBelow
  <2>3. PICK u : u = terminal_writechar(t, c)
    OBVIOUS
  <2>4. u \in Terminals /\ u.row = t.row /\ u.col = col + 1 /\ u.mem = mem
    BY <1>6, <1>10, <2>1, <2>2, <2>3 DEF Terminals
  <2>5. NextPlace(<<row, col>>, c) = <<row, col + 1>>
    BY <1>4, <1>12 DEF NextPlace
  <2> HIDE DEF mem
  <2>6. Shows(u, more)
    <3>1. PICK col2 \in Cols : col2 = col + 1
      BY <2>1
    <3>2. Places(more)[m] = <<row, col2>>
      BY <1>9, <2>5, <3>1
    <3>3. /\ u.row + top = row /\ u.col = col2
          /\ \A y \in Rows, x \in Cols : u.mem[y][x] = OnPage(more, <<top + y, x>>)
      BY <1>7, <1>11, <2>4, <3>1
    <3> QED
      BY <1>5, <1>9, <2>4, <3>2, <3>3, ShowsAre
  <2> QED
    BY <1>8, <2>3, <2>4, <2>6
<1>13. ASSUME c = NL \/ col = w - 1
       PROVE  /\ NextPlace(<<row, col>>, c) = <<row + 1, 0>> /\ 0 \in Cols
              /\ terminal_writechar(t, c) = ScrollIfBelow([mem |-> mem, row |-> t.row + 1, col |-> 0])
  <2>1. NextPlace(<<row, col>>, c) = <<row + 1, 0>> /\ 0 \in Cols
    BY <1>4, <1>13 DEF NextPlace, Cols
  <2>2. t = [mem |-> t.mem, row |-> t.row, col |-> t.col]
    BY DEF Terminals
  <2>3. CASE c = NL
    <3>1. terminal_writechar(t, c) = ScrollIfBelow(NextRow(t))
      BY <2>3, Zenon DEF terminal_writechar
    <3>2. NextRow(t) = [mem |-> mem, row |-> t.row + 1, col |-> 0]
      BY <2>2, <2>3, NextRowIs, Zenon
    <3> QED
      BY <2>1, <3>1, <3>2
  <2>4. CASE c # NL
    <3>1. t.col + 1 >= VGA_WIDTH
      BY <1>4, <1>7, <1>13, <2>4
    <3>2. PICK put : put = terminal_putchar(t, c)
      OBVIOUS
    <3>3. put = [mem |-> mem, row |-> t.row, col |-> t.col]
      BY <2>2, <2>4, <3>2 DEF terminal_putchar
    <3>4. put.col + 1 >= VGA_WIDTH
      BY <3>1, <3>3
    <3>5. terminal_writechar(t, c) = ScrollIfBelow(NextRow(put))
      BY <2>4, <3>2, <3>4, Zenon DEF terminal_writechar
    <3>6. NextRow(put) = [mem |-> mem, row |-> t.row + 1, col |-> 0]
      BY <3>3, NextRowIs, Zenon
    <3> QED
      BY <2>1, <3>5, <3>6
  <2> QED
    BY <2>3, <2>4
<1>14. CASE (c = NL \/ col = w - 1) /\ t.row + 1 < h
  <2>1. t.row + 1 \in Rows /\ top = 0 /\ TopLine(row + 1) = 0
    BY <1>3, <1>5, <1>6, <1>7, <1>14 DEF Rows, TopLine
  <2>2. PICK u : u = [mem |-> mem, row |-> t.row + 1, col |-> 0]
    OBVIOUS
  <2>3. terminal_writechar(t, c) = u
    BY <1>3, <1>6, <1>13, <1>14, <2>2 DEF ScrollIfBelow, Rows
  <2>4. u \in Terminals /\ u.row = t.row + 1 /\ u.col = 0 /\ u.mem = mem
    BY <1>10, <1>13, <1>14, <2>1, <2>2 DEF Terminals
  <2>5. Places(more)[m] = <<row + 1, 0>> /\ row + 1 \in Nat /\ u.row + top = row + 1
    <3>1. t.row \in Int /\ t.row + top = row
      BY <1>3, <1>6, <1>7 DEF Rows
    <3>2. u.row + top = row + 1
      <4>1. u.row = t.row + 1
        BY <2>4
      <4>2. (t.row + 1) + top = row + 1
        BY <3>1
      <4> QED
        BY <4>1, <4>2
    <3>3. Places(more)[m] = <<row + 1, 0>>
      BY <1>9, <1>13, <1>14
    <3> QED
      BY <3>2, <3>3
  <2> HIDE DEF mem
  <2>6. Shows(u, more)
    <3>1. PICK row2 \in Nat, col2 \in Cols : row2 = row + 1 /\ col2 = 0
      BY <1>13, <1>14
    <3>2. /\ Places(more)[m] = <<row2, col2>> /\ u.row + top = row2
          /\ top = TopLine(row2) /\ u.col = col2
      BY <1>13, <1>14, <2>1, <2>4, <2>5, <3>1
    <3>3. \A y \in Rows, x \in Cols : u.mem[y][x] = OnPage(more, <<top + y, x>>)
      BY <1>11, <2>4
    <3> QED
      BY <1>9, <2>4, <3>2, <3>3, ShowsAre
  <2> QED
    BY <1>8, <2>3, <2>4, <2>6
<1>15. CASE (c = NL \/ col = w - 1) /\ ~(t.row + 1 < h)
  <2>1. t.row = h - 1 /\ TopLine(row + 1) = top + 1 /\ top + 1 \in Nat
    BY <1>3, <1>5, <1>6, <1>7, <1>15 DEF Rows, TopLine
  <2>2. PICK u : u = [mem |-> terminal_scroll(mem), row |-> h - 1, col |-> 0]
    OBVIOUS
  <2>3. terminal_writechar(t, c) = u
    <3>1. t.row + 1 >= VGA_HEIGHT
      BY <1>3, <2>1
    <3> HIDE DEF mem
    <3> QED
      BY <1>3, <1>13, <1>15, <2>2, <3>1 DEF ScrollIfBelow
  <2> HIDE DEF mem
  <2>4. terminal_scroll(mem) \in [Rows -> [Cols -> Chars]]
    <3>1. \A y \in Rows : y < VGA_HEIGHT - 1 => y + 1 \in Rows
      BY <1>3 DEF Rows
    <3>2. [x \in Cols |-> Blank] \in [Cols -> Chars]
      BY DEF Chars
    <3> QED
      BY <1>10, <3>1, <3>2 DEF terminal_scroll
  <2>5. u \in Terminals /\ u.row = h - 1 /\ u.col = 0 /\ u.mem = terminal_scroll(mem)
    BY <1>3, <1>13, <1>15, <2>2, <2>4 DEF Terminals, Rows
  <2>6. Places(more)[m] = <<row + 1, 0>> /\ row + 1 \in Nat /\ u.row + (top + 1) = row + 1
    BY <1>3, <1>7, <1>9, <1>13, <1>15, <2>1, <2>5
  <2>7. ASSUME NEW y \in Rows, NEW x \in Cols PROVE u.mem[y][x] = OnPage(more, <<(top + 1) + y, x>>)
    <3>1. CASE y < h - 1
      <4>1. y + 1 \in Rows /\ (top + 1) + y = top + (y + 1)
        BY <1>3, <3>1 DEF Rows
      <4>2. u.mem[y] = mem[y + 1]
        BY <1>3, <2>5, <3>1 DEF terminal_scroll
      <4> QED
        BY <1>11, <4>1, <4>2
    <3>2. CASE ~(y < h - 1)
      <4>1. y = h - 1 /\ (top + 1) + y = row + 1
        BY <1>3, <1>7, <2>1, <3>2 DEF Rows
      <4>2. u.mem[y][x] = Blank
        BY <1>3, <2>5, <3>2 DEF terminal_scroll
      <4>3. PICK place \in Spots : place = <<row + 1, x>>
        BY <2>6 DEF Spots
      <4>4. place = Places(more)[m] \/ Before(Places(more)[m], place)
        BY <2>6, <4>3 DEF Before, Cols
      <4>5. OnPage(more, place) = Blank
        BY <1>9, <4>4, BlankBehind
      <4> QED
        BY <4>1, <4>2, <4>3, <4>5
    <3> QED
      BY <3>1, <3>2
  <2>8. Shows(u, more)
    <3>1. PICK row2 \in Nat, top2 \in Nat, col2 \in Cols :
             row2 = row + 1 /\ top2 = top + 1 /\ col2 = 0
      BY <1>13, <1>15
    <3>2. /\ Places(more)[m] = <<row2, col2>> /\ u.row + top2 = row2
          /\ top2 = TopLine(row2) /\ u.col = col2
      BY <1>13, <1>15, <2>1, <2>5, <2>6, <3>1
    <3>3. \A y \in Rows, x \in Cols : u.mem[y][x] = OnPage(more, <<top2 + y, x>>)
      BY <2>7, <3>1
    <3>4. u \in Terminals /\ more \in Seq(Chars) /\ m = Len(more)
      BY <1>9, <2>5
    <3>5. Places(more)[m] = <<row2, col2>> /\ top2 = TopLine(row2)
      BY <3>2
    <3>6. Shows(u, more) <=> /\ u.row + top2 = row2 /\ u.col = col2
                             /\ \A y \in Rows, x \in Cols :
                                   u.mem[y][x] = OnPage(more, <<top2 + y, x>>)
      BY <3>4, <3>5, ShowsAre
    <3> QED
      BY <3>2, <3>3, <3>6, Zenon
  <2> QED
    BY <1>8, <2>3, <2>5, <2>8
<1> QED
  BY <1>12, <1>14, <1>15

\* A string that is written.
LEMMA WrittenShows ==
  ASSUME NEW t \in Terminals, NEW text \in Seq(Chars), NEW str \in Seq(Chars), Shows(t, text)
  PROVE  Written(t, str) \in Terminals /\ Shows(Written(t, str), text \o str)
<1>1. PICK n \in Nat : n = Len(str)
  OBVIOUS
<1> DEFINE F(g) == [i \in 0 .. Len(str) |-> IF i = 0 THEN t ELSE terminal_writechar(g[i - 1], str[i])]
           Writing == CHOOSE g : g = F(g)
           Step(i, u) == IF terminal_writechar(u, str[i]) \in Terminals
                         THEN terminal_writechar(u, str[i]) ELSE t
           body == [i \in 1 .. n |-> [u \in Terminals |-> Step(i, u)]]
           part(i) == text \o SubSeq(str, 1, i)
<1>2. body \in Bodies(n, Terminals)
  <2>1. \A i \in 1 .. n, u \in Terminals : Step(i, u) \in Terminals
    BY Zenon
  <2> HIDE DEF Step
  <2> QED
    BY <2>1 DEF Bodies
<1>3. PICK g \in States(n, Terminals) : g[0] = t /\ \A i \in 1 .. n : g[i] = body[i][g[i - 1]]
  <2> HIDE DEF body
  <2> QED
    BY <1>1, <1>2, LoopExists
<1>4. g \in [0 .. n -> Terminals]
  BY <1>3 DEF States
<1>5. part(0) = text /\ part(n) = text \o str
  BY <1>1
<1>6. \A i \in 1 .. n : /\ part(i) = Append(part(i - 1), str[i])
                        /\ part(i - 1) \in Seq(Chars) /\ str[i] \in Chars
  BY <1>1
<1> HIDE DEF part
<1> DEFINE S == {i \in 0 .. n : Shows(g[i], part(i)) /\ (i > 0 => g[i] = terminal_writechar(g[i - 1], str[i]))}
<1>7. 0 \in S
  BY <1>3, <1>5
<1>8. ASSUME NEW i \in 1 .. n, i - 1 \in S PROVE i \in S
  <2>1. i - 1 \in 0 .. n /\ i \in 0 .. n /\ Shows(g[i - 1], part(i - 1))
    BY <1>8
  <2>2. PICK u \in Terminals : u = g[i - 1]
    BY <1>4, <2>1
  <2>3. /\ terminal_writechar(u, str[i]) \in Terminals
        /\ Shows(terminal_writechar(u, str[i]), part(i))
    BY <1>6, <2>1, <2>2, WriteShows
  <2>4. g[i] = terminal_writechar(u, str[i])
    BY <1>3, <2>2, <2>3, Zenon
  <2> QED
    BY <2>1, <2>2, <2>3, <2>4
<1>9. \A i \in 0 .. n : i \in S
  <2> HIDE DEF S
  <2>1. \A i \in 1 .. n : i - 1 \in S => i \in S
    BY <1>8
  <2> QED
    BY <1>1, <1>7, <2>1, Induction, Zenon
<1>10. g = F(g)
  <2>1. ASSUME NEW i \in 0 .. n
        PROVE  g[i] = IF i = 0 THEN t ELSE terminal_writechar(g[i - 1], str[i])
    BY <1>3, <1>9
  <2> QED
    BY <1>1, <1>4, <2>1
<1>11. Writing = F(Writing)
  BY <1>10, Zenon
<1>12. Written(t, str) = Writing[n]
  BY <1>1, Zenon DEF Written
<1> HIDE DEF Writing
<1>13. /\ Writing[0] = t
       /\ \A i \in 1 .. n : Writing[i] = terminal_writechar(Writing[i - 1], str[i])
  <2>1. 0 \in 0 .. Len(str) /\ \A i \in 1 .. n : i \in 0 .. Len(str) /\ i # 0
    BY <1>1
  <2> QED
    BY <1>11, <2>1, Zenon
<1> DEFINE E == {i \in 0 .. n : Writing[i] = g[i]}
<1>14. 0 \in E
  BY <1>3, <1>13
<1>15. ASSUME NEW i \in 1 .. n, i - 1 \in E PROVE i \in E
  <2>1. i \in 0 .. n /\ i > 0 /\ Writing[i - 1] = g[i - 1]
    BY <1>15
  <2>2. g[i] = terminal_writechar(g[i - 1], str[i])
    BY <1>9, <2>1
  <2> QED
    BY <1>13, <2>1, <2>2
<1>16. \A i \in 0 .. n : i \in E
  <2> HIDE DEF E
  <2>1. \A i \in 1 .. n : i - 1 \in E => i \in E
    BY <1>15
  <2> QED
    BY <1>1, <1>14, <2>1, Induction, Zenon
<1>17. n \in 0 .. n /\ Writing[n] = g[n] /\ g[n] \in Terminals /\ Shows(g[n], part(n))
  BY <1>4, <1>9, <1>16
<1> QED
  BY <1>5, <1>12, <1>17

\* Text of the terminal, and of the calls and greetings still to be displayed.
TextInv ==
  /\ terminal \in Terminals /\ log \in Seq(Chars) /\ Shows(terminal, log)
  /\ \A i \in DOMAIN stack : stack[i].num = 46 => stack[i].arg \in Seq(Chars)
  /\ kpc = "greet" => budget \in 0 .. Len(Greetings)

\* The strings that are printed are texts.
LEMMA StringsOfChars ==
  /\ \A s \in Strings : s \in Seq(Chars)
  /\ \A i \in 1 .. Len(Greetings) : Greetings[i] \in Seq(Chars)
  /\ \A c \in {"s", "f", "m", "e", "t"} : <<c, NL>> \in Seq(Chars)
  /\ <<"[">> \in Seq(Chars)
<1>1. ASSUME NEW s \in Strings PROVE s \in Seq(Chars)
  <2>1. Range(s) \subseteq Chars /\ s \in Seq(Range(s))
    BY TerminalAssumption DEF Chars, StringChars
  <2> QED
    BY <2>1, SeqMonotonic
<1>2. ASSUME NEW i \in 1 .. Len(Greetings) PROVE Greetings[i] \in Seq(Chars)
  <2>1. PICK s \in Range(Greetings) : s = Greetings[i]
    BY GreetingsAssumption DEF Range
  <2>2. Range(s) \subseteq Chars /\ s \in Seq(Range(s))
    <3>1. Range(s) \in {Range(r) : r \in Range(Greetings)} /\ s \in Seq(Range(s))
      BY GreetingsAssumption, Zenon
    <3>2. Range(s) \subseteq GreetingChars
      BY <3>1, Zenon DEF GreetingChars
    <3>3. GreetingChars \subseteq Chars
      BY DEF Chars
    <3> QED
      BY <3>1, <3>2, <3>3, Zenon
  <2> QED
    BY <2>1, <2>2, SeqMonotonic
<1>3. {"s", "f", "m", "e", "t", "[", NL} \subseteq Chars
  BY DEF Chars
<1> QED
  BY <1>1, <1>2, <1>3

\* The terminal of terminal_initialize shows the empty text.
LEMMA ClearedShows == Cleared \in Terminals /\ <<>> \in Seq(Chars) /\ Shows(Cleared, <<>>)
<1>1. PICK text \in Seq(Chars) : text = <<>>
  <2>1. <<>> \in Seq(Chars)
    OBVIOUS
  <2> QED
    BY <2>1
<1>2. PICK n \in Nat : n = 0 /\ n = Len(text)
  BY <1>1
<1>3. 0 \in Rows /\ 0 \in Cols /\ Blank \in Chars
  BY TerminalAssumption DEF Rows, Cols, Chars
<1>4. Cleared \in Terminals
  BY <1>3 DEF Cleared, Terminals
<1>5. Len(text) = 0 /\ Places(text)[0] = <<0, 0>> /\ <<0, 0>>[1] = 0
  BY <1>2, PlacesAre
<1>6. TopLine(0) = 0
  BY TerminalAssumption DEF TopLine
<1>7. <<Cleared.row + 0, Cleared.col>> = <<0, 0>>
  BY DEF Cleared
<1>8. ASSUME NEW y \in Rows, NEW x \in Cols PROVE Cleared.mem[y][x] = OnPage(text, <<0 + y, x>>)
  <2>1. Cleared.mem[y][x] = Blank
    BY DEF Cleared
  <2>2. DOMAIN text = {}
    BY <1>1
  <2> QED
    BY <2>1, <2>2 DEF OnPage
<1>9. Shows(Cleared, text)
  BY <1>5, <1>6, <1>7, <1>8, Zenon DEF Shows
<1> QED
  BY <1>1, <1>4, <1>9

\* Printing keeps what TextInv says of the terminal.
LEMMA PrintKeepsText ==
  ASSUME TextInv, NEW str \in Seq(Chars), print(str)
  PROVE  terminal' \in Terminals /\ log' \in Seq(Chars) /\ Shows(terminal', log')
BY WrittenShows DEF TextInv, print

\* The frames of a stack that changes at its top keep their text.
LEMMA TopKeepsText ==
  ASSUME TextInv, CallInv, stack # <<>>, NEW f, f.num = Top.num, f.arg = Top.arg,
         stack' = [stack EXCEPT ![Len(stack)] = f]
  PROVE  \A i \in DOMAIN stack' : stack'[i].num = 46 => stack'[i].arg \in Seq(Chars)
<1>1. PICK A : stack \in Seq(Frames(A))
  BY DEF CallInv
<1>2. PICK n \in Nat \ {0} : n = Len(stack) /\ DOMAIN stack = 1 .. n
  BY <1>1
<1>3. DOMAIN stack' = 1 .. n /\ stack'[n] = f /\ \A i \in 1 .. n - 1 : stack'[i] = stack[i]
  BY <1>1, <1>2
<1>4. \A i \in 1 .. n : stack'[i].num = stack[i].num /\ stack'[i].arg = stack[i].arg
  BY <1>2, <1>3 DEF Top
<1> QED
  BY <1>2, <1>3, <1>4 DEF TextInv

\* A call that enters brings its own text.
LEMMA EntryKeepsText ==
  ASSUME TextInv, CallInv, NEW num, NEW arg, num = 46 => arg \in Seq(Chars),
         \/ stack = <<>> /\ int2eh(stack, num, arg)
         \/ InScript /\ int2eh([stack EXCEPT ![Len(stack)].lines = @ - 1], num, arg)
  PROVE  \A i \in DOMAIN stack' : stack'[i].num = 46 => stack'[i].arg \in Seq(Chars)
<1>1. PICK A : stack \in Seq(Frames(A))
  BY DEF CallInv
<1>2. PICK f : f = Frame(num, arg)
  OBVIOUS
<1>3. f.num = num /\ f.arg = arg
  BY <1>2 DEF Frame
<1>4. PICK n \in Nat : n = Len(stack) /\ DOMAIN stack = 1 .. n
  BY <1>1
<1>5. PICK s : /\ stack' = Append(s, f) /\ s \in Seq(Frames(A)) /\ Len(s) = n
               /\ \A i \in 1 .. n : s[i].num = stack[i].num /\ s[i].arg = stack[i].arg
  <2>1. CASE stack = <<>> /\ int2eh(stack, num, arg)
    BY <1>1, <1>2, <1>4, <2>1 DEF int2eh
  <2>2. CASE InScript /\ int2eh([stack EXCEPT ![Len(stack)].lines = @ - 1], num, arg)
    <3>1. n \in 1 .. n /\ stack[n] \in Frames(A)
      BY <1>1, <1>4, <2>2 DEF InScript
    <3>2. PICK g : g = [stack[n] EXCEPT !.lines = @ - 1]
      OBVIOUS
    <3>3. g \in Frames(A) /\ g.num = stack[n].num /\ g.arg = stack[n].arg
      BY <3>1, <3>2 DEF Frames
    <3>4. PICK s : s = [stack EXCEPT ![Len(stack)].lines = @ - 1]
      OBVIOUS
    <3>5. s = [stack EXCEPT ![n] = g]
      BY <1>1, <1>4, <3>1, <3>2, <3>4
    <3>6. s \in Seq(Frames(A)) /\ Len(s) = n /\ s[n] = g /\ \A i \in 1 .. n - 1 : s[i] = stack[i]
      BY <1>1, <1>4, <3>1, <3>3, <3>5, ExceptSeq
    <3>7. stack' = Append(s, f)
      BY <1>2, <2>2, <3>4 DEF int2eh
    <3>8. \A i \in 1 .. n : s[i].num = stack[i].num /\ s[i].arg = stack[i].arg
      <4> TAKE i \in 1 .. n
      <4>1. i = n \/ i \in 1 .. n - 1
        OBVIOUS
      <4> QED
        BY <3>3, <3>6, <4>1
    <3> QED
      BY <3>6, <3>7, <3>8, Zenon
  <2> QED
    BY <2>1, <2>2
<1>6. DOMAIN stack' = 1 .. n + 1 /\ stack'[n + 1] = f /\ \A i \in 1 .. n : stack'[i] = s[i]
  BY <1>5
<1> QED
  BY <1>3, <1>4, <1>5, <1>6 DEF TextInv

\* A service, or a step of the entry, writes its text and leaves the others.
LEMMA CallKeepsText ==
  ASSUME TextInv, CallInv, CallStep, UNCHANGED <<kpc, budget>>
  PROVE  TextInv'
<1>1. PICK A : stack \in Seq(Frames(A))
  BY DEF CallInv
<1>2. stack # <<>>
  BY DEF CallStep, syscall_dispatcher, ScriptEnds, StoreResult, Return, InScript, Serving,
         TestSyscall, NtDisplayStringSyscall, LdrLoadPe, LdrExecBat, NtOpenFileSyscall,
         NtShutdownSystemSyscall, NoService
<1>3. Top \in Frames(A) /\ Len(stack) \in DOMAIN stack
  BY <1>1, <1>2 DEF Top
<1>4. terminal' \in Terminals /\ log' \in Seq(Chars) /\ Shows(terminal', log')
  <2>1. CASE TestSyscall
    <3>1. \E str \in Seq(Chars) : print(str)
      BY <2>1, StringsOfChars DEF TestSyscall, TestOutput, ExampleText, TestText
    <3> QED
      BY <3>1, PrintKeepsText
  <2>2. CASE NtDisplayStringSyscall
    <3>1. Top.num = 46
      BY <2>2 DEF NtDisplayStringSyscall, Serving, Service
    <3>2. Top.arg \in Seq(Chars) /\ print(Top.arg)
      BY <1>3, <2>2, <3>1 DEF NtDisplayStringSyscall, TextInv, Top
    <3> QED
      BY <3>2, PrintKeepsText
  <2>3. CASE UNCHANGED terminalVars
    BY <2>3 DEF TextInv, terminalVars
  <2> QED
    BY <2>1, <2>2, <2>3
       DEF CallStep, syscall_dispatcher, ScriptEnds, StoreResult, Return, LdrLoadPe, LdrExecBat,
           NtOpenFileSyscall, NtShutdownSystemSyscall, NoService
<1>5. CASE Return
  <2>1. PICK n \in Nat \ {0} : n = Len(stack) /\ DOMAIN stack = 1 .. n
    BY <1>1, <1>2
  <2>2. stack' = SubSeq(stack, 1, n - 1)
    BY <1>5, <2>1 DEF Return, Front
  <2>3. DOMAIN stack' = 1 .. n - 1 /\ \A i \in 1 .. n - 1 : stack'[i] = stack[i]
    BY <1>1, <2>1, <2>2
  <2>4. \A i \in DOMAIN stack' : stack'[i].num = 46 => stack'[i].arg \in Seq(Chars)
    BY <2>1, <2>3 DEF TextInv
  <2> QED
    BY <1>4, <2>4 DEF TextInv
<1>6. CASE ~Return
  <2>1. PICK f : /\ stack' = [stack EXCEPT ![Len(stack)] = f]
                 /\ f.num = Top.num /\ f.arg = Top.arg
    <3>1. CASE \E r : Finish(r)
      <4>1. PICK r : Finish(r)
        BY <3>1
      <4>2. PICK f : f = [Top EXCEPT !.pc = "store", !.res = r]
        OBVIOUS
      <4>3. f.num = Top.num /\ f.arg = Top.arg
        BY <1>3, <4>2 DEF Frames
      <4>4. stack' = [stack EXCEPT ![Len(stack)] = f]
        BY <1>1, <1>3, <4>1, <4>2 DEF Finish, Top
      <4> QED
        BY <4>3, <4>4
    <3>2. CASE \E n : stack' = [stack EXCEPT ![Len(stack)].pc = "script", ![Len(stack)].lines = n]
      <4>1. PICK n : stack' = [stack EXCEPT ![Len(stack)].pc = "script", ![Len(stack)].lines = n]
        BY <3>2
      <4>2. PICK f : f = [Top EXCEPT !.pc = "script", !.lines = n]
        OBVIOUS
      <4>3. f.num = Top.num /\ f.arg = Top.arg
        BY <1>3, <4>2 DEF Frames
      <4>4. stack' = [stack EXCEPT ![Len(stack)] = f]
        BY <1>1, <1>3, <4>1, <4>2 DEF Top
      <4> QED
        BY <4>3, <4>4
    <3>3. CASE StoreResult
      <4>1. PICK f : f = [Top EXCEPT !.pc = "load"]
        OBVIOUS
      <4>2. f.num = Top.num /\ f.arg = Top.arg
        BY <1>3, <4>1 DEF Frames
      <4>3. stack' = [stack EXCEPT ![Len(stack)] = f]
        BY <1>1, <1>3, <3>3, <4>1 DEF StoreResult, Top
      <4> QED
        BY <4>2, <4>3
    <3> QED
      BY <1>6, <3>1, <3>2, <3>3
         DEF CallStep, syscall_dispatcher, ScriptEnds, TestSyscall, NtDisplayStringSyscall,
             LdrLoadPe, LdrExecBat, NtOpenFileSyscall, NtShutdownSystemSyscall, NoService
  <2>2. \A i \in DOMAIN stack' : stack'[i].num = 46 => stack'[i].arg \in Seq(Chars)
    BY <1>2, <2>1, TopKeepsText
  <2> QED
    BY <1>4, <2>2 DEF TextInv
<1> QED
  BY <1>5, <1>6

\* A command's calls bring text of their own.
LEMMA ProgramKeepsText ==
  ASSUME TextInv, CallInv, Program
  PROVE  \A i \in DOMAIN stack' : stack'[i].num = 46 => stack'[i].arg \in Seq(Chars)
<1>1. \/ UNCHANGED stack
      \/ \E n, arg : Trap(n, arg) /\ (n = 46 => arg \in Seq(Chars))
  <2>1. ASSUME NEW n \in Numbers, NEW arg \in Args(n), n = 46 PROVE arg \in Seq(Chars)
    BY <2>1, StringsOfChars DEF Args
  <2>2. CASE \E n \in Numbers : \E arg \in Args(n) : Trap(n, arg)
    <3>1. PICK n \in Numbers : \E arg \in Args(n) : Trap(n, arg)
      BY <2>2, Zenon
    <3>2. PICK arg \in Args(n) : Trap(n, arg)
      BY <3>1, Zenon
    <3> QED
      BY <2>1, <3>2
  <2>3. CASE \E n \in {0, 2, 3, 4, 5} : Trap(n, 0)
    BY <2>3
  <2>4. CASE SystemPrint
    BY <2>4, StringsOfChars, Zenon DEF SystemPrint
  <2> QED
    BY <2>2, <2>3, <2>4
       DEF Program, NtQuerySystemInformation, Stub, NtAcceptConnectPort,
           NtAccessCheckAndAuditAlarm, NtAccessCheckByType, NtAccessCheckByTypeAndAuditAlarm,
           NtAccessCheckByTypeResultList
<1>2. CASE UNCHANGED stack
  BY <1>2 DEF TextInv
<1>3. CASE \E n, arg : Trap(n, arg) /\ (n = 46 => arg \in Seq(Chars))
  BY <1>3, EntryKeepsText DEF Trap
<1> QED
  BY <1>1, <1>2, <1>3

\* Every step leaves the screen showing what was printed.
LEMMA TextInvStep == TextInv /\ CallInv /\ [BootNext]_bootVars => TextInv'
<1> SUFFICES ASSUME TextInv, CallInv, [BootNext]_bootVars PROVE TextInv'
  OBVIOUS
<1>1. ASSUME UNCHANGED stack, terminal' \in Terminals, log' \in Seq(Chars), Shows(terminal', log'),
             kpc' = "greet" => budget' \in 0 .. Len(Greetings)
      PROVE  TextInv'
  BY <1>1 DEF TextInv
<1>2. ASSUME UNCHANGED terminalVars
      PROVE  terminal' \in Terminals /\ log' \in Seq(Chars) /\ Shows(terminal', log')
  BY <1>2 DEF TextInv, terminalVars
<1>3. ASSUME UNCHANGED <<terminalVars, kpc, budget>>,
             \A i \in DOMAIN stack' : stack'[i].num = 46 => stack'[i].arg \in Seq(Chars)
      PROVE  TextInv'
  BY <1>2, <1>3 DEF TextInv
<1>4. Len(Greetings) \in Nat
  BY GreetingsAssumption
<1>5. CASE kernel_main
  <2> USE StepsInOrder
  <2>1. stack' = stack
    BY <1>5 DEF kernel_main, EarlyInit, DiskInit, enable_interrupts, ReadBootIni, ClearTerminal,
                SetMode, AllocateBuffer, PrintCpu, LoadPsfFont, KiUserInit, syscallVars
  <2>2. kpc' = "greet" => budget' \in 0 .. Len(Greetings)
    BY <1>4, <1>5
       DEF kernel_main, EarlyInit, DiskInit, enable_interrupts, ReadBootIni, ClearTerminal,
           SetMode, AllocateBuffer, PrintCpu, LoadPsfFont, KiUserInit
  <2>3. CASE UNCHANGED terminalVars
    BY <1>1, <1>2, <2>1, <2>2, <2>3
  <2>4. CASE \E c \in {"s", "f", "m"} : print(<<c, NL>>)
    <3>1. \E str \in Seq(Chars) : print(str)
      BY <2>4, StringsOfChars
    <3> QED
      BY <1>1, <2>1, <2>2, <3>1, PrintKeepsText
  <2>5. CASE terminal_initialize
    <3>1. terminal' = Cleared /\ log' = <<>>
      BY <2>5 DEF terminal_initialize
    <3> QED
      BY <1>1, <2>1, <2>2, <3>1, ClearedShows
  <2> QED
    BY <1>5, <2>3, <2>4, <2>5
       DEF kernel_main, EarlyInit, DiskInit, enable_interrupts, ReadBootIni, ClearTerminal,
           SetMode, AllocateBuffer, PrintCpu, LoadPsfFont, KiUserInit, syscallVars
<1>6. CASE Shell
  <2>1. UNCHANGED terminalVars
    BY <1>6 DEF Shell, Greet, Poll, CommandEnds, syscallVars
  <2>2. CASE Greet /\ budget > 0
    <3>1. /\ kpc = "greet" /\ stack = <<>> /\ kpc' = kpc /\ budget' = budget - 1
          /\ int2eh(stack, 46, Greetings[Len(Greetings) + 1 - budget])
      BY <2>2 DEF Greet, Runs
    <3>2. budget \in 1 .. Len(Greetings) /\ Len(Greetings) + 1 - budget \in 1 .. Len(Greetings)
      BY <1>4, <2>2, <3>1 DEF TextInv
    <3>3. PICK arg \in Seq(Chars) : arg = Greetings[Len(Greetings) + 1 - budget]
      BY <3>2, StringsOfChars
    <3>4. \A i \in DOMAIN stack' : stack'[i].num = 46 => stack'[i].arg \in Seq(Chars)
      BY <3>1, <3>3, EntryKeepsText
    <3> QED
      BY <1>2, <1>4, <2>1, <3>1, <3>2, <3>4 DEF TextInv
  <2>3. CASE ~(Greet /\ budget > 0)
    <3>1. stack' = stack /\ kpc' # "greet"
      BY <1>6, <2>3 DEF Shell, Greet, Poll, CommandEnds, Runs, syscallVars
    <3> QED
      BY <1>1, <1>2, <2>1, <3>1
  <2> QED
    BY <2>2, <2>3
<1>7. CASE RunCommand
  <2>1. UNCHANGED terminalVars /\ kpc = "command" /\ kpc' = kpc
    BY <1>7 DEF RunCommand, Program, NtQuerySystemInformation
  <2>2. \A i \in DOMAIN stack' : stack'[i].num = 46 => stack'[i].arg \in Seq(Chars)
    BY <1>7, ProgramKeepsText DEF RunCommand
  <2> QED
    BY <1>2, <2>1, <2>2 DEF TextInv
<1>8. CASE Crash \/ PressKey \/ int21h \/ no_interrupt \/ UNCHANGED bootVars
  <2>1. UNCHANGED <<terminalVars, kpc, budget>> /\ stack' = stack
    BY <1>8 DEF Crash, KeBugCheck, PressKey, int21h, no_interrupt, bootVars, syscallVars
  <2> QED
    BY <1>1, <1>2, <2>1 DEF TextInv
<1>9. CASE SystemCall
  BY <1>9, CallKeepsText DEF SystemCall
<1>10. CASE DiskInterrupt
  <2>1. stack = <<>> /\ int2eh(stack, 0, 0) /\ UNCHANGED <<terminalVars, kpc, budget>>
    BY <1>10 DEF DiskInterrupt, CallInv
  <2>2. \A i \in DOMAIN stack' : stack'[i].num = 46 => stack'[i].arg \in Seq(Chars)
    BY <2>1, EntryKeepsText
  <2> QED
    BY <1>3, <2>1, <2>2
<1> QED
  BY <1>5, <1>6, <1>7, <1>8, <1>9, <1>10 DEF BootNext

\* The screen shows the last VGA_HEIGHT lines of what was printed since it was
\* cleared, for every size of the screen and all strings (terminal_writechar,
\* terminal_scroll and print, with the calls and boot messages that print).
THEOREM TerminalShowsTail == BootSpec => []ScreenShowsTail
<1>1. BootInit => CallInv /\ TextInv
  <2> SUFFICES ASSUME BootInit PROVE CallInv /\ TextInv
    OBVIOUS
  <2>1. stack = <<>> /\ kpc = "early" /\ terminal = Cleared /\ log = <<>>
    BY DEF BootInit, SyscallInit, TerminalInit
  <2>2. \A i \in DOMAIN stack : stack[i].num = 46 => stack[i].arg \in Seq(Chars)
    BY <2>1
  <2> QED
    BY <2>1, <2>2, ClearedShows, CallInvHolds DEF TextInv
<1>2. CallInv /\ TextInv /\ [BootNext]_bootVars => (CallInv /\ TextInv)'
  BY CallInvStep, TextInvStep
<1>3. TextInv => ScreenShowsTail
  BY DEF TextInv, ScreenShowsTail
<1> QED
  BY <1>1, <1>2, <1>3, PTL DEF BootSpec
=============================================================================

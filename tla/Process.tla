------------------------------ MODULE Process -------------------------------
(***************************************************************************)
(* Processes and tasks (ke/task/process.c, ke/task/task.c) over the page   *)
(* directories of module Paging: the table of processes, the doubly linked *)
(* list of tasks, and the memory all of them take from the one heap.       *)
(*                                                                         *)
(* A process, a stack and a task are a block each, of whatever size they   *)
(* are (module Heap has the sizes); kzalloc returns the lowest free one, 0 *)
(* when there is none.  The rest of the kernel takes blocks of the same    *)
(* heap and gives them back, so that a load may find any number of them.   *)
(*                                                                         *)
(* The code looks at what kzalloc returns for the process, the stack and   *)
(* the task, and not for the directory and its tables; what it writes and  *)
(* reads at address 0 without them is part of the model as far as it bears *)
(* on the heap.  Where it goes on from there by what happens to lie at     *)
(* address 0, or at -EIO, nothing more is said: the state is ruined.       *)
(*                                                                         *)
(* current_task is 0 throughout: nothing in the kernel ever sets it to a   *)
(* task, so the last branch of task_list_remove is never taken, and no     *)
(* directory but the kernel's is ever switched to.                         *)
(***************************************************************************)
EXTENDS Paging, SequencesExt

CONSTANTS MaxProcesses,   \* LIBREWIN_MAX_PROCESSES
          MaxOthers       \* bound: the blocks the rest of the kernel holds

Slots == 0 .. MaxProcesses - 1
Null  == 0

ASSUME ProcessAssumption == MaxProcesses \in Nat /\ MaxOthers \in Nat

VARIABLES task,         \* the memory at each address, seen as a struct task
          task_head, task_tail,
          processes,    \* the process in each slot, Null when there is none
          process,      \* id, stack and task of each process
          ret,          \* what the last load returned
          others,       \* the blocks the rest of the kernel has taken
          ruined,       \* nothing is known of the memory any more
          tasks         \* auxiliary: the tasks on the list, oldest first

directoryVars == <<chunk, directory, table, current, remapped>>
taskVars == <<task, task_head, task_tail, tasks>>
restVars == <<others, ruined>>
vars == <<pagingVars, taskVars, processes, process, ret, restVars>>

NoTask == [next |-> Null, prev |-> Null, page_directory |-> Null]

Init == /\ PagingInit
        /\ task = [a \in HeapBlocks |-> NoTask]
        /\ task_head = Null /\ task_tail = Null
        /\ processes = [s \in Slots |-> Null]
        /\ process = <<>>
        /\ ret = 0
        /\ others = {} /\ ruined = FALSE
        /\ tasks = <<>>

-----------------------------------------------------------------------------
(* Tasks *)

\* The n-th of the addresses a row of kzalloc calls returns.
kzalloc(n) == IF n > Cardinality(HeapBlocks \ used) THEN Null ELSE Lowest(n)[n]

\* The task's directory is d.
task_init(d) == [NoTask EXCEPT !.page_directory = d]

\* Slip: prev is left empty.
task_new_NoPrev(t, d) ==
    /\ tasks' = Append(tasks, t)
    /\ IF task_head = Null
       THEN task' = [task EXCEPT ![t] = task_init(d)] /\ task_head' = t /\ task_tail' = t
       ELSE /\ task' = [task EXCEPT ![t] = task_init(d), ![task_tail].next = t]
            /\ task_tail' = t
            /\ UNCHANGED task_head

task_new(t, d) ==
    /\ tasks' = Append(tasks, t)
    /\ IF task_head = Null
       THEN /\ task' = [task EXCEPT ![t] = task_init(d)]
            /\ task_head' = t
            /\ task_tail' = t
       ELSE /\ task' = [task EXCEPT ![t] = [task_init(d) EXCEPT !.prev = task_tail],
                                    ![task_tail].next = t]
            /\ task_tail' = t
            /\ UNCHANGED task_head

\* Slip: a task without a predecessor is taken for the first one.
task_list_remove_NoPrevIsHead(m, t) ==
    LET prev == m[t].prev  next == m[t].next IN
    /\ task' = IF prev # Null THEN [m EXCEPT ![prev].next = next] ELSE m
    /\ task_head' = IF prev = Null THEN next ELSE task_head
    /\ task_tail' = IF t = task_tail THEN prev ELSE task_tail

\* m is the memory when it is called.
task_list_remove(m, t) ==
    LET prev == m[t].prev  next == m[t].next IN
    /\ task' = IF prev # Null THEN [m EXCEPT ![prev].next = next] ELSE m
    /\ task_head' = IF t = task_head THEN next ELSE task_head
    /\ task_tail' = IF t = task_tail THEN prev ELSE task_tail

\* Slip: the stack is given back too, while its process is in the table.
TaskData_AndStack(b, flags) ==
    {b[2], b[3]} \cup paging_free_4gb(NewEntries(SubSeq(b, 4, Len(b)), flags), b[4], Null)

\* What task_free gives back of the task b[3] when task_init has failed: the
\* task's directory is 0, and at address 0 paging_new_4gb has left the address
\* of the directory b[4], in the place of the chunk it had no memory for.
TaskData(b, flags) ==
    {b[3]} \cup paging_free_4gb(NewEntries(SubSeq(b, 4, Len(b)), flags), b[4], Null)

-----------------------------------------------------------------------------
(* Processes *)

FreeSlots == {s \in Slots : processes[s] = Null}

\* Slip: the loop runs on and the index behind the table is returned.
process_get_free_slot_Behind == MaxProcesses

process_get_free_slot == CHOOSE s \in FreeSlots : \A u \in FreeSlots : s <= u

\* process_load without a free slot.
NoSlot == /\ FreeSlots = {}
          /\ ret' = -EISTKN
          /\ UNCHANGED <<pagingVars, taskVars, processes, process, restVars>>

NoProcess == /\ kzalloc(1) = Null
             /\ ret' = -ENOMEM
             /\ UNCHANGED <<pagingVars, taskVars, processes, process, restVars>>

\* No memory for the stack: the process has no task yet to be freed.
NoStack == /\ kzalloc(1) # Null /\ kzalloc(2) = Null
           /\ used' = used \cup {kzalloc(1)}
           /\ ret' = -ENOMEM
           /\ UNCHANGED <<directoryVars, taskVars, processes, process, restVars>>

\* Process, stack, task, directory, tables and chunk, in this order.
LoadBlocks == Entries + 5

\* The process in the slot.  It has no binary (process_load_binary is empty): no
\* page is mapped.
InTable(slot, p, stack, t) ==
    /\ process' = [q \in DOMAIN process \cup {p} |->
                      IF q = p THEN [id |-> slot, stack |-> stack, task |-> t] ELSE process[q]]
    /\ processes' = [processes EXCEPT ![slot] = p]
    /\ ret' = 0

Loaded(slot) ==
    LET b == Lowest(LoadBlocks) IN
    /\ kzalloc(LoadBlocks) # Null
    /\ \E flags \in FlagSets : paging_new_4gb(SubSeq(b, 4, LoadBlocks), flags)
    /\ task_new(b[3], b[4])
    /\ used' = used \cup Range(b)
    /\ InTable(slot, b[1], b[2], b[3])
    /\ UNCHANGED restVars

\* Memory for the task and not for all of its directory: task_new frees both and
\* returns -EIO.  process_load_for_slot does not recognise that as an error (what
\* it asks is ERROR_I(task) == 0) and puts the process into the table.  (Without
\* even a directory the entries are read at address 0 too, where the pages of the
\* last table have been written: their addresses are no blocks of the heap.)
Taskless(slot) ==
    LET b == [k \in 1 .. LoadBlocks |-> kzalloc(k)] IN
    /\ b[3] # Null /\ b[LoadBlocks] = Null
    /\ \E flags \in FlagSets : used' = (used \cup (Range(b) \ {Null})) \ TaskData(b, flags)
    /\ task_list_remove([task EXCEPT ![b[3]] = NoTask], b[3])
    /\ InTable(slot, b[1], b[2], -EIO)
    /\ UNCHANGED <<directoryVars, tasks, restVars>>

\* Without a task, task_free frees what it finds through address 0.  And where
\* there is one but no directory, process_map_binary reads through -EIO, the last
\* byte of the address space, which the processor may refuse.
Ruined == /\ kzalloc(2) # Null /\ kzalloc(LoadBlocks) = Null
          /\ ruined' = TRUE
          /\ UNCHANGED <<pagingVars, taskVars, processes, process, ret, others>>

process_load_for_slot(slot) == NoProcess \/ NoStack \/ Loaded(slot) \/ Taskless(slot) \/ Ruined

process_load == /\ current # Null
                /\ \/ NoSlot
                   \/ FreeSlots # {} /\ process_load_for_slot(process_get_free_slot)

-----------------------------------------------------------------------------
(* The rest of the kernel *)

\* kernel_main makes the kernel's directory and switches to it.  The heap is all
\* but empty then.
KernelDirectory ==
    /\ \/ /\ Dirs = {}
          /\ kzalloc(Entries + 2) # Null
          /\ \E flags \in FlagSets : paging_new_4gb(Lowest(Entries + 2), flags)
          /\ used' = used \cup Range(Lowest(Entries + 2))
       \/ /\ current = Null
          /\ \E d \in Dirs : paging_switch(d)
    /\ UNCHANGED <<taskVars, processes, process, ret, restVars>>

\* kernel_main sets a page to a block of the heap, process_map_binary maps a
\* range of addresses that need not be aligned.
MapPages ==
    /\ current # Null
    /\ \/ \E d \in Dirs, v \in Virtual, p \in Physical, f \in FlagSets :
             paging_is_aligned(p) /\ paging_set(d, v, p + f)
       \/ \E d \in Dirs, v \in Virtual, p, e \in Physical, f \in FlagSets :
             paging_map_to(d, v, p, e, f)
    /\ UNCHANGED <<taskVars, processes, process, ret, restVars>>

\* Buffers, file descriptors, directories read from the disk: kzalloc and kfree
\* by others.
OthersTake ==
    /\ Cardinality(others) < MaxOthers /\ kzalloc(1) # Null
    /\ others' = others \cup {kzalloc(1)}
    /\ used' = used \cup {kzalloc(1)}
    /\ UNCHANGED <<directoryVars, taskVars, processes, process, ret, ruined>>

OthersGive ==
    \E b \in others :
        /\ others' = others \ {b}
        /\ used' = used \ {b}
        /\ UNCHANGED <<directoryVars, taskVars, processes, process, ret, ruined>>

Next == \/ /\ ~ruined
           /\ KernelDirectory \/ MapPages \/ process_load \/ OthersTake \/ OthersGive
        \/ ruined /\ UNCHANGED vars

Spec == Init /\ [][Next]_vars

-----------------------------------------------------------------------------
(* Properties *)

ProcessTypeOK ==
    /\ task \in [HeapBlocks -> [next : HeapBlocks \cup {Null}, prev : HeapBlocks \cup {Null},
                                page_directory : HeapBlocks \cup {Null}]]
    /\ {task_head, task_tail} \subseteq HeapBlocks \cup {Null}
    /\ processes \in [Slots -> HeapBlocks \cup {Null}]
    /\ \A p \in DOMAIN process : process[p].id \in Slots
    /\ ret \in {0, -EISTKN, -ENOMEM}
    /\ others \subseteq HeapBlocks /\ ruined \in BOOLEAN
    /\ Range(tasks) \subseteq used

\* The list goes through the tasks that exist, oldest first, and ends: what
\* task_get_next would schedule from.
NextFollows ==
    /\ task_head = IF tasks = <<>> THEN Null ELSE Head(tasks)
    /\ task_tail = IF tasks = <<>> THEN Null ELSE Last(tasks)
    /\ \A i \in DOMAIN tasks :
          task[tasks[i]].next = IF i = Len(tasks) THEN Null ELSE tasks[i + 1]

\* Every task's prev is the task before it ("Previous task in the linked list",
\* ke/task/task.h:41), and no failed load in between has left a trace in the
\* list: task_list_remove is called for tasks that never were on it.
PrevIsPrevious ==
    \A i \in DOMAIN tasks : task[tasks[i]].prev = IF i = 1 THEN Null ELSE tasks[i - 1]

\* What is held: by the processes in the table, by the tasks with their
\* directories, and by the kernel's directory.
LiveProcesses == Range(processes) \ {Null}
ProcessMemory == UNION {{p, process[p].stack} : p \in LiveProcesses}
TaskMemory    == UNION {{t} \cup BlocksOf(task[t].page_directory) : t \in Range(tasks)}
KernelMemory  == UNION {BlocksOf(d) : d \in Dirs \ {task[t].page_directory : t \in Range(tasks)}}
Held == ProcessMemory \cup TaskMemory \cup KernelMemory

\* Processes, stacks, tasks and directories are at addresses of their own, all of
\* them still allocated, and none of them is the rest of the kernel's: no load
\* takes, and no failed load gives back, what something else is using.
OwnMemory ==
    /\ Held \subseteq used
    /\ others \subseteq used \ Held
    /\ Cardinality(Held) = 2 * Cardinality(LiveProcesses) + (Entries + 3) * Len(tasks)
                              + (IF Dirs = {} THEN 0 ELSE Entries + 2)

\* Memory is lost by a load that fails for want of a stack, one object each time
\* (under "Free the process data", ke/task/process.c:155, nothing is freed), and
\* in no other way as long as the state is known: what a load takes that returns
\* 0 has an owner, with a task or without, and where memory runs out in the task's
\* directory task_free gives back all that was taken for it.
Lost == used \ (Held \cup others)

LossesAreStacklessLoads ==
    [][\/ ruined'
       \/ /\ Lost \subseteq Lost'
          /\ Cardinality(Lost' \ Lost) <= 1
          /\ Lost' # Lost => ret' = -ENOMEM /\ processes' = processes]_vars
=============================================================================

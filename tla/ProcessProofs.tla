---------------------------- MODULE ProcessProofs ---------------------------
(***************************************************************************)
(* The properties of modules Paging and Process are proved of the running  *)
(* kernel, for any number of slots, any heap and directories of any size.  *)
(*                                                                         *)
(* The inductive invariant adds to PagingInv, of module PagingProofs, the  *)
(* list of tasks and who owns which block.  Counting is left to the end:   *)
(* that the blocks Held is made of are as many as OwnMemory says follows   *)
(* from their being apart.                                                 *)
(***************************************************************************)
EXTENDS Process, PagingProofs, SequenceTheorems

DirectoryOf(i) == task[tasks[i]].page_directory
BlocksOfProcess(p) == {p, process[p].stack}

\* The tasks on the list are different, and so are their directories.
Tasks ==
  /\ tasks \in Seq(HeapBlocks)
  /\ \A i, j \in 1 .. Len(tasks) : tasks[i] = tasks[j] => i = j
  /\ \A i \in 1 .. Len(tasks) : tasks[i] \in used /\ DirectoryOf(i) \in Dirs
  /\ \A i, j \in 1 .. Len(tasks) : DirectoryOf(i) = DirectoryOf(j) => i = j

\* The directories are the tasks' and one more, the kernel's: current_directory
\* once it has been switched to, and tasks are made only then.
KernelsOwn ==
  /\ \/ Dirs = {} /\ current = Null
     \/ \E k \in Dirs : /\ \A d \in Dirs \ {k} : \E i \in 1 .. Len(tasks) : d = DirectoryOf(i)
                        /\ \A i \in 1 .. Len(tasks) : DirectoryOf(i) # k
                        /\ current \in {k, Null}
  /\ current = Null => tasks = <<>>

\* Processes, stacks, tasks and directories are apart from each other.
Processes ==
  /\ DOMAIN process = LiveProcesses
  /\ \A p \in LiveProcesses : /\ p # process[p].stack
                              /\ BlocksOfProcess(p) \subseteq used
  /\ \A p, q \in LiveProcesses : p # q => BlocksOfProcess(p) \cap BlocksOfProcess(q) = {}
  /\ \A p \in LiveProcesses, i \in 1 .. Len(tasks) : tasks[i] \notin BlocksOfProcess(p)
  /\ \A p \in LiveProcesses, d \in Dirs : BlocksOfProcess(p) \cap BlocksOf(d) = {}
  /\ \A i \in 1 .. Len(tasks), d \in Dirs : tasks[i] \notin BlocksOf(d)

\* And so are the blocks of the rest of the kernel.
OthersApart ==
  /\ others \subseteq used
  /\ \A p \in LiveProcesses : others \cap BlocksOfProcess(p) = {}
  /\ \A i \in 1 .. Len(tasks) : tasks[i] \notin others
  /\ \A d \in Dirs : others \cap BlocksOf(d) = {}

ProcessInv == /\ PagingInv /\ ProcessTypeOK
              /\ Tasks /\ NextFollows /\ PrevIsPrevious
              /\ KernelsOwn /\ Processes /\ OthersApart

-----------------------------------------------------------------------------
(* The list of tasks *)

\* The fields of the tasks.
TaskRecord == [next : HeapBlocks \cup {Null}, prev : HeapBlocks \cup {Null},
               page_directory : HeapBlocks \cup {Null}]

TaskList == /\ task \in [HeapBlocks -> TaskRecord]
            /\ tasks \in Seq(HeapBlocks)
            /\ \A i, j \in 1 .. Len(tasks) : tasks[i] = tasks[j] => i = j
            /\ NextFollows /\ PrevIsPrevious

\* task_new puts a task that is not on the list behind the last one.
LEMMA NewTask ==
  ASSUME TaskList, NEW t \in HeapBlocks, \A i \in 1 .. Len(tasks) : tasks[i] # t,
         NEW d \in HeapBlocks, task_new(t, d)
  PROVE  /\ TaskList'
         /\ tasks' = Append(tasks, t)
         /\ task'[t].page_directory = d
         /\ \A i \in 1 .. Len(tasks) : task'[tasks[i]].page_directory = task[tasks[i]].page_directory
         /\ {task_head', task_tail'} \subseteq HeapBlocks \cup {Null}
<1>1. PICK n \in Nat : /\ n = Len(tasks) /\ DOMAIN tasks = 1 .. n
                       /\ \A i \in 1 .. n : tasks[i] \in HeapBlocks
  BY DEF TaskList
<1>2. /\ tasks' = Append(tasks, t) /\ tasks' \in Seq(HeapBlocks) /\ Len(tasks') = n + 1
      /\ DOMAIN tasks' = 1 .. n + 1
      /\ \A i \in 1 .. n : tasks'[i] = tasks[i]
      /\ tasks'[n + 1] = t /\ tasks' # <<>>
  BY <1>1, AppendProperties DEF task_new, TaskList
<1>3. Null \notin HeapBlocks
  BY PagingAssumption DEF Null
<1>4. \A i, j \in 1 .. Len(tasks') : tasks'[i] = tasks'[j] => i = j
  BY <1>1, <1>2 DEF TaskList
<1>5. CASE tasks = <<>>
  <2>1. n = 0
    BY <1>1, <1>5
  <2>2. /\ task' = [task EXCEPT ![t] = task_init(d)]
        /\ task_head' = t /\ task_tail' = t
    BY <1>5 DEF task_new, TaskList, NextFollows
  <2>3. task_init(d) = [next |-> Null, prev |-> Null, page_directory |-> d]
    BY DEF task_init, NoTask
  <2>4. task'[t] = [next |-> Null, prev |-> Null, page_directory |-> d]
    BY <2>2, <2>3 DEF TaskList
  <2>5. task' \in [HeapBlocks -> TaskRecord]
    BY <2>2, <2>3 DEF TaskList, TaskRecord
  <2>6. NextFollows' /\ PrevIsPrevious'
    BY <1>2, <2>1, <2>2, <2>4 DEF NextFollows, PrevIsPrevious, Last
  <2> QED
    BY <1>2, <1>4, <2>1, <2>2, <2>4, <2>5, <2>6 DEF TaskList
<1>6. CASE tasks # <<>>
  <2>1. n >= 1 /\ task_head = tasks[1] /\ task_tail = tasks[n] /\ task_tail # t
        /\ task_tail \in HeapBlocks
    BY <1>1, <1>6 DEF TaskList, NextFollows, Last
  <2>2. /\ task' = [task EXCEPT ![t] = [task_init(d) EXCEPT !.prev = task_tail],
                                ![task_tail].next = t]
        /\ task_tail' = t /\ task_head' = task_head
    BY <1>1, <1>3, <2>1 DEF task_new
  <2>3. [task_init(d) EXCEPT !.prev = task_tail]
          = [next |-> Null, prev |-> task_tail, page_directory |-> d]
    <3>1. task_init(d) = [next |-> Null, prev |-> Null, page_directory |-> d]
      BY DEF task_init, NoTask
    <3> QED
      BY <3>1
  <2>4. task'[t] = [next |-> Null, prev |-> task_tail, page_directory |-> d]
    BY <2>1, <2>2, <2>3 DEF TaskList
  <2>5. /\ task[task_tail] \in TaskRecord
        /\ task'[task_tail] = [task[task_tail] EXCEPT !.next = t]
        /\ \A a \in HeapBlocks \ {t, task_tail} : task'[a] = task[a]
    BY <2>1, <2>2 DEF TaskList
  <2>6. /\ task'[task_tail].next = t
        /\ task'[task_tail].prev = task[task_tail].prev
        /\ task'[task_tail].page_directory = task[task_tail].page_directory
    BY <2>5 DEF TaskRecord
  <2>7. task' \in [HeapBlocks -> TaskRecord]
    <3>1. task'[t] \in TaskRecord /\ task'[task_tail] \in TaskRecord
      BY <2>1, <2>4, <2>5 DEF TaskRecord
    <3> QED
      BY <2>2, <2>5, <3>1 DEF TaskList
  <2>8. \A i \in 1 .. n - 1 : tasks[i] \in HeapBlocks \ {t, task_tail}
    BY <1>1, <2>1 DEF TaskList
  <2>9. NextFollows'
    <3>1. task_head' = Head(tasks') /\ task_tail' = Last(tasks')
      BY <1>2, <2>1, <2>2 DEF Last
    <3>2. ASSUME NEW i \in DOMAIN tasks'
          PROVE  task'[tasks'[i]].next = IF i = Len(tasks') THEN Null ELSE tasks'[i + 1]
      <4>1. CASE i = n + 1
        BY <1>2, <2>4, <4>1
      <4>2. CASE i = n
        <5>1. tasks'[i] = task_tail /\ tasks'[i + 1] = t /\ i # Len(tasks')
          BY <1>1, <1>2, <2>1, <4>2
        <5> QED
          BY <2>6, <5>1
      <4>3. CASE i \in 1 .. n - 1
        <5>1. task[tasks[i]].next = tasks[i + 1]
          BY <1>1, <4>3 DEF TaskList, NextFollows
        <5> QED
          BY <1>1, <1>2, <2>5, <2>8, <4>3, <5>1
      <4> QED
        BY <1>1, <1>2, <4>1, <4>2, <4>3
    <3> QED
      BY <1>2, <3>1, <3>2 DEF NextFollows
  <2>10. PrevIsPrevious'
    <3>1. ASSUME NEW i \in DOMAIN tasks'
          PROVE  task'[tasks'[i]].prev = IF i = 1 THEN Null ELSE tasks'[i - 1]
      <4>1. CASE i = n + 1
        BY <1>1, <1>2, <2>1, <2>4, <4>1
      <4>2. CASE i \in 1 .. n
        <5>1. task[tasks[i]].prev = IF i = 1 THEN Null ELSE tasks[i - 1]
          BY <1>1, <4>2 DEF TaskList, PrevIsPrevious
        <5>2. task'[tasks[i]].prev = task[tasks[i]].prev
          BY <1>1, <2>1, <2>5, <2>6, <2>8, <4>2
        <5> QED
          BY <1>1, <1>2, <4>2, <5>1, <5>2
      <4> QED
        BY <1>1, <1>2, <4>1, <4>2
    <3> QED
      BY <3>1 DEF PrevIsPrevious
  <2>11. ASSUME NEW i \in 1 .. n
         PROVE  task'[tasks[i]].page_directory = task[tasks[i]].page_directory
    BY <1>1, <2>1, <2>5, <2>6, <2>8
  <2>12. task_head' \in HeapBlocks /\ task_tail' \in HeapBlocks
    BY <1>1, <2>1, <2>2
  <2> QED
    BY <1>2, <1>4, <2>4, <2>7, <2>9, <2>10, <2>11, <2>12 DEF TaskList
<1> QED
  BY <1>5, <1>6

\* task_list_remove of a task that was never on the list: what task_new undoes.
LEMMA NotListed ==
  ASSUME TaskList, NEW t \in HeapBlocks, \A i \in 1 .. Len(tasks) : tasks[i] # t,
         task_list_remove([task EXCEPT ![t] = NoTask], t), tasks' = tasks
  PROVE  /\ TaskList'
         /\ \A i \in 1 .. Len(tasks) : task'[tasks[i]] = task[tasks[i]]
         /\ task_head' = task_head /\ task_tail' = task_tail
<1>1. PICK n \in Nat : /\ n = Len(tasks) /\ DOMAIN tasks = 1 .. n
                       /\ \A i \in 1 .. n : tasks[i] \in HeapBlocks
  BY DEF TaskList
<1> DEFINE m == [task EXCEPT ![t] = NoTask]
<1>2. /\ m \in [HeapBlocks -> TaskRecord] /\ m[t].prev = Null
      /\ \A a \in HeapBlocks \ {t} : m[a] = task[a]
  <2>1. NoTask \in TaskRecord /\ NoTask.prev = Null
    BY DEF NoTask, TaskRecord, Null
  <2> QED
    BY <2>1 DEF TaskList
<1> HIDE DEF m
<1>3. t # task_head /\ t # task_tail
  <2>1. CASE tasks = <<>>
    <3>1. Null \notin HeapBlocks
      BY PagingAssumption DEF Null
    <3> QED
      BY <2>1, <3>1 DEF TaskList, NextFollows
  <2>2. CASE tasks # <<>>
    <3>1. n \in 1 .. n /\ 1 \in 1 .. n
      BY <1>1, <2>2
    <3> QED
      BY <1>1, <2>2, <3>1 DEF TaskList, NextFollows, Last
  <2> QED
    BY <2>1, <2>2
<1>4. task' = m /\ task_head' = task_head /\ task_tail' = task_tail
  <2>1. task_list_remove(m, t)
    BY DEF m
  <2> QED
    BY <1>2, <1>3, <2>1 DEF task_list_remove
<1>5. \A i \in 1 .. n : task'[tasks[i]] = task[tasks[i]]
  BY <1>1, <1>2, <1>4
<1>6. NextFollows' /\ PrevIsPrevious'
  BY <1>1, <1>4, <1>5 DEF TaskList, NextFollows, PrevIsPrevious
<1> QED
  BY <1>1, <1>2, <1>4, <1>5, <1>6 DEF TaskList

-----------------------------------------------------------------------------
(* Counting *)

\* Sets that have nothing in common and are of one size.
LEMMA DisjointUnion ==
  ASSUME NEW S, IsFiniteSet(S), NEW n \in Nat, NEW F,
         \A x \in S : IsFiniteSet(F[x]) /\ Cardinality(F[x]) = n,
         \A x, y \in S : x # y => F[x] \cap F[y] = {}
  PROVE  /\ IsFiniteSet(UNION {F[x] : x \in S})
         /\ Cardinality(UNION {F[x] : x \in S}) = Cardinality(S) * n
<1> DEFINE U == UNION {F[x] : x \in S}
           g == [x \in S |-> CHOOSE f : f \in Bijection(1 .. n, F[x])]
           h == [z \in S \X (1 .. n) |-> g[z[1]][z[2]]]
<1>1. ASSUME NEW x \in S PROVE g[x] \in Bijection(1 .. n, F[x])
  <2>1. \E f : f \in Bijection(1 .. n, F[x])
    BY FS_CardinalityType DEF ExistsBijection
  <2> QED
    BY <2>1
<1> HIDE DEF g
<1>2. ASSUME NEW x \in S
      PROVE  /\ g[x] \in [1 .. n -> F[x]]
             /\ \A i, j \in 1 .. n : g[x][i] = g[x][j] => i = j
             /\ \A y \in F[x] : \E i \in 1 .. n : g[x][i] = y
  BY <1>1, Fun_BijectionProperties
<1>3. h \in [S \X (1 .. n) -> U]
  BY <1>2
<1>4. \A y, z \in S \X (1 .. n) : h[y] = h[z] => y = z
  <2> SUFFICES ASSUME NEW x1 \in S, NEW i1 \in 1 .. n, NEW x2 \in S, NEW i2 \in 1 .. n,
                      g[x1][i1] = g[x2][i2]
               PROVE  x1 = x2 /\ i1 = i2
    OBVIOUS
  <2>1. g[x1][i1] \in F[x1] /\ g[x2][i2] \in F[x2]
    BY <1>2
  <2>2. x1 = x2
    BY <2>1
  <2> QED
    BY <1>2, <2>2
<1>5. \A u \in U : \E z \in S \X (1 .. n) : h[z] = u
  <2> SUFFICES ASSUME NEW x \in S, NEW u \in F[x] PROVE \E z \in S \X (1 .. n) : h[z] = u
    OBVIOUS
  <2>1. PICK i \in 1 .. n : g[x][i] = u
    BY <1>2
  <2>2. <<x, i>> \in S \X (1 .. n) /\ h[<<x, i>>] = u
    BY <2>1
  <2> QED
    BY <2>2
<1> HIDE DEF h, U
<1>6. h \in Bijection(S \X (1 .. n), U)
  <2>1. h \in Injection(S \X (1 .. n), U) /\ h \in Surjection(S \X (1 .. n), U)
    BY <1>3, <1>4, <1>5, Fun_IsInj, Fun_IsSurj
  <2> QED
    BY <2>1, Fun_IsBij
<1>7. IsFiniteSet(1 .. n) /\ Cardinality(1 .. n) = n
  BY FS_Interval
<1>8. IsFiniteSet(S \X (1 .. n)) /\ Cardinality(S \X (1 .. n)) = Cardinality(S) * n
  BY <1>7, FS_Product
<1>9. IsFiniteSet(U) /\ Cardinality(U) = Cardinality(S) * n
  BY <1>6, <1>8, FS_Bijection DEF ExistsBijection
<1> QED
  BY <1>9 DEF U

\* What is held, by kind.
ProcessBlocks == UNION {BlocksOfProcess(p) : p \in LiveProcesses}
TaskBlocks == {tasks[i] : i \in 1 .. Len(tasks)}
DirectoryBlocks == UNION {BlocksOf(d) : d \in Dirs}

\* What is held is what processes, tasks and directories hold.
LEMMA HeldByKind ==
  ASSUME ProcessInv
  PROVE  Held = ProcessBlocks \cup TaskBlocks \cup DirectoryBlocks
<1>1. ProcessMemory = ProcessBlocks
  BY DEF ProcessMemory, ProcessBlocks, BlocksOfProcess
<1>2. Range(tasks) = TaskBlocks
  BY DEF ProcessInv, Tasks, Range, TaskBlocks
<1>3. \A t \in TaskBlocks : task[t].page_directory \in Dirs
  BY DEF ProcessInv, Tasks, TaskBlocks, DirectoryOf
<1>4. TaskMemory \cup KernelMemory = TaskBlocks \cup DirectoryBlocks
  BY <1>2, <1>3 DEF TaskMemory, KernelMemory, DirectoryBlocks
<1> QED
  BY <1>1, <1>4 DEF Held

\* Held is what OwnMemory says it is, and in use.
LEMMA CountHeld ==
  ASSUME ProcessInv
  PROVE  OwnMemory
<1>1. Entries \in Nat \ {0} /\ IsFiniteSet(HeapBlocks) /\ used \subseteq HeapBlocks
  BY PagingAssumption DEF ProcessInv, PagingInv, TypeOK
<1>2. IsFiniteSet(used)
  BY <1>1, FS_Subset
<1>3. ProcessBlocks \subseteq used /\ TaskBlocks \subseteq used /\ DirectoryBlocks \subseteq used
  BY DEF ProcessInv, Processes, Tasks, PagingInv, Apart, ProcessBlocks, TaskBlocks, DirectoryBlocks
<1>4. IsFiniteSet(LiveProcesses) /\ IsFiniteSet(Dirs)
  <2>1. LiveProcesses \subseteq used /\ Dirs \subseteq used
    BY DEF ProcessInv, Processes, BlocksOfProcess, PagingInv, Apart, BlocksOf
  <2> QED
    BY <1>2, <2>1, FS_Subset
<1>5. Cardinality(ProcessBlocks) = Cardinality(LiveProcesses) * 2
  <2> DEFINE F == [p \in LiveProcesses |-> BlocksOfProcess(p)]
  <2>1. ASSUME NEW p \in LiveProcesses
        PROVE  IsFiniteSet(F[p]) /\ Cardinality(F[p]) = 2
    <3> DEFINE s == process[p].stack
    <3>1. F[p] = {p} \cup {s} /\ s \notin {p}
      BY DEF ProcessInv, Processes, BlocksOfProcess
    <3> HIDE DEF s
    <3>2. IsFiniteSet({p}) /\ Cardinality({p}) = 1
      BY FS_Singleton
    <3>3. IsFiniteSet({p} \cup {s}) /\ Cardinality({p} \cup {s}) = 1 + 1
      BY <3>1, <3>2, FS_AddElement
    <3> QED
      BY <3>1, <3>3
  <2>2. \A p, q \in LiveProcesses : p # q => F[p] \cap F[q] = {}
    BY DEF ProcessInv, Processes
  <2>3. ProcessBlocks = UNION {F[p] : p \in LiveProcesses}
    BY DEF ProcessBlocks
  <2> HIDE DEF F
  <2> QED
    BY <1>4, <2>1, <2>2, <2>3, DisjointUnion
<1>6. Cardinality(DirectoryBlocks) = Cardinality(Dirs) * (Entries + 2)
  <2> DEFINE F == [d \in Dirs |-> BlocksOf(d)]
  <2>1. \A d \in Dirs : IsFiniteSet(F[d]) /\ Cardinality(F[d]) = Entries + 2
    BY CountBlocks DEF ProcessInv
  <2>2. \A d, e \in Dirs : d # e => F[d] \cap F[e] = {}
    BY DEF ProcessInv, PagingInv, Apart
  <2>3. DirectoryBlocks = UNION {F[d] : d \in Dirs}
    BY DEF DirectoryBlocks
  <2> HIDE DEF F
  <2>4. PICK m \in Nat : m = Entries + 2
    BY <1>1
  <2>5. Cardinality(UNION {F[d] : d \in Dirs}) = Cardinality(Dirs) * m
    BY <1>4, <2>1, <2>2, <2>4, DisjointUnion
  <2> QED
    BY <2>3, <2>4, <2>5
<1>7. PICK n \in Nat : n = Len(tasks)
  BY DEF ProcessInv, Tasks
<1>8. IsFiniteSet(1 .. n) /\ Cardinality(1 .. n) = n
  BY FS_Interval
<1>9. Cardinality(TaskBlocks) = n
  <2> DEFINE f == [i \in 1 .. n |-> tasks[i]]
  <2>1. f \in [1 .. n -> TaskBlocks]
    BY <1>7 DEF TaskBlocks
  <2>2. \A i, j \in 1 .. n : f[i] = f[j] => i = j
    BY <1>7 DEF ProcessInv, Tasks
  <2>3. \A t \in TaskBlocks : \E i \in 1 .. n : f[i] = t
    BY <1>7 DEF TaskBlocks
  <2> HIDE DEF f
  <2>4. f \in Injection(1 .. n, TaskBlocks) /\ f \in Surjection(1 .. n, TaskBlocks)
    BY <2>1, <2>2, <2>3, Fun_IsInj, Fun_IsSurj
  <2> QED
    BY <1>8, <2>4, Fun_IsBij, FS_Bijection DEF ExistsBijection
<1>10. Dirs = {} => n = 0
  BY <1>7 DEF ProcessInv, Tasks
<1>11. ASSUME Dirs # {} PROVE Cardinality(Dirs) = n + 1
  <2> DEFINE f == [i \in 1 .. n |-> DirectoryOf(i)]
             D == {DirectoryOf(i) : i \in 1 .. n}
  <2>1. PICK k \in Dirs : /\ \A d \in Dirs \ {k} : \E i \in 1 .. n : d = DirectoryOf(i)
                          /\ \A i \in 1 .. n : DirectoryOf(i) # k
    BY <1>7, <1>11 DEF ProcessInv, KernelsOwn
  <2>2. Dirs = D \cup {k} /\ k \notin D
    BY <1>7, <2>1 DEF ProcessInv, Tasks
  <2>3. f \in [1 .. n -> D] /\ \A d \in D : \E i \in 1 .. n : f[i] = d
    OBVIOUS
  <2>4. \A i, j \in 1 .. n : f[i] = f[j] => i = j
    BY <1>7 DEF ProcessInv, Tasks
  <2> HIDE DEF f, D
  <2>5. f \in Injection(1 .. n, D) /\ f \in Surjection(1 .. n, D)
    BY <2>3, <2>4, Fun_IsInj, Fun_IsSurj
  <2>6. IsFiniteSet(D) /\ Cardinality(D) = n
    BY <1>8, <2>5, Fun_IsBij, FS_Bijection DEF ExistsBijection
  <2> QED
    BY <2>2, <2>6, FS_AddElement
<1>12. /\ ProcessBlocks \cap TaskBlocks = {}
       /\ (ProcessBlocks \cup TaskBlocks) \cap DirectoryBlocks = {}
  BY DEF ProcessInv, Processes, ProcessBlocks, TaskBlocks, DirectoryBlocks
<1>13. /\ IsFiniteSet(ProcessBlocks) /\ IsFiniteSet(TaskBlocks) /\ IsFiniteSet(DirectoryBlocks)
       /\ Cardinality(LiveProcesses) \in Nat
  BY <1>2, <1>3, <1>4, FS_Subset, FS_CardinalityType
<1>14. /\ IsFiniteSet(ProcessBlocks \cup TaskBlocks)
       /\ Cardinality(ProcessBlocks \cup TaskBlocks) = Cardinality(LiveProcesses) * 2 + n - 0
  <2>1. Cardinality(ProcessBlocks \cap TaskBlocks) = 0
    BY <1>12, FS_EmptySet
  <2> QED
    BY <1>5, <1>9, <1>13, <2>1, FS_Union
<1>15. Cardinality((ProcessBlocks \cup TaskBlocks) \cup DirectoryBlocks)
         = (Cardinality(LiveProcesses) * 2 + n - 0) + Cardinality(DirectoryBlocks) - 0
  <2>1. Cardinality((ProcessBlocks \cup TaskBlocks) \cap DirectoryBlocks) = 0
    BY <1>12, FS_EmptySet
  <2> QED
    BY <1>13, <1>14, <2>1, FS_Union
<1>16. Held = (ProcessBlocks \cup TaskBlocks) \cup DirectoryBlocks
  BY HeldByKind
<1>17. Cardinality(DirectoryBlocks)
         = n * (Entries + 2) + (IF Dirs = {} THEN 0 ELSE Entries + 2)
  <2>1. CASE Dirs = {}
    <3>1. Cardinality(Dirs) = 0
      BY <2>1, FS_EmptySet
    <3> QED
      BY <1>1, <1>6, <1>10, <2>1, <3>1
  <2>2. CASE Dirs # {}
    BY <1>1, <1>6, <1>11, <2>2
  <2> QED
    BY <2>1, <2>2
<1>18. Cardinality(Held) = 2 * Cardinality(LiveProcesses) + (Entries + 3) * n
                              + (IF Dirs = {} THEN 0 ELSE Entries + 2)
  <2> DEFINE c == Cardinality(LiveProcesses)
             e == IF Dirs = {} THEN 0 ELSE Entries + 2
  <2>1. c \in Nat /\ e \in Nat
    BY <1>1, <1>13
  <2>2. Cardinality(Held) = (c * 2 + n - 0) + (n * (Entries + 2) + e) - 0
    BY <1>15, <1>16, <1>17
  <2> HIDE DEF c, e
  <2>3. Cardinality(Held) = 2 * c + (Entries + 3) * n + e
    BY <1>1, <2>1, <2>2
  <2> QED
    BY <2>3 DEF c, e
<1>19. others \subseteq used \ Held
  BY <1>16 DEF ProcessInv, OthersApart, ProcessBlocks, TaskBlocks, DirectoryBlocks
<1> QED
  BY <1>3, <1>7, <1>16, <1>18, <1>19 DEF OwnMemory

-----------------------------------------------------------------------------
(* Steps *)

\* The invariant holds at first.
LEMMA ProcessInitInv == Init => ProcessInv
<1> SUFFICES ASSUME Init PROVE ProcessInv
  OBVIOUS
<1>1. PagingInv /\ Dirs = {}
  BY PagingInitInv DEF Init, PagingInit, Dirs
<1>2. tasks = <<>> /\ Len(tasks) = 0 /\ Range(tasks) = {} /\ DOMAIN tasks = {}
  BY DEF Init, Range
<1>3. LiveProcesses = {} /\ DOMAIN process = {}
  BY DEF Init, LiveProcesses, Range
<1>4. NoTask \in TaskRecord
  BY DEF NoTask, TaskRecord, Null
<1>5. ProcessTypeOK
  BY <1>2, <1>3, <1>4 DEF Init, ProcessTypeOK, TaskRecord
<1>6. NextFollows /\ PrevIsPrevious /\ Tasks
  BY <1>2 DEF Init, NextFollows, PrevIsPrevious, Tasks
<1>7. KernelsOwn /\ Processes /\ OthersApart
  BY <1>1, <1>2, <1>3 DEF Init, PagingInit, KernelsOwn, Processes, OthersApart, Null
<1> QED
  BY <1>1, <1>5, <1>6, <1>7 DEF ProcessInv

\* The lost blocks are as they were.
NothingLost == Lost' = Lost

\* A step changes no page of a directory that stays.
NoPageMoved ==
  \A e \in Dirs \cap Dirs', v \in Pages : Entry(e, v)' = Entry(e, v)

\* A step that moves no page has changed none.
LEMMA NoChanges ==
  ASSUME NoPageMoved
  PROVE  Cardinality(Changed) <= 1 /\ Changed \subseteq remapped'
<1>1. Changed = {}
  <2> SUFFICES ASSUME NEW p \in Changed PROVE FALSE
    OBVIOUS
  <2> QED
    BY DEF Changed, NoPageMoved, Dirs
<1> QED
  BY <1>1, FS_EmptySet

\* The same of what is held after a step.
LEMMA HeldByKindNext == ProcessInv' => Held' = (ProcessBlocks \cup TaskBlocks \cup DirectoryBlocks)'
<1>1. ProcessInv => Held = ProcessBlocks \cup TaskBlocks \cup DirectoryBlocks
  BY HeldByKind
<1>2. (ProcessInv => Held = ProcessBlocks \cup TaskBlocks \cup DirectoryBlocks)'
  BY <1>1, PTL
<1> QED
  BY <1>2

\* Steps that leave tasks, processes and the set of directories as they are.
LEMMA SameOwners ==
  ASSUME ProcessInv, PagingInv', Dirs' = Dirs, \A e \in Dirs : BlocksOf(e)' = BlocksOf(e),
         Held \subseteq used', others' \subseteq used' \ Held,
         UNCHANGED <<taskVars, processes, process>>,
         current' = current \/ (current = Null /\ current' \in Dirs),
         ret' \in {0, -EISTKN, -ENOMEM}, ruined' \in BOOLEAN
  PROVE  ProcessInv' /\ Held' = Held
<1>0. /\ Held = ProcessBlocks \cup TaskBlocks \cup DirectoryBlocks
      /\ used' \subseteq HeapBlocks
  BY HeldByKind DEF PagingInv, TypeOK
<1>1. /\ task' = task /\ task_head' = task_head /\ task_tail' = task_tail /\ tasks' = tasks
      /\ processes' = processes /\ process' = process
  BY DEF taskVars
<1>2. LiveProcesses' = LiveProcesses /\ \A p : BlocksOfProcess(p)' = BlocksOfProcess(p)
  BY <1>1 DEF LiveProcesses, BlocksOfProcess
<1>3. \A i : DirectoryOf(i)' = DirectoryOf(i)
  BY <1>1 DEF DirectoryOf
<1>4. ProcessTypeOK'
  <2>1. Range(tasks) \subseteq used'
    BY <1>0 DEF ProcessInv, Tasks, TaskBlocks, Range
  <2>2. others' \subseteq HeapBlocks
    BY <1>0
  <2> QED
    BY <1>1, <2>1, <2>2 DEF ProcessInv, ProcessTypeOK
<1>5. Tasks' /\ NextFollows' /\ PrevIsPrevious'
  <2>1. \A i \in 1 .. Len(tasks) : tasks[i] \in used'
    BY <1>0 DEF TaskBlocks
  <2> QED
    BY <1>1, <1>3, <2>1 DEF ProcessInv, Tasks, NextFollows, PrevIsPrevious
<1>6. KernelsOwn'
  <2>1. CASE current' = current
    BY <1>1, <1>3, <2>1 DEF ProcessInv, KernelsOwn
  <2>2. CASE current = Null /\ current' \in Dirs
    BY <1>1, <1>3, <2>2 DEF ProcessInv, KernelsOwn
  <2> QED
    BY <2>1, <2>2
<1>7. Processes' /\ OthersApart'
  <2>1. \A p \in LiveProcesses : BlocksOfProcess(p) \subseteq used'
    BY <1>0 DEF ProcessBlocks
  <2>2. /\ \A p \in LiveProcesses : others' \cap BlocksOfProcess(p) = {}
        /\ \A i \in 1 .. Len(tasks) : tasks[i] \notin others'
        /\ \A d \in Dirs : others' \cap BlocksOf(d) = {}
    BY <1>0 DEF ProcessBlocks, TaskBlocks, DirectoryBlocks
  <2> QED
    BY <1>1, <1>2, <2>1, <2>2 DEF ProcessInv, Processes, OthersApart
<1>8. ProcessInv'
  BY <1>4, <1>5, <1>6, <1>7 DEF ProcessInv
<1>9. (ProcessBlocks \cup TaskBlocks \cup DirectoryBlocks)'
        = ProcessBlocks \cup TaskBlocks \cup DirectoryBlocks
  BY <1>1, <1>2 DEF ProcessBlocks, TaskBlocks, DirectoryBlocks
<1> QED
  BY <1>8, <1>9, HeldByKind, HeldByKindNext

\* The blocks a row of kzalloc calls returns: free, and all different.
LEMMA FreeBlocks ==
  ASSUME NEW n \in Nat \ {0}, kzalloc(n) # Null
  PROVE  \E b \in [1 .. n -> HeapBlocks \ used] :
            /\ b = Lowest(n)
            /\ \A i, j \in 1 .. n : b[i] = b[j] => i = j
            /\ kzalloc(n) = b[n]
<1>1. Cardinality(HeapBlocks \ used) \in Nat
  BY PagingAssumption, FS_Difference, FS_CardinalityType
<1>2. n <= Cardinality(HeapBlocks \ used) /\ kzalloc(n) = Lowest(n)[n]
  BY <1>1 DEF kzalloc
<1> QED
  BY <1>2, LowestFree

\* The first directory is the kernel's.
LEMMA FirstDirectory ==
  ASSUME ProcessInv, Dirs = {}, kzalloc(Entries + 2) # Null,
         \E flags \in FlagSets : paging_new_4gb(Lowest(Entries + 2), flags),
         used' = used \cup Range(Lowest(Entries + 2)),
         UNCHANGED <<taskVars, processes, process, ret, restVars>>
  PROVE  ProcessInv' /\ NoPageMoved /\ NothingLost
<1>1. PICK n \in Nat \ {0} : n = Entries + 2
  BY PagingAssumption
<1>2. PICK b \in [1 .. n -> HeapBlocks \ used] :
             b = Lowest(n) /\ \A i, j \in 1 .. n : b[i] = b[j] => i = j
  BY <1>1, FreeBlocks
<1>3. PICK flags \in FlagSets : paging_new_4gb(b, flags)
  BY <1>1, <1>2
<1> DEFINE B == {b[i] : i \in 1 .. n}
<1>4. used' = used \cup B /\ B \subseteq HeapBlocks /\ B \cap used = {}
  BY <1>1, <1>2 DEF Range
<1>5. /\ PagingInv' /\ Dirs' = {b[1]} /\ BlocksOf(b[1])' = B
  <2>1. /\ used' \subseteq HeapBlocks /\ used \subseteq used'
        /\ \A i \in 1 .. Entries + 2 : b[i] \in used'
    BY <1>1, <1>4 DEF ProcessInv, PagingInv, TypeOK
  <2>2. /\ b \in [1 .. Entries + 2 -> HeapBlocks \ used]
        /\ \A i, j \in 1 .. Entries + 2 : b[i] = b[j] => i = j
    BY <1>1, <1>2
  <2>3. /\ PagingInv' /\ Dirs' = Dirs \cup {b[1]}
        /\ BlocksOf(b[1])' = {b[i] : i \in 1 .. Entries + 2}
    BY <1>3, <2>1, <2>2, NewDirectory DEF ProcessInv
  <2> QED
    BY <1>1, <2>3
<1> HIDE DEF B
<1>6. /\ task' = task /\ task_head' = task_head /\ task_tail' = task_tail /\ tasks' = tasks
      /\ processes' = processes /\ process' = process /\ ret' = ret
      /\ others' = others /\ ruined' = ruined
  BY DEF taskVars, restVars
<1>7. current' = Null /\ current = Null
  BY <1>3 DEF paging_new_4gb, ProcessInv, KernelsOwn
<1>8. tasks = <<>> /\ Len(tasks) = 0
  BY <1>7 DEF ProcessInv, KernelsOwn
<1>9. LiveProcesses' = LiveProcesses /\ \A p : BlocksOfProcess(p)' = BlocksOfProcess(p)
  BY <1>6 DEF LiveProcesses, BlocksOfProcess
<1>10. ProcessTypeOK'
  BY <1>4, <1>6 DEF ProcessInv, ProcessTypeOK
<1>11. Tasks' /\ NextFollows' /\ PrevIsPrevious'
  BY <1>6, <1>8 DEF ProcessInv, Tasks, NextFollows, PrevIsPrevious
<1>12. KernelsOwn'
  BY <1>5, <1>6, <1>7, <1>8 DEF KernelsOwn
<1>13. Processes'
  <2>1. \A p \in LiveProcesses : BlocksOfProcess(p) \cap B = {}
    BY <1>4 DEF ProcessInv, Processes
  <2> QED
    BY <1>4, <1>5, <1>6, <1>8, <1>9, <2>1 DEF ProcessInv, Processes
<1>13a. OthersApart'
  BY <1>4, <1>5, <1>6, <1>8, <1>9 DEF ProcessInv, OthersApart
<1>14. ProcessInv'
  BY <1>5, <1>10, <1>11, <1>12, <1>13, <1>13a DEF ProcessInv
<1>15. (ProcessBlocks \cup TaskBlocks \cup DirectoryBlocks)'
         = (ProcessBlocks \cup TaskBlocks \cup DirectoryBlocks) \cup B
  BY <1>5, <1>6, <1>9 DEF ProcessBlocks, TaskBlocks, DirectoryBlocks
<1>16. Held' = Held \cup B
  BY <1>14, <1>15, HeldByKind, HeldByKindNext
<1> QED
  BY <1>4, <1>6, <1>14, <1>16 DEF NoPageMoved, NothingLost, Lost

\* The slot process_get_free_slot returns is free.
LEMMA SlotIsFree ==
  ASSUME FreeSlots # {}
  PROVE  process_get_free_slot \in Slots /\ processes[process_get_free_slot] = Null
<1>1. FreeSlots \subseteq Nat
  BY ProcessAssumption DEF FreeSlots, Slots
<1>2. \E s \in FreeSlots : \A u \in FreeSlots : s <= u
  BY <1>1, LeastNumber
<1>3. process_get_free_slot \in FreeSlots
  BY <1>2 DEF process_get_free_slot
<1> QED
  BY <1>3 DEF FreeSlots

\* A process and its stack come into the table.
LEMMA NewProcess ==
  ASSUME ProcessInv, NEW slot \in Slots, processes[slot] = Null,
         NEW p \in HeapBlocks \ used, NEW stack, NEW t, InTable(slot, p, stack, t)
  PROVE  /\ LiveProcesses' = LiveProcesses \cup {p}
         /\ DOMAIN process' = LiveProcesses'
         /\ BlocksOfProcess(p)' = {p, stack}
         /\ \A q \in LiveProcesses : BlocksOfProcess(q)' = BlocksOfProcess(q)
         /\ process'[p].stack = stack
         /\ \A q \in LiveProcesses : process'[q] = process[q] /\ q # p
         /\ \A q \in DOMAIN process' : process'[q].id \in Slots
         /\ processes' \in [Slots -> HeapBlocks \cup {Null}]
<1>1. /\ DOMAIN processes = Slots /\ DOMAIN processes' = Slots /\ processes'[slot] = p
      /\ \A s \in Slots \ {slot} : processes'[s] = processes[s]
      /\ processes' \in [Slots -> HeapBlocks \cup {Null}]
  BY DEF InTable, ProcessInv, ProcessTypeOK
<1>2. Null \notin HeapBlocks
  BY PagingAssumption DEF Null
<1>3. LiveProcesses' = LiveProcesses \cup {p}
  BY <1>1, <1>2 DEF LiveProcesses, Range
<1>4. \A q \in LiveProcesses : q \in used /\ q # p
  BY DEF ProcessInv, Processes, BlocksOfProcess
<1>5. /\ DOMAIN process' = LiveProcesses'
      /\ process'[p] = [id |-> slot, stack |-> stack, task |-> t]
      /\ \A q \in LiveProcesses : process'[q] = process[q]
  BY <1>3, <1>4 DEF InTable, ProcessInv, Processes
<1>6. /\ BlocksOfProcess(p)' = {p, stack}
      /\ \A q \in LiveProcesses : BlocksOfProcess(q)' = BlocksOfProcess(q)
  BY <1>5 DEF BlocksOfProcess
<1>7. \A q \in DOMAIN process' : process'[q].id \in Slots
  BY <1>3, <1>5 DEF ProcessInv, ProcessTypeOK, Processes
<1> QED
  BY <1>1, <1>3, <1>4, <1>5, <1>6, <1>7

\* What a load makes: a process with its stack, and a task with its directory.
LEMMA LoadProcess ==
  ASSUME ProcessInv, current # Null, FreeSlots # {}, Loaded(process_get_free_slot)
  PROVE  ProcessInv' /\ NoPageMoved /\ NothingLost
<1>1. PICK n \in Nat \ {0} : n = Entries + 5 /\ n >= 5 /\ n = LoadBlocks
  BY PagingAssumption DEF LoadBlocks
<1>2. PICK slot \in Slots : slot = process_get_free_slot /\ processes[slot] = Null
  BY SlotIsFree
<1>3. PICK b \in [1 .. n -> HeapBlocks \ used] :
             b = Lowest(n) /\ \A i, j \in 1 .. n : b[i] = b[j] => i = j
  BY <1>1, FreeBlocks DEF Loaded
<1>4. PICK c : c = SubSeq(b, 4, n)
  OBVIOUS
<1>5. /\ c \in [1 .. Entries + 2 -> HeapBlocks \ used]
      /\ \A i \in 1 .. Entries + 2 : c[i] = b[i + 3]
  <2>1. \A i \in 4 .. n : b[i] \in HeapBlocks \ used
    BY <1>1, <1>3
  <2>2. /\ c \in Seq(HeapBlocks \ used)
        /\ Len(c) = IF 4 <= n THEN n - 4 + 1 ELSE 0
        /\ \A i \in 1 .. n - 4 + 1 : c[i] = b[4 + i - 1]
    BY <1>4, <2>1, SubSeqProperties
  <2>3. Len(c) = Entries + 2 /\ n - 4 + 1 = Entries + 2 /\ Entries \in Nat
    BY <1>1, <2>2, PagingAssumption
  <2> QED
    BY <2>2, <2>3
<1>6. PICK flags \in FlagSets : paging_new_4gb(c, flags)
  BY <1>1, <1>3, <1>4 DEF Loaded
<1>7. PICK p, stack, t, d : p = b[1] /\ stack = b[2] /\ t = b[3] /\ d = b[4]
  OBVIOUS
<1>8. /\ p \in HeapBlocks \ used /\ stack \in HeapBlocks \ used
      /\ t \in HeapBlocks \ used /\ d \in HeapBlocks \ used
      /\ p # stack /\ t \notin {p, stack} /\ d \notin {p, stack, t}
  BY <1>1, <1>3, <1>7
<1>9. /\ task_new(t, d) /\ InTable(slot, p, stack, t) /\ ret' = 0
      /\ others' = others /\ ruined' = ruined
  BY <1>1, <1>2, <1>3, <1>7 DEF Loaded, InTable, restVars
<1> DEFINE B == {b[i] : i \in 1 .. n}
           C == {c[i] : i \in 1 .. Entries + 2}
<1>10. used' = used \cup B
  BY <1>1, <1>3 DEF Loaded, Range
<1>11. /\ B = {p, stack, t} \cup C /\ C \cap {p, stack, t} = {}
       /\ B \subseteq HeapBlocks /\ B \cap used = {}
  <2>1. B \subseteq HeapBlocks /\ B \cap used = {}
    BY <1>3
  <2>2. Entries \in Nat
    BY PagingAssumption
  <2>3. \A i \in 1 .. n : i \in {1, 2, 3} \/ (i - 3 \in 1 .. Entries + 2 /\ b[i] = c[i - 3])
    BY <1>1, <1>5, <2>2
  <2>4. \A i \in 1 .. Entries + 2 : i + 3 \in 1 .. n /\ c[i] = b[i + 3] /\ i + 3 \notin {1, 2, 3}
    BY <1>1, <1>5, <2>2
  <2>5. B = {p, stack, t} \cup C
    <3>1. B \subseteq {p, stack, t} \cup C
      BY <1>7, <2>3
    <3>2. {p, stack, t} \subseteq B
      BY <1>1, <1>7
    <3>3. C \subseteq B
      BY <2>4
    <3> QED
      BY <3>1, <3>2, <3>3
  <2>6. C \cap {p, stack, t} = {}
    BY <1>1, <1>3, <1>7, <2>4
  <2> QED
    BY <2>1, <2>5, <2>6
<1>12. \A i, j \in 1 .. Entries + 2 : c[i] = c[j] => i = j
  <2>1. Entries \in Nat
    BY PagingAssumption
  <2> QED
    BY <1>1, <1>3, <1>5, <2>1
<1>13. c[1] = d
  <2>1. Entries \in Nat
    BY PagingAssumption
  <2> QED
    BY <1>5, <1>7, <2>1
<1>14. /\ PagingInv' /\ Dirs' = Dirs \cup {d} /\ d \notin Dirs /\ BlocksOf(d)' = C
       /\ \A e \in Dirs : BlocksOf(e)' = BlocksOf(e)
       /\ \A e \in Dirs, v \in Pages : Entry(e, v)' = Entry(e, v)
  <2>1. /\ used' \subseteq HeapBlocks /\ used \subseteq used'
        /\ \A i \in 1 .. Entries + 2 : c[i] \in used'
    BY <1>10, <1>11 DEF ProcessInv, PagingInv, TypeOK
  <2> QED
    BY <1>5, <1>6, <1>12, <1>13, <2>1, NewDirectory DEF ProcessInv
<1>15. current' = current
  BY <1>6 DEF paging_new_4gb
<1> HIDE DEF B, C
<1>16. TaskList /\ \A i \in 1 .. Len(tasks) : tasks[i] # t
  BY <1>8 DEF ProcessInv, ProcessTypeOK, Tasks, TaskList, TaskRecord
<1>17. /\ TaskList' /\ tasks' = Append(tasks, t) /\ task'[t].page_directory = d
       /\ \A i \in 1 .. Len(tasks) : task'[tasks[i]].page_directory = task[tasks[i]].page_directory
       /\ {task_head', task_tail'} \subseteq HeapBlocks \cup {Null}
  BY <1>8, <1>9, <1>16, NewTask
<1>18. PICK m \in Nat : m = Len(tasks)
  BY DEF ProcessInv, Tasks
<1>19. /\ Len(tasks') = m + 1 /\ DOMAIN tasks' = 1 .. m + 1
       /\ \A i \in 1 .. m : tasks'[i] = tasks[i] /\ tasks[i] \in used
       /\ tasks'[m + 1] = t
  BY <1>8, <1>17, <1>18, AppendProperties DEF ProcessInv, Tasks
<1>20. (\A i \in 1 .. m : DirectoryOf(i)' = DirectoryOf(i)) /\ DirectoryOf(m + 1)' = d
  BY <1>17, <1>18, <1>19 DEF DirectoryOf
<1>21. /\ LiveProcesses' = LiveProcesses \cup {p} /\ DOMAIN process' = LiveProcesses'
       /\ BlocksOfProcess(p)' = {p, stack} /\ process'[p].stack = stack
       /\ \A q \in LiveProcesses : BlocksOfProcess(q)' = BlocksOfProcess(q)
       /\ \A q \in LiveProcesses : process'[q] = process[q] /\ q # p
       /\ \A q \in DOMAIN process' : process'[q].id \in Slots
       /\ processes' \in [Slots -> HeapBlocks \cup {Null}]
  BY <1>2, <1>8, <1>9, NewProcess
<1>25. ProcessTypeOK'
  <2>1. Range(tasks)' \subseteq used'
    BY <1>7, <1>10, <1>11, <1>18, <1>19 DEF Range
  <2>2. others' \subseteq HeapBlocks /\ ruined' \in BOOLEAN
    BY <1>9 DEF ProcessInv, ProcessTypeOK
  <2> QED
    BY <1>9, <1>17, <1>21, <2>1, <2>2 DEF ProcessTypeOK, TaskList, TaskRecord
<1>26. Tasks' /\ NextFollows' /\ PrevIsPrevious'
  <2>1. \A i \in 1 .. m + 1 : tasks'[i] \in used' /\ DirectoryOf(i)' \in Dirs'
    BY <1>10, <1>11, <1>14, <1>18, <1>19, <1>20 DEF ProcessInv, Tasks
  <2>2. \A i, j \in 1 .. m + 1 : DirectoryOf(i)' = DirectoryOf(j)' => i = j
    <3>1. \A i \in 1 .. m : DirectoryOf(i)' \in Dirs
      BY <1>18, <1>20 DEF ProcessInv, Tasks
    <3> QED
      BY <1>14, <1>18, <1>20, <3>1 DEF ProcessInv, Tasks
  <2> QED
    BY <1>17, <1>19, <2>1, <2>2 DEF Tasks, TaskList
<1>27. KernelsOwn'
  <2>1. PICK k \in Dirs : /\ \A e \in Dirs \ {k} : \E i \in 1 .. m : e = DirectoryOf(i)
                          /\ \A i \in 1 .. m : DirectoryOf(i) # k
                          /\ current \in {k, Null}
    BY <1>18 DEF ProcessInv, KernelsOwn
  <2>2. \A e \in Dirs' \ {k} : \E i \in 1 .. m + 1 : e = DirectoryOf(i)'
    BY <1>14, <1>20, <2>1
  <2>3. \A i \in 1 .. m + 1 : DirectoryOf(i)' # k
    BY <1>14, <1>20, <2>1
  <2> QED
    BY <1>14, <1>15, <1>19, <2>1, <2>2, <2>3 DEF KernelsOwn
<1>28. Processes'
  <2>1. \A e \in Dirs : BlocksOf(e) \subseteq used
    BY DEF ProcessInv, PagingInv, Apart
  <2>2. \A q \in LiveProcesses : BlocksOfProcess(q) \subseteq used
    BY DEF ProcessInv, Processes
  <2>3. ASSUME NEW q \in LiveProcesses'
        PROVE  q # process'[q].stack /\ BlocksOfProcess(q)' \subseteq used'
    BY <1>8, <1>10, <1>11, <1>21, <2>2 DEF ProcessInv, Processes
  <2>4. ASSUME NEW q \in LiveProcesses', NEW r \in LiveProcesses', q # r
        PROVE  BlocksOfProcess(q)' \cap BlocksOfProcess(r)' = {}
    BY <1>8, <1>21, <2>2, <2>4 DEF ProcessInv, Processes
  <2>5. ASSUME NEW q \in LiveProcesses', NEW i \in 1 .. m + 1
        PROVE  tasks'[i] \notin BlocksOfProcess(q)'
    BY <1>8, <1>18, <1>19, <1>21, <2>2 DEF ProcessInv, Processes
  <2>6. ASSUME NEW q \in LiveProcesses', NEW e \in Dirs'
        PROVE  BlocksOfProcess(q)' \cap BlocksOf(e)' = {}
    BY <1>8, <1>11, <1>14, <1>21, <2>1, <2>2 DEF ProcessInv, Processes
  <2>7. ASSUME NEW i \in 1 .. m + 1, NEW e \in Dirs'
        PROVE  tasks'[i] \notin BlocksOf(e)'
    BY <1>8, <1>11, <1>14, <1>18, <1>19, <2>1 DEF ProcessInv, Processes
  <2> QED
    BY <1>19, <1>21, <2>3, <2>4, <2>5, <2>6, <2>7 DEF Processes
<1>28a. OthersApart'
  <2>1. others \subseteq used /\ others \cap B = {} /\ others' = others
    BY <1>9, <1>11 DEF ProcessInv, OthersApart
  <2>2. \A q \in LiveProcesses' : others \cap BlocksOfProcess(q)' = {}
    BY <1>11, <1>21, <2>1 DEF ProcessInv, OthersApart
  <2>3. \A i \in 1 .. m + 1 : tasks'[i] \notin others
    BY <1>8, <1>18, <1>19, <2>1 DEF ProcessInv, OthersApart
  <2>4. \A e \in Dirs' : others \cap BlocksOf(e)' = {}
    BY <1>11, <1>14, <2>1 DEF ProcessInv, OthersApart
  <2> QED
    BY <1>10, <1>19, <2>1, <2>2, <2>3, <2>4 DEF OthersApart
<1>29. ProcessInv'
  BY <1>14, <1>25, <1>26, <1>27, <1>28, <1>28a DEF ProcessInv
<1>30. (ProcessBlocks \cup TaskBlocks \cup DirectoryBlocks)'
         = (ProcessBlocks \cup TaskBlocks \cup DirectoryBlocks) \cup B
  <2>1. ProcessBlocks' = ProcessBlocks \cup {p, stack}
    BY <1>21 DEF ProcessBlocks
  <2>2. TaskBlocks' = TaskBlocks \cup {t}
    BY <1>18, <1>19 DEF TaskBlocks
  <2>3. DirectoryBlocks' = DirectoryBlocks \cup C
    BY <1>14 DEF DirectoryBlocks
  <2> QED
    BY <1>11, <2>1, <2>2, <2>3
<1>31. Held' = Held \cup B
  BY <1>29, <1>30, HeldByKind, HeldByKindNext
<1>32. NoPageMoved
  BY <1>14 DEF NoPageMoved
<1> QED
  BY <1>9, <1>10, <1>11, <1>29, <1>31, <1>32 DEF NothingLost, Lost

\* What a row of n kzalloc calls returns when there are fewer free blocks: all of
\* them, and Null from there on.
LEMMA ShortRow ==
  ASSUME NEW n \in Nat, NEW m \in Nat, m = Cardinality(HeapBlocks \ used), m < n
  PROVE  \E b \in [1 .. n -> HeapBlocks \cup {Null}] :
            /\ b = [k \in 1 .. n |-> kzalloc(k)]
            /\ \A k \in 1 .. m : b[k] \in HeapBlocks \ used
            /\ \A k \in m + 1 .. n : b[k] = Null
            /\ \A i, j \in 1 .. m : b[i] = b[j] => i = j
<1>0. m <= Cardinality(HeapBlocks \ used)
  OBVIOUS
<1>1. /\ Lowest(m) \in [1 .. m -> HeapBlocks \ used]
      /\ \A i, j \in 1 .. m : Lowest(m)[i] = Lowest(m)[j] => i = j
  BY <1>0, LowestFree
<1>2. \A k \in 1 .. m : kzalloc(k) = Lowest(m)[k]
  <2> TAKE k \in 1 .. m
  <2>1. kzalloc(k) = Lowest(k)[k]
    BY DEF kzalloc
  <2>2. k \in 1 .. k
    OBVIOUS
  <2> QED
    BY <2>1, <2>2 DEF Lowest
<1>3. \A k \in m + 1 .. n : kzalloc(k) = Null
  BY DEF kzalloc
<1>4. \A k \in 1 .. n : k \in 1 .. m \/ k \in m + 1 .. n
  OBVIOUS
<1> DEFINE b == [k \in 1 .. n |-> kzalloc(k)]
<1>5. /\ \A k \in 1 .. m : b[k] = Lowest(m)[k] /\ b[k] \in HeapBlocks \ used
      /\ \A k \in m + 1 .. n : b[k] = Null
  <2>1. /\ \A k \in 1 .. m : k \in 1 .. n
        /\ \A k \in m + 1 .. n : k \in 1 .. n
    OBVIOUS
  <2>2. \A k \in 1 .. n : b[k] = kzalloc(k)
    OBVIOUS
  <2> HIDE DEF b
  <2>3. \A k \in 1 .. m : Lowest(m)[k] \in HeapBlocks \ used
    BY <1>1
  <2> QED
    BY <1>2, <1>3, <2>1, <2>2, <2>3
<1>6. b \in [1 .. n -> HeapBlocks \cup {Null}]
  BY <1>4, <1>5
<1>7. \A i, j \in 1 .. m : b[i] = b[j] => i = j
  BY <1>1, <1>5
<1> HIDE DEF b
<1>8. b = [k \in 1 .. n |-> kzalloc(k)]
  BY DEF b
<1> QED
  BY <1>5, <1>6, <1>7, <1>8

\* What is left in use after a load without a task: the process and its stack.
LEMMA TasklessTakes ==
  ASSUME NEW slot, Taskless(slot), used \subseteq HeapBlocks
  PROVE  \E p, stack, t \in HeapBlocks \ used :
            /\ p # stack /\ t \notin {p, stack}
            /\ used' = used \cup {p, stack}
            /\ task_list_remove([task EXCEPT ![t] = NoTask], t)
            /\ InTable(slot, p, stack, -EIO)
<1>1. PICK n \in Nat : n = Entries + 5 /\ n >= 6 /\ n = LoadBlocks /\ n - 3 = Entries + 2
  BY PagingAssumption DEF LoadBlocks
<1>2. PICK m \in Nat : m = Cardinality(HeapBlocks \ used)
  BY PagingAssumption, FS_Difference, FS_CardinalityType
<1>3. Null \notin HeapBlocks /\ Null = 0
  BY PagingAssumption DEF Null
<1>4. m < n
  <2>1. kzalloc(n) = Null
    BY <1>1 DEF Taskless
  <2>2. CASE n <= m
    <3>0. n <= Cardinality(HeapBlocks \ used) /\ n \in 1 .. n
      BY <1>1, <1>2, <2>2
    <3>1. Lowest(n) \in [1 .. n -> HeapBlocks \ used] /\ n \in 1 .. n
      BY <3>0, LowestFree
    <3>2. kzalloc(n) \in HeapBlocks
      BY <1>2, <2>2, <3>1 DEF kzalloc
    <3> QED
      BY <1>3, <2>1, <3>2
  <2> QED
    BY <2>2
<1>5. PICK b \in [1 .. n -> HeapBlocks \cup {Null}] :
             /\ b = [k \in 1 .. n |-> kzalloc(k)]
             /\ \A k \in 1 .. m : b[k] \in HeapBlocks \ used
             /\ \A k \in m + 1 .. n : b[k] = Null
             /\ \A i, j \in 1 .. m : b[i] = b[j] => i = j
  BY <1>2, <1>4, ShortRow
<1>6. /\ b[3] # Null /\ b[n] = Null
      /\ task_list_remove([task EXCEPT ![b[3]] = NoTask], b[3])
      /\ InTable(slot, b[1], b[2], -EIO)
  BY <1>1, <1>5 DEF Taskless
<1>7. PICK flags \in FlagSets : used' = (used \cup (Range(b) \ {Null})) \ TaskData(b, flags)
  BY <1>1, <1>5 DEF Taskless
<1>8. m >= 3
  <2>1. CASE m < 3
    <3>1. 3 \in m + 1 .. n
      BY <1>1, <2>1
    <3> QED
      BY <1>5, <1>6, <3>1
  <2> QED
    BY <2>1
<1>9. /\ {b[1], b[2], b[3]} \subseteq HeapBlocks \ used
      /\ b[1] # b[2] /\ b[3] \notin {b[1], b[2]}
  <2>1. 1 \in 1 .. m /\ 2 \in 1 .. m /\ 3 \in 1 .. m
    BY <1>8
  <2>2. /\ b[1] \in HeapBlocks \ used /\ b[2] \in HeapBlocks \ used
        /\ b[3] \in HeapBlocks \ used
    BY <1>5, <2>1
  <2>3. \A i, j \in 1 .. m : b[i] = b[j] => i = j
    BY <1>5
  <2>4. b[1] # b[2] /\ b[3] # b[1] /\ b[3] # b[2]
    BY <2>1, <2>3
  <2> QED
    BY <2>2, <2>4
<1>10. TaskData(b, flags) = {b[k] : k \in 3 .. n} \ {Null}
  <2> DEFINE c == SubSeq(b, 4, Len(b))
  <2>1. b \in Seq(HeapBlocks \cup {Null}) /\ Len(b) = n
    BY <1>5
  <2>2. \A i \in 4 .. n : b[i] \in HeapBlocks \cup {Null}
    BY <1>1, <1>5
  <2>3. /\ c \in Seq(HeapBlocks \cup {Null})
        /\ Len(c) = IF 4 <= n THEN n - 4 + 1 ELSE 0
        /\ \A i \in 1 .. n - 4 + 1 : c[i] = b[4 + i - 1]
    BY <2>1, <2>2, SubSeqProperties
  <2> HIDE DEF c
  <2>4. Len(c) = n - 3 /\ \A i \in 1 .. n - 3 : c[i] = b[i + 3]
    <3>1. n - 4 + 1 = n - 3 /\ 4 <= n
      BY <1>1
    <3>2. \A i \in 1 .. n - 3 : 4 + i - 1 = i + 3
      OBVIOUS
    <3> QED
      BY <2>3, <3>1, <3>2
  <2>5. c \in [1 .. n - 3 -> HeapBlocks \cup {Null}]
    BY <2>3, <2>4
  <2>6. c[1] = b[4] /\ c[n - 3] = Null
    <3>1. 1 \in 1 .. n - 3 /\ n - 3 \in 1 .. n - 3 /\ (n - 3) + 3 = n
      BY <1>1
    <3> QED
      BY <1>6, <2>4, <3>1
  <2>7. paging_free_4gb(NewEntries(c, flags), b[4], Null) = {c[i] : i \in 1 .. n - 3} \ {Null}
    BY <1>1, <1>3, <2>5, <2>6, HalfMade
  <2>8. {c[i] : i \in 1 .. n - 3} = {b[k] : k \in 4 .. n}
    <3>1. \A i \in 1 .. n - 3 : i + 3 \in 4 .. n /\ c[i] = b[i + 3]
      BY <2>4
    <3>2. \A k \in 4 .. n : k - 3 \in 1 .. n - 3 /\ c[k - 3] = b[k]
      <4> TAKE k \in 4 .. n
      <4>1. k - 3 \in 1 .. n - 3 /\ (k - 3) + 3 = k
        OBVIOUS
      <4> QED
        BY <2>4, <4>1
    <3> QED
      BY <3>1, <3>2
  <2>9. {b[k] : k \in 3 .. n} = {b[3]} \cup {b[k] : k \in 4 .. n}
    <3>1. \A k : k \in 3 .. n <=> k = 3 \/ k \in 4 .. n
      BY <1>1
    <3> QED
      BY <3>1
  <2>10. TaskData(b, flags) = {b[3]} \cup paging_free_4gb(NewEntries(c, flags), b[4], Null)
    BY DEF TaskData, c
  <2> QED
    BY <1>6, <2>7, <2>8, <2>9, <2>10
<1>11. Range(b) \ {Null} = {b[1], b[2]} \cup ({b[k] : k \in 3 .. n} \ {Null})
  <2>1. \A k : k \in 1 .. n <=> k = 1 \/ k = 2 \/ k \in 3 .. n
    BY <1>1
  <2>2. Range(b) = {b[k] : k \in 1 .. n}
    BY <1>5 DEF Range
  <2>3. Range(b) = {b[1], b[2]} \cup {b[k] : k \in 3 .. n}
    BY <2>1, <2>2
  <2>4. b[1] # Null /\ b[2] # Null
    BY <1>3, <1>9
  <2> QED
    BY <2>3, <2>4
<1>12. \A k \in 3 .. n : b[k] # Null => b[k] \notin used \cup {b[1], b[2]}
  <2> TAKE k \in 3 .. n
  <2>1. CASE k <= m
    <3>1. k \in 1 .. m /\ 1 \in 1 .. m /\ 2 \in 1 .. m /\ k # 1 /\ k # 2
      BY <1>8, <2>1
    <3> QED
      BY <1>5, <3>1
  <2>2. CASE k > m
    <3>1. k \in m + 1 .. n
      BY <2>2
    <3> QED
      BY <1>5, <3>1
  <2> QED
    BY <2>1, <2>2
<1>13. used' = used \cup {b[1], b[2]}
  BY <1>7, <1>10, <1>11, <1>12
<1> QED
  BY <1>6, <1>9, <1>13

\* A load that finds memory for the task and not for all of its directory leaves
\* a process with its stack, and nothing else.
LEMMA LoadTaskless ==
  ASSUME ProcessInv, FreeSlots # {}, Taskless(process_get_free_slot)
  PROVE  ProcessInv' /\ NoPageMoved /\ NothingLost
<1>1. PICK slot \in Slots : slot = process_get_free_slot /\ processes[slot] = Null
  BY SlotIsFree
<1>2. PICK p, stack, t \in HeapBlocks \ used :
             /\ p # stack /\ t \notin {p, stack}
             /\ used' = used \cup {p, stack}
             /\ task_list_remove([task EXCEPT ![t] = NoTask], t)
             /\ InTable(slot, p, stack, -EIO)
  BY <1>1, TasklessTakes DEF ProcessInv, PagingInv, TypeOK
<1>3. /\ UNCHANGED <<chunk, directory, table, current, remapped>>
      /\ tasks' = tasks /\ others' = others /\ ruined' = ruined /\ ret' = 0
  BY <1>2 DEF Taskless, directoryVars, restVars, InTable
<1>4. used' \subseteq HeapBlocks /\ used \subseteq used' /\ current' \in Dirs \cup {0}
  BY <1>2, <1>3 DEF ProcessInv, PagingInv, TypeOK
<1>5. /\ PagingInv' /\ Dirs' = Dirs /\ \A e \in Dirs : BlocksOf(e)' = BlocksOf(e)
      /\ \A e \in Dirs, v \in Pages : Entry(e, v)' = Entry(e, v)
  BY <1>3, <1>4, SamePages DEF ProcessInv, PagingInv, Apart
<1>6. TaskList /\ \A i \in 1 .. Len(tasks) : tasks[i] # t
  BY <1>2 DEF ProcessInv, ProcessTypeOK, Tasks, TaskList, TaskRecord
<1>7. /\ TaskList' /\ task_head' = task_head /\ task_tail' = task_tail
      /\ \A i \in 1 .. Len(tasks) : task'[tasks[i]] = task[tasks[i]]
  BY <1>2, <1>3, <1>6, NotListed
<1>8. \A i \in 1 .. Len(tasks) : DirectoryOf(i)' = DirectoryOf(i)
  BY <1>3, <1>7 DEF DirectoryOf
<1>9. /\ LiveProcesses' = LiveProcesses \cup {p} /\ DOMAIN process' = LiveProcesses'
      /\ BlocksOfProcess(p)' = {p, stack} /\ process'[p].stack = stack
      /\ \A q \in LiveProcesses : BlocksOfProcess(q)' = BlocksOfProcess(q)
      /\ \A q \in LiveProcesses : process'[q] = process[q] /\ q # p
      /\ \A q \in DOMAIN process' : process'[q].id \in Slots
      /\ processes' \in [Slots -> HeapBlocks \cup {Null}]
  BY <1>1, <1>2, NewProcess
<1>10. ProcessTypeOK'
  <2>1. Range(tasks)' \subseteq used' /\ {task_head', task_tail'} \subseteq HeapBlocks \cup {Null}
    BY <1>3, <1>4, <1>7 DEF ProcessInv, ProcessTypeOK
  <2>2. others' \subseteq HeapBlocks /\ ruined' \in BOOLEAN
    BY <1>3 DEF ProcessInv, ProcessTypeOK
  <2> QED
    BY <1>3, <1>7, <1>9, <2>1, <2>2 DEF ProcessTypeOK, TaskList, TaskRecord
<1>11. Tasks' /\ NextFollows' /\ PrevIsPrevious'
  <2>1. Tasks'
    BY <1>3, <1>4, <1>5, <1>8 DEF ProcessInv, Tasks
  <2> QED
    BY <1>7, <2>1 DEF TaskList
<1>12. KernelsOwn'
  BY <1>3, <1>5, <1>8 DEF ProcessInv, KernelsOwn
<1>13. Processes'
  <2>1. /\ \A e \in Dirs : BlocksOf(e) \subseteq used
        /\ \A i \in 1 .. Len(tasks) : tasks[i] \in used
        /\ \A q \in LiveProcesses : BlocksOfProcess(q) \subseteq used
    BY DEF ProcessInv, PagingInv, Apart, Tasks, Processes
  <2>2. ASSUME NEW q \in LiveProcesses'
        PROVE  q # process'[q].stack /\ BlocksOfProcess(q)' \subseteq used'
    BY <1>2, <1>9, <2>1 DEF ProcessInv, Processes
  <2>3. ASSUME NEW q \in LiveProcesses', NEW r \in LiveProcesses', q # r
        PROVE  BlocksOfProcess(q)' \cap BlocksOfProcess(r)' = {}
    BY <1>2, <1>9, <2>1, <2>3 DEF ProcessInv, Processes
  <2>4. ASSUME NEW q \in LiveProcesses', NEW i \in 1 .. Len(tasks)
        PROVE  tasks[i] \notin BlocksOfProcess(q)'
    BY <1>2, <1>9, <2>1 DEF ProcessInv, Processes
  <2>5. ASSUME NEW q \in LiveProcesses', NEW e \in Dirs
        PROVE  BlocksOfProcess(q)' \cap BlocksOf(e) = {}
    BY <1>2, <1>9, <2>1 DEF ProcessInv, Processes
  <2>6. \A i \in 1 .. Len(tasks), e \in Dirs : tasks[i] \notin BlocksOf(e)
    BY DEF ProcessInv, Processes
  <2> QED
    BY <1>3, <1>5, <1>9, <2>2, <2>3, <2>4, <2>5, <2>6 DEF Processes
<1>14. OthersApart'
  BY <1>2, <1>3, <1>5, <1>9 DEF ProcessInv, OthersApart
<1>15. ProcessInv'
  BY <1>5, <1>10, <1>11, <1>12, <1>13, <1>14 DEF ProcessInv
<1>16. (ProcessBlocks \cup TaskBlocks \cup DirectoryBlocks)'
         = (ProcessBlocks \cup TaskBlocks \cup DirectoryBlocks) \cup {p, stack}
  BY <1>3, <1>5, <1>9 DEF ProcessBlocks, TaskBlocks, DirectoryBlocks
<1>17. Held' = Held \cup {p, stack}
  BY <1>15, <1>16, HeldByKind, HeldByKindNext
<1> QED
  BY <1>2, <1>3, <1>5, <1>15, <1>17 DEF NoPageMoved, NothingLost, Lost

\* The blocks of the directories and of the others are where OwnMemory says.
LEMMA OwnersInUse ==
  ASSUME ProcessInv
  PROVE  /\ Held \subseteq used /\ others \subseteq used \ Held
         /\ \A e \in Dirs : BlocksOf(e) \subseteq Held
         /\ used \subseteq HeapBlocks /\ current \in Dirs \cup {0}
         /\ ret \in {0, -EISTKN, -ENOMEM} /\ ruined \in BOOLEAN
<1>1. Held \subseteq used /\ others \subseteq used \ Held
  BY CountHeld DEF OwnMemory
<1>2. \A e \in Dirs : BlocksOf(e) \subseteq Held
  BY HeldByKind DEF DirectoryBlocks
<1> QED
  BY <1>1, <1>2 DEF ProcessInv, PagingInv, TypeOK, ProcessTypeOK

\* Steps that change the heap only where nobody owns it, or the others' part.
LEMMA SameState ==
  ASSUME ProcessInv, UNCHANGED <<chunk, directory, table, remapped>>,
         UNCHANGED <<taskVars, processes, process>>,
         current' = current \/ (current = Null /\ current' \in Dirs),
         Held \subseteq used', used' \subseteq HeapBlocks, others' \subseteq used' \ Held,
         ret' \in {0, -EISTKN, -ENOMEM}, ruined' \in BOOLEAN
  PROVE  ProcessInv' /\ NoPageMoved /\ Held' = Held
<1>1. current' \in Dirs \cup {0} /\ \A e \in Dirs : BlocksOf(e) \subseteq used'
  BY OwnersInUse DEF Null
<1>2. /\ PagingInv' /\ Dirs' = Dirs /\ \A e \in Dirs : BlocksOf(e)' = BlocksOf(e)
      /\ \A e \in Dirs, v \in Pages : Entry(e, v)' = Entry(e, v)
  BY <1>1, SamePages DEF ProcessInv
<1>3. ProcessInv' /\ Held' = Held
  BY <1>2, SameOwners
<1> QED
  BY <1>2, <1>3 DEF NoPageMoved

\* The rest of the kernel takes a block, or gives one of its own back.
LEMMA OthersStep ==
  ASSUME ProcessInv, OthersTake \/ OthersGive
  PROVE  ProcessInv' /\ NoPageMoved /\ NothingLost
<1>1. /\ UNCHANGED <<chunk, directory, table, current, remapped>>
      /\ UNCHANGED <<taskVars, processes, process>> /\ ret' = ret /\ ruined' = ruined
  BY DEF OthersTake, OthersGive, directoryVars
<1>2. /\ Held \subseteq used /\ others \subseteq used \ Held /\ used \subseteq HeapBlocks
      /\ ret' \in {0, -EISTKN, -ENOMEM} /\ ruined' \in BOOLEAN
  BY <1>1, OwnersInUse
<1>3. CASE OthersTake
  <2>0. kzalloc(1) # Null /\ 1 \in Nat \ {0}
    BY <1>3 DEF OthersTake
  <2>1. PICK b \in [1 .. 1 -> HeapBlocks \ used] :
               /\ b = Lowest(1)
               /\ \A i, j \in 1 .. 1 : b[i] = b[j] => i = j
               /\ kzalloc(1) = b[1]
    BY <2>0, FreeBlocks
  <2>2. PICK x \in HeapBlocks \ used : used' = used \cup {x} /\ others' = others \cup {x}
    BY <1>3, <2>1 DEF OthersTake
  <2>3. ProcessInv' /\ NoPageMoved /\ Held' = Held
    BY <1>1, <1>2, <2>2, SameState
  <2> QED
    BY <1>2, <2>2, <2>3 DEF NothingLost, Lost
<1>4. CASE OthersGive
  <2>1. PICK x \in others : used' = used \ {x} /\ others' = others \ {x}
    BY <1>4 DEF OthersGive
  <2>2. ProcessInv' /\ NoPageMoved /\ Held' = Held
    BY <1>1, <1>2, <2>1, SameState
  <2> QED
    BY <1>2, <2>1, <2>2 DEF NothingLost, Lost
<1> QED
  BY <1>3, <1>4

\* Mapping a page, by kernel_main or process_map_binary.
LEMMA MapOnePage ==
  ASSUME ProcessInv, MapPages
  PROVE  /\ ProcessInv' /\ NothingLost
         /\ Cardinality(Changed) <= 1 /\ Changed \subseteq remapped'
<1>1. UNCHANGED <<taskVars, processes, process>> /\ UNCHANGED <<ret, others, ruined>>
  BY DEF MapPages, restVars
<1>2. PICK d \in Dirs, v \in Virtual, p \in Physical, f \in FlagSets :
             UNCHANGED pagingVars \/ paging_set(d, v, p + f)
  BY MapTo DEF MapPages
<1>3. p + f \in Nat
  BY PagingAssumption DEF AllFlags
<1>4. /\ PagingInv' /\ UNCHANGED <<used, chunk, directory, current>>
      /\ \A e \in Dirs, w \in Pages :
            Entry(e, w)' # Entry(e, w) => e = d /\ w = v /\ <<d, v>> \in remapped'
  <2>1. CASE UNCHANGED pagingVars
    BY <2>1, SamePages DEF pagingVars, ProcessInv, PagingInv, TypeOK, Apart
  <2>2. CASE paging_set(d, v, p + f)
    BY <1>3, <2>2, SetPage DEF ProcessInv
  <2> QED
    BY <1>2, <2>1, <2>2
<1>5. Dirs' = Dirs /\ \A e \in Dirs : BlocksOf(e)' = BlocksOf(e)
  BY <1>4 DEF Dirs, BlocksOf, TablesOf
<1>6. /\ Held \subseteq used' /\ others' \subseteq used' \ Held
      /\ ret' \in {0, -EISTKN, -ENOMEM} /\ ruined' \in BOOLEAN
  BY <1>1, <1>4, OwnersInUse
<1>7. ProcessInv' /\ Held' = Held
  BY <1>1, <1>4, <1>5, <1>6, SameOwners
<1>8. Changed \subseteq {<<d, v>>} /\ Changed \subseteq remapped'
  <2> SUFFICES ASSUME NEW c \in Changed PROVE c = <<d, v>> /\ c \in remapped'
    OBVIOUS
  <2>1. PICK e \in Dirs, w \in Pages : c = <<e, w>> /\ Entry(e, w)' # Entry(e, w)
    BY DEF Changed
  <2> QED
    BY <1>4, <2>1
<1>9. IsFiniteSet({<<d, v>>}) /\ Cardinality({<<d, v>>}) = 1
  BY FS_Singleton
<1>10. Cardinality(Changed) <= 1
  BY <1>8, <1>9, FS_Subset
<1> QED
  BY <1>1, <1>4, <1>7, <1>8, <1>10 DEF NothingLost, Lost

\* A load that fails takes one block of the heap or none.
FailedLoad == NoSlot \/ NoProcess \/ NoStack

\* It keeps the invariant, and says so when a block is lost.
LEMMA LoadFails ==
  ASSUME ProcessInv, FailedLoad
  PROVE  /\ ProcessInv' /\ NoPageMoved
         /\ Lost \subseteq Lost' /\ Cardinality(Lost' \ Lost) <= 1
         /\ Lost' # Lost => ret' = -ENOMEM /\ processes' = processes
<1>1. PICK L \in SUBSET (HeapBlocks \ used) :
             /\ used' = used \cup L
             /\ L = {} \/ (ret' = -ENOMEM /\ \E x : L = {x})
  <2>1. CASE NoSlot \/ NoProcess
    BY <2>1 DEF NoSlot, NoProcess, pagingVars
  <2>2. CASE NoStack
    <3>1. PICK b \in [1 .. 1 -> HeapBlocks \ used] : kzalloc(1) = b[1]
      BY <2>2, FreeBlocks DEF NoStack
    <3>2. used' = used \cup {b[1]} /\ ret' = -ENOMEM /\ b[1] \in HeapBlocks \ used
      BY <2>2, <3>1 DEF NoStack
    <3> QED
      BY <3>2
  <2> QED
    BY <2>1, <2>2 DEF FailedLoad
<1>2. /\ UNCHANGED <<chunk, directory, table, current, remapped>>
      /\ UNCHANGED <<taskVars, processes, process>>
      /\ ret' \in {0, -EISTKN, -ENOMEM} /\ others' = others /\ ruined' = ruined
  BY DEF FailedLoad, NoSlot, NoProcess, NoStack, pagingVars, directoryVars, restVars
<1>3. /\ used' \subseteq HeapBlocks /\ Held \subseteq used' /\ others' \subseteq used' \ Held
      /\ ruined' \in BOOLEAN
  BY <1>1, <1>2, OwnersInUse
<1>5. ProcessInv' /\ NoPageMoved /\ Held' = Held
  BY <1>2, <1>3, SameState
<1>6. Lost \subseteq Lost' /\ Lost' \ Lost \subseteq L
  BY <1>1, <1>2, <1>5 DEF Lost
<1>7. Cardinality(Lost' \ Lost) <= 1
  <2>1. IsFiniteSet(L) /\ Cardinality(L) \in Nat /\ Cardinality(L) <= 1
    <3>1. CASE L = {}
      BY <3>1, FS_EmptySet
    <3>2. CASE \E x : L = {x}
      <4>1. IsFiniteSet(L) /\ Cardinality(L) = 1
        BY <3>2, FS_Singleton, Zenon
      <4> QED
        BY <4>1
    <3> QED
      BY <1>1, <3>1, <3>2
  <2>2. Cardinality(Lost' \ Lost) <= Cardinality(L) /\ Cardinality(Lost' \ Lost) \in Nat
    BY <1>6, <2>1, FS_Subset, FS_CardinalityType
  <2> QED
    BY <2>1, <2>2
<1>8. Lost' # Lost => ret' = -ENOMEM /\ processes' = processes
  BY <1>1, <1>2, <1>6
<1> QED
  BY <1>5, <1>6, <1>7, <1>8

\* Every step: the invariant, the pages and the losses.
LEMMA ProcessStep ==
  ASSUME ProcessInv, [Next]_vars
  PROVE  /\ ProcessInv'
         /\ Cardinality(Changed) <= 1 /\ Changed \subseteq remapped'
         /\ \/ ruined'
            \/ /\ Lost \subseteq Lost' /\ Cardinality(Lost' \ Lost) <= 1
               /\ Lost' # Lost => ret' = -ENOMEM /\ processes' = processes
<1>1. ASSUME NothingLost PROVE Lost \subseteq Lost' /\ Cardinality(Lost' \ Lost) <= 1 /\ Lost' = Lost
  <2>1. Lost' = Lost /\ Lost' \ Lost = {}
    BY <1>1 DEF NothingLost
  <2> QED
    BY <2>1, FS_EmptySet
<1>2. ASSUME UNCHANGED <<used, chunk, directory, table, remapped>>,
             UNCHANGED <<taskVars, processes, process>>, UNCHANGED <<ret, others>>,
             current' = current \/ (current = Null /\ current' \in Dirs), ruined' \in BOOLEAN
      PROVE  ProcessInv' /\ NoPageMoved /\ NothingLost
  <2>1. /\ Held \subseteq used' /\ used' \subseteq HeapBlocks /\ others' \subseteq used' \ Held
        /\ ret' \in {0, -EISTKN, -ENOMEM}
    BY <1>2, OwnersInUse
  <2>2. ProcessInv' /\ NoPageMoved /\ Held' = Held
    BY <1>2, <2>1, SameState
  <2> QED
    BY <1>2, <2>2 DEF NothingLost, Lost
<1>3. CASE UNCHANGED vars
  <2>1. /\ UNCHANGED <<used, chunk, directory, table, current, remapped>>
        /\ UNCHANGED <<taskVars, processes, process>> /\ UNCHANGED <<ret, others>>
        /\ ruined' \in BOOLEAN
    BY <1>3, OwnersInUse DEF vars, pagingVars, restVars
  <2> QED
    BY <1>1, <1>2, <2>1, NoChanges
<1>4. CASE KernelDirectory
  <2>1. CASE Dirs = {} /\ kzalloc(Entries + 2) # Null
             /\ (\E flags \in FlagSets : paging_new_4gb(Lowest(Entries + 2), flags))
             /\ used' = used \cup Range(Lowest(Entries + 2))
    BY <1>1, <1>4, <2>1, FirstDirectory, NoChanges DEF KernelDirectory
  <2>2. CASE current = Null /\ \E d \in Dirs : paging_switch(d)
    <3>1. /\ current = Null /\ current' \in Dirs
          /\ UNCHANGED <<used, chunk, directory, table, remapped>>
          /\ UNCHANGED <<taskVars, processes, process>> /\ UNCHANGED <<ret, others>>
          /\ ruined' \in BOOLEAN
      BY <1>4, <2>2, OwnersInUse DEF KernelDirectory, paging_switch, restVars
    <3> QED
      BY <1>1, <1>2, <3>1, NoChanges
  <2> QED
    BY <1>4, <2>1, <2>2 DEF KernelDirectory
<1>5. CASE MapPages
  BY <1>1, <1>5, MapOnePage
<1>6. CASE process_load
  <2>1. CASE FailedLoad
    BY <2>1, LoadFails, NoChanges
  <2>2. CASE current # Null /\ FreeSlots # {} /\ Loaded(process_get_free_slot)
    BY <1>1, <2>2, LoadProcess, NoChanges
  <2>3. CASE FreeSlots # {} /\ Taskless(process_get_free_slot)
    BY <1>1, <2>3, LoadTaskless, NoChanges
  <2>4. CASE Ruined
    <3>1. /\ UNCHANGED <<used, chunk, directory, table, current, remapped>>
          /\ UNCHANGED <<taskVars, processes, process>> /\ UNCHANGED <<ret, others>>
          /\ ruined' = TRUE
      BY <2>4 DEF Ruined, pagingVars
    <3> QED
      BY <1>2, <3>1, NoChanges
  <2> QED
    BY <1>6, <2>1, <2>2, <2>3, <2>4 DEF process_load, process_load_for_slot, FailedLoad
<1>7. CASE OthersTake \/ OthersGive
  BY <1>1, <1>7, OthersStep, NoChanges
<1> QED
  BY <1>3, <1>4, <1>5, <1>6, <1>7 DEF Next

-----------------------------------------------------------------------------
(* Theorems *)

\* The invariant holds throughout.
LEMMA ProcessInvariance == Spec => []ProcessInv
<1>1. ProcessInv /\ [Next]_vars => ProcessInv'
  BY ProcessStep
<1> QED
  BY <1>1, ProcessInitInv, PTL DEF Spec

\* The directories, their entries and the heap have their types, whatever the
\* kernel does.
THEOREM PagingTypeOK == Spec => []TypeOK
BY ProcessInvariance, PagingInvImplies, PTL DEF ProcessInv

\* Every directory has tables of its own, all of them allocated while it exists
\* (paging_new_4gb; a load that fails gives back only its own).
THEOREM DirectoriesOwnBlocks == Spec => []OwnBlocks
BY ProcessInvariance, PagingInvImplies, PTL DEF ProcessInv

\* A page nobody has set is mapped to itself, in every directory
\* (paging_new_4gb's loops and what paging_set does to them).
THEOREM UnsetPagesMapToThemselves == Spec => []MapsToItself
BY ProcessInvariance, PagingInvImplies, PTL DEF ProcessInv

\* Tasks, processes and the results of a load have their types.
THEOREM ProcessTypes == Spec => []ProcessTypeOK
BY ProcessInvariance, PTL DEF ProcessInv

\* The list of tasks goes forwards through the tasks that exist (task_new,
\* task_list_remove).
THEOREM ListForwards == Spec => []NextFollows
BY ProcessInvariance, PTL DEF ProcessInv

\* And backwards.
THEOREM ListBackwards == Spec => []PrevIsPrevious
BY ProcessInvariance, PTL DEF ProcessInv

\* Processes, stacks, tasks, directories and the rest of the kernel never share a
\* block, and hold exactly the blocks their counts say: no failed load gives back
\* what is in use.
THEOREM MemoryIsOwned == Spec => []OwnMemory
BY ProcessInvariance, CountHeld, PTL

\* A step changes one page at most, the one it was asked to set (paging_set).
THEOREM OnePageAtMost == Spec => SetsOnePage
<1>1. ProcessInv /\ [Next]_vars
        => [Cardinality(Changed) <= 1 /\ Changed \subseteq remapped']_pagingVars
  BY ProcessStep
<1> QED
  BY <1>1, ProcessInvariance, PTL DEF Spec, SetsOnePage

\* Memory is lost to a load without a stack and to nothing else, whatever the load
\* ran out of, until one has gone on through address 0 (process_load_for_slot,
\* task_new, task_free).
THEOREM OnlyStacklessLoadsLose == Spec => LossesAreStacklessLoads
<1>1. ProcessInv /\ [Next]_vars
        => [\/ ruined'
            \/ /\ Lost \subseteq Lost'
               /\ Cardinality(Lost' \ Lost) <= 1
               /\ Lost' # Lost => ret' = -ENOMEM /\ processes' = processes]_vars
  BY ProcessStep
<1> QED
  BY <1>1, ProcessInvariance, PTL DEF Spec, LossesAreStacklessLoads
=============================================================================

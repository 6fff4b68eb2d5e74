# LibreWin in TLA+

LibreWin's kernel (`src/librewin/base/txos`) is a small single-processor x86
system: a heap, paging, processes, a FAT16 file layer, a keyboard interrupt and
a shell that loads PE programs and batch scripts. This directory holds TLA+
models of its parts, the TLC runs that check them on small instances, and TLAPS
proofs of the results that hold for every instance.

Paths below are relative to `src/librewin/base/txos/`.

## The system and its parts

| part | state | operations | properties that make it correct |
|---|---|---|---|
| heap (`ke/memory/heap`) | one byte per block: taken, first, has-next | `kmalloc`, `kzalloc`, `kfree` | allocations do not share blocks and lie in the heap; a free releases its blocks and no other |
| paging (`ke/memory/paging`) | directories and tables in heap blocks, the current directory | new, switch, free, set, map, map_range, map_to | a new directory maps every page to itself; a mapping changes one page of one directory; no table is shared |
| tasks, processes (`ke/task`) | linked list of tasks, table of processes | `task_new`, `task_free`, `process_load` | the list is well linked; nothing is owned twice; a failed load gives back what it took |
| file layer (`ke/fs/file.c`, `pparser.c`) | descriptor table, filesystem table | `fopen`, `fread` | what opens is what exists; a descriptor keeps its file; a returned descriptor can be read |
| FAT16 driver, disk stream (`ke/fs/fat`, `ke/disk`) | private streams, root directory | resolve, open, read | every file there is is found by its name, whatever its attributes and the items around it; a read returns the bytes of the cluster chain |
| keyboard interrupt (`ke/idt/idt.c`) | `input_buffer`, `input_pos` | `int21h_handler` | the line and its NUL fit; the echo matches the buffer |
| shell (`init/kernel.c`) | `ex_buffer`, `exec` | `KiUserInit`, `IsBatFile`, `NsExec` | every line submitted is acted on once, as what it is; reads stay in the buffer |
| framebuffer console (`init/kernel.c`, `ke/graphics`) | the global cursor, the double buffer | `PrintChar`, `Print`, `RenderString`, `cls` | the cursor stays on the screen and behind the text |
| VGA text terminal (`init/kernel.c`) | screen, row, column | `print`, `terminal_scroll`, `terminal_initialize` | the screen shows the last lines printed |
| system calls, exceptions (`ke/idt`, `ke/bug.c`) | `tmp_res`, the interrupt controllers | `int 0x2e`, the services, `no_interrupt`, `KeBugCheck` | a call's result finds its caller; no interrupt is kept out for ever; a fault stops the machine |
| PE loader, batch scripts (`init/loader.c`) | the image being loaded, `strtok`'s pointer | `LdrLoadPe`, `LdrExecBat` | the file named is loaded; every address moves with the image; a script's lines run in order, once, whatever they run |
| boot (`init/kernel.c`, `init/kernel.asm`) | `w`, `h`, `buffer`, `fontdata` | `kernel_main`, `fetchwh`, `VdiInit` | the buffer fits the screen; nothing uses what is not there yet |
| ntdll (`src/librewin/ntdll.c`) | none | the stubs, `NtQuerySystemInformation` | none of its own: it is a caller of the kernel |
| GDT, TSS, LPC ports, applications, serial output, boot sector | | | not modelled: see `PROJECT.json`, "components" |

How they interact. Everything allocates from the heap. The shell runs in user
mode with interrupts enabled and shares `ex_buffer` and `exec` with the keyboard
interrupt, without any lock; it also shares the cursor with it. System calls go
through an interrupt gate, so the file layer, the loader and `Print` run with
interrupts off. The drive's interrupt has the vector of the system call.
Processes take their directories from paging, which takes its tables from the
heap. `LdrExecBat` calls `NsExec` again, inside the system call, and a program that
a script runs may load programs and run scripts itself.

What is hard here: the keyboard interrupt between any two instructions of the
shell and of the boot; calls inside calls; memory or descriptors running out half
way through an operation; the boundaries of tables, rows, names and sectors.
`PROJECT.json` lists these under "hazards", each at its line.

## Modules

| module | models |
|---|---|
| `Status` | `ke/status.h` |
| `Allocator` | abstract: what callers expect of kmalloc and kfree |
| `Heap`, `HeapLoops` | `heap.c`, `kheap.c`; the loops by their result, and iteration by iteration |
| `Shell` | `KiUserInit`, `IsBatFile`, `NsExec`, `SetExecBuffer`, `int21h_handler`, `strlen`, `strcmp`, `strcpy` |
| `Console` | the cursor of `PrintChar`, `Print`, `RenderString`, `cls`, and the echo of keys |
| `Terminal` | the VGA terminal |
| `Syscall` (extends `Terminal`) | `int2eh`, the dispatcher and its services, the vectors, `KeBugCheck`, ntdll's calls |
| `Boot` (extends `Syscall`) | `kernel_main`, the interrupt controllers and interrupts, the shell's loop as a caller of the kernel |
| `Fat16` | layout, directory search, cluster walk, reading, the disk stream |
| `Vfs` (extends `Fat16`) | path parser, `fopen`, `fread`, `DiskInit`, heap use |
| `Loader` (extends `Vfs`) | `join_paths`, `LdrLoadPe` and its steps, `LdrExecBat`, `strtok` |
| `Paging` | `paging.c` over heap blocks |
| `Process` (extends `Paging`) | `task.c`, `process.c`, and who makes, maps and frees directories |
| `MC...` | constants for TLC |
| `HeapProofs`, `ShellProofs`, `ConsoleProofs`, `ProcessProofs`, `KernelProofs`, `LoaderProofs` | theorems on `Heap`; `Shell`; `Console`; `Paging` and `Process`; `Syscall` and `Boot`; `Fat16`, `Vfs` and `Loader` |
| `NumberLemmas`, `PagingProofs` | lemmas: division, least numbers, loops and induction along them; the directories and their tables |

How state and actions correspond to the code:

* **Heap.** `entries` is the table, an entry the set of its flags; `spill` holds
  the indexes past the table that `heap_mark_blocks_taken` writes; `live` is what
  callers hold. `Kmalloc` and `Kfree` are whole calls. Sizes are taken modulo
  `Word`, for the rounding wraps in 32 bits. Callers are assumed to free what
  they were given, once. A pointer for no bytes, or for a size that wraps to 0,
  owns no block and is not in `live`: the properties show that handing it out
  changes no allocation, and say nothing of its holder, whose address may be
  given to another. Nor is it freed: the callers of `kfree` free objects of a
  constant size that is not 0, except that `fat16_free_directory` may be given a
  directory without items, of which `kfree` clears the entry of a free block.
* **Shell.** A step is one read of `ex_buffer`, for the interrupt may come between
  any two; `pc` names the place in `KiUserInit` / `NsExec`, `k` the character.
  `strcmp` reads both strings again for its result, after its loop has ended, and
  the model does too. The interrupt handler is one step (interrupts are off in
  it). A program that is running is the state `running`; it returns or stops the
  machine. `line`, `fresh` and `early` are auxiliary: the last line submitted, that
  it has not been acted on, that it was submitted while the shell was at work.
* **Console.** `Print` draws with its own cursor and then moves the global one;
  both walk the string together here, a character a step, as nothing can observe
  one without the other (interrupts are off). The two assignments of `cls` are
  two steps, for they are made in user mode. Columns are unsigned and wrap at `Word`;
  the width may be anything `fetchwh` leaves. `start`, `clean` and `eaten` are
  auxiliary: where the line began, that nothing else was printed since, and how
  many cells in front of it have been blanked by `\b`s on an empty line.
* **Fat16 / Vfs.** A disk image is its allocation table, its root directory as a
  sequence of items, and the bytes of the data area. A name is a base and an
  extension, with a flag for a base that fills its eight characters and one for an
  extension that fills its three; the attribute byte behind the extension decides
  where the latter ends. `free`
  counts heap blocks: each object of these calls fits one, and every failure for
  want of one is modelled. A read past the sector buffer yields `GARBAGE`; a
  sector the disk has not yields the endless wait of `disk_read_sector`, after
  which nothing happens.
* **Loader.** A load is its calls in order: open, read, process the header,
  then memory, sections and relocations in one step (interrupts are off and
  nothing fails in between). A program is a record of the header fields the code
  uses, its sections as words of half a register, so that carries and 16-bit
  fields show; `Word` is 2^16 in the code, 16 in the run. What the code reads
  without having checked is a choice over what memory may hold: a path that does
  not fit `file_path`, a header after a failed read, relocation blocks without a
  directory. The loops of `LdrCpySections` and `LdrRelocMemory` are recursive
  functions of the iterations done. The header goes to address 0 in the code
  (`processedFile` is `NULL`); nothing else of the model is there, and of an image
  that is loaded there for want of memory nothing is said. A program that runs may
  open files and call either loader; `callers` holds those that wait for one, each
  with the script it runs in. `nextToken` is `strtok`'s static pointer, one for all
  scripts; `robbed` (auxiliary) marks a script whose place in it is gone. What such
  a script finds next is nothing, or, where the pointer still points into the data
  of a script that has returned (`STALE`), any text.
* **Syscall.** A call in progress is a frame: number, argument, result, the
  interrupt flag to return to. `tmp_res` is one variable for all of them; storing
  and loading it are steps of their own. A script runs inside its call and its
  lines trap again. `syscall_handler` is declared `void` and the result stays in
  `eax` across its return, which the model takes for granted. Files are found or
  not, for `Vfs` and `Loader` say when. Of a query the model has whether it is refused
  for its length, and what it prints. `own` is auxiliary.
* **Boot.** `Order` is the order of `kernel_main`; `Runs` lets a step happen only
  when no call is in progress. `irr` and `isr` are the controllers' request and
  service bits with fixed priorities and without specific end-of-interrupt, as
  `kernel.asm` programs them. The drive raises IRQ14 with every read; when one
  ends depends on the drive, so a request may stay pending for any time while
  interrupts are off, and requests merge, as the controller's edge does. The
  timer is left out: `no_interrupt` ends what it began and changes nothing else.
  `wild` says what was drawn through `buffer` while it was `NULL`, `asked` what
  `boot.ini` asks for as a reader of it would say. `fetchwh` computes in ints that
  wrap at `Word`; the buffer's size, undefined where its bits are no int, is a
  choice of the two values a compiler may make of it.
* **Paging.** Entries are numbers, an address plus flags. `Entry` is how the
  processor finds an entry, written independently of `paging_get_indexes`.
  `paging_map_range` stops at its first success, as the code does.
* **Process.** Process, stack and task are a block each and a directory `Entries`
  + 2, out of one heap, of which the rest of the kernel (`others`) takes blocks and
  gives them back. `process_load_binary` is a stub that succeeds, and a process has
  no image, so `process_map_memory` maps nothing. A load asks for its blocks in
  order and may run out at any of them. Without a process or a stack it returns
  `-ENOMEM`. With a task and without its whole directory, `paging_new_4gb` writes
  through address 0, `task_init` sees no directory, and `task_free` gives back what it
  finds through address 0, which is what was just taken (`TaskData`); `task_new`
  returns `-EIO`, which `process_load_for_slot` takes for a task (`Taskless`).
  Without a task, what `task_free` finds at address 0 is not known, and
  `process_map_binary` reads through `-EIO`, where the processor may fault: the state
  is `ruined` and nothing follows. `task_free` and `task_list_remove` have no other
  callers that are reached: no task that is on the list is ever freed.

## Runs

Passing runs:

| run | shows |
|---|---|
| `heap` | 6 blocks of 4 bytes; sizes 0, one to three and seven blocks, and one that wraps. Disjointness, table accuracy, exact frees, refinement of `Allocator`, the loops against the definitions |
| `shell` | keys at any moment, lines of up to 3 characters over 3 letters and `\b`; the words are `ch`, `h`, `b`, one a prefix-related pair, so that a comparison can be cut at any place. Reads stay in the buffer, no phantom command, return to the prompt; a line submitted while the shell waits, and not followed by another before it is done, is acted on, as what it is |
| `console` | rows of three and a half cells, keys whenever user mode runs: the cursor stays in the row, and follows the line through wraps and deletions while nothing else is printed, less the cells of the prompt that `\b`s on an empty line have blanked |
| `kernel` | a text screen of 2 by 2, the boot's and one command's texts on it (8 characters: wraps and scrolls), six contents of `boot.ini` (two with numbers beyond an int, in words of 25 bits), calls two deep. The drive's interrupt is dispatched as a system call once and no more; a key is always handled in the end, although that interrupt is never ended; text is drawn only into a buffer that exists; buffer and mode have the size `boot.ini` asks for; a line entered during the boot is acted on; callers get their own results; the screen shows the end of the text |
| `loader` | 3 disks (with a read-only file; with a directory, a deleted item and an item behind the end; without signature), 4 descriptors, 36 blocks, so that either runs out first; a program with addresses of every kind, loaded where the difference is positive and negative, carries and wraps; one cut off by the read, one without a relocation directory, one that is none; scripts with empty lines, spaces, and without a terminator; a program that runs opens files, loads programs and runs scripts |
| `process` | 2 x 2 pages, 5 slots, a heap for the kernel's directory, two loads and six blocks more, of which the rest of the kernel holds up to two at any time, so that a load finds any number of blocks from none to one too few; pages mapped at any time, aligned or not. Directories keep their tables, unset pages map to themselves, a mapping sets one page; the list, ownership, and what memory is lost |

Runs that show a disagreement between the code and what it, or a document, says.
Each has an entry under "findings":

| run | disagreement |
|---|---|
| `heap_overrun` | a request longer than the free run at the end of the heap is granted |
| `shell_typeahead` | a line entered while a command runs is lost |
| `console_text` | wrapped text and the cursor part ways |
| `vfs_existing` | a file is not found if its name has eight characters, or its extension three and its attributes are other than none or archive, or it comes last behind a deleted item; a disk for each |
| `script_nested` | a script is cut short when a program it runs has run a script |
| `vfs_chain` | the second cluster of a file is not found |

The models show more places where the code does less than its reader may expect.
They are part of the models, and the properties say exactly what is left:

* a line submitted while another is being decided on is acted on as a mixture of
  both (`init/kernel.c:387`); `ActsOnTheLine` is about lines submitted at the
  waiting shell;
* descriptors are never released (`ke/fs/file.c:79`), and the last one handed out
  is refused by `file_get_descriptor` (`ke/fs/file.c:98`);
* a load that fails for its stack's memory frees nothing (`ke/task/process.c:155`);
  `LossesAreStacklessLoads` says that nothing else is lost, whatever else runs out;
* a load that runs out of memory in its task's tables returns 0 and leaves a process
  in the table whose task is `-EIO` (`ke/task/process.c:129`);
* the numbers 0 to 5 and 0x7c of `SYSCALLS.md` are served otherwise or not at all
  (`ke/idt/idt.c:212`), while ntdll goes by the document;
* `\b` before the double buffer exists is drawn at address 0 (`init/kernel.c:423`);
  glyphs are not, as the font comes last;
* a text that is no resolution sets the screen to a width or height of 0
  (`init/kernel.c:307`), a number that is no int wraps, and a screen of 2^26 pixels
  or more gets a buffer of another size (`init/kernel.c:980`); on a screen narrower
  than a glyph a `\b` puts the cursor at a column near 2^32 (`init/kernel.c:416`);
* a `\b` on an empty line is kept as a character and blanks a cell of the prompt
  (`ke/idt/idt.c:94`), and so does the `\b` that removes it; `CursorTracksInput` counts
  them, and says that nothing else parts buffer and screen;
* `paging_map_range` stops at the first page it has mapped
  (`ke/memory/paging/paging.c:113`);
* the two stop messages for an invalid opcode and a missing segment are exchanged
  (`ke/idt/idt.c:317`-`325`), which no property is about;
* a base that fills its eight characters is copied on into the extension
  (`ke/fs/fat/fat16.c:331`), and an extension of three into the attribute byte unless
  that ends it (`ke/fs/fat/fat16.c:335`): `librever.exe` is found as `libreverexe.exe` only, which
  has not the format's form. Names like these are sequences of three parts or more
  in the model, and `OpenTellsExistence` says of the others that what opens exists;
* `NtOpenFile` keeps the descriptor to itself (`ke/idt/idt.c:129`).

Bounds. The models are finite but for `LastRow` (`Console`: no new text below
that row except through `cls`), `MaxLog` (`Terminal`), `MaxDepth`, `MaxLines`
(`Syscall`: a script's line makes one call of its own, enough for a result to be
overwritten), `MaxCalls` (`Boot`), `MaxNested` (`Loader`: a program that a script runs
calls a loader, whose program calls none) and `MaxOthers` (`Process`). Small constants are enough where behaviour
depends only on order and adjacency: three allocations and a gap (heap), a line
shorter and one longer than the words compared (shell), one more row than the
screen (terminal), three directories, two tasks and every shortage of a load
(process), two sections and two relocation blocks (loader).
The properties with a theorem (see Proofs) hold without these
bounds.

Deadlock is checked except in `Shell` and `Boot` (the machine may be halted or
turned off) and in `Vfs` and `Loader` (a read may wait for ever).

Fairness. `Shell` assumes weak fairness of `KiUserInit`: one processor executes
the shell whenever no interrupt is being handled, and a handler ends. It includes
that a program eventually returns or stops the machine; the shell makes no
promise for one that does neither. No fairness is assumed of the keyboard.
`Boot` assumes it of `kernel_main`, of the shell's steps, of a call in progress and
of the two interrupts: the processor takes an interrupt that is requested,
unmasked and not kept out by another in service. Nothing is assumed of the key
presses or of a command's calls.
`LineIsActedOn` is about lines submitted while the shell waits for one; for a line
submitted while it is at work `shell_typeahead` shows that it may be lost.

## Proofs

All for arbitrary constants under the named assumptions of the modules, which
TLC evaluates on the runs' constants. Each theorem is of the whole
specification (`Spec`, `BootSpec`, `LoaderSpec`).

Assumptions beyond the types of the constants:

| assumption | says | because |
|---|---|---|
| `PagingAssumption` | the heap is finite, its blocks are aligned to pages and none is at 0; addresses lie in the 4 GB a directory covers | `LIBREWIN_HEAP_ADDRESS`, `LIBREWIN_HEAP_BLOCK_SIZE` in `ke/config.h`; 32-bit addresses |
| `BootInisAssumption` | a resolution is a sequence of bytes that ends in a NUL | strings of C |
| `ConsoleAssumption` | the width is an unsigned word, 0 included; a glyph is smaller than a word; what is printed is text and line ends | `unsigned int` columns |
| `VfsAssumption`, `VolumeAssumption` | no two items of a directory in use have one name; the allocation table's entries lie in it; an item in use begins in a data cluster that the disk has | a volume of this format; a disk that is none is out of scope of "the file's bytes". Files of no bytes, which have no cluster, are left out |
| `CallsAssumption`, `LoaderAssumption`, `SyscallAssumption` | paths are sequences of names, scripts of characters; bases, sizes and counts are numbers | types of C |
| `TerminalAssumption`, `GreetingsAssumption` | what is printed is a finite sequence of characters | strings of C |

`ImageIsRelocated` is about programs that are `WellFormed`, a condition in the
property and no assumption: sections lie in the image and apart, addresses to
relocate lie in sections and apart, and the directory ends with a block at 0. The
code checks none of it, and what it makes of a file that is otherwise is not
specified; the run's program with a relocation directory satisfies it.

The arguments:

* `HeapProofs`. `HeapInv` is `TypeOK`, `LiveDisjoint` and `TableMatchesLive` with
  the facts that connect a pointer with its first block and say that allocations
  that end past the table start in it. Disjointness alone is not inductive: that
  a new allocation is disjoint from the old ones needs the table to say which
  blocks are theirs, and that a free takes only its own blocks needs the
  `HAS_NEXT` marks to end where the allocation does. Results: `HeapTypeOK`,
  `NoDoubleAllocation`, `TableIsAccurate`, `FreeIsExact`, and
  `HeapImplementsAllocator` (refinement of `Allocator`). They hold although an
  allocation may overrun the heap (`heap_overrun`): the overrun reaches memory
  behind the heap, never another allocation. `LoopsCompute` shows that the loops
  of `heap.c`, iteration by iteration (`HeapLoops`), do what `Heap` says in one
  expression. They are recursive functions of the iterations done; that such a
  function exists, and induction along it, are `LoopExists` and `Induction` of
  `NumberLemmas`, which argue with a least counterexample and not with an operator
  as a parameter. Each loop has its invariant: what the search has passed over,
  which blocks are marked, which are still to free.
* `ShellProofs`. `ShellInv` joins types, bounds and freshness. The last cell of
  `ex_buffer` is always NUL; so `strlen` and `strcmp` stop, although the line
  changes under them. Results: `ShellTypeOK`, `ReadsInBuffer`, `NoPhantom`.
  For `ActsOnTheLine` (`LineDecidesTheAct`) `LineInv` says how far a line that
  was submitted at the prompt is understood at each place of the shell: which
  characters the comparison in progress has found equal, and what the
  comparisons before it have excluded. Keys typed meanwhile change only
  `input_buffer`; an Enter sets `early`, which ends the claim.
* `ConsoleProofs`. Every move is an advance, a retreat or an assignment of `cls`;
  each leaves room for a glyph, where the row has room for one and its columns do not
  wrap (`HasColumns`, a condition in the properties; `ConsoleTypeOK` needs none).
  Results: `ConsoleTypeOK` and `CursorOnScreen`. `CursorTracksInput` (`LineIsTracked`) needs
  that the cursor is on the grid (`OnGrid`): at whole glyphs from the left edge,
  or, where a retreat into the row above has put it, from the right edge. The
  lemmas `AdvanceCell` and `RetreatCell` show that both kinds of position number
  the cells alike, so that an advance adds one to the cell and a retreat takes
  one off, also in a row whose width is no multiple of a glyph's; a retreat from where
  the line began takes one off the prompt, until there is none (`eaten`).
* `ProcessProofs`, on the lemmas of `PagingProofs`. `PagingInv` says that the
  tables of a directory are apart from each other and from those of any other,
  and that entries not set point where `paging_new_4gb` let them point; with it
  the index arithmetic (`NumberLemmas`) gives that `Entry`, the processor's way to
  a page, finds it. `ProcessInv` adds the task list and its directories, that
  the kernel has one directory no task has, that processes, stacks, tasks and
  directories are apart, and that what others hold is none of theirs
  (`OthersApart`). `OwnMemory` counts blocks; the count is left out of
  the induction and follows from the blocks' being apart (`CountHeld`).
  A load that runs out of memory takes a row of free blocks that ends in nothing
  (`ShortRow`); the entries it leaves at address 0 name those blocks and no others
  (`HalfMade`), so giving them back touches nobody (`TasklessTakes`), and
  `task_list_remove` leaves a list alone that the task is not on (`NotListed`). Results: `PagingTypeOK`, `DirectoriesOwnBlocks`,
  `UnsetPagesMapToThemselves`, `ProcessTypes`, `ListForwards`, `ListBackwards`,
  `MemoryIsOwned`, and of steps `OnePageAtMost` and `OnlyStacklessLoadsLose`.
* `KernelProofs`. Four invariants on different parts of the state. `CallInv`: all
  calls but the innermost are running a script, and interrupts are off while
  there is one, so between storing `tmp_res` and loading it nobody else stores
  (`CallersGetTheirResults`). `UnaskedInv`: the drive's interrupt, once dispatched,
  stays in service, for `int2eh` ends none and `no_interrupt` only the master's
  (`OneCallUnasked`). `ScreenInv`: what `kernel_main` has done at each of its
  steps; a font implies a buffer, which is why a key at a bad moment draws
  nothing (`NoTextBeforeBuffer`). For `BufferIsTheScreens` digits are added up without
  a wrap as long as the number they stand for is an int, by induction over them.
  `TextInv`: the text
  printed so far, laid out on a page without end, has the screen as its last lines
  (`Shows`), and what is still to be printed is text. A character that is written
  keeps that, also through a wrap and the scroll, and so does a string by induction
  over its length (`TerminalShowsTail`).
* `LoaderProofs`. `LoaderInv` is the types, that what is open was in use when it
  was opened, and what the loader has done at each of its steps. What `fopen`
  finds is computed by its operators for any directory (`FoundItems`,
  `OpenedItem`), which gives `OpenTellsWhatIsThere` and `NamedFileIsLoaded`.
  `ReadsReturnTheFile` is arithmetic on the volume's layout: the sector and the
  offset the driver computes for byte `j` of a cluster are those of byte `j` of
  the file (`DataByte`, `SectorsRead`), and reading part by part, each from a
  sector's start, joins the same bytes (`WholeRead`). Also `FileLayerTypes`,
  `DescriptorsAreKept`. `ScriptInv` (`ScriptRunsItsLines`): while a script runs,
  `strtok` goes on where a line may begin, and the lines run so far are those that
  begin before that place; so an empty line, or spaces before one, neither end the
  script nor run as a command. Of the scripts that wait for a program, `strtok`'s place
  is in the innermost at most, and the others are marked `robbed` (`GoodScripts`).
  `ImageInv` (`ProgramsAreRelocated`): the words that
  are in memory when the program is entered are those the loops of the loader
  compute. `SectionsCopied` says what they are after the sections are copied;
  `EntryApplied`, `BlockApplied` and `MemoryApplied`, each by induction over the
  iterations of its loop, that a word in no address stays what it is and that an
  address is added to once, as addresses are apart; `AddressMoved` that adding to
  the halves with a carry is adding modulo 2^32, forwards and backwards.

Only model-checked is liveness, which the prover does not reach: `ReturnsToPrompt`,
`LineIsActedOn`, `KeyIsHandled`, `BootLineRuns`. Every invariant and every action
property of a passing run, and the refinement, has a theorem.

## Not modelled

* Pixels, glyphs and colours; serial output; the port I/O of the drive; register
  contents; the boot sector (real mode, before the kernel); the sample programs,
  which the models let make any calls.
* The row of the console against the height of the screen: the code never
  compares them, so there is nothing to hold.
* What happens after `task_free` without a task (`ruined`), and after an image is
  loaded at address 0: it depends on what the machine has there.
* What `NtQuerySystemInformation` puts in its caller's buffer.
* Descriptor tables and task segment: constants written once. `ke/port/accept.c`:
  no case of the dispatcher, and no other caller, reaches it. `DllMain`: the
  loader does not call it. `task_get_next`, `NtReadFileSyscall` and
  `NtGetInputBufferSyscall`: without callers.

## What is left

The four liveness properties hold on the runs' instances. The hazards without a
property are those where the code makes no promise to hold it to (see "Not
modelled" and their notes in `PROJECT.json`). A model of more of the system would
begin with the rows of the console, once the code compares them with the
screen's height.

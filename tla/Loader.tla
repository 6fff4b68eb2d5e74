------------------------------- MODULE Loader -------------------------------
(***************************************************************************)
(* The loaders of init/loader.c on top of the file layer (module Vfs):     *)
(* LdrLoadPe reads a program, copies its sections and relocates them;      *)
(* LdrExecBat reads a script, takes it apart with strtok (ke/string) and   *)
(* gives its lines to NsExec, which loads what they name.                  *)
(*                                                                         *)
(* Both run inside a system call, so nothing but their own calls comes     *)
(* between their steps.  Other opens and reads (NtOpenFile, the boot's)    *)
(* come between the calls.  A program that runs may make system calls too: *)
(* it opens files, loads programs and runs scripts of its own, and what    *)
(* was under way waits until they return.                                  *)
(*                                                                         *)
(* A file's program or script stands for its bytes: the first byte says    *)
(* which it is.  Memory is counted in words of half a register; a word no  *)
(* one has written holds JUNK.                                             *)
(***************************************************************************)
EXTENDS Vfs, SequencesExt

CONSTANTS PathSize,      \* characters of file_path
          Requests,      \* what is asked for: [name, len, slash], the slash being in front
          NameOf,        \* the request a script's line makes, by its text
          ImageRead,     \* bytes LdrLoadPe reads
          ImageWords,    \* the words that come of it
          ScriptRead,    \* bytes LdrExecBat reads
          Programs,      \* the program in a file that begins with a byte
          Scripts,       \* the text in it
          Word,          \* 2^16
          Bases,         \* addresses kmalloc returns
          BlockWords,    \* words of a heap block
          Leftovers,     \* relocation blocks that memory handed out may seem to hold
          MaxNested      \* bound: loads and scripts under way around the innermost one

ASSUME LoaderAssumption == /\ BlockWords \in Nat \ {0} /\ Word \in Nat \ {0} /\ Bases \subseteq Nat
                           /\ MaxNested \in Nat
                           /\ ImageRead \in Nat /\ ScriptRead \in Nat /\ ImageWords \in Nat
                           /\ \A p \in Range(Programs) : p.size \in Nat
                           /\ \A t \in Range(Scripts) : t \in Seq(Range(t))

VARIABLES lpc,           \* the step of the loaders that is next
          req,           \* the path LdrLoadPe or LdrExecBat was given
          pe,            \* the processed header: at address 0, where processedFile points
          image,         \* the program being loaded or run: its base and words
          script,        \* LdrExecBat's data; auxiliary, robbed: strtok was started anew
          nextToken,     \* strtok's, the only one: a place in the innermost data
          ran,           \* auxiliary: the lines of the script given to NsExec
          callers        \* the programs that called a loader, with the scripts they run in

loaderVars == <<vars, lpc, req, pe, image, script, nextToken, ran, callers>>

JUNK == -1
STALE == -1      \* nextToken: a place in the data of a script that has returned
NoScript == [data |-> <<>>, busy |-> FALSE, robbed |-> FALSE]
NoImage  == [base |-> NULL, words |-> <<>>]
NoRequest == [name |-> <<>>, len |-> 0, slash |-> FALSE]

LoaderInit == /\ Init
              /\ lpc = "idle"
              /\ req = NoRequest
              /\ pe = NULL
              /\ image = NoImage
              /\ script = NoScript
              /\ nextToken = NULL
              /\ ran = <<>>
              /\ callers = <<>>

-----------------------------------------------------------------------------
(* Paths *)

\* file_path has room for "0:/" and r, a slash and the NUL.
Fits(r) == 3 + r.len + 2 <= PathSize

\* Slip: the second slash stays.
join_paths_TwoSlashes(r) ==
    IF Fits(r) THEN {[drive |-> 0, parts |-> IF r.slash THEN <<<<>>, r.name>> ELSE <<r.name>>]}
    ELSE Paths

\* The paths that may be in file_path after joining "0:/" and r: without room
\* for it the buffer is left as it was, uninitialised.
join_paths(r) == IF Fits(r) THEN {[drive |-> 0, parts |-> <<r.name>>]} ELSE Paths

Open(r, next) == /\ req' = r
                 /\ \E path \in join_paths(r) : fopen(path, "READ")
                 /\ lpc' = next

-----------------------------------------------------------------------------
(* Calls and returns *)

\* A loader is called by the shell or by the program that runs, which then waits.
\* (Its header is kept with it to say what it was loaded from; the next load
\* writes its own to address 0.)
Called == \/ lpc = "idle" /\ UNCHANGED <<pe, image, script, ran, callers>>
          \/ /\ lpc = "entered" /\ Len(callers) < MaxNested
             /\ callers' = Append(callers, [pe |-> pe, image |-> image, script |-> script, ran |-> ran])
             /\ pe' = NULL
             /\ image' = NoImage
             /\ script' = NoScript
             /\ ran' = <<>>

\* The loader returns to the program that called it, or to the shell.
Leave == \/ /\ callers = <<>>
            /\ lpc' = "idle"
            /\ pe' = NULL
            /\ image' = NoImage
            /\ script' = NoScript
            /\ ran' = <<>>
            /\ UNCHANGED callers
         \/ /\ callers # <<>>
            /\ lpc' = "entered"
            /\ LET caller == Last(callers) IN
               /\ pe' = caller.pe
               /\ image' = caller.image
               /\ script' = caller.script
               /\ ran' = caller.ran
            /\ callers' = Front(callers)

\* Back to the script that asked for the load, or else to whoever called.
\* Nobody looks at what the load leaves behind.
Back == /\ req' = NoRequest
        /\ \/ /\ script.busy
              /\ lpc' = "line"
              /\ pe' = NULL
              /\ image' = NoImage
              /\ UNCHANGED <<script, ran, callers>>
           \/ ~script.busy /\ Leave
        /\ UNCHANGED nextToken

\* There was no such file.
NotOpened == lpc \in {"image", "script"} /\ ret.fd = 0 /\ Back /\ UNCHANGED vars

-----------------------------------------------------------------------------
(* LdrLoadPe *)

\* The header is found in what was read, or in what the stack held before when
\* the read failed, its result not being looked at, or gave no bytes of a file.
Headers == IF ret.res >= 0 /\ ret.data[1] \in DOMAIN Programs THEN {Programs[ret.data[1]]}
           ELSE Range(Programs)

ReadImage == /\ lpc = "image" /\ ret.fd > 0
             /\ fread(ImageRead, 1, ret.fd)
             /\ lpc' = "process"
             /\ UNCHANGED <<req, pe, image, script, nextToken, ran, callers>>

LdrProcessPe == /\ lpc = "process" /\ ~Stuck
                /\ \E header \in Headers :
                      IF header.executable
                      THEN /\ pe' = header /\ lpc' = "load"
                           /\ UNCHANGED <<req, image, script, nextToken, ran, callers>>
                      ELSE Back
                /\ UNCHANGED vars

\* A heap without a free block answers NULL, which is not looked at either; the
\* last free blocks are given away for any size (module Heap).
LdrAllocMemory(base) ==
    LET blocks == (pe.size + BlockWords - 1) \div BlockWords IN
    IF free = 0 THEN base = NULL /\ UNCHANGED free
    ELSE base \in Bases /\ free' = Max({free - blocks, 0})

\* A section beyond what was read is copied from the stack behind it.
RawWord(s, i) == IF s.raw + i - s.at < ImageWords THEN s.words[i - s.at + 1] ELSE JUNK

\* Sections do not overlap, so their order does not matter.
LdrCpySections(p) ==
    [i \in 0 .. p.size - 1 |->
        LET at == {k \in DOMAIN p.sections : i - p.sections[k].at \in 0 .. Len(p.sections[k].words) - 1}
        IN  IF at = {} THEN JUNK ELSE RawWord(p.sections[Max(at)], i)]

Low(x)  == x % Word
High(x) == (x \div Word) % Word

\* Slip: the two halves are added apart.
Add32_NoCarry(words, i, offset) ==
    [words EXCEPT ![i] = (@ + Low(offset)) % Word, ![i + 1] = (@ + High(offset)) % Word]

\* *(PDWORD)relocAt += relocOffset
Add32(words, i, offset) ==
    LET sum == words[i] + Word * words[i + 1] + offset IN
    [words EXCEPT ![i] = Low(sum), ![i + 1] = High(sum)]

\* One entry of a block, at word i.  DWORD64 has 32 bits here.
Relocate(words, type, i, offset) ==
    CASE type = "HIGH" -> [words EXCEPT ![i] = (@ + High(offset)) % Word]
      [] type = "LOW"  -> [words EXCEPT ![i] = (@ + Low(offset)) % Word]
      [] type \in {"HIGHLOW", "DIR32"} -> Add32(words, i, offset)
      [] OTHER -> words                \* ABSOLUTE, and types it does not know

\* The blocks found at the directory's address.  Without a directory that is the
\* start of the image, where the headers are not copied.
RelocBlocks == IF pe.directory THEN {pe.relocs} ELSE Leftovers

\* The entries of a block are taken one after the other,
RelocBlock(words, b, offset) ==
    LET w[j \in 0 .. Len(b.entries)] ==
            IF j = 0 THEN words
            ELSE Relocate(w[j - 1], b.entries[j].type, b.at + b.entries[j].offset, offset)
    IN  w[Len(b.entries)]

\* and so are the blocks, up to one with VirtualAddress 0; the size of the
\* directory is not looked at.
Taken(blocks) == Min({k \in DOMAIN blocks : blocks[k].at = 0}) - 1

LdrRelocMemory(p, words, blocks, base) ==
    LET offset == (base - p.base) % (Word * Word)
        w[k \in 0 .. Taken(blocks)] == IF k = 0 THEN words ELSE RelocBlock(w[k - 1], blocks[k], offset)
    IN  w[Taken(blocks)]

\* Without memory the sections are copied over the header, at address 0, while it
\* is in use: nothing is known of the image then.
LoadImage == /\ lpc = "load"
             /\ \E base \in Bases \cup {NULL}, blocks \in RelocBlocks :
                   /\ LdrAllocMemory(base)
                   /\ image' = IF base = NULL THEN NoImage
                               ELSE [base  |-> base,
                                     words |-> LdrRelocMemory(pe, LdrCpySections(pe), blocks, base)]
             /\ lpc' = "entered"
             /\ UNCHANGED <<img, filesystem, file_descriptors, ret>>
             /\ UNCHANGED <<req, pe, script, nextToken, ran, callers>>

\* The program that was entered returns.
Returns == /\ lpc = "entered" /\ ~Stuck
           /\ Back
           /\ UNCHANGED vars

LdrLoadPe(r) == Called /\ Open(r, "image") /\ UNCHANGED nextToken

-----------------------------------------------------------------------------
(* LdrExecBat *)

CR == "\r"
LF == "\n"
SP == " "
NUL == "NUL"

\* The text that was read, or that the stack held before.
ScriptTexts == IF ret'.res >= 0 /\ ret'.data[1] \in DOMAIN Scripts
               THEN {Scripts[ret'.data[1]]} ELSE Range(Scripts)

LdrExecBat(r) == Called /\ Open(r, "script") /\ UNCHANGED nextToken

\* strtok begins with a new text: the scripts that wait have lost their place.
RobCallers == callers' = [i \in DOMAIN callers |->
                  [callers[i] EXCEPT !.script.robbed = callers[i].script.busy]]

\* data holds the text, and behind it, where nothing was read, whatever the
\* stack holds up to the next NUL.
ReadScript == /\ lpc = "script" /\ ret.fd > 0
              /\ fread(ScriptRead, 1, ret.fd)
              /\ IF ret'.res = -HANG THEN UNCHANGED <<script, nextToken, callers>>
                 ELSE /\ \E text \in ScriptTexts, tail \in {<<NUL>>, <<"x", NUL>>} :
                            script' = [data |-> text \o tail, busy |-> TRUE, robbed |-> FALSE]
                      /\ nextToken' = 1
                      /\ RobCallers
              /\ lpc' = "line"
              /\ req' = NoRequest
              /\ UNCHANGED <<pe, image, ran>>

\* The first position from i on with a character of set.
FirstIn(set, i) == Min({j \in i .. Len(script.data) : script.data[j] \in set})
FirstOther(set, i) == Min({j \in i .. Len(script.data) : script.data[j] \notin set})

\* Slip: a line is taken to end in two characters.
AfterToken_Two(end) == IF script.data[end] = NUL THEN NULL ELSE end + 2

\* The new nextToken, behind the delimiter a token ends with, or NULL.
AfterToken(end) == IF script.data[end] = NUL THEN NULL ELSE end + 1

\* The next token is the text from start to before end; none is left when start
\* is at the NUL.
strtok(start, end) == /\ nextToken \notin {NULL, STALE}
                      /\ start = FirstOther({CR, LF}, nextToken)
                      /\ end = FirstIn({CR, LF, NUL}, start)

\* The words NsExec knows itself, and what it takes for a program.
BuiltIn == {<<"cls">>, <<"help">>}

NsExec(line) == IF line \in BuiltIn THEN UNCHANGED <<vars, lpc, req>>
                ELSE Open(NameOf[line], "image")

\* No token is left, or none where another script's data was.
NoToken == nextToken \notin {NULL, STALE} => script.data[FirstOther({CR, LF}, nextToken)] = NUL

\* LdrExecBat returns, and its data is gone.
ScriptEnds == /\ lpc = "line" /\ script.busy
              /\ NoToken
              /\ nextToken' = IF nextToken = NULL THEN NULL ELSE STALE
              /\ Leave
              /\ UNCHANGED <<vars, req>>

\* Where another script's data was, any text may be found.
StaleLine == /\ lpc = "line" /\ script.busy
             /\ nextToken = STALE
             /\ nextToken' \in {NULL, STALE}
             /\ \E text \in BuiltIn \cup DOMAIN NameOf : NsExec(text)
             /\ UNCHANGED <<pe, image, script, ran, callers>>

\* A line of spaces is skipped.
ExecLine == /\ lpc = "line" /\ script.busy
            /\ \E start, end \in DOMAIN script.data :
                  /\ strtok(start, end)
                  /\ script.data[start] # NUL
                  /\ nextToken' = AfterToken(end)
                  /\ LET text == SubSeq(script.data, FirstOther({SP}, start), end - 1) IN
                     IF text = <<>> THEN UNCHANGED <<vars, lpc, req, ran>>
                     ELSE NsExec(text) /\ ran' = Append(ran, text)
            /\ UNCHANGED <<pe, image, script, callers>>

-----------------------------------------------------------------------------
\* The boot, and calls that do not come from the loaders; a program that runs
\* may call NtOpenFile.
Others == /\ \/ lpc = "idle" /\ Next
             \/ lpc = "entered" /\ \E path \in Paths : fopen(path, "READ")
          /\ UNCHANGED <<lpc, req, pe, image, script, nextToken, ran, callers>>

LoaderNext == \/ Others
              \/ \E r \in Requests : LdrLoadPe(r) \/ LdrExecBat(r)
              \/ NotOpened \/ ReadImage \/ LdrProcessPe \/ LoadImage \/ Returns
              \/ ReadScript \/ ExecLine \/ StaleLine \/ ScriptEnds

LoaderSpec == LoaderInit /\ [][LoaderNext]_loaderVars

-----------------------------------------------------------------------------
(* Properties *)

\* A program or script the driver can find, under a name that fits, is the one that is
\* opened, given with a slash in front or without, while a descriptor and nine
\* blocks are left (LdrLoadPe, LdrExecBat, join_paths).
LoadsNamedFile ==
    [][lpc' \in {"image", "script"} /\ lpc # lpc' /\ Fits(req') /\ filesystem = "FAT16"
          /\ FreeSlots # {} /\ free >= 9 /\ Findable([drive |-> 0, parts |-> <<req'.name>>]) =>
          /\ ret'.fd > 0
          /\ Name(img.root[file_descriptors'[ret'.fd].item]) = req'.name]_loaderVars

\* The words a section fills; the word of the file at word i of one.
Place(s) == s.at .. s.at + Len(s.words) - 1
FileWord(p, i) == LET s == CHOOSE s \in Range(p.sections) : i \in Place(s)
                  IN  s.words[i - s.at + 1]
Value32(W(_), i) == W(i) + Word * W(i + 1)

\* Entry j of block k: where its field begins, whether it is 32 bits wide, and
\* the words of it.
FieldAt(p, k, j) == p.relocs[k].at + p.relocs[k].entries[j].offset
IsLong(p, k, j)  == p.relocs[k].entries[j].type \in {"HIGHLOW", "DIR32"}
Field(p, k, j)   == IF IsLong(p, k, j) THEN {FieldAt(p, k, j), FieldAt(p, k, j) + 1}
                    ELSE IF p.relocs[k].entries[j].type \in {"HIGH", "LOW"} THEN {FieldAt(p, k, j)}
                    ELSE {}

\* A program as a linker makes it: sections lie apart inside the image, and the
\* fields of the entries apart inside the sections.
WellFormed(p) ==
    /\ p.base \in Nat
    /\ p.sections \in Seq(Range(p.sections)) /\ p.relocs \in Seq(Range(p.relocs))
    /\ \A s \in Range(p.sections) : /\ s.at \in Nat /\ s.raw \in Nat
                                    /\ s.words \in Seq(0 .. Word - 1)
                                    /\ s.at + Len(s.words) <= p.size
    /\ \A k, l \in DOMAIN p.sections : k # l => Place(p.sections[k]) \cap Place(p.sections[l]) = {}
    /\ \E k \in DOMAIN p.relocs : p.relocs[k].at = 0
    /\ \A b \in Range(p.relocs) : /\ b.at \in Nat /\ b.entries \in Seq(Range(b.entries))
                                  /\ \A e \in Range(b.entries) : e.offset \in Nat
    /\ \A k \in 1 .. Taken(p.relocs) : \A j \in DOMAIN p.relocs[k].entries :
          /\ \A i \in Field(p, k, j) : \E s \in Range(p.sections) : i \in Place(s)
          /\ \A l \in 1 .. Taken(p.relocs) : \A m \in DOMAIN p.relocs[l].entries :
                <<k, j>> # <<l, m>> => Field(p, k, j) \cap Field(p, l, m) = {}

\* In a well formed program that is entered, read as a whole into memory there
\* was, every address in it has moved by as much as the program has, in 32 bits,
\* and every word that is no part of an address is the file's (LdrCpySections,
\* LdrRelocMemory).
ImageIsRelocated ==
    LET Loaded(i) == image.words[i]
        Linked(i) == FileWord(pe, i)
        whole  == \A s \in Range(pe.sections) : s.raw + Len(s.words) <= ImageWords
        blocks == 1 .. Taken(pe.relocs)
    IN  lpc = "entered" /\ image.base # NULL /\ pe.directory /\ whole /\ WellFormed(pe) =>
        /\ \A k \in blocks : \A j \in DOMAIN pe.relocs[k].entries :
              IsLong(pe, k, j) =>
                 Value32(Loaded, FieldAt(pe, k, j)) =
                    (Value32(Linked, FieldAt(pe, k, j)) + image.base - pe.base) % (Word * Word)
        /\ \A s \in Range(pe.sections), i \in 0 .. pe.size - 1 :
              /\ i \in Place(s)
              /\ \A k \in blocks : \A j \in DOMAIN pe.relocs[k].entries : i \notin Field(pe, k, j)
              => Loaded(i) = Linked(i)

\* The NUL a text ends with, where its lines begin that are not empty, behind the
\* spaces in front, and the line that begins at i.
TextEnd(text) == Min({i \in DOMAIN text : text[i] = NUL})
LineStarts(text) ==
    {i \in 1 .. TextEnd(text) - 1 :
        /\ text[i] \notin {CR, LF, SP}
        /\ \E j \in 0 .. i - 1 : /\ j = 0 \/ text[j] \in {CR, LF}
                                 /\ \A k \in j + 1 .. i - 1 : text[k] = SP}
LineAt(text, i) == SubSeq(text, i, Min({k \in i .. TextEnd(text) : text[k] \in {CR, LF, NUL}}) - 1)

\* The lines of a text in order.
Lines(text) ==
    LET Rank(i) == Cardinality({j \in LineStarts(text) : j <= i})
    IN  [n \in 1 .. Cardinality(LineStarts(text)) |->
            LineAt(text, CHOOSE i \in LineStarts(text) : Rank(i) = n)]

\* Unless a program it runs has run a script of its own, the lines of a script
\* have been run in order, each once, and at its end all of them have, down to
\* where the text ends in data, whatever is opened and loaded in between, by those
\* programs too (LdrExecBat, strtok).
ScriptLinesInOrder ==
    lpc = "line" /\ script.busy /\ ~script.robbed =>
       LET lines == Lines(script.data) IN
       /\ Len(ran) <= Len(lines) /\ ran = SubSeq(lines, 1, Len(ran))
       /\ NoToken => ran = lines

\* "Get the next line" (init/loader.c:382): when there is none, the script's
\* lines have all been run.
ScriptRunsAllLines ==
    lpc = "line" /\ script.busy /\ nextToken # STALE /\ NoToken => ran = Lines(script.data)
=============================================================================

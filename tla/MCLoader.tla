------------------------------ MODULE MCLoader ------------------------------
(***************************************************************************)
(* The loaders on disks of two data clusters, in which a file begins with  *)
(* byte 1 or 9: one is a program, the other a script.  Words have sixteen  *)
(* values; the addresses a program may be loaded at carry into the high    *)
(* word of one of its own addresses and wrap around in another.            *)
(***************************************************************************)
EXTENDS Loader, MCVfs

Exe == File("b", "exe", FALSE, 3)
Bat == File("s", "bat", FALSE, 2)
NotPe == File("n", "exe", FALSE, 2)

LoaderImages == {Disk(41, 65528, <<Bat, ReadOnly(NotPe), Exe, End>>),
                 Disk(41, 65528, <<Directory("d", 3), Exe, Deleted, Bat, End, NotPe>>),
                 Disk(0, 65528, <<Bat, End>>)}

P(drive, parts) == [drive |-> drive, parts |-> parts]
LoaderPaths == {P(0, <<<<"b", "exe">>>>), P(0, <<<<"s", "bat">>>>), P(0, <<<<"d">>, <<"b", "exe">>>>),
                P(0, <<<<"d">>>>), P(0, <<<<"n", "exe">>>>), P(0, <<<<>>, <<"b", "exe">>>>),
                P(1, <<<<"b", "exe">>>>), P(-EBADPATH, <<>>)}

Request(name, len, slash) == [name |-> name, len |-> len, slash |-> slash]
LoaderRequests == {Request(<<"b", "exe">>, 5, FALSE), Request(<<"b", "exe">>, 6, TRUE),
                   Request(<<"s", "bat">>, 5, FALSE), Request(<<"long", "exe">>, 16, FALSE)}

Entry(type, offset) == [type |-> type, offset |-> offset]
Block(at, entries) == [at |-> at, entries |-> entries]
LastBlock == Block(0, <<>>)

\* Two sections with a gap before each; addresses of every kind in two blocks.
Program == [executable |-> TRUE, base |-> 20, size |-> 11, directory |-> TRUE,
            sections |-> <<[at |-> 1, raw |-> 2, words |-> <<15, 0, 15, 15, 7>>],
                           [at |-> 7, raw |-> 7, words |-> <<3, 1, 9, 2>>]>>,
            relocs |-> <<Block(1, <<Entry("HIGHLOW", 0), Entry("HIGHLOW", 2), Entry("ABSOLUTE", 0)>>),
                         Block(7, <<Entry("DIR32", 0), Entry("LOW", 2), Entry("HIGH", 3)>>),
                         LastBlock, Block(5, <<Entry("LOW", 0)>>)>>]

NotExecutable == [Program EXCEPT !.executable = FALSE]
NoDirectory   == [Program EXCEPT !.directory = FALSE, !.relocs = <<LastBlock>>]
TooLong       == [Program EXCEPT !.sections[2].raw = 9]

MCPrograms == [b \in 1 .. 16 |-> CASE b = 9 -> Program [] b = 2 -> NoDirectory
                                   [] b = 3 -> TooLong [] OTHER -> NotExecutable]
MCLeftovers == {<<LastBlock>>, <<Block(1, <<Entry("LOW", 0)>>), LastBlock>>}

\* Scripts: two programs between empty lines and spaces; one without an end
\* within what is read.
MCScripts == [b \in 1 .. 16 |->
    IF b = 1 THEN <<LF, "cls", LF, "b", CR, LF, SP, SP, CR, SP, "/b", LF, NUL>>
    ELSE <<"b", CR, LF, "long">>]

MCNameOf == [line \in {<<"b">>, <<"/b">>, <<"long">>, <<"x">>, <<"long", "x">>} |->
    CASE line = <<"b">>  -> Request(<<"b", "exe">>, 5, FALSE)
      [] line = <<"/b">> -> Request(<<"b", "exe">>, 6, TRUE)
      [] line = <<"x">>  -> Request(<<"x">>, 1, FALSE)
      [] OTHER           -> Request(<<"long", "exe">>, 16, FALSE)]

LoaderReads == {[size |-> 3, nmemb |-> 1], [size |-> 8, nmemb |-> 1], [size |-> 4, nmemb |-> 2],
                [size |-> 12, nmemb |-> 1], [size |-> 0, nmemb |-> 1]}

\* A script whose first program runs that script.
NestedImages   == {Disk(41, 65528, <<Bat, Exe, End>>)}
NestedPaths    == {P(0, <<<<"b", "exe">>>>)}
NestedRequests == {Request(<<"s", "bat">>, 5, FALSE)}
NestedReads    == {[size |-> 8, nmemb |-> 1]}
=============================================================================

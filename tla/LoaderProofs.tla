---------------------------- MODULE LoaderProofs ----------------------------
(***************************************************************************)
(* For disks of any geometry and contents and any number of descriptors    *)
(* and heap blocks: descriptors keep their files, fopen tells which files  *)
(* there are, the loaders open the file that was asked for, and a read     *)
(* within the first cluster returns the file's bytes.  For scripts of any  *)
(* text, the lines run in order, each once.  For any well formed program,  *)
(* at any base, the image that is entered is the file's, relocated.        *)
(***************************************************************************)
EXTENDS Loader, NumberLemmas, FiniteSetTheorems, SequenceTheorems, TLAPS

\* What is open was in use when it was opened, or its copy is missing.
OpenItems == \A fd \in Fds : file_descriptors[fd].open =>
                LET i == file_descriptors[fd].item
                IN  i = NOCOPY \/ (i \in DOMAIN img.root /\ img.root[i].status = "used")

FilesInv == /\ TypeOK
            /\ ret.op = "boot" => free = HeapBlocks
            /\ OpenItems

\* The loaders read what they have opened, and take memory only after they have
\* read, for a program.
LoaderInv == /\ FilesInv
             /\ lpc \in {"process", "load"} => ret.op = "read"
             /\ lpc = "load" => pe \in Range(Programs)
             /\ lpc \in {"image", "script"} => ret.fd \in 0 .. MaxFd

-----------------------------------------------------------------------------
(* Least and greatest members *)

\* The least of two numbers is one of them and below both; so is the greatest, above.
LEMMA OfTwo ==
  ASSUME NEW a \in Int, NEW b \in Int
  PROVE  /\ Min({a, b}) = IF a <= b THEN a ELSE b
         /\ Max({a, b}) = IF a >= b THEN a ELSE b
<1>1. \E x \in {a, b} : \A y \in {a, b} : x =< y
  OBVIOUS
<1>2. \E x \in {a, b} : \A y \in {a, b} : x >= y
  OBVIOUS
<1>3. Min({a, b}) \in {a, b} /\ \A y \in {a, b} : Min({a, b}) =< y
  BY <1>1 DEF Min
<1>4. Max({a, b}) \in {a, b} /\ \A y \in {a, b} : Max({a, b}) >= y
  BY <1>2 DEF Max
<1> QED
  BY <1>3, <1>4

\* A nonempty set of natural numbers has a least member.
LEMMA MinOf ==
  ASSUME NEW S, S \subseteq Nat, S # {}
  PROVE  Min(S) \in S /\ \A y \in S : Min(S) <= y
<1>1. \E x \in S : \A y \in S : x =< y
  BY LeastNumber
<1> QED
  BY <1>1 DEF Min

\* A nonempty set of numbers up to n has a greatest member.
LEMMA MaxOf ==
  ASSUME NEW n \in Nat, NEW S, S \subseteq 0 .. n, S # {}
  PROVE  Max(S) \in S
<1> DEFINE T == {n - x : x \in S}
<1>1. T \in SUBSET Nat /\ T # {}
  <2>1. \A x \in S : x \in Nat /\ n - x \in Nat
    OBVIOUS
  <2>2. PICK e : e \in S
    OBVIOUS
  <2>3. n - e \in T
    BY <2>2
  <2> QED
    BY <2>1, <2>3
<1>2. PICK m \in T : \A y \in T : m <= y
  BY <1>1, LeastNumber
<1>3. PICK x \in S : m = n - x
  OBVIOUS
<1>4. \A y \in S : n - y \in T /\ y \in Int /\ x \in Int
  OBVIOUS
<1>5. \A y \in S : x >= y
  BY <1>2, <1>3, <1>4
<1> QED
  BY <1>5 DEF Max

-----------------------------------------------------------------------------
(* The root directory *)

\* The driver looks at items that lie before the end mark, and at as many as are
\* in use without a gap from the first on.
LEMMA ItemsLookedAt ==
  ASSUME NEW items, items \in Seq(Range(items))
  PROVE  /\ fat16_get_total_items_for_directory(items) \in 0 .. Len(items)
         /\ \A j \in 1 .. fat16_get_total_items_for_directory(items) : items[j].status # "end"
         /\ \A i \in 1 .. Len(items) : (\A j \in 1 .. i : items[j].status = "used")
               => i <= fat16_get_total_items_for_directory(items)
<1> DEFINE end  == {i \in DOMAIN items : items[i].status = "end"}
           stop == IF end = {} THEN Len(items) ELSE Min(end) - 1
           used == {i \in 1 .. stop : items[i].status = "used"}
<1>1. Len(items) \in Nat /\ DOMAIN items = 1 .. Len(items)
  BY LenProperties
<1>2. /\ stop \in 0 .. Len(items)
      /\ \A j \in 1 .. stop : items[j].status # "end"
      /\ stop < Len(items) => items[stop + 1].status = "end"
  <2>1. CASE end = {}
    BY <1>1, <2>1
  <2>2. CASE end # {}
    <3>1. end \subseteq Nat
      BY <1>1
    <3>2. PICK m : m = Min(end)
      OBVIOUS
    <3>3. m \in end /\ \A y \in end : m <= y
      BY <2>2, <3>1, <3>2, MinOf
    <3>4. stop = m - 1
      BY <2>2, <3>2
    <3>5. m \in 1 .. Len(items) /\ items[m].status = "end"
      BY <1>1, <3>3
    <3>6. \A j \in 1 .. m - 1 : j \in 1 .. Len(items) /\ j \notin end
      BY <1>1, <3>3, <3>5
    <3> HIDE DEF stop
    <3>7. \A j \in 1 .. stop : items[j].status # "end"
      BY <1>1, <3>4, <3>6
    <3>8. stop \in 0 .. Len(items) /\ stop + 1 = m
      BY <1>1, <3>4, <3>5
    <3> QED
      BY <3>5, <3>7, <3>8
  <2> QED
    BY <2>1, <2>2
<1> HIDE DEF stop
<1>3. IsFiniteSet(1 .. stop) /\ Cardinality(1 .. stop) = stop
  BY <1>1, <1>2, FS_Interval
<1>4. IsFiniteSet(used) /\ Cardinality(used) \in Nat /\ Cardinality(used) <= stop
  BY <1>3, FS_Subset, FS_CardinalityType
<1>5. ASSUME NEW i \in 1 .. Len(items), \A j \in 1 .. i : items[j].status = "used"
      PROVE  i <= Cardinality(used)
  <2>1. i <= stop
    BY <1>1, <1>2, <1>5
  <2>2. 1 .. i \subseteq used
    BY <1>1, <1>2, <1>5, <2>1
  <2>3. Cardinality(1 .. i) = i
    BY <1>1, FS_Interval
  <2> QED
    BY <1>4, <2>2, <2>3, FS_Subset
<1>6. fat16_get_total_items_for_directory(items) = Cardinality(used)
  BY DEF fat16_get_total_items_for_directory, stop
<1> HIDE DEF used
<1> QED
  BY <1>1, <1>2, <1>4, <1>5, <1>6

\* A name and its extension put together.
LEMMA Joined == ASSUME NEW a, NEW b PROVE <<a>> \o <<b>> = <<a, b>>
<1> DEFINE S == {a, b}
<1>1. <<a>> \in Seq(S) /\ <<b>> \in Seq(S) /\ <<a, b>> \in Seq(S)
  OBVIOUS
<1>2. Len(<<a>>) = 1 /\ Len(<<b>>) = 1 /\ Len(<<a, b>>) = 2
  OBVIOUS
<1>3. <<a>> \o <<b>> \in Seq(S) /\ Len(<<a>> \o <<b>>) = 2
  BY <1>1, <1>2
<1>4. (<<a>> \o <<b>>)[1] = a /\ (<<a>> \o <<b>>)[2] = b
  BY <1>1, <1>2
<1>5. <<a, b>>[1] = a /\ <<a, b>>[2] = b
  OBVIOUS
<1> DEFINE s == <<a>> \o <<b>>
           t == <<a, b>>
<1>6. s \in Seq(S) /\ t \in Seq(S) /\ Len(s) = 2 /\ Len(t) = 2 /\ s[1] = t[1] /\ s[2] = t[2]
  BY <1>1, <1>2, <1>3, <1>4, <1>5
<1> HIDE DEF S, s, t
<1>7. \A i \in 1 .. 2 : s[i] = t[i]
  BY <1>6
<1>8. s = t
  BY <1>6, <1>7, SeqEqual
<1> QED
  BY <1>8 DEF s, t

\* What the driver takes for a name is in use; it has that name if the name has
\* the format's form; and a file that can be found is found.
LEMMA FoundItems ==
  ASSUME NEW items, items \in Seq(Range(items)), NEW name
  PROVE  /\ Matches(items, name) \subseteq 1 .. Len(items)
         /\ \A i \in Matches(items, name) :
               /\ i \in LiveItems(items) /\ items[i].status = "used"
               /\ Len(name) <= 2 => Name(items[i]) = name
         /\ \A i \in LiveItems(items) :
               Name(items[i]) = name /\ ~items[i].full /\ ~RunsOn(items[i])
                  /\ (\A j \in 1 .. i : items[j].status = "used")
                  => i \in Matches(items, name)
<1> DEFINE total == fat16_get_total_items_for_directory(items)
<1>1. Len(items) \in Nat /\ DOMAIN items = 1 .. Len(items)
  BY LenProperties
<1>2. /\ total \in 0 .. Len(items)
      /\ \A j \in 1 .. total : items[j].status # "end"
      /\ \A i \in 1 .. Len(items) : (\A j \in 1 .. i : items[j].status = "used") => i <= total
  BY ItemsLookedAt
<1> HIDE DEF total
<1>3. Matches(items, name) = {i \in 1 .. total : /\ items[i].status = "used"
                                                 /\ fat16_get_full_relative_filename(items[i]) = name}
  BY DEF Matches, total
<1>4. ASSUME NEW i \in Matches(items, name)
      PROVE  /\ i \in 1 .. Len(items) /\ i \in LiveItems(items) /\ items[i].status = "used"
             /\ Len(name) <= 2 => Name(items[i]) = name
  <2>1. i \in 1 .. total /\ items[i].status = "used" /\ fat16_get_full_relative_filename(items[i]) = name
    BY <1>3
  <2>2. i \in LiveItems(items)
    BY <1>1, <1>2, <2>1 DEF LiveItems
  <2>3. ASSUME Len(name) <= 2 PROVE Name(items[i]) = name
    <3> DEFINE item == items[i]
    <3>1. CASE item.ext = ""
      BY <2>1, <3>1, Zenon DEF fat16_get_full_relative_filename, Name
    <3>2. CASE item.ext # "" /\ ~item.full /\ ~RunsOn(item)
      <4>1. fat16_get_full_relative_filename(item) = <<item.base>> \o <<item.ext>>
        BY <3>2, Zenon DEF fat16_get_full_relative_filename
      <4>2. \A a, b : <<a>> \o <<b>> = <<a, b>>
        BY Joined
      <4> QED
        BY <2>1, <3>2, <4>1, <4>2, Zenon DEF Name
    <3>3. CASE item.ext # "" /\ ~item.full /\ RunsOn(item)
      <4>1. fat16_get_full_relative_filename(item) = <<item.base>> \o <<item.ext, RUNON>>
        BY <3>3, Zenon DEF fat16_get_full_relative_filename
      <4>2. \A a, b, c : Len(<<a>> \o <<b, c>>) = 3
        BY SMT
      <4>3. Len(name) = 3
        BY <2>1, <4>1, <4>2, Zenon
      <4> QED
        BY <2>3, <4>3, SMT
    <3>4. CASE item.ext # "" /\ item.full /\ RunsOn(item)
      <4>1. fat16_get_full_relative_filename(item)
               = <<item.base>> \o <<item.ext, RUNON>> \o <<item.ext, RUNON>>
        BY <3>4, Zenon DEF fat16_get_full_relative_filename
      <4>2. \A a, b, c : Len(<<a>> \o <<b, c>> \o <<b, c>>) = 5
        BY SMT
      <4>3. Len(name) = 5
        BY <2>1, <4>1, <4>2, Zenon
      <4> QED
        BY <2>3, <4>3, SMT
    <3>5. CASE item.ext # "" /\ item.full /\ ~RunsOn(item)
      <4>1. fat16_get_full_relative_filename(item) = <<item.base>> \o <<item.ext>> \o <<item.ext>>
        BY <3>5, Zenon DEF fat16_get_full_relative_filename
      <4>2. \A a, b : Len(<<a>> \o <<b>> \o <<b>>) = 3
        BY SMT
      <4>3. Len(name) = 3
        BY <2>1, <4>1, <4>2, Zenon
      <4> QED
        BY <2>3, <4>3, SMT
    <3> QED
      BY <3>1, <3>2, <3>3, <3>4, <3>5
  <2> QED
    BY <1>1, <1>2, <2>1, <2>2, <2>3
<1>5. ASSUME NEW i \in LiveItems(items), Name(items[i]) = name, ~items[i].full, ~RunsOn(items[i]),
             \A j \in 1 .. i : items[j].status = "used"
      PROVE  i \in Matches(items, name)
  <2>1. i \in 1 .. Len(items) /\ items[i].status = "used"
    BY <1>1 DEF LiveItems
  <2>2. i \in 1 .. total
    BY <1>1, <1>2, <1>5, <2>1
  <2>3. fat16_get_full_relative_filename(items[i]) = name
    <3>1. \A a, b : <<a>> \o <<b>> = <<a, b>>
      BY Joined
    <3>2. CASE items[i].ext = ""
      BY <1>5, <3>2, Zenon DEF fat16_get_full_relative_filename, Name
    <3>3. CASE items[i].ext # ""
      <4>1. fat16_get_full_relative_filename(items[i]) = <<items[i].base>> \o <<items[i].ext>>
        BY <1>5, <3>3, Zenon DEF fat16_get_full_relative_filename
      <4> QED
        BY <1>5, <3>1, <3>3, <4>1, Zenon DEF Name
    <3> QED
      BY <3>2, <3>3
  <2> QED
    BY <1>3, <2>1, <2>2, <2>3
<1> QED
  BY <1>4, <1>5

-----------------------------------------------------------------------------
(* fopen *)

\* Every disk is a volume, and every path has parts.
LEMMA Disks ==
  ASSUME TypeOK
  PROVE  /\ img.root \in Seq(Range(img.root)) /\ DOMAIN img.root = 1 .. Len(img.root)
         /\ Len(img.root) \in Nat /\ MaxFd \in Nat \ {0} /\ HeapBlocks \in Nat
<1>1. img.root \in Seq(Range(img.root))
  BY VolumeAssumption DEF TypeOK
<1> QED
  BY <1>1, LenProperties, VfsAssumption

\* The parts that are parsed are some of the path's first ones, and the blocks
\* they take are blocks there were.
LEMMA ParsedPath ==
  ASSUME NEW path, path.parts \in Seq(Range(path.parts)), NEW blocks \in Nat
  PROVE  /\ pathparser_parse(path, blocks).left \in 0 .. blocks
         /\ blocks >= 9 /\ Len(path.parts) = 1 =>
               /\ pathparser_parse(path, blocks).parts =
                     IF path.parts[1] = <<>> THEN <<>> ELSE path.parts
               /\ path.parts[1] # <<>> => pathparser_parse(path, blocks).left >= 6
<1> DEFINE S     == Range(path.parts)
           empty == {i \in DOMAIN path.parts : path.parts[i] = <<>>}
           parts == ParsedParts(path.parts)
           n     == Min({Len(parts), (blocks - 1) \div 2})
           used  == Min({2 * Len(parts) + 1, blocks})
<1>1. Len(path.parts) \in Nat /\ DOMAIN path.parts = 1 .. Len(path.parts)
  BY LenProperties
<1>2. empty # {} => Min(empty) \in 1 .. Len(path.parts) /\ path.parts[Min(empty)] = <<>>
  <2>1. empty \subseteq Nat
    BY <1>1
  <2> QED
    BY <1>1, <2>1, MinOf
<1>3. parts = IF empty = {} THEN path.parts ELSE SubSeq(path.parts, 1, Min(empty) - 1)
  BY DEF ParsedParts
<1>4. parts \in Seq(S)
  <2>1. CASE empty = {}
    BY <1>3, <2>1
  <2>2. CASE empty # {}
    <3>1. PICK m : m = Min(empty)
      OBVIOUS
    <3>2. m \in 1 .. Len(path.parts) /\ parts = SubSeq(path.parts, 1, m - 1)
      BY <1>2, <1>3, <2>2, <3>1
    <3>3. \A i \in 1 .. m - 1 : path.parts[i] \in S
      <4>1. \A i \in 1 .. m - 1 : i \in 1 .. Len(path.parts)
        BY <1>1, <3>2
      <4> HIDE DEF S
      <4> QED
        BY <1>1, <4>1, ElementOfSeq DEF S
    <3> QED
      BY <1>1, <3>2, <3>3, SubSeqProperties
  <2> QED
    BY <2>1, <2>2
<1>5. Len(parts) \in Nat
  BY <1>4, LenProperties
<1>6. used = IF 2 * Len(parts) + 1 <= blocks THEN 2 * Len(parts) + 1 ELSE blocks
  <2>1. 2 * Len(parts) + 1 \in Int
    BY <1>5
  <2> QED
    BY <2>1, OfTwo
<1>7. pathparser_parse(path, blocks) = IF blocks = 0 THEN [parts |-> <<>>, left |-> 0]
                                       ELSE [parts |-> SubSeq(parts, 1, n), left |-> blocks - used]
  BY DEF pathparser_parse
<1>8. pathparser_parse(path, blocks).left \in 0 .. blocks
  <2> HIDE DEF parts, used, n
  <2> QED
    BY <1>5, <1>6, <1>7
<1>9. ASSUME blocks >= 9, Len(path.parts) = 1
      PROVE  /\ pathparser_parse(path, blocks).parts =
                   IF path.parts[1] = <<>> THEN <<>> ELSE path.parts
             /\ path.parts[1] # <<>> => pathparser_parse(path, blocks).left >= 6
  <2>1. CASE path.parts[1] = <<>>
    <3>1. 1 \in empty
      BY <1>1, <1>9, <2>1
    <3>2. Min(empty) = 1
      BY <1>2, <1>9, <3>1
    <3>3. parts = SubSeq(path.parts, 1, 0)
      <4> HIDE DEF parts, empty
      <4>1. Min(empty) - 1 = 0 /\ empty # {}
        BY <3>1, <3>2
      <4> QED
        BY <1>3, <4>1
    <3>4. parts = <<>>
      BY <3>3, SubSeqEmpty
    <3>5. PICK m : m = n
      OBVIOUS
    <3>6. SubSeq(<<>>, 1, m) = <<>>
      <4>1. n = 0
        <5>1. Len(parts) = 0 /\ (blocks - 1) \div 2 \in Int /\ 0 <= (blocks - 1) \div 2
          BY <1>9, <3>4
        <5> QED
          BY <5>1, OfTwo
      <4> QED
        BY <3>5, <4>1, SubSeqEmpty
    <3> QED
      BY <1>7, <1>9, <2>1, <3>4, <3>5, <3>6
  <2>2. CASE path.parts[1] # <<>>
    <3>1. empty = {}
      BY <1>1, <1>9, <2>2
    <3>2. parts = path.parts
      BY <1>3, <3>1
    <3>3. n = 1
      <4>1. Len(parts) = 1 /\ (blocks - 1) \div 2 \in Int /\ 1 <= (blocks - 1) \div 2
        BY <1>9, <3>2
      <4> QED
        BY <4>1, OfTwo
    <3>4. used = 3
      <4> HIDE DEF parts, used, n
      <4>1. Len(parts) = 1
        BY <1>9, <3>2
      <4>2. 2 * Len(parts) + 1 = 3
        BY <4>1
      <4> QED
        BY <1>6, <1>9, <4>2, SMT
    <3>5. SubSeq(path.parts, 1, 1) = path.parts
      BY <1>9, SubSeqFull
    <3> HIDE DEF parts, used, n
    <3>6. pathparser_parse(path, blocks) = [parts |-> path.parts, left |-> blocks - 3]
      BY <1>7, <1>9, <3>2, <3>3, <3>4, <3>5
    <3> QED
      BY <1>9, <2>2, <3>6
  <2> QED
    BY <2>1, <2>2
<1> QED
  BY <1>8, <1>9

\* What fat16_open answers: a negative number, or a found item or a missing copy
\* of it.  Six blocks are enough for a path of one part.
LEMMA OpenedItem ==
  ASSUME TypeOK, NEW parts, NEW blocks \in Nat
  PROVE  LET opened == fat16_open(parts, blocks)
             found  == Matches(img.root, parts[1])
         IN  /\ opened.left \in 0 .. blocks
             /\ ~(opened.res < 0) => opened.item \in {NOCOPY} \cup found
             /\ blocks >= 6 /\ Len(parts) = 1 =>
                   IF found = {} THEN opened.res < 0
                   ELSE ~(opened.res < 0) /\ opened.item \in found /\ opened.left >= 1
<1> DEFINE opened == fat16_open(parts, blocks)
           found  == Matches(img.root, parts[1])
           i      == Max(found)
           new    == NewFatItem(i, blocks - 1)
           dir    == IF IsDirectory(img.root[i]) /\ blocks - 1 >= 3 THEN 2 ELSE 0
<1>1. found # {} => i \in found
  <2>1. found \subseteq 1 .. Len(img.root) /\ Len(img.root) \in Nat
    BY Disks, FoundItems
  <2>2. found \subseteq 0 .. Len(img.root)
    BY <2>1
  <2> QED
    BY <2>1, <2>2, MaxOf
<1>2. dir \in {0, 2} /\ (dir = 2 => blocks - 1 >= 3)
  <2>1. CASE IsDirectory(img.root[i]) /\ blocks - 1 >= 3
    BY <2>1
  <2>2. CASE ~(IsDirectory(img.root[i]) /\ blocks - 1 >= 3)
    BY <2>2
  <2> QED
    BY <2>1, <2>2
<1>3. /\ blocks - 1 = 0 => new.item = NULL /\ new.left = 0
      /\ blocks - 1 # 0 /\ blocks - 1 - 1 - dir = 0 => new.item = NOCOPY /\ new.left = 0
      /\ blocks - 1 # 0 /\ blocks - 1 - 1 - dir # 0 => new.item = i /\ new.left = blocks - 1 - 1 - dir - 1
  BY DEF NewFatItem
<1>4. /\ blocks = 0 => opened.res = -ENOMEM /\ opened.left = 0
      /\ blocks # 0 /\ found = {} => opened.res = -EIO /\ opened.left = blocks - 1
      /\ blocks # 0 /\ found # {} /\ (new.item = NULL \/ Len(parts) > 1) =>
            opened.res = -EIO /\ opened.left = new.left
      /\ blocks # 0 /\ found # {} /\ ~(new.item = NULL \/ Len(parts) > 1) =>
            opened.res = LIBREWIN_ALL_OK /\ opened.item = new.item /\ opened.left = new.left
  BY DEF fat16_open
<1>5. found # {} => i \in Nat \ {0}
  BY <1>1, Disks, FoundItems
<1> HIDE DEF opened, found, i, new, dir
<1>6. blocks # 0 => new.left \in 0 .. blocks
  BY <1>2, <1>3
<1>7. opened.left \in 0 .. blocks
  BY <1>4, <1>6
<1>8. ~(opened.res < 0) => opened.item \in {NOCOPY} \cup found
  BY <1>1, <1>3, <1>4 DEF EIO, ENOMEM
<1>9. ASSUME blocks >= 6, Len(parts) = 1
      PROVE  IF found = {} THEN opened.res < 0
             ELSE ~(opened.res < 0) /\ opened.item \in found /\ opened.left >= 1
  <2>1. CASE found = {}
    BY <1>4, <1>9, <2>1 DEF EIO
  <2>2. CASE found # {}
    <3>1. new.item = i /\ new.left >= 1
      BY <1>2, <1>3, <1>9
    <3> QED
      BY <1>1, <1>4, <1>5, <1>9, <2>2, <3>1 DEF LIBREWIN_ALL_OK, NULL
  <2> QED
    BY <2>1, <2>2
<1> QED
  BY <1>7, <1>8, <1>9 DEF opened, found

\* The slots are numbered from 1; the first empty one is an empty one.
LEMMA FirstSlot ==
  ASSUME TypeOK, FreeSlots # {}
  PROVE  Min(FreeSlots) \in FreeSlots /\ Min(FreeSlots) \in Fds /\ Min(FreeSlots) > 0
<1>1. FreeSlots \subseteq Fds /\ Fds \subseteq Nat
  BY DEF FreeSlots, Fds
<1>2. Min(FreeSlots) \in FreeSlots
  BY <1>1, MinOf
<1>3. \A fd \in Fds : fd > 0
  BY Disks DEF Fds
<1> QED
  BY <1>1, <1>2, <1>3

\* What file_new_descriptor leaves alone and what it enters.
LEMMA NewDescriptor ==
  ASSUME TypeOK, NEW path, NEW mode, NEW item, NEW blocks \in Nat,
         file_new_descriptor(path, mode, item, blocks)
  PROVE  /\ free' \in 0 .. blocks
         /\ ret'.op = "open" /\ ret'.path = path /\ ret'.mode = mode /\ ret'.fd \in 0 .. MaxFd
         /\ \/ file_descriptors' = file_descriptors
            \/ \E fd \in FreeSlots :
                  file_descriptors' = [file_descriptors EXCEPT ![fd] = [open |-> TRUE, item |-> item]]
         /\ FreeSlots # {} /\ blocks >= 1 =>
               /\ ret'.fd > 0
               /\ file_descriptors'[ret'.fd] = [open |-> TRUE, item |-> item]
<1>1. CASE FreeSlots = {}
  BY <1>1, Disks DEF file_new_descriptor, OpenFails
<1>2. CASE FreeSlots # {}
  <2>1. PICK fd : fd = Min(FreeSlots)
    OBVIOUS
  <2>2. fd \in FreeSlots /\ fd \in Fds /\ fd > 0
    BY <1>2, <2>1, FirstSlot
  <2>3. /\ file_descriptors' = IF blocks = 0 THEN file_descriptors
                               ELSE [file_descriptors EXCEPT ![fd] = [open |-> TRUE, item |-> item]]
        /\ free' = Max({blocks - 1, 0})
        /\ ret' = [op |-> "open", path |-> path, mode |-> mode, fd |-> fd]
    BY <1>2, <2>1 DEF file_new_descriptor
  <2>4. Max({blocks - 1, 0}) = IF blocks - 1 >= 0 THEN blocks - 1 ELSE 0
    BY OfTwo
  <2>5. free' \in 0 .. blocks
    BY <2>3, <2>4
  <2>6. file_descriptors \in [Fds -> [open : BOOLEAN, item : {NULL, NOCOPY} \cup DOMAIN img.root]]
    BY DEF TypeOK
  <2>7. blocks >= 1 => file_descriptors'[fd] = [open |-> TRUE, item |-> item]
    BY <2>2, <2>3, <2>6
  <2>8. fd \in 0 .. MaxFd
    BY <2>2, Disks DEF Fds
  <2> QED
    BY <2>2, <2>3, <2>5, <2>7, <2>8
<1> QED
  BY <1>1, <1>2

\* One call of fopen.
LEMMA OpenStep ==
  ASSUME TypeOK, NEW path, path.parts \in Seq(Range(path.parts)), NEW mode, fopen(path, mode)
  PROVE  /\ UNCHANGED <<img, filesystem>> /\ free' \in 0 .. free
         /\ ret.op # "boot"
         /\ ret'.op = "open" /\ ret'.path = path /\ ret'.mode = mode /\ ret'.fd \in 0 .. MaxFd
         /\ \/ file_descriptors' = file_descriptors
            \/ \E fd \in FreeSlots : \E name : \E item \in {NOCOPY} \cup Matches(img.root, name) :
                  file_descriptors' = [file_descriptors EXCEPT ![fd] = [open |-> TRUE, item |-> item]]
<1> DEFINE Result == /\ free' \in 0 .. free
                     /\ ret'.op = "open" /\ ret'.path = path /\ ret'.mode = mode /\ ret'.fd \in 0 .. MaxFd
                     /\ \/ file_descriptors' = file_descriptors
                        \/ \E fd \in FreeSlots : \E name : \E item \in {NOCOPY} \cup Matches(img.root, name) :
                              file_descriptors' =
                                 [file_descriptors EXCEPT ![fd] = [open |-> TRUE, item |-> item]]
<1>1. PICK f \in Nat : f = free
  BY Disks DEF TypeOK
<1>2. PICK root : root = pathparser_parse(path, f)
  OBVIOUS
<1>3. root.left \in 0 .. f
  BY <1>2, ParsedPath
<1>4. PICK left \in Nat : left = root.left
  BY <1>3
<1>5. PICK opened : opened = fat16_open(root.parts, left)
  OBVIOUS
<1>6. /\ opened.left \in 0 .. left
      /\ ~(opened.res < 0) => opened.item \in {NOCOPY} \cup Matches(img.root, root.parts[1])
  BY <1>5, OpenedItem
<1>7. /\ UNCHANGED <<img, filesystem>> /\ ret.op # "boot"
      /\ \/ \E l \in {f, left, opened.left} : OpenFails(path, mode, l)
         \/ ~(opened.res < 0) /\ file_new_descriptor(path, mode, opened.item, opened.left)
  BY <1>1, <1>2, <1>4, <1>5 DEF fopen
<1>8. ASSUME NEW l \in {f, left, opened.left}, OpenFails(path, mode, l) PROVE Result
  <2>1. l \in 0 .. f
    BY <1>3, <1>4, <1>6
  <2> QED
    BY <1>1, <1>8, <2>1, Disks DEF OpenFails
<1>9. ASSUME ~(opened.res < 0), file_new_descriptor(path, mode, opened.item, opened.left) PROVE Result
  <2>1. PICK item \in {NOCOPY} \cup Matches(img.root, root.parts[1]) : item = opened.item
    BY <1>6, <1>9
  <2>2. PICK b \in Nat : b = opened.left
    BY <1>6
  <2>3. file_new_descriptor(path, mode, item, b)
    BY <1>9, <2>1, <2>2
  <2>4. /\ free' \in 0 .. b
        /\ ret'.op = "open" /\ ret'.path = path /\ ret'.mode = mode /\ ret'.fd \in 0 .. MaxFd
        /\ \/ file_descriptors' = file_descriptors
           \/ \E fd \in FreeSlots :
                 file_descriptors' = [file_descriptors EXCEPT ![fd] = [open |-> TRUE, item |-> item]]
    BY <2>3, NewDescriptor
  <2>5. free' \in 0 .. free
    BY <1>1, <1>3, <1>4, <1>6, <2>2, <2>4
  <2> QED
    BY <2>1, <2>4, <2>5
<1> QED
  BY <1>7, <1>8, <1>9

\* Descriptors that are open are left alone by it.
LEMMA OpenKeeps ==
  ASSUME TypeOK, NEW path, path.parts \in Seq(Range(path.parts)), NEW mode, fopen(path, mode)
  PROVE  \A fd \in Fds : file_descriptors[fd].open => file_descriptors'[fd] = file_descriptors[fd]
<1>1. file_descriptors \in [Fds -> [open : BOOLEAN, item : {NULL, NOCOPY} \cup DOMAIN img.root]]
  BY DEF TypeOK
<1>2. CASE file_descriptors' = file_descriptors
  BY <1>2
<1>3. ASSUME NEW fd \in FreeSlots, NEW item,
             file_descriptors' = [file_descriptors EXCEPT ![fd] = [open |-> TRUE, item |-> item]]
      PROVE  \A e \in Fds : file_descriptors[e].open => file_descriptors'[e] = file_descriptors[e]
  BY <1>1, <1>3 DEF FreeSlots
<1> QED
  BY <1>2, <1>3, OpenStep

\* With a slot and nine blocks the call tells whether the file is there.
LEMMA OpenTells ==
  ASSUME TypeOK, NEW path, path.parts \in Seq(Range(path.parts)), fopen(path, "READ"),
         filesystem = "FAT16", Len(path.parts) = 1, FreeSlots # {}, free >= 9
  PROVE  /\ Findable(path) => ret'.fd > 0
         /\ ret'.fd > 0 =>
               /\ path.drive = 0
               /\ file_descriptors'[ret'.fd].open
               /\ file_descriptors'[ret'.fd].item \in Matches(img.root, path.parts[1])
<1> DEFINE name == path.parts[1]
<1>1. PICK f \in Nat : f = free
  BY Disks DEF TypeOK
<1>2. PICK root : root = pathparser_parse(path, f)
  OBVIOUS
<1>3. /\ root.left \in 0 .. f
      /\ root.parts = IF name = <<>> THEN <<>> ELSE path.parts
      /\ name # <<>> => root.left >= 6
  BY <1>1, <1>2, ParsedPath
<1>4. PICK left \in Nat : left = root.left
  BY <1>3
<1>5. PICK opened : opened = fat16_open(root.parts, left)
  OBVIOUS
<1>6. IF path.drive = -EBADPATH THEN OpenFails(path, "READ", free)
      ELSE IF root.parts = <<>> \/ ~GetDisk(path.drive) \/ filesystem = NOFS \/ "READ" = "INVALID"
      THEN OpenFails(path, "READ", left)
      ELSE IF "READ" # "READ" THEN OpenFails(path, "READ", left)
      ELSE IF opened.res < 0 THEN OpenFails(path, "READ", opened.left)
      ELSE file_new_descriptor(path, "READ", opened.item, opened.left)
  BY <1>1, <1>2, <1>4, <1>5 DEF fopen
<1>7. \A l : OpenFails(path, "READ", l) => ret'.fd = 0
  BY DEF OpenFails
<1>8. CASE path.drive # 0
  <2>1. ret'.fd = 0
    BY <1>6, <1>7, <1>8 DEF GetDisk
  <2> QED
    BY <1>8, <2>1 DEF Findable
<1>9. CASE name = <<>>
  <2>1. ret'.fd = 0
    BY <1>3, <1>6, <1>7, <1>9
  <2>2. \A item : Name(item) # <<>>
    BY DEF Name
  <2> QED
    BY <1>9, <2>1, <2>2 DEF Findable
<1>10. CASE path.drive = 0 /\ name # <<>>
  <2> DEFINE found == Matches(img.root, name)
  <2>1. root.parts = path.parts /\ left >= 6
    BY <1>3, <1>4, <1>10
  <2>2. /\ opened.left \in 0 .. left
        /\ IF found = {} THEN opened.res < 0
           ELSE ~(opened.res < 0) /\ opened.item \in found /\ opened.left >= 1
    BY <1>5, <2>1, OpenedItem
  <2>3. Findable(path) => found # {}
    <3> SUFFICES ASSUME Findable(path) PROVE found # {}
      OBVIOUS
    <3>1. PICK i \in LiveItems(img.root) :
             /\ Name(img.root[i]) = name /\ ~img.root[i].full /\ ~RunsOn(img.root[i])
             /\ \A j \in 1 .. i : img.root[j].status = "used"
      BY DEF Findable
    <3>2. PICK items : items = img.root
      OBVIOUS
    <3>3. items \in Seq(Range(items))
      BY <3>2, Disks
    <3>4. i \in Matches(items, name)
      BY <3>1, <3>2, <3>3, FoundItems
    <3> QED
      BY <3>2, <3>4
  <2>4. root.parts # <<>>
    <3>1. Len(<<>>) = 0
      OBVIOUS
    <3>2. Len(root.parts) = 1
      BY <2>1
    <3>3. Len(<<>>) # 1
      BY <3>1, SMT
    <3> QED
      BY <3>2, <3>3, Zenon
  <2>5. IF opened.res < 0 THEN OpenFails(path, "READ", opened.left)
        ELSE file_new_descriptor(path, "READ", opened.item, opened.left)
    BY <1>6, <1>10, <2>4 DEF GetDisk, EBADPATH, NOFS
  <2>6. CASE found = {}
    BY <1>7, <2>2, <2>3, <2>5, <2>6
  <2>7. CASE found # {}
    <3>1. PICK b \in Nat : b = opened.left
      BY <2>2
    <3>2. PICK item : item = opened.item
      OBVIOUS
    <3>3. file_new_descriptor(path, "READ", item, b) /\ b >= 1 /\ item \in found
      BY <2>2, <2>5, <2>7, <3>1, <3>2
    <3>4. ret'.fd > 0 /\ file_descriptors'[ret'.fd] = [open |-> TRUE, item |-> item]
      BY <3>3, NewDescriptor
    <3> QED
      BY <1>10, <3>3, <3>4
  <2> QED
    BY <2>6, <2>7
<1> QED
  BY <1>8, <1>9, <1>10

-----------------------------------------------------------------------------
(* The invariant *)

\* The paths the loaders open have parts, too.
LEMMA JoinedPaths ==
  ASSUME NEW r, NEW path \in join_paths(r)
  PROVE  /\ path.parts \in Seq(Range(path.parts))
         /\ Fits(r) => path = [drive |-> 0, parts |-> <<r.name>>]
<1>1. CASE Fits(r)
  <2>1. path = [drive |-> 0, parts |-> <<r.name>>]
    BY <1>1 DEF join_paths
  <2>2. path.parts = <<r.name>> /\ r.name \in Range(<<r.name>>)
    BY <2>1 DEF Range
  <2> QED
    BY <2>1, <2>2
<1>2. CASE ~Fits(r)
  BY <1>2, CallsAssumption DEF join_paths
<1> QED
  BY <1>1, <1>2

\* fopen preserves the invariant of the file layer,
LEMMA OpenInv ==
  ASSUME FilesInv, NEW path, path.parts \in Seq(Range(path.parts)), NEW mode, fopen(path, mode)
  PROVE  FilesInv' /\ ret'.op = "open" /\ ret'.fd \in 0 .. MaxFd
<1>1. TypeOK /\ OpenItems
  BY DEF FilesInv
<1>2. /\ UNCHANGED <<img, filesystem>> /\ free' \in 0 .. free
      /\ ret'.op = "open" /\ ret'.fd \in 0 .. MaxFd
      /\ \/ file_descriptors' = file_descriptors
         \/ \E fd \in FreeSlots : \E name : \E item \in {NOCOPY} \cup Matches(img.root, name) :
               file_descriptors' = [file_descriptors EXCEPT ![fd] = [open |-> TRUE, item |-> item]]
  BY <1>1, OpenStep
<1>3. free' \in 0 .. HeapBlocks
  BY <1>1, <1>2, Disks DEF TypeOK
<1>4. file_descriptors' \in [Fds -> [open : BOOLEAN, item : {NULL, NOCOPY} \cup DOMAIN img.root]] /\ OpenItems'
  <2>1. CASE file_descriptors' = file_descriptors
    BY <1>1, <1>2, <2>1 DEF TypeOK, OpenItems
  <2>2. ASSUME NEW fd \in FreeSlots, NEW name, NEW item \in {NOCOPY} \cup Matches(img.root, name),
               file_descriptors' = [file_descriptors EXCEPT ![fd] = [open |-> TRUE, item |-> item]]
        PROVE  /\ file_descriptors' \in [Fds -> [open : BOOLEAN, item : {NULL, NOCOPY} \cup DOMAIN img.root]]
               /\ OpenItems'
    <3>1. PICK items : items = img.root
      OBVIOUS
    <3>2. items \in Seq(Range(items)) /\ DOMAIN items = 1 .. Len(items)
      BY <1>1, <3>1, Disks
    <3>3. item = NOCOPY \/ (item \in DOMAIN items /\ items[item].status = "used")
      BY <3>1, <3>2, FoundItems
    <3>4. [open |-> TRUE, item |-> item] \in [open : BOOLEAN, item : {NULL, NOCOPY} \cup DOMAIN img.root]
      BY <3>1, <3>3
    <3>5. file_descriptors \in [Fds -> [open : BOOLEAN, item : {NULL, NOCOPY} \cup DOMAIN img.root]]
      BY <1>1 DEF TypeOK
    <3>6. \A e \in Fds : file_descriptors'[e] = IF e = fd THEN [open |-> TRUE, item |-> item]
                                               ELSE file_descriptors[e]
      BY <2>2, <3>5
    <3>7. OpenItems'
      BY <1>1, <1>2, <3>1, <3>3, <3>6 DEF OpenItems
    <3> QED
      BY <2>2, <3>4, <3>5, <3>7
  <2> QED
    BY <1>2, <2>1, <2>2
<1>5. TypeOK'
  BY <1>1, <1>2, <1>3, <1>4 DEF TypeOK
<1> QED
  BY <1>2, <1>4, <1>5 DEF FilesInv

\* and so does every other step of the file layer.
LEMMA FilesInvStep == FilesInv /\ Next => FilesInv'
<1> SUFFICES ASSUME FilesInv, Next PROVE FilesInv'
  OBVIOUS
<1>1. CASE DiskInit
  <2>1. /\ UNCHANGED <<img, file_descriptors>> /\ ret'.op = "ready" /\ free = HeapBlocks
        /\ filesystem' \in {NOFS, "FAT16"} /\ free' \in {free - 5, free - 3}
    BY <1>1 DEF DiskInit, fat16_resolve, FilesInv
  <2>2. free' \in 0 .. HeapBlocks
    BY <2>1, VfsAssumption
  <2> QED
    BY <2>1, <2>2 DEF FilesInv, TypeOK, OpenItems
<1>2. ASSUME NEW path \in Paths, NEW mode \in Modes, fopen(path, mode) PROVE FilesInv'
  BY <1>2, OpenInv, CallsAssumption
<1>3. ASSUME NEW size, NEW nmemb, NEW fd, fread(size, nmemb, fd) PROVE FilesInv'
  <2>1. UNCHANGED <<img, filesystem, file_descriptors, free>> /\ ret'.op = "read"
    BY <1>3 DEF fread
  <2> QED
    BY <2>1 DEF FilesInv, TypeOK, OpenItems
<1> QED
  BY <1>1, <1>2, <1>3 DEF Next

\* The initial state satisfies the invariant,
LEMMA InitLoader == LoaderInit => LoaderInv
<1> SUFFICES ASSUME LoaderInit PROVE LoaderInv
  OBVIOUS
<1>1. TypeOK
  BY VfsAssumption DEF LoaderInit, Init, TypeOK, EMPTY
<1>2. OpenItems
  BY DEF LoaderInit, Init, OpenItems, EMPTY
<1> QED
  BY <1>1, <1>2 DEF LoaderInit, Init, FilesInv, LoaderInv

\* a load takes blocks that are there,
LEMMA LoadInv ==
  ASSUME LoaderInv, LoadImage
  PROVE  FilesInv' /\ UNCHANGED <<img, filesystem, file_descriptors, ret>> /\ ret.op = "read"
<1>1. /\ UNCHANGED <<img, filesystem, file_descriptors, ret>> /\ lpc = "load"
      /\ \E base : LdrAllocMemory(base)
  BY DEF LoadImage
<1>2. ret.op = "read" /\ pe \in Range(Programs)
  BY <1>1 DEF LoaderInv
<1>3. PICK size \in Nat : size = pe.size
  BY <1>2, LoaderAssumption
<1>4. PICK blocks \in Nat : blocks = (size + BlockWords - 1) \div BlockWords
  <2>1. BlockWords \in Nat \ {0} /\ size + BlockWords - 1 \in Nat
    BY LoaderAssumption
  <2> QED
    BY <2>1, Divided
<1>5. PICK f \in Nat : f = free /\ f <= HeapBlocks
  BY Disks DEF LoaderInv, FilesInv, TypeOK
<1>6. free' = free \/ free' = Max({f - blocks, 0})
  BY <1>1, <1>3, <1>4, <1>5 DEF LdrAllocMemory
<1>7. Max({f - blocks, 0}) = IF f - blocks >= 0 THEN f - blocks ELSE 0
  BY OfTwo
<1>8. free' \in 0 .. HeapBlocks
  BY <1>5, <1>6, <1>7, VfsAssumption
<1> QED
  BY <1>1, <1>2, <1>8 DEF LoaderInv, FilesInv, TypeOK, OpenItems

\* and every step preserves it.
LEMMA LoaderInvStep == LoaderInv /\ [LoaderNext]_loaderVars => LoaderInv'
<1> SUFFICES ASSUME LoaderInv, [LoaderNext]_loaderVars PROVE LoaderInv'
  OBVIOUS
<1>1. FilesInv
  BY DEF LoaderInv
<1>2. UNCHANGED vars => FilesInv' /\ ret' = ret
  BY <1>1 DEF vars, FilesInv, TypeOK, OpenItems
<1>3. ASSUME NEW r, NEW next \in {"image", "script"}, Open(r, next) PROVE LoaderInv'
  <2>1. PICK path \in join_paths(r) : fopen(path, "READ")
    BY <1>3 DEF Open
  <2>2. FilesInv' /\ ret'.fd \in 0 .. MaxFd
    BY <1>1, <2>1, JoinedPaths, OpenInv
  <2> QED
    BY <1>3, <2>2 DEF Open, LoaderInv
<1>4. ASSUME NEW size, NEW nmemb, NEW fd, fread(size, nmemb, fd) PROVE FilesInv' /\ ret'.op = "read"
  <2>1. UNCHANGED <<img, filesystem, file_descriptors, free>> /\ ret'.op = "read"
    BY <1>4 DEF fread
  <2> QED
    BY <1>1, <2>1 DEF FilesInv, TypeOK, OpenItems
<1>5. CASE Others
  <2>1. CASE lpc = "idle" /\ Next
    BY <1>1, <1>5, <2>1, FilesInvStep DEF Others, LoaderInv
  <2>2. CASE lpc = "entered" /\ \E path \in Paths : fopen(path, "READ")
    <3>1. FilesInv'
      BY <1>1, <2>2, OpenInv, CallsAssumption
    <3> QED
      BY <1>5, <2>2, <3>1 DEF Others, LoaderInv
  <2> QED
    BY <1>5, <2>1, <2>2 DEF Others
<1>6. CASE \E r \in Requests : LdrLoadPe(r) \/ LdrExecBat(r)
  BY <1>3, <1>6 DEF LdrLoadPe, LdrExecBat
<1>7. CASE NotOpened
  BY <1>2, <1>7 DEF NotOpened, Back, Leave, LoaderInv
<1>8. CASE ReadImage
  BY <1>4, <1>8 DEF ReadImage, LoaderInv
<1>9. CASE LdrProcessPe
  <2>1. FilesInv' /\ ret' = ret /\ lpc = "process" /\ ret.op = "read"
    BY <1>2, <1>9 DEF LdrProcessPe, LoaderInv
  <2>2. PICK header \in Headers :
           IF header.executable THEN pe' = header /\ lpc' = "load" ELSE Back
    BY <1>9 DEF LdrProcessPe
  <2>3. header \in Range(Programs)
    BY DEF Headers, Range
  <2> QED
    BY <2>1, <2>2, <2>3 DEF Back, Leave, LoaderInv
<1>10. CASE LoadImage
  <2>1. lpc' = "entered"
    BY <1>10 DEF LoadImage
  <2> QED
    BY <1>10, <2>1, LoadInv DEF LoaderInv
<1>11. CASE Returns
  BY <1>2, <1>11 DEF Returns, Back, Leave, LoaderInv
<1>12. CASE ReadScript
  BY <1>4, <1>12 DEF ReadScript, LoaderInv
<1>13. CASE ExecLine \/ StaleLine
  <2>1. lpc = "line"
    BY <1>13 DEF ExecLine, StaleLine
  <2>2. (UNCHANGED vars /\ lpc' = lpc) \/ \E r : Open(r, "image")
    BY <1>13 DEF ExecLine, StaleLine, NsExec
  <2> QED
    BY <1>2, <1>3, <2>1, <2>2 DEF LoaderInv
<1>14. CASE ScriptEnds
  BY <1>2, <1>14 DEF ScriptEnds, Leave, LoaderInv
<1>15. CASE UNCHANGED loaderVars
  BY <1>2, <1>15 DEF loaderVars, LoaderInv
<1> QED
  BY <1>5, <1>6, <1>7, <1>8, <1>9, <1>10, <1>11, <1>12, <1>13, <1>14, <1>15 DEF LoaderNext

\* The invariant holds throughout.
LEMMA LoaderInvariance == LoaderSpec => []LoaderInv
BY InitLoader, LoaderInvStep, PTL DEF LoaderSpec

-----------------------------------------------------------------------------
(* Descriptors and names *)

\* The file layer keeps its types: what fopen and the loads take from the heap
\* is there, and every descriptor stands for an item of the directory.
THEOREM FileLayerTypes == LoaderSpec => []TypeOK
<1>1. LoaderInv => TypeOK
  BY DEF LoaderInv, FilesInv
<1> QED
  BY <1>1, LoaderInvariance, PTL

\* The steps of the whole that change the file layer's state: its own, the
\* loaders' calls of it, and the load of an image.
LEMMA FileSteps ==
  ASSUME LoaderInv, [LoaderNext]_loaderVars
  PROVE  \/ DiskInit
         \/ \E path, mode : path.parts \in Seq(Range(path.parts)) /\ fopen(path, mode)
         \/ \E size \in Nat, nmemb \in Nat, fd \in 0 .. MaxFd : fread(size, nmemb, fd)
         \/ UNCHANGED <<img, filesystem, file_descriptors, ret>> /\ ret.op = "read"
         \/ UNCHANGED vars
<1>1. ASSUME NEW r, NEW next, Open(r, next)
      PROVE  \E path, mode : path.parts \in Seq(Range(path.parts)) /\ fopen(path, mode)
  BY <1>1, JoinedPaths DEF Open
<1>2. CASE Others
  BY <1>2, CallsAssumption DEF Others, Next
<1>3. CASE \E r \in Requests : LdrLoadPe(r) \/ LdrExecBat(r)
  BY <1>1, <1>3 DEF LdrLoadPe, LdrExecBat
<1>4. CASE NotOpened \/ LdrProcessPe \/ Returns \/ ScriptEnds
  BY <1>4 DEF NotOpened, LdrProcessPe, Returns, ScriptEnds
<1>5. CASE ReadImage \/ ReadScript
  BY <1>5, LoaderAssumption DEF ReadImage, ReadScript, LoaderInv
<1>6. CASE LoadImage
  BY <1>6, LoadInv
<1>7. CASE ExecLine \/ StaleLine
  <2>1. UNCHANGED vars \/ \E r : Open(r, "image")
    BY <1>7 DEF ExecLine, StaleLine, NsExec
  <2> QED
    BY <1>1, <2>1
<1>8. CASE UNCHANGED loaderVars
  BY <1>8 DEF loaderVars
<1> QED
  BY <1>2, <1>3, <1>4, <1>5, <1>6, <1>7, <1>8 DEF LoaderNext

\* A descriptor keeps naming the file it was opened on, whatever is opened,
\* read, loaded and run afterwards (file_new_descriptor).
THEOREM DescriptorsAreKept == LoaderSpec => OpenDescriptorsKept
<1>1. LoaderInv /\ [LoaderNext]_loaderVars =>
         [\A fd \in Fds : file_descriptors[fd].open =>
                             file_descriptors'[fd] = file_descriptors[fd]]_vars
  <2> SUFFICES ASSUME LoaderInv, [LoaderNext]_loaderVars, ~UNCHANGED vars
               PROVE  \A fd \in Fds : file_descriptors[fd].open =>
                                         file_descriptors'[fd] = file_descriptors[fd]
    OBVIOUS
  <2>1. TypeOK
    BY DEF LoaderInv, FilesInv
  <2>2. CASE file_descriptors' = file_descriptors
    BY <2>2
  <2>3. CASE \E path, mode : path.parts \in Seq(Range(path.parts)) /\ fopen(path, mode)
    BY <2>1, <2>3, OpenKeeps
  <2>4. \/ file_descriptors' = file_descriptors
        \/ \E path, mode : path.parts \in Seq(Range(path.parts)) /\ fopen(path, mode)
    BY FileSteps DEF DiskInit, fread
  <2> QED
    BY <2>2, <2>3, <2>4
<1> QED
  BY <1>1, LoaderInvariance, PTL DEF LoaderSpec, OpenDescriptorsKept

\* fopen tells which files there are, as long as a slot and nine blocks are left
\* (fopen, fat16_open, fat16_find_item_in_directory).
THEOREM OpenTellsWhatIsThere == LoaderSpec => OpenTellsExistence
<1> DEFINE Tells ==
       ret'.op = "open" /\ ret'.mode = "READ" /\ filesystem = "FAT16" /\ Len(ret'.path.parts) = 1
          /\ FreeSlots # {} /\ free >= 9 =>
          /\ Findable(ret'.path) => ret'.fd > 0
          /\ ret'.fd > 0 /\ Len(ret'.path.parts[1]) <= 2 =>
                 /\ Exists(ret'.path)
                 /\ LET d == file_descriptors'[ret'.fd] IN
                    d.open /\ Name(img.root[d.item]) = ret'.path.parts[1]
<1>1. LoaderInv /\ [LoaderNext]_loaderVars => [Tells]_vars
  <2> SUFFICES ASSUME LoaderInv, [LoaderNext]_loaderVars, ~UNCHANGED vars,
                      ret'.op = "open", ret'.mode = "READ", filesystem = "FAT16",
                      Len(ret'.path.parts) = 1, FreeSlots # {}, free >= 9
               PROVE  Tells
    BY DEF Tells
  <2>1. TypeOK
    BY DEF LoaderInv, FilesInv
  <2>2. PICK path, mode : path.parts \in Seq(Range(path.parts)) /\ fopen(path, mode)
    BY FileSteps DEF DiskInit, fread
  <2>3. ret'.path = path /\ mode = "READ"
    BY <2>1, <2>2, OpenStep
  <2>4. /\ Findable(path) => ret'.fd > 0
        /\ ret'.fd > 0 =>
              /\ path.drive = 0
              /\ file_descriptors'[ret'.fd].open
              /\ file_descriptors'[ret'.fd].item \in Matches(img.root, path.parts[1])
    BY <2>1, <2>2, <2>3, OpenTells
  <2>5. ASSUME ret'.fd > 0, Len(path.parts[1]) <= 2
        PROVE  /\ Exists(path)
               /\ Name(img.root[file_descriptors'[ret'.fd].item]) = path.parts[1]
    <3>1. PICK items : items = img.root
      OBVIOUS
    <3>2. PICK i : i = file_descriptors'[ret'.fd].item
      OBVIOUS
    <3>3. i \in Matches(items, path.parts[1]) /\ items \in Seq(Range(items))
      BY <2>1, <2>4, <2>5, <3>1, <3>2, Disks
    <3>4. i \in LiveItems(items) /\ Name(items[i]) = path.parts[1]
      BY <2>5, <3>3, FoundItems
    <3> QED
      BY <2>3, <2>4, <2>5, <3>1, <3>2, <3>4 DEF Exists
  <2> QED
    BY <2>3, <2>4, <2>5 DEF Tells
<1> QED
  BY <1>1, LoaderInvariance, PTL DEF LoaderSpec, OpenTellsExistence, Tells

\* A program or script that can be found is the one opened, whichever way it is
\* asked for (join_paths, LdrLoadPe, LdrExecBat, NsExec).
THEOREM NamedFileIsLoaded == LoaderSpec => LoadsNamedFile
<1> DEFINE Loads ==
       lpc' \in {"image", "script"} /\ lpc # lpc' /\ Fits(req') /\ filesystem = "FAT16"
          /\ FreeSlots # {} /\ free >= 9 /\ Findable([drive |-> 0, parts |-> <<req'.name>>]) =>
          /\ ret'.fd > 0
          /\ Name(img.root[file_descriptors'[ret'.fd].item]) = req'.name
<1>1. LoaderInv /\ [LoaderNext]_loaderVars => [Loads]_loaderVars
  <2> SUFFICES ASSUME LoaderInv, LoaderNext,
                      lpc' \in {"image", "script"}, lpc # lpc', Fits(req'), filesystem = "FAT16",
                      FreeSlots # {}, free >= 9, Findable([drive |-> 0, parts |-> <<req'.name>>])
               PROVE  /\ ret'.fd > 0
                      /\ Name(img.root[file_descriptors'[ret'.fd].item]) = req'.name
    BY DEF Loads
  <2>1. TypeOK
    BY DEF LoaderInv, FilesInv
  <2>2. \E r, next : Open(r, next)
    <3>1. CASE Others \/ ReadImage \/ LoadImage \/ ReadScript \/ ScriptEnds
      BY <3>1 DEF Others, ReadImage, LoadImage, ReadScript, ScriptEnds, Leave
    <3>2. CASE NotOpened \/ Returns \/ LdrProcessPe
      BY <3>2 DEF NotOpened, Returns, LdrProcessPe, Back, Leave
    <3>3. CASE ExecLine \/ StaleLine
      BY <3>3 DEF ExecLine, StaleLine, NsExec
    <3>4. CASE \E r \in Requests : LdrLoadPe(r) \/ LdrExecBat(r)
      BY <3>4 DEF LdrLoadPe, LdrExecBat
    <3> QED
      BY <3>1, <3>2, <3>3, <3>4 DEF LoaderNext
  <2>3. PICK r, next : Open(r, next)
    BY <2>2
  <2>4. PICK path \in join_paths(r) : req' = r /\ fopen(path, "READ")
    BY <2>3 DEF Open
  <2>5. path = [drive |-> 0, parts |-> <<r.name>>] /\ path.parts \in Seq(Range(path.parts))
    BY <2>4, JoinedPaths
  <2>6. path.parts = <<r.name>> /\ Len(path.parts) = 1 /\ path.parts[1] = r.name
    BY <2>5
  <2>7. Findable(path)
    BY <2>4, <2>5
  <2>8. /\ ret'.fd > 0
        /\ file_descriptors'[ret'.fd].item \in Matches(img.root, r.name)
    BY <2>1, <2>4, <2>5, <2>6, <2>7, OpenTells
  <2>9. Len(r.name) <= 2
    <3>1. PICK item : Name(item) = r.name
      BY <2>6, <2>7 DEF Findable
    <3>2. r.name = <<item.base>> \/ r.name = <<item.base, item.ext>>
      BY <3>1, Zenon DEF Name
    <3>3. \A a, b : Len(<<a>>) = 1 /\ Len(<<a, b>>) = 2
      OBVIOUS
    <3>4. Len(r.name) = 1 \/ Len(r.name) = 2
      BY <3>2, <3>3, Zenon
    <3>5. 1 <= 2 /\ 2 <= 2
      OBVIOUS
    <3> QED
      BY <3>4, <3>5, Zenon
  <2>10. PICK items : items = img.root
    OBVIOUS
  <2>11. items \in Seq(Range(items))
    BY <2>1, <2>10, Disks
  <2>12. PICK i : i = file_descriptors'[ret'.fd].item
    OBVIOUS
  <2>13. Name(items[i]) = r.name
    BY <2>8, <2>9, <2>10, <2>11, <2>12, FoundItems
  <2> QED
    BY <2>4, <2>8, <2>10, <2>12, <2>13
<1> QED
  BY <1>1, LoaderInvariance, PTL DEF LoaderSpec, LoadsNamedFile, Loads

-----------------------------------------------------------------------------
(* Reading *)

\* No step along a chain leads from its start to its start: in the driver,
LEMMA AheadStart ==
  ASSUME NEW d, NEW start
  PROVE  ClusterAhead(d, start, 0) = start
<1> DEFINE F(g) == [i \in 0 .. 0 |->
                      IF i = 0 THEN start
                      ELSE IF g[i - 1] < 0 THEN g[i - 1]
                      ELSE LET entry == fat16_get_fat_entry(d, g[i - 1])
                           IN  IF entry \in StopEntries THEN -EIO ELSE entry]
<1>1. \A g : F(g) = [i \in 0 .. 0 |-> start]
  <2>1. \A i \in 0 .. 0 : i = 0
    OBVIOUS
  <2> QED
    BY <2>1, Zenon
<1> DEFINE A == CHOOSE g : g = F(g)
<1>2. ClusterAhead(d, start, 0) = A[0]
  BY Zenon DEF ClusterAhead
<1> HIDE DEF F
<1>3. A = F(A)
  BY <1>1, Zenon
<1>4. 0 \in 0 .. 0
  OBVIOUS
<1> HIDE DEF A
<1> QED
  BY <1>1, <1>2, <1>3, <1>4, Zenon

\* and by the format.
LEMMA FileStart ==
  ASSUME NEW d, NEW start
  PROVE  ChainCluster(d, start, 0) = start
<1> DEFINE F(g) == [i \in 0 .. 0 |->
                      IF i = 0 THEN start
                      ELSE IF g[i - 1] \in DOMAIN d.fat /\ d.fat[g[i - 1]] \in DOMAIN d.fat
                      THEN d.fat[g[i - 1]] ELSE 0]
<1>1. \A g : F(g) = [i \in 0 .. 0 |-> start]
  <2>1. \A i \in 0 .. 0 : i = 0
    OBVIOUS
  <2> QED
    BY <2>1, Zenon
<1> DEFINE A == CHOOSE g : g = F(g)
<1>2. ChainCluster(d, start, 0) = A[0]
  BY Zenon DEF ChainCluster
<1> HIDE DEF F
<1>3. A = F(A)
  BY <1>1, Zenon
<1>4. 0 \in 0 .. 0
  OBVIOUS
<1> HIDE DEF A
<1> QED
  BY <1>1, <1>2, <1>3, <1>4, Zenon

\* The parts of the disk have sizes.
LEMMA Geometry ==
  /\ SectorSize \in Nat \ {0} /\ SectorsPerCluster \in Nat \ {0} /\ ClusterBytes \in Nat \ {0}
  /\ ClusterBytes = SectorsPerCluster * SectorSize
  /\ EndOfRootSector \in Nat /\ DiskSectors \in Nat /\ SectorsPerFat \in Nat /\ ReservedSectors \in Nat
  /\ EndOfRootSector >= ReservedSectors + SectorsPerFat
<1>1. {SectorSize, ReservedSectors, FatCopies, SectorsPerFat, SectorsPerCluster,
       RootDirEntries, ItemSize, DiskSectors} \subseteq Nat \ {0}
  BY GeometryAssumption
<1>2. ClusterBytes \in Nat \ {0}
  <2>1. 1 * SectorSize <= SectorsPerCluster * SectorSize
    BY <1>1, Monotone
  <2> QED
    BY <1>1, <2>1 DEF ClusterBytes
<1>3. PICK items \in Nat : items = (RootDirEntries * ItemSize) \div SectorSize
  <2>1. RootDirEntries * ItemSize \in Nat
    BY <1>1
  <2> QED
    BY <1>1, <2>1, Divided
<1>4. 1 * SectorsPerFat <= FatCopies * SectorsPerFat
  BY <1>1, Monotone
<1>5. EndOfRootSector = FatCopies * SectorsPerFat + ReservedSectors + items
  BY <1>3 DEF EndOfRootSector, RootDirSector
<1> QED
  BY <1>1, <1>2, <1>4, <1>5 DEF ClusterBytes

\* A number below the divisor is its own remainder.
LEMMA Below ==
  ASSUME NEW a \in Nat, NEW b \in Nat \ {0}, a < b
  PROVE  a \div b = 0 /\ a % b = a
<1>1. (0 * b + a) \div b = 0 /\ (0 * b + a) % b = a
  BY DivMod
<1>2. 0 * b + a = a
  OBVIOUS
<1> QED
  BY <1>1, <1>2

\* The bytes of a data cluster lie behind those of the tables.
LEMMA DataByte ==
  ASSUME NEW d \in Images, NEW i \in DOMAIN d.root, d.root[i].status = "used",
         NEW c, c = d.root[i].cluster, NEW o \in Nat, o < ClusterBytes
  PROVE  /\ c \in Nat /\ c >= 2
         /\ DiskByte(d, (EndOfRootSector + (c - 2) * SectorsPerCluster) * SectorSize + o) =
               d.data[(c - 2) * ClusterBytes + o]
         /\ FileByte(d, c, o) = d.data[(c - 2) * ClusterBytes + o]
<1>1. /\ DOMAIN d.fat \subseteq 0 .. (SectorsPerFat * SectorSize) \div FAT_ENTRY_SIZE - 1
      /\ c \in Nat /\ c >= 2
      /\ (c - 2) * ClusterBytes .. (c - 1) * ClusterBytes - 1 \subseteq DOMAIN d.data
  BY VolumeAssumption
<1>2. PICK k \in Nat : k = (c - 2) * ClusterBytes + o
  <2>1. c - 2 \in Nat /\ ClusterBytes \in Nat
    BY <1>1, Geometry
  <2> QED
    BY <2>1
<1>3. k \in DOMAIN d.data
  <2>1. (c - 1) * ClusterBytes = (c - 2) * ClusterBytes + ClusterBytes
    BY <1>1, Geometry
  <2>2. k \in (c - 2) * ClusterBytes .. (c - 1) * ClusterBytes - 1
    BY <1>1, <1>2, <2>1, Geometry
  <2> QED
    BY <1>1, <2>2
<1>4. PICK pos \in Nat : pos = (EndOfRootSector + (c - 2) * SectorsPerCluster) * SectorSize + o
  BY <1>1, Geometry
<1>5. pos = FirstDataByte + k
  <2>1. PICK n \in Nat : n = c - 2
    BY <1>1
  <2>2. (EndOfRootSector + n * SectorsPerCluster) * SectorSize =
           EndOfRootSector * SectorSize + n * (SectorsPerCluster * SectorSize)
    BY <2>1, Geometry
  <2> QED
    BY <1>2, <1>4, <2>1, <2>2, Geometry DEF FirstDataByte
<1>6. FirstDataByte \in Nat /\ FatTablePosition \in Nat
      /\ FirstDataByte - FatTablePosition >= SectorsPerFat * SectorSize
  <2>1. (ReservedSectors + SectorsPerFat) * SectorSize <= EndOfRootSector * SectorSize
    BY Geometry, Monotone
  <2>2. (ReservedSectors + SectorsPerFat) * SectorSize =
           ReservedSectors * SectorSize + SectorsPerFat * SectorSize
    BY Geometry
  <2> QED
    BY <2>1, <2>2, Geometry DEF FirstDataByte, FatTablePosition
<1>7. pos >= FatTablePosition /\ (pos - FatTablePosition) \div FAT_ENTRY_SIZE \notin DOMAIN d.fat
  <2>1. PICK table \in Nat : table = SectorsPerFat * SectorSize
    BY Geometry
  <2>2. PICK p \in Nat : p = pos - FatTablePosition /\ p >= table
    BY <1>2, <1>4, <1>5, <1>6, <2>1
  <2>3. p \div 2 >= table \div 2
    BY <2>1, <2>2
  <2>4. p \div 2 \notin 0 .. table \div 2 - 1
    BY <2>1, <2>2, <2>3
  <2> QED
    BY <1>1, <1>4, <1>6, <2>1, <2>2, <2>4 DEF FAT_ENTRY_SIZE
<1>8. pos - FirstDataByte = k
  BY <1>2, <1>4, <1>5, <1>6
<1>9. DiskByte(d, pos) = d.data[k]
  BY <1>3, <1>7, <1>8, Zenon DEF DiskByte
<1>10. FileByte(d, c, o) = d.data[k]
  <2>1. o \div ClusterBytes = 0 /\ o % ClusterBytes = o
    BY Below, Geometry
  <2>2. ChainCluster(d, c, 0) = c
    BY FileStart
  <2> QED
    BY <1>2, <2>1, <2>2 DEF FileByte
<1> QED
  BY <1>1, <1>2, <1>4, <1>9, <1>10

\* A read of s bytes from a sector's beginning to the cluster's end at most asks
\* for sectors of the cluster, and returns its bytes.
LEMMA SectorsRead ==
  ASSUME NEW d \in Images, NEW i \in DOMAIN d.root, d.root[i].status = "used",
         NEW c, c = d.root[i].cluster,
         NEW q \in Nat, NEW s \in Nat \ {0}, q * SectorSize + s <= ClusterBytes
  PROVE  LET start == fat16_cluster_to_sector(c) * SectorSize + q * SectorSize
         IN  /\ start \in Nat
             /\ LastSectorRead(start, s) < DiskSectors
             /\ \A j \in 0 .. s - 1 :
                   diskstreamer_read(d, start, s)[j] = FileByte(d, c, q * SectorSize + j)
<1>1. /\ c \in Nat /\ c >= 2
      /\ EndOfRootSector + (c - 1) * SectorsPerCluster <= DiskSectors
  BY VolumeAssumption
<1>2. PICK sector \in Nat : /\ sector = fat16_cluster_to_sector(c)
                            /\ sector + SectorsPerCluster <= DiskSectors
  <2>1. PICK n \in Nat : n = c - 2
    BY <1>1
  <2>2. (c - 1) * SectorsPerCluster = n * SectorsPerCluster + SectorsPerCluster
    BY <1>1, <2>1, Geometry
  <2>3. EndOfRootSector + n * SectorsPerCluster \in Nat
    BY <2>1, Geometry
  <2> QED
    BY <1>1, <2>1, <2>2, <2>3, Geometry DEF fat16_cluster_to_sector
<1> DEFINE start == fat16_cluster_to_sector(c) * SectorSize + q * SectorSize
<1>3. start = (sector + q) * SectorSize + 0
  BY <1>2, Geometry
<1>4. start \in Nat /\ start \div SectorSize = sector + q /\ start % SectorSize = 0
  <2>1. sector + q \in Nat /\ 0 < SectorSize
    BY <1>2, Geometry
  <2>2. /\ ((sector + q) * SectorSize + 0) \div SectorSize = sector + q
        /\ ((sector + q) * SectorSize + 0) % SectorSize = 0
    BY <2>1, DivMod, Geometry
  <2>3. (sector + q) * SectorSize + 0 \in Nat
    BY <2>1, Geometry
  <2> QED
    BY <1>3, <2>2, <2>3
<1> HIDE DEF start
<1>5. LastSectorRead(start, s) < DiskSectors
  <2>1. PICK e \in Nat : e = (s - 1) \div SectorSize /\ e * SectorSize <= s - 1
    <3>1. s - 1 \in Nat
      OBVIOUS
    <3>2. PICK e \in Nat, r \in Nat : e = (s - 1) \div SectorSize /\ s - 1 = e * SectorSize + r
      BY <3>1, Divided, Geometry
    <3>3. e * SectorSize \in Nat
      BY <3>2, Geometry
    <3> QED
      BY <3>2, <3>3
  <2>2. (q + e) * SectorSize = q * SectorSize + e * SectorSize
    BY <2>1, Geometry
  <2>3. (q + e) * SectorSize < SectorsPerCluster * SectorSize
    <3>1. q * SectorSize \in Nat /\ e * SectorSize \in Nat /\ SectorsPerCluster * SectorSize \in Nat
      BY <2>1, Geometry
    <3> QED
      BY <2>1, <2>2, <3>1, Geometry
  <2>4. q + e < SectorsPerCluster
    <3> SUFFICES ASSUME SectorsPerCluster <= q + e PROVE FALSE
      BY <2>1, Geometry
    <3>1. SectorsPerCluster * SectorSize <= (q + e) * SectorSize
      BY <2>1, Monotone, Geometry
    <3>2. q + e \in Nat
      BY <2>1
    <3>3. (q + e) * SectorSize \in Nat /\ SectorsPerCluster * SectorSize \in Nat
      BY <3>2, Geometry
    <3> QED
      BY <2>3, <3>1, <3>3
  <2>5. LastSectorRead(start, s) = sector + q + e
    BY <1>4, <2>1 DEF LastSectorRead
  <2> QED
    BY <1>2, <2>1, <2>4, <2>5, Geometry
<1>6. ASSUME NEW j \in 0 .. s - 1
      PROVE  diskstreamer_read(d, start, s)[j] = FileByte(d, c, q * SectorSize + j)
  <2>1. PICK a \in Nat, b \in Nat : /\ a = j \div SectorSize /\ b = j % SectorSize
                                    /\ b < SectorSize /\ j = a * SectorSize + b
    BY Divided, Geometry
  <2>2. diskstreamer_read(d, start, s)[j] = DiskByte(d, (sector + q + a) * SectorSize + (0 + b))
    BY <1>4, <2>1 DEF diskstreamer_read
  <2>3. PICK o \in Nat : o = q * SectorSize + j
    BY Geometry
  <2>4. o < ClusterBytes
    <3>1. q * SectorSize \in Nat
      BY Geometry
    <3> QED
      BY <2>3, <3>1, Geometry
  <2>5. (sector + q + a) * SectorSize + (0 + b) = fat16_cluster_to_sector(c) * SectorSize + o
    <3>1. (sector + q + a) * SectorSize = sector * SectorSize + q * SectorSize + a * SectorSize
      BY <1>2, <2>1, Geometry
    <3>2. sector * SectorSize \in Nat /\ q * SectorSize \in Nat /\ a * SectorSize \in Nat
      BY <1>2, <2>1, Geometry
    <3> QED
      BY <1>2, <2>1, <2>3, <3>1, <3>2
  <2>6. DiskByte(d, fat16_cluster_to_sector(c) * SectorSize + o) = FileByte(d, c, o)
    BY <2>4, DataByte DEF fat16_cluster_to_sector
  <2> QED
    BY <2>2, <2>3, <2>5, <2>6
<1> QED
  BY <1>4, <1>5, <1>6 DEF start

\* fat16_read_internal in one cluster: a single piece, in the file's first cluster.
LEMMA OnePiece ==
  ASSUME NEW d \in Images, NEW i \in DOMAIN d.root, d.root[i].status = "used",
         NEW c, c = d.root[i].cluster,
         NEW q \in Nat, NEW s \in Nat \ {0}, q * SectorSize + s <= ClusterBytes
  PROVE  fat16_read_internal(d, c, q * SectorSize, s) =
            [res |-> LIBREWIN_ALL_OK,
             data |-> [j \in 1 .. s |-> FileByte(d, c, q * SectorSize + (j - 1))]]
<1>1. PICK o \in Nat : o = q * SectorSize
  BY Geometry
<1> DEFINE start == fat16_cluster_to_sector(c) * SectorSize + o
<1>2. /\ start \in Nat
      /\ LastSectorRead(start, s) < DiskSectors
      /\ \A j \in 0 .. s - 1 : diskstreamer_read(d, start, s)[j] = FileByte(d, c, o + j)
  BY <1>1, SectorsRead
<1>3. c \in Nat
  BY VolumeAssumption
<1>4. o < ClusterBytes /\ s - 1 < ClusterBytes /\ s <= ClusterBytes
  BY <1>1, Geometry
<1>5. o \div ClusterBytes = 0 /\ o % ClusterBytes = o
  BY <1>4, Below, Geometry
<1>6. \A j \in 1 .. s : (j - 1) \div ClusterBytes = 0 /\ (j - 1) % ClusterBytes = j - 1
  BY <1>4, Below, Geometry
<1>7. Pieces(s) = {0}
  <2>1. (s - 1) \div ClusterBytes = 0
    BY <1>6
  <2>2. 0 .. 0 = {0}
    OBVIOUS
  <2> QED
    BY <2>1, <2>2 DEF Pieces
<1>8. 0 * ClusterBytes = 0 /\ o + 0 = o /\ s - 0 = s
  BY Geometry
<1>9. PieceCluster(d, c, o, 0) = c
  BY <1>5, <1>8, AheadStart DEF PieceCluster, fat16_get_cluster_for_offset
<1>10. PieceStart(d, c, o, 0) = start
  BY <1>5, <1>9 DEF PieceStart
<1>11. PieceLength(s, 0) = s
  BY <1>4, <1>8, OfTwo, Geometry DEF PieceLength
<1> HIDE DEF start
<1>12. PieceResult(d, c, o, s, 0) = 0
  <2>1. ~(c < 0) /\ ~(LastSectorRead(start, s) >= DiskSectors)
    <3>1. LastSectorRead(start, s) \in Int
      <4>1. start \div SectorSize \in Int /\ (s - 1) \div SectorSize \in Int
        BY <1>2, Geometry
      <4> QED
        BY <4>1 DEF LastSectorRead
    <3> QED
      BY <1>2, <1>3, <3>1, Geometry
  <2> QED
    BY <1>9, <1>10, <1>11, <2>1, Zenon DEF PieceResult
<1>13. {p \in Pieces(s) : PieceResult(d, c, o, s, p) # 0} = {}
  BY <1>7, <1>12
<1>14. fat16_read_internal(d, c, o, s) =
          [res |-> LIBREWIN_ALL_OK,
           data |-> [j \in 1 .. s |->
                        LET p == (j - 1) \div ClusterBytes
                        IN  diskstreamer_read(d, PieceStart(d, c, o, p),
                                              PieceLength(s, p))[(j - 1) % ClusterBytes]]]
  BY <1>13, Zenon DEF fat16_read_internal
<1>15. \A j \in 1 .. s : diskstreamer_read(d, PieceStart(d, c, o, (j - 1) \div ClusterBytes),
                              PieceLength(s, (j - 1) \div ClusterBytes))[(j - 1) % ClusterBytes]
                         = FileByte(d, c, o + (j - 1))
  <2>1. \A j \in 1 .. s : j - 1 \in 0 .. s - 1
    OBVIOUS
  <2> QED
    BY <1>2, <1>6, <1>10, <1>11, <2>1, Zenon
<1> QED
  BY <1>1, <1>14, <1>15, Zenon

\* fat16_read in one cluster, in one part or in whole sectors.
LEMMA WholeRead ==
  ASSUME NEW d \in Images, NEW i \in DOMAIN d.root, d.root[i].status = "used",
         NEW c, c = d.root[i].cluster,
         NEW size \in Nat, NEW nmemb \in Nat, size * nmemb \in 1 .. ClusterBytes,
         nmemb = 1 \/ size % SectorSize = 0
  PROVE  fat16_read(d, c, size, nmemb) =
            [res |-> nmemb, data |-> [j \in 1 .. size * nmemb |-> FileByte(d, c, j - 1)]]
<1>1. size # 0 /\ nmemb # 0 /\ nmemb * size = size * nmemb
  BY Geometry
<1> DEFINE read == [k \in 0 .. nmemb - 1 |-> fat16_read_internal(d, c, k * size, size)]
           bad  == {k \in 0 .. nmemb - 1 : read[k].res < 0}
<1>2. ASSUME NEW k \in 0 .. nmemb - 1
      PROVE  /\ read[k].res = 0
             /\ read[k].data = [j \in 1 .. size |-> FileByte(d, c, k * size + (j - 1))]
  <2>1. PICK q \in Nat : k * size = q * SectorSize
    <3>1. CASE nmemb = 1
      <4>1. k * size = 0 * SectorSize
        BY <3>1, Geometry
      <4> QED
        BY <4>1
    <3>2. CASE size % SectorSize = 0
      <4>1. PICK u \in Nat : size = u * SectorSize + 0
        BY <3>2, Divided, Geometry
      <4>2. k * size = (k * u) * SectorSize /\ k * u \in Nat
        BY <4>1, Geometry
      <4> QED
        BY <4>2
    <3> QED
      BY <3>1, <3>2
  <2>2. q * SectorSize + size <= ClusterBytes
    <3>1. (k + 1) * size <= nmemb * size
      BY Monotone
    <3>2. (k + 1) * size = k * size + size
      OBVIOUS
    <3>3. k * size \in Nat /\ nmemb * size \in Nat
      OBVIOUS
    <3> QED
      BY <1>1, <2>1, <3>1, <3>2, <3>3, Geometry
  <2>3. fat16_read_internal(d, c, q * SectorSize, size) =
           [res |-> LIBREWIN_ALL_OK,
            data |-> [j \in 1 .. size |-> FileByte(d, c, q * SectorSize + (j - 1))]]
    BY <1>1, <2>2, OnePiece
  <2>4. PICK bytes : bytes = [j \in 1 .. size |-> FileByte(d, c, k * size + (j - 1))]
    OBVIOUS
  <2>5. read[k] = [res |-> 0, data |-> bytes]
    BY <2>1, <2>3, <2>4, Zenon DEF LIBREWIN_ALL_OK
  <2> HIDE DEF read
  <2>6. read[k].res = 0 /\ read[k].data = bytes
    BY <2>5
  <2> QED
    BY <2>4, <2>6
<1> HIDE DEF read
<1>3. bad = {}
  <2>1. ASSUME NEW k \in 0 .. nmemb - 1 PROVE ~(read[k].res < 0)
    <3>1. read[k].res = 0
      BY <1>2
    <3> QED
      BY <3>1
  <2> QED
    BY <2>1
<1>4. fat16_read(d, c, size, nmemb) =
         [res |-> nmemb,
          data |-> [j \in 1 .. nmemb * size |-> read[(j - 1) \div size].data[((j - 1) % size) + 1]]]
  BY <1>3, Zenon DEF fat16_read, read
<1>5. ASSUME NEW j \in 1 .. nmemb * size
      PROVE  read[(j - 1) \div size].data[((j - 1) % size) + 1] = FileByte(d, c, j - 1)
  <2>1. j - 1 \in Nat /\ size \in Nat \ {0}
    BY <1>1
  <2>2. PICK k \in Nat, m \in Nat : /\ k = (j - 1) \div size /\ m = (j - 1) % size /\ m < size
                                    /\ j - 1 = k * size + m
    BY <2>1, Divided
  <2>3. k < nmemb
    <3> SUFFICES ASSUME nmemb <= k PROVE FALSE
      OBVIOUS
    <3>1. nmemb * size <= k * size
      BY Monotone
    <3>2. nmemb * size \in Nat /\ k * size \in Nat
      OBVIOUS
    <3> QED
      BY <2>2, <3>1, <3>2
  <2>4. read[k].data[m + 1] = FileByte(d, c, k * size + ((m + 1) - 1))
    <3>1. k \in 0 .. nmemb - 1 /\ m + 1 \in 1 .. size
      BY <2>2, <2>3
    <3>2. PICK n \in 1 .. size : n = m + 1
      BY <3>1
    <3>3. read[k].data = [e \in 1 .. size |-> FileByte(d, c, k * size + (e - 1))]
      BY <1>2, <3>1
    <3>4. read[k].data[n] = FileByte(d, c, k * size + (n - 1))
      BY <3>3, Zenon
    <3> QED
      BY <3>2, <3>4, Zenon
  <2>5. k * size + ((m + 1) - 1) = j - 1
    BY <2>2
  <2> QED
    BY <2>2, <2>4, <2>5
<1> QED
  BY <1>1, <1>4, <1>5

\* A read gives the bytes of the file its descriptor was opened on.
LEMMA ReadStep ==
  ASSUME FilesInv, NEW size \in Nat, NEW nmemb \in Nat, NEW fd \in 0 .. MaxFd, fread(size, nmemb, fd)
  PROVE  ReadReturnsFile'
<1>1. UNCHANGED <<img, file_descriptors>> /\ TypeOK /\ OpenItems
  BY DEF fread, FilesInv
<1>2. PICK desc : desc = file_get_descriptor(fd)
  OBVIOUS
<1>3. PICK r \in IF size = 0 \/ nmemb = 0 \/ fd < 1 \/ ~desc.open
                 THEN {[res |-> -EINVARG, data |-> <<>>]}
                 ELSE ReadResults(desc, size, nmemb) :
         ret' = [op |-> "read", fd |-> fd, size |-> size, nmemb |-> nmemb,
                 res |-> r.res, data |-> r.data]
  BY <1>2 DEF fread
<1>4. file_get_descriptor(ret.fd)' = desc
  BY <1>1, <1>2, <1>3 DEF file_get_descriptor
<1>5. /\ ret'.fd = fd /\ ret'.size = size /\ ret'.nmemb = nmemb
      /\ ret'.res = r.res /\ ret'.data = r.data /\ img' = img
  BY <1>1, <1>3
<1> SUFFICES ASSUME desc.open, desc.item # NOCOPY, size * nmemb \in 1 .. ClusterBytes,
                    nmemb = 1 \/ size % SectorSize = 0
             PROVE  /\ r.res = nmemb
                    /\ r.data = [j \in 1 .. size * nmemb |->
                                    FileByte(img, img.root[desc.item].cluster, j - 1)]
  BY <1>4, <1>5, Zenon DEF ReadReturnsFile
<1>6. fd \in Fds /\ ~(fd < 1) /\ desc = file_descriptors[fd]
  <2>1. ~EMPTY.open
    BY DEF EMPTY
  <2>2. ~(fd <= 0 \/ fd >= MaxFd)
    BY <1>2, <2>1 DEF file_get_descriptor
  <2>3. fd \in Fds /\ ~(fd < 1)
    BY <1>1, <2>2, Disks DEF Fds
  <2> QED
    BY <1>2, <2>2, <2>3 DEF file_get_descriptor
<1>7. size # 0 /\ nmemb # 0
  BY Geometry
<1>8. r = fat16_read(img, img.root[desc.item].cluster, size, nmemb)
  BY <1>3, <1>6, <1>7 DEF ReadResults
<1>9. desc.item \in DOMAIN img.root /\ img.root[desc.item].status = "used"
  BY <1>1, <1>6 DEF OpenItems
<1>10. PICK d \in Images : d = img
  BY <1>1 DEF TypeOK
<1>11. PICK i \in DOMAIN d.root : i = desc.item
  BY <1>9, <1>10
<1>12. PICK c : c = d.root[i].cluster
  OBVIOUS
<1>13. d.root[i].status = "used"
  BY <1>9, <1>10, <1>11
<1>14. fat16_read(d, c, size, nmemb) =
          [res |-> nmemb, data |-> [j \in 1 .. size * nmemb |-> FileByte(d, c, j - 1)]]
  BY <1>12, <1>13, WholeRead
<1> QED
  BY <1>8, <1>10, <1>11, <1>12, <1>14

\* Through a good descriptor a read within the file's first cluster, in one part
\* or in whole sectors, returns the file's bytes (fread, fat16_read,
\* fat16_read_internal, diskstreamer_read).
THEOREM ReadsReturnTheFile == LoaderSpec => []ReadReturnsFile
<1>1. LoaderInit => ReadReturnsFile
  BY DEF LoaderInit, Init, ReadReturnsFile
<1>2. ReadReturnsFile /\ LoaderInv /\ [LoaderNext]_loaderVars => ReadReturnsFile'
  <2> SUFFICES ASSUME ReadReturnsFile, LoaderInv, [LoaderNext]_loaderVars PROVE ReadReturnsFile'
    OBVIOUS
  <2>1. FilesInv /\ TypeOK
    BY DEF LoaderInv, FilesInv
  <2>2. CASE DiskInit
    BY <2>2 DEF DiskInit, ReadReturnsFile
  <2>3. CASE \E path, mode : path.parts \in Seq(Range(path.parts)) /\ fopen(path, mode)
    <3>1. ret'.op = "open"
      BY <2>1, <2>3, OpenStep
    <3> QED
      BY <3>1 DEF ReadReturnsFile
  <2>4. CASE \E size \in Nat, nmemb \in Nat, fd \in 0 .. MaxFd : fread(size, nmemb, fd)
    BY <2>1, <2>4, ReadStep
  <2>5. CASE UNCHANGED <<img, filesystem, file_descriptors, ret>> \/ UNCHANGED vars
    BY <2>5 DEF vars, ReadReturnsFile, file_get_descriptor
  <2> QED
    BY <2>2, <2>3, <2>4, <2>5, FileSteps
<1> QED
  BY <1>1, <1>2, LoaderInvariance, PTL DEF LoaderSpec

-----------------------------------------------------------------------------
(* Batch scripts *)

\* A text with an end.
IsText(d) == d \in Seq(Range(d)) /\ \E i \in DOMAIN d : d[i] = NUL

\* The line starts strtok has passed when it goes on at next.
Done(d, next) == IF next = NULL THEN LineStarts(d) ELSE {i \in LineStarts(d) : i < next}

\* How far a script has come: strtok goes on where a line begins, or has come to
\* the end, and the lines that were run are those before.
Reading(d, next, r) ==
  /\ IsText(d)
  /\ next = NULL \/ (next \in 1 .. TextEnd(d) /\ (next = 1 \/ d[next - 1] \in {CR, LF}))
  /\ r \in Seq(Range(r)) /\ Len(r) = Cardinality(Done(d, next))
  /\ \A k \in 1 .. Len(r) : r[k] = Lines(d)[k]

\* The first position from i on that a test picks out.
LEMMA FirstAt ==
  ASSUME NEW n \in Nat, NEW i \in Nat, NEW P, NEW m, m = Min({j \in i .. n : j \in P}),
         \E j \in i .. n : j \in P
  PROVE  m \in i .. n /\ m \in P /\ \A j \in i .. m - 1 : j \notin P
<1> DEFINE S == {j \in i .. n : j \in P}
<1>1. S \subseteq Nat /\ S # {}
  OBVIOUS
<1>2. m \in S /\ \A y \in S : m <= y
  <2> HIDE DEF S
  <2>1. m = Min(S)
    BY DEF S
  <2> QED
    BY <1>1, <2>1, MinOf
<1>3. ASSUME NEW j \in i .. m - 1 PROVE j \notin P
  <2>1. j \in i .. n /\ ~(m <= j)
    BY <1>2
  <2> QED
    BY <1>2, <2>1
<1> QED
  BY <1>2, <1>3

\* Where a text ends.
LEMMA TextEnds ==
  ASSUME NEW d, IsText(d)
  PROVE  /\ TextEnd(d) \in 1 .. Len(d) /\ Len(d) \in Nat /\ DOMAIN d = 1 .. Len(d)
         /\ d[TextEnd(d)] = NUL /\ \A j \in 1 .. TextEnd(d) - 1 : d[j] # NUL
<1>1. PICK n \in Nat : n = Len(d) /\ DOMAIN d = 1 .. n
  BY DEF IsText
<1> DEFINE S == {j \in DOMAIN d : d[j] = NUL}
<1>2. S \subseteq Nat /\ S # {}
  BY <1>1 DEF IsText
<1>3. PICK m : m = TextEnd(d)
  OBVIOUS
<1>4. m \in S /\ \A y \in S : m <= y
  <2>1. m = Min(S)
    BY <1>3 DEF TextEnd
  <2> HIDE DEF S
  <2> QED
    BY <1>2, <2>1, MinOf
<1>5. m \in 1 .. n /\ d[m] = NUL
  BY <1>1, <1>4
<1>6. ASSUME NEW j \in 1 .. m - 1 PROVE d[j] # NUL
  <2>1. j \in DOMAIN d /\ ~(m <= j)
    BY <1>1, <1>5
  <2> QED
    BY <1>4, <2>1
<1> QED
  BY <1>1, <1>3, <1>5, <1>6

\* Where strtok's token begins.
LEMMA TokenStart ==
  ASSUME NEW d, IsText(d), NEW next \in 1 .. TextEnd(d),
         NEW start, start = Min({j \in next .. Len(d) : d[j] \notin {CR, LF}})
  PROVE  /\ start \in next .. TextEnd(d) /\ d[start] \notin {CR, LF}
         /\ \A j \in next .. start - 1 : d[j] \in {CR, LF}
<1>1. PICK n \in Nat, e \in Nat : e \in 1 .. n /\ n = Len(d) /\ e = TextEnd(d) /\ d[e] = NUL
  BY TextEnds
<1> DEFINE P == {j \in 1 .. n : d[j] \notin {CR, LF}}
<1>2. next \in Nat /\ {j \in next .. n : j \in P} = {j \in next .. n : d[j] \notin {CR, LF}}
  BY <1>1
<1>3. e \in next .. n /\ e \in P
  BY <1>1 DEF NUL, CR, LF
<1>4. start \in next .. n /\ start \in P /\ \A j \in next .. start - 1 : j \notin P
  <2>1. start = Min({j \in next .. n : j \in P})
    BY <1>1, <1>2
  <2> HIDE DEF P
  <2> QED
    BY <1>2, <1>3, <2>1, FirstAt
<1>5. start <= e
  BY <1>1, <1>3, <1>4
<1>6. \A j \in next .. start - 1 : j \in 1 .. n
  BY <1>1, <1>4
<1> QED
  BY <1>1, <1>4, <1>5, <1>6

\* Where it ends.
LEMMA TokenEnd ==
  ASSUME NEW d, IsText(d), NEW start \in 1 .. TextEnd(d), d[start] \notin {CR, LF},
         d[start] # NUL, NEW end, end = Min({j \in start .. Len(d) : d[j] \in {CR, LF, NUL}})
  PROVE  /\ end \in start + 1 .. TextEnd(d) /\ d[end] \in {CR, LF, NUL}
         /\ \A j \in start .. end - 1 : d[j] \notin {CR, LF, NUL}
<1>1. PICK n \in Nat, e \in Nat : e \in 1 .. n /\ n = Len(d) /\ e = TextEnd(d) /\ d[e] = NUL
  BY TextEnds
<1> DEFINE P == {j \in 1 .. n : d[j] \in {CR, LF, NUL}}
<1>2. start \in Nat /\ {j \in start .. n : j \in P} = {j \in start .. n : d[j] \in {CR, LF, NUL}}
  BY <1>1
<1>3. e \in start .. n /\ e \in P
  BY <1>1
<1>4. end \in start .. n /\ end \in P /\ \A j \in start .. end - 1 : j \notin P
  <2>1. end = Min({j \in start .. n : j \in P})
    BY <1>1, <1>2
  <2> HIDE DEF P
  <2> QED
    BY <1>2, <1>3, <2>1, FirstAt
<1>5. end <= e /\ end # start
  BY <1>1, <1>3, <1>4
<1>6. \A j \in start .. end - 1 : j \in 1 .. n
  BY <1>1, <1>4
<1> QED
  BY <1>1, <1>4, <1>5, <1>6

\* Where the spaces in front of it do.
LEMMA SpacesEnd ==
  ASSUME NEW d, IsText(d), NEW start \in 1 .. TextEnd(d), NEW end \in start .. TextEnd(d),
         d[end] \in {CR, LF, NUL}, NEW first, first = Min({j \in start .. Len(d) : d[j] \notin {SP}})
  PROVE  /\ first \in start .. end /\ d[first] # SP
         /\ \A j \in start .. first - 1 : d[j] = SP
<1>1. PICK n \in Nat, e \in Nat : e \in 1 .. n /\ n = Len(d) /\ e = TextEnd(d)
  BY TextEnds
<1> DEFINE P == {j \in 1 .. n : d[j] \notin {SP}}
<1>2. start \in Nat /\ {j \in start .. n : j \in P} = {j \in start .. n : d[j] \notin {SP}}
  BY <1>1
<1>3. end \in start .. n /\ end \in P
  <2>1. end \in start .. n /\ end \in 1 .. n
    BY <1>1
  <2>2. d[end] # SP
    BY DEF NUL, CR, LF, SP
  <2> QED
    BY <2>1, <2>2
<1>4. first \in start .. n /\ first \in P /\ \A j \in start .. first - 1 : j \notin P
  <2>1. first = Min({j \in start .. n : j \in P})
    BY <1>1, <1>2
  <2> HIDE DEF P
  <2> QED
    BY <1>2, <1>3, <2>1, FirstAt
<1>5. first <= end
  BY <1>1, <1>3, <1>4
<1>6. \A j \in start .. first - 1 : j \in 1 .. n
  BY <1>1, <1>4
<1> QED
  BY <1>1, <1>4, <1>5, <1>6

\* strtok passes the start of its token's line, and no other.
LEMMA StartsPassed ==
  ASSUME NEW d, IsText(d), NEW next \in 1 .. TextEnd(d), next = 1 \/ d[next - 1] \in {CR, LF},
         NEW start \in next .. TextEnd(d), \A j \in next .. start - 1 : d[j] \in {CR, LF},
         NEW end \in start + 1 .. TextEnd(d), d[end] \in {CR, LF, NUL},
         \A j \in start .. end - 1 : d[j] \notin {CR, LF, NUL},
         NEW first \in start .. end, d[first] # SP, \A j \in start .. first - 1 : d[j] = SP
  PROVE  \A i \in next .. end : i \in LineStarts(d) <=> i = first /\ first < end
<1>1. PICK e \in Nat : e = TextEnd(d) /\ d[e] = NUL /\ next \in 1 .. e
  BY TextEnds
<1>2. next \in Nat /\ start \in Nat /\ end \in Nat /\ first \in Nat
  BY <1>1
<1>3. ASSUME first < end PROVE first \in LineStarts(d)
  <2>1. d[first] \notin {CR, LF, SP} /\ first \in 1 .. TextEnd(d) - 1
    BY <1>1, <1>3
  <2>2. start - 1 \in 0 .. first - 1 /\ (start - 1) + 1 = start
    BY <1>1, <1>2
  <2>3. start - 1 = 0 \/ d[start - 1] \in {CR, LF}
    <3>1. CASE start = next
      BY <1>2, <3>1
    <3>2. CASE start # next
      <4>1. start - 1 \in next .. start - 1
        BY <1>1, <1>2, <3>2
      <4> QED
        BY <4>1
    <3> QED
      BY <3>1, <3>2
  <2>4. \A k \in (start - 1) + 1 .. first - 1 : d[k] = SP
    BY <2>2
  <2> QED
    BY <2>1, <2>2, <2>3, <2>4, Zenon DEF LineStarts
<1>4. ASSUME NEW i \in next .. end, i \in LineStarts(d) PROVE i = first /\ first < end
  <2>1. i \in 1 .. e - 1 /\ d[i] \notin {CR, LF, SP}
    BY <1>1, <1>4 DEF LineStarts
  <2>2. PICK j \in 0 .. i - 1 : (j = 0 \/ d[j] \in {CR, LF}) /\ \A k \in j + 1 .. i - 1 : d[k] = SP
    BY <1>4 DEF LineStarts
  <2>3. start <= i
    <3>1. ~(i \in next .. start - 1)
      BY <2>1
    <3> QED
      BY <1>2, <3>1
  <2>4. first <= i
    <3>1. ~(i \in start .. first - 1)
      BY <2>1
    <3> QED
      BY <1>2, <2>3, <3>1
  <2>5. i # end
    <3>1. i = end => d[end] = NUL
      BY <2>1
    <3>2. \A k \in 1 .. e - 1 : d[k] # NUL
      BY <1>1, TextEnds
    <3> QED
      BY <2>1, <3>1, <3>2
  <2>6. i < end
    BY <1>2, <2>5
  <2>7. i = first
    <3> SUFFICES ASSUME first < i PROVE FALSE
      BY <1>2, <2>4
    <3>1. ~(first \in j + 1 .. i - 1)
      BY <2>2
    <3>2. first <= j
      BY <1>2, <3>1
    <3>3. j \in start .. end - 1 /\ j # 0
      BY <1>1, <1>2, <2>6, <3>2
    <3> QED
      BY <2>2, <3>3
  <2> QED
    BY <2>6, <2>7
<1> QED
  BY <1>3, <1>4

\* Of finitely many numbers the one with n of them up to it is the n-th.
LEMMA RankFinds ==
  ASSUME NEW S, IsFiniteSet(S), S \subseteq Nat, NEW x \in S, NEW n, n = Cardinality({j \in S : j <= x})
  PROVE  (CHOOSE i \in S : Cardinality({j \in S : j <= i}) = n) = x
<1> DEFINE UpTo(i) == {j \in S : j <= i}
<1>1. ASSUME NEW i \in S, NEW k \in S, i < k PROVE Cardinality(UpTo(i)) # Cardinality(UpTo(k))
  <2>1. UpTo(i) \subseteq UpTo(k) /\ k \in UpTo(k) /\ k \notin UpTo(i) /\ UpTo(k) \subseteq S
    <3>1. \A j \in S : j <= i => j <= k
      <4>1. \A j \in S : j \in Nat
        OBVIOUS
      <4> QED
        BY <1>1, <4>1
    <3>2. k <= k /\ ~(k <= i)
      BY <1>1
    <3> QED
      BY <3>1, <3>2, Zenon
  <2> HIDE DEF UpTo
  <2>2. IsFiniteSet(UpTo(k))
    BY <2>1, FS_Subset
  <2>3. UpTo(i) # UpTo(k)
    BY <2>1
  <2> QED
    BY <2>1, <2>2, <2>3, FS_Subset
<1>2. ASSUME NEW i \in S, Cardinality(UpTo(i)) = n PROVE i = x
  <2>1. i \in Nat /\ x \in Nat /\ (i < x \/ x < i \/ i = x)
    OBVIOUS
  <2> HIDE DEF UpTo
  <2> QED
    BY <1>1, <1>2, <2>1 DEF UpTo
<1>3. Cardinality(UpTo(x)) = n
  OBVIOUS
<1> QED
  BY <1>2, <1>3

\* The starts of lines are finitely many positions before the end.
LEMMA StartsAre ==
  ASSUME NEW d, IsText(d)
  PROVE  /\ LineStarts(d) \subseteq 1 .. TextEnd(d) - 1 /\ LineStarts(d) \subseteq Nat
         /\ IsFiniteSet(LineStarts(d)) /\ Cardinality(LineStarts(d)) \in Nat
         /\ \A S \in SUBSET LineStarts(d) :
               /\ IsFiniteSet(S) /\ Cardinality(S) \in Nat
               /\ Cardinality(S) <= Cardinality(LineStarts(d))
               /\ Cardinality(S) = Cardinality(LineStarts(d)) => S = LineStarts(d)
<1>1. PICK e \in Nat : e = TextEnd(d) /\ e - 1 \in Int
  BY TextEnds
<1>2. LineStarts(d) \subseteq 1 .. e - 1
  BY <1>1 DEF LineStarts
<1>3. IsFiniteSet(1 .. e - 1)
  BY <1>1, FS_Interval
<1>4. IsFiniteSet(LineStarts(d)) /\ Cardinality(LineStarts(d)) \in Nat
  BY <1>2, <1>3, FS_Subset, FS_CardinalityType
<1>5. ASSUME NEW S \in SUBSET LineStarts(d)
      PROVE  /\ IsFiniteSet(S) /\ Cardinality(S) \in Nat
             /\ Cardinality(S) <= Cardinality(LineStarts(d))
             /\ Cardinality(S) = Cardinality(LineStarts(d)) => S = LineStarts(d)
  BY <1>4, FS_Subset, FS_CardinalityType
<1> QED
  BY <1>1, <1>2, <1>4, <1>5

\* The line at position k of Lines.
LEMMA LineIs ==
  ASSUME NEW d, IsText(d), NEW x \in LineStarts(d),
         NEW n \in Nat, n = Cardinality({j \in LineStarts(d) : j <= x})
  PROVE  /\ n \in 1 .. Cardinality(LineStarts(d))
         /\ Lines(d)[n] = LineAt(d, x)
<1> DEFINE S == LineStarts(d)
<1>1. /\ S \subseteq Nat /\ IsFiniteSet(S) /\ Cardinality(S) \in Nat
      /\ \A T \in SUBSET S : /\ IsFiniteSet(T) /\ Cardinality(T) \in Nat
                             /\ Cardinality(T) <= Cardinality(S)
  BY StartsAre
<1>2. {j \in S : j <= x} \in SUBSET S /\ x \in {j \in S : j <= x}
  BY <1>1
<1>3. n # 0
  BY <1>1, <1>2, FS_EmptySet
<1>4. n \in 1 .. Cardinality(S)
  BY <1>1, <1>2, <1>3
<1>5. (CHOOSE i \in S : Cardinality({j \in S : j <= i}) = n) = x
  <2> HIDE DEF S
  <2>1. x \in S /\ n = Cardinality({j \in S : j <= x})
    BY DEF S
  <2> QED
    BY <1>1, <2>1, RankFinds
<1>6. Lines(d)[n] = LineAt(d, CHOOSE i \in S : Cardinality({j \in S : j <= i}) = n)
  BY <1>4, Zenon DEF Lines
<1> QED
  BY <1>4, <1>5, <1>6

\* The next token lies from start to before end, and its text begins at first.
TokenAt(d, next, start, end, first) ==
  /\ start \in next .. TextEnd(d) /\ \A j \in next .. start - 1 : d[j] \in {CR, LF}
  /\ end \in start + 1 .. TextEnd(d) /\ d[end] \in {CR, LF, NUL}
  /\ \A j \in start .. end - 1 : d[j] \notin {CR, LF, NUL}
  /\ first \in start .. end /\ d[first] # SP /\ \A j \in start .. first - 1 : d[j] = SP

\* What strtok and the search for the first character compute.
Searched(d, next, start, end, first) ==
  /\ start = Min({j \in next .. Len(d) : d[j] \notin {CR, LF}})
  /\ end   = Min({j \in start .. Len(d) : d[j] \in {CR, LF, NUL}})
  /\ first = Min({j \in start .. Len(d) : d[j] \notin {SP}})

\* They compute the next token.
LEMMA TokenFound ==
  ASSUME NEW d, IsText(d), NEW next \in 1 .. TextEnd(d), NEW start, NEW end, NEW first,
         Searched(d, next, start, end, first), d[start] # NUL
  PROVE  TokenAt(d, next, start, end, first)
<1>1. /\ start \in next .. TextEnd(d) /\ d[start] \notin {CR, LF}
      /\ \A j \in next .. start - 1 : d[j] \in {CR, LF}
  BY TokenStart DEF Searched
<1>2. TextEnd(d) \in Nat
  BY TextEnds
<1>3. start \in 1 .. TextEnd(d)
  BY <1>1, <1>2
<1>4. /\ end \in start + 1 .. TextEnd(d) /\ d[end] \in {CR, LF, NUL}
      /\ \A j \in start .. end - 1 : d[j] \notin {CR, LF, NUL}
  BY <1>1, <1>3, TokenEnd DEF Searched
<1>5. end \in start .. TextEnd(d)
  BY <1>2, <1>3, <1>4
<1>6. first \in start .. end /\ d[first] # SP /\ \A j \in start .. first - 1 : d[j] = SP
  <2>1. d[end] \in {CR, LF, NUL}
    BY <1>4
  <2>2. first = Min({j \in start .. Len(d) : d[j] \notin {SP}})
    BY Zenon DEF Searched
  <2> QED
    BY <1>3, <1>5, <2>1, <2>2, SpacesEnd
<1> QED
  BY <1>1, <1>4, <1>6, Zenon DEF TokenAt

\* Behind the token, strtok has passed its line's start, if it has one, more.
LEMMA TokenPassed ==
  ASSUME NEW d, IsText(d), NEW next \in 1 .. TextEnd(d), next = 1 \/ d[next - 1] \in {CR, LF},
         NEW start, NEW end, NEW first, TokenAt(d, next, start, end, first),
         NEW next2, d[end] = NUL => next2 = NULL, d[end] # NUL => next2 = end + 1
  PROVE  /\ next2 = NULL \/ (next2 \in 1 .. TextEnd(d) /\ d[next2 - 1] \in {CR, LF})
         /\ first = end => Done(d, next2) = Done(d, next)
         /\ first # end => /\ first \in LineStarts(d) /\ first \notin Done(d, next) /\ first < end
                           /\ Done(d, next2) = Done(d, next) \cup {first}
                           /\ Done(d, next2) = {j \in LineStarts(d) : j <= first}
         /\ next \in Nat /\ first \in Nat /\ end \in Nat /\ start <= first /\ start \in Nat
<1> DEFINE S == LineStarts(d)
<1>1. PICK e \in Nat : e = TextEnd(d) /\ d[e] = NUL /\ \A j \in 1 .. e - 1 : d[j] # NUL
  BY TextEnds
<1>2. /\ start \in next .. e /\ end \in start + 1 .. e /\ first \in start .. end
      /\ d[end] \in {CR, LF, NUL}
  BY <1>1 DEF TokenAt
<1>3. /\ next \in Nat /\ start \in Nat /\ end \in Nat /\ first \in Nat /\ 1 <= next
      /\ next <= first /\ first <= end /\ end <= e /\ start <= first
  BY <1>1, <1>2
<1>4. \A i \in next .. end : i \in S <=> i = first /\ first < end
  BY StartsPassed DEF TokenAt
<1>5. \A i \in S : i \in Nat /\ i <= e - 1
  BY <1>1, StartsAre
<1> HIDE DEF S
<1>6. \/ next2 = NULL /\ end = e
      \/ next2 = end + 1 /\ next2 \in 1 .. e /\ d[next2 - 1] \in {CR, LF} /\ next2 # NULL
  <2>1. CASE d[end] = NUL
    <3>1. ~(end \in 1 .. e - 1)
      BY <1>1, <2>1
    <3> QED
      BY <1>3, <2>1, <3>1
  <2>2. CASE d[end] # NUL
    <3>1. end # e /\ next2 = end + 1 /\ d[end] \in {CR, LF}
      BY <1>1, <1>2, <2>2
    <3>2. next2 - 1 = end /\ next2 \in 1 .. e /\ next2 # 0
      BY <1>3, <3>1
    <3> QED
      BY <3>1, <3>2 DEF NULL
  <2> QED
    BY <2>1, <2>2
<1>7. next # NULL
  BY <1>3 DEF NULL
<1>8. Done(d, next) = {i \in S : i < next}
  BY <1>7 DEF Done, S
<1>9. Done(d, next2) = {i \in S : i <= end}
  <2>1. CASE next2 = NULL /\ end = e
    <3>1. \A i \in S : i <= end
      BY <1>5, <2>1
    <3> QED
      BY <2>1, <3>1 DEF Done, S
  <2>2. CASE next2 = end + 1 /\ next2 # NULL
    <3>1. \A i \in S : i < next2 <=> i <= end
      BY <1>3, <1>5, <2>2
    <3> QED
      BY <2>2, <3>1 DEF Done, S
  <2> QED
    BY <1>6, <2>1, <2>2
<1>10. ASSUME NEW i \in S PROVE i <= end <=> i < next \/ (i = first /\ first < end)
  <2>1. i \in Nat
    BY <1>5
  <2>2. CASE i < next
    BY <1>3, <2>1, <2>2
  <2>3. CASE ~(i < next)
    <3>1. i <= end => i \in next .. end
      BY <1>3, <2>1, <2>3
    <3> QED
      BY <1>3, <1>4, <2>1, <2>3, <3>1
  <2> QED
    BY <2>2, <2>3
<1>11. ASSUME first = end PROVE Done(d, next2) = Done(d, next)
  <2>1. ~(first < end)
    BY <1>3, <1>11
  <2> QED
    BY <1>8, <1>9, <1>10, <2>1, Zenon
<1>12. ASSUME first # end
       PROVE  /\ first \in S /\ first \notin Done(d, next) /\ first < end
              /\ Done(d, next2) = Done(d, next) \cup {first}
              /\ Done(d, next2) = {j \in S : j <= first}
  <2>1. first < end /\ first \in next .. end /\ ~(first < next)
    BY <1>3, <1>12
  <2>2. first \in S
    BY <1>4, <2>1
  <2>3. \A i \in S : i <= end <=> i < next \/ i = first
    BY <1>10, <2>1
  <2>4. \A i \in S : i <= end <=> i <= first
    BY <1>3, <1>5, <2>1, <2>3
  <2>5. Done(d, next2) = Done(d, next) \cup {first}
    BY <1>8, <1>9, <2>2, <2>3, Zenon
  <2>6. Done(d, next2) = {j \in S : j <= first}
    BY <1>9, <2>4, Zenon
  <2> QED
    BY <1>8, <2>1, <2>2, <2>5, <2>6
<1> QED
  BY <1>1, <1>3, <1>6, <1>11, <1>12 DEF S

\* The line at a token's first is the token.
LEMMA LineOfToken ==
  ASSUME NEW d, IsText(d), NEW next \in 1 .. TextEnd(d),
         NEW start \in Nat, NEW end \in Nat, NEW first \in Nat,
         TokenAt(d, next, start, end, first), first < end
  PROVE  /\ LineAt(d, first) = SubSeq(d, first, end - 1)
         /\ SubSeq(d, first, end - 1) # <<>>
<1> DEFINE T == {k \in first .. TextEnd(d) : d[k] \in {CR, LF, NUL}}
<1>1. /\ TextEnd(d) \in Nat /\ Len(d) \in Nat /\ TextEnd(d) <= Len(d) /\ d \in Seq(Range(d))
  BY TextEnds DEF IsText
<1>2. /\ start \in next .. TextEnd(d) /\ end \in start + 1 .. TextEnd(d) /\ first \in start .. end
      /\ d[end] \in {CR, LF, NUL} /\ \A j \in start .. end - 1 : d[j] \notin {CR, LF, NUL}
  BY DEF TokenAt
<1>3. end \in T /\ T \subseteq Nat
  BY <1>1, <1>2
<1>4. ASSUME NEW k \in T PROVE end <= k
  <2>1. k \in Nat /\ first <= k /\ k \notin start .. end - 1
    BY <1>1, <1>2, <1>4
  <2> QED
    BY <1>2, <2>1
<1>5. Min(T) = end
  <2>1. PICK t : t = Min(T)
    OBVIOUS
  <2> HIDE DEF T
  <2>2. t \in T /\ t <= end
    BY <1>3, <2>1, MinOf
  <2>3. end <= t /\ t \in Nat
    BY <1>3, <1>4, <2>2
  <2> QED
    BY <2>1, <2>2, <2>3
<1>6. PICK b \in Int : b = end - 1 /\ first <= b /\ b <= Len(d) /\ 1 <= first
  BY <1>1, <1>2
<1>7. Len(SubSeq(d, first, b)) = b - first + 1 /\ b - first + 1 # 0
  BY <1>1, <1>6
<1>8. SubSeq(d, first, b) # <<>>
  <2>1. Len(<<>>) = 0
    OBVIOUS
  <2> QED
    BY <1>7, <2>1
<1>9. LineAt(d, first) = SubSeq(d, first, Min(T) - 1)
  BY DEF LineAt
<1> QED
  BY <1>5, <1>6, <1>8, <1>9

\* r2 is r and behind it x.
Longer(r, x, r2) == /\ r2 \in Seq(Range(r2)) /\ Len(r2) = Len(r) + 1 /\ r2[Len(r) + 1] = x
                    /\ \A i \in 1 .. Len(r) : r2[i] = r[i]

\* That is what Append makes.
LEMMA OneMore ==
  ASSUME NEW r, r \in Seq(Range(r)), NEW x
  PROVE  Longer(r, x, Append(r, x))
<1>1. PICK D : D = Range(r) \cup {x}
  OBVIOUS
<1>2. r \in Seq(D) /\ x \in D
  BY <1>1, SeqMonotonic
<1>3. PICK r2 : r2 = Append(r, x)
  OBVIOUS
<1>4. /\ r2 \in Seq(D) /\ Len(r2) = Len(r) + 1 /\ r2[Len(r) + 1] = x
      /\ \A i \in 1 .. Len(r) : r2[i] = r[i]
  BY <1>2, <1>3, AppendProperties
<1>5. r2 \in Seq(Range(r2))
  BY <1>4 DEF Range
<1> QED
  BY <1>3, <1>4, <1>5, Zenon DEF Longer

\* A line is run.
LEMMA LineRun ==
  ASSUME NEW d, NEW next, NEW r, Reading(d, next, r), NEW first, first \in LineStarts(d),
         first \notin Done(d, next), NEW next2, Done(d, next2) = Done(d, next) \cup {first},
         Done(d, next2) = {j \in LineStarts(d) : j <= first},
         next2 = NULL \/ (next2 \in 1 .. TextEnd(d) /\ d[next2 - 1] \in {CR, LF}),
         NEW text, LineAt(d, first) = text, NEW r2, r2 = Append(r, text)
  PROVE  Reading(d, next2, r2)
<1>1. IsText(d)
  BY DEF Reading
<1>2. PICK m \in Nat : /\ m = Len(r) /\ m = Cardinality(Done(d, next)) /\ r \in Seq(Range(r))
                       /\ \A k \in 1 .. m : r[k] = Lines(d)[k]
  BY DEF Reading
<1>3. PICK k \in Nat : k = m + 1
  OBVIOUS
<1>4. k = Cardinality(Done(d, next2))
  <2>1. Done(d, next) \subseteq LineStarts(d)
    BY DEF Done
  <2>2. IsFiniteSet(Done(d, next))
    BY <1>1, <2>1, StartsAre, FS_Subset
  <2>3. Cardinality(Done(d, next) \cup {first}) = Cardinality(Done(d, next)) + 1
    BY <2>2, FS_AddElement
  <2> QED
    BY <1>2, <1>3, <2>3
<1>5. Lines(d)[k] = text
  BY <1>1, <1>4, LineIs
<1>6. r2 \in Seq(Range(r2)) /\ Len(r2) = k /\ r2[k] = text /\ \A i \in 1 .. m : r2[i] = r[i]
  <2>1. Longer(r, text, Append(r, text))
    BY <1>2, OneMore, Zenon
  <2>2. Len(r) = m /\ Len(r) + 1 = k
    BY <1>2, <1>3
  <2> QED
    BY <2>1, <2>2, Zenon DEF Longer
<1>7. ASSUME NEW i \in 1 .. k PROVE r2[i] = Lines(d)[i]
  <2>1. i \in 1 .. m \/ i = k
    BY <1>3
  <2> QED
    BY <1>2, <1>5, <1>6, <2>1
<1> QED
  BY <1>1, <1>4, <1>6, <1>7, Zenon DEF Reading

\* A token is taken, and run if it is a line: what was run are the lines before.
LEMMA TokenTaken ==
  ASSUME NEW d, NEW next, NEW r, Reading(d, next, r), next # NULL,
         NEW start, NEW end, NEW first, TokenAt(d, next, start, end, first),
         NEW text, text = SubSeq(d, first, end - 1),
         NEW next2, d[end] = NUL => next2 = NULL, d[end] # NUL => next2 = end + 1,
         NEW r2, text = <<>> => r2 = r, text # <<>> => r2 = Append(r, text)
  PROVE  Reading(d, next2, r2)
<1>1. IsText(d) /\ next \in 1 .. TextEnd(d) /\ (next = 1 \/ d[next - 1] \in {CR, LF})
  BY DEF Reading
<1>2. PICK m \in Nat : /\ m = Len(r) /\ m = Cardinality(Done(d, next)) /\ r \in Seq(Range(r))
                       /\ \A k \in 1 .. m : r[k] = Lines(d)[k]
  BY DEF Reading
<1>3. /\ next2 = NULL \/ (next2 \in 1 .. TextEnd(d) /\ d[next2 - 1] \in {CR, LF})
      /\ first = end => Done(d, next2) = Done(d, next)
      /\ first # end => /\ first \in LineStarts(d) /\ first \notin Done(d, next) /\ first < end
                        /\ Done(d, next2) = Done(d, next) \cup {first}
                        /\ Done(d, next2) = {j \in LineStarts(d) : j <= first}
      /\ next \in Nat /\ first \in Nat /\ end \in Nat /\ start <= first /\ start \in Nat
  BY <1>1, TokenPassed, Zenon
<1>4. CASE first = end
  <2>1. text = <<>>
    <3>1. ~(first <= end - 1)
      BY <1>3, <1>4
    <3> QED
      BY <1>1, <1>3, <3>1 DEF IsText
  <2>2. r2 = r /\ Done(d, next2) = Done(d, next)
    BY <1>3, <1>4, <2>1, Zenon
  <2> QED
    BY <1>1, <1>3, <2>2, Zenon DEF Reading
<1>5. CASE first # end
  <2>1. /\ first \in LineStarts(d) /\ first \notin Done(d, next) /\ first < end
        /\ Done(d, next2) = Done(d, next) \cup {first}
        /\ Done(d, next2) = {j \in LineStarts(d) : j <= first}
    BY <1>3, <1>5, Zenon
  <2>2. LineAt(d, first) = text /\ text # <<>>
    <3>1. start \in Nat /\ end \in Nat /\ first \in Nat /\ first < end /\ next \in 1 .. TextEnd(d)
      BY <1>1, <1>3, <2>1, Zenon
    <3>2. /\ LineAt(d, first) = SubSeq(d, first, end - 1)
          /\ SubSeq(d, first, end - 1) # <<>>
      BY <1>1, <3>1, LineOfToken
    <3> QED
      BY <3>2, Zenon
  <2>3. r2 = Append(r, text)
    BY <2>2, Zenon
  <2>4. PICK x : x = text
    OBVIOUS
  <2>5. r2 = Append(r, x) /\ LineAt(d, first) = x
    BY <2>2, <2>3, <2>4, Zenon
  <2>6. next2 = NULL \/ (next2 \in 1 .. TextEnd(d) /\ d[next2 - 1] \in {CR, LF})
    BY <1>3, Zenon
  <2> QED
    BY <2>1, <2>5, <2>6, LineRun, Zenon
<1> QED
  BY <1>4, <1>5

\* When no token is left every line has been run.
LEMMA NoneLeft ==
  ASSUME NEW d, IsText(d), NEW next \in 1 .. TextEnd(d),
         d[Min({j \in next .. Len(d) : d[j] \notin {CR, LF}})] = NUL
  PROVE  Done(d, next) = LineStarts(d)
<1>1. PICK start : start = Min({j \in next .. Len(d) : d[j] \notin {CR, LF}})
  OBVIOUS
<1>2. /\ start \in next .. TextEnd(d) /\ d[start] = NUL
      /\ \A j \in next .. start - 1 : d[j] \in {CR, LF}
  BY <1>1, TokenStart
<1>3. PICK e \in Nat : e = TextEnd(d) /\ \A j \in 1 .. e - 1 : d[j] # NUL
  BY TextEnds
<1>4. next \in Nat /\ start = e
  <2>1. ~(start \in 1 .. e - 1)
    BY <1>2, <1>3
  <2> QED
    BY <1>2, <1>3, <2>1
<1>5. ASSUME NEW i \in LineStarts(d) PROVE i < next
  <2>1. i \in 1 .. e - 1 /\ d[i] \notin {CR, LF}
    BY <1>3, <1>5 DEF LineStarts
  <2>2. ~(i \in next .. e - 1)
    BY <1>2, <1>4, <2>1
  <2> QED
    BY <1>4, <2>1, <2>2
<1> QED
  BY <1>5 DEF Done

\* Two sequences are sequences over one set.
LEMMA SharedSeq ==
  ASSUME NEW A, NEW B, NEW a \in Seq(A), NEW b \in Seq(B)
  PROVE  \E D : a \in Seq(D) /\ b \in Seq(D)
<1>1. PICK D : D = A \cup B
  OBVIOUS
<1>2. A \subseteq D /\ B \subseteq D
  BY <1>1
<1> QED
  BY <1>2, SeqMonotonic

\* What was run is the beginning of the lines, and all of them in the end.
LEMMA ReadingShows ==
  ASSUME NEW d, NEW next, NEW r, Reading(d, next, r)
  PROVE  /\ Len(r) <= Len(Lines(d)) /\ r = SubSeq(Lines(d), 1, Len(r))
         /\ Done(d, next) = LineStarts(d) => r = Lines(d)
<1>1. IsText(d) /\ Done(d, next) \subseteq LineStarts(d)
  BY DEF Reading, Done
<1>2. PICK n \in Nat : n = Cardinality(LineStarts(d))
  BY <1>1, StartsAre
<1>3. PICK m \in Nat : /\ m = Len(r) /\ m = Cardinality(Done(d, next)) /\ r \in Seq(Range(r))
                       /\ \A k \in 1 .. m : r[k] = Lines(d)[k]
  BY DEF Reading
<1>4. m <= n /\ (Done(d, next) = LineStarts(d) => m = n)
  BY <1>1, <1>2, <1>3, StartsAre
<1>5. PICK L : L = Lines(d)
  OBVIOUS
<1>6. PICK F : L \in [1 .. n -> F]
  <2>1. DOMAIN L = 1 .. n /\ L = [k \in DOMAIN L |-> L[k]]
    BY <1>2, <1>5 DEF Lines
  <2>2. L \in [1 .. n -> Range(L)]
    BY <2>1 DEF Range
  <2> QED
    BY <2>2
<1>7. L \in Seq(F) /\ Len(L) = n
  BY <1>6
<1>8. PICK s : s = SubSeq(L, 1, m)
  OBVIOUS
<1>9. s \in Seq(F) /\ Len(s) = m /\ \A k \in 1 .. m : s[k] = L[k]
  BY <1>4, <1>7, <1>8
<1>10. r = s
  <2>1. \A k \in 1 .. m : r[k] = s[k]
    BY <1>3, <1>5, <1>9
  <2>2. PICK D : r \in Seq(D) /\ s \in Seq(D)
    BY <1>3, <1>9, SharedSeq
  <2> QED
    BY <1>3, <1>9, <2>1, <2>2, SeqEqual
<1>11. ASSUME m = n PROVE r = L
  <2>1. \A k \in 1 .. m : r[k] = L[k]
    BY <1>3, <1>5
  <2>2. PICK D : r \in Seq(D) /\ L \in Seq(D)
    BY <1>3, <1>7, SharedSeq
  <2> QED
    BY <1>3, <1>7, <1>11, <2>1, <2>2, SeqEqual
<1> QED
  BY <1>3, <1>4, <1>5, <1>7, <1>8, <1>10, <1>11

-----------------------------------------------------------------------------
(* Scripts inside scripts *)

\* A script whose place strtok has not lost has run as far as strtok has come.
GoodScript(s, t, r) ==
  /\ s = [data |-> s.data, busy |-> s.busy, robbed |-> s.robbed]
  /\ s.busy \in BOOLEAN /\ s.robbed \in BOOLEAN
  /\ ~s.busy => s = NoScript /\ r = <<>>
  /\ s.busy /\ ~s.robbed => Reading(s.data, t, r)

\* The scripts of those who wait, cs, and the innermost, s: strtok's place t is in
\* one of them at most.
GoodScripts(cs, s, t, r) ==
  /\ cs \in Seq(Range(cs))
  /\ GoodScript(s, t, r)
  /\ \A i \in 1 .. Len(cs) :
        /\ cs[i] = [pe |-> cs[i].pe, image |-> cs[i].image, script |-> cs[i].script, ran |-> cs[i].ran]
        /\ GoodScript(cs[i].script, t, cs[i].ran)
        /\ cs[i].script.busy /\ (s.busy \/ \E j \in i + 1 .. Len(cs) : cs[j].script.busy)
              => cs[i].script.robbed

\* A script is run from when it was read until it ends.
ScriptInv ==
  /\ GoodScripts(callers, script, nextToken, ran)
  /\ lpc \in {"idle", "script"} => ~script.busy

\* No script is no script.
LEMMA NoScriptIsGood == \A t : GoodScript(NoScript, t, <<>>) /\ ~NoScript.busy
BY DEF GoodScript, NoScript

\* One that waits is put behind the others,
LEMMA ScriptWaits ==
  ASSUME NEW cs, NEW s, NEW t, NEW r, GoodScripts(cs, s, t, r), NEW p, NEW m
  PROVE  GoodScripts(Append(cs, [pe |-> p, image |-> m, script |-> s, ran |-> r]), NoScript, t, <<>>)
<1>1. PICK c : c = [pe |-> p, image |-> m, script |-> s, ran |-> r]
  OBVIOUS
<1>2. /\ c = [pe |-> c.pe, image |-> c.image, script |-> c.script, ran |-> c.ran]
      /\ c.script = s /\ c.ran = r
  BY <1>1
<1>3. PICK cs2 : cs2 = Append(cs, c)
  OBVIOUS
<1>4. Longer(cs, c, cs2) /\ Len(cs) \in Nat
  BY <1>3, OneMore, LenProperties DEF GoodScripts
<1>5. PICK n \in Nat : n = Len(cs)
  BY <1>4
<1>6. /\ cs2 \in Seq(Range(cs2)) /\ Len(cs2) = n + 1 /\ cs2[n + 1] = c
      /\ \A i \in 1 .. n : cs2[i] = cs[i]
  BY <1>4, <1>5 DEF Longer
<1>7. GoodScript(NoScript, t, <<>>) /\ ~NoScript.busy
  BY NoScriptIsGood
<1>8. ASSUME NEW i \in 1 .. n + 1
      PROVE  /\ cs2[i] = [pe |-> cs2[i].pe, image |-> cs2[i].image,
                          script |-> cs2[i].script, ran |-> cs2[i].ran]
             /\ GoodScript(cs2[i].script, t, cs2[i].ran)
             /\ cs2[i].script.busy /\ (\E j \in i + 1 .. n + 1 : cs2[j].script.busy)
                   => cs2[i].script.robbed
  <2>1. CASE i = n + 1
    <3>1. i + 1 .. n + 1 = {}
      BY <2>1
    <3> QED
      BY <1>2, <1>6, <2>1, <3>1, Zenon DEF GoodScripts
  <2>2. CASE i # n + 1
    <3>1. i \in 1 .. n /\ cs2[i] = cs[i]
      BY <1>6, <2>2
    <3>2. ASSUME NEW j \in i + 1 .. n + 1, cs2[j].script.busy
          PROVE  s.busy \/ \E k \in i + 1 .. n : cs[k].script.busy
      <4>1. CASE j = n + 1
        BY <1>2, <1>6, <3>2, <4>1
      <4>2. CASE j # n + 1
        <5>1. j \in i + 1 .. n /\ j \in 1 .. n
          BY <4>2
        <5> QED
          BY <1>6, <3>2, <5>1
      <4> QED
        BY <4>1, <4>2
    <3>3. /\ cs[i] = [pe |-> cs[i].pe, image |-> cs[i].image, script |-> cs[i].script, ran |-> cs[i].ran]
          /\ GoodScript(cs[i].script, t, cs[i].ran)
          /\ cs[i].script.busy /\ (s.busy \/ \E j \in i + 1 .. n : cs[j].script.busy)
                => cs[i].script.robbed
      BY <1>5, <3>1, Zenon DEF GoodScripts
    <3> QED
      BY <3>1, <3>2, <3>3, Zenon
  <2> QED
    BY <2>1, <2>2
<1>9. GoodScripts(cs2, NoScript, t, <<>>)
  BY <1>6, <1>7, <1>8, Zenon DEF GoodScripts
<1> QED
  BY <1>1, <1>3, <1>9, Zenon

\* The last of the callers, and the others.
LEMMA TopOf ==
  ASSUME NEW cs, cs \in Seq(Range(cs)), cs # <<>>
  PROVE  /\ Len(cs) \in Nat \ {0} /\ Last(cs) = cs[Len(cs)]
         /\ Front(cs) \in Seq(Range(Front(cs))) /\ Len(Front(cs)) = Len(cs) - 1
         /\ \A i \in 1 .. Len(cs) - 1 : Front(cs)[i] = cs[i]
<1>1. PICK n \in Nat \ {0} : n = Len(cs)
  BY EmptySeq, LenProperties
<1>2. PICK f : f = Front(cs)
  OBVIOUS
<1>3. f = SubSeq(cs, 1, n - 1)
  BY <1>1, <1>2 DEF Front
<1>4. f \in Seq(Range(cs)) /\ Len(f) = n - 1 /\ \A i \in 1 .. n - 1 : f[i] = cs[i]
  BY <1>1, <1>3
<1>5. f \in Seq(Range(f))
  BY <1>4 DEF Range
<1> QED
  BY <1>1, <1>2, <1>4, <1>5 DEF Last

\* and goes on when the innermost is done; strtok's place may have moved if that
\* was a script.
LEMMA ScriptGoesOn ==
  ASSUME NEW cs, NEW s, NEW t, NEW r, GoodScripts(cs, s, t, r), cs # <<>>,
         NEW t2, s.busy \/ t2 = t
  PROVE  GoodScripts(Front(cs), Last(cs).script, t2, Last(cs).ran)
<1>1. cs \in Seq(Range(cs))
  BY DEF GoodScripts
<1>2. PICK n, f, c : n \in Nat \ {0} /\ n = Len(cs) /\ f = Front(cs) /\ c = Last(cs)
  BY <1>1, TopOf
<1> n \in Nat \ {0}
  BY <1>2
<1>3. /\ f \in Seq(Range(f)) /\ Len(f) = n - 1 /\ c = cs[n]
      /\ \A i \in 1 .. n - 1 : f[i] = cs[i]
  BY <1>1, <1>2, TopOf
<1>4. ASSUME NEW i \in 1 .. n
      PROVE  /\ cs[i] = [pe |-> cs[i].pe, image |-> cs[i].image, script |-> cs[i].script, ran |-> cs[i].ran]
             /\ GoodScript(cs[i].script, t, cs[i].ran)
             /\ cs[i].script.busy /\ (s.busy \/ \E j \in i + 1 .. n : cs[j].script.busy)
                   => cs[i].script.robbed
  BY <1>2, <1>4, Zenon DEF GoodScripts
<1>5. ASSUME NEW i \in 1 .. n PROVE GoodScript(cs[i].script, t2, cs[i].ran)
  <2>1. CASE t2 = t
    BY <1>4, <2>1
  <2>2. CASE s.busy
    BY <1>4, <2>2 DEF GoodScript
  <2> QED
    BY <2>1, <2>2
<1>6. ASSUME NEW i \in 1 .. n - 1
      PROVE  /\ f[i] = [pe |-> f[i].pe, image |-> f[i].image, script |-> f[i].script, ran |-> f[i].ran]
             /\ GoodScript(f[i].script, t2, f[i].ran)
             /\ f[i].script.busy /\ (c.script.busy \/ \E j \in i + 1 .. n - 1 : f[j].script.busy)
                   => f[i].script.robbed
  <2>1. i \in 1 .. n /\ f[i] = cs[i]
    BY <1>3
  <2>2. ASSUME c.script.busy \/ \E j \in i + 1 .. n - 1 : f[j].script.busy
        PROVE  \E j \in i + 1 .. n : cs[j].script.busy
    <3>1. CASE c.script.busy
      <4>1. n \in i + 1 .. n
        OBVIOUS
      <4> QED
        BY <1>3, <3>1, <4>1
    <3>2. ASSUME NEW j \in i + 1 .. n - 1, f[j].script.busy
          PROVE  \E k \in i + 1 .. n : cs[k].script.busy
      <4>1. j \in 1 .. n - 1 /\ j \in i + 1 .. n
        BY <3>2
      <4> QED
        BY <1>3, <3>2, <4>1
    <3> QED
      BY <2>2, <3>1, <3>2
  <2> QED
    BY <1>4, <1>5, <2>1, <2>2, Zenon
<1>7. n \in 1 .. n
  OBVIOUS
<1>8. GoodScript(c.script, t2, c.ran)
  BY <1>3, <1>5, <1>7
<1>9. GoodScripts(f, c.script, t2, c.ran)
  BY <1>3, <1>6, <1>8, Zenon DEF GoodScripts
<1> QED
  BY <1>2, <1>9

\* A script that begins takes strtok from all that wait,
LEMMA ScriptsRobbed ==
  ASSUME NEW cs, NEW s, NEW t, NEW r, GoodScripts(cs, s, t, r),
         NEW s2, NEW t2, NEW r2, GoodScript(s2, t2, r2),
         NEW cs2, cs2 = [i \in DOMAIN cs |-> [cs[i] EXCEPT !.script.robbed = cs[i].script.busy]]
  PROVE  /\ GoodScripts(cs2, s2, t2, r2)
         /\ Len(cs2) = Len(cs)
         /\ \A i \in 1 .. Len(cs) : cs2[i].pe = cs[i].pe /\ cs2[i].image = cs[i].image
<1>1. PICK n \in Nat : n = Len(cs) /\ DOMAIN cs = 1 .. n
  BY LenProperties DEF GoodScripts
<1>2. ASSUME NEW i \in 1 .. n
      PROVE  /\ cs2[i].pe = cs[i].pe /\ cs2[i].image = cs[i].image
             /\ cs2[i] = [pe |-> cs2[i].pe, image |-> cs2[i].image,
                          script |-> cs2[i].script, ran |-> cs2[i].ran]
             /\ GoodScript(cs2[i].script, t2, cs2[i].ran)
             /\ cs2[i].script.busy => cs2[i].script.robbed
  <2>1. PICK p, m, q, x : cs[i] = [pe |-> p, image |-> m, script |-> q, ran |-> x]
    BY <1>1 DEF GoodScripts
  <2>2. cs[i].script = q /\ cs[i].ran = x /\ cs[i].pe = p /\ cs[i].image = m
    BY <2>1
  <2>3. GoodScript(q, t, x)
    BY <1>1, <2>2 DEF GoodScripts
  <2>4. PICK d, b, o : b \in BOOLEAN /\ q = [data |-> d, busy |-> b, robbed |-> o]
    BY <2>3 DEF GoodScript
  <2>5. q.busy = b /\ q.data = d
    BY <2>4
  <2>6. cs2[i] = [cs[i] EXCEPT !.script.robbed = b]
    BY <1>1, <2>2, <2>5
  <2>7. [q EXCEPT !.robbed = b] = [data |-> d, busy |-> b, robbed |-> b]
    BY <2>4
  <2>8. PICK q2 : q2 = [data |-> d, busy |-> b, robbed |-> b]
    OBVIOUS
  <2>9. cs2[i] = [pe |-> p, image |-> m, script |-> q2, ran |-> x]
    <3>1. cs2[i] = [cs[i] EXCEPT !.script = [q EXCEPT !.robbed = b]]
      BY <2>2, <2>6
    <3>2. cs2[i] = [cs[i] EXCEPT !.script = q2]
      BY <2>7, <2>8, <3>1, Zenon
    <3> QED
      BY <2>1, <3>2
  <2>10. cs2[i].pe = p /\ cs2[i].image = m /\ cs2[i].script = q2 /\ cs2[i].ran = x
    BY <2>9
  <2>11. q2.data = d /\ q2.busy = b /\ q2.robbed = b
    BY <2>8
  <2>12. ~b => q2 = NoScript /\ x = <<>>
    <3> SUFFICES ASSUME ~b PROVE q2 = NoScript /\ x = <<>>
      OBVIOUS
    <3>1. q = NoScript /\ x = <<>>
      BY <2>3, <2>5 DEF GoodScript
    <3>2. d = <<>> /\ b = FALSE
      BY <2>5, <3>1 DEF NoScript
    <3> QED
      BY <2>8, <3>1, <3>2 DEF NoScript
  <2>13. GoodScript(q2, t2, x)
    BY <2>4, <2>8, <2>11, <2>12, Zenon DEF GoodScript
  <2> QED
    BY <2>2, <2>8, <2>9, <2>10, <2>11, <2>13, Zenon
<1>3. cs2 \in Seq(Range(cs2)) /\ Len(cs2) = n
  <2>1. DOMAIN cs2 = 1 .. n /\ cs2 = [i \in 1 .. n |-> cs2[i]]
    BY <1>1
  <2>2. cs2 \in [1 .. n -> Range(cs2)]
    BY <2>1 DEF Range
  <2> QED
    BY <2>2
<1>4. GoodScripts(cs2, s2, t2, r2)
  BY <1>2, <1>3, Zenon DEF GoodScripts
<1> QED
  BY <1>1, <1>2, <1>3, <1>4

\* and one that runs has it to itself.
LEMMA ScriptRuns ==
  ASSUME NEW cs, NEW s, NEW t, NEW r, GoodScripts(cs, s, t, r), s.busy,
         NEW t2, NEW r2, GoodScript(s, t2, r2)
  PROVE  GoodScripts(cs, s, t2, r2)
<1>1. ASSUME NEW i \in 1 .. Len(cs) PROVE GoodScript(cs[i].script, t2, cs[i].ran)
  <2>1. GoodScript(cs[i].script, t, cs[i].ran) /\ (cs[i].script.busy => cs[i].script.robbed)
    BY Zenon DEF GoodScripts
  <2> QED
    BY <2>1 DEF GoodScript
<1> QED
  BY <1>1, Zenon DEF GoodScripts

\* A script that was read begins with its first line.
LEMMA ScriptBegins ==
  ASSUME NEW t, t \in ScriptTexts, NEW tail, tail \in {<<NUL>>, <<"x", NUL>>}
  PROVE  Reading(t \o tail, 1, <<>>)
<1>1. PICK data : data = t \o tail
  OBVIOUS
<1> t \in Range(Scripts)
  BY DEF ScriptTexts, Range
<1>2. PICK D : t \in Seq(D) /\ tail \in Seq(D)
  <2>1. t \in Seq(Range(t))
    BY LoaderAssumption
  <2>2. PICK D : D = Range(t) \cup {NUL, "x"}
    OBVIOUS
  <2>3. t \in Seq(D)
    BY <2>1, <2>2, SeqMonotonic
  <2>4. NUL \in D /\ "x" \in D
    BY <2>2
  <2>5. <<NUL>> \in Seq(D) /\ <<"x", NUL>> \in Seq(D)
    BY <2>4
  <2>6. tail \in Seq(D)
    BY <2>5, Zenon
  <2> QED
    BY <2>3, <2>6
<1>3. PICK n \in Nat, m \in 1 .. 2 : n = Len(t) /\ m = Len(tail) /\ tail[m] = NUL
  BY <1>2
<1>4. data \in Seq(D) /\ Len(data) = n + m /\ data[n + m] = NUL
  BY <1>1, <1>2, <1>3
<1>5. data \in Seq(Range(data)) /\ n + m \in DOMAIN data
  BY <1>3, <1>4 DEF Range
<1>6. IsText(data)
  BY <1>4, <1>5 DEF IsText
<1>7. TextEnd(data) \in Nat /\ 1 \in 1 .. TextEnd(data) /\ LineStarts(data) \subseteq 1 .. TextEnd(data) - 1
  BY <1>6, TextEnds, StartsAre
<1>8. Done(data, 1) = {}
  BY <1>7 DEF Done, NULL
<1>9. PICK r : r = <<>>
  OBVIOUS
<1>10. r \in Seq(Range(r)) /\ Len(r) = 0 /\ Cardinality({}) = 0 /\ 1 .. Len(r) = {}
  BY <1>9, FS_EmptySet
<1>11. Reading(data, 1, r)
  BY <1>6, <1>7, <1>8, <1>10, Zenon DEF Reading
<1> QED
  BY <1>1, <1>9, <1>11

\* The next line of a script that is being run is taken.
LEMMA LineTaken ==
  ASSUME ScriptInv, ExecLine
  PROVE  script' = script /\ callers' = callers /\ GoodScript(script, nextToken', ran')
<1>1. PICK start \in DOMAIN script.data, end \in DOMAIN script.data :
         /\ strtok(start, end)
         /\ script.data[start] # NUL
         /\ nextToken' = AfterToken(end)
         /\ LET text == SubSeq(script.data, FirstOther({SP}, start), end - 1) IN
            IF text = <<>> THEN UNCHANGED <<vars, lpc, req, ran>>
            ELSE NsExec(text) /\ ran' = Append(ran, text)
  BY DEF ExecLine
<1>2. nextToken # NULL /\ script.busy /\ script' = script /\ callers' = callers
  BY <1>1 DEF strtok, ExecLine
<1>3. GoodScript(script, nextToken, ran)
  BY DEF ScriptInv, GoodScripts
<1>4. CASE script.robbed
  BY <1>2, <1>3, <1>4 DEF GoodScript
<1>5. CASE ~script.robbed
  <2>1. PICK d, next, r : d = script.data /\ next = nextToken /\ r = ran
    OBVIOUS
  <2>2. Reading(d, next, r) /\ next # NULL
    BY <1>2, <1>3, <1>5, <2>1 DEF GoodScript
  <2>3. IsText(d) /\ next \in 1 .. TextEnd(d)
    BY <2>2 DEF Reading
  <2>4. PICK first, text : first = FirstOther({SP}, start) /\ text = SubSeq(d, first, end - 1)
    OBVIOUS
  <2>5. Searched(d, next, start, end, first)
    BY <1>1, <2>1, <2>4, Zenon DEF strtok, FirstOther, FirstIn, Searched
  <2>6. TokenAt(d, next, start, end, first)
    BY <1>1, <2>1, <2>3, <2>5, TokenFound, Zenon
  <2>7. PICK next2, r2 : next2 = nextToken' /\ r2 = ran'
    OBVIOUS
  <2>8. (d[end] = NUL => next2 = NULL) /\ (d[end] # NUL => next2 = end + 1)
    BY <1>1, <2>1, <2>7, Zenon DEF AfterToken
  <2>9. IF text = <<>> THEN UNCHANGED <<vars, lpc, req, ran>>
        ELSE NsExec(text) /\ ran' = Append(ran, text)
    BY <1>1, <2>1, <2>4, Zenon
  <2>10. (text = <<>> => r2 = r) /\ (text # <<>> => r2 = Append(r, text))
    BY <2>1, <2>7, <2>9, Zenon
  <2>11. Reading(d, next2, r2)
    BY <2>2, <2>4, <2>6, <2>8, <2>10, TokenTaken, Zenon
  <2> QED
    BY <1>2, <1>3, <2>1, <2>7, <2>11, Zenon DEF GoodScript
<1> QED
  BY <1>2, <1>4, <1>5

\* No script is being run at first,
LEMMA ScriptInvInit == LoaderInit => ScriptInv
<1> SUFFICES ASSUME LoaderInit PROVE ScriptInv
  OBVIOUS
<1>1. PICK cs : cs = callers
  OBVIOUS
<1>2. cs = <<>> /\ script = NoScript /\ ran = <<>>
  BY <1>1 DEF LoaderInit
<1>3. cs \in Seq(Range(cs)) /\ 1 .. Len(cs) = {}
  BY <1>2
<1>4. GoodScripts(cs, script, nextToken, ran)
  BY <1>2, <1>3, NoScriptIsGood, Zenon DEF GoodScripts
<1> QED
  BY <1>1, <1>2, <1>4, NoScriptIsGood DEF ScriptInv

\* A loader that returns leaves the scripts as they were; if it was LdrExecBat,
\* the place of strtok is not theirs.
LEMMA LeftScripts ==
  ASSUME ScriptInv, Leave, script.busy \/ nextToken' = nextToken
  PROVE  ScriptInv'
<1>1. GoodScripts(callers, script, nextToken, ran)
  BY DEF ScriptInv
<1>2. CASE callers = <<>>
  <2>1. lpc' = "idle" /\ script' = NoScript /\ ran' = <<>> /\ callers' = callers
    BY <1>2 DEF Leave
  <2>2. PICK cs, t2 : cs = callers /\ t2 = nextToken'
    OBVIOUS
  <2>3. cs \in Seq(Range(cs)) /\ 1 .. Len(cs) = {}
    BY <1>2, <2>2
  <2>4. GoodScripts(cs, NoScript, t2, <<>>)
    BY <2>3, NoScriptIsGood, Zenon DEF GoodScripts
  <2> QED
    BY <2>1, <2>2, <2>4, NoScriptIsGood, Zenon DEF ScriptInv
<1>3. CASE callers # <<>>
  <2>1. /\ lpc' = "entered" /\ callers' = Front(callers)
        /\ script' = Last(callers).script /\ ran' = Last(callers).ran
    BY <1>3 DEF Leave
  <2>2. PICK t2 : t2 = nextToken'
    OBVIOUS
  <2>3. GoodScripts(Front(callers), Last(callers).script, t2, Last(callers).ran)
    BY <1>1, <1>3, <2>2, ScriptGoesOn
  <2> QED
    BY <2>1, <2>2, <2>3 DEF ScriptInv
<1> QED
  BY <1>2, <1>3

\* and every step leaves one as far as its lines that were run say.
LEMMA ScriptInvStep == ScriptInv /\ [LoaderNext]_loaderVars => ScriptInv'
<1> SUFFICES ASSUME ScriptInv, [LoaderNext]_loaderVars PROVE ScriptInv'
  OBVIOUS
<1>0. GoodScripts(callers, script, nextToken, ran) /\ GoodScript(script, nextToken, ran)
  BY DEF ScriptInv, GoodScripts
<1>1. ASSUME UNCHANGED <<script, nextToken, ran, callers>>, lpc' \in {"idle", "script"} => ~script.busy
      PROVE  ScriptInv'
  BY <1>1 DEF ScriptInv
<1>2. ASSUME Back PROVE ScriptInv'
  <2>1. CASE lpc' = "line" /\ UNCHANGED <<script, nextToken, ran, callers>>
    BY <1>1, <2>1
  <2>2. CASE Leave /\ nextToken' = nextToken
    BY <2>2, LeftScripts
  <2> QED
    BY <1>2, <2>1, <2>2 DEF Back
<1>3. CASE Others \/ UNCHANGED loaderVars
  <2>1. UNCHANGED <<script, nextToken, ran, callers, lpc>>
    BY <1>3 DEF Others, loaderVars
  <2> QED
    BY <1>1, <2>1 DEF ScriptInv
<1>4. CASE \E r \in Requests : LdrLoadPe(r) \/ LdrExecBat(r)
  <2>1. Called /\ nextToken' = nextToken
    BY <1>4 DEF LdrLoadPe, LdrExecBat
  <2>2. CASE lpc = "idle" /\ UNCHANGED <<script, ran, callers>>
    BY <1>1, <2>1, <2>2 DEF ScriptInv
  <2>3. CASE /\ callers' = Append(callers, [pe |-> pe, image |-> image, script |-> script, ran |-> ran])
             /\ script' = NoScript /\ ran' = <<>>
    <3>1. PICK cs2, t : cs2 = callers' /\ t = nextToken
      OBVIOUS
    <3>2. GoodScripts(cs2, NoScript, t, <<>>)
      BY <1>0, <2>3, <3>1, ScriptWaits
    <3> QED
      BY <2>1, <2>3, <3>1, <3>2, NoScriptIsGood DEF ScriptInv
  <2> QED
    BY <2>1, <2>2, <2>3 DEF Called
<1>5. CASE NotOpened \/ Returns
  BY <1>2, <1>5 DEF NotOpened, Returns
<1>6. CASE ReadImage
  BY <1>1, <1>6 DEF ReadImage
<1>7. CASE LdrProcessPe
  <2>1. Back \/ (lpc' = "load" /\ UNCHANGED <<script, nextToken, ran, callers>>)
    BY <1>7 DEF LdrProcessPe
  <2> QED
    BY <1>1, <1>2, <2>1
<1>8. CASE LoadImage
  BY <1>1, <1>8 DEF LoadImage
<1>9. CASE ReadScript
  <2>1. lpc = "script" /\ lpc' = "line" /\ UNCHANGED ran /\ ~script.busy /\ ran = <<>>
    BY <1>0, <1>9 DEF ReadScript, ScriptInv, GoodScript
  <2>2. CASE UNCHANGED <<script, nextToken, callers>>
    BY <1>1, <2>1, <2>2
  <2>3. ASSUME NEW t \in ScriptTexts, NEW tail \in {<<NUL>>, <<"x", NUL>>},
               script' = [data |-> t \o tail, busy |-> TRUE, robbed |-> FALSE],
               nextToken' = 1, RobCallers
        PROVE  ScriptInv'
    <3>1. PICK data : data = t \o tail
      OBVIOUS
    <3>2. Reading(data, 1, <<>>)
      BY <3>1, ScriptBegins, Zenon
    <3>3. PICK s2 : s2 = [data |-> data, busy |-> TRUE, robbed |-> FALSE]
      OBVIOUS
    <3>4. script' = s2
      BY <2>3, <3>1, <3>3, Zenon
    <3>5. s2.busy = TRUE /\ s2.data = data /\ s2.robbed = FALSE
      BY <3>3
    <3>6. s2 = [data |-> s2.data, busy |-> s2.busy, robbed |-> s2.robbed]
      BY <3>3
    <3>7. GoodScript(s2, 1, <<>>)
      BY <3>2, <3>5, <3>6 DEF GoodScript
    <3>8. PICK cs2 : cs2 = callers'
      OBVIOUS
    <3>9. GoodScripts(cs2, s2, 1, <<>>)
      BY <1>0, <2>3, <3>7, <3>8, ScriptsRobbed DEF RobCallers
    <3> QED
      BY <2>1, <2>3, <3>4, <3>8, <3>9 DEF ScriptInv
  <2> QED
    BY <1>9, <2>2, <2>3 DEF ReadScript
<1>10. CASE ExecLine
  <2>1. lpc' # "idle" /\ lpc' # "script" /\ script.busy
    BY <1>10 DEF ExecLine, NsExec, Open
  <2>2. script' = script /\ callers' = callers /\ GoodScript(script, nextToken', ran')
    BY <1>10, LineTaken
  <2>3. PICK t2, r2 : t2 = nextToken' /\ r2 = ran'
    OBVIOUS
  <2>4. GoodScripts(callers, script, t2, r2)
    BY <1>0, <2>1, <2>2, <2>3, ScriptRuns
  <2> QED
    BY <2>1, <2>2, <2>3, <2>4 DEF ScriptInv
<1>11. CASE StaleLine
  <2>1. /\ lpc' # "idle" /\ lpc' # "script" /\ script.busy /\ nextToken = STALE
        /\ UNCHANGED <<script, ran, callers>>
    BY <1>11 DEF StaleLine, NsExec, Open
  <2>2. ASSUME ~script.robbed PROVE FALSE
    BY <1>0, <2>1, <2>2 DEF GoodScript, Reading, STALE, NULL
  <2>3. PICK t2 : t2 = nextToken'
    OBVIOUS
  <2>4. GoodScript(script, t2, ran)
    BY <1>0, <2>1, <2>2 DEF GoodScript
  <2>5. GoodScripts(callers, script, t2, ran)
    BY <1>0, <2>1, <2>4, ScriptRuns
  <2> QED
    BY <2>1, <2>3, <2>5 DEF ScriptInv
<1>12. CASE ScriptEnds
  BY <1>12, LeftScripts DEF ScriptEnds
<1> QED
  BY <1>3, <1>4, <1>5, <1>6, <1>7, <1>8, <1>9, <1>10, <1>11, <1>12 DEF LoaderNext

\* The lines of a script run in order, each once, and all of them by its end,
\* whatever the text is, the spaces and empty lines in it, and whatever the
\* programs it runs open and load, as deep as they may nest, as long as none of
\* them runs a script (LdrExecBat, strtok).
THEOREM ScriptRunsItsLines == LoaderSpec => []ScriptLinesInOrder
<1>1. ScriptInv => ScriptLinesInOrder
  <2> SUFFICES ASSUME ScriptInv, script.busy, ~script.robbed
               PROVE  /\ Len(ran) <= Len(Lines(script.data))
                      /\ ran = SubSeq(Lines(script.data), 1, Len(ran))
                      /\ NoToken => ran = Lines(script.data)
    BY Zenon DEF ScriptLinesInOrder
  <2>1. PICK d, next : d = script.data /\ next = nextToken
    OBVIOUS
  <2>2. Reading(d, next, ran)
    BY <2>1 DEF ScriptInv, GoodScripts, GoodScript
  <2>3. IsText(d) /\ (next = NULL \/ next \in 1 .. TextEnd(d))
    BY <2>2 DEF Reading
  <2>4. ASSUME NoToken PROVE Done(d, next) = LineStarts(d)
    <3>1. CASE next = NULL
      BY <3>1, Zenon DEF Done
    <3>2. CASE next # NULL
      <4>1. d[Min({j \in next .. Len(d) : d[j] \notin {CR, LF}})] = NUL
        <5>1. next \notin {NULL, STALE}
          BY <2>3, <3>2, TextEnds DEF STALE
        <5> QED
          BY <2>1, <2>4, <5>1, Zenon DEF NoToken, FirstOther
      <4> QED
        BY <2>3, <3>2, <4>1, NoneLeft, Zenon
    <3> QED
      BY <3>1, <3>2
  <2> QED
    BY <2>1, <2>2, <2>4, ReadingShows, Zenon
<1> QED
  BY <1>1, ScriptInvInit, ScriptInvStep, PTL DEF LoaderSpec

-----------------------------------------------------------------------------
(* Programs *)

\* The words of an image of n words.
Memory(n) == [0 .. n - 1 -> Int]

\* An entry for a field at a word inside it, and a block of such entries.
Long == {"HIGHLOW", "DIR32"}
GoodEntry(type, at, n) == at \in Nat /\ (type \in Long => at + 1 < n)
GoodBlock(b, n) ==
  /\ b.entries \in Seq(Range(b.entries))
  /\ \A j \in 1 .. Len(b.entries) : GoodEntry(b.entries[j].type, b.at + b.entries[j].offset, n)

\* The words an entry changes.
Touched(type, at) == IF type \in Long THEN {at, at + 1} ELSE IF type \in {"HIGH", "LOW"} THEN {at} ELSE {}

\* The iterations from a to b of a loop leave word x alone,
Kept(g, x, a, b) == \A i \in a + 1 .. b : g[i][x] = g[i - 1][x]

\* and so does that part of the loop.
LEMMA WordKept ==
  ASSUME NEW g, NEW x, NEW a \in Nat, NEW b \in Nat, a <= b, Kept(g, x, a, b)
  PROVE  g[b][x] = g[a][x]
<1> DEFINE S == {i \in 0 .. b : a <= i /\ i <= b => g[i][x] = g[a][x]}
<1>1. 0 \in S
  <2>1. a <= 0 => a = 0
    OBVIOUS
  <2> QED
    BY <2>1
<1>2. ASSUME NEW i \in 1 .. b, i - 1 \in S PROVE i \in S
  <2> SUFFICES ASSUME a <= i, i <= b PROVE g[i][x] = g[a][x]
    OBVIOUS
  <2>1. CASE i = a
    BY <2>1
  <2>2. CASE i # a
    <3>1. i \in a + 1 .. b /\ a <= i - 1 /\ i - 1 <= b
      BY <2>2
    <3> QED
      BY <1>2, <3>1 DEF Kept
  <2> QED
    BY <2>1, <2>2
<1> HIDE DEF S
<1>3. \A i \in 1 .. b : i - 1 \in S => i \in S
  BY <1>2
<1>4. \A i \in 0 .. b : i \in S
  BY <1>1, <1>3, Induction, Zenon
<1>5. b \in S /\ a <= b /\ b <= b
  BY <1>4
<1> QED
  BY <1>5 DEF S

\* The halves of a number are numbers.
LEMMA HalvesAre == \A x \in Int : Low(x) \in Int /\ High(x) \in Int
<1> SUFFICES ASSUME NEW x \in Int PROVE Low(x) \in Int /\ High(x) \in Int
  OBVIOUS
<1>1. Word \in Nat \ {0}
  BY LoaderAssumption
<1>2. x % Word \in Nat /\ x \div Word \in Int
  BY <1>1, IntDivided
<1>3. (x \div Word) % Word \in Nat
  BY <1>1, <1>2, IntDivided
<1> QED
  BY <1>2, <1>3 DEF Low, High

\* Words v come of words w when offset is added to the 32 bits at a word.
Added(w, v, at, offset) == /\ v[at] = Low(w[at] + Word * w[at + 1] + offset)
                           /\ v[at + 1] = High(w[at] + Word * w[at + 1] + offset)

\* An entry changes its field, a long one as a number of two words, and no more.
EntryDone(n, w, v, type, at, offset) ==
  /\ v \in Memory(n)
  /\ \A x \in 0 .. n - 1 : x \notin Touched(type, at) => v[x] = w[x]
  /\ type \in Long => Added(w, v, at, offset)

\* That is what Relocate does.
LEMMA EntryApplied ==
  ASSUME NEW n \in Nat, NEW w \in Memory(n), NEW type, NEW at, GoodEntry(type, at, n),
         NEW offset \in Int
  PROVE  EntryDone(n, w, Relocate(w, type, at, offset), type, at, offset)
<1>0. PICK v : v = Relocate(w, type, at, offset)
  OBVIOUS
<1> SUFFICES /\ v \in Memory(n)
             /\ \A x \in 0 .. n - 1 : x \notin Touched(type, at) => v[x] = w[x]
             /\ type \in Long => Added(w, v, at, offset)
  BY <1>0, Zenon DEF EntryDone
<1>1. Word \in Nat \ {0} /\ Low(offset) \in Int /\ High(offset) \in Int /\ at \in Nat
  BY LoaderAssumption, HalvesAre DEF GoodEntry
<1>2. CASE type \in Long
  <2>1. at \in 0 .. n - 1 /\ at + 1 \in 0 .. n - 1
    BY <1>1, <1>2 DEF GoodEntry
  <2>2. PICK sum \in Int : sum = w[at] + Word * w[at + 1] + offset
    BY <1>1, <2>1 DEF Memory
  <2>3. PICK l \in Int, h \in Int : l = Low(sum) /\ h = High(sum)
    BY HalvesAre
  <2>4. v = [w EXCEPT ![at] = l, ![at + 1] = h]
    <3>1. type # "HIGH" /\ type # "LOW" /\ type \in {"HIGHLOW", "DIR32"}
      BY <1>2 DEF Long
    <3>2. v = Add32(w, at, offset)
      BY <1>0, <3>1 DEF Relocate
    <3> QED
      BY <2>2, <2>3, <3>2, Zenon DEF Add32
  <2>5. at # at + 1
    BY <1>1
  <2>6. /\ v \in Memory(n) /\ v[at] = l /\ v[at + 1] = h
        /\ \A x \in 0 .. n - 1 : x # at /\ x # at + 1 => v[x] = w[x]
    BY <2>1, <2>4, <2>5 DEF Memory
  <2> QED
    BY <1>2, <2>2, <2>3, <2>6 DEF Touched, Added
<1>3. CASE type \in {"HIGH", "LOW"}
  <2>1. type \notin Long
    BY <1>3 DEF Long
  <2>2. PICK d \in Int : v = [w EXCEPT ![at] = (@ + d) % Word]
    BY <1>0, <1>1, <1>3 DEF Relocate
  <2>3. at \in 0 .. n - 1 => (w[at] + d) % Word \in Int
    <3> SUFFICES ASSUME at \in 0 .. n - 1 PROVE (w[at] + d) % Word \in Int
      OBVIOUS
    <3>1. PICK x \in Int : x = w[at] + d
      BY DEF Memory
    <3> QED
      BY <1>1, <3>1, IntDivided
  <2>4. v \in Memory(n) /\ \A x \in 0 .. n - 1 : x # at => v[x] = w[x]
    BY <2>2, <2>3 DEF Memory
  <2> QED
    BY <1>3, <2>1, <2>4 DEF Touched
<1>4. CASE type \notin Long /\ type \notin {"HIGH", "LOW"}
  <2>1. v = w
    BY <1>0, <1>4 DEF Relocate, Long
  <2> QED
    BY <1>4, <2>1
<1> QED
  BY <1>2, <1>3, <1>4

\* The iterations of a block's loop.
BlockRun(n, w, b, offset, g) ==
  /\ g[0] = w /\ RelocBlock(w, b, offset) = g[Len(b.entries)]
  /\ \A j \in 1 .. Len(b.entries) :
        g[j] = Relocate(g[j - 1], b.entries[j].type, b.at + b.entries[j].offset, offset)
  /\ \A j \in 0 .. Len(b.entries) : g[j] \in Memory(n)

\* There are such iterations.
LEMMA BlockRuns ==
  ASSUME NEW n \in Nat, NEW w \in Memory(n), NEW b, GoodBlock(b, n), NEW offset \in Int
  PROVE  \E g : BlockRun(n, w, b, offset, g)
<1> DEFINE Step(u, j) == Relocate(u, b.entries[j].type, b.at + b.entries[j].offset, offset)
           F(g) == [j \in 0 .. Len(b.entries) |-> IF j = 0 THEN w ELSE Step(g[j - 1], j)]
           Loop == CHOOSE g : g = F(g)
<1>1. PICK m \in Nat : m = Len(b.entries)
  BY DEF GoodBlock
<1>2. PICK M : M = Memory(n)
  OBVIOUS
<1>3. \A j \in 1 .. m, u \in M : Step(u, j) \in M
  <2> SUFFICES ASSUME NEW j \in 1 .. m, NEW u \in M PROVE Step(u, j) \in M
    OBVIOUS
  <2>1. GoodEntry(b.entries[j].type, b.at + b.entries[j].offset, n) /\ u \in Memory(n)
    BY <1>1, <1>2 DEF GoodBlock
  <2>2. Step(u, j) \in Memory(n)
    BY <2>1, EntryApplied, Zenon DEF EntryDone
  <2> QED
    BY <1>2, <2>2
<1> HIDE DEF Step
<1> DEFINE body == [j \in 1 .. m |-> [u \in M |-> Step(u, j)]]
<1>4. w \in M /\ body \in Bodies(m, M)
  BY <1>2, <1>3 DEF Bodies
<1>5. PICK g \in States(m, M) : g[0] = w /\ \A i \in 1 .. m : g[i] = body[i][g[i - 1]]
  <2> HIDE DEF body
  <2> QED
    BY <1>4, LoopExists
<1>6. g = F(g)
  <2>1. g \in [0 .. m -> M]
    BY <1>5 DEF States
  <2>2. ASSUME NEW i \in 0 .. m PROVE g[i] = IF i = 0 THEN w ELSE Step(g[i - 1], i)
    <3>1. CASE i = 0
      BY <1>5, <3>1
    <3>2. CASE i # 0
      <4>1. i \in 1 .. m /\ i - 1 \in 0 .. m
        BY <3>2
      <4>2. g[i - 1] \in M
        BY <2>1, <4>1
      <4> QED
        BY <1>5, <3>2, <4>1, <4>2, Zenon
    <3> QED
      BY <3>1, <3>2
  <2> QED
    BY <1>1, <2>1, <2>2
<1>7. Loop = F(Loop)
  BY <1>6, Zenon
<1>8. RelocBlock(w, b, offset) = Loop[Len(b.entries)]
  BY Zenon DEF RelocBlock, Step
<1> HIDE DEF Loop
<1>9. Loop[0] = w /\ \A i \in 1 .. m : Loop[i] = Step(Loop[i - 1], i)
  <2>1. 0 \in 0 .. Len(b.entries) /\ \A i \in 1 .. m : i \in 0 .. Len(b.entries) /\ i # 0
    BY <1>1
  <2> QED
    BY <1>7, <2>1, Zenon
<1> DEFINE S == {i \in 0 .. m : Loop[i] \in M}
<1>10. 0 \in S
  BY <1>4, <1>9
<1>11. \A i \in 1 .. m : i - 1 \in S => i \in S
  BY <1>3, <1>9
<1> HIDE DEF S
<1>12. \A i \in 0 .. m : i \in S
  BY <1>10, <1>11, Induction, Zenon
<1>13. \A i \in 0 .. m : Loop[i] \in M
  BY <1>12 DEF S
<1> QED
  BY <1>1, <1>2, <1>8, <1>9, <1>13, Zenon DEF Step, BlockRun

\* What a block makes of words w: each of its long fields that lies apart from
\* the others is added to once, and what is in no field stays.
BlockDone(n, w, v, b, offset) ==
  /\ v \in Memory(n)
  /\ \A x \in 0 .. n - 1 :
        (\A j \in 1 .. Len(b.entries) : x \notin Touched(b.entries[j].type, b.at + b.entries[j].offset))
        => v[x] = w[x]
  /\ \A j \in 1 .. Len(b.entries) :
        /\ b.entries[j].type \in Long
        /\ \A m \in 1 .. Len(b.entries) : m # j =>
              /\ b.at + b.entries[j].offset \notin Touched(b.entries[m].type, b.at + b.entries[m].offset)
              /\ b.at + b.entries[j].offset + 1 \notin Touched(b.entries[m].type, b.at + b.entries[m].offset)
        => Added(w, v, b.at + b.entries[j].offset, offset)

\* That is what the loop over the entries does.
LEMMA BlockApplied ==
  ASSUME NEW n \in Nat, NEW w \in Memory(n), NEW b, GoodBlock(b, n), NEW offset \in Int
  PROVE  BlockDone(n, w, RelocBlock(w, b, offset), b, offset)
<1> DEFINE TypeOf(j) == b.entries[j].type
           AtOf(j)   == b.at + b.entries[j].offset
<1>1. PICK m \in Nat : m = Len(b.entries)
  BY DEF GoodBlock
<1>2. PICK g : /\ g[0] = w /\ RelocBlock(w, b, offset) = g[m]
               /\ \A j \in 1 .. m : g[j] = Relocate(g[j - 1], TypeOf(j), AtOf(j), offset)
               /\ \A j \in 0 .. m : g[j] \in Memory(n)
  <2>1. PICK g : BlockRun(n, w, b, offset, g)
    BY BlockRuns, Zenon
  <2> QED
    BY <1>1, <2>1, Zenon DEF BlockRun
<1>3. \A j \in 1 .. m : GoodEntry(TypeOf(j), AtOf(j), n)
  BY <1>1, Zenon DEF GoodBlock
<1> HIDE DEF TypeOf, AtOf
<1>4. ASSUME NEW j \in 1 .. m
      PROVE  /\ \A x \in 0 .. n - 1 : x \notin Touched(TypeOf(j), AtOf(j)) => g[j][x] = g[j - 1][x]
             /\ TypeOf(j) \in Long => Added(g[j - 1], g[j], AtOf(j), offset)
  <2>1. j - 1 \in 0 .. m
    OBVIOUS
  <2>2. g[j - 1] \in Memory(n) /\ g[j] = Relocate(g[j - 1], TypeOf(j), AtOf(j), offset)
    BY <1>2, <2>1
  <2> QED
    <3>1. GoodEntry(TypeOf(j), AtOf(j), n)
      BY <1>3
    <3>2. EntryDone(n, g[j - 1], Relocate(g[j - 1], TypeOf(j), AtOf(j), offset), TypeOf(j), AtOf(j), offset)
      BY <2>2, <3>1, EntryApplied, Zenon
    <3> QED
      BY <2>2, <3>2, Zenon DEF EntryDone
<1>5. ASSUME NEW x \in 0 .. n - 1, NEW a \in 0 .. m, NEW c \in a .. m,
             \A j \in a + 1 .. c : x \notin Touched(TypeOf(j), AtOf(j))
      PROVE  g[c][x] = g[a][x]
  <2>1. ASSUME NEW j \in a + 1 .. c PROVE g[j][x] = g[j - 1][x]
    <3>1. j \in 1 .. m
      OBVIOUS
    <3> QED
      BY <1>4, <1>5, <3>1, Zenon
  <2>2. Kept(g, x, a, c)
    BY <2>1, Zenon DEF Kept
  <2> QED
    <3>1. a \in Nat /\ c \in Nat /\ a <= c
      OBVIOUS
    <3> QED
      BY <2>2, <3>1, WordKept, Zenon
<1>6. ASSUME NEW x \in 0 .. n - 1, \A j \in 1 .. m : x \notin Touched(TypeOf(j), AtOf(j))
      PROVE  g[m][x] = w[x]
  <2>1. 0 \in 0 .. m /\ m \in 0 .. m /\ 0 + 1 .. m = 1 .. m
    OBVIOUS
  <2>2. g[m][x] = g[0][x]
    BY <1>5, <1>6, <2>1
  <2> QED
    BY <1>2, <2>2
<1>7. ASSUME NEW j \in 1 .. m, TypeOf(j) \in Long,
             \A k \in 1 .. m : k # j => /\ AtOf(j) \notin Touched(TypeOf(k), AtOf(k))
                                        /\ AtOf(j) + 1 \notin Touched(TypeOf(k), AtOf(k))
      PROVE  Added(w, g[m], AtOf(j), offset)
  <2>1. PICK at \in Nat : at = AtOf(j) /\ at \in 0 .. n - 1 /\ at + 1 \in 0 .. n - 1
    BY <1>3, <1>7 DEF GoodEntry
  <2>2. ASSUME NEW x \in {at, at + 1} PROVE g[j - 1][x] = w[x] /\ g[m][x] = g[j][x]
    <3>1. x \in 0 .. n - 1 /\ \A k \in 1 .. m : k # j => x \notin Touched(TypeOf(k), AtOf(k))
      BY <1>7, <2>1, <2>2
    <3>2. /\ 0 \in 0 .. m /\ j - 1 \in 0 .. m /\ j \in 0 .. m /\ m \in j .. m
          /\ \A k \in 0 + 1 .. j - 1 : k \in 1 .. m /\ k # j
          /\ \A k \in j + 1 .. m : k \in 1 .. m /\ k # j
      OBVIOUS
    <3>3. g[j - 1][x] = g[0][x]
      BY <1>5, <3>1, <3>2
    <3>4. g[m][x] = g[j][x]
      BY <1>5, <3>1, <3>2
    <3> QED
      BY <1>2, <3>3, <3>4
  <2>3. Added(g[j - 1], g[j], at, offset)
    BY <1>4, <1>7, <2>1, Zenon
  <2> QED
    BY <2>1, <2>2, <2>3 DEF Added
<1>8. g[m] \in Memory(n)
  BY <1>2
<1> QED
  BY <1>1, <1>2, <1>6, <1>7, <1>8, Zenon DEF BlockDone, TypeOf, AtOf

\* The iterations of the loop over the blocks.
MemoryRun(p, n, w, blocks, base, g) ==
  /\ g[0] = w /\ LdrRelocMemory(p, w, blocks, base) = g[Taken(blocks)]
  /\ \A k \in 1 .. Taken(blocks) :
        g[k] = RelocBlock(g[k - 1], blocks[k], (base - p.base) % (Word * Word))
  /\ \A k \in 0 .. Taken(blocks) : g[k] \in Memory(n)

\* There are such iterations.
LEMMA MemoryRuns ==
  ASSUME NEW p, NEW n \in Nat, NEW w \in Memory(n), NEW blocks, Taken(blocks) \in Nat,
         \A k \in 1 .. Taken(blocks) : GoodBlock(blocks[k], n), NEW base \in Int, p.base \in Int
  PROVE  \E g : MemoryRun(p, n, w, blocks, base, g)
<1> DEFINE offset == (base - p.base) % (Word * Word)
           Step(u, k) == RelocBlock(u, blocks[k], offset)
           F(g) == [k \in 0 .. Taken(blocks) |-> IF k = 0 THEN w ELSE Step(g[k - 1], k)]
           Loop == CHOOSE g : g = F(g)
<1>1. PICK m \in Nat : m = Taken(blocks)
  OBVIOUS
<1>2. PICK M : M = Memory(n)
  OBVIOUS
<1>3. \A k \in 1 .. m, u \in M : Step(u, k) \in M
  <2> SUFFICES ASSUME NEW k \in 1 .. m, NEW u \in M PROVE Step(u, k) \in M
    OBVIOUS
  <2>1. GoodBlock(blocks[k], n) /\ u \in Memory(n)
    BY <1>1, <1>2
  <2>2. PICK d \in Int : d = offset
    <3>1. PICK x \in Int, c \in Nat \ {0} : x = base - p.base /\ c = Word * Word
      BY LoaderAssumption
    <3> QED
      BY <3>1, IntDivided
  <2>3. BlockDone(n, u, RelocBlock(u, blocks[k], d), blocks[k], d)
    BY <2>1, BlockApplied, Zenon
  <2>4. RelocBlock(u, blocks[k], d) \in Memory(n)
    BY <2>3, Zenon DEF BlockDone
  <2> QED
    BY <1>2, <2>2, <2>4
<1> HIDE DEF Step
<1> DEFINE body == [k \in 1 .. m |-> [u \in M |-> Step(u, k)]]
<1>4. w \in M /\ body \in Bodies(m, M)
  BY <1>2, <1>3 DEF Bodies
<1>5. PICK g \in States(m, M) : g[0] = w /\ \A i \in 1 .. m : g[i] = body[i][g[i - 1]]
  <2> HIDE DEF body
  <2> QED
    BY <1>4, LoopExists
<1>6. g = F(g)
  <2>1. g \in [0 .. m -> M]
    BY <1>5 DEF States
  <2>2. ASSUME NEW i \in 0 .. m PROVE g[i] = IF i = 0 THEN w ELSE Step(g[i - 1], i)
    <3>1. CASE i = 0
      BY <1>5, <3>1
    <3>2. CASE i # 0
      <4>1. i \in 1 .. m /\ i - 1 \in 0 .. m
        BY <3>2
      <4>2. g[i - 1] \in M
        BY <2>1, <4>1
      <4> QED
        BY <1>5, <3>2, <4>1, <4>2, Zenon
    <3> QED
      BY <3>1, <3>2
  <2> QED
    BY <1>1, <2>1, <2>2
<1>7. Loop = F(Loop)
  BY <1>6, Zenon
<1>8. LdrRelocMemory(p, w, blocks, base) = Loop[Taken(blocks)]
  BY Zenon DEF LdrRelocMemory, Step
<1> HIDE DEF Loop
<1>9. Loop[0] = w /\ \A i \in 1 .. m : Loop[i] = Step(Loop[i - 1], i)
  <2>1. 0 \in 0 .. Taken(blocks) /\ \A i \in 1 .. m : i \in 0 .. Taken(blocks) /\ i # 0
    BY <1>1
  <2> QED
    BY <1>7, <2>1, Zenon
<1> DEFINE S == {i \in 0 .. m : Loop[i] \in M}
<1>10. 0 \in S
  BY <1>4, <1>9
<1>11. \A i \in 1 .. m : i - 1 \in S => i \in S
  BY <1>3, <1>9
<1> HIDE DEF S
<1>12. \A i \in 0 .. m : i \in S
  BY <1>10, <1>11, Induction, Zenon
<1>13. \A i \in 0 .. m : Loop[i] \in M
  BY <1>12 DEF S
<1> QED
  BY <1>1, <1>2, <1>8, <1>9, <1>13, Zenon DEF Step, MemoryRun

\* The words entry j of block k changes, and where its field begins.
At(blocks, k, j)   == blocks[k].at + blocks[k].entries[j].offset
Type(blocks, k, j) == blocks[k].entries[j].type
Words(blocks, k, j) == Touched(Type(blocks, k, j), At(blocks, k, j))

\* No other entry changes word x.
OnlyIn(blocks, k, j, x) ==
  \A l \in 1 .. Taken(blocks) : \A m \in 1 .. Len(blocks[l].entries) :
     k # l \/ j # m => x \notin Words(blocks, l, m)

\* What the blocks make of words w: each long field that lies apart from the
\* others is added to once, and what is in no field stays.
MemoryDone(n, w, v, blocks, offset) ==
  /\ \A x \in 0 .. n - 1 :
        (\A k \in 1 .. Taken(blocks) : \A j \in 1 .. Len(blocks[k].entries) :
            x \notin Words(blocks, k, j))
        => v[x] = w[x]
  /\ \A k \in 1 .. Taken(blocks) : \A j \in 1 .. Len(blocks[k].entries) :
        /\ Type(blocks, k, j) \in Long
        /\ OnlyIn(blocks, k, j, At(blocks, k, j))
        /\ OnlyIn(blocks, k, j, At(blocks, k, j) + 1)
        => Added(w, v, At(blocks, k, j), offset)

\* That is what the loop over the blocks does.
LEMMA MemoryApplied ==
  ASSUME NEW p, NEW n \in Nat, NEW w \in Memory(n), NEW blocks, Taken(blocks) \in Nat,
         \A k \in 1 .. Taken(blocks) : GoodBlock(blocks[k], n), NEW base \in Int, p.base \in Int,
         (base - p.base) % (Word * Word) \in Int
  PROVE  MemoryDone(n, w, LdrRelocMemory(p, w, blocks, base), blocks, (base - p.base) % (Word * Word))
<1>0. PICK v, offset : v = LdrRelocMemory(p, w, blocks, base) /\ offset = (base - p.base) % (Word * Word)
  OBVIOUS
<1>1. PICK t \in Nat : t = Taken(blocks)
  OBVIOUS
<1>2. PICK d \in Int : d = offset
  BY <1>0
<1>3. PICK g : /\ g[0] = w /\ v = g[t]
               /\ \A k \in 1 .. t : g[k] = RelocBlock(g[k - 1], blocks[k], d)
               /\ \A k \in 0 .. t : g[k] \in Memory(n)
  <2>1. PICK g : MemoryRun(p, n, w, blocks, base, g)
    BY MemoryRuns, Zenon
  <2> QED
    BY <1>0, <1>1, <1>2, <2>1, Zenon DEF MemoryRun
<1>4. ASSUME NEW k \in 1 .. t PROVE BlockDone(n, g[k - 1], g[k], blocks[k], d)
  <2>1. g[k - 1] \in Memory(n) /\ g[k] = RelocBlock(g[k - 1], blocks[k], d) /\ GoodBlock(blocks[k], n)
    BY <1>1, <1>3
  <2>2. BlockDone(n, g[k - 1], RelocBlock(g[k - 1], blocks[k], d), blocks[k], d)
    BY <2>1, BlockApplied, Zenon
  <2> QED
    BY <2>1, <2>2, Zenon
<1>5. ASSUME NEW x \in 0 .. n - 1, NEW a \in 0 .. t, NEW c \in a .. t,
             \A k \in a + 1 .. c : \A j \in 1 .. Len(blocks[k].entries) : x \notin Words(blocks, k, j)
      PROVE  g[c][x] = g[a][x]
  <2>1. ASSUME NEW k \in a + 1 .. c PROVE g[k][x] = g[k - 1][x]
    <3>1. k \in 1 .. t
      OBVIOUS
    <3>2. BlockDone(n, g[k - 1], g[k], blocks[k], d)
      BY <1>4, <3>1
    <3> QED
      BY <1>5, <3>2, Zenon DEF BlockDone, Words, Type, At
  <2>2. Kept(g, x, a, c)
    BY <2>1, Zenon DEF Kept
  <2>3. a \in Nat /\ c \in Nat /\ a <= c
    OBVIOUS
  <2> QED
    BY <2>2, <2>3, WordKept, Zenon
<1>6. ASSUME NEW x \in 0 .. n - 1,
             \A k \in 1 .. t : \A j \in 1 .. Len(blocks[k].entries) : x \notin Words(blocks, k, j)
      PROVE  v[x] = w[x]
  <2>1. 0 \in 0 .. t /\ t \in 0 .. t /\ 0 + 1 .. t = 1 .. t
    OBVIOUS
  <2>2. g[t][x] = g[0][x]
    BY <1>5, <1>6, <2>1
  <2> QED
    BY <1>3, <2>2
<1>7. ASSUME NEW k \in 1 .. t, NEW j \in 1 .. Len(blocks[k].entries), Type(blocks, k, j) \in Long,
             OnlyIn(blocks, k, j, At(blocks, k, j)), OnlyIn(blocks, k, j, At(blocks, k, j) + 1)
      PROVE  Added(w, v, At(blocks, k, j), d)
  <2>1. PICK at \in Nat : at = At(blocks, k, j) /\ at \in 0 .. n - 1 /\ at + 1 \in 0 .. n - 1
    BY <1>1, <1>7 DEF GoodBlock, GoodEntry, At, Type
  <2>2. \A l \in 1 .. t : \A m \in 1 .. Len(blocks[l].entries) :
           k # l \/ j # m => at \notin Words(blocks, l, m) /\ at + 1 \notin Words(blocks, l, m)
    BY <1>1, <1>7, <2>1, Zenon DEF OnlyIn
  <2>3. ASSUME NEW x \in {at, at + 1} PROVE g[k - 1][x] = w[x] /\ g[t][x] = g[k][x]
    <3>1. /\ x \in 0 .. n - 1
          /\ \A l \in 1 .. t : \A m \in 1 .. Len(blocks[l].entries) : k # l => x \notin Words(blocks, l, m)
      BY <2>1, <2>2, <2>3
    <3>2. /\ 0 \in 0 .. t /\ k - 1 \in 0 .. t /\ k \in 0 .. t /\ t \in k .. t
          /\ \A l \in 0 + 1 .. k - 1 : l \in 1 .. t /\ l # k
          /\ \A l \in k + 1 .. t : l \in 1 .. t /\ l # k
      OBVIOUS
    <3>3. g[k - 1][x] = g[0][x]
      BY <1>5, <3>1, <3>2
    <3>4. g[t][x] = g[k][x]
      BY <1>5, <3>1, <3>2
    <3> QED
      BY <1>3, <3>3, <3>4
  <2>4. Added(g[k - 1], g[k], at, d)
    <3>1. BlockDone(n, g[k - 1], g[k], blocks[k], d)
      BY <1>4
    <3>2. \A m \in 1 .. Len(blocks[k].entries) : m # j =>
             at \notin Words(blocks, k, m) /\ at + 1 \notin Words(blocks, k, m)
      BY <2>2
    <3> QED
      BY <1>7, <2>1, <3>1, <3>2, Zenon DEF BlockDone, Words, Type, At
  <2>5. Added(w, v, at, d)
    BY <1>3, <2>1, <2>3, <2>4 DEF Added
  <2> QED
    BY <2>1, <2>5
<1>8. MemoryDone(n, w, v, blocks, offset)
  BY <1>1, <1>2, <1>6, <1>7, Zenon DEF MemoryDone
<1> QED
  BY <1>0, <1>8, Zenon

\* The blocks that are taken are there.
LEMMA TakenAre ==
  ASSUME NEW blocks, blocks \in Seq(Range(blocks)), \E k \in DOMAIN blocks : blocks[k].at = 0
  PROVE  Taken(blocks) \in Nat /\ \A k \in 1 .. Taken(blocks) : k \in DOMAIN blocks
<1> DEFINE S == {k \in DOMAIN blocks : blocks[k].at = 0}
<1>1. Len(blocks) \in Nat /\ DOMAIN blocks = 1 .. Len(blocks)
  BY LenProperties
<1>2. S \subseteq Nat /\ S # {} /\ S \subseteq DOMAIN blocks
  BY <1>1
<1>3. Taken(blocks) = Min(S) - 1
  BY DEF Taken
<1> HIDE DEF S
<1>4. PICK m \in DOMAIN blocks : m = Min(S)
  BY <1>2, MinOf
<1> QED
  BY <1>1, <1>3, <1>4

\* The words of the sections are copied to their places.
LEMMA SectionsCopied ==
  ASSUME NEW p, p.size \in Nat, WellFormed(p),
         \A s \in Range(p.sections) : s.raw + Len(s.words) <= ImageWords
  PROVE  /\ LdrCpySections(p) \in Memory(p.size)
         /\ \A s \in Range(p.sections) : \A i \in Place(s) :
               i \in 0 .. p.size - 1 /\ LdrCpySections(p)[i] = FileWord(p, i)
<1> DEFINE In(i) == {k \in DOMAIN p.sections : i - p.sections[k].at \in 0 .. Len(p.sections[k].words) - 1}
           Copy(i) == IF In(i) = {} THEN JUNK ELSE RawWord(p.sections[Max(In(i))], i)
<1>1. PICK n \in Nat : n = Len(p.sections) /\ DOMAIN p.sections = 1 .. n
  BY LenProperties DEF WellFormed
<1>2. ASSUME NEW k \in 1 .. n
      PROVE  /\ p.sections[k] \in Range(p.sections)
             /\ p.sections[k].at \in Nat /\ p.sections[k].raw \in Nat
             /\ p.sections[k].words \in Seq(0 .. Word - 1) /\ Len(p.sections[k].words) \in Nat
             /\ p.sections[k].at + Len(p.sections[k].words) <= p.size
             /\ p.sections[k].raw + Len(p.sections[k].words) <= ImageWords
  <2>1. p.sections[k] \in Range(p.sections)
    BY <1>1 DEF Range
  <2> QED
    BY <2>1, LenProperties DEF WellFormed
<1>3. ASSUME NEW i \in Int, NEW k \in 1 .. n
      PROVE  k \in In(i) <=> i \in Place(p.sections[k])
  <2>1. PICK a \in Nat, m \in Nat : a = p.sections[k].at /\ m = Len(p.sections[k].words)
    BY <1>2
  <2>2. k \in In(i) <=> i - a \in 0 .. m - 1
    BY <1>1, <2>1
  <2>3. i \in a .. a + m - 1 <=> i - a \in 0 .. m - 1
    OBVIOUS
  <2> QED
    BY <2>1, <2>2, <2>3, Zenon DEF Place
<1>4. \A i : In(i) \subseteq 1 .. n
  BY <1>1
<1>5. LdrCpySections(p) = [i \in 0 .. p.size - 1 |-> Copy(i)]
  BY Zenon DEF LdrCpySections
<1> HIDE DEF In, Copy
<1>6. ASSUME NEW i \in Int, NEW k \in In(i)
      PROVE  Copy(i) = p.sections[k].words[i - p.sections[k].at + 1] /\ Copy(i) \in 0 .. Word - 1
  <2>1. k \in 1 .. n /\ i \in Place(p.sections[k])
    BY <1>3, <1>4
  <2>2. ASSUME NEW l \in In(i) PROVE l = k
    <3>1. l \in 1 .. n /\ i \in Place(p.sections[l])
      BY <1>3, <1>4
    <3> QED
      BY <1>1, <2>1, <3>1 DEF WellFormed
  <2>3. In(i) = {k}
    BY <2>2
  <2>4. Max({k}) = k
    BY <2>1 DEF Max
  <2>5. Copy(i) = RawWord(p.sections[k], i)
    <3>1. In(i) # {}
      OBVIOUS
    <3> QED
      BY <2>3, <2>4, <3>1, Zenon DEF Copy
  <2>6. PICK s : s = p.sections[k]
    OBVIOUS
  <2>7. PICK m \in Nat : m = Len(s.words)
    BY <1>2, <2>1, <2>6
  <2>8. s.at \in Nat /\ s.raw \in Nat /\ s.words \in Seq(0 .. Word - 1) /\ s.raw + m <= ImageWords
    BY <1>2, <2>1, <2>6, <2>7
  <2>9. i - s.at \in 0 .. m - 1
    BY <2>1, <2>6, <2>7, <2>8 DEF Place
  <2>10. s.raw + i - s.at < ImageWords /\ i - s.at + 1 \in 1 .. m
    <3>1. PICK a \in Nat, r \in Nat : a = s.at /\ r = s.raw
      BY <2>8
    <3>2. r + m <= ImageWords /\ i - a \in 0 .. m - 1 /\ ImageWords \in Nat
      BY <2>8, <2>9, <3>1, LoaderAssumption
    <3>3. r + i - a < ImageWords /\ i - a + 1 \in 1 .. m
      BY <3>2
    <3> QED
      BY <3>1, <3>3
  <2>11. RawWord(s, i) = s.words[i - s.at + 1]
    BY <2>10, Zenon DEF RawWord
  <2>12. s.words[i - s.at + 1] \in 0 .. Word - 1
    <3>1. PICK c \in 1 .. m : c = i - s.at + 1
      BY <2>10
    <3>2. PICK D : D = 0 .. Word - 1
      OBVIOUS
    <3>3. PICK t \in Seq(D) : t = s.words
      BY <2>8, <3>2
    <3>4. t[c] \in D
      BY <2>7, <3>3, ElementOfSeq
    <3> QED
      BY <3>1, <3>2, <3>3, <3>4
  <2> QED
    BY <2>5, <2>6, <2>11, <2>12, Zenon
<1>7. ASSUME NEW i \in 0 .. p.size - 1 PROVE Copy(i) \in Int
  <2>1. CASE In(i) = {}
    BY <2>1 DEF JUNK, Copy
  <2>2. CASE In(i) # {}
    <3>1. PICK k : k \in In(i)
      BY <2>2
    <3>2. Copy(i) \in 0 .. Word - 1
      BY <1>6, <3>1
    <3> QED
      BY <3>2, LoaderAssumption
  <2> QED
    BY <2>1, <2>2
<1>8. ASSUME NEW s \in Range(p.sections), NEW i \in Place(s)
      PROVE  i \in 0 .. p.size - 1 /\ Copy(i) = FileWord(p, i)
  <2>1. PICK k \in 1 .. n : s = p.sections[k]
    BY <1>1 DEF Range
  <2>2. i \in 0 .. p.size - 1
    <3>1. PICK a \in Nat, m \in Nat : a = s.at /\ m = Len(s.words) /\ a + m <= p.size
      BY <1>2, <2>1
    <3>2. i \in a .. a + m - 1
      BY <3>1 DEF Place
    <3> QED
      BY <3>1, <3>2
  <2>3. PICK c : c = CHOOSE e \in Range(p.sections) : i \in Place(e)
    OBVIOUS
  <2>4. c \in Range(p.sections) /\ i \in Place(c)
    BY <2>3, Zenon
  <2>5. PICK l \in 1 .. n : c = p.sections[l]
    BY <1>1, <2>4 DEF Range
  <2>6. l \in In(i)
    BY <1>3, <2>2, <2>4, <2>5
  <2>7. Copy(i) = c.words[i - c.at + 1]
    BY <1>6, <2>2, <2>5, <2>6
  <2>8. FileWord(p, i) = c.words[i - c.at + 1]
    BY <2>3, Zenon DEF FileWord
  <2> QED
    BY <2>2, <2>7, <2>8
<1>9. LdrCpySections(p) \in Memory(p.size)
  BY <1>7, <1>5 DEF Memory
<1> QED
  BY <1>5, <1>8, <1>9

\* What entry j of block k changes is its field.
LEMMA FieldIs ==
  ASSUME NEW p, NEW k, NEW j
  PROVE  /\ Field(p, k, j) = Words(p.relocs, k, j) /\ FieldAt(p, k, j) = At(p.relocs, k, j)
         /\ IsLong(p, k, j) <=> Type(p.relocs, k, j) \in Long
BY Zenon DEF Field, FieldAt, IsLong, Words, Touched, Type, At, Long

\* The entries of a well formed program are for fields inside its image.
LEMMA EntriesAreGood ==
  ASSUME NEW p, p.size \in Nat, WellFormed(p)
  PROVE  /\ Taken(p.relocs) \in Nat
         /\ \A k \in 1 .. Taken(p.relocs) :
               /\ GoodBlock(p.relocs[k], p.size)
               /\ Len(p.relocs[k].entries) \in Nat
               /\ DOMAIN p.relocs[k].entries = 1 .. Len(p.relocs[k].entries)
<1>1. Taken(p.relocs) \in Nat /\ \A k \in 1 .. Taken(p.relocs) : k \in DOMAIN p.relocs
  BY TakenAre DEF WellFormed
<1>2. ASSUME NEW k \in 1 .. Taken(p.relocs)
      PROVE  /\ GoodBlock(p.relocs[k], p.size)
             /\ Len(p.relocs[k].entries) \in Nat
             /\ DOMAIN p.relocs[k].entries = 1 .. Len(p.relocs[k].entries)
  <2>1. PICK b : b = p.relocs[k]
    OBVIOUS
  <2>2. b \in Range(p.relocs)
    BY <1>1, <2>1 DEF Range
  <2>3. /\ b.at \in Nat /\ b.entries \in Seq(Range(b.entries))
        /\ \A e \in Range(b.entries) : e.offset \in Nat
    BY <2>2, Zenon DEF WellFormed
  <2>4. PICK n \in Nat : n = Len(b.entries) /\ DOMAIN b.entries = 1 .. n
    BY <2>3, LenProperties
  <2>5. ASSUME NEW j \in 1 .. n PROVE GoodEntry(b.entries[j].type, b.at + b.entries[j].offset, p.size)
    <3>1. b.entries[j] \in Range(b.entries)
      BY <2>4 DEF Range
    <3>2. PICK at \in Nat : at = b.at + b.entries[j].offset
      BY <2>3, <3>1
    <3>3. ASSUME b.entries[j].type \in Long PROVE at + 1 < p.size
      <4>1. at + 1 \in Field(p, k, j)
        BY <2>1, <3>2, <3>3, Zenon DEF Field, FieldAt, IsLong, Long
      <4>2. j \in DOMAIN p.relocs[k].entries
        BY <2>1, <2>4
      <4>3. PICK s \in Range(p.sections) : at + 1 \in Place(s)
        BY <4>1, <4>2, Zenon DEF WellFormed
      <4>4. s.at \in Nat /\ s.words \in Seq(0 .. Word - 1) /\ s.at + Len(s.words) <= p.size
        BY Zenon DEF WellFormed
      <4>5. Len(s.words) \in Nat
        BY <4>4, LenProperties
      <4> QED
        BY <4>3, <4>4, <4>5 DEF Place
    <3> QED
      BY <3>2, <3>3 DEF GoodEntry
  <2>6. GoodBlock(b, p.size)
    BY <2>3, <2>4, <2>5 DEF GoodBlock
  <2> QED
    BY <2>1, <2>4, <2>6
<1> QED
  BY <1>1, <1>2

\* Adding the way the program has moved to the two words of an address.
Moved(x, y, a, b) == LET sum == x + Word * y + ((a - b) % (Word * Word))
                     IN  Low(sum) + Word * High(sum) = (x + Word * y + a - b) % (Word * Word)

\* Carries and wraps included.
LEMMA AddressMoved ==
  ASSUME NEW x \in Int, NEW y \in Int, NEW a \in Int, NEW b \in Int
  PROVE  Moved(x, y, a, b)
<1>0. PICK offset : offset = (a - b) % (Word * Word)
  OBVIOUS
<1>1. PICK w \in Nat \ {0} : w = Word
  BY LoaderAssumption
<1>2. PICK c \in Nat \ {0} : c = w * w
  OBVIOUS
<1>3. PICK v \in Int, d \in Int : v = x + w * y /\ d = a - b
  OBVIOUS
<1>4. PICK o \in Int : o = d % c /\ o = offset
  BY <1>0, <1>1, <1>2, <1>3, IntDivided
<1>5. PICK sum \in Int : sum = v + o
  OBVIOUS
<1>6. (sum % w) + w * ((sum \div w) % w) = sum % c
  BY <1>2, TwoDigits
<1>7. sum % c = (v + d) % c
  <2>1. (v + (d % c)) % c = (v + d) % c
    BY Wrapped
  <2> QED
    BY <1>4, <1>5, <2>1, Zenon
<1>8. v + d = x + w * y + a - b
  BY <1>3
<1>9. sum = x + w * y + offset
  BY <1>3, <1>4, <1>5
<1> QED
  BY <1>0, <1>1, <1>2, <1>6, <1>7, <1>8, <1>9, Zenon DEF Low, High, Moved

\* What is loaded of a well formed program that was read as a whole.
LEMMA ProgramLoaded ==
  ASSUME NEW p, p.size \in Nat, WellFormed(p), NEW base \in Int,
         \A s \in Range(p.sections) : s.raw + Len(s.words) <= ImageWords,
         NEW words, words = LdrRelocMemory(p, LdrCpySections(p), p.relocs, base)
  PROVE  /\ \A k \in 1 .. Taken(p.relocs) : \A j \in DOMAIN p.relocs[k].entries :
               IsLong(p, k, j) =>
                  words[FieldAt(p, k, j)] + Word * words[FieldAt(p, k, j) + 1] =
                     (FileWord(p, FieldAt(p, k, j)) + Word * FileWord(p, FieldAt(p, k, j) + 1)
                         + base - p.base) % (Word * Word)
         /\ \A s \in Range(p.sections), i \in 0 .. p.size - 1 :
               /\ i \in Place(s)
               /\ \A k \in 1 .. Taken(p.relocs) :
                     \A j \in DOMAIN p.relocs[k].entries : i \notin Field(p, k, j)
               => words[i] = FileWord(p, i)
<1>1. PICK w : w = LdrCpySections(p)
  OBVIOUS
<1>2. /\ w \in Memory(p.size)
      /\ \A s \in Range(p.sections) : \A i \in Place(s) : i \in 0 .. p.size - 1 /\ w[i] = FileWord(p, i)
  BY <1>1, SectionsCopied
<1>0. PICK blocks : blocks = p.relocs
  OBVIOUS
<1>3. PICK t \in Nat : t = Taken(blocks) /\ blocks = p.relocs
  BY <1>0, EntriesAreGood
<1>4. \A k \in 1 .. t : /\ GoodBlock(blocks[k], p.size)
                        /\ DOMAIN blocks[k].entries = 1 .. Len(blocks[k].entries)
  BY <1>3, EntriesAreGood
<1>5. p.base \in Int
  BY DEF WellFormed
<1>6. PICK d \in Int : d = (base - p.base) % (Word * Word)
  <2>1. PICK x \in Int, c \in Nat \ {0} : x = base - p.base /\ c = Word * Word
    BY <1>5, LoaderAssumption
  <2> QED
    BY <2>1, IntDivided
<1>7. PICK v : v = words
  OBVIOUS
<1>8. MemoryDone(p.size, w, v, blocks, d)
  <2>1. MemoryDone(p.size, w, LdrRelocMemory(p, w, blocks, base), blocks, (base - p.base) % (Word * Word))
    BY <1>2, <1>3, <1>4, <1>5, <1>6, MemoryApplied
  <2> QED
    BY <1>1, <1>3, <1>6, <1>7, <2>1, Zenon
<1>9. ASSUME NEW k \in 1 .. t, NEW j \in DOMAIN blocks[k].entries, IsLong(p, k, j)
      PROVE  v[FieldAt(p, k, j)] + Word * v[FieldAt(p, k, j) + 1] =
                (FileWord(p, FieldAt(p, k, j)) + Word * FileWord(p, FieldAt(p, k, j) + 1)
                    + base - p.base) % (Word * Word)
  <2>1. PICK at : at = FieldAt(p, k, j)
    OBVIOUS
  <2>2. at \in Field(p, k, j) /\ at + 1 \in Field(p, k, j)
    BY <1>9, <2>1, Zenon DEF Field
  <2>3. \A x \in {at, at + 1} : x \in 0 .. p.size - 1 /\ w[x] = FileWord(p, x)
    <3> SUFFICES ASSUME NEW x \in {at, at + 1} PROVE x \in 0 .. p.size - 1 /\ w[x] = FileWord(p, x)
      OBVIOUS
    <3>1. PICK s \in Range(p.sections) : x \in Place(s)
      BY <1>3, <2>2, Zenon DEF WellFormed
    <3> QED
      BY <1>2, <3>1
  <2>4. ASSUME NEW x \in Field(p, k, j) PROVE OnlyIn(blocks, k, j, x)
    <3> SUFFICES ASSUME NEW l \in 1 .. t, NEW m \in 1 .. Len(blocks[l].entries), k # l \/ j # m
                 PROVE  x \notin Words(blocks, l, m)
      BY <1>3, Zenon DEF OnlyIn
    <3>1. <<k, j>> # <<l, m>> /\ m \in DOMAIN blocks[l].entries
      BY <1>4
    <3>2. Field(p, k, j) \cap Field(p, l, m) = {}
      BY <1>3, <3>1, Zenon DEF WellFormed
    <3>3. Field(p, l, m) = Words(blocks, l, m)
      BY <1>3, FieldIs, Zenon
    <3> QED
      BY <3>2, <3>3
  <2>5. Added(w, v, at, d)
    <3>1. j \in 1 .. Len(blocks[k].entries)
      BY <1>4
    <3>2. at = At(blocks, k, j) /\ Type(blocks, k, j) \in Long
      BY <1>3, <1>9, <2>1, FieldIs, Zenon
    <3>3. OnlyIn(blocks, k, j, at) /\ OnlyIn(blocks, k, j, at + 1)
      BY <2>2, <2>4, Zenon
    <3> QED
      BY <1>3, <1>8, <3>1, <3>2, <3>3, Zenon DEF MemoryDone
  <2>6. PICK x \in Int, y \in Int : /\ x = w[at] /\ y = w[at + 1]
                                    /\ x = FileWord(p, at) /\ y = FileWord(p, at + 1)
    BY <1>2, <2>3 DEF Memory
  <2>7. v[at] = Low(x + Word * y + d) /\ v[at + 1] = High(x + Word * y + d)
    BY <2>5, <2>6, Zenon DEF Added
  <2>8. Low(x + Word * y + d) + Word * High(x + Word * y + d) = (x + Word * y + base - p.base) % (Word * Word)
    <3>1. Moved(x, y, base, p.base)
      BY <1>5, AddressMoved, Zenon
    <3> QED
      BY <1>6, <3>1, Zenon DEF Moved
  <2> QED
    BY <2>1, <2>6, <2>7, <2>8, Zenon
<1>10. ASSUME NEW s \in Range(p.sections), NEW i \in 0 .. p.size - 1, i \in Place(s),
              \A k \in 1 .. t : \A j \in DOMAIN blocks[k].entries : i \notin Field(p, k, j)
       PROVE  v[i] = FileWord(p, i)
  <2>1. ASSUME NEW k \in 1 .. t, NEW j \in 1 .. Len(blocks[k].entries) PROVE i \notin Words(blocks, k, j)
    <3>1. j \in DOMAIN blocks[k].entries
      BY <1>4
    <3>2. Field(p, k, j) = Words(blocks, k, j)
      BY <1>3, FieldIs, Zenon
    <3> QED
      BY <1>10, <3>1, <3>2, Zenon
  <2>2. v[i] = w[i]
    BY <1>3, <1>8, <2>1, Zenon DEF MemoryDone
  <2> QED
    BY <1>2, <1>10, <2>2
<1> QED
  BY <1>3, <1>7, <1>9, <1>10, Zenon

\* A program that runs, or waits for a loader it called, was loaded from its header.
GoodImage(p, m) ==
  /\ p \in Range(Programs) /\ m.base \in Int
  /\ p.directory /\ m.base # NULL =>
        m.words = LdrRelocMemory(p, LdrCpySections(p), p.relocs, m.base)

ImageInv ==
  /\ lpc = "entered" => GoodImage(pe, image)
  /\ \A i \in 1 .. Len(callers) : GoodImage(callers[i].pe, callers[i].image)

\* It is when it is loaded,
LEMMA GoodLoad == LoaderInv /\ LoadImage => GoodImage(pe', image')
<1> SUFFICES ASSUME LoaderInv, LoadImage PROVE GoodImage(pe', image')
  OBVIOUS
<1>1. PICK base \in Bases \cup {NULL}, blocks \in RelocBlocks :
         image' = IF base = NULL THEN NoImage
                  ELSE [base |-> base, words |-> LdrRelocMemory(pe, LdrCpySections(pe), blocks, base)]
  BY DEF LoadImage
<1>2. pe' = pe /\ pe \in Range(Programs)
  BY DEF LoadImage, LoaderInv
<1>3. CASE base = NULL
  <2>1. image'.base = NULL /\ NULL \in Int
    BY <1>1, <1>3 DEF NoImage, NULL
  <2> QED
    BY <1>2, <2>1 DEF GoodImage
<1>4. CASE base # NULL
  <2>1. base \in Int
    BY <1>4, LoaderAssumption
  <2>2. pe.directory => blocks = pe.relocs
    BY DEF RelocBlocks
  <2>3. PICK words : words = LdrRelocMemory(pe, LdrCpySections(pe), blocks, base)
    OBVIOUS
  <2>4. image'.base = base /\ image'.words = words
    <3>1. image' = [base |-> base, words |-> words]
      BY <1>1, <1>4, <2>3, Zenon
    <3> QED
      BY <3>1
  <2> QED
    BY <1>2, <2>1, <2>2, <2>3, <2>4, Zenon DEF GoodImage
<1> QED
  BY <1>3, <1>4

\* and stays so until it returns.
LEMMA ImageInvStep ==
  LoaderInv /\ ScriptInv /\ ImageInv /\ [LoaderNext]_loaderVars => ImageInv'
<1> SUFFICES ASSUME LoaderInv, ScriptInv, ImageInv, [LoaderNext]_loaderVars PROVE ImageInv'
  OBVIOUS
<1>0. GoodScripts(callers, script, nextToken, ran) /\ callers \in Seq(Range(callers))
  BY DEF ScriptInv, GoodScripts
<1>1. ASSUME UNCHANGED callers, lpc' = "entered" => GoodImage(pe', image') PROVE ImageInv'
  BY <1>1, Zenon DEF ImageInv
<1>2. ASSUME Leave PROVE ImageInv'
  <2>1. CASE callers = <<>>
    <3>1. lpc' # "entered" /\ UNCHANGED callers
      BY <1>2, <2>1 DEF Leave
    <3> QED
      BY <1>1, <3>1
  <2>2. CASE callers # <<>>
    <3>1. pe' = Last(callers).pe /\ image' = Last(callers).image /\ callers' = Front(callers)
      BY <1>2, <2>2 DEF Leave
    <3>2. PICK n, f, c : /\ n \in Nat \ {0} /\ n = Len(callers) /\ c = Last(callers) /\ f = callers'
                         /\ c = callers[n] /\ Len(f) = n - 1 /\ \A i \in 1 .. n - 1 : f[i] = callers[i]
      BY <1>0, <2>2, <3>1, TopOf
    <3>3. n \in 1 .. n /\ \A i \in 1 .. n - 1 : i \in 1 .. n
      BY <3>2
    <3>4. GoodImage(c.pe, c.image)
      BY <3>2, <3>3 DEF ImageInv
    <3>5. \A i \in 1 .. Len(f) : GoodImage(f[i].pe, f[i].image)
      BY <3>2, <3>3, Zenon DEF ImageInv
    <3> QED
      BY <3>1, <3>2, <3>4, <3>5, Zenon DEF ImageInv
  <2> QED
    BY <2>1, <2>2
<1>3. ASSUME Back PROVE ImageInv'
  BY <1>1, <1>2, <1>3 DEF Back
<1>4. CASE LoadImage
  BY <1>1, <1>4, GoodLoad DEF LoadImage
<1>5. CASE Others \/ UNCHANGED loaderVars
  <2>1. UNCHANGED <<lpc, pe, image, callers>>
    BY <1>5 DEF Others, loaderVars
  <2> QED
    BY <1>1, <2>1 DEF ImageInv
<1>6. CASE \E r \in Requests : LdrLoadPe(r) \/ LdrExecBat(r)
  <2>1. lpc' # "entered" /\ Called
    BY <1>6 DEF LdrLoadPe, LdrExecBat, Open
  <2>2. CASE UNCHANGED callers
    BY <1>1, <2>1, <2>2
  <2>3. CASE /\ lpc = "entered"
             /\ callers' = Append(callers, [pe |-> pe, image |-> image, script |-> script, ran |-> ran])
    <3>1. PICK c : c = [pe |-> pe, image |-> image, script |-> script, ran |-> ran]
      OBVIOUS
    <3>2. GoodImage(c.pe, c.image)
      BY <2>3, <3>1 DEF ImageInv
    <3>3. PICK cs2 : cs2 = callers'
      OBVIOUS
    <3>4. Longer(callers, c, cs2)
      BY <1>0, <2>3, <3>1, <3>3, OneMore
    <3>5. PICK n \in Nat : n = Len(callers)
      BY <1>0, LenProperties
    <3>6. ASSUME NEW i \in 1 .. n + 1 PROVE GoodImage(cs2[i].pe, cs2[i].image)
      <4>1. CASE i = n + 1
        BY <3>2, <3>4, <3>5, <4>1 DEF Longer
      <4>2. CASE i # n + 1
        <5>1. i \in 1 .. n
          BY <4>2
        <5> QED
          BY <3>4, <3>5, <5>1, Zenon DEF Longer, ImageInv
      <4> QED
        BY <4>1, <4>2
    <3>7. Len(cs2) = n + 1
      BY <3>4, <3>5 DEF Longer
    <3> QED
      BY <2>1, <3>3, <3>6, <3>7, Zenon DEF ImageInv
  <2> QED
    BY <2>1, <2>2, <2>3 DEF Called
<1>7. CASE NotOpened \/ Returns
  BY <1>3, <1>7 DEF NotOpened, Returns
<1>8. CASE ReadImage
  BY <1>1, <1>8 DEF ReadImage
<1>9. CASE LdrProcessPe
  <2>1. Back \/ (lpc' = "load" /\ UNCHANGED callers)
    BY <1>9 DEF LdrProcessPe
  <2> QED
    BY <1>1, <1>3, <2>1
<1>10. CASE ExecLine \/ StaleLine
  <2>1. UNCHANGED callers /\ lpc' # "entered"
    BY <1>10 DEF ExecLine, StaleLine, NsExec, Open
  <2> QED
    BY <1>1, <2>1
<1>11. CASE ScriptEnds
  BY <1>2, <1>11 DEF ScriptEnds
<1>12. CASE ReadScript
  <2>1. lpc' = "line" /\ (UNCHANGED callers \/ RobCallers)
    BY <1>12 DEF ReadScript
  <2>2. CASE UNCHANGED callers
    BY <1>1, <2>1, <2>2
  <2>3. CASE RobCallers
    <3>1. PICK cs2 : cs2 = callers'
      OBVIOUS
    <3>2. GoodScript(script, nextToken, ran)
      BY <1>0 DEF GoodScripts
    <3>3. /\ Len(cs2) = Len(callers)
          /\ \A i \in 1 .. Len(callers) : cs2[i].pe = callers[i].pe /\ cs2[i].image = callers[i].image
      BY <1>0, <2>3, <3>1, <3>2, ScriptsRobbed DEF RobCallers
    <3>4. \A i \in 1 .. Len(cs2) : GoodImage(cs2[i].pe, cs2[i].image)
      BY <3>3, Zenon DEF ImageInv
    <3> QED
      BY <2>1, <3>1, <3>4, Zenon DEF ImageInv
  <2> QED
    BY <2>1, <2>2, <2>3
<1> QED
  BY <1>4, <1>5, <1>6, <1>7, <1>8, <1>9, <1>10, <1>11, <1>12 DEF LoaderNext

\* Programs are entered relocated: whatever sections and fields a well formed
\* one has, wherever it is loaded, its addresses have moved with it and its
\* other words are those of the file (LdrCpySections, LdrRelocMemory).
THEOREM ProgramsAreRelocated == LoaderSpec => []ImageIsRelocated
<1>1. LoaderInit => ImageInv
  <2> SUFFICES ASSUME LoaderInit PROVE ImageInv
    OBVIOUS
  <2>1. lpc # "entered" /\ callers = <<>>
    BY DEF LoaderInit
  <2>2. 1 .. Len(callers) = {}
    BY <2>1
  <2> QED
    BY <2>1, <2>2, Zenon DEF ImageInv
<1>2. ImageInv => ImageIsRelocated
  <2> SUFFICES ASSUME ImageInv, lpc = "entered", image.base # NULL, pe.directory, WellFormed(pe),
                      \A s \in Range(pe.sections) : s.raw + Len(s.words) <= ImageWords
               PROVE  ImageIsRelocated
    BY Zenon DEF ImageIsRelocated
  <2>1. PICK p, words, base : p = pe /\ words = image.words /\ base = image.base
    OBVIOUS
  <2>2. /\ base \in Int /\ p \in Range(Programs)
        /\ words = LdrRelocMemory(p, LdrCpySections(p), p.relocs, base)
    BY <2>1, Zenon DEF ImageInv, GoodImage
  <2>3. /\ p.size \in Nat /\ WellFormed(p)
        /\ \A s \in Range(p.sections) : s.raw + Len(s.words) <= ImageWords
    BY <2>1, <2>2, LoaderAssumption
  <2>4. /\ \A k \in 1 .. Taken(p.relocs) : \A j \in DOMAIN p.relocs[k].entries :
              IsLong(p, k, j) =>
                 words[FieldAt(p, k, j)] + Word * words[FieldAt(p, k, j) + 1] =
                    (FileWord(p, FieldAt(p, k, j)) + Word * FileWord(p, FieldAt(p, k, j) + 1)
                        + base - p.base) % (Word * Word)
        /\ \A s \in Range(p.sections), i \in 0 .. p.size - 1 :
              /\ i \in Place(s)
              /\ \A k \in 1 .. Taken(p.relocs) :
                    \A j \in DOMAIN p.relocs[k].entries : i \notin Field(p, k, j)
              => words[i] = FileWord(p, i)
    BY <2>2, <2>3, ProgramLoaded, Zenon
  <2> QED
    BY <2>1, <2>4, Zenon DEF ImageIsRelocated, Value32
<1>3. LoaderSpec => []ScriptInv
  BY ScriptInvInit, ScriptInvStep, PTL DEF LoaderSpec
<1> QED
  BY <1>1, <1>2, <1>3, ImageInvStep, LoaderInvariance, PTL DEF LoaderSpec
=============================================================================

---------------------------- MODULE PagingProofs ----------------------------
(***************************************************************************)
(* What the operations of module Paging do to the directories and to the   *)
(* heap, for directories of any number of entries, pages of any size and a *)
(* heap of any blocks.  Module ProcessProofs uses these lemmas where it    *)
(* proves Paging's properties of the running kernel.                       *)
(***************************************************************************)
EXTENDS Paging, NumberLemmas, FiniteSetTheorems, FunctionTheorems, TLAPS

-----------------------------------------------------------------------------
(* Numbers *)

\* An entry gives back the address it was made of.
LEMMA EntryAddress ==
  ASSUME NEW a \in Nat, a % PageSize = 0, NEW f \in AllFlags
  PROVE  AddressOf(a + f) = a /\ a + f \in Nat
<1>1. PageSize \in Nat \ {0} /\ f \in 0 .. PageSize - 1
  BY PagingAssumption DEF AllFlags
<1>2. a = (a \div PageSize) * PageSize + 0 /\ a \div PageSize \in Nat
  BY <1>1
<1>3. ((a \div PageSize) * PageSize + f) % PageSize = f
  BY <1>1, <1>2, DivMod
<1> QED
  BY <1>1, <1>2, <1>3 DEF AddressOf

\* A page has a table and a place in it, which paging_get_indexes finds, which
\* are where the processor looks, and from which the page follows.
LEMMA PageIndexes ==
  ASSUME NEW v \in Pages
  PROVE  /\ DirectoryIndex(v) \in Index /\ TableIndex(v) \in Index
         /\ (v \div PageSize) \div Entries = DirectoryIndex(v)
         /\ (v \div PageSize) % Entries = TableIndex(v)
         /\ TablePage(DirectoryIndex(v), TableIndex(v)) = v
         /\ v \in Nat /\ v % PageSize = 0
<1>1. PICK p \in 0 .. Entries * Entries - 1 : v = p * PageSize
  BY DEF Pages
<1> DEFINE i == p \div Entries
           j == p % Entries
<1>2. Entries \in Nat \ {0} /\ PageSize \in Nat \ {0} /\ p \in Nat
  BY PagingAssumption
<1>3. p = i * Entries + j /\ j \in 0 .. Entries - 1 /\ i \in Nat
  BY <1>2
<1>4. i < Entries
  <2>1. i >= Entries => i * Entries >= Entries * Entries
    BY <1>2, <1>3
  <2> QED
    BY <1>2, <1>3, <2>1
<1>5. v \div PageSize = p /\ v % PageSize = 0
  BY <1>1, <1>2, DivMod, p * PageSize + 0 = p * PageSize
<1>6. TableSpan \in Nat \ {0}
  BY <1>2 DEF TableSpan
<1> HIDE DEF i, j
<1>7. v = i * TableSpan + j * PageSize
  <2>1. p * PageSize = (i * Entries + j) * PageSize
    BY <1>3
  <2>2. (i * Entries + j) * PageSize = i * (Entries * PageSize) + j * PageSize
    BY <1>2, <1>3
  <2> QED
    BY <1>1, <2>1, <2>2 DEF TableSpan
<1>8. j * PageSize \in Nat /\ j * PageSize < TableSpan
  <2>1. (Entries - j) * PageSize > 0
    BY <1>2, <1>3
  <2> QED
    BY <1>2, <1>3, <2>1 DEF TableSpan
<1>9. v \div TableSpan = i /\ v % TableSpan = j * PageSize
  BY <1>3, <1>6, <1>7, <1>8, DivMod
<1>10. (j * PageSize) \div PageSize = j
  BY <1>2, <1>3, DivMod, j * PageSize + 0 = j * PageSize
<1> QED
  BY <1>2, <1>3, <1>4, <1>5, <1>7, <1>9, <1>10, <1>1
     DEF i, j, DirectoryIndex, TableIndex, TablePage, Index

\* The aligned addresses of the address space are its pages.
LEMMA AlignedIsPage ==
  ASSUME NEW v \in Nat, v % PageSize = 0, v < Entries * TableSpan
  PROVE  v \in Pages
<1> DEFINE p == v \div PageSize
<1>1. Entries \in Nat \ {0} /\ PageSize \in Nat \ {0}
  BY PagingAssumption
<1>2. v = p * PageSize /\ p \in Nat
  BY <1>1
<1>3. p < Entries * Entries
  <2>1. p >= Entries * Entries => p * PageSize >= (Entries * Entries) * PageSize
    BY <1>1, <1>2
  <2>2. (Entries * Entries) * PageSize = Entries * TableSpan
    BY <1>1 DEF TableSpan
  <2> HIDE DEF p
  <2> QED
    BY <1>1, <1>2, <2>1, <2>2
<1> HIDE DEF p
<1> QED
  BY <1>1, <1>2, <1>3 DEF Pages

\* kzalloc's blocks are free and different from one another.
LEMMA LowestFree ==
  ASSUME NEW n \in Nat, n <= Cardinality(HeapBlocks \ used)
  PROVE  /\ Lowest(n) \in [1 .. n -> HeapBlocks \ used]
         /\ \A i, j \in 1 .. n : Lowest(n)[i] = Lowest(n)[j] => i = j
<1> DEFINE F == HeapBlocks \ used
           Below(b) == {c \in F : c < b}
           m == Cardinality(F)
           f == [b \in F |-> Cardinality(Below(b))]
<1>1. F \subseteq Nat /\ IsFiniteSet(F) /\ m \in Nat
  BY PagingAssumption, FS_Difference, FS_CardinalityType
<1>2. \A b \in F : IsFiniteSet(Below(b)) /\ Cardinality(Below(b)) \in Nat
  BY <1>1, FS_Subset, FS_CardinalityType
<1>3. \A b \in F : Cardinality(Below(b)) < m
  <2> TAKE b \in F
  <2>1. Below(b) \in SUBSET F /\ Below(b) # F
    BY <1>1
  <2>2. Cardinality(Below(b)) <= m /\ Cardinality(Below(b)) # m
    BY <1>1, <2>1, FS_Subset
  <2> QED
    BY <1>1, <1>2, <2>2
<1>4. \A b, c \in F : b < c => Cardinality(Below(b)) < Cardinality(Below(c))
  <2> TAKE b, c \in F
  <2> HAVE b < c
  <2>1. Below(b) \in SUBSET Below(c) /\ b \in Below(c) /\ b \notin Below(b)
    BY <1>1
  <2>2. Cardinality(Below(b)) <= Cardinality(Below(c)) /\ Cardinality(Below(b)) # Cardinality(Below(c))
    BY <1>2, <2>1, FS_Subset
  <2> QED
    BY <1>2, <2>2
<1> HIDE DEF m, F, Below
<1>5. f \in [F -> 0 .. m - 1]
  BY <1>1, <1>2, <1>3
<1>6. \A b, c \in F : f[b] = f[c] => b = c
  <2> TAKE b, c \in F
  <2>1. b \in Nat /\ c \in Nat /\ f[b] \in Nat /\ f[c] \in Nat
    BY <1>1, <1>2
  <2>2. b < c => f[b] < f[c]
    BY <1>4
  <2>3. c < b => f[c] < f[b]
    BY <1>4
  <2> HIDE DEF f
  <2> QED
    BY <2>1, <2>2, <2>3
<1> HIDE DEF f
<1>7. f \in Injection(F, 0 .. m - 1)
  BY <1>5, <1>6, Fun_IsInj
<1>8. IsFiniteSet(0 .. m - 1) /\ Cardinality(0 .. m - 1) = m
  BY <1>1, FS_Interval
<1>9. f \in Surjection(F, 0 .. m - 1)
  <2>1. Cardinality(F) = Cardinality(0 .. m - 1)
    BY <1>8 DEF m
  <2> QED
    BY <1>7, <1>8, <2>1, FS_Injection, Zenon
<1>10. \A k \in 1 .. n : \E b \in F : Cardinality(Below(b)) = k - 1
  <2> TAKE k \in 1 .. n
  <2>1. k - 1 \in 0 .. m - 1
    BY <1>1 DEF m, F
  <2>2. PICK b \in F : f[b] = k - 1
    BY <1>9, <2>1, Zenon DEF Surjection
  <2> QED
    BY <2>2 DEF f
<1>11. \A k \in 1 .. n : Lowest(n)[k] \in F /\ Cardinality(Below(Lowest(n)[k])) = k - 1
  BY <1>10 DEF Lowest, F, Below
<1>12. DOMAIN Lowest(n) = 1 .. n /\ Lowest(n) = [k \in 1 .. n |-> Lowest(n)[k]]
  BY DEF Lowest
<1> QED
  BY <1>11, <1>12 DEF F

-----------------------------------------------------------------------------
(* The invariant *)

\* The i-th table of directory d.
TableAt(d, i) == AddressOf(directory[d][i])

\* OwnBlocks without counting: the blocks of a directory differ from each other.
Apart ==
  /\ \A d \in Dirs : /\ d # chunk[d]
                     /\ \A i \in Index : TableAt(d, i) \notin {d, chunk[d]}
                     /\ \A i, j \in Index : TableAt(d, i) = TableAt(d, j) => i = j
  /\ \A d, e \in Dirs : d # e => BlocksOf(d) \cap BlocksOf(e) = {}
  /\ \A d \in Dirs : BlocksOf(d) \subseteq used
  /\ DOMAIN table = UNION {TablesOf(d) : d \in Dirs}

\* MapsToItself by table and place.
ToItself ==
  \A d \in Dirs, i, j \in Index :
     <<d, TablePage(i, j)>> \notin remapped => AddressOf(table[TableAt(d, i)][j]) = TablePage(i, j)

PagingInv == TypeOK /\ Apart /\ ToItself

\* What the processor finds for a page is where paging_set puts it.
LEMMA EntryAt ==
  ASSUME NEW d, NEW v \in Pages
  PROVE  Entry(d, v) = table[TableAt(d, DirectoryIndex(v))][TableIndex(v)]
BY PageIndexes DEF Entry, TableAt

\* The blocks of a directory, counted.
LEMMA CountBlocks ==
  ASSUME PagingInv, NEW d \in Dirs
  PROVE  IsFiniteSet(BlocksOf(d)) /\ Cardinality(BlocksOf(d)) = Entries + 2
<1> DEFINE f == [i \in Index |-> TableAt(d, i)]
<1>1. Entries \in Nat \ {0}
  BY PagingAssumption
<1>2. IsFiniteSet(Index) /\ Cardinality(Index) = Entries
  BY <1>1, FS_Interval DEF Index
<1>3. f \in Bijection(Index, TablesOf(d))
  <2>1. f \in [Index -> TablesOf(d)]
    BY DEF TablesOf, TableAt
  <2>2. \A i, j \in Index : f[i] = f[j] => i = j
    BY DEF PagingInv, Apart
  <2>3. \A t \in TablesOf(d) : \E i \in Index : f[i] = t
    BY DEF TablesOf, TableAt
  <2> HIDE DEF f
  <2>4. f \in Injection(Index, TablesOf(d)) /\ f \in Surjection(Index, TablesOf(d))
    BY <2>1, <2>2, <2>3, Fun_IsInj, Fun_IsSurj
  <2> QED
    BY <2>4, Fun_IsBij
<1>4. IsFiniteSet(TablesOf(d)) /\ Cardinality(TablesOf(d)) = Entries
  BY <1>2, <1>3, FS_Bijection DEF ExistsBijection
<1>5. d \notin TablesOf(d) /\ chunk[d] \notin TablesOf(d) \cup {d}
  BY DEF PagingInv, Apart, TablesOf, TableAt
<1>6. IsFiniteSet(TablesOf(d) \cup {d}) /\ Cardinality(TablesOf(d) \cup {d}) = Entries + 1
  BY <1>4, <1>5, FS_AddElement
<1>7. /\ IsFiniteSet((TablesOf(d) \cup {d}) \cup {chunk[d]})
      /\ Cardinality((TablesOf(d) \cup {d}) \cup {chunk[d]}) = (Entries + 1) + 1
  BY <1>5, <1>6, FS_AddElement
<1>8. BlocksOf(d) = (TablesOf(d) \cup {d}) \cup {chunk[d]}
  BY DEF BlocksOf
<1> QED
  BY <1>1, <1>7, <1>8

\* The invariant says what the runs check.
LEMMA PagingInvImplies == PagingInv => TypeOK /\ OwnBlocks /\ MapsToItself
<1> SUFFICES ASSUME PagingInv PROVE TypeOK /\ OwnBlocks /\ MapsToItself
  OBVIOUS
<1>1. OwnBlocks
  BY CountBlocks DEF PagingInv, Apart, OwnBlocks
<1>2. MapsToItself
  <2> SUFFICES ASSUME NEW d \in Dirs, NEW v \in Pages, <<d, v>> \notin remapped
               PROVE  AddressOf(Entry(d, v)) = v
    BY DEF MapsToItself
  <2>1. /\ DirectoryIndex(v) \in Index /\ TableIndex(v) \in Index
        /\ TablePage(DirectoryIndex(v), TableIndex(v)) = v
    BY PageIndexes
  <2> QED
    BY <2>1, EntryAt DEF PagingInv, ToItself
<1> QED
  BY <1>1, <1>2 DEF PagingInv

\* A directory that was never made has no blocks to lose.
LEMMA PagingInitInv == PagingInit => PagingInv
<1> SUFFICES ASSUME PagingInit PROVE PagingInv
  OBVIOUS
<1>1. Dirs = {} /\ DOMAIN table = {} /\ DOMAIN chunk = {}
  BY DEF PagingInit, Dirs
<1>2. chunk \in [Dirs -> HeapBlocks] /\ directory \in [Dirs -> [Index -> Nat]]
      /\ table \in [DOMAIN table -> [Index -> Nat]]
  BY <1>1 DEF PagingInit
<1>3. TypeOK
  BY <1>1, <1>2 DEF PagingInit, TypeOK
<1> QED
  BY <1>1, <1>3 DEF PagingInv, Apart, ToItself

-----------------------------------------------------------------------------
(* The operations *)

\* paging_new_4gb adds a directory of its own blocks that maps every page to
\* itself, and leaves the others as they are.
LEMMA NewDirectory ==
  ASSUME PagingInv, NEW flags \in FlagSets,
         NEW b \in [1 .. Entries + 2 -> HeapBlocks \ used],
         \A i, j \in 1 .. Entries + 2 : b[i] = b[j] => i = j,
         paging_new_4gb(b, flags),
         used' \subseteq HeapBlocks, used \subseteq used',
         \A i \in 1 .. Entries + 2 : b[i] \in used'
  PROVE  /\ PagingInv'
         /\ Dirs' = Dirs \cup {b[1]} /\ b[1] \notin Dirs
         /\ BlocksOf(b[1])' = {b[i] : i \in 1 .. Entries + 2}
         /\ \A e \in Dirs : BlocksOf(e)' = BlocksOf(e)
         /\ \A e \in Dirs, v \in Pages : Entry(e, v)' = Entry(e, v)
<1> DEFINE d == b[1]
           t == NewTables(b)
           c == b[Entries + 2]
           tables == {t[i] : i \in Index}
<1>1. Entries \in Nat \ {0} /\ PageSize \in Nat \ {0}
  BY PagingAssumption
<1>2. /\ d \in HeapBlocks \ used /\ c \in HeapBlocks \ used /\ d # c
      /\ \A i \in Index : t[i] \in HeapBlocks \ used /\ t[i] # d /\ t[i] # c
      /\ \A i, j \in Index : t[i] = t[j] => i = j
  BY <1>1 DEF NewTables, Index
<1>3. /\ chunk' = [e \in Dirs \cup {d} |-> IF e = d THEN c ELSE chunk[e]]
      /\ directory' = [e \in Dirs \cup {d} |->
                          IF e = d THEN [i \in Index |-> t[i] + OrWriteable(flags)]
                          ELSE directory[e]]
      /\ table' = [a \in DOMAIN table \cup tables |->
                      IF a \in tables
                      THEN LET i == CHOOSE i \in Index : t[i] = a
                           IN  [j \in Index |-> TablePage(i, j) + flags]
                      ELSE table[a]]
      /\ current' = current /\ remapped' = remapped
  BY DEF paging_new_4gb, NewEntries
<1> HIDE DEF t
<1>4. Dirs \subseteq used /\ DOMAIN table \subseteq used
  BY DEF PagingInv, Apart, BlocksOf
<1>5. d \notin Dirs /\ tables \cap DOMAIN table = {}
  BY <1>2, <1>4
<1>6. Dirs' = Dirs \cup {d}
  BY <1>3 DEF Dirs
<1>7. /\ \A e \in Dirs : directory'[e] = directory[e] /\ chunk'[e] = chunk[e]
      /\ \A i \in Index : directory'[d][i] = t[i] + OrWriteable(flags)
      /\ chunk'[d] = c
  BY <1>3, <1>5
<1>8. \A i \in Index : AddressOf(directory'[d][i]) = t[i] /\ t[i] + OrWriteable(flags) \in Nat
  <2> TAKE i \in Index
  <2>1. t[i] \in Nat /\ t[i] % PageSize = 0 /\ OrWriteable(flags) \in AllFlags
    BY <1>2, PagingAssumption
  <2> QED
    BY <1>7, <2>1, EntryAddress
<1>9. /\ \A a \in DOMAIN table : table'[a] = table[a]
      /\ \A i \in Index : table'[t[i]] = [j \in Index |-> TablePage(i, j) + flags]
      /\ DOMAIN table' = DOMAIN table \cup tables
  <2>1. \A a \in DOMAIN table : table'[a] = table[a]
    BY <1>3, <1>5
  <2>2. ASSUME NEW i \in Index PROVE table'[t[i]] = [j \in Index |-> TablePage(i, j) + flags]
    <3>1. (CHOOSE k \in Index : t[k] = t[i]) = i
      BY <1>2
    <3> QED
      BY <1>3, <3>1
  <2> QED
    BY <1>3, <2>1, <2>2
<1>10. \A e \in Dirs : TablesOf(e)' = TablesOf(e) /\ BlocksOf(e)' = BlocksOf(e)
  BY <1>7 DEF TablesOf, BlocksOf
<1>11. TablesOf(d)' = tables /\ BlocksOf(d)' = {d, c} \cup tables
  BY <1>7, <1>8 DEF TablesOf, BlocksOf
<1>12. {d, c} \cup tables = {b[i] : i \in 1 .. Entries + 2}
  <2>1. \A x : x \in {b[i] : i \in 1 .. Entries + 2} => x \in {d, c} \cup tables
    <3> SUFFICES ASSUME NEW i \in 1 .. Entries + 2 PROVE b[i] \in {d, c} \cup tables
      OBVIOUS
    <3>1. CASE i \in {1, Entries + 2}
      BY <3>1
    <3>2. CASE i \notin {1, Entries + 2}
      <4>1. i - 2 \in Index /\ (i - 2) + 2 = i
        BY <1>1, <3>2 DEF Index
      <4> QED
        BY <4>1 DEF t, NewTables
    <3> QED
      BY <3>1, <3>2
  <2>2. \A i \in Index : i + 2 \in 1 .. Entries + 2 /\ t[i] = b[i + 2]
    BY <1>1 DEF t, NewTables, Index
  <2>3. 1 \in 1 .. Entries + 2 /\ Entries + 2 \in 1 .. Entries + 2
    BY <1>1
  <2> QED
    BY <2>1, <2>2, <2>3
<1>13. ASSUME NEW i \in Index, NEW j \in Index
       PROVE  /\ TablePage(i, j) \in Nat /\ TablePage(i, j) + flags \in Nat
              /\ AddressOf(TablePage(i, j) + flags) = TablePage(i, j)
  <2>1. TablePage(i, j) \in Nat
    BY <1>1 DEF TablePage, Index, TableSpan
  <2>2. TablePage(i, j) = (i * Entries + j) * PageSize + 0 /\ i * Entries + j \in Nat
    BY <1>1 DEF TablePage, Index, TableSpan
  <2>3. TablePage(i, j) % PageSize = 0
    BY <1>1, <2>2, DivMod
  <2> QED
    BY <2>1, <2>3, EntryAddress, PagingAssumption
<1>14. TypeOK'
  <2>1. chunk' \in [Dirs' -> HeapBlocks] /\ Dirs' \subseteq HeapBlocks
    BY <1>2, <1>3, <1>6 DEF PagingInv, TypeOK
  <2>2. directory' \in [Dirs' -> [Index -> Nat]]
    BY <1>3, <1>5, <1>6, <1>8 DEF PagingInv, TypeOK
  <2>3. \A a \in DOMAIN table' : table'[a] \in [Index -> Nat]
    <3>1. \A a \in DOMAIN table : table[a] \in [Index -> Nat]
      BY DEF PagingInv, TypeOK
    <3>2. ASSUME NEW i \in Index PROVE table'[t[i]] \in [Index -> Nat]
      <4>1. table'[t[i]] = [j \in Index |-> TablePage(i, j) + flags]
        BY <1>9
      <4>2. \A j \in Index : TablePage(i, j) + flags \in Nat
        BY <1>13
      <4> QED
        BY <4>1, <4>2
    <3> QED
      BY <1>9, <3>1, <3>2
  <2>4. table' \in [DOMAIN table' -> [Index -> Nat]]
    BY <1>3, <2>3
  <2>5. current' \in Dirs' \cup {0} /\ remapped' \subseteq Dirs' \X Pages
    BY <1>3, <1>6 DEF PagingInv, TypeOK
  <2> QED
    BY <2>1, <2>2, <2>4, <2>5 DEF TypeOK
<1>15. Apart'
  <2>1. ASSUME NEW e \in Dirs'
        PROVE  /\ e # chunk'[e]
               /\ \A i \in Index : TableAt(e, i)' \notin {e, chunk'[e]}
               /\ \A i, j \in Index : TableAt(e, i)' = TableAt(e, j)' => i = j
    BY <1>2, <1>6, <1>7, <1>8 DEF PagingInv, Apart, TableAt
  <2>2. \A e \in Dirs : BlocksOf(e) \cap ({d, c} \cup tables) = {}
    BY <1>2 DEF PagingInv, Apart
  <2>3. \A e, g \in Dirs' : e # g => BlocksOf(e)' \cap BlocksOf(g)' = {}
    BY <1>6, <1>10, <1>11, <2>2 DEF PagingInv, Apart
  <2>4. \A e \in Dirs' : BlocksOf(e)' \subseteq used'
    BY <1>6, <1>10, <1>11, <1>12 DEF PagingInv, Apart
  <2>5. DOMAIN table' = UNION {TablesOf(e)' : e \in Dirs'}
    BY <1>6, <1>9, <1>10, <1>11 DEF PagingInv, Apart
  <2> QED
    BY <2>1, <2>3, <2>4, <2>5 DEF Apart
<1>16. ToItself'
  <2> SUFFICES ASSUME NEW e \in Dirs', NEW i \in Index, NEW j \in Index,
                      <<e, TablePage(i, j)>> \notin remapped'
               PROVE  AddressOf(table'[TableAt(e, i)'][j]) = TablePage(i, j)
    BY DEF ToItself, TablePage
  <2>1. CASE e = d
    <3>1. TableAt(e, i)' = t[i]
      BY <1>8, <2>1 DEF TableAt
    <3>2. table'[t[i]] = [k \in Index |-> TablePage(i, k) + flags]
      BY <1>9
    <3>3. table'[TableAt(e, i)'][j] = TablePage(i, j) + flags
      BY <3>1, <3>2
    <3> QED
      BY <1>13, <3>3
  <2>2. CASE e \in Dirs
    <3>1. TableAt(e, i)' = TableAt(e, i) /\ TableAt(e, i) \in DOMAIN table
      BY <1>7, <2>2 DEF TableAt, PagingInv, Apart, TablesOf
    <3> QED
      BY <1>3, <1>9, <2>2, <3>1 DEF PagingInv, ToItself
  <2> QED
    BY <1>6, <2>1, <2>2
<1>17. ASSUME NEW e \in Dirs, NEW v \in Pages PROVE Entry(e, v)' = Entry(e, v)
  <2>1. DirectoryIndex(v) \in Index /\ (v \div PageSize) \div Entries = DirectoryIndex(v)
    BY PageIndexes
  <2>2. AddressOf(directory[e][DirectoryIndex(v)]) \in DOMAIN table
    BY <2>1 DEF PagingInv, Apart, TablesOf
  <2> QED
    BY <1>7, <1>9, <2>1, <2>2 DEF Entry
<1> QED
  BY <1>5, <1>6, <1>10, <1>11, <1>12, <1>14, <1>15, <1>16, <1>17 DEF PagingInv

\* paging_free_4gb gives back what paging_new_4gb got for a directory it could not
\* finish.
LEMMA HalfMade ==
  ASSUME NEW flags \in FlagSets, NEW b \in [1 .. Entries + 2 -> HeapBlocks \cup {0}],
         b[Entries + 2] = 0
  PROVE  paging_free_4gb(NewEntries(b, flags), b[1], 0) = {b[i] : i \in 1 .. Entries + 2} \ {0}
<1> DEFINE A == {AddressOf(NewEntries(b, flags)[i]) : i \in Index}
           B == {b[i] : i \in 1 .. Entries + 2}
<1>1. Entries \in Nat \ {0} /\ PageSize \in Nat \ {0}
  BY PagingAssumption
<1>2. ASSUME NEW i \in Index
      PROVE  i + 2 \in 1 .. Entries + 2 /\ AddressOf(NewEntries(b, flags)[i]) = b[i + 2]
  <2>1. i + 2 \in 1 .. Entries + 2
    BY <1>1 DEF Index
  <2>2. b[i + 2] \in Nat /\ b[i + 2] % PageSize = 0
    <3>1. 0 % PageSize = 0
      BY <1>1
    <3>2. b[i + 2] \in HeapBlocks \cup {0}
      BY <2>1
    <3>3. \A x \in HeapBlocks : x \in Nat /\ x % PageSize = 0
      BY PagingAssumption
    <3> QED
      BY <3>1, <3>2, <3>3
  <2>3. NewEntries(b, flags)[i] = b[i + 2] + OrWriteable(flags)
    BY DEF NewEntries, NewTables
  <2> QED
    BY <2>1, <2>2, <2>3, EntryAddress, PagingAssumption
<1>3. 1 \in 1 .. Entries + 2
  BY <1>1
<1>4. A \cup {b[1]} \subseteq B
  <2>1. A \subseteq B
    BY <1>2
  <2> QED
    BY <1>3, <2>1
<1>5. \A i \in 1 .. Entries + 2 : b[i] \in A \cup {b[1], 0}
  <2> TAKE i \in 1 .. Entries + 2
  <2>1. CASE i \in {1, Entries + 2}
    BY <2>1
  <2>2. CASE i \notin {1, Entries + 2}
    <3>1. i - 2 \in Index /\ (i - 2) + 2 = i
      BY <1>1, <2>2 DEF Index
    <3>2. AddressOf(NewEntries(b, flags)[i - 2]) = b[i]
      BY <1>2, <3>1
    <3> QED
      BY <3>1, <3>2
  <2> QED
    BY <2>1, <2>2
<1>6. paging_free_4gb(NewEntries(b, flags), b[1], 0) = (A \cup {b[1], 0}) \ {0}
  BY DEF paging_free_4gb
<1> HIDE DEF A
<1> QED
  BY <1>4, <1>5, <1>6

\* Others taking blocks and giving them back, and paging_switch, leave the
\* directories as they are.
LEMMA SamePages ==
  ASSUME PagingInv, UNCHANGED <<chunk, directory, table, remapped>>,
         \A e \in Dirs : BlocksOf(e) \subseteq used', used' \subseteq HeapBlocks,
         current' \in Dirs \cup {0}
  PROVE  /\ PagingInv'
         /\ Dirs' = Dirs
         /\ \A e \in Dirs : BlocksOf(e)' = BlocksOf(e)
         /\ \A e \in Dirs, v \in Pages : Entry(e, v)' = Entry(e, v)
<1>1. /\ Dirs' = Dirs
      /\ \A e \in Dirs : TablesOf(e)' = TablesOf(e) /\ BlocksOf(e)' = BlocksOf(e)
  BY DEF Dirs, TablesOf, BlocksOf
<1>2. \A e \in Dirs, i \in Index : TableAt(e, i)' = TableAt(e, i)
  BY DEF TableAt
<1>3. TypeOK'
  BY <1>1 DEF PagingInv, TypeOK
<1>4. DOMAIN table' = UNION {TablesOf(e)' : e \in Dirs'}
  BY <1>1 DEF PagingInv, Apart
<1>5. Apart'
  <2>1. ASSUME NEW e \in Dirs'
        PROVE  /\ e # chunk'[e]
               /\ \A i \in Index : TableAt(e, i)' \notin {e, chunk'[e]}
               /\ \A i, j \in Index : TableAt(e, i)' = TableAt(e, j)' => i = j
    <3>1. e \in Dirs /\ chunk'[e] = chunk[e]
      BY <1>1
    <3> QED
      BY <1>2, <3>1 DEF PagingInv, Apart
  <2> QED
    BY <1>1, <1>4, <2>1 DEF PagingInv, Apart
<1>6. ToItself'
  BY <1>1, <1>2 DEF PagingInv, ToItself
<1>7. \A e \in Dirs, v \in Pages : Entry(e, v)' = Entry(e, v)
  BY DEF Entry
<1> QED
  BY <1>1, <1>3, <1>5, <1>6, <1>7 DEF PagingInv

\* paging_set changes the page it is given, of the directory it is given, and
\* no other of any directory.
LEMMA SetPage ==
  ASSUME PagingInv, NEW d \in Dirs, NEW v \in Virtual, NEW val \in Nat, paging_set(d, v, val)
  PROVE  /\ PagingInv'
         /\ UNCHANGED <<used, chunk, directory, current>>
         /\ \A e \in Dirs, w \in Pages :
               Entry(e, w)' # Entry(e, w) => e = d /\ w = v /\ <<d, v>> \in remapped'
<1>1. CASE UNCHANGED pagingVars
  BY <1>1, SamePages DEF pagingVars, PagingInv, TypeOK, Apart
<1>2. CASE v % PageSize = 0
  <2> DEFINE I == DirectoryIndex(v)
             J == TableIndex(v)
             a == TableAt(d, I)
  <2>1. v \in Pages
    <3>1. v \in Nat /\ v < Entries * TableSpan
      BY PagingAssumption
    <3> QED
      BY <1>2, <3>1, AlignedIsPage
  <2>2. I \in Index /\ J \in Index /\ TablePage(I, J) = v
    BY <2>1, PageIndexes
  <2>3. /\ table' = [table EXCEPT ![a][J] = val]
        /\ remapped' = remapped \cup {<<d, v>>}
        /\ UNCHANGED <<used, chunk, directory, current>>
    BY <1>2 DEF paging_set, paging_is_aligned, TableOf, TableAt
  <2>4. a \in DOMAIN table /\ table[a] \in [Index -> Nat]
    BY <2>2 DEF PagingInv, Apart, TypeOK, TablesOf, TableAt
  <2> HIDE DEF I, J, a
  <2>5. /\ DOMAIN table' = DOMAIN table
        /\ \A x \in DOMAIN table \ {a} : table'[x] = table[x]
        /\ \A j \in Index : table'[a][j] = IF j = J THEN val ELSE table[a][j]
        /\ table'[a] \in [Index -> Nat]
    BY <2>2, <2>3, <2>4
  <2>6. Dirs' = Dirs /\ (\A e \in Dirs : TablesOf(e)' = TablesOf(e) /\ BlocksOf(e)' = BlocksOf(e))
        /\ \A e \in Dirs, i \in Index : TableAt(e, i)' = TableAt(e, i)
    BY <2>3 DEF Dirs, TablesOf, BlocksOf, TableAt
  <2>7. ASSUME NEW e \in Dirs, NEW i \in Index, NEW j \in Index, <<e, i, j>> # <<d, I, J>>
        PROVE  table'[TableAt(e, i)][j] = table[TableAt(e, i)][j]
    <3>1. TableAt(e, i) \in DOMAIN table
      BY DEF PagingInv, Apart, TablesOf, TableAt
    <3>2. TableAt(e, i) = a => e = d /\ i = I
      BY <2>2 DEF PagingInv, Apart, TablesOf, BlocksOf, TableAt, a
    <3> QED
      BY <2>5, <2>7, <3>1, <3>2
  <2>8. TypeOK'
    <3>1. table' \in [DOMAIN table' -> [Index -> Nat]]
      BY <2>3, <2>4, <2>5 DEF PagingInv, TypeOK
    <3>2. remapped' \subseteq Dirs' \X Pages
      BY <2>1, <2>3, <2>6 DEF PagingInv, TypeOK
    <3> QED
      BY <2>3, <2>6, <3>1, <3>2 DEF PagingInv, TypeOK
  <2>9. Apart'
    BY <2>3, <2>5, <2>6 DEF PagingInv, Apart
  <2>10. ToItself'
    <3> SUFFICES ASSUME NEW e \in Dirs', NEW i \in Index, NEW j \in Index,
                        <<e, TablePage(i, j)>> \notin remapped'
                 PROVE  AddressOf(table'[TableAt(e, i)'][j]) = TablePage(i, j)
      BY DEF ToItself, TablePage
    <3>1. <<e, TablePage(i, j)>> \notin remapped /\ <<e, i, j>> # <<d, I, J>>
      BY <2>2, <2>3
    <3> QED
      BY <2>6, <2>7, <3>1 DEF PagingInv, ToItself
  <2>11. ASSUME NEW e \in Dirs, NEW w \in Pages, Entry(e, w)' # Entry(e, w)
         PROVE  e = d /\ w = v
    <3> DEFINE i == DirectoryIndex(w)
               j == TableIndex(w)
    <3>1. /\ i \in Index /\ j \in Index /\ TablePage(i, j) = w
          /\ (w \div PageSize) \div Entries = i /\ (w \div PageSize) % Entries = j
      BY PageIndexes
    <3> HIDE DEF i, j
    <3>2. Entry(e, w) = table[TableAt(e, i)][j] /\ Entry(e, w)' = table'[TableAt(e, i)'][j]
      BY <3>1 DEF Entry, TableAt
    <3>3. <<e, i, j>> = <<d, I, J>>
      BY <2>6, <2>7, <2>11, <3>1, <3>2
    <3> QED
      BY <2>2, <3>1, <3>3
  <2> QED
    BY <2>3, <2>8, <2>9, <2>10, <2>11 DEF PagingInv
<1> QED
  BY <1>1, <1>2 DEF paging_set, paging_is_aligned

\* paging_map, paging_map_range and paging_map_to set one page or none.
LEMMA MapTo ==
  ASSUME NEW d, NEW v, NEW p, NEW end, NEW f, paging_map_to(d, v, p, end, f)
  PROVE  UNCHANGED pagingVars \/ paging_set(d, v, p + f)
BY DEF paging_map_to, paging_map_range, paging_map
=============================================================================

------------------------------ MODULE WFSProofs ------------------------------
(***************************************************************************)
(* Proofs about WFS: its bitmaps, directory tree and file contents stay    *)
(* sound under any sequence of operations, for every size of the image.    *)
(*                                                                         *)
(* The invariant IInv says of every place on the disk, reachable or not,   *)
(* what SpaceSound and TreeSound say of what can be reached.  Operations   *)
(* are loops over the pointers of an inode: a loop is followed through a   *)
(* set of states that its rounds do not leave (Iterate), which rests on    *)
(* the induction over its rounds (Induction).                              *)
(***************************************************************************)
EXTENDS WFS, FiniteSetTheorems, SequenceTheorems, WellFoundedInduction, TLAPS

-----------------------------------------------------------------------------
(* Loops *)

\* A set of naturals has a least element.
LEMMA Least ==
  ASSUME NEW T \in SUBSET Nat, T # {}
  PROVE  \E x \in T : \A y \in T : x <= y
<1>1. PICK R : R = {ss \in Nat \X Nat : ss[1] < ss[2]}
  OBVIOUS
<1>2. IsWellFoundedOn(R, Nat)
  BY <1>1, NatLessThanWellFounded DEF OpToRel
<1>3. PICK x \in T : \A y \in T : ~(<<y, x>> \in R)
  BY <1>2, WFMin
<1>4. ASSUME NEW y \in T PROVE x <= y
  <2>1. x \in Nat /\ y \in Nat
    OBVIOUS
  <2>2. ~(y < x)
    BY <1>1, <1>3, <2>1
  <2> QED
    BY <2>1, <2>2
<1> QED
  BY <1>4

\* Induction over the rounds of a loop: G is the set of rounds where something holds.
LEMMA Induction ==
  ASSUME NEW n \in Nat, NEW G, 0 \in G, \A k \in 0 .. n - 1 : k \in G => k + 1 \in G
  PROVE  \A k \in 0 .. n : k \in G
<1>1. PICK B : B = {k \in 0 .. n : k \notin G}
  OBVIOUS
<1> SUFFICES ASSUME B # {} PROVE FALSE
  BY <1>1
<1>2. PICK x \in B : \A y \in B : x <= y
  <2>1. B \in SUBSET Nat
    BY <1>1
  <2> QED
    BY <2>1, Least
<1>3. x \in Nat /\ x <= n /\ x # 0
  BY <1>1, <1>2
<1>4. x - 1 \in 0 .. n /\ x - 1 < x /\ x - 1 \in 0 .. n - 1 /\ x - 1 + 1 = x
  BY <1>3
<1>5. x - 1 \in G
  BY <1>1, <1>2, <1>3, <1>4
<1> QED
  BY <1>1, <1>4, <1>5

\* F is the course of a loop with step function R.
Course(F, n, S, start, R) ==
  /\ F \in [0 .. n -> S] /\ F[0] = start
  /\ \A k \in 0 .. n - 1 : F[k + 1] = R[<<F[k], k>>]

\* A step function on a set of states can be iterated.
LEMMA Iterate ==
  ASSUME NEW n \in Nat, NEW S, NEW start \in S, NEW R \in [S \X (0 .. n - 1) -> S]
  PROVE  \E F : Course(F, n, S, start, R)
<1>1. PICK G : G = {l \in 0 .. n : \E F : Course(F, l, S, start, R)}
  OBVIOUS
<1>2. 0 \in G
  <2>1. PICK F : F = [k \in 0 .. 0 |-> start]
    OBVIOUS
  <2>2. Course(F, 0, S, start, R)
    BY <2>1 DEF Course
  <2> QED
    BY <1>1, <2>2
<1>3. ASSUME NEW l \in 0 .. n - 1, l \in G PROVE l + 1 \in G
  <2>1. PICK F : Course(F, l, S, start, R)
    BY <1>1, <1>3
  <2>2. F \in [0 .. l -> S] /\ F[0] = start /\ \A k \in 0 .. l - 1 : F[k + 1] = R[<<F[k], k>>]
    BY <2>1 DEF Course
  <2>3. PICK x \in S : x = R[<<F[l], l>>]
    <3>1. <<F[l], l>> \in S \X (0 .. n - 1)
      BY <2>2
    <3> QED
      BY <3>1
  <2>4. PICK H : H = [k \in 0 .. l + 1 |-> IF k = l + 1 THEN x ELSE F[k]]
    OBVIOUS
  <2>5. H \in [0 .. l + 1 -> S] /\ H[0] = start
    BY <2>2, <2>4
  <2>6. ASSUME NEW k \in 0 .. l PROVE H[k + 1] = R[<<H[k], k>>]
    <3>1. H[k] = F[k]
      BY <2>4
    <3>2. CASE k = l
      <4>1. H[l + 1] = x /\ H[l] = F[l]
        BY <2>4
      <4>2. x = R[<<H[l], l>>]
        BY <2>3, <4>1
      <4>3. H[l + 1] = R[<<H[l], l>>]
        BY <4>1, <4>2
      <4> QED
        BY <3>2, <4>3
    <3>3. CASE k # l
      <4>1. H[k + 1] = F[k + 1] /\ k \in 0 .. l - 1
        BY <2>4, <3>3
      <4> QED
        BY <2>2, <3>1, <4>1
    <3> QED
      BY <3>2, <3>3
  <2>7. Course(H, l + 1, S, start, R)
    BY <2>5, <2>6 DEF Course
  <2>8. l + 1 \in 0 .. n
    OBVIOUS
  <2> QED
    BY <1>1, <2>7, <2>8
<1>4. n \in G
  <2>1. \A k \in 0 .. n : k \in G
    BY <1>2, <1>3, Induction
  <2> QED
    BY <2>1
<1> QED
  BY <1>1, <1>4

-----------------------------------------------------------------------------
(* The invariant *)

Slots == 0 .. EntriesPerBlock - 1
Places == Blocks \X Slots

\* Types of what is on the disk.
DentryRecs == [name : Names \cup {""}, num : Inodes]
InodeRecs == [mode : {"none", "file", "dir"}, size : 0 .. FileMax,
              blocks : [0 .. IND_BLOCK -> {0} \cup Blocks]]
BlockRecs == [dentry : [Slots -> DentryRecs], ptr : [0 .. PtrsPerBlock - 1 -> {0} \cup Blocks],
              data : {0} \cup Values]
Disks == [i_bitmap : SUBSET Inodes, d_bitmap : SUBSET Blocks, inode : [Inodes -> InodeRecs],
          block : [Blocks -> BlockRecs]]

\* Pointer k of inode i, the entries of its indirect block numbered after its own.
Ref(d, i, k) == IF k <= IND_BLOCK THEN d.inode[i].blocks[k] ELSE Pointer(d, i, k - 1)

\* What inodes point to is marked, and pointed to once; what is not marked is zero.
Marked(d) == \A i \in d.i_bitmap, k \in 0 .. FileMax : Ref(d, i, k) # 0 => Ref(d, i, k) \in d.d_bitmap
Once(d) == \A i, j \in d.i_bitmap, k, l \in 0 .. FileMax :
             Ref(d, i, k) # 0 /\ Ref(d, i, k) = Ref(d, j, l) => i = j /\ k = l
FreeIsZero(d) == \A b \in Blocks \ d.d_bitmap : d.block[b] = ZeroBlock
Space(d) == Marked(d) /\ Once(d) /\ FreeIsZero(d)

\* Block b belongs to directory i.
InDir(d, i, b) == \E k \in 0 .. D_BLOCK : d.inode[i].blocks[k] = b

\* Inodes: the root is a directory, a directory has size 0, only marked ones have a mode.
NodesSound(d) ==
  /\ 0 \in d.i_bitmap /\ d.inode[0].mode = "dir"
  /\ \A i \in Inodes : /\ i \in d.i_bitmap <=> d.inode[i].mode # "none"
                       /\ d.inode[i].mode = "dir" => d.inode[i].size = 0

\* Entries, wherever they are on the disk: one with a number has a name, is in a block of
\* a directory and names a marked inode that no other entry names; every marked inode but
\* the root has one; and a directory has no name twice.
NumNamed(d) == \A h \in Places : EntryAt(d, h).num = 0 <=> EntryAt(d, h).name = ""
Housed(d) == \A h \in Places : EntryAt(d, h).num # 0 =>
                                 /\ EntryAt(d, h).num \in d.i_bitmap
                                 /\ \E i \in Dirs(d) : InDir(d, i, h[1])
NumOnce(d) == \A g, h \in Places :
                EntryAt(d, g).num # 0 /\ EntryAt(d, g).num = EntryAt(d, h).num => g = h
Linked(d) == \A i \in d.i_bitmap \ {0} : \E h \in Places : EntryAt(d, h).num = i
NameOnce(d) == \A i \in Dirs(d), g, h \in Places :
                 /\ InDir(d, i, g[1]) /\ InDir(d, i, h[1]) /\ EntryAt(d, g).num # 0
                 /\ EntryAt(d, g).name = EntryAt(d, h).name
                 => g = h
EntriesSound(d) == NumNamed(d) /\ Housed(d) /\ NumOnce(d) /\ Linked(d) /\ NameOnce(d)

Sound(d) == d \in Disks /\ Space(d) /\ NodesSound(d) /\ EntriesSound(d)

\* What has been written and can be read back; only files have been written to.
WrittenThere ==
  /\ wrote \in [Inodes -> [0 .. FileMax - 1 -> {0} \cup Values]]
  /\ \A i \in Inodes : disk.inode[i].mode # "file" =>
       i \notin skipped /\ \A k \in 0 .. FileMax - 1 : wrote[i][k] = 0
  /\ \A i \in Inodes \ skipped, k \in 0 .. FileMax - 1 :
       wrote[i][k] # 0 => ReadBlock(disk, i, k) = wrote[i][k] /\ k < disk.inode[i].size

IInv == early \in BOOLEAN /\ (early \/ (Sound(disk) /\ WrittenThere))

-----------------------------------------------------------------------------
(* Facts about the disk *)

\* The constants derived from the parameters.
LEMMA Sizes ==
  /\ D_BLOCK \in Nat /\ IND_BLOCK \in Nat /\ IND_BLOCK = D_BLOCK + 1
  /\ PtrsPerBlock \in Nat \ {0} /\ FileMax \in Nat /\ FileMax = IND_BLOCK + PtrsPerBlock
  /\ NI \in Nat \ {0} /\ NB \in Nat \ {0} /\ EntriesPerBlock \in Nat \ {0}
<1>1. /\ D_BLOCK \in Nat /\ PtrsPerBlock \in Nat \ {0}
      /\ NI \in Nat \ {0} /\ NB \in Nat \ {0} /\ EntriesPerBlock \in Nat \ {0}
  BY WFSAssumption
<1> QED
  BY <1>1 DEF IND_BLOCK, FileMax

\* A set of naturals contains its minimum.
LEMMA MinIs ==
  ASSUME NEW T \in SUBSET Nat, T # {}
  PROVE  Min(T) \in T
BY Least DEF Min

\* And it is the least.
LEMMA MinLeast ==
  ASSUME NEW T \in SUBSET Nat, T # {}
  PROVE  \E m \in T : m = Min(T) /\ \A y \in T : m <= y
BY Least DEF Min

\* allocate_block finds a clear bit if there is one, and otherwise returns -1.
LEMMA Allocate ==
  ASSUME NEW bits, NEW all \in SUBSET Nat
  PROVE  \/ allocate_block(bits, all) = -1
         \/ allocate_block(bits, all) \in all \ bits
<1>1. CASE all \subseteq bits
  BY <1>1 DEF allocate_block
<1>2. CASE ~(all \subseteq bits)
  <2>1. all \ bits \in SUBSET Nat /\ all \ bits # {}
    BY <1>2
  <2>2. Min(all \ bits) \in all \ bits
    BY <2>1, MinIs
  <2> QED
    BY <1>2, <2>2 DEF allocate_block
<1> QED
  BY <1>1, <1>2

\* The zeros have the types of what they fill.
LEMMA ZeroTypes ==
  /\ ZeroBlock \in BlockRecs /\ NoEntry \in DentryRecs
  /\ NoEntry.num = 0 /\ NoEntry.name = "" /\ ZeroBlock.data = 0
  /\ \A j \in Slots : ZeroBlock.dentry[j] = NoEntry
  /\ \A m \in 0 .. PtrsPerBlock - 1 : ZeroBlock.ptr[m] = 0
  /\ ZeroInode \in InodeRecs /\ ZeroInode.size = 0
  /\ \A k \in 0 .. IND_BLOCK : ZeroInode.blocks[k] = 0
<1>1. NoEntry \in DentryRecs
  BY Sizes DEF NoEntry, DentryRecs, Inodes
<1>2. ZeroBlock \in BlockRecs
  BY <1>1 DEF ZeroBlock, BlockRecs, Slots
<1>3. ZeroInode \in InodeRecs
  BY Sizes DEF ZeroInode, InodeRecs
<1>4. NoEntry.num = 0 /\ NoEntry.name = "" /\ ZeroBlock.data = 0
  BY DEF NoEntry, ZeroBlock
<1> QED
  BY <1>1, <1>2, <1>3, <1>4 DEF ZeroBlock, ZeroInode, Slots

\* The fields of a disk and of its parts.
LEMMA DiskType ==
  ASSUME NEW d \in Disks
  PROVE  /\ d.i_bitmap \subseteq Inodes /\ d.d_bitmap \subseteq Blocks
         /\ d.inode \in [Inodes -> InodeRecs] /\ d.block \in [Blocks -> BlockRecs]
         /\ \A i \in Inodes : /\ d.inode[i] \in InodeRecs
                              /\ d.inode[i].mode \in {"none", "file", "dir"}
                              /\ d.inode[i].size \in 0 .. FileMax
                              /\ d.inode[i].blocks \in [0 .. IND_BLOCK -> {0} \cup Blocks]
         /\ \A b \in Blocks : /\ d.block[b] \in BlockRecs
                              /\ d.block[b].dentry \in [Slots -> DentryRecs]
                              /\ d.block[b].ptr \in [0 .. PtrsPerBlock - 1 -> {0} \cup Blocks]
                              /\ d.block[b].data \in {0} \cup Values
<1>1. /\ d.i_bitmap \subseteq Inodes /\ d.d_bitmap \subseteq Blocks
      /\ d.inode \in [Inodes -> InodeRecs] /\ d.block \in [Blocks -> BlockRecs]
  BY DEF Disks
<1>2. \A i \in Inodes : d.inode[i] \in InodeRecs
  BY <1>1
<1>3. \A b \in Blocks : d.block[b] \in BlockRecs
  BY <1>1
<1>4. ASSUME NEW x \in InodeRecs
      PROVE  /\ x.mode \in {"none", "file", "dir"} /\ x.size \in 0 .. FileMax
             /\ x.blocks \in [0 .. IND_BLOCK -> {0} \cup Blocks]
  BY DEF InodeRecs
<1>5. ASSUME NEW x \in BlockRecs
      PROVE  /\ x.dentry \in [Slots -> DentryRecs] /\ x.data \in {0} \cup Values
             /\ x.ptr \in [0 .. PtrsPerBlock - 1 -> {0} \cup Blocks]
  BY DEF BlockRecs
<1> QED
  BY <1>1, <1>2, <1>3, <1>4, <1>5

\* Entries are entries.
LEMMA EntryType ==
  ASSUME NEW d \in Disks, NEW h \in Places
  PROVE  /\ EntryAt(d, h) \in DentryRecs
         /\ EntryAt(d, h).name \in Names \cup {""} /\ EntryAt(d, h).num \in Inodes
<1>1. h[1] \in Blocks /\ h[2] \in Slots
  BY DEF Places
<1>2. d.block[h[1]].dentry \in [Slots -> DentryRecs]
  BY <1>1, DiskType
<1>3. EntryAt(d, h) \in DentryRecs
  BY <1>1, <1>2 DEF EntryAt
<1> QED
  BY <1>3 DEF DentryRecs

\* A pointer is null or a block; the first ones are those of the inode.
LEMMA RefType ==
  ASSUME NEW d \in Disks, NEW i \in Inodes, NEW k \in 0 .. FileMax
  PROVE  /\ Ref(d, i, k) \in {0} \cup Blocks
         /\ k <= IND_BLOCK => Ref(d, i, k) = d.inode[i].blocks[k]
         /\ k > IND_BLOCK /\ Ref(d, i, IND_BLOCK) = 0 => Ref(d, i, k) = 0
         /\ k > IND_BLOCK /\ Ref(d, i, IND_BLOCK) # 0 =>
              /\ k - 1 - IND_BLOCK \in 0 .. PtrsPerBlock - 1
              /\ Ref(d, i, k) = d.block[Ref(d, i, IND_BLOCK)].ptr[k - 1 - IND_BLOCK]
<1>1. d.inode[i].blocks \in [0 .. IND_BLOCK -> {0} \cup Blocks]
  BY DiskType
<1>2. Ref(d, i, IND_BLOCK) = d.inode[i].blocks[IND_BLOCK]
  BY Sizes DEF Ref
<1>3. CASE k <= IND_BLOCK
  <2>1. k \in 0 .. IND_BLOCK
    BY <1>3, Sizes
  <2> QED
    BY <1>1, <1>3, <2>1, Sizes DEF Ref
<1>4. CASE k > IND_BLOCK
  <2>1. /\ ~(k <= IND_BLOCK) /\ ~(k - 1 < IND_BLOCK)
        /\ k - 1 - IND_BLOCK \in 0 .. PtrsPerBlock - 1
        /\ IND_BLOCK \in 0 .. IND_BLOCK
    BY <1>4, Sizes
  <2>2. CASE Ref(d, i, IND_BLOCK) = 0
    <3>1. Ref(d, i, k) = 0
      BY <1>2, <2>1, <2>2 DEF Ref, Pointer
    <3> QED
      BY <2>1, <2>2, <3>1
  <2>3. CASE Ref(d, i, IND_BLOCK) # 0
    <3>1. Ref(d, i, k) = d.block[Ref(d, i, IND_BLOCK)].ptr[k - 1 - IND_BLOCK]
      BY <1>2, <2>1, <2>3 DEF Ref, Pointer
    <3>2. Ref(d, i, IND_BLOCK) \in Blocks
      BY <1>1, <1>2, <2>1, <2>3
    <3>3. d.block[Ref(d, i, IND_BLOCK)].ptr \in [0 .. PtrsPerBlock - 1 -> {0} \cup Blocks]
      BY <3>2, DiskType
    <3>4. Ref(d, i, k) \in {0} \cup Blocks
      BY <2>1, <3>1, <3>3
    <3> QED
      BY <2>1, <2>3, <3>1, <3>4
  <2> QED
    BY <2>2, <2>3
<1> QED
  BY <1>3, <1>4, Sizes

\* Where wfs_read finds the pointer of block k.
Pos(k) == IF k < IND_BLOCK THEN k ELSE k + 1

\* Reading goes through the pointers.
LEMMA ReadIs ==
  ASSUME NEW d, NEW i, NEW k \in 0 .. FileMax - 1
  PROVE  /\ Pos(k) \in 0 .. FileMax /\ Pos(k) # IND_BLOCK
         /\ Pointer(d, i, k) = Ref(d, i, Pos(k))
         /\ ReadBlock(d, i, k) = IF Ref(d, i, Pos(k)) = 0 THEN -1
                                ELSE d.block[Ref(d, i, Pos(k))].data
<1>1. Pos(k) \in 0 .. FileMax /\ Pos(k) # IND_BLOCK
  BY Sizes DEF Pos
<1>2. Pointer(d, i, k) = Ref(d, i, Pos(k))
  <2>1. CASE k < IND_BLOCK
    BY <2>1, Sizes DEF Pos, Ref, Pointer
  <2>2. CASE ~(k < IND_BLOCK)
    <3>1. Pos(k) = k + 1 /\ ~(k + 1 <= IND_BLOCK) /\ k + 1 - 1 = k
      BY <2>2, Sizes DEF Pos
    <3> QED
      BY <3>1 DEF Ref
  <2> QED
    BY <2>1, <2>2
<1> QED
  BY <1>1, <1>2 DEF ReadBlock

\* InDir is about the pointers.
LEMMA InDirIs ==
  ASSUME NEW d, NEW i, NEW b
  PROVE  InDir(d, i, b) <=> \E k \in 0 .. D_BLOCK : Ref(d, i, k) = b
<1>1. ASSUME NEW k \in 0 .. D_BLOCK PROVE Ref(d, i, k) = d.inode[i].blocks[k]
  BY Sizes DEF Ref
<1> QED
  BY <1>1 DEF InDir

-----------------------------------------------------------------------------
(* Consequences of soundness *)

\* The parts of Sound, with the ranges spelled out.
LEMMA SoundParts ==
  ASSUME NEW d, Sound(d)
  PROVE  /\ d \in Disks /\ d.i_bitmap \subseteq Inodes /\ d.d_bitmap \subseteq Blocks
         /\ \A i \in d.i_bitmap, k \in 0 .. FileMax :
              Ref(d, i, k) # 0 => Ref(d, i, k) \in d.d_bitmap
         /\ \A i, j \in d.i_bitmap, k, l \in 0 .. FileMax :
              Ref(d, i, k) # 0 /\ Ref(d, i, k) = Ref(d, j, l) => i = j /\ k = l
         /\ \A b \in Blocks \ d.d_bitmap : d.block[b] = ZeroBlock
         /\ NodesSound(d) /\ NumNamed(d) /\ Housed(d) /\ NumOnce(d) /\ Linked(d) /\ NameOnce(d)
BY DiskType DEF Sound, Space, Marked, Once, FreeIsZero, EntriesSound

\* No two pointers of inodes in use are the same.
LEMMA OneRef ==
  ASSUME NEW d, Sound(d), NEW i \in d.i_bitmap, NEW j \in d.i_bitmap,
         NEW k \in 0 .. FileMax, NEW l \in 0 .. FileMax,
         Ref(d, i, k) # 0, Ref(d, i, k) = Ref(d, j, l)
  PROVE  i = j /\ k = l
BY DEF Sound, Space, Once

\* An entry in use is in a block that a directory has a direct pointer to, and nothing
\* else points to that block.
LEMMA EntryOwner ==
  ASSUME NEW d, Sound(d), NEW h \in Places, EntryAt(d, h).num # 0
  PROVE  \E i \in Dirs(d), k \in 0 .. D_BLOCK :
           /\ Ref(d, i, k) = h[1]
           /\ \A j \in d.i_bitmap, l \in 0 .. FileMax : Ref(d, j, l) = h[1] => j = i /\ l = k
<1>1. PICK i \in Dirs(d) : InDir(d, i, h[1])
  BY SoundParts DEF Housed
<1>2. PICK k \in 0 .. D_BLOCK : Ref(d, i, k) = h[1]
  BY <1>1, InDirIs
<1>3. k \in 0 .. FileMax /\ i \in d.i_bitmap /\ h[1] # 0
  BY Sizes DEF Dirs, Blocks, Places
<1>4. \A j \in d.i_bitmap, l \in 0 .. FileMax : Ref(d, j, l) = h[1] => j = i /\ l = k
  BY <1>2, <1>3, SoundParts
<1> QED
  BY <1>2, <1>4

\* No entry in use is in a block of a file, or in an indirect block or what it points to.
LEMMA NotOwner ==
  ASSUME NEW d, Sound(d), NEW i \in d.i_bitmap, NEW k \in 0 .. FileMax,
         d.inode[i].mode # "dir" \/ k > D_BLOCK,
         NEW h \in Places, Ref(d, i, k) = h[1]
  PROVE  EntryAt(d, h).num = 0 /\ EntryAt(d, h).name = ""
<1>1. ASSUME EntryAt(d, h).num # 0 PROVE FALSE
  <2>1. PICK j \in Dirs(d), l \in 0 .. D_BLOCK :
          \A m \in d.i_bitmap, n \in 0 .. FileMax : Ref(d, m, n) = h[1] => m = j /\ n = l
    BY <1>1, EntryOwner
  <2>2. i = j /\ k = l
    BY <2>1
  <2>3. d.inode[j].mode = "dir" /\ ~(l > D_BLOCK)
    BY Sizes DEF Dirs
  <2> QED
    BY <2>2, <2>3
<1>2. EntryAt(d, h).num = 0 <=> EntryAt(d, h).name = ""
  BY SoundParts DEF NumNamed
<1> QED
  BY <1>1, <1>2

\* The name and the number of an entry are both there or both not.
LEMMA NameNum ==
  ASSUME NEW d, Sound(d), NEW h \in Places
  PROVE  EntryAt(d, h).num = 0 <=> EntryAt(d, h).name = ""
BY SoundParts DEF NumNamed

\* A free block has no entries in use.
LEMMA FreeNoEntry ==
  ASSUME NEW d, Sound(d), NEW h \in Places, h[1] \notin d.d_bitmap
  PROVE  EntryAt(d, h).num = 0 /\ EntryAt(d, h).name = ""
<1>1. d.block[h[1]] = ZeroBlock /\ h[2] \in Slots
  BY SoundParts DEF Places
<1>2. EntryAt(d, h) = NoEntry
  BY <1>1, ZeroTypes DEF EntryAt
<1> QED
  BY <1>2, ZeroTypes

\* A disk that differs from a sound one in a new pointer to a free block, where there
\* was a null pointer, is sound.
LEMMA NewRef ==
  ASSUME NEW d, Sound(d), NEW e \in Disks, NEW i \in d.i_bitmap, NEW k \in 0 .. FileMax,
         NEW b \in Blocks \ d.d_bitmap, Ref(d, i, k) = 0,
         e.i_bitmap = d.i_bitmap, e.d_bitmap = d.d_bitmap \cup {b},
         \A j \in Inodes : e.inode[j].mode = d.inode[j].mode /\ e.inode[j].size = d.inode[j].size,
         \A h \in Places : EntryAt(e, h) = EntryAt(d, h),
         \A x \in Blocks \ e.d_bitmap : e.block[x] = d.block[x],
         \A j \in d.i_bitmap, l \in 0 .. FileMax :
           Ref(e, j, l) = IF j = i /\ l = k THEN b ELSE Ref(d, j, l)
  PROVE  Sound(e)
<1>1. /\ \A j \in d.i_bitmap, l \in 0 .. FileMax : Ref(d, j, l) # 0 => Ref(d, j, l) \in d.d_bitmap
      /\ \A j, m \in d.i_bitmap, l, n \in 0 .. FileMax :
           Ref(d, j, l) # 0 /\ Ref(d, j, l) = Ref(d, m, n) => j = m /\ l = n
      /\ \A x \in Blocks \ d.d_bitmap : d.block[x] = ZeroBlock
      /\ d.i_bitmap \subseteq Inodes /\ b # 0
  BY SoundParts DEF Blocks
<1>2. Marked(e)
  BY <1>1 DEF Marked
<1>3. Once(e)
  <2> SUFFICES ASSUME NEW j \in d.i_bitmap, NEW m \in d.i_bitmap, NEW l \in 0 .. FileMax,
                      NEW n \in 0 .. FileMax, Ref(e, j, l) # 0, Ref(e, j, l) = Ref(e, m, n)
               PROVE  j = m /\ l = n
    BY DEF Once
  <2>1. Ref(d, j, l) # b /\ Ref(d, m, n) # b
    BY <1>1
  <2> QED
    BY <1>1, <2>1
<1>4. FreeIsZero(e)
  BY <1>1 DEF FreeIsZero
<1>5. NodesSound(e)
  <2>1. NodesSound(d)
    BY SoundParts
  <2>2. 0 \in Inodes
    BY Sizes DEF Inodes
  <2> QED
    BY <2>1, <2>2 DEF NodesSound
<1>6. Dirs(e) = Dirs(d)
  BY <1>1 DEF Dirs
<1>7. ASSUME NEW j \in d.i_bitmap, NEW x PROVE InDir(d, j, x) /\ x \in Blocks => InDir(e, j, x)
  <2> SUFFICES ASSUME InDir(d, j, x), x \in Blocks PROVE InDir(e, j, x)
    OBVIOUS
  <2>1. PICK l \in 0 .. D_BLOCK : Ref(d, j, l) = x
    BY InDirIs
  <2>2. l \in 0 .. FileMax /\ x # 0
    BY Sizes DEF Blocks
  <2>3. Ref(e, j, l) = x
    BY <2>1, <2>2
  <2> QED
    BY <2>3, InDirIs
<1>8. ASSUME NEW j \in d.i_bitmap, NEW x, x # b, InDir(e, j, x) PROVE InDir(d, j, x)
  <2>1. PICK l \in 0 .. D_BLOCK : Ref(e, j, l) = x
    BY <1>8, InDirIs
  <2>2. l \in 0 .. FileMax
    BY Sizes
  <2>3. Ref(d, j, l) = x
    BY <1>8, <2>1, <2>2
  <2> QED
    BY <2>3, InDirIs
<1>9. Housed(e)
  <2> SUFFICES ASSUME NEW h \in Places, EntryAt(e, h).num # 0
               PROVE  EntryAt(e, h).num \in e.i_bitmap /\ \E j \in Dirs(e) : InDir(e, j, h[1])
    BY DEF Housed
  <2>1. EntryAt(d, h).num # 0 /\ EntryAt(e, h) = EntryAt(d, h) /\ h[1] \in Blocks
    BY DEF Places
  <2>2. EntryAt(d, h).num \in d.i_bitmap /\ \E j \in Dirs(d) : InDir(d, j, h[1])
    BY <2>1, SoundParts DEF Housed
  <2>3. PICK j \in Dirs(d) : InDir(d, j, h[1])
    BY <2>2
  <2>4. j \in d.i_bitmap
    BY DEF Dirs
  <2>5. InDir(e, j, h[1])
    BY <1>7, <2>1, <2>3, <2>4
  <2> QED
    BY <1>6, <2>1, <2>2, <2>5
<1>10. NameOnce(e)
  <2> SUFFICES ASSUME NEW j \in Dirs(e), NEW g \in Places, NEW h \in Places,
                      InDir(e, j, g[1]), InDir(e, j, h[1]), EntryAt(e, g).num # 0,
                      EntryAt(e, g).name = EntryAt(e, h).name
               PROVE  g = h
    BY DEF NameOnce
  <2>1. EntryAt(e, g) = EntryAt(d, g) /\ EntryAt(e, h) = EntryAt(d, h)
    OBVIOUS
  <2>2. EntryAt(d, g).num # 0 /\ EntryAt(d, h).num # 0
    <3>1. EntryAt(d, g).num # 0 /\ EntryAt(d, g).name = EntryAt(d, h).name
      BY <2>1
    <3>2. EntryAt(d, g).name # ""
      BY <3>1, NameNum
    <3>3. EntryAt(d, h).name # ""
      BY <3>1, <3>2
    <3> QED
      BY <3>1, <3>3, NameNum
  <2>3. g[1] # b /\ h[1] # b
    <3>1. g[1] \in d.d_bitmap
      BY <2>2, FreeNoEntry
    <3>2. h[1] \in d.d_bitmap
      BY <2>2, FreeNoEntry
    <3> QED
      BY <3>1, <3>2
  <2>4. j \in Dirs(d) /\ j \in d.i_bitmap
    BY <1>6 DEF Dirs
  <2>5. InDir(d, j, g[1]) /\ InDir(d, j, h[1])
    BY <1>8, <2>3, <2>4
  <2> QED
    BY <2>1, <2>2, <2>4, <2>5, SoundParts DEF NameOnce
<1>11. NumNamed(e) /\ NumOnce(e)
  <2>1. NumNamed(d) /\ NumOnce(d)
    BY SoundParts
  <2>2. NumNamed(e)
    BY <2>1 DEF NumNamed
  <2>3. NumOnce(e)
    BY <2>1 DEF NumOnce
  <2> QED
    BY <2>2, <2>3
<1>12. Linked(e)
  <2> SUFFICES ASSUME NEW j \in d.i_bitmap \ {0}
               PROVE  \E h \in Places : EntryAt(e, h).num = j
    BY DEF Linked
  <2>1. PICK h \in Places : EntryAt(d, h).num = j
    BY SoundParts DEF Linked
  <2> QED
    BY <2>1
<1> QED
  BY <1>2, <1>3, <1>4, <1>5, <1>9, <1>10, <1>11, <1>12 DEF Sound, Space, EntriesSound

-----------------------------------------------------------------------------
(* Steps of the operations that keep the disk sound *)

\* What an operation on the data of inode i leaves alone: bitmap, modes, sizes and
\* entries, and the blocks and the contents of the other inodes.
Kept(d, e, i) ==
  /\ e.i_bitmap = d.i_bitmap
  /\ \A j \in Inodes : e.inode[j].mode = d.inode[j].mode /\ e.inode[j].size = d.inode[j].size
  /\ \A h \in Places : EntryAt(e, h) = EntryAt(d, h)
  /\ \A j \in Inodes \ {i} : e.inode[j] = d.inode[j]
  /\ \A j \in d.i_bitmap \ {i}, k \in 0 .. FileMax - 1 : ReadBlock(e, j, k) = ReadBlock(d, j, k)

\* Blocks, pointers and data that are the same are read the same.
LEMMA SameRead ==
  ASSUME NEW d \in Disks, NEW e, NEW j \in Inodes, NEW k \in 0 .. FileMax - 1,
         Ref(e, j, Pos(k)) = Ref(d, j, Pos(k)),
         Ref(d, j, Pos(k)) # 0 => e.block[Ref(d, j, Pos(k))].data = d.block[Ref(d, j, Pos(k))].data
  PROVE  ReadBlock(e, j, k) = ReadBlock(d, j, k)
<1>1. ReadBlock(e, j, k) = IF Ref(e, j, Pos(k)) = 0 THEN -1 ELSE e.block[Ref(e, j, Pos(k))].data
  BY ReadIs
<1>2. ReadBlock(d, j, k) = IF Ref(d, j, Pos(k)) = 0 THEN -1 ELSE d.block[Ref(d, j, Pos(k))].data
  BY ReadIs
<1>3. CASE Ref(d, j, Pos(k)) = 0
  BY <1>1, <1>2, <1>3
<1>4. CASE Ref(d, j, Pos(k)) # 0
  BY <1>1, <1>2, <1>4
<1> QED
  BY <1>3, <1>4

\* The fields of the disk after GiveBlock.
LEMMA GiveFields ==
  ASSUME NEW d \in Disks, NEW i \in Inodes, NEW k \in 0 .. IND_BLOCK,
         NEW b \in Blocks \ d.d_bitmap, NEW e, e = GiveBlock(d, i, k, b)
  PROVE  /\ e \in Disks /\ e.i_bitmap = d.i_bitmap /\ e.d_bitmap = d.d_bitmap \cup {b}
         /\ e.block = d.block
         /\ \A j \in Inodes \ {i} : e.inode[j] = d.inode[j]
         /\ e.inode[i].mode = d.inode[i].mode /\ e.inode[i].size = d.inode[i].size
         /\ e.inode[i].blocks[k] = b
         /\ \A l \in 0 .. IND_BLOCK : l # k => e.inode[i].blocks[l] = d.inode[i].blocks[l]
<1>1. Flip(d.d_bitmap, b) = d.d_bitmap \cup {b}
  BY DEF Flip
<1>2. PICK x : x = [d.inode[i] EXCEPT !.blocks[k] = b]
  OBVIOUS
<1>3. d.inode[i] \in InodeRecs /\ d.inode \in [Inodes -> InodeRecs]
  BY DiskType
<1>4. x \in InodeRecs
  BY <1>2, <1>3 DEF InodeRecs
<1>5. d.inode[i].blocks \in [0 .. IND_BLOCK -> {0} \cup Blocks]
  BY DiskType
<1>6. /\ x.mode = d.inode[i].mode /\ x.size = d.inode[i].size /\ x.blocks[k] = b
      /\ \A l \in 0 .. IND_BLOCK : l # k => x.blocks[l] = d.inode[i].blocks[l]
  BY <1>2, <1>3, <1>5 DEF InodeRecs
<1>7. e = [d EXCEPT !.inode = [d.inode EXCEPT ![i] = x], !.d_bitmap = d.d_bitmap \cup {b}]
  BY <1>1, <1>2 DEF GiveBlock, Disks
<1>8. e.inode = [d.inode EXCEPT ![i] = x] /\ e.i_bitmap = d.i_bitmap /\ e.block = d.block
      /\ e.d_bitmap = d.d_bitmap \cup {b} /\ e \in Disks
  <2>1. PICK y \in [Inodes -> InodeRecs] : y = [d.inode EXCEPT ![i] = x]
    BY <1>3, <1>4
  <2>2. PICK z \in SUBSET Blocks : z = d.d_bitmap \cup {b}
    BY DiskType
  <2>3. e = [d EXCEPT !.inode = y, !.d_bitmap = z]
    BY <1>7, <2>1, <2>2
  <2>4. e.inode = y /\ e.d_bitmap = z /\ e.i_bitmap = d.i_bitmap /\ e.block = d.block /\ e \in Disks
    BY <2>3 DEF Disks
  <2> QED
    BY <2>1, <2>2, <2>4
<1> QED
  BY <1>3, <1>6, <1>8

\* An inode gets a free block for a null pointer (GiveBlock).
LEMMA Given ==
  ASSUME NEW d, Sound(d), NEW i \in d.i_bitmap, NEW k \in 0 .. IND_BLOCK, Ref(d, i, k) = 0,
         NEW b \in Blocks \ d.d_bitmap, NEW e, e = GiveBlock(d, i, k, b)
  PROVE  /\ Sound(e) /\ Kept(d, e, i) /\ Ref(e, i, k) = b /\ e.block = d.block
         /\ e.d_bitmap = d.d_bitmap \cup {b}
         /\ \A l \in 0 .. FileMax : l # k => Ref(e, i, l) = Ref(d, i, l)
         /\ \A l \in 0 .. FileMax - 1 : Pos(l) # k => ReadBlock(e, i, l) = ReadBlock(d, i, l)
<1>1. d \in Disks /\ i \in Inodes /\ k \in 0 .. FileMax /\ d.i_bitmap \subseteq Inodes
  BY SoundParts, Sizes
<1>2. /\ e \in Disks /\ e.i_bitmap = d.i_bitmap /\ e.d_bitmap = d.d_bitmap \cup {b}
      /\ e.block = d.block
      /\ \A j \in Inodes \ {i} : e.inode[j] = d.inode[j]
      /\ e.inode[i].mode = d.inode[i].mode /\ e.inode[i].size = d.inode[i].size
      /\ e.inode[i].blocks[k] = b
      /\ \A l \in 0 .. IND_BLOCK : l # k => e.inode[i].blocks[l] = d.inode[i].blocks[l]
  BY <1>1, GiveFields
<1>3. Ref(e, i, k) = b
  BY <1>2 DEF Ref
<1>4. ASSUME NEW j \in Inodes \ {i}, NEW l PROVE Ref(e, j, l) = Ref(d, j, l)
  BY <1>2 DEF Ref, Pointer
<1>5. ASSUME NEW l \in 0 .. FileMax, l # k PROVE Ref(e, i, l) = Ref(d, i, l)
  <2>1. CASE l <= IND_BLOCK
    <3>1. l \in 0 .. IND_BLOCK
      BY <2>1, Sizes
    <3> QED
      BY <1>2, <1>5, <2>1, <3>1 DEF Ref
  <2>2. CASE l > IND_BLOCK /\ k = IND_BLOCK
    <3>1. Ref(d, i, l) = 0
      BY <1>1, <2>2, RefType
    <3>2. b # 0
      BY DEF Blocks
    <3>3. l - 1 - IND_BLOCK \in 0 .. PtrsPerBlock - 1 /\ Ref(e, i, l) = e.block[b].ptr[l - 1 - IND_BLOCK]
      BY <1>1, <1>2, <1>3, <2>2, <3>2, RefType
    <3>4. e.block[b] = ZeroBlock
      BY <1>2, SoundParts
    <3> QED
      BY <3>1, <3>3, <3>4, ZeroTypes
  <2>3. CASE l > IND_BLOCK /\ k # IND_BLOCK
    <3>1. e.inode[i].blocks[IND_BLOCK] = d.inode[i].blocks[IND_BLOCK]
      BY <1>2, <2>3, Sizes
    <3>2. ~(l <= IND_BLOCK) /\ ~(l - 1 < IND_BLOCK)
      BY <2>3, Sizes
    <3> QED
      BY <1>2, <3>1, <3>2 DEF Ref, Pointer
  <2> QED
    BY <2>1, <2>2, <2>3, Sizes
<1>6. \A h \in Places : EntryAt(e, h) = EntryAt(d, h)
  BY <1>2 DEF EntryAt
<1>7. \A j \in Inodes : e.inode[j].mode = d.inode[j].mode /\ e.inode[j].size = d.inode[j].size
  BY <1>2
<1>8. \A j \in d.i_bitmap, l \in 0 .. FileMax :
        Ref(e, j, l) = IF j = i /\ l = k THEN b ELSE Ref(d, j, l)
  BY <1>1, <1>3, <1>4, <1>5
<1>9. Sound(e)
  BY <1>1, <1>2, <1>6, <1>7, <1>8, NewRef
<1>10. ASSUME NEW j \in Inodes, NEW l \in 0 .. FileMax - 1, j # i \/ Pos(l) # k
       PROVE  ReadBlock(e, j, l) = ReadBlock(d, j, l)
  <2>1. Pos(l) \in 0 .. FileMax
    BY ReadIs
  <2>2. Ref(e, j, Pos(l)) = Ref(d, j, Pos(l))
    BY <1>4, <1>5, <1>10, <2>1
  <2> QED
    BY <1>1, <1>2, <2>2, SameRead
<1>11. Kept(d, e, i)
  BY <1>1, <1>2, <1>6, <1>7, <1>10 DEF Kept
<1> QED
  BY <1>1, <1>2, <1>3, <1>5, <1>9, <1>10, <1>11

\* An entry with neither name nor number is a zero one.
LEMMA Blank ==
  ASSUME NEW x \in DentryRecs, x.num = 0, x.name = ""
  PROVE  x = NoEntry
BY DEF DentryRecs, NoEntry

\* A disk with the bitmaps, modes, entries and pointers of a sound one is sound.
LEMMA SameShape ==
  ASSUME NEW d, Sound(d), NEW e \in Disks,
         e.i_bitmap = d.i_bitmap, e.d_bitmap = d.d_bitmap,
         \A j \in Inodes : /\ e.inode[j].mode = d.inode[j].mode
                           /\ d.inode[j].mode = "dir" => e.inode[j].size = d.inode[j].size,
         \A h \in Places : EntryAt(e, h) = EntryAt(d, h),
         \A x \in Blocks \ d.d_bitmap : e.block[x] = d.block[x],
         \A j \in d.i_bitmap, l \in 0 .. FileMax : Ref(e, j, l) = Ref(d, j, l)
  PROVE  Sound(e)
<1>1. d.i_bitmap \subseteq Inodes /\ 0 \in Inodes
  BY SoundParts, Sizes DEF Inodes
<1>2. Marked(e)
  BY SoundParts DEF Marked
<1>3. Once(e)
  <2> SUFFICES ASSUME NEW j \in d.i_bitmap, NEW m \in d.i_bitmap, NEW l \in 0 .. FileMax,
                      NEW n \in 0 .. FileMax, Ref(e, j, l) # 0, Ref(e, j, l) = Ref(e, m, n)
               PROVE  j = m /\ l = n
    BY DEF Once
  <2>1. Ref(e, j, l) = Ref(d, j, l) /\ Ref(e, m, n) = Ref(d, m, n)
    OBVIOUS
  <2>2. Once(d)
    BY DEF Sound, Space
  <2>3. Ref(d, j, l) # 0 /\ Ref(d, j, l) = Ref(d, m, n)
    BY <2>1
  <2> QED
    BY <2>2, <2>3 DEF Once
<1>4. FreeIsZero(e)
  BY SoundParts DEF FreeIsZero
<1>5. NodesSound(e)
  <2>1. NodesSound(d)
    BY SoundParts
  <2> QED
    BY <1>1, <2>1 DEF NodesSound
<1>6. Dirs(e) = Dirs(d)
  BY <1>1 DEF Dirs
<1>7. ASSUME NEW j \in d.i_bitmap, NEW x PROVE InDir(e, j, x) <=> InDir(d, j, x)
  <2>1. \A l \in 0 .. D_BLOCK : Ref(e, j, l) = Ref(d, j, l)
    BY Sizes
  <2> QED
    BY <2>1, InDirIs
<1>8. \A j \in Dirs(d) : j \in d.i_bitmap
  BY DEF Dirs
<1>9. NumNamed(d) /\ Housed(d) /\ NumOnce(d) /\ Linked(d) /\ NameOnce(d)
  BY SoundParts
<1>10. NumNamed(e)
  BY <1>9 DEF NumNamed
<1>11. Housed(e)
  <2> SUFFICES ASSUME NEW h \in Places, EntryAt(e, h).num # 0
               PROVE  EntryAt(e, h).num \in e.i_bitmap /\ \E j \in Dirs(e) : InDir(e, j, h[1])
    BY DEF Housed
  <2>1. EntryAt(e, h) = EntryAt(d, h) /\ EntryAt(d, h).num # 0
    OBVIOUS
  <2>2. EntryAt(d, h).num \in d.i_bitmap
    BY <1>9, <2>1 DEF Housed
  <2>3. PICK j \in Dirs(d) : InDir(d, j, h[1])
    BY <1>9, <2>1 DEF Housed
  <2>4. InDir(e, j, h[1])
    BY <1>7, <1>8, <2>3
  <2> QED
    BY <1>6, <2>1, <2>2, <2>4
<1>12. NumOnce(e)
  BY <1>9 DEF NumOnce
<1>13. Linked(e)
  <2> SUFFICES ASSUME NEW j \in d.i_bitmap \ {0}
               PROVE  \E h \in Places : EntryAt(e, h).num = j
    BY DEF Linked
  <2>1. PICK h \in Places : EntryAt(d, h).num = j
    BY <1>9 DEF Linked
  <2> QED
    BY <2>1
<1>14. NameOnce(e)
  <2> SUFFICES ASSUME NEW j \in Dirs(e), NEW g \in Places, NEW h \in Places,
                      InDir(e, j, g[1]), InDir(e, j, h[1]), EntryAt(e, g).num # 0,
                      EntryAt(e, g).name = EntryAt(e, h).name
               PROVE  g = h
    BY DEF NameOnce
  <2>1. EntryAt(e, g) = EntryAt(d, g) /\ EntryAt(e, h) = EntryAt(d, h)
    OBVIOUS
  <2>2. j \in Dirs(d) /\ InDir(d, j, g[1]) /\ InDir(d, j, h[1])
    BY <1>6, <1>7, <1>8
  <2> QED
    BY <1>9, <2>1, <2>2 DEF NameOnce
<1> QED
  BY <1>2, <1>3, <1>4, <1>5, <1>10, <1>11, <1>12, <1>13, <1>14 DEF Sound, Space, EntriesSound

\* A disk of which block x is replaced.
Replaced(d, x, y, D) == [d EXCEPT !.block = [d.block EXCEPT ![x] = y], !.d_bitmap = D]

\* Only that block is replaced.
LEMMA BlockReplaced ==
  ASSUME NEW d \in Disks, NEW x \in Blocks, NEW y \in BlockRecs, NEW D \in SUBSET Blocks,
         NEW e, e = Replaced(d, x, y, D)
  PROVE  /\ e \in Disks /\ e.i_bitmap = d.i_bitmap /\ e.d_bitmap = D /\ e.inode = d.inode
         /\ e.block[x] = y /\ \A z \in Blocks \ {x} : e.block[z] = d.block[z]
<1>1. d.block \in [Blocks -> BlockRecs]
  BY DiskType
<1>2. PICK w \in [Blocks -> BlockRecs] : w = [d.block EXCEPT ![x] = y]
  BY <1>1
<1>3. e = [d EXCEPT !.block = w, !.d_bitmap = D]
  BY <1>2 DEF Replaced
<1>4. e.block = w /\ e.d_bitmap = D /\ e.i_bitmap = d.i_bitmap /\ e.inode = d.inode /\ e \in Disks
  BY <1>3 DEF Disks
<1> QED
  BY <1>1, <1>2, <1>4

\* An indirect block gets a free block for a null pointer (PutPointer).
LEMMA Pointed ==
  ASSUME NEW d, Sound(d), NEW i \in d.i_bitmap, NEW ib \in Blocks, Ref(d, i, IND_BLOCK) = ib,
         NEW m \in 0 .. PtrsPerBlock - 1, NEW k, k = IND_BLOCK + 1 + m, Ref(d, i, k) = 0,
         NEW b \in Blocks \ d.d_bitmap, NEW e, e = PutPointer(d, ib, m, b)
  PROVE  /\ Sound(e) /\ Kept(d, e, i) /\ Ref(e, i, k) = b
         /\ \A l \in 0 .. FileMax : l # k => Ref(e, i, l) = Ref(d, i, l)
         /\ \A l \in 0 .. FileMax - 1 : Pos(l) # k => ReadBlock(e, i, l) = ReadBlock(d, i, l)
<1>1. /\ d \in Disks /\ i \in Inodes /\ k \in 0 .. FileMax /\ k > IND_BLOCK
      /\ d.i_bitmap \subseteq Inodes /\ d.d_bitmap \subseteq Blocks
      /\ k - 1 - IND_BLOCK = m /\ IND_BLOCK \in 0 .. FileMax /\ ib # 0
  BY SoundParts, Sizes DEF Blocks
<1>2. PICK y : y = [d.block[ib] EXCEPT !.ptr[m] = b]
  OBVIOUS
<1>3. /\ d.block[ib] \in BlockRecs /\ d.block[ib].dentry \in [Slots -> DentryRecs]
      /\ d.block[ib].ptr \in [0 .. PtrsPerBlock - 1 -> {0} \cup Blocks]
  BY <1>1, DiskType
<1>4. /\ y \in BlockRecs /\ y.dentry = d.block[ib].dentry /\ y.data = d.block[ib].data
      /\ y.ptr[m] = b
      /\ \A l \in 0 .. PtrsPerBlock - 1 : l # m => y.ptr[l] = d.block[ib].ptr[l]
  BY <1>2, <1>3 DEF BlockRecs
<1>5. Flip(d.d_bitmap, b) = d.d_bitmap \cup {b} /\ d.d_bitmap \cup {b} \in SUBSET Blocks
  BY <1>1 DEF Flip
<1> PICK D \in SUBSET Blocks : D = d.d_bitmap \cup {b}
  BY <1>5
<1>6. e = Replaced(d, ib, y, D)
  BY <1>2, <1>5 DEF PutPointer, Replaced
<1>7. /\ e \in Disks /\ e.i_bitmap = d.i_bitmap /\ e.d_bitmap = d.d_bitmap \cup {b}
      /\ e.inode = d.inode /\ e.block[ib] = y /\ \A z \in Blocks \ {ib} : e.block[z] = d.block[z]
  <2>1. d \in Disks /\ y \in BlockRecs
    BY <1>1, <1>4
  <2>2. /\ e \in Disks /\ e.i_bitmap = d.i_bitmap /\ e.d_bitmap = D
        /\ e.inode = d.inode /\ e.block[ib] = y /\ \A z \in Blocks \ {ib} : e.block[z] = d.block[z]
    BY <1>6, <2>1, BlockReplaced
  <2> QED
    BY <2>2
<1>8. \A x \in Blocks : e.block[x].dentry = d.block[x].dentry /\ e.block[x].data = d.block[x].data
  BY <1>4, <1>7
<1>9. \A h \in Places : EntryAt(e, h) = EntryAt(d, h)
  BY <1>8 DEF EntryAt, Places
<1>10. ib \in d.d_bitmap
  BY <1>1, SoundParts
<1>11. ASSUME NEW j \in d.i_bitmap, NEW l \in 0 .. FileMax
       PROVE  Ref(e, j, l) = IF j = i /\ l = k THEN b ELSE Ref(d, j, l)
  <2>1. j \in Inodes /\ Ref(e, j, IND_BLOCK) = Ref(d, j, IND_BLOCK)
    BY <1>1, <1>7, RefType
  <2>2. CASE l <= IND_BLOCK
    BY <1>1, <1>7, <2>1, <2>2, RefType, Sizes
  <2>3. CASE l > IND_BLOCK /\ Ref(d, j, IND_BLOCK) = 0
    <3>1. j # i
      BY <1>1, <2>3
    <3> QED
      BY <1>1, <1>7, <2>1, <2>3, <3>1, RefType
  <2>4. CASE l > IND_BLOCK /\ Ref(d, j, IND_BLOCK) # 0
    <3>1. PICK x \in Blocks : x = Ref(d, j, IND_BLOCK)
      BY <1>1, <2>1, <2>4, RefType
    <3>2. PICK n \in 0 .. PtrsPerBlock - 1 : n = l - 1 - IND_BLOCK
      BY <1>1, <2>1, <2>4, RefType
    <3>3. Ref(d, j, l) = d.block[x].ptr[n] /\ Ref(e, j, l) = e.block[x].ptr[n]
      BY <1>1, <1>7, <2>1, <2>4, <3>1, <3>2, RefType
    <3>4. x = ib => j = i
      BY <1>1, <3>1, OneRef
    <3>5. n = m <=> l = k
      BY <1>1, <3>2, Sizes
    <3>6. CASE x = ib
      BY <1>4, <1>7, <3>3, <3>4, <3>5, <3>6
    <3>7. CASE x # ib
      <4>1. j # i
        BY <3>1, <3>7
      <4> QED
        BY <1>7, <3>3, <3>7, <4>1
    <3> QED
      BY <3>6, <3>7
  <2> QED
    BY <2>2, <2>3, <2>4, Sizes
<1>12. Sound(e)
  BY <1>1, <1>7, <1>9, <1>10, <1>11, NewRef
<1>13. ASSUME NEW j \in d.i_bitmap, NEW l \in 0 .. FileMax - 1, j # i \/ Pos(l) # k
       PROVE  ReadBlock(e, j, l) = ReadBlock(d, j, l)
  <2>1. Pos(l) \in 0 .. FileMax /\ j \in Inodes
    BY <1>1, ReadIs
  <2>2. Ref(e, j, Pos(l)) = Ref(d, j, Pos(l)) /\ Ref(d, j, Pos(l)) \in {0} \cup Blocks
    BY <1>1, <1>11, <1>13, <2>1, RefType
  <2> QED
    BY <1>1, <1>8, <2>1, <2>2, SameRead
<1>14. Kept(d, e, i)
  BY <1>1, <1>7, <1>9, <1>13 DEF Kept
<1> QED
  BY <1>1, <1>11, <1>12, <1>13, <1>14

\* Data are put into a block that file i points to (PutData).
LEMMA DataPut ==
  ASSUME NEW d, Sound(d), NEW i \in d.i_bitmap, d.inode[i].mode = "file",
         NEW k \in 0 .. FileMax, k # IND_BLOCK, NEW b \in Blocks, Ref(d, i, k) = b,
         NEW v \in Values, NEW e, e = PutData(d, b, v)
  PROVE  /\ Sound(e) /\ Kept(d, e, i)
         /\ \A l \in 0 .. FileMax - 1 :
              ReadBlock(e, i, l) = IF Pos(l) = k THEN v ELSE ReadBlock(d, i, l)
<1>1. /\ d \in Disks /\ i \in Inodes /\ d.i_bitmap \subseteq Inodes /\ d.d_bitmap \subseteq Blocks
      /\ IND_BLOCK \in 0 .. FileMax /\ b # 0
  BY SoundParts, Sizes DEF Blocks
<1>2. PICK y : y = [ZeroBlock EXCEPT !.data = v]
  OBVIOUS
<1>3. /\ y \in BlockRecs /\ y.dentry = ZeroBlock.dentry /\ y.data = v
  BY <1>2, ZeroTypes DEF BlockRecs
<1> PICK D \in SUBSET Blocks : D = d.d_bitmap
  BY <1>1
<1>4. e = Replaced(d, b, y, D)
  BY <1>1, <1>2 DEF PutData, Disks, Replaced
<1>5. /\ e \in Disks /\ e.i_bitmap = d.i_bitmap /\ e.d_bitmap = d.d_bitmap
      /\ e.inode = d.inode /\ e.block[b] = y /\ \A z \in Blocks \ {b} : e.block[z] = d.block[z]
  <2>1. d \in Disks /\ y \in BlockRecs
    BY <1>1, <1>3
  <2>2. /\ e \in Disks /\ e.i_bitmap = d.i_bitmap /\ e.d_bitmap = D
        /\ e.inode = d.inode /\ e.block[b] = y /\ \A z \in Blocks \ {b} : e.block[z] = d.block[z]
    BY <1>4, <2>1, BlockReplaced
  <2> QED
    BY <2>2
<1>6. ASSUME NEW h \in Places PROVE EntryAt(e, h) = EntryAt(d, h)
  <2>1. h[1] \in Blocks /\ h[2] \in Slots
    BY DEF Places
  <2>2. CASE h[1] = b
    <3>1. EntryAt(d, h).num = 0 /\ EntryAt(d, h).name = ""
      BY <2>2, NotOwner
    <3>2. EntryAt(d, h) = NoEntry
      BY <1>1, <3>1, Blank, EntryType
    <3>3. EntryAt(e, h) = NoEntry
      <4>1. e.block[h[1]].dentry = ZeroBlock.dentry
        BY <1>3, <1>5, <2>2
      <4> QED
        BY <2>1, <4>1, ZeroTypes DEF EntryAt
    <3> QED
      BY <3>2, <3>3
  <2>3. CASE h[1] # b
    BY <1>5, <2>1, <2>3 DEF EntryAt
  <2> QED
    BY <2>2, <2>3
<1>7. b \in d.d_bitmap
  BY <1>1, SoundParts
<1>8. ASSUME NEW j \in d.i_bitmap, NEW l \in 0 .. FileMax PROVE Ref(e, j, l) = Ref(d, j, l)
  <2>1. j \in Inodes /\ Ref(e, j, IND_BLOCK) = Ref(d, j, IND_BLOCK)
    BY <1>1, <1>5, RefType
  <2>2. CASE l <= IND_BLOCK
    BY <1>1, <1>5, <2>1, <2>2, RefType
  <2>3. CASE l > IND_BLOCK /\ Ref(d, j, IND_BLOCK) = 0
    BY <1>1, <1>5, <2>1, <2>3, RefType
  <2>4. CASE l > IND_BLOCK /\ Ref(d, j, IND_BLOCK) # 0
    <3>1. PICK x \in Blocks : x = Ref(d, j, IND_BLOCK)
      BY <1>1, <2>1, <2>4, RefType
    <3>2. Ref(d, j, l) = d.block[x].ptr[l - 1 - IND_BLOCK] /\ Ref(e, j, l) = e.block[x].ptr[l - 1 - IND_BLOCK]
      BY <1>1, <1>5, <2>1, <2>4, <3>1, RefType
    <3>3. x # b
      BY <1>1, <3>1, SoundParts
    <3> QED
      BY <1>5, <3>2, <3>3
  <2> QED
    BY <2>2, <2>3, <2>4, Sizes
<1>9. Sound(e)
  BY <1>1, <1>5, <1>6, <1>7, <1>8, SameShape
<1>10. ASSUME NEW j \in d.i_bitmap, NEW l \in 0 .. FileMax - 1, j # i \/ Pos(l) # k
       PROVE  ReadBlock(e, j, l) = ReadBlock(d, j, l)
  <2>1. Pos(l) \in 0 .. FileMax /\ j \in Inodes
    BY <1>1, ReadIs
  <2>2. Ref(e, j, Pos(l)) = Ref(d, j, Pos(l)) /\ Ref(d, j, Pos(l)) \in {0} \cup Blocks
    BY <1>1, <1>8, <2>1, RefType
  <2>3. Ref(d, j, Pos(l)) # b
    BY <1>1, <1>10, <2>1, SoundParts
  <2>4. Ref(d, j, Pos(l)) # 0 => e.block[Ref(d, j, Pos(l))] = d.block[Ref(d, j, Pos(l))]
    BY <1>5, <2>2, <2>3
  <2> QED
    BY <1>1, <2>1, <2>2, <2>4, SameRead
<1>11. ASSUME NEW l \in 0 .. FileMax - 1, Pos(l) = k PROVE ReadBlock(e, i, l) = v
  <2>1. Ref(e, i, Pos(l)) = b
    BY <1>8, <1>11
  <2>2. ReadBlock(e, i, l) = e.block[b].data
    BY <1>1, <2>1, ReadIs
  <2> QED
    BY <1>3, <1>5, <2>2
<1>12. Kept(d, e, i)
  BY <1>1, <1>5, <1>6, <1>10 DEF Kept
<1> QED
  BY <1>9, <1>10, <1>11, <1>12

\* The fields of the disk after Create.
LEMMA CreateFields ==
  ASSUME NEW d \in Disks, NEW b \in Blocks, NEW j \in Slots, NEW name \in Names,
         NEW mode \in {"file", "dir"}, NEW n \in Inodes \ d.i_bitmap,
         NEW e, e = Create(d, b, j, name, mode, n)
  PROVE  /\ e \in Disks /\ e.i_bitmap = d.i_bitmap \cup {n} /\ e.d_bitmap = d.d_bitmap
         /\ \A m \in Inodes \ {n} : e.inode[m] = d.inode[m]
         /\ e.inode[n].mode = mode /\ e.inode[n].size = 0
         /\ \A k \in 0 .. IND_BLOCK : e.inode[n].blocks[k] = 0
         /\ \A x \in Blocks : e.block[x].ptr = d.block[x].ptr /\ e.block[x].data = d.block[x].data
         /\ \A x \in Blocks \ {b} : e.block[x] = d.block[x]
         /\ \A h \in Places : h # <<b, j>> => EntryAt(e, h) = EntryAt(d, h)
         /\ EntryAt(e, <<b, j>>).name = name /\ EntryAt(e, <<b, j>>).num = n
<1>1. PICK r : r = [name |-> name, num |-> n]
  OBVIOUS
<1>2. r \in DentryRecs /\ r.name = name /\ r.num = n
  BY <1>1 DEF DentryRecs
<1>3. PICK y : y = [d.block[b] EXCEPT !.dentry[j] = r]
  OBVIOUS
<1>4. /\ d.block[b] \in BlockRecs /\ d.block[b].dentry \in [Slots -> DentryRecs]
      /\ d.block \in [Blocks -> BlockRecs] /\ d.inode \in [Inodes -> InodeRecs]
      /\ d.i_bitmap \subseteq Inodes
  BY DiskType
<1>5. /\ y \in BlockRecs /\ y.ptr = d.block[b].ptr /\ y.data = d.block[b].data
      /\ y.dentry[j] = r /\ \A l \in Slots : l # j => y.dentry[l] = d.block[b].dentry[l]
  BY <1>2, <1>3, <1>4 DEF BlockRecs
<1>6. PICK z : z = [ZeroInode EXCEPT !.mode = mode]
  OBVIOUS
<1>7. z \in InodeRecs /\ z.mode = mode /\ z.size = 0 /\ z.blocks = ZeroInode.blocks
  BY <1>6, ZeroTypes DEF InodeRecs
<1>8. Flip(d.i_bitmap, n) = d.i_bitmap \cup {n}
  BY DEF Flip
<1>9. PICK f \in [Inodes -> InodeRecs] : f = [d.inode EXCEPT ![n] = z]
  BY <1>4, <1>7
<1>10. PICK g \in [Blocks -> BlockRecs] : g = [d.block EXCEPT ![b] = y]
  BY <1>4, <1>5
<1>11. PICK I \in SUBSET Inodes : I = d.i_bitmap \cup {n}
  BY <1>4
<1>12. e = [d EXCEPT !.block = g, !.inode = f, !.i_bitmap = I]
  BY <1>1, <1>3, <1>6, <1>8, <1>9, <1>10, <1>11 DEF Create
<1>13. e \in Disks /\ e.block = g /\ e.inode = f /\ e.i_bitmap = I /\ e.d_bitmap = d.d_bitmap
  BY <1>12 DEF Disks
<1>14. e.inode[n] = z /\ \A m \in Inodes \ {n} : e.inode[m] = d.inode[m]
  BY <1>4, <1>9, <1>13
<1>15. e.block[b] = y /\ \A x \in Blocks \ {b} : e.block[x] = d.block[x]
  BY <1>4, <1>10, <1>13
<1>16. ASSUME NEW h \in Places, h # <<b, j>> PROVE EntryAt(e, h) = EntryAt(d, h)
  <2>1. h[1] \in Blocks /\ h[2] \in Slots /\ (h[1] # b \/ h[2] # j)
    BY <1>16 DEF Places
  <2>2. CASE h[1] = b
    BY <1>5, <1>15, <2>1, <2>2 DEF EntryAt
  <2>3. CASE h[1] # b
    BY <1>15, <2>1, <2>3 DEF EntryAt
  <2> QED
    BY <2>2, <2>3
<1>17. EntryAt(e, <<b, j>>) = r
  BY <1>5, <1>15 DEF EntryAt
<1>18. \A x \in Blocks : e.block[x].ptr = d.block[x].ptr /\ e.block[x].data = d.block[x].data
  BY <1>5, <1>15
<1>19. \A k \in 0 .. IND_BLOCK : e.inode[n].blocks[k] = 0
  BY <1>7, <1>14, ZeroTypes
<1> QED
  BY <1>2, <1>7, <1>11, <1>13, <1>14, <1>15, <1>16, <1>17, <1>18, <1>19

\* Pointers depend on the inode and on the pointers of its indirect block.
LEMMA SameRef ==
  ASSUME NEW d \in Disks, NEW e \in Disks, NEW i \in Inodes, e.inode[i] = d.inode[i],
         Ref(d, i, IND_BLOCK) # 0 =>
           e.block[Ref(d, i, IND_BLOCK)].ptr = d.block[Ref(d, i, IND_BLOCK)].ptr,
         NEW k \in 0 .. FileMax
  PROVE  Ref(e, i, k) = Ref(d, i, k)
<1>1. IND_BLOCK \in 0 .. FileMax /\ (k <= IND_BLOCK \/ k > IND_BLOCK)
  BY Sizes
<1>2. Ref(e, i, IND_BLOCK) = Ref(d, i, IND_BLOCK)
  BY <1>1, RefType, Sizes
<1>3. CASE k <= IND_BLOCK
  BY <1>3, RefType
<1>4. CASE k > IND_BLOCK /\ Ref(d, i, IND_BLOCK) = 0
  BY <1>2, <1>4, RefType
<1>5. CASE k > IND_BLOCK /\ Ref(d, i, IND_BLOCK) # 0
  BY <1>2, <1>5, RefType
<1> QED
  BY <1>1, <1>3, <1>4, <1>5

\* The files of d are files of e with the same contents, but for those in T.
FilesKept(d, e, T) ==
  \A j \in Inodes \ T : d.inode[j].mode = "file" =>
    /\ e.inode[j].mode = "file" /\ e.inode[j].size = d.inode[j].size
    /\ \A k \in 0 .. FileMax - 1 : ReadBlock(e, j, k) = ReadBlock(d, j, k)

\* A free slot of a block of directory p gets an entry with a new name for a new inode.
LEMMA Created ==
  ASSUME NEW d, Sound(d), NEW p \in Dirs(d), NEW k \in 0 .. D_BLOCK, NEW b \in Blocks,
         Ref(d, p, k) = b, NEW j \in Slots, EntryAt(d, <<b, j>>).num = 0, NEW name \in Names,
         NEW mode \in {"file", "dir"}, NEW n \in Inodes \ d.i_bitmap,
         \A h \in Places : InDir(d, p, h[1]) => EntryAt(d, h).name # name,
         NEW e, e = Create(d, b, j, name, mode, n)
  PROVE  Sound(e) /\ FilesKept(d, e, {})
<1>1. /\ d \in Disks /\ d.i_bitmap \subseteq Inodes /\ d.d_bitmap \subseteq Blocks /\ b # 0
      /\ k \in 0 .. FileMax /\ IND_BLOCK \in 0 .. FileMax /\ p \in d.i_bitmap
      /\ \A m \in Dirs(d) : m \in d.i_bitmap
  BY SoundParts, Sizes DEF Blocks, Dirs
<1>2. /\ e \in Disks /\ e.i_bitmap = d.i_bitmap \cup {n} /\ e.d_bitmap = d.d_bitmap
      /\ \A m \in Inodes \ {n} : e.inode[m] = d.inode[m]
      /\ e.inode[n].mode = mode /\ e.inode[n].size = 0
      /\ \A l \in 0 .. IND_BLOCK : e.inode[n].blocks[l] = 0
      /\ \A x \in Blocks : e.block[x].ptr = d.block[x].ptr /\ e.block[x].data = d.block[x].data
      /\ \A x \in Blocks \ {b} : e.block[x] = d.block[x]
  BY <1>1, CreateFields
<1>3. /\ \A h \in Places : h # <<b, j>> => EntryAt(e, h) = EntryAt(d, h)
      /\ EntryAt(e, <<b, j>>).name = name /\ EntryAt(e, <<b, j>>).num = n
  BY <1>1, CreateFields
<1>4. ASSUME NEW m \in d.i_bitmap, NEW l \in 0 .. FileMax PROVE Ref(e, m, l) = Ref(d, m, l)
  <2>1. m \in Inodes /\ m # n
    BY <1>1
  <2>2. Ref(d, m, IND_BLOCK) \in {0} \cup Blocks /\ e.inode[m] = d.inode[m]
    BY <1>1, <1>2, <2>1, RefType
  <2> QED
    BY <1>1, <1>2, <2>1, <2>2, SameRef
<1>5. ASSUME NEW l \in 0 .. FileMax PROVE Ref(e, n, l) = 0
  <2>1. Ref(e, n, IND_BLOCK) = 0
    BY <1>1, <1>2, RefType, Sizes
  <2>2. CASE l <= IND_BLOCK
    BY <1>2, <2>2, RefType, Sizes
  <2>3. CASE l > IND_BLOCK
    BY <1>2, <2>1, <2>3, RefType
  <2> QED
    BY <2>2, <2>3, Sizes
<1>6. Marked(e)
  BY <1>2, <1>4, <1>5, SoundParts DEF Marked
<1>7. Once(e)
  <2> SUFFICES ASSUME NEW m \in e.i_bitmap, NEW q \in e.i_bitmap, NEW l \in 0 .. FileMax,
                      NEW r \in 0 .. FileMax, Ref(e, m, l) # 0, Ref(e, m, l) = Ref(e, q, r)
               PROVE  m = q /\ l = r
    BY DEF Once
  <2>1. m \in d.i_bitmap /\ q \in d.i_bitmap
    BY <1>2, <1>5
  <2>2. Ref(d, m, l) # 0 /\ Ref(d, m, l) = Ref(d, q, r)
    BY <1>4, <2>1
  <2> QED
    BY <2>1, <2>2, OneRef
<1>8. b \in d.d_bitmap
  BY <1>1, SoundParts
<1>9. FreeIsZero(e)
  BY <1>2, <1>8, SoundParts DEF FreeIsZero
<1>10. NodesSound(d) /\ 0 \in d.i_bitmap /\ n # 0
  BY SoundParts DEF NodesSound
<1>11. NodesSound(e)
  <2>1. ASSUME NEW m \in Inodes
        PROVE  /\ m \in e.i_bitmap <=> e.inode[m].mode # "none"
               /\ e.inode[m].mode = "dir" => e.inode[m].size = 0
    <3>1. CASE m = n
      BY <1>2, <3>1
    <3>2. CASE m # n
      <4>1. e.inode[m] = d.inode[m] /\ (m \in e.i_bitmap <=> m \in d.i_bitmap)
        BY <1>2, <3>2
      <4> QED
        BY <1>10, <4>1 DEF NodesSound
    <3> QED
      BY <3>1, <3>2
  <2>2. 0 \in e.i_bitmap /\ e.inode[0].mode = "dir"
    <3>1. 0 \in Inodes \ {n}
      BY <1>1, <1>10
    <3> QED
      BY <1>2, <1>10, <3>1 DEF NodesSound
  <2> QED
    BY <2>1, <2>2 DEF NodesSound
<1>12. \A m \in Dirs(e) : m = n \/ m \in Dirs(d)
  BY <1>1, <1>2 DEF Dirs
<1>13. \A m \in Dirs(d) : m \in Dirs(e)
  BY <1>1, <1>2 DEF Dirs
<1>14. ASSUME NEW m \in d.i_bitmap, NEW x PROVE InDir(e, m, x) <=> InDir(d, m, x)
  <2>1. \A l \in 0 .. D_BLOCK : Ref(e, m, l) = Ref(d, m, l)
    BY <1>4, Sizes
  <2> QED
    BY <2>1, InDirIs
<1>15. ASSUME NEW h \in Places PROVE ~InDir(e, n, h[1])
  <2>1. h[1] # 0 /\ 0 .. D_BLOCK \subseteq 0 .. FileMax
    BY Sizes DEF Places, Blocks
  <2> QED
    BY <1>5, <2>1, InDirIs
<1>16. <<b, j>> \in Places /\ <<b, j>>[1] = b
  BY DEF Places
<1>17. name # "" /\ InDir(d, p, b)
  BY WFSAssumption, InDirIs
<1>18. NumNamed(d) /\ Housed(d) /\ NumOnce(d) /\ Linked(d) /\ NameOnce(d)
  BY SoundParts
<1>19. NumNamed(e)
  BY <1>3, <1>10, <1>17, <1>18 DEF NumNamed
<1>20. Housed(e)
  <2> SUFFICES ASSUME NEW h \in Places, EntryAt(e, h).num # 0
               PROVE  EntryAt(e, h).num \in e.i_bitmap /\ \E m \in Dirs(e) : InDir(e, m, h[1])
    BY DEF Housed
  <2>1. CASE h = <<b, j>>
    BY <1>1, <1>2, <1>3, <1>13, <1>14, <1>16, <1>17, <2>1
  <2>2. CASE h # <<b, j>>
    <3>1. EntryAt(e, h) = EntryAt(d, h) /\ EntryAt(d, h).num # 0
      BY <1>3, <2>2
    <3>2. EntryAt(d, h).num \in d.i_bitmap
      BY <1>18, <3>1 DEF Housed
    <3>3. PICK m \in Dirs(d) : InDir(d, m, h[1])
      BY <1>18, <3>1 DEF Housed
    <3>4. InDir(e, m, h[1]) /\ m \in Dirs(e)
      BY <1>1, <1>13, <1>14, <3>3
    <3> QED
      BY <1>2, <3>1, <3>2, <3>4
  <2> QED
    BY <2>1, <2>2
<1>21. ASSUME NEW h \in Places PROVE EntryAt(d, h).num # n
  BY <1>10, <1>18 DEF Housed
<1>22. NumOnce(e)
  <2> SUFFICES ASSUME NEW g \in Places, NEW h \in Places, EntryAt(e, g).num # 0,
                      EntryAt(e, g).num = EntryAt(e, h).num
               PROVE  g = h
    BY DEF NumOnce
  <2>1. CASE g = <<b, j>> \/ h = <<b, j>>
    BY <1>3, <1>21, <2>1
  <2>2. CASE g # <<b, j>> /\ h # <<b, j>>
    BY <1>3, <1>18, <2>2 DEF NumOnce
  <2> QED
    BY <2>1, <2>2
<1>23. Linked(e)
  <2> SUFFICES ASSUME NEW m \in e.i_bitmap \ {0}
               PROVE  \E h \in Places : EntryAt(e, h).num = m
    BY DEF Linked
  <2>1. CASE m = n
    BY <1>3, <1>16, <2>1
  <2>2. CASE m # n
    <3>1. m \in d.i_bitmap \ {0}
      BY <1>2, <2>2
    <3>2. PICK h \in Places : EntryAt(d, h).num = m
      BY <1>18, <3>1 DEF Linked
    <3>3. h # <<b, j>>
      BY <3>1, <3>2
    <3> QED
      BY <1>3, <3>2, <3>3
  <2> QED
    BY <2>1, <2>2
<1>24. NameOnce(e)
  <2> SUFFICES ASSUME NEW m \in Dirs(e), NEW g \in Places, NEW h \in Places,
                      InDir(e, m, g[1]), InDir(e, m, h[1]), EntryAt(e, g).num # 0,
                      EntryAt(e, g).name = EntryAt(e, h).name
               PROVE  g = h
    BY DEF NameOnce
  <2>1. m \in Dirs(d) /\ m \in d.i_bitmap
    BY <1>1, <1>12, <1>15
  <2>2. InDir(d, m, g[1]) /\ InDir(d, m, h[1])
    BY <1>14, <2>1
  <2>3. ASSUME InDir(d, m, b) PROVE m = p
    <3>1. PICK l \in 0 .. D_BLOCK : Ref(d, m, l) = b
      BY <2>3, InDirIs
    <3>2. l \in 0 .. FileMax
      BY Sizes
    <3> QED
      BY <1>1, <2>1, <3>1, <3>2, OneRef
  <2>4. CASE g = <<b, j>> /\ h # <<b, j>>
    <3>1. m = p /\ EntryAt(d, h).name = name
      BY <1>3, <1>16, <2>2, <2>3, <2>4
    <3> QED
      BY <2>2, <3>1
  <2>5. CASE g # <<b, j>> /\ h = <<b, j>>
    <3>1. m = p /\ EntryAt(d, g).name = name
      BY <1>3, <1>16, <2>2, <2>3, <2>5
    <3> QED
      BY <2>2, <3>1
  <2>6. CASE g # <<b, j>> /\ h # <<b, j>>
    BY <1>3, <1>18, <2>1, <2>2, <2>6 DEF NameOnce
  <2> QED
    BY <2>4, <2>5, <2>6
<1>25. Sound(e)
  BY <1>2, <1>6, <1>7, <1>9, <1>11, <1>19, <1>20, <1>22, <1>23, <1>24 DEF Sound, Space, EntriesSound
<1>26. FilesKept(d, e, {})
  <2> SUFFICES ASSUME NEW m \in Inodes, d.inode[m].mode = "file"
               PROVE  /\ e.inode[m].mode = "file" /\ e.inode[m].size = d.inode[m].size
                      /\ \A l \in 0 .. FileMax - 1 : ReadBlock(e, m, l) = ReadBlock(d, m, l)
    BY DEF FilesKept
  <2>1. m \in d.i_bitmap /\ m # n
    BY <1>10 DEF NodesSound
  <2>2. e.inode[m] = d.inode[m]
    BY <1>2, <2>1
  <2>3. ASSUME NEW l \in 0 .. FileMax - 1 PROVE ReadBlock(e, m, l) = ReadBlock(d, m, l)
    <3>1. Pos(l) \in 0 .. FileMax
      BY ReadIs
    <3>2. Ref(e, m, Pos(l)) = Ref(d, m, Pos(l)) /\ Ref(d, m, Pos(l)) \in {0} \cup Blocks
      BY <1>1, <1>4, <2>1, <3>1, RefType
    <3> QED
      BY <1>1, <1>2, <3>1, <3>2, SameRead
  <2> QED
    BY <2>2, <2>3
<1> QED
  BY <1>25, <1>26

\* X is a set of blocks of inode i, in the directory blocks of which there are no entries.
Bare(d, i, X) ==
  /\ X \in SUBSET Blocks /\ \A x \in X : \E k \in 0 .. FileMax : Ref(d, i, k) = x
  /\ \A h \in Places : InDir(d, i, h[1]) => EntryAt(d, h).num = 0

\* On e inode i, the entry at g and the blocks of X are gone.
GoneFrom(d, e, i, g, X) ==
  /\ e \in Disks /\ e.i_bitmap = d.i_bitmap \ {i} /\ e.d_bitmap = d.d_bitmap \ X
  /\ \A j \in Inodes \ {i} : e.inode[j] = d.inode[j]
  /\ e.inode[i] = ZeroInode
  /\ \A x \in Blocks \ e.d_bitmap : e.block[x] = ZeroBlock
  /\ \A x \in Blocks \ X : e.block[x].ptr = d.block[x].ptr /\ e.block[x].data = d.block[x].data
  /\ EntryAt(e, g) = NoEntry /\ \A h \in Places : h # g => EntryAt(e, h) = EntryAt(d, h)

\* An inode can go with its one entry and blocks of its own, if it is not a directory with
\* entries.
LEMMA Removed ==
  ASSUME NEW d, Sound(d), NEW i \in d.i_bitmap \ {0}, NEW g \in Places, EntryAt(d, g).num = i,
         NEW X, Bare(d, i, X), NEW e, GoneFrom(d, e, i, g, X)
  PROVE  Sound(e) /\ FilesKept(d, e, {i})
<1> SUFFICES ASSUME X \in SUBSET Blocks, \A x \in X : \E k \in 0 .. FileMax : Ref(d, i, k) = x,
                    \A h \in Places : InDir(d, i, h[1]) => EntryAt(d, h).num = 0,
                    e \in Disks, e.i_bitmap = d.i_bitmap \ {i}, e.d_bitmap = d.d_bitmap \ X,
                    \A j \in Inodes \ {i} : e.inode[j] = d.inode[j], e.inode[i] = ZeroInode,
                    \A x \in Blocks \ e.d_bitmap : e.block[x] = ZeroBlock,
                    \A x \in Blocks \ X : /\ e.block[x].ptr = d.block[x].ptr
                                          /\ e.block[x].data = d.block[x].data,
                    EntryAt(e, g) = NoEntry,
                    \A h \in Places : h # g => EntryAt(e, h) = EntryAt(d, h)
             PROVE  Sound(e) /\ FilesKept(d, e, {i})
  BY DEF Bare, GoneFrom
<1>1. /\ d \in Disks /\ d.i_bitmap \subseteq Inodes /\ d.d_bitmap \subseteq Blocks /\ i \in Inodes
      /\ IND_BLOCK \in 0 .. FileMax /\ \A m \in Dirs(d) : m \in d.i_bitmap
  BY SoundParts, Sizes DEF Dirs
<1>2. ASSUME NEW m \in d.i_bitmap \ {i}, NEW l \in 0 .. FileMax PROVE Ref(d, m, l) \notin X
  <2> SUFFICES ASSUME Ref(d, m, l) \in X PROVE FALSE
    OBVIOUS
  <2>1. PICK k \in 0 .. FileMax : Ref(d, i, k) = Ref(d, m, l)
    OBVIOUS
  <2>2. Ref(d, m, l) # 0
    BY DEF Blocks
  <2> QED
    BY <2>1, <2>2, OneRef
<1>3. ASSUME NEW m \in d.i_bitmap \ {i}, NEW l \in 0 .. FileMax PROVE Ref(e, m, l) = Ref(d, m, l)
  <2>1. Ref(d, m, IND_BLOCK) \in {0} \cup Blocks /\ Ref(d, m, IND_BLOCK) \notin X /\ m \in Inodes
    BY <1>1, <1>2, RefType
  <2> QED
    BY <1>1, <2>1, SameRef
<1>4. Marked(e)
  <2> SUFFICES ASSUME NEW m \in d.i_bitmap \ {i}, NEW l \in 0 .. FileMax, Ref(e, m, l) # 0
               PROVE  Ref(e, m, l) \in d.d_bitmap \ X
    BY DEF Marked
  <2> QED
    BY <1>2, <1>3, SoundParts
<1>5. Once(e)
  <2> SUFFICES ASSUME NEW m \in e.i_bitmap, NEW q \in e.i_bitmap, NEW l \in 0 .. FileMax,
                      NEW r \in 0 .. FileMax, Ref(e, m, l) # 0, Ref(e, m, l) = Ref(e, q, r)
               PROVE  m = q /\ l = r
    BY DEF Once
  <2>1. m \in d.i_bitmap \ {i} /\ q \in d.i_bitmap \ {i}
    OBVIOUS
  <2>2. Ref(d, m, l) # 0 /\ Ref(d, m, l) = Ref(d, q, r)
    BY <1>3, <2>1
  <2> QED
    BY <2>1, <2>2, OneRef
<1>6. FreeIsZero(e)
  BY DEF FreeIsZero
<1>7. NodesSound(d) /\ 0 \in d.i_bitmap
  BY SoundParts DEF NodesSound
<1>8. NodesSound(e)
  <2>1. ASSUME NEW m \in Inodes
        PROVE  /\ m \in e.i_bitmap <=> e.inode[m].mode # "none"
               /\ e.inode[m].mode = "dir" => e.inode[m].size = 0
    <3>1. CASE m = i
      BY <3>1 DEF ZeroInode
    <3>2. CASE m # i
      <4>1. e.inode[m] = d.inode[m] /\ (m \in e.i_bitmap <=> m \in d.i_bitmap)
        BY <3>2
      <4> QED
        BY <1>7, <4>1 DEF NodesSound
    <3> QED
      BY <3>1, <3>2
  <2>2. 0 \in e.i_bitmap /\ e.inode[0].mode = "dir"
    <3>1. 0 \in Inodes \ {i}
      BY <1>1, <1>7
    <3> QED
      BY <1>7, <3>1 DEF NodesSound
  <2> QED
    BY <2>1, <2>2 DEF NodesSound
<1>9. ASSUME NEW m \in Dirs(e) PROVE m \in Dirs(d) /\ m \in d.i_bitmap \ {i}
  BY <1>1 DEF Dirs
<1>10. ASSUME NEW m \in Dirs(d), m # i PROVE m \in Dirs(e)
  BY <1>1, <1>10 DEF Dirs
<1>11. ASSUME NEW m \in d.i_bitmap \ {i}, NEW x PROVE InDir(e, m, x) <=> InDir(d, m, x)
  <2>1. \A l \in 0 .. D_BLOCK : Ref(e, m, l) = Ref(d, m, l)
    BY <1>3, Sizes
  <2> QED
    BY <2>1, InDirIs
<1>12. NumNamed(d) /\ Housed(d) /\ NumOnce(d) /\ Linked(d) /\ NameOnce(d)
  BY SoundParts
<1>13. EntryAt(e, g).num = 0 /\ EntryAt(e, g).name = ""
  BY ZeroTypes
<1>14. NumNamed(e)
  BY <1>12, <1>13 DEF NumNamed
<1>15. Housed(e)
  <2> SUFFICES ASSUME NEW h \in Places, EntryAt(e, h).num # 0
               PROVE  EntryAt(e, h).num \in e.i_bitmap /\ \E m \in Dirs(e) : InDir(e, m, h[1])
    BY DEF Housed
  <2>1. h # g /\ EntryAt(e, h) = EntryAt(d, h) /\ EntryAt(d, h).num # 0
    BY <1>13
  <2>2. EntryAt(d, h).num \in d.i_bitmap /\ EntryAt(d, h).num # i
    BY <1>12, <2>1 DEF Housed, NumOnce
  <2>3. PICK m \in Dirs(d) : InDir(d, m, h[1])
    BY <1>12, <2>1 DEF Housed
  <2>4. m # i
    BY <2>1, <2>3
  <2>5. InDir(e, m, h[1]) /\ m \in Dirs(e)
    BY <1>1, <1>10, <1>11, <2>3, <2>4
  <2> QED
    BY <2>1, <2>2, <2>5
<1>16. NumOnce(e)
  <2> SUFFICES ASSUME NEW f \in Places, NEW h \in Places, EntryAt(e, f).num # 0,
                      EntryAt(e, f).num = EntryAt(e, h).num
               PROVE  f = h
    BY DEF NumOnce
  <2>1. f # g /\ h # g
    BY <1>13
  <2> QED
    BY <1>12, <2>1 DEF NumOnce
<1>17. Linked(e)
  <2> SUFFICES ASSUME NEW m \in e.i_bitmap \ {0}
               PROVE  \E h \in Places : EntryAt(e, h).num = m
    BY DEF Linked
  <2>1. m \in d.i_bitmap \ {0} /\ m # i
    OBVIOUS
  <2>2. PICK h \in Places : EntryAt(d, h).num = m
    BY <1>12, <2>1 DEF Linked
  <2>3. h # g
    BY <2>1, <2>2
  <2> QED
    BY <2>2, <2>3
<1>18. NameOnce(e)
  <2> SUFFICES ASSUME NEW m \in Dirs(e), NEW f \in Places, NEW h \in Places,
                      InDir(e, m, f[1]), InDir(e, m, h[1]), EntryAt(e, f).num # 0,
                      EntryAt(e, f).name = EntryAt(e, h).name
               PROVE  f = h
    BY DEF NameOnce
  <2>1. m \in Dirs(d) /\ InDir(d, m, f[1]) /\ InDir(d, m, h[1])
    BY <1>9, <1>11
  <2>2. EntryAt(e, f).name # "" /\ EntryAt(e, h).name # ""
    BY <1>14 DEF NumNamed
  <2>3. f # g /\ h # g
    BY <1>13, <2>2
  <2>4. EntryAt(e, f) = EntryAt(d, f) /\ EntryAt(e, h) = EntryAt(d, h)
    BY <2>3
  <2> QED
    BY <1>12, <2>1, <2>4 DEF NameOnce
<1>19. Sound(e)
  BY <1>4, <1>5, <1>6, <1>8, <1>14, <1>15, <1>16, <1>17, <1>18 DEF Sound, Space, EntriesSound
<1>20. FilesKept(d, e, {i})
  <2> SUFFICES ASSUME NEW m \in Inodes \ {i}, d.inode[m].mode = "file"
               PROVE  /\ e.inode[m].mode = "file" /\ e.inode[m].size = d.inode[m].size
                      /\ \A l \in 0 .. FileMax - 1 : ReadBlock(e, m, l) = ReadBlock(d, m, l)
    BY DEF FilesKept
  <2>1. m \in d.i_bitmap \ {i}
    BY <1>7 DEF NodesSound
  <2>2. ASSUME NEW l \in 0 .. FileMax - 1 PROVE ReadBlock(e, m, l) = ReadBlock(d, m, l)
    <3>1. Pos(l) \in 0 .. FileMax
      BY ReadIs
    <3>2. /\ Ref(e, m, Pos(l)) = Ref(d, m, Pos(l)) /\ Ref(d, m, Pos(l)) \in {0} \cup Blocks
          /\ Ref(d, m, Pos(l)) \notin X
      BY <1>1, <1>2, <1>3, <2>1, <3>1, RefType
    <3> QED
      BY <1>1, <3>1, <3>2, SameRead
  <2> QED
    BY <2>2
<1> QED
  BY <1>19, <1>20

-----------------------------------------------------------------------------
(* Lookup *)

\* A set of pairs of numbers that is not empty has a first one.
LEMMA FirstPlace ==
  ASSUME NEW H \in SUBSET (Nat \X Nat), H # {}
  PROVE  \E h \in H : \A g \in H : h[1] < g[1] \/ (h[1] = g[1] /\ h[2] <= g[2])
<1>1. \A h \in H : h[1] \in Nat /\ h[2] \in Nat
  OBVIOUS
<1>2. PICK T : T = {h[1] : h \in H}
  OBVIOUS
<1>3. T \in SUBSET Nat /\ T # {}
  BY <1>1, <1>2
<1>4. PICK x \in T : \A y \in T : x <= y
  BY <1>3, Least
<1>5. PICK U : U = {h[2] : h \in {g \in H : g[1] = x}}
  OBVIOUS
<1>6. U \in SUBSET Nat /\ U # {}
  BY <1>1, <1>2, <1>4, <1>5
<1>7. PICK z \in U : \A y \in U : z <= y
  BY <1>6, Least
<1>8. PICK h \in H : h[1] = x /\ h[2] = z
  BY <1>5, <1>7
<1>9. ASSUME NEW g \in H PROVE h[1] < g[1] \/ (h[1] = g[1] /\ h[2] <= g[2])
  <2>1. g[1] \in T /\ x <= g[1]
    BY <1>2, <1>4
  <2>2. CASE g[1] = x
    <3>1. g[2] \in U
      BY <1>5, <2>2
    <3> QED
      BY <1>7, <1>8, <2>2, <3>1
  <2>3. CASE g[1] # x
    <3>1. x < g[1]
      BY <1>1, <1>8, <2>1, <2>3
    <3> QED
      BY <1>8, <3>1
  <2> QED
    BY <2>2, <2>3
<1> QED
  BY <1>9

\* The slots of a scan with that name, and the one that the lookup takes from it.
Named(d, b, name) == {h \in Scanned(b) : NameAt(d, h) = name}
Met(d, p, k, name) == {h \in find_dentry(d, d.inode[p].blocks[k], name) :
                         IsEntry(d, h) => EntryAt(d, h).num > 0}

\* A scan is over pairs of numbers, and from a block it is over places.
LEMMA ScanType ==
  ASSUME NEW b \in {0} \cup Blocks
  PROVE  /\ Scanned(b) \in SUBSET (Nat \X Nat)
         /\ b # 0 => Scanned(b) \subseteq Places
         /\ \A h \in Scanned(b) : h[1] # 0 => b # 0
<1>1. CASE b = 0
  <2>1. Scanned(b) = {0} \X (0 .. 2 * EntriesPerBlock - 1)
    BY <1>1 DEF Scanned
  <2>2. 0 .. 2 * EntriesPerBlock - 1 \subseteq Nat
    BY Sizes
  <2> QED
    BY <1>1, <2>1, <2>2
<1>2. CASE b # 0
  <2>1. Scanned(b) = ({b, b + 1} \cap Blocks) \X Slots
    BY <1>2 DEF Scanned, Slots
  <2>2. Blocks \subseteq Nat /\ Slots \subseteq Nat
    BY Sizes DEF Blocks, Slots
  <2> QED
    BY <1>2, <2>1, <2>2 DEF Places
<1> QED
  BY <1>1, <1>2

\* find_dentry finds the first slot with the name.
LEMMA ScanFirst ==
  ASSUME NEW d, NEW b, NEW name, NEW h
  PROVE  h \in find_dentry(d, b, name) <=>
           /\ h \in Named(d, b, name)
           /\ \A g \in Named(d, b, name) : h[1] < g[1] \/ (h[1] = g[1] /\ h[2] <= g[2])
BY DEF find_dentry, Named

\* It finds one if there is one.
LEMMA ScanFinds ==
  ASSUME NEW d, NEW b \in {0} \cup Blocks, NEW name
  PROVE  /\ Named(d, b, name) \in SUBSET (Nat \X Nat)
         /\ Named(d, b, name) # {} => \E h : h \in find_dentry(d, b, name)
<1>2. Named(d, b, name) \in SUBSET (Nat \X Nat)
  BY ScanType DEF Named
<1>3. PICK H \in SUBSET (Nat \X Nat) : H = Named(d, b, name)
  BY <1>2
<1>4. H # {} => \E h \in H : \A g \in H : h[1] < g[1] \/ (h[1] = g[1] /\ h[2] <= g[2])
  BY FirstPlace
<1> QED
  BY <1>2, <1>3, <1>4, ScanFirst

\* A direct pointer is null or a block.
LEMMA PointerType ==
  ASSUME NEW d, Sound(d), NEW p \in d.i_bitmap, NEW k \in 0 .. D_BLOCK
  PROVE  d.inode[p].blocks[k] \in {0} \cup Blocks
<1>1. d \in Disks /\ p \in Inodes
  BY SoundParts
<1>2. d.inode[p].blocks \in [0 .. IND_BLOCK -> {0} \cup Blocks] /\ k \in 0 .. IND_BLOCK
  BY <1>1, DiskType, Sizes
<1> QED
  BY <1>2

\* What is met is in a slot of the name; an entry of a directory is met as what it is.
LEMMA MetType ==
  ASSUME NEW d, Sound(d), NEW p \in d.i_bitmap, NEW k \in 0 .. D_BLOCK, NEW name \in Names,
         NEW h \in Met(d, p, k, name)
  PROVE  /\ d.inode[p].blocks[k] \in {0} \cup Blocks
         /\ h \in Named(d, d.inode[p].blocks[k], name)
         /\ IsEntry(d, h) => /\ h \in Places /\ d.inode[p].blocks[k] # 0
                             /\ EntryAt(d, h).name = name /\ EntryAt(d, h).num > 0
<1>1. d.inode[p].blocks[k] \in {0} \cup Blocks
  BY PointerType
<1>2. PICK b \in {0} \cup Blocks : b = d.inode[p].blocks[k]
  BY <1>1
<1>3. h \in find_dentry(d, b, name) /\ (IsEntry(d, h) => EntryAt(d, h).num > 0)
  BY <1>2 DEF Met
<1>4. h \in Named(d, b, name)
  BY <1>3, ScanFirst
<1>5. h \in Scanned(b) /\ NameAt(d, h) = name
  BY <1>4 DEF Named
<1>6. ASSUME IsEntry(d, h)
      PROVE  h \in Places /\ b # 0 /\ EntryAt(d, h).name = name
  <2>1. h[1] # 0 /\ EntryAt(d, h).name = name
    BY <1>5, <1>6 DEF IsEntry, NameAt
  <2> QED
    BY <1>5, <2>1, ScanType
<1> QED
  BY <1>1, <1>2, <1>3, <1>4, <1>6

\* A pointer whose scan meets nothing has no slot of that name: an entry with a name has
\* a number.
LEMMA MetNothing ==
  ASSUME NEW d, Sound(d), NEW p \in d.i_bitmap, NEW k \in 0 .. D_BLOCK, NEW name \in Names,
         Met(d, p, k, name) = {}
  PROVE  Named(d, d.inode[p].blocks[k], name) = {}
<1> SUFFICES ASSUME Named(d, d.inode[p].blocks[k], name) # {} PROVE FALSE
  OBVIOUS
<1>1. PICK b \in {0} \cup Blocks : b = d.inode[p].blocks[k]
  BY PointerType
<1>2. PICK h : h \in find_dentry(d, b, name)
  <2>1. Named(d, b, name) # {}
    BY <1>1
  <2> QED
    BY <2>1, ScanFinds
<1>3. h \in Scanned(b) /\ NameAt(d, h) = name
  BY <1>2, ScanFirst DEF Named
<1>4. IsEntry(d, h)
  BY <1>1, <1>2 DEF Met
<1>5. h[1] # 0 /\ EntryAt(d, h).name = name
  BY <1>3, <1>4 DEF IsEntry, NameAt
<1>6. h \in Places
  BY <1>3, <1>5, ScanType
<1>7. d \in Disks /\ name # ""
  BY SoundParts, WFSAssumption
<1>8. EntryAt(d, h).num \in Inodes /\ EntryAt(d, h).num # 0
  BY <1>5, <1>6, <1>7, EntryType, NameNum
<1>9. PICK x : x = EntryAt(d, h).num
  OBVIOUS
<1>10. x > 0
  BY <1>8, <1>9, Sizes DEF Inodes
<1> QED
  BY <1>1, <1>2, <1>9, <1>10 DEF Met

\* FindIn returns what the first pointer that meets something has met.
LEMMA FindIs ==
  ASSUME NEW d, NEW p, NEW K \in SUBSET Nat, NEW name
  PROVE  \/ FindIn(d, p, K, name) = {} /\ \A k \in K : Met(d, p, k, name) = {}
         \/ \E k \in K : /\ FindIn(d, p, K, name) = Met(d, p, k, name) /\ Met(d, p, k, name) # {}
                         /\ \A l \in K : l < k => Met(d, p, l, name) = {}
<1> DEFINE Hit(k) == {h \in find_dentry(d, d.inode[p].blocks[k], name) :
                        IsEntry(d, h) => EntryAt(d, h).num > 0}
<1>1. \A k : Hit(k) = Met(d, p, k, name)
  BY DEF Met
<1>2. PICK L \in SUBSET Nat : L = {k \in K : Hit(k) # {}}
  OBVIOUS
<1>3. FindIn(d, p, K, name) = IF L = {} THEN {} ELSE Hit(Min(L))
  BY <1>2 DEF FindIn
<1> HIDE DEF Hit
<1>4. CASE L = {}
  BY <1>1, <1>2, <1>3, <1>4
<1>5. CASE L # {}
  <2>1. PICK m \in L : m = Min(L) /\ \A y \in L : m <= y
    BY <1>5, MinLeast
  <2>2. ASSUME NEW l \in K, l < m PROVE Hit(l) = {}
    <3>1. l \in Nat /\ m \in Nat
      OBVIOUS
    <3>2. l \notin L
      BY <2>1, <2>2, <3>1
    <3> QED
      BY <1>2, <3>2
  <2>3. Hit(m) # {} /\ m \in K
    BY <1>2
  <2> QED
    BY <1>1, <1>3, <1>5, <2>1, <2>2, <2>3
<1> QED
  BY <1>4, <1>5

\* What FindIn finds, if it is an entry, is in use and has the name, and what it does not
\* find is not in the directory's own blocks.
LEMMA FindSpec ==
  ASSUME NEW d, Sound(d), NEW p \in d.i_bitmap, NEW name \in Names,
         NEW F, F = FindIn(d, p, 0 .. D_BLOCK, name)
  PROVE  /\ \A h \in F : IsEntry(d, h) =>
              h \in Places /\ EntryAt(d, h).name = name /\ EntryAt(d, h).num > 0
         /\ F = {} => \A h \in Places : InDir(d, p, h[1]) => EntryAt(d, h).name # name
<1>1. 0 .. D_BLOCK \in SUBSET Nat /\ name # ""
  <2>1. name # ""
    BY WFSAssumption
  <2>2. 0 .. D_BLOCK \in SUBSET Nat
    BY Sizes
  <2> QED
    BY <2>1, <2>2
<1>4. PICK K \in SUBSET Nat : K = 0 .. D_BLOCK
  BY <1>1
<1>2. CASE F = {} /\ \A k \in 0 .. D_BLOCK : Met(d, p, k, name) = {}
  <2>1. ASSUME NEW h \in Places, InDir(d, p, h[1]), EntryAt(d, h).name = name
        PROVE  FALSE
    <3>1. PICK k \in 0 .. D_BLOCK : d.inode[p].blocks[k] = h[1]
      BY <2>1 DEF InDir
    <3>2. h[1] \in Blocks /\ h[2] \in Slots /\ h = <<h[1], h[2]>> /\ h[1] # 0
      BY DEF Places, Blocks
    <3>3. h \in Scanned(h[1])
      BY <3>2 DEF Scanned, Slots
    <3>4. NameAt(d, h) = name
      BY <1>1, <2>1, <3>2, ZeroTypes DEF NameAt, IsEntry
    <3>5. h \in Named(d, h[1], name)
      BY <3>3, <3>4 DEF Named
    <3> QED
      BY <1>2, <3>1, <3>5, MetNothing
  <2> QED
    BY <1>2, <2>1
<1>3. CASE \E k \in 0 .. D_BLOCK : F = Met(d, p, k, name) /\ F # {}
  BY <1>3, MetType
<1>5. \/ FindIn(d, p, K, name) = {} /\ \A k \in K : Met(d, p, k, name) = {}
      \/ \E k \in K : /\ FindIn(d, p, K, name) = Met(d, p, k, name) /\ Met(d, p, k, name) # {}
                      /\ \A l \in K : l < k => Met(d, p, l, name) = {}
  BY FindIs
<1> QED
  BY <1>2, <1>3, <1>4, <1>5

\* The inode that FindIn finds, -1 if it finds none.
Found(d, p, name) ==
  LET F == FindIn(d, p, 0 .. D_BLOCK, name)
      h == CHOOSE h \in F : TRUE
  IN  IF F = {} THEN -1 ELSE IF IsEntry(d, h) THEN EntryAt(d, h).num ELSE Astray

\* One round of find_inode_number_by_path.
LookUp(d, path, a, k) ==
  IF a.num < 0 THEN a ELSE [parent |-> a.num, num |-> Found(d, a.num, path[k + 1])]

\* What a directory finds: an inode in use, nothing, or bytes that are no entry.
LEMMA FoundIs ==
  ASSUME NEW d, Sound(d), NEW p \in d.i_bitmap, NEW name \in Names
  PROVE  /\ Found(d, p, name) \in d.i_bitmap \cup {-1, Astray}
         /\ Found(d, p, name) = -1 =>
              \A h \in Places : InDir(d, p, h[1]) => EntryAt(d, h).name # name
<1>1. PICK F : F = FindIn(d, p, 0 .. D_BLOCK, name)
  OBVIOUS
<1>2. CASE F = {}
  BY <1>1, <1>2, FindSpec DEF Found
<1>3. CASE F # {}
  <2>1. PICK h : h = CHOOSE g \in F : TRUE
    OBVIOUS
  <2>2. h \in F
    BY <1>3, <2>1
  <2>3. CASE IsEntry(d, h)
    <3>1. h \in Places /\ EntryAt(d, h).num > 0
      BY <1>1, <2>2, <2>3, FindSpec
    <3>2. EntryAt(d, h).num \in d.i_bitmap
      BY <3>1, SoundParts DEF Housed
    <3>3. Found(d, p, name) = EntryAt(d, h).num
      BY <1>1, <1>3, <2>1, <2>3 DEF Found
    <3> QED
      BY <3>1, <3>2, <3>3
  <2>4. CASE ~IsEntry(d, h)
    <3>1. Found(d, p, name) = Astray
      BY <1>1, <1>3, <2>1, <2>4 DEF Found
    <3> QED
      BY <3>1 DEF Astray
  <2> QED
    BY <2>3, <2>4
<1> QED
  BY <1>2, <1>3

\* The rounds of a lookup stay in S.
LookupLoops(d, path, n, S, start) ==
  /\ n \in Nat /\ n = Len(path) /\ start \in S /\ start = [parent |-> 0, num |-> 0]
  /\ \A a \in S, k \in 0 .. n - 1 : LookUp(d, path, a, k) \in S

\* Then the loop runs through S.
LEMMA LookupLoop ==
  ASSUME NEW d, NEW path, NEW n, NEW S, NEW start, LookupLoops(d, path, n, S, start)
  PROVE  \E G : /\ G \in [0 .. n -> S] /\ G[0] = start
                /\ \A k \in 0 .. n - 1 : G[k + 1] = LookUp(d, path, G[k], k)
                /\ find_inode_number_by_path(d, path) = G[n]
<1> DEFINE Round(a, k) == LookUp(d, path, a, k)
<1>0. n \in Nat /\ start \in S /\ n = Len(path) /\ start = [parent |-> 0, num |-> 0]
  BY DEF LookupLoops
<1>1. \A a \in S, k \in 0 .. n - 1 : Round(a, k) \in S
  BY DEF LookupLoops
<1>2. find_inode_number_by_path(d, path)
        = (CHOOSE H : H = [k \in 0 .. n |-> IF k = 0 THEN start ELSE Round(H[k - 1], k - 1)])[n]
  BY <1>0 DEF find_inode_number_by_path, Loop, LookUp, Found
<1> SUFFICES \E G : /\ G \in [0 .. n -> S] /\ G[0] = start
                    /\ \A k \in 0 .. n - 1 : G[k + 1] = Round(G[k], k)
                    /\ find_inode_number_by_path(d, path) = G[n]
  OBVIOUS
<1> HIDE DEF Round
<1>3. PICK R : R = [x \in S \X (0 .. n - 1) |-> Round(x[1], x[2])]
  OBVIOUS
<1>4. R \in [S \X (0 .. n - 1) -> S]
  BY <1>1, <1>3
<1>5. PICK G : Course(G, n, S, start, R)
  BY <1>0, <1>4, Iterate
<1>6. G \in [0 .. n -> S] /\ G[0] = start
  BY <1>5 DEF Course
<1>7. ASSUME NEW k \in 0 .. n - 1 PROVE G[k + 1] = Round(G[k], k)
  <2>1. G[k + 1] = R[<<G[k], k>>] /\ <<G[k], k>> \in S \X (0 .. n - 1)
    BY <1>0, <1>5 DEF Course
  <2> QED
    BY <1>3, <2>1
<1>8. ASSUME NEW k \in 0 .. n, k # 0 PROVE G[k] = Round(G[k - 1], k - 1)
  <2>1. k - 1 \in 0 .. n - 1 /\ k - 1 + 1 = k
    BY <1>0, <1>8
  <2> QED
    BY <1>7, <2>1
<1>9. G = [k \in 0 .. n |-> IF k = 0 THEN start ELSE Round(G[k - 1], k - 1)]
  BY <1>0, <1>6, <1>8
<1>10. PICK F : F = CHOOSE H : H = [k \in 0 .. n |-> IF k = 0 THEN start ELSE Round(H[k - 1], k - 1)]
  OBVIOUS
<1>11. F = [k \in 0 .. n |-> IF k = 0 THEN start ELSE Round(F[k - 1], k - 1)]
  BY <1>9, <1>10
<1>12. F[0] = start /\ \A k \in 0 .. n - 1 : F[k + 1] = Round(F[k], k)
  <2>1. F[0] = start
    BY <1>0, <1>11
  <2>2. ASSUME NEW k \in 0 .. n - 1 PROVE F[k + 1] = Round(F[k], k)
    <3>1. k + 1 \in 0 .. n /\ k + 1 # 0 /\ k + 1 - 1 = k
      BY <1>0
    <3>2. F[k + 1] = Round(F[k + 1 - 1], k + 1 - 1)
      BY <1>0, <1>11, <3>1
    <3> QED
      BY <3>1, <3>2
  <2> QED
    BY <2>1, <2>2
<1>13. PICK E : E = {k \in 0 .. n : F[k] = G[k]}
  OBVIOUS
<1>14. 0 \in E
  BY <1>0, <1>6, <1>12, <1>13
<1>15. ASSUME NEW k \in 0 .. n - 1, k \in E PROVE k + 1 \in E
  <2>1. F[k] = G[k] /\ k + 1 \in 0 .. n
    BY <1>0, <1>13, <1>15
  <2>2. F[k + 1] = G[k + 1]
    BY <1>7, <1>12, <2>1
  <2> QED
    BY <1>13, <2>1, <2>2
<1>16. n \in E
  <2>1. \A k \in 0 .. n : k \in E
    BY <1>0, <1>14, <1>15, Induction
  <2> QED
    BY <1>0, <2>1
<1>17. find_inode_number_by_path(d, path) = G[n]
  BY <1>2, <1>10, <1>13, <1>16
<1> QED
  BY <1>6, <1>7, <1>17

\* Where a lookup can be.
Walks(d) == [parent : d.i_bitmap, num : d.i_bitmap \cup {-1, Astray}]

\* A lookup goes from one inode in use to the next, up to the first name it does not find.
LEMMA LookupRuns ==
  ASSUME NEW d, Sound(d), NEW path \in Seq(Names), NEW n \in Nat, n = Len(path)
  PROVE  \E G : /\ G \in [0 .. n -> Walks(d)] /\ G[0] = [parent |-> 0, num |-> 0]
                /\ \A k \in 0 .. n - 1 : G[k + 1] = LookUp(d, path, G[k], k)
                /\ find_inode_number_by_path(d, path) = G[n]
<1>4. \A k \in 1 .. n : path[k] \in Names
  OBVIOUS
<1>7. PICK S : S = Walks(d)
  OBVIOUS
<1>9. ASSUME NEW s, NEW a \in S, NEW k, s[k + 1] \in Names PROVE LookUp(d, s, a, k) \in S
  <2>1. CASE a.num < 0
    BY <2>1 DEF LookUp
  <2>2. CASE ~(a.num < 0)
    <3>1. PICK p \in d.i_bitmap : p = a.num
      BY <2>2, <1>7 DEF Walks, Astray
    <3>2. PICK x \in d.i_bitmap \cup {-1, Astray} : x = Found(d, p, s[k + 1])
      BY <1>9, FoundIs
    <3>3. LookUp(d, s, a, k) = [parent |-> p, num |-> x]
      BY <2>2, <3>1, <3>2 DEF LookUp, Found
    <3> QED
      BY <1>7, <3>3 DEF Walks
  <2> QED
    BY <2>1, <2>2
<1>10. [parent |-> 0, num |-> 0] \in S
  BY <1>7, SoundParts DEF NodesSound, Walks
<1>11. ASSUME NEW a \in S, NEW k \in 0 .. n - 1 PROVE LookUp(d, path, a, k) \in S
  <2>1. path[k + 1] \in Names
    BY <1>4
  <2> QED
    BY <1>9, <2>1
<1>12. PICK start : start = [parent |-> 0, num |-> 0]
  OBVIOUS
<1>13. LookupLoops(d, path, n, S, start)
  BY <1>10, <1>11, <1>12 DEF LookupLoops
<1>14. \E G : /\ G \in [0 .. n -> S] /\ G[0] = start
              /\ \A k \in 0 .. n - 1 : G[k + 1] = LookUp(d, path, G[k], k)
              /\ find_inode_number_by_path(d, path) = G[n]
  BY <1>13, LookupLoop
<1> QED
  BY <1>7, <1>12, <1>14

\* Where a lookup that does not go astray ends: the last directory on the way, and what
\* FindIn finds in it.
LEMMA LookupSpec ==
  ASSUME NEW d, Sound(d), NEW path \in Paths, Reachable(d, path),
         NEW at, at = find_inode_number_by_path(d, path), NEW name, name = path[Len(path)],
         at.num # Astray
  PROVE  /\ name \in Names /\ at.parent \in Dirs(d)
         /\ at.num = Found(d, at.parent, name)
<1>1. path \in Seq(Names) /\ path # << >>
  BY WFSAssumption
<1>2. PICK n \in Nat : n = Len(path)
  BY <1>1
<1>3. n # 0 /\ n - 1 \in 0 .. n - 1 /\ n - 1 + 1 = n /\ n - 1 \in Nat
  BY <1>1, <1>2, EmptySeq
<1>4. \A k \in 1 .. n : path[k] \in Names
  BY <1>1, <1>2
<1>5. PICK q : q = SubSeq(path, 1, n - 1)
  OBVIOUS
<1>6. q \in Seq(Names) /\ Len(q) = n - 1 /\ \A k \in 1 .. n - 1 : q[k] = path[k]
  BY <1>1, <1>2, <1>3, <1>5
<1>11. PICK G : /\ G \in [0 .. n -> Walks(d)] /\ G[0] = [parent |-> 0, num |-> 0]
                /\ \A k \in 0 .. n - 1 : G[k + 1] = LookUp(d, path, G[k], k)
                /\ find_inode_number_by_path(d, path) = G[n]
  BY <1>1, <1>2, LookupRuns
<1>12. PICK m \in Nat : m = n - 1
  BY <1>3
<1>13. PICK H : /\ H \in [0 .. m -> Walks(d)] /\ H[0] = [parent |-> 0, num |-> 0]
                /\ \A k \in 0 .. m - 1 : H[k + 1] = LookUp(d, q, H[k], k)
                /\ find_inode_number_by_path(d, q) = H[m]
  <2>1. q \in Seq(Names) /\ m = Len(q)
    BY <1>6, <1>12
  <2> QED
    BY <2>1, LookupRuns
<1>14. PICK E : E = {k \in 0 .. m : G[k] = H[k]}
  OBVIOUS
<1>15. ASSUME NEW k \in 0 .. m - 1, k \in E PROVE k + 1 \in E
  <2>1. k + 1 \in 0 .. m /\ k \in 0 .. n - 1 /\ k + 1 \in 1 .. n - 1
    BY <1>12
  <2>2. G[k] = H[k] /\ q[k + 1] = path[k + 1]
    BY <1>6, <1>14, <1>15, <2>1
  <2>3. LookUp(d, path, G[k], k) = LookUp(d, q, H[k], k)
    BY <2>2 DEF LookUp
  <2>4. G[k + 1] = H[k + 1]
    BY <1>11, <1>13, <2>1, <2>3
  <2> QED
    BY <1>14, <2>1, <2>4
<1>16. G[m] = H[m]
  <2>1. 0 \in E
    BY <1>11, <1>13, <1>14
  <2>2. \A k \in 0 .. m : k \in E
    BY <1>15, <2>1, Induction
  <2> QED
    BY <1>14, <2>2
<1>17. wfs_getattr(d, G[m]) \in {"dir", "any"}
  BY <1>2, <1>3, <1>5, <1>12, <1>13, <1>16 DEF Reachable
<1>18. G[m] \in Walks(d)
  BY <1>11, <1>12
<1>19. at = LookUp(d, path, G[m], m) /\ path[m + 1] = name
  BY <1>2, <1>3, <1>11, <1>12
<1>20. G[m].num \in d.i_bitmap \cup {-1, Astray}
  BY <1>18 DEF Walks
<1>21. G[m].num # Astray
  BY <1>19 DEF LookUp, Astray
<1>22. G[m].num # -1
  BY <1>17, <1>21 DEF wfs_getattr, Astray
<1>23. PICK p \in d.i_bitmap : p = G[m].num
  BY <1>20, <1>21, <1>22
<1>24. d.inode[p].mode \in {"dir", "any"} /\ p \in Inodes /\ d \in Disks
  BY <1>17, <1>21, <1>22, <1>23, SoundParts DEF wfs_getattr
<1>25. d.inode[p].mode = "dir"
  BY <1>24, DiskType
<1>26. name \in Names
  BY <1>2, <1>3, <1>4
<1>27. ~(p < 0)
  BY <1>24, Sizes DEF Inodes
<1>28. at = [parent |-> p, num |-> Found(d, p, name)]
  BY <1>19, <1>23, <1>27 DEF LookUp, Found
<1> QED
  BY <1>23, <1>25, <1>26, <1>28 DEF Dirs

-----------------------------------------------------------------------------
(* mknod, mkdir *)

\* The loop of MakeNode.
MakeLoop(d, p, name, mode) ==
  Loop(IND_BLOCK, [d |-> d, ret |-> "-"], LAMBDA a, k : AddEntryAt(a, k, p, name, mode))

\* The rounds of MakeNode stay in S.
MakingLoops(d, p, name, mode, n, S, start) ==
  /\ n \in Nat /\ n = IND_BLOCK /\ start \in S /\ start = [d |-> d, ret |-> "-"]
  /\ \A a \in S, k \in 0 .. n - 1 : AddEntryAt(a, k, p, name, mode) \in S

\* Then the loop runs through S.
LEMMA MakingLoop ==
  ASSUME NEW d, NEW p, NEW name, NEW mode, NEW n, NEW S, NEW start, MakingLoops(d, p, name, mode, n, S, start)
  PROVE  \E G : /\ G \in [0 .. n -> S] /\ G[0] = start
                /\ \A k \in 0 .. n - 1 : G[k + 1] = AddEntryAt(G[k], k, p, name, mode)
                /\ MakeLoop(d, p, name, mode) = G[n]
<1> DEFINE Round(a, k) == AddEntryAt(a, k, p, name, mode)
<1>0. n \in Nat /\ start \in S /\ n = IND_BLOCK /\ start = [d |-> d, ret |-> "-"]
  BY DEF MakingLoops
<1>1. \A a \in S, k \in 0 .. n - 1 : Round(a, k) \in S
  BY DEF MakingLoops
<1>2. MakeLoop(d, p, name, mode)
        = (CHOOSE H : H = [k \in 0 .. n |-> IF k = 0 THEN start ELSE Round(H[k - 1], k - 1)])[n]
  BY <1>0 DEF MakeLoop, Loop
<1> SUFFICES \E G : /\ G \in [0 .. n -> S] /\ G[0] = start
                    /\ \A k \in 0 .. n - 1 : G[k + 1] = Round(G[k], k)
                    /\ MakeLoop(d, p, name, mode) = G[n]
  OBVIOUS
<1> HIDE DEF Round
<1>3. PICK R : R = [x \in S \X (0 .. n - 1) |-> Round(x[1], x[2])]
  OBVIOUS
<1>4. R \in [S \X (0 .. n - 1) -> S]
  BY <1>1, <1>3
<1>5. PICK G : Course(G, n, S, start, R)
  BY <1>0, <1>4, Iterate
<1>6. G \in [0 .. n -> S] /\ G[0] = start
  BY <1>5 DEF Course
<1>7. ASSUME NEW k \in 0 .. n - 1 PROVE G[k + 1] = Round(G[k], k)
  <2>1. G[k + 1] = R[<<G[k], k>>] /\ <<G[k], k>> \in S \X (0 .. n - 1)
    BY <1>0, <1>5 DEF Course
  <2> QED
    BY <1>3, <2>1
<1>8. ASSUME NEW k \in 0 .. n, k # 0 PROVE G[k] = Round(G[k - 1], k - 1)
  <2>1. k - 1 \in 0 .. n - 1 /\ k - 1 + 1 = k
    BY <1>0, <1>8
  <2> QED
    BY <1>7, <2>1
<1>9. G = [k \in 0 .. n |-> IF k = 0 THEN start ELSE Round(G[k - 1], k - 1)]
  BY <1>0, <1>6, <1>8
<1>10. PICK F : F = CHOOSE H : H = [k \in 0 .. n |-> IF k = 0 THEN start ELSE Round(H[k - 1], k - 1)]
  OBVIOUS
<1>11. F = [k \in 0 .. n |-> IF k = 0 THEN start ELSE Round(F[k - 1], k - 1)]
  BY <1>9, <1>10
<1>12. F[0] = start /\ \A k \in 0 .. n - 1 : F[k + 1] = Round(F[k], k)
  <2>1. F[0] = start
    BY <1>0, <1>11
  <2>2. ASSUME NEW k \in 0 .. n - 1 PROVE F[k + 1] = Round(F[k], k)
    <3>1. k + 1 \in 0 .. n /\ k + 1 # 0 /\ k + 1 - 1 = k
      BY <1>0
    <3>2. F[k + 1] = Round(F[k + 1 - 1], k + 1 - 1)
      BY <1>0, <1>11, <3>1
    <3> QED
      BY <3>1, <3>2
  <2> QED
    BY <2>1, <2>2
<1>13. PICK E : E = {k \in 0 .. n : F[k] = G[k]}
  OBVIOUS
<1>14. 0 \in E
  BY <1>0, <1>6, <1>12, <1>13
<1>15. ASSUME NEW k \in 0 .. n - 1, k \in E PROVE k + 1 \in E
  <2>1. F[k] = G[k] /\ k + 1 \in 0 .. n
    BY <1>0, <1>13, <1>15
  <2>2. F[k + 1] = G[k + 1]
    BY <1>7, <1>12, <2>1
  <2> QED
    BY <1>13, <2>1, <2>2
<1>16. n \in E
  <2>1. \A k \in 0 .. n : k \in E
    BY <1>0, <1>14, <1>15, Induction
  <2> QED
    BY <1>0, <2>1
<1>17. MakeLoop(d, p, name, mode) = G[n]
  BY <1>2, <1>10, <1>13, <1>16
<1> QED
  BY <1>6, <1>7, <1>17

\* Files that are kept twice are kept.
LEMMA KeptTwice ==
  ASSUME NEW c, NEW d, NEW e, FilesKept(c, d, {}), FilesKept(d, e, {})
  PROVE  FilesKept(c, e, {})
BY DEF FilesKept

\* What changes only directory i changes no file.
LEMMA KeptFiles ==
  ASSUME NEW d, Sound(d), NEW e, NEW i, Kept(d, e, i), d.inode[i].mode # "file"
  PROVE  FilesKept(d, e, {})
<1> SUFFICES ASSUME NEW j \in Inodes, d.inode[j].mode = "file"
             PROVE  /\ e.inode[j].mode = "file" /\ e.inode[j].size = d.inode[j].size
                    /\ \A k \in 0 .. FileMax - 1 : ReadBlock(e, j, k) = ReadBlock(d, j, k)
  BY DEF FilesKept
<1>1. j \in d.i_bitmap \ {i}
  BY SoundParts DEF NodesSound
<1> QED
  BY <1>1 DEF Kept

\* A block of directory p with a free slot takes the entry, if there is a free inode.
LEMMA EntryMade ==
  ASSUME NEW d, Sound(d), NEW p \in Dirs(d), NEW k \in 0 .. D_BLOCK, NEW b \in Blocks,
         Ref(d, p, k) = b, NEW name \in Names, NEW mode \in {"file", "dir"},
         NEW J, J = {j \in 0 .. EntriesPerBlock - 1 : d.block[b].dentry[j].num = 0}, J # {},
         \A h \in Places : InDir(d, p, h[1]) => EntryAt(d, h).name # name,
         NEW n, n = allocate_block(d.i_bitmap, Inodes), n # -1,
         NEW e, e = Create(d, b, Min(J), name, mode, n)
  PROVE  e \in Disks /\ Sound(e) /\ FilesKept(d, e, {})
<1>1. n \in Inodes \ d.i_bitmap
  <2>1. Inodes \in SUBSET Nat
    BY Sizes DEF Inodes
  <2> QED
    BY <2>1, Allocate
<1>2. PICK j : j = Min(J)
  OBVIOUS
<1>3. j \in J
  <2>1. J \in SUBSET Nat
    BY Sizes
  <2> QED
    BY <1>2, <2>1, MinIs
<1>4. j \in Slots /\ EntryAt(d, <<b, j>>).num = 0
  BY <1>3 DEF Slots, EntryAt
<1>5. e = Create(d, b, j, name, mode, n)
  BY <1>2
<1>6. Sound(e) /\ FilesKept(d, e, {})
  BY <1>1, <1>4, <1>5, Created
<1> QED
  BY <1>6 DEF Sound

\* The states of the loop of MakeNode: nothing happened, or the directory got a block and
\* there was no inode, or the inode was made.
Making(d, p) ==
  {a \in [d : Disks, ret : {"-", "ok", "ENOSPC"}] :
     \/ a.ret = "-" /\ a.d = d
     \/ /\ a.ret = "ENOSPC"
        /\ \/ a.d = d
           \/ \E k \in 0 .. D_BLOCK, b \in Blocks \ d.d_bitmap :
                Ref(d, p, k) = 0 /\ a.d = GiveBlock(d, p, k, b)
     \/ a.ret = "ok" /\ Sound(a.d) /\ FilesKept(d, a.d, {})}

\* A round of MakeNode stays among these.
LEMMA MakingRound ==
  ASSUME NEW d, Sound(d), NEW p \in Dirs(d), NEW name \in Names, NEW mode \in {"file", "dir"},
         \A h \in Places : InDir(d, p, h[1]) => EntryAt(d, h).name # name,
         NEW a \in Making(d, p), NEW k \in 0 .. D_BLOCK
  PROVE  AddEntryAt(a, k, p, name, mode) \in Making(d, p)
<1>1. CASE a.ret # "-"
  BY <1>1 DEF AddEntryAt
<1>2. CASE a.ret = "-"
  <2>1. a.d = d /\ a = [d |-> d, ret |-> "-"]
    BY <1>2 DEF Making
  <2>2. /\ d \in Disks /\ p \in d.i_bitmap /\ p \in Inodes /\ k \in 0 .. FileMax
        /\ k \in 0 .. IND_BLOCK /\ Blocks \in SUBSET Nat /\ d.inode[p].mode = "dir"
    BY SoundParts, Sizes DEF Dirs, Blocks
  <2>3. PICK q : q = Ref(d, p, k)
    OBVIOUS
  <2>4. q \in {0} \cup Blocks /\ d.inode[p].blocks[k] = q
    BY <2>2, <2>3, RefType, Sizes
  <2>5. ASSUME NEW n, n = allocate_block(d.d_bitmap, Blocks), q = 0, n = -1
        PROVE  AddEntryAt(a, k, p, name, mode) \in Making(d, p)
    <3>1. AddEntryAt(a, k, p, name, mode) = [a EXCEPT !.ret = "ENOSPC"]
      BY <1>2, <2>1, <2>4, <2>5 DEF AddEntryAt
    <3>2. AddEntryAt(a, k, p, name, mode) = [d |-> d, ret |-> "ENOSPC"]
      BY <2>1, <3>1
    <3> QED
      BY <2>2, <3>2 DEF Making
  <2>6. ASSUME NEW b, b = allocate_block(d.d_bitmap, Blocks), q = 0, b # -1
        PROVE  AddEntryAt(a, k, p, name, mode) \in Making(d, p)
    <3>1. b \in Blocks \ d.d_bitmap
      BY <2>2, <2>6, Allocate
    <3>2. PICK e : e = GiveBlock(d, p, k, b)
      OBVIOUS
    <3>3. /\ Sound(e) /\ Kept(d, e, p) /\ Ref(e, p, k) = b /\ e.block = d.block
          /\ \A l \in 0 .. FileMax : l # k => Ref(e, p, l) = Ref(d, p, l)
      <4>1. Ref(d, p, k) = 0 /\ p \in d.i_bitmap /\ k \in 0 .. IND_BLOCK
        BY <2>2, <2>3, <2>6
      <4> QED
        BY <3>1, <3>2, <4>1, Given
    <3>4. e \in Disks /\ p \in Dirs(e)
      BY <2>2, <3>3 DEF Sound, Dirs, Kept
    <3>5. FilesKept(d, e, {})
      BY <2>2, <3>3, KeptFiles
    <3>6. ASSUME NEW h \in Places, InDir(e, p, h[1]) PROVE EntryAt(e, h).name # name
      <4>1. EntryAt(e, h) = EntryAt(d, h)
        BY <3>3 DEF Kept
      <4>2. CASE h[1] = b
        <5>1. EntryAt(d, h).name = ""
          BY <3>1, <4>2, FreeNoEntry
        <5> QED
          BY <4>1, <5>1, WFSAssumption
      <4>3. CASE h[1] # b
        <5>1. PICK l \in 0 .. D_BLOCK : Ref(e, p, l) = h[1]
          BY <3>6, InDirIs
        <5>2. l \in 0 .. FileMax /\ l # k
          BY <3>3, <4>3, <5>1, Sizes
        <5>3. InDir(d, p, h[1])
          BY <3>3, <5>1, <5>2, InDirIs
        <5> QED
          BY <4>1, <5>3
      <4> QED
        BY <4>2, <4>3
    <3>7. PICK J : J = {j \in 0 .. EntriesPerBlock - 1 : e.block[b].dentry[j].num = 0}
      OBVIOUS
    <3>8. J # {}
      <4>1. e.block[b] = ZeroBlock /\ 0 \in Slots
        BY <3>1, <3>3, SoundParts, Sizes DEF Slots
      <4>2. 0 \in J
        BY <3>7, <4>1, ZeroTypes DEF Slots
      <4> QED
        BY <4>2
    <3>9. PICK n : n = allocate_block(e.i_bitmap, Inodes)
      OBVIOUS
    <3>10. CASE n = -1
      <4>1. AddEntryAt(a, k, p, name, mode) = [d |-> e, ret |-> "ENOSPC"]
        BY <1>2, <2>1, <2>4, <2>6, <3>2, <3>7, <3>8, <3>9, <3>10 DEF AddEntryAt
      <4> QED
        <5>1. PICK c \in [d : Disks, ret : {"-", "ok", "ENOSPC"}] : c = [d |-> e, ret |-> "ENOSPC"]
          BY <3>4
        <5>2. Ref(d, p, k) = 0 /\ c.ret = "ENOSPC" /\ c.d = GiveBlock(d, p, k, b)
          BY <2>3, <2>6, <3>2, <5>1
        <5>3. c \in Making(d, p)
          BY <3>1, <5>2 DEF Making
        <5> QED
          BY <4>1, <5>1, <5>3
    <3>11. CASE n # -1
      <4>1. PICK f : f = Create(e, b, Min(J), name, mode, n)
        OBVIOUS
      <4>2. f \in Disks /\ Sound(f) /\ FilesKept(e, f, {})
        BY <3>1, <3>3, <3>4, <3>6, <3>7, <3>8, <3>9, <3>11, <4>1, EntryMade
      <4>3. FilesKept(d, f, {})
        BY <3>5, <4>2, KeptTwice
      <4>4. AddEntryAt(a, k, p, name, mode) = [d |-> f, ret |-> "ok"]
        BY <1>2, <2>1, <2>4, <2>6, <3>2, <3>7, <3>8, <3>9, <3>11, <4>1 DEF AddEntryAt
      <4> QED
        BY <4>2, <4>3, <4>4 DEF Making
    <3> QED
      BY <3>10, <3>11
  <2>7. CASE q # 0
    <3>1. q \in Blocks /\ q # -1
      BY <2>4, <2>7, Sizes DEF Blocks
    <3>2. PICK J : J = {j \in 0 .. EntriesPerBlock - 1 : d.block[q].dentry[j].num = 0}
      OBVIOUS
    <3>3. PICK n : n = allocate_block(d.i_bitmap, Inodes)
      OBVIOUS
    <3>4. CASE J = {}
      <4>1. AddEntryAt(a, k, p, name, mode) = [a EXCEPT !.d = d]
        BY <1>2, <2>1, <2>4, <2>7, <3>1, <3>2, <3>4 DEF AddEntryAt
      <4>2. [a EXCEPT !.d = d] = a
        BY <2>1
      <4> QED
        BY <4>1, <4>2
    <3>5. CASE J # {} /\ n = -1
      <4>1. AddEntryAt(a, k, p, name, mode) = [d |-> d, ret |-> "ENOSPC"]
        BY <1>2, <2>1, <2>4, <2>7, <3>1, <3>2, <3>3, <3>5 DEF AddEntryAt
      <4> QED
        BY <2>2, <4>1 DEF Making
    <3>6. CASE J # {} /\ n # -1
      <4>1. PICK f : f = Create(d, q, Min(J), name, mode, n)
        OBVIOUS
      <4>2. f \in Disks /\ Sound(f) /\ FilesKept(d, f, {})
        BY <2>3, <3>1, <3>2, <3>3, <3>6, <4>1, EntryMade
      <4>3. AddEntryAt(a, k, p, name, mode) = [d |-> f, ret |-> "ok"]
        BY <1>2, <2>1, <2>4, <2>7, <3>1, <3>2, <3>3, <3>6, <4>1 DEF AddEntryAt
      <4> QED
        BY <4>2, <4>3 DEF Making
    <3> QED
      BY <3>4, <3>5, <3>6
  <2> QED
    BY <2>5, <2>6, <2>7
<1> QED
  BY <1>1, <1>2

\* What MakeNode does in a sound state.
LEMMA NodeMade ==
  ASSUME NEW d, Sound(d), NEW p \in Dirs(d), NEW name \in Names, NEW mode \in {"file", "dir"},
         \A h \in Places : InDir(d, p, h[1]) => EntryAt(d, h).name # name,
         NEW r, r = MakeLoop(d, p, name, mode)
  PROVE  r \in Making(d, p)
<1>1. PICK S : S = Making(d, p)
  OBVIOUS
<1>2. PICK start : start = [d |-> d, ret |-> "-"]
  OBVIOUS
<1>3. start \in S
  BY <1>1, <1>2 DEF Making, Sound
<1>4. PICK n : n = IND_BLOCK
  OBVIOUS
<1>5. n \in Nat /\ 0 .. n - 1 \subseteq 0 .. D_BLOCK
  BY <1>4, Sizes
<1>6. ASSUME NEW a \in S, NEW k \in 0 .. n - 1 PROVE AddEntryAt(a, k, p, name, mode) \in S
  BY <1>1, <1>5, MakingRound
<1>7. MakingLoops(d, p, name, mode, n, S, start)
  BY <1>2, <1>3, <1>4, <1>5, <1>6 DEF MakingLoops
<1>8. PICK G : G \in [0 .. n -> S] /\ MakeLoop(d, p, name, mode) = G[n]
  BY <1>7, MakingLoop
<1>9. n \in 0 .. n
  BY <1>5
<1> QED
  BY <1>1, <1>8, <1>9

-----------------------------------------------------------------------------
(* unlink, rmdir *)

\* A disk is its fields.
LEMMA DiskEq ==
  ASSUME NEW d \in Disks, NEW e \in Disks, d.i_bitmap = e.i_bitmap, d.d_bitmap = e.d_bitmap,
         \A j \in Inodes : d.inode[j] = e.inode[j], \A b \in Blocks : d.block[b] = e.block[b]
  PROVE  d = e
<1>1. d.inode = e.inode
  <2>1. d.inode \in [Inodes -> InodeRecs] /\ e.inode \in [Inodes -> InodeRecs]
    BY DiskType
  <2> QED
    BY <2>1
<1>2. d.block = e.block
  <2>1. d.block \in [Blocks -> BlockRecs] /\ e.block \in [Blocks -> BlockRecs]
    BY DiskType
  <2> QED
    BY <2>1
<1> QED
  BY <1>1, <1>2 DEF Disks

\* The disk with the blocks of X freed.
Without(d, X) ==
  [d EXCEPT !.d_bitmap = @ \ X,
            !.block = [b \in Blocks |-> IF b \in X THEN ZeroBlock ELSE d.block[b]]]

\* Its fields.
LEMMA WithoutFields ==
  ASSUME NEW d \in Disks, NEW X, NEW e, e = Without(d, X)
  PROVE  /\ e \in Disks /\ e.i_bitmap = d.i_bitmap /\ e.d_bitmap = d.d_bitmap \ X
         /\ e.inode = d.inode
         /\ \A b \in Blocks : e.block[b] = IF b \in X THEN ZeroBlock ELSE d.block[b]
<1>1. PICK g : g = [b \in Blocks |-> IF b \in X THEN ZeroBlock ELSE d.block[b]]
  OBVIOUS
<1>2. g \in [Blocks -> BlockRecs]
  BY <1>1, DiskType, ZeroTypes
<1>3. PICK D \in SUBSET Blocks : D = d.d_bitmap \ X
  BY DiskType
<1>4. e = [d EXCEPT !.d_bitmap = D, !.block = g]
  BY <1>1, <1>3 DEF Without
<1>5. e \in Disks /\ e.i_bitmap = d.i_bitmap /\ e.d_bitmap = D /\ e.inode = d.inode /\ e.block = g
  BY <1>2, <1>4 DEF Disks
<1> QED
  BY <1>1, <1>3, <1>5

\* Freeing no block changes nothing.
LEMMA WithoutNone ==
  ASSUME NEW d \in Disks, NEW X
  PROVE  X = {} => Without(d, X) = d
<1>1. PICK e : e = Without(d, X)
  OBVIOUS
<1>2. /\ e \in Disks /\ e.i_bitmap = d.i_bitmap /\ e.d_bitmap = d.d_bitmap \ X
      /\ e.inode = d.inode
      /\ \A b \in Blocks : e.block[b] = IF b \in X THEN ZeroBlock ELSE d.block[b]
  BY <1>1, WithoutFields
<1> HAVE X = {}
<1>3. e.d_bitmap = d.d_bitmap /\ \A b \in Blocks : e.block[b] = d.block[b]
  BY <1>2
<1>4. \A j \in Inodes : e.inode[j] = d.inode[j]
  BY <1>2
<1>5. e = d
  BY <1>2, <1>3, <1>4, DiskEq
<1> QED
  BY <1>1, <1>5

\* The fields after FreeBlock.
LEMMA FreeFields ==
  ASSUME NEW d \in Disks, NEW x \in Blocks, NEW e, e = FreeBlock(d, x)
  PROVE  /\ e \in Disks /\ e.i_bitmap = d.i_bitmap /\ e.d_bitmap = Flip(d.d_bitmap, x)
         /\ e.inode = d.inode
         /\ \A b \in Blocks : e.block[b] = IF b = x THEN ZeroBlock ELSE d.block[b]
<1>1. PICK D \in SUBSET Blocks : D = Flip(d.d_bitmap, x)
  BY DiskType DEF Flip
<1>2. PICK y \in BlockRecs : y = ZeroBlock
  BY ZeroTypes
<1>3. e = Replaced(d, x, y, D)
  BY <1>1, <1>2 DEF FreeBlock, Replaced, Disks
<1>4. /\ e \in Disks /\ e.i_bitmap = d.i_bitmap /\ e.d_bitmap = D /\ e.inode = d.inode
      /\ e.block[x] = y /\ \A z \in Blocks \ {x} : e.block[z] = d.block[z]
  BY <1>3, BlockReplaced
<1> QED
  BY <1>1, <1>2, <1>4

\* Freeing one more block that is in use.
LEMMA WithoutMore ==
  ASSUME NEW d \in Disks, NEW X, NEW x \in Blocks, x \in d.d_bitmap, x \notin X
  PROVE  FreeBlock(Without(d, X), x) = Without(d, X \cup {x})
<1>1. PICK c : c = Without(d, X)
  OBVIOUS
<1>2. /\ c \in Disks /\ c.i_bitmap = d.i_bitmap /\ c.d_bitmap = d.d_bitmap \ X
      /\ c.inode = d.inode
      /\ \A b \in Blocks : c.block[b] = IF b \in X THEN ZeroBlock ELSE d.block[b]
  BY <1>1, WithoutFields
<1>3. PICK e : e = FreeBlock(c, x)
  OBVIOUS
<1>4. /\ e \in Disks /\ e.i_bitmap = c.i_bitmap /\ e.d_bitmap = Flip(c.d_bitmap, x)
      /\ e.inode = c.inode
      /\ \A b \in Blocks : e.block[b] = IF b = x THEN ZeroBlock ELSE c.block[b]
  <2>1. c \in Disks
    BY <1>2
  <2> QED
    BY <1>3, <2>1, FreeFields
<1>5. PICK f : f = Without(d, X \cup {x})
  OBVIOUS
<1>6. /\ f \in Disks /\ f.i_bitmap = d.i_bitmap /\ f.d_bitmap = d.d_bitmap \ (X \cup {x})
      /\ f.inode = d.inode
      /\ \A b \in Blocks : f.block[b] = IF b \in X \cup {x} THEN ZeroBlock ELSE d.block[b]
  BY <1>5, WithoutFields
<1>7. Flip(c.d_bitmap, x) = d.d_bitmap \ (X \cup {x})
  BY <1>2 DEF Flip
<1>8. \A b \in Blocks : e.block[b] = f.block[b]
  BY <1>2, <1>4, <1>6
<1>9. e = f
  <2>1. e \in Disks /\ f \in Disks /\ e.i_bitmap = f.i_bitmap /\ e.d_bitmap = f.d_bitmap
    BY <1>2, <1>4, <1>6, <1>7
  <2>2. \A j \in Inodes : e.inode[j] = f.inode[j]
    BY <1>2, <1>4, <1>6
  <2> QED
    BY <1>8, <2>1, <2>2, DiskEq
<1> QED
  BY <1>1, <1>3, <1>5, <1>9

\* The round of unlink's loop that frees pointer l.
RoundOf(l) == IF l <= D_BLOCK THEN l ELSE IND_BLOCK + 2 * (l - 1 - IND_BLOCK)

\* What a round frees is nothing or one of the inode's pointers, and not the one to the
\* indirect block.
LEMMA FreedRef ==
  ASSUME NEW d \in Disks, NEW i \in Inodes, NEW k \in 0 .. FileMax
  PROVE  \/ Freed(d, i, k) = 0
         \/ \E l \in 0 .. FileMax : /\ l # IND_BLOCK /\ k = RoundOf(l)
                                    /\ Freed(d, i, k) = Ref(d, i, l) /\ Freed(d, i, k) \in Blocks
<1>1. CASE k <= D_BLOCK
  <2>1. k # IND_BLOCK /\ k <= IND_BLOCK
    BY <1>1, Sizes
  <2>2. Freed(d, i, k) = Ref(d, i, k)
    BY <1>1, <2>1 DEF Freed, Ref
  <2>3. k = RoundOf(k)
    BY <1>1 DEF RoundOf
  <2> QED
    BY <2>1, <2>2, <2>3, RefType
<1>2. CASE ~(k <= D_BLOCK)
  <2>1. PICK m \in 0 .. PtrsPerBlock : m = k - IND_BLOCK
    BY <1>2, Sizes
  <2>2. CASE Ref(d, i, IND_BLOCK) = 0 \/ m % 2 = 1
    <3>1. Ref(d, i, IND_BLOCK) = d.inode[i].blocks[IND_BLOCK]
      BY Sizes DEF Ref
    <3> QED
      BY <1>2, <2>1, <2>2, <3>1 DEF Freed
  <2>3. CASE Ref(d, i, IND_BLOCK) # 0 /\ m % 2 # 1
    <3>1. PICK q \in Nat : q = m \div 2 /\ m = 2 * q /\ q < PtrsPerBlock
      <4>1. m \div 2 \in Nat /\ m = 2 * (m \div 2) /\ m \div 2 < PtrsPerBlock
        BY <2>3, Sizes
      <4> QED
        BY <4>1
    <3>2. PICK l \in 0 .. FileMax : l = IND_BLOCK + 1 + q
      BY <3>1, Sizes
    <3>3. l > IND_BLOCK /\ l - 1 - IND_BLOCK = q /\ l # IND_BLOCK /\ ~(l <= D_BLOCK)
      BY <3>2, Sizes
    <3>4. Ref(d, i, IND_BLOCK) = d.inode[i].blocks[IND_BLOCK]
      BY Sizes DEF Ref
    <3>5. Freed(d, i, k) = d.block[Ref(d, i, IND_BLOCK)].ptr[q]
      BY <1>2, <2>1, <2>3, <3>1, <3>4 DEF Freed
    <3>6. Freed(d, i, k) = Ref(d, i, l)
      BY <2>3, <3>3, <3>5, RefType
    <3>7. k = RoundOf(l)
      BY <2>1, <3>1, <3>3, Sizes DEF RoundOf
    <3> QED
      BY <3>3, <3>6, <3>7, RefType
  <2> QED
    BY <2>2, <2>3
<1> QED
  BY <1>1, <1>2

\* One round of unlink's loop.
FreeRound(e, k, i) == IF Freed(e, i, k) = 0 THEN e ELSE FreeBlock(e, Freed(e, i, k))

\* The rounds of unlink's loop stay in S.
FreeingLoops(d, i, n, S, start) ==
  /\ n \in Nat /\ n = d.inode[i].size + 1 /\ start \in S /\ start = d
  /\ \A a \in S, k \in 0 .. n - 1 : FreeRound(a, k, i) \in S

\* Then the loop runs through S.
LEMMA FreeingLoop ==
  ASSUME NEW d, NEW i, NEW n, NEW S, NEW start, FreeingLoops(d, i, n, S, start)
  PROVE  \E G : /\ G \in [0 .. n -> S] /\ G[0] = start
                /\ \A k \in 0 .. n - 1 : G[k + 1] = FreeRound(G[k], k, i)
                /\ FreeFile(d, i) = G[n]
<1> DEFINE Round(a, k) == FreeRound(a, k, i)
<1>0. n \in Nat /\ start \in S /\ n = d.inode[i].size + 1 /\ start = d
  BY DEF FreeingLoops
<1>1. \A a \in S, k \in 0 .. n - 1 : Round(a, k) \in S
  BY DEF FreeingLoops
<1>2. FreeFile(d, i)
        = (CHOOSE H : H = [k \in 0 .. n |-> IF k = 0 THEN start ELSE Round(H[k - 1], k - 1)])[n]
  BY <1>0 DEF FreeFile, Loop, FreeRound
<1> SUFFICES \E G : /\ G \in [0 .. n -> S] /\ G[0] = start
                    /\ \A k \in 0 .. n - 1 : G[k + 1] = Round(G[k], k)
                    /\ FreeFile(d, i) = G[n]
  OBVIOUS
<1> HIDE DEF Round
<1>3. PICK R : R = [x \in S \X (0 .. n - 1) |-> Round(x[1], x[2])]
  OBVIOUS
<1>4. R \in [S \X (0 .. n - 1) -> S]
  BY <1>1, <1>3
<1>5. PICK G : Course(G, n, S, start, R)
  BY <1>0, <1>4, Iterate
<1>6. G \in [0 .. n -> S] /\ G[0] = start
  BY <1>5 DEF Course
<1>7. ASSUME NEW k \in 0 .. n - 1 PROVE G[k + 1] = Round(G[k], k)
  <2>1. G[k + 1] = R[<<G[k], k>>] /\ <<G[k], k>> \in S \X (0 .. n - 1)
    BY <1>0, <1>5 DEF Course
  <2> QED
    BY <1>3, <2>1
<1>8. ASSUME NEW k \in 0 .. n, k # 0 PROVE G[k] = Round(G[k - 1], k - 1)
  <2>1. k - 1 \in 0 .. n - 1 /\ k - 1 + 1 = k
    BY <1>0, <1>8
  <2> QED
    BY <1>7, <2>1
<1>9. G = [k \in 0 .. n |-> IF k = 0 THEN start ELSE Round(G[k - 1], k - 1)]
  BY <1>0, <1>6, <1>8
<1>10. PICK F : F = CHOOSE H : H = [k \in 0 .. n |-> IF k = 0 THEN start ELSE Round(H[k - 1], k - 1)]
  OBVIOUS
<1>11. F = [k \in 0 .. n |-> IF k = 0 THEN start ELSE Round(F[k - 1], k - 1)]
  BY <1>9, <1>10
<1>12. F[0] = start /\ \A k \in 0 .. n - 1 : F[k + 1] = Round(F[k], k)
  <2>1. F[0] = start
    BY <1>0, <1>11
  <2>2. ASSUME NEW k \in 0 .. n - 1 PROVE F[k + 1] = Round(F[k], k)
    <3>1. k + 1 \in 0 .. n /\ k + 1 # 0 /\ k + 1 - 1 = k
      BY <1>0
    <3>2. F[k + 1] = Round(F[k + 1 - 1], k + 1 - 1)
      BY <1>0, <1>11, <3>1
    <3> QED
      BY <3>1, <3>2
  <2> QED
    BY <2>1, <2>2
<1>13. PICK E : E = {k \in 0 .. n : F[k] = G[k]}
  OBVIOUS
<1>14. 0 \in E
  BY <1>0, <1>6, <1>12, <1>13
<1>15. ASSUME NEW k \in 0 .. n - 1, k \in E PROVE k + 1 \in E
  <2>1. F[k] = G[k] /\ k + 1 \in 0 .. n
    BY <1>0, <1>13, <1>15
  <2>2. F[k + 1] = G[k + 1]
    BY <1>7, <1>12, <2>1
  <2> QED
    BY <1>13, <2>1, <2>2
<1>16. n \in E
  <2>1. \A k \in 0 .. n : k \in E
    BY <1>0, <1>14, <1>15, Induction
  <2> QED
    BY <1>0, <2>1
<1>17. FreeFile(d, i) = G[n]
  BY <1>2, <1>10, <1>13, <1>16
<1> QED
  BY <1>6, <1>7, <1>17

\* An unlink frees blocks of the file, each of them once.
LEMMA FileFreed ==
  ASSUME NEW d \in Disks, NEW i \in Inodes,
         \A k \in 0 .. FileMax : Ref(d, i, k) # 0 => Ref(d, i, k) \in d.d_bitmap,
         \A k, l \in 0 .. FileMax : Ref(d, i, k) # 0 /\ Ref(d, i, k) = Ref(d, i, l) => k = l
  PROVE  \E X \in SUBSET Blocks : /\ \A x \in X : \E k \in 0 .. FileMax : Ref(d, i, k) = x
                                  /\ FreeFile(d, i) = Without(d, X)
<1>1. PICK n : n = d.inode[i].size + 1
  OBVIOUS
<1>2. n \in Nat /\ 0 .. n - 1 \subseteq 0 .. FileMax
  <2>1. d.inode[i].size \in 0 .. FileMax
    BY DiskType
  <2> QED
    BY <1>1, <2>1, Sizes
<1>3. ASSUME NEW e \in Disks, NEW k \in 0 .. n - 1 PROVE FreeRound(e, k, i) \in Disks
  <2>1. Freed(e, i, k) = 0 \/ Freed(e, i, k) \in Blocks
    BY <1>2, FreedRef
  <2> QED
    BY <2>1, FreeFields DEF FreeRound
<1>4. FreeingLoops(d, i, n, Disks, d)
  BY <1>1, <1>2, <1>3 DEF FreeingLoops
<1>5. PICK G : /\ G \in [0 .. n -> Disks] /\ G[0] = d
               /\ \A k \in 0 .. n - 1 : G[k + 1] = FreeRound(G[k], k, i)
               /\ FreeFile(d, i) = G[n]
  BY <1>4, FreeingLoop
<1> DEFINE X(k) == {Freed(d, i, j) : j \in 0 .. k - 1} \ {0}
<1>6. ASSUME NEW k \in 0 .. n
      PROVE  X(k) \in SUBSET Blocks /\ \A x \in X(k) : \E l \in 0 .. FileMax : l # IND_BLOCK /\ Ref(d, i, l) = x
  <2> SUFFICES ASSUME NEW j \in 0 .. k - 1, Freed(d, i, j) # 0
               PROVE  Freed(d, i, j) \in Blocks /\ \E l \in 0 .. FileMax : l # IND_BLOCK /\ Ref(d, i, l) = Freed(d, i, j)
    OBVIOUS
  <2>1. j \in 0 .. FileMax
    BY <1>2
  <2> QED
    BY <2>1, FreedRef
<1>7. ASSUME NEW k \in 0 .. n - 1, Freed(d, i, k) # 0 PROVE Freed(d, i, k) \notin X(k)
  <2> SUFFICES ASSUME NEW j \in 0 .. k - 1, Freed(d, i, j) = Freed(d, i, k) PROVE FALSE
    OBVIOUS
  <2>1. k \in 0 .. FileMax /\ j \in 0 .. FileMax /\ j # k
    BY <1>2
  <2>2. PICK l \in 0 .. FileMax : k = RoundOf(l) /\ Freed(d, i, k) = Ref(d, i, l)
    BY <1>7, <2>1, FreedRef
  <2>3. PICK m \in 0 .. FileMax : j = RoundOf(m) /\ Freed(d, i, j) = Ref(d, i, m)
    BY <1>7, <2>1, FreedRef
  <2>4. l = m
    BY <1>7, <2>2, <2>3
  <2> QED
    BY <2>1, <2>2, <2>3, <2>4
<1>8. ASSUME NEW k \in 0 .. n - 1, G[k] = Without(d, X(k)) PROVE G[k + 1] = Without(d, X(k + 1))
  <2>1. PICK Y : Y = X(k)
    OBVIOUS
  <2>2. k \in 0 .. n /\ k \in 0 .. FileMax
    BY <1>2
  <2>3. /\ G[k] \in Disks /\ G[k].inode = d.inode
        /\ \A b \in Blocks : G[k].block[b] = IF b \in Y THEN ZeroBlock ELSE d.block[b]
    BY <1>8, <2>1, WithoutFields
  <2>4. PICK ib \in {0} \cup Blocks : ib = Ref(d, i, IND_BLOCK)
    <3>1. IND_BLOCK \in 0 .. FileMax
      BY Sizes
    <3> QED
      BY <3>1, RefType
  <2>5. ib \notin Y
    <3> SUFFICES ASSUME ib \in Y PROVE FALSE
      OBVIOUS
    <3>1. PICK l \in 0 .. FileMax : l # IND_BLOCK /\ Ref(d, i, l) = ib
      BY <1>6, <2>1, <2>2
    <3>2. IND_BLOCK \in 0 .. FileMax /\ ib # 0
      BY <2>1, Sizes
    <3> QED
      BY <2>4, <3>1, <3>2
  <2>6. Freed(G[k], i, k) = Freed(d, i, k)
    <3>1. ib = d.inode[i].blocks[IND_BLOCK]
      BY <2>4, Sizes DEF Ref
    <3>2. ib # 0 => G[k].block[ib] = d.block[ib]
      BY <2>3, <2>5
    <3> QED
      BY <2>3, <3>1, <3>2 DEF Freed
  <2>7. G[k + 1] = FreeRound(G[k], k, i)
    BY <1>5
  <2>8. CASE Freed(d, i, k) = 0
    <3>1. X(k + 1) = X(k)
      BY <2>8, <1>2
    <3> QED
      BY <1>8, <2>6, <2>7, <2>8, <3>1 DEF FreeRound
  <2>9. CASE Freed(d, i, k) # 0
    <3>1. PICK x : x = Freed(d, i, k)
      OBVIOUS
    <3>2. X(k + 1) = Y \cup {x}
      BY <1>2, <2>1, <2>9, <3>1
    <3>3. x \in Blocks /\ x \in d.d_bitmap
      BY <2>2, <2>9, <3>1, FreedRef
    <3>4. x \notin Y
      BY <1>7, <2>1, <2>9, <3>1
    <3>5. G[k + 1] = FreeBlock(Without(d, Y), x)
      BY <1>8, <2>1, <2>6, <2>7, <2>9, <3>1 DEF FreeRound
    <3>6. G[k + 1] = Without(d, Y \cup {x})
      BY <3>3, <3>4, <3>5, WithoutMore
    <3> QED
      BY <3>2, <3>6
  <2> QED
    BY <2>8, <2>9
<1>9. PICK E : E = {k \in 0 .. n : G[k] = Without(d, X(k))}
  OBVIOUS
<1>10. 0 \in E
  <2>1. X(0) = {}
    OBVIOUS
  <2>2. PICK Y : Y = X(0)
    OBVIOUS
  <2>3. Without(d, Y) = d
    BY <2>1, <2>2, WithoutNone
  <2>4. 0 \in 0 .. n
    BY <1>2
  <2> QED
    BY <1>5, <1>9, <2>2, <2>3, <2>4
<1> HIDE DEF X
<1>11. ASSUME NEW k \in 0 .. n - 1, k \in E PROVE k + 1 \in E
  <2>1. k + 1 \in 0 .. n
    BY <1>2
  <2> QED
    BY <1>8, <1>9, <1>11, <2>1
<1>12. n \in E
  <2>1. \A k \in 0 .. n : k \in E
    BY <1>2, <1>10, <1>11, Induction
  <2> QED
    BY <1>2, <2>1
<1>13. n \in 0 .. n /\ FreeFile(d, i) = Without(d, X(n))
  BY <1>2, <1>5, <1>9, <1>12
<1> QED
  BY <1>6, <1>13

\* The disk with one entry cleared.
Cleared(d, g) == [d EXCEPT !.block[g[1]].dentry[g[2]] = NoEntry]

\* Its fields.
LEMMA ClearedFields ==
  ASSUME NEW d \in Disks, NEW g \in Places, NEW e, e = Cleared(d, g)
  PROVE  /\ e \in Disks /\ e.i_bitmap = d.i_bitmap /\ e.d_bitmap = d.d_bitmap /\ e.inode = d.inode
         /\ \A x \in Blocks : e.block[x].ptr = d.block[x].ptr /\ e.block[x].data = d.block[x].data
         /\ \A x \in Blocks : x # g[1] => e.block[x] = d.block[x]
         /\ EntryAt(e, g) = NoEntry
         /\ \A h \in Places : h # g => EntryAt(e, h) = EntryAt(d, h)
<1>1. PICK b \in Blocks, j \in Slots : g = <<b, j>>
  BY DEF Places
<1>2. PICK y : y = [d.block[b] EXCEPT !.dentry[j] = NoEntry]
  OBVIOUS
<1>3. d.block[b] \in BlockRecs /\ d.block[b].dentry \in [Slots -> DentryRecs]
  BY DiskType
<1>4. /\ y \in BlockRecs /\ y.ptr = d.block[b].ptr /\ y.data = d.block[b].data
      /\ y.dentry[j] = NoEntry /\ \A l \in Slots : l # j => y.dentry[l] = d.block[b].dentry[l]
  BY <1>2, <1>3, ZeroTypes DEF BlockRecs
<1>5. PICK D \in SUBSET Blocks : D = d.d_bitmap
  BY DiskType
<1>6. e = Replaced(d, b, y, D)
  BY <1>1, <1>2, <1>5 DEF Cleared, Replaced, Disks
<1>7. y \in BlockRecs
  BY <1>4
<1>8. /\ e \in Disks /\ e.i_bitmap = d.i_bitmap /\ e.d_bitmap = D /\ e.inode = d.inode
      /\ e.block[b] = y /\ \A z \in Blocks \ {b} : e.block[z] = d.block[z]
  BY <1>6, <1>7, BlockReplaced
<1>9. EntryAt(e, g) = NoEntry
  BY <1>1, <1>4, <1>8 DEF EntryAt
<1>10. ASSUME NEW h \in Places, h # g PROVE EntryAt(e, h) = EntryAt(d, h)
  <2>1. h[1] \in Blocks /\ h[2] \in Slots /\ (h[1] # b \/ h[2] # j)
    BY <1>1, <1>10 DEF Places
  <2>2. CASE h[1] = b
    BY <1>4, <1>8, <2>1, <2>2 DEF EntryAt
  <2>3. CASE h[1] # b
    BY <1>8, <2>1, <2>3 DEF EntryAt
  <2> QED
    BY <2>2, <2>3
<1>11. \A x \in Blocks : e.block[x].ptr = d.block[x].ptr /\ e.block[x].data = d.block[x].data
  BY <1>4, <1>8
<1>12. \A x \in Blocks : x # g[1] => e.block[x] = d.block[x]
  BY <1>1, <1>8
<1> QED
  BY <1>5, <1>8, <1>9, <1>10, <1>11, <1>12

\* Blocks freed like that hold no entries.
LEMMA BareBlank ==
  ASSUME NEW d, Sound(d), NEW i \in d.i_bitmap, NEW X, Bare(d, i, X),
         NEW h \in Places, h[1] \in X
  PROVE  EntryAt(d, h) = NoEntry
<1>1. PICK k \in 0 .. FileMax : Ref(d, i, k) = h[1]
  BY DEF Bare
<1>2. EntryAt(d, h).num = 0
  <2>1. CASE k > D_BLOCK
    BY <1>1, <2>1, NotOwner
  <2>2. CASE ~(k > D_BLOCK)
    <3>1. k \in 0 .. D_BLOCK
      BY <2>2, Sizes
    <3>2. InDir(d, i, h[1])
      BY <1>1, <3>1, InDirIs
    <3> QED
      BY <3>2 DEF Bare
  <2> QED
    BY <2>1, <2>2
<1>3. EntryAt(d, h).name = ""
  BY <1>2, NameNum
<1>4. EntryAt(d, h) \in DentryRecs
  BY EntryType, SoundParts
<1> QED
  BY <1>2, <1>3, <1>4, Blank

\* An inode is removed from a disk from which its entry and its blocks X are gone.
LEMMA Gone ==
  ASSUME NEW d, Sound(d), NEW i \in d.i_bitmap \ {0}, NEW g \in Places, EntryAt(d, g).num = i,
         NEW X, Bare(d, i, X), NEW f \in Disks,
         f.i_bitmap = d.i_bitmap, f.d_bitmap = d.d_bitmap \ X, f.inode = d.inode,
         \A x \in X : f.block[x] = ZeroBlock,
         \A x \in Blocks \ X : f.block[x].ptr = d.block[x].ptr /\ f.block[x].data = d.block[x].data,
         \A x \in Blocks \ X : x # g[1] => f.block[x] = d.block[x],
         EntryAt(f, g) = NoEntry, \A h \in Places : h # g => EntryAt(f, h) = EntryAt(d, h),
         NEW e, e = RemoveInode(f, i)
  PROVE  Sound(e) /\ FilesKept(d, e, {i})
<1>1. i \in Inodes /\ d.i_bitmap \subseteq Inodes /\ X \in SUBSET Blocks
  BY SoundParts DEF Bare
<1>2. PICK I \in SUBSET Inodes : I = Flip(f.i_bitmap, i) /\ I = d.i_bitmap \ {i}
  BY <1>1 DEF Flip
<1>3. PICK F \in [Inodes -> InodeRecs] : F = [f.inode EXCEPT ![i] = ZeroInode]
  BY DiskType, ZeroTypes
<1>4. e = [f EXCEPT !.i_bitmap = I, !.inode = F]
  BY <1>2, <1>3 DEF RemoveInode
<1>5. e \in Disks /\ e.i_bitmap = I /\ e.inode = F /\ e.d_bitmap = f.d_bitmap /\ e.block = f.block
  BY <1>4 DEF Disks
<1>6. f.inode \in [Inodes -> InodeRecs]
  BY DiskType
<1>7. e.inode[i] = ZeroInode /\ \A j \in Inodes \ {i} : e.inode[j] = d.inode[j]
  BY <1>1, <1>3, <1>5, <1>6
<1>8. e.i_bitmap = d.i_bitmap \ {i} /\ e.d_bitmap = d.d_bitmap \ X
  BY <1>2, <1>5
<1>9. \A h \in Places : EntryAt(e, h) = EntryAt(f, h)
  BY <1>5 DEF EntryAt
<1>10. g[1] \in d.d_bitmap
  BY FreeNoEntry
<1>11. ASSUME NEW x \in Blocks \ e.d_bitmap PROVE e.block[x] = ZeroBlock
  <2>1. CASE x \in X
    BY <1>5, <2>1
  <2>2. CASE x \notin X
    <3>1. x \in Blocks \ d.d_bitmap /\ x # g[1] /\ x \in Blocks \ X
      BY <1>8, <1>10, <2>2
    <3>2. d.block[x] = ZeroBlock
      BY <3>1, SoundParts
    <3> QED
      BY <1>5, <3>1, <3>2
  <2> QED
    BY <2>1, <2>2
<1>12. \A x \in Blocks \ X : e.block[x].ptr = d.block[x].ptr /\ e.block[x].data = d.block[x].data
  BY <1>5
<1>13. EntryAt(e, g) = NoEntry /\ \A h \in Places : h # g => EntryAt(e, h) = EntryAt(d, h)
  BY <1>9
<1>14. GoneFrom(d, e, i, g, X)
  BY <1>5, <1>7, <1>8, <1>11, <1>12, <1>13 DEF GoneFrom
<1> QED
  BY <1>14, Removed

\* On c some blocks of d without entries have been cleared.
Lighter(d, c) ==
  /\ c.inode = d.inode
  /\ \A h \in Places : EntryAt(c, h) = EntryAt(d, h)
  /\ \A b \in Blocks : c.block[b] = d.block[b] \/ c.block[b] = ZeroBlock

\* No slot gets a name by that, and entries keep theirs.
LEMMA NamedLess ==
  ASSUME NEW d, NEW c, Lighter(d, c), NEW b \in Blocks, NEW name \in Names
  PROVE  /\ Named(c, b, name) \subseteq Named(d, b, name)
         /\ \A h \in Named(d, b, name) : IsEntry(d, h) => h \in Named(c, b, name)
<1>1. b # 0 /\ b \in {0} \cup Blocks /\ name # ""
  <2>1. name # ""
    BY WFSAssumption
  <2>2. b # 0
    BY DEF Blocks
  <2> QED
    BY <2>1, <2>2
<1>2. \A h \in Scanned(b) : h \in Places
  BY <1>1, ScanType
<1>3. ASSUME NEW h \in Scanned(b)
      PROVE  /\ NameAt(c, h) = name => NameAt(d, h) = name
             /\ NameAt(d, h) = name /\ IsEntry(d, h) => NameAt(c, h) = name
  <2>1. h \in Places /\ h[1] \in Blocks /\ h[1] # 0
    BY <1>2 DEF Places, Blocks
  <2>2. EntryAt(c, h) = EntryAt(d, h) /\ (IsEntry(c, h) <=> IsEntry(d, h))
    BY <2>1 DEF Lighter, IsEntry
  <2>3. CASE IsEntry(d, h)
    BY <2>1, <2>2, <2>3 DEF NameAt
  <2>4. CASE ~IsEntry(d, h) /\ c.block[h[1]] = d.block[h[1]]
    BY <2>1, <2>2, <2>4 DEF NameAt
  <2>5. CASE ~IsEntry(d, h) /\ c.block[h[1]] = ZeroBlock
    <3>1. EntryAt(c, h) = NoEntry
      BY <2>1, <2>2, <2>5 DEF IsEntry
    <3>2. OnlyEntries(c.block[h[1]])
      BY <2>5, ZeroTypes DEF OnlyEntries
    <3>3. NameAt(c, h) = ""
      BY <2>1, <3>1, <3>2, ZeroTypes DEF NameAt
    <3> QED
      BY <1>1, <2>5, <3>3
  <2> QED
    BY <2>1, <2>3, <2>4, <2>5 DEF Lighter
<1> QED
  BY <1>3 DEF Named

\* The entry that a lookup finds is the one RemoveEntry clears, also after rmdir has
\* cleared the blocks of the directory.
LEMMA EntryRemoved ==
  ASSUME NEW d, Sound(d), NEW p \in d.i_bitmap, NEW name \in Names, NEW i, i # -1, i # Astray,
         i = Found(d, p, name)
  PROVE  /\ i \in d.i_bitmap \ {0}
         /\ \E g \in Places :
              /\ EntryAt(d, g).num = i
              /\ \A c : Lighter(d, c) => RemoveEntry(c, p, name) = Cleared(c, g)
<1>1. PICK F : F = FindIn(d, p, 0 .. D_BLOCK, name)
  OBVIOUS
<1>2. F # {}
  BY <1>1 DEF Found
<1>3. PICK g : g = CHOOSE h \in F : TRUE
  OBVIOUS
<1>4. g \in F
  BY <1>2, <1>3
<1>5. IsEntry(d, g) /\ EntryAt(d, g).num = i
  BY <1>1, <1>2, <1>3 DEF Found
<1>6. g \in Places /\ EntryAt(d, g).num > 0
  BY <1>1, <1>4, <1>5, FindSpec
<1>7. i # 0
  BY <1>5, <1>6
<1>8. i \in d.i_bitmap
  BY <1>5, <1>6, <1>7, SoundParts DEF Housed
<1>9. 0 .. D_BLOCK \in SUBSET Nat
  BY Sizes
<1>10. PICK k \in 0 .. D_BLOCK : /\ F = Met(d, p, k, name)
                                 /\ \A l \in 0 .. D_BLOCK : l < k => Met(d, p, l, name) = {}
  <2>1. PICK K \in SUBSET Nat : K = 0 .. D_BLOCK
    BY <1>9
  <2>2. \/ FindIn(d, p, K, name) = {} /\ \A k \in K : Met(d, p, k, name) = {}
        \/ \E k \in K : /\ FindIn(d, p, K, name) = Met(d, p, k, name) /\ Met(d, p, k, name) # {}
                        /\ \A l \in K : l < k => Met(d, p, l, name) = {}
    BY FindIs
  <2> QED
    BY <1>1, <1>2, <2>1, <2>2
<1>11. PICK b \in Blocks : b = d.inode[p].blocks[k]
  BY <1>4, <1>5, <1>10, MetType
<1>12. g \in find_dentry(d, b, name) /\ g \in Named(d, b, name)
  <2>1. g \in find_dentry(d, b, name)
    BY <1>4, <1>10, <1>11 DEF Met
  <2> QED
    BY <2>1, ScanFirst
<1>13. ASSUME NEW c, Lighter(d, c) PROVE RemoveEntry(c, p, name) = Cleared(c, g)
  <2>1. PICK K \in SUBSET Nat : K = {l \in 0 .. D_BLOCK : c.inode[p].blocks[l] # 0}
    BY <1>9
  <2>2. c.inode = d.inode /\ k \in K
    BY <1>11, <1>13, <2>1 DEF Lighter, Blocks
  <2>3. ASSUME NEW l \in K, l < k PROVE Met(c, p, l, name) = {}
    <3>1. l \in 0 .. D_BLOCK /\ d.inode[p].blocks[l] # 0
      BY <2>1, <2>2
    <3>2. PICK x \in Blocks : x = d.inode[p].blocks[l]
      BY <3>1, PointerType
    <3>3. Named(d, x, name) = {}
      BY <1>10, <2>3, <3>1, <3>2, MetNothing
    <3>4. Named(c, x, name) = {}
      BY <1>13, <3>3, NamedLess
    <3>5. find_dentry(c, x, name) = {}
      BY <3>4, ScanFirst
    <3> QED
      BY <2>2, <3>2, <3>5 DEF Met
  <2>4. find_dentry(c, b, name) = {g}
    <3>1. /\ Named(c, b, name) \subseteq Named(d, b, name) /\ g \in Named(c, b, name)
      BY <1>5, <1>12, <1>13, NamedLess
    <3>2. \A h \in Named(d, b, name) : g[1] < h[1] \/ (g[1] = h[1] /\ g[2] <= h[2])
      BY <1>12, ScanFirst
    <3>3. g \in find_dentry(c, b, name)
      BY <3>1, <3>2, ScanFirst
    <3>4. ASSUME NEW h \in find_dentry(c, b, name) PROVE h = g
      <4>1. h \in Named(c, b, name) /\ (h[1] < g[1] \/ (h[1] = g[1] /\ h[2] <= g[2]))
        BY <3>1, ScanFirst
      <4>2. g[1] < h[1] \/ (g[1] = h[1] /\ g[2] <= h[2])
        BY <3>1, <3>2, <4>1
      <4>3. h \in Nat \X Nat /\ g \in Nat \X Nat
        <5>1. b \in {0} \cup Blocks
          OBVIOUS
        <5>2. Named(c, b, name) \in SUBSET (Nat \X Nat)
          BY <5>1, ScanFinds
        <5> QED
          BY <3>1, <4>1, <5>2
      <4>4. h[1] = g[1] /\ h[2] = g[2]
        BY <4>1, <4>2, <4>3
      <4> QED
        BY <4>3, <4>4
    <3> QED
      BY <3>3, <3>4
  <2>5. Met(c, p, k, name) = {g}
    <3>1. EntryAt(c, g) = EntryAt(d, g)
      BY <1>6, <1>13 DEF Lighter
    <3> QED
      BY <1>6, <1>11, <2>2, <2>4, <3>1 DEF Met
  <2>6. FindIn(c, p, K, name) = {g}
    <3>1. PICK m \in K : /\ FindIn(c, p, K, name) = Met(c, p, m, name) /\ Met(c, p, m, name) # {}
                         /\ \A l \in K : l < m => Met(c, p, l, name) = {}
      BY <2>2, <2>5, FindIs
    <3>2. m \in Nat /\ k \in Nat /\ ~(k < m) /\ ~(m < k)
      BY <2>2, <2>3, <2>5, <3>1
    <3>3. m = k
      BY <3>2
    <3> QED
      BY <2>5, <3>1, <3>3
  <2>7. RemoveEntry(c, p, name)
          = [c EXCEPT !.block[(CHOOSE h \in {g} : TRUE)[1]].dentry[(CHOOSE h \in {g} : TRUE)[2]] = NoEntry]
    BY <2>1, <2>6 DEF RemoveEntry
  <2>8. (CHOOSE h \in {g} : TRUE) = g
    OBVIOUS
  <2> QED
    BY <2>7, <2>8 DEF Cleared
<1> QED
  BY <1>5, <1>6, <1>7, <1>8, <1>13

\* An unlink leaves the disk sound and the other files as they were.
LEMMA UnlinkSound ==
  ASSUME NEW d, Sound(d), NEW at, NEW name \in Names, at.parent \in Dirs(d),
         at.num = Found(d, at.parent, name),
         wfs_getattr(d, at) = "file"
  PROVE  Sound(Unlinked(d, at, name)) /\ FilesKept(d, Unlinked(d, at, name), {at.num})
<1>1. PICK p : p = at.parent
  OBVIOUS
<1>2. PICK i : i = at.num
  OBVIOUS
<1>3. i # -1 /\ i # Astray /\ d.inode[i].mode = "file" /\ p \in d.i_bitmap
  BY <1>1, <1>2 DEF wfs_getattr, Dirs
<1>4. /\ i \in d.i_bitmap \ {0}
      /\ \E g \in Places :
           /\ EntryAt(d, g).num = i
           /\ \A e : Lighter(d, e) => RemoveEntry(e, p, name) = Cleared(e, g)
  <2>1. i = Found(d, p, name)
    BY <1>1, <1>2
  <2> QED
    BY <1>3, <2>1, EntryRemoved
<1>5. PICK g \in Places : EntryAt(d, g).num = i /\ RemoveEntry(d, p, name) = Cleared(d, g)
  BY <1>4 DEF Lighter
<1>6. PICK c : c = Cleared(d, g)
  OBVIOUS
<1>7. d \in Disks /\ d.i_bitmap \subseteq Inodes /\ i \in Inodes /\ i \in d.i_bitmap
  BY <1>4, SoundParts
<1>8. /\ c \in Disks /\ c.i_bitmap = d.i_bitmap /\ c.d_bitmap = d.d_bitmap /\ c.inode = d.inode
      /\ \A x \in Blocks : c.block[x].ptr = d.block[x].ptr /\ c.block[x].data = d.block[x].data
      /\ \A x \in Blocks : x # g[1] => c.block[x] = d.block[x]
      /\ EntryAt(c, g) = NoEntry
      /\ \A h \in Places : h # g => EntryAt(c, h) = EntryAt(d, h)
  BY <1>6, <1>7, ClearedFields
<1>9. ASSUME NEW k \in 0 .. FileMax PROVE Ref(c, i, k) = Ref(d, i, k)
  <2>1. IND_BLOCK \in 0 .. FileMax
    BY Sizes
  <2>2. Ref(d, i, IND_BLOCK) \in {0} \cup Blocks
    BY <1>7, <2>1, RefType
  <2> QED
    BY <1>7, <1>8, <2>2, SameRef
<1>10. PICK X \in SUBSET Blocks : /\ \A x \in X : \E k \in 0 .. FileMax : Ref(c, i, k) = x
                                  /\ FreeFile(c, i) = Without(c, X)
  <2>1. \A k \in 0 .. FileMax : Ref(c, i, k) # 0 => Ref(c, i, k) \in c.d_bitmap
    BY <1>7, <1>8, <1>9, SoundParts
  <2>2. \A k, l \in 0 .. FileMax : Ref(c, i, k) # 0 /\ Ref(c, i, k) = Ref(c, i, l) => k = l
    BY <1>7, <1>9, OneRef
  <2>3. c \in Disks
    BY <1>8
  <2> QED
    BY <1>7, <2>1, <2>2, <2>3, FileFreed
<1>11. Bare(d, i, X)
  <2>1. ASSUME NEW h \in Places, InDir(d, i, h[1]) PROVE EntryAt(d, h).num = 0
    <3>1. PICK k \in 0 .. D_BLOCK : Ref(d, i, k) = h[1]
      BY <2>1, InDirIs
    <3>2. k \in 0 .. FileMax /\ d.inode[i].mode # "dir"
      BY <1>3, Sizes
    <3> QED
      BY <1>7, <3>1, <3>2, NotOwner
  <2> QED
    BY <1>9, <1>10, <2>1 DEF Bare
<1>12. PICK f : f = Without(c, X)
  OBVIOUS
<1>13. /\ f \in Disks /\ f.i_bitmap = c.i_bitmap /\ f.d_bitmap = c.d_bitmap \ X
       /\ f.inode = c.inode
       /\ \A b \in Blocks : f.block[b] = IF b \in X THEN ZeroBlock ELSE c.block[b]
  <2>1. c \in Disks
    BY <1>8
  <2> QED
    BY <1>12, <2>1, WithoutFields
<1>14. ASSUME NEW h \in Places
       PROVE  EntryAt(f, h) = IF h[1] \in X THEN NoEntry ELSE EntryAt(c, h)
  <2>1. h[1] \in Blocks /\ h[2] \in Slots
    BY DEF Places
  <2> QED
    BY ZenonT(60), <1>13, <2>1, ZeroTypes DEF EntryAt
<1>15. EntryAt(f, g) = NoEntry
  BY <1>8, <1>14
<1>16. ASSUME NEW h \in Places, h # g PROVE EntryAt(f, h) = EntryAt(d, h)
  <2>1. CASE h[1] \in X
    BY <1>7, <1>11, <1>14, <2>1, BareBlank
  <2>2. CASE h[1] \notin X
    BY <1>8, <1>14, <1>16, <2>2
  <2> QED
    BY <2>1, <2>2
<1>17. /\ f \in Disks /\ f.i_bitmap = d.i_bitmap /\ f.d_bitmap = d.d_bitmap \ X /\ f.inode = d.inode
  BY <1>8, <1>13
<1>18. \A x \in X : f.block[x] = ZeroBlock
  BY <1>13
<1>19. \A x \in Blocks \ X : f.block[x].ptr = d.block[x].ptr /\ f.block[x].data = d.block[x].data
  BY <1>8, <1>13
<1>20. \A x \in Blocks \ X : x # g[1] => f.block[x] = d.block[x]
  BY <1>8, <1>13
<1>21. PICK e : e = RemoveInode(f, i)
  OBVIOUS
<1>22. Sound(e) /\ FilesKept(d, e, {i})
  BY ZenonT(60), <1>4, <1>5, <1>11, <1>15, <1>16, <1>17, <1>18, <1>19, <1>20, <1>21, Gone
<1>23. Unlinked(d, at, name) = e
  BY <1>1, <1>2, <1>5, <1>6, <1>10, <1>12, <1>21 DEF Unlinked
<1> QED
  BY <1>2, <1>22, <1>23

\* One round of rmdir's loop.
EmptyRound(d, i, a, k) ==
  IF a.ret # "ok" \/ d.inode[i].blocks[k] = 0 THEN a
  ELSE IF Occupied(a.d, d.inode[i].blocks[k]) THEN [a EXCEPT !.ret = "ENOTEMPTY"]
  ELSE [a EXCEPT !.d = FreeBlock(a.d, d.inode[i].blocks[k])]

\* The rounds of rmdir's loop stay in S.
EmptyingLoops(d, i, n, S, start) ==
  /\ n \in Nat /\ n = IND_BLOCK /\ start \in S /\ start = [d |-> d, ret |-> "ok"]
  /\ \A a \in S, k \in 0 .. n - 1 : EmptyRound(d, i, a, k) \in S

\* Then the loop runs through S.
LEMMA EmptyingLoop ==
  ASSUME NEW d, NEW i, NEW n, NEW S, NEW start, EmptyingLoops(d, i, n, S, start)
  PROVE  \E G : /\ G \in [0 .. n -> S] /\ G[0] = start
                /\ \A k \in 0 .. n - 1 : G[k + 1] = EmptyRound(d, i, G[k], k)
                /\ EmptyDir(d, i) = G[n]
<1> DEFINE Round(a, k) == EmptyRound(d, i, a, k)
<1>0. n \in Nat /\ start \in S /\ n = IND_BLOCK /\ start = [d |-> d, ret |-> "ok"]
  BY DEF EmptyingLoops
<1>1. \A a \in S, k \in 0 .. n - 1 : Round(a, k) \in S
  BY DEF EmptyingLoops
<1>2. EmptyDir(d, i)
        = (CHOOSE H : H = [k \in 0 .. n |-> IF k = 0 THEN start ELSE Round(H[k - 1], k - 1)])[n]
  BY <1>0 DEF EmptyDir, Loop, EmptyRound
<1> SUFFICES \E G : /\ G \in [0 .. n -> S] /\ G[0] = start
                    /\ \A k \in 0 .. n - 1 : G[k + 1] = Round(G[k], k)
                    /\ EmptyDir(d, i) = G[n]
  OBVIOUS
<1> HIDE DEF Round
<1>3. PICK R : R = [x \in S \X (0 .. n - 1) |-> Round(x[1], x[2])]
  OBVIOUS
<1>4. R \in [S \X (0 .. n - 1) -> S]
  BY <1>1, <1>3
<1>5. PICK G : Course(G, n, S, start, R)
  BY <1>0, <1>4, Iterate
<1>6. G \in [0 .. n -> S] /\ G[0] = start
  BY <1>5 DEF Course
<1>7. ASSUME NEW k \in 0 .. n - 1 PROVE G[k + 1] = Round(G[k], k)
  <2>1. G[k + 1] = R[<<G[k], k>>] /\ <<G[k], k>> \in S \X (0 .. n - 1)
    BY <1>0, <1>5 DEF Course
  <2> QED
    BY <1>3, <2>1
<1>8. ASSUME NEW k \in 0 .. n, k # 0 PROVE G[k] = Round(G[k - 1], k - 1)
  <2>1. k - 1 \in 0 .. n - 1 /\ k - 1 + 1 = k
    BY <1>0, <1>8
  <2> QED
    BY <1>7, <2>1
<1>9. G = [k \in 0 .. n |-> IF k = 0 THEN start ELSE Round(G[k - 1], k - 1)]
  BY <1>0, <1>6, <1>8
<1>10. PICK F : F = CHOOSE H : H = [k \in 0 .. n |-> IF k = 0 THEN start ELSE Round(H[k - 1], k - 1)]
  OBVIOUS
<1>11. F = [k \in 0 .. n |-> IF k = 0 THEN start ELSE Round(F[k - 1], k - 1)]
  BY <1>9, <1>10
<1>12. F[0] = start /\ \A k \in 0 .. n - 1 : F[k + 1] = Round(F[k], k)
  <2>1. F[0] = start
    BY <1>0, <1>11
  <2>2. ASSUME NEW k \in 0 .. n - 1 PROVE F[k + 1] = Round(F[k], k)
    <3>1. k + 1 \in 0 .. n /\ k + 1 # 0 /\ k + 1 - 1 = k
      BY <1>0
    <3>2. F[k + 1] = Round(F[k + 1 - 1], k + 1 - 1)
      BY <1>0, <1>11, <3>1
    <3> QED
      BY <3>1, <3>2
  <2> QED
    BY <2>1, <2>2
<1>13. PICK E : E = {k \in 0 .. n : F[k] = G[k]}
  OBVIOUS
<1>14. 0 \in E
  BY <1>0, <1>6, <1>12, <1>13
<1>15. ASSUME NEW k \in 0 .. n - 1, k \in E PROVE k + 1 \in E
  <2>1. F[k] = G[k] /\ k + 1 \in 0 .. n
    BY <1>0, <1>13, <1>15
  <2>2. F[k + 1] = G[k + 1]
    BY <1>7, <1>12, <2>1
  <2> QED
    BY <1>13, <2>1, <2>2
<1>16. n \in E
  <2>1. \A k \in 0 .. n : k \in E
    BY <1>0, <1>14, <1>15, Induction
  <2> QED
    BY <1>0, <2>1
<1>17. EmptyDir(d, i) = G[n]
  BY <1>2, <1>10, <1>13, <1>16
<1> QED
  BY <1>6, <1>7, <1>17

\* The states of rmdir's loop.
Emptying == [d : Disks, ret : {"ok", "ENOTEMPTY"}]

\* G is the course of rmdir's loop.
EmptyRun(G, d, i, n) ==
  /\ G \in [0 .. n -> Emptying] /\ G[0] = [d |-> d, ret |-> "ok"]
  /\ \A k \in 0 .. n - 1 : G[k + 1] = EmptyRound(d, i, G[k], k)
  /\ EmptyDir(d, i) = G[n]

\* rmdir's loop runs through them.
LEMMA EmptyRuns ==
  ASSUME NEW d, Sound(d), NEW i \in d.i_bitmap, NEW n, n = IND_BLOCK
  PROVE  \E G : EmptyRun(G, d, i, n)
<1>1. /\ d \in Disks /\ i \in Inodes /\ IND_BLOCK \in Nat /\ 0 .. IND_BLOCK - 1 = 0 .. D_BLOCK
      /\ 0 .. D_BLOCK \subseteq 0 .. FileMax
  BY SoundParts, Sizes
<1>2. ASSUME NEW k \in 0 .. D_BLOCK
      PROVE  d.inode[i].blocks[k] = Ref(d, i, k) /\ Ref(d, i, k) \in {0} \cup Blocks
  <2>1. k \in 0 .. FileMax /\ k <= IND_BLOCK
    BY Sizes
  <2> QED
    BY <1>1, <2>1, RefType
<1>3. PICK S : S = Emptying
  OBVIOUS
<1>4. PICK start : start = [d |-> d, ret |-> "ok"]
  OBVIOUS
<1>6. ASSUME NEW a \in S, NEW k \in 0 .. n - 1 PROVE EmptyRound(d, i, a, k) \in S
  <2>1. PICK b \in {0} \cup Blocks : b = d.inode[i].blocks[k]
    BY <1>1, <1>2
  <2>2. CASE a.ret # "ok" \/ b = 0
    BY <2>1, <2>2 DEF EmptyRound
  <2>3. CASE a.ret = "ok" /\ b # 0 /\ Occupied(a.d, b)
    <3>1. EmptyRound(d, i, a, k) = [a EXCEPT !.ret = "ENOTEMPTY"]
      BY <2>1, <2>3 DEF EmptyRound
    <3> QED
      BY <1>3, <3>1 DEF Emptying
  <2>4. CASE a.ret = "ok" /\ b # 0 /\ ~Occupied(a.d, b)
    <3>1. EmptyRound(d, i, a, k) = [a EXCEPT !.d = FreeBlock(a.d, b)]
      BY <2>1, <2>4 DEF EmptyRound
    <3>2. PICK c \in Disks : c = a.d
      BY <1>3 DEF Emptying
    <3>3. FreeBlock(c, b) \in Disks
      BY <2>1, <2>4, FreeFields
    <3> QED
      BY <1>3, <3>1, <3>2, <3>3 DEF Emptying
  <2> QED
    BY <2>2, <2>3, <2>4
<1>7. EmptyingLoops(d, i, n, S, start)
  BY <1>1, <1>3, <1>4, <1>6 DEF EmptyingLoops, Emptying
<1>8. \E G : /\ G \in [0 .. n -> S] /\ G[0] = start
             /\ \A k \in 0 .. n - 1 : G[k + 1] = EmptyRound(d, i, G[k], k)
             /\ EmptyDir(d, i) = G[n]
  BY <1>7, EmptyingLoop
<1> QED
  BY <1>3, <1>4, <1>8 DEF EmptyRun

\* When rmdir's loop succeeds, it has freed the blocks of the directory, which were empty.
LEMMA DirEmptied ==
  ASSUME NEW d, Sound(d), NEW i \in d.i_bitmap, NEW r, r = EmptyDir(d, i), r.ret = "ok"
  PROVE  \E X : Bare(d, i, X) /\ r.d = Without(d, X)
<1>1. /\ d \in Disks /\ i \in Inodes /\ IND_BLOCK \in Nat /\ 0 .. IND_BLOCK - 1 = 0 .. D_BLOCK
      /\ 0 .. D_BLOCK \subseteq 0 .. FileMax
  BY SoundParts, Sizes
<1>2. ASSUME NEW k \in 0 .. D_BLOCK
      PROVE  d.inode[i].blocks[k] = Ref(d, i, k) /\ Ref(d, i, k) \in {0} \cup Blocks
  <2>1. k \in 0 .. FileMax /\ k <= IND_BLOCK
    BY Sizes
  <2> QED
    BY <1>1, <2>1, RefType
<1>5. PICK n \in Nat : n = IND_BLOCK
  BY <1>1
<1>8. PICK G : /\ G \in [0 .. n -> Emptying] /\ G[0] = [d |-> d, ret |-> "ok"]
               /\ \A k \in 0 .. n - 1 : G[k + 1] = EmptyRound(d, i, G[k], k)
               /\ EmptyDir(d, i) = G[n]
  <2>1. PICK G : EmptyRun(G, d, i, n)
    BY <1>5, EmptyRuns
  <2> QED
    BY <2>1 DEF EmptyRun
<1> DEFINE X(k) == {d.inode[i].blocks[j] : j \in 0 .. k - 1} \ {0}
           Done(k) == /\ G[k].d = Without(d, X(k))
                      /\ \A h \in Places : h[1] \in X(k) => EntryAt(d, h).num = 0
<1>9. ASSUME NEW k \in 0 .. n - 1, G[k].ret = "ok" => Done(k), G[k + 1].ret = "ok" PROVE Done(k + 1)
  <2>1. PICK b \in {0} \cup Blocks : b = d.inode[i].blocks[k] /\ b = Ref(d, i, k)
    BY <1>1, <1>2, <1>5
  <2>2. G[k + 1] = EmptyRound(d, i, G[k], k) /\ G[k] \in Emptying
    BY <1>8
  <2>3. G[k].ret = "ok"
    BY <1>9, <2>2 DEF EmptyRound
  <2>4. PICK Y : Y = X(k)
    OBVIOUS
  <2>5. G[k].d = Without(d, Y) /\ \A h \in Places : h[1] \in Y => EntryAt(d, h).num = 0
    BY <1>9, <2>3, <2>4
  <2>a. 0 .. (k + 1) - 1 = (0 .. k - 1) \cup {k}
    OBVIOUS
  <2>6. CASE b = 0
    <3>1. X(k + 1) = X(k)
      BY <2>1, <2>6, <2>a
    <3>2. G[k + 1] = G[k]
      BY <2>1, <2>2, <2>6 DEF EmptyRound
    <3> QED
      BY <2>4, <2>5, <3>1, <3>2
  <2>7. CASE b # 0
    <3>1. X(k + 1) = Y \cup {b}
      BY <2>1, <2>4, <2>7, <2>a
    <3>2. PICK c \in Disks : c = G[k].d
      BY <2>2 DEF Emptying
    <3>3. ~Occupied(c, b)
      <4> SUFFICES ASSUME Occupied(c, b) PROVE FALSE
        OBVIOUS
      <4>1. G[k + 1] = [G[k] EXCEPT !.ret = "ENOTEMPTY"]
        BY <2>1, <2>2, <2>3, <2>7, <3>2 DEF EmptyRound
      <4> QED
        BY <1>9, <2>2, <4>1 DEF Emptying
    <3>4. G[k + 1] = [G[k] EXCEPT !.d = FreeBlock(c, b)]
      BY <2>1, <2>2, <2>3, <2>7, <3>2, <3>3 DEF EmptyRound
    <3>5. G[k + 1].d = FreeBlock(c, b)
      BY <2>2, <3>4 DEF Emptying
    <3>6. k \in 0 .. FileMax /\ b \in Blocks
      BY <1>1, <1>5, <2>7
    <3>7. b \in d.d_bitmap
      BY <2>1, <2>7, <3>6, SoundParts
    <3>8. b \notin Y
      <4> SUFFICES ASSUME b \in Y PROVE FALSE
        OBVIOUS
      <4>1. PICK j \in 0 .. k - 1 : d.inode[i].blocks[j] = b
        BY <2>4
      <4>2. j \in 0 .. D_BLOCK /\ j \in 0 .. FileMax /\ j # k
        BY <1>5, Sizes
      <4>3. Ref(d, i, j) = b
        BY <1>2, <4>1, <4>2
      <4> QED
        BY <2>1, <2>7, <3>6, <4>2, <4>3, OneRef
    <3>9. G[k + 1].d = Without(d, Y \cup {b})
      BY <1>1, <2>5, <3>2, <3>5, <3>6, <3>7, <3>8, WithoutMore
    <3>10. ASSUME NEW h \in Places, h[1] = b PROVE EntryAt(d, h).num = 0
      <4>1. c.block[b] = d.block[b]
        BY <1>1, <2>5, <3>2, <3>6, <3>8, WithoutFields
      <4>2. h[2] \in 0 .. EntriesPerBlock - 1
        BY DEF Places, Slots
      <4>3. PICK x : x = EntryAt(d, h).num
        OBVIOUS
      <4>4. ~(x > 0)
        BY <3>3, <3>10, <4>1, <4>2, <4>3 DEF Occupied, EntryAt
      <4>5. x \in Nat
        <5>1. x \in Inodes
          BY <1>1, <4>3, EntryType
        <5> QED
          BY <5>1, Sizes DEF Inodes
      <4> QED
        BY <4>3, <4>4, <4>5
    <3> QED
      BY <2>5, <3>1, <3>9, <3>10
  <2> QED
    BY <2>6, <2>7
<1>10. PICK E : E = {k \in 0 .. n : G[k].ret = "ok" => Done(k)}
  OBVIOUS
<1>11. 0 \in E
  <2>1. PICK Y : Y = X(0)
    OBVIOUS
  <2>2. Y = {}
    BY <2>1
  <2>3. Without(d, Y) = d
    BY <1>1, <2>2, WithoutNone
  <2>4. G[0].d = d
    BY <1>8
  <2>5. Done(0)
    BY <2>1, <2>2, <2>3, <2>4
  <2> QED
    BY <1>10, <2>5
<1> HIDE DEF Done
<1>12. ASSUME NEW k \in 0 .. n - 1, k \in E PROVE k + 1 \in E
  BY <1>9, <1>10, <1>12
<1>13. Done(n)
  <2>1. \A k \in 0 .. n : k \in E
    BY <1>11, <1>12, Induction
  <2>2. n \in 0 .. n /\ G[n].ret = "ok"
    BY <1>8
  <2> QED
    BY <1>10, <2>1, <2>2
<1>14. Bare(d, i, X(n))
  <2>1. ASSUME NEW x \in X(n) PROVE x \in Blocks /\ \E k \in 0 .. FileMax : Ref(d, i, k) = x
    <3>1. PICK j \in 0 .. n - 1 : x = d.inode[i].blocks[j] /\ x # 0
      OBVIOUS
    <3>2. j \in 0 .. D_BLOCK /\ j \in 0 .. FileMax
      BY <1>1, <1>5
    <3> QED
      BY <1>2, <3>1, <3>2
  <2>2. ASSUME NEW h \in Places, InDir(d, i, h[1]) PROVE EntryAt(d, h).num = 0
    <3>1. PICK k \in 0 .. D_BLOCK : d.inode[i].blocks[k] = h[1]
      BY <2>2 DEF InDir
    <3>2. h[1] # 0 /\ k \in 0 .. n - 1
      BY <1>5, Sizes DEF Places, Blocks
    <3>3. h[1] \in X(n)
      BY <3>1, <3>2
    <3> QED
      BY <1>13, <3>3 DEF Done
  <2> QED
    BY <2>1, <2>2 DEF Bare
<1> QED
  BY <1>8, <1>13, <1>14 DEF Done

\* An rmdir that succeeds leaves the disk sound and the files as they were.
LEMMA RmdirSound ==
  ASSUME NEW d, Sound(d), NEW p \in Dirs(d), NEW i, NEW name \in Names,
         i = Found(d, p, name), i # -1, i # Astray, d.inode[i].mode = "dir",
         EmptyDir(d, i).ret = "ok",
         NEW e, e = RemoveInode(RemoveEntry(EmptyDir(d, i).d, p, name), i)
  PROVE  Sound(e) /\ FilesKept(d, e, {})
<1>1. p \in d.i_bitmap
  BY DEF Dirs
<1>2. /\ i \in d.i_bitmap \ {0}
      /\ \E g \in Places :
           /\ EntryAt(d, g).num = i
           /\ \A c : Lighter(d, c) => RemoveEntry(c, p, name) = Cleared(c, g)
  BY <1>1, EntryRemoved
<1>3. PICK g \in Places :
           /\ EntryAt(d, g).num = i
           /\ \A c : Lighter(d, c) => RemoveEntry(c, p, name) = Cleared(c, g)
  BY <1>2
<1>4. d \in Disks /\ i \in Inodes /\ i \in d.i_bitmap
  BY <1>2, SoundParts
<1>5. PICK X : Bare(d, i, X) /\ EmptyDir(d, i).d = Without(d, X)
  <2>1. PICK r : r = EmptyDir(d, i)
    OBVIOUS
  <2>2. r.ret = "ok"
    BY <2>1
  <2>3. \E X : Bare(d, i, X) /\ r.d = Without(d, X)
    BY <1>4, <2>1, <2>2, DirEmptied
  <2> QED
    BY <2>1, <2>3
<1>6. PICK c : c = Without(d, X)
  OBVIOUS
<1>7. /\ c \in Disks /\ c.i_bitmap = d.i_bitmap /\ c.d_bitmap = d.d_bitmap \ X
      /\ c.inode = d.inode
      /\ \A b \in Blocks : c.block[b] = IF b \in X THEN ZeroBlock ELSE d.block[b]
  BY <1>4, <1>6, WithoutFields
<1>8. ASSUME NEW h \in Places PROVE EntryAt(c, h) = EntryAt(d, h)
  <2>1. h[1] \in Blocks /\ h[2] \in Slots
    BY DEF Places
  <2>2. CASE h[1] \in X
    <3>1. EntryAt(c, h) = NoEntry
      BY <1>7, <2>1, <2>2, ZeroTypes DEF EntryAt
    <3> QED
      BY <1>4, <1>5, <2>2, <3>1, BareBlank
  <2>3. CASE h[1] \notin X
    BY <1>7, <2>1, <2>3 DEF EntryAt
  <2> QED
    BY <2>2, <2>3
<1>9. RemoveEntry(c, p, name) = Cleared(c, g)
  <2>1. Lighter(d, c)
    BY <1>7, <1>8 DEF Lighter
  <2> QED
    BY <1>3, <2>1
<1>10. PICK f : f = Cleared(c, g)
  OBVIOUS
<1>11. /\ f \in Disks /\ f.i_bitmap = c.i_bitmap /\ f.d_bitmap = c.d_bitmap /\ f.inode = c.inode
       /\ \A x \in Blocks : f.block[x].ptr = c.block[x].ptr /\ f.block[x].data = c.block[x].data
       /\ \A x \in Blocks : x # g[1] => f.block[x] = c.block[x]
       /\ EntryAt(f, g) = NoEntry
       /\ \A h \in Places : h # g => EntryAt(f, h) = EntryAt(c, h)
  <2>1. c \in Disks
    BY <1>7
  <2> QED
    BY <1>10, <2>1, ClearedFields
<1>12. g[1] \notin X
  <2> SUFFICES ASSUME g[1] \in X PROVE FALSE
    OBVIOUS
  <2>1. EntryAt(d, g) = NoEntry
    BY <1>4, <1>5, BareBlank
  <2> QED
    BY <1>2, <1>3, <2>1, ZeroTypes
<1>13. X \in SUBSET Blocks
  BY <1>5 DEF Bare
<1>14. /\ f \in Disks /\ f.i_bitmap = d.i_bitmap /\ f.d_bitmap = d.d_bitmap \ X /\ f.inode = d.inode
  BY <1>7, <1>11
<1>15. \A x \in X : f.block[x] = ZeroBlock
  BY <1>7, <1>11, <1>12, <1>13
<1>16. \A x \in Blocks \ X : f.block[x].ptr = d.block[x].ptr /\ f.block[x].data = d.block[x].data
  BY <1>7, <1>11
<1>17. \A x \in Blocks \ X : x # g[1] => f.block[x] = d.block[x]
  BY <1>7, <1>11
<1>18. EntryAt(f, g) = NoEntry /\ \A h \in Places : h # g => EntryAt(f, h) = EntryAt(d, h)
  BY <1>8, <1>11
<1>19. e = RemoveInode(f, i)
  BY <1>5, <1>6, <1>9, <1>10
<1>20. Sound(e) /\ FilesKept(d, e, {i})
  BY ZenonT(60), <1>2, <1>3, <1>5, <1>14, <1>15, <1>16, <1>17, <1>18, <1>19, Gone
<1>21. FilesKept(d, e, {})
  BY <1>20 DEF FilesKept
<1> QED
  BY <1>20, <1>21

-----------------------------------------------------------------------------
(* write *)

\* Writing twice to inode i leaves alone what each leaves alone.
LEMMA KeptTrans ==
  ASSUME NEW c, NEW d, NEW e, NEW i, Kept(c, d, i), Kept(d, e, i)
  PROVE  Kept(c, e, i)
BY DEF Kept

\* Writing nothing leaves everything alone.
LEMMA KeptSame ==
  ASSUME NEW d, NEW i
  PROVE  Kept(d, d, i)
BY DEF Kept

\* e is d with v written to block x of file i.
Put(d, e, i, x, v) ==
  /\ Sound(e) /\ Kept(d, e, i)
  /\ \A l \in 0 .. FileMax - 1 : ReadBlock(e, i, l) = IF l = x THEN v ELSE ReadBlock(d, i, l)

\* e is d with, at most, an empty indirect block for file i.
Idle(d, e, i) ==
  /\ Sound(e) /\ Kept(d, e, i)
  /\ \A l \in 0 .. FileMax - 1 : ReadBlock(e, i, l) = ReadBlock(d, i, l)

\* Writing after an idle step.
LEMMA IdlePut ==
  ASSUME NEW c, NEW d, NEW e, NEW i, NEW x, NEW v, Idle(c, d, i), Put(d, e, i, x, v)
  PROVE  Put(c, e, i, x, v)
<1>1. Kept(c, e, i)
  BY KeptTrans DEF Idle, Put
<1> QED
  BY <1>1 DEF Idle, Put

\* A direct block is written, after it was allocated if there was none.
LEMMA DirectPut ==
  ASSUME NEW d, Sound(d), NEW i \in d.i_bitmap, d.inode[i].mode = "file", NEW x \in Nat,
         x < IND_BLOCK, NEW v \in Values, NEW b \in Blocks, NEW c,
         \/ Ref(d, i, x) = b /\ c = d
         \/ Ref(d, i, x) = 0 /\ b \notin d.d_bitmap /\ c = GiveBlock(d, i, x, b)
  PROVE  Put(d, PutData(c, b, v), i, x, v)
<1>1. x \in 0 .. IND_BLOCK /\ x \in 0 .. FileMax /\ x # IND_BLOCK /\ i \in Inodes
  BY Sizes, SoundParts
<1>2. \A l \in 0 .. FileMax - 1 : Pos(l) = x <=> l = x
  BY <1>1, Sizes DEF Pos
<1>3. /\ Sound(c) /\ Kept(d, c, i) /\ Ref(c, i, x) = b
      /\ \A l \in 0 .. FileMax - 1 : l # x => ReadBlock(c, i, l) = ReadBlock(d, i, l)
  <2>1. CASE Ref(d, i, x) = b /\ c = d
    BY <2>1, KeptSame
  <2>2. CASE Ref(d, i, x) = 0 /\ b \notin d.d_bitmap /\ c = GiveBlock(d, i, x, b)
    <3>1. b \in Blocks \ d.d_bitmap /\ Ref(d, i, x) = 0 /\ c = GiveBlock(d, i, x, b)
      BY <2>2
    <3>2. /\ Sound(c) /\ Kept(d, c, i) /\ Ref(c, i, x) = b
          /\ \A l \in 0 .. FileMax - 1 : Pos(l) # x => ReadBlock(c, i, l) = ReadBlock(d, i, l)
      BY <1>1, <3>1, Given
    <3> QED
      BY <1>2, <3>2
  <2> QED
    BY <2>1, <2>2
<1>4. i \in c.i_bitmap /\ c.inode[i].mode = "file"
  BY <1>1, <1>3 DEF Kept
<1>5. PICK e : e = PutData(c, b, v)
  OBVIOUS
<1>6. /\ Sound(e) /\ Kept(c, e, i)
      /\ \A l \in 0 .. FileMax - 1 :
           ReadBlock(e, i, l) = IF Pos(l) = x THEN v ELSE ReadBlock(c, i, l)
  BY <1>1, <1>3, <1>4, <1>5, DataPut
<1>7. Kept(d, e, i)
  BY <1>3, <1>6, KeptTrans
<1>8. \A l \in 0 .. FileMax - 1 : ReadBlock(e, i, l) = IF l = x THEN v ELSE ReadBlock(d, i, l)
  BY <1>2, <1>3, <1>6
<1> QED
  BY <1>5, <1>6, <1>7, <1>8 DEF Put

\* A block with its pointer in the indirect block is written, after it was allocated if
\* there was none.
LEMMA IndirectPut ==
  ASSUME NEW d, Sound(d), NEW i \in d.i_bitmap, d.inode[i].mode = "file", NEW x \in Nat,
         NEW m \in 0 .. PtrsPerBlock - 1, x = IND_BLOCK + m, NEW v \in Values, NEW ib \in Blocks,
         Ref(d, i, IND_BLOCK) = ib, NEW b \in Blocks, NEW c,
         \/ d.block[ib].ptr[m] = b /\ c = d
         \/ d.block[ib].ptr[m] = 0 /\ b \notin d.d_bitmap /\ c = PutPointer(d, ib, m, b)
  PROVE  Put(d, PutData(c, b, v), i, x, v)
<1>1. PICK k : k = IND_BLOCK + 1 + m
  OBVIOUS
<1>2. k \in 0 .. FileMax /\ k # IND_BLOCK /\ k > IND_BLOCK /\ k - 1 - IND_BLOCK = m /\ i \in Inodes
  BY <1>1, Sizes, SoundParts
<1>3. \A l \in 0 .. FileMax - 1 : Pos(l) = k <=> l = x
  BY <1>1, Sizes DEF Pos
<1>4. d.block[ib].ptr[m] = Ref(d, i, k)
  <2>1. d \in Disks /\ ib # 0
    BY SoundParts DEF Blocks
  <2> QED
    BY <1>2, <2>1, RefType
<1>5. /\ Sound(c) /\ Kept(d, c, i) /\ Ref(c, i, k) = b
      /\ \A l \in 0 .. FileMax - 1 : l # x => ReadBlock(c, i, l) = ReadBlock(d, i, l)
  <2>1. CASE d.block[ib].ptr[m] = b /\ c = d
    BY <1>4, <2>1, KeptSame
  <2>2. CASE d.block[ib].ptr[m] = 0 /\ b \notin d.d_bitmap /\ c = PutPointer(d, ib, m, b)
    <3>1. b \in Blocks \ d.d_bitmap /\ Ref(d, i, k) = 0 /\ c = PutPointer(d, ib, m, b)
      BY <1>4, <2>2
    <3>2. /\ Sound(c) /\ Kept(d, c, i) /\ Ref(c, i, k) = b
          /\ \A l \in 0 .. FileMax - 1 : Pos(l) # k => ReadBlock(c, i, l) = ReadBlock(d, i, l)
      BY <1>1, <3>1, Pointed
    <3> QED
      BY <1>3, <3>2
  <2> QED
    BY <2>1, <2>2
<1>6. i \in c.i_bitmap /\ c.inode[i].mode = "file"
  BY <1>2, <1>5 DEF Kept
<1>7. PICK e : e = PutData(c, b, v)
  OBVIOUS
<1>8. /\ Sound(e) /\ Kept(c, e, i)
      /\ \A l \in 0 .. FileMax - 1 :
           ReadBlock(e, i, l) = IF Pos(l) = k THEN v ELSE ReadBlock(c, i, l)
  BY <1>2, <1>5, <1>6, <1>7, DataPut
<1>9. Kept(d, e, i)
  BY <1>5, <1>8, KeptTrans
<1>10. \A l \in 0 .. FileMax - 1 : ReadBlock(e, i, l) = IF l = x THEN v ELSE ReadBlock(d, i, l)
  BY <1>3, <1>5, <1>8
<1> QED
  BY <1>7, <1>8, <1>9, <1>10 DEF Put

\* What a write of v to file i, from off on, has done after some rounds.  Up to the first
\* block of the indirect part, top, the blocks it has written are the next ones.
Holds(d, e, i, off, done, v) ==
  \A l \in 0 .. FileMax - 1 :
    ReadBlock(e, i, l) = IF l \in off .. off + done - 1 THEN v ELSE ReadBlock(d, i, l)

\* The counters of a write.
Counted(off, top, idx, done) ==
  /\ idx \in Nat /\ done \in Nat /\ off + done <= idx /\ (done = 0 \/ off + done <= FileMax)
  /\ off + done <= top => idx = off + done

\* The states of the loop of a write.
Writing(d, i, off, v, top) ==
  {w \in [d : Disks, idx : Nat, done : Nat, stop : BOOLEAN] :
     /\ Sound(w.d) /\ Kept(d, w.d, i) /\ Counted(off, top, w.idx, w.done)
     /\ off + w.done <= top + 1 => Holds(d, w.d, i, off, w.done, v)}

\* A round that writes a block.
LEMMA Advance ==
  ASSUME NEW d, NEW i, NEW off \in Nat, NEW v, NEW top \in Nat, top = off \/ top = IND_BLOCK,
         top >= off, NEW w \in Writing(d, i, off, v, top), NEW e, Put(w.d, e, i, w.idx, v),
         w.idx < FileMax, NEW s \in {1, 2}, s = 1 \/ w.idx >= IND_BLOCK
  PROVE  [w EXCEPT !.d = e, !.idx = @ + s, !.done = @ + 1] \in Writing(d, i, off, v, top)
<1>1. /\ w \in [d : Disks, idx : Nat, done : Nat, stop : BOOLEAN]
      /\ Sound(w.d) /\ Kept(d, w.d, i) /\ Counted(off, top, w.idx, w.done)
      /\ off + w.done <= top + 1 => Holds(d, w.d, i, off, w.done, v)
  BY DEF Writing
<1>2. PICK x \in Nat : x = w.idx
  BY <1>1
<1>3. PICK n \in Nat : n = w.done
  BY <1>1
<1>4. /\ off + n <= x /\ x < FileMax /\ (s = 1 \/ x >= IND_BLOCK)
      /\ off + n <= top => x = off + n
  BY <1>1, <1>2, <1>3 DEF Counted
<1>5. PICK u : u = [w EXCEPT !.d = e, !.idx = @ + s, !.done = @ + 1]
  OBVIOUS
<1>6. Sound(e) /\ Kept(w.d, e, i) /\ e \in Disks
  BY DEF Put, Sound
<1>7. /\ u \in [d : Disks, idx : Nat, done : Nat, stop : BOOLEAN]
      /\ u.d = e /\ u.idx = x + s /\ u.done = n + 1
  <2>1. PICK y \in Nat : y = x + s
    OBVIOUS
  <2>2. PICK z \in Nat : z = n + 1
    OBVIOUS
  <2>3. u = [w EXCEPT !.d = e, !.idx = y, !.done = z]
    BY <1>1, <1>2, <1>3, <1>5, <2>1, <2>2
  <2>4. /\ u \in [d : Disks, idx : Nat, done : Nat, stop : BOOLEAN]
        /\ u.d = e /\ u.idx = y /\ u.done = z
    BY <1>1, <1>6, <2>3
  <2> QED
    BY <2>1, <2>2, <2>4
<1>8. Counted(off, top, x + s, n + 1)
  BY <1>4, Sizes DEF Counted
<1>9. ASSUME off + (n + 1) <= top + 1 PROVE Holds(d, e, i, off, n + 1, v)
  <2>1. off + n <= top /\ off + n <= top + 1 /\ x = off + n
    BY <1>4, <1>9
  <2>2. Holds(d, w.d, i, off, n, v)
    BY <1>1, <1>3, <2>1
  <2>3. ASSUME NEW l \in 0 .. FileMax - 1
        PROVE  ReadBlock(e, i, l) = IF l \in off .. off + (n + 1) - 1 THEN v ELSE ReadBlock(d, i, l)
    <3>1. ReadBlock(e, i, l) = IF l = x THEN v ELSE ReadBlock(w.d, i, l)
      BY <1>2 DEF Put
    <3>2. ReadBlock(w.d, i, l) = IF l \in off .. off + n - 1 THEN v ELSE ReadBlock(d, i, l)
      BY <2>2 DEF Holds
    <3>3. l \in off .. off + (n + 1) - 1 <=> (l = x \/ l \in off .. off + n - 1)
      BY <2>1
    <3> QED
      BY <3>1, <3>2, <3>3
  <2> QED
    BY <2>3 DEF Holds
<1>10. Kept(d, e, i)
  BY <1>1, <1>6, KeptTrans
<1>11. u \in Writing(d, i, off, v, top)
  BY <1>6, <1>7, <1>8, <1>9, <1>10 DEF Writing
<1> QED
  BY <1>5, <1>11

\* A round that ends the write.
LEMMA Halt ==
  ASSUME NEW d, NEW i, NEW off \in Nat, NEW v, NEW top \in Nat,
         NEW w \in Writing(d, i, off, v, top), NEW e, Idle(w.d, e, i)
  PROVE  [w EXCEPT !.d = e, !.stop = TRUE] \in Writing(d, i, off, v, top)
<1>1. /\ w \in [d : Disks, idx : Nat, done : Nat, stop : BOOLEAN]
      /\ Sound(w.d) /\ Kept(d, w.d, i) /\ Counted(off, top, w.idx, w.done)
      /\ off + w.done <= top + 1 => Holds(d, w.d, i, off, w.done, v)
  BY DEF Writing
<1>2. PICK u : u = [w EXCEPT !.d = e, !.stop = TRUE]
  OBVIOUS
<1>3. Sound(e) /\ Kept(w.d, e, i) /\ e \in Disks
  BY DEF Idle, Sound
<1>4. /\ u \in [d : Disks, idx : Nat, done : Nat, stop : BOOLEAN]
      /\ u.d = e /\ u.idx = w.idx /\ u.done = w.done
  BY <1>1, <1>2, <1>3
<1>5. Holds(d, w.d, i, off, w.done, v) => Holds(d, e, i, off, w.done, v)
  BY DEF Idle, Holds
<1>6. Kept(d, e, i)
  BY <1>1, <1>3, KeptTrans
<1>7. u \in Writing(d, i, off, v, top)
  BY <1>1, <1>3, <1>4, <1>5, <1>6 DEF Writing
<1> QED
  BY <1>2, <1>7

\* One round of the loop of wfs_write.
WriteRound(w, i, v) ==
  IF w.stop THEN w ELSE IF w.idx < IND_BLOCK THEN WriteDirect(w, i, v) ELSE WriteIndirect(w, i, v)

\* Hypotheses of the next lemma: the rounds of a write of c blocks stay in S.
WritingLoops(d, i, off, c, v, n, S, start) ==
  /\ n \in Nat /\ n = c /\ start \in S /\ start = [d |-> d, idx |-> off, done |-> 0, stop |-> FALSE]
  /\ \A a \in S, k \in 0 .. n - 1 : WriteRound(a, i, v) \in S

\* Then the loop runs through S.
LEMMA WritingLoop ==
  ASSUME NEW d, NEW i, NEW off, NEW c, NEW v, NEW n, NEW S, NEW start, WritingLoops(d, i, off, c, v, n, S, start)
  PROVE  \E G : /\ G \in [0 .. n -> S] /\ G[0] = start
                /\ \A k \in 0 .. n - 1 : G[k + 1] = WriteRound(G[k], i, v)
                /\ WriteBlocks(d, i, off, c, v) = G[n]
<1> DEFINE Round(a, k) == WriteRound(a, i, v)
<1>0. n \in Nat /\ start \in S /\ n = c /\ start = [d |-> d, idx |-> off, done |-> 0, stop |-> FALSE]
  BY DEF WritingLoops
<1>1. \A a \in S, k \in 0 .. n - 1 : Round(a, k) \in S
  BY DEF WritingLoops
<1>n. n \in Nat
  BY <1>0
<1>2. WriteBlocks(d, i, off, c, v)
        = (CHOOSE H : H = [k \in 0 .. n |-> IF k = 0 THEN start ELSE Round(H[k - 1], k - 1)])[n]
  BY <1>0 DEF WriteBlocks, Loop, WriteRound
<1> SUFFICES \E G : /\ G \in [0 .. n -> S] /\ G[0] = start
                    /\ \A k \in 0 .. n - 1 : G[k + 1] = Round(G[k], k)
                    /\ WriteBlocks(d, i, off, c, v) = G[n]
  OBVIOUS
<1> HIDE DEF Round
<1>3. PICK R : R = [x \in S \X (0 .. n - 1) |-> Round(x[1], x[2])]
  OBVIOUS
<1>4. R \in [S \X (0 .. n - 1) -> S]
  BY <1>1, <1>3
<1>5. PICK G : Course(G, n, S, start, R)
  BY <1>0, <1>4, Iterate
<1>6. G \in [0 .. n -> S] /\ G[0] = start
  BY <1>5 DEF Course
<1>7. ASSUME NEW k \in 0 .. n - 1 PROVE G[k + 1] = Round(G[k], k)
  <2>1. G[k + 1] = R[<<G[k], k>>] /\ <<G[k], k>> \in S \X (0 .. n - 1)
    BY <1>0, <1>5 DEF Course
  <2> QED
    BY <1>3, <2>1
<1>8. ASSUME NEW k \in 0 .. n, k # 0 PROVE G[k] = Round(G[k - 1], k - 1)
  <2>1. k - 1 \in 0 .. n - 1 /\ k - 1 + 1 = k
    BY <1>0, <1>8
  <2> QED
    BY <1>7, <2>1
<1>9. G = [k \in 0 .. n |-> IF k = 0 THEN start ELSE Round(G[k - 1], k - 1)]
  BY <1>0, <1>6, <1>8
<1>10. PICK F : F = CHOOSE H : H = [k \in 0 .. n |-> IF k = 0 THEN start ELSE Round(H[k - 1], k - 1)]
  OBVIOUS
<1>11. F = [k \in 0 .. n |-> IF k = 0 THEN start ELSE Round(F[k - 1], k - 1)]
  BY <1>9, <1>10
<1>12. F[0] = start /\ \A k \in 0 .. n - 1 : F[k + 1] = Round(F[k], k)
  <2>1. F[0] = start
    BY <1>0, <1>11
  <2>2. ASSUME NEW k \in 0 .. n - 1 PROVE F[k + 1] = Round(F[k], k)
    <3>1. k + 1 \in 0 .. n /\ k + 1 # 0 /\ k + 1 - 1 = k
      BY <1>0
    <3>2. F[k + 1] = Round(F[k + 1 - 1], k + 1 - 1)
      BY <1>n, <1>11, <3>1
    <3> QED
      BY <3>1, <3>2
  <2> QED
    BY <2>1, <2>2
<1>13. PICK E : E = {k \in 0 .. n : F[k] = G[k]}
  OBVIOUS
<1>14. 0 \in E
  BY <1>n, <1>6, <1>12, <1>13
<1>15. ASSUME NEW k \in 0 .. n - 1, k \in E PROVE k + 1 \in E
  <2>1. F[k] = G[k] /\ k + 1 \in 0 .. n
    BY <1>0, <1>13, <1>15
  <2>2. F[k + 1] = G[k + 1]
    BY <1>7, <1>12, <2>1
  <2> QED
    BY <1>13, <2>1, <2>2
<1>16. n \in E
  <2>1. \A k \in 0 .. n : k \in E
    BY <1>0, <1>14, <1>15, Induction
  <2> QED
    BY <1>0, <2>1
<1>17. WriteBlocks(d, i, off, c, v) = G[n]
  BY <1>2, <1>10, <1>13, <1>16
<1> QED
  BY <1>6, <1>7, <1>17

\* A direct block.
LEMMA DirectRound ==
  ASSUME NEW d, NEW i, NEW off \in Nat, NEW v \in Values, NEW top \in Nat,
         top = off \/ top = IND_BLOCK, top >= off, NEW w \in Writing(d, i, off, v, top),
         i \in w.d.i_bitmap, w.d.inode[i].mode = "file", w.idx < IND_BLOCK
  PROVE  WriteDirect(w, i, v) \in Writing(d, i, off, v, top)
<1>1. /\ w \in [d : Disks, idx : Nat, done : Nat, stop : BOOLEAN] /\ Sound(w.d)
  BY DEF Writing
<1>2. PICK x \in Nat : x = w.idx
  BY <1>1
<1>3. x \in 0 .. FileMax /\ x <= IND_BLOCK /\ x \in 0 .. IND_BLOCK /\ x < FileMax /\ x < IND_BLOCK
  BY <1>2, Sizes
<1>4. PICK g \in Disks : g = w.d
  BY <1>1
<1>5. PICK p : p = g.inode[i].blocks[x]
  OBVIOUS
<1>6. i \in Inodes /\ Ref(g, i, x) = p /\ p \in {0} \cup Blocks
  <2>1. i \in Inodes
    BY <1>4, DiskType
  <2> QED
    BY <1>3, <1>5, <2>1, RefType
<1>7. PICK a : a = allocate_block(g.d_bitmap, Blocks)
  OBVIOUS
<1>8. a = -1 \/ a \in Blocks \ g.d_bitmap
  <2>1. Blocks \in SUBSET Nat
    BY DEF Blocks
  <2> QED
    BY <1>7, <2>1, Allocate
<1>9. PICK b : b = IF p = 0 THEN a ELSE p
  OBVIOUS
<1>10. PICK c : c = IF p = 0 THEN GiveBlock(g, i, x, b) ELSE g
  OBVIOUS
<1>11. WriteDirect(w, i, v) = IF b = -1 THEN [w EXCEPT !.stop = TRUE]
         ELSE [w EXCEPT !.d = PutData(c, b, v), !.idx = @ + 1, !.done = @ + 1]
  BY <1>2, <1>4, <1>5, <1>7, <1>9, <1>10 DEF WriteDirect
<1>12. CASE b = -1
  <2>1. [w EXCEPT !.stop = TRUE] = [w EXCEPT !.d = g, !.stop = TRUE]
    BY <1>1, <1>4
  <2>2. Idle(w.d, g, i)
    BY <1>1, <1>4, KeptSame DEF Idle
  <2>3. [w EXCEPT !.d = g, !.stop = TRUE] \in Writing(d, i, off, v, top)
    BY <2>2, Halt
  <2> QED
    BY <1>11, <1>12, <2>1, <2>3
<1>13. CASE b # -1
  <2>1. b \in Blocks
    BY <1>6, <1>8, <1>9, <1>13
  <2>2. \/ Ref(g, i, x) = b /\ c = g
        \/ Ref(g, i, x) = 0 /\ b \notin g.d_bitmap /\ c = GiveBlock(g, i, x, b)
    BY <1>6, <1>8, <1>9, <1>10, <1>13
  <2>3. Put(g, PutData(c, b, v), i, x, v)
    BY <1>1, <1>3, <1>4, <2>1, <2>2, DirectPut
  <2>4. PICK e : e = PutData(c, b, v)
    OBVIOUS
  <2>5. Put(w.d, e, i, w.idx, v) /\ w.idx < FileMax
    BY <1>2, <1>3, <1>4, <2>3, <2>4
  <2>6. [w EXCEPT !.d = e, !.idx = @ + 1, !.done = @ + 1] \in Writing(d, i, off, v, top)
    BY <2>5, Advance
  <2> QED
    BY <1>11, <1>13, <2>4, <2>6
<1> QED
  BY <1>12, <1>13

\* The indirect block is there already, or is allocated, which nobody can see.
LEMMA IndirectGiven ==
  ASSUME NEW d, Sound(d), NEW i \in d.i_bitmap, NEW ip, ip = d.inode[i].blocks[IND_BLOCK],
         NEW ib \in Blocks, NEW c,
         \/ ip = ib /\ c = d
         \/ ip = 0 /\ ib \notin d.d_bitmap /\ c = GiveBlock(d, i, IND_BLOCK, ib)
  PROVE  Idle(d, c, i) /\ Ref(c, i, IND_BLOCK) = ib
<1>1. d \in Disks /\ i \in Inodes
  BY DiskType DEF Sound
<1>2. IND_BLOCK \in 0 .. FileMax /\ IND_BLOCK \in 0 .. IND_BLOCK /\ IND_BLOCK <= IND_BLOCK
  BY Sizes
<1>3. Ref(d, i, IND_BLOCK) = ip
  BY <1>2 DEF Ref
<1>4. CASE ip = ib /\ c = d
  BY <1>3, <1>4, KeptSame DEF Idle
<1>5. CASE ip = 0 /\ ib \notin d.d_bitmap /\ c = GiveBlock(d, i, IND_BLOCK, ib)
  <2>1. /\ Sound(c) /\ Kept(d, c, i) /\ Ref(c, i, IND_BLOCK) = ib
        /\ \A l \in 0 .. FileMax - 1 : Pos(l) # IND_BLOCK => ReadBlock(c, i, l) = ReadBlock(d, i, l)
    <3>1. ib \in Blocks \ d.d_bitmap /\ Ref(d, i, IND_BLOCK) = 0 /\ c = GiveBlock(d, i, IND_BLOCK, ib)
      BY <1>3, <1>5
    <3> QED
      BY <1>2, <3>1, Given
  <2>2. \A l \in 0 .. FileMax - 1 : Pos(l) # IND_BLOCK
    BY ReadIs
  <2> QED
    BY <2>1, <2>2 DEF Idle
<1> QED
  BY <1>4, <1>5

\* A block of the indirect part.
LEMMA IndirectRound ==
  ASSUME NEW d, NEW i, NEW off \in Nat, NEW v \in Values, NEW top \in Nat,
         top = off \/ top = IND_BLOCK, top >= off, NEW w \in Writing(d, i, off, v, top),
         i \in w.d.i_bitmap, w.d.inode[i].mode = "file", ~(w.idx < IND_BLOCK)
  PROVE  WriteIndirect(w, i, v) \in Writing(d, i, off, v, top)
<1>1. /\ w \in [d : Disks, idx : Nat, done : Nat, stop : BOOLEAN] /\ Sound(w.d)
  BY DEF Writing
<1>2. PICK x \in Nat : x = w.idx
  BY <1>1
<1>3. PICK m \in Nat : m = x - IND_BLOCK
  BY <1>2, Sizes
<1>4. PICK g \in Disks : g = w.d
  BY <1>1
<1>5. PICK ip : ip = g.inode[i].blocks[IND_BLOCK]
  OBVIOUS
<1>6. i \in Inodes /\ ip \in {0} \cup Blocks
  <2>1. i \in Inodes
    BY <1>4, DiskType
  <2>2. IND_BLOCK \in 0 .. IND_BLOCK /\ g.inode[i].blocks \in [0 .. IND_BLOCK -> {0} \cup Blocks]
    BY <2>1, DiskType, Sizes
  <2> QED
    BY <1>5, <2>1, <2>2
<1>7. PICK a : a = allocate_block(g.d_bitmap, Blocks)
  OBVIOUS
<1>b. Blocks \in SUBSET Nat
  BY DEF Blocks
<1>8. a = -1 \/ a \in Blocks \ g.d_bitmap
  BY <1>7, <1>b, Allocate
<1>9. PICK ib : ib = IF ip = 0 THEN a ELSE ip
  OBVIOUS
<1>10. PICK c : c = IF ip = 0 THEN GiveBlock(g, i, IND_BLOCK, ib) ELSE g
  OBVIOUS
<1>11. PICK p : p = c.block[ib].ptr[m]
  OBVIOUS
<1>12. PICK b : b = IF p = 0 THEN allocate_block(c.d_bitmap, Blocks) ELSE p
  OBVIOUS
<1>13. PICK q : q = IF p = 0 THEN PutPointer(c, ib, m, b) ELSE c
  OBVIOUS
<1>14. WriteIndirect(w, i, v) = IF ib = -1 THEN [w EXCEPT !.stop = TRUE]
         ELSE IF m >= PtrsPerBlock \/ b = -1 THEN [w EXCEPT !.d = c, !.stop = TRUE]
         ELSE [w EXCEPT !.d = PutData(q, b, v), !.idx = @ + 2, !.done = @ + 1]
  BY <1>2, <1>3, <1>4, <1>5, <1>7, <1>9, <1>10, <1>11, <1>12, <1>13 DEF WriteIndirect
<1>15. CASE ib = -1
  <2>1. [w EXCEPT !.stop = TRUE] = [w EXCEPT !.d = g, !.stop = TRUE]
    BY <1>1, <1>4
  <2>2. Idle(w.d, g, i)
    BY <1>1, <1>4, KeptSame DEF Idle
  <2>3. [w EXCEPT !.d = g, !.stop = TRUE] \in Writing(d, i, off, v, top)
    BY <2>2, Halt
  <2> QED
    BY <1>14, <1>15, <2>1, <2>3
<1>16. ASSUME ib # -1
       PROVE  ib \in Blocks /\ Idle(g, c, i) /\ Ref(c, i, IND_BLOCK) = ib
  <2>1. ib \in Blocks
    BY <1>6, <1>8, <1>9, <1>16
  <2>2. \/ ip = ib /\ c = g
        \/ ip = 0 /\ ib \notin g.d_bitmap /\ c = GiveBlock(g, i, IND_BLOCK, ib)
    BY <1>6, <1>8, <1>9, <1>10, <1>16
  <2>3. Sound(g) /\ i \in g.i_bitmap
    BY <1>1, <1>4
  <2> QED
    BY <1>5, <2>1, <2>2, <2>3, IndirectGiven
<1>17. CASE ib # -1 /\ (m >= PtrsPerBlock \/ b = -1)
  <2>1. Idle(w.d, c, i)
    BY <1>4, <1>16, <1>17
  <2>2. [w EXCEPT !.d = c, !.stop = TRUE] \in Writing(d, i, off, v, top)
    BY <2>1, Halt
  <2> QED
    BY <1>14, <1>17, <2>2
<1>18. CASE ib # -1 /\ ~(m >= PtrsPerBlock) /\ b # -1
  <2>1. ib \in Blocks /\ Idle(g, c, i) /\ Ref(c, i, IND_BLOCK) = ib
    BY <1>16, <1>18
  <2>2. m \in 0 .. PtrsPerBlock - 1 /\ x = IND_BLOCK + m /\ x < FileMax /\ x >= IND_BLOCK
    BY <1>2, <1>3, <1>18, Sizes
  <2>3. Sound(c) /\ c \in Disks /\ i \in c.i_bitmap /\ c.inode[i].mode = "file"
    BY <1>4, <1>6, <2>1 DEF Idle, Kept, Sound
  <2>4. p \in {0} \cup Blocks
    <3>1. c.block[ib].ptr \in [0 .. PtrsPerBlock - 1 -> {0} \cup Blocks]
      BY <2>1, <2>3, DiskType
    <3> QED
      BY <1>11, <2>2, <3>1
  <2>5. PICK z : z = allocate_block(c.d_bitmap, Blocks)
    OBVIOUS
  <2>6. z = -1 \/ z \in Blocks \ c.d_bitmap
    BY <2>5, <1>b, Allocate
  <2>7. /\ b \in Blocks
        /\ \/ p = b /\ q = c
           \/ p = 0 /\ b \notin c.d_bitmap /\ q = PutPointer(c, ib, m, b)
    BY <1>12, <1>13, <1>18, <2>4, <2>5, <2>6
  <2>8. Put(c, PutData(q, b, v), i, x, v)
    <3>1. \/ c.block[ib].ptr[m] = b /\ q = c
          \/ c.block[ib].ptr[m] = 0 /\ b \notin c.d_bitmap /\ q = PutPointer(c, ib, m, b)
      BY <1>11, <2>7
    <3> QED
      BY <2>1, <2>2, <2>3, <2>7, <3>1, IndirectPut
  <2>9. PICK e : e = PutData(q, b, v)
    OBVIOUS
  <2>10. Put(g, e, i, x, v)
    <3>1. Put(c, e, i, x, v)
      BY <2>8, <2>9
    <3> QED
      BY <2>1, <3>1, IdlePut
  <2>11. Put(w.d, e, i, w.idx, v) /\ w.idx < FileMax /\ w.idx >= IND_BLOCK
    BY <1>2, <1>4, <2>2, <2>10
  <2>12. [w EXCEPT !.d = e, !.idx = @ + 2, !.done = @ + 1] \in Writing(d, i, off, v, top)
    BY <2>11, Advance
  <2> QED
    BY <1>14, <1>18, <2>9, <2>12
<1> QED
  BY <1>15, <1>17, <1>18

\* Where a write stops telling what it writes: its start, or the start of the indirect part.
LEMMA TopIs ==
  ASSUME NEW off \in Nat, NEW top, top = Max({off, IND_BLOCK})
  PROVE  top \in Nat /\ (top = off \/ top = IND_BLOCK) /\ top >= off
<1>1. PICK m \in {off, IND_BLOCK} : \A y \in {off, IND_BLOCK} : m >= y
  BY Sizes
<1>2. top \in {off, IND_BLOCK} /\ \A y \in {off, IND_BLOCK} : top >= y
  BY <1>1 DEF Max
<1> QED
  BY <1>2, Sizes

\* The loop of wfs_write on a file.
LEMMA Written ==
  ASSUME NEW d, Sound(d), NEW i \in d.i_bitmap, d.inode[i].mode = "file", NEW off \in 0 .. FileMax,
         NEW c \in Nat, NEW v \in Values, NEW top, top = Max({off, IND_BLOCK})
  PROVE  WriteBlocks(d, i, off, c, v) \in Writing(d, i, off, v, top)
<1>1. off \in Nat
  BY Sizes
<1>2. top \in Nat /\ (top = off \/ top = IND_BLOCK) /\ top >= off
  BY <1>1, TopIs
<1>3. PICK start : start = [d |-> d, idx |-> off, done |-> 0, stop |-> FALSE]
  OBVIOUS
<1>4. start \in Writing(d, i, off, v, top)
  <2>1. start \in [d : Disks, idx : Nat, done : Nat, stop : BOOLEAN]
    BY <1>1, <1>3 DEF Sound
  <2>2. start.d = d /\ start.idx = off /\ start.done = 0
    BY <1>3
  <2>3. Counted(off, top, off, 0)
    BY <1>1, <1>2 DEF Counted
  <2>4. Holds(d, d, i, off, 0, v)
    BY <1>1 DEF Holds
  <2> QED
    BY <2>1, <2>2, <2>3, <2>4, KeptSame DEF Writing
<1>5. PICK S : S = Writing(d, i, off, v, top)
  OBVIOUS
<1>6. ASSUME NEW w \in S PROVE WriteRound(w, i, v) \in S
  <2>1. w \in Writing(d, i, off, v, top)
    BY <1>5
  <2>2. Kept(d, w.d, i) /\ i \in Inodes
    BY <2>1, DiskType DEF Writing, Sound
  <2>3. i \in w.d.i_bitmap /\ w.d.inode[i].mode = "file"
    BY <2>2 DEF Kept
  <2>4. CASE w.stop
    BY <2>4 DEF WriteRound
  <2>5. CASE ~w.stop /\ w.idx < IND_BLOCK
    BY <1>1, <1>2, <1>5, <2>1, <2>3, <2>5, DirectRound DEF WriteRound
  <2>6. CASE ~w.stop /\ ~(w.idx < IND_BLOCK)
    BY <1>1, <1>2, <1>5, <2>1, <2>3, <2>6, IndirectRound DEF WriteRound
  <2> QED
    BY <2>4, <2>5, <2>6
<1>7. PICK n \in Nat : n = c
  OBVIOUS
<1>8. WritingLoops(d, i, off, c, v, n, S, start)
  BY <1>3, <1>4, <1>5, <1>6, <1>7 DEF WritingLoops
<1>9. \E G : /\ G \in [0 .. n -> S] /\ G[0] = start
             /\ \A k \in 0 .. n - 1 : G[k + 1] = WriteRound(G[k], i, v)
             /\ WriteBlocks(d, i, off, c, v) = G[n]
  BY <1>8, WritingLoop
<1>10. PICK G : G \in [0 .. n -> S] /\ WriteBlocks(d, i, off, c, v) = G[n]
  BY <1>9
<1>11. n \in 0 .. n
  OBVIOUS
<1> QED
  BY <1>5, <1>10, <1>11

\* A file gets another size.
Resized(d, i, z) == [d EXCEPT !.inode[i].size = z]

\* That changes nothing else.
LEMMA Sized ==
  ASSUME NEW d, Sound(d), NEW i \in d.i_bitmap, d.inode[i].mode = "file", NEW z \in 0 .. FileMax,
         NEW e, e = Resized(d, i, z)
  PROVE  /\ Sound(e) /\ e.i_bitmap = d.i_bitmap
         /\ \A j \in Inodes : e.inode[j].mode = d.inode[j].mode
         /\ e.inode[i].size = z /\ \A j \in Inodes \ {i} : e.inode[j] = d.inode[j]
         /\ \A j \in Inodes, k \in 0 .. FileMax - 1 : ReadBlock(e, j, k) = ReadBlock(d, j, k)
<1>1. d \in Disks /\ i \in Inodes
  BY DiskType DEF Sound
<1>2. /\ d.inode \in [Inodes -> InodeRecs] /\ d.inode[i] \in InodeRecs
  BY <1>1, DiskType
<1>3. PICK x : x = [d.inode[i] EXCEPT !.size = z]
  OBVIOUS
<1>4. /\ x \in InodeRecs /\ x.mode = d.inode[i].mode /\ x.blocks = d.inode[i].blocks
      /\ x.size = z
  BY <1>2, <1>3 DEF InodeRecs
<1>5. PICK y : y = [d.inode EXCEPT ![i] = x]
  OBVIOUS
<1>6. /\ y \in [Inodes -> InodeRecs] /\ y[i] = x
      /\ \A j \in Inodes \ {i} : y[j] = d.inode[j]
  BY <1>1, <1>2, <1>4, <1>5
<1>7. e = [d EXCEPT !.inode = y]
  BY <1>1, <1>2, <1>3, <1>5 DEF Disks, Resized
<1>8. /\ e \in Disks /\ e.inode = y /\ e.i_bitmap = d.i_bitmap /\ e.d_bitmap = d.d_bitmap
      /\ e.block = d.block
  BY <1>1, <1>6, <1>7 DEF Disks
<1>9. \A j \in Inodes : /\ e.inode[j].mode = d.inode[j].mode
                        /\ e.inode[j].blocks = d.inode[j].blocks
                        /\ d.inode[j].mode = "dir" => e.inode[j].size = d.inode[j].size
  <2>1. ASSUME NEW j \in Inodes
        PROVE  /\ e.inode[j].mode = d.inode[j].mode
               /\ e.inode[j].blocks = d.inode[j].blocks
               /\ d.inode[j].mode = "dir" => e.inode[j].size = d.inode[j].size
    <3>1. CASE j = i
      <4>1. e.inode[i].mode = d.inode[i].mode /\ e.inode[i].blocks = d.inode[i].blocks
        BY <1>4, <1>6, <1>8
      <4> QED
        BY <3>1, <4>1
    <3>2. CASE j # i
      BY <1>6, <1>8, <3>2
    <3> QED
      BY <3>1, <3>2
  <2> QED
    BY <2>1
<1>10. \A h \in Places : EntryAt(e, h) = EntryAt(d, h)
  BY <1>8 DEF EntryAt
<1>11. \A j \in Inodes : \A l : Pointer(e, j, l) = Pointer(d, j, l)
  BY <1>8, <1>9 DEF Pointer
<1>12. \A j \in Inodes, l \in 0 .. FileMax : Ref(e, j, l) = Ref(d, j, l)
  BY <1>9, <1>11 DEF Ref
<1>13. \A j \in d.i_bitmap, l \in 0 .. FileMax : Ref(e, j, l) = Ref(d, j, l)
  BY <1>1, <1>12, DiskType
<1>14. \A x1 \in Blocks \ d.d_bitmap : e.block[x1] = d.block[x1]
  BY <1>8
<1>15. \A j \in Inodes : /\ e.inode[j].mode = d.inode[j].mode
                         /\ d.inode[j].mode = "dir" => e.inode[j].size = d.inode[j].size
  BY <1>9
<1>16. Sound(e)
  BY <1>8, <1>10, <1>13, <1>14, <1>15, SameShape
<1>17. \A j \in Inodes, k \in 0 .. FileMax - 1 : ReadBlock(e, j, k) = ReadBlock(d, j, k)
  BY <1>8, <1>11 DEF ReadBlock
<1>18. e.inode[i].size = z /\ \A j \in Inodes \ {i} : e.inode[j] = d.inode[j]
  BY <1>4, <1>6, <1>8
<1> QED
  BY <1>8, <1>9, <1>16, <1>17, <1>18

\* What a write of v to file i, from off on, has done to the disk, with done blocks written.
Wrote(d, e, i, off, done, v) ==
  /\ Sound(e) /\ e.i_bitmap = d.i_bitmap /\ done \in Nat
  /\ \A j \in Inodes : e.inode[j].mode = d.inode[j].mode
  /\ \A j \in Inodes \ {i} : e.inode[j].size = d.inode[j].size
  /\ d.inode[i].size <= e.inode[i].size
  /\ done # 0 => off + done <= e.inode[i].size
  /\ \A j \in d.i_bitmap \ {i}, k \in 0 .. FileMax - 1 : ReadBlock(e, j, k) = ReadBlock(d, j, k)
  /\ done = 0 => Kept(d, e, i)
  /\ off + done <= Max({off, IND_BLOCK}) + 1 => Holds(d, e, i, off, done, v)

\* The state of the loop of a write, taken apart.
LEMMA WritingParts ==
  ASSUME NEW d, NEW i, NEW off, NEW v, NEW top, NEW w \in Writing(d, i, off, v, top)
  PROVE  /\ Sound(w.d) /\ Kept(d, w.d, i) /\ w.done \in Nat
         /\ w.done # 0 => off + w.done <= FileMax
         /\ off + w.done <= top + 1 => Holds(d, w.d, i, off, w.done, v)
BY DEF Writing, Counted

\* wfs_write on a file.
LEMMA WriteSound ==
  ASSUME NEW d, Sound(d), NEW i \in d.i_bitmap, d.inode[i].mode = "file", NEW off \in 0 .. FileMax,
         NEW c \in Nat, NEW v \in Values, NEW w, w = WriteBlocks(d, i, off, c, v),
         NEW e, e = Grow(w, i, off, c)
  PROVE  Wrote(d, e, i, off, w.done, v)
<1>1. PICK top : top = Max({off, IND_BLOCK})
  OBVIOUS
<1>2. w \in Writing(d, i, off, v, top)
  BY <1>1, Written
<1>3. PICK g : g = w.d
  OBVIOUS
<1>4. PICK n : n = w.done
  OBVIOUS
<1>5. /\ Sound(g) /\ Kept(d, g, i) /\ n \in Nat
      /\ n # 0 => off + n <= FileMax
      /\ off + n <= top + 1 => Holds(d, g, i, off, n, v)
  BY <1>2, <1>3, <1>4, WritingParts
<1>6. i \in Inodes /\ d.i_bitmap \subseteq Inodes
  BY DiskType DEF Sound
<1>7. /\ g.i_bitmap = d.i_bitmap /\ \A j \in Inodes : g.inode[j].mode = d.inode[j].mode
      /\ \A j \in Inodes : g.inode[j].size = d.inode[j].size
      /\ \A j \in d.i_bitmap \ {i}, k \in 0 .. FileMax - 1 : ReadBlock(g, j, k) = ReadBlock(d, j, k)
  BY <1>5 DEF Kept
<1>0. d.inode[i].size \in Nat /\ g.inode[i].size = d.inode[i].size
  <2>1. d.inode[i].size \in 0 .. FileMax
    BY <1>6, SoundParts, DiskType
  <2> QED
    BY <1>6, <1>7, <2>1, Sizes
<1>8. CASE n > 0 /\ g.inode[i].size < off + n
  <2>1. PICK z : z = off + n
    OBVIOUS
  <2>2. z \in 0 .. FileMax
    BY <1>5, <1>8, <2>1, Sizes
  <2>3. e = Resized(g, i, z)
    BY <1>3, <1>4, <1>8, <2>1 DEF Grow, Resized
  <2>4. i \in g.i_bitmap /\ g.inode[i].mode = "file"
    BY <1>6, <1>7
  <2>5. /\ Sound(e) /\ e.i_bitmap = g.i_bitmap
        /\ \A j \in Inodes : e.inode[j].mode = g.inode[j].mode
        /\ e.inode[i].size = z /\ \A j \in Inodes \ {i} : e.inode[j] = g.inode[j]
        /\ \A j \in Inodes, k \in 0 .. FileMax - 1 : ReadBlock(e, j, k) = ReadBlock(g, j, k)
    BY <1>5, <2>2, <2>3, <2>4, Sized
  <2>6. Holds(d, g, i, off, n, v) => Holds(d, e, i, off, n, v)
    BY <1>6, <2>5 DEF Holds
  <2>7. \A j \in d.i_bitmap \ {i}, k \in 0 .. FileMax - 1 : ReadBlock(e, j, k) = ReadBlock(d, j, k)
    BY <1>6, <1>7, <2>5
  <2>8. n # 0
    BY <1>8
  <2>9. /\ \A j \in Inodes \ {i} : e.inode[j].size = d.inode[j].size
        /\ d.inode[i].size <= e.inode[i].size /\ off + n <= e.inode[i].size
    <3>1. \A j \in Inodes \ {i} : e.inode[j].size = d.inode[j].size
      BY <1>7, <2>5
    <3>2. z \in Nat /\ d.inode[i].size < z
      BY <1>0, <1>8, <2>1, <2>2, Sizes
    <3>3. d.inode[i].size <= z /\ off + n <= z
      BY <1>0, <2>1, <3>2
    <3> QED
      BY <2>5, <3>1, <3>3
  <2> QED
    BY <1>1, <1>4, <1>5, <1>7, <2>5, <2>6, <2>7, <2>8, <2>9 DEF Wrote
<1>9. CASE ~(n > 0 /\ g.inode[i].size < off + n)
  <2>1. e = g
    BY <1>3, <1>4, <1>9 DEF Grow
  <2>2. /\ \A j \in Inodes \ {i} : e.inode[j].size = d.inode[j].size
        /\ d.inode[i].size <= e.inode[i].size
    BY <1>0, <1>7, <2>1
  <2>3. n # 0 => off + n <= e.inode[i].size
    <3>1. PICK y \in Nat : y = g.inode[i].size
      BY <1>0
    <3>2. n # 0 => off + n <= y
      BY <1>5, <1>9, <3>1, Sizes
    <3> QED
      BY <2>1, <3>1, <3>2
  <2> QED
    BY <1>1, <1>4, <1>5, <1>7, <2>1, <2>2, <2>3 DEF Wrote
<1> QED
  BY <1>8, <1>9

-----------------------------------------------------------------------------
(* The steps *)

\* An operation that keeps the files, but for the ones in T, about which nothing is
\* remembered any more.
LEMMA StillThere ==
  ASSUME NEW T \in SUBSET Inodes, WrittenThere, FilesKept(disk, disk', T),
         wrote' \in [Inodes -> [0 .. FileMax - 1 -> {0} \cup Values]],
         \A i \in Inodes \ T : wrote'[i] = wrote[i], skipped' = skipped \ T,
         \A i \in T, k \in 0 .. FileMax - 1 : wrote'[i][k] = 0
  PROVE  WrittenThere'
<1>1. ASSUME NEW i \in Inodes, disk'.inode[i].mode # "file"
      PROVE  i \notin skipped' /\ \A k \in 0 .. FileMax - 1 : wrote'[i][k] = 0
  <2>1. CASE i \in T
    BY <2>1
  <2>2. CASE i \notin T
    <3>1. disk.inode[i].mode # "file"
      BY <1>1, <2>2 DEF FilesKept
    <3> QED
      BY <2>2, <3>1 DEF WrittenThere
  <2> QED
    BY <2>1, <2>2
<1>2. ASSUME NEW i \in Inodes \ skipped', NEW k \in 0 .. FileMax - 1, wrote'[i][k] # 0
      PROVE  ReadBlock(disk', i, k) = wrote'[i][k] /\ k < disk'.inode[i].size
  <2>1. i \notin T /\ i \notin skipped /\ wrote'[i] = wrote[i]
    BY <1>2
  <2>2. /\ disk.inode[i].mode = "file" /\ ReadBlock(disk, i, k) = wrote[i][k]
        /\ k < disk.inode[i].size
    BY <1>2, <2>1 DEF WrittenThere
  <2>3. /\ ReadBlock(disk', i, k) = ReadBlock(disk, i, k)
        /\ disk'.inode[i].size = disk.inode[i].size
    BY <2>1, <2>2 DEF FilesKept
  <2> QED
    BY <2>1, <2>2, <2>3
<1> QED
  BY <1>1, <1>2 DEF WrittenThere

\* wfs_write.
LEMMA WrittenTo ==
  ASSUME WrittenThere, Sound(disk), NEW i \in disk.i_bitmap, disk.inode[i].mode = "file",
         NEW off \in 0 .. FileMax, NEW v \in Values, NEW n, Wrote(disk, disk', i, off, n, v),
         wrote' = [wrote EXCEPT ![i] = Overwrite(@, off, off + n, v)],
         skipped' = IF off + n > Max({off, IND_BLOCK}) + 1 THEN skipped \cup {i} ELSE skipped
  PROVE  WrittenThere'
<1>1. disk.i_bitmap \subseteq Inodes /\ i \in Inodes
  BY DiskType DEF Sound
<1>2. /\ disk'.i_bitmap = disk.i_bitmap /\ n \in Nat
      /\ \A j \in Inodes : disk'.inode[j].mode = disk.inode[j].mode
      /\ \A j \in disk.i_bitmap \ {i}, k \in 0 .. FileMax - 1 :
           ReadBlock(disk', j, k) = ReadBlock(disk, j, k)
      /\ \A j \in Inodes \ {i} : disk'.inode[j].size = disk.inode[j].size
      /\ disk.inode[i].size <= disk'.inode[i].size
      /\ n # 0 => off + n <= disk'.inode[i].size
      /\ off + n <= Max({off, IND_BLOCK}) + 1 => Holds(disk, disk', i, off, n, v)
  BY DEF Wrote
<1>3. wrote \in [Inodes -> [0 .. FileMax - 1 -> {0} \cup Values]]
  BY DEF WrittenThere
<1>4. PICK f : f = Overwrite(wrote[i], off, off + n, v)
  OBVIOUS
<1>5. /\ f \in [0 .. FileMax - 1 -> {0} \cup Values]
      /\ \A k \in 0 .. FileMax - 1 : f[k] = IF k \in off .. off + n - 1 THEN v ELSE wrote[i][k]
  <2>1. PICK g \in [0 .. FileMax - 1 -> {0} \cup Values] : g = wrote[i]
    BY <1>1, <1>3
  <2>2. PICK m : m = off + n
    OBVIOUS
  <2>3. f = Overwrite(g, off, m, v)
    BY <1>4, <2>1, <2>2
  <2>4. f = [k \in 0 .. FileMax - 1 |-> IF k \in off .. m - 1 THEN v ELSE g[k]]
    BY <2>3 DEF Overwrite
  <2>5. f \in [0 .. FileMax - 1 -> {0} \cup Values]
    BY <2>1, <2>4
  <2>6. \A k \in 0 .. FileMax - 1 : f[k] = IF k \in off .. m - 1 THEN v ELSE wrote[i][k]
    BY <2>1, <2>4
  <2>7. n \in Nat
    BY <1>2
  <2>8. \A k \in 0 .. FileMax - 1 : k \in off .. m - 1 <=> k \in off .. off + n - 1
    BY <2>2, <2>7, Sizes
  <2> QED
    BY <2>5, <2>6, <2>8
<1>6. wrote' = [wrote EXCEPT ![i] = f]
  BY <1>1, <1>3, <1>4
<1>7. /\ wrote' \in [Inodes -> [0 .. FileMax - 1 -> {0} \cup Values]] /\ wrote'[i] = f
      /\ \A j \in Inodes \ {i} : wrote'[j] = wrote[j]
  BY <1>1, <1>3, <1>5, <1>6
<1>8. \A j \in Inodes \ {i} : j \in skipped' <=> j \in skipped
  OBVIOUS
<1>9. ASSUME NEW j \in Inodes, disk'.inode[j].mode # "file"
      PROVE  j \notin skipped' /\ \A k \in 0 .. FileMax - 1 : wrote'[j][k] = 0
  <2>1. disk.inode[j].mode # "file" /\ j # i
    BY <1>2, <1>9
  <2> QED
    BY <1>7, <1>8, <2>1 DEF WrittenThere
<1>11. disk.inode[i].size \in Nat /\ disk'.inode[i].size \in Nat
  <2>1. disk.inode[i].size \in 0 .. FileMax /\ disk'.inode[i].size \in 0 .. FileMax
    BY <1>1, DiskType DEF Sound, Wrote
  <2> QED
    BY <2>1, Sizes
<1>10. ASSUME NEW j \in Inodes \ skipped', NEW k \in 0 .. FileMax - 1, wrote'[j][k] # 0
       PROVE  ReadBlock(disk', j, k) = wrote'[j][k] /\ k < disk'.inode[j].size
  <2>1. CASE j # i
    <3>1. j \notin skipped /\ wrote'[j] = wrote[j]
      BY <1>7, <1>8, <2>1
    <3>2. /\ disk.inode[j].mode = "file" /\ ReadBlock(disk, j, k) = wrote[j][k]
          /\ k < disk.inode[j].size
      <4>1. wrote[j][k] # 0 /\ j \in Inodes \ skipped /\ j \in Inodes
        BY <1>10, <3>1
      <4> QED
        BY <4>1 DEF WrittenThere
    <3>3. j \in disk.i_bitmap
      BY <3>2 DEF Sound, NodesSound
    <3> QED
      BY <1>2, <2>1, <3>1, <3>2, <3>3
  <2>2. CASE j = i
    <3>1. Holds(disk, disk', i, off, n, v) /\ i \notin skipped
      <4>1. PICK t \in Nat : t = Max({off, IND_BLOCK})
        <5>1. off \in Nat
          BY Sizes
        <5> QED
          BY <5>1, TopIs
      <4>2. ~(off + n > t + 1)
        BY <2>2, <4>1
      <4>3. off + n <= t + 1
        BY <1>2, <4>2, Sizes
      <4> QED
        BY <1>2, <2>2, <4>1, <4>2, <4>3
    <3>2. ReadBlock(disk', i, k) = IF k \in off .. off + n - 1 THEN v ELSE ReadBlock(disk, i, k)
      BY <3>1 DEF Holds
    <3>3. f[k] = IF k \in off .. off + n - 1 THEN v ELSE wrote[i][k]
      BY <1>5
    <3>4. wrote[i][k] # 0 => ReadBlock(disk, i, k) = wrote[i][k] /\ k < disk.inode[i].size
      BY <1>1, <3>1 DEF WrittenThere
    <3>5. k < disk'.inode[i].size
      <4>1. CASE k \in off .. off + n - 1
        <5>1. n # 0 /\ off + n <= disk'.inode[i].size
          BY <1>2, <4>1, Sizes
        <5>2. PICK y \in Nat : y = disk'.inode[i].size
          BY <1>11
        <5>3. k < y
          BY <1>2, <4>1, <5>1, <5>2, Sizes
        <5> QED
          BY <5>2, <5>3
      <4>2. CASE k \notin off .. off + n - 1
        <5>1. wrote[i][k] # 0
          BY <1>7, <1>10, <2>2, <3>3, <4>2
        <5>2. PICK x \in Nat, y \in Nat : x = disk.inode[i].size /\ y = disk'.inode[i].size
          BY <1>11
        <5>3. k < x /\ x <= y
          BY <1>2, <3>4, <5>1, <5>2
        <5>4. k < y
          BY <5>3, Sizes
        <5> QED
          BY <5>2, <5>4
      <4> QED
        BY <4>1, <4>2
    <3> QED
      BY <1>7, <1>10, <2>2, <3>2, <3>3, <3>4, <3>5
  <2> QED
    BY <2>1, <2>2
<1> QED
  BY <1>7, <1>9, <1>10 DEF WrittenThere

\* The entries in use of a directory, as places on the disk.
LEMMA EntriesIs ==
  ASSUME NEW d \in Disks, NEW i \in Inodes, NEW h
  PROVE  h \in EntriesOf(d, i) <=> h \in Places /\ InDir(d, i, h[1]) /\ EntryAt(d, h).num > 0
<1>1. d.inode[i].blocks \in [0 .. IND_BLOCK -> {0} \cup Blocks]
  BY DiskType
<1>2. \A k \in 0 .. D_BLOCK : d.inode[i].blocks[k] \in {0} \cup Blocks
  <2>1. 0 .. D_BLOCK \subseteq 0 .. IND_BLOCK
    BY Sizes
  <2> QED
    BY <1>1, <2>1
<1>3. ASSUME h \in EntriesOf(d, i)
      PROVE  h \in Places /\ InDir(d, i, h[1]) /\ EntryAt(d, h).num > 0
  <2>1. /\ h \in {d.inode[i].blocks[k] : k \in 0 .. D_BLOCK} \X Slots
        /\ h[1] # 0 /\ EntryAt(d, h).num > 0
    BY <1>3 DEF EntriesOf, Slots
  <2>2. PICK k \in 0 .. D_BLOCK : h[1] = d.inode[i].blocks[k]
    BY <2>1
  <2>3. h[1] \in Blocks
    BY <1>2, <2>1, <2>2
  <2> QED
    BY <2>1, <2>2, <2>3 DEF Places, InDir
<1>4. ASSUME h \in Places, InDir(d, i, h[1]), EntryAt(d, h).num > 0
      PROVE  h \in EntriesOf(d, i)
  <2>1. h \in Blocks \X Slots /\ h[1] # 0
    BY <1>4 DEF Places, Blocks
  <2>2. h[1] \in {d.inode[i].blocks[k] : k \in 0 .. D_BLOCK}
    BY <1>4 DEF InDir
  <2>3. h \in {d.inode[i].blocks[k] : k \in 0 .. D_BLOCK} \X Slots
    BY <2>1, <2>2
  <2> QED
    BY <1>4, <2>1, <2>3 DEF EntriesOf, Slots
<1> QED
  BY <1>3, <1>4

\* Numbers of entries.
LEMMA NumType ==
  ASSUME NEW d \in Disks, NEW h \in Places
  PROVE  EntryAt(d, h).num \in Nat /\ (EntryAt(d, h).num > 0 <=> EntryAt(d, h).num # 0)
<1>1. EntryAt(d, h).num \in Inodes
  BY EntryType
<1>2. PICK x \in Nat : x = EntryAt(d, h).num
  BY <1>1 DEF Inodes
<1> QED
  BY <1>2

\* An inode that changes its pointers and nothing else gets no entry from elsewhere.
LEMMA NoNewEntry ==
  ASSUME NEW d, NEW e, Sound(d), Sound(e), NEW i \in d.i_bitmap, Kept(d, e, i), NEW h,
         h \in EntriesOf(e, i)
  PROVE  h \in EntriesOf(d, i)
<1>1. d \in Disks /\ e \in Disks /\ i \in Inodes /\ e.i_bitmap = d.i_bitmap /\ d.i_bitmap \subseteq Inodes
  BY SoundParts DEF Kept
<1>2. h \in Places /\ InDir(e, i, h[1]) /\ EntryAt(e, h).num > 0
  BY <1>1, EntriesIs
<1>3. EntryAt(d, h) = EntryAt(e, h)
  BY <1>2 DEF Kept
<1>4. EntryAt(d, h).num > 0 /\ EntryAt(d, h).num # 0
  BY <1>1, <1>2, <1>3, NumType
<1>5. PICK j \in Dirs(d) : InDir(d, j, h[1])
  BY <1>2, <1>4 DEF Sound, EntriesSound, Housed
<1>6. j \in d.i_bitmap
  BY DEF Dirs
<1>7. CASE j = i
  BY <1>1, <1>2, <1>4, <1>5, <1>7, EntriesIs
<1>8. CASE j # i
  <2>1. e.inode[j] = d.inode[j]
    BY <1>1, <1>6, <1>8 DEF Kept
  <2>2. InDir(e, j, h[1])
    BY <1>5, <2>1 DEF InDir
  <2>3. PICK k \in 0 .. D_BLOCK : Ref(e, j, k) = h[1]
    BY <2>2, InDirIs
  <2>4. PICK l \in 0 .. D_BLOCK : Ref(e, i, l) = h[1]
    BY <1>2, InDirIs
  <2>5. h[1] # 0
    BY <1>2 DEF Places, Blocks
  <2>6. k \in 0 .. FileMax /\ l \in 0 .. FileMax
    BY Sizes
  <2>7. j \in e.i_bitmap /\ i \in e.i_bitmap
    BY <1>1, <1>6
  <2>8. j = i
    BY <2>3, <2>4, <2>5, <2>6, <2>7, OneRef
  <2> QED
    BY <1>8, <2>8
<1> QED
  BY <1>7, <1>8

\* Kept works both ways.
LEMMA KeptBack ==
  ASSUME NEW d, NEW e, NEW i, Kept(d, e, i)
  PROVE  Kept(e, d, i)
BY DEF Kept

\* So nothing that can be seen changes, if what is read of that inode is the same.
LEMMA Unseen ==
  ASSUME NEW d, NEW e, Sound(d), Sound(e), NEW i \in d.i_bitmap, Kept(d, e, i),
         \A k \in 0 .. d.inode[i].size - 1 : ReadBlock(e, i, k) = ReadBlock(d, i, k)
  PROVE  Visible(e) = Visible(d)
<1>1. d \in Disks /\ e \in Disks /\ i \in Inodes /\ e.i_bitmap = d.i_bitmap /\ d.i_bitmap \subseteq Inodes
  BY SoundParts DEF Kept
<1>2. \A h : h \in EntriesOf(e, i) => h \in EntriesOf(d, i)
  BY NoNewEntry
<1>3. \A h : h \in EntriesOf(d, i) => h \in EntriesOf(e, i)
  <2>1. Kept(e, d, i) /\ i \in e.i_bitmap
    BY <1>1, KeptBack
  <2> QED
    BY <2>1, NoNewEntry
<1>4. ASSUME NEW j \in d.i_bitmap PROVE EntriesOf(e, j) = EntriesOf(d, j)
  <2>1. CASE j = i
    <3>1. EntriesOf(e, i) = EntriesOf(d, i)
      BY <1>2, <1>3
    <3> QED
      BY <2>1, <3>1
  <2>2. CASE j # i
    <3>1. j \in Inodes /\ e.inode[j] = d.inode[j]
      BY <1>1, <2>2 DEF Kept
    <3>2. ASSUME NEW h PROVE h \in EntriesOf(e, j) <=> h \in EntriesOf(d, j)
      <4>1. InDir(e, j, h[1]) <=> InDir(d, j, h[1])
        BY <3>1 DEF InDir
      <4>2. h \in Places => EntryAt(e, h) = EntryAt(d, h)
        BY DEF Kept
      <4> QED
        BY <1>1, <3>1, <4>1, <4>2, EntriesIs
    <3> QED
      BY <3>2
  <2> QED
    BY <2>1, <2>2
<1>5. ASSUME NEW j \in d.i_bitmap
      PROVE  {EntryAt(e, h) : h \in EntriesOf(e, j)} = {EntryAt(d, h) : h \in EntriesOf(d, j)}
  <2>1. \A h \in EntriesOf(d, j) : EntryAt(e, h) = EntryAt(d, h)
    <3>1. \A h \in EntriesOf(d, j) : h \in Places
      BY <1>1, EntriesIs
    <3> QED
      BY <3>1 DEF Kept
  <2> QED
    BY <1>4, <2>1
<1>6. ASSUME NEW j \in d.i_bitmap
      PROVE  e.inode[j].mode = d.inode[j].mode /\ e.inode[j].size = d.inode[j].size
  BY <1>1 DEF Kept
<1>7. ASSUME NEW j \in d.i_bitmap, NEW k \in 0 .. d.inode[j].size - 1
      PROVE  ReadBlock(e, j, k) = ReadBlock(d, j, k)
  <2>1. CASE j = i
    BY <2>1
  <2>2. CASE j # i
    <3>1. d.inode[j].size \in 0 .. FileMax
      BY <1>1, DiskType
    <3>2. k \in 0 .. FileMax - 1
      BY <3>1, Sizes
    <3> QED
      BY <2>2, <3>2 DEF Kept
  <2> QED
    BY <2>1, <2>2
<1>8. ASSUME NEW j \in d.i_bitmap
      PROVE  [k \in 0 .. e.inode[j].size - 1 |-> wfs_read(e, j, k)]
               = [k \in 0 .. d.inode[j].size - 1 |-> wfs_read(d, j, k)]
  <2>1. PICK z \in Nat : z = d.inode[j].size /\ z = e.inode[j].size
    <3>1. d.inode[j].size \in 0 .. FileMax
      BY <1>1, DiskType
    <3> QED
      BY <1>6, <3>1, Sizes
  <2>2. ASSUME NEW k \in 0 .. z - 1 PROVE wfs_read(e, j, k) = wfs_read(d, j, k)
    <3>1. ~(k >= z)
      BY <2>1
    <3>2. ReadBlock(e, j, k) = ReadBlock(d, j, k)
      BY <1>7, <2>1
    <3> QED
      BY <2>1, <3>1, <3>2 DEF wfs_read
  <2> QED
    BY <2>1, <2>2
<1> QED
  BY <1>1, <1>5, <1>6, <1>8 DEF Visible

\* A lookup that does not go astray returns -1 or an inode.
LEMMA FoundType ==
  ASSUME NEW d, Sound(d), NEW p \in Dirs(d), NEW name \in Names, NEW i, i = Found(d, p, name),
         i # Astray
  PROVE  /\ i = -1 \/ i \in Inodes
         /\ i = -1 => \A h \in Places : InDir(d, p, h[1]) => EntryAt(d, h).name # name
<1>1. p \in d.i_bitmap /\ d.i_bitmap \subseteq Inodes
  BY SoundParts DEF Dirs
<1>2. i \in d.i_bitmap \cup {-1, Astray}
  BY <1>1, FoundIs
<1>3. i = -1 => \A h \in Places : InDir(d, p, h[1]) => EntryAt(d, h).name # name
  BY <1>1, FoundIs
<1> QED
  BY <1>1, <1>2, <1>3

\* What wfs_getattr says of a path that was looked up.
LEMMA ModeIs ==
  ASSUME NEW d, Sound(d), NEW at, NEW name \in Names, at.parent \in Dirs(d),
         at.num = Found(d, at.parent, name), NEW mode \in {"file", "dir"}, wfs_getattr(d, at) = mode
  PROVE  at.num \in d.i_bitmap /\ at.num # -1 /\ d.inode[at.num].mode = mode
<1>1. PICK i : i = at.num
  OBVIOUS
<1>3. i # Astray /\ i # -1 /\ d.inode[i].mode = mode
  BY <1>1 DEF wfs_getattr
<1>2. i = -1 \/ i \in Inodes
  BY <1>1, <1>3, FoundType
<1>4. i \in Inodes /\ i # -1
  BY <1>2, <1>3
<1>5. i \in d.i_bitmap
  BY <1>3, <1>4 DEF Sound, NodesSound
<1> QED
  BY <1>1, <1>3, <1>4, <1>5

\* What an operation must achieve: the invariant, and if it fails nothing to be seen.
Fine == /\ Sound(disk') /\ WrittenThere'
        /\ ret' # "ok" => Visible(disk') = Visible(disk)

\* What the lookup has found before an operation is called.
LookedUp(at, name) ==
  /\ Sound(disk) /\ WrittenThere /\ name \in Names /\ at.parent \in Dirs(disk)
  /\ at.num = Found(disk, at.parent, name) /\ at.num # Astray

\* A directory that gets a block: the files are the same.
LEMMA KeptDir ==
  ASSUME NEW d, NEW e, Sound(d), NEW i, d.inode[i].mode = "dir", Kept(d, e, i)
  PROVE  FilesKept(d, e, {})
<1>1. ASSUME NEW j \in Inodes, d.inode[j].mode = "file"
      PROVE  /\ e.inode[j].mode = "file" /\ e.inode[j].size = d.inode[j].size
             /\ \A k \in 0 .. FileMax - 1 : ReadBlock(e, j, k) = ReadBlock(d, j, k)
  <2>1. j # i /\ j \in d.i_bitmap
    BY <1>1 DEF Sound, NodesSound
  <2> QED
    BY <1>1, <2>1 DEF Kept
<1> QED
  BY <1>1 DEF FilesKept

\* What is remembered of the files stays true when an operation keeps all of them.
LEMMA AllThere ==
  ASSUME WrittenThere, FilesKept(disk, disk', {}), UNCHANGED <<wrote, skipped>>
  PROVE  WrittenThere'
<1>1. PICK T \in SUBSET Inodes : T = {}
  OBVIOUS
<1>2. /\ wrote' \in [Inodes -> [0 .. FileMax - 1 -> {0} \cup Values]]
      /\ \A i \in Inodes \ T : wrote'[i] = wrote[i]
      /\ skipped' = skipped \ T
      /\ \A i \in T, k \in 0 .. FileMax - 1 : wrote'[i][k] = 0
  BY <1>1 DEF WrittenThere
<1>3. FilesKept(disk, disk', T)
  BY <1>1
<1> QED
  BY <1>2, <1>3, StillThere

\* An operation that does nothing to the disk.
LEMMA SameDisk ==
  ASSUME Sound(disk), WrittenThere, disk' = disk, UNCHANGED <<wrote, skipped>>
  PROVE  Fine
<1>1. FilesKept(disk, disk', {})
  BY DEF FilesKept
<1> QED
  BY <1>1, AllThere DEF Fine

\* mknod and mkdir.
LEMMA MakeStep ==
  ASSUME NEW at, NEW name, LookedUp(at, name), NEW mode \in {"file", "dir"}, Make(at, name, mode)
  PROVE  Fine /\ early' = early
<1>0. /\ Sound(disk) /\ WrittenThere /\ name \in Names /\ at.parent \in Dirs(disk)
      /\ at.num = Found(disk, at.parent, name) /\ at.num # Astray
  BY DEF LookedUp
<1>1. PICK r : r = MakeNode(disk, at, name, mode)
  OBVIOUS
<1>2. disk' = r.d /\ ret' = r.ret /\ UNCHANGED <<wrote, skipped>> /\ early' = early
  BY <1>1 DEF Make
<1>3. CASE at.num # -1
  <2>1. r = [d |-> disk, ret |-> "EEXIST"]
    BY <1>1, <1>3 DEF MakeNode
  <2>2. disk' = disk
    BY <1>2, <2>1
  <2> QED
    BY <1>0, <1>2, <2>2, SameDisk
<1>4. CASE at.num = -1
  <2>1. PICK p : p = at.parent
    OBVIOUS
  <2>2. p \in Dirs(disk) /\ \A h \in Places : InDir(disk, p, h[1]) => EntryAt(disk, h).name # name
    <3>1. Found(disk, p, name) = -1 /\ p \in Dirs(disk)
      BY <1>0, <1>4, <2>1
    <3>2. p \in disk.i_bitmap
      BY <3>1 DEF Dirs
    <3> QED
      BY <1>0, <3>1, <3>2, FoundIs
  <2>3. PICK s : s = MakeLoop(disk, p, name, mode)
    OBVIOUS
  <2>4. s \in Making(disk, p)
    BY <1>0, <2>2, <2>3, NodeMade
  <2>5. r = IF s.ret = "-" THEN [s EXCEPT !.ret = "ENOSPC"] ELSE s
    <3>1. MakeNode(disk, at, name, mode)
            = IF MakeLoop(disk, at.parent, name, mode).ret = "-"
              THEN [MakeLoop(disk, at.parent, name, mode) EXCEPT !.ret = "ENOSPC"]
              ELSE MakeLoop(disk, at.parent, name, mode)
      BY <1>4 DEF MakeNode, MakeLoop, Loop
    <3> QED
      BY <1>1, <2>1, <2>3, <3>1
  <2>6. /\ s \in [d : Disks, ret : {"-", "ok", "ENOSPC"}]
        /\ \/ s.ret = "-" /\ s.d = disk
           \/ /\ s.ret = "ENOSPC"
              /\ \/ s.d = disk
                 \/ \E k \in 0 .. D_BLOCK, b \in Blocks \ disk.d_bitmap :
                      Ref(disk, p, k) = 0 /\ s.d = GiveBlock(disk, p, k, b)
           \/ s.ret = "ok" /\ Sound(s.d) /\ FilesKept(disk, s.d, {})
    BY <2>4 DEF Making
  <2>7. r.d = s.d /\ (s.ret = "ok" => r.ret = "ok")
    BY <2>5, <2>6
  <2>8. CASE s.d = disk
    BY <1>0, <1>2, <2>7, <2>8, SameDisk
  <2>9. CASE s.ret = "ok" /\ Sound(s.d) /\ FilesKept(disk, s.d, {})
    <3>1. ret' = "ok" /\ Sound(disk') /\ FilesKept(disk, disk', {})
      BY <1>2, <2>7, <2>9
    <3> QED
      BY <1>0, <1>2, <3>1, AllThere DEF Fine
  <2>10. CASE \E k \in 0 .. D_BLOCK, b \in Blocks \ disk.d_bitmap :
                Ref(disk, p, k) = 0 /\ s.d = GiveBlock(disk, p, k, b)
    <3>1. PICK k \in 0 .. D_BLOCK, b \in Blocks \ disk.d_bitmap :
            Ref(disk, p, k) = 0 /\ s.d = GiveBlock(disk, p, k, b)
      BY <2>10
    <3>2. PICK e : e = disk'
      OBVIOUS
    <3>3. e = GiveBlock(disk, p, k, b)
      BY <1>2, <2>7, <3>1, <3>2
    <3>4. k \in 0 .. IND_BLOCK
      BY Sizes
    <3>5. p \in disk.i_bitmap /\ disk.inode[p].mode = "dir"
      BY <2>2 DEF Dirs
    <3>6. Sound(e) /\ Kept(disk, e, p)
      BY <1>0, <3>1, <3>3, <3>4, <3>5, Given
    <3>7. FilesKept(disk, e, {})
      BY <1>0, <3>5, <3>6, KeptDir
    <3>8. WrittenThere'
      BY <1>0, <1>2, <3>2, <3>7, AllThere
    <3>9. \A l \in 0 .. disk.inode[p].size - 1 : ReadBlock(e, p, l) = ReadBlock(disk, p, l)
      <4>1. p \in Inodes
        BY <1>0, <3>5, SoundParts
      <4>2. disk.inode[p].size = 0
        BY <1>0, <3>5, <4>1 DEF Sound, NodesSound
      <4> QED
        BY <4>2
    <3>10. Visible(e) = Visible(disk)
      BY <1>0, <3>5, <3>6, <3>9, Unseen
    <3> QED
      BY <1>2, <3>2, <3>6, <3>8, <3>10 DEF Fine
  <2> QED
    BY <2>6, <2>8, <2>9, <2>10
<1> QED
  BY <1>3, <1>4

\* unlink.
LEMMA UnlinkStep ==
  ASSUME NEW at, NEW name, LookedUp(at, name), wfs_unlink(at, name)
  PROVE  Fine /\ early' = early
<1>0. /\ Sound(disk) /\ WrittenThere /\ name \in Names /\ at.parent \in Dirs(disk)
      /\ at.num = Found(disk, at.parent, name) /\ at.num # Astray
  BY DEF LookedUp
<1>1. /\ wfs_getattr(disk, at) = "file" /\ disk' = Unlinked(disk, at, name) /\ ret' = "ok"
      /\ wrote' = [wrote EXCEPT ![at.num] = [k \in 0 .. FileMax - 1 |-> 0]]
      /\ skipped' = skipped \ {at.num} /\ early' = early
  BY DEF wfs_unlink
<1>2. Sound(disk') /\ FilesKept(disk, disk', {at.num})
  BY <1>0, <1>1, UnlinkSound
<1>3. PICK i : i = at.num
  OBVIOUS
<1>4. i \in Inodes
  <2>1. "file" \in {"file", "dir"}
    OBVIOUS
  <2>2. i \in disk.i_bitmap
    BY <1>0, <1>1, <1>3, <2>1, ModeIs
  <2> QED
    BY <1>0, <2>2, SoundParts
<1>5. PICK f : f = [k \in 0 .. FileMax - 1 |-> 0]
  OBVIOUS
<1>6. /\ f \in [0 .. FileMax - 1 -> {0} \cup Values]
      /\ \A k \in 0 .. FileMax - 1 : f[k] = 0
  BY <1>5
<1>7. wrote \in [Inodes -> [0 .. FileMax - 1 -> {0} \cup Values]] /\ wrote' = [wrote EXCEPT ![i] = f]
  BY <1>0, <1>1, <1>3, <1>5 DEF WrittenThere
<1>8. PICK T \in SUBSET Inodes : T = {i}
  BY <1>4
<1>9. /\ wrote' \in [Inodes -> [0 .. FileMax - 1 -> {0} \cup Values]]
      /\ \A j \in Inodes \ T : wrote'[j] = wrote[j]
      /\ \A j \in T, k \in 0 .. FileMax - 1 : wrote'[j][k] = 0
  BY <1>4, <1>6, <1>7, <1>8
<1>10. FilesKept(disk, disk', T) /\ skipped' = skipped \ T
  BY <1>1, <1>2, <1>3, <1>8
<1>11. WrittenThere'
  BY <1>0, <1>9, <1>10, StillThere
<1> QED
  BY <1>1, <1>2, <1>11 DEF Fine

\* rmdir.
LEMMA RmdirStep ==
  ASSUME NEW at, NEW name, LookedUp(at, name), early = FALSE, wfs_rmdir(at, name)
  PROVE  early' \in BOOLEAN /\ (early' \/ Fine)
<1>0. /\ Sound(disk) /\ WrittenThere /\ name \in Names /\ at.parent \in Dirs(disk)
      /\ at.num = Found(disk, at.parent, name) /\ at.num # Astray
  BY DEF LookedUp
<1>1. PICK r : r = EmptyDir(disk, at.num)
  OBVIOUS
<1>2. /\ wfs_getattr(disk, at) = "dir" /\ ret' = r.ret
      /\ disk' = IF r.ret # "ok" THEN r.d
                 ELSE RemoveInode(RemoveEntry(r.d, at.parent, name), at.num)
      /\ early' = (early \/ (r.ret # "ok" /\ r.d # disk))
      /\ UNCHANGED <<wrote, skipped>>
  BY <1>1 DEF wfs_rmdir
<1>3. early' = (r.ret # "ok" /\ r.d # disk)
  BY <1>2
<1>4. CASE r.ret # "ok" /\ r.d # disk
  BY <1>3, <1>4
<1>5. CASE r.ret # "ok" /\ r.d = disk
  <2>1. disk' = disk
    BY <1>2, <1>5
  <2>2. Fine
    BY <1>0, <1>2, <2>1, SameDisk
  <2> QED
    BY <1>3, <2>2
<1>6. CASE r.ret = "ok"
  <2>1. PICK i : i = at.num
    OBVIOUS
  <2>2. PICK p : p = at.parent
    OBVIOUS
  <2>3. i # -1 /\ i # Astray /\ disk.inode[i].mode = "dir"
    <3>1. "dir" \in {"file", "dir"}
      OBVIOUS
    <3> QED
      BY <1>0, <1>2, <2>1, <3>1, ModeIs
  <2>4. PICK e : e = disk'
    OBVIOUS
  <2>5. /\ EmptyDir(disk, i).ret = "ok"
        /\ e = RemoveInode(RemoveEntry(EmptyDir(disk, i).d, p, name), i)
    BY <1>1, <1>2, <1>6, <2>1, <2>2, <2>4
  <2>6. p \in Dirs(disk) /\ i = Found(disk, p, name)
    BY <1>0, <2>1, <2>2
  <2>7. Sound(e) /\ FilesKept(disk, e, {})
    BY <1>0, <2>3, <2>5, <2>6, RmdirSound
  <2>8. WrittenThere'
    BY <1>0, <1>2, <2>4, <2>7, AllThere
  <2>9. Fine
    BY <1>2, <1>6, <2>4, <2>7, <2>8 DEF Fine
  <2> QED
    BY <1>3, <2>9
<1> QED
  BY <1>4, <1>5, <1>6

\* write.
LEMMA WriteStep ==
  ASSUME NEW at, NEW name, LookedUp(at, name), wfs_getattr(disk, at) = "file",
         NEW off \in 0 .. FileMax, NEW n \in 1 .. MaxWrite, NEW v \in Values, wfs_write(at, off, n, v)
  PROVE  Fine /\ early' = early
<1>0. /\ Sound(disk) /\ WrittenThere /\ name \in Names /\ at.parent \in Dirs(disk)
      /\ at.num = Found(disk, at.parent, name) /\ at.num # Astray
  BY DEF LookedUp
<1>1. PICK i : i = at.num
  OBVIOUS
<1>2. i \in disk.i_bitmap /\ disk.inode[i].mode = "file"
  <2>1. "file" \in {"file", "dir"}
    OBVIOUS
  <2> QED
    BY <1>0, <1>1, <2>1, ModeIs
<1>3. PICK w : w = WriteBlocks(disk, i, off, n, v)
  OBVIOUS
<1>4. PICK s : s = w.done
  OBVIOUS
<1>5. /\ disk' = Grow(w, i, off, n) /\ ret' = (IF s > 0 THEN "ok" ELSE "ENOSPC")
      /\ wrote' = [wrote EXCEPT ![i] = Overwrite(@, off, off + s, v)]
      /\ skipped' = IF off + s > Max({off, IND_BLOCK}) + 1 THEN skipped \cup {i} ELSE skipped
      /\ early' = early
  <2>1. /\ disk' = Grow(WriteBlocks(disk, at.num, off, n, v), at.num, off, n)
        /\ ret' = (IF WriteBlocks(disk, at.num, off, n, v).done > 0 THEN "ok" ELSE "ENOSPC")
        /\ early' = early
    BY DEF wfs_write
  <2>2. wrote' = [wrote EXCEPT ![at.num] =
                    Overwrite(@, off, off + WriteBlocks(disk, at.num, off, n, v).done, v)]
    BY DEF wfs_write
  <2>3. skipped' = IF off + WriteBlocks(disk, at.num, off, n, v).done > Max({off, IND_BLOCK}) + 1
                   THEN skipped \cup {at.num} ELSE skipped
    BY DEF wfs_write
  <2> QED
    BY <1>1, <1>3, <1>4, <2>1, <2>2, <2>3
<1>6. Wrote(disk, disk', i, off, s, v)
  <2>1. n \in Nat
    <3>1. MaxWrite \in Nat
      BY WFSAssumption
    <3> QED
      BY <3>1
  <2>2. PICK e : e = disk'
    OBVIOUS
  <2>3. Wrote(disk, e, i, off, w.done, v)
    BY <1>0, <1>2, <1>3, <1>5, <2>1, <2>2, WriteSound
  <2> QED
    BY <1>4, <2>2, <2>3
<1>7. WrittenThere'
  BY <1>0, <1>2, <1>5, <1>6, WrittenTo
<1>8. Sound(disk') /\ s \in Nat
  BY <1>6 DEF Wrote
<1>9. ASSUME ret' # "ok" PROVE Visible(disk') = Visible(disk)
  <2>1. s = 0
    BY <1>5, <1>8, <1>9
  <2>2. PICK e : e = disk'
    OBVIOUS
  <2>3. Kept(disk, e, i)
    BY <1>6, <2>1, <2>2 DEF Wrote
  <2>4. PICK t \in Nat : t = Max({off, IND_BLOCK}) /\ t >= off
    <3>1. off \in Nat
      BY Sizes
    <3> QED
      BY <3>1, TopIs
  <2>5. off + s <= t + 1
    BY <2>1, <2>4, Sizes
  <2>6. Holds(disk, e, i, off, s, v)
    BY <1>6, <2>2, <2>4, <2>5 DEF Wrote
  <2>7. \A k \in 0 .. FileMax - 1 : ReadBlock(e, i, k) = ReadBlock(disk, i, k)
    <3>1. \A k : ~(k \in off .. off + s - 1)
      BY <2>1, Sizes
    <3> QED
      BY <2>6, <3>1 DEF Holds
  <2>8. disk.inode[i].size \in 0 .. FileMax
    BY <1>0, <1>2, SoundParts, DiskType
  <2>9. \A k \in 0 .. disk.inode[i].size - 1 : ReadBlock(e, i, k) = ReadBlock(disk, i, k)
    BY <2>7, <2>8, Sizes
  <2>10. Sound(e)
    BY <1>8, <2>2
  <2>11. Visible(e) = Visible(disk)
    BY <1>0, <1>2, <2>3, <2>9, <2>10, Unseen
  <2> QED
    BY <2>2, <2>11
<1> QED
  BY <1>5, <1>7, <1>8, <1>9 DEF Fine

\* Every operation.
LEMMA OperationStep ==
  ASSUME Sound(disk), WrittenThere, early = FALSE, NEW path \in Paths, Operation(path)
  PROVE  early' \in BOOLEAN /\ (early' \/ Fine)
<1>1. PICK at : at = find_inode_number_by_path(disk, path)
  OBVIOUS
<1>2. PICK name : name = path[Len(path)]
  OBVIOUS
<1>3. /\ Reachable(disk, path)
      /\ \/ Stray(at)
         \/ at.num # Astray /\ (wfs_mknod(at, name) \/ wfs_mkdir(at, name))
         \/ wfs_unlink(at, name) \/ wfs_rmdir(at, name)
         \/ /\ wfs_getattr(disk, at) = "file"
            /\ \E off \in Offsets, n \in 1 .. MaxWrite, v \in Values :
                 wfs_write(at, off, n, v)
  BY <1>1, <1>2 DEF Operation
<1>10. CASE Stray(at)
  <2>1. disk' = disk /\ UNCHANGED <<wrote, skipped>> /\ early' = early
    BY <1>10 DEF Stray
  <2>2. Fine
    BY <2>1, SameDisk
  <2> QED
    BY <2>1, <2>2
<1>11. CASE ~Stray(at)
  <2>0. at.num # Astray
    <3>1. wfs_getattr(disk, at) \in {"file", "dir"} => at.num # Astray
      BY DEF wfs_getattr
    <3>2. wfs_unlink(at, name) \/ wfs_rmdir(at, name) => wfs_getattr(disk, at) \in {"file", "dir"}
      BY DEF wfs_unlink, wfs_rmdir
    <3> QED
      BY <1>3, <1>11, <3>1, <3>2
  <2>4. LookedUp(at, name)
    <3>1. name \in Names /\ at.parent \in Dirs(disk) /\ at.num = Found(disk, at.parent, name)
      BY <1>1, <1>2, <1>3, <2>0, LookupSpec
    <3> QED
      BY <2>0, <3>1 DEF LookedUp
  <2>5. CASE wfs_mknod(at, name)
    <3>1. Make(at, name, "file") /\ "file" \in {"file", "dir"}
      BY <2>5 DEF wfs_mknod
    <3> QED
      BY <2>4, <3>1, MakeStep
  <2>6. CASE wfs_mkdir(at, name)
    <3>1. Make(at, name, "dir") /\ "dir" \in {"file", "dir"}
      BY <2>6 DEF wfs_mkdir
    <3> QED
      BY <2>4, <3>1, MakeStep
  <2>7. CASE wfs_unlink(at, name)
    BY <2>4, <2>7, UnlinkStep
  <2>8. CASE wfs_rmdir(at, name)
    BY <2>4, <2>8, RmdirStep
  <2>9. CASE /\ wfs_getattr(disk, at) = "file"
             /\ \E off \in Offsets, n \in 1 .. MaxWrite, v \in Values :
                  wfs_write(at, off, n, v)
    <3>1. Offsets \subseteq 0 .. FileMax
      BY WFSAssumption
    <3>2. PICK off \in 0 .. FileMax, n \in 1 .. MaxWrite, v \in Values : wfs_write(at, off, n, v)
      BY <2>9, <3>1
    <3>3. wfs_getattr(disk, at) = "file"
      BY <2>9
    <3> QED
      BY <2>4, <3>2, <3>3, WriteStep
  <2> QED
    BY <1>3, <1>11, <2>5, <2>6, <2>7, <2>8, <2>9
<1> QED
  BY <1>10, <1>11

\* What mkfs makes is sound.
LEMMA MadeSound ==
  ASSUME Init
  PROVE  IInv
<1>1. /\ disk.i_bitmap = {0} /\ disk.d_bitmap = {}
      /\ disk.inode = [i \in Inodes |-> IF i = 0 THEN [ZeroInode EXCEPT !.mode = "dir"] ELSE ZeroInode]
      /\ disk.block = [b \in Blocks |-> ZeroBlock]
  BY DEF Init
<1>2. PICK x : x = [ZeroInode EXCEPT !.mode = "dir"]
  OBVIOUS
<1>3. /\ x \in InodeRecs /\ x.mode = "dir" /\ x.size = 0 /\ \A k \in 0 .. IND_BLOCK : x.blocks[k] = 0
      /\ ZeroInode.mode = "none"
  <2>1. ZeroInode \in InodeRecs /\ ZeroInode.size = 0 /\ \A k \in 0 .. IND_BLOCK : ZeroInode.blocks[k] = 0
    BY ZeroTypes
  <2>2. ZeroInode.mode = "none"
    BY DEF ZeroInode
  <2> QED
    BY <1>2, <2>1, <2>2 DEF InodeRecs
<1>4. 0 \in Inodes
  BY Sizes DEF Inodes
<1>5. /\ disk.inode \in [Inodes -> InodeRecs]
      /\ disk.inode[0] = x /\ \A i \in Inodes \ {0} : disk.inode[i] = ZeroInode
  BY ZenonT(60), <1>1, <1>2, <1>3, <1>4, ZeroTypes
<1>6. disk.block \in [Blocks -> BlockRecs] /\ \A b \in Blocks : disk.block[b] = ZeroBlock
  BY <1>1, ZeroTypes
<1>7. disk \in Disks
  BY <1>1, <1>4, <1>5, <1>6 DEF Init, Disks
<1>8. \A i \in Inodes, k \in 0 .. FileMax : Ref(disk, i, k) = 0
  <2>1. ASSUME NEW i \in Inodes, NEW k \in 0 .. FileMax PROVE Ref(disk, i, k) = 0
    <3>1. \A l \in 0 .. IND_BLOCK : disk.inode[i].blocks[l] = 0
      BY <1>3, <1>5, ZeroTypes
    <3>2. IND_BLOCK \in 0 .. IND_BLOCK /\ IND_BLOCK \in 0 .. FileMax /\ (k <= IND_BLOCK => k \in 0 .. IND_BLOCK)
      BY Sizes
    <3>3. Ref(disk, i, IND_BLOCK) = 0
      BY <1>7, <3>1, <3>2, Sizes, RefType
    <3>4. k <= IND_BLOCK \/ k > IND_BLOCK
      BY Sizes
    <3> QED
      BY <1>7, <3>1, <3>2, <3>3, <3>4, RefType
  <2> QED
    BY <2>1
<1>9. \A h \in Places : EntryAt(disk, h) = NoEntry
  <2>1. ASSUME NEW h \in Places PROVE EntryAt(disk, h) = NoEntry
    <3>1. h[1] \in Blocks /\ h[2] \in Slots
      BY DEF Places
    <3> QED
      BY <1>6, <3>1, ZeroTypes DEF EntryAt
  <2> QED
    BY <2>1
<1>10. \A h \in Places : EntryAt(disk, h).num = 0 /\ EntryAt(disk, h).name = ""
  BY <1>9, ZeroTypes
<1>11. Space(disk)
  BY <1>1, <1>4, <1>6, <1>8 DEF Space, Marked, Once, FreeIsZero
<1>12. NodesSound(disk)
  BY <1>1, <1>3, <1>5 DEF NodesSound
<1>13. EntriesSound(disk)
  <2>1. NumNamed(disk) /\ Housed(disk) /\ NumOnce(disk) /\ NameOnce(disk)
    BY <1>10 DEF NumNamed, Housed, NumOnce, NameOnce
  <2>2. Linked(disk)
    BY <1>1 DEF Linked
  <2> QED
    BY <2>1, <2>2 DEF EntriesSound
<1>14. WrittenThere
  <2>1. wrote = [i \in Inodes |-> [k \in 0 .. FileMax - 1 |-> 0]] /\ skipped = {}
    BY DEF Init
  <2>2. PICK f : f = [k \in 0 .. FileMax - 1 |-> 0]
    OBVIOUS
  <2>3. f \in [0 .. FileMax - 1 -> {0} \cup Values] /\ \A k \in 0 .. FileMax - 1 : f[k] = 0
    BY <2>2
  <2>4. wrote \in [Inodes -> [0 .. FileMax - 1 -> {0} \cup Values]] /\ \A i \in Inodes : wrote[i] = f
    BY <2>1, <2>2, <2>3
  <2> QED
    BY <2>1, <2>3, <2>4 DEF WrittenThere
<1> QED
  BY <1>7, <1>11, <1>12, <1>13, <1>14 DEF IInv, Sound, Init

\* A step keeps the invariant, and if it returns an error nothing to be seen changes.
LEMMA StepFine ==
  ASSUME IInv, [Next]_vars
  PROVE  IInv' /\ (UNCHANGED vars \/ early' \/ (ret' # "ok" => Visible(disk') = Visible(disk)))
<1>1. ASSUME UNCHANGED vars
      PROVE  IInv' /\ (UNCHANGED vars \/ early' \/ (ret' # "ok" => Visible(disk') = Visible(disk)))
  <2>1. IInv'
    BY <1>1 DEF IInv, vars, WrittenThere
  <2> QED
    BY <1>1, <2>1
<1>2. CASE Next
  <2>1. CASE UNCHANGED vars
    BY <1>1, <2>1
  <2>2. CASE ~early /\ \E path \in Paths : Operation(path)
    <3>1. PICK path \in Paths : Operation(path)
      BY <2>2
    <3>2. Sound(disk) /\ WrittenThere /\ early = FALSE
      BY <2>2 DEF IInv
    <3>3. early' \in BOOLEAN /\ (early' \/ Fine)
      BY <3>1, <3>2, OperationStep
    <3> QED
      BY <3>3 DEF Fine, IInv
  <2> QED
    BY <1>2, <2>1, <2>2 DEF Next
<1> QED
  BY <1>1, <1>2

\* The disk is sound, and remembers what was written to it, until an rmdir fails early.
THEOREM Invariant == Spec => []IInv
<1>1. Init => IInv
  BY MadeSound
<1>2. IInv /\ [Next]_vars => IInv'
  BY StepFine
<1> QED
  BY <1>1, <1>2, PTL DEF Spec

-----------------------------------------------------------------------------
(* What follows from the invariant *)

\* The function Refs, in terms of Ref.
LEMMA RefsIs ==
  ASSUME NEW d, NEW q, q \in DOMAIN Refs(d)
  PROVE  /\ q[1] \in d.i_bitmap /\ q[2] \in 0 .. FileMax /\ q = <<q[1], q[2]>>
         /\ Refs(d)[q] = Ref(d, q[1], q[2]) /\ Ref(d, q[1], q[2]) # 0
<1>1. /\ q \in d.i_bitmap \X (0 .. FileMax)
      /\ \/ q[2] <= IND_BLOCK /\ d.inode[q[1]].blocks[q[2]] # 0
         \/ q[2] > IND_BLOCK /\ Pointer(d, q[1], q[2] - 1) # 0
  BY DEF Refs
<1>2. q[1] \in d.i_bitmap /\ q[2] \in 0 .. FileMax /\ q = <<q[1], q[2]>>
  BY <1>1
<1>3. Refs(d)[q] = Ref(d, q[1], q[2])
  BY DEF Refs, Ref
<1>4. Ref(d, q[1], q[2]) # 0
  <2>1. CASE q[2] <= IND_BLOCK /\ d.inode[q[1]].blocks[q[2]] # 0
    BY <2>1 DEF Ref
  <2>2. CASE q[2] > IND_BLOCK /\ Pointer(d, q[1], q[2] - 1) # 0
    <3>1. ~(q[2] <= IND_BLOCK)
      BY <1>2, <2>2, Sizes
    <3> QED
      BY <2>2, <3>1 DEF Ref
  <2> QED
    BY <1>1, <2>1, <2>2
<1> QED
  BY <1>2, <1>3, <1>4

\* Bitmaps and pointers agree.
LEMMA SpaceFollows ==
  ASSUME IInv
  PROVE  SpaceSound
<1>1. CASE early
  BY <1>1 DEF SpaceSound
<1>2. CASE ~early
  <2>1. Sound(disk)
    BY <1>2 DEF IInv
  <2>2. ASSUME NEW r \in DOMAIN Refs(disk) PROVE Refs(disk)[r] \in disk.d_bitmap
    BY <2>1, RefsIs, SoundParts
  <2>3. ASSUME NEW r \in DOMAIN Refs(disk), NEW s \in DOMAIN Refs(disk), Refs(disk)[r] = Refs(disk)[s]
        PROVE  r = s
    <3>1. /\ r[1] \in disk.i_bitmap /\ r[2] \in 0 .. FileMax /\ r = <<r[1], r[2]>>
          /\ s[1] \in disk.i_bitmap /\ s[2] \in 0 .. FileMax /\ s = <<s[1], s[2]>>
          /\ Ref(disk, r[1], r[2]) # 0 /\ Ref(disk, r[1], r[2]) = Ref(disk, s[1], s[2])
      BY <2>3, RefsIs
    <3>2. r[1] = s[1] /\ r[2] = s[2]
      BY <2>1, <3>1, OneRef
    <3> QED
      BY <3>1, <3>2
  <2>4. \A b \in Blocks \ disk.d_bitmap : disk.block[b] = ZeroBlock
    BY <2>1, SoundParts
  <2> QED
    BY <2>2, <2>3, <2>4 DEF SpaceSound
<1> QED
  BY <1>1, <1>2

\* The entries in use of all directories are those in use on the disk.
LEMMA EntriesAre ==
  ASSUME NEW d, Sound(d), NEW h
  PROVE  h \in Entries(d) <=> h \in Places /\ EntryAt(d, h).num # 0
<1>1. d \in Disks /\ Dirs(d) \subseteq Inodes /\ Housed(d)
  BY SoundParts DEF Dirs
<1>2. ASSUME h \in Entries(d) PROVE h \in Places /\ EntryAt(d, h).num # 0
  <2>1. PICK i \in Dirs(d) : h \in EntriesOf(d, i)
    BY <1>2 DEF Entries
  <2>2. i \in Inodes
    BY <1>1
  <2>3. h \in Places /\ EntryAt(d, h).num > 0
    BY <1>1, <2>1, <2>2, EntriesIs
  <2> QED
    BY <1>1, <2>3, NumType
<1>3. ASSUME h \in Places, EntryAt(d, h).num # 0 PROVE h \in Entries(d)
  <2>1. PICK i \in Dirs(d) : InDir(d, i, h[1])
    BY <1>1, <1>3 DEF Housed
  <2>2. EntryAt(d, h).num > 0 /\ i \in Inodes
    BY <1>1, <1>3, NumType
  <2>3. h \in EntriesOf(d, i)
    BY <1>1, <1>3, <2>1, <2>2, EntriesIs
  <2> QED
    BY <2>3 DEF Entries
<1> QED
  BY <1>2, <1>3

\* Entries and inodes in use correspond one to one.
LEMMA EntriesCount ==
  ASSUME NEW d, Sound(d)
  PROVE  /\ {EntryAt(d, h).num : h \in Entries(d)} = d.i_bitmap \ {0}
         /\ IsFiniteSet(Entries(d)) /\ Cardinality(Entries(d)) = Cardinality(d.i_bitmap) - 1
<1>1. d \in Disks /\ d.i_bitmap \subseteq Inodes /\ NodesSound(d) /\ Housed(d) /\ NumOnce(d) /\ Linked(d)
  BY SoundParts
<1>2. PICK E : E = Entries(d)
  OBVIOUS
<1>3. \A h : h \in E <=> h \in Places /\ EntryAt(d, h).num # 0
  BY <1>2, EntriesAre
<1>4. PICK N : N = d.i_bitmap \ {0}
  OBVIOUS
<1>5. \A h \in E : EntryAt(d, h).num \in N
  BY <1>1, <1>3, <1>4 DEF Housed
<1>6. \A i \in N : \E h \in E : EntryAt(d, h).num = i
  <2>1. ASSUME NEW i \in N PROVE \E h \in E : EntryAt(d, h).num = i
    <3>1. i \in d.i_bitmap \ {0} /\ i # 0
      BY <1>4
    <3>2. PICK h \in Places : EntryAt(d, h).num = i
      BY <1>1, <3>1 DEF Linked
    <3> QED
      BY <1>3, <3>1, <3>2
  <2> QED
    BY <2>1
<1>7. \A g, h \in E : EntryAt(d, g).num = EntryAt(d, h).num => g = h
  BY <1>1, <1>3 DEF NumOnce
<1>8. {EntryAt(d, h).num : h \in E} = N
  BY <1>5, <1>6
<1>9. IsFiniteSet(d.i_bitmap)
  <2>1. IsFiniteSet(Inodes)
    <3>1. 0 \in Int /\ NI - 1 \in Int
      BY Sizes
    <3> QED
      BY <3>1, FS_Interval DEF Inodes
  <2> QED
    BY <1>1, <2>1, FS_Subset
<1>10. IsFiniteSet(N) /\ Cardinality(N) = Cardinality(d.i_bitmap) - 1
  <2>1. 0 \in d.i_bitmap
    BY <1>1 DEF NodesSound
  <2> QED
    BY <1>4, <1>9, <2>1, FS_RemoveElement
<1>11. PICK f : f = [h \in E |-> EntryAt(d, h).num]
  OBVIOUS
<1>12. f \in [E -> N] /\ \A h \in E : f[h] = EntryAt(d, h).num
  BY <1>5, <1>11
<1>13. f \in Injection(E, N)
  BY <1>7, <1>12 DEF Injection, IsInjective
<1>14. f \in Surjection(E, N)
  BY <1>6, <1>12 DEF Surjection
<1>15. IsFiniteSet(E) /\ Cardinality(E) = Cardinality(N)
  BY <1>10, <1>13, <1>14, FS_Injection
<1> QED
  BY <1>2, <1>4, <1>8, <1>10, <1>15

\* A directory has no name twice.
LEMMA NamesCount ==
  ASSUME NEW d, Sound(d), NEW i \in Dirs(d)
  PROVE  Cardinality(wfs_readdir(d, i)) = Cardinality(EntriesOf(d, i))
<1>1. d \in Disks /\ d.i_bitmap \subseteq Inodes /\ NameOnce(d) /\ i \in Inodes
  BY SoundParts DEF Dirs
<1>2. PICK E : E = EntriesOf(d, i)
  OBVIOUS
<1>3. \A h \in E : h \in Places /\ InDir(d, i, h[1]) /\ EntryAt(d, h).num # 0
  <2>1. \A h \in E : h \in Places /\ InDir(d, i, h[1]) /\ EntryAt(d, h).num > 0
    BY <1>1, <1>2, EntriesIs
  <2> QED
    BY <1>1, <2>1, NumType
<1>4. IsFiniteSet(E)
  <2>1. E \subseteq Entries(d)
    BY <1>2 DEF Entries
  <2>2. IsFiniteSet(Entries(d))
    BY EntriesCount
  <2> QED
    BY <2>1, <2>2, FS_Subset
<1>5. PICK N : N = {EntryAt(d, h).name : h \in E}
  OBVIOUS
<1>6. PICK f : f = [h \in E |-> EntryAt(d, h).name]
  OBVIOUS
<1>7. f \in [E -> N] /\ \A h \in E : f[h] = EntryAt(d, h).name
  BY <1>5, <1>6
<1>8. f \in Surjection(E, N)
  <2>1. \A x \in N : \E h \in E : f[h] = x
    BY <1>5, <1>7
  <2> QED
    BY <1>7, <2>1 DEF Surjection
<1>9. f \in Injection(E, N)
  <2>1. \A g, h \in E : f[g] = f[h] => g = h
    BY <1>1, <1>3, <1>7 DEF NameOnce
  <2> QED
    BY <1>7, <2>1 DEF Injection, IsInjective
<1>10. Cardinality(N) = Cardinality(E)
  BY <1>4, <1>8, <1>9, FS_Surjection
<1>11. wfs_readdir(d, i) = N
  BY <1>2, <1>5 DEF wfs_readdir
<1> QED
  BY <1>2, <1>10, <1>11

\* The tree is sound.
LEMMA TreeFollows ==
  ASSUME IInv
  PROVE  TreeSound
<1>1. CASE early
  BY <1>1 DEF TreeSound
<1>2. CASE ~early
  <2>1. Sound(disk)
    BY <1>2 DEF IInv
  <2>2. /\ {EntryAt(disk, h).num : h \in Entries(disk)} = disk.i_bitmap \ {0}
        /\ Cardinality(Entries(disk)) = Cardinality(disk.i_bitmap) - 1
    BY <2>1, EntriesCount
  <2>3. \A i \in Dirs(disk) : Cardinality(wfs_readdir(disk, i)) = Cardinality(EntriesOf(disk, i))
    BY <2>1, NamesCount
  <2>4. \A i \in Inodes : i \in disk.i_bitmap <=> disk.inode[i].mode # "none"
    BY <2>1 DEF Sound, NodesSound
  <2> QED
    BY <2>2, <2>3, <2>4 DEF TreeSound
<1> QED
  BY <1>1, <1>2

\* What was written is read.
LEMMA ReadFollows ==
  ASSUME IInv
  PROVE  ReadBack
<1>1. CASE early
  BY <1>1 DEF ReadBack
<1>2. CASE ~early
  <2>1. Sound(disk) /\ WrittenThere
    BY <1>2 DEF IInv
  <2>2. disk.i_bitmap \subseteq Inodes
    BY <2>1, SoundParts
  <2>3. ASSUME NEW i \in disk.i_bitmap \ skipped, NEW k \in 0 .. FileMax - 1, wrote[i][k] # 0
        PROVE  wfs_read(disk, i, k) = wrote[i][k]
    <3>1. ReadBlock(disk, i, k) = wrote[i][k] /\ k < disk.inode[i].size
      BY <2>1, <2>2, <2>3 DEF WrittenThere
    <3>2. disk.inode[i].size \in 0 .. FileMax
      BY <2>1, <2>2, SoundParts, DiskType
    <3>3. PICK z \in Nat : z = disk.inode[i].size
      BY <3>2, Sizes
    <3>4. ~(k >= z)
      BY <3>1, <3>3, Sizes
    <3> QED
      BY <3>1, <3>3, <3>4 DEF wfs_read
  <2> QED
    BY <2>3 DEF ReadBack
<1> QED
  BY <1>1, <1>2

\* SpaceSound of WFS: after any sequence of operations of wfs.c on any image, what an inode
\* points to is marked in the data bitmap and pointed to once, and a block that is not
\* marked is all zeros.
THEOREM SpaceCorrect == Spec => []SpaceSound
<1>1. IInv => SpaceSound
  BY SpaceFollows
<1> QED
  BY <1>1, Invariant, PTL

\* TreeSound of WFS: every inode in use but the root is named by exactly one entry, every
\* entry names an inode in use, and no directory has a name twice, although find_dentry
\* looks at the entries of other directories past the end of a block; for any bytes that
\* it may meet elsewhere, as long as none of them spells a name that is looked up.
THEOREM TreeCorrect == Spec => []TreeSound
<1>1. IInv => TreeSound
  BY TreeFollows
<1> QED
  BY <1>1, Invariant, PTL

\* ReadBack of WFS: wfs_read, which stops at the size of the file, returns what wfs_write
\* wrote last, in files where no write has passed over a pointer of the indirect block.
THEOREM ReadCorrect == Spec => []ReadBack
<1>1. IInv => ReadBack
  BY ReadFollows
<1> QED
  BY <1>1, Invariant, PTL

\* FailureInvisible of WFS: an operation of wfs.c that returns an error changes nothing that
\* can be seen, unless it is an rmdir that has freed blocks first.
THEOREM FailureCorrect == Spec => FailureInvisible
<1>1. IInv /\ [Next]_vars => [ret' # "ok" /\ ~early' => Visible(disk') = Visible(disk)]_vars
  <2> SUFFICES ASSUME IInv, [Next]_vars, ~(UNCHANGED vars), ret' # "ok", ~early'
               PROVE  Visible(disk') = Visible(disk)
    OBVIOUS
  <2> QED
    BY StepFine
<1> QED
  BY <1>1, Invariant, PTL DEF Spec, FailureInvisible
=============================================================================

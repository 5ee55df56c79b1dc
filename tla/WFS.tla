-------------------------------- MODULE WFS ---------------------------------
(***************************************************************************)
(* p7's FUSE file system: a disk image of two bitmaps, inodes and data     *)
(* blocks (wfs.h), made by mkfs.c and changed by the operations of wfs.c.  *)
(* FUSE is single-threaded towards one mount in the tests; every operation *)
(* is one step.                                                            *)
(*                                                                         *)
(* Data blocks are 1 .. NB and 0 is the null pointer (offset 0 is the      *)
(* superblock, so no data block is there).  Sizes and offsets count        *)
(* blocks: every write is of whole blocks.  A block holds directory        *)
(* entries, pointers or file data, and RawName says what name the bytes of *)
(* the latter two spell where an entry would be; HeadName says it of what  *)
(* is before the data blocks.  Times, owners and permission bits are left  *)
(* out, and nlinks: a file is created with one link and nothing adds one,  *)
(* so unlink always removes the file; the count of a directory is only     *)
(* reported.                                                               *)
(***************************************************************************)
EXTENDS Integers, Sequences, FiniteSets, FiniteSetsExt

CONSTANTS NI,             \* num_inodes
          NB,             \* num_data_blocks
          D_BLOCK,        \* last direct pointer of an inode
          EntriesPerBlock,   \* BLOCK_SIZE / sizeof(struct wfs_dentry)
          PtrsPerBlock,      \* BLOCK_SIZE / sizeof(off_t)
          Names, Paths,   \* the names, and the paths (sequences of names) used
          HeadName(_, _),    \* HeadName(d, j): name at entry j of the image's start
          RawName(_, _),     \* RawName(x, j): name at entry j of block x of data or pointers
          Values,         \* contents of a block of file data, 0 not among them
          Offsets,        \* the blocks at which writes start
          MaxWrite        \* blocks in one write

IND_BLOCK == D_BLOCK + 1
Inodes == 0 .. NI - 1
Blocks == 1 .. NB
FileMax == IND_BLOCK + PtrsPerBlock        \* blocks a file can have

ASSUME WFSAssumption ==
  /\ NI \in Nat \ {0} /\ NB \in Nat \ {0} /\ D_BLOCK \in Nat
  /\ EntriesPerBlock \in Nat \ {0} /\ PtrsPerBlock \in Nat \ {0}
  /\ Values \subseteq Nat \ {0} /\ MaxWrite \in Nat \ {0}
  /\ Offsets \subseteq 0 .. FileMax
  /\ "" \notin Names /\ \A p \in Paths : p \in Seq(Names) /\ p # << >>

VARIABLES disk,      \* the image
          ret,       \* what the last operation returned
          wrote,     \* observed: wrote[i][k], last data written to block k of file i
          skipped,   \* observed: files with a write that passed over a pointer
          early,     \* observed: an rmdir that failed has freed blocks
          strayed    \* observed: a lookup has matched bytes that are no directory entry

vars == <<disk, ret, wrote, skipped, early, strayed>>

\* A loop of n rounds, numbered from 0.
Loop(n, start, Round(_, _)) ==
  LET F[k \in 0 .. n] == IF k = 0 THEN start ELSE Round(F[k - 1], k - 1) IN F[n]

NoEntry   == [name |-> "", num |-> 0]
ZeroBlock == [dentry |-> [j \in 0 .. EntriesPerBlock - 1 |-> NoEntry],
              ptr    |-> [k \in 0 .. PtrsPerBlock - 1 |-> 0],
              data   |-> 0]
ZeroInode == [mode |-> "none", size |-> 0,
              blocks |-> [k \in 0 .. IND_BLOCK |-> 0]]

\* mkfs: everything cleared, then the root directory, which has no block yet.
Init == /\ disk = [i_bitmap |-> {0}, d_bitmap |-> {},
                   inode |-> [i \in Inodes |-> IF i = 0
                              THEN [ZeroInode EXCEPT !.mode = "dir"]
                              ELSE ZeroInode],
                   block |-> [b \in Blocks |-> ZeroBlock]]
        /\ ret = "ok"
        /\ wrote = [i \in Inodes |-> [k \in 0 .. FileMax - 1 |-> 0]]
        /\ skipped = {} /\ early = FALSE /\ strayed = FALSE

-----------------------------------------------------------------------------
(* Lookup *)

\* The slots that find_dentry compares: it runs over twice as many as a block holds, so on
\* into the block that follows on the disk, and from a null pointer over the superblock, the
\* bitmaps and the first inodes.
Scanned(b) ==
  IF b = 0 THEN {0} \X (0 .. 2 * EntriesPerBlock - 1)
  ELSE ({b, b + 1} \cap Blocks) \X (0 .. EntriesPerBlock - 1)

EntryAt(d, h) == d.block[h[1]].dentry[h[2]]

\* Slot h holds an entry of a directory.
IsEntry(d, h) == h[1] # 0 /\ EntryAt(d, h) # NoEntry

\* The block holds neither data nor pointers.
OnlyEntries(x) == x.data = 0 /\ x.ptr = ZeroBlock.ptr

\* The name that the comparison sees in slot h.
NameAt(d, h) ==
  IF h[1] = 0 THEN HeadName(d, h[2])
  ELSE IF IsEntry(d, h) \/ OnlyEntries(d.block[h[1]]) THEN EntryAt(d, h).name
  ELSE RawName(d.block[h[1]], h[2])

\* The first slot with that name, <<block, slot>>, as a set of at most one.
find_dentry(d, b, name) ==
  LET Hits == {h \in Scanned(b) : NameAt(d, h) = name}
  IN  {h \in Hits : \A g \in Hits : h[1] < g[1] \/ (h[1] = g[1] /\ h[2] <= g[2])}

\* The first of inode i's pointers K whose scan finds the name: its slot, as a set.  The
\* test of the number that follows a scan passes over an entry not in use.
FindIn(d, i, K, name) ==
  LET Hit(k) == {h \in find_dentry(d, d.inode[i].blocks[k], name) :
                   IsEntry(d, h) => EntryAt(d, h).num > 0}
      L == {k \in K : Hit(k) # {}}
  IN  IF L = {} THEN {} ELSE Hit(Min(L))

Astray == -2

\* parent and num are the inodes of the last but one and the last component that was
\* looked up; num is -1 when it was not found, and Astray when what was found is no entry
\* and its number not the number of an inode.
find_inode_number_by_path(d, path) ==
  Loop(Len(path), [parent |-> 0, num |-> 0],
       LAMBDA a, n : IF a.num < 0 THEN a
                     ELSE LET F == FindIn(d, a.num, 0 .. D_BLOCK, path[n + 1])
                              h == CHOOSE h \in F : TRUE IN
                          [parent |-> a.num,
                           num |-> IF F = {} THEN -1
                                   ELSE IF IsEntry(d, h) THEN EntryAt(d, h).num
                                   ELSE Astray])

\* The mode wfs_getattr reports for a path looked up at "at", "none" for ENOENT and
\* "any" for what is read at a number that is not one.
wfs_getattr(d, at) ==
  IF at.num = Astray THEN "any" ELSE IF at.num = -1 THEN "none" ELSE d.inode[at.num].mode

\* The kernel walks a path with getattr and calls the other operations only if
\* every directory on the way is one.
Reachable(d, path) ==
  \A n \in 0 .. Len(path) - 1 :
    wfs_getattr(d, find_inode_number_by_path(d, SubSeq(path, 1, n))) \in {"dir", "any"}

-----------------------------------------------------------------------------
(* Bitmaps *)

\* allocate_block: the lowest clear bit, -1 if there is none.
allocate_block(bits, all) == IF all \subseteq bits THEN -1 ELSE Min(all \ bits)

\* flip_bit_in_bitmap
Flip(bits, n) == IF n \in bits THEN bits \ {n} ELSE bits \cup {n}

\* Mutant: the block keeps its old contents.
FreeBlockKeep(d, b) == [d EXCEPT !.d_bitmap = Flip(@, b)]

FreeBlock(d, b) == [d EXCEPT !.d_bitmap = Flip(@, b), !.block[b] = ZeroBlock]

-----------------------------------------------------------------------------
(* mknod, mkdir *)

\* Mutant: a file is created with the inode number but its bit is not set.
CreateNoBit(d, b, j, name, mode, n) ==
  [d EXCEPT !.block[b].dentry[j] = [name |-> name, num |-> n],
            !.inode[n] = [ZeroInode EXCEPT !.mode = mode]]

\* Slot j of block b of the parent gets the entry, inode n is written and marked.
Create(d, b, j, name, mode, n) ==
  [d EXCEPT !.block[b].dentry[j] = [name |-> name, num |-> n],
            !.inode[n] = [ZeroInode EXCEPT !.mode = mode],
            !.i_bitmap = Flip(@, n)]

GiveBlock(d, i, k, b) == [d EXCEPT !.inode[i].blocks[k] = b, !.d_bitmap = Flip(@, b)]

\* One round of the loop over the parent's pointers; the block it may allocate stays
\* with the parent whatever happens next.
AddEntryAt(a, k, parent, name, mode) ==
  LET p  == a.d.inode[parent].blocks[k]
      nb == allocate_block(a.d.d_bitmap, Blocks)
      b  == IF p = 0 THEN nb ELSE p
      d  == IF p = 0 THEN GiveBlock(a.d, parent, k, nb) ELSE a.d
      J  == {j \in 0 .. EntriesPerBlock - 1 : d.block[b].dentry[j].num = 0}
      n  == allocate_block(d.i_bitmap, Inodes)
  IN  IF a.ret # "-" THEN a
      ELSE IF b = -1 THEN [a EXCEPT !.ret = "ENOSPC"]
      ELSE IF J = {} THEN [a EXCEPT !.d = d]
      ELSE IF n = -1 THEN [d |-> d, ret |-> "ENOSPC"]
      ELSE [d |-> Create(d, b, Min(J), name, mode, n), ret |-> "ok"]

MakeNode(d, at, name, mode) ==
  IF at.num # -1 THEN [d |-> d, ret |-> "EEXIST"]
  ELSE LET r == Loop(IND_BLOCK, [d |-> d, ret |-> "-"],
                     LAMBDA a, k : AddEntryAt(a, k, at.parent, name, mode))
       IN  IF r.ret = "-" THEN [r EXCEPT !.ret = "ENOSPC"] ELSE r

Make(at, name, mode) ==
  /\ LET r == MakeNode(disk, at, name, mode)
     IN  disk' = r.d /\ ret' = r.ret
  /\ UNCHANGED <<wrote, skipped, early, strayed>>

wfs_mknod(at, name) == Make(at, name, "file")
wfs_mkdir(at, name) == Make(at, name, "dir")

-----------------------------------------------------------------------------
(* unlink, rmdir *)

\* The parent's blocks are searched again and the entry found is cleared.
RemoveEntry(d, parent, name) ==
  LET F == FindIn(d, parent, {k \in 0 .. D_BLOCK : d.inode[parent].blocks[k] # 0}, name) IN
  IF F = {} THEN d
  ELSE LET h == CHOOSE h \in F : TRUE IN [d EXCEPT !.block[h[1]].dentry[h[2]] = NoEntry]

RemoveInode(d, i) == [d EXCEPT !.i_bitmap = Flip(@, i), !.inode[i] = ZeroInode]

\* The block that round k of unlink's loop frees: the indirect pointers, off_t on the
\* disk, are read with the stride of an int, so every other round reads the upper
\* half of one, which is 0.
Freed(d, i, k) ==
  LET m == k - IND_BLOCK IN
  IF k <= D_BLOCK THEN d.inode[i].blocks[k]
  ELSE IF d.inode[i].blocks[IND_BLOCK] = 0 \/ m % 2 = 1 THEN 0
  ELSE d.block[d.inode[i].blocks[IND_BLOCK]].ptr[m \div 2]

FreeFile(d, i) ==
  Loop(d.inode[i].size + 1, d,
       LAMBDA e, k : IF Freed(e, i, k) = 0 THEN e ELSE FreeBlock(e, Freed(e, i, k)))

Unlinked(d, at, name) ==
  RemoveInode(FreeFile(RemoveEntry(d, at.parent, name), at.num), at.num)

\* The kernel passes only files to unlink and only directories to rmdir.
wfs_unlink(at, name) ==
  /\ wfs_getattr(disk, at) = "file"
  /\ disk' = Unlinked(disk, at, name) /\ ret' = "ok"
  /\ wrote' = [wrote EXCEPT ![at.num] = [k \in 0 .. FileMax - 1 |-> 0]]
  /\ skipped' = skipped \ {at.num}
  /\ UNCHANGED <<early, strayed>>

Occupied(d, b) == \E j \in 0 .. EntriesPerBlock - 1 : d.block[b].dentry[j].num > 0

\* rmdir's loop frees each block it finds empty before it looks at the next one.
EmptyDir(d, i) ==
  Loop(IND_BLOCK, [d |-> d, ret |-> "ok"],
       LAMBDA a, k : LET b == d.inode[i].blocks[k] IN
                     IF a.ret # "ok" \/ b = 0 THEN a
                     ELSE IF Occupied(a.d, b) THEN [a EXCEPT !.ret = "ENOTEMPTY"]
                     ELSE [a EXCEPT !.d = FreeBlock(a.d, b)])

wfs_rmdir(at, name) ==
  /\ wfs_getattr(disk, at) = "dir"
  /\ LET r == EmptyDir(disk, at.num)
     IN  /\ ret' = r.ret
         /\ disk' = IF r.ret # "ok" THEN r.d
                    ELSE RemoveInode(RemoveEntry(r.d, at.parent, name), at.num)
         /\ early' = (early \/ (r.ret # "ok" /\ r.d # disk))
  /\ UNCHANGED <<wrote, skipped, strayed>>

-----------------------------------------------------------------------------
(* read, write, readdir *)

\* The pointer wfs_read uses for block k of a file.
Pointer(d, i, k) ==
  IF k < IND_BLOCK THEN d.inode[i].blocks[k]
  ELSE IF d.inode[i].blocks[IND_BLOCK] = 0 THEN 0
  ELSE d.block[d.inode[i].blocks[IND_BLOCK]].ptr[k - IND_BLOCK]

\* What its loop copies for block k; a null pointer makes it read the superblock (-1).
ReadBlock(d, i, k) == IF Pointer(d, i, k) = 0 THEN -1 ELSE d.block[Pointer(d, i, k)].data

\* What wfs_read returns for block k: nothing (-2) from the file's size on.
wfs_read(d, i, k) == IF k >= d.inode[i].size THEN -2 ELSE ReadBlock(d, i, k)

PutData(d, b, v) == [d EXCEPT !.block[b] = [ZeroBlock EXCEPT !.data = v]]

\* One round of wfs_write: w.idx is block_index (counted from the start of the file),
\* w.done the blocks written.  A round that cannot allocate, or is past the last
\* pointer, ends the write; what it has allocated by then stays allocated.
WriteDirect(w, i, v) ==
  LET p == w.d.inode[i].blocks[w.idx]
      b == IF p = 0 THEN allocate_block(w.d.d_bitmap, Blocks) ELSE p
      d == IF p = 0 THEN GiveBlock(w.d, i, w.idx, b) ELSE w.d
  IN  IF b = -1 THEN [w EXCEPT !.stop = TRUE]
      ELSE [w EXCEPT !.d = PutData(d, b, v), !.idx = @ + 1, !.done = @ + 1]

\* Mutant: the pointer to the new block is not stored.
PutPointerNot(d, ib, m, b) == [d EXCEPT !.d_bitmap = Flip(@, b)]

PutPointer(d, ib, m, b) == [d EXCEPT !.block[ib].ptr[m] = b, !.d_bitmap = Flip(@, b)]

\* block_index is incremented in the body of the loop and again in its header.
WriteIndirect(w, i, v) ==
  LET ip == w.d.inode[i].blocks[IND_BLOCK]
      ib == IF ip = 0 THEN allocate_block(w.d.d_bitmap, Blocks) ELSE ip
      d  == IF ip = 0 THEN GiveBlock(w.d, i, IND_BLOCK, ib) ELSE w.d
      m  == w.idx - IND_BLOCK
      p  == d.block[ib].ptr[m]
      b  == IF p = 0 THEN allocate_block(d.d_bitmap, Blocks) ELSE p
      e  == IF p = 0 THEN PutPointer(d, ib, m, b) ELSE d
  IN  IF ib = -1 THEN [w EXCEPT !.stop = TRUE]
      ELSE IF m >= PtrsPerBlock \/ b = -1 THEN [w EXCEPT !.d = d, !.stop = TRUE]
      ELSE [w EXCEPT !.d = PutData(e, b, v), !.idx = @ + 2, !.done = @ + 1]

WriteBlocks(d, i, off, n, v) ==
  Loop(n, [d |-> d, idx |-> off, done |-> 0, stop |-> FALSE],
       LAMBDA w, k : IF w.stop THEN w
                     ELSE IF w.idx < IND_BLOCK THEN WriteDirect(w, i, v)
                     ELSE WriteIndirect(w, i, v))

\* Mutant: the file grows also when nothing was written.
GrowAlways(w, i, off, n) ==
  IF w.d.inode[i].size < off + w.done
  THEN [w.d EXCEPT !.inode[i].size = off + w.done] ELSE w.d

\* The file grows to the end of what was written, also on the paths that run out of
\* space after a part.
Grow(w, i, off, n) ==
  IF w.done > 0 /\ w.d.inode[i].size < off + w.done
  THEN [w.d EXCEPT !.inode[i].size = off + w.done] ELSE w.d

\* Contents old of a file after v was written to blocks off .. end - 1.
Overwrite(old, off, end, v) ==
  [k \in 0 .. FileMax - 1 |-> IF k \in off .. end - 1 THEN v ELSE old[k]]

\* With nothing written the result is ENOSPC.
wfs_write(at, off, n, v) ==
  /\ LET i == at.num
         w == WriteBlocks(disk, i, off, n, v)
         end == off + w.done
     IN  /\ disk' = Grow(w, i, off, n)
         /\ ret' = IF w.done > 0 THEN "ok" ELSE "ENOSPC"
         /\ wrote' = [wrote EXCEPT ![i] = Overwrite(@, off, end, v)]
         /\ skipped' = IF end > Max({off, IND_BLOCK}) + 1 THEN skipped \cup {i} ELSE skipped
  /\ UNCHANGED <<early, strayed>>

\* The entries in use of directory i.
EntriesOf(d, i) == {h \in {d.inode[i].blocks[k] : k \in 0 .. D_BLOCK} \X
                            (0 .. EntriesPerBlock - 1) : h[1] # 0 /\ EntryAt(d, h).num > 0}

\* The names wfs_readdir lists, from the directory's own blocks only.
wfs_readdir(d, i) == {EntryAt(d, h).name : h \in EntriesOf(d, i)}

-----------------------------------------------------------------------------
\* The lookup of the path goes astray; what follows depends on the bytes it met.
Stray(at) == at.num = Astray /\ strayed' = TRUE /\ UNCHANGED <<disk, ret, wrote, skipped, early>>

Operation(path) ==
  LET at == find_inode_number_by_path(disk, path)
      name == path[Len(path)]
  IN  /\ Reachable(disk, path)
      /\ \/ Stray(at)
         \/ /\ at.num # Astray
            /\ wfs_mknod(at, name) \/ wfs_mkdir(at, name)
         \/ wfs_unlink(at, name) \/ wfs_rmdir(at, name)
         \/ /\ wfs_getattr(disk, at) = "file"
            /\ \E off \in Offsets, n \in 1 .. MaxWrite, v \in Values :
                 wfs_write(at, off, n, v)

\* A behaviour is followed up to an rmdir that fails with blocks freed, or a lookup that
\* goes astray.
Next == \/ ~early /\ ~strayed /\ \E path \in Paths : Operation(path)
        \/ (early \/ strayed) /\ UNCHANGED vars

Spec == Init /\ [][Next]_vars
-----------------------------------------------------------------------------
(* Properties *)

\* The pointers in use: <<i, k>> for pointer k of inode i, <<i, IND_BLOCK + 1 + m>> for
\* entry m of its indirect block.
Refs(d) ==
  [r \in {q \in d.i_bitmap \X (0 .. FileMax) :
            \/ q[2] <= IND_BLOCK /\ d.inode[q[1]].blocks[q[2]] # 0
            \/ q[2] > IND_BLOCK /\ Pointer(d, q[1], q[2] - 1) # 0}
   |-> IF r[2] <= IND_BLOCK THEN d.inode[r[1]].blocks[r[2]] ELSE Pointer(d, r[1], r[2] - 1)]

\* The directories, and the entries in use of all of them.
Dirs(d) == {i \in d.i_bitmap : d.inode[i].mode = "dir"}
Entries(d) == UNION {EntriesOf(d, i) : i \in Dirs(d)}

\* Toggling bits never gets out of step with the inodes: whatever a file or directory
\* points to is marked in the data bitmap and pointed to once, and a block that is not
\* marked is all zeros, which allocation relies on.  The one way to break this is an
\* rmdir that fails after it has freed blocks.
SpaceSound ==
  LET R == Refs(disk) IN
  early \/ /\ \A r \in DOMAIN R : R[r] \in disk.d_bitmap
           /\ \A r, s \in DOMAIN R : R[r] = R[s] => r = s
           /\ \A b \in Blocks \ disk.d_bitmap : disk.block[b] = ZeroBlock

\* The directory tree is sound although lookups run on into blocks of other
\* directories: every inode marked in the bitmap, but the root, is named by exactly
\* one entry, every entry names a marked inode, and no directory has a name twice.
TreeSound ==
  early \/ /\ {EntryAt(disk, h).num : h \in Entries(disk)} = disk.i_bitmap \ {0}
           /\ Cardinality(Entries(disk)) = Cardinality(disk.i_bitmap) - 1
           /\ \A i \in Dirs(disk) :
                Cardinality(wfs_readdir(disk, i)) = Cardinality(EntriesOf(disk, i))
           /\ \A i \in Inodes : i \in disk.i_bitmap <=> disk.inode[i].mode # "none"

\* What was last written to a block of a file is what a read of it returns, as long
\* as no write to the file has passed over a pointer of its indirect block.
ReadBack ==
  early \/ \A i \in disk.i_bitmap \ skipped, k \in 0 .. FileMax - 1 :
             disk.inode[i].mode = "file" /\ wrote[i][k] # 0 => wfs_read(disk, i, k) = wrote[i][k]

\* What a user can see: which names are where, and what the files contain.
Visible(d) ==
  [i \in d.i_bitmap |->
     [mode |-> d.inode[i].mode, size |-> d.inode[i].size,
      names |-> {EntryAt(d, h) : h \in EntriesOf(d, i)},
      data |-> [k \in 0 .. d.inode[i].size - 1 |-> wfs_read(d, i, k)]]]

\* An operation that returns an error may keep a block it has allocated for a
\* directory or a file, but changes nothing that can be seen.
FailureInvisible ==
  [][ret' # "ok" /\ ~early' => Visible(disk') = Visible(disk)]_vars

(* What the comments of the code lead one to expect, without the exceptions made above.
   TLC refutes each of these. *)

\* A name that a lookup in a directory finds is an entry of that directory.
LookupTrue ==
  \A i \in Dirs(disk), x \in Names : FindIn(disk, i, 0 .. D_BLOCK, x) \subseteq EntriesOf(disk, i)

\* A directory or file that still points to a block has it marked in the data bitmap, a
\* directory included that rmdir has refused to remove.
KeepsBlocks == LET R == Refs(disk) IN \A r \in DOMAIN R : R[r] \in disk.d_bitmap

\* What was last written to a block of a file is what a read of it returns, whichever
\* pointers of the indirect block the writes went through.
WritesReadBack ==
  \A i \in disk.i_bitmap, k \in 0 .. FileMax - 1 :
    disk.inode[i].mode = "file" /\ wrote[i][k] # 0 => wfs_read(disk, i, k) = wrote[i][k]
=============================================================================

------------------------------- MODULE Inodes -------------------------------
(***************************************************************************)
(* xv6's file system below the system calls (fs.c): inodes with their      *)
(* reference counts, sleep locks and links, block allocation, and path     *)
(* lookup.                                                                 *)
(*                                                                         *)
(* A process in the kernel has a stack of steps, proc[p].todo: the top one *)
(* is what it does next, the ones below are what its callers do after it.  *)
(* A step carries the inodes it holds a reference to (ip, dp).  A function *)
(* that finds an inode passes it to the step below.  One step is what the  *)
(* code does between two points where another CPU can interfere: taking    *)
(* an inode's sleep lock, or icache.lock.  The inode cache is written      *)
(* through (iupdate after every change), so an inode in memory and on disk *)
(* is one record; each inode has its own cache entry.                      *)
(*                                                                         *)
(* Sizes are in halves of a block (BSIZE = 2), so that writes need not be  *)
(* aligned.  wrote[p] is the set of disk blocks p has passed to log_write  *)
(* since begin_op; the log itself is module Log.                           *)
(***************************************************************************)
EXTENDS Integers, Sequences, FiniteSets, FiniteSetsExt, SequencesExt

CONSTANTS NPROC,               \* slots of the process table
          NINODES, NBLOCKS,    \* the disk's inodes 1 .. NINODES and data blocks
          NDIRECT, NINDIRECT,  \* blocks of a file
          MAXOPBLOCKS,         \* blocks one operation may write
          Names                \* of directory entries other than . and ..

VARIABLES proc,                \* ptable.proc, and each process's steps in the kernel
          ino,                 \* the inodes, on disk and in icache
          bits,                \* the bitmap: blocks in use
          wrote                \* blocks written in p's transaction

diskVars == <<ino, bits, wrote>>

Procs == 1 .. NPROC
Inums == 1 .. NINODES
ROOTINO == 1
BSIZE == 2
MAXFILE == NDIRECT + NINDIRECT
Entries == Names \cup {".", ".."}

\* image: pages of the program an ELF file holds; stray: history, see Kernel.
FreeInode == [ref |-> 0, valid |-> FALSE, lock |-> 0, type |-> "0", nlink |-> 0, size |-> 0,
              addrs |-> << >>, ind |-> 0, dir |-> << >>, image |-> 0, stray |-> FALSE]

-----------------------------------------------------------------------------
(* Steps *)

St(op, ip, x) == [op |-> op, ip |-> ip, dp |-> 0, x |-> x]
iput(i) == St("iput", i, 0)
end_op  == St("end_op", 0, 0)

Top(p) == Head(proc[p].todo)
At(p, op) == /\ proc[p].state = "RUNNABLE"
             /\ proc[p].todo # << >> /\ Top(p).op = op

\* Process table P after p's top step: steps come before the rest.
Go(P, p, steps) == [P EXCEPT ![p].todo = steps \o Tail(@)]

\* The same, and the step below is given inode i (0: none).
Pass(P, p, i, steps) ==
  [P EXCEPT ![p].todo = steps \o <<[@[2] EXCEPT !.ip = i]>> \o SubSeq(@, 3, Len(@))]

\* The system call returns -1, or not what the program wants.  ret says what the program
\* makes of it: it goes over to alt, which as a rule is to exit (must), or says that a
\* test has failed before it does (ok).
Fail(P, p) == [P EXCEPT ![p].prog = IF P[p].ret \in {"ok", "must"} THEN P[p].alt ELSE @,
                        ![p].ret = IF @ = "ok" THEN "bad" ELSE "any"]

-----------------------------------------------------------------------------
(* Blocks *)

LogWrite(p, blocks) == wrote' = [wrote EXCEPT ![p] = @ \cup blocks]
InodeBlock(i) == <<"inode", i>>
BitmapBlock   == <<"bitmap", 0>>
DataBlock(b)  == <<"data", b>>

BlocksOf(i) == Range(ino[i].addrs) \cup ({ino[i].ind} \ {0})

\* balloc, n times: the n lowest blocks that are free.
balloc(n) == SubSeq(SelectSeq([b \in 1 .. NBLOCKS |-> b], LAMBDA b : b \notin bits), 1, n)

\* How many blocks bmap allocates for a file of inode i to have n blocks.
NewBlocks(i, n) == Max({0, n - Len(ino[i].addrs)})
NeedsIndirect(i, n) == n > NDIRECT /\ ino[i].ind = 0
Room(i, n) == NewBlocks(i, n) + (IF NeedsIndirect(i, n) THEN 1 ELSE 0)
                 <= NBLOCKS - Cardinality(bits)

\* bmap: inode i once it has n blocks; the indirect block comes before the first
\* block it lists.
Extended(i, n) ==
  LET k  == NDIRECT - Len(ino[i].addrs) + 1
      bs == balloc(NewBlocks(i, n) + (IF NeedsIndirect(i, n) THEN 1 ELSE 0))
  IN  IF NeedsIndirect(i, n)
      THEN [ino[i] EXCEPT !.addrs = @ \o RemoveAt(bs, k), !.ind = bs[k]]
      ELSE [ino[i] EXCEPT !.addrs = @ \o bs]

\* Mutant: the size is not updated, so the next write starts over.
writeiNoSize(i, off, n) == Extended(i, (off + n + BSIZE - 1) \div BSIZE)

\* writei: n halves of blocks at off.
writei(i, off, n) ==
  [Extended(i, (off + n + BSIZE - 1) \div BSIZE) EXCEPT !.size = Max({@, off + n})]

\* What writei logs: the blocks written, those allocated, the bitmap and the indirect
\* block if any is, and the inode.
WriteLog(i, off, n) ==
  LET new == writei(i, off, n)
      fresh == (Range(new.addrs) \cup {new.ind}) \ (Range(ino[i].addrs) \cup {ino[i].ind})
      spans == {b \in 0 .. Len(new.addrs) - 1 : (b + 1) * BSIZE > off /\ b * BSIZE < off + n}
  IN  {DataBlock(new.addrs[b + 1]) : b \in spans} \cup {DataBlock(b) : b \in fresh}
      \cup (IF fresh # {} THEN {BitmapBlock} ELSE {})
      \cup (IF \E b \in spans : b >= NDIRECT /\ new.addrs[b + 1] \in fresh
            THEN {DataBlock(new.ind)} ELSE {})
      \cup (IF new.size # ino[i].size THEN {InodeBlock(i)} ELSE {})

-----------------------------------------------------------------------------
(* Inodes *)

\* iget and idup; an entry nobody refers to is recycled, so it is not valid.
iget(I, i) == [I EXCEPT ![i].ref = @ + 1, ![i].valid = @ /\ I[i].ref > 0]

Unlocked(i) == ino[i].lock = 0

\* ilock gets the lock, and finds an inode that is in use: else it panics ("ilock: no
\* type"), which is modelled as p standing still.
Lockable(i) == Unlocked(i) /\ ino[i].type # "0"
ilock(I, i, p) == [I EXCEPT ![i].lock = p, ![i].valid = TRUE]
iunlock(I, i)  == [I EXCEPT ![i].lock = 0]
Loaded(I, i)   == [I EXCEPT ![i].valid = TRUE]      \* ilock and iunlock in one step

\* ialloc: the first free inode.
FreeInums == {i \in Inums : ino[i].type = "0"}
ialloc == Min(FreeInums)

itrunc(i) == bits \ BlocksOf(i)

LastRef(i) == ino[i].valid /\ ino[i].nlink = 0 /\ ino[i].ref = 1

\* History: another iput of i is past its test and has not dropped its reference.
Dropping(i) == \E q \in Procs : At(q, "deref") /\ Top(q).ip = i

\* iput up to releasesleep: an inode without links and other references is freed.
Iput(p) ==
  /\ At(p, "iput")
  /\ LET i == Top(p).ip IN
       /\ Unlocked(i)
       /\ IF LastRef(i)
          THEN /\ ino' = [ino EXCEPT ![i] = [FreeInode EXCEPT !.ref = ino[i].ref]]
               /\ bits' = itrunc(i)
               /\ LogWrite(p, {InodeBlock(i)} \cup
                         (IF BlocksOf(i) # {} THEN {BitmapBlock} ELSE {}))
          ELSE /\ ino' = [ino EXCEPT ![i].stray = @ \/ (ino[i].nlink = 0 /\ Dropping(i))]
               /\ UNCHANGED <<bits, wrote>>
       /\ proc' = Go(proc, p, <<St("deref", i, 0)>>)

\* The rest of iput: the reference is dropped, whatever the test above had seen.
Deref(p) ==
  /\ At(p, "deref")
  /\ ino' = [ino EXCEPT ![Top(p).ip].ref = @ - 1]
  /\ proc' = Go(proc, p, << >>)
  /\ UNCHANGED <<bits, wrote>>

\* iunlockput of an inode locked in an earlier step.
UnlockPut(p) ==
  /\ At(p, "iunlockput")
  /\ ino' = iunlock(ino, Top(p).ip)
  /\ proc' = Go(proc, p, <<iput(Top(p).ip)>>)
  /\ UNCHANGED <<bits, wrote>>

EndOp(p) == /\ At(p, "end_op")
            /\ wrote' = [wrote EXCEPT ![p] = {}]
            /\ proc' = Go(proc, p, << >>)
            /\ UNCHANGED <<ino, bits>>

-----------------------------------------------------------------------------
(* Directories and paths *)

\* dirlink: I with entry n of directory d for inode i.  A directory has one block, got
\* when . and .. were entered.
dirlink(I, d, n, i) == [I EXCEPT ![d].dir[n] = i]
isdirempty(d) == \A n \in Names : ino[d].dir[n] = 0

\* A path is a sequence of names, from the root or from the current directory.
Start(p, path) == IF path.abs THEN ROOTINO ELSE proc[p].cwd
NameOf(path) == IF path.e = << >> THEN "." ELSE Last(path.e)
namei(p, path)       == St("namex", Start(p, path), [e |-> path.e, parent |-> FALSE])
nameiparent(p, path) == St("namex", Start(p, path), [e |-> path.e, parent |-> TRUE])

\* History: the .. of a removed directory d may name an inode that has been freed.
Strayed(I, d, i) == [I EXCEPT ![i].stray = @ \/ (ino[d].nlink = 0 /\ ino[i].type = "0")]

\* One round of namex's loop, under the lock of the inode reached so far.
Namex(p) ==
  /\ At(p, "namex")
  /\ LET s == Top(p)  i == s.ip  e == s.x.e IN
       \/ /\ e = << >>
          /\ proc' = IF s.x.parent THEN Pass(proc, p, 0, <<iput(i)>>)
                     ELSE Pass(proc, p, i, << >>)
          /\ UNCHANGED ino
       \/ /\ e # << >> /\ Lockable(i)
          /\ LET dir == ino[i].type = "DIR"
                 stop == s.x.parent /\ Len(e) = 1
                 next == IF dir THEN ino[i].dir[e[1]] ELSE 0
             IN  \/ /\ dir /\ stop
                    /\ ino' = Loaded(ino, i)
                    /\ proc' = Pass(proc, p, i, << >>)
                 \/ /\ ~stop /\ next # 0
                    /\ ino' = Strayed(iget(Loaded(ino, i), next), i, next)
                    /\ proc' = Go(proc, p, <<iput(i), St("namex", next, [s.x EXCEPT !.e = Tail(@)])>>)
                 \/ /\ ~(dir /\ stop) /\ (~stop => next = 0)
                    /\ ino' = Loaded(ino, i)
                    /\ proc' = Pass(proc, p, 0, <<iput(i)>>)
  /\ UNCHANGED <<bits, wrote>>

FsStep(p) == Iput(p) \/ Deref(p) \/ UnlockPut(p) \/ EndOp(p) \/ Namex(p)
=============================================================================

---------------------------- MODULE BufferCache -----------------------------
(***************************************************************************)
(* xv6's buffer cache (bio.c) on its disk driver (ide.c), with the sleep   *)
(* lock of each buffer (sleeplock.c).  p4 and p5 have the same files.      *)
(*                                                                         *)
(* What a process still has to do in the file system is a sequence of      *)
(* instructions, code[p]; this module executes "bread" and "brelse" of a   *)
(* block and gives bwrite to its users, the log foremost.  A step is what  *)
(* is done under one spinlock; waiting for a sleep lock or for the disk is *)
(* a guard, since each wakeup comes with the change it announces.          *)
(***************************************************************************)
EXTENDS Integers, Sequences, FiniteSets, FiniteSetsExt

CONSTANTS Procs,
          NBUF,      \* buffers
          Blocks,    \* blocks of the disk
          None       \* no process, no block, no data

VARIABLES buf,       \* bcache.buf
          lru,       \* bcache's list, most recently used first
          idequeue,  \* buffers handed to the disk, the active one first
          disk,      \* contents of the disk
          code       \* code[p]: what p still has to do

cacheVars == <<buf, lru, idequeue, disk, code>>

Bufs == 1 .. NBUF

EmptyBuf == [blockno |-> None, refcnt |-> 0, valid |-> FALSE, dirty |-> FALSE,
             data |-> None, lock |-> None]

\* binit puts every buffer at the head of the list, so the first one is last.
FreshBufs == [i \in Bufs |-> EmptyBuf]
FreshList == [k \in Bufs |-> NBUF + 1 - k]
binit == buf = FreshBufs /\ lru = FreshList /\ idequeue = << >>

-----------------------------------------------------------------------------
At(p, op) == code[p] # << >> /\ Head(code[p])[1] = op
Arg(p)    == Head(code[p])[2]

\* p has done its next instruction and does s before the rest.
Then(p, s) == code' = [code EXCEPT ![p] = s \o Tail(@)]

\* The buffer p has locked for block b.
Held(p, b) == CHOOSE i \in Bufs : buf[i].blockno = b /\ buf[i].lock = p

Cached(b) == {i \in Bufs : buf[i].blockno = b}

\* Positions in the list of buffers that are not in use: no references, and not
\* modified by the log and waiting for its commit.
Recyclable == {k \in Bufs : buf[lru[k]].refcnt = 0 /\ ~buf[lru[k]].dirty}

\* bget, under bcache.lock: the block's buffer, or the least recently used free one.
BgetHit(p) == /\ At(p, "bread")
              /\ \E i \in Cached(Arg(p)) : /\ buf' = [buf EXCEPT ![i].refcnt = @ + 1]
                                           /\ Then(p, <<<<"lock", i>>>>)
              /\ UNCHANGED <<lru, idequeue, disk>>

BgetRecycle(p) ==
  /\ At(p, "bread") /\ Cached(Arg(p)) = {}
  /\ \E k \in Recyclable :
       /\ \A n \in Recyclable : n <= k
       /\ buf' = [buf EXCEPT ![lru[k]].blockno = Arg(p), ![lru[k]].valid = FALSE,
                             ![lru[k]].dirty = FALSE, ![lru[k]].refcnt = 1]
       /\ Then(p, <<<<"lock", lru[k]>>>>)
  /\ UNCHANGED <<lru, idequeue, disk>>

\* acquiresleep; then bread asks for the data if they are not there.
acquiresleep(p) ==
  /\ At(p, "lock") /\ buf[Arg(p)].lock = None
  /\ buf' = [buf EXCEPT ![Arg(p)].lock = p]
  /\ Then(p, IF buf[Arg(p)].valid THEN << >> ELSE <<<<"iderw", Arg(p)>>>>)
  /\ UNCHANGED <<lru, idequeue, disk>>

\* iderw, under idelock: queue the buffer, then wait until it is valid and clean.
IderwQueue(p) == /\ At(p, "iderw")
                 /\ idequeue' = Append(idequeue, Arg(p))
                 /\ Then(p, <<<<"wait", Arg(p)>>>>)
                 /\ UNCHANGED <<buf, lru, disk>>

IderwDone(p) == /\ At(p, "wait") /\ buf[Arg(p)].valid /\ ~buf[Arg(p)].dirty
                /\ Then(p, << >>)
                /\ UNCHANGED <<buf, lru, idequeue, disk>>

\* The disk with the write of buffer i carried out.
Written(i) == [disk EXCEPT ![buf[i].blockno] = buf[i].data]

\* The active request is done: the disk has been written or the data are read.
ideintr == /\ idequeue # << >>
           /\ LET i == Head(idequeue) IN
                /\ disk' = IF buf[i].dirty THEN Written(i) ELSE disk
                /\ buf' = [buf EXCEPT ![i].data = IF buf[i].dirty THEN @ ELSE disk[buf[i].blockno],
                                      ![i].valid = TRUE, ![i].dirty = FALSE]
           /\ idequeue' = Tail(idequeue)
           /\ UNCHANGED <<lru, code>>

\* bwrite of p's buffer for block b, which gets the data first.
bwrite(p, b, data) ==
  /\ buf' = [buf EXCEPT ![Held(p, b)].data = data, ![Held(p, b)].dirty = TRUE]
  /\ Then(p, <<<<"iderw", Held(p, b)>>>>)
  /\ UNCHANGED <<lru, idequeue, disk>>

\* brelse: releasesleep, then, under bcache.lock, one reference less.
releasesleep(p) ==
  /\ At(p, "brelse")
  /\ buf' = [buf EXCEPT ![Held(p, Arg(p))].lock = None]
  /\ Then(p, <<<<"unref", Held(p, Arg(p))>>>>)
  /\ UNCHANGED <<lru, idequeue, disk>>

\* Mutant: the reference is dropped twice.
UnrefTwice(i) == buf[i].refcnt - 2

Unref(i) == buf[i].refcnt - 1

\* The list with buffer i moved to its head.
ToFront(i) == LET n == CHOOSE k \in Bufs : lru[k] = i
              IN  [k \in Bufs |-> IF k = 1 THEN i ELSE IF k <= n THEN lru[k - 1] ELSE lru[k]]

BrelseUnref(p) ==
  /\ At(p, "unref")
  /\ LET i == Arg(p) IN
       /\ buf' = [buf EXCEPT ![i].refcnt = Unref(i)]
       /\ lru' = IF Unref(i) = 0 THEN ToFront(i) ELSE lru
  /\ Then(p, << >>)
  /\ UNCHANGED <<idequeue, disk>>

CacheStep(p) == \/ BgetHit(p) \/ BgetRecycle(p) \/ acquiresleep(p)
                \/ IderwQueue(p) \/ IderwDone(p)
                \/ releasesleep(p) \/ BrelseUnref(p)

-----------------------------------------------------------------------------
\* p has taken a reference to buffer i and not given it back.
Uses(p, i) ==
  \/ At(p, "lock") /\ Arg(p) = i
  \/ At(p, "unref") /\ Arg(p) = i
  \/ buf[i].lock = p

\* A block is never in two buffers, a buffer's reference count is the number of its
\* users, and exactly the buffers somebody waits for are in the disk's queue, once each.
CacheSound ==
  /\ \A i, j \in Bufs : buf[i].blockno = buf[j].blockno /\ buf[i].blockno # None => i = j
  /\ \A i \in Bufs : buf[i].refcnt = Cardinality({p \in Procs : Uses(p, i)})
  /\ \A i \in Bufs :
       Cardinality({k \in 1 .. Len(idequeue) : idequeue[k] = i})
         = Cardinality({p \in Procs : At(p, "wait") /\ Arg(p) = i
                                      /\ ~(buf[i].valid /\ ~buf[i].dirty)})
=============================================================================

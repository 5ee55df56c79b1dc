--------------------------- MODULE LogStoreProofs ---------------------------
(***************************************************************************)
(* Proof that xv6's log implements AtomicStore: a transaction reaches the  *)
(* disk as a whole or not at all, whenever the power fails, and recovery   *)
(* may itself be interrupted.                                              *)
(*                                                                         *)
(* LInv of LogProofs says who holds which buffer; here it is added what is *)
(* in the blocks.  For that the buffers can be forgotten: a block has      *)
(* contents, on disk and as processes see them, and is dirty or not.  DInv *)
(* says where the two contents may differ, what the header on the disk is, *)
(* and how far the copies to and from the log have come, in each phase of  *)
(* a commit and of recovery.  The header's write is the commit, and the    *)
(* other writes to the disk change nothing that recovery would restore.    *)
(***************************************************************************)
EXTENDS LogProofs

-----------------------------------------------------------------------------
(* Contents of blocks *)

\* What a process that reads block b is given, and whether it is to be written.
Content(b) == LET c == {i \in Cached(b) : buf[i].valid}
              IN  IF c = {} THEN disk[b] ELSE buf[Min(c)].data
Dirty(b) == \E i \in Cached(b) : buf[i].dirty

\* p waits for the disk with block b.
Waits(p, b) == \E i \in Bufs : buf[i].blockno = b /\ (Queues(p, i) \/ Awaits(p, i))

-----------------------------------------------------------------------------
(* Phases of a commit and of recovery *)

\* The log's blocks are being written: a second write_head is still to come.
LogsIn(c) == \E k \in 1 .. Len(c) - 3 : c[k][1] = "write_head"
Logging(p) == LogsIn(code[p])

\* The header has been given to the disk or read from it, and blocks are installed.
Installing(p) == Has(p, "clear") /\ ~Logging(p) /\ ~Has(p, "read_head")

\* The log is empty in memory again.
Erasing(p) == Finishing(p) /\ ~Has(p, "clear")

\* Loop o of program c has come past block t, and b is not still to be copied to.
Past(x, o, t, b) == (x[1] = o => t < x[2]) /\ ~OpIs(x, "copy", b)
AllPast(c, o, t, b) == \A k \in 1 .. Len(c) : Past(c[k], o, t, b)
Logged(p, t) == AllPast(code[p], "write_log", t, LogBlocks[t])
Installed(p, t) == AllPast(code[p], "install_trans", t, lh[t])

head == disk[Header]
InLog == {lh[t] : t \in 1 .. Len(lh)}

-----------------------------------------------------------------------------
(* The invariant *)

\* Only dirty blocks differ from the disk.
Clean == \A b \in Blocks : ~Dirty(b) => Content(b) = disk[b]

\* Home blocks are dirty when they are logged, and given to the disk only when the
\* header that lists them is on it; other blocks are written by who commits.
Dirtied ==
  /\ \A b \in Homes : Dirty(b) => b \in InLog
  /\ \A p \in Procs, b \in Homes : Waits(p, b) /\ Dirty(b) => Installing(p) /\ head = lh
  /\ \A t \in LogDataBlocks : Dirty(LogBlocks[t]) =>
       \E p \in Procs : Logging(p) /\ Waits(p, LogBlocks[t])
  /\ Dirty(Header) => /\ Content(Header) = lh
                      /\ \E p \in Procs : (Installing(p) \/ Erasing(p)) /\ Waits(p, Header)

\* The header on the disk.
HeadOnDisk ==
  /\ up /\ (\A p \in Procs : ~Finishing(p)) => head = << >>
  /\ \A p \in Procs : Logging(p) => head = << >>
  /\ \A p \in Procs : Installing(p) =>
       head = lh \/ (head = << >> /\ Dirty(Header) /\ LastOp(code[p]) = "done")
  /\ \A p \in Procs : Erasing(p) =>
       /\ \A t \in 1 .. Len(head) : disk[head[t]] = disk[LogBlocks[t]]
       /\ Has(p, "write_head") \/ head = << >> \/ Dirty(Header)

\* The copies made so far.
Copied == \A p \in Procs, t \in 1 .. Len(lh) :
  /\ Logging(p) /\ Logged(p, t) => Content(LogBlocks[t]) = Content(lh[t])
  /\ Installing(p) /\ (LastOp(code[p]) = "done" \/ Installed(p, t)) =>
       disk[LogBlocks[t]] = Content(lh[t])
  /\ Installing(p) /\ Installed(p, t) /\ Dirty(lh[t]) => Waits(p, lh[t])

DInv == Clean /\ Dirtied /\ HeadOnDisk /\ Copied

-----------------------------------------------------------------------------
(* Blocks and their buffers *)

\* What is in a block is in its one buffer, or else on the disk.
BlocksAre ==
  \A b \in Blocks :
    /\ \A i \in Bufs : buf[i].blockno = b =>
         /\ Content(b) = IF buf[i].valid THEN buf[i].data ELSE disk[b]
         /\ Dirty(b) <=> buf[i].dirty
         /\ \A q : Waits(q, b) <=> Queues(q, i) \/ Awaits(q, i)
    /\ (\A i \in Bufs : buf[i].blockno # b) =>
         Content(b) = disk[b] /\ ~Dirty(b) /\ \A q : ~Waits(q, b)

\* So it is, since no block is in two buffers.
LEMMA BlockIs == LInv => BlocksAre
<1> SUFFICES ASSUME LInv, NEW b \in Blocks
             PROVE  /\ \A i \in Bufs : buf[i].blockno = b =>
                         /\ Content(b) = IF buf[i].valid THEN buf[i].data ELSE disk[b]
                         /\ Dirty(b) <=> buf[i].dirty
                         /\ \A q : Waits(q, b) <=> Queues(q, i) \/ Awaits(q, i)
                    /\ (\A i \in Bufs : buf[i].blockno # b) =>
                         Content(b) = disk[b] /\ ~Dirty(b) /\ \A q : ~Waits(q, b)
  BY DEF BlocksAre
<1>1. UniqueBlocks /\ b # None
  BY LogAssumption DEF LInv, Cache
<1>2. ASSUME NEW i \in Bufs, buf[i].blockno = b
      PROVE  /\ Content(b) = IF buf[i].valid THEN buf[i].data ELSE disk[b]
             /\ Dirty(b) <=> buf[i].dirty
             /\ \A q : Waits(q, b) <=> Queues(q, i) \/ Awaits(q, i)
  <2>1. \A j \in Bufs : buf[j].blockno = b <=> j = i
    BY <1>1, <1>2 DEF UniqueBlocks
  <2>2. Cached(b) = {i}
    BY <2>1 DEF Cached
  <2>3. (Dirty(b) <=> buf[i].dirty) /\ \A q : Waits(q, b) <=> Queues(q, i) \/ Awaits(q, i)
    BY <2>1, <2>2 DEF Dirty, Waits
  <2>4. CASE buf[i].valid
    <3>1. {j \in Cached(b) : buf[j].valid} = {i}
      BY <2>2, <2>4
    <3>2. Min({i}) = i
      <4>1. i \in Int /\ i <= i
        BY LogAssumption DEF Bufs
      <4> QED
        BY <4>1 DEF Min
    <3> QED
      BY <2>3, <2>4, <3>1, <3>2 DEF Content
  <2>5. CASE ~buf[i].valid
    <3>1. {j \in Cached(b) : buf[j].valid} = {}
      BY <2>2, <2>5
    <3> QED
      BY <2>3, <2>5, <3>1 DEF Content
  <2> QED
    BY <2>4, <2>5
<1>3. ASSUME \A i \in Bufs : buf[i].blockno # b
      PROVE  Content(b) = disk[b] /\ ~Dirty(b) /\ \A q : ~Waits(q, b)
  <2>1. Cached(b) = {}
    BY <1>3 DEF Cached
  <2> QED
    BY <1>3, <2>1 DEF Content, Dirty, Waits
<1> QED
  BY <1>2, <1>3

\* So it is in the next state.
LEMMA BlockWill ==
  ASSUME LInv'
  PROVE  \A b \in Blocks :
           /\ \A i \in Bufs : buf'[i].blockno = b =>
                /\ Content(b)' = IF buf'[i].valid THEN buf'[i].data ELSE disk'[b]
                /\ Dirty(b)' <=> buf'[i].dirty
                /\ \A q : Waits(q, b)' <=> Queues(q, i)' \/ Awaits(q, i)'
           /\ (\A i \in Bufs : buf'[i].blockno # b) =>
                Content(b)' = disk'[b] /\ ~Dirty(b)' /\ \A q : ~Waits(q, b)'
<1>1. (LInv => BlocksAre)'
  BY BlockIs, PTL
<1> QED
  BY <1>1 DEF BlocksAre, Bufs

\* What processes and the disk are given of the blocks stays the same.
SameBlocks ==
  /\ disk' = disk
  /\ \A b \in Blocks : Content(b)' = Content(b) /\ (Dirty(b)' <=> Dirty(b))

\* The same processes wait with the blocks that are to be written.
SameWaits == \A q \in Procs, b \in Blocks : Dirty(b) => (Waits(q, b)' <=> Waits(q, b))

\* Steps that leave the data of the buffers alone.
LEMMA BlocksKept ==
  ASSUME LInv, LInv', disk' = disk,
         \A i \in Bufs : /\ buf'[i].blockno = buf[i].blockno /\ buf'[i].valid = buf[i].valid
                         /\ buf'[i].dirty = buf[i].dirty /\ buf'[i].data = buf[i].data,
         \A q \in Procs, i \in Bufs : buf[i].dirty =>
           (Queues(q, i)' \/ Awaits(q, i)' <=> Queues(q, i) \/ Awaits(q, i))
  PROVE  SameBlocks /\ SameWaits
<1>1. ASSUME NEW b \in Blocks
      PROVE  /\ Content(b)' = Content(b) /\ (Dirty(b)' <=> Dirty(b))
             /\ \A q \in Procs : Dirty(b) => (Waits(q, b)' <=> Waits(q, b))
  <2>1. CASE \E i \in Bufs : buf[i].blockno = b
    <3> PICK i \in Bufs : buf[i].blockno = b
      BY <2>1
    <3>1. /\ Content(b) = IF buf[i].valid THEN buf[i].data ELSE disk[b]
          /\ Dirty(b) <=> buf[i].dirty
          /\ \A q : Waits(q, b) <=> Queues(q, i) \/ Awaits(q, i)
      BY BlockIs DEF BlocksAre
    <3>2. /\ Content(b)' = IF buf'[i].valid THEN buf'[i].data ELSE disk'[b]
          /\ Dirty(b)' <=> buf'[i].dirty
          /\ \A q : Waits(q, b)' <=> Queues(q, i)' \/ Awaits(q, i)'
      BY BlockWill
    <3> QED
      BY <3>1, <3>2
  <2>2. CASE \A i \in Bufs : buf[i].blockno # b
    <3>1. Content(b) = disk[b] /\ ~Dirty(b)
      BY <2>2, BlockIs DEF BlocksAre
    <3>2. Content(b)' = disk'[b] /\ ~Dirty(b)'
      BY <2>2, BlockWill
    <3> QED
      BY <3>1, <3>2
  <2> QED
    BY <2>1, <2>2
<1> QED
  BY <1>1 DEF SameBlocks, SameWaits

\* Who waits after a step within the buffer cache.
LEMMA WaitsPlain ==
  ASSUME Typed, Programs, NEW p \in Procs, code[p] # << >>, NEW s,
         s = << >> \/ \E o \in Low, i \in Bufs : s = <<<<o, i>>>>, Then(p, s)
  PROVE  /\ \A q \in Procs, i \in Bufs :
              q # p => (Queues(q, i)' <=> Queues(q, i)) /\ (Awaits(q, i)' <=> Awaits(q, i))
         /\ s = << >> => \A i \in Bufs : ~Queues(p, i)' /\ ~Awaits(p, i)'
         /\ \A o \in Low : \A j : s = <<<<o, j>>>> =>
              \A i \in Bufs : /\ Queues(p, i)' <=> o = "iderw" /\ i = j
                              /\ Awaits(p, i)' <=> o = "wait" /\ i = j
<1>1. /\ \A q \in Procs : q # p => code'[q] = code[q]
      /\ s = << >> => \A o \in Low \cup {"begin"} : ~At(p, o)'
      /\ \A o \in Low : \A i : s = <<<<o, i>>>> => (\A x : At(p, x)' <=> x = o) /\ Arg(p)' = i
  BY PlainStep
<1>2. \A q \in Procs, i \in Bufs :
        q # p => (Queues(q, i)' <=> Queues(q, i)) /\ (Awaits(q, i)' <=> Awaits(q, i))
  BY <1>1, Elsewhere
<1>3. s = << >> => \A i \in Bufs : ~Queues(p, i)' /\ ~Awaits(p, i)'
  <2>1. "iderw" \in Low /\ "wait" \in Low
    BY DEF Low
  <2> QED
    BY <1>1, <2>1 DEF Queues, Awaits
<1>4. ASSUME NEW o \in Low, NEW j, s = <<<<o, j>>>>, NEW i \in Bufs
      PROVE  (Queues(p, i)' <=> o = "iderw" /\ i = j) /\ (Awaits(p, i)' <=> o = "wait" /\ i = j)
  <2>1. (\A x : At(p, x)' <=> x = o) /\ Arg(p)' = j
    BY <1>1, <1>4
  <2> QED
    BY <2>1 DEF Queues, Awaits
<1> QED
  BY <1>2, <1>3, <1>4

\* Reading and releasing blocks changes the contents of none: a buffer is taken from a
\* block only when the disk has the block's contents.
LEMMA CacheBlocks ==
  ASSUME LInv, LInv', Clean, NEW p \in Procs, CacheStep(p)
  PROVE  SameBlocks /\ SameWaits
<1>1. Typed /\ Programs /\ Cache
  BY DEF LInv
<1>2. code[p] # << >> /\ \A i \in Bufs : i \in DOMAIN buf /\ buf[i] \in BufRecords
  BY <1>1 DEF CacheStep, BgetHit, BgetRecycle, acquiresleep, IderwQueue, IderwDone, releasesleep,
              BrelseUnref, At, Typed
<1>3. \A o, i, j : At(p, o) /\ o \notin {"iderw", "wait"} => ~Queues(p, i) /\ ~Awaits(p, i)
  BY DEF Queues, Awaits, At
<1>4. "lock" \in Low /\ "iderw" \in Low /\ "wait" \in Low /\ "unref" \in Low
  BY DEF Low
<1>5. CASE BgetHit(p)
  <2>1. At(p, "bread") /\ disk' = disk
    BY <1>5 DEF BgetHit
  <2>2. PICK j \in Bufs : buf' = [buf EXCEPT ![j].refcnt = @ + 1] /\ Then(p, <<<<"lock", j>>>>)
    BY <1>5 DEF BgetHit, Cached
  <2>3. \A q \in Procs, i \in Bufs :
          (Queues(q, i)' \/ Awaits(q, i)' <=> Queues(q, i) \/ Awaits(q, i))
    BY <1>1, <1>2, <1>3, <1>4, <2>1, <2>2, WaitsPlain
  <2>4. \A i \in Bufs : /\ buf'[i].blockno = buf[i].blockno /\ buf'[i].valid = buf[i].valid
                        /\ buf'[i].dirty = buf[i].dirty /\ buf'[i].data = buf[i].data
    BY <1>2, <2>2 DEF BufRecords
  <2> QED
    BY <2>1, <2>3, <2>4, BlocksKept
<1>6. CASE acquiresleep(p)
  <2>1. At(p, "lock") /\ disk' = disk /\ Arg(p) \in Bufs
    BY <1>1, <1>4, <1>6, ArgType DEF acquiresleep
  <2>2. PICK j \in Bufs : j = Arg(p)
    BY <2>1
  <2>3. buf' = [buf EXCEPT ![j].lock = p]
    BY <1>6, <2>2 DEF acquiresleep
  <2>4. \A i \in Bufs : /\ buf'[i].blockno = buf[i].blockno /\ buf'[i].valid = buf[i].valid
                        /\ buf'[i].dirty = buf[i].dirty /\ buf'[i].data = buf[i].data
    BY <1>2, <2>3 DEF BufRecords
  <2>5. \A q \in Procs, i \in Bufs : buf[i].dirty =>
          (Queues(q, i)' \/ Awaits(q, i)' <=> Queues(q, i) \/ Awaits(q, i))
    <3>1. CASE buf[j].valid
      <4>1. Then(p, << >>)
        BY <1>6, <2>2, <3>1 DEF acquiresleep
      <4> QED
        BY ZenonT(60), <1>1, <1>2, <1>3, <2>1, <4>1, WaitsPlain
    <3>2. CASE ~buf[j].valid
      <4>1. Then(p, <<<<"iderw", j>>>>)
        BY <1>6, <2>2, <3>2 DEF acquiresleep
      <4>2. ~buf[j].dirty
        BY <1>1, <3>2 DEF Cache, DirtyValid
      <4> QED
        BY <1>1, <1>2, <1>3, <1>4, <2>1, <4>1, <4>2, WaitsPlain
    <3> QED
      BY <3>1, <3>2
  <2> QED
    BY <2>1, <2>4, <2>5, BlocksKept
<1>7. CASE IderwQueue(p)
  <2>1. At(p, "iderw") /\ disk' = disk /\ Arg(p) \in Bufs /\ buf' = buf
    BY <1>1, <1>4, <1>7, ArgType DEF IderwQueue
  <2>2. PICK j \in Bufs : j = Arg(p)
    BY <2>1
  <2>3. Then(p, <<<<"wait", j>>>>) /\ \A i \in Bufs : Queues(p, i) <=> i = j
    BY <1>7, <2>1, <2>2 DEF IderwQueue, Queues
  <2>4. \A i \in Bufs : ~Awaits(p, i)
    BY <2>1 DEF Awaits, At
  <2>5. \A q \in Procs, i \in Bufs :
          (Queues(q, i)' \/ Awaits(q, i)' <=> Queues(q, i) \/ Awaits(q, i))
    BY <1>1, <1>2, <1>4, <2>3, <2>4, WaitsPlain
  <2> QED
    BY <2>1, <2>5, BlocksKept
<1>8. CASE IderwDone(p)
  <2>1. At(p, "wait") /\ disk' = disk /\ Arg(p) \in Bufs /\ buf' = buf /\ Then(p, << >>)
        /\ ~buf[Arg(p)].dirty
    BY <1>1, <1>4, <1>8, ArgType DEF IderwDone
  <2>2. \A i \in Bufs : buf[i].dirty => ~Awaits(p, i) /\ ~Queues(p, i)
    BY <2>1 DEF Awaits, Queues, At
  <2>3. \A q \in Procs, i \in Bufs : buf[i].dirty =>
          (Queues(q, i)' \/ Awaits(q, i)' <=> Queues(q, i) \/ Awaits(q, i))
    BY <1>1, <1>2, <2>1, <2>2, WaitsPlain
  <2> QED
    BY <2>1, <2>3, BlocksKept
<1>9. CASE releasesleep(p)
  <2>1. At(p, "brelse") /\ disk' = disk /\ Arg(p) \in Blocks
    BY <1>1, <1>9, ArgType DEF releasesleep
  <2>2. Owes(p, Arg(p)) /\ \A i \in Bufs : ~Asks(p, i)
    BY <1>1, <1>2, <2>1, OwesNext DEF Asks, At
  <2>3. PICK j \in Bufs : j = Held(p, Arg(p))
    BY <1>1, <2>1, <2>2, HeldIs
  <2>4. buf' = [buf EXCEPT ![j].lock = None] /\ Then(p, <<<<"unref", j>>>>)
    BY <1>9, <2>3 DEF releasesleep
  <2>5. \A q \in Procs, i \in Bufs :
          (Queues(q, i)' \/ Awaits(q, i)' <=> Queues(q, i) \/ Awaits(q, i))
    BY <1>1, <1>2, <1>3, <1>4, <2>1, <2>4, WaitsPlain
  <2>6. \A i \in Bufs : /\ buf'[i].blockno = buf[i].blockno /\ buf'[i].valid = buf[i].valid
                        /\ buf'[i].dirty = buf[i].dirty /\ buf'[i].data = buf[i].data
    BY <1>2, <2>4 DEF BufRecords
  <2> QED
    BY <2>1, <2>5, <2>6, BlocksKept
<1>10. CASE BrelseUnref(p)
  <2>1. At(p, "unref") /\ disk' = disk /\ Arg(p) \in Bufs /\ Then(p, << >>)
    BY <1>1, <1>4, <1>10, ArgType DEF BrelseUnref
  <2>2. PICK j \in Bufs : j = Arg(p)
    BY <2>1
  <2>3. buf' = [buf EXCEPT ![j].refcnt = Unref(j)]
    BY <1>10, <2>2 DEF BrelseUnref
  <2>4. \A q \in Procs, i \in Bufs :
          (Queues(q, i)' \/ Awaits(q, i)' <=> Queues(q, i) \/ Awaits(q, i))
    BY ZenonT(60), <1>1, <1>2, <1>3, <2>1, WaitsPlain
  <2>5. \A i \in Bufs : /\ buf'[i].blockno = buf[i].blockno /\ buf'[i].valid = buf[i].valid
                        /\ buf'[i].dirty = buf[i].dirty /\ buf'[i].data = buf[i].data
    BY <1>2, <2>3 DEF BufRecords
  <2> QED
    BY <2>1, <2>4, <2>5, BlocksKept
<1>11. CASE BgetRecycle(p)
  <2>1. At(p, "bread") /\ disk' = disk /\ Arg(p) \in Blocks /\ Cached(Arg(p)) = {}
    BY <1>1, <1>11, ArgType DEF BgetRecycle
  <2>2. PICK x \in Blocks : x = Arg(p)
    BY <2>1
  <2>3. PICK k \in Recyclable :
          /\ buf' = [buf EXCEPT ![lru[k]].blockno = Arg(p), ![lru[k]].valid = FALSE,
                                ![lru[k]].dirty = FALSE, ![lru[k]].refcnt = 1]
          /\ Then(p, <<<<"lock", lru[k]>>>>)
    BY <1>11 DEF BgetRecycle
  <2>4. PICK j \in Bufs : j = lru[k] /\ buf[j].refcnt = 0 /\ ~buf[j].dirty
    BY <1>1 DEF Typed, Recyclable
  <2>5. PICK r : r = [buf[j] EXCEPT !.blockno = x, !.valid = FALSE, !.dirty = FALSE, !.refcnt = 1]
    OBVIOUS
  <2>6. r.blockno = x /\ r.valid = FALSE /\ r.dirty = FALSE
    BY <1>2, <2>5 DEF BufRecords
  <2>7. buf'[j] = r /\ \A i \in Bufs : i # j => buf'[i] = buf[i]
    BY <1>2, <2>2, <2>3, <2>4, <2>5
  <2>8. \A q \in Procs : ~Queues(q, j) /\ ~Awaits(q, j)
    <3>1. \A q \in Procs : buf[j].lock # q
      BY <1>1, <2>4, Unused
    <3> QED
      BY <1>1, <3>1 DEF Cache, Locked
  <2>9. \A q \in Procs, i \in Bufs :
          (Queues(q, i)' \/ Awaits(q, i)' <=> Queues(q, i) \/ Awaits(q, i))
    <3>1. Then(p, <<<<"lock", j>>>>)
      BY <2>3, <2>4
    <3> QED
      BY <1>1, <1>2, <1>3, <1>4, <2>1, <3>1, WaitsPlain
  <2>10. \A i \in Bufs : buf[i].blockno # x
    BY <2>1, <2>2 DEF Cached
  <2>11. ASSUME NEW b \in Blocks
         PROVE  /\ Content(b)' = Content(b) /\ (Dirty(b)' <=> Dirty(b))
                /\ \A q \in Procs : Dirty(b) => (Waits(q, b)' <=> Waits(q, b))
    <3>1. CASE b = x
      <4>1. Content(b) = disk[b] /\ ~Dirty(b)
        BY <2>10, <3>1, BlockIs DEF BlocksAre
      <4>2. Content(b)' = disk'[b] /\ ~Dirty(b)'
        BY <2>6, <2>7, <3>1, BlockWill
      <4> QED
        BY <2>1, <4>1, <4>2
    <3>2. CASE b # x /\ buf[j].blockno = b
      <4>1. ~Dirty(b)
        BY <2>4, <3>2, BlockIs DEF BlocksAre
      <4>2. Content(b) = disk[b]
        BY <4>1 DEF Clean
      <4>3. \A i \in Bufs : buf'[i].blockno # b
        <5>1. UniqueBlocks /\ b # None
          BY <1>1, LogAssumption DEF Cache
        <5>2. \A i \in Bufs : i # j => buf[i].blockno # b
          BY <3>2, <5>1 DEF UniqueBlocks
        <5> QED
          BY <2>6, <2>7, <3>2, <5>2
      <4>4. Content(b)' = disk'[b] /\ ~Dirty(b)'
        BY <4>3, BlockWill
      <4> QED
        BY <2>1, <4>1, <4>2, <4>4
    <3>3. CASE b # x /\ buf[j].blockno # b
      <4>1. CASE \E i \in Bufs : buf[i].blockno = b
        <5> PICK i \in Bufs : buf[i].blockno = b
          BY <4>1
        <5>1. buf'[i] = buf[i]
          BY <2>7, <3>3
        <5>2. /\ Content(b) = IF buf[i].valid THEN buf[i].data ELSE disk[b]
              /\ Dirty(b) <=> buf[i].dirty
              /\ \A q : Waits(q, b) <=> Queues(q, i) \/ Awaits(q, i)
          BY BlockIs DEF BlocksAre
        <5>3. /\ Content(b)' = IF buf'[i].valid THEN buf'[i].data ELSE disk'[b]
              /\ Dirty(b)' <=> buf'[i].dirty
              /\ \A q : Waits(q, b)' <=> Queues(q, i)' \/ Awaits(q, i)'
          BY <5>1, BlockWill
        <5> QED
          BY <2>1, <2>9, <5>1, <5>2, <5>3
      <4>2. CASE \A i \in Bufs : buf[i].blockno # b
        <5>1. Content(b) = disk[b] /\ ~Dirty(b)
          BY <4>2, BlockIs DEF BlocksAre
        <5>2. \A i \in Bufs : buf'[i].blockno # b
          BY <2>6, <2>7, <3>3, <4>2
        <5>3. Content(b)' = disk'[b] /\ ~Dirty(b)'
          BY <5>2, BlockWill
        <5> QED
          BY <2>1, <5>1, <5>3
      <4> QED
        BY <4>1, <4>2
    <3> QED
      BY <3>1, <3>2, <3>3
  <2> QED
    BY <2>1, <2>11 DEF SameBlocks, SameWaits
<1> QED
  BY <1>5, <1>6, <1>7, <1>8, <1>9, <1>10, <1>11 DEF CacheStep

-----------------------------------------------------------------------------
(* Phases and steps *)

Loops == {"write_log", "install_trans"}

\* The phase of the program behind s.
LEMMA PhaseBehind ==
  ASSUME NEW c \in Seq(Instrs), c # << >>, NEW s \in Seq(Instrs),
         \A k \in 1 .. Len(s) : s[k][1] # "write_head"
  PROVE  /\ LogsIn(s \o Tail(c)) <=> \E k \in 2 .. Len(c) - 3 : c[k][1] = "write_head"
         /\ \A o, t, b : AllPast(s \o Tail(c), o, t, b) <=>
              /\ \A k \in 1 .. Len(s) : Past(s[k], o, t, b)
              /\ \A k \in 2 .. Len(c) : Past(c[k], o, t, b)
<1>1. PICK d : d = s \o Tail(c)
  OBVIOUS
<1>2. PICK m \in Nat \ {0}, n \in Nat : m = Len(c) /\ n = Len(s)
  BY Prepend
<1>3. /\ Len(d) = n + m - 1
      /\ \A k \in 1 .. n : d[k] = s[k]
      /\ \A k \in 2 .. m : d[k + n - 1] = c[k]
  <2>1. /\ Len(s \o Tail(c)) = Len(s) + Len(c) - 1
        /\ \A k \in 1 .. Len(s) : (s \o Tail(c))[k] = s[k]
        /\ \A k \in 2 .. Len(c) : (s \o Tail(c))[k + Len(s) - 1] = c[k]
    BY Prepend
  <2> QED
    BY <1>1, <1>2, <2>1
<1>4. \A k \in 1 .. n : s[k][1] # "write_head"
  BY <1>2
<1>5. \A k \in 1 .. n + m - 1 : k \in 1 .. n \/ (k + 1 - n \in 2 .. m /\ d[k] = c[k + 1 - n])
  <2> TAKE k \in 1 .. n + m - 1
  <2>1. CASE k <= n
    BY <2>1
  <2>2. CASE k > n
    <3>1. k + 1 - n \in 2 .. m /\ (k + 1 - n) + n - 1 = k
      BY <2>2
    <3>2. d[(k + 1 - n) + n - 1] = c[k + 1 - n]
      BY <1>3, <3>1
    <3> QED
      BY <3>1, <3>2
  <2> QED
    BY <2>1, <2>2
<1>6. LogsIn(d) <=> \E k \in 2 .. m - 3 : c[k][1] = "write_head"
  <2>1. ASSUME LogsIn(d) PROVE \E k \in 2 .. m - 3 : c[k][1] = "write_head"
    <3>1. PICK k \in 1 .. (n + m - 1) - 3 : d[k][1] = "write_head"
      BY <1>3, <2>1 DEF LogsIn
    <3>2. k \in 1 .. n + m - 1 /\ k \notin 1 .. n
      BY <1>3, <1>4, <3>1
    <3>3. k + 1 - n \in 2 .. m - 3 /\ d[k] = c[k + 1 - n]
      BY <1>5, <3>2
    <3> QED
      BY <3>1, <3>3
  <2>2. ASSUME NEW k \in 2 .. m - 3, c[k][1] = "write_head" PROVE LogsIn(d)
    <3>1. k \in 2 .. m /\ k + n - 1 \in 1 .. (n + m - 1) - 3
      OBVIOUS
    <3>2. d[k + n - 1] = c[k]
      BY <1>3, <3>1
    <3> QED
      BY <1>3, <2>2, <3>1, <3>2 DEF LogsIn
  <2> QED
    BY <2>1, <2>2
<1>7. ASSUME NEW o, NEW t, NEW b
      PROVE  AllPast(d, o, t, b) <=> /\ \A k \in 1 .. n : Past(s[k], o, t, b)
                                     /\ \A k \in 2 .. m : Past(c[k], o, t, b)
  <2>1. ASSUME AllPast(d, o, t, b), NEW k \in 1 .. n PROVE Past(s[k], o, t, b)
    <3>1. k \in 1 .. n + m - 1
      OBVIOUS
    <3> QED
      BY <1>3, <2>1, <3>1 DEF AllPast
  <2>2. ASSUME AllPast(d, o, t, b), NEW k \in 2 .. m PROVE Past(c[k], o, t, b)
    <3>1. k + n - 1 \in 1 .. n + m - 1
      OBVIOUS
    <3>2. Past(d[k + n - 1], o, t, b)
      BY <1>3, <2>2, <3>1 DEF AllPast
    <3> QED
      BY <1>3, <3>2
  <2>3. ASSUME \A k \in 1 .. n : Past(s[k], o, t, b), \A k \in 2 .. m : Past(c[k], o, t, b)
        PROVE  AllPast(d, o, t, b)
    <3>1. ASSUME NEW k \in 1 .. n + m - 1 PROVE Past(d[k], o, t, b)
      BY <1>3, <1>5, <2>3
    <3> QED
      BY <1>3, <3>1 DEF AllPast
  <2> QED
    BY <2>1, <2>2, <2>3
<1> QED
  BY <1>1, <1>2, <1>6, <1>7

\* What the order of a program says of its phase.
LEMMA PhaseOrder ==
  ASSUME NEW c \in Seq(Instrs), Ordered(c)
  PROVE  /\ HasOp(c, "clear") \/ HasOp(c, "write_head") => LastOp(c) \in {"done", "up"}
         /\ HasOp(c, "read_head") => LastOp(c) = "up"
         /\ LogsIn(c) => LastOp(c) = "done" /\ HasOp(c, "clear")
         /\ HasOp(c, "read_head") => HasOp(c, "clear")
         /\ c # << >> /\ c[1][1] = "clear" =>
              ~LogsIn(c) /\ ~HasOp(c, "read_head") /\ \A o \in Loops : \A t, b : AllPast(c, o, t, b)
         /\ c # << >> /\ c[1][1] \in {"done", "up"} =>
              ~HasOp(c, "write_head") /\ ~HasOp(c, "clear") /\ ~LogsIn(c)
<1>1. PICK m \in Nat : m = Len(c)
  BY LenProperties
<1>2. \A k \in 1 .. m : OrderedAt(c, k)
  BY <1>1 DEF Ordered
<1>3. HasOp(c, "clear") \/ HasOp(c, "write_head") => LastOp(c) \in {"done", "up"}
  BY <1>1, <1>2 DEF HasOp, OrderedAt
<1>4. HasOp(c, "read_head") => LastOp(c) = "up"
  BY <1>1, <1>2 DEF HasOp, OrderedAt
<1>5. ASSUME NEW k \in 1 .. m, k = m - 7, c[k + 2] = <<"install_trans", 1>>
      PROVE  HasOp(c, "clear")
  <2>1. k + 2 \in 1 .. m /\ c[k + 2][1] = "install_trans" /\ k + 3 \in 1 .. m /\ (k + 2) + 1 = k + 3
    BY <1>5
  <2>2. c[(k + 2) + 1][1] = "clear"
    BY <1>2, <2>1 DEF OrderedAt
  <2> QED
    BY <1>1, <2>1, <2>2 DEF HasOp
<1>6. HasOp(c, "read_head") => HasOp(c, "clear")
  <2> SUFFICES ASSUME NEW k \in 1 .. m, c[k][1] = "read_head" PROVE HasOp(c, "clear")
    BY <1>1 DEF HasOp
  <2>1. k = m - 7 /\ c[k + 2] = <<"install_trans", 1>>
    BY <1>1, <1>2 DEF OrderedAt
  <2> QED
    BY <1>5, <2>1
<1>7. ASSUME LogsIn(c)
      PROVE  /\ LastOp(c) = "done" /\ HasOp(c, "clear")
             /\ \E k \in 1 .. m : k = m - 7 /\ c[k][1] = "write_head"
  <2>1. PICK k \in 1 .. m - 3 : c[k][1] = "write_head"
    BY <1>1, <1>7 DEF LogsIn
  <2>2. k \in 1 .. m /\ k # m - 2
    OBVIOUS
  <2>3. k = m - 7 /\ c[k + 2] = <<"install_trans", 1>> /\ LastOp(c) = "done"
    BY <1>1, <1>2, <2>1, <2>2 DEF OrderedAt
  <2> QED
    BY <1>5, <2>1, <2>2, <2>3
<1>8. ASSUME c # << >>, c[1][1] = "clear"
      PROVE  /\ ~LogsIn(c) /\ ~HasOp(c, "read_head")
             /\ \A o \in Loops : \A t, b : AllPast(c, o, t, b)
  <2>1. m = 5
    <3>1. 1 \in 1 .. m
      BY <1>1, <1>8, EmptySeq
    <3>2. 1 = m - 4
      BY <1>1, <1>2, <1>8, <3>1 DEF OrderedAt
    <3> QED
      BY <3>2
  <2>2. ~LogsIn(c)
    <3> SUFFICES ASSUME LogsIn(c) PROVE FALSE
      OBVIOUS
    <3> QED
      BY <1>7, <2>1
  <2>3. \A k \in 1 .. m : c[k][1] # "read_head"
    <3> SUFFICES ASSUME NEW k \in 1 .. m, c[k][1] = "read_head" PROVE FALSE
      OBVIOUS
    <3>1. k = m - 7
      BY <1>1, <1>2 DEF OrderedAt
    <3> QED
      BY <2>1, <3>1
  <2>4. \A k \in 1 .. m : c[k][1] \notin Loops
    <3> SUFFICES ASSUME NEW k \in 1 .. m, c[k][1] \in Loops PROVE FALSE
      OBVIOUS
    <3>1. k = m - 5 \/ k = m - 9
      BY <1>1, <1>2 DEF OrderedAt, Loops
    <3> QED
      BY <2>1, <3>1
  <2>5. \A k \in 1 .. m : c[k][1] # "copy"
    <3> SUFFICES ASSUME NEW k \in 1 .. m, c[k][1] = "copy" PROVE FALSE
      OBVIOUS
    <3>1. k + 3 <= Len(c) /\ c[k + 3][1] \in {"write_log", "install_trans"}
      BY <1>2 DEF OrderedAt
    <3>2. k + 3 \in 1 .. m
      BY <1>1, <3>1
    <3> QED
      BY <2>4, <3>1, <3>2 DEF Loops
  <2> QED
    BY <1>1, <2>2, <2>3, <2>4, <2>5 DEF HasOp, AllPast, Past, OpIs
<1>9. ASSUME c # << >>, c[1][1] \in {"done", "up"}
      PROVE  ~HasOp(c, "write_head") /\ ~HasOp(c, "clear") /\ ~LogsIn(c)
  <2>1. \A o : HasOp(c, o) <=> o = c[1][1]
    BY <1>9, FirstTells
  <2>2. ~HasOp(c, "clear") /\ ~HasOp(c, "write_head")
    BY <1>9, <2>1
  <2> QED
    BY <1>7, <2>2
<1> QED
  BY <1>3, <1>4, <1>6, <1>7, <1>8, <1>9

\* Every process stays in its phase, and no copy is made.
SamePhases == \A q \in Procs :
  /\ Finishing(q)' <=> Finishing(q)
  /\ LastOp(code'[q]) = "done" <=> LastOp(code[q]) = "done"
  /\ Logging(q)' <=> Logging(q)
  /\ \A o \in {"clear", "read_head", "write_head"} : Has(q, o)' <=> Has(q, o)
  /\ Finishing(q) => \A t \in 1 .. Len(lh) :
       (Logged(q, t)' => Logged(q, t)) /\ (Installed(q, t)' => Installed(q, t))

\* The blocks that DInv speaks of.
LEMMA Places ==
  ASSUME LInv
  PROVE  /\ \A t \in 1 .. Len(lh) : /\ lh[t] \in Homes /\ lh[t] \in Blocks /\ t \in LogDataBlocks
                                    /\ LogBlocks[t] \in Blocks
         /\ \A t \in LogDataBlocks : LogBlocks[t] \in Blocks /\ LogBlocks[t] \notin Homes
                                     /\ LogBlocks[t] # Header
         /\ Header \in Blocks /\ Header \notin Homes /\ Homes \subseteq Blocks
         /\ \A t \in 1 .. Len(head) : /\ head[t] \in Homes /\ head[t] \in Blocks
                                      /\ LogBlocks[t] \in Blocks /\ t \in LogDataBlocks
<1>1. lh \in Headers /\ head \in Headers
  BY DEF LInv, Typed, head
<1>2. ASSUME NEW h \in Headers, NEW t \in 1 .. Len(h)
      PROVE  h[t] \in Homes /\ h[t] \in Blocks /\ t \in LogDataBlocks /\ LogBlocks[t] \in Blocks
  <2>1. Len(h) \in Nat
    BY LenProperties DEF Headers
  <2>2. t \in Nat \ {0} /\ t <= Len(h)
    BY <2>1
  <2> QED
    BY <2>2, LogPlaces
<1>3. ASSUME NEW t \in LogDataBlocks
      PROVE  LogBlocks[t] \in Blocks /\ LogBlocks[t] \notin Homes /\ LogBlocks[t] # Header
  BY <1>3, LogAssumption, ElementOfSeq DEF LogDataBlocks
<1> QED
  BY <1>1, <1>2, <1>3, LogAssumption

\* Phases are those of who commits or recovers, and that is one process at most.
LEMMA PhaseOf ==
  ASSUME LInv, NEW p \in Procs
  PROVE  /\ code[p] \in Seq(Instrs) /\ Ordered(code[p])
         /\ Logging(p) => Finishing(p) /\ LastOp(code[p]) = "done" /\ Has(p, "clear")
                          /\ ~Installing(p) /\ ~Erasing(p) /\ ~Has(p, "read_head")
         /\ Installing(p) => Finishing(p) /\ ~Erasing(p)
         /\ Erasing(p) => Finishing(p) /\ lh = << >>
         /\ Has(p, "read_head") => Finishing(p) /\ LastOp(code[p]) = "up" /\ Has(p, "clear")
                                   /\ lh = << >>
         /\ \A q \in Procs : Finishing(p) /\ Finishing(q) => q = p
<1>1. code[p] \in Seq(Instrs) /\ Ordered(code[p])
  BY DEF LInv, Typed, Programs
<1>2. \A q \in Procs : Finishing(p) /\ Finishing(q) => q = p
  BY DEF LInv, Counted
<1>3. (Finishing(p) /\ ~Has(p, "clear") => lh = << >>) /\ (Has(p, "read_head") => lh = << >>)
  BY DEF LInv, Cleared
<1>4. /\ Has(p, "clear") => Finishing(p)
      /\ Has(p, "read_head") => LastOp(code[p]) = "up" /\ Has(p, "clear")
      /\ Logging(p) => LastOp(code[p]) = "done" /\ Has(p, "clear")
  BY <1>1, PhaseOrder DEF Has, Finishing, Logging
<1>5. LastOp(code[p]) \in {"done", "up"} <=> Finishing(p)
  BY DEF Finishing
<1> QED
  BY <1>1, <1>2, <1>3, <1>4, <1>5 DEF Installing, Erasing

\* The invariant on contents depends on nothing else.
LEMMA DataKept ==
  ASSUME LInv, DInv, SameBlocks, SameWaits, SamePhases, lh' = lh, up' = up
  PROVE  DInv'
<1>1. /\ disk' = disk /\ head' = head /\ InLog' = InLog
      /\ \A b \in Blocks : Content(b)' = Content(b) /\ (Dirty(b)' <=> Dirty(b))
      /\ \A q \in Procs, b \in Blocks : Dirty(b) => (Waits(q, b)' <=> Waits(q, b))
  BY DEF SameBlocks, SameWaits, head, InLog
<1>2. /\ \A t \in 1 .. Len(lh) : /\ lh[t] \in Homes /\ lh[t] \in Blocks /\ t \in LogDataBlocks
                                 /\ LogBlocks[t] \in Blocks
      /\ \A t \in LogDataBlocks : LogBlocks[t] \in Blocks
      /\ Header \in Blocks /\ Homes \subseteq Blocks
  BY Places
<1>3. \A q \in Procs :
        /\ Finishing(q)' <=> Finishing(q)
        /\ LastOp(code'[q]) = "done" <=> LastOp(code[q]) = "done"
        /\ Logging(q)' <=> Logging(q)
        /\ Has(q, "write_head")' <=> Has(q, "write_head")
        /\ Installing(q)' <=> Installing(q)
        /\ Erasing(q)' <=> Erasing(q)
  BY DEF SamePhases, Installing, Erasing
<1>4. Clean'
  BY <1>1 DEF DInv, Clean
<1>5. Dirtied'
  <2>1. Dirtied
    BY DEF DInv
  <2>2. (\A b \in Homes : Dirty(b) => b \in InLog)'
    BY <1>1, <1>2, <2>1 DEF Dirtied
  <2>3. (\A p \in Procs, b \in Homes : Waits(p, b) /\ Dirty(b) => Installing(p) /\ head = lh)'
    BY <1>1, <1>2, <1>3, <2>1 DEF Dirtied
  <2>4. (\A t \in LogDataBlocks : Dirty(LogBlocks[t]) =>
           \E p \in Procs : Logging(p) /\ Waits(p, LogBlocks[t]))'
    BY <1>1, <1>2, <1>3, <2>1 DEF Dirtied, LogDataBlocks
  <2>5. (Dirty(Header) => /\ Content(Header) = lh
                          /\ \E p \in Procs : (Installing(p) \/ Erasing(p)) /\ Waits(p, Header))'
    BY <1>1, <1>2, <1>3, <2>1 DEF Dirtied
  <2> QED
    BY <2>2, <2>3, <2>4, <2>5 DEF Dirtied
<1>6. HeadOnDisk'
  BY <1>1, <1>2, <1>3 DEF DInv, HeadOnDisk
<1>7. Copied'
  <2> SUFFICES ASSUME NEW p \in Procs, NEW t \in 1 .. Len(lh)
               PROVE  /\ Logging(p)' /\ Logged(p, t)' => Content(LogBlocks[t])' = Content(lh[t])'
                      /\ Installing(p)' /\ (LastOp(code'[p]) = "done" \/ Installed(p, t)') =>
                           disk'[LogBlocks[t]] = Content(lh[t])'
                      /\ Installing(p)' /\ Installed(p, t)' /\ Dirty(lh[t])' => Waits(p, lh[t])'
    BY DEF Copied
  <2>1. /\ Logging(p) /\ Logged(p, t) => Content(LogBlocks[t]) = Content(lh[t])
        /\ Installing(p) /\ (LastOp(code[p]) = "done" \/ Installed(p, t)) =>
             disk[LogBlocks[t]] = Content(lh[t])
        /\ Installing(p) /\ Installed(p, t) /\ Dirty(lh[t]) => Waits(p, lh[t])
    BY DEF DInv, Copied
  <2>2. PICK b \in Blocks, l \in Blocks : b = lh[t] /\ l = LogBlocks[t]
    BY <1>2
  <2>3. /\ Content(lh[t])' = Content(b) /\ (Dirty(lh[t])' <=> Dirty(b))
        /\ Content(LogBlocks[t])' = Content(l)
        /\ (Dirty(b) => (Waits(p, lh[t])' <=> Waits(p, b)))
    <3>1. lh'[t] = b
      BY <2>2
    <3>2. Content(b)' = Content(b) /\ (Dirty(b)' <=> Dirty(b)) /\ Content(l)' = Content(l)
          /\ (Dirty(b) => (Waits(p, b)' <=> Waits(p, b)))
      BY <1>1
    <3> QED
      BY <2>2, <3>1, <3>2
  <2>4. Logging(p) \/ Installing(p) =>
          (Logged(p, t)' => Logged(p, t)) /\ (Installed(p, t)' => Installed(p, t))
    BY PhaseOf DEF SamePhases
  <2> QED
    BY <1>1, <1>3, <2>1, <2>2, <2>3, <2>4
<1> QED
  BY <1>4, <1>5, <1>6, <1>7 DEF DInv

\* What a step does to the phase of its process, if it does its first instruction and
\* goes on with at most one of the buffer cache.
LEMMA PlainPhase ==
  ASSUME LInv, NEW p \in Procs, code[p] # << >>, NEW s,
         s = << >> \/ \E o \in Low, i \in Bufs : s = <<<<o, i>>>>, Then(p, s)
  PROVE  /\ \A q \in Procs : q # p => code'[q] = code[q]
         /\ code[p][1][1] \notin {"done", "up"} =>
              (Finishing(p)' <=> Finishing(p)) /\ (LastOp(code'[p]) = "done" <=> LastOp(code[p]) = "done")
         /\ Logging(p)' <=> \E k \in 2 .. Len(code[p]) - 3 : code[p][k][1] = "write_head"
         /\ code[p][1][1] # "write_head" => (Logging(p)' <=> Logging(p))
         /\ \A o \in {"clear", "read_head", "write_head"} :
              /\ Has(p, o)' <=> \E k \in 2 .. Len(code[p]) : code[p][k][1] = o
              /\ code[p][1][1] # o => (Has(p, o)' <=> Has(p, o))
         /\ \A o \in Loops : \A t, b :
              AllPast(code'[p], o, t, b) <=> \A k \in 2 .. Len(code[p]) : Past(code[p][k], o, t, b)
<1>1. Typed /\ Programs
  BY DEF LInv
<1>2. /\ \A q \in Procs : q # p => code'[q] = code[q]
      /\ Len(code[p]) # 1 => LastOp(code'[p]) = LastOp(code[p])
      /\ Len(code[p]) = 1 => LastOp(code'[p]) \notin {"end", "done", "up"}
      /\ \A o : o \notin Low =>
           (HasOp(code'[p], o) <=> \E k \in 2 .. Len(code[p]) : code[p][k][1] = o)
  BY <1>1, PlainStep
<1>3. code[p] \in Seq(Instrs) /\ Balanced(code[p]) /\ Ordered(code[p])
  BY <1>1 DEF Typed, Programs
<1>4. s \in Seq(Instrs)
  BY <1>3, PlainBehind
<1>5. code'[p] = s \o Tail(code[p])
  BY <1>1, <1>4, Stepped
<1>6. \A k \in 1 .. Len(s) : s[k][1] \in Low
  <2>1. CASE s = << >>
    BY <2>1
  <2>2. CASE \E o \in Low, i \in Bufs : s = <<<<o, i>>>>
    BY <2>2
  <2> QED
    BY <2>1, <2>2
<1>7. \A k \in 1 .. Len(s) : /\ s[k][1] # "write_head" /\ s[k][1] # "copy"
                             /\ \A o \in Loops : s[k][1] # o
  BY <1>6 DEF Low, Loops
<1>8. /\ LogsIn(s \o Tail(code[p])) <=> \E k \in 2 .. Len(code[p]) - 3 : code[p][k][1] = "write_head"
      /\ \A o, t, b : AllPast(s \o Tail(code[p]), o, t, b) <=>
           /\ \A k \in 1 .. Len(s) : Past(s[k], o, t, b)
           /\ \A k \in 2 .. Len(code[p]) : Past(code[p][k], o, t, b)
  BY <1>3, <1>4, <1>7, PhaseBehind
<1>9. Logging(p)' <=> \E k \in 2 .. Len(code[p]) - 3 : code[p][k][1] = "write_head"
  BY <1>5, <1>8 DEF Logging
<1>10. code[p][1][1] # "write_head" => (Logging(p)' <=> Logging(p))
  <2>1. PICK m \in Nat : m = Len(code[p])
    BY <1>3, LenProperties
  <2>2. \A k \in 1 .. m - 3 : k = 1 \/ k \in 2 .. m - 3
    OBVIOUS
  <2>3. \A k \in 2 .. m - 3 : k \in 1 .. m - 3
    OBVIOUS
  <2> QED
    BY <1>9, <2>1, <2>2, <2>3 DEF Logging, LogsIn
<1>11. ASSUME NEW o \in Loops, NEW t, NEW b
       PROVE  AllPast(code'[p], o, t, b) <=> \A k \in 2 .. Len(code[p]) : Past(code[p][k], o, t, b)
  <2>1. \A k \in 1 .. Len(s) : Past(s[k], o, t, b)
    BY <1>7 DEF Past, OpIs
  <2> QED
    BY <1>5, <1>8, <2>1
<1>12. ASSUME NEW o \in {"clear", "read_head", "write_head"}
       PROVE  /\ Has(p, o)' <=> \E k \in 2 .. Len(code[p]) : code[p][k][1] = o
              /\ code[p][1][1] # o => (Has(p, o)' <=> Has(p, o))
  <2>1. o \notin Low
    BY DEF Low
  <2>2. HasOp(code[p], o) <=> code[p][1][1] = o \/ \E k \in 2 .. Len(code[p]) : code[p][k][1] = o
    BY <1>3, <1>4, HasBehind
  <2> QED
    BY <1>2, <2>1, <2>2 DEF Has
<1>13. ASSUME code[p][1][1] \notin {"done", "up"}
       PROVE  /\ Finishing(p)' <=> Finishing(p)
              /\ LastOp(code'[p]) = "done" <=> LastOp(code[p]) = "done"
  <2>1. CASE Len(code[p]) # 1
    BY <1>2, <2>1 DEF Finishing
  <2>2. CASE Len(code[p]) = 1
    <3>1. LastOp(code[p]) = code[p][1][1]
      BY <2>2 DEF LastOp
    <3> QED
      BY <1>2, <1>13, <2>2, <3>1 DEF Finishing
  <2> QED
    BY <2>1, <2>2
<1> QED
  BY <1>2, <1>9, <1>10, <1>11, <1>12, <1>13

\* Another process is in the phase it was in.
LEMMA OtherPhase ==
  ASSUME NEW q, code'[q] = code[q]
  PROVE  /\ Finishing(q)' <=> Finishing(q)
         /\ Logging(q)' <=> Logging(q)
         /\ \A o : Has(q, o)' <=> Has(q, o)
         /\ Installing(q)' <=> Installing(q)
         /\ Erasing(q)' <=> Erasing(q)
         /\ \A t : Logged(q, t)' <=> Logged(q, t)
         /\ lh' = lh => \A t : Installed(q, t)' <=> Installed(q, t)
<1>1. (Finishing(q)' <=> Finishing(q)) /\ \A o : Has(q, o)' <=> Has(q, o)
  BY Elsewhere
<1>2. Logging(q)' <=> Logging(q)
  BY DEF Logging
<1>3. \A t : Logged(q, t)' <=> Logged(q, t)
  BY DEF Logged
<1>4. lh' = lh => \A t : Installed(q, t)' <=> Installed(q, t)
  BY DEF Installed
<1> QED
  BY <1>1, <1>2, <1>3, <1>4 DEF Installing, Erasing

\* The steps that leave every process in its phase.
LEMMA PlainSamePhases ==
  ASSUME LInv, NEW p \in Procs, code[p] # << >>, NEW s,
         s = << >> \/ \E o \in Low, i \in Bufs : s = <<<<o, i>>>>, Then(p, s), lh' = lh,
         code[p][1][1] \notin {"done", "up", "clear", "read_head", "write_head", "copy"},
         code[p][1][1] \in Loops => code[p][1][2] > Len(lh) /\ code[p][1][2] \in Nat
  PROVE  SamePhases
<1>1. ASSUME NEW q \in Procs
      PROVE  /\ Finishing(q)' <=> Finishing(q)
             /\ LastOp(code'[q]) = "done" <=> LastOp(code[q]) = "done"
             /\ Logging(q)' <=> Logging(q)
             /\ \A o \in {"clear", "read_head", "write_head"} : Has(q, o)' <=> Has(q, o)
             /\ \A t \in 1 .. Len(lh) :
                  (Logged(q, t)' => Logged(q, t)) /\ (Installed(q, t)' => Installed(q, t))
  <2>1. CASE q # p
    <3>1. code'[q] = code[q]
      BY <2>1, PlainPhase
    <3> QED
      BY <3>1, OtherPhase
  <2>2. CASE q = p
    <3>1. /\ Finishing(p)' <=> Finishing(p)
          /\ LastOp(code'[p]) = "done" <=> LastOp(code[p]) = "done"
          /\ Logging(p)' <=> Logging(p)
          /\ \A o \in {"clear", "read_head", "write_head"} : Has(p, o)' <=> Has(p, o)
          /\ \A o \in Loops : \A t, b :
               AllPast(code'[p], o, t, b) => \A k \in 2 .. Len(code[p]) : Past(code[p][k], o, t, b)
      BY PlainPhase
    <3>2. PICK m \in Nat, n \in Nat : m = Len(code[p]) /\ n = Len(lh)
      <4>1. code[p] \in Seq(Instrs) /\ lh \in Seq(Homes)
        BY DEF LInv, Typed, Headers
      <4> QED
        BY <4>1, LenProperties
    <3>3. ASSUME NEW o \in Loops, NEW t \in 1 .. Len(lh), NEW b, AllPast(code'[p], o, t, b)
          PROVE  AllPast(code[p], o, t, b)
      <4>1. Past(code[p][1], o, t, b)
        <5>1. CASE code[p][1][1] = o
          <6>1. code[p][1][2] \in Nat /\ code[p][1][2] > n /\ t \in 1 .. n
            BY <3>2, <5>1
          <6>2. t < code[p][1][2]
            BY <6>1
          <6>3. o # "copy"
            BY DEF Loops
          <6> QED
            BY <5>1, <6>2, <6>3 DEF Past, OpIs
        <5>2. CASE code[p][1][1] # o
          BY <5>2 DEF Past, OpIs
        <5> QED
          BY <5>1, <5>2
      <4>2. \A k \in 2 .. m : Past(code[p][k], o, t, b)
        BY <3>1, <3>2, <3>3
      <4>3. \A k \in 1 .. m : k = 1 \/ k \in 2 .. m
        OBVIOUS
      <4> QED
        BY <3>2, <4>1, <4>2, <4>3 DEF AllPast
    <3>4. "write_log" \in Loops /\ "install_trans" \in Loops
      BY DEF Loops
    <3>5. \A t \in 1 .. Len(lh) :
            (Logged(p, t)' => Logged(p, t)) /\ (Installed(p, t)' => Installed(p, t))
      BY <3>3, <3>4 DEF Logged, Installed
    <3> QED
      BY <2>2, <3>1, <3>5
  <2> QED
    BY <2>1, <2>2
<1> QED
  BY <1>1 DEF SamePhases

\* The same for a turn of a loop, which gives more to do.
LEMMA TurnSamePhases ==
  ASSUME LInv, NEW p \in Procs, code[p] # << >>, NEW s \in Seq(Instrs), Then(p, s), lh' = lh,
         \A k \in 1 .. Len(s) : s[k][1] \notin {"write_head", "clear", "read_head"},
         code[p][1][1] \notin {"write_head", "clear", "read_head"},
         LastOp(s \o Tail(code[p])) = LastOp(code[p]),
         \A t \in 1 .. Len(lh) :
           /\ \/ Past(code[p][1], "write_log", t, LogBlocks[t])
              \/ \E k \in 1 .. Len(s) : ~Past(s[k], "write_log", t, LogBlocks[t])
           /\ \/ Past(code[p][1], "install_trans", t, lh[t])
              \/ \E k \in 1 .. Len(s) : ~Past(s[k], "install_trans", t, lh[t])
  PROVE  SamePhases
<1>1. Typed /\ code[p] \in Seq(Instrs)
  BY DEF LInv, Typed
<1>2. code'[p] = s \o Tail(code[p]) /\ \A q \in Procs : q # p => code'[q] = code[q]
  BY <1>1, Stepped
<1>3. PICK m \in Nat : m = Len(code[p])
  BY <1>1, LenProperties
<1>4. LastOp(code'[p]) = LastOp(code[p]) /\ (Finishing(p)' <=> Finishing(p))
  BY <1>2 DEF Finishing
<1>5. \A k \in 1 .. Len(s) : s[k][1] # "write_head"
  OBVIOUS
<1>6. /\ LogsIn(s \o Tail(code[p])) <=> \E k \in 2 .. m - 3 : code[p][k][1] = "write_head"
      /\ \A o, t, b : AllPast(s \o Tail(code[p]), o, t, b) <=>
           /\ \A k \in 1 .. Len(s) : Past(s[k], o, t, b)
           /\ \A k \in 2 .. m : Past(code[p][k], o, t, b)
  BY <1>1, <1>3, <1>5, PhaseBehind
<1>7. Logging(p)' <=> Logging(p)
  <2>1. \A k \in 1 .. m - 3 : k = 1 \/ k \in 2 .. m - 3
    OBVIOUS
  <2>2. \A k \in 2 .. m - 3 : k \in 1 .. m - 3
    OBVIOUS
  <2> QED
    BY <1>2, <1>3, <1>6, <2>1, <2>2 DEF Logging, LogsIn
<1>8. ASSUME NEW o \in {"clear", "read_head", "write_head"} PROVE Has(p, o)' <=> Has(p, o)
  <2>1. ~HasOp(s, o) /\ code[p][1][1] # o
    BY DEF HasOp
  <2>2. /\ HasOp(s \o Tail(code[p]), o) <=> HasOp(s, o) \/ \E k \in 2 .. Len(code[p]) : code[p][k][1] = o
        /\ HasOp(code[p], o) <=> code[p][1][1] = o \/ \E k \in 2 .. Len(code[p]) : code[p][k][1] = o
    BY <1>1, HasBehind
  <2> QED
    BY <1>2, <2>1, <2>2 DEF Has
<1>9. ASSUME NEW o, NEW t, NEW b, AllPast(code'[p], o, t, b),
             Past(code[p][1], o, t, b) \/ \E k \in 1 .. Len(s) : ~Past(s[k], o, t, b)
      PROVE  AllPast(code[p], o, t, b)
  <2>1. Past(code[p][1], o, t, b) /\ \A k \in 2 .. m : Past(code[p][k], o, t, b)
    BY <1>2, <1>6, <1>9
  <2>2. \A k \in 1 .. m : k = 1 \/ k \in 2 .. m
    OBVIOUS
  <2> QED
    BY <1>3, <2>1, <2>2 DEF AllPast
<1>10. \A t \in 1 .. Len(lh) :
         (Logged(p, t)' => Logged(p, t)) /\ (Installed(p, t)' => Installed(p, t))
  BY <1>9 DEF Logged, Installed
<1>11. \A q \in Procs : q # p =>
         /\ Finishing(q)' <=> Finishing(q)
         /\ LastOp(code'[q]) = "done" <=> LastOp(code[q]) = "done"
         /\ Logging(q)' <=> Logging(q)
         /\ \A o \in {"clear", "read_head", "write_head"} : Has(q, o)' <=> Has(q, o)
         /\ \A t \in 1 .. Len(lh) :
              (Logged(q, t)' => Logged(q, t)) /\ (Installed(q, t)' => Installed(q, t))
  BY <1>2, OtherPhase
<1> QED
  BY <1>4, <1>7, <1>8, <1>10, <1>11 DEF SamePhases

\* The loops of write_log and install_trans leave every process in its phase: what a turn
\* is about to copy counts as not copied.
LEMMA LoopPhases ==
  ASSUME LInv, NEW p \in Procs, write_log(p) \/ install_trans(p)
  PROVE  SamePhases
<1>1. PICK o \in Loops :
        /\ At(p, o) /\ code[p] # << >> /\ lh' = lh
        /\ o = "write_log" => write_log(p)
        /\ o = "install_trans" => install_trans(p)
  BY DEF write_log, install_trans, At, Loops, logVars
<1>2. Typed /\ Programs /\ lh \in Headers
  BY DEF LInv, Typed
<1>3. code[p] \in Seq(Instrs) /\ Head(code[p]) = code[p][1] /\ code[p][1][1] = o
  BY <1>1, <1>2, First DEF At
<1>4. PICK t \in Nat \ {0} : t = Arg(p) /\ t = code[p][1][2]
  BY <1>1, <1>2, <1>3, ArgType DEF Loops, Arg
<1>5. CASE t > Len(lh)
  <2>1. PICK s : s = << >> /\ Then(p, s)
    BY <1>1, <1>4, <1>5 DEF write_log, install_trans, Loops
  <2>2. code[p][1][1] \notin {"done", "up", "clear", "read_head", "write_head", "copy"}
    BY <1>3 DEF Loops
  <2> QED
    BY <1>1, <1>4, <1>5, <2>1, <2>2, PlainSamePhases
<1>6. CASE ~(t > Len(lh))
  <2>1. PICK s \in Seq(Instrs) : Turn(s, o, t) /\ Then(p, s)
    BY <1>1, <1>2, <1>4, <1>6, CopyCode DEF Loops
  <2>2. PICK n \in Nat : n = Len(lh) /\ t <= n /\ t \in 1 .. n
    <3>1. Len(lh) \in Nat
      BY <1>2, LenProperties DEF Headers
    <3> QED
      BY <1>6, <3>1
  <2>3. PICK to : to = To(o, t)
    OBVIOUS
  <2>4. /\ Len(s) = 6 /\ s[1][1] = "bread" /\ s[2][1] = "bread" /\ s[3][1] = "copy"
        /\ s[3][2] = to /\ s[4][1] = "brelse" /\ s[5][1] = "brelse" /\ s[6][1] = o
        /\ s[6][2] = t + 1
    BY <2>1, <2>3 DEF Turn
  <2>5. \A k \in 1 .. Len(s) : k = 1 \/ k = 2 \/ k = 3 \/ k = 4 \/ k = 5 \/ k = 6
    BY <2>4
  <2>6. 3 \in 1 .. Len(s) /\ 6 \in 1 .. Len(s)
    BY <2>4
  <2>7. \A k \in 1 .. Len(s) : s[k][1] \notin {"write_head", "clear", "read_head", "done", "up"}
    BY <2>4, <2>5 DEF Loops
  <2>8. LastOp(s \o Tail(code[p])) = LastOp(code[p])
    <3>1. Len(code[p]) # 1
      <4>1. 1 \in 1 .. Len(code[p]) /\ OrderedAt(code[p], 1)
        BY <1>1, <1>2, <1>3, First DEF Programs, Ordered
      <4>2. PICK m \in Nat : m = Len(code[p])
        BY <1>3, LenProperties
      <4>3. 1 = m - 5 \/ 1 = m - 9
        BY <1>3, <4>1, <4>2 DEF OrderedAt, Loops
      <4>4. m # 1
        BY <4>3
      <4> QED
        BY <4>2, <4>4
    <3> QED
      BY <1>1, <1>3, <3>1, LastBehind
  <2>9. ASSUME NEW u \in 1 .. n, NEW b, b = To(o, u), ~Past(code[p][1], o, u, b)
        PROVE  \E k \in 1 .. Len(s) : ~Past(s[k], o, u, b)
    <3>1. ~(u < t)
      <4>1. o # "copy"
        BY DEF Loops
      <4> QED
        BY <1>3, <1>4, <2>9, <4>1 DEF Past, OpIs
    <3>2. CASE u = t
      <4>1. ~Past(s[3], o, u, b)
        BY <2>3, <2>4, <2>9, <3>2 DEF Past, OpIs
      <4> QED
        BY <2>6, <4>1
    <3>3. CASE u # t
      <4>1. ~(u < t + 1)
        BY <2>2, <3>1, <3>3
      <4>2. ~Past(s[6], o, u, b)
        BY <2>4, <4>1 DEF Past
      <4> QED
        BY <2>6, <4>2
    <3> QED
      BY <3>2, <3>3
  <2>10. \A x \in Loops : \A u, b : x # o => Past(code[p][1], x, u, b)
    BY <1>3 DEF Past, OpIs, Loops
  <2>11. ASSUME NEW u \in 1 .. Len(lh)
         PROVE  /\ \/ Past(code[p][1], "write_log", u, LogBlocks[u])
                   \/ \E k \in 1 .. Len(s) : ~Past(s[k], "write_log", u, LogBlocks[u])
                /\ \/ Past(code[p][1], "install_trans", u, lh[u])
                   \/ \E k \in 1 .. Len(s) : ~Past(s[k], "install_trans", u, lh[u])
    <3>1. u \in 1 .. n
      BY <2>2
    <3>2. CASE o = "write_log"
      BY <2>9, <2>10, <3>1, <3>2 DEF To, Loops
    <3>3. CASE o = "install_trans"
      BY <2>9, <2>10, <3>1, <3>3 DEF To, Loops
    <3> QED
      BY <3>2, <3>3 DEF Loops
  <2>12. code[p][1][1] \notin {"write_head", "clear", "read_head"}
    BY <1>3 DEF Loops
  <2> QED
    BY <1>1, <2>1, <2>7, <2>8, <2>11, <2>12, TurnSamePhases
<1> QED
  BY <1>5, <1>6

\* So does the loop of an operation.
LEMMA BodyPhases ==
  ASSUME LInv, NEW p \in Procs, Body(p)
  PROVE  SamePhases
<1>1. Typed /\ Programs /\ At(p, "body") /\ code[p] # << >> /\ lh' = lh
  BY DEF LInv, Body, At, logVars
<1>2. code[p] \in Seq(Instrs) /\ Head(code[p]) = code[p][1] /\ code[p][1][1] = "body"
      /\ Len(code[p]) # 1
  BY <1>1, First, FirstAt DEF At
<1>3. code[p][1][1] \notin {"done", "up", "clear", "read_head", "write_head", "copy"}
      /\ code[p][1][1] \notin Loops
  BY <1>2 DEF Loops
<1>4. CASE Arg(p) = << >>
  <2>1. PICK s : s = << >> /\ Then(p, s)
    BY <1>4 DEF Body
  <2> QED
    BY <1>1, <1>3, <2>1, PlainSamePhases
<1>5. CASE Arg(p) # << >>
  <2>1. PICK x \in Homes, v \in Values, y \in Seq(Homes), s \in Seq(Instrs) :
          /\ Len(s) = 4 /\ s[1] = <<"bread", x>> /\ s[2] = <<"log_write", x, v>>
          /\ s[3] = <<"brelse", x>> /\ s[4] = <<"body", y, v>> /\ Then(p, s)
    BY <1>1, <1>5, BodyCode
  <2>2. \A k \in 1 .. Len(s) : k = 1 \/ k = 2 \/ k = 3 \/ k = 4
    BY <2>1
  <2>3. \A k \in 1 .. Len(s) : s[k][1] \notin {"write_head", "clear", "read_head"}
    BY <2>1, <2>2
  <2>4. LastOp(s \o Tail(code[p])) = LastOp(code[p])
    BY <1>1, <1>2, LastBehind
  <2>5. \A o \in Loops : \A t, b : Past(code[p][1], o, t, b)
    BY <1>2, <1>3 DEF Past, OpIs
  <2>6. Then(p, s)
    BY <2>1
  <2> QED
    BY <1>1, <1>3, <2>3, <2>4, <2>5, <2>6, TurnSamePhases DEF Loops
<1> QED
  BY <1>4, <1>5

\* Where a process is after a turn of a loop.
LEMMA TurnAt ==
  ASSUME Typed, NEW p \in Procs, code[p] # << >>, NEW s \in Seq(Instrs), Len(s) # 0, Then(p, s)
  PROVE  \A x : At(p, x)' <=> x = s[1][1]
<1>1. PICK d : d = s \o Tail(code[p]) /\ d = code'[p]
  BY Stepped
<1>2. code[p] \in Seq(Instrs)
  BY First
<1>3. PICK m \in Nat \ {0}, n \in Nat : m = Len(code[p]) /\ n = Len(s)
  BY <1>2, Prepend
<1>4. d \in Seq(Instrs) /\ Len(d) = n + m - 1 /\ \A k \in 1 .. n : d[k] = s[k]
  BY <1>1, <1>2, <1>3, Prepend
<1>5. n # 0 /\ 1 \in 1 .. n
  BY <1>3
<1>6. Len(d) # 0 /\ d[1] = s[1]
  BY <1>4, <1>5
<1>7. d # << >> /\ Head(d) = d[1]
  BY <1>4, <1>6, EmptySeq, HeadTailProperties
<1> QED
  BY <1>1, <1>6, <1>7 DEF At

\* A step that touches no buffer, by a process that does not wait for the disk.
LEMMA QuietBlocks ==
  ASSUME LInv, LInv', buf' = buf, disk' = disk, NEW p \in Procs,
         \A q \in Procs : q # p => code'[q] = code[q],
         \A o \in {"iderw", "wait"} : ~At(p, o) /\ ~At(p, o)'
  PROVE  SameBlocks /\ SameWaits
<1>1. \A i \in Bufs : ~Queues(p, i) /\ ~Awaits(p, i) /\ ~Queues(p, i)' /\ ~Awaits(p, i)'
  BY DEF Queues, Awaits
<1>2. \A q \in Procs, i \in Bufs :
        (Queues(q, i)' \/ Awaits(q, i)' <=> Queues(q, i) \/ Awaits(q, i))
  BY <1>1, Elsewhere
<1> QED
  BY <1>2, BlocksKept

\* The same where the process has done its instruction.
LEMMA DoneBlocks ==
  ASSUME LInv, LInv', buf' = buf, disk' = disk, NEW p \in Procs, code[p] # << >>,
         \A o \in {"iderw", "wait"} : ~At(p, o), Then(p, << >>)
  PROVE  SameBlocks /\ SameWaits
<1>1. Typed /\ Programs
  BY DEF LInv
<1>2. PICK s : s = << >> /\ Then(p, s)
  OBVIOUS
<1>3. /\ \A q \in Procs : q # p => code'[q] = code[q]
      /\ \A o \in Low \cup {"begin"} : ~At(p, o)'
  BY <1>1, <1>2, PlainStep
<1>4. "iderw" \in Low /\ "wait" \in Low
  BY DEF Low
<1> QED
  BY <1>3, <1>4, QuietBlocks

\* An idle process that starts is in no phase.
LEMMA StartPhases ==
  ASSUME LInv, LInv', NEW p \in Procs, Start(p)
  PROVE  SamePhases /\ SameBlocks /\ SameWaits
<1>1. PICK s : /\ \/ \E w \in Writes, v \in Values : s = Operation(w, v)
                  \/ \E b \in Homes : s = <<<<"bread", b>>, <<"brelse", b>>>>
               /\ code' = [code EXCEPT ![p] = s]
  BY DEF Start
<1>2. code[p] = << >> /\ buf' = buf /\ disk' = disk /\ lh' = lh
  BY DEF Start, logVars
<1>3. code'[p] = s /\ \A q \in Procs : q # p => code'[q] = code[q]
  BY <1>1 DEF LInv, Typed
<1>4. /\ s \in Seq(Instrs) /\ s # << >> /\ Head(s) = s[1]
      /\ s[1][1] \in {"begin", "bread"} /\ LastOp(s) \notin {"done", "up"} /\ Ordered(s)
  BY <1>1, StartCode
<1>5. ~HasOp(s, "clear") /\ ~HasOp(s, "read_head") /\ ~HasOp(s, "write_head") /\ ~LogsIn(s)
  BY <1>4, PhaseOrder
<1>6. LastOp(code[p]) \notin {"done", "up"} /\ ~Finishing(p)
  BY <1>2 DEF LastOp, Finishing
<1>7. code[p] \in Seq(Instrs) /\ Ordered(code[p])
  BY DEF LInv, Typed, Programs
<1>8. /\ ~HasOp(code[p], "clear") /\ ~HasOp(code[p], "read_head") /\ ~HasOp(code[p], "write_head")
      /\ ~LogsIn(code[p])
  BY <1>6, <1>7, PhaseOrder
<1>9. SamePhases
  <2>1. /\ Finishing(p)' <=> Finishing(p)
        /\ LastOp(code'[p]) = "done" <=> LastOp(code[p]) = "done"
        /\ Logging(p)' <=> Logging(p)
        /\ \A o \in {"clear", "read_head", "write_head"} : Has(p, o)' <=> Has(p, o)
    BY <1>3, <1>4, <1>5, <1>6, <1>8 DEF Finishing, Logging, Has
  <2>2. \A q \in Procs : q # p =>
          /\ Finishing(q)' <=> Finishing(q)
          /\ LastOp(code'[q]) = "done" <=> LastOp(code[q]) = "done"
          /\ Logging(q)' <=> Logging(q)
          /\ \A o \in {"clear", "read_head", "write_head"} : Has(q, o)' <=> Has(q, o)
          /\ \A t \in 1 .. Len(lh) :
               (Logged(q, t)' => Logged(q, t)) /\ (Installed(q, t)' => Installed(q, t))
    BY <1>2, <1>3, OtherPhase
  <2> QED
    BY <1>6, <2>1, <2>2 DEF SamePhases
<1>10. \A o \in {"iderw", "wait"} : ~At(p, o) /\ ~At(p, o)'
  BY <1>2, <1>3, <1>4 DEF At
<1>11. SameBlocks /\ SameWaits
  BY <1>2, <1>3, <1>10, QuietBlocks
<1> QED
  BY <1>9, <1>11

\* A step of the buffer cache leaves every process in its phase.
LEMMA CachePhases ==
  ASSUME LInv, NEW p \in Procs, CacheStep(p), lh' = lh
  PROVE  SamePhases
<1>1. Typed /\ Programs /\ Cache
  BY DEF LInv
<1>2. PICK o \in Low \cup {"bread", "brelse"} : At(p, o) /\ code[p] # << >>
  BY DEF CacheStep, BgetHit, BgetRecycle, acquiresleep, IderwQueue, IderwDone, releasesleep,
         BrelseUnref, At, Low
<1>3. code[p][1][1] = o
  BY <1>1, <1>2, FirstAt
<1>4. /\ code[p][1][1] \notin {"done", "up", "clear", "read_head", "write_head", "copy"}
      /\ code[p][1][1] \notin Loops
  BY <1>3 DEF Low, Loops
<1>5. \E s : /\ s = << >> \/ \E x \in Low, i \in Bufs : s = <<<<x, i>>>>
             /\ Then(p, s)
  <2>1. "lock" \in Low /\ "iderw" \in Low /\ "wait" \in Low /\ "unref" \in Low
    BY DEF Low
  <2>2. CASE BgetHit(p)
    BY <2>1, <2>2 DEF BgetHit, Cached
  <2>3. CASE BgetRecycle(p)
    <3>1. \A k \in Recyclable : lru[k] \in Bufs
      BY <1>1 DEF Typed, Recyclable
    <3> QED
      BY <2>1, <2>3, <3>1 DEF BgetRecycle
  <2>4. CASE acquiresleep(p)
    <3>1. Arg(p) \in Bufs
      BY <1>1, <2>1, <2>4, ArgType DEF acquiresleep
    <3> QED
      BY <2>1, <2>4, <3>1 DEF acquiresleep
  <2>5. CASE IderwQueue(p)
    <3>1. Arg(p) \in Bufs
      BY <1>1, <2>1, <2>5, ArgType DEF IderwQueue
    <3> QED
      BY <2>1, <2>5, <3>1 DEF IderwQueue
  <2>6. CASE IderwDone(p)
    BY <2>6 DEF IderwDone
  <2>7. CASE releasesleep(p)
    <3>1. At(p, "brelse") /\ Arg(p) \in Blocks
      BY <1>1, <2>7, ArgType DEF releasesleep
    <3>2. Owes(p, Arg(p)) /\ \A i \in Bufs : ~Asks(p, i)
      BY <1>1, <1>2, <3>1, OwesNext DEF Asks, At
    <3>3. Held(p, Arg(p)) \in Bufs
      BY <1>1, <3>1, <3>2, HeldIs
    <3> QED
      BY <2>1, <2>7, <3>3 DEF releasesleep
  <2>8. CASE BrelseUnref(p)
    BY <2>8 DEF BrelseUnref
  <2> QED
    BY <2>2, <2>3, <2>4, <2>5, <2>6, <2>7, <2>8 DEF CacheStep
<1> QED
  BY <1>2, <1>4, <1>5, PlainSamePhases

-----------------------------------------------------------------------------
(* The steps that leave contents and phases alone *)

\* Reading, releasing, starting an operation, ending one that is not the last, and turning
\* the loops: no content changes and the invariant on contents is kept.
LEMMA QuietData ==
  ASSUME LInv, LInv', DInv, NEW p \in Procs,
         \/ (CacheStep(p) /\ UNCHANGED logVars) \/ begin_op(p) \/ Body(p) \/ write_log(p)
         \/ install_trans(p) \/ (end_op(p) /\ ~LastOne) \/ Start(p)
  PROVE  SameBlocks /\ DInv'
<1>1. Typed /\ Programs /\ Clean
  BY DEF LInv, DInv
<1>0. up' = up
  BY DEF begin_op, Body, write_log, install_trans, end_op, Start, logVars
<1> SUFFICES SameBlocks /\ SameWaits /\ SamePhases /\ lh' = lh
  BY <1>0, DataKept
<1>2. CASE CacheStep(p) /\ UNCHANGED logVars
  <2>1. lh' = lh
    BY <1>2 DEF logVars
  <2> QED
    BY <1>1, <1>2, <2>1, CacheBlocks, CachePhases
<1>3. CASE begin_op(p)
  <2>1. At(p, "begin") /\ buf' = buf /\ disk' = disk /\ lh' = lh /\ code[p] # << >>
        /\ (code' = code \/ Then(p, << >>))
    BY <1>3 DEF begin_op, At
  <2>2. code[p][1][1] = "begin" /\ \A o \in {"iderw", "wait"} : ~At(p, o)
    BY <1>1, <2>1, FirstAt
  <2>3. CASE Then(p, << >>)
    <3>1. SameBlocks /\ SameWaits
      BY <2>1, <2>2, <2>3, DoneBlocks
    <3>2. PICK s : s = << >> /\ Then(p, s)
      BY <2>3
    <3>3. SamePhases
      <4>1. code[p][1][1] \notin {"done", "up", "clear", "read_head", "write_head", "copy"}
            /\ code[p][1][1] \notin Loops
        BY <2>2 DEF Loops
      <4> QED
        BY <2>1, <3>2, <4>1, PlainSamePhases
    <3> QED
      BY <2>1, <3>1, <3>3
  <2>4. CASE code' = code
    <3>1. \A q \in Procs : code'[q] = code[q]
      BY <2>4
    <3>2. \A o \in {"iderw", "wait"} : ~At(p, o) /\ ~At(p, o)'
      BY <2>2, <3>1, Elsewhere
    <3>3. SameBlocks /\ SameWaits
      BY <2>1, <3>1, <3>2, QuietBlocks
    <3>4. SamePhases
      BY <2>1, <3>1, OtherPhase DEF SamePhases
    <3> QED
      BY <2>1, <3>3, <3>4
  <2> QED
    BY <2>1, <2>3, <2>4
<1>4. CASE Body(p)
  <2>1. At(p, "body") /\ buf' = buf /\ disk' = disk /\ lh' = lh /\ code[p] # << >>
    BY <1>4 DEF Body, At, logVars
  <2>2. \A o \in {"iderw", "wait"} : ~At(p, o)
    BY <1>1, <2>1, FirstAt
  <2>3. SamePhases
    BY <1>4, BodyPhases
  <2>4. CASE Arg(p) = << >>
    <3>1. Then(p, << >>)
      BY <1>4, <2>4 DEF Body
    <3> QED
      BY <2>1, <2>2, <2>3, <3>1, DoneBlocks
  <2>5. CASE Arg(p) # << >>
    <3>1. PICK x \in Homes, v \in Values, y \in Seq(Homes), s \in Seq(Instrs) :
            /\ Len(s) = 4 /\ s[1] = <<"bread", x>> /\ s[2] = <<"log_write", x, v>>
            /\ s[3] = <<"brelse", x>> /\ s[4] = <<"body", y, v>> /\ Then(p, s)
      BY <1>1, <1>4, <2>5, BodyCode
    <3>2. Len(s) # 0 /\ s[1][1] = "bread" /\ Then(p, s)
      BY <3>1
    <3>3. /\ \A z : At(p, z)' <=> z = s[1][1]
          /\ \A q \in Procs : q # p => code'[q] = code[q]
      BY <1>1, <2>1, <3>2, TurnAt, Stepped
    <3>4. \A o \in {"iderw", "wait"} : ~At(p, o) /\ ~At(p, o)'
      BY <2>2, <3>2, <3>3
    <3> QED
      BY <2>1, <2>3, <3>3, <3>4, QuietBlocks
  <2> QED
    BY <2>4, <2>5
<1>5. CASE write_log(p) \/ install_trans(p)
  <2>1. PICK o \in {"write_log", "install_trans"} :
          /\ At(p, o) /\ code[p] # << >> /\ buf' = buf /\ disk' = disk /\ lh' = lh
          /\ o = "write_log" => write_log(p)
          /\ o = "install_trans" => install_trans(p)
    BY <1>5 DEF write_log, install_trans, At, logVars
  <2>2. \A x \in {"iderw", "wait"} : ~At(p, x)
    BY <1>1, <2>1, FirstAt
  <2>3. SamePhases
    BY <1>5, LoopPhases
  <2>4. PICK t \in Nat \ {0} : t = Arg(p)
    BY <1>1, <2>1, ArgType
  <2>5. CASE t > Len(lh)
    <3>1. Then(p, << >>)
      BY <2>1, <2>4, <2>5 DEF write_log, install_trans
    <3> QED
      BY <2>1, <2>2, <2>3, <3>1, DoneBlocks
  <2>6. CASE ~(t > Len(lh))
    <3>1. PICK s \in Seq(Instrs) : Turn(s, o, t) /\ Then(p, s)
      BY <1>1, <2>1, <2>4, <2>6, CopyCode
    <3>2. Len(s) # 0 /\ s[1][1] = "bread" /\ Then(p, s)
      BY <3>1 DEF Turn
    <3>3. /\ \A x : At(p, x)' <=> x = s[1][1]
          /\ \A q \in Procs : q # p => code'[q] = code[q]
      BY <1>1, <2>1, <3>2, TurnAt, Stepped
    <3>4. \A x \in {"iderw", "wait"} : ~At(p, x) /\ ~At(p, x)'
      BY <2>2, <3>2, <3>3
    <3> QED
      BY <2>1, <2>3, <3>3, <3>4, QuietBlocks
  <2> QED
    BY <2>5, <2>6
<1>6. CASE end_op(p) /\ ~LastOne
  <2>1. At(p, "end") /\ buf' = buf /\ disk' = disk /\ lh' = lh /\ code[p] # << >>
        /\ Then(p, << >>)
    BY <1>6 DEF end_op, At
  <2>2. code[p][1][1] = "end" /\ \A o \in {"iderw", "wait"} : ~At(p, o)
    BY <1>1, <2>1, FirstAt
  <2>3. PICK s : s = << >> /\ Then(p, s)
    BY <2>1
  <2>4. code[p][1][1] \notin {"done", "up", "clear", "read_head", "write_head", "copy"}
        /\ code[p][1][1] \notin Loops
    BY <2>2 DEF Loops
  <2>5. SamePhases
    BY <2>1, <2>3, <2>4, PlainSamePhases
  <2> QED
    BY <2>1, <2>2, <2>5, DoneBlocks
<1>7. CASE Start(p)
  <2>1. lh' = lh
    BY <1>7 DEF Start, logVars
  <2> QED
    BY <1>7, <2>1, StartPhases
<1> QED
  BY <1>2, <1>3, <1>4, <1>5, <1>6, <1>7

-----------------------------------------------------------------------------
(* What a process at a certain instruction can rely on *)

\* The phase of a program that begins with an instruction of commit or recovery.
LEMMA FirstPhase ==
  ASSUME NEW c \in Seq(Instrs), c # << >>, Ordered(c)
  PROVE  /\ c[1][1] = "write_head" /\ LogsIn(c) =>
              /\ \E k \in 2 .. Len(c) : c[k][1] = "clear"
              /\ \E k \in 2 .. Len(c) : c[k] = <<"install_trans", 1>>
              /\ \A k \in 2 .. Len(c) - 3 : c[k][1] # "write_head"
              /\ \A t, b : AllPast(c, "write_log", t, b)
         /\ c[1][1] = "write_head" /\ ~LogsIn(c) => ~HasOp(c, "clear")
         /\ c[1][1] = "read_head" => \E k \in 2 .. Len(c) : c[k] = <<"install_trans", 1>>
         /\ c[1][1] = "clear" => \E k \in 2 .. Len(c) : c[k][1] = "write_head"
         /\ c[1][1] = "copy" /\ c[4][1] = "write_log" => LogsIn(c)
         /\ c[1][1] = "copy" /\ c[4][1] = "install_trans" /\ c[4][2] # 1 =>
              HasOp(c, "clear") /\ ~LogsIn(c) /\ ~HasOp(c, "read_head")
<1>1. PICK m \in Nat \ {0} : m = Len(c)
  BY LenProperties, EmptySeq
<1>2. /\ \A k \in 1 .. m : OrderedAt(c, k)
      /\ 1 \in 1 .. m
  BY <1>1 DEF Ordered
<1>3. \A k \in 1 .. m :
        /\ c[k][1] = "clear" => k = m - 4 /\ c[k + 2][1] = "write_head"
        /\ c[k][1] = "install_trans" => k = m - 5 /\ c[k + 1][1] = "clear"
        /\ c[k][1] = "write_head" =>
             \/ k = m - 2 \/ (k = m - 7 /\ c[k + 2] = <<"install_trans", 1>>)
        /\ c[k][1] = "read_head" => k = m - 7 /\ c[k + 2] = <<"install_trans", 1>>
        /\ c[k][1] = "write_log" => k = m - 9 /\ c[k + 2][1] = "write_head"
        /\ c[k][1] = "copy" => k + 3 <= m /\ c[k + 3][1] \in {"write_log", "install_trans"}
  BY <1>1, <1>2 DEF OrderedAt
<1>4. LogsIn(c) <=> \E k \in 1 .. m - 3 : c[k][1] = "write_head"
  BY <1>1 DEF LogsIn
<1>5. ASSUME c[1][1] = "write_head", LogsIn(c)
      PROVE  /\ \E k \in 2 .. m : c[k][1] = "clear"
             /\ \E k \in 2 .. m : c[k] = <<"install_trans", 1>>
             /\ \A k \in 2 .. m - 3 : c[k][1] # "write_head"
             /\ \A t, b : AllPast(c, "write_log", t, b)
  <2>1. m = 8 /\ c[1 + 2] = <<"install_trans", 1>>
    <3>1. m # 3
      <4> SUFFICES ASSUME m = 3 PROVE FALSE
        OBVIOUS
      <4>1. 1 .. m - 3 = {}
        OBVIOUS
      <4> QED
        BY <1>4, <1>5, <4>1
    <3>2. 1 = m - 2 \/ (1 = m - 7 /\ c[1 + 2] = <<"install_trans", 1>>)
      BY <1>2, <1>3, <1>5
    <3> QED
      BY <3>1, <3>2
  <2>2. c[3] = <<"install_trans", 1>> /\ c[3][1] = "install_trans" /\ 3 \in 1 .. m
    BY <2>1
  <2>3. c[3 + 1][1] = "clear"
    BY <1>3, <2>2
  <2>4. 3 \in 2 .. m /\ 3 + 1 \in 2 .. m
    BY <2>1
  <2>5. ASSUME NEW k \in 2 .. m - 3 PROVE c[k][1] # "write_head"
    <3>1. k \in 1 .. m /\ k # m - 2 /\ k # m - 7
      BY <2>1
    <3> QED
      BY <1>3, <3>1
  <2>6. \A k \in 1 .. m : c[k][1] # "write_log"
    <3> SUFFICES ASSUME NEW k \in 1 .. m, c[k][1] = "write_log" PROVE FALSE
      OBVIOUS
    <3>1. k = m - 9
      BY <1>3
    <3> QED
      BY <2>1, <3>1
  <2>7. \A k \in 1 .. m : c[k][1] # "copy"
    <3> SUFFICES ASSUME NEW k \in 1 .. m, c[k][1] = "copy" PROVE FALSE
      OBVIOUS
    <3>1. k + 3 <= m /\ c[k + 3][1] \in {"write_log", "install_trans"}
      BY <1>3
    <3>2. k + 3 \in 1 .. m
      BY <3>1
    <3>3. c[k + 3][1] = "install_trans"
      BY <2>6, <3>1, <3>2
    <3>4. k + 3 = m - 5
      BY <1>3, <3>2, <3>3
    <3> QED
      BY <2>1, <3>4
  <2>8. \A t, b : AllPast(c, "write_log", t, b)
    BY <1>1, <2>6, <2>7 DEF AllPast, Past, OpIs
  <2> QED
    BY <2>2, <2>3, <2>4, <2>5, <2>8
<1>6. ASSUME c[1][1] = "write_head", ~LogsIn(c) PROVE ~HasOp(c, "clear")
  <2>1. m = 3 \/ m = 8
    <3>1. 1 = m - 2 \/ 1 = m - 7
      BY <1>2, <1>3, <1>6
    <3> QED
      BY <3>1
  <2>2. m # 8
    <3> SUFFICES ASSUME m = 8 PROVE FALSE
      OBVIOUS
    <3>1. 1 \in 1 .. m - 3
      OBVIOUS
    <3> QED
      BY <1>4, <1>6, <3>1
  <2>3. \A k \in 1 .. m : c[k][1] # "clear"
    <3> SUFFICES ASSUME NEW k \in 1 .. m, c[k][1] = "clear" PROVE FALSE
      OBVIOUS
    <3>1. k = m - 4
      BY <1>3
    <3> QED
      BY <2>1, <2>2, <3>1
  <2> QED
    BY <1>1, <2>3 DEF HasOp
<1>7. ASSUME c[1][1] = "read_head" PROVE \E k \in 2 .. m : c[k] = <<"install_trans", 1>>
  <2>1. 1 = m - 7 /\ c[1 + 2] = <<"install_trans", 1>>
    BY <1>2, <1>3, <1>7
  <2>2. 1 + 2 \in 2 .. m
    BY <2>1
  <2> QED
    BY <2>1, <2>2
<1>8. ASSUME c[1][1] = "clear" PROVE \E k \in 2 .. m : c[k][1] = "write_head"
  <2>1. 1 = m - 4 /\ c[1 + 2][1] = "write_head"
    BY <1>2, <1>3, <1>8
  <2>2. 1 + 2 \in 2 .. m
    BY <2>1
  <2> QED
    BY <2>1, <2>2
<1>9. ASSUME c[1][1] = "copy" PROVE 4 \in 1 .. m
  <2>1. 1 + 3 <= m
    BY <1>2, <1>3, <1>9
  <2> QED
    BY <2>1
<1>10. ASSUME c[1][1] = "copy", c[4][1] = "write_log" PROVE LogsIn(c)
  <2>1. 4 = m - 9 /\ c[4 + 2][1] = "write_head"
    BY <1>3, <1>9, <1>10
  <2>2. 4 + 2 \in 1 .. m - 3
    BY <2>1
  <2> QED
    BY <1>4, <2>1, <2>2
<1>11. ASSUME c[1][1] = "copy", c[4][1] = "install_trans", c[4][2] # 1
       PROVE  HasOp(c, "clear") /\ ~LogsIn(c) /\ ~HasOp(c, "read_head")
  <2>1. m = 9 /\ c[4 + 1][1] = "clear"
    <3>1. 4 = m - 5 /\ c[4 + 1][1] = "clear"
      BY <1>3, <1>9, <1>11
    <3> QED
      BY <3>1
  <2>2. 4 + 1 \in 1 .. m
    BY <2>1
  <2>3. c[4] # <<"install_trans", 1>>
    BY <1>11
  <2>4. ~LogsIn(c)
    <3> SUFFICES ASSUME LogsIn(c) PROVE FALSE
      OBVIOUS
    <3>1. PICK k \in 1 .. m - 3 : c[k][1] = "write_head"
      BY <1>4
    <3>2. k \in 1 .. m /\ k # m - 2
      OBVIOUS
    <3>3. k = m - 7 /\ c[k + 2] = <<"install_trans", 1>>
      BY <1>3, <3>1, <3>2
    <3>4. k + 2 = 4
      BY <2>1, <3>3
    <3> QED
      BY <2>3, <3>3, <3>4
  <2>5. \A k \in 1 .. m : c[k][1] # "read_head"
    <3> SUFFICES ASSUME NEW k \in 1 .. m, c[k][1] = "read_head" PROVE FALSE
      OBVIOUS
    <3>1. k = m - 7 /\ c[k + 2] = <<"install_trans", 1>>
      BY <1>3
    <3>2. k + 2 = 4
      BY <2>1, <3>1
    <3> QED
      BY <2>3, <3>1, <3>2
  <2> QED
    BY <1>1, <2>1, <2>2, <2>4, <2>5 DEF HasOp
<1> QED
  BY <1>1, <1>5, <1>6, <1>7, <1>8, <1>10, <1>11

\* Phases exclude each other.
OnePhase == \A p \in Procs :
  /\ Logging(p) => Finishing(p) /\ ~Installing(p) /\ ~Erasing(p)
  /\ Installing(p) => Finishing(p) /\ ~Erasing(p)
  /\ \A q \in Procs : Finishing(p) /\ Finishing(q) => q = p

\* So it is.
LEMMA PhasesHold == LInv => OnePhase
  BY PhaseOf DEF OnePhase

\* So it is in the next state.
LEMMA PhaseWill ==
  ASSUME LInv', NEW p \in Procs
  PROVE  /\ Logging(p)' => Finishing(p)' /\ ~Installing(p)' /\ ~Erasing(p)'
         /\ Installing(p)' => Finishing(p)' /\ ~Erasing(p)'
         /\ \A q \in Procs : Finishing(p)' /\ Finishing(q)' => q = p
<1>1. (LInv => OnePhase)'
  BY PhasesHold, PTL
<1> QED
  BY <1>1 DEF OnePhase

\* While who commits or recovers does not wait for the disk, nothing is given to it to be
\* written, and of the blocks only logged ones are to be written.
LEMMA Settled ==
  ASSUME LInv, DInv, \A q \in Procs : Finishing(q) => ~At(q, "iderw") /\ ~At(q, "wait")
  PROVE  /\ \A t \in LogDataBlocks : ~Dirty(LogBlocks[t])
         /\ ~Dirty(Header)
         /\ \A q \in Procs, b \in Homes : Dirty(b) => ~Waits(q, b)
         /\ \A q \in Procs : Installing(q) => head = lh
         /\ \A q \in Procs : Erasing(q) => Has(q, "write_head") \/ head = << >>
<1>1. ASSUME NEW q \in Procs, Finishing(q), NEW b PROVE ~Waits(q, b)
  BY <1>1 DEF Waits, Queues, Awaits
<1>2. \A q \in Procs : Logging(q) \/ Installing(q) \/ Erasing(q) => Finishing(q)
  BY PhaseOf
<1>3. \A t \in LogDataBlocks : ~Dirty(LogBlocks[t])
  BY <1>1, <1>2 DEF DInv, Dirtied
<1>4. ~Dirty(Header)
  BY <1>1, <1>2 DEF DInv, Dirtied
<1>5. \A q \in Procs, b \in Homes : Dirty(b) => ~Waits(q, b)
  BY <1>1, <1>2 DEF DInv, Dirtied
<1> QED
  BY <1>3, <1>4, <1>5 DEF DInv, HeadOnDisk

\* What a process has locked it can read: the contents of the block.
LEMMA HeldContent ==
  ASSUME LInv, NEW p \in Procs, NEW b \in Blocks, Owes(p, b),
         \A o \in Low : ~At(p, o)
  PROVE  /\ Held(p, b) \in Bufs /\ buf[Held(p, b)].blockno = b /\ buf[Held(p, b)].lock = p
         /\ buf[Held(p, b)].valid /\ Content(b) = buf[Held(p, b)].data
<1>1. Cache /\ \A i \in Bufs : ~Asks(p, i) /\ ~Queues(p, i) /\ ~Awaits(p, i)
  BY DEF LInv, Asks, Queues, Awaits, Low
<1>2. PICK i \in Bufs : i = Held(p, b) /\ buf[i].blockno = b /\ buf[i].lock = p
  BY <1>1, HeldIs
<1>3. buf[i].valid
  BY <1>1, <1>2 DEF Cache, Locked
<1>4. Content(b) = IF buf[i].valid THEN buf[i].data ELSE disk[b]
  BY <1>2, BlockIs DEF BlocksAre
<1> QED
  BY <1>2, <1>3, <1>4

\* A process stores new contents in a block it has locked.
LEMMA StoreBlocks ==
  ASSUME LInv, LInv', NEW p \in Procs, code[p] # << >>,
         code[p][1][1] \in {"log_write", "copy", "write_head"}, NEW x \in Blocks,
         NEW i \in Bufs, buf[i].blockno = x, buf[i].lock = p, buf[i].valid, NEW data,
         StoreIn(i, data), disk' = disk,
         NEW s, s = << >> \/ s = <<<<"iderw", i>>>>, Then(p, s)
  PROVE  /\ Content(x)' = data /\ Dirty(x)'
         /\ \A b \in Blocks : b # x => Content(b)' = Content(b) /\ (Dirty(b)' <=> Dirty(b))
         /\ \A q \in Procs, b \in Blocks : q # p => (Waits(q, b)' <=> Waits(q, b))
         /\ \A q \in Procs : q # p => ~Waits(q, x)
         /\ \A b \in Blocks : Waits(p, b)' <=> s # << >> /\ b = x
<1>1. Typed /\ Programs /\ Cache
  BY DEF LInv
<1>2. \A j \in Bufs : j \in DOMAIN buf /\ buf[j] \in BufRecords
  BY <1>1 DEF Typed
<1>3. /\ buf'[i].blockno = x /\ buf'[i].valid /\ buf'[i].dirty /\ buf'[i].data = data
      /\ \A j \in Bufs : j # i => buf'[j] = buf[j]
  BY <1>2 DEF StoreIn, BufRecords
<1>4. \A j \in Bufs : buf'[j].blockno = buf[j].blockno
  BY <1>3
<1>5. "iderw" \in Low /\ (s = << >> \/ \E o \in Low, j \in Bufs : s = <<<<o, j>>>>)
  BY DEF Low
<1>6. /\ \A q \in Procs, j \in Bufs :
           q # p => (Queues(q, j)' <=> Queues(q, j)) /\ (Awaits(q, j)' <=> Awaits(q, j))
      /\ s = << >> => \A j \in Bufs : ~Queues(p, j)' /\ ~Awaits(p, j)'
      /\ s = <<<<"iderw", i>>>> => \A j \in Bufs : (Queues(p, j)' <=> j = i) /\ ~Awaits(p, j)'
  BY <1>1, <1>5, WaitsPlain
<1>7. /\ Content(x)' = IF buf'[i].valid THEN buf'[i].data ELSE disk'[x]
      /\ Dirty(x)' <=> buf'[i].dirty
  BY <1>3, BlockWill
<1>8. ASSUME NEW b \in Blocks, b # x
      PROVE  Content(b)' = Content(b) /\ (Dirty(b)' <=> Dirty(b))
  <2>1. CASE \E j \in Bufs : buf[j].blockno = b
    <3> PICK j \in Bufs : buf[j].blockno = b
      BY <2>1
    <3>1. j # i /\ buf'[j] = buf[j]
      BY <1>3, <1>8
    <3>2. /\ Content(b) = IF buf[j].valid THEN buf[j].data ELSE disk[b]
          /\ Dirty(b) <=> buf[j].dirty
      BY BlockIs DEF BlocksAre
    <3>3. /\ Content(b)' = IF buf'[j].valid THEN buf'[j].data ELSE disk'[b]
          /\ Dirty(b)' <=> buf'[j].dirty
      BY <3>1, BlockWill
    <3> QED
      BY <3>1, <3>2, <3>3
  <2>2. CASE \A j \in Bufs : buf[j].blockno # b
    <3>1. Content(b) = disk[b] /\ ~Dirty(b)
      BY <2>2, BlockIs DEF BlocksAre
    <3>2. Content(b)' = disk'[b] /\ ~Dirty(b)'
      BY <1>4, <2>2, BlockWill
    <3> QED
      BY <3>1, <3>2
  <2> QED
    BY <2>1, <2>2
<1>9. \A q \in Procs, b \in Blocks : q # p => (Waits(q, b)' <=> Waits(q, b))
  BY <1>4, <1>6 DEF Waits, Bufs
<1>10. \A q \in Procs : q # p => ~Waits(q, x)
  <2>1. \A q \in Procs : Waits(q, x) <=> Queues(q, i) \/ Awaits(q, i)
    BY BlockIs DEF BlocksAre
  <2> QED
    BY <1>1, <2>1 DEF Cache, Locked
<1>11. \A b \in Blocks : Waits(p, b)' <=> s # << >> /\ b = x
  <2>1. CASE s = << >>
    BY <1>6, <2>1 DEF Waits, Bufs
  <2>2. CASE s = <<<<"iderw", i>>>>
    <3>1. s # << >>
      BY <2>2
    <3>2. \A j \in Bufs : Queues(p, j)' \/ Awaits(p, j)' <=> j = i
      BY <1>6, <2>2
    <3> QED
      BY <1>3, <3>1, <3>2 DEF Waits, Bufs
  <2> QED
    BY <2>1, <2>2
<1> QED
  BY <1>3, <1>7, <1>8, <1>9, <1>10, <1>11

-----------------------------------------------------------------------------
(* The steps that change the header in memory, or a phase *)

\* Only who commits or recovers is in a phase.
LEMMA Alone ==
  ASSUME LInv', NEW p \in Procs, Finishing(p)'
  PROVE  \A q \in Procs : q # p => ~Finishing(q)' /\ ~Logging(q)' /\ ~Installing(q)' /\ ~Erasing(q)'
<1>1. \A q \in Procs : q # p => ~Finishing(q)'
  BY PhaseWill
<1>2. \A q \in Procs : Logging(q)' \/ Installing(q)' \/ Erasing(q)' => Finishing(q)'
  BY PhaseWill DEF Erasing
<1> QED
  BY <1>1, <1>2

\* Such a step, made while nothing has been given to the disk to be written.
LEMMA SettledData ==
  ASSUME LInv, DInv, SameBlocks, SameWaits,
         \A q \in Procs : Finishing(q) => ~At(q, "iderw") /\ ~At(q, "wait"),
         \A b \in Homes : Dirty(b) => b \in InLog',
         HeadOnDisk', Copied'
  PROVE  DInv'
<1>1. /\ disk' = disk
      /\ \A b \in Blocks : Content(b)' = Content(b) /\ (Dirty(b)' <=> Dirty(b))
      /\ \A q \in Procs, b \in Blocks : Dirty(b) => (Waits(q, b)' <=> Waits(q, b))
  BY DEF SameBlocks, SameWaits
<1>2. /\ \A t \in LogDataBlocks : ~Dirty(LogBlocks[t])
      /\ ~Dirty(Header)
      /\ \A q \in Procs, b \in Homes : Dirty(b) => ~Waits(q, b)
  BY Settled
<1>3. /\ \A t \in LogDataBlocks : LogBlocks[t] \in Blocks
      /\ Header \in Blocks /\ Homes \subseteq Blocks
  BY Places
<1>4. Clean'
  BY <1>1 DEF DInv, Clean
<1>5. \A b \in Homes : Dirty(b)' => b \in InLog' /\ \A q \in Procs : ~Waits(q, b)'
  BY <1>1, <1>2, <1>3
<1>6. \A t \in LogDataBlocks : ~Dirty(LogBlocks[t])'
  BY <1>1, <1>2, <1>3
<1>7. ~Dirty(Header)'
  BY <1>1, <1>2, <1>3
<1>8. Dirtied'
  BY <1>5, <1>6, <1>7 DEF Dirtied, LogDataBlocks
<1> QED
  BY <1>4, <1>8 DEF DInv

\* Clearing the header in memory: every block is installed, so the log can be forgotten.
LEMMA ClearData ==
  ASSUME LInv, LInv', DInv, NEW p \in Procs, Clear(p)
  PROVE  SameBlocks /\ DInv'
<1>1. Typed /\ Programs /\ At(p, "clear") /\ buf' = buf /\ disk' = disk /\ lh' = << >>
      /\ code[p] # << >> /\ Then(p, << >>)
  BY DEF LInv, Clear, At
<1>2. /\ code[p] \in Seq(Instrs) /\ code[p][1][1] = "clear" /\ LastOp(code[p]) \in {"done", "up"}
      /\ Len(code[p]) # 1
  BY <1>1, FirstAt
<1>3. \A o \in {"iderw", "wait"} : ~At(p, o)
  BY <1>1 DEF At
<1>4. Ordered(code[p]) /\ Finishing(p)
  BY <1>1, <1>2 DEF Programs, Finishing
<1>5. /\ \A q \in Procs : Finishing(q) => q = p
      /\ \A q \in Procs : Finishing(q) => ~At(q, "iderw") /\ ~At(q, "wait")
  BY <1>3, <1>4, PhaseOf
<1>6. SameBlocks /\ SameWaits
  BY <1>1, <1>3, DoneBlocks
<1>7. /\ ~LogsIn(code[p]) /\ ~HasOp(code[p], "read_head") /\ HasOp(code[p], "clear")
      /\ \A t : Installed(p, t)
  <2>1. 1 \in 1 .. Len(code[p])
    BY <1>1, First
  <2> QED
    BY <1>1, <1>2, <1>4, <2>1, PhaseOrder DEF Loops, Installed, HasOp
<1>8. Installing(p)
  BY <1>7 DEF Installing, Logging, Has
<1>9. /\ ~Dirty(Header) /\ head = lh
      /\ \A q \in Procs, b \in Homes : Dirty(b) => ~Waits(q, b)
  BY <1>5, <1>8, Settled
<1>10. \A t \in 1 .. Len(lh) : lh[t] \in Homes /\ lh[t] \in Blocks
  BY Places
<1>11. \A t \in 1 .. Len(lh) : ~Dirty(lh[t]) /\ disk[LogBlocks[t]] = disk[lh[t]]
  <2> TAKE t \in 1 .. Len(lh)
  <2>1. ~Dirty(lh[t])
    BY <1>7, <1>8, <1>9, <1>10 DEF DInv, Copied
  <2>2. Content(lh[t]) = disk[lh[t]]
    BY <1>10, <2>1 DEF DInv, Clean
  <2>3. disk[LogBlocks[t]] = Content(lh[t])
    BY <1>7, <1>8 DEF DInv, Copied
  <2> QED
    BY <2>1, <2>2, <2>3
<1>12. \A b \in Homes : ~Dirty(b)
  BY <1>11 DEF DInv, Dirtied, InLog
<1>13. PICK s : s = << >> /\ Then(p, s)
  BY <1>1
<1>14. /\ Finishing(p)'
       /\ Has(p, "clear")' <=> \E k \in 2 .. Len(code[p]) : code[p][k][1] = "clear"
       /\ Has(p, "write_head")' <=> \E k \in 2 .. Len(code[p]) : code[p][k][1] = "write_head"
       /\ Logging(p)' <=> Logging(p)
  BY <1>1, <1>2, <1>4, <1>13, PlainPhase
<1>15. Has(p, "write_head")'
  BY <1>1, <1>2, <1>4, <1>14, FirstPhase
<1>16. ~Has(p, "clear")'
  <2>1. PICK m \in Nat : m = Len(code[p])
    BY <1>2, LenProperties
  <2>2. \A k \in 1 .. m : code[p][k][1] = "clear" => k = m - 4
    BY <1>4, <2>1 DEF Ordered, OrderedAt
  <2>3. 1 \in 1 .. m
    BY <1>1, <2>1, First
  <2>4. 1 = m - 4
    BY <1>2, <2>2, <2>3
  <2>5. \A k \in 2 .. m : k \in 1 .. m /\ k # m - 4
    BY <2>4
  <2> QED
    BY <1>14, <2>1, <2>2, <2>5
<1>17. ~Logging(p)' /\ ~Installing(p)'
  BY <1>7, <1>14, <1>16 DEF Logging, Installing
<1>18. HeadOnDisk'
  <2>1. \A q \in Procs : q # p => ~Logging(q)' /\ ~Installing(q)' /\ ~Erasing(q)'
    BY <1>14, Alone
  <2>2. head' = head
    BY <1>1 DEF head
  <2>3. \A t \in 1 .. Len(head') : disk'[head'[t]] = disk'[LogBlocks[t]]
    BY <1>1, <1>9, <1>11, <2>2
  <2> QED
    BY <1>14, <1>15, <1>17, <2>1, <2>3 DEF HeadOnDisk
<1>19. Copied'
  <2>1. 1 .. Len(lh') = {}
    BY <1>1
  <2> QED
    BY <2>1 DEF Copied
<1> QED
  BY <1>5, <1>6, <1>12, <1>18, <1>19, SettledData

\* The end of a commit or of recovery: the empty header is on the disk.
LEMMA OverData ==
  ASSUME LInv, LInv', DInv, NEW p \in Procs, Done(p) \/ Recovered(p)
  PROVE  SameBlocks /\ DInv' /\ head = << >> /\ \A b \in Homes : ~Dirty(b)
<1>1. PICK o \in {"done", "up"} : At(p, o)
  BY DEF Done, Recovered
<1>2. /\ Typed /\ Programs /\ buf' = buf /\ disk' = disk /\ lh' = lh
      /\ code[p] # << >> /\ Then(p, << >>)
  BY DEF LInv, Done, Recovered, At
<1>3. /\ code[p] \in Seq(Instrs) /\ code[p][1][1] = o /\ LastOp(code[p]) = o
      /\ Len(code[p]) = 1 /\ \A x : HasOp(code[p], x) <=> x = o
  BY <1>1, <1>2, FirstAt
<1>4. \A x \in {"iderw", "wait"} : ~At(p, x)
  BY <1>1 DEF At
<1>5. Finishing(p) /\ Erasing(p) /\ ~Has(p, "write_head")
  BY <1>3 DEF Finishing, Erasing, Has
<1>6. /\ \A q \in Procs : Finishing(q) => q = p
      /\ \A q \in Procs : Finishing(q) => ~At(q, "iderw") /\ ~At(q, "wait")
      /\ lh = << >>
  BY <1>4, <1>5, PhaseOf
<1>7. SameBlocks /\ SameWaits
  BY <1>2, <1>4, DoneBlocks
<1>8. head = << >>
  BY <1>5, <1>6, Settled
<1>9. 1 .. Len(lh) = {} /\ 1 .. Len(lh') = {}
  BY <1>2, <1>6
<1>10. \A b \in Homes : ~Dirty(b)
  BY <1>9 DEF DInv, Dirtied, InLog
<1>11. PICK s : s = << >> /\ Then(p, s)
  BY <1>2
<1>12. \A q \in Procs : ~Finishing(q)'
  <2>1. LastOp(code'[p]) \notin {"end", "done", "up"} /\ \A q \in Procs : q # p => code'[q] = code[q]
    BY <1>2, <1>3, <1>11, PlainStep
  <2> QED
    BY <1>6, <2>1, Elsewhere DEF Finishing
<1>13. \A q \in Procs : ~Logging(q)' /\ ~Installing(q)' /\ ~Erasing(q)'
  BY <1>12, PhaseWill DEF Erasing
<1>14. HeadOnDisk'
  <2>1. head' = << >>
    BY <1>2, <1>8 DEF head
  <2> QED
    BY <1>13, <2>1 DEF HeadOnDisk
<1>15. Copied'
  BY <1>9 DEF Copied
<1> QED
  BY <1>6, <1>7, <1>8, <1>10, <1>14, <1>15, SettledData

\* Recovery reads the header that is on the disk.
LEMMA ReadHeadData ==
  ASSUME LInv, LInv', DInv, NEW p \in Procs, read_head(p)
  PROVE  SameBlocks /\ DInv'
<1>1. /\ Typed /\ Programs /\ At(p, "read_head") /\ buf' = buf /\ disk' = disk
      /\ lh' = buf[Held(p, Header)].data /\ code[p] # << >> /\ Then(p, << >>)
  BY DEF LInv, read_head, At
<1>2. /\ code[p] \in Seq(Instrs) /\ code[p][1][1] = "read_head" /\ LastOp(code[p]) = "up"
      /\ Len(code[p]) # 1
      /\ \E k \in 2 .. Len(code[p]) : code[p][k][1] = "clear"
      /\ \A k \in 2 .. Len(code[p]) : code[p][k][1] # "read_head"
  BY <1>1, FirstAt
<1>3. \A o \in Low : ~At(p, o)
  BY <1>1 DEF At, Low
<1>4. "iderw" \in Low /\ "wait" \in Low
  BY DEF Low
<1>5. Ordered(code[p]) /\ Finishing(p) /\ Has(p, "read_head")
  <2>1. 1 \in 1 .. Len(code[p])
    BY <1>1, First
  <2> QED
    BY <1>1, <1>2, <2>1 DEF Programs, Finishing, Has, HasOp
<1>6. /\ \A q \in Procs : Finishing(q) => q = p
      /\ \A q \in Procs : Finishing(q) => ~At(q, "iderw") /\ ~At(q, "wait")
      /\ lh = << >>
  BY <1>3, <1>4, <1>5, PhaseOf
<1>7. SameBlocks /\ SameWaits
  BY <1>1, <1>3, <1>4, DoneBlocks
<1>8. lh' = head
  <2>1. Header \in Blocks
    BY LogAssumption
  <2>2. Owes(p, Header)
    BY <1>1, <2>1, OwesNext
  <2>3. lh' = Content(Header)
    BY <1>1, <1>3, <2>1, <2>2, HeldContent
  <2>4. ~Dirty(Header)
    BY <1>6, Settled
  <2> QED
    BY <2>1, <2>3, <2>4 DEF DInv, Clean, head
<1>9. \A b \in Homes : ~Dirty(b)
  <2>1. 1 .. Len(lh) = {}
    BY <1>6
  <2> QED
    BY <2>1 DEF DInv, Dirtied, InLog
<1>10. PICK s : s = << >> /\ Then(p, s)
  BY <1>1
<1>11. /\ Finishing(p)'
       /\ Has(p, "clear")' <=> \E k \in 2 .. Len(code[p]) : code[p][k][1] = "clear"
       /\ Has(p, "read_head")' <=> \E k \in 2 .. Len(code[p]) : code[p][k][1] = "read_head"
       /\ LastOp(code'[p]) # "done"
       /\ Logging(p)' <=> Logging(p)
       /\ \A t, b : AllPast(code'[p], "install_trans", t, b) =>
            \A k \in 2 .. Len(code[p]) : Past(code[p][k], "install_trans", t, b)
  BY <1>1, <1>2, <1>5, <1>10, PlainPhase DEF Loops
<1>12. ~Logging(p)'
  BY <1>2, <1>11, PhaseOf
<1>13. ~Erasing(p)'
  BY <1>2, <1>11 DEF Erasing
<1>14. \A q \in Procs : q # p => ~Logging(q)' /\ ~Installing(q)' /\ ~Erasing(q)'
  BY <1>11, Alone
<1>15. HeadOnDisk'
  <2>1. head' = lh'
    BY <1>1, <1>8 DEF head
  <2> QED
    BY <1>11, <1>12, <1>13, <1>14, <2>1 DEF HeadOnDisk
<1>16. \A t \in 1 .. Len(lh') : ~Installed(p, t)'
  <2> SUFFICES ASSUME NEW t \in 1 .. Len(lh'), Installed(p, t)' PROVE FALSE
    OBVIOUS
  <2>1. PICK k \in 2 .. Len(code[p]) : code[p][k] = <<"install_trans", 1>>
    BY <1>1, <1>2, <1>5, FirstPhase
  <2>2. Past(code[p][k], "install_trans", t, lh'[t])
    BY <1>11 DEF Installed
  <2>3. t < 1
    BY <2>1, <2>2 DEF Past
  <2> QED
    BY <2>3
<1>17. Copied'
  BY <1>11, <1>12, <1>14, <1>16 DEF Copied
<1> QED
  BY <1>6, <1>7, <1>9, <1>15, <1>17, SettledData

\* While an operation is in progress nobody commits or recovers.
LEMMA NobodyFinishes ==
  ASSUME LInv, NEW p \in Procs, InOp(p)
  PROVE  /\ up /\ outstanding > 0
         /\ \A q \in Procs : ~Finishing(q) /\ ~Logging(q) /\ ~Installing(q) /\ ~Erasing(q)
<1>1. Counted
  BY DEF LInv
<1>2. outstanding > 0 /\ outstanding \in Nat
  BY <1>1, Outstanding
<1>3. up /\ ~committing
  BY <1>1, <1>2 DEF Counted
<1>4. \A q \in Procs : ~Finishing(q)
  BY <1>1, <1>3 DEF Counted, Finishing
<1> QED
  BY <1>2, <1>3, <1>4, PhaseOf

\* The last operation ends: a commit begins, with the empty header on the disk.
LEMMA LastEndData ==
  ASSUME LInv, LInv', DInv, NEW p \in Procs, end_op(p), LastOne
  PROVE  SameBlocks /\ DInv'
<1>1. /\ Typed /\ Programs /\ At(p, "end") /\ buf' = buf /\ disk' = disk /\ lh' = lh
      /\ code[p] # << >> /\ Then(p, LastProgram)
  BY DEF LInv, end_op, At, LastProgram
<1>2. /\ code[p] \in Seq(Instrs) /\ code[p][1][1] = "end" /\ LastOp(code[p]) = "end"
      /\ Len(code[p]) = 1
  BY <1>1, FirstAt
<1>3. InOp(p) /\ \A o \in {"iderw", "wait"} : ~At(p, o)
  BY <1>1, <1>2 DEF InOp, At
<1>4. /\ up
      /\ \A q \in Procs : ~Finishing(q) /\ ~Logging(q) /\ ~Installing(q) /\ ~Erasing(q)
  BY <1>3, NobodyFinishes
<1>5. head = << >>
  BY <1>4 DEF DInv, HeadOnDisk
<1>6. PICK s : s = LastProgram
  OBVIOUS
<1>7. /\ s \in Seq(Instrs) /\ s # << >> /\ Head(s) = s[1]
      /\ s[1][1] \in {"write_log", "done"} /\ LastOp(s) = "done" /\ Ordered(s)
      /\ lh = << >> => s[1][1] = "done"
      /\ lh # << >> => /\ HasOp(s, "clear") /\ ~HasOp(s, "read_head")
                       /\ Len(s) = 10 /\ s[1] = <<"write_log", 1>> /\ s[3][1] = "write_head"
  BY <1>6, CommitCode
<1>8. code'[p] = s /\ \A q \in Procs : q # p => code'[q] = code[q]
  <2>1. /\ code'[p] = s \o Tail(code[p]) /\ \A q \in Procs : q # p => code'[q] = code[q]
    BY <1>1, <1>6, <1>7, Stepped
  <2>2. s \o Tail(code[p]) = s
    BY <1>1, <1>2, <1>7, LastBehind
  <2> QED
    BY <2>1, <2>2
<1>9. SameBlocks /\ SameWaits
  <2>1. \A o \in {"iderw", "wait"} : ~At(p, o)'
    BY <1>7, <1>8 DEF At
  <2> QED
    BY <1>1, <1>3, <1>8, <2>1, QuietBlocks
<1>10. Finishing(p)'
  BY <1>7, <1>8 DEF Finishing
<1>11. \A q \in Procs : q # p => ~Logging(q)' /\ ~Installing(q)' /\ ~Erasing(q)'
  BY <1>10, Alone
<1>12. head' = << >>
  BY <1>1, <1>5 DEF head
<1>13. HeadOnDisk' /\ Copied'
  <2>1. CASE lh = << >>
    <3>1. ~Installing(p)'
      <4>1. ~HasOp(s, "clear")
        BY <1>7, <2>1, PhaseOrder
      <4> QED
        BY <1>8, <4>1 DEF Installing, Has
    <3>2. 1 .. Len(lh') = {} /\ 1 .. Len(head') = {}
      BY <1>1, <1>12, <2>1
    <3> QED
      BY <1>11, <1>12, <3>1, <3>2 DEF HeadOnDisk, Copied
  <2>2. CASE lh # << >>
    <3>1. Logging(p)'
      <4>1. Len(s) = 10
        BY <1>7, <2>2
      <4>2. 3 \in 1 .. Len(s) - 3
        BY <4>1
      <4> QED
        BY <1>7, <1>8, <2>2, <4>2 DEF Logging, LogsIn
    <3>2. ~Installing(p)' /\ ~Erasing(p)'
      BY <3>1, PhaseWill
    <3>3. \A t \in 1 .. Len(lh') : ~Logged(p, t)'
      <4> SUFFICES ASSUME NEW t \in 1 .. Len(lh'), Logged(p, t)' PROVE FALSE
        OBVIOUS
      <4>1. 1 \in 1 .. Len(s)
        BY <1>7, <2>2
      <4>2. Past(s[1], "write_log", t, LogBlocks[t])
        BY <1>8, <4>1 DEF Logged, AllPast
      <4>3. t < 1
        BY <1>7, <2>2, <4>2 DEF Past
      <4> QED
        BY <4>3
    <3>4. HeadOnDisk'
      BY <1>11, <1>12, <3>2 DEF HeadOnDisk
    <3>5. Copied'
      BY <1>11, <3>2, <3>3 DEF Copied
    <3> QED
      BY <3>4, <3>5
  <2> QED
    BY <2>1, <2>2
<1>14. \A b \in Homes : Dirty(b) => b \in InLog'
  BY <1>1 DEF DInv, Dirtied, InLog
<1> QED
  BY <1>4, <1>9, <1>13, <1>14, SettledData

\* An operation writes a block: it is dirty, and listed in the header in memory.
LEMMA LogWriteData ==
  ASSUME LInv, LInv', DInv, NEW p \in Procs, log_write(p)
  PROVE  /\ DInv' /\ disk' = disk /\ up /\ outstanding > 0
         /\ \E x \in Homes, v \in Values :
              Content(x)' = v /\ \A b \in Blocks : b # x => Content(b)' = Content(b)
<1>1. /\ Typed /\ Programs /\ At(p, "log_write") /\ disk' = disk /\ up' = up /\ code[p] # << >>
      /\ Then(p, << >>)
  BY DEF LInv, log_write, At
<1>2. /\ code[p] \in Seq(Instrs) /\ code[p][1][1] = "log_write" /\ LastOp(code[p]) = "end"
      /\ Len(code[p]) # 1
  BY <1>1, FirstAt
<1>3. InOp(p) /\ \A o \in Low : ~At(p, o)
  BY <1>1, <1>2 DEF InOp, At, Low
<1>4. /\ up /\ outstanding > 0
      /\ \A q \in Procs : ~Finishing(q) /\ ~Logging(q) /\ ~Installing(q) /\ ~Erasing(q)
  BY <1>3, NobodyFinishes
<1>5. PICK x \in Homes, v \in Values : x = Arg(p) /\ v = Head(code[p])[3]
  BY <1>1, ArgType
<1>6. x \in Blocks /\ Homes \subseteq Blocks
  BY LogAssumption
<1>7. Owes(p, x)
  BY <1>1, <1>5, <1>6, OwesNext
<1>8. PICK i \in Bufs : i = Held(p, x) /\ buf[i].blockno = x /\ buf[i].lock = p /\ buf[i].valid
  BY <1>3, <1>6, <1>7, HeldContent
<1>9. StoreIn(i, v)
  BY <1>5, <1>8 DEF log_write, StoreIn
<1>10. PICK s : s = << >> /\ Then(p, s)
  BY <1>1
<1>11. /\ Content(x)' = v /\ Dirty(x)'
       /\ \A b \in Blocks : b # x => Content(b)' = Content(b) /\ (Dirty(b)' <=> Dirty(b))
       /\ \A q \in Procs, b \in Blocks : q # p => (Waits(q, b)' <=> Waits(q, b))
       /\ \A q \in Procs : q # p => ~Waits(q, x)
       /\ \A b \in Blocks : Waits(p, b)' <=> s # << >> /\ b = x
  BY <1>1, <1>2, <1>6, <1>8, <1>9, <1>10, StoreBlocks
<1>12. \A q \in Procs : ~Finishing(q)'
  <2>1. /\ LastOp(code'[p]) = LastOp(code[p])
        /\ \A q \in Procs : q # p => code'[q] = code[q]
    BY <1>1, <1>2, <1>10, PlainStep
  <2> QED
    BY <1>2, <1>4, <2>1, Elsewhere DEF Finishing
<1>13. \A q \in Procs : ~Logging(q)' /\ ~Installing(q)' /\ ~Erasing(q)'
  BY <1>12, PhaseWill DEF Erasing
<1>14. /\ \A t \in LogDataBlocks : ~Dirty(LogBlocks[t])
       /\ ~Dirty(Header)
       /\ \A q \in Procs, b \in Homes : Dirty(b) => ~Waits(q, b)
  BY <1>4, Settled
<1>15. InLog' = InLog \cup {x}
  <2>1. lh \in Seq(Homes)
    BY <1>1 DEF Typed, Headers
  <2>2. lh' = IF x \in InLog THEN lh ELSE Append(lh, x)
    BY <1>5 DEF log_write, InLog
  <2>3. CASE x \in InLog
    BY <2>2, <2>3 DEF InLog
  <2>4. CASE x \notin InLog
    <3>1. lh' = Append(lh, x)
      BY <2>2, <2>4
    <3>2. PICK n \in Nat : n = Len(lh)
      BY <2>1, LenProperties
    <3>3. /\ Len(lh') = n + 1 /\ lh'[n + 1] = x /\ \A k \in 1 .. n : lh'[k] = lh[k]
      BY <2>1, <3>1, <3>2, AppendProperties
    <3>4. \A k \in 1 .. n + 1 : k = n + 1 \/ k \in 1 .. n
      OBVIOUS
    <3>5. n + 1 \in 1 .. n + 1 /\ \A k \in 1 .. n : k \in 1 .. n + 1
      OBVIOUS
    <3>6. \A y : (\E k \in 1 .. n + 1 : lh'[k] = y) <=> y = x \/ \E k \in 1 .. n : lh[k] = y
      BY <3>3, <3>4, <3>5
    <3> QED
      BY <3>2, <3>3, <3>6 DEF InLog
  <2> QED
    BY <2>3, <2>4
<1>16. Clean'
  BY <1>1, <1>11 DEF DInv, Clean
<1>17. Dirtied'
  <2>1. \A b \in Homes : Dirty(b)' => b \in InLog'
    BY <1>6, <1>11, <1>15 DEF DInv, Dirtied
  <2>2. ASSUME NEW q \in Procs, NEW b \in Homes, Waits(q, b)', Dirty(b)' PROVE FALSE
    BY <1>6, <1>10, <1>11, <1>14, <2>2
  <2>3. \A t \in LogDataBlocks : LogBlocks[t] \in Blocks /\ LogBlocks[t] # x
    BY Places
  <2>4. Header \in Blocks /\ Header # x
    BY Places
  <2>5. \A t \in LogDataBlocks : ~Dirty(LogBlocks[t])'
    BY <1>11, <1>14, <2>3
  <2>6. ~Dirty(Header)'
    BY <1>11, <1>14, <2>4
  <2> QED
    BY <2>1, <2>2, <2>5, <2>6 DEF Dirtied, LogDataBlocks
<1>18. HeadOnDisk'
  <2>1. head = << >>
    BY <1>4 DEF DInv, HeadOnDisk
  <2>2. head' = << >>
    BY <1>1, <2>1 DEF head
  <2> QED
    BY <1>13, <2>2 DEF HeadOnDisk
<1>19. Copied'
  BY <1>13 DEF Copied
<1> QED
  BY <1>1, <1>4, <1>11, <1>16, <1>17, <1>18, <1>19 DEF DInv

-----------------------------------------------------------------------------
(* Blocks given to the disk *)

\* What write_log and install_trans copy, and the phase they do it in.
LEMMA CopyPlace ==
  ASSUME LInv, NEW p \in Procs, At(p, "copy")
  PROVE  \E t \in 1 .. Len(lh) :
           \/ /\ code[p][1] = <<"copy", LogBlocks[t], lh[t]>> /\ Logging(p)
           \/ /\ code[p][1] = <<"copy", lh[t], LogBlocks[t]>> /\ Installing(p)
<1>1. Typed /\ Programs /\ CopiesMatch
  BY DEF LInv
<1>2. code[p] # << >> /\ code[p] \in Seq(Instrs) /\ code[p][1][1] = "copy"
  BY <1>1, FirstAt
<1>3. Ordered(code[p]) /\ Matches(code[p], lh) /\ 1 \in 1 .. Len(code[p])
  BY <1>1, <1>2, First DEF Programs, CopiesMatch
<1>4. CopyMatches(code[p], 1, lh)
  BY <1>3 DEF Matches
<1>5. PICK t \in 1 .. Len(lh) :
        \/ code[p][1 + 3] = <<"write_log", t + 1>> /\ code[p][1] = <<"copy", LogBlocks[t], lh[t]>>
        \/ code[p][1 + 3] = <<"install_trans", t + 1>> /\ code[p][1] = <<"copy", lh[t], LogBlocks[t]>>
  BY <1>2, <1>4 DEF CopyMatches
<1>6. 1 + 3 = 4 /\ t + 1 # 1
  OBVIOUS
<1>7. CASE code[p][4] = <<"write_log", t + 1>>
  <2>1. code[p][4][1] = "write_log"
    BY <1>7
  <2>2. Logging(p)
    BY <1>2, <1>3, <2>1, FirstPhase DEF Logging
  <2>3. code[p][1] = <<"copy", LogBlocks[t], lh[t]>>
    <3>1. code[p][4] # <<"install_trans", t + 1>>
      BY <2>1
    <3> QED
      BY <1>5, <1>6, <3>1
  <2> QED
    BY <2>2, <2>3
<1>8. CASE code[p][4] = <<"install_trans", t + 1>>
  <2>1. code[p][4][1] = "install_trans" /\ code[p][4][2] # 1
    BY <1>6, <1>8
  <2>2. Installing(p)
    BY <1>2, <1>3, <2>1, FirstPhase DEF Installing, Logging, Has
  <2>3. code[p][1] = <<"copy", lh[t], LogBlocks[t]>>
    <3>1. code[p][4] # <<"write_log", t + 1>>
      BY <2>1
    <3> QED
      BY <1>5, <1>6, <3>1
  <2> QED
    BY <2>2, <2>3
<1> QED
  BY <1>5, <1>6, <1>7, <1>8

\* A copy is stored: one block changes, to the contents of another, and waits for the disk.
LEMMA CopyBlocks ==
  ASSUME LInv, LInv', NEW p \in Procs, Copy(p), NEW to \in Blocks, NEW from \in Blocks,
         code[p][1] = <<"copy", to, from>>
  PROVE  /\ Content(to)' = Content(from) /\ Dirty(to)'
         /\ \A b \in Blocks : b # to => Content(b)' = Content(b) /\ (Dirty(b)' <=> Dirty(b))
         /\ \A q \in Procs, b \in Blocks : q # p => (Waits(q, b)' <=> Waits(q, b))
         /\ \A q \in Procs : q # p => ~Waits(q, to)
         /\ \A b \in Blocks : Waits(p, b)' <=> b = to
         /\ disk' = disk /\ lh' = lh /\ up' = up /\ outstanding' = outstanding
<1>1. /\ Typed /\ Programs /\ At(p, "copy") /\ disk' = disk /\ code[p] # << >>
      /\ lh' = lh /\ up' = up /\ outstanding' = outstanding
      /\ bwrite(p, Arg(p), buf[Held(p, Head(code[p])[3])].data)
  BY DEF LInv, Copy, At, bwrite, logVars
<1>2. code[p] \in Seq(Instrs) /\ Head(code[p]) = code[p][1] /\ code[p][1][1] = "copy"
  BY <1>1, First, FirstAt
<1>3. Arg(p) = to /\ Head(code[p])[3] = from /\ code[p][1][3] = from
  BY <1>2 DEF Arg
<1>4. \A o \in Low : ~At(p, o)
  BY <1>1 DEF At, Low
<1>5. Owes(p, to) /\ Owes(p, from)
  BY <1>1, <1>3, OwesNext
<1>6. PICK i \in Bufs : i = Held(p, to) /\ buf[i].blockno = to /\ buf[i].lock = p /\ buf[i].valid
  BY <1>4, <1>5, HeldContent
<1>7. Content(from) = buf[Held(p, from)].data
  BY <1>4, <1>5, HeldContent
<1>8. PICK v : v = Content(from)
  OBVIOUS
<1>9. StoreIn(i, v) /\ Then(p, <<<<"iderw", i>>>>)
  BY <1>1, <1>3, <1>6, <1>7, <1>8 DEF bwrite, StoreIn
<1>10. PICK s : s = <<<<"iderw", i>>>> /\ Then(p, s) /\ s # << >>
  BY <1>9
<1>11. /\ Content(to)' = v /\ Dirty(to)'
       /\ \A b \in Blocks : b # to => Content(b)' = Content(b) /\ (Dirty(b)' <=> Dirty(b))
       /\ \A q \in Procs, b \in Blocks : q # p => (Waits(q, b)' <=> Waits(q, b))
       /\ \A q \in Procs : q # p => ~Waits(q, to)
       /\ \A b \in Blocks : Waits(p, b)' <=> s # << >> /\ b = to
  <2>1. code[p] # << >> /\ code[p][1][1] \in {"log_write", "copy", "write_head"} /\ disk' = disk
    BY <1>1, <1>2
  <2>2. buf[i].blockno = to /\ buf[i].lock = p /\ buf[i].valid /\ StoreIn(i, v)
    BY <1>6, <1>9
  <2>3. (s = << >> \/ s = <<<<"iderw", i>>>>) /\ Then(p, s)
    BY <1>10
  <2> QED
    BY <2>1, <2>2, <2>3, StoreBlocks
<1> QED
  BY <1>1, <1>8, <1>10, <1>11

\* What a copy does to the phase of its process, and what counts as copied after it.
LEMMA CopyPhase ==
  ASSUME LInv, NEW p \in Procs, Copy(p), NEW to, NEW from, code[p][1] = <<"copy", to, from>>
  PROVE  /\ Logging(p)' <=> Logging(p)
         /\ \A o \in {"clear", "read_head", "write_head"} : Has(p, o)' <=> Has(p, o)
         /\ Finishing(p)' <=> Finishing(p)
         /\ LastOp(code'[p]) = "done" <=> LastOp(code[p]) = "done"
         /\ Installing(p)' <=> Installing(p)
         /\ \A t : LogBlocks[t] # to /\ Logged(p, t)' => Logged(p, t)
         /\ \A t : lh[t] # to /\ Installed(p, t)' => Installed(p, t)
<1>1. /\ Typed /\ Programs /\ At(p, "copy") /\ code[p] # << >> /\ lh' = lh
      /\ Then(p, <<<<"iderw", Held(p, Arg(p))>>>>)
  BY DEF LInv, Copy, At, bwrite, logVars
<1>2. code[p] \in Seq(Instrs) /\ Head(code[p]) = code[p][1] /\ code[p][1][1] = "copy"
  BY <1>1, First, FirstAt
<1>3. Held(p, Arg(p)) \in Bufs
  <2>1. \A i \in Bufs : ~Asks(p, i)
    BY <1>1 DEF Asks, At
  <2>2. Arg(p) \in Blocks /\ Cache
    BY <1>1, ArgType DEF LInv
  <2>3. Owes(p, Arg(p))
    BY <1>1, <2>2, OwesNext
  <2> QED
    BY <2>1, <2>2, <2>3, HeldIs
<1>4. PICK s : s = <<<<"iderw", Held(p, Arg(p))>>>> /\ Then(p, s)
  BY <1>1
<1>5. s = << >> \/ \E o \in Low, i \in Bufs : s = <<<<o, i>>>>
  BY <1>3, <1>4 DEF Low
<1>6. /\ Finishing(p)' <=> Finishing(p)
      /\ LastOp(code'[p]) = "done" <=> LastOp(code[p]) = "done"
      /\ Logging(p)' <=> Logging(p)
      /\ \A o \in {"clear", "read_head", "write_head"} : Has(p, o)' <=> Has(p, o)
      /\ \A o \in Loops : \A t, b :
           AllPast(code'[p], o, t, b) => \A k \in 2 .. Len(code[p]) : Past(code[p][k], o, t, b)
  BY <1>1, <1>2, <1>4, <1>5, PlainPhase
<1>7. ASSUME NEW o \in Loops, NEW t, NEW b, b # to, AllPast(code'[p], o, t, b)
      PROVE  AllPast(code[p], o, t, b)
  <2>1. Past(code[p][1], o, t, b)
    BY <1>2, <1>7 DEF Past, OpIs, Loops
  <2>2. PICK m \in Nat : m = Len(code[p])
    BY <1>2, LenProperties
  <2>3. \A k \in 2 .. m : Past(code[p][k], o, t, b)
    BY <1>6, <1>7, <2>2
  <2>4. \A k \in 1 .. m : k = 1 \/ k \in 2 .. m
    OBVIOUS
  <2> QED
    BY <2>1, <2>2, <2>3, <2>4 DEF AllPast
<1>8. \A t : LogBlocks[t] # to /\ Logged(p, t)' => Logged(p, t)
  BY <1>7 DEF Logged, Loops
<1>9. \A t : lh[t] # to /\ Installed(p, t)' => Installed(p, t)
  BY <1>1, <1>7 DEF Installed, Loops
<1> QED
  BY <1>6, <1>8, <1>9 DEF Installing

\* A logged block is copied to its place in the log.
LEMMA LogCopyData ==
  ASSUME LInv, LInv', DInv, NEW p \in Procs, Copy(p), Logging(p), NEW t \in 1 .. Len(lh),
         code[p][1] = <<"copy", LogBlocks[t], lh[t]>>
  PROVE  DInv' /\ \A b \in Homes : Content(b)' = Content(b)
<1>1. /\ \A u \in 1 .. Len(lh) : /\ lh[u] \in Homes /\ lh[u] \in Blocks /\ u \in LogDataBlocks
                                 /\ LogBlocks[u] \in Blocks
      /\ \A u \in LogDataBlocks : LogBlocks[u] \in Blocks /\ LogBlocks[u] \notin Homes
                                  /\ LogBlocks[u] # Header
      /\ Header \in Blocks /\ Header \notin Homes /\ Homes \subseteq Blocks
  BY Places
<1>2. PICK to \in Blocks, from \in Blocks : to = LogBlocks[t] /\ from = lh[t]
  BY <1>1
<1>3. /\ to \notin Homes /\ to # Header
      /\ \A u \in LogDataBlocks : u # t => LogBlocks[u] # to
  BY <1>1, <1>2, LogAssumption DEF LogDataBlocks
<1>4. code[p][1] = <<"copy", to, from>>
  BY <1>2
<1>5. /\ Content(to)' = Content(from) /\ Dirty(to)'
      /\ \A b \in Blocks : b # to => Content(b)' = Content(b) /\ (Dirty(b)' <=> Dirty(b))
      /\ \A q \in Procs, b \in Blocks : q # p => (Waits(q, b)' <=> Waits(q, b))
      /\ \A b \in Blocks : Waits(p, b)' <=> b = to
      /\ disk' = disk /\ lh' = lh
  BY <1>4, CopyBlocks
<1>6. /\ Logging(p)' /\ Finishing(p)'
      /\ \A u : LogBlocks[u] # to /\ Logged(p, u)' => Logged(p, u)
  BY <1>4, CopyPhase, PhaseOf
<1>7. ~Installing(p)' /\ ~Erasing(p)'
  BY <1>6, PhaseWill
<1>8. \A q \in Procs : q # p => ~Logging(q)' /\ ~Installing(q)' /\ ~Erasing(q)'
  BY <1>6, Alone
<1>9. ~At(p, "iderw") /\ ~At(p, "wait") /\ Finishing(p)
  BY PhaseOf DEF Copy, At
<1>10. \A q \in Procs : Finishing(q) => ~At(q, "iderw") /\ ~At(q, "wait")
  BY <1>9, PhaseOf
<1>11. /\ \A u \in LogDataBlocks : ~Dirty(LogBlocks[u])
       /\ ~Dirty(Header)
       /\ \A q \in Procs, b \in Homes : Dirty(b) => ~Waits(q, b)
  BY <1>10, Settled
<1>12. Clean'
  BY <1>5 DEF DInv, Clean
<1>13. Dirtied'
  <2>1. \A b \in Homes : Dirty(b)' => b \in InLog'
    BY <1>1, <1>3, <1>5 DEF DInv, Dirtied, InLog
  <2>2. ASSUME NEW q \in Procs, NEW b \in Homes, Waits(q, b)', Dirty(b)' PROVE FALSE
    BY <1>1, <1>3, <1>5, <1>11, <2>2
  <2>3. \A u \in LogDataBlocks : Dirty(LogBlocks[u])' => LogBlocks[u] = to
    BY <1>1, <1>5, <1>11
  <2>4. Waits(p, to)'
    BY <1>5
  <2>5. ~Dirty(Header)'
    BY <1>1, <1>3, <1>5, <1>11
  <2> QED
    BY <1>6, <2>1, <2>2, <2>3, <2>4, <2>5 DEF Dirtied, LogDataBlocks
<1>14. HeadOnDisk'
  <2>1. head = << >>
    BY DEF DInv, HeadOnDisk
  <2>2. head' = << >>
    BY <1>5, <2>1 DEF head
  <2> QED
    BY <1>7, <1>8, <2>2 DEF HeadOnDisk
<1>15. Copied'
  <2>1. ASSUME NEW u \in 1 .. Len(lh), Logged(p, u)'
        PROVE  Content(LogBlocks[u])' = Content(lh[u])'
    <3>1. PICK h \in Blocks, l \in Blocks : h = lh[u] /\ h = lh'[u] /\ l = LogBlocks[u] /\ h # to
      BY <1>1, <1>3, <1>5
    <3>2. Content(h)' = Content(h)
      BY <1>5, <3>1
    <3>3. CASE l = to
      <4>1. u = t
        BY <1>1, <1>3, <3>1, <3>3
      <4> QED
        BY <1>2, <1>5, <3>1, <3>2, <3>3, <4>1
    <3>4. CASE l # to
      <4>1. Content(l) = Content(h)
        BY <1>6, <2>1, <3>1, <3>4 DEF DInv, Copied
      <4> QED
        BY <1>5, <3>1, <3>2, <3>4, <4>1
    <3> QED
      BY <3>3, <3>4
  <2> QED
    BY <1>5, <1>7, <1>8, <2>1 DEF Copied
<1> QED
  BY <1>1, <1>3, <1>5, <1>12, <1>13, <1>14, <1>15 DEF DInv

\* A block of the log is copied to its home.  After a commit it has those contents already.
LEMMA InstallCopyData ==
  ASSUME LInv, LInv', DInv, NEW p \in Procs, Copy(p), Installing(p), NEW t \in 1 .. Len(lh),
         code[p][1] = <<"copy", lh[t], LogBlocks[t]>>
  PROVE  DInv' /\ (up => \A b \in Homes : Content(b)' = Content(b))
<1>1. /\ \A u \in 1 .. Len(lh) : /\ lh[u] \in Homes /\ lh[u] \in Blocks /\ u \in LogDataBlocks
                                 /\ LogBlocks[u] \in Blocks
      /\ \A u \in LogDataBlocks : LogBlocks[u] \in Blocks /\ LogBlocks[u] \notin Homes
                                  /\ LogBlocks[u] # Header
      /\ Header \in Blocks /\ Header \notin Homes /\ Homes \subseteq Blocks
  BY Places
<1>2. PICK to \in Blocks, from \in Blocks : to = lh[t] /\ from = LogBlocks[t]
  BY <1>1
<1>3. /\ to \in Homes /\ to # Header /\ \A u \in LogDataBlocks : LogBlocks[u] # to
      /\ \A u \in 1 .. Len(lh) : u # t => lh[u] # to
  <2>1. lh \in Headers
    BY DEF LInv, Typed
  <2> QED
    BY <1>1, <1>2, <2>1 DEF Headers
<1>4. code[p][1] = <<"copy", to, from>>
  BY <1>2
<1>5. /\ Content(to)' = Content(from) /\ Dirty(to)'
      /\ \A b \in Blocks : b # to => Content(b)' = Content(b) /\ (Dirty(b)' <=> Dirty(b))
      /\ \A q \in Procs, b \in Blocks : q # p => (Waits(q, b)' <=> Waits(q, b))
      /\ \A q \in Procs : q # p => ~Waits(q, to)
      /\ \A b \in Blocks : Waits(p, b)' <=> b = to
      /\ disk' = disk /\ lh' = lh
  BY <1>4, CopyBlocks
<1>6. Finishing(p) /\ \A q \in Procs : Finishing(q) => q = p
  BY PhaseOf
<1>7. /\ Installing(p)' /\ Finishing(p)'
      /\ LastOp(code'[p]) = "done" <=> LastOp(code[p]) = "done"
      /\ \A u : lh[u] # to /\ Installed(p, u)' => Installed(p, u)
  BY <1>4, <1>6, CopyPhase
<1>8. ~Logging(p)' /\ ~Erasing(p)'
  BY <1>7, PhaseWill
<1>9. \A q \in Procs : q # p => ~Logging(q)' /\ ~Installing(q)' /\ ~Erasing(q)'
  BY <1>7, Alone
<1>10. ~At(p, "iderw") /\ ~At(p, "wait")
  BY DEF Copy, At
<1>11. /\ \A u \in LogDataBlocks : ~Dirty(LogBlocks[u])
       /\ ~Dirty(Header) /\ head = lh
       /\ \A q \in Procs, b \in Homes : Dirty(b) => ~Waits(q, b)
  BY <1>6, <1>10, Settled
<1>12. Content(from) = disk[from]
  BY <1>1, <1>2, <1>11 DEF DInv, Clean
<1>13. Clean'
  BY <1>5 DEF DInv, Clean
<1>14. Dirtied'
  <2>1. \A b \in Homes : Dirty(b)' => b \in InLog'
    BY <1>1, <1>2, <1>5 DEF DInv, Dirtied, InLog
  <2>2. ASSUME NEW q \in Procs, NEW b \in Homes, Waits(q, b)', Dirty(b)' PROVE q = p
    <3>1. CASE b = to
      BY <1>1, <1>5, <2>2, <3>1
    <3>2. CASE b # to
      BY <1>1, <1>5, <1>11, <2>2, <3>2
    <3> QED
      BY <3>1, <3>2
  <2>3. head' = lh'
    BY <1>5, <1>11 DEF head
  <2>4. \A u \in LogDataBlocks : ~Dirty(LogBlocks[u])'
    BY <1>1, <1>3, <1>5, <1>11
  <2>5. ~Dirty(Header)'
    BY <1>1, <1>3, <1>5, <1>11
  <2> QED
    BY <1>7, <2>1, <2>2, <2>3, <2>4, <2>5 DEF Dirtied, LogDataBlocks
<1>15. HeadOnDisk'
  <2>1. head' = lh'
    BY <1>5, <1>11 DEF head
  <2> QED
    BY <1>7, <1>8, <1>9, <2>1 DEF HeadOnDisk
<1>16. Copied'
  <2>1. ASSUME NEW u \in 1 .. Len(lh)
        PROVE  /\ LastOp(code'[p]) = "done" \/ Installed(p, u)' =>
                    disk'[LogBlocks[u]] = Content(lh[u])'
               /\ Installed(p, u)' /\ Dirty(lh[u])' => Waits(p, lh[u])'
    <3>1. PICK h \in Blocks : h = lh[u] /\ h = lh'[u]
      BY <1>1, <1>5
    <3>2. CASE u = t
      <4>1. h = to /\ LogBlocks[u] = from
        BY <1>2, <3>1, <3>2
      <4>2. Content(h)' = disk[from] /\ Waits(p, h)'
        BY <1>5, <1>12, <4>1
      <4> QED
        BY <1>5, <3>1, <4>1, <4>2
    <3>3. CASE u # t
      <4>1. h # to
        BY <1>3, <3>1, <3>3
      <4>2. Content(h)' = Content(h) /\ (Dirty(h)' <=> Dirty(h))
        BY <1>5, <4>1
      <4>3. LastOp(code[p]) = "done" \/ Installed(p, u) => disk[LogBlocks[u]] = Content(h)
        BY <3>1 DEF DInv, Copied
      <4>4. Installed(p, u)' => Installed(p, u)
        BY <1>7, <3>1, <4>1
      <4>5. Installed(p, u) => ~Dirty(h)
        BY <1>1, <1>11, <3>1 DEF DInv, Copied
      <4> QED
        BY <1>5, <1>7, <3>1, <4>2, <4>3, <4>4, <4>5
    <3> QED
      BY <3>2, <3>3
  <2> QED
    BY <1>5, <1>8, <1>9, <2>1 DEF Copied
<1>17. ASSUME up PROVE \A b \in Homes : Content(b)' = Content(b)
  <2>1. LastOp(code[p]) = "done"
    BY <1>6, <1>17 DEF LInv, Counted, Finishing
  <2>2. disk[from] = Content(to)
    BY <1>2, <2>1 DEF DInv, Copied
  <2> QED
    BY <1>1, <1>5, <1>12, <2>2
<1> QED
  BY <1>13, <1>14, <1>15, <1>16, <1>17 DEF DInv

\* Both copies.
LEMMA CopyData ==
  ASSUME LInv, LInv', DInv, NEW p \in Procs, Copy(p)
  PROVE  DInv' /\ disk' = disk /\ (up => \A b \in Homes : Content(b)' = Content(b))
<1>1. At(p, "copy") /\ disk' = disk
  BY DEF Copy, bwrite
<1>2. PICK t \in 1 .. Len(lh) :
        \/ /\ code[p][1] = <<"copy", LogBlocks[t], lh[t]>> /\ Logging(p)
        \/ /\ code[p][1] = <<"copy", lh[t], LogBlocks[t]>> /\ Installing(p)
  BY <1>1, CopyPlace
<1> QED
  BY <1>1, <1>2, LogCopyData, InstallCopyData

\* The header is stored in its buffer and waits for the disk.
LEMMA HeadBlocks ==
  ASSUME LInv, LInv', NEW p \in Procs, WriteHead(p)
  PROVE  /\ Content(Header)' = lh /\ Dirty(Header)'
         /\ \A b \in Blocks : b # Header => Content(b)' = Content(b) /\ (Dirty(b)' <=> Dirty(b))
         /\ \A q \in Procs, b \in Blocks : q # p => (Waits(q, b)' <=> Waits(q, b))
         /\ \A b \in Blocks : Waits(p, b)' <=> b = Header
         /\ disk' = disk /\ lh' = lh
         /\ \E s : /\ s = << >> \/ \E o \in Low, j \in Bufs : s = <<<<o, j>>>>
                   /\ Then(p, s)
<1>1. /\ Typed /\ Programs /\ At(p, "write_head") /\ disk' = disk /\ code[p] # << >> /\ lh' = lh
      /\ bwrite(p, Header, lh)
  BY DEF LInv, WriteHead, At, bwrite, logVars
<1>2. code[p] \in Seq(Instrs) /\ code[p][1][1] = "write_head"
  BY <1>1, FirstAt
<1>3. Header \in Blocks /\ \A o \in Low : ~At(p, o)
  BY <1>1, LogAssumption DEF At, Low
<1>4. Owes(p, Header)
  BY <1>1, <1>3, OwesNext
<1>5. PICK i \in Bufs : i = Held(p, Header) /\ buf[i].blockno = Header /\ buf[i].lock = p
                        /\ buf[i].valid
  BY <1>3, <1>4, HeldContent
<1>6. PICK v : v = lh
  OBVIOUS
<1>7. StoreIn(i, v) /\ Then(p, <<<<"iderw", i>>>>)
  BY <1>1, <1>5, <1>6 DEF bwrite, StoreIn
<1>8. PICK s : s = <<<<"iderw", i>>>> /\ Then(p, s) /\ s # << >>
  BY <1>7
<1>9. /\ Content(Header)' = v /\ Dirty(Header)'
      /\ \A b \in Blocks : b # Header => Content(b)' = Content(b) /\ (Dirty(b)' <=> Dirty(b))
      /\ \A q \in Procs, b \in Blocks : q # p => (Waits(q, b)' <=> Waits(q, b))
      /\ \A b \in Blocks : Waits(p, b)' <=> s # << >> /\ b = Header
  <2>1. code[p] # << >> /\ code[p][1][1] \in {"log_write", "copy", "write_head"} /\ disk' = disk
    BY <1>1, <1>2
  <2>2. buf[i].blockno = Header /\ buf[i].lock = p /\ buf[i].valid /\ StoreIn(i, v)
    BY <1>5, <1>7
  <2>3. (s = << >> \/ s = <<<<"iderw", i>>>>) /\ Then(p, s)
    BY <1>8
  <2> QED
    BY <1>3, <2>1, <2>2, <2>3, StoreBlocks
<1>10. \E o \in Low, j \in Bufs : s = <<<<o, j>>>>
  BY <1>8 DEF Low
<1> QED
  BY <1>1, <1>6, <1>8, <1>9, <1>10

\* write_head: the header that commits, or the empty one that erases the log.
LEMMA WriteHeadData ==
  ASSUME LInv, LInv', DInv, NEW p \in Procs, WriteHead(p)
  PROVE  DInv' /\ disk' = disk /\ \A b \in Homes : Content(b)' = Content(b)
<1>1. Typed /\ Programs /\ At(p, "write_head") /\ code[p] # << >>
  BY DEF LInv, WriteHead, At
<1>2. code[p] \in Seq(Instrs) /\ code[p][1][1] = "write_head" /\ Ordered(code[p])
      /\ 1 \in 1 .. Len(code[p])
  BY <1>1, FirstAt, First DEF Programs
<1>3. Finishing(p) /\ Has(p, "write_head")
  <2>1. HasOp(code[p], "write_head")
    BY <1>2 DEF HasOp
  <2> QED
    BY <1>2, <2>1, PhaseOrder DEF Finishing, Has
<1>4. /\ Content(Header)' = lh /\ Dirty(Header)'
      /\ \A b \in Blocks : b # Header => Content(b)' = Content(b) /\ (Dirty(b)' <=> Dirty(b))
      /\ \A q \in Procs, b \in Blocks : q # p => (Waits(q, b)' <=> Waits(q, b))
      /\ \A b \in Blocks : Waits(p, b)' <=> b = Header
      /\ disk' = disk /\ lh' = lh
  BY HeadBlocks
<1>5. PICK s : /\ s = << >> \/ \E o \in Low, j \in Bufs : s = <<<<o, j>>>>
               /\ Then(p, s)
  BY HeadBlocks
<1>6. /\ Finishing(p)'
      /\ LastOp(code'[p]) = "done" <=> LastOp(code[p]) = "done"
      /\ Logging(p)' <=> \E k \in 2 .. Len(code[p]) - 3 : code[p][k][1] = "write_head"
      /\ Has(p, "clear")' <=> Has(p, "clear")
      /\ Has(p, "read_head")' <=> Has(p, "read_head")
      /\ \A t, b : AllPast(code'[p], "install_trans", t, b) =>
           \A k \in 2 .. Len(code[p]) : Past(code[p][k], "install_trans", t, b)
  BY <1>1, <1>2, <1>3, <1>5, PlainPhase DEF Loops
<1>7. \A q \in Procs : q # p => ~Logging(q)' /\ ~Installing(q)' /\ ~Erasing(q)'
  BY <1>6, Alone
<1>8. ~At(p, "iderw") /\ ~At(p, "wait")
  BY <1>1 DEF At
<1>9. \A q \in Procs : Finishing(q) => q = p
  BY <1>3, PhaseOf
<1>10. /\ \A u \in LogDataBlocks : ~Dirty(LogBlocks[u])
       /\ \A q \in Procs, b \in Homes : Dirty(b) => ~Waits(q, b)
  BY <1>8, <1>9, Settled
<1>11. /\ \A u \in 1 .. Len(lh) : /\ lh[u] \in Homes /\ lh[u] \in Blocks /\ u \in LogDataBlocks
                                  /\ LogBlocks[u] \in Blocks
       /\ \A u \in LogDataBlocks : LogBlocks[u] \in Blocks /\ LogBlocks[u] # Header
       /\ Header \in Blocks /\ Header \notin Homes /\ Homes \subseteq Blocks
  BY Places
<1>12. head' = head
  BY <1>4 DEF head
<1>13. Clean'
  BY <1>4 DEF DInv, Clean
<1>14. ASSUME Installing(p)' \/ Erasing(p)' PROVE Dirtied'
  <2>1. \A b \in Homes : Dirty(b)' => b \in InLog'
    BY <1>4, <1>11 DEF DInv, Dirtied, InLog
  <2>2. \A q \in Procs, b \in Homes : Dirty(b)' => ~Waits(q, b)'
    BY <1>4, <1>10, <1>11
  <2>3. \A u \in LogDataBlocks : ~Dirty(LogBlocks[u])'
    BY <1>4, <1>10, <1>11
  <2>4. Waits(p, Header)'
    BY <1>4, <1>11
  <2> QED
    BY <1>4, <1>14, <2>1, <2>2, <2>3, <2>4 DEF Dirtied, LogDataBlocks
<1>15. CASE Logging(p)
  <2>1. /\ \E k \in 2 .. Len(code[p]) : code[p][k] = <<"install_trans", 1>>
        /\ \A k \in 2 .. Len(code[p]) - 3 : code[p][k][1] # "write_head"
        /\ \A t, b : AllPast(code[p], "write_log", t, b)
    BY <1>1, <1>2, <1>15, FirstPhase DEF Logging
  <2>2. LastOp(code[p]) = "done" /\ Has(p, "clear") /\ ~Has(p, "read_head")
    BY <1>15, PhaseOf
  <2>3. ~Logging(p)' /\ Installing(p)' /\ LastOp(code'[p]) = "done"
    BY <1>6, <2>1, <2>2 DEF Installing
  <2>4. ~Erasing(p)'
    BY <2>3, PhaseWill
  <2>5. head = << >>
    BY <1>15 DEF DInv, HeadOnDisk
  <2>6. HeadOnDisk'
    BY <1>4, <1>6, <1>7, <1>12, <2>3, <2>4, <2>5 DEF HeadOnDisk
  <2>7. ASSUME NEW t \in 1 .. Len(lh)
        PROVE  ~Installed(p, t)' /\ disk'[LogBlocks[t]] = Content(lh[t])'
    <3>1. ~Installed(p, t)'
      <4> SUFFICES ASSUME Installed(p, t)' PROVE FALSE
        OBVIOUS
      <4>1. PICK k \in 2 .. Len(code[p]) : code[p][k] = <<"install_trans", 1>>
        BY <2>1
      <4>2. Past(code[p][k], "install_trans", t, lh'[t])
        BY <1>6 DEF Installed
      <4>3. t < 1
        BY <4>1, <4>2 DEF Past
      <4> QED
        BY <4>3
    <3>2. Content(LogBlocks[t]) = Content(lh[t])
      BY <1>15, <2>1 DEF DInv, Copied, Logged
    <3>3. Content(LogBlocks[t]) = disk[LogBlocks[t]]
      BY <1>10, <1>11 DEF DInv, Clean
    <3>4. PICK h \in Blocks : h = lh[t] /\ h = lh'[t] /\ h # Header
      BY <1>4, <1>11
    <3>5. Content(h)' = Content(h)
      BY <1>4, <3>4
    <3> QED
      BY <1>4, <3>1, <3>2, <3>3, <3>4, <3>5
  <2>8. Copied'
    BY <1>4, <1>7, <2>3, <2>7 DEF Copied
  <2> QED
    BY <1>4, <1>11, <1>13, <1>14, <2>3, <2>6, <2>8 DEF DInv
<1>16. CASE ~Logging(p)
  <2>1. ~Has(p, "clear")
    BY <1>1, <1>2, <1>16, FirstPhase DEF Logging, Has
  <2>2. Erasing(p) /\ lh = << >>
    BY <1>3, <2>1, PhaseOf DEF Erasing
  <2>3. Erasing(p)' /\ ~Installing(p)' /\ ~Logging(p)'
    <3>1. Erasing(p)'
      BY <1>6, <2>1 DEF Erasing
    <3> QED
      BY <3>1, PhaseWill
  <2>4. \A t \in 1 .. Len(head') : disk'[head'[t]] = disk'[LogBlocks[t]]
    BY <1>4, <1>12, <2>2 DEF DInv, HeadOnDisk
  <2>5. HeadOnDisk'
    BY <1>4, <1>6, <1>7, <2>3, <2>4 DEF HeadOnDisk
  <2>6. 1 .. Len(lh') = {}
    BY <1>4, <2>2
  <2>7. Copied'
    BY <2>6 DEF Copied
  <2> QED
    BY <1>4, <1>11, <1>13, <1>14, <2>3, <2>5, <2>7 DEF DInv
<1> QED
  BY <1>15, <1>16

-----------------------------------------------------------------------------
(* The disk *)

\* The request the disk is working on.
LEMMA Request ==
  ASSUME LInv, idequeue # << >>, NEW i, i = Head(idequeue)
  PROVE  /\ i \in Bufs /\ ~Ready(i)
         /\ \E q \in Procs, x \in Blocks : buf[i].blockno = x /\ Waits(q, x)
<1>1. Typed /\ Cache
  BY DEF LInv
<1>2. idequeue \in Seq(Bufs) /\ 1 \in 1 .. Len(idequeue) /\ i = idequeue[1] /\ i \in Bufs
  <2>1. idequeue \in Seq(Bufs)
    BY <1>1 DEF Typed
  <2>2. PICK m \in Nat : m = Len(idequeue)
    BY <2>1, LenProperties
  <2>3. m # 0
    BY <2>1, <2>2, EmptySeq
  <2>4. 1 \in 1 .. Len(idequeue)
    BY <2>2, <2>3
  <2> QED
    BY <2>1, <2>4, HeadTailProperties, ElementOfSeq
<1>3. ~Ready(i) /\ \E q \in Procs : Awaits(q, i)
  BY <1>1, <1>2 DEF Cache, Queued
<1>4. PICK q \in Procs : Awaits(q, i)
  BY <1>3
<1>5. buf[i].lock = q
  BY <1>1, <1>2, <1>4 DEF Cache, Locked
<1>6. PICK x \in Blocks : buf[i].blockno = x
  BY <1>1, <1>2, <1>5 DEF Cache, HeldOwed
<1>7. Waits(q, x)
  BY <1>2, <1>4, <1>6 DEF Waits
<1> QED
  BY <1>2, <1>3, <1>6, <1>7

\* A read leaves all contents alone, a write changes those of the disk.
LEMMA IdeintrBlocks ==
  ASSUME LInv, LInv', ideintr
  PROVE  \/ SameBlocks /\ SameWaits
         \/ \E q \in Procs, x \in Blocks :
              /\ Waits(q, x) /\ Dirty(x) /\ ~Dirty(x)'
              /\ disk' = [disk EXCEPT ![x] = Content(x)]
              /\ \A b \in Blocks : Content(b)' = Content(b) /\ (b # x => (Dirty(b)' <=> Dirty(b)))
              /\ \A r \in Procs, b \in Blocks : Waits(r, b)' <=> Waits(r, b)
<1>1. PICK i : i = Head(idequeue)
  OBVIOUS
<1>2. /\ idequeue # << >> /\ code' = code
      /\ disk' = IF buf[i].dirty THEN Written(i) ELSE disk
      /\ buf' = [buf EXCEPT ![i].data = IF buf[i].dirty THEN @ ELSE disk[buf[i].blockno],
                            ![i].valid = TRUE, ![i].dirty = FALSE]
  BY <1>1 DEF ideintr
<1>3. i \in Bufs /\ ~Ready(i)
  BY <1>1, <1>2, Request
<1>4. PICK q \in Procs, x \in Blocks : buf[i].blockno = x /\ Waits(q, x)
  BY <1>1, <1>2, Request
<1>5. Typed /\ Cache
  BY DEF LInv
<1>6. \A j \in Bufs : j \in DOMAIN buf /\ buf[j] \in BufRecords
  BY <1>5 DEF Typed
<1>7. PICK v : v = IF buf[i].dirty THEN buf[i].data ELSE disk[x]
  OBVIOUS
<1>8. /\ buf'[i].blockno = x /\ buf'[i].valid /\ ~buf'[i].dirty /\ buf'[i].data = v
      /\ \A j \in Bufs : j # i => buf'[j] = buf[j]
  <2>1. PICK r : r = [buf[i] EXCEPT !.data = v, !.valid = TRUE, !.dirty = FALSE]
    OBVIOUS
  <2>2. r.blockno = x /\ r.valid = TRUE /\ r.dirty = FALSE /\ r.data = v
    BY <1>3, <1>4, <1>6, <2>1 DEF BufRecords
  <2>3. buf'[i] = r /\ \A j \in Bufs : j # i => buf'[j] = buf[j]
    BY <1>2, <1>3, <1>4, <1>6, <1>7, <2>1
  <2> QED
    BY <2>2, <2>3
<1>9. \A j \in Bufs : buf'[j].blockno = buf[j].blockno
  BY <1>4, <1>8
<1>10. \A r \in Procs, b \in Blocks : Waits(r, b)' <=> Waits(r, b)
  <2>1. \A r \in Procs : code'[r] = code[r]
    BY <1>2
  <2>2. \A r \in Procs, j \in Bufs : (Queues(r, j)' <=> Queues(r, j)) /\ (Awaits(r, j)' <=> Awaits(r, j))
    BY <2>1, Elsewhere
  <2> QED
    BY <1>9, <2>2 DEF Waits, Bufs
<1>11. /\ Content(x) = IF buf[i].valid THEN buf[i].data ELSE disk[x]
       /\ Dirty(x) <=> buf[i].dirty
  BY <1>3, <1>4, BlockIs DEF BlocksAre
<1>12. Content(x)' = v /\ ~Dirty(x)'
  BY <1>3, <1>8, BlockWill
<1>13. Content(x) = v
  <2>1. CASE buf[i].dirty
    <3>1. buf[i].valid
      BY <1>3, <1>5, <2>1 DEF Cache, DirtyValid
    <3> QED
      BY <1>7, <1>11, <2>1, <3>1
  <2>2. CASE ~buf[i].dirty
    <3>1. ~buf[i].valid
      BY <1>3, <2>2 DEF Ready
    <3> QED
      BY <1>7, <1>11, <2>2, <3>1
  <2> QED
    BY <2>1, <2>2
<1>14. ASSUME NEW b \in Blocks, b # x, disk'[b] = disk[b]
       PROVE  Content(b)' = Content(b) /\ (Dirty(b)' <=> Dirty(b))
  <2>1. CASE \E j \in Bufs : buf[j].blockno = b
    <3> PICK j \in Bufs : buf[j].blockno = b
      BY <2>1
    <3>1. j # i /\ buf'[j] = buf[j]
      BY <1>4, <1>8, <1>14
    <3>2. /\ Content(b) = IF buf[j].valid THEN buf[j].data ELSE disk[b]
          /\ Dirty(b) <=> buf[j].dirty
      BY BlockIs DEF BlocksAre
    <3>3. /\ Content(b)' = IF buf'[j].valid THEN buf'[j].data ELSE disk'[b]
          /\ Dirty(b)' <=> buf'[j].dirty
      BY <3>1, BlockWill
    <3> QED
      BY <1>14, <3>1, <3>2, <3>3
  <2>2. CASE \A j \in Bufs : buf[j].blockno # b
    <3>1. Content(b) = disk[b] /\ ~Dirty(b)
      BY <2>2, BlockIs DEF BlocksAre
    <3>2. Content(b)' = disk'[b] /\ ~Dirty(b)'
      BY <1>9, <2>2, BlockWill
    <3> QED
      BY <1>14, <3>1, <3>2
  <2> QED
    BY <2>1, <2>2
<1>15. CASE ~buf[i].dirty
  <2>1. disk' = disk
    BY <1>2, <1>15
  <2>2. \A b \in Blocks : Content(b)' = Content(b) /\ (Dirty(b)' <=> Dirty(b))
    BY <1>11, <1>12, <1>13, <1>14, <1>15, <2>1
  <2> QED
    BY <1>10, <2>1, <2>2 DEF SameBlocks, SameWaits
<1>16. CASE buf[i].dirty
  <2>1. disk' = [disk EXCEPT ![x] = Content(x)]
    BY <1>2, <1>4, <1>7, <1>13, <1>16 DEF Written
  <2>2. \A b \in Blocks : b # x => disk'[b] = disk[b]
    BY <1>5, <2>1 DEF Typed
  <2>3. \A b \in Blocks : Content(b)' = Content(b) /\ (b # x => (Dirty(b)' <=> Dirty(b)))
    BY <1>12, <1>13, <1>14, <2>2
  <2> QED
    BY <1>4, <1>10, <1>11, <1>12, <1>16, <2>1, <2>3
<1> QED
  BY <1>15, <1>16

\* What the disk may be writing, and when.
LEMMA WritePlace ==
  ASSUME LInv, DInv, NEW q \in Procs, NEW x \in Blocks, Waits(q, x), Dirty(x)
  PROVE  \/ /\ x \in Homes /\ x \in InLog /\ x # Header /\ Installing(q) /\ head = lh
            /\ \A t \in LogDataBlocks : LogBlocks[t] # x
         \/ /\ x \notin Homes /\ x # Header /\ \E t \in LogDataBlocks : x = LogBlocks[t]
            /\ \E p \in Procs : Logging(p)
         \/ /\ x = Header /\ Content(x) = lh /\ \E p \in Procs : Installing(p) \/ Erasing(p)
         \/ /\ x \notin Homes /\ x # Header /\ \A t \in LogDataBlocks : LogBlocks[t] # x
<1>1. /\ \A t \in LogDataBlocks : LogBlocks[t] \notin Homes /\ LogBlocks[t] # Header
      /\ Header \notin Homes
  BY Places
<1>2. CASE x \in Homes
  BY <1>1, <1>2 DEF DInv, Dirtied
<1>3. CASE \E t \in LogDataBlocks : x = LogBlocks[t]
  BY <1>1, <1>3 DEF DInv, Dirtied
<1>4. CASE x = Header
  BY <1>4 DEF DInv, Dirtied
<1> QED
  BY <1>2, <1>3, <1>4

\* The disk has written a block.
LEMMA WrittenData ==
  ASSUME LInv, LInv', DInv, code' = code, lh' = lh, up' = up, NEW q \in Procs, NEW x \in Blocks,
         Waits(q, x), Dirty(x), ~Dirty(x)', disk' = [disk EXCEPT ![x] = Content(x)],
         \A b \in Blocks : Content(b)' = Content(b) /\ (b # x => (Dirty(b)' <=> Dirty(b))),
         \A r \in Procs, b \in Blocks : Waits(r, b)' <=> Waits(r, b)
  PROVE  DInv'
<1>1. disk'[x] = Content(x) /\ \A b \in Blocks : b # x => disk'[b] = disk[b]
  BY DEF LInv, Typed
<1>2. \A b \in Blocks : Dirty(b)' => Dirty(b)
  OBVIOUS
<1>3. /\ \A u \in 1 .. Len(lh) : /\ lh[u] \in Homes /\ lh[u] \in Blocks /\ u \in LogDataBlocks
                                 /\ LogBlocks[u] \in Blocks
      /\ \A u \in LogDataBlocks : LogBlocks[u] \in Blocks /\ LogBlocks[u] \notin Homes
                                  /\ LogBlocks[u] # Header
      /\ Header \in Blocks /\ Header \notin Homes /\ Homes \subseteq Blocks
      /\ \A t \in 1 .. Len(head) : /\ head[t] \in Homes /\ head[t] \in Blocks
                                   /\ LogBlocks[t] \in Blocks /\ t \in LogDataBlocks
  BY Places
<1>4. \A r \in Procs : /\ Finishing(r)' <=> Finishing(r)
                       /\ LastOp(code'[r]) = "done" <=> LastOp(code[r]) = "done"
                       /\ Logging(r)' <=> Logging(r)
                       /\ Installing(r)' <=> Installing(r)
                       /\ Erasing(r)' <=> Erasing(r)
                       /\ Has(r, "write_head")' <=> Has(r, "write_head")
                       /\ \A t : /\ Logged(r, t)' <=> Logged(r, t)
                                 /\ Installed(r, t)' <=> Installed(r, t)
  BY OtherPhase
<1>5. /\ x \in Homes => /\ x \in InLog /\ x # Header /\ Installing(q) /\ head = lh
                        /\ \A t \in LogDataBlocks : LogBlocks[t] # x
      /\ (\E t \in LogDataBlocks : x = LogBlocks[t]) => x # Header /\ \E p \in Procs : Logging(p)
      /\ x = Header => Content(x) = lh /\ \E p \in Procs : Installing(p) \/ Erasing(p)
  BY <1>3, WritePlace
<1>6. head' = IF x = Header THEN lh ELSE head
  BY <1>1, <1>3, <1>5 DEF head
<1>7. \A r, p \in Procs : Finishing(r) /\ Finishing(p) => r = p
  BY PhaseOf
<1>8. \A r \in Procs : /\ Logging(r) => Finishing(r) /\ ~Installing(r) /\ ~Erasing(r)
                       /\ Installing(r) => Finishing(r) /\ ~Erasing(r)
                       /\ Erasing(r) => Finishing(r) /\ lh = << >>
  BY PhaseOf
<1>9. Clean'
  BY <1>1 DEF DInv, Clean
<1>10. Dirtied'
  <2>1. Dirtied
    BY DEF DInv
  <2>2. \A b \in Homes : Dirty(b)' => b \in InLog'
    BY <1>2, <1>3, <2>1 DEF Dirtied, InLog
  <2>3. ASSUME NEW r \in Procs, NEW b \in Homes, Waits(r, b)', Dirty(b)'
        PROVE  Installing(r)' /\ head' = lh'
    <3>1. Installing(r) /\ head = lh
      BY <1>2, <1>3, <2>1, <2>3 DEF Dirtied
    <3> QED
      BY <1>4, <1>6, <3>1
  <2>4. ASSUME NEW t \in LogDataBlocks, Dirty(LogBlocks[t])'
        PROVE  \E p \in Procs : Logging(p)' /\ Waits(p, LogBlocks[t])'
    <3>1. PICK p \in Procs : Logging(p) /\ Waits(p, LogBlocks[t])
      BY <1>2, <1>3, <2>1, <2>4 DEF Dirtied
    <3> QED
      BY <1>3, <1>4, <3>1
  <2>5. ASSUME Dirty(Header)'
        PROVE  /\ Content(Header)' = lh'
               /\ \E p \in Procs : (Installing(p)' \/ Erasing(p)') /\ Waits(p, Header)'
    <3>1. Dirty(Header)
      BY <1>2, <1>3, <2>5
    <3>2. /\ Content(Header) = lh
          /\ \E p \in Procs : (Installing(p) \/ Erasing(p)) /\ Waits(p, Header)
      BY <2>1, <3>1 DEF Dirtied
    <3> QED
      BY <1>3, <1>4, <3>2
  <2> QED
    BY <2>2, <2>3, <2>4, <2>5 DEF Dirtied, LogDataBlocks
<1>11. HeadOnDisk'
  <2>1. HeadOnDisk
    BY DEF DInv
  <2>2. CASE x = Header
    <3>1. PICK p \in Procs : Installing(p) \/ Erasing(p)
      BY <1>5, <2>2
    <3>2. head' = lh'
      BY <1>6, <2>2
    <3>3. \A r \in Procs : ~Logging(r)' /\ (Erasing(r)' => head' = << >>)
      BY <1>4, <1>7, <1>8, <3>1, <3>2
    <3>4. Finishing(p)'
      BY <1>4, <1>8, <3>1
    <3>5. head' = << >> => 1 .. Len(head') = {}
      OBVIOUS
    <3> QED
      BY <3>2, <3>3, <3>4, <3>5 DEF HeadOnDisk
  <2>3. CASE x # Header
    <3>1. head' = head /\ (Dirty(Header)' <=> Dirty(Header))
      BY <1>3, <1>6, <2>3
    <3>2. \A r \in Procs : Installing(r) \/ Logging(r) => ~Erasing(r)
      BY <1>8
    <3>3. ASSUME NEW r \in Procs, Erasing(r), NEW t \in 1 .. Len(head)
          PROVE  disk'[head[t]] = disk'[LogBlocks[t]]
      <4>1. x \notin Homes /\ \A u \in LogDataBlocks : x # LogBlocks[u]
        BY <1>5, <1>7, <1>8, <3>3
      <4>2. disk[head[t]] = disk[LogBlocks[t]]
        BY <2>1, <3>3 DEF HeadOnDisk
      <4> QED
        BY <1>1, <1>3, <4>1, <4>2
    <3> QED
      BY <1>4, <2>1, <3>1, <3>3 DEF HeadOnDisk
  <2> QED
    BY <2>2, <2>3
<1>12. Copied'
  <2> SUFFICES ASSUME NEW p \in Procs, NEW t \in 1 .. Len(lh)
               PROVE  /\ Logging(p)' /\ Logged(p, t)' => Content(LogBlocks[t])' = Content(lh[t])'
                      /\ Installing(p)' /\ (LastOp(code'[p]) = "done" \/ Installed(p, t)') =>
                           disk'[LogBlocks[t]] = Content(lh[t])'
                      /\ Installing(p)' /\ Installed(p, t)' /\ Dirty(lh[t])' => Waits(p, lh[t])'
    BY DEF Copied
  <2>1. /\ Logging(p) /\ Logged(p, t) => Content(LogBlocks[t]) = Content(lh[t])
        /\ Installing(p) /\ (LastOp(code[p]) = "done" \/ Installed(p, t)) =>
             disk[LogBlocks[t]] = Content(lh[t])
        /\ Installing(p) /\ Installed(p, t) /\ Dirty(lh[t]) => Waits(p, lh[t])
    BY DEF DInv, Copied
  <2>2. PICK b \in Blocks, l \in Blocks : b = lh[t] /\ b = lh'[t] /\ l = LogBlocks[t]
    BY <1>3
  <2>3. Installing(p) => disk'[l] = disk[l]
    BY <1>1, <1>3, <1>5, <1>7, <1>8, <2>2
  <2>4. /\ Content(b)' = Content(b) /\ Content(l)' = Content(l)
        /\ Dirty(b)' => Dirty(b)
        /\ Waits(p, b)' <=> Waits(p, b)
    OBVIOUS
  <2> QED
    BY <1>4, <2>1, <2>2, <2>3, <2>4
<1> QED
  BY <1>9, <1>10, <1>11, <1>12 DEF DInv

\* The disk's interrupt.
LEMMA IdeintrData ==
  ASSUME LInv, LInv', DInv, ideintr, UNCHANGED logVars
  PROVE  /\ DInv' /\ \A b \in Blocks : Content(b)' = Content(b)
         /\ \/ disk' = disk
            \/ \E q \in Procs, x \in Blocks :
                 Waits(q, x) /\ Dirty(x) /\ disk' = [disk EXCEPT ![x] = Content(x)]
<1>1. code' = code /\ lh' = lh /\ up' = up
  BY DEF ideintr, logVars
<1>2. CASE SameBlocks /\ SameWaits
  <2>1. \A q \in Procs : code'[q] = code[q]
    BY <1>1
  <2>2. SamePhases
    BY <1>1, <2>1, OtherPhase DEF SamePhases
  <2>3. DInv'
    BY <1>1, <1>2, <2>2, DataKept
  <2> QED
    BY <1>2, <2>3 DEF SameBlocks
<1>3. CASE \E q \in Procs, x \in Blocks :
             /\ Waits(q, x) /\ Dirty(x) /\ ~Dirty(x)'
             /\ disk' = [disk EXCEPT ![x] = Content(x)]
             /\ \A b \in Blocks : Content(b)' = Content(b) /\ (b # x => (Dirty(b)' <=> Dirty(b)))
             /\ \A r \in Procs, b \in Blocks : Waits(r, b)' <=> Waits(r, b)
  BY <1>1, <1>3, WrittenData
<1> QED
  BY <1>2, <1>3, IdeintrBlocks

-----------------------------------------------------------------------------
(* The invariant holds *)

\* The machine as it starts, with whatever a crash has left on the disk.
LEMMA BootData == Booted => DInv
<1> SUFFICES ASSUME Booted PROVE DInv
  OBVIOUS
<1>1. LInv
  BY BootSound
<1>2. \A i \in Bufs, b \in Blocks : buf[i].blockno # b
  BY LogAssumption DEF Booted, FreshBufs, EmptyBuf
<1>3. \A b \in Blocks : Content(b) = disk[b] /\ ~Dirty(b)
  BY <1>1, <1>2, BlockIs DEF BlocksAre
<1>4. PICK s : s = recover_from_log
  OBVIOUS
<1>5. s \in Seq(Instrs) /\ Ordered(s) /\ LastOp(s) = "up" /\ HasOp(s, "read_head")
  BY <1>4, RecoveryCode
<1>6. HasOp(s, "clear") /\ ~LogsIn(s)
  BY <1>5, PhaseOrder
<1>7. ASSUME NEW p \in Procs PROVE ~Logging(p) /\ ~Installing(p) /\ ~Erasing(p)
  <2>1. code[p] = s \/ code[p] = << >>
    BY <1>4 DEF Booted, BootCode
  <2>2. CASE code[p] = s
    BY <1>5, <1>6, <2>2 DEF Logging, Installing, Erasing, Has
  <2>3. CASE code[p] = << >>
    <3>1. LastOp(code[p]) = "none"
      BY <2>3 DEF LastOp
    <3>2. ~Finishing(p)
      BY <3>1 DEF Finishing
    <3> QED
      BY <1>1, <3>2, PhaseOf DEF Erasing
  <2> QED
    BY <2>1, <2>2, <2>3
<1>8. /\ \A t \in LogDataBlocks : LogBlocks[t] \in Blocks
      /\ Header \in Blocks /\ Homes \subseteq Blocks
  BY <1>1, Places
<1>9. Clean /\ Dirtied
  BY <1>3, <1>8 DEF Clean, Dirtied
<1>10. HeadOnDisk /\ Copied
  BY <1>7 DEF HeadOnDisk, Copied, Booted
<1> QED
  BY <1>9, <1>10 DEF DInv

\* Steps of one process.
LEMMA StepData ==
  ASSUME LInv, LInv', DInv, NEW p \in Procs, Start(p) \/ Step(p)
  PROVE  DInv'
<1>1. CASE (CacheStep(p) /\ UNCHANGED logVars) \/ begin_op(p) \/ Body(p) \/ write_log(p)
           \/ install_trans(p) \/ (end_op(p) /\ ~LastOne) \/ Start(p)
  BY <1>1, QuietData
<1>2. CASE end_op(p) /\ LastOne
  BY <1>2, LastEndData
<1>3. CASE log_write(p)
  BY <1>3, LogWriteData
<1>4. CASE Copy(p)
  BY <1>4, CopyData
<1>5. CASE WriteHead(p)
  BY <1>5, WriteHeadData
<1>6. CASE Clear(p)
  BY <1>6, ClearData
<1>7. CASE Done(p) \/ Recovered(p)
  BY <1>7, OverData
<1>8. CASE read_head(p)
  BY <1>8, ReadHeadData
<1> QED
  BY <1>1, <1>2, <1>3, <1>4, <1>5, <1>6, <1>7, <1>8 DEF Step

\* What is in the blocks is right in every reachable state.
LEMMA DataInvariant == Spec => [](LInv /\ DInv)
<1>1. Init => DInv
  BY InitBoots, BootData
<1>2. (Booted => DInv)'
  BY BootData, PTL
<1>3. LInv /\ LInv' /\ DInv /\ [Next]_vars => DInv'
  <2> SUFFICES ASSUME LInv, LInv', DInv, [Next]_vars PROVE DInv'
    OBVIOUS
  <2>1. CASE \E p \in Procs : Start(p) \/ Step(p)
    BY <2>1, StepData
  <2>2. CASE ideintr /\ UNCHANGED logVars
    BY <2>2, IdeintrData
  <2>3. CASE Crash
    BY <1>2, <2>3, CrashBoots
  <2>4. CASE UNCHANGED vars
    <3>1. buf' = buf /\ disk' = disk /\ lh' = lh /\ up' = up /\ code' = code
      BY <2>4 DEF vars, cacheVars
    <3>2. \A q \in Procs : code'[q] = code[q]
      BY <3>1
    <3>3. SamePhases
      BY <3>1, <3>2, OtherPhase DEF SamePhases
    <3>4. \A q \in Procs, i \in Bufs : Queues(q, i)' \/ Awaits(q, i)' <=> Queues(q, i) \/ Awaits(q, i)
      BY <3>2, Elsewhere
    <3>5. SameBlocks /\ SameWaits
      BY <3>1, <3>4, BlocksKept
    <3> QED
      BY <3>1, <3>3, <3>5, DataKept
  <2> QED
    BY <2>1, <2>2, <2>3, <2>4 DEF Next
<1> QED
  BY <1>1, <1>3, Invariant, PTL DEF Spec

-----------------------------------------------------------------------------
(* What recovery would make of the disk *)

\* Each home block is taken from the disk, or from the log if the header lists it.
RecoverableBlocks ==
  /\ Recoverable = [b \in Homes |-> Recoverable[b]]
  /\ \A b \in Homes :
       /\ (\A t \in 1 .. Len(head) : head[t] # b) => Recoverable[b] = disk[b]
       /\ \A t \in 1 .. Len(head) : head[t] = b => Recoverable[b] = disk[LogBlocks[t]]

\* So it is, since no header lists a block twice.
LEMMA RecoverableIs == LInv => RecoverableBlocks
<1> SUFFICES ASSUME LInv PROVE RecoverableBlocks
  OBVIOUS
<1> DEFINE CopiesOf(b) == {k \in 1 .. Len(head) : head[k] = b}
<1>1. Recoverable = [b \in Homes |-> IF CopiesOf(b) = {} THEN disk[b]
                                     ELSE disk[LogBlocks[Max(CopiesOf(b))]]]
  BY DEF Recoverable, head
<1>2. \A k, n \in 1 .. Len(head) : head[k] = head[n] => k = n
  BY DEF LInv, Typed, Headers, head
<1>3. ASSUME NEW b \in Homes, \A t \in 1 .. Len(head) : head[t] # b
      PROVE  Recoverable[b] = disk[b]
  <2>1. CopiesOf(b) = {}
    BY <1>3
  <2> QED
    BY <1>1, <2>1
<1>4. ASSUME NEW b \in Homes, NEW t \in 1 .. Len(head), head[t] = b
      PROVE  Recoverable[b] = disk[LogBlocks[t]]
  <2>1. CopiesOf(b) = {t}
    BY <1>2, <1>4
  <2>2. Max({t}) = t
    <3>1. t \in Int /\ t >= t
      OBVIOUS
    <3> QED
      BY <3>1 DEF Max
  <2>3. CopiesOf(b) # {}
    BY <2>1
  <2>4. Recoverable[b] = disk[LogBlocks[Max(CopiesOf(b))]]
    BY <1>1, <2>3
  <2> QED
    BY <2>1, <2>2, <2>4
<1>5. Recoverable = [b \in Homes |-> Recoverable[b]]
  BY <1>1
<1> QED
  BY <1>3, <1>4, <1>5 DEF RecoverableBlocks

\* So it is in the next state.
LEMMA RecoverableWill ==
  ASSUME LInv'
  PROVE  /\ Recoverable' = [b \in Homes |-> Recoverable'[b]]
         /\ \A b \in Homes :
              /\ (\A t \in 1 .. Len(head') : head'[t] # b) => Recoverable'[b] = disk'[b]
              /\ \A t \in 1 .. Len(head') : head'[t] = b => Recoverable'[b] = disk'[LogBlocks[t]]
<1>1. (LInv => RecoverableBlocks)'
  BY RecoverableIs, PTL
<1> QED
  BY <1>1 DEF RecoverableBlocks

\* With an empty header it is the disk.
LEMMA RecoverableDisk ==
  ASSUME LInv, head = << >>
  PROVE  Recoverable = [b \in Homes |-> disk[b]]
<1>1. 1 .. Len(head) = {}
  OBVIOUS
<1> QED
  BY <1>1, RecoverableIs DEF RecoverableBlocks

\* The disk carries out a write: recovery would restore the same blocks as before, or
\* the write was that of the header, which commits everything processes have written.
LEMMA WriteEffect ==
  ASSUME LInv, LInv', DInv, NEW q \in Procs, NEW x \in Blocks, Waits(q, x), Dirty(x),
         disk' = [disk EXCEPT ![x] = Content(x)]
  PROVE  \/ Recoverable' = Recoverable
         \/ up /\ outstanding = 0 /\ Recoverable' = [b \in Homes |-> Content(b)]
<1>1. disk'[x] = Content(x) /\ \A b \in Blocks : b # x => disk'[b] = disk[b]
  BY DEF LInv, Typed
<1>2. /\ \A u \in 1 .. Len(lh) : /\ lh[u] \in Homes /\ lh[u] \in Blocks /\ u \in LogDataBlocks
                                 /\ LogBlocks[u] \in Blocks
      /\ \A u \in LogDataBlocks : LogBlocks[u] \in Blocks /\ LogBlocks[u] \notin Homes
                                  /\ LogBlocks[u] # Header
      /\ Header \in Blocks /\ Header \notin Homes /\ Homes \subseteq Blocks
      /\ \A t \in 1 .. Len(head) : /\ head[t] \in Homes /\ head[t] \in Blocks
                                   /\ LogBlocks[t] \in Blocks /\ t \in LogDataBlocks
  BY Places
<1>3. /\ Recoverable = [b \in Homes |-> Recoverable[b]]
      /\ \A b \in Homes :
           /\ (\A t \in 1 .. Len(head) : head[t] # b) => Recoverable[b] = disk[b]
           /\ \A t \in 1 .. Len(head) : head[t] = b => Recoverable[b] = disk[LogBlocks[t]]
  BY RecoverableIs DEF RecoverableBlocks
<1>4. /\ Recoverable' = [b \in Homes |-> Recoverable'[b]]
      /\ \A b \in Homes :
           /\ (\A t \in 1 .. Len(head') : head'[t] # b) => Recoverable'[b] = disk'[b]
           /\ \A t \in 1 .. Len(head') : head'[t] = b => Recoverable'[b] = disk'[LogBlocks[t]]
  BY RecoverableWill
<1>5. (\A b \in Homes : Recoverable'[b] = Recoverable[b]) => Recoverable' = Recoverable
  BY <1>3, <1>4
<1>6. x # Header => head' = head
  BY <1>1, <1>2 DEF head
<1>7. CASE x \in Homes /\ x \in InLog /\ x # Header /\ head = lh
           /\ \A t \in LogDataBlocks : LogBlocks[t] # x
  <2>1. ASSUME NEW b \in Homes PROVE Recoverable'[b] = Recoverable[b]
    <3>1. CASE \E t \in 1 .. Len(head) : head[t] = b
      BY <1>1, <1>2, <1>3, <1>4, <1>6, <1>7, <3>1
    <3>2. CASE \A t \in 1 .. Len(head) : head[t] # b
      <4>1. b # x
        BY <1>7, <3>2 DEF InLog
      <4> QED
        BY <1>1, <1>2, <1>3, <1>4, <1>6, <1>7, <3>2, <4>1
    <3> QED
      BY <3>1, <3>2
  <2> QED
    BY <1>5, <2>1
<1>8. CASE x \notin Homes /\ x # Header /\ \E p \in Procs : Logging(p)
  <2>1. head = << >>
    BY <1>8 DEF DInv, HeadOnDisk
  <2>2. 1 .. Len(head) = {}
    BY <2>1
  <2>3. \A b \in Homes : Recoverable'[b] = Recoverable[b]
    BY <1>1, <1>2, <1>3, <1>4, <1>6, <1>8, <2>2
  <2> QED
    BY <1>5, <2>3
<1>9. CASE x \notin Homes /\ x # Header /\ \A t \in LogDataBlocks : LogBlocks[t] # x
  <2>1. \A b \in Homes : Recoverable'[b] = Recoverable[b]
    BY <1>1, <1>2, <1>3, <1>4, <1>6, <1>9
  <2> QED
    BY <1>5, <2>1
<1>10. CASE x = Header /\ Content(x) = lh /\ \E p \in Procs : Installing(p) \/ Erasing(p)
  <2>1. PICK p \in Procs : Installing(p) \/ Erasing(p)
    BY <1>10
  <2>2. head' = lh
    BY <1>1, <1>10 DEF head
  <2>3. \A b \in Blocks : b # Header => disk'[b] = disk[b]
    BY <1>1, <1>10
  <2>4. CASE Erasing(p)
    <3>1. lh = << >> /\ \A t \in 1 .. Len(head) : disk[head[t]] = disk[LogBlocks[t]]
      BY <2>4, PhaseOf DEF DInv, HeadOnDisk
    <3>2. 1 .. Len(head') = {}
      BY <2>2, <3>1
    <3>3. \A b \in Homes : Recoverable'[b] = disk[b]
      BY <1>2, <1>4, <2>3, <3>2
    <3>4. \A b \in Homes : Recoverable[b] = disk[b]
      BY <1>3, <3>1
    <3> QED
      BY <1>5, <3>3, <3>4
  <2>5. CASE Installing(p) /\ head = lh
    <3>1. \A b \in Homes : Recoverable'[b] = Recoverable[b]
      BY <1>2, <1>3, <1>4, <2>2, <2>3, <2>5
    <3> QED
      BY <1>5, <3>1
  <2>6. CASE Installing(p) /\ LastOp(code[p]) = "done"
    <3>1. up /\ outstanding = 0
      BY <2>6 DEF LInv, Counted
    <3>2. \A t \in 1 .. Len(lh) : disk[LogBlocks[t]] = Content(lh[t])
      BY <2>6 DEF DInv, Copied
    <3>3. \A b \in Homes : b \notin InLog => Content(b) = disk[b]
      BY <1>2 DEF DInv, Dirtied, Clean
    <3>4. ASSUME NEW b \in Homes PROVE Recoverable'[b] = Content(b)
      <4>1. CASE \E t \in 1 .. Len(lh) : lh[t] = b
        <5>1. PICK t \in 1 .. Len(lh) : lh[t] = b
          BY <4>1
        <5>2. Recoverable'[b] = disk'[LogBlocks[t]]
          BY <1>4, <2>2, <5>1
        <5>3. disk'[LogBlocks[t]] = disk[LogBlocks[t]]
          BY <1>2, <2>3
        <5> QED
          BY <3>2, <5>1, <5>2, <5>3
      <4>2. CASE \A t \in 1 .. Len(lh) : lh[t] # b
        <5>1. b \notin InLog
          BY <4>2 DEF InLog
        <5>2. Recoverable'[b] = disk'[b]
          BY <1>4, <2>2, <4>2
        <5> QED
          BY <1>2, <2>3, <3>3, <5>1, <5>2
      <4> QED
        BY <4>1, <4>2
    <3> QED
      BY <1>4, <3>1, <3>4
  <2> QED
    BY <2>1, <2>4, <2>5, <2>6 DEF DInv, HeadOnDisk
<1> QED
  BY <1>7, <1>8, <1>9, <1>10, WritePlace

-----------------------------------------------------------------------------
(* The log implements the atomic store *)

\* Readers are given the contents of blocks.
LEMMA SeenIs == Seen = [b \in Homes |-> Content(b)]
  BY DEF Seen, Content

\* So they are in the next state.
LEMMA SeenWill == Seen' = [b \in Homes |-> Content(b)']
<1>1. (Seen = [b \in Homes |-> Content(b)])'
  BY SeenIs, PTL
<1> QED
  BY <1>1

\* Steps that leave the disk and the contents of home blocks alone.
LEMMA SameStore ==
  ASSUME disk' = disk, up' = up, up => \A b \in Homes : Content(b)' = Content(b)
  PROVE  /\ Recoverable' = Recoverable
         /\ (IF up THEN Seen ELSE Recoverable)' = IF up THEN Seen ELSE Recoverable
<1>1. Recoverable' = Recoverable
  BY DEF Recoverable
<1>2. up => Seen' = Seen
  BY SeenIs, SeenWill
<1> QED
  BY <1>1, <1>2

\* Every step of a process is one of the store, or none.
LEMMA StepStores ==
  ASSUME LInv, LInv', DInv, NEW p \in Procs, Start(p) \/ Step(p)
  PROVE  Store!Next \/ UNCHANGED Store!vars
<1>1. Homes \subseteq Blocks
  BY LogAssumption
<1>2. CASE (CacheStep(p) /\ UNCHANGED logVars) \/ begin_op(p) \/ Body(p) \/ write_log(p)
           \/ install_trans(p) \/ end_op(p) \/ Start(p) \/ Clear(p) \/ read_head(p) \/ Done(p)
  <2>1. SameBlocks
    BY <1>2, QuietData, LastEndData, ClearData, ReadHeadData, OverData
  <2>2. up' = up
    BY <1>2 DEF logVars, begin_op, Body, write_log, install_trans, end_op, Start, Clear,
                read_head, Done
  <2>3. /\ Recoverable' = Recoverable
        /\ (IF up THEN Seen ELSE Recoverable)' = IF up THEN Seen ELSE Recoverable
    BY <1>1, <2>1, <2>2, SameStore DEF SameBlocks
  <2>4. CASE begin_op(p)
    <3>1. outstanding' = outstanding \/ outstanding' = outstanding + 1
      BY <2>4 DEF begin_op
    <3> QED
      BY <2>3, <3>1 DEF Store!Next, Store!Begin, Store!vars
  <2>5. CASE end_op(p)
    <3>1. At(p, "end") /\ outstanding' = outstanding - 1 /\ Typed /\ Programs
      BY <2>5 DEF end_op, LInv
    <3>2. InOp(p)
      BY <3>1, FirstAt DEF InOp, At
    <3>3. outstanding > 0
      BY <3>2, NobodyFinishes
    <3> QED
      BY <2>3, <3>1, <3>3 DEF Store!Next, Store!End
  <2>6. CASE ~begin_op(p) /\ ~end_op(p)
    <3>1. outstanding' = outstanding
      BY <1>2, <2>6 DEF logVars, Body, write_log, install_trans, Start, Clear, read_head, Done
    <3> QED
      BY <2>3, <3>1 DEF Store!vars
  <2> QED
    BY <2>4, <2>5, <2>6
<1>3. CASE Copy(p) \/ WriteHead(p)
  <2>1. disk' = disk /\ (up => \A b \in Homes : Content(b)' = Content(b))
    BY <1>3, CopyData, WriteHeadData
  <2>2. up' = up /\ outstanding' = outstanding
    BY <1>3 DEF Copy, WriteHead, logVars
  <2> QED
    BY <2>1, <2>2, SameStore DEF Store!vars
<1>4. CASE log_write(p)
  <2>1. /\ disk' = disk /\ up /\ outstanding > 0
        /\ \E x \in Homes, v \in Values :
             Content(x)' = v /\ \A b \in Blocks : b # x => Content(b)' = Content(b)
    BY <1>4, LogWriteData
  <2>2. up' = up /\ outstanding' = outstanding
    BY <1>4 DEF log_write
  <2>3. PICK x \in Homes, v \in Values :
               Content(x)' = v /\ \A b \in Blocks : b # x => Content(b)' = Content(b)
    BY <2>1
  <2>4. Seen' = [Seen EXCEPT ![x] = v]
    BY <1>1, <2>3, SeenIs, SeenWill
  <2>5. Recoverable' = Recoverable
    BY <2>1 DEF Recoverable
  <2> QED
    BY <2>1, <2>2, <2>4, <2>5 DEF Store!Next, Store!Write
<1>5. CASE Recovered(p)
  <2>1. SameBlocks /\ head = << >> /\ \A b \in Homes : ~Dirty(b)
    BY <1>5, OverData
  <2>2. up' = TRUE /\ outstanding' = outstanding /\ At(p, "up")
    BY <1>5 DEF Recovered
  <2>3. ~up
    <3>1. LastOp(code[p]) = "up"
      BY <2>2, FirstAt DEF LInv
    <3> QED
      BY <3>1 DEF LInv, Counted
  <2>4. \A b \in Homes : Content(b)' = disk[b]
    BY <1>1, <2>1 DEF SameBlocks, DInv, Clean
  <2>5. Seen' = Recoverable
    BY <2>1, <2>4, SeenWill, RecoverableDisk
  <2>6. Recoverable' = Recoverable
    BY <2>1 DEF Recoverable, SameBlocks
  <2> QED
    BY <2>2, <2>3, <2>5, <2>6 DEF Store!vars
<1> QED
  BY <1>2, <1>3, <1>4, <1>5 DEF Step

\* So is a request the disk has carried out: none, or the commit.
LEMMA IdeintrStores ==
  ASSUME LInv, LInv', DInv, ideintr, UNCHANGED logVars
  PROVE  Store!Next \/ UNCHANGED Store!vars
<1>1. up' = up /\ outstanding' = outstanding
  BY DEF logVars
<1>2. \A b \in Blocks : Content(b)' = Content(b)
  BY IdeintrData
<1>3. Seen' = Seen /\ Seen = [b \in Homes |-> Content(b)]
  BY <1>2, SeenIs, SeenWill, LogAssumption
<1>4. Recoverable' = Recoverable \/ (up /\ outstanding = 0 /\ Recoverable' = Seen)
  <2>1. CASE disk' = disk
    BY <2>1 DEF Recoverable
  <2>2. CASE \E q \in Procs, x \in Blocks :
               Waits(q, x) /\ Dirty(x) /\ disk' = [disk EXCEPT ![x] = Content(x)]
    BY <1>3, <2>2, WriteEffect
  <2> QED
    BY <2>1, <2>2, IdeintrData
<1>5. CASE Recoverable' = Recoverable
  BY <1>1, <1>3, <1>5 DEF Store!vars
<1>6. CASE up /\ outstanding = 0 /\ Recoverable' = Seen
  BY <1>1, <1>3, <1>6 DEF Store!Next, Store!Commit
<1> QED
  BY <1>4, <1>5, <1>6

\* So is a crash, which may come when the commit has just been written.
LEMMA CrashStores ==
  ASSUME LInv, LInv', DInv, Crash
  PROVE  Store!Next
<1>1. ~up' /\ outstanding' = 0
  BY DEF Crash
<1>2. Seen = [b \in Homes |-> Content(b)]
  BY SeenIs
<1>3. Recoverable' = Recoverable \/ (up /\ outstanding = 0 /\ Recoverable' = Seen)
  <2>1. CASE disk' = disk
    BY <2>1 DEF Recoverable
  <2>2. CASE idequeue # << >> /\ buf[Head(idequeue)].dirty /\ disk' = Written(Head(idequeue))
    <3>1. PICK i : i = Head(idequeue)
      OBVIOUS
    <3>2. i \in Bufs /\ \E q \in Procs, x \in Blocks : buf[i].blockno = x /\ Waits(q, x)
      BY <2>2, <3>1, Request
    <3>3. PICK q \in Procs, x \in Blocks : buf[i].blockno = x /\ Waits(q, x)
      BY <3>2
    <3>4. buf[i].dirty /\ buf[i].valid
      BY <2>2, <3>1, <3>2 DEF LInv, Cache, DirtyValid
    <3>5. Dirty(x) /\ Content(x) = buf[i].data
      BY <3>2, <3>3, <3>4, BlockIs DEF BlocksAre
    <3>6. disk' = [disk EXCEPT ![x] = Content(x)]
      BY <2>2, <3>1, <3>3, <3>5 DEF Written
    <3> QED
      BY <1>2, <3>3, <3>5, <3>6, WriteEffect
  <2> QED
    BY <2>1, <2>2 DEF Crash
<1>4. CASE Recoverable' = Recoverable
  BY <1>1, <1>4 DEF Store!Next, Store!Crash
<1>5. CASE up /\ outstanding = 0 /\ Recoverable' = Seen
  BY <1>1, <1>5 DEF Store!Next, Store!Commit
<1> QED
  BY <1>3, <1>4, <1>5

\* The log of xv6 (log.c, with recovery) makes every transaction atomic and durable, for
\* any number of processes, buffers and blocks and whenever the power fails, recovery
\* included: what recovery would restore changes only when no operation is in progress,
\* and then to all that processes have written; readers see every write; and a crash
\* loses nothing that was committed.
THEOREM LogIsAtomic == Spec => ImplementsStore
<1>1. Init => Store!Init
  <2> SUFFICES ASSUME Init PROVE Store!Init
    OBVIOUS
  <2>1. LInv /\ Header \in Blocks /\ Homes \subseteq Blocks \ {Header}
    BY InitBoots, BootSound, LogAssumption
  <2>2. disk = [b \in Blocks |-> IF b = Header THEN << >> ELSE Zero]
        /\ ~up /\ outstanding = 0
    BY DEF Init
  <2>3. head = << >> /\ \A b \in Homes : disk[b] = Zero
    BY <2>1, <2>2 DEF head
  <2>4. Recoverable = [b \in Homes |-> Zero]
    BY <2>1, <2>3, RecoverableDisk
  <2> QED
    BY <2>2, <2>4 DEF Store!Init
<1>2. (LInv /\ DInv) /\ (LInv /\ DInv)' /\ [Next]_vars => [Store!Next]_(Store!vars)
  <2> SUFFICES ASSUME LInv, LInv', DInv, [Next]_vars PROVE Store!Next \/ UNCHANGED Store!vars
    OBVIOUS
  <2>1. CASE \E p \in Procs : Start(p) \/ Step(p)
    BY <2>1, StepStores
  <2>2. CASE ideintr /\ UNCHANGED logVars
    BY <2>2, IdeintrStores
  <2>3. CASE Crash
    BY <2>3, CrashStores
  <2>4. CASE UNCHANGED vars
    BY <2>4 DEF vars, cacheVars, Store!vars, Recoverable, Seen, Cached, Bufs
  <2> QED
    BY <2>1, <2>2, <2>3, <2>4 DEF Next
<1> QED
  BY <1>1, <1>2, DataInvariant, PTL DEF Spec, ImplementsStore, Store!Spec
=============================================================================

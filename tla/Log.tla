-------------------------------- MODULE Log ---------------------------------
(***************************************************************************)
(* xv6's write-ahead log (log.c) on the buffer cache: operations of        *)
(* several processes share a transaction that is committed when the last   *)
(* one ends; a crash may come at any moment and is followed by recovery.   *)
(* The instructions of a process are those of BufferCache and              *)
(*   "begin", "end"     begin_op, end_op                                   *)
(*   "body" w v         the rest of an operation: blocks w, contents v     *)
(*   "log_write" b v    store v in the buffer of b and log it              *)
(*   "write_log" t, "install_trans" t   the loops of these functions, from *)
(*                      logged block t on                                  *)
(*   "copy" to from     memmove between two buffers, then bwrite(to)       *)
(*   "write_head"       in-memory header to its buffer, then bwrite        *)
(*   "read_head", "clear", "up", "done"   the rest of recovery and commit  *)
(***************************************************************************)
EXTENDS BufferCache

CONSTANTS Homes,       \* blocks of the file system proper
          LogBlocks,   \* log.start + 1, log.start + 2, ..., as a sequence
          Header,      \* log.start
          Values, Zero,  \* contents of a block, the initial one
          Writes,      \* operations: sequences of blocks they write
          MAXOPBLOCKS, LOGSIZE,
          nlog         \* log.size: blocks of the log, its header included

LogDataBlocks == 1 .. Len(LogBlocks)

ASSUME LogAssumption ==
  /\ IsFiniteSet(Procs) /\ None \notin Procs /\ None \notin Blocks
  /\ NBUF \in Nat \ {0} /\ LOGSIZE \in Nat /\ nlog \in Nat
  /\ MAXOPBLOCKS \in 1 .. LOGSIZE
  /\ Writes \subseteq Seq(Homes) /\ \A w \in Writes : Len(w) <= MAXOPBLOCKS
  /\ Zero \in Values
  /\ LogBlocks \in Seq(Blocks \ (Homes \cup {Header})) /\ Len(LogBlocks) = nlog - 1
  /\ \A k, n \in LogDataBlocks : LogBlocks[k] = LogBlocks[n] => k = n
  /\ Homes \subseteq Blocks \ {Header} /\ Header \in Blocks

VARIABLES outstanding, committing, lh,   \* struct log
          asleep,                        \* processes sleeping on &log
          up                             \* recovery is over

vars == <<cacheVars, outstanding, committing, lh, asleep, up>>
logVars == <<outstanding, committing, lh, asleep, up>>

-----------------------------------------------------------------------------
(* The programs *)

\* Block t of the log and the block it is a copy of: one is copied to the other.
CopyBlock(t, to, from) ==
  <<<<"bread", LogBlocks[t]>>, <<"bread", lh[t]>>, <<"copy", to, from>>,
    <<"brelse", from>>, <<"brelse", to>>>>

write_head == <<<<"bread", Header>>, <<"write_head">>, <<"brelse", Header>>>>

\* Mutant: the log is erased before its blocks are installed.
InstallAndEraseEarly == <<<<"clear">>>> \o write_head \o <<<<"install_trans", 1>>>>

\* install_trans, then lh.n = 0 and write_head, as commit and recovery both do.
InstallAndErase == <<<<"install_trans", 1>>, <<"clear">>>> \o write_head

commit == IF lh = << >> THEN << >>
          ELSE <<<<"write_log", 1>>>> \o write_head \o InstallAndErase

recover_from_log == <<<<"bread", Header>>, <<"read_head">>, <<"brelse", Header>>>>
                    \o InstallAndErase \o <<<<"up">>>>

Operation(w, v) == <<<<"begin">>, <<"body", w, v>>, <<"end">>>>

\* The machine starts: the first process recovers, the others wait.
BootCode == [p \in Procs |-> IF p = Min(Procs) THEN recover_from_log ELSE << >>]

Init == /\ binit /\ disk = [b \in Blocks |-> IF b = Header THEN << >> ELSE Zero]
        /\ code = BootCode
        /\ outstanding = 0 /\ committing = FALSE /\ lh = << >> /\ asleep = {} /\ up = FALSE

-----------------------------------------------------------------------------
\* An idle process starts an operation, or reads a block outside any operation.
Start(p) == /\ up /\ code[p] = << >>
            /\ \/ \E w \in Writes, v \in Values : code' = [code EXCEPT ![p] = Operation(w, v)]
               \/ \E b \in Homes :
                    code' = [code EXCEPT ![p] = <<<<"bread", b>>, <<"brelse", b>>>>]
            /\ UNCHANGED <<buf, lru, idequeue, disk, logVars>>

\* begin_op waits during a commit and while the log might be too small for everyone.
MustWait == committing \/ Len(lh) + (outstanding + 1) * MAXOPBLOCKS > LOGSIZE

begin_op(p) == /\ At(p, "begin") /\ p \notin asleep
               /\ IF MustWait
                  THEN asleep' = asleep \cup {p} /\ UNCHANGED <<code, outstanding>>
                  ELSE outstanding' = outstanding + 1 /\ Then(p, << >>) /\ UNCHANGED asleep
               /\ UNCHANGED <<buf, lru, idequeue, disk, committing, lh, up>>

\* The panics of log_write.
TooBig == Len(lh) >= LOGSIZE \/ Len(lh) >= nlog - 1
OutsideTrans == outstanding < 1

\* The caller changes the locked buffer and records it; a block is recorded once.
log_write(p) ==
  /\ At(p, "log_write") /\ ~TooBig /\ ~OutsideTrans
  /\ LET b == Arg(p) IN
       /\ buf' = [buf EXCEPT ![Held(p, b)].data = Head(code[p])[3], ![Held(p, b)].dirty = TRUE]
       /\ lh' = IF b \in {lh[k] : k \in 1 .. Len(lh)} THEN lh ELSE Append(lh, b)
  /\ Then(p, << >>)
  /\ UNCHANGED <<lru, idequeue, disk, outstanding, committing, asleep, up>>

\* Mutant: a commit as soon as an operation ends.
LastOneAny == TRUE

LastOne == outstanding = 1

\* Mutant: those who wait in begin_op are not woken.
WokenNone == asleep

\* Who still sleeps on &log after wakeup(&log).
Woken == {}

\* The last operation commits; otherwise reserved space has become free.
end_op(p) ==
  /\ At(p, "end")
  /\ outstanding' = outstanding - 1
  /\ IF LastOne THEN committing' = TRUE /\ UNCHANGED asleep /\ Then(p, commit \o <<<<"done">>>>)
                ELSE asleep' = Woken /\ UNCHANGED committing /\ Then(p, << >>)
  /\ UNCHANGED <<buf, lru, idequeue, disk, lh, up>>

\* The next block of an operation.
Body(p) ==
  /\ At(p, "body")
  /\ LET w == Arg(p)
         v == Head(code[p])[3]
     IN  Then(p, IF w = << >> THEN << >>
                 ELSE <<<<"bread", Head(w)>>, <<"log_write", Head(w), v>>, <<"brelse", Head(w)>>,
                        <<"body", Tail(w), v>>>>)
  /\ UNCHANGED <<buf, lru, idequeue, disk, logVars>>

\* The loop of write_log: cached blocks are copied to the log.
write_log(p) ==
  /\ At(p, "write_log")
  /\ LET t == Arg(p) IN
       Then(p, IF t > Len(lh) THEN << >>
               ELSE CopyBlock(t, LogBlocks[t], lh[t]) \o <<<<"write_log", t + 1>>>>)
  /\ UNCHANGED <<buf, lru, idequeue, disk, logVars>>

\* The loop of install_trans: blocks of the log are copied to their home.
install_trans(p) ==
  /\ At(p, "install_trans")
  /\ LET t == Arg(p) IN
       Then(p, IF t > Len(lh) THEN << >>
               ELSE CopyBlock(t, lh[t], LogBlocks[t]) \o <<<<"install_trans", t + 1>>>>)
  /\ UNCHANGED <<buf, lru, idequeue, disk, logVars>>

Copy(p) == /\ At(p, "copy")
           /\ bwrite(p, Arg(p), buf[Held(p, Head(code[p])[3])].data)
           /\ UNCHANGED logVars

WriteHead(p) == At(p, "write_head") /\ bwrite(p, Header, lh) /\ UNCHANGED logVars

\* log.lh.n = 0
Clear(p) == /\ At(p, "clear") /\ lh' = << >> /\ Then(p, << >>)
            /\ UNCHANGED <<buf, lru, idequeue, disk, outstanding, committing, asleep, up>>

\* The end of end_op after a commit.
Done(p) == /\ At(p, "done") /\ committing' = FALSE /\ asleep' = Woken /\ Then(p, << >>)
           /\ UNCHANGED <<buf, lru, idequeue, disk, outstanding, lh, up>>

read_head(p) ==
  /\ At(p, "read_head")
  /\ lh' = buf[Held(p, Header)].data
  /\ Then(p, << >>)
  /\ UNCHANGED <<buf, lru, idequeue, disk, outstanding, committing, asleep, up>>

Recovered(p) == /\ At(p, "up") /\ up' = TRUE /\ Then(p, << >>)
                /\ UNCHANGED <<buf, lru, idequeue, disk, outstanding, committing, lh, asleep>>

\* Power fails: memory is lost, and the disk may or may not have carried out the
\* write it was working on.
Crash == /\ disk' \in {disk} \cup (IF idequeue # << >> /\ buf[Head(idequeue)].dirty
                                   THEN {Written(Head(idequeue))} ELSE {})
         /\ buf' = FreshBufs /\ lru' = FreshList /\ idequeue' = << >> /\ code' = BootCode
         /\ outstanding' = 0 /\ committing' = FALSE /\ lh' = << >> /\ asleep' = {} /\ up' = FALSE

Step(p) == \/ CacheStep(p) /\ UNCHANGED logVars
           \/ begin_op(p) \/ Body(p) \/ log_write(p) \/ end_op(p)
           \/ write_log(p) \/ install_trans(p) \/ Copy(p) \/ WriteHead(p)
           \/ Clear(p) \/ Done(p) \/ read_head(p) \/ Recovered(p)

Next == \/ \E p \in Procs : Start(p) \/ Step(p)
        \/ ideintr /\ UNCHANGED logVars
        \/ Crash

Spec == Init /\ [][Next]_vars

-----------------------------------------------------------------------------
\* bget always finds a buffer, although those of logged blocks wait for the commit and
\* every other process may keep one: "bget: no buffers" is not reached.  TLC refutes this
\* with the code's proportions of NBUF to LOGSIZE, and the next one as well.
BuffersSuffice ==
  \A p \in Procs : At(p, "bread") => Cached(Arg(p)) # {} \/ Recyclable # {}

\* Operations that begin_op has admitted, and that keep to MAXOPBLOCKS blocks, find room
\* in the log: log_write's "too big a transaction" is not reached.
LogFits == \A p \in Procs : At(p, "log_write") => ~TooBig

\* The panics of bio.c, ide.c and log.c other than these two (BuffersSuffice, LogFits)
\* are not reached: a block is logged inside a transaction, no operation ends during a
\* commit, a buffer written or released is locked by who does it, and the disk is never
\* given a buffer with nothing to do.
NoPanic ==
  \A p \in Procs :
    /\ At(p, "log_write") => ~OutsideTrans
    /\ At(p, "end") => ~committing
    /\ At(p, "brelse") \/ At(p, "log_write") \/ At(p, "copy") =>
         \E i \in Bufs : buf[i].blockno = Arg(p) /\ buf[i].lock = p
    /\ At(p, "iderw") => buf[Arg(p)].lock = p /\ (~buf[Arg(p)].valid \/ buf[Arg(p)].dirty)

\* begin_op loses no wakeup: whoever sleeps on &log still has a reason to, and somebody
\* is in an operation or a commit that will end with a wakeup.
SleepersJustified ==
  asleep # {} => MustWait /\ (outstanding > 0 \/ committing)

\* What recovery would make of the disk as it is now.
Recoverable ==
  LET h == disk[Header]
      CopiesOf(b) == {k \in 1 .. Len(h) : h[k] = b}
  IN  [b \in Homes |-> IF CopiesOf(b) = {} THEN disk[b] ELSE disk[LogBlocks[Max(CopiesOf(b))]]]

\* What a process that reads a block is given.
Seen == [b \in Homes |-> LET c == {i \in Cached(b) : buf[i].valid}
                         IN  IF c = {} THEN disk[b] ELSE buf[Min(c)].data]

\* The log keeps its promise whatever the interleaving and whenever the power fails: a
\* transaction reaches the disk as a whole, when no operation is in progress, readers
\* see every write in between, and recovery loses nothing that was committed.
Store == INSTANCE AtomicStore WITH stable <- Recoverable, ops <- outstanding,
                                   view <- IF up THEN Seen ELSE Recoverable
ImplementsStore == Store!Spec
=============================================================================

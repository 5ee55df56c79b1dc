------------------------------- MODULE Kernel -------------------------------
(***************************************************************************)
(* p5's kernel put together: processes and threads that run the programs   *)
(* of a scenario on one file system, one memory, pipes, the console and    *)
(* the clock.  The image is the one mkfs makes, with the programs echo and *)
(* wc; init has made the console's inode and waits for its children.       *)
(***************************************************************************)
EXTENDS Processes

CONSTANT Scenarios             \* [progs, fds, keys]: what runs in slots 2 .. , with which
                               \* descriptors open on the console, and what is typed

Console == 2
ImageFiles == <<"echo", "wc">>

\* mkfs: the root directory, and a file of one block for each program.
Image ==
  LET n == Len(ImageFiles)
      root == [FreeInode EXCEPT !.type = "DIR", !.nlink = 1, !.size = BSIZE, !.addrs = <<1>>,
                !.dir = [e \in Entries |->
                           IF e \in {".", ".."} THEN ROOTINO
                           ELSE IF e = "console" THEN Console
                           ELSE IF \E k \in 1 .. n : ImageFiles[k] = e
                                THEN 2 + (CHOOSE k \in 1 .. n : ImageFiles[k] = e) ELSE 0]]
      program(k) == [FreeInode EXCEPT !.type = "FILE", !.nlink = 1, !.size = BSIZE,
                                      !.addrs = <<k + 1>>, !.image = 1]
  IN  [i \in Inums |-> IF i = ROOTINO THEN root
                       ELSE IF i = Console THEN [FreeInode EXCEPT !.type = "DEV", !.nlink = 1]
                       ELSE IF i <= 2 + n THEN program(i - 2) ELSE FreeInode]

\* Pages of a process at the start.
Size == 2

Init ==
  \E s \in Scenarios :
    LET live == 1 .. 1 + Len(s.progs)
        opens(p) == IF p = initproc THEN {0, 1, 2} ELSE s.fds
        refs == MapThenSumSet(LAMBDA p : Cardinality(opens(p)), live)
    IN  /\ proc = [p \in Procs |->
             IF p \notin live THEN UnusedProc
             ELSE [UnusedProc EXCEPT
                     !.state = IF p = initproc THEN "SLEEPING" ELSE "RUNNABLE",
                     !.chan = IF p = initproc THEN <<"wait", p>> ELSE NoChan,
                     !.todo = IF p = initproc THEN <<St("wait", 0, 0)>> ELSE << >>,
                     !.parent = IF p = initproc THEN 0 ELSE initproc,
                     !.pg = p, !.sz = Size, !.cwd = ROOTINO,
                     !.ofile = [fd \in Fds |-> IF fd \in opens(p) THEN 1 ELSE 0],
                     !.prog = IF p = initproc THEN << >> ELSE s.progs[p - 1]]]
        /\ ino = [Image EXCEPT ![ROOTINO].ref = Cardinality(live), ![Console].ref = 1,
                               ![ROOTINO].valid = TRUE, ![Console].valid = TRUE]
        /\ bits = 1 .. 1 + Len(ImageFiles)
        /\ wrote = [p \in Procs |-> {}]
        /\ vm = [EmptyMemory EXCEPT
                   !.free = @ - Cardinality(live) * (Size + 2),
                   !.pg = [d \in Spaces |-> IF d \in live
                             THEN [used |-> TRUE, pages |-> 0 .. Size - 1] ELSE NoSpace]]
        /\ file = [f \in Files |-> IF f = 1
             THEN [NoFile EXCEPT !.ref = refs, !.type = "INODE", !.obj = Console,
                                 !.readable = TRUE, !.writable = TRUE] ELSE NoFile]
        /\ pipe = [q \in Pipes |-> NoPipe]
        /\ cons = [buf |-> [j \in 0 .. INPUT_BUF - 1 |-> "c"], r |-> 0, w |-> 0, e |-> 0,
                   keys |-> s.keys]
        /\ lock = [l \in Locks |-> 0]
        /\ stream = [q \in 0 .. NPIPE |-> [in |-> << >>, out |-> << >>, eof |-> FALSE]]
        /\ ticks = WORD - 1

Next == \/ \E p \in Procs : \/ FsStep(p) /\ UNCHANGED <<restVars, ticks>>
                            \/ FileStep(p) /\ UNCHANGED ticks
                            \/ PathStep(p) /\ UNCHANGED ticks
                            \/ ProcStep(p)
        \/ ConsoleIntr /\ UNCHANGED ticks
        \/ Timer

Spec == Init /\ [][Next]_allVars

-----------------------------------------------------------------------------
(* References *)

Active == {p \in Procs : proc[p].state # "UNUSED"}

\* The steps under way, of all processes.
Pending == UNION {{[p |-> p, s |-> proc[p].todo[j], j |-> j] : j \in DOMAIN proc[p].todo} : p \in Procs}

\* Reference counts are exact in every state, whatever is under way: those of inodes
\* (iget, idup, iput) count the open files, the current directories and the pointers
\* functions hold; those of files (filedup, fileclose) count descriptors; a pipe is
\* kept exactly while an open file, or a close under way, refers to that end.
RefsExact ==
  LET pending == Pending IN
  /\ \A i \in Inums : ino[i].ref =
       Cardinality({f \in Files : file[f].type = "INODE" /\ file[f].obj = i})
       + Cardinality({p \in Active : proc[p].cwd = i})
       + Cardinality({t \in pending : t.s.ip = i}) + Cardinality({t \in pending : t.s.dp = i})
  /\ \A f \in Files : file[f].ref = Cardinality({<<p, fd>> \in Active \X Fds : proc[p].ofile[fd] = f})
  /\ \A q \in Pipes : \A w \in BOOLEAN :
       (IF w THEN pipe[q].writeopen ELSE pipe[q].readopen) <=>
         \/ \E f \in Files : file[f].type = "PIPE" /\ file[f].obj = q /\ file[f].writable = w
         \/ \E t \in pending : t.s.op = "pipeclose" /\ t.s.x = [q |-> q, w |-> w]

-----------------------------------------------------------------------------
(* The disk *)

Dirs == {i \in Inums : ino[i].type = "DIR"}
EntriesFor(i) == {<<d, n>> \in Dirs \X Names : ino[d].dir[n] = i}
Linked(d) == d = ROOTINO \/ EntriesFor(d) # {}

\* Links counted for which there is no entry (yet, or any more).
OnTheWay == {t \in Pending : t.s.op \in {"link2", "linkbad", "unlink3"}}
Counts(t) == IF t.s.op = "link2" THEN t.s.dp ELSE t.s.ip

\* What is on disk is consistent at every step of every call: link counts are the
\* number of directory entries, no entry names a free inode, the bitmap is the union
\* of the blocks of inodes, no block belongs to two, and a file without links or
\* references has been freed.  An inode is stray, and excepted, when it was created in
\* or linked into a directory that had been removed (create and link do not look),
\* or when two iputs of it overlapped, so that neither saw the last reference, or when
\* it was reached through the .. of a removed directory after it had been freed.
DiskSound ==
  LET onTheWay == OnTheWay  linked == {d \in Dirs : Linked(d)} IN
  /\ \A i \in Inums : ino[i].type # "0" /\ ~ino[i].stray =>
       /\ ino[i].nlink = Cardinality(EntriesFor(i))
                         + Cardinality({t \in onTheWay : Counts(t) = i})
                         + Cardinality({d \in linked : ino[d].dir[".."] = i})
       /\ ino[i].nlink > 0 \/ ino[i].ref > 0
  /\ \A d \in Dirs : \A n \in Names : ino[d].dir[n] # 0 => ino[ino[d].dir[n]].type # "0"
  /\ bits = UNION {BlocksOf(i) : i \in Inums}
  /\ MapThenSumSet(LAMBDA i : Len(ino[i].addrs) + (IF ino[i].ind = 0 THEN 0 ELSE 1), Inums)
       = Cardinality(bits)

\* The inode whose lock p takes in its next step.
Wants(p) == LET s == Top(p) IN
  IF s.op \in {"fileread", "filewrite"} THEN file[s.x.f].obj
  ELSE IF s.op \in {"create", "created", "open", "link1", "link2", "linkbad", "unlink1", "unlink2",
                    "chdir", "exec1", "iput"} \/ (s.op = "namex" /\ s.x.e # << >>)
  THEN s.ip ELSE 0

InKernel == {p \in Active : proc[p].state = "RUNNABLE" /\ proc[p].todo # << >>}

\* p's next step is an ilock, of an inode that is free: "ilock: no type".
NoType(p) == p \in InKernel /\ Wants(p) # 0 /\ Top(p).op # "iput" /\ ino[Wants(p)].type = "0"

\* ilock never meets an inode that has been freed (fs.c panics): whoever has found an
\* inode in a directory has a reference to it, which keeps it.  TLC refutes this: see
\* NoPanic for the one exception.
NoTypelessLock == \A p \in Procs : ~NoType(p)

\* Calls get to a panic of fs.c, sysfile.c or log.c in one way only.  "unlink: nlink < 1"
\* and "too big a transaction" are never met, for which each transaction has to keep to
\* MAXOPBLOCKS blocks, since begin_op reserves no more; and "ilock: no type" only by who
\* follows the .. of a removed directory to a parent that has been removed as well.
NoPanic ==
  /\ \A p \in Procs : NoType(p) => ino[Wants(p)].stray
  /\ \A p \in InKernel : Top(p).op = "unlink2" => ino[Top(p).ip].nlink > 0
  /\ \A p \in Procs : Cardinality(wrote[p]) <= MAXOPBLOCKS

-----------------------------------------------------------------------------
(* Sleeping *)

\* A reader of pipe q that sleeps although there is something to read: a writer that has
\* been killed fills the pipe and returns without waking readers.
Untold(p, q) == /\ proc[p].state = "SLEEPING" /\ proc[p].chan = <<"nread", q>>
                /\ pipe[q].untold /\ Count(q) = PIPESIZE

\* A process sleeps only while what it waits for has not happened, so no wakeup is
\* lost: piperead, pipewrite and consoleread test and sleep under a lock, wait does
\* under ptable.lock, sys_sleep counts down with the clock and oversleeps by no more
\* than the tick at which sleep_proc_notify finds its count at zero.  The one exception
\* is a reader whom a killed writer has not told of its last bytes.
SleepersJustified ==
  \A p \in Procs : proc[p].state = "SLEEPING" =>
    LET ch == proc[p].chan  q == ch[2] IN
      /\ ch[1] = "nread"  => (Count(q) = 0 \/ Untold(p, q)) /\ pipe[q].writeopen
      /\ ch[1] = "nwrite" => Count(q) = PIPESIZE /\ pipe[q].readopen
      /\ ch[1] = "cons"   => cons.r = cons.w
      /\ ch[1] = "wait"   => Children(p) # {} /\ Zombies(p) = {} /\ ~proc[p].killed
      /\ ch[1] = "ticks"  => LET passed == (ticks - Top(p).x.t0) % WORD IN
                               /\ passed <= Top(p).x.n
                               /\ proc[p].sleepticks = Top(p).x.n - passed

\* A reader sleeps only at an empty pipe.  TLC refutes this: see SleepersJustified for
\* the exception.
ReadersTold == \A p \in Procs : proc[p].state = "SLEEPING" /\ proc[p].chan[1] = "nread" =>
                 Count(proc[p].chan[2]) = 0

\* Where p stands still: on a channel, at an inode's lock, in a panic, or with nothing
\* to do.
Blocked(p) ==
  \/ proc[p].state \in {"UNUSED", "ZOMBIE", "SLEEPING", "EMBRYO"}
  \/ p = initproc /\ proc[p].todo = << >> /\ Children(p) = {}
  \/ p \in InKernel /\ Wants(p) # 0 /\ ~Unlocked(Wants(p))
  \/ NoType(p)

\* Nothing moves, and neither the clock nor the keyboard will change that.
Stopped == /\ \A p \in Procs : Blocked(p)
           /\ \A p \in Procs : proc[p].chan[1] \notin {"ticks", "cons"}
           /\ cons.keys = << >>

\* q waits in iput for an inode that r has locked, while r waits for one q has locked.
Embrace(q, r) == /\ q \in InKernel /\ r \in InKernel /\ Top(q).op = "iput"
                 /\ Wants(q) # 0 /\ ino[Wants(q)].lock = r
                 /\ Wants(r) # 0 /\ ino[Wants(r)].lock = q

\* Killed between piperead's or pipewrite's test of killed and sleep: kill found it awake.
KilledAsleep(p) == proc[p].killed /\ proc[p].state = "SLEEPING"

\* The system comes to a stop only when every program has ended and every process has
\* been waited for (or a program reads a console at which nothing more is typed), or
\* in one of the four ways the code leaves open: create and unlink drop the directory,
\* for which iput takes its lock, while they hold the lock of the inode in it; a kill
\* that comes between the test and the sleep is not noticed; a killed writer leaves a
\* reader asleep at a full pipe; and ilock panics.
KnownStops == Stopped => \/ Active = {initproc}
                         \/ \E q, r \in Procs : Embrace(q, r)
                         \/ \E p \in Procs : KilledAsleep(p) \/ NoType(p)
                         \/ \E p \in Procs, q \in Pipes : Untold(p, q)

\* Processes that create, link and unlink concurrently all end: nobody waits for an
\* inode's lock whose holder waits for one of his.
NoDeadlock == Stopped => Active = {initproc}

\* A process that has been killed does not sleep on for ever: kill wakes it if necessary.
\* TLC refutes this: see KnownStops.
KilledWakes == Stopped => \A p \in Procs : ~KilledAsleep(p)

-----------------------------------------------------------------------------
(* Memory *)

\* Who will free address space d: its threads, and an exec that is about to.
Users(d) == {p \in Active : proc[p].state # "EMBRYO" /\ proc[p].pg = d}
Leaving == {t \in Pending : t.s.op \in {"freevm", "exec2"}}

\* An address space lives exactly as long as a thread uses it, and no page is lost: a
\* count in uvmrefcount is the number of threads, none is kept for a space that is
\* gone, and the pages free, mapped and used by the kernel add up.  Excepted are the
\* states after clone or exec has used a count that was no longer true (raced).
SpacesSound ==
  LET leaving == Leaving IN ~vm.raced =>
    /\ \A d \in Spaces :
         LET n == Cardinality(Users(d)) + Cardinality({t \in leaving : t.s.x.d = d})
             counted == locate_uvmrefcount(vm, d)
         IN  /\ vm.pg[d].used <=> n > 0
             /\ IF counted = {} THEN n <= 1
                ELSE Cardinality(counted) = 1 /\ vm.uvm[Min(counted)].refcount = n
    /\ vm.free + MapThenSumSet(LAMBDA d : IF vm.pg[d].used THEN 1 + Cardinality(vm.pg[d].pages)
                                          ELSE 0, Spaces)
       + Cardinality(Active) + Cardinality({q \in Pipes : pipe[q].used}) = NPAGES

-----------------------------------------------------------------------------
(* Streams *)

\* Pipes and the console's input lose, repeat and reorder nothing, while counters wrap
\* and buffers fill; and a reader is told of the end only when no writer is left and
\* everything has been read.
StreamsFaithful ==
  /\ \A q \in Pipes : /\ IsPrefix(stream[q].out, stream[q].in)
                      /\ pipe[q].used => stream[q].in = stream[q].out \o Buffered(q)
                      /\ stream[q].eof => stream[q].in = stream[q].out
                      /\ stream[q].eof /\ pipe[q].used => ~pipe[q].writeopen
  /\ stream[0].in = stream[0].out \o Typed

-----------------------------------------------------------------------------
(* The tests of the repository *)

\* A call of a test that returns, returns what the test asks of it, in every interleaving
\* of the processes it forks: none that has to succeed fails, none that has to fail
\* succeeds, and reads return the number of bytes the test expects.  That all calls
\* return is not said here: see KnownStops and NoDeadlock.
TestsPass == \A p \in Procs : /\ proc[p].ret # "bad"
                              /\ ~(proc[p].ret = "no" /\ proc[p].todo = << >>)
=============================================================================

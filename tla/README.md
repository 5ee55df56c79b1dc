# A TLA+ verification of the CS537 group projects

The repository holds four course projects: memory mappings for xv6 (p4), threads, mutexes
and a priority scheduler for xv6 (p5), a shared-memory key-value store (p6) and a FUSE file
system (p7). p4 and p5 each contain a copy of the xv6 kernel; only what the projects added
to it, and the kernel code those additions depend on, is the subject here. Files that are
the same in both copies (log, buffer cache, disk driver) are modelled once.

## The system and its parts

**p6, key-value store.** A client process and a server process share one memory region: a
ring of request descriptors followed by a *status board*, `win_size` result slots for each
client thread.

| Part | State | Operations | Correct when |
|---|---|---|---|
| Ring (`ring_buffer.c`) | `buffer[RING_SIZE]`, `p_head`, `c_tail`, two semaphores, one mutex per side | `ring_submit`, `ring_get` | bounded FIFO queue, linearizable; no slot read and written at once; no item stuck |
| Hash table (`kv_store.c`) | bucket heads, bucket mutexes, list nodes | `put` (locked), `get` (lock-free) | an atomic map; both calls return |
| Client threads (`client.c`) | `last_submitted`, `last_completed`, `nxt_comp`, results | submit while the window has room, collect answers in order | each request gets its own answer; the program ends |
| Server threads (`kv_store.c`) | the descriptor being served | get a request, copy it to its slot, execute it, set `ready` | an answer is flagged only when complete |
| Workload reader (`client.c`) | `requests[]` | count lines, parse lines | writes inside the array |
| Workload generator (`gen_workload.py`) | - | writes requests and expected results | - |

**p5, xv6 with threads.** `scheduler` picks the runnable process with the lowest
*elevated* nice value, recomputed by `findminnice` from the processes that sleep for a
mutex the candidate holds. `macquire`/`mrelease` are sleep mutexes in user memory, protected
by a spinlock in the mutex. `clone` makes threads that share a page table, counted in
`uvmrefcount`. `sleep` counts down per-process ticks. Correct when: one CPU per process, the
best entitled process runs, no lost wakeup, bounded priority inversion, the address space is
freed once and only when its last thread is gone.

**p4, xv6 with `wmap`.** A list of mappings per process; `wmap`, `wunmap`, `wremap`, lazy
allocation in the page fault handler, copies in `fork`, removal in `exit`. Correct when:
mappings are disjoint and inside the window, pages belong to exactly one mapping, unmapping
and exit release everything and end.

**p7, WFS.** A disk image with superblock, inode and data bitmaps, inodes with direct and
one indirect block, directories of 16 entries a block. Correct when: a block is marked in
the bitmap exactly when one inode uses it, names are unique in a directory, a failed
operation changes nothing, what was written is read.

**xv6 itself** is given code that the projects run on and in part changed.

| Part | State | Operations | Correct when |
|---|---|---|---|
| Buffer cache, disk driver (`bio.c`, `ide.c`) | buffers with reference counts and sleep locks, LRU list, disk queue | `bread`, `bwrite`, `brelse`, disk interrupt | a block is in one buffer; counts are exact |
| Log (`log.c`) | operations outstanding, committing, header | `begin_op`, `log_write`, `end_op`, recovery | transactions are atomic under crashes |
| Inodes (`fs.c`) | link and reference counts, locks, block lists, bitmap | `ialloc`, `iget`, `iput`, `writei`, `itrunc`, path lookup | counts are exact, blocks and inodes are neither lost nor shared |
| Files, pipes, console (`file.c`, `pipe.c`, `console.c`) | file table, pipe buffers, input line | open, read, write, close, dup, pipe | streams lose nothing; sleepers are woken |
| Path calls (`sysfile.c`) | - | open, mkdir, mknod, link, unlink, chdir | as `fs.c`, in every interleaving |
| Processes (`proc.c`, `exec.c`) | process table, clock | fork, clone, exec, exit, wait, kill, sbrk, sleep | no lost wakeup, children are inherited |
| Memory (`kalloc.c`, `vm.c`) | free pages, address spaces, `uvmrefcount` | allocate, free, count threads | no page lost, a space lives as long as its threads |
| Shell and tests (`sh.c`, `usertests.c`, ...) | - | parse and run a line; the tests | the tests' own expectations |

They interact by calls, by sleeping on and waking channels, and through the locks of inodes,
pipes and the process table.

Hard to test in this code: the interleavings of two processes' threads on shared memory
without a common lock (p6), CPUs that leave and re-enter the scheduler in the middle of a
scan (p5), wakeups that race with going to sleep (p5), processes that hold one inode's lock
and want another's, crashes in the middle of a commit, operations that fail half-way (p4,
p7), and loops whose last round is off by one (p6, p7). `PROJECT.json` lists each at its
line, with the properties that cover it.

## Modules

| Module | Models |
|---|---|
| `BoundedQueue` | what the ring promises: a FIFO queue, calls split into invocation, effect, return |
| `RingBuffer` | `ring_buffer.c`, one action per statement of `ring_submit` and `ring_get` |
| `RingBufferProofs`, `HashTableProofs`, `KVSystemProofs`, `SchedulerProofs`, `LogProofs`, `WFSProofs`, `WMapProofs` | theorems about the module of that name, for every instance |
| `AtomicKV` | what the table promises: an atomic map, 0 for a missing key |
| `HashTable` | `put` and `get`, one action per access to memory another thread can see |
| `KVSystem` | client threads, server threads, board and `main`, composed with `BoundedQueue` and `AtomicKV` |
| `WorkloadReader` | `count_lines`, `add_line_to_req`, `read_input_files` |
| `Scheduler` | p5's scheduler, nice values, inheritance, `macquire`, `mrelease` on several CPUs |
| `AtomicStore` | what the log promises: a view that operations write, a stable copy, commit of all or nothing |
| `BufferCache` | `bio.c`, `ide.c`, `sleeplock.c`: a step for what is done under one spinlock |
| `Log` | `log.c` on `BufferCache`, with crashes and recovery |
| `LogStoreProofs` | proof, on `LogProofs`, that `Log` implements `AtomicStore` |
| `WMap` | p4's mappings: `sysproc.c`, the page fault handler, fork, exit, exec, wait |
| `WFS` | p7: `mkfs.c` and every operation of `wfs.c` |
| `Memory` | p5's pages, address spaces and `uvmrefcount` |
| `Inodes` | `fs.c`: inodes, bitmap, path lookup |
| `Files` | `file.c`, `pipe.c`, `console.c` and the calls on descriptors; extends `Inodes` and `Memory` |
| `PathCalls` | the calls of `sysfile.c` that take a path; extends `Files` |
| `Processes` | `proc.c`, `exec.c`, `trap.c`: fork to wait; extends `PathCalls` |
| `Kernel` | all of them together on the image `mkfs` makes, with the properties |
| `SysCalls`, `UserTests`, `Shell` | programs: the test programs, the shell's parser and interpreter |
| `MC*` | instances for TLC |

`RingBuffer` and `HashTable` are shown to implement `BoundedQueue` and `AtomicKV`
(properties `ImplementsQueue`, `Linearizable`), and `KVSystem` is built on these two
abstract modules: the detailed models are checked alone, the system with what they promise.
Both abstract modules split a call into invocation, one atomic effect and return, so
implementing them is linearizability.

*State and actions.* Variables carry the names of the source. In `RingBuffer`,
`HashTable` and `Scheduler`, `pc` names the statement a thread executes next. The struct
copies of the ring are a state of their own (`pc = "copy"`), so that two copies in progress
at once can be seen. In `HashTable`, allocating and filling a node is one step, because the
node is private to `put` until it is published; the program is compiled without optimisation
and each field is one word. In `KVSystem`, whatever a thread does on a board slot only it can
touch at that moment is one step, and `BoardExclusive` is the check of that. In `Scheduler`
everything a CPU does between two points at which `ptable.lock` can change hands is one step;
the scan's position `pos` survives a context switch, as the local variable `p` of
`scheduler` does. `elevated_nice` is not a variable: `findminnice` recomputes it under the
lock before each use, from values of processes that are not running and so cannot change.

*The composed kernel.* In `Kernel` a process is a record of the process table with two
sequences: `prog`, the system calls its program still makes, and `todo`, a stack of the steps
its current call still takes in the kernel. A step is what the code does between two points
at which another CPU can interfere: taking an inode's sleep lock, taking `icache.lock`,
letting go of `ptable.lock` or a pipe's lock. A function that finds an inode passes it to the
step of its caller below. A call in a program carries what the program expects of it
(`any`; `ok` and `no`, a test's own check; `must`, else the program exits or goes over to what it
does instead, `alt`; how many bytes a read, or reads to the end together, have to return), and fork and
clone carry the program of the child, so a test of `usertests.c` is a sequence of calls
and a command line of the shell is parsed and becomes one. The inode cache writes through,
so an inode in memory and on disk is one record; what reaches the disk when is `Log`'s
subject, and `Kernel` only counts the blocks of a transaction. Which process runs next is
`Scheduler`'s subject: in `Kernel` any runnable process may take a step. Contents of files
and memory are left out, except for the numbered bytes of pipes, the keys of the console and
which program a file contains.

In `Log`, `code[p]` is what process p still has to do, as instructions of `bio.c` and
`log.c`; waiting for a sleep lock or the disk is a guard. The loops of `write_log`,
`install_trans` and of an operation's body are instructions that expand one round at a time. A crash empties memory, keeps the
disk, and may or may not carry out the write in progress; the disk writes a block as a whole.
In `WMap` a system call is one step, since its process is the only user of what it changes;
exit is one step for each round of its loop. In `WFS` an operation is one step: FUSE is
run single-threaded. `WFS` keeps the code's odd ways as they are: bits are toggled, the
indirect loop skips pointers, `rmdir` frees before it knows, and lookups read what is not a
directory's. `find_dentry` goes on for as many entries again as a block has, and a null
pointer leads it to the beginning of the image (wfs.c:54). What it reads there is, in another
directory's block, that block's entries; elsewhere it is whatever the bytes spell: the
constant operators `HeadName` (superblock, bitmaps, inodes) and `RawName` (file data and
indirect pointers) give the name an entry would have, and the proofs hold for any such
operators. In the instance the superblock spells one of the names, as it does in the code: with
32 inodes and blocks the byte of `i_blocks_ptr` is the name "8". A lookup that takes such bytes
for an entry gets a number that is no inode's; that is recorded (`strayed`) and the behaviour
ends, since what is read and written at such an inode is arbitrary. Behind the last data block
of the image nothing is scanned.

In `WMap`, `readable` and `writable` are how the file was opened. In `Scheduler`,
`locks_held` may grow past `MAXMUTEXLOCKSHELD`, which `LocksFit` then sees.

*Exceptions stated in properties.* Where the code breaks a property in one identifiable way,
a history variable marks it, and the property is stated for all other states, so that it
also says there is no second way:

| Mark | Set when | Excepted in | Refuted without it |
|---|---|---|---|
| `early` (WFS) | `rmdir` fails with blocks already freed (wfs.c:419); the behaviour ends there | all of `wfs` | `KeepsBlocks` |
| `strayed` (WFS) | a lookup took bytes that are no entry for one; the behaviour ends there | all of `wfs` | `LookupTrue` |
| `skipped` (WFS) | a write to a file passed over a pointer of its indirect block (wfs.c:637) | `ReadBack`, that file | `WritesReadBack` |
| `"copied"` (WMap) | fork copied a mapping of the file without `filedup` | `FileAlive`, `StoresReachFile` | `RefsCounted` |
| `"resized"` (WMap) | `wremap` or `exec` was used | `InfoTrue`, `StoresReachFile` | `LoadedCounted` |
| `"exited"` (WMap) | a process exited: pages are written back without setting the offset | `StoresReachFile` | `ExitWritesBack` |
| `"twice"` (WMap) | the file was mapped while already mapped | `StoresReachFile` | - |
| `stray` (Inodes) | inode made in a removed directory, or two `iput`s of it overlapped, or it was reached through `..` after it was freed | `DiskSound`, that inode; `NoPanic`, its `ilock` | `NoTypelessLock`, for the last |
| `untold` (Files) | a killed writer put bytes in a pipe and woke no reader | `SleepersJustified`, a reader of that pipe while it is full | `ReadersTold` |
| `raced` (Memory) | clone or exec used a count of `uvmrefcount` that had changed | `SpacesSound` | - |

`KnownStops` names the four ways in which everything may have stopped before the programs have
ended: the lock cycle of create with unlink (`Embrace`; run `kernel_linkunlink`), a kill between
test and sleep (`KilledAsleep`; `KilledWakes` is refuted), a reader a killed writer has not told
(`Untold`) and the panic of `ilock` (`NoType`).

The properties of the last column are stated in the modules next to the ones with the exception,
and are not among the properties of the runs: TLC refutes each of them when it takes the place of
the properties in the module's configuration (`MCWFS.cfg`, `MCWMap.cfg`, `MCKernel.cfg`). So it does with
`UpagesCounted` (`MCWMap.cfg`: `getpgdirinfo` leaves out pages past `MAX_UPAGE_INFO`), `DirtyWrittenBack`
(the same with `writable = FALSE`: stores to a file that was opened for reading only are lost),
`LogFits` and `BuffersSuffice` (`MCLogFull.cfg`, which has the proportions of `param.h` and
`mkfs.c`), `LocksFit` with one mutex more than `locks_held` has entries (`MCSchedulerLocks.cfg`), and
`MinNiceRuns` with two mutexes on one page (`MCSchedulerSharedPage.cfg`).

*Uninitialised memory.* `results[]` and the value field of a get request are never cleared;
the constant `Garbage` stands for what they contain. The buffer of `fgets` starts with any
line. An entry of `requests[]` that no line filled has a request type that is neither PUT nor
GET in the model; were it by chance one of them, it would be an ordinary request.

## Runs

| Run | Instance | Shows |
|---|---|---|
| `p6_ring` | 2 producers, 2 consumers, 3 slots, 2 items | `SlotAccounting`, `NoSlotConflict`; refinement of `BoundedQueue`; every item is taken |
| `p6_table` | 2 threads, 3 keys in 2 buckets, 2 values | `ChainsWellFormed`; refinement of `AtomicKV` although `get` takes no lock; calls return, locks are released |
| `p6_system` | 2 server threads, a ring of 1, five command lines and workloads | board slots are exclusive, answers belong to their requests, `-c` cannot fail with `-n 1 -w 1`, nothing is interrupted by SIGKILL, valid workloads end |
| `p6_reader` | all files of 1 to 3 lines ending in a newline | **violation**: `EnoughSpace` |
| `p5_scheduler` | 2 CPUs, 3 processes, 2 mutexes on two pages, nice -1..0 | one CPU per process, no missed wakeup, `locks_held` accurate and no longer than its array, `MinNiceRuns` |
| `p5_inversion` | 1 CPU, 3 processes, 1 mutex, nice -1..1 | bounded priority inversion (liveness) |
| `wfs` | 4 inodes, 4 blocks, 2 names and 1 that the superblock spells, paths of one or two names, 2 direct pointers, 1 entry and 3 pointers a block, 2 values | `SpaceSound`, `TreeSound`, `ReadBack`; `FailureInvisible` (action property) |
| `log` | 2 processes, 3 buffers, 2 home blocks, 3 log blocks | `CacheSound`, `NoPanic`, `SleepersJustified`; refinement of `AtomicStore` under crashes |
| `wmap` | 3 process slots, window of 4 pages, 6 pages of memory, file of 2 pages, 4 calls; the info calls tell of 3 pages and 1 mapping | `PagesSound`, `FileAlive`, `InfoTrue`, `StoresReachFile` |
| `p4_exit` | as `wmap`, 1 call | **violation**: `ExitEnds` |
| `kernel` | 4 processes, 8 inodes, 12 blocks, 5 files, 1 pipe; 34 tests, `linkunlink`'s choices, command lines, limits, killed readers and writers, removed directories, racing threads | `RefsExact`, `DiskSound`, `NoPanic`, `SleepersJustified`, `KnownStops`, `SpacesSound`, `StreamsFaithful`, `TestsPass` |
| `kernel_linkunlink` | `kernel`'s scenarios of `linkunlink` | **violation**: `NoDeadlock` |

*Bounds.* A ring of three slots can be full, empty and in between, and both indices wrap;
two threads a side contend for each mutex. Two buckets with two keys in one and one in the
other give chains of length two and independent chains; nodes are never reused, so a third
thread adds only further copies of the same races. The workloads of `p6_system` cover the
synchronous case, a window smaller than the workload, private and shared keys, a remainder
that no thread is given, and an invalid request; a ring of one slot makes submitters block.
Three processes are the least that can show an inversion (waiter, owner, bystander).
`MaxNice` and `MinNice` are the ends of the range of nice values, as 19 and -20 are in the
code, so clamping happens. In `p5_scheduler`, `MAXMUTEXLOCKSHELD` is the number of mutexes, so
that a process can fill `locks_held` and one entry too many would show.

`wfs`: one entry a block makes a directory need a second block at once and lookups leave
theirs; with four data blocks every operation meets a full disk at each of its allocations;
with three indirect pointers a write of two blocks skips one and still has one to use; two values
tell a block from a stale or a foreign one; `Offsets` are where writes begin: at a direct
pointer, at the first and at the last indirect one.
There is no bound on the number of operations. `log`: two processes share a transaction or
follow each other, three buffers are one more than two processes hold at once during a
commit, so buffers are recycled all the time; whether they suffice is a matter of the
proportions of the sizes, which `MCLogFull.cfg` has as the code has them; `Crash` is always enabled, during recovery too.
`wmap`: six pages are too few for three processes, so every allocation can fail; two-page
mappings in a window of four pages leave room to grow, to move, and for neither. Mappings are
shared of the file, shared anonymous and private anonymous, placed by the kernel or fixed. `MaxCalls`
bounds map, unmap, remap, fork and exec, not faults, stores and exits. `kernel`: files have
2 direct and 4 indirect blocks and sizes count half blocks, so unaligned writes, the
indirect block and MAXFILE occur; `PIPESIZE` 2 and `INPUT_BUF` 4 with counters modulo
`WORD` = 8 (a multiple of both, as 2^32 is of 512 and 128) make buffers fill and counters
wrap; 22 pages run out in `mem`, `sbrktest` and `forktest`; loops of tests are cut to the
rounds that show something new. `MAXOPBLOCKS` is 8 where the code has 10, as a file's
chunk is then (8 - 4) / 2 = 2 blocks. Deadlock is not checked in `kernel`, since programs
end; `KnownStops` says when everything may have stopped.

*Fairness.* `RingBuffer`, `HashTable`, `KVSystem`: weak fairness for each thread that is in
a call or in its endless loop, which is what a preemptive operating system gives. No strong
fairness for semaphores or mutexes: a thread may be overtaken for ever, and
`EveryItemIsTaken` and `CallsComplete` are stated so that they do not depend on it.
`Scheduler`: weak fairness for each CPU's scheduler loop and for timer interrupts; a process
that gets the CPU again and again makes progress in its system call and in the end releases
a mutex it holds (strong fairness, since it may be preempted at any time). No process is
promised the CPU.
`WMap`: weak fairness of each process's steps in exit: it is scheduled again and again.

*Findings.* The three violations, for which `PROJECT.json` quotes what the code says of itself: (1)
p6's `read_input_files` tests `feof` only before a read, so the last line of a file is stored a
second time, one past the end of `requests[]`. (2) p4's `exit` loops for ever on a private mapping,
because only the branch for shared ones takes the entry off the list. (3) create holds the new
inode when it drops the directory, for which `iput` locks the directory again; an unlink of the new name
that has got the directory in between waits for the inode. `linkunlink` of `usertests.c` was written
to look for deadlocks, and the model reaches this one with its choices.

What the statements above that TLC refutes show besides: mutexes on one page share a channel, so
inheritance follows the wrong mutex, and the append to `locks_held` has no bound (p5). Lookups
find entries of other directories, `rmdir` frees blocks of a directory it then refuses to remove,
every second indirect pointer is skipped (p7). `exit` writes shared mappings back at the wrong
offset, `fork` takes no reference to a mapped file, the counts of `getwmapinfo` go wrong after
`wremap` and `exec`, those of `getpgdirinfo` at 32 pages (p4). A kill can miss a process about to sleep on a
pipe, a killed writer leaves the reader of a full pipe asleep, `..` can lead to a freed inode, the
log on disk is one block smaller than `begin_op` takes it to be (it takes operations that write
all the `MAXOPBLOCKS` blocks they reserve to fill it; those of `sysfile.c` mostly write fewer), and a
commit of a full log can find no buffer while another process reads (xv6).

## Proofs

TLAPS proves the theorems below for every value of the constants that satisfies the module's
assumption; TLC evaluates these assumptions in the runs.

| Module | Theorem | States | Assuming |
|---|---|---|---|
| `RingBufferProofs` | `TypeCorrect`, `SlotsAccounted`, `NoConflict` | `TypeOK`, `SlotAccounting`, `NoSlotConflict` | `RingAssumption`: finite sets of threads, a ring of at least one slot |
| | `RingIsQueue` | `ImplementsQueue` | |
| `HashTableProofs` | `TypeCorrect`, `ListsSound` | `TypeOK`, `ChainsWellFormed` | `HashAssumption`: finitely many keys, at least one bucket |
| | `TableLinearizable` | `Linearizable` | |
| `KVSystemProofs` | `SlotsExclusive`, `AnswersRight`, `KillQuiescent`, `SyncCheck` | `BoardExclusive`, `AnswersMatch`, `QuiescentAtKill`, `SyncCheckSucceeds` | `SystemAssumption`: at least one thread and one slot in the window, `Garbage` is no value |
| `SchedulerProofs` | `TypeCorrect`, `NeverTwice`, `WakeupsReach` | `TypeOK`, `OneCpuEach`, `NoMissedWakeup` | `SchedulerAssumption`: 0 is a nice value |
| | `ListAccurate`, `BestRuns` | `LocksHeldAccurate`, `MinNiceRuns` | and `OwnPages` |
| | `ListFits` | `LocksFit` | and `OwnPages`, and no more mutexes than `MAXMUTEXLOCKSHELD` |
| `LogProofs` | `CacheIsSound`, `SleepersWoken`, `PanicFree` | `CacheSound`, `SleepersJustified`, `NoPanic` | `LogAssumption`: operations write at most `MAXOPBLOCKS` home blocks, `nlog - 1` distinct log blocks apart from the header and the home blocks |
| `LogStoreProofs` | `LogIsAtomic` | `ImplementsStore` | `LogAssumption` |
| `WMapProofs` | `PagesCorrect`, `InfoCorrect`, `FileCorrect`, `StoresCorrect` | `PagesSound`, `InfoTrue`, `FileAlive`, `StoresReachFile` | `WMapAssumption`: finitely many processes, at least two pages, fixed addresses in the window |
| `WFSProofs` | `SpaceCorrect`, `TreeCorrect`, `ReadCorrect`, `FailureCorrect` | `SpaceSound`, `TreeSound`, `ReadBack`, `FailureInvisible` | `WFSAssumption`: at least one inode, block, entry and pointer; a name is not empty; paths are sequences of names and not empty |

`OwnPages`, no two mutexes on one page, is a hypothesis of three theorems and not an
assumption of the module, since the code does not guarantee it, and `MinNiceRuns` fails without it
(`MCSchedulerSharedPage.cfg`). The same goes for the number of mutexes in `ListFits`
(`MCSchedulerLocks.cfg`). With it the channel of a mutex identifies the mutex.

None of the properties is inductive; what had to be added is what a reader of the code has
to know about a thread in the middle of a call.

*Ring.* `IInv == Typed /\ Owners /\ SlotAccounting`. A thread between lock and unlock owns its
side's mutex. The occupied slots are `sem_not_empty` plus the producers that have filled a
slot and not posted plus the consumers that have claimed one; the free slots are the mirror
image; together `RING_SIZE`; and `p_head` is `Count` slots ahead of `c_tail`. Each action moves
one thread from one label to the next; `ProducerMoves` and `ConsumerMoves` say how that
changes the four cardinalities, `FillSlot` and `EmptySlot` do the modular arithmetic. Two
threads of one side cannot both copy, since both would own the mutex; a producer and a
consumer that copy have claimed a slot each, so the indices differ (`HeadNotTail`). For
`RingIsQueue`, `Carried` adds what descriptor a thread carries; the queue is the `Count` slots
from `c_tail` on, a submit takes effect when `p_head` advances and a get when `c_tail` does,
and every other step is an invocation, a return or a stutter.

*Table.* `Calls` (which operation is at which statement), `Locks` (a put past its lock holds
the bucket's mutex), `Distinct` (a key is in one node, published or not), `Walks` (what a
search has established: a put at node n knows that its key is in no node newer than n). Nodes
are numbered in the order of their allocation and new ones go to the front, so a list is a
descending sequence and `IsNewest` says what a pointer leads to. A put takes effect when it
writes the value or publishes the node. A get that finds its key takes effect when it reads the
value, one that does not when it reads the head of the list: nothing is inserted behind a
node, so what it has not met by then it never will.

*System.* `Board`: a request in flight is in exactly one place (a call, the ring, a server
thread, its slot), and a thread has at most `win_size` consecutive requests in flight, so
their numbers differ modulo `win_size` and no two use one slot. `Stored` and `Waiting`: a
request executed has been carried out by the table; the value of a key that only one client
thread uses was put by a request that no executed put on this key follows by a whole window.
`Collected`: what was collected was the right answer. The ring and the table are the abstract
modules here, and `RingIsQueue` and `TableLinearizable` justify that.

*Scheduler.* `Running` (who runs where), `Waiting` (what a process may rely on at each point of
its call), `Owning` (a mutex with an owner is locked) and `NoMissedWakeup` are inductive
together; with `OwnPages` so is `Listing`, that `locks_held` lists each owned mutex once. A
process about to append a free mutex then lists fewer than all mutexes, which is `ListFits`. `BestRuns` is an action property: it
unfolds the scan of `scheduler` and uses that `findminnice` sees all waiters of the listed
channels. `Drop`, the loop that removes a mutex from `locks_held`, is written in closed form,
so that it can be reasoned about without induction; where the mutex is listed once, it puts the
last entry in its place.

*Log.* `LInv == Typed /\ Programs /\ CopiesMatch /\ Cache /\ Counted /\ Cleared /\
SleepersJustified`. What a process holds is read off what it still has to do: block b is
`Open` where the next `bread` or `brelse` of it is a `brelse`. `Programs` says that every
program is `Balanced` (an instruction that needs a block stands where it is open) and
`Ordered` (instructions inside `bread`, `bwrite` and `brelse` come only first, at most one
`end` or `done`, and last). All programs the log starts are such and remain so,
which the first part of the module shows. `Cache` then relates what is open to the buffers' locks, counts and the disk queue, and
to the uniqueness of a block's buffer. `Counted`: `outstanding` is the number of
processes in an operation, and one process at most is committing or recovering. `Cleared`: outside a
commit, the header is empty whenever no operation is outstanding. So a sleeper of `begin_op`
always waits for an operation or a commit that will wake it, and the panics of `iderw`,
`bwrite`, `brelse`, `log_write` outside a transaction and `end_op` during a commit are not
reached. The two that depend on sizes can be: "too big a transaction" and `bget`'s "no buffers"
(`LogFits` and `BuffersSuffice` are refuted); in the model the process stops there, so what is proved
holds up to the panic. None of this depends on the order of the LRU list.

*Log and store.* `DInv == Clean /\ Dirtied /\ HeadOnDisk /\ Copied`, on top of `LInv`, forgets
the buffers: a block has contents as processes see them (`Content`), contents on the disk, and
is `Dirty` or not; `BlockIs` says how the buffers give these. Who commits or recovers is in a
phase, read off its program: `Logging` until the header is handed to the disk, then
`Installing`, then `Erasing`. `Clean`: only dirty blocks differ from the disk, so `bget`, which
recycles clean buffers, never drops the only copy of a write. `Dirtied`: a home block is dirty
only while it is logged, and is given to the disk only when the header that lists it is there,
so nothing reaches its home before the commit. `HeadOnDisk`: the header on the disk is empty outside a commit
and while `Logging`; while `Installing` it is the one in memory, or still empty with its write under
way; while `Erasing`, home blocks already equal their copies. `Copied`: the blocks the loops of
`write_log` and `install_trans` are past have been copied, which is where the two loops, the cache and
the disk queue meet. `RecoverableIs` reads `Recoverable` block by block (a header lists no
block twice), and `WriteEffect` is the heart: whatever block the disk writes, in whatever
phase, what recovery would restore stays the same, unless it is the header of a commit, and
then it becomes what processes see. A crash just after that write is therefore `Commit` in
`AtomicStore`, one just before it `Crash`; that recovery may be interrupted any number of times
needs nothing more, since it is in the same phases. Every other step is `Begin`, `Write`, `End` or a
stutter.

*File system.* `IInv`, until an `rmdir` fails with blocks freed or a lookup takes other bytes
for an entry: `Sound(disk)` and `WrittenThere`. `Sound` speaks of every place on the disk, reachable or not, since that is
where `find_dentry` looks when it runs past the end of a block: an entry has a number exactly
if it has a name, an entry with a number is in a block of a directory and names an inode in use
that no other entry names (`NumNamed`, `Housed`, `NumOnce`), so that the blocks of files, of
indirect pointers and free ones contain no entries (`NotOwner`, `FreeNoEntry`): a lookup that
runs on into them finds nothing, or bytes that spell the name, and has strayed. One that runs on into
another directory may find a name there, as the refutation of `LookupTrue` shows; what is needed of the
lookup is only that it answers with an entry of that name, or has strayed, and with none only if the
directory itself has none (`FindSpec`). `Linked` and `NameOnce` are the
rest of `TreeSound`; `Space` is `SpaceSound`. Every operation is a loop over
pointers. `Iterate` builds the course of a loop from its rounds, given a set of states they do
not leave, and `Induction` is induction over its rounds; both follow from the well-foundedness
of the naturals, as a set takes the place of the predicate. The sets are `Making` (the loop of
mknod: nothing done, one block given to the parent, or done), `Writing` (what a write has
changed so far, and how far its counters are apart), the states of unlink's and rmdir's loops,
where the blocks freed are those of the first rounds (`Without`). `Kept` says what an operation
on one inode leaves alone; `Unseen` gets `FailureInvisible` from it: no block given to an
inode brings entries along, since a free block is zero.

*Memory mappings.* `WMapProofs` first says of every operator what it changes, in predicates on
two machines (`NewMapping`, `Unmapped`, `Remapped`, `Loaded`, `Forked`, `Execed`, `Departed`,
`Exited`, `Reaped`). The loops (wunmap's, wremap's move, fork's, exit's) are taken round by round,
as in `WFSProofs`: the property of a round carries over to the whole loop by induction over the rounds. `NextIs` then
replaces the next-state relation by these predicates. `Memory` is inductive by itself: within a process no page is the
page of two PTEs, two entries or of different kinds (`Neat`), no two processes have a page in common,
and none is free; so whatever is freed had one user, and `PagesSound` is the same as a count. `Vacant`
says what a slot without a process still has: a fork that failed leaves entries there, none of
them made by that process. For `InfoTrue`, `Honest` adds that mappings a process made
itself overlap no other entry of its list, and that every page it has is writable and covered by an entry:
otherwise a new mapping could be laid over pages that are there already, and would count none of them.
`getpgdirinfo` then lists the pages of an entry, or the first of them if its array ends before. `wremap`
and `exec` leave such pages behind, which is why they are excepted. For `FileAlive`, `Refs`
bounds the holders by `ref` and says that no unused slot has an entry for the file (`NoLeft`). For
`StoresReachFile`, `Saved` says where the last stores are, as long as nothing excepted has
happened: the file has at most one mapping; what was stored in page k is in the page that mapping has loaded for k or,
where it has loaded none, in the file (`Synced`); and if there is no mapping, in the file. Each of
the rounds of wunmap's loop keeps `Synced`, because it sets the offset to the page's
number and because a page can only have been loaded up to the end of the file, so
that `writei` refuses none.

*Only model-checked.* Liveness (`EveryItemIsTaken`, `CallsComplete`, `AllAnswered`,
`NoEndlessInversion`), which is outside TLAPS' reach here; and all of `Kernel`, whose properties are about the scenarios of
`MCKernel`, since `TestsPass` and `NoPanic` depend on the programs. `Shell` parses with RECURSIVE
operators, which the prover does not support; only `MCKernel` extends it, so the modules of
the kernel can be proved about.

## Not modelled

- p6: argument parsing, creation of the shared memory file, timing and output;
  `free_kv_store` (it runs after threads that do not end have been joined).
- `Scheduler`: its processes do not exit, fork or get killed, and use only valid, initialised
  mutexes whose page table entry does not change. `Processes` has exit, fork and kill, but no
  mutexes.
- p7: times, owners, modes and link counts; writes of parts of a block; command line; what
  operations do at the number a lookup has taken from bytes that are no entry.
- p4: `MAP_FIXED` outside the window, page tables as pages, several files. `filewrite`
  through the null file of an anonymous shared mapping is undefined; it fails or panics.
- xv6: boot, memory-mapped devices, interrupt routing, page table bits, the registers of the
  disk controller; `fstat`, `getpid`, `uptime`, which change nothing; tests of bad pointer
  arguments (`bigargtest`, `argptest`, `bsstest`) and `fsfull`; printing. Running out of
  inodes or blocks is a panic in `fs.c` and does not happen in the scenarios. A test that counts
  the bytes of each process in a shared file (`sharedfd`) is checked for their total only, as the contents
  of files are not modelled. `growproc` updates the size of the calling thread only; the scenarios grow
  memory in one thread at a time.

## Plan

1. (done) p6: ring, table, system, reader; p5: scheduler and mutexes; first theorems.
2. (done) p7 `WFS`; p4 `WMap`; xv6's log and buffer cache; p5's kernel with processes, threads,
   files, pipes, console and the tests as programs.
3. (done) Proofs: the ring implements `BoundedQueue`; the table implements `AtomicKV`; the
   board and the answers of `KVSystem`; `Scheduler`'s invariants and `MinNiceRuns`; `CacheSound`,
   `SleepersJustified` and `NoPanic` for `Log`; the log implements `AtomicStore`.
4. (done) Proofs: the invariants and the action property of `WFS`; the invariants of `WMap`.
5. Proofs about `Kernel`: its reference counts (`RefsExact`) and pipes (`StreamsFaithful`) do not
   depend on the programs and come first.

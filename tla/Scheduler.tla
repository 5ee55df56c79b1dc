----------------------------- MODULE Scheduler ------------------------------
(***************************************************************************)
(* p5's scheduler with nice values and priority inheritance (proc.c), and  *)
(* the user-level sleep mutexes macquire/mrelease (sysproc.c), on several  *)
(* CPUs.                                                                   *)
(*                                                                         *)
(* Everything a CPU does while it holds ptable.lock between two points at  *)
(* which the lock can change hands is one step; ptable says which CPU's    *)
(* scheduler holds it across swtch.  A mutex's spinlock lk is held with    *)
(* interrupts off.  Processes here neither exit nor are killed.            *)
(*                                                                         *)
(* pc[p]: "user"; in sys_macquire "acquire" (about to take m->lk, 37, or   *)
(* to take it again at the end of sleep), "test" (38) and "asleep" (in     *)
(* sched, called by sleep); in sys_mrelease "release" (about to take       *)
(* m->lk, 60) and "wake" (about to take ptable.lock in wakeup, 69).        *)
(***************************************************************************)
EXTENDS Integers, Sequences, FiniteSets, FiniteSetsExt

CONSTANTS NPROC,              \* processes 1 .. NPROC, in table order
          NCPUs,              \* the numbers of CPUs considered
          Mutexes,
          PageOf,             \* PageOf[m]: the page table entry that maps m
          MinNice, MaxNice,   \* -20 and 19
          Increments,         \* arguments of nice()
          MAXMUTEXLOCKSHELD,  \* entries of locks_held
          None                \* no process, CPU, mutex or channel

Procs == 1 .. NPROC

ASSUME SchedulerAssumption ==
  /\ NPROC \in Nat \ {0} /\ NCPUs \subseteq Nat \ {0}
  /\ MinNice \in Int /\ MaxNice \in Int /\ MinNice <= 0 /\ 0 <= MaxNice
  /\ Increments \subseteq Int
  /\ IsFiniteSet(Mutexes) /\ DOMAIN PageOf = Mutexes
  /\ MAXMUTEXLOCKSHELD \in Nat
  /\ None \notin Nat /\ None \notin Mutexes /\ \A m \in Mutexes : PageOf[m] # None

VARIABLES state, chan, nice, locks_held,    \* struct proc
          pc, arg,               \* where p is, and the mutex of its system call
          locked, pid, lk,       \* the mutexes: held?, by whom; lk: spinlock's holder
          ncpu,                  \* CPUs started
          proc,                  \* proc[c]: the process CPU c runs
          pos,                   \* pos[c]: where c's scheduler resumes its scan
          ptable                 \* CPU whose scheduler holds ptable.lock

procVars  == <<state, chan, nice, locks_held, pc, arg>>
mutexVars == <<locked, pid, lk>>
cpuVars   == <<ncpu, proc, pos, ptable>>
vars == <<procVars, mutexVars, cpuVars>>

CPUs == 1 .. ncpu
Chans == {PageOf[m] : m \in Mutexes}

Init == /\ ncpu \in NCPUs
        /\ state = [p \in Procs |-> "RUNNABLE"]
        /\ chan = [p \in Procs |-> None]
        /\ nice = [p \in Procs |-> 0]
        /\ locks_held = [p \in Procs |-> << >>]
        /\ pc = [p \in Procs |-> "user"]
        /\ arg = [p \in Procs |-> None]
        /\ locked = [m \in Mutexes |-> 0]
        /\ pid = [m \in Mutexes |-> None]
        /\ lk = [m \in Mutexes |-> None]
        /\ proc = [c \in CPUs |-> None]
        /\ pos = [c \in CPUs |-> 1]
        /\ ptable = None

-----------------------------------------------------------------------------
(* The scheduler *)

\* Mutant: inheritance left out.
ElevatedOwn(p) == nice[p]

\* p's elevated_nice, which findminnice recomputes for every runnable process
\* before each use: its own nice, or that of a process sleeping on a channel that
\* is among p's locks_held.
Elevated(p) ==
  Min({nice[p]} \cup
      {nice[q] : q \in {q \in Procs : /\ state[q] = "SLEEPING"
                                      /\ \E i \in 1 .. Len(locks_held[p]) :
                                           chan[q] = locks_held[p][i]}})

findminnice ==
  Min({MaxNice} \cup {Elevated(p) : p \in {p \in Procs : state[p] = "RUNNABLE"}})

\* Mutant: the scan resumes after swtch with the minnice it had before, which the
\* README reports as an earlier bug ("we had forgotten that the scheduler continues
\* where it left off"): when it resumes, any runnable process is taken.
CandidatesStaleMin(i) == {p \in i .. NPROC : /\ state[p] = "RUNNABLE"
                                             /\ i > 1 \/ Elevated(p) <= findminnice}

\* The processes from position i on that the scan would switch to.
Candidates(i) == {p \in i .. NPROC : /\ state[p] = "RUNNABLE"
                                     /\ Elevated(p) <= findminnice}

\* CPU c's scheduler holds ptable.lock: because a process has just switched back
\* to it, or because it takes the lock for a new pass.
Scanning(c) == proc[c] = None /\ ptable \in {c, None}

\* Mutant: the chosen process is not marked RUNNING.
DispatchNoState(c) ==
  /\ Scanning(c)
  /\ Candidates(pos[c]) # {}
  /\ LET p == Min(Candidates(pos[c])) IN
       /\ proc' = [proc EXCEPT ![c] = p]
       /\ pos' = [pos EXCEPT ![c] = p + 1]
       /\ chan' = [chan EXCEPT ![p] = None]
       /\ pc' = [pc EXCEPT ![p] = IF @ = "asleep" THEN "acquire" ELSE @]
  /\ ptable' = None
  /\ UNCHANGED <<state, nice, locks_held, arg, mutexVars, ncpu>>

\* The scan finds a process and switches to it; the process leaves sched, clears
\* its channel if it was in sleep, and releases ptable.lock.
Dispatch(c) ==
  /\ Scanning(c)
  /\ Candidates(pos[c]) # {}
  /\ LET p == Min(Candidates(pos[c])) IN
       /\ proc' = [proc EXCEPT ![c] = p]
       /\ pos' = [pos EXCEPT ![c] = p + 1]
       /\ state' = [state EXCEPT ![p] = "RUNNING"]
       /\ chan' = [chan EXCEPT ![p] = None]
       /\ pc' = [pc EXCEPT ![p] = IF @ = "asleep" THEN "acquire" ELSE @]
  /\ ptable' = None
  /\ UNCHANGED <<nice, locks_held, arg, mutexVars, ncpu>>

\* The scan ends without a candidate; the pass is over.
EndPass(c) ==
  /\ Scanning(c)
  /\ Candidates(pos[c]) = {}
  /\ pos' = [pos EXCEPT ![c] = 1]
  /\ ptable' = None
  /\ UNCHANGED <<state, chan, nice, locks_held, pc, arg, mutexVars, ncpu, proc>>

\* CPU c runs p, and p may take ptable.lock; sched leaves it with c's scheduler.
SchedFrom(c, p) == /\ proc[c] = p /\ ptable = None
                   /\ proc' = [proc EXCEPT ![c] = None]
                   /\ ptable' = c
                   /\ UNCHANGED <<ncpu, pos>>

\* A timer interrupt on CPU c, in user space or in the kernel while it holds no
\* spinlock.
Yield(c) == \E p \in Procs :
  /\ SchedFrom(c, p)
  /\ pc[p] \in {"user", "acquire", "release"}
  /\ state' = [state EXCEPT ![p] = "RUNNABLE"]
  /\ UNCHANGED <<chan, nice, locks_held, pc, arg, mutexVars>>

-----------------------------------------------------------------------------
(* System calls of the process that runs on CPU c *)

Runs(c, p, at) == proc[c] = p /\ pc[p] = at
Goto(p, at)    == pc' = [pc EXCEPT ![p] = at]

\* Mutant: a sum below MinNice is kept.
NiceUnclamped(c) == \E p \in Procs, inc \in Increments :
  /\ Runs(c, p, "user")
  /\ nice' = [nice EXCEPT ![p] = IF @ + inc > MaxNice THEN MaxNice ELSE @ + inc]
  /\ UNCHANGED <<state, chan, locks_held, pc, arg, mutexVars, cpuVars>>

\* sys_nice: the sum is clamped to MinNice .. MaxNice.
Nice(c) == \E p \in Procs, inc \in Increments :
  /\ Runs(c, p, "user")
  /\ nice' = [nice EXCEPT ![p] = IF @ + inc > MaxNice THEN MaxNice
                                 ELSE IF @ + inc < MinNice THEN MinNice ELSE @ + inc]
  /\ UNCHANGED <<state, chan, locks_held, pc, arg, mutexVars, cpuVars>>

\* A program does not acquire a mutex it already holds, and releases only those.
MAcquireCall(c) == \E p \in Procs, m \in Mutexes :
  /\ Runs(c, p, "user") /\ pid[m] # p
  /\ arg' = [arg EXCEPT ![p] = m]
  /\ Goto(p, "acquire")
  /\ UNCHANGED <<state, chan, nice, locks_held, mutexVars, cpuVars>>

AcquireLk(c) == \E p \in Procs :
  /\ Runs(c, p, "acquire") /\ lk[arg[p]] = None
  /\ lk' = [lk EXCEPT ![arg[p]] = p]
  /\ Goto(p, "test")
  /\ UNCHANGED <<state, chan, nice, locks_held, arg, locked, pid, cpuVars>>

\* The end of sys_macquire.  It appends to locks_held without looking whether there is
\* room: what is past the array is num_locks_held, and after that write the list means
\* nothing.  A behaviour is followed up to it: p does not get further.
TakeMutex(c) == \E p \in Procs :
  LET m == arg[p] IN
  /\ Runs(c, p, "test") /\ locked[m] = 0
  /\ Len(locks_held[p]) < MAXMUTEXLOCKSHELD
  /\ locked' = [locked EXCEPT ![m] = 1]
  /\ pid' = [pid EXCEPT ![m] = p]
  /\ locks_held' = [locks_held EXCEPT ![p] = Append(@, PageOf[m])]
  /\ lk' = [lk EXCEPT ![m] = None]
  /\ arg' = [arg EXCEPT ![p] = None]
  /\ Goto(p, "user")
  /\ UNCHANGED <<state, chan, nice, cpuVars>>

\* Mutant: sleep releases lk before it holds ptable.lock.
SleepUnlockFirst(c) == \E p \in Procs :
  LET m == arg[p] IN
  /\ Runs(c, p, "test")
  /\ IF lk[m] = p
     THEN /\ locked[m] # 0
          /\ lk' = [lk EXCEPT ![m] = None]
          /\ UNCHANGED <<chan, state, pc, cpuVars>>
     ELSE /\ SchedFrom(c, p)
          /\ chan' = [chan EXCEPT ![p] = PageOf[m]]
          /\ state' = [state EXCEPT ![p] = "SLEEPING"]
          /\ Goto(p, "asleep")
          /\ UNCHANGED lk
  /\ UNCHANGED <<nice, locks_held, arg, locked, pid>>

\* sleep(m_phys, &m->lk): ptable.lock is taken before lk is released.
Sleep(c) == \E p \in Procs :
  LET m == arg[p] IN
  /\ Runs(c, p, "test") /\ locked[m] # 0
  /\ SchedFrom(c, p)
  /\ lk' = [lk EXCEPT ![m] = None]
  /\ chan' = [chan EXCEPT ![p] = PageOf[m]]
  /\ state' = [state EXCEPT ![p] = "SLEEPING"]
  /\ Goto(p, "asleep")
  /\ UNCHANGED <<nice, locks_held, arg, locked, pid>>

MReleaseCall(c, m) == \E p \in Procs :
  /\ Runs(c, p, "user") /\ pid[m] = p
  /\ arg' = [arg EXCEPT ![p] = m]
  /\ Goto(p, "release")
  /\ UNCHANGED <<state, chan, nice, locks_held, mutexVars, cpuVars>>

\* Mutant: mrelease leaves locks_held alone.
DropKeep(held, x) == held

\* The loop of lines 61-66 replaces a match by the last entry and goes on with the
\* next index, so an entry moved into place is not looked at.  Each match found
\* before index i has taken one entry off the end, and those still at the end are
\* never reached.
Drop(held, x) ==
  LET n == Len(held)
      Before(i) == Cardinality({j \in 1 .. i - 1 : held[j] = x})
      Found == {i \in 1 .. n : held[i] = x /\ i <= n - Before(i)}
  IN  [i \in 1 .. n - Cardinality(Found) |->
         IF held[i] = x THEN held[n - Before(i)] ELSE held[i]]

ClearMutex(c) == \E p \in Procs :
  LET m == arg[p] IN
  /\ Runs(c, p, "release") /\ lk[m] = None
  /\ lk' = [lk EXCEPT ![m] = p]
  /\ locks_held' = [locks_held EXCEPT ![p] = Drop(@, PageOf[m])]
  /\ locked' = [locked EXCEPT ![m] = 0]
  /\ pid' = [pid EXCEPT ![m] = None]
  /\ Goto(p, "wake")
  /\ UNCHANGED <<state, chan, nice, arg, cpuVars>>

\* wakeup(m_phys), then release(&m->lk).
Wakeup(c) == \E p \in Procs :
  LET m == arg[p] IN
  /\ Runs(c, p, "wake") /\ ptable = None
  /\ state' = [q \in Procs |-> IF state[q] = "SLEEPING" /\ chan[q] = PageOf[m]
                               THEN "RUNNABLE" ELSE state[q]]
  /\ lk' = [lk EXCEPT ![m] = None]
  /\ arg' = [arg EXCEPT ![p] = None]
  /\ Goto(p, "user")
  /\ UNCHANGED <<chan, nice, locks_held, locked, pid, cpuVars>>

-----------------------------------------------------------------------------
Progress(c) == AcquireLk(c) \/ TakeMutex(c) \/ Sleep(c) \/ ClearMutex(c) \/ Wakeup(c)

Next == \E c \in CPUs : \/ Dispatch(c) \/ EndPass(c) \/ Yield(c) \/ Nice(c)
                        \/ MAcquireCall(c) \/ Progress(c)
                        \/ \E m \in Mutexes : MReleaseCall(c, m)

Spec == Init /\ [][Next]_vars

(***************************************************************************)
(* Every CPU keeps executing, timer interrupts keep coming, and a process  *)
(* that is given the CPU again and again gets on with its system call and  *)
(* in the end releases each mutex it holds.  No process is promised the    *)
(* CPU: that is for the scheduler to give.                                 *)
(***************************************************************************)
FairSpec ==
  /\ Spec
  /\ \A c \in 1 .. Max(NCPUs) :
       /\ WF_vars(c \in CPUs /\ (Dispatch(c) \/ EndPass(c)))
       /\ WF_vars(c \in CPUs /\ Yield(c))
  /\ \A p \in Procs :
       /\ SF_vars(\E c \in CPUs : proc[c] = p /\ Progress(c))
       /\ \A m \in Mutexes :
            SF_vars(\E c \in CPUs : proc[c] = p /\ MReleaseCall(c, m))

-----------------------------------------------------------------------------
(* Properties *)

\* Type correctness; in particular nice values keep to their range.
TypeOK ==
  /\ state \in [Procs -> {"RUNNABLE", "RUNNING", "SLEEPING"}]
  /\ chan \in [Procs -> Chans \cup {None}]
  /\ nice \in [Procs -> MinNice .. MaxNice]
  /\ locks_held \in [Procs -> Seq(Chans)]
  /\ pc \in [Procs -> {"user", "acquire", "test", "asleep", "release", "wake"}]
  /\ arg \in [Procs -> Mutexes \cup {None}]
  /\ locked \in [Mutexes -> {0, 1}]
  /\ pid \in [Mutexes -> Procs \cup {None}] /\ lk \in [Mutexes -> Procs \cup {None}]
  /\ proc \in [CPUs -> Procs \cup {None}] /\ pos \in [CPUs -> 1 .. NPROC + 1]
  /\ ptable \in CPUs \cup {None}

\* A process is RUNNING exactly when one CPU runs it, and never on two: two CPUs
\* scanning the table never pick the same process.
OneCpuEach ==
  \A p \in Procs : Cardinality({c \in CPUs : proc[c] = p}) =
                     IF state[p] = "RUNNING" THEN 1 ELSE 0

\* No wakeup is lost: a process asleep in macquire waits for a mutex that is held,
\* or whose releaser has yet to call wakeup on that channel.
NoMissedWakeup ==
  \A p \in Procs : state[p] = "SLEEPING" =>
    \/ locked[arg[p]] = 1
    \/ \E r \in Procs : pc[r] = "wake" /\ PageOf[arg[r]] = chan[p]

\* locks_held, which inheritance is computed from, lists exactly the mutexes the
\* process owns.
LocksHeldAccurate ==
  \A p \in Procs :
    LET Owned == {m \in Mutexes : pid[m] = p} IN
    /\ Len(locks_held[p]) = Cardinality(Owned)
    /\ \A x \in Chans : Cardinality({i \in 1 .. Len(locks_held[p]) : locks_held[p][i] = x})
                          = Cardinality({m \in Owned : PageOf[m] = x})

\* locks_held has an entry for every mutex a process gets: macquire does not write past
\* the array.
LocksFit == \A p \in Procs : pc[p] = "test" /\ locked[arg[p]] = 0 =>
                               Len(locks_held[p]) < MAXMUTEXLOCKSHELD

\* The priority p is entitled to: its own nice value, or the best one of a process
\* that sleeps waiting for a mutex p owns.
Entitled(p) ==
  Min({nice[p]} \cup {nice[q] : q \in {q \in Procs : /\ state[q] = "SLEEPING"
                                                     /\ pid[arg[q]] = p}})

\* Whenever a CPU switches to a process, no runnable process was entitled to a
\* better priority at that moment, whatever happened since the scan began.
MinNiceRuns ==
  [][\A c \in CPUs : proc[c] = None /\ proc'[c] # None =>
       \A q \in Procs : state[q] = "RUNNABLE" => Entitled(proc'[c]) <= Entitled(q)]_vars

\* Process w, the best of all, waits for a mutex whose owner could run.
Inverted(w) == /\ state[w] = "SLEEPING"
               /\ pid[arg[w]] # None /\ state[pid[arg[w]]] # "SLEEPING"
               /\ \A q \in Procs \ {w} : nice[w] <= nice[q]

\* Priority inversion is bounded: a process with the best nice value does not wait
\* for ever for a mutex whose owner could run, even if processes of middling
\* priority never stop running.
NoEndlessInversion == \A w \in Procs : []<>~Inverted(w)
=============================================================================

-------------------------- MODULE SchedulerProofs ---------------------------
(***************************************************************************)
(* Proofs about p5's scheduler and its sleep mutexes, for any number of    *)
(* processes, CPUs and mutexes and any range of nice values: no process    *)
(* runs on two CPUs, no wakeup is lost, locks_held is what it should be,   *)
(* and the scheduler always runs a process of the best priority.           *)
(*                                                                         *)
(* The inductive invariant is Typed, Running (who runs where), Waiting     *)
(* (where a process is in its system call and what it may rely on there),  *)
(* Owning (a mutex is locked while it has an owner), NoMissedWakeup and,   *)
(* when every mutex has a page of its own, Listing (locks_held lists each  *)
(* owned mutex once).                                                      *)
(***************************************************************************)
EXTENDS Scheduler, FiniteSetTheorems, SequenceTheorems, WellFoundedInduction,
        NaturalsInduction, TLAPS

States == {"RUNNABLE", "RUNNING", "SLEEPING"}
Labels == {"user", "acquire", "test", "asleep", "release", "wake"}

Typed ==
  /\ state \in [Procs -> States]
  /\ chan \in [Procs -> Chans \cup {None}]
  /\ nice \in [Procs -> MinNice .. MaxNice]
  /\ locks_held \in [Procs -> Seq(Chans)]
  /\ pc \in [Procs -> Labels]
  /\ arg \in [Procs -> Mutexes \cup {None}]
  /\ locked \in [Mutexes -> {0, 1}]
  /\ pid \in [Mutexes -> Procs \cup {None}] /\ lk \in [Mutexes -> Procs \cup {None}]
  /\ ncpu \in Nat
  /\ proc \in [CPUs -> Procs \cup {None}] /\ pos \in [CPUs -> 1 .. NPROC + 1]
  /\ ptable \in CPUs \cup {None}

\* The running processes are those on a CPU, each on one.
Running ==
  /\ \A c \in CPUs : proc[c] # None => state[proc[c]] = "RUNNING"
  /\ \A p \in Procs : state[p] = "RUNNING" => \E c \in CPUs : proc[c] = p
  /\ \A c, d \in CPUs : proc[c] = proc[d] /\ proc[c] # None => c = d

\* A process in a system call has its mutex as argument, one asleep waits on the
\* channel of that mutex, and one about to release it owns it.
Waiting == \A p \in Procs :
  /\ pc[p] # "user" => arg[p] \in Mutexes
  /\ state[p] = "SLEEPING" => pc[p] = "asleep" /\ chan[p] = PageOf[arg[p]]
  /\ pc[p] = "release" => pid[arg[p]] = p

Owning == \A m \in Mutexes : locked[m] = 0 <=> pid[m] = None

Owned(p) == {m \in Mutexes : pid[m] = p}

\* h lists each of the pages of the mutexes in S once.
Lists(h, S) == /\ \A i, j \in 1 .. Len(h) : h[i] = h[j] => i = j
               /\ \A i \in 1 .. Len(h) : \E m \in S : h[i] = PageOf[m]
               /\ \A m \in S : \E i \in 1 .. Len(h) : h[i] = PageOf[m]

Listing == \A p \in Procs : Lists(locks_held[p], Owned(p))

\* No two mutexes are on one page.
OwnPages == \A m, n \in Mutexes : PageOf[m] = PageOf[n] => m = n

IInv == Typed /\ Running /\ Waiting /\ Owning /\ NoMissedWakeup

-----------------------------------------------------------------------------
(* Minima *)

\* A non-empty set of integers with a lower bound has a least element, which is
\* what Min returns.
LEMMA MinExists ==
  ASSUME NEW S \in SUBSET Int, S # {}, NEW b \in Int, \A x \in S : b <= x
  PROVE  Min(S) \in S /\ \A y \in S : Min(S) <= y
<1> DEFINE T == {x - b : x \in S}
           Less == {ss \in Nat \X Nat : ss[1] < ss[2]}
<1>1. T \subseteq Nat /\ T # {}
  <2>1. \A x \in S : x - b \in Nat
    OBVIOUS
  <2> QED
    BY <2>1
<1>2. PICK n \in T : \A k \in T : <<k, n>> \notin Less
  <2>1. IsWellFoundedOn(Less, Nat)
    BY NatLessThanWellFounded DEF OpToRel
  <2> HIDE DEF T, Less
  <2> QED
    BY <1>1, <2>1, WFMin
<1>3. \A k \in T : n <= k
  <2>1. ASSUME NEW k \in T PROVE n <= k
    <3>1. k \in Nat /\ n \in Nat /\ <<k, n>> \notin Less
      BY <1>1, <1>2
    <3> HIDE DEF T
    <3> QED
      BY <3>1
  <2> QED
    BY <2>1
<1>4. PICK x \in S : n = x - b
  BY <1>2
<1>5. \A y \in S : x <= y
  BY <1>3, <1>4
<1> QED
  BY <1>5 DEF Min

-----------------------------------------------------------------------------
(* The loop of mrelease *)

\* The number of entries of h equal to x before index i.
Before(h, x, i) == Cardinality({j \in 1 .. i - 1 : h[j] = x})
Found(h, x) == {i \in 1 .. Len(h) : h[i] = x /\ i <= Len(h) - Before(h, x, i)}

\* Drop with its local definitions named.
LEMMA DropIs ==
  ASSUME NEW h, NEW x
  PROVE  Drop(h, x) = [i \in 1 .. Len(h) - Cardinality(Found(h, x)) |->
                         IF h[i] = x THEN h[Len(h) - Before(h, x, i)] ELSE h[i]]
BY DEF Drop, Before, Found

\* 1 .. n has n elements.
LEMMA IntervalCount ==
  ASSUME NEW n \in Nat
  PROVE  IsFiniteSet(1 .. n) /\ Cardinality(1 .. n) = n
<1>1. IsFiniteSet(1 .. n) /\ Cardinality(1 .. n) = IF 1 > n THEN 0 ELSE n - 1 + 1
  BY FS_Interval
<1> QED
  BY <1>1

\* Fewer than i entries come before index i, and there are at most Len(h) matches.
LEMMA DropCounts ==
  ASSUME NEW h \in Seq(Chans), NEW x
  PROVE  /\ Len(h) \in Nat
         /\ \A i \in 1 .. Len(h) : Before(h, x, i) \in 0 .. i - 1
         /\ IsFiniteSet(Found(h, x)) /\ Cardinality(Found(h, x)) \in 0 .. Len(h)
<1>1. Len(h) \in Nat
  BY LenProperties
<1>2. ASSUME NEW i \in 1 .. Len(h) PROVE Before(h, x, i) \in 0 .. i - 1
  <2> DEFINE B == {j \in 1 .. i - 1 : h[j] = x}
  <2>0. i - 1 \in Nat
    BY <1>1
  <2>1. IsFiniteSet(1 .. i - 1) /\ Cardinality(1 .. i - 1) = i - 1
    BY <2>0, IntervalCount
  <2>2. B \in SUBSET (1 .. i - 1)
    OBVIOUS
  <2> HIDE DEF B
  <2>3. IsFiniteSet(B) /\ Cardinality(B) <= i - 1
    BY <2>1, <2>2, FS_Subset
  <2>4. Cardinality(B) \in Nat
    BY <2>3, FS_CardinalityType
  <2> QED
    BY <1>1, <2>3, <2>4 DEF Before, B
<1>3. IsFiniteSet(Found(h, x)) /\ Cardinality(Found(h, x)) \in 0 .. Len(h)
  <2>1. IsFiniteSet(1 .. Len(h)) /\ Cardinality(1 .. Len(h)) = Len(h)
    BY <1>1, IntervalCount
  <2>2. Found(h, x) \in SUBSET (1 .. Len(h))
    BY DEF Found
  <2>3. IsFiniteSet(Found(h, x)) /\ Cardinality(Found(h, x)) <= Len(h)
    BY <2>1, <2>2, FS_Subset
  <2>4. Cardinality(Found(h, x)) \in Nat
    BY <2>3, FS_CardinalityType
  <2> QED
    BY <1>1, <2>3, <2>4
<1> QED
  BY <1>1, <1>2, <1>3

\* The loop leaves a list of pages.
LEMMA DropSeq ==
  ASSUME NEW h \in Seq(Chans), NEW x
  PROVE  Drop(h, x) \in Seq(Chans)
<1> DEFINE n == Len(h)
           k == n - Cardinality(Found(h, x))
           e(i) == IF h[i] = x THEN h[n - Before(h, x, i)] ELSE h[i]
<1>1. n \in Nat /\ k \in Nat /\ k <= n /\ \A i \in 1 .. n : n - Before(h, x, i) \in 1 .. n
  BY DropCounts
<1>2. \A i \in 1 .. n : h[i] \in Chans
  BY ElementOfSeq
<1>3. \A i \in 1 .. k : e(i) \in Chans
  BY <1>1, <1>2
<1>4. Drop(h, x) = [i \in 1 .. k |-> e(i)]
  BY DropIs
<1> HIDE DEF k, e
<1>5. [i \in 1 .. k |-> e(i)] \in [1 .. k -> Chans]
  BY <1>3
<1>6. [i \in 1 .. k |-> e(i)] \in Seq(Chans)
  BY <1>1, <1>5, SeqDef
<1> QED
  BY <1>4, <1>6

\* An entry that occurs once is replaced by the last one.
LEMMA DropOnce ==
  ASSUME NEW h \in Seq(Chans), NEW k \in 1 .. Len(h),
         \A j \in 1 .. Len(h) : h[j] = h[k] => j = k
  PROVE  /\ Len(Drop(h, h[k])) = Len(h) - 1
         /\ \A i \in 1 .. Len(h) - 1 : Drop(h, h[k])[i] = IF i = k THEN h[Len(h)] ELSE h[i]
<1> DEFINE n == Len(h)
           x == h[k]
<1>1. n \in Nat /\ n > 0
  BY LenProperties
<1>2. Before(h, x, k) = 0
  <2>1. {j \in 1 .. k - 1 : h[j] = x} = {}
    BY <1>1
  <2> QED
    BY <2>1, FS_EmptySet DEF Before
<1>3. Found(h, x) = {k}
  BY <1>1, <1>2 DEF Found
<1>4. Cardinality(Found(h, x)) = 1
  BY <1>3, FS_Singleton
<1>5. Drop(h, x) = [i \in 1 .. n - 1 |-> IF h[i] = x THEN h[n - Before(h, x, i)] ELSE h[i]]
  BY <1>4, DropIs
<1>6. \A i \in 1 .. n - 1 : Drop(h, x)[i] = IF h[i] = x THEN h[n - Before(h, x, i)] ELSE h[i]
  BY <1>5
<1>7. \A i \in 1 .. n - 1 : Drop(h, x)[i] = IF i = k THEN h[n] ELSE h[i]
  <2>1. \A i \in 1 .. n - 1 : h[i] = x <=> i = k
    BY <1>1
  <2>2. n - 0 = n
    BY <1>1
  <2> QED
    BY <1>2, <1>6, <2>1, <2>2
<1>8. Len(Drop(h, x)) = n - 1
  <2>1. DOMAIN Drop(h, x) = 1 .. n - 1 /\ n - 1 \in Nat
    BY <1>1, <1>5
  <2>2. Drop(h, x) \in Seq(Chans)
    BY DropSeq
  <2>3. Len(Drop(h, x)) \in Nat /\ DOMAIN Drop(h, x) = 1 .. Len(Drop(h, x))
    BY <2>2, LenProperties
  <2> QED
    BY <2>1, <2>3
<1> QED
  BY <1>7, <1>8

-----------------------------------------------------------------------------
(* The inductive invariant *)

\* None is none of the things it stands in for.
LEMMA NoneIsNothing ==
  /\ None \notin Procs /\ None \notin Mutexes /\ None \notin Chans
  /\ ncpu \in Nat => None \notin CPUs
BY SchedulerAssumption DEF Procs, Chans, CPUs

\* The process the scan switches to is runnable and of the least nice value.
LEMMA Chosen ==
  ASSUME Typed, NEW c \in CPUs, Candidates(pos[c]) # {}
  PROVE  /\ Min(Candidates(pos[c])) \in Procs
         /\ Min(Candidates(pos[c])) + 1 \in 1 .. NPROC + 1
         /\ state[Min(Candidates(pos[c]))] = "RUNNABLE"
         /\ Elevated(Min(Candidates(pos[c]))) <= findminnice
<1> DEFINE S == Candidates(pos[c])
<1>1. pos[c] \in 1 .. NPROC + 1 /\ NPROC \in Nat
  BY SchedulerAssumption DEF Typed
<1>2. S \subseteq Procs /\ \A p \in S : state[p] = "RUNNABLE" /\ Elevated(p) <= findminnice
  BY <1>1 DEF Candidates, Procs
<1>3. S \in SUBSET Int /\ \A x \in S : 1 <= x
  BY <1>1, <1>2 DEF Procs
<1> HIDE DEF S
<1>4. S # {}
  BY DEF S
<1>5. Min(S) \in S
  BY <1>3, <1>4, MinExists
<1>6. Min(S) \in Procs
  BY <1>2, <1>5
<1>7. Min(S) + 1 \in 1 .. NPROC + 1
  BY <1>1, <1>6 DEF Procs
<1> QED
  BY <1>2, <1>5, <1>6, <1>7 DEF S

\* Init satisfies the invariant.
LEMMA InitIInv == Init => IInv
<1> SUFFICES ASSUME Init PROVE IInv
  OBVIOUS
<1>1. ncpu \in Nat /\ NPROC \in Nat /\ 0 \in MinNice .. MaxNice
  BY SchedulerAssumption DEF Init
<1>2. << >> \in Seq(Chans)
  OBVIOUS
<1>3. Typed
  <2>1. 1 \in 1 .. NPROC + 1
    BY <1>1
  <2> QED
    BY <1>1, <1>2, <2>1 DEF Init, Typed, States, Labels
<1>4. Running
  BY DEF Init, Running
<1>5. Waiting
  BY DEF Init, Waiting
<1>6. Owning
  BY DEF Init, Owning
<1>7. NoMissedWakeup
  BY DEF Init, NoMissedWakeup
<1> QED
  BY <1>3, <1>4, <1>5, <1>6, <1>7 DEF IInv

\* Every step preserves the types.
LEMMA TypedNext == Typed /\ Waiting /\ [Next]_vars => Typed'
<1> SUFFICES ASSUME Typed, Waiting, [Next]_vars PROVE Typed'
  OBVIOUS
<1>1. CASE UNCHANGED vars
  BY <1>1 DEF vars, procVars, mutexVars, cpuVars, Typed, CPUs
<1>2. ASSUME NEW c \in CPUs, Dispatch(c) PROVE Typed'
  <2> DEFINE p == Min(Candidates(pos[c]))
  <2>1. p \in Procs /\ p + 1 \in 1 .. NPROC + 1
    BY <1>2, Chosen DEF Dispatch
  <2> HIDE DEF p
  <2> QED
    BY <1>2, <2>1 DEF Dispatch, p, Typed, States, Labels, CPUs, mutexVars
<1>3. ASSUME NEW c \in CPUs, EndPass(c) PROVE Typed'
  <2>1. 1 \in 1 .. NPROC + 1
    BY SchedulerAssumption
  <2> QED
    BY <1>3, <2>1 DEF EndPass, Typed, CPUs, mutexVars
<1>4. ASSUME NEW c \in CPUs, Yield(c) PROVE Typed'
  BY <1>4 DEF Yield, SchedFrom, Typed, States, CPUs, mutexVars
<1>5. ASSUME NEW c \in CPUs, Nice(c) PROVE Typed'
  <2> PICK p \in Procs, inc \in Increments :
        nice' = [nice EXCEPT ![p] = IF @ + inc > MaxNice THEN MaxNice
                                 ELSE IF @ + inc < MinNice THEN MinNice ELSE @ + inc]
    BY <1>5 DEF Nice
  <2>1. nice[p] \in MinNice .. MaxNice /\ inc \in Int /\ MinNice \in Int /\ MaxNice \in Int
        /\ MinNice <= MaxNice
    BY SchedulerAssumption DEF Typed
  <2>2. (IF nice[p] + inc > MaxNice THEN MaxNice
         ELSE IF nice[p] + inc < MinNice THEN MinNice ELSE nice[p] + inc) \in MinNice .. MaxNice
    BY <2>1
  <2>3. nice' \in [Procs -> MinNice .. MaxNice]
    BY <2>2 DEF Typed
  <2> QED
    BY <1>5, <2>3 DEF Nice, Typed, CPUs, mutexVars, cpuVars
<1>6. ASSUME NEW c \in CPUs, MAcquireCall(c) PROVE Typed'
  BY <1>6 DEF MAcquireCall, Goto, Typed, Labels, CPUs, mutexVars, cpuVars
<1>7. ASSUME NEW c \in CPUs, AcquireLk(c) PROVE Typed'
  <2> PICK p \in Procs : lk' = [lk EXCEPT ![arg[p]] = p]
    BY <1>7 DEF AcquireLk
  <2>1. lk' \in [Mutexes -> Procs \cup {None}]
    BY DEF Typed
  <2> QED
    BY <1>7, <2>1 DEF AcquireLk, Goto, Typed, Labels, CPUs, cpuVars
<1>8. ASSUME NEW c \in CPUs, TakeMutex(c) PROVE Typed'
  <2> PICK p \in Procs : /\ Runs(c, p, "test")
                         /\ locks_held' = [locks_held EXCEPT ![p] = Append(@, PageOf[arg[p]])]
                         /\ locked' = [locked EXCEPT ![arg[p]] = 1]
                         /\ pid' = [pid EXCEPT ![arg[p]] = p]
                         /\ lk' = [lk EXCEPT ![arg[p]] = None]
    BY <1>8 DEF TakeMutex
  <2>1. arg[p] \in Mutexes
    BY DEF Runs, Waiting
  <2>2. PageOf[arg[p]] \in Chans /\ locks_held[p] \in Seq(Chans)
    BY <2>1 DEF Chans, Typed
  <2>3. Append(locks_held[p], PageOf[arg[p]]) \in Seq(Chans)
    BY <2>2
  <2>4. locks_held' \in [Procs -> Seq(Chans)]
    BY <2>3 DEF Typed
  <2>5. /\ locked' \in [Mutexes -> {0, 1}]
        /\ pid' \in [Mutexes -> Procs \cup {None}] /\ lk' \in [Mutexes -> Procs \cup {None}]
    BY <2>1 DEF Typed
  <2> QED
    BY <1>8, <2>4, <2>5 DEF TakeMutex, Goto, Typed, Labels, CPUs, cpuVars
<1>9. ASSUME NEW c \in CPUs, Sleep(c) PROVE Typed'
  <2> PICK p \in Procs : /\ Runs(c, p, "test")
                         /\ chan' = [chan EXCEPT ![p] = PageOf[arg[p]]]
                         /\ lk' = [lk EXCEPT ![arg[p]] = None]
    BY <1>9 DEF Sleep
  <2>1. PageOf[arg[p]] \in Chans
    BY DEF Runs, Waiting, Chans
  <2>2. chan' \in [Procs -> Chans \cup {None}]
    BY <2>1 DEF Typed
  <2>3. lk' \in [Mutexes -> Procs \cup {None}]
    BY DEF Typed
  <2> QED
    BY <1>9, <2>2, <2>3 DEF Sleep, SchedFrom, Goto, Typed, States, Labels, CPUs
<1>10. ASSUME NEW c \in CPUs, NEW m \in Mutexes, MReleaseCall(c, m) PROVE Typed'
  BY <1>10 DEF MReleaseCall, Goto, Typed, Labels, CPUs, mutexVars, cpuVars
<1>11. ASSUME NEW c \in CPUs, ClearMutex(c) PROVE Typed'
  <2> PICK p \in Procs :
        /\ locks_held' = [locks_held EXCEPT ![p] = Drop(@, PageOf[arg[p]])]
        /\ locked' = [locked EXCEPT ![arg[p]] = 0]
        /\ pid' = [pid EXCEPT ![arg[p]] = None]
        /\ lk' = [lk EXCEPT ![arg[p]] = p]
    BY <1>11 DEF ClearMutex
  <2>1. locks_held[p] \in Seq(Chans)
    BY DEF Typed
  <2>2. Drop(locks_held[p], PageOf[arg[p]]) \in Seq(Chans)
    BY <2>1, DropSeq
  <2>3. locks_held' \in [Procs -> Seq(Chans)]
    BY <2>2 DEF Typed
  <2>4. /\ locked' \in [Mutexes -> {0, 1}]
        /\ pid' \in [Mutexes -> Procs \cup {None}] /\ lk' \in [Mutexes -> Procs \cup {None}]
    BY DEF Typed
  <2> QED
    BY <1>11, <2>3, <2>4 DEF ClearMutex, Goto, Typed, Labels, CPUs, cpuVars
<1>12. ASSUME NEW c \in CPUs, Wakeup(c) PROVE Typed'
  <2> PICK p \in Procs :
        /\ state' = [q \in Procs |-> IF state[q] = "SLEEPING" /\ chan[q] = PageOf[arg[p]]
                                     THEN "RUNNABLE" ELSE state[q]]
        /\ lk' = [lk EXCEPT ![arg[p]] = None]
    BY <1>12 DEF Wakeup
  <2>1. state' \in [Procs -> States] /\ lk' \in [Mutexes -> Procs \cup {None}]
    BY DEF Typed, States
  <2> QED
    BY <1>12, <2>1 DEF Wakeup, Goto, Typed, Labels, CPUs, cpuVars
<1> QED
  BY <1>1, <1>2, <1>3, <1>4, <1>5, <1>6, <1>7, <1>8, <1>9, <1>10, <1>11, <1>12
  DEF Next, Progress

\* The process a CPU runs is running, so it does not sleep.
LEMMA OnCpu ==
  ASSUME Running, NEW c \in CPUs, NEW p \in Procs, proc[c] = p
  PROVE  state[p] = "RUNNING"
BY NoneIsNothing DEF Running

\* Every step keeps each running process on one CPU: the scan takes a runnable one.
LEMMA RunningNext == Typed /\ Running /\ [Next]_vars => Running'
<1> SUFFICES ASSUME Typed, Running, [Next]_vars PROVE Running'
  OBVIOUS
<1>0. ASSUME UNCHANGED <<state, proc, ncpu>> PROVE Running'
  BY <1>0 DEF Running, CPUs
<1>1. CASE UNCHANGED vars
  BY <1>0, <1>1 DEF vars, procVars, cpuVars
<1>2. ASSUME NEW c \in CPUs, Dispatch(c) PROVE Running'
  <2> DEFINE p == Min(Candidates(pos[c]))
  <2>1. p \in Procs /\ state[p] = "RUNNABLE"
    BY <1>2, Chosen DEF Dispatch
  <2> HIDE DEF p
  <2>2. /\ proc[c] = None /\ proc' = [proc EXCEPT ![c] = p] /\ CPUs' = CPUs
        /\ state' = [state EXCEPT ![p] = "RUNNING"]
    BY <1>2 DEF Dispatch, Scanning, CPUs, p
  <2>3. \A d \in CPUs : proc[d] # p
    BY <2>1, OnCpu
  <2>4. p # None /\ proc \in [CPUs -> Procs \cup {None}] /\ state \in [Procs -> States]
    BY <2>1, NoneIsNothing DEF Typed
  <2>5. \A d \in CPUs : proc'[d] = IF d = c THEN p ELSE proc[d]
    BY <2>2, <2>4
  <2>6. \A q \in Procs : state'[q] = IF q = p THEN "RUNNING" ELSE state[q]
    BY <2>2, <2>4
  <2>7. \A d \in CPUs : proc'[d] # None => state'[proc'[d]] = "RUNNING"
    <3>1. \A d \in CPUs : d # c /\ proc[d] # None => proc[d] \in Procs /\ state[proc[d]] = "RUNNING"
      BY <2>4 DEF Running
    <3> QED
      BY <2>1, <2>5, <2>6, <3>1
  <2>8. \A q \in Procs : state'[q] = "RUNNING" => \E d \in CPUs : proc'[d] = q
    <3>1. \A q \in Procs : state[q] = "RUNNING" => \E d \in CPUs : d # c /\ proc[d] = q
      BY <2>2, NoneIsNothing DEF Running
    <3> QED
      BY <2>5, <2>6, <3>1
  <2>9. \A d, e \in CPUs : proc'[d] = proc'[e] /\ proc'[d] # None => d = e
    BY <2>3, <2>5 DEF Running
  <2> QED
    BY <2>2, <2>7, <2>8, <2>9 DEF Running
<1>3. ASSUME NEW c \in CPUs, NEW p \in Procs, SchedFrom(c, p), NEW s,
             s # "RUNNING", state' = [state EXCEPT ![p] = s]
      PROVE  Running'
  <2>1. /\ proc[c] = p /\ proc' = [proc EXCEPT ![c] = None] /\ CPUs' = CPUs
        /\ p # None /\ proc \in [CPUs -> Procs \cup {None}] /\ state \in [Procs -> States]
    BY <1>3, NoneIsNothing DEF SchedFrom, Typed, CPUs
  <2>2. \A d \in CPUs : proc'[d] = IF d = c THEN None ELSE proc[d]
    BY <2>1
  <2>3. \A q \in Procs : state'[q] = IF q = p THEN s ELSE state[q]
    BY <1>3, <2>1
  <2> QED
    BY <1>3, <2>1, <2>2, <2>3 DEF Running
<1>4. ASSUME NEW c \in CPUs, Yield(c) PROVE Running'
  BY <1>3, <1>4 DEF Yield
<1>5. ASSUME NEW c \in CPUs, Sleep(c) PROVE Running'
  BY <1>3, <1>5 DEF Sleep
<1>6. ASSUME NEW c \in CPUs, Wakeup(c) PROVE Running'
  <2>1. \A q \in Procs : state'[q] = "RUNNING" <=> state[q] = "RUNNING"
    BY <1>6 DEF Wakeup
  <2>2. UNCHANGED <<proc, ncpu>>
    BY <1>6 DEF Wakeup, cpuVars
  <2> QED
    BY <2>1, <2>2 DEF Running, Typed, CPUs
<1>7. ASSUME NEW c \in CPUs, EndPass(c) \/ Nice(c) \/ MAcquireCall(c) \/ AcquireLk(c)
                             \/ TakeMutex(c) \/ ClearMutex(c)
                             \/ \E m \in Mutexes : MReleaseCall(c, m)
      PROVE  Running'
  BY <1>0, <1>7 DEF EndPass, Nice, MAcquireCall, AcquireLk, TakeMutex, ClearMutex,
                    MReleaseCall, cpuVars
<1> QED
  BY <1>1, <1>2, <1>4, <1>5, <1>6, <1>7 DEF Next, Progress

\* A mutex has an owner exactly while it is locked.
LEMMA OwningNext == Typed /\ Owning /\ [Next]_vars => Owning'
<1> SUFFICES ASSUME Typed, Owning, [Next]_vars PROVE Owning'
  OBVIOUS
<1>1. CASE UNCHANGED <<locked, pid>>
  BY <1>1 DEF Owning
<1>2. ASSUME NEW c \in CPUs, TakeMutex(c) PROVE Owning'
  <2> PICK p \in Procs : /\ locked' = [locked EXCEPT ![arg[p]] = 1]
                         /\ pid' = [pid EXCEPT ![arg[p]] = p]
    BY <1>2 DEF TakeMutex
  <2> QED
    BY NoneIsNothing DEF Owning, Typed
<1>3. ASSUME NEW c \in CPUs, ClearMutex(c) PROVE Owning'
  <2> PICK p \in Procs : /\ locked' = [locked EXCEPT ![arg[p]] = 0]
                         /\ pid' = [pid EXCEPT ![arg[p]] = None]
    BY <1>3 DEF ClearMutex
  <2> QED
    BY DEF Owning, Typed
<1> QED
  BY <1>1, <1>2, <1>3
  DEF Next, Progress, vars, mutexVars, Dispatch, EndPass, Yield, Nice, MAcquireCall,
      AcquireLk, Sleep, MReleaseCall, Wakeup

\* A process keeps its mutex while it is in a system call, sleeps only on the
\* channel of that mutex, and stays the owner of a mutex until it has released it.
LEMMA WaitingNext ==
  Typed /\ Running /\ Waiting /\ Owning /\ [Next]_vars => Waiting'
<1> SUFFICES ASSUME Typed, Running, Waiting, Owning, [Next]_vars PROVE Waiting'
  OBVIOUS
<1> USE DEF Runs, Goto
<1>1. CASE UNCHANGED <<state, chan, pc, arg, pid>>
  BY <1>1 DEF Waiting
<1>2. ASSUME NEW c \in CPUs, Dispatch(c) PROVE Waiting'
  <2> DEFINE p == Min(Candidates(pos[c]))
  <2>1. p \in Procs
    BY <1>2, Chosen DEF Dispatch
  <2> HIDE DEF p
  <2>2. /\ state' = [state EXCEPT ![p] = "RUNNING"] /\ chan' = [chan EXCEPT ![p] = None]
        /\ pc' = [pc EXCEPT ![p] = IF @ = "asleep" THEN "acquire" ELSE @]
        /\ UNCHANGED <<arg, pid>>
    BY <1>2 DEF Dispatch, p, mutexVars
  <2>3. \A q \in Procs : q # p => state'[q] = state[q] /\ chan'[q] = chan[q] /\ pc'[q] = pc[q]
    BY <2>1, <2>2 DEF Typed
  <2>4. state'[p] = "RUNNING" /\ pc'[p] = IF pc[p] = "asleep" THEN "acquire" ELSE pc[p]
    BY <2>1, <2>2 DEF Typed
  <2> QED
    BY <2>1, <2>2, <2>3, <2>4 DEF Waiting
<1>3. ASSUME NEW c \in CPUs, Yield(c) PROVE Waiting'
  <2> PICK p \in Procs : /\ state' = [state EXCEPT ![p] = "RUNNABLE"]
                         /\ UNCHANGED <<chan, pc, arg, pid>>
    BY <1>3 DEF Yield, mutexVars
  <2> QED
    BY DEF Waiting, Typed
<1>4. ASSUME NEW c \in CPUs, MAcquireCall(c) PROVE Waiting'
  <2> PICK p \in Procs, m \in Mutexes :
        /\ proc[c] = p /\ arg' = [arg EXCEPT ![p] = m] /\ pc' = [pc EXCEPT ![p] = "acquire"]
        /\ UNCHANGED <<state, chan, pid>>
    BY <1>4 DEF MAcquireCall, mutexVars
  <2>1. state[p] = "RUNNING"
    BY OnCpu
  <2> QED
    BY <2>1 DEF Waiting, Typed
<1>5. ASSUME NEW c \in CPUs, AcquireLk(c) PROVE Waiting'
  <2> PICK p \in Procs : /\ proc[c] = p /\ pc[p] = "acquire" /\ pc' = [pc EXCEPT ![p] = "test"]
                         /\ UNCHANGED <<state, chan, arg, pid>>
    BY <1>5 DEF AcquireLk
  <2>1. state[p] = "RUNNING"
    BY OnCpu
  <2> QED
    BY <2>1 DEF Waiting, Typed
<1>6. ASSUME NEW c \in CPUs, TakeMutex(c) PROVE Waiting'
  <2> PICK p \in Procs :
        /\ proc[c] = p /\ pc[p] = "test" /\ locked[arg[p]] = 0
        /\ pid' = [pid EXCEPT ![arg[p]] = p]
        /\ arg' = [arg EXCEPT ![p] = None] /\ pc' = [pc EXCEPT ![p] = "user"]
        /\ UNCHANGED <<state, chan>>
    BY <1>6 DEF TakeMutex
  <2>1. state[p] = "RUNNING" /\ arg[p] \in Mutexes /\ pid[arg[p]] = None
    BY OnCpu DEF Waiting, Owning
  <2>2. \A q \in Procs : q # p => arg'[q] = arg[q] /\ pc'[q] = pc[q]
    BY DEF Typed
  <2>3. pc'[p] = "user"
    BY DEF Typed
  <2>4. \A m \in Mutexes : m # arg[p] => pid'[m] = pid[m]
    BY DEF Typed
  <2>5. \A q \in Procs : pc[q] = "release" => arg[q] \in Mutexes /\ arg[q] # arg[p]
    BY <2>1, NoneIsNothing DEF Waiting
  <2> QED
    BY <2>1, <2>2, <2>3, <2>4, <2>5 DEF Waiting
<1>7. ASSUME NEW c \in CPUs, Sleep(c) PROVE Waiting'
  <2> PICK p \in Procs :
        /\ pc[p] = "test"
        /\ chan' = [chan EXCEPT ![p] = PageOf[arg[p]]]
        /\ state' = [state EXCEPT ![p] = "SLEEPING"] /\ pc' = [pc EXCEPT ![p] = "asleep"]
        /\ UNCHANGED <<arg, pid>>
    BY <1>7 DEF Sleep
  <2> QED
    BY DEF Waiting, Typed
<1>8. ASSUME NEW c \in CPUs, NEW m \in Mutexes, MReleaseCall(c, m) PROVE Waiting'
  <2> PICK p \in Procs :
        /\ proc[c] = p /\ pid[m] = p
        /\ arg' = [arg EXCEPT ![p] = m] /\ pc' = [pc EXCEPT ![p] = "release"]
        /\ UNCHANGED <<state, chan, pid>>
    BY <1>8 DEF MReleaseCall, mutexVars
  <2>1. state[p] = "RUNNING"
    BY OnCpu
  <2> QED
    BY <2>1 DEF Waiting, Typed
<1>9. ASSUME NEW c \in CPUs, ClearMutex(c) PROVE Waiting'
  <2> PICK p \in Procs :
        /\ proc[c] = p /\ pc[p] = "release"
        /\ pid' = [pid EXCEPT ![arg[p]] = None] /\ pc' = [pc EXCEPT ![p] = "wake"]
        /\ UNCHANGED <<state, chan, arg>>
    BY <1>9 DEF ClearMutex
  <2>1. state[p] = "RUNNING" /\ arg[p] \in Mutexes /\ pid[arg[p]] = p
    BY OnCpu DEF Waiting
  <2>2. \A q \in Procs : q # p => pc'[q] = pc[q]
    BY DEF Typed
  <2>3. pc'[p] = "wake"
    BY DEF Typed
  <2>4. \A m \in Mutexes : m # arg[p] => pid'[m] = pid[m]
    BY DEF Typed
  <2>5. \A q \in Procs : q # p /\ pc[q] = "release" => arg[q] \in Mutexes /\ arg[q] # arg[p]
    BY <2>1 DEF Waiting
  <2> QED
    BY <2>1, <2>2, <2>3, <2>4, <2>5 DEF Waiting
<1>10. ASSUME NEW c \in CPUs, Wakeup(c) PROVE Waiting'
  <2> PICK p \in Procs :
        /\ proc[c] = p
        /\ state' = [q \in Procs |-> IF state[q] = "SLEEPING" /\ chan[q] = PageOf[arg[p]]
                                     THEN "RUNNABLE" ELSE state[q]]
        /\ arg' = [arg EXCEPT ![p] = None] /\ pc' = [pc EXCEPT ![p] = "user"]
        /\ UNCHANGED <<chan, pid>>
    BY <1>10 DEF Wakeup
  <2>1. state[p] = "RUNNING"
    BY OnCpu
  <2>2. \A q \in Procs : state'[q] = "SLEEPING" => state[q] = "SLEEPING"
    OBVIOUS
  <2>3. \A q \in Procs : q # p => arg'[q] = arg[q] /\ pc'[q] = pc[q]
    BY DEF Typed
  <2>4. pc'[p] = "user"
    BY DEF Typed
  <2> QED
    BY <2>1, <2>2, <2>3, <2>4 DEF Waiting
<1> QED
  BY <1>1, <1>2, <1>3, <1>4, <1>5, <1>6, <1>7, <1>8, <1>9, <1>10
  DEF Next, Progress, vars, procVars, mutexVars, EndPass, Nice

\* No step loses a wakeup: a process goes to sleep while the mutex is locked, the
\* one that unlocks it is the one that calls wakeup, and that wakes every sleeper of
\* the channel.
LEMMA NoMissedNext ==
  Typed /\ Running /\ Waiting /\ NoMissedWakeup /\ [Next]_vars => NoMissedWakeup'
<1> SUFFICES ASSUME Typed, Running, Waiting, NoMissedWakeup, [Next]_vars
             PROVE  NoMissedWakeup'
  OBVIOUS
<1> USE DEF Runs, Goto
<1>1. CASE UNCHANGED <<state, chan, pc, arg, locked>>
  BY <1>1 DEF NoMissedWakeup
<1>2. ASSUME NEW c \in CPUs, Dispatch(c) PROVE NoMissedWakeup'
  <2> DEFINE p == Min(Candidates(pos[c]))
  <2>1. p \in Procs
    BY <1>2, Chosen DEF Dispatch
  <2> HIDE DEF p
  <2>2. /\ state' = [state EXCEPT ![p] = "RUNNING"] /\ chan' = [chan EXCEPT ![p] = None]
        /\ pc' = [pc EXCEPT ![p] = IF @ = "asleep" THEN "acquire" ELSE @]
        /\ UNCHANGED <<arg, locked>>
    BY <1>2 DEF Dispatch, p, mutexVars
  <2>3. \A q \in Procs : state'[q] = "SLEEPING" => state[q] = "SLEEPING" /\ chan'[q] = chan[q]
    BY <2>1, <2>2 DEF Typed
  <2>4. \A r \in Procs : pc[r] = "wake" => pc'[r] = "wake"
    BY <2>1, <2>2 DEF Typed
  <2> QED
    BY <2>2, <2>3, <2>4 DEF NoMissedWakeup
<1>3. ASSUME NEW c \in CPUs, Yield(c) PROVE NoMissedWakeup'
  <2> PICK p \in Procs : /\ state' = [state EXCEPT ![p] = "RUNNABLE"]
                         /\ UNCHANGED <<chan, pc, arg, locked>>
    BY <1>3 DEF Yield, mutexVars
  <2> QED
    BY DEF NoMissedWakeup, Typed
<1>4. ASSUME NEW c \in CPUs, NEW p \in Procs, proc[c] = p, pc[p] # "wake",
             UNCHANGED <<state, chan>>,
             \A m \in Mutexes : locked[m] = 1 => locked'[m] = 1,
             \A q \in Procs : q # p => arg'[q] = arg[q] /\ pc'[q] = pc[q]
      PROVE  NoMissedWakeup'
  <2>1. state[p] = "RUNNING"
    BY <1>4, OnCpu
  <2>2. \A q \in Procs : state[q] = "SLEEPING" => arg[q] \in Mutexes
    BY DEF Waiting
  <2> QED
    BY <1>4, <2>1, <2>2 DEF NoMissedWakeup
<1>5. ASSUME NEW c \in CPUs,
             MAcquireCall(c) \/ AcquireLk(c) \/ \E m \in Mutexes : MReleaseCall(c, m)
      PROVE  NoMissedWakeup'
  <2> PICK p \in Procs :
        /\ proc[c] = p /\ pc[p] \in {"user", "acquire"} /\ UNCHANGED <<state, chan, locked>>
        /\ \E a : arg' = [arg EXCEPT ![p] = a] \/ arg' = arg
        /\ \E l : pc' = [pc EXCEPT ![p] = l]
    BY <1>5 DEF MAcquireCall, AcquireLk, MReleaseCall, mutexVars
  <2>1. \A q \in Procs : q # p => arg'[q] = arg[q] /\ pc'[q] = pc[q]
    BY DEF Typed
  <2> QED
    BY <1>4, <2>1
<1>6. ASSUME NEW c \in CPUs, TakeMutex(c) PROVE NoMissedWakeup'
  <2> PICK p \in Procs :
        /\ proc[c] = p /\ pc[p] = "test" /\ locked' = [locked EXCEPT ![arg[p]] = 1]
        /\ arg' = [arg EXCEPT ![p] = None] /\ pc' = [pc EXCEPT ![p] = "user"]
        /\ UNCHANGED <<state, chan>>
    BY <1>6 DEF TakeMutex
  <2>1. \A m \in Mutexes : locked[m] = 1 => locked'[m] = 1
    BY DEF Typed
  <2>2. \A q \in Procs : q # p => arg'[q] = arg[q] /\ pc'[q] = pc[q]
    BY DEF Typed
  <2> QED
    BY <1>4, <2>1, <2>2
<1>7. ASSUME NEW c \in CPUs, Sleep(c) PROVE NoMissedWakeup'
  <2> PICK p \in Procs :
        /\ pc[p] = "test" /\ locked[arg[p]] # 0
        /\ chan' = [chan EXCEPT ![p] = PageOf[arg[p]]]
        /\ state' = [state EXCEPT ![p] = "SLEEPING"] /\ pc' = [pc EXCEPT ![p] = "asleep"]
        /\ UNCHANGED <<arg, locked>>
    BY <1>7 DEF Sleep
  <2>1. locked[arg[p]] = 1
    BY DEF Waiting, Typed
  <2>2. \A q \in Procs : q # p => state'[q] = state[q] /\ chan'[q] = chan[q] /\ pc'[q] = pc[q]
    BY DEF Typed
  <2> QED
    BY <2>1, <2>2 DEF NoMissedWakeup
<1>8. ASSUME NEW c \in CPUs, ClearMutex(c) PROVE NoMissedWakeup'
  <2> PICK p \in Procs :
        /\ pc[p] = "release"
        /\ locked' = [locked EXCEPT ![arg[p]] = 0] /\ pc' = [pc EXCEPT ![p] = "wake"]
        /\ UNCHANGED <<state, chan, arg>>
    BY <1>8 DEF ClearMutex
  <2>1. pc'[p] = "wake" /\ \A q \in Procs : pc[q] = "wake" => pc'[q] = "wake"
    BY DEF Typed
  <2>2. \A m \in Mutexes : m # arg[p] => locked'[m] = locked[m]
    BY DEF Typed
  <2>3. \A q \in Procs : state[q] = "SLEEPING" => arg[q] \in Mutexes /\ chan[q] = PageOf[arg[q]]
    BY DEF Waiting
  <2> QED
    BY <2>1, <2>2, <2>3 DEF NoMissedWakeup
<1>9. ASSUME NEW c \in CPUs, Wakeup(c) PROVE NoMissedWakeup'
  <2> PICK p \in Procs :
        /\ proc[c] = p
        /\ state' = [q \in Procs |-> IF state[q] = "SLEEPING" /\ chan[q] = PageOf[arg[p]]
                                     THEN "RUNNABLE" ELSE state[q]]
        /\ arg' = [arg EXCEPT ![p] = None] /\ pc' = [pc EXCEPT ![p] = "user"]
        /\ UNCHANGED <<chan, locked>>
    BY <1>9 DEF Wakeup
  <2>1. state[p] = "RUNNING"
    BY OnCpu
  <2>2. \A q \in Procs : state'[q] = "SLEEPING" =>
           state[q] = "SLEEPING" /\ chan[q] # PageOf[arg[p]]
    OBVIOUS
  <2>3. \A q \in Procs : q # p => arg'[q] = arg[q] /\ pc'[q] = pc[q]
    BY DEF Typed
  <2> QED
    BY <2>1, <2>2, <2>3 DEF NoMissedWakeup
<1> QED
  BY <1>1, <1>2, <1>3, <1>5, <1>6, <1>7, <1>8, <1>9
  DEF Next, Progress, vars, procVars, mutexVars, EndPass, Nice

\* The invariant is inductive, so it holds throughout.
LEMMA Invariant == Spec => []IInv
<1>1. IInv /\ [Next]_vars => IInv'
  BY TypedNext, RunningNext, WaitingNext, OwningNext, NoMissedNext DEF IInv
<1> QED
  BY InitIInv, <1>1, PTL DEF Spec

(***************************************************************************)
(* A process is RUNNING exactly when one CPU runs it (scheduler and sched, *)
(* which set proc->state and c->proc together under ptable.lock).          *)
(***************************************************************************)
THEOREM NeverTwice == Spec => []OneCpuEach
<1>1. IInv => OneCpuEach
  <2> SUFFICES ASSUME Running, NEW p \in Procs
               PROVE  Cardinality({c \in CPUs : proc[c] = p}) =
                        IF state[p] = "RUNNING" THEN 1 ELSE 0
    BY DEF IInv, OneCpuEach
  <2>1. CASE state[p] = "RUNNING"
    <3> PICK d \in CPUs : proc[d] = p
      BY <2>1 DEF Running
    <3>1. {c \in CPUs : proc[c] = p} = {d}
      BY NoneIsNothing DEF Running
    <3> QED
      BY <2>1, <3>1, FS_Singleton
  <2>2. CASE state[p] # "RUNNING"
    <3>1. {c \in CPUs : proc[c] = p} = {}
      BY <2>2, OnCpu
    <3> QED
      BY <2>2, <3>1, FS_EmptySet
  <2> QED
    BY <2>1, <2>2
<1> QED
  BY Invariant, <1>1, PTL

(***************************************************************************)
(* No wakeup of a mutex's sleepers is lost (sleep takes ptable.lock before *)
(* it releases lk, and mrelease calls wakeup with lk held).                *)
(***************************************************************************)
THEOREM WakeupsReach == Spec => []NoMissedWakeup
BY Invariant, PTL DEF IInv

-----------------------------------------------------------------------------
(* locks_held, when no two mutexes share a page *)

\* Taking a mutex nobody owns adds its page to the list.
LEMMA ListsAppend ==
  ASSUME OwnPages, NEW h \in Seq(Chans), NEW S \in SUBSET Mutexes, Lists(h, S),
         NEW m \in Mutexes, m \notin S
  PROVE  Lists(Append(h, PageOf[m]), S \cup {m})
<1> DEFINE g == Append(h, PageOf[m])
<1>1. /\ Len(h) \in Nat /\ Len(g) = Len(h) + 1 /\ g[Len(h) + 1] = PageOf[m]
      /\ \A i \in 1 .. Len(h) : g[i] = h[i]
  <2>1. PageOf[m] \in Chans
    BY DEF Chans
  <2> QED
    BY <2>1, AppendProperties, LenProperties
<1> HIDE DEF g
<1>2. \A i \in 1 .. Len(g) : i \in 1 .. Len(h) \/ i = Len(h) + 1
  BY <1>1
<1>3. \A i \in 1 .. Len(h) : i \in 1 .. Len(g) /\ i # Len(h) + 1
  BY <1>1
<1>4. Len(h) + 1 \in 1 .. Len(g)
  BY <1>1
<1>5. \A i \in 1 .. Len(h) : h[i] # PageOf[m]
  BY DEF Lists, OwnPages
<1>6. \A i, j \in 1 .. Len(g) : g[i] = g[j] => i = j
  BY <1>1, <1>2, <1>3, <1>5 DEF Lists
<1>7. \A i \in 1 .. Len(g) : \E n \in S \cup {m} : g[i] = PageOf[n]
  BY <1>1, <1>2 DEF Lists
<1>8. \A n \in S \cup {m} : \E i \in 1 .. Len(g) : g[i] = PageOf[n]
  BY <1>1, <1>3, <1>4 DEF Lists
<1> QED
  BY <1>6, <1>7, <1>8 DEF Lists, g

\* The loop of mrelease takes the page of the mutex off the list.
LEMMA ListsDrop ==
  ASSUME OwnPages, NEW h \in Seq(Chans), NEW S \in SUBSET Mutexes, Lists(h, S),
         NEW m \in S
  PROVE  Lists(Drop(h, PageOf[m]), S \ {m})
<1> DEFINE g == Drop(h, PageOf[m])
           n == Len(h)
<1>1. PICK k \in 1 .. n : h[k] = PageOf[m]
  BY DEF Lists
<1>2. \A j \in 1 .. n : h[j] = h[k] => j = k
  BY DEF Lists
<1>3. n \in Nat
  BY LenProperties
<1>4. Len(g) = n - 1 /\ \A i \in 1 .. n - 1 : g[i] = IF i = k THEN h[n] ELSE h[i]
  BY <1>1, <1>2, DropOnce
<1> HIDE DEF g
\* Entry i of the new list is entry from(i) of the old one.
<1> DEFINE from(i) == IF i = k THEN n ELSE i
<1>5. \A i \in 1 .. Len(g) : from(i) \in 1 .. n /\ from(i) # k /\ g[i] = h[from(i)]
  BY <1>3, <1>4
<1>6. \A i, j \in 1 .. Len(g) : from(i) = from(j) => i = j
  BY <1>3, <1>4
<1>7. \A j \in 1 .. n : j # k => \E i \in 1 .. Len(g) : from(i) = j
  <2> SUFFICES ASSUME NEW j \in 1 .. n, j # k PROVE \E i \in 1 .. Len(g) : from(i) = j
    OBVIOUS
  <2>1. CASE j = n
    <3>1. k \in 1 .. Len(g)
      BY <1>3, <1>4, <2>1
    <3> QED
      BY <2>1, <3>1
  <2>2. CASE j # n
    <3>1. j \in 1 .. Len(g)
      BY SMTT(60), <1>3, <1>4, <2>2
    <3> QED
      BY <3>1
  <2> QED
    BY <2>1, <2>2
<1> HIDE DEF from, n
<1>8. \A i, j \in 1 .. Len(g) : g[i] = g[j] => i = j
  BY <1>5, <1>6 DEF Lists, n
<1>9. \A i \in 1 .. Len(g) : \E x \in S \ {m} : g[i] = PageOf[x]
  <2> SUFFICES ASSUME NEW i \in 1 .. Len(g) PROVE \E x \in S \ {m} : g[i] = PageOf[x]
    OBVIOUS
  <2> PICK x \in S : h[from(i)] = PageOf[x]
    BY <1>5 DEF Lists, n
  <2>1. x # m
    BY <1>1, <1>2, <1>5
  <2> QED
    BY <1>5, <2>1
<1>10. \A x \in S \ {m} : \E i \in 1 .. Len(g) : g[i] = PageOf[x]
  <2> SUFFICES ASSUME NEW x \in S \ {m} PROVE \E i \in 1 .. Len(g) : g[i] = PageOf[x]
    OBVIOUS
  <2> PICK j \in 1 .. n : h[j] = PageOf[x]
    BY DEF Lists, n
  <2>1. j # k
    BY <1>1 DEF OwnPages
  <2> QED
    BY <1>5, <1>7, <2>1
<1> QED
  BY <1>8, <1>9, <1>10 DEF Lists, g

\* Every step keeps locks_held a list of the mutexes owned.
LEMMA ListingNext == OwnPages /\ IInv /\ Listing /\ [Next]_vars => Listing'
<1> SUFFICES ASSUME OwnPages, IInv, Listing, [Next]_vars PROVE Listing'
  OBVIOUS
<1>0. Typed /\ Waiting /\ Owning
  BY DEF IInv
<1>1. CASE UNCHANGED <<locks_held, pid>>
  BY <1>1 DEF Listing, Lists, Owned
<1>2. ASSUME NEW c \in CPUs, TakeMutex(c) PROVE Listing'
  <2> PICK p \in Procs :
        /\ pc[p] = "test" /\ locked[arg[p]] = 0
        /\ pid' = [pid EXCEPT ![arg[p]] = p]
        /\ locks_held' = [locks_held EXCEPT ![p] = Append(@, PageOf[arg[p]])]
    BY <1>2 DEF TakeMutex, Runs
  <2>1. arg[p] \in Mutexes /\ pid[arg[p]] = None /\ locks_held[p] \in Seq(Chans)
    BY <1>0 DEF Waiting, Owning, Typed
  <2>2. Owned(p)' = Owned(p) \cup {arg[p]} /\ arg[p] \notin Owned(p)
    BY <1>0, <2>1, NoneIsNothing DEF Owned, Typed
  <2>3. \A q \in Procs : q # p => Owned(q)' = Owned(q)
    BY <1>0, <2>1, NoneIsNothing DEF Owned, Typed
  <2>4. /\ locks_held'[p] = Append(locks_held[p], PageOf[arg[p]])
        /\ \A q \in Procs : q # p => locks_held'[q] = locks_held[q]
    BY <1>0 DEF Typed
  <2>5. Lists(locks_held'[p], Owned(p)')
    <3>1. Owned(p) \in SUBSET Mutexes /\ Lists(locks_held[p], Owned(p))
      BY DEF Owned, Listing
    <3> QED
      BY <2>1, <2>2, <2>4, <3>1, ListsAppend
  <2>6. \A q \in Procs : Lists(locks_held'[q], Owned(q)')
    BY <2>3, <2>4, <2>5 DEF Listing
  <2> QED
    BY <2>6 DEF Listing, Lists
<1>3. ASSUME NEW c \in CPUs, ClearMutex(c) PROVE Listing'
  <2> PICK p \in Procs :
        /\ pc[p] = "release"
        /\ pid' = [pid EXCEPT ![arg[p]] = None]
        /\ locks_held' = [locks_held EXCEPT ![p] = Drop(@, PageOf[arg[p]])]
    BY <1>3 DEF ClearMutex, Runs
  <2>1. arg[p] \in Mutexes /\ pid[arg[p]] = p /\ locks_held[p] \in Seq(Chans)
    BY <1>0 DEF Waiting, Typed
  <2>2. Owned(p)' = Owned(p) \ {arg[p]} /\ arg[p] \in Owned(p)
    BY <1>0, <2>1, NoneIsNothing DEF Owned, Typed
  <2>3. \A q \in Procs : q # p => Owned(q)' = Owned(q)
    BY <1>0, <2>1, NoneIsNothing DEF Owned, Typed
  <2>4. /\ locks_held'[p] = Drop(locks_held[p], PageOf[arg[p]])
        /\ \A q \in Procs : q # p => locks_held'[q] = locks_held[q]
    BY <1>0 DEF Typed
  <2>5. Lists(locks_held'[p], Owned(p)')
    <3>1. Owned(p) \in SUBSET Mutexes /\ Lists(locks_held[p], Owned(p))
      BY DEF Owned, Listing
    <3>2. Lists(Drop(locks_held[p], PageOf[arg[p]]), Owned(p) \ {arg[p]})
      BY <2>1, <2>2, <3>1, ListsDrop
    <3> QED
      BY <2>2, <2>4, <3>2
  <2>6. \A q \in Procs : Lists(locks_held'[q], Owned(q)')
    BY <2>3, <2>4, <2>5 DEF Listing
  <2> QED
    BY <2>6 DEF Listing, Lists
<1> QED
  BY <1>1, <1>2, <1>3
  DEF Next, Progress, vars, procVars, mutexVars, Dispatch, EndPass, Yield, Nice, MAcquireCall,
      AcquireLk, Sleep, MReleaseCall, Wakeup

\* locks_held lists exactly the mutexes owned, at all times.
LEMMA ListingHolds == ASSUME OwnPages PROVE Spec => []Listing
<1>1. Init => Listing
  <2> SUFFICES ASSUME Init, NEW p \in Procs PROVE Lists(locks_held[p], Owned(p))
    BY DEF Listing
  <2>1. locks_held[p] = << >> /\ Owned(p) = {}
    BY NoneIsNothing DEF Init, Owned
  <2> QED
    BY <2>1 DEF Lists
<1>2. IInv /\ Listing /\ [Next]_vars => Listing'
  BY ListingNext
<1> QED
  BY <1>1, <1>2, Invariant, PTL DEF Spec

\* A list of the pages of S has as many entries as S, and each page in it once.
LEMMA ListsCount ==
  ASSUME OwnPages, NEW h \in Seq(Chans), NEW S \in SUBSET Mutexes, Lists(h, S)
  PROVE  /\ Len(h) = Cardinality(S)
         /\ \A x \in Chans : Cardinality({i \in 1 .. Len(h) : h[i] = x})
                               = Cardinality({m \in S : PageOf[m] = x})
<1> DEFINE n == Len(h)
           mutex(i) == CHOOSE m \in S : h[i] = PageOf[m]
           f == [i \in 1 .. n |-> mutex(i)]
<1>1. n \in Nat
  BY LenProperties
<1>2. \A i \in 1 .. n : mutex(i) \in S /\ h[i] = PageOf[mutex(i)]
  BY DEF Lists
<1> HIDE DEF mutex, n
<1>3. f \in Injection(1 .. n, S)
  <2>1. f \in [1 .. n -> S]
    BY <1>2
  <2>2. \A i, j \in 1 .. n : f[i] = f[j] => i = j
    BY <1>2 DEF Lists, n
  <2> HIDE DEF f
  <2> QED
    BY <2>1, <2>2 DEF Injection, IsInjective
<1>4. f \in Surjection(1 .. n, S)
  <2>1. f \in [1 .. n -> S]
    BY <1>2
  <2>2. \A m \in S : \E i \in 1 .. n : f[i] = m
    <3> SUFFICES ASSUME NEW m \in S PROVE \E i \in 1 .. n : f[i] = m
      OBVIOUS
    <3> PICK i \in 1 .. n : h[i] = PageOf[m]
      BY DEF Lists, n
    <3>1. f[i] \in S /\ PageOf[f[i]] = PageOf[m]
      BY <1>2
    <3> QED
      BY <3>1 DEF OwnPages
  <2> HIDE DEF f
  <2> QED
    BY <2>1, <2>2 DEF Surjection
<1>5. Len(h) = Cardinality(S)
  <2>1. ExistsBijection(1 .. n, S)
    BY <1>3, <1>4 DEF ExistsBijection, Bijection
  <2>2. IsFiniteSet(1 .. n) /\ Cardinality(1 .. n) = n
    BY <1>1, IntervalCount
  <2>3. Cardinality(S) = Cardinality(1 .. n)
    BY <2>1, <2>2, FS_Bijection
  <2> QED
    BY <2>2, <2>3 DEF n
<1>6. ASSUME NEW x \in Chans
      PROVE  Cardinality({i \in 1 .. n : h[i] = x}) = Cardinality({m \in S : PageOf[m] = x})
  <2>1. CASE \E i \in 1 .. n : h[i] = x
    <3> PICK i \in 1 .. n : h[i] = x
      BY <2>1
    <3> PICK m \in S : h[i] = PageOf[m]
      BY DEF Lists, n
    <3>1. {j \in 1 .. n : h[j] = x} = {i}
      BY DEF Lists, n
    <3>2. {k \in S : PageOf[k] = x} = {m}
      BY DEF OwnPages
    <3> QED
      BY <3>1, <3>2, FS_Singleton
  <2>2. CASE ~ \E i \in 1 .. n : h[i] = x
    <3>1. {i \in 1 .. n : h[i] = x} = {} /\ {m \in S : PageOf[m] = x} = {}
      BY <2>2 DEF Lists, n
    <3> QED
      BY <3>1
  <2> QED
    BY <2>1, <2>2
<1> QED
  BY <1>5, <1>6 DEF n

(***************************************************************************)
(* locks_held, from which inherited priorities are computed, lists exactly *)
(* the mutexes the process owns, whatever the order it releases them in    *)
(* (macquire's append and mrelease's removal loop).                        *)
(***************************************************************************)
THEOREM ListAccurate == ASSUME OwnPages PROVE Spec => []LocksHeldAccurate
<1>1. IInv /\ Listing => LocksHeldAccurate
  <2> SUFFICES ASSUME IInv, Listing, NEW p \in Procs
               PROVE  /\ Len(locks_held[p]) = Cardinality(Owned(p))
                      /\ \A x \in Chans :
                           Cardinality({i \in 1 .. Len(locks_held[p]) : locks_held[p][i] = x})
                             = Cardinality({m \in Owned(p) : PageOf[m] = x})
    BY DEF LocksHeldAccurate, Owned
  <2>1. locks_held[p] \in Seq(Chans) /\ Owned(p) \in SUBSET Mutexes
    BY DEF IInv, Typed, Owned
  <2>2. Lists(locks_held[p], Owned(p))
    BY DEF Listing
  <2> QED
    BY <2>1, <2>2, ListsCount
<1> QED
  BY <1>1, Invariant, ListingHolds, PTL

(***************************************************************************)
(* Where there are no more mutexes than locks_held has entries, macquire's *)
(* append, which looks at no bound, never writes past the array, whatever  *)
(* has been acquired and released before.                                  *)
(***************************************************************************)
THEOREM ListFits ==
  ASSUME OwnPages, Cardinality(Mutexes) <= MAXMUTEXLOCKSHELD
  PROVE  Spec => []LocksFit
<1>1. IInv /\ Listing => LocksFit
  <2> SUFFICES ASSUME IInv, Listing, NEW p \in Procs, pc[p] = "test", locked[arg[p]] = 0
               PROVE  Len(locks_held[p]) < MAXMUTEXLOCKSHELD
    BY DEF LocksFit
  <2> DEFINE m == arg[p]
  <2>1. locks_held[p] \in Seq(Chans) /\ Owned(p) \in SUBSET Mutexes
    BY DEF IInv, Typed, Owned
  <2>2. Len(locks_held[p]) = Cardinality(Owned(p))
    BY <2>1, ListsCount DEF Listing
  <2>3. m \in Mutexes /\ pid[m] = None
    BY DEF IInv, Waiting, Owning
  <2>4. Owned(p) \subseteq Mutexes \ {m}
    BY <2>1, <2>3, NoneIsNothing DEF Owned
  <2>5. IsFiniteSet(Mutexes) /\ MAXMUTEXLOCKSHELD \in Nat
    BY SchedulerAssumption
  <2>6. /\ IsFiniteSet(Mutexes \ {m})
        /\ Cardinality(Mutexes \ {m}) = Cardinality(Mutexes) - 1
    BY <2>3, <2>5, FS_RemoveElement
  <2>7. IsFiniteSet(Owned(p)) /\ Cardinality(Owned(p)) <= Cardinality(Mutexes \ {m})
    BY <2>4, <2>6, FS_Subset
  <2>8. Cardinality(Owned(p)) \in Nat /\ Cardinality(Mutexes) \in Nat
    BY <2>5, <2>7, FS_CardinalityType
  <2> QED
    BY <2>2, <2>5, <2>6, <2>7, <2>8
<1> QED
  BY <1>1, Invariant, ListingHolds, PTL

(***************************************************************************)
(* Types, for any number of mutexes, on one page or on several: whatever   *)
(* happens before an append overruns locks_held, nice values keep to their *)
(* range and every index and pointer is one that exists.                   *)
(***************************************************************************)
THEOREM TypeCorrect == Spec => []TypeOK
<1>1. IInv => TypeOK
  BY DEF IInv, Typed, TypeOK, States, Labels
<1> QED
  BY <1>1, Invariant, PTL

-----------------------------------------------------------------------------
(* Priorities *)

\* The priority the scheduler computes from locks_held and the sleepers' channels
\* is the one the process is entitled to.
LEMMA ElevatedIsEntitled ==
  ASSUME OwnPages, IInv, Listing, NEW p \in Procs
  PROVE  Elevated(p) = Entitled(p)
<1>1. ASSUME NEW q \in Procs, state[q] = "SLEEPING"
      PROVE  (\E i \in 1 .. Len(locks_held[p]) : chan[q] = locks_held[p][i]) <=> pid[arg[q]] = p
  <2>1. arg[q] \in Mutexes /\ chan[q] = PageOf[arg[q]]
    BY <1>1 DEF IInv, Waiting
  <2>2. Lists(locks_held[p], Owned(p))
    BY DEF Listing
  <2>3. arg[q] \in Owned(p) <=> pid[arg[q]] = p
    BY <2>1 DEF Owned
  <2>4. \A m \in Owned(p) : PageOf[m] = PageOf[arg[q]] => m = arg[q]
    BY <2>1 DEF OwnPages, Owned
  <2> QED
    BY <2>1, <2>2, <2>3, <2>4 DEF Lists
<1>2. {q \in Procs : /\ state[q] = "SLEEPING"
                     /\ \E i \in 1 .. Len(locks_held[p]) : chan[q] = locks_held[p][i]}
      = {q \in Procs : state[q] = "SLEEPING" /\ pid[arg[q]] = p}
  BY <1>1
<1> QED
  BY <1>2 DEF Elevated, Entitled

\* Elevated priorities are nice values.
LEMMA NiceValues ==
  ASSUME IInv, NEW p \in Procs
  PROVE  Elevated(p) \in MinNice .. MaxNice
<1> DEFINE N == MinNice .. MaxNice
           E == {nice[p]} \cup
                {nice[s] : s \in {s \in Procs : /\ state[s] = "SLEEPING"
                                                /\ \E i \in 1 .. Len(locks_held[p]) :
                                                     chan[s] = locks_held[p][i]}}
<1>1. \A q \in Procs : nice[q] \in N
  BY DEF IInv, Typed
<1>2. E \in SUBSET N /\ E # {}
  BY <1>1
<1>3. Elevated(p) = Min(E)
  BY DEF Elevated
<1> HIDE DEF E
<1>4. E \in SUBSET Int /\ MinNice \in Int /\ \A x \in E : MinNice <= x
  BY <1>2, SchedulerAssumption
<1>5. Min(E) \in E
  BY <1>2, <1>4, MinExists
<1> QED
  BY <1>2, <1>3, <1>5

\* findminnice is at most the priority of each runnable process.
LEMMA MinNiceBound ==
  ASSUME IInv
  PROVE  /\ findminnice \in Int
         /\ \A q \in Procs : state[q] = "RUNNABLE" => findminnice <= Elevated(q)
<1> DEFINE M == {MaxNice} \cup {Elevated(p) : p \in {p \in Procs : state[p] = "RUNNABLE"}}
<1>1. \A p \in Procs : Elevated(p) \in MinNice .. MaxNice
  BY NiceValues
<1>2. MaxNice \in MinNice .. MaxNice
  BY SchedulerAssumption
<1>3. M \in SUBSET (MinNice .. MaxNice) /\ M # {}
  BY <1>1, <1>2
<1>4. \A q \in Procs : state[q] = "RUNNABLE" => Elevated(q) \in M
  OBVIOUS
<1>5. findminnice = Min(M)
  BY DEF findminnice
<1> HIDE DEF M
<1>6. M \in SUBSET Int /\ MinNice \in Int /\ \A x \in M : MinNice <= x
  BY <1>3, SchedulerAssumption
<1>7. Min(M) \in M /\ \A y \in M : Min(M) <= y
  BY <1>3, <1>6, MinExists
<1> QED
  BY <1>4, <1>5, <1>6, <1>7

(***************************************************************************)
(* Whenever a CPU switches to a process, no runnable process is entitled   *)
(* to a better priority (scheduler, findminnice and the inheritance loop). *)
(***************************************************************************)
THEOREM BestRuns == ASSUME OwnPages PROVE Spec => MinNiceRuns
<1> DEFINE Best == \A c \in CPUs : proc[c] = None /\ proc'[c] # None =>
             \A q \in Procs : state[q] = "RUNNABLE" => Entitled(proc'[c]) <= Entitled(q)
<1>1. ASSUME IInv, Listing, [Next]_vars PROVE [Best]_vars
  <2> SUFFICES ASSUME NEW c \in CPUs, proc[c] = None, proc'[c] # None,
                      NEW q \in Procs, state[q] = "RUNNABLE"
               PROVE  Entitled(proc'[c]) <= Entitled(q)
    OBVIOUS
  <2>1. proc \in [CPUs -> Procs \cup {None}] /\ Typed
    BY <1>1 DEF IInv, Typed
  <2>2. ASSUME NEW d \in CPUs, Yield(d) \/ Sleep(d) PROVE FALSE
    <3>1. proc' = [proc EXCEPT ![d] = None]
      BY <2>2 DEF Yield, Sleep, SchedFrom
    <3> QED
      BY <2>1, <3>1
  <2>3. PICK d \in CPUs : Dispatch(d)
    BY <1>1, <2>2
    DEF Next, Progress, vars, cpuVars, EndPass, Nice, MAcquireCall, AcquireLk, TakeMutex,
        ClearMutex, Wakeup, MReleaseCall
  <2> DEFINE p == Min(Candidates(pos[d]))
  <2>4. p \in Procs /\ Elevated(p) <= findminnice /\ proc' = [proc EXCEPT ![d] = p]
    BY <2>1, <2>3, Chosen DEF Dispatch
  <2> HIDE DEF p
  <2>5. proc'[c] = p
    BY <2>1, <2>4
  <2>6. findminnice <= Elevated(q) /\ findminnice \in Int
    BY <1>1, MinNiceBound
  <2>7. Elevated(p) = Entitled(p) /\ Elevated(q) = Entitled(q)
    BY <1>1, <2>4, ElevatedIsEntitled
  <2>8. Elevated(p) \in Int /\ Elevated(q) \in Int
    BY <1>1, <2>4, NiceValues
  <2> QED
    BY <2>4, <2>5, <2>6, <2>7, <2>8
<1> QED
  BY <1>1, Invariant, ListingHolds, PTL DEF Spec, MinNiceRuns
=============================================================================

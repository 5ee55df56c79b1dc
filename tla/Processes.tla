----------------------------- MODULE Processes ------------------------------
(***************************************************************************)
(* The life of p5's processes and threads (proc.c, exec.c, sysproc.c): fork *)
(* and clone, exec, sbrk, exit, wait, kill, and sleep for a number of      *)
(* ticks.  A RUNNABLE process may take a step at any time; which one the   *)
(* CPUs give a turn to is module Scheduler.  What the code does under one  *)
(* hold of ptable.lock is one step.                                        *)
(***************************************************************************)
EXTENDS PathCalls

CONSTANT Programs              \* Programs[n]: the program in the file of name n

VARIABLE ticks                 \* modulo WORD

allVars == <<proc, diskVars, vm, fileVars, ticks>>

initproc == 1

UnusedProc == [state |-> "UNUSED", parent |-> 0, killed |-> FALSE, chan |-> NoChan,
               sleepticks |-> -1, pg |-> 0, sz |-> 0, ofile |-> [fd \in Fds |-> 0], cwd |-> 0,
               todo |-> << >>, prog |-> << >>, ret |-> "any", alt |-> << >>, pv |-> <<NOFILE, NOFILE>>]

Unused == {s \in Procs : proc[s].state = "UNUSED"}

-----------------------------------------------------------------------------
(* fork and clone *)

\* allocproc: a slot and a kernel stack.
allocproc(p, c, next) ==
  /\ Calls(p, c)
  /\ \/ /\ Unused = {} \/ vm.free = 0
        /\ proc' = Fail(Enter(p, << >>), p)
        /\ UNCHANGED vm
     \/ /\ Unused # {} /\ vm.free > 0
        /\ LET np == Min(Unused) IN
             proc' = [Enter(p, <<St(next, 0, [np |-> np, prog |-> Call(p).a])>>)
                        EXCEPT ![np].state = "EMBRYO", ![np].sleepticks = -1, ![np].chan = NoChan]
        /\ vm' = kalloc(vm, 1)
  /\ UNCHANGED <<diskVars, fileVars, ticks>>

\* What fork and clone have in common at their end: the child gets p's files and
\* directory and becomes RUNNABLE.  P is the process table before.
Launch(P, p, np, pg, sz, prog) ==
  /\ proc' = [Go(P, p, << >>) EXCEPT ![np] =
                [@ EXCEPT !.state = "RUNNABLE", !.pg = pg, !.sz = sz, !.parent = p,
                          !.ofile = P[p].ofile, !.cwd = P[p].cwd, !.prog = prog,
                          !.pv = P[p].pv]]
  /\ file' = [f \in Files |-> [file[f] EXCEPT !.ref =
                @ + Cardinality({fd \in Fds : P[p].ofile[fd] = f})]]
  /\ ino' = iget(ino, P[p].cwd)

sys_fork(p) == allocproc(p, "fork", "fork")

\* copyuvm and the rest of fork; without memory the slot is given back.
Fork(p) ==
  /\ At(p, "fork")
  /\ LET np == Top(p).x.np  sz == proc[p].sz IN
       \/ /\ vm.free < 1 + sz
          /\ vm' = kfree(vm, 1)
          /\ proc' = Fail([Go(proc, p, << >>) EXCEPT ![np].state = "UNUSED"], p)
          /\ UNCHANGED <<ino, file>>
       \/ /\ vm.free >= 1 + sz
          /\ vm' = NewSpace(vm, sz)
          /\ Launch(proc, p, np, FreshSpace(vm), sz, Top(p).x.prog)
  /\ UNCHANGED <<bits, wrote, pipe, cons, lock, stream, ticks>>

sys_clone(p) == allocproc(p, "clone", "clone1")

\* clone looks its address space up in uvmrefcount, without a lock: entry i and the
\* count it has read, or the free entry it is going to use.
Clone1(p) ==
  /\ At(p, "clone1")
  /\ LET np == Top(p).x.np  d == proc[p].pg
         found == locate_uvmrefcount(vm, d)
         i == IF found # {} THEN Min(found) ELSE Min(allocate_uvmrefcount(vm))
     IN  proc' = [Go(proc, p, <<St("clone2", 0, Top(p).x @@ [i |-> i, old |-> vm.uvm[i]])>>)
                     EXCEPT ![np].pg = d]
  /\ UNCHANGED <<diskVars, vm, fileVars, ticks>>

\* Mutant: the thread is not counted when the address space already has an entry.
CountedNot(old, d) == IF old.refcount = -1 THEN [refcount |-> 2, pgdir |-> d] ELSE old
Counted(old, d) == [refcount |-> IF old.refcount = -1 THEN 2 ELSE old.refcount + 1,
                    pgdir |-> d]

\* ... and writes it; raced says that the entry had changed in between.
Clone2(p) ==
  /\ At(p, "clone2")
  /\ LET x == Top(p).x IN
       /\ vm' = [vm EXCEPT !.uvm[x.i] = Counted(x.old, proc[p].pg),
                           !.raced = @ \/ vm.uvm[x.i] # x.old]
       /\ Launch(proc, p, x.np, proc[p].pg, proc[p].sz, x.prog)
  /\ UNCHANGED <<bits, wrote, pipe, cons, lock, stream, ticks>>

-----------------------------------------------------------------------------
(* exit, wait and kill *)

\* The program has ended or has been killed (trap calls exit on the way to and from
\* a system call).
Exit(p) ==
  /\ proc[p].state = "RUNNABLE" /\ proc[p].todo = << >> /\ p # initproc
  /\ proc[p].killed \/ proc[p].prog = << >>
  /\ LET fds == SelectSeq([j \in 1 .. NOFILE |-> j - 1], LAMBDA fd : proc[p].ofile[fd] # 0) IN
       proc' = [proc EXCEPT
                  ![p].todo = [j \in DOMAIN fds |-> St("close", 0, fds[j])]
                              \o <<iput(proc[p].cwd), end_op, St("die", 0, 0)>>,
                  ![p].cwd = 0]
  /\ UNCHANGED <<diskVars, vm, fileVars, ticks>>

\* Mutant: a zombie passed to init does not wake it.
AdoptedQuietly(P, p) == P
Adopted(P, p) == IF \E s \in Procs : P[s].parent = p /\ P[s].state = "ZOMBIE"
                 THEN Wakeup(P, <<"wait", initproc>>) ELSE P

\* The last part of exit.
Die(p) ==
  /\ At(p, "die")
  /\ LET woken == Adopted(Wakeup(proc, <<"wait", proc[p].parent>>), p)
         given == [s \in Procs |-> IF woken[s].parent = p
                                   THEN [woken[s] EXCEPT !.parent = initproc] ELSE woken[s]]
     IN  proc' = [given EXCEPT ![p].state = "ZOMBIE", ![p].todo = << >>, ![p].prog = << >>]
  /\ UNCHANGED <<diskVars, vm, fileVars, ticks>>

Children(p) == {s \in Procs : proc[s].parent = p /\ proc[s].state # "UNUSED"}
Zombies(p) == {s \in Children(p) : proc[s].state = "ZOMBIE"}

\* init waits again and again; that it does so only while it has children is a bound.
sys_wait(p) ==
  /\ \/ Calls(p, "wait") /\ proc' = Enter(p, <<St("wait", 0, 0)>>)
     \/ /\ p = initproc /\ proc[p].state = "RUNNABLE" /\ Children(p) # {}
        /\ proc[p].todo = << >> /\ proc[p].prog = << >>
        /\ proc' = [proc EXCEPT ![p].todo = <<St("wait", 0, 0)>>]
  /\ UNCHANGED <<diskVars, vm, fileVars, ticks>>

\* One pass of wait's loop, under ptable.lock.
Wait(p) ==
  /\ At(p, "wait")
  /\ \/ /\ Zombies(p) # {}
        /\ LET s == Min(Zombies(p)) IN
             /\ vm' = freevm(kfree(vm, 1), proc[s].pg)
             /\ proc' = [Go(proc, p, << >>) EXCEPT ![s] = UnusedProc]
     \/ /\ Zombies(p) = {} /\ (Children(p) = {} \/ proc[p].killed)
        /\ proc' = Fail(Go(proc, p, << >>), p)
        /\ UNCHANGED vm
     \/ /\ Zombies(p) = {} /\ Children(p) # {} /\ ~proc[p].killed
        /\ proc' = [proc EXCEPT ![p].state = "SLEEPING", ![p].chan = <<"wait", p>>]
        /\ UNCHANGED vm
  /\ UNCHANGED <<diskVars, fileVars, ticks>>

\* kill of the process in slot s, which stands for its pid.
sys_kill(p) ==
  /\ Calls(p, "kill")
  /\ LET s == Call(p).a IN
          proc' = IF proc[s].state = "UNUSED" THEN Fail(Enter(p, << >>), p)
                  ELSE [Enter(p, << >>) EXCEPT
                          ![s].killed = TRUE,
                          ![s].state = IF @ = "SLEEPING" THEN "RUNNABLE" ELSE @,
                          ![s].chan = NoChan]
  /\ UNCHANGED <<diskVars, vm, fileVars, ticks>>

\* A trap the kernel does not know, from user space.
Fault(p) == /\ Calls(p, "fault")
            /\ proc' = [Enter(p, << >>) EXCEPT ![p].killed = TRUE]
            /\ UNCHANGED <<diskVars, vm, fileVars, ticks>>

-----------------------------------------------------------------------------
(* exec and sbrk *)

sys_exec(p) == /\ Calls(p, "exec")
               /\ Lookup(p, namei(p, Call(p).a), <<St("exec1", 0, NameOf(Call(p).a))>>)
               /\ UNCHANGED ticks

\* The image is loaded under the file's lock; what fails is undone.
Exec1(p) ==
  /\ At(p, "exec1")
  /\ LET i == Top(p).ip IN
       \/ /\ i = 0
          /\ proc' = GiveUp(proc, p, 0)
          /\ UNCHANGED <<ino, vm>>
       \/ /\ i # 0 /\ Lockable(i) /\ (ino[i].image = 0 \/ vm.free < 1 + ino[i].image)
          /\ ino' = Loaded(ino, i)
          /\ proc' = GiveUp(proc, p, i)
          /\ UNCHANGED vm
       \/ /\ i # 0 /\ Lockable(i) /\ ino[i].image # 0 /\ vm.free >= 1 + ino[i].image
          /\ ino' = Loaded(ino, i)
          /\ vm' = NewSpace(vm, ino[i].image)
          /\ proc' = Go(proc, p, <<iput(i), end_op,
                          St("exec2", 0, [d |-> FreshSpace(vm), n |-> ino[i].image,
                                          prog |-> Programs[Top(p).x]])>>)
  /\ UNCHANGED <<bits, wrote, fileVars, ticks>>

\* The stack (a guard page and one page), and the switch to the new image.
Exec2(p) ==
  /\ At(p, "exec2")
  /\ LET x == Top(p).x  old == proc[p].pg  i == Min(locate_uvmrefcount(vm, old)) IN
       \/ /\ vm.free < 2
          /\ vm' = freevm(vm, x.d)
          /\ proc' = Fail(Go(proc, p, << >>), p)
       \/ /\ vm.free >= 2
          /\ vm' = allocuvm(vm, x.d, x.n, x.n + 2)
          /\ proc' = [Go(proc, p, <<St("freevm", 0, [d |-> old, old |->
                             IF locate_uvmrefcount(vm, old) = {} THEN FreeDesc ELSE vm.uvm[i]])>>)
                        EXCEPT ![p].pg = x.d, ![p].sz = x.n + 2, ![p].prog = x.prog]
  /\ UNCHANGED <<diskVars, fileVars, ticks>>

\* exec's freevm of the old address space, without ptable.lock: like clone it may use
\* a count that has changed meanwhile.
FreeVm(p) ==
  /\ At(p, "freevm")
  /\ LET d == Top(p).x.d  found == locate_uvmrefcount(vm, d)  old == Top(p).x.old
         same == IF found = {} THEN old = FreeDesc ELSE vm.uvm[Min(found)] = old
     IN  vm' = [freevm(vm, d) EXCEPT !.raced = @ \/ ~same]
  /\ proc' = Go(proc, p, << >>)
  /\ UNCHANGED <<diskVars, fileVars, ticks>>

\* growproc by n pages; only the caller's sz changes.
sys_sbrk(p) ==
  /\ Calls(p, "sbrk")
  /\ LET n == Call(p).a  sz == proc[p].sz  d == proc[p].pg IN
       \/ /\ n > vm.free
          /\ proc' = Fail(Enter(p, << >>), p)
          /\ UNCHANGED vm
       \/ /\ n <= vm.free /\ sz + n > 0
          /\ vm' = IF n > 0 THEN allocuvm(vm, d, sz, sz + n) ELSE deallocuvm(vm, d, sz, sz + n)
          /\ proc' = [Enter(p, << >>) EXCEPT ![p].sz = sz + n]
  /\ UNCHANGED <<diskVars, fileVars, ticks>>

-----------------------------------------------------------------------------
(* Timed sleep *)

TicksLock == <<"ticks", 0>>

sys_sleep(p) ==
  /\ Calls(p, "sleep")
  /\ \/ /\ Call(p).a = 0
        /\ proc' = Enter(p, << >>)
        /\ UNCHANGED lock
     \/ /\ Call(p).a # 0 /\ lock[TicksLock] = 0
        /\ proc' = [Enter(p, <<St("ticks", 0, [t0 |-> ticks, n |-> Call(p).a])>>)
                      EXCEPT ![p].sleepticks = Call(p).a]
        /\ lock' = [lock EXCEPT ![TicksLock] = p]
  /\ UNCHANGED <<diskVars, vm, file, pipe, cons, stream, ticks>>

\* The loop of sys_sleep.
Ticks(p) ==
  /\ At(p, "ticks") /\ lock[TicksLock] \in {0, p}
  /\ LET over == (ticks - Top(p).x.t0) % WORD >= Top(p).x.n IN
       \/ /\ over
          /\ proc' = [Go(proc, p, << >>) EXCEPT ![p].sleepticks = -1]
          /\ lock' = [lock EXCEPT ![TicksLock] = 0]
       \/ /\ ~over /\ proc[p].killed
          /\ proc' = Fail(Go(proc, p, << >>), p)
          /\ lock' = [lock EXCEPT ![TicksLock] = 0]
       \/ /\ ~over /\ ~proc[p].killed
          /\ proc' = Go(proc, p, <<SleepStep(TicksLock, TicksLock), Top(p)>>)
          /\ lock' = [lock EXCEPT ![TicksLock] = p]
  /\ UNCHANGED <<diskVars, vm, file, pipe, cons, stream, ticks>>

\* sleep_proc_notify for one sleeper.
Notified(r) == IF r.sleepticks = 0 THEN [r EXCEPT !.state = "RUNNABLE", !.chan = NoChan]
               ELSE [r EXCEPT !.sleepticks = @ - 1]

\* The timer interrupt on CPU 0.  Bound: the clock runs while someone sleeps, and not
\* all the way round before those it has woken look at it.
Timer ==
  /\ lock[TicksLock] = 0
  /\ \E p \in Procs : proc[p].state = "SLEEPING" /\ proc[p].chan = TicksLock
  /\ \A p \in Procs : At(p, "ticks") => (ticks + 1 - Top(p).x.t0) % WORD # 0
  /\ ticks' = (ticks + 1) % WORD
  /\ proc' = [p \in Procs |-> IF proc[p].state = "SLEEPING" /\ proc[p].chan = TicksLock
                              THEN Notified(proc[p]) ELSE proc[p]]
  /\ UNCHANGED <<diskVars, vm, fileVars>>

ProcStep(p) == \/ sys_fork(p) \/ Fork(p) \/ sys_clone(p) \/ Clone1(p) \/ Clone2(p)
               \/ Exit(p) \/ Die(p) \/ sys_wait(p) \/ Wait(p) \/ sys_kill(p) \/ Fault(p)
               \/ sys_exec(p) \/ Exec1(p) \/ Exec2(p) \/ FreeVm(p) \/ sys_sbrk(p)
               \/ sys_sleep(p) \/ Ticks(p)
=============================================================================

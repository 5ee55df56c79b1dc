-------------------------------- MODULE Files -------------------------------
(***************************************************************************)
(* Open files (file.c), pipes (pipe.c), the console's input (console.c)    *)
(* and the system calls on files (sysfile.c) of xv6.                       *)
(*                                                                         *)
(* A program is a sequence of calls, proc[p].prog; a system call takes the *)
(* next one and leaves the steps it takes in the kernel in proc[p].todo.   *)
(* lock[l] is the process that holds spinlock l from one step to the next, *)
(* between the test in a loop and sleep.  Bytes in a pipe are numbered in  *)
(* the order they were written; keys are "c" (any character), "nl", "bs"   *)
(* (backspace), "kl" (control-U) and "eof" (control-D).                    *)
(***************************************************************************)
EXTENDS Inodes, Memory

CONSTANTS NFILE, NOFILE,       \* open files of the system, of a process
          NPIPE,               \* bound on the pipes that exist at once
          PIPESIZE,
          WORD,                \* counters are unsigned words: modulo WORD
          INPUT_BUF

ASSUME WordAssumption == WORD % PIPESIZE = 0 /\ WORD % INPUT_BUF = 0

VARIABLES file,                \* ftable
          pipe,
          cons,                \* input: buf, r, w, e; and the keys still to be typed
          lock,                \* spinlocks held across steps
          stream               \* history: what entered and what left each pipe

fileVars == <<file, pipe, cons, lock, stream>>

Files == 1 .. NFILE
Fds   == 0 .. NOFILE - 1
Pipes == 1 .. NPIPE
Locks == {<<"pipe", q>> : q \in Pipes} \cup {<<"ticks", 0>>, <<"cons", 0>>}

NoChan == <<"none", 0>>
NoFile == [ref |-> 0, type |-> "NONE", obj |-> 0, readable |-> FALSE, writable |-> FALSE,
           off |-> 0]
NoPipe == [used |-> FALSE, data |-> [j \in 0 .. PIPESIZE - 1 |-> 0], nread |-> 0,
           nwrite |-> 0, readopen |-> FALSE, writeopen |-> FALSE, untold |-> FALSE]

-----------------------------------------------------------------------------
(* System calls *)

Call(p) == Head(proc[p].prog)
Calls(p, c) == /\ proc[p].state = "RUNNABLE" /\ proc[p].todo = << >>
               /\ ~proc[p].killed /\ proc[p].prog # << >> /\ Call(p).c = c

\* The process table once p has entered its next call, which takes these steps.
Enter(p, steps) == [proc EXCEPT ![p].prog = Tail(@), ![p].ret = Call(p).e, ![p].alt = Call(p).alt,
                                ![p].todo = steps]

\* A descriptor argument is a number, or the end of the last pipe() of the program.
Fd(p, a) == IF a \in Fds THEN a ELSE proc[p].pv[a - NOFILE]
ReadEnd == NOFILE + 1
WriteEnd == NOFILE + 2
FileOf(p, a) == IF Fd(p, a) \in Fds THEN proc[p].ofile[Fd(p, a)] ELSE 0

FreeFiles == {f \in Files : file[f].ref = 0}
FreeFds(p) == {fd \in Fds : proc[p].ofile[fd] = 0}

-----------------------------------------------------------------------------
(* sleep and wakeup *)

Wakeup(P, ch) == [p \in Procs |-> IF P[p].state = "SLEEPING" /\ P[p].chan = ch
                                  THEN [P[p] EXCEPT !.state = "RUNNABLE", !.chan = NoChan]
                                  ELSE P[p]]

SleepStep(ch, l) == St("sleep", 0, [chan |-> ch, lk |-> l])

\* sleep(chan, lk): lk is released once ptable.lock is held.
Sleep(p) == /\ At(p, "sleep")
            /\ proc' = [Go(proc, p, << >>) EXCEPT ![p].state = "SLEEPING",
                                                  ![p].chan = Top(p).x.chan]
            /\ lock' = [lock EXCEPT ![Top(p).x.lk] = 0]
            /\ UNCHANGED <<diskVars, vm, file, pipe, cons, stream>>

-----------------------------------------------------------------------------
(* Pipes *)

Count(q) == (pipe[q].nwrite - pipe[q].nread) % WORD
Buffered(q) == [j \in 1 .. Count(q) |-> pipe[q].data[(pipe[q].nread + j - 1) % PIPESIZE]]

\* The pipe after k more bytes.  untold is history: no reader has been woken for them.
Filled(q, k, wakes) ==
  [pipe[q] EXCEPT !.untold = ~wakes /\ (@ \/ k > 0), !.nwrite = (@ + k) % WORD,
                  !.data = [j \in DOMAIN @ |->
                     LET ms == {m \in 1 .. k : (pipe[q].nwrite + m - 1) % PIPESIZE = j}
                     IN  IF ms = {} THEN @[j] ELSE Len(stream[q].in) + Max(ms)]]

\* Mutant: one byte too many is taken to fit.
SpaceOneMore(q) == PIPESIZE + 1 - Count(q)
Space(q) == PIPESIZE - Count(q)

\* pipewrite: from taking the lock to releasing it or deciding to sleep.
PipeWrite(p) ==
  /\ At(p, "pipewrite")
  /\ LET q == Top(p).x.q  n == Top(p).x.n  k == Min({n, Space(q)})
         gone == ~pipe[q].readopen \/ proc[p].killed
     IN
       /\ lock[<<"pipe", q>>] = 0
       /\ pipe' = [pipe EXCEPT ![q] = Filled(q, k, k = n \/ ~gone)]
       /\ stream' = [stream EXCEPT ![q].in = @ \o [j \in 1 .. k |-> Len(@) + j]]
       /\ \/ /\ k = n
             /\ proc' = Wakeup(Go(proc, p, << >>), <<"nread", q>>)
             /\ UNCHANGED lock
          \/ /\ k < n /\ gone
             /\ proc' = Fail(Go(proc, p, << >>), p)
             /\ UNCHANGED lock
          \/ /\ k < n /\ ~gone
             /\ lock' = [lock EXCEPT ![<<"pipe", q>>] = p]
             /\ proc' = Wakeup(Go(proc, p, <<SleepStep(<<"nwrite", q>>, <<"pipe", q>>),
                                     St("pipewrite", 0, [q |-> q, n |-> n - k])>>),
                               <<"nread", q>>)
  /\ UNCHANGED <<diskVars, vm, file, cons>>

\* The program has been given k bytes.  One that reads until nothing comes any more
\* calls read again and adds up; in the end the number has to be what it wants.
Again(P, p, k) ==
  LET c == Top(p).x.call IN
  IF c.a.all /\ k > 0 THEN [P EXCEPT ![p].prog = <<[c EXCEPT !.a.want = @ - k]>> \o @]
  ELSE IF k = c.a.want THEN P ELSE Fail(P, p)

PipeRead(p) ==
  /\ At(p, "piperead")
  /\ LET q == Top(p).x.q  k == Min({Top(p).x.n, Count(q)}) IN
       /\ lock[<<"pipe", q>>] = 0
       /\ \/ /\ k = 0 /\ pipe[q].writeopen /\ proc[p].killed
             /\ proc' = Fail(Go(proc, p, << >>), p)
             /\ UNCHANGED <<lock, pipe, stream>>
          \/ /\ k = 0 /\ pipe[q].writeopen /\ ~proc[p].killed
             /\ lock' = [lock EXCEPT ![<<"pipe", q>>] = p]
             /\ proc' = Go(proc, p, <<SleepStep(<<"nread", q>>, <<"pipe", q>>), Top(p)>>)
             /\ UNCHANGED <<pipe, stream>>
          \/ /\ k > 0 \/ ~pipe[q].writeopen
             /\ pipe' = [pipe EXCEPT ![q].nread = (@ + k) % WORD]
             /\ stream' = [stream EXCEPT ![q].out = @ \o SubSeq(Buffered(q), 1, k),
                                         ![q].eof = @ \/ k = 0]
             /\ proc' = Wakeup(Again(Go(proc, p, << >>), p, k), <<"nwrite", q>>)
             /\ UNCHANGED lock
  /\ UNCHANGED <<diskVars, vm, file, cons>>

CloseWakes(w) == IF w THEN "nread" ELSE "nwrite"

PipeClose(p) ==
  /\ At(p, "pipeclose")
  /\ LET q == Top(p).x.q  w == Top(p).x.w
         closed == [pipe[q] EXCEPT !.writeopen = @ /\ ~w, !.readopen = @ /\ w,
                                   !.untold = @ /\ ~w]
     IN  /\ lock[<<"pipe", q>>] = 0
         /\ pipe' = [pipe EXCEPT ![q] = IF closed.readopen \/ closed.writeopen
                                        THEN closed ELSE NoPipe]
         /\ vm' = IF closed.readopen \/ closed.writeopen THEN vm ELSE kfree(vm, 1)
         /\ proc' = Wakeup(Go(proc, p, << >>), <<CloseWakes(w), q>>)
  /\ UNCHANGED <<diskVars, file, cons, lock, stream>>

-----------------------------------------------------------------------------
(* The console's input *)

Held(a, b) == (cons[b] - cons[a]) % WORD      \* bytes from index a to index b

\* consoleintr: the next key is typed.  A newline is committed at once, so control-U
\* erases all that is not.
ConsoleIntr ==
  LET key == Head(cons.keys)
      rest == [cons EXCEPT !.keys = Tail(@)]
      back == [rest EXCEPT !.e = (@ - 1) % WORD]
      put  == [rest EXCEPT !.buf[cons.e % INPUT_BUF] = key, !.e = (@ + 1) % WORD]
      full == (put.e - put.r) % WORD = INPUT_BUF
  IN
  /\ cons.keys # << >> /\ lock[<<"cons", 0>>] = 0
  /\ \/ /\ key = "kl"
        /\ cons' = [rest EXCEPT !.e = cons.w]
        /\ UNCHANGED <<proc, stream>>
     \/ /\ key = "bs"
        /\ cons' = IF cons.e # cons.w THEN back ELSE rest
        /\ UNCHANGED <<proc, stream>>
     \/ /\ key \in {"c", "nl", "eof"}
        /\ \/ /\ Held("r", "e") = INPUT_BUF
              /\ cons' = rest
              /\ UNCHANGED <<proc, stream>>
           \/ /\ Held("r", "e") < INPUT_BUF /\ (key \in {"nl", "eof"} \/ full)
              /\ cons' = [put EXCEPT !.w = put.e]
              /\ proc' = Wakeup(proc, <<"cons", 0>>)
              /\ stream' = [stream EXCEPT ![0].in = @ \o
                              [j \in 1 .. Held("w", "e") + 1 |->
                                 put.buf[(cons.w + j - 1) % INPUT_BUF]]]
           \/ /\ Held("r", "e") < INPUT_BUF /\ key = "c" /\ ~full
              /\ cons' = put
              /\ UNCHANGED <<proc, stream>>
  /\ UNCHANGED <<diskVars, vm, file, pipe, lock>>

Typed == [j \in 1 .. Held("r", "w") |-> cons.buf[(cons.r + j - 1) % INPUT_BUF]]

\* consoleread with room for n of the target bytes; what comes first ends it: a
\* newline, a control-D, or the last byte asked for.  A control-D behind other bytes
\* is left for the next call.
ConsoleRead(p) ==
  /\ At(p, "consoleread")
  /\ LET n == Top(p).x.n
         stop == {j \in 1 .. Min({n, Len(Typed)}) : Typed[j] \in {"nl", "eof"} \/ j = n}
         k == IF stop = {} THEN Len(Typed)
              ELSE IF Typed[Min(stop)] = "eof" /\ n - Min(stop) + 1 < Top(p).x.target
                   THEN Min(stop) - 1 ELSE Min(stop)
     IN  /\ lock[<<"cons", 0>>] = 0
         /\ cons' = [cons EXCEPT !.r = (@ + k) % WORD]
         /\ stream' = [stream EXCEPT ![0].out = @ \o SubSeq(Typed, 1, k)]
         /\ \/ /\ stop # {}
               /\ proc' = Again(Go(proc, p, << >>), p, Top(p).x.target - n + k)
               /\ UNCHANGED lock
            \/ /\ stop = {} /\ proc[p].killed
               /\ proc' = Fail(Go(proc, p, << >>), p)
               /\ UNCHANGED lock
            \/ /\ stop = {} /\ ~proc[p].killed
               /\ lock' = [lock EXCEPT ![<<"cons", 0>>] = p]
               /\ proc' = Go(proc, p, <<SleepStep(<<"cons", 0>>, <<"cons", 0>>),
                                        St("consoleread", 0, [Top(p).x EXCEPT !.n = n - k])>>)
  /\ UNCHANGED <<diskVars, vm, file, pipe>>

-----------------------------------------------------------------------------
(* Open files *)

\* fileclose: the file table, and what is left to do, when a reference to f is dropped.
Dropped(f) == [file EXCEPT ![f] = IF @.ref > 1 THEN [@ EXCEPT !.ref = @ - 1] ELSE NoFile]
CloseSteps(f) ==
  CASE file[f].ref > 1 -> << >>
    [] file[f].type = "PIPE" -> <<St("pipeclose", 0, [q |-> file[f].obj, w |-> file[f].writable])>>
    [] OTHER -> <<iput(file[f].obj), end_op>>

\* Mutant: dup without filedup.
filedupNot(F, f) == F
filedup(F, f) == [F EXCEPT ![f].ref = @ + 1]

sys_close(p) ==
  /\ Calls(p, "close")
  /\ LET f == FileOf(p, Call(p).a) IN
       \/ /\ f = 0
          /\ proc' = Fail(Enter(p, << >>), p)
          /\ UNCHANGED file
       \/ /\ f # 0
          /\ proc' = [Enter(p, CloseSteps(f)) EXCEPT ![p].ofile[Fd(p, Call(p).a)] = 0]
          /\ file' = Dropped(f)
  /\ UNCHANGED <<diskVars, vm, pipe, cons, lock, stream>>

\* The same in exit.
CloseInExit(p) ==
  /\ At(p, "close")
  /\ LET fd == Top(p).x  f == proc[p].ofile[fd] IN
       /\ proc' = [Go(proc, p, CloseSteps(f)) EXCEPT ![p].ofile[fd] = 0]
       /\ file' = Dropped(f)
  /\ UNCHANGED <<diskVars, vm, pipe, cons, lock, stream>>

sys_dup(p) ==
  /\ Calls(p, "dup")
  /\ LET f == FileOf(p, Call(p).a) IN
       \/ /\ f = 0 \/ FreeFds(p) = {}
          /\ proc' = Fail(Enter(p, << >>), p)
          /\ UNCHANGED file
       \/ /\ f # 0 /\ FreeFds(p) # {}
          /\ proc' = [Enter(p, << >>) EXCEPT ![p].ofile[Min(FreeFds(p))] = f]
          /\ file' = filedup(file, f)
  /\ UNCHANGED <<diskVars, vm, pipe, cons, lock, stream>>

\* sys_pipe and pipealloc; where something is missing, all is given back.
sys_pipe(p) ==
  /\ Calls(p, "pipe")
  /\ \/ /\ \/ Cardinality(FreeFiles) < 2 \/ vm.free = 0
           \/ Cardinality(FreeFds(p)) < 2
        /\ proc' = Fail(Enter(p, << >>), p)
        /\ UNCHANGED <<file, pipe, vm, stream>>
     \/ /\ Cardinality(FreeFiles) >= 2 /\ vm.free > 0 /\ Cardinality(FreeFds(p)) >= 2
        /\ LET r == Min(FreeFiles)    w == Min(FreeFiles \ {r})
               a == Min(FreeFds(p))  b == Min(FreeFds(p) \ {a})
               q == Min({q \in Pipes : ~pipe[q].used})
               end == [NoFile EXCEPT !.ref = 1, !.type = "PIPE", !.obj = q]
           IN  /\ file' = [file EXCEPT ![r] = [end EXCEPT !.readable = TRUE],
                                       ![w] = [end EXCEPT !.writable = TRUE]]
               /\ pipe' = [pipe EXCEPT ![q] = [NoPipe EXCEPT !.used = TRUE, !.readopen = TRUE,
                                                             !.writeopen = TRUE]]
               /\ stream' = [stream EXCEPT ![q] = [in |-> << >>, out |-> << >>, eof |-> FALSE]]
               /\ vm' = kalloc(vm, 1)
               /\ proc' = [Enter(p, << >>) EXCEPT ![p].ofile[a] = r, ![p].ofile[b] = w,
                                                  ![p].pv = <<a, b>>]
  /\ UNCHANGED <<diskVars, cons, lock>>

\* sys_read and sys_write up to the first lock of fileread and filewrite.
sys_read(p) ==
  /\ Calls(p, "read")
  /\ LET f == FileOf(p, Call(p).a.fd)  n == Call(p).a.n IN
       proc' = IF f = 0 \/ ~file[f].readable THEN Fail(Enter(p, << >>), p)
               ELSE IF file[f].type = "PIPE"
               THEN Enter(p, <<St("piperead", 0, [q |-> file[f].obj, n |-> n, call |-> Call(p)])>>)
               ELSE Enter(p, <<St("fileread", 0, [f |-> f, n |-> n, call |-> Call(p)])>>)
  /\ UNCHANGED <<diskVars, vm, fileVars>>

sys_write(p) ==
  /\ Calls(p, "write")
  /\ LET f == FileOf(p, Call(p).a.fd)  n == Call(p).a.n IN
       proc' = IF f = 0 \/ ~file[f].writable THEN Fail(Enter(p, << >>), p)
               ELSE IF file[f].type = "PIPE"
               THEN Enter(p, <<St("pipewrite", 0, [q |-> file[f].obj, n |-> n])>>)
               ELSE Enter(p, <<St("filewrite", 0, [f |-> f, n |-> n])>>)
  /\ UNCHANGED <<diskVars, vm, fileVars>>

\* fileread of an inode; a read of the console gives up the inode's lock.
FileRead(p) ==
  /\ At(p, "fileread")
  /\ LET f == Top(p).x.f  i == file[f].obj  n == Top(p).x.n
         got == Min({n, Max({0, ino[i].size - file[f].off})})
     IN
       /\ Lockable(i)
       /\ ino' = Loaded(ino, i)
       /\ \/ /\ ino[i].type = "DEV"
             /\ proc' = Go(proc, p, <<St("consoleread", 0, [n |-> n, target |-> n, call |-> Top(p).x.call])>>)
             /\ UNCHANGED file
          \/ /\ ino[i].type # "DEV"
             /\ file' = [file EXCEPT ![f].off = @ + got]
             /\ proc' = Again(Go(proc, p, << >>), p, got)
  /\ UNCHANGED <<bits, wrote, vm, pipe, cons, lock, stream>>

\* Mutant: a write is not cut into transactions.
ChunkAll(n) == n
Chunk(n) == Min({n, ((MAXOPBLOCKS - 1 - 1 - 2) \div 2) * BSIZE})

\* One transaction of filewrite; the whole is a loop of them.
FileWrite(p) ==
  /\ At(p, "filewrite")
  /\ LET f == Top(p).x.f  i == file[f].obj  n == Top(p).x.n  off == file[f].off
         n1 == Chunk(n)  blocks == (off + n1 + BSIZE - 1) \div BSIZE
         rest == IF n > n1 THEN <<end_op, St("filewrite", 0, [f |-> f, n |-> n - n1])>>
                 ELSE <<end_op>>
     IN  /\ Lockable(i)
         /\ \/ /\ ino[i].type # "DEV" /\ off + n1 > MAXFILE * BSIZE
               /\ ino' = Loaded(ino, i)
               /\ proc' = Fail(Go(proc, p, <<end_op>>), p)
               /\ UNCHANGED <<bits, wrote, file>>
            \/ /\ ino[i].type # "DEV" /\ off + n1 <= MAXFILE * BSIZE /\ Room(i, blocks)
               /\ ino' = [ino EXCEPT ![i] = [writei(i, off, n1) EXCEPT !.valid = TRUE]]
               /\ bits' = bits \cup Range(writei(i, off, n1).addrs)
                               \cup ({writei(i, off, n1).ind} \ {0})
               /\ LogWrite(p, WriteLog(i, off, n1))
               /\ file' = [file EXCEPT ![f].off = @ + n1]
               /\ proc' = Go(proc, p, rest)
            \/ /\ ino[i].type = "DEV"
               /\ ino' = Loaded(ino, i)
               /\ proc' = Go(proc, p, rest)
               /\ UNCHANGED <<bits, wrote, file>>
  /\ UNCHANGED <<vm, pipe, cons, lock, stream>>

FileStep(p) == \/ Sleep(p) \/ PipeWrite(p) \/ PipeRead(p) \/ PipeClose(p) \/ ConsoleRead(p)
               \/ sys_close(p) \/ CloseInExit(p) \/ sys_dup(p) \/ sys_pipe(p)
               \/ sys_read(p) \/ sys_write(p) \/ FileRead(p) \/ FileWrite(p)
=============================================================================

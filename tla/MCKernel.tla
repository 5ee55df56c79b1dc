------------------------------ MODULE MCKernel -------------------------------
EXTENDS Kernel, UserTests, Shell

MCPrograms == [n \in {"echo", "wc"} |-> IF n = "echo" THEN echo ELSE wc]
MCNames == {"a", "b", "c", "echo", "wc", "console"}

\* Slots of the children of the process in slot 2.
Slots == <<3, 4>>

Run(progs) == [progs |-> progs, fds |-> {}, keys |-> << >>]

\* The repository's tests.
Tests == {iputtest, dirtest, rmdot, dirfile, iref, subdir, fourteen, opentest, writetest,
          writetest1, createtest, bigwrite, bigfile, unlinkread, linktest, bigdir, exectest,
          exitiputtest, openiputtest, sharedfd, pipe1, preempt(Slots), exitwait, mem,
          forktest(2), sbrktest(Slots, 20), validatetest(Slots), uio, zombie, multithread,
          concreate, stressfs, createdelete, fourfiles}

RandomTests == {linkunlink(p1 \o p2, q1 \o q2) : p1, p2, q1, q2 \in LinkUnlink}

\* A directory removed while others work in it.
Removal == <<mkdir(A, "any"), creat(In("a", "b"), "RDWR", "any"), unlink(In("a", "b"), "any"), unlink(A, "any")>>
InIt == <<chdir(A, "any"), creat(B, "RDWR", "any"), mkdir(C, "any"), link(B, In("c", "b"), "any"), unlink(B, "any")>>

\* A directory and its parent removed, and .. looked up in it; the same with the parent
\* removed by another process, or its inode taken for a new file.
Up == rel(<<"..">>)
Orphan == <<mkdir(A, "any"), mkdir(In("a", "b"), "any"), chdir(In("a", "b"), "any"),
            unlink(abs(<<"a", "b">>), "any")>>
DotDot == Orphan \o <<unlink(abs(<<"a">>), "ok"), chdir(Up, "any")>>
DotDotNew == Orphan \o <<unlink(abs(<<"a">>), "ok"), creat(abs(<<"c">>), "RDWR", "ok"), chdir(Up, "no")>>

\* An open file removed, and closed by two.
TwoOpen == <<creat(A, "RDWR", "any"), unlink(A, "any"), close(0)>>
AlsoOpen == <<open(A, "RDWR", "any"), write(0, 3, "any"), close(0)>>

\* All files of the system, and all descriptors of a process, in use.
ManyOpen == <<open(Dot, "RDONLY", "any"), open(Dot, "RDONLY", "any"), open(Dot, "RDONLY", "any"),
              call("pipe", 0, "no"), open(Dot, "RDONLY", "any"), open(Dot, "RDONLY", "no"),
              close(1), dup(0), dup(0), dup(0), call("mknod", B, "ok"), creat(C, "WRONLY", "no"), close(7)>>

\* A writer of a pipe is killed by the reader it waits for.
KillWriter ==
  <<call("pipe", 0, "ok"),
    fork(<<read(ReadEnd, 2, "any"), call("kill", 4, "any"), read(ReadEnd, 1, "any")>>, "ok"),
    fork(<<write(WriteEnd, 5, "any")>>, "ok"), wait("any"), wait("any")>>

\* A reader of a pipe is killed.
KillReader == <<call("pipe", 0, "ok"), fork(<<read(ReadEnd, 1, "any")>>, "ok"), call("kill", 3, "ok"), wait("ok")>>

\* Memory, files and pipes at their limits; signals that find their target asleep.
Limits == {<<call("sbrk", 12, "ok"), fork(<< >>, "no"), call("exec", rel(<<"wc">>), "no"),
             call("exec", rel(<<"b">>), "no"), call("exec", rel(<<"console">>), "no"),
             call("kill", 4, "no"), fork(<< >>, "no")>>,
           <<creat(A, "RDWR", "ok"), write(0, 2 * MAXFILE - 1, "ok"), write(0, 2, "no")>>,
           <<call("pipe", 0, "ok"), close(ReadEnd), write(WriteEnd, 3, "no")>>,
           KillReader, KillWriter,
           <<open(rel(<<"console">>), "RDWR", "ok"), fork(<<read(0, 1, "any")>>, "ok"), call("kill", 3, "ok"), wait("ok")>>}

\* Threads that come, go and exec at the same time.
Threads == {<<call("clone", <<call("clone", << >>, "any")>>, "any"), wait("any")>>,
            <<call("clone", <<call("exec", rel(<<"echo">>), "any")>>, "any"),
              call("sbrk", 1, "any"), call("clone", << >>, "any"), wait("any")>>,
            <<call("clone", << >>, "any"), call("exec", rel(<<"wc">>), "any")>>}

\* Command lines.
Lines == {<<"echo", "|", "wc", ">", "a">>, <<"(", "echo", ">", "b", ";", "wc", "<", "b", ")", "&">>,
          <<"echo", "<", "c">>, <<"echo", ";">>, <<"a", ")">>, <<"|">>, <<"(", "echo">>, <<"wc", ">", "|">>}
Session == Line(<<"cd", "a">>) \o Line(<<"echo">>) \o Line(<<"wc", "a", "<", "echo">>)

Typing == [progs |-> <<<<read(0, 3, "any"), read(0, 1, "any"), read(0, 3, "any")>>>>, fds |-> {0},
           keys |-> <<"c", "c", "bs", "nl", "c", "kl", "c", "eof", "c", "c", "c", "c", "c", "eof", "nl">>]

MCScenarios ==
  {Run(<<t>>) : t \in Tests \cup RandomTests \cup Limits}
  \cup {Run(<<Removal, InIt>>), Run(<<TwoOpen, AlsoOpen>>), Run(<<ManyOpen>>),
        Run(<<DotDot>>), Run(<<DotDotNew>>), Run(<<Orphan \o <<chdir(Up, "any")>>, <<unlink(A, "any")>>>>)}
  \cup {Run(<<t>>) : t \in Threads}
  \cup {[Run(<<runcmd(parsecmd(l))>>) EXCEPT !.fds = {0, 1}] : l \in Lines}
  \cup {[Run(<<Session>>) EXCEPT !.fds = {0, 1}], Typing}

\* Of these, linkunlink alone.
LinkUnlinkOnly == {Run(<<t>>) : t \in RandomTests}
=============================================================================

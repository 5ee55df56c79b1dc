----------------------------- MODULE UserTests ------------------------------
(***************************************************************************)
(* The programs of usertests.c, stressfs.c, zombie.c and multithread.c as  *)
(* sequences of system calls, with what they expect of each call.  Loops   *)
(* are cut to the number of rounds that shows something new, names are     *)
(* a, b and c, sizes are in halves of a block.  A test starts without      *)
(* open files, so its first descriptor is 0.                               *)
(***************************************************************************)
EXTENDS SysCalls, Processes

A == rel(<<"a">>)
B == rel(<<"b">>)
C == rel(<<"c">>)
Dot == rel(<<".">>)
Slash == abs(<< >>)
Nothing == rel(<< >>)
In(d, n) == rel(<<d, n>>)

Rep(n, s) == [j \in 1 .. n * Len(s) |-> s[((j - 1) % Len(s)) + 1]]

-----------------------------------------------------------------------------
(* Directories and their last reference *)

iputtest == <<mkdir(A, "ok"), chdir(A, "ok"), unlink(rel(<<"..", "a">>), "ok"), chdir(Slash, "ok")>>

exitiputtest ==
  <<fork(<<mkdir(A, "ok"), chdir(A, "ok"), unlink(rel(<<"..", "a">>), "ok")>>, "ok"), wait("any")>>

openiputtest ==
  <<mkdir(A, "ok"), fork(<<open(A, "RDWR", "no")>>, "ok"), call("sleep", 1, "any"),
    unlink(A, "ok"), wait("any")>>

dirtest == <<mkdir(A, "ok"), chdir(A, "ok"), chdir(rel(<<"..">>), "ok"), unlink(A, "ok")>>

rmdot ==
  <<mkdir(A, "ok"), chdir(A, "ok"), unlink(Dot, "no"), unlink(rel(<<"..">>), "no"),
    chdir(Slash, "ok"), unlink(In("a", "."), "no"), unlink(In("a", ".."), "no"), unlink(A, "ok")>>

dirfile ==
  <<creat(A, "RDONLY", "ok"), close(0), chdir(A, "no"), open(In("a", "b"), "RDONLY", "no"),
    creat(In("a", "b"), "RDONLY", "no"), mkdir(In("a", "b"), "no"), unlink(In("a", "b"), "no"),
    link(rel(<<"echo">>), In("a", "b"), "no"), unlink(A, "ok"), open(Dot, "RDWR", "no"),
    open(Dot, "RDONLY", "any"), write(0, 1, "no"), close(0)>>

\* The second round is left out: it only goes deeper.
iref ==
  <<mkdir(A, "ok"), chdir(A, "ok"), mkdir(Nothing, "any"), link(abs(<<"echo">>), Nothing, "any"),
    creat(Nothing, "RDONLY", "any"), creat(B, "RDONLY", "any"), close(0), unlink(B, "any"),
    chdir(Slash, "any")>>

subdir ==
  LET aa == In("a", "a")  ab == In("a", "b")  aab == rel(<<"a", "a", "b">>)
      aac == rel(<<"a", "a", "c">>)  abb == rel(<<"a", "b", "b">>)  acb == rel(<<"a", "c", "b">>)
      up == rel(<<"a", "..", "..", "a">>)
  IN  <<unlink(B, "any"), mkdir(A, "ok"), creat(ab, "RDWR", "ok"), write(0, 1, "any"), close(0),
        unlink(A, "no"), mkdir(abs(<<"a", "a">>), "ok"), creat(aab, "RDWR", "ok"),
        write(0, 1, "any"), close(0), open(rel(<<"a", "a", "..", "b">>), "RDONLY", "ok"),
        read(0, 1, "ok"), close(0), link(aab, aac, "ok"), unlink(aab, "ok"),
        open(aab, "RDONLY", "no"), chdir(A, "ok"), chdir(up, "ok"),
        chdir(rel(<<"a", "..", "..", "..", "a">>), "ok"), chdir(rel(<<".", "..">>), "ok"),
        open(aac, "RDONLY", "ok"), read(0, 1, "ok"), close(0), open(aab, "RDONLY", "no"),
        creat(abb, "RDWR", "no"), creat(acb, "RDWR", "no"), creat(A, "RDONLY", "no"),
        open(A, "RDWR", "no"), open(A, "WRONLY", "no"), link(abb, In("a", "c"), "no"),
        link(acb, In("a", "c"), "no"), link(ab, aac, "no"), mkdir(abb, "no"), mkdir(acb, "no"),
        mkdir(aac, "no"), unlink(acb, "no"), unlink(abb, "no"), chdir(ab, "no"), chdir(In("a", "c"), "no"),
        unlink(aac, "ok"), unlink(ab, "ok"), unlink(A, "no"), unlink(aa, "ok"), unlink(A, "ok")>>

\* Names are cut to DIRSIZ characters: the two of the test are one.
fourteen ==
  LET aab == rel(<<"a", "a", "b">>) IN
  <<mkdir(A, "ok"), mkdir(In("a", "a"), "ok"), creat(aab, "RDONLY", "ok"), close(0),
    open(aab, "RDONLY", "ok"), close(0), mkdir(In("a", "a"), "no"), mkdir(In("a", "a"), "no")>>

-----------------------------------------------------------------------------
(* Files *)

opentest == <<open(rel(<<"echo">>), "RDONLY", "ok"), close(0), open(A, "RDONLY", "no")>>

writetest ==
  <<creat(A, "RDWR", "ok"), write(0, 1, "ok"), write(0, 1, "ok"), close(0),
    open(A, "RDONLY", "ok"), read(0, 2, "ok"), close(0), unlink(A, "ok")>>

writetest1 ==
  <<creat(A, "RDWR", "ok")>> \o Rep(MAXFILE, <<write(0, 2, "ok")>>)
  \o <<close(0), open(A, "RDONLY", "ok")>> \o Rep(MAXFILE, <<read(0, 2, "ok")>>)
  \o <<read(0, 1, "no"), close(0), unlink(A, "ok")>>

createtest == <<creat(A, "RDWR", "any"), close(0), creat(B, "RDWR", "any"), close(0),
                unlink(A, "any"), unlink(B, "any")>>

bigwrite == <<unlink(A, "any"), creat(A, "RDWR", "ok"), write(0, MAXFILE, "ok"),
              write(0, MAXFILE, "ok"), close(0), unlink(A, "any")>>

bigfile == <<unlink(A, "any"), creat(A, "RDWR", "ok"), write(0, 3, "ok"), write(0, 3, "ok"),
             write(0, 3, "ok"), close(0), open(A, "RDONLY", "ok"), read(0, 3, "ok"),
             read(0, 3, "ok"), read(0, 3, "ok"), read(0, 1, "no"), close(0), unlink(A, "any")>>

unlinkread ==
  <<creat(A, "RDWR", "ok"), write(0, 2, "any"), close(0), open(A, "RDWR", "ok"), unlink(A, "ok"),
    creat(A, "RDWR", "any"), write(1, 1, "any"), close(1), read(0, 2, "ok"), write(0, 3, "ok"),
    close(0), unlink(A, "any")>>

linktest ==
  <<unlink(A, "any"), unlink(B, "any"), creat(A, "RDWR", "ok"), write(0, 2, "ok"), close(0),
    link(A, B, "ok"), unlink(A, "any"), open(A, "RDONLY", "no"), open(B, "RDONLY", "ok"),
    read(0, 2, "ok"), close(0), link(B, B, "no"), unlink(B, "any"), link(B, A, "no"),
    link(Dot, A, "no")>>

bigdir == <<unlink(A, "any"), creat(A, "RDONLY", "ok"), close(0), link(A, B, "ok"), link(A, C, "ok"),
            unlink(A, "any"), unlink(B, "ok"), unlink(C, "ok")>>

-----------------------------------------------------------------------------
(* Files shared by processes *)

\* The bytes of both processes arrive: four written, four there to read.
sharedfd ==
  <<unlink(A, "any"), creat(A, "RDWR", "ok"), fork(<<write(0, 1, "ok"), write(0, 1, "ok")>>, "any"),
    write(0, 1, "ok"), write(0, 1, "ok"), wait("any"), close(0), open(A, "RDONLY", "ok"),
    readall(0, 1, 4, "ok"), close(0), unlink(A, "any")>>

\* Two of the four processes.
fourfiles ==
  LET child(f) == <<creat(f, "RDWR", "ok"), write(0, 3, "ok")>>
      verify(f) == <<open(f, "RDONLY", "any"), read(0, 3, "ok"), read(0, 1, "no"), close(0),
                    unlink(f, "any")>>
  IN  <<unlink(A, "any"), fork(child(A), "ok"), unlink(B, "any"), fork(child(B), "ok"),
        wait("any"), wait("any")>> \o verify(A) \o verify(B)

createdelete ==
  LET child(f) == <<creat(f, "RDWR", "ok"), close(0)>> IN
      <<fork(child(A) \o child(C) \o <<unlink(A, "ok")>>, "ok"),
        fork(child(B) \o <<unlink(B, "ok")>>, "ok"),
        wait("any"), wait("any"), open(A, "RDONLY", "no"), open(C, "RDONLY", "ok"), close(0),
        open(B, "RDONLY", "no"), unlink(C, "any")>>

\* A round in which the parent links and the child creates, and the last part.
concreate ==
  LET opens == <<open(B, "RDONLY", "any"), close(0), open(B, "RDONLY", "any"), close(0)>> IN
  <<creat(A, "RDWR", "ok"), close(0), unlink(B, "any"),
    fork(<<creat(B, "RDWR", "ok"), close(0)>>, "any"), link(A, B, "any"), wait("any"),
    open(B, "RDONLY", "ok"), close(0),
    fork(<<unlink(B, "any"), unlink(B, "any")>>, "ok")>> \o opens \o <<wait("any")>>

\* The calls of one round of linkunlink, which a random number chooses from.
LinkUnlink == {<<creat(A, "RDWR", "any"), close(0)>>, <<link(rel(<<"echo">>), A, "any")>>,
               <<unlink(A, "any")>>}
linkunlink(parent, child) ==
  <<unlink(A, "any"), fork(child, "ok")>> \o parent \o <<wait("any")>>

\* stressfs with two processes; the child is the one that goes on to fork.
stressfs ==
  LET body(f) == <<creat(f, "RDWR", "any"), write(0, 2, "any"), close(0),
                   open(f, "RDONLY", "any"), read(0, 2, "any"), close(0), wait("any")>>
  IN  <<fork(body(B), "any")>> \o body(A)

-----------------------------------------------------------------------------
(* Processes, pipes and memory *)

exectest == <<call("exec", rel(<<"echo">>), "ok")>>

\* The size of the reads does not grow.
pipe1 ==
  <<call("pipe", 0, "ok"), fork(<<close(ReadEnd)>> \o Rep(2, <<write(WriteEnd, 3, "ok")>>), "ok"),
    close(WriteEnd), readall(ReadEnd, 2, 6, "ok"), close(ReadEnd), wait("any")>>

\* slot(k): the slot of the test's k-th child.
preempt(slot) ==
  <<fork(<<spin>>, "any"), call("pipe", 0, "any"),
    fork(<<close(ReadEnd), write(WriteEnd, 1, "ok"), close(WriteEnd), spin>>, "any"),
    close(WriteEnd), readsome(ReadEnd, 3, 1, "ok"), close(ReadEnd),
    call("kill", slot[1], "any"), call("kill", slot[2], "any"), wait("any"), wait("any")>>

exitwait == Rep(2, <<fork(<< >>, "ok"), wait("ok")>>)

\* The child asks for memory until there is none, and frees all of it.  free keeps it,
\* so the last malloc asks the kernel again only if the first one got nothing; if that
\* fails, too, the child kills its parent.
mem ==
  LET more(e) == call("sbrk", 4, e)
      last == Or(more("ok"), <<call("kill", 2, "any")>>)
  IN  <<fork(<<Or(more("must"), <<last>>), more("any"), more("any")>>, "any"), wait("any")>>

forktest(n) == Rep(n, <<fork(<< >>, "ok")>>) \o <<fork(<< >>, "no")>> \o Rep(n, <<wait("ok")>>)
               \o <<wait("no")>>

\* Growing, a fork in between, shrinking, a child that reads the kernel's memory, and
\* one that asks for all memory and sleeps until it is killed.
sbrktest(slot, big) ==
  <<call("sbrk", 1, "ok"), fork(<<call("sbrk", 1, "ok")>>, "ok"), call("sbrk", 1, "ok"), wait("any"),
    call("sbrk", -1, "ok"), call("sbrk", 1, "ok"), call("sbrk", -2, "ok"),
    fork(<<call("fault", 0, "any"), call("kill", 2, "any")>>, "ok"), wait("any"),
    call("pipe", 0, "ok"),
    fork(<<call("sbrk", big, "any"), write(WriteEnd, 1, "any"), call("sleep", 3, "any"), spin>>, "any"),
    read(ReadEnd, 1, "any"), call("sbrk", 1, "ok"), call("kill", slot[1], "any"), wait("any"),
    call("sbrk", -1, "any")>>

validatetest(slot) ==
  <<fork(<<call("fault", 0, "any")>>, "any"), call("sleep", 0, "any"), call("sleep", 0, "any"),
    call("kill", slot[1], "any"), wait("any"), link(A, B, "no")>>

uio == <<fork(<<call("fault", 0, "any")>>, "ok"), wait("any")>>

zombie == <<fork(<< >>, "must"), call("sleep", 2, "any")>>

multithread == <<call("sbrk", 1, "any"), call("clone", << >>, "any"), call("clone", << >>, "any"),
                 wait("any"), wait("any")>>
=============================================================================

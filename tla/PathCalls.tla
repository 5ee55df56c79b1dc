----------------------------- MODULE PathCalls ------------------------------
(***************************************************************************)
(* The system calls of sysfile.c that take a path: open, mkdir, mknod,     *)
(* link, unlink and chdir.  Each begins a transaction and looks a path up; *)
(* what follows is cut where the code takes an inode's lock, because other *)
(* processes change directories and links in between.                      *)
(***************************************************************************)
EXTENDS Files

restVars == <<vm, fileVars>>

\* A call that starts with a lookup, followed by these steps.
Lookup(p, s, steps) == /\ ino' = iget(ino, s.ip)
                       /\ proc' = Enter(p, <<s>> \o steps)
                       /\ UNCHANGED <<bits, wrote, restVars>>

\* Nothing was found, or the call is refused: p drops i (0: nothing) and ends.
GiveUp(P, p, i) == Fail(Go(P, p, IF i = 0 THEN <<end_op>> ELSE <<iput(i), end_op>>), p)

-----------------------------------------------------------------------------
(* create *)

\* Mutant: the link count of a new inode is not set.
NewInodeNoLink(type) == [FreeInode EXCEPT !.type = type, !.ref = 1, !.valid = TRUE]
NewInode(type) == [FreeInode EXCEPT !.type = type, !.ref = 1, !.valid = TRUE, !.nlink = 1]

EmptyDir(i, d) == [n \in Entries |-> IF n = "." THEN i ELSE IF n = ".." THEN d ELSE 0]

\* create once the parent d is known: it looks the name up under d's lock and, if it
\* is new, makes the inode, which stays locked.
Create(p) ==
  /\ At(p, "create")
  /\ LET d == Top(p).ip  n == Top(p).x.n  t == Top(p).x.t IN
       \/ /\ d = 0
          /\ proc' = Pass(proc, p, 0, << >>)
          /\ UNCHANGED diskVars
       \/ /\ d # 0 /\ Lockable(d) /\ ino[d].dir[n] # 0
          /\ ino' = iget(Loaded(ino, d), ino[d].dir[n])
          /\ proc' = Go(proc, p, <<iput(d), St("created", ino[d].dir[n], t)>>)
          /\ UNCHANGED <<bits, wrote>>
       \/ /\ d # 0 /\ Lockable(d) /\ ino[d].dir[n] = 0
          /\ FreeInums # {} /\ bits # 1 .. NBLOCKS       \* else the kernel panics
          /\ LET i == ialloc  b == balloc(1)[1]
                 new == [NewInode(t) EXCEPT !.ref = ino[i].ref + 1, !.lock = p,
                                            !.stray = ino[d].nlink = 0]
                 dir == [new EXCEPT !.dir = EmptyDir(i, d),
                                    !.addrs = <<b>>, !.size = BSIZE]
                 I == dirlink(Loaded(ino, d), d, n, i)
             IN  /\ proc' = Pass(proc, p, i, <<iput(d)>>)
                 /\ \/ /\ t = "DIR"
                       /\ ino' = [I EXCEPT ![i] = dir, ![d].nlink = @ + 1,
                                           ![d].stray = @ \/ ino[d].nlink = 0]
                       /\ bits' = bits \cup {b}
                       /\ LogWrite(p, {InodeBlock(i), InodeBlock(d), BitmapBlock, DataBlock(b),
                                       DataBlock(ino[d].addrs[1])})
                    \/ /\ t # "DIR"
                       /\ ino' = [I EXCEPT ![i] = new]
                       /\ LogWrite(p, {InodeBlock(i), DataBlock(ino[d].addrs[1])})
                       /\ UNCHANGED bits
  /\ UNCHANGED restVars

\* The name exists: only an open with O_CREATE of a file is content with that.
Created(p) ==
  /\ At(p, "created")
  /\ LET i == Top(p).ip IN
       /\ Lockable(i)
       /\ \/ /\ Top(p).x = "FILE" /\ ino[i].type = "FILE"
             /\ ino' = ilock(ino, i, p)
             /\ proc' = Pass(proc, p, i, << >>)
          \/ /\ ~(Top(p).x = "FILE" /\ ino[i].type = "FILE")
             /\ ino' = Loaded(ino, i)
             /\ proc' = Pass(proc, p, 0, <<iput(i)>>)
  /\ UNCHANGED <<bits, wrote, restVars>>

sys_mkdir(p) ==
  /\ \E t \in {"DIR", "DEV"} :
       /\ Calls(p, IF t = "DIR" THEN "mkdir" ELSE "mknod")
       /\ Lookup(p, nameiparent(p, Call(p).a),
                 <<St("create", 0, [n |-> NameOf(Call(p).a), t |-> t]), St("made", 0, 0)>>)

Made(p) ==
  /\ At(p, "made")
  /\ LET i == Top(p).ip IN
       \/ /\ i = 0
          /\ proc' = GiveUp(proc, p, 0)
          /\ UNCHANGED ino
       \/ /\ i # 0
          /\ ino' = iunlock(ino, i)
          /\ proc' = Go(proc, p, <<iput(i), end_op>>)
  /\ UNCHANGED <<bits, wrote, restVars>>

-----------------------------------------------------------------------------
(* open *)

sys_open(p) ==
  /\ Calls(p, "open")
  /\ LET a == Call(p).a IN
       IF a.create
       THEN Lookup(p, nameiparent(p, a.path),
                   <<St("create", 0, [n |-> NameOf(a.path), t |-> "FILE"]),
                     St("opened", 0, a.mode)>>)
       ELSE Lookup(p, namei(p, a.path), <<St("open", 0, a.mode)>>)

\* The second half of sys_open, with inode i locked (in I) until a file and a
\* descriptor are allocated for it.
OpenFile(p, I, i, mode) ==
  \/ /\ FreeFiles = {} \/ FreeFds(p) = {}
     /\ ino' = iunlock(I, i)
     /\ proc' = GiveUp(proc, p, i)
     /\ UNCHANGED file
  \/ /\ FreeFiles # {} /\ FreeFds(p) # {}
     /\ ino' = iunlock(I, i)
     /\ file' = [file EXCEPT ![Min(FreeFiles)] =
                   [ref |-> 1, type |-> "INODE", obj |-> i, off |-> 0,
                    readable |-> mode # "WRONLY", writable |-> mode # "RDONLY"]]
     /\ proc' = [Go(proc, p, <<end_op>>) EXCEPT ![p].ofile[Min(FreeFds(p))] = Min(FreeFiles)]

Opened(p) ==
  /\ At(p, "opened")
  /\ LET i == Top(p).ip IN
       \/ /\ i = 0
          /\ proc' = GiveUp(proc, p, 0)
          /\ UNCHANGED <<ino, file>>
       \/ /\ i # 0
          /\ OpenFile(p, ino, i, Top(p).x)
  /\ UNCHANGED <<bits, wrote, vm, pipe, cons, lock, stream>>

Open(p) ==
  /\ At(p, "open")
  /\ LET i == Top(p).ip  mode == Top(p).x IN
       \/ /\ i = 0
          /\ proc' = GiveUp(proc, p, 0)
          /\ UNCHANGED <<ino, file>>
       \/ /\ i # 0 /\ Lockable(i) /\ ino[i].type = "DIR" /\ mode # "RDONLY"
          /\ ino' = Loaded(ino, i)
          /\ proc' = GiveUp(proc, p, i)
          /\ UNCHANGED file
       \/ /\ i # 0 /\ Lockable(i) /\ ~(ino[i].type = "DIR" /\ mode # "RDONLY")
          /\ OpenFile(p, Loaded(ino, i), i, mode)
  /\ UNCHANGED <<bits, wrote, vm, pipe, cons, lock, stream>>

-----------------------------------------------------------------------------
(* link *)

sys_link(p) == /\ Calls(p, "link")
               /\ Lookup(p, namei(p, Call(p).a.old), <<St("link1", 0, Call(p).a.new)>>)

\* The link is counted before it is made, and the new path is looked up after.
Link1(p) ==
  /\ At(p, "link1")
  /\ LET i == Top(p).ip  new == Top(p).x  s == nameiparent(p, new) IN
       \/ /\ i = 0
          /\ proc' = GiveUp(proc, p, 0)
          /\ UNCHANGED <<ino, wrote>>
       \/ /\ i # 0 /\ Lockable(i) /\ ino[i].type = "DIR"
          /\ ino' = Loaded(ino, i)
          /\ proc' = GiveUp(proc, p, i)
          /\ UNCHANGED wrote
       \/ /\ i # 0 /\ Lockable(i) /\ ino[i].type # "DIR"
          /\ ino' = iget([Loaded(ino, i) EXCEPT ![i].nlink = @ + 1], s.ip)
          /\ LogWrite(p, {InodeBlock(i)})
          /\ proc' = Go(proc, p, <<s, [St("link2", 0, NameOf(new)) EXCEPT !.dp = i]>>)
  /\ UNCHANGED <<bits, restVars>>

\* Here the step's ip is the directory, its dp the inode linked to.  dirlink drops the
\* inode it finds under the name while the directory is still locked.
Link2(p) ==
  /\ At(p, "link2")
  /\ LET d == Top(p).ip  i == Top(p).dp  n == Top(p).x  bad == St("linkbad", i, 0) IN
       \/ /\ d = 0
          /\ proc' = Go(proc, p, <<bad>>)
          /\ UNCHANGED <<ino, wrote>>
       \/ /\ d # 0 /\ Lockable(d) /\ ino[d].dir[n] # 0
          /\ ino' = iget(ilock(ino, d, p), ino[d].dir[n])
          /\ proc' = Go(proc, p, <<iput(ino[d].dir[n]), St("iunlockput", d, 0), bad>>)
          /\ UNCHANGED wrote
       \/ /\ d # 0 /\ Lockable(d) /\ ino[d].dir[n] = 0
          /\ ino' = [dirlink(Loaded(ino, d), d, n, i) EXCEPT ![i].stray = @ \/ ino[d].nlink = 0]
          /\ LogWrite(p, {DataBlock(ino[d].addrs[1])})
          /\ proc' = Go(proc, p, <<iput(d), iput(i), end_op>>)
  /\ UNCHANGED <<bits, restVars>>

LinkBad(p) ==
  /\ At(p, "linkbad")
  /\ LET i == Top(p).ip IN
       /\ Lockable(i)
       /\ ino' = [Loaded(ino, i) EXCEPT ![i].nlink = @ - 1]
       /\ LogWrite(p, {InodeBlock(i)})
       /\ proc' = GiveUp(proc, p, i)
  /\ UNCHANGED <<bits, restVars>>

-----------------------------------------------------------------------------
(* unlink *)

sys_unlink(p) ==
  /\ Calls(p, "unlink")
  /\ Lookup(p, nameiparent(p, Call(p).a), <<St("unlink1", 0, NameOf(Call(p).a))>>)

Unlink1(p) ==
  /\ At(p, "unlink1")
  /\ LET d == Top(p).ip  n == Top(p).x IN
       \/ /\ d = 0
          /\ proc' = GiveUp(proc, p, 0)
          /\ UNCHANGED ino
       \/ /\ d # 0 /\ Lockable(d) /\ (n \in {".", ".."} \/ ino[d].dir[n] = 0)
          /\ ino' = Loaded(ino, d)
          /\ proc' = GiveUp(proc, p, d)
       \/ /\ d # 0 /\ Lockable(d) /\ n \notin {".", ".."} /\ ino[d].dir[n] # 0
          /\ ino' = iget(ilock(ino, d, p), ino[d].dir[n])
          /\ proc' = Go(proc, p, <<[St("unlink2", ino[d].dir[n], n) EXCEPT !.dp = d]>>)
  /\ UNCHANGED <<bits, wrote, restVars>>

Removable(i) == ino[i].type = "DIR" => isdirempty(i)

\* With the directory and the inode locked: the entry goes, then the directory's lock.
Unlink2(p) ==
  /\ At(p, "unlink2")
  /\ LET i == Top(p).ip  d == Top(p).dp  n == Top(p).x IN
       /\ Lockable(i)
       /\ \/ /\ ~Removable(i)
             /\ ino' = Loaded(ino, i)
             /\ proc' = Fail(Go(proc, p, <<iput(i), St("iunlockput", d, 0), end_op>>), p)
             /\ UNCHANGED wrote
          \/ /\ Removable(i)
             /\ ino' = [iunlock(dirlink(ilock(ino, i, p), d, n, 0), d)
                          EXCEPT ![d].nlink = IF ino[i].type = "DIR" THEN @ - 1 ELSE @]
             /\ LogWrite(p, {DataBlock(ino[d].addrs[1])} \cup
                            (IF ino[i].type = "DIR" THEN {InodeBlock(d)} ELSE {}))
             /\ proc' = Go(proc, p, <<iput(d), St("unlink3", i, 0)>>)
  /\ UNCHANGED <<bits, restVars>>

Unlink3(p) ==
  /\ At(p, "unlink3")
  /\ LET i == Top(p).ip IN
       /\ ino' = [iunlock(ino, i) EXCEPT ![i].nlink = @ - 1]
       /\ LogWrite(p, {InodeBlock(i)})
       /\ proc' = Go(proc, p, <<iput(i), end_op>>)
  /\ UNCHANGED <<bits, restVars>>

-----------------------------------------------------------------------------
(* chdir *)

sys_chdir(p) == /\ Calls(p, "chdir")
                /\ Lookup(p, namei(p, Call(p).a), <<St("chdir", 0, 0)>>)

\* The old directory's reference is dropped, and the new one takes its place.
Chdir(p) ==
  /\ At(p, "chdir")
  /\ LET i == Top(p).ip IN
       \/ /\ i = 0
          /\ proc' = GiveUp(proc, p, 0)
          /\ UNCHANGED ino
       \/ /\ i # 0 /\ Lockable(i) /\ ino[i].type # "DIR"
          /\ ino' = Loaded(ino, i)
          /\ proc' = GiveUp(proc, p, i)
       \/ /\ i # 0 /\ Lockable(i) /\ ino[i].type = "DIR"
          /\ ino' = Loaded(ino, i)
          /\ proc' = [Go(proc, p, <<iput(proc[p].cwd), end_op>>) EXCEPT ![p].cwd = i]
  /\ UNCHANGED <<bits, wrote, restVars>>

PathStep(p) == \/ sys_open(p) \/ sys_mkdir(p) \/ sys_link(p) \/ sys_unlink(p) \/ sys_chdir(p)
               \/ Create(p) \/ Created(p) \/ Made(p) \/ Open(p) \/ Opened(p)
               \/ Link1(p) \/ Link2(p) \/ LinkBad(p) \/ Unlink1(p) \/ Unlink2(p) \/ Unlink3(p)
               \/ Chdir(p)
=============================================================================

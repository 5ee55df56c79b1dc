-------------------------------- MODULE WMap --------------------------------
(***************************************************************************)
(* p4's memory mappings: wmap, wunmap and wremap (sysproc.c), the page     *)
(* fault handler (trap.c) and what fork, exit, exec and wait do to         *)
(* mappings (proc.c, exec.c, vm.c), for processes that map one open file   *)
(* and anonymous memory.                                                   *)
(*                                                                         *)
(* Addresses and sizes count pages.  Address 0 stands for 0x60000000 and   *)
(* W for 0x80000000; MAP_FIXED addresses are inside this window.  A        *)
(* process's page tables, kernel stack and program are one page of the     *)
(* pool, its image.  A system call is one step, as its process is the only *)
(* user of what it changes; exit is one step for each mapping.             *)
(*                                                                         *)
(* halted is a panic.  filewrite through the null file of an anonymous     *)
(* mapping takes the program's first bytes for a struct file: it fails or  *)
(* panics, whatever they are, and both are allowed (lucky).                *)
(***************************************************************************)
EXTENDS Integers, Sequences, FiniteSets, FiniteSetsExt, SequencesExt

CONSTANTS Procs,      \* slots of the process table; 1 is initproc
          W,          \* pages in the window of the mappings
          SZ,         \* pages of a program
          NPAGES,     \* pages of physical memory
          MAXFILE,    \* pages a file can have
          readable,   \* the file was opened for reading,
          writable,   \* for writing
          MAX_UPAGE_INFO, MAX_WMMAP_INFO, \* what getpgdirinfo, getwmapinfo can report
          MaxLength,  \* bound on a mapping's length
          Kinds,      \* mappings used: [shared : BOOLEAN, file : BOOLEAN]
          Fixed,      \* addresses used with MAP_FIXED
          Mappers,    \* processes that map, unmap, remap, fork and exec
          MaxCalls    \* bound on the number of those calls

initproc == 1

ASSUME WMapAssumption ==
  /\ {1, 2} \subseteq Procs /\ Procs \subseteq Nat \ {0} /\ IsFiniteSet(Procs)
  /\ readable \in BOOLEAN /\ writable \in BOOLEAN
  /\ MAX_UPAGE_INFO \in Nat /\ MAX_WMMAP_INFO \in Nat
  /\ W \in Nat /\ SZ \in Nat \ {0} /\ NPAGES \in Nat /\ NPAGES >= 2
  /\ MAXFILE \in Nat \ {0} /\ MaxLength \in Nat \ {0}
  /\ Kinds \subseteq [shared : BOOLEAN, file : BOOLEAN] /\ Fixed \subseteq 0 .. W - 1

VARIABLES m,         \* the machine: process table, memory and file
          calls,     \* calls made so far
          last,      \* observed: last[k], what was last stored in page k of the file
          upset      \* observed: what has happened that some property excludes

vars == <<m, calls, last, upset>>

Pages   == 1 .. NPAGES
Virtual == 0 .. W - 1 + MaxLength
Lengths == 1 .. MaxLength
Prog    == 9                                  \* contents of a page of a program
NoPte   == [page |-> 0, w |-> FALSE]
Unused  == [state |-> "UNUSED", parent |-> 0, image |-> 0, mmaps |-> << >>,
            pte |-> [v \in Virtual |-> NoPte], fd |-> FALSE]
FilePages == 0 .. MAXFILE - 1

\* init, and a process that has the file open.
Init == /\ m = [proc |-> [p \in Procs |->
                   CASE p = 1 -> [Unused EXCEPT !.state = "RUNNABLE", !.image = 1]
                     [] p = 2 -> [Unused EXCEPT !.state = "RUNNABLE", !.image = 2,
                                                !.parent = initproc, !.fd = TRUE]
                     [] OTHER -> Unused],
                free |-> Pages \ {1, 2},
                data |-> [g \in Pages |-> 0],
                file |-> [ref |-> 1, off |-> 0, size |-> 1, page |-> [k \in FilePages |-> 0]],
                halted |-> FALSE]
        /\ calls = 0 /\ last = [k \in FilePages |-> 0] /\ upset = {}

\* A loop of n rounds, numbered from 0.
Loop(n, start, Round(_, _)) ==
  LET F[k \in 0 .. n] == IF k = 0 THEN start ELSE Round(F[k - 1], k - 1) IN F[n]

-----------------------------------------------------------------------------
(* Memory and the file *)

panic(s) == [s EXCEPT !.halted = TRUE]

\* kalloc, if Full(s) does not hold: NewPage(s) and the state without it.
Full(s)    == s.free = {}
NewPage(s) == Min(s.free)
kalloc(s)  == [s EXCEPT !.free = @ \ {Min(@)}]
kfree(s, g) == [s EXCEPT !.free = @ \cup {g}, !.data[g] = 0]      \* filled with junk

\* Mutant: no reference is counted.
filedupNot(s) == s

filedup(s) == IF s.file.ref < 1 THEN panic(s) ELSE [s EXCEPT !.file.ref = @ + 1]
fileclose(s) == IF s.file.ref < 1 THEN panic(s) ELSE [s EXCEPT !.file.ref = @ - 1]

\* filewrite of one page at the file's offset; writei refuses a hole or too much.
filewrite(s, x) ==
  LET k == s.file.off IN
  IF ~writable THEN s
  ELSE IF s.file.ref < 1 THEN panic(s)
  ELSE IF k > s.file.size \/ k >= MAXFILE THEN s
  ELSE [s EXCEPT !.file.page[k] = x, !.file.off = k + 1,
                 !.file.size = IF k = s.file.size THEN k + 1 ELSE @]

\* me->file->off = i, then filewrite, for an entry that may have no file.
WriteBack(s, e, i, x, lucky) ==
  IF e.file THEN filewrite([s EXCEPT !.file.off = i], x)
  ELSE IF lucky THEN s ELSE panic(s)

\* Mutant: the entry of a page that has been freed stays.
ClearPteKeep(s, p, v) == s

ClearPte(s, p, v) == [s EXCEPT !.proc[p].pte[v] = NoPte]

\* The page at v is freed and its entry cleared.
DropPage(s, p, v) == ClearPte(kfree(s, s.proc[p].pte[v].page), p, v)

deallocuvm(s, p) ==
  LET gone == {s.proc[p].pte[v].page : v \in Virtual} \ {0} IN
  [s EXCEPT !.free = @ \cup gone, !.proc[p].pte = Unused.pte,
            !.data = [g \in Pages |-> IF g \in gone THEN 0 ELSE @[g]]]

-----------------------------------------------------------------------------
(* The page fault handler *)

Covers(e, v) == v >= e.addr /\ v < e.addr + e.length

\* Positions in p's list of the entries that cover v; the handler takes the first.
Entries(s, p, v) == {i \in 1 .. Len(s.proc[p].mmaps) : Covers(s.proc[p].mmaps[i], v)}

kill(s, p) == [s EXCEPT !.proc[p].state = "EXITING"]

\* fileread of a page at k, unless ReadFails: at the end it reads nothing.
ReadFails(s, k) == ~readable \/ k > s.file.size
fileread(s, k) == [s EXCEPT !.file.off = IF k < s.file.size THEN k + 1 ELSE k]

\* T_PGFLT; a process that was killed exits on its way back to user mode.  mappages
\* panics where a page is mapped, as the kernel's pages are from W on.
PageFault(s, p, v) ==
  LET e == s.proc[p].mmaps[Min(Entries(s, p, v))]
      i == Min(Entries(s, p, v))
      k == v - e.addr
      g == NewPage(s)
      r == IF e.file THEN fileread(s, k) ELSE s
      x == IF e.file /\ k < s.file.size THEN s.file.page[k] ELSE 0
  IN  IF Entries(s, p, v) = {} \/ Full(s) THEN kill(s, p)
      ELSE IF e.file /\ readable /\ s.file.ref < 1 THEN panic(s)
      ELSE IF e.file /\ ReadFails(s, k) THEN kill([s EXCEPT !.file.off = k], p)
      ELSE IF v >= W \/ s.proc[p].pte[v] # NoPte THEN panic(s)
      ELSE [kalloc(r) EXCEPT !.data[g] = x,
                             !.proc[p].pte[v] = [page |-> g, w |-> TRUE],
                             !.proc[p].mmaps[i].loaded = @ + 1]

-----------------------------------------------------------------------------
(* wmap, wunmap, wremap *)

Overlaps(e, addr, length) == addr < e.addr + e.length /\ addr + length > e.addr
Free(ms, addr, length) == \A i \in 1 .. Len(ms) : ~Overlaps(ms[i], addr, length)

\* The search for an address jumps to the end of an entry it overlaps, so it finds the
\* lowest address that fits, or leaves the window.
FirstFit(ms, length) == Min({a \in 0 .. W : Free(ms, a, length) \/ a + length > W})

\* The PTEs of a private mapping that exist are made read-only.  (Where there is no page
\* table the null pointer is followed, which clears a bit of the program's first word.)
ReadOnly(s, p, addr, length) ==
  [s EXCEPT !.proc[p].pte = [v \in Virtual |->
     IF v \in addr .. addr + length - 1 THEN [@[v] EXCEPT !.w = FALSE] ELSE @[v]]]

\* A MAP_FIXED address, or -1.  wmap takes a reference to the file first and gives it
\* back if it fails.
sys_wmap(s, p, fixed, length, kind) ==
  LET ms   == s.proc[p].mmaps
      addr == IF fixed = -1 THEN FirstFit(ms, length) ELSE fixed
      f    == IF kind.file THEN filedup(s) ELSE s
      e    == [page |-> NewPage(s), addr |-> addr, length |-> length, shared |-> kind.shared,
               file |-> kind.file, mapping_process |-> p, loaded |-> 0]
      u    == [kalloc(f) EXCEPT !.proc[p].mmaps = <<e>> \o @]
  IN  IF kind.file /\ ~s.proc[p].fd THEN s
      ELSE IF f.halted THEN f
      ELSE IF
         \/ fixed = -1 /\ addr + length > W
         \/ fixed # -1 /\ ~Free(ms, addr, length)
         \/ Full(s)
      THEN s
      ELSE IF kind.shared THEN u ELSE ReadOnly(u, p, addr, length)

\* Mutant: a page is written to the file where the one before it ended.
UnmapSharedNoSeek(s, p, e, lucky) ==
  Loop(e.length, s, LAMBDA t, i :
    LET x == t.proc[p].pte[e.addr + i] IN
    IF x = NoPte THEN t
    ELSE DropPage(IF x.w THEN WriteBack(t, e, t.file.off, t.data[x.page], lucky) ELSE t,
                  p, e.addr + i))

UnmapShared(s, p, e, lucky) ==
  Loop(e.length, s, LAMBDA t, i :
    LET x == t.proc[p].pte[e.addr + i] IN
    IF x = NoPte THEN t
    ELSE DropPage(IF x.w THEN WriteBack(t, e, i, t.data[x.page], lucky) ELSE t, p, e.addr + i))

\* A private mapping's PTEs are cleared and its pages lost.
UnmapPrivate(s, p, e) ==
  [s EXCEPT !.proc[p].pte = [v \in Virtual |-> IF Covers(e, v) THEN NoPte ELSE @[v]]]

sys_wunmap(s, p, i, lucky) ==
  LET e == s.proc[p].mmaps[i]
      t == IF ~e.shared THEN UnmapPrivate(s, p, e)
           ELSE LET u == UnmapShared(s, p, e, lucky) IN IF e.file THEN fileclose(u) ELSE u
  IN  kfree([t EXCEPT !.proc[p].mmaps = RemoveAt(@, i)], e.page)

\* A page the kernel touches is loaded by the fault handler.  If that only marks the
\* process killed, the same instruction faults again, for ever.
Touch(s, p, v, write) ==
  IF s.halted \/ s.proc[p].state # "RUNNABLE" THEN s
  ELSE IF s.proc[p].pte[v] # NoPte /\ (write => s.proc[p].pte[v].w) THEN s
  ELSE LET t == PageFault(s, p, v) IN
       IF t.proc[p].state = "EXITING" THEN [t EXCEPT !.proc[p].state = "STUCK"] ELSE t

\* memmove of the old mapping's contents.
MoveData(s, p, from, to, length) ==
  Loop(length, s, LAMBDA t, i :
    LET u == Touch(Touch(t, p, from + i, FALSE), p, to + i, TRUE) IN
    IF u.halted \/ u.proc[p].state # "RUNNABLE" THEN u
    ELSE [u EXCEPT !.data[u.proc[p].pte[to + i].page] = u.data[u.proc[p].pte[from + i].page]])

\* The pages wremap writes back are those at newsize, newsize + 1, ...: the program's.
WriteProgram(s, e, newsize, lucky) ==
  Loop(newsize, s, LAMBDA t, i : IF newsize + i < SZ THEN WriteBack(t, e, i, Prog, lucky) ELSE t)

\* wremap to a new place; the old one's pages stay mapped, with no entry.
Move(s, p, i, newsize, lucky) ==
  LET e == s.proc[p].mmaps[i]
      addr == FirstFit(s.proc[p].mmaps, newsize)
      n == [e EXCEPT !.page = NewPage(s), !.addr = addr, !.length = newsize,
                     !.mapping_process = p]
      t == MoveData([kalloc(s) EXCEPT !.proc[p].mmaps = <<n>> \o @], p, e.addr, addr, e.length)
      u == IF e.shared THEN WriteProgram(t, e, newsize, lucky) ELSE t
  IN  IF addr + newsize > W \/ Full(s) THEN s
      ELSE IF t.halted \/ t.proc[p].state = "STUCK" THEN t
      ELSE kfree([u EXCEPT !.proc[p].mmaps = RemoveAt(@, i + 1)], e.page)

sys_wremap(s, p, i, newsize, maymove, lucky) ==
  LET ms == s.proc[p].mmaps
      mustmove == /\ newsize > ms[i].length
                  /\ \E j \in 1 .. Len(ms) : j # i /\ ms[j].addr <= ms[i].addr + newsize
  IN  IF ~mustmove THEN [s EXCEPT !.proc[p].mmaps[i].length = newsize]
      ELSE IF maymove THEN Move(s, p, i, newsize, lucky) ELSE s

-----------------------------------------------------------------------------
(* fork, exit, exec, wait *)

\* One round of fork's loop.  The child's page directory has no page table in the window,
\* so a private mapping makes fork fail.
CopyEntry(s, p, np, e) ==
  IF s.proc[np].state = "UNUSED" THEN s
  ELSE IF Full(s) THEN [s EXCEPT !.proc[np].state = "UNUSED", !.proc[np].image = 0]
  ELSE IF ~e.shared THEN [kalloc(s) EXCEPT !.proc[np].state = "UNUSED", !.proc[np].image = 0]
  ELSE [kalloc(s) EXCEPT !.proc[np].mmaps =
          <<[e EXCEPT !.page = NewPage(s), !.mapping_process = 0]>> \o @]

\* When a mapping cannot be copied, the child's memory is lost and the entries copied so
\* far stay with the slot.
fork(s, p) ==
  LET np == Min({q \in Procs : s.proc[q].state = "UNUSED"})
      ms == s.proc[p].mmaps
      t  == [kalloc(s) EXCEPT !.proc[np].state = "EMBRYO", !.proc[np].image = NewPage(s),
                              !.proc[np].pte = Unused.pte]
      u  == Loop(Len(ms), t, LAMBDA a, k : CopyEntry(a, p, np, ms[k + 1]))
      c  == [u EXCEPT !.proc[np].state = "RUNNABLE", !.proc[np].parent = p,
                      !.proc[np].fd = s.proc[p].fd]
  IN  IF u.proc[np].state = "UNUSED" THEN u
      ELSE IF s.proc[p].fd THEN filedup(c) ELSE c

Pop(s, p, e) == kfree([s EXCEPT !.proc[p].mmaps = Tail(@)], e.page)

\* exit's loop: a private mapping is never taken off the list, a shared one's pages go
\* to wherever the file's offset is.
ExitUnmap(s, p, lucky) ==
  LET e == Head(s.proc[p].mmaps)
      Write(t, x) == IF e.file THEN filewrite(t, x) ELSE IF lucky THEN t ELSE panic(t)
      t == Loop(e.length, s, LAMBDA a, i :
             LET x == a.proc[p].pte[e.addr + i] IN
             IF x = NoPte THEN a
             ELSE DropPage(IF e.shared /\ x.w THEN Write(a, a.data[x.page]) ELSE a,
                           p, e.addr + i))
  IN  IF ~e.shared THEN t ELSE Pop(IF e.file THEN fileclose(t) ELSE t, p, e)

\* The rest of exit: the file is closed and init becomes the parent of p's children.
ExitRest(s, p) ==
  LET t == IF s.proc[p].fd THEN fileclose(s) ELSE s IN
  [t EXCEPT !.proc = [q \in Procs |->
     IF q = p THEN [@[q] EXCEPT !.state = "ZOMBIE", !.fd = FALSE]
     ELSE IF @[q].parent = p THEN [@[q] EXCEPT !.parent = initproc] ELSE @[q]]]

\* exec replaces the page table and leaves the list of mappings as it is.
exec(s, p) ==
  kfree([deallocuvm(kalloc(s), p) EXCEPT !.proc[p].image = NewPage(s)], s.proc[p].image)

\* wait reaps p's child q.
wait(s, q) ==
  LET t == kfree(deallocuvm(s, q), s.proc[q].image) IN
  [t EXCEPT !.proc[q].state = "UNUSED", !.proc[q].parent = 0, !.proc[q].image = 0]

-----------------------------------------------------------------------------
\* A panic leaves everything else as it was.
Do(s) == m' = IF s.halted THEN panic(m) ELSE s

Running(p) == ~m.halted /\ p # initproc /\ m.proc[p].state = "RUNNABLE"

Calling(p) == Running(p) /\ p \in Mappers /\ calls < MaxCalls /\ calls' = calls + 1

\* Who refers to the open file: descriptors, and entries of processes that can use them.
Holders == {<<p, 0>> : p \in {q \in Procs : m.proc[q].fd}}
           \cup {h \in Procs \X (1 .. NPAGES) :
                   /\ m.proc[h[1]].state \notin {"UNUSED", "STUCK"}
                   /\ h[2] <= Len(m.proc[h[1]].mmaps) /\ m.proc[h[1]].mmaps[h[2]].file}

Map(p) == /\ Calling(p)
          /\ \E fixed \in Fixed \cup {-1}, length \in Lengths, kind \in Kinds :
               /\ fixed + length <= W /\ Do(sys_wmap(m, p, fixed, length, kind))
               /\ upset' = IF kind.file /\ \E h \in Holders : h[2] # 0
                           THEN upset \cup {"twice"} ELSE upset
          /\ UNCHANGED last

Mapped(p) == 1 .. Len(m.proc[p].mmaps)

Unmap(p) == /\ Calling(p)
            /\ \E i \in Mapped(p), lucky \in BOOLEAN : Do(sys_wunmap(m, p, i, lucky))
            /\ UNCHANGED <<last, upset>>

Remap(p) == /\ Calling(p)
            /\ \E i \in Mapped(p), newsize \in Lengths, maymove \in BOOLEAN, lucky \in BOOLEAN :
                 Do(sys_wremap(m, p, i, newsize, maymove, lucky))
            /\ upset' = IF m' = m THEN upset ELSE upset \cup {"resized"}
            /\ UNCHANGED last

\* The program reads or writes a page that is not there, or writes one it may not.
Fault(p) == /\ Running(p)
            /\ \E v \in Virtual : /\ m.proc[p].pte[v] = NoPte \/ ~m.proc[p].pte[v].w
                                  /\ Do(PageFault(m, p, v))
            /\ UNCHANGED <<calls, last, upset>>

\* The program stores something in a page of a shared mapping of the file.
Store(p) ==
  /\ Running(p)
  /\ \E i \in Mapped(p) :
       LET e == m.proc[p].mmaps[i] IN
       /\ e.shared /\ e.file
       /\ \E k \in 0 .. e.length - 1 :
            LET x == m.proc[p].pte[e.addr + k] IN
            /\ x.w /\ m' = [m EXCEPT !.data[x.page] = 1]
            /\ last' = IF k \in FilePages THEN [last EXCEPT ![k] = 1] ELSE last
  /\ UNCHANGED <<calls, upset>>

Fork(p) == /\ Calling(p) /\ ~Full(m) /\ \E q \in Procs : m.proc[q].state = "UNUSED"
           /\ Do(fork(m, p))
           /\ upset' = IF \E i \in Mapped(p) : m.proc[p].mmaps[i].file
                       THEN upset \cup {"copied"} ELSE upset
           /\ UNCHANGED last

Exec(p) == /\ Calling(p) /\ ~Full(m) /\ Do(exec(m, p))
           /\ upset' = upset \cup {"resized"} /\ UNCHANGED last

Exit(p) == /\ Running(p) /\ Do(kill(m, p)) /\ UNCHANGED <<calls, last, upset>>

ExitStep(p) ==
  /\ ~m.halted /\ m.proc[p].state = "EXITING"
  /\ IF m.proc[p].mmaps # << >> THEN \E lucky \in BOOLEAN : Do(ExitUnmap(m, p, lucky))
                                ELSE Do(ExitRest(m, p))
  /\ upset' = upset \cup {"exited"} /\ UNCHANGED <<calls, last>>

Wait(p) == /\ ~m.halted /\ m.proc[p].state = "RUNNABLE"
           /\ \E q \in Procs : /\ m.proc[q].state = "ZOMBIE" /\ m.proc[q].parent = p
                               /\ Do(wait(m, q))
           /\ UNCHANGED <<calls, last, upset>>

\* Nothing runs after a panic, or when init is alone.
Quiet == /\ m.halted \/ \A p \in Procs \ {initproc} : m.proc[p].state \notin {"RUNNABLE", "EXITING"}
         /\ UNCHANGED vars

Next == \/ \E p \in Procs : \/ Map(p) \/ Unmap(p) \/ Remap(p) \/ Fault(p) \/ Store(p)
                            \/ Fork(p) \/ Exec(p) \/ Exit(p) \/ ExitStep(p) \/ Wait(p)
        \/ Quiet

Spec == Init /\ [][Next]_vars

\* A process in exit is scheduled again and again.
FairSpec == Spec /\ \A p \in Procs \ {initproc} : WF_vars(ExitStep(p))

-----------------------------------------------------------------------------
(* Properties *)

\* Every use of a page of physical memory: an image, an entry of a list, a PTE.
Uses == {u \in {<<p, "image", 0, m.proc[p].image>> : p \in Procs}
                 \cup {<<p, "pte", v, m.proc[p].pte[v].page>> : p \in Procs, v \in Virtual}
                 \cup UNION {{<<p, "entry", i, m.proc[p].mmaps[i].page>> : i \in Mapped(p)} : p \in Procs}
           : u[4] # 0}

\* However mappings are made, moved, copied by fork and torn down, and although pages
\* are lost, no page is used twice or used and free: in particular none is freed twice.
PagesSound ==
  LET Used == {u[4] : u \in Uses}
  IN  Used \cap m.free = {} /\ Cardinality(Used) = Cardinality(Uses)

\* The file is not closed under anybody who refers to it, and fileclose's panic is not
\* reached, as long as fork has not copied a mapping of the file.
RefsCounted == m.file.ref >= Cardinality(Holders)
FileAlive == "copied" \in upset \/ RefsCounted

\* What p's pages in the window are, and what getwmapinfo and getpgdirinfo say: the first
\* entries of the list, and the first of the pages it may use, which begin with those of
\* its program but for the guard page.
Upages(p) == {v \in Virtual : m.proc[p].pte[v] # NoPte}
sys_getwmapinfo(p) ==
  [i \in {j \in Mapped(p) : j <= MAX_WMMAP_INFO} |-> m.proc[p].mmaps[i].loaded]
sys_getpgdirinfo(p) ==
  {v \in Upages(p) : SZ - 1 + Cardinality({u \in Upages(p) : u < v}) < MAX_UPAGE_INFO}

\* What getwmapinfo reports of a mapping p made and what getpgdirinfo lists of its pages.
Agree(p, i) ==
  LET e == m.proc[p].mmaps[i]
      listed == Cardinality({v \in sys_getpgdirinfo(p) : Covers(e, v)})
  IN  e.mapping_process = p /\ m.proc[p].state = "RUNNABLE" =>
        /\ listed <= sys_getwmapinfo(p)[i]
        /\ SZ - 1 + Cardinality(Upages(p)) <= MAX_UPAGE_INFO => listed = sys_getwmapinfo(p)[i]

\* For a mapping this process made, if nobody has used wremap or exec, getpgdirinfo lists
\* as many pages as getwmapinfo says are loaded, or fewer, if its array is too small.
InfoTrue ==
  "resized" \in upset \/ \A p \in Procs \ {initproc} : \A i \in DOMAIN sys_getwmapinfo(p) : Agree(p, i)

\* The same after wremap and exec too: n_loaded_pages is the "number of pages physically
\* loaded into memory", says wmap.h.  TLC refutes this.
LoadedCounted == \A p \in Procs \ {initproc} : \A i \in DOMAIN sys_getwmapinfo(p) : Agree(p, i)

\* getpgdirinfo's n_upages is "the number of allocated physical pages in the process's
\* user address space", says wmap.h: none of those in the window is left out.  TLC
\* refutes this.
UpagesCounted == \A p \in Procs : sys_getpgdirinfo(p) = Upages(p)

\* Unless something not in X has happened: when the file has no mapping any more it
\* contains what was stored through them, but for pages behind a gap, which writei refuses.
Current(X) ==
  \/ ~(upset \subseteq X) \/ m.halted \/ \E h \in Holders : h[2] # 0
  \/ \A k \in FilePages : k < m.file.size => m.file.page[k] = last[k]

\* After its last mapping has been removed with wunmap, a file that can be written
\* contains what was stored through it.
StoresReachFile == writable => Current({})

\* The same of a file that was opened for reading only: at a page that is dirty wunmap's
\* comment says it is written back to the file.  TLC refutes this.
DirtyWrittenBack == Current({})

\* The same where exit removes mappings, which has that comment too.  TLC refutes this.
ExitWritesBack == Current({"exited"})

\* A process that calls exit becomes a zombie, as the comment at exit says, unless the
\* kernel panics.
ExitEnds ==
  \A p \in Procs : (m.proc[p].state = "EXITING") ~> (m.proc[p].state = "ZOMBIE" \/ m.halted)
=============================================================================

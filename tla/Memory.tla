------------------------------- MODULE Memory -------------------------------
(***************************************************************************)
(* p5's memory: the page allocator (kalloc.c), address spaces (vm.c) and   *)
(* the table uvmrefcount that counts the threads of an address space.      *)
(*                                                                         *)
(* Physical pages are counted, not named.  An address space is the set of  *)
(* its mapped user pages and costs one page more for its page directory;   *)
(* page tables are left out.  All operators map a value of vm to the next. *)
(***************************************************************************)
EXTENDS Integers, FiniteSets, FiniteSetsExt

CONSTANTS NPAGES,              \* pages kinit gives to the allocator
          NUVM                 \* entries of uvmrefcount (NPROC), and address spaces

VARIABLE vm                    \* [free, pg, uvm, raced]

Spaces == 1 .. NUVM
NoSpace == [used |-> FALSE, pages |-> {}]
FreeDesc == [refcount |-> -1, pgdir |-> 0]

\* kinit and pinit.
EmptyMemory == [free |-> NPAGES, pg |-> [d \in Spaces |-> NoSpace],
                uvm |-> [i \in Spaces |-> FreeDesc], raced |-> FALSE]

kalloc(v, n) == [v EXCEPT !.free = @ - n]
kfree(v, n)  == [v EXCEPT !.free = @ + n]

\* The page directory setupkvm would return.
FreshSpace(v) == Min({d \in Spaces : ~v.pg[d].used})

\* setupkvm and the pages 0 .. n - 1, when 1 + n pages are free.
NewSpace(v, n) == [kalloc(v, n + 1) EXCEPT !.pg[FreshSpace(v)] =
                     [used |-> TRUE, pages |-> 0 .. n - 1]]

\* allocuvm from page old to page new, when the pages are free; if they are not, it
\* takes back what it has allocated and nothing changes.
allocuvm(v, d, old, new) ==
  [kalloc(v, new - old) EXCEPT !.pg[d].pages = @ \cup (old .. new - 1)]

deallocuvm(v, d, old, new) ==
  LET gone == v.pg[d].pages \cap (new .. old - 1)
  IN  [kfree(v, Cardinality(gone)) EXCEPT !.pg[d].pages = @ \ gone]

locate_uvmrefcount(v, d) == {i \in Spaces : v.uvm[i].refcount # -1 /\ v.uvm[i].pgdir = d}
allocate_uvmrefcount(v) == {i \in Spaces : v.uvm[i].refcount = -1}

\* freevm: only the last thread's call frees the address space.
freevm(v, d) ==
  LET i == Min(locate_uvmrefcount(v, d))
      counted == locate_uvmrefcount(v, d) # {}
      gone == [kfree(v, 1 + Cardinality(v.pg[d].pages)) EXCEPT !.pg[d] = NoSpace]
  IN  IF counted /\ v.uvm[i].refcount # 1 THEN [v EXCEPT !.uvm[i].refcount = @ - 1]
      ELSE IF counted THEN [gone EXCEPT !.uvm[i] = FreeDesc]
      ELSE gone
=============================================================================
